----------------------------- MODULE AckmProofs -----------------------------
(***************************************************************************)
(* Proofs about Ackm, for every packet threshold, backoff, delay, estimate *)
(* and number of packets, and for an endpoint of either role.              *)
(***************************************************************************)
EXTENDS Ackm, Extrema

USE DEF Spaces, INITIAL, HANDSHAKE, APP

(* The inductive invariant, as predicates on a state s of the ACK manager, *)
(* an instant t, the spaces K with keys and the next packet numbers N.     *)

Pkts(t) == [sp : Spaces, pn : 0 .. MaxPkts - 1, time : 1 .. t,
            kind : {"ae", "pad", "ack"}]
Managers(t) ==
    [isServer : Roles, sent : SUBSET Pkts(t), bytes : Int, ae : [Spaces -> Int],
     largestAcked : [Spaces -> None .. MaxPkts - 1],
     lastAe : [Spaces -> 0 .. t], lossTime : [Spaces -> 0 .. Infinite - 1],
     deadline : 0 .. Infinite, ptoCount : Nat,
     discarded : SUBSET {INITIAL, HANDSHAKE}, confirmed : BOOLEAN,
     peerValidated : BOOLEAN, rtt : Estimates,
     antiDeadlock : [Spaces -> Nat], pto : [Spaces -> Nat]]

\* The counters are those of the packets H.
CountedAs(s, H) ==
    /\ IsFiniteSet(H)
    /\ s.bytes = Cardinality(InFlight(H))
    /\ \A sp \in Spaces : s.ae[sp] = Cardinality(Eliciting({p \in H : p.sp = sp}))

\* The history holds nothing of a discarded space; the counters are those of
\* its packets; what is in flight has a time of sending.
Counted(s) ==
    /\ CountedAs(s, s.sent)
    /\ \A p \in s.sent : p.sp \notin s.discarded
    /\ \A sp \in Spaces : s.ae[sp] > 0 => s.lastAe[sp] # 0

\* How far the handshake is.  Only a client sends application data before the
\* handshake is confirmed, and it has sent its Finished by then, so that there
\* is a Handshake packet to compute a probe timeout from.
Staged(s, K) ==
    /\ \A sp \in Spaces : s.lastAe[sp] # 0 => sp \in K \ s.discarded
    /\ INITIAL \in K
    /\ s.isServer \/ INITIAL \in s.discarded \/ s.peerValidated => HANDSHAKE \in K
    /\ HANDSHAKE \in s.discarded => s.confirmed
    /\ s.confirmed => s.peerValidated
    /\ APP \in K /\ ~s.confirmed => ~s.isServer /\ s.lastAe[HANDSHAKE] # 0

\* TimerArmed and TimeoutAssertion.
Armed(s, N) ==
    (\/ Eliciting(s.sent) # {}
     \/ ~s.isServer /\ ~s.peerValidated /\ N[INITIAL] > 0)
        => s.deadline \notin {0, Infinite}
Asserted(s) ==
    s.deadline # 0 /\ s.lossTime[LossSpace(s)] = 0 /\ AeInFlight(s) = 0
        => ~s.peerValidated

IInv ==
    /\ now \in 1 .. MaxTime /\ nextPn \in [Spaces -> 0 .. MaxPkts]
    /\ keys \subseteq Spaces /\ retried \in BOOLEAN
    /\ m \in Managers(now)
    /\ \A p \in m.sent : p.pn < nextPn[p.sp]
    /\ Counted(m) /\ Staged(m, keys) /\ Armed(m, nextPn) /\ Asserted(m)

-----------------------------------------------------------------------------
(* Delays.                                                                 *)

\* Products of delays grow with their factors.
LEMMA Products ==
    ASSUME NEW a \in Nat, NEW b \in Nat, NEW c \in Nat, NEW d \in Nat,
           a <= b, c <= d
    PROVE  a * c \in Nat /\ a * c <= b * d
<1>1. a * c <= b * c
  OBVIOUS
<1>2. b * c <= b * d
  OBVIOUS
<1> QED BY <1>1, <1>2

\* Powers of two grow with the exponent: so do the subsets of 1 .. n.
LEMMA Powers ==
    ASSUME NEW a \in Nat, NEW b \in Nat, a <= b
    PROVE  2 ^ a \in Nat /\ 2 ^ a >= 1 /\ 2 ^ a <= 2 ^ b
<1> DEFINE A == SUBSET (1 .. a)
           B == SUBSET (1 .. b)
<1>1. /\ IsFiniteSet(1 .. a) /\ Cardinality(1 .. a) = a
      /\ IsFiniteSet(1 .. b) /\ Cardinality(1 .. b) = b
  BY FS_Interval
<1>2. /\ IsFiniteSet(A) /\ Cardinality(A) = 2 ^ a
      /\ IsFiniteSet(B) /\ Cardinality(B) = 2 ^ b
  BY <1>1, FS_SUBSET
<1>3. A \in SUBSET B /\ A # {}
  <2>1. 1 .. a \subseteq 1 .. b
    OBVIOUS
  <2>2. {} \in A
    OBVIOUS
  <2> QED BY <2>1, <2>2
<1> HIDE DEF A, B
<1>4. Cardinality(A) \in Nat /\ Cardinality(A) <= Cardinality(B) /\ Cardinality(A) # 0
  BY <1>2, <1>3, FS_Subset, FS_CardinalityType, FS_EmptySet
<1> QED BY <1>2, <1>4

\* No estimate holds a longer delay.
LEMMA LongestFacts ==
    /\ LongestDelay \in Nat
    /\ \A e \in Estimates : /\ e[1] \in Nat \ {0} /\ e[1] <= LongestDelay
                            /\ e[2] \in Nat \ {0} /\ e[2] <= LongestDelay
<1> DEFINE T == {e[1] + e[2] : e \in Estimates}
           f == [e \in Estimates |-> e[1] + e[2]]
<1>1. \A e \in Estimates : e[1] \in Nat \ {0} /\ e[2] \in Nat \ {0}
  BY AckmConstants
<1>2. IsFiniteSet(Estimates) /\ T # {}
  BY AckmConstants
<1>3. f \in Surjection(Estimates, T)
  BY DEF Surjection
<1>4. IsFiniteSet(T)
  <2> HIDE DEF T, f
  <2> QED BY <1>2, <1>3, FS_Surjection
<1>5. T \subseteq Int
  BY <1>1
<1>6. \E d \in T : \A x \in T : x <= d
  <2> HIDE DEF T
  <2> QED BY <1>2, <1>4, <1>5, HasLargest
<1>7. LongestDelay \in T /\ \A e \in Estimates : e[1] + e[2] <= LongestDelay
  BY <1>6 DEF LongestDelay
<1>8. LongestDelay \in Nat
  BY <1>1, <1>7
<1> QED BY <1>1, <1>7, <1>8

\* Infinite is later than any instant a loss delay or a probe timeout leads to.
LEMMA InfiniteFacts ==
    ASSUME NEW t \in 0 .. MaxTime, NEW e \in Estimates, NEW b \in Nat,
           b >= 1, b <= 2 ^ MaxPtoCount
    PROVE  /\ Infinite \in Nat /\ Infinite >= 1
           /\ t + e[1] \in 1 .. Infinite - 1
           /\ t + e[2] * b \in 1 .. Infinite - 1
           /\ t + e[2] * b + MaxAckDelay * b \in 1 .. Infinite - 1
<1> DEFINE P == 2 ^ MaxPtoCount
           L == LongestDelay
           I == P * (MaxAckDelay + L)
           x == e[2] * b
           y == MaxAckDelay * b
<1>1. P \in Nat /\ P >= 1 /\ b <= P
  BY Powers, AckmConstants
<1>2. /\ L \in Nat /\ e[1] \in Nat \ {0} /\ e[1] <= L
      /\ e[2] \in Nat \ {0} /\ e[2] <= L
  BY LongestFacts
<1>3. MaxAckDelay \in Nat /\ MaxTime \in Nat \ {0}
  BY AckmConstants
<1>4. Infinite = 2 * MaxTime + I
  BY DEF Infinite
<1> HIDE DEF P, L
<1>5. I = MaxAckDelay * P + L * P
  BY <1>1, <1>2, <1>3
<1>6. x \in Nat /\ x <= L * P /\ y \in Nat /\ y <= MaxAckDelay * P
  BY <1>1, <1>2, <1>3, Products
<1>7. x >= 1
  BY <1>2
<1>8. L * P \in Nat /\ L <= L * P /\ MaxAckDelay * P \in Nat
  BY <1>1, <1>2, <1>3
<1> DEFINE LP == L * P
           MP == MaxAckDelay * P
<1> HIDE DEF I, x, y, LP, MP
<1>9. /\ Infinite \in Nat /\ Infinite >= 1
      /\ t + e[1] \in 1 .. Infinite - 1
      /\ t + x \in 1 .. Infinite - 1
      /\ t + x + y \in 1 .. Infinite - 1
  <2>1. /\ I = MP + LP /\ x \in Nat /\ x <= LP /\ y \in Nat /\ y <= MP
        /\ LP \in Nat /\ L <= LP /\ MP \in Nat
    BY <1>5, <1>6, <1>8 DEF LP, MP
  <2> QED BY <1>2, <1>3, <1>4, <1>7, <2>1
<1> QED BY <1>9 DEF x, y

\* Infinite is a positive number.
LEMMA InfiniteType == Infinite \in Nat /\ Infinite >= 1
<1>1. PICK e \in Estimates : TRUE
  BY AckmConstants
<1>2. 1 <= 2 ^ MaxPtoCount /\ 0 \in 0 .. MaxTime
  BY Powers, AckmConstants
<1> QED BY <1>1, <1>2, InfiniteFacts

-----------------------------------------------------------------------------
(* The timer.                                                              *)

\* The backoff is a power of two within the cap of MAX_PTO_COUNT.
LEMMA BackoffFacts ==
    ASSUME NEW s, s.ptoCount \in Nat
    PROVE  Backoff(s) \in Nat /\ Backoff(s) >= 1 /\ Backoff(s) <= 2 ^ MaxPtoCount
<1> DEFINE k == IF s.ptoCount < MaxPtoCount THEN s.ptoCount ELSE MaxPtoCount
<1>1. k \in Nat /\ MaxPtoCount \in Nat /\ k <= MaxPtoCount
  BY AckmConstants
<1>2. Backoff(s) = 2 ^ k
  BY DEF Backoff
<1> HIDE DEF k
<1> QED BY <1>1, <1>2, Powers

\* ackm_get_loss_time_and_space names a space.
LEMMA LossSpaceType == ASSUME NEW s PROVE LossSpace(s) \in Spaces
  BY DEF LossSpace, Earlier

\* The end of a probe timeout is an instant that comes.
LEMMA PtoEndFacts ==
    ASSUME NEW t \in 1 .. MaxTime, NEW s \in Managers(t), NEW sp \in Spaces
    PROVE  PtoEnd(s, sp) \in 1 .. Infinite - 1
<1> DEFINE b == Backoff(s)
           l == s.lastAe[sp]
           e == s.rtt
<1>1. b \in Nat /\ b >= 1 /\ b <= 2 ^ MaxPtoCount
  BY BackoffFacts DEF Managers
<1>2. l \in 0 .. MaxTime /\ e \in Estimates
  BY AckmConstants DEF Managers
<1>3. PtoEnd(s, sp) = l + e[2] * b + (IF sp = APP THEN MaxAckDelay * b ELSE 0)
  BY DEF PtoEnd, PtoDuration
<1> HIDE DEF b, l, e
<1>4. /\ l + e[2] * b \in 1 .. Infinite - 1
      /\ l + e[2] * b + MaxAckDelay * b \in 1 .. Infinite - 1
  BY <1>1, <1>2, InfiniteFacts
<1>5. CASE sp = APP
  BY <1>3, <1>4, <1>5
<1>6. CASE sp # APP
  BY <1>3, <1>4, <1>6
<1> QED BY <1>5, <1>6

\* Of the candidates of ackm_get_pto_time_and_space one is first.
LEMMA PtoSpaceFacts ==
    ASSUME NEW t \in 1 .. MaxTime, NEW s \in Managers(t)
    PROVE  /\ PtoSpace(s) \in Spaces
           /\ PtoCandidates(s) # {} => PtoSpace(s) \in PtoCandidates(s)
<1> DEFINE C == PtoCandidates(s)
           First(sp) == \A q \in C : \/ PtoEnd(s, sp) < PtoEnd(s, q)
                                     \/ PtoEnd(s, sp) = PtoEnd(s, q) /\ sp <= q
<1>1. C \subseteq Spaces
  BY DEF PtoCandidates
<1>2. \A sp \in Spaces : PtoEnd(s, sp) \in Int
  BY PtoEndFacts
<1>3. PtoSpace(s) = IF C = {} THEN INITIAL ELSE CHOOSE sp \in C : First(sp)
  BY DEF PtoSpace
<1> HIDE DEF C
<1>4. C # {} => \E sp \in C : First(sp)
  <2> DEFINE x == PtoEnd(s, INITIAL)
             y == PtoEnd(s, HANDSHAKE)
             z == PtoEnd(s, APP)
  <2>1. x \in Int /\ y \in Int /\ z \in Int
    BY <1>2
  <2>2. /\ First(INITIAL) <=> /\ HANDSHAKE \in C => x <= y
                              /\ APP \in C => x <= z
        /\ First(HANDSHAKE) <=> /\ INITIAL \in C => y < x
                                /\ APP \in C => y <= z
        /\ First(APP) <=> /\ INITIAL \in C => z < x
                          /\ HANDSHAKE \in C => z < y
    BY <1>1, <2>1
  <2>3. C # {} => INITIAL \in C \/ HANDSHAKE \in C \/ APP \in C
    BY <1>1
  <2> HIDE DEF First, x, y, z
  <2>4. C # {} => \/ INITIAL \in C /\ First(INITIAL)
                  \/ HANDSHAKE \in C /\ First(HANDSHAKE)
                  \/ APP \in C /\ First(APP)
    BY <2>1, <2>2, <2>3
  <2> QED BY <2>4
<1> HIDE DEF First
<1>5. C # {} => PtoSpace(s) \in C
  BY <1>3, <1>4, Zenon
<1> QED BY <1>1, <1>3, <1>5 DEF C

\* A probe timeout ends at an instant that comes unless there is none.
LEMMA PtoTimeFacts ==
    ASSUME now \in 1 .. MaxTime, NEW s \in Managers(now)
    PROVE  /\ PtoTime(s) \in 1 .. Infinite
           /\ AeInFlight(s) = 0 \/ PtoCandidates(s) # {}
                => PtoTime(s) \in 1 .. Infinite - 1
<1>1. Backoff(s) \in Nat /\ Backoff(s) >= 1 /\ Backoff(s) <= 2 ^ MaxPtoCount
  BY BackoffFacts DEF Managers
<1>2. /\ now + PtoDuration(s) \in 1 .. Infinite - 1
      /\ Infinite \in Nat /\ Infinite >= 1
  <2> DEFINE b == Backoff(s)
             e == s.rtt
  <2>1. now \in 0 .. MaxTime /\ e \in Estimates
    BY AckmConstants DEF Managers
  <2>2. PtoDuration(s) = e[2] * b
    BY DEF PtoDuration
  <2> HIDE DEF b, e
  <2> QED BY <1>1, <2>1, <2>2, InfiniteFacts DEF b
<1>3. PtoEnd(s, PtoSpace(s)) \in 1 .. Infinite - 1
  BY PtoSpaceFacts, PtoEndFacts
<1> QED BY <1>2, <1>3 DEF PtoTime

\* ackm_set_loss_detection_timer changes the deadline only.
LEMMA SetTimerType ==
    ASSUME now \in 1 .. MaxTime, NEW s \in Managers(now)
    PROVE  \E d \in 0 .. Infinite :
              /\ SetTimer(s) = [s EXCEPT !.deadline = d]
              /\ s.lossTime[LossSpace(s)] # 0 => d = s.lossTime[LossSpace(s)]
              /\ s.lossTime[LossSpace(s)] = 0 /\ AeInFlight(s) = 0 /\ s.peerValidated
                   => d = 0
              /\ s.lossTime[LossSpace(s)] = 0 /\ ~(AeInFlight(s) = 0 /\ s.peerValidated)
                   => d = PtoTime(s)
<1> DEFINE l == s.lossTime[LossSpace(s)]
           d == IF l # 0 THEN l
                ELSE IF AeInFlight(s) = 0 /\ s.peerValidated THEN 0 ELSE PtoTime(s)
<1>1. l \in 0 .. Infinite - 1 /\ PtoTime(s) \in 1 .. Infinite
  BY LossSpaceType, PtoTimeFacts DEF Managers
<1>2. d \in 0 .. Infinite
  BY <1>1, InfiniteType
<1>3. SetTimer(s) = [s EXCEPT !.deadline = d]
  BY DEF SetTimer
<1> QED BY <1>2, <1>3

\* So it keeps everything that is not about the deadline.
LEMMA SetTimerKeeps ==
    ASSUME now \in 1 .. MaxTime, NEW s \in Managers(now)
    PROVE  /\ SetTimer(s) \in Managers(now)
           /\ Counted(s) => Counted(SetTimer(s))
           /\ \A K : Staged(s, K) => Staged(SetTimer(s), K)
           /\ SetTimer(s).sent = s.sent /\ SetTimer(s).ptoCount = s.ptoCount
           /\ SetTimer(s).isServer = s.isServer /\ SetTimer(s).lastAe = s.lastAe
           /\ SetTimer(s).discarded = s.discarded
           /\ SetTimer(s).confirmed = s.confirmed
           /\ SetTimer(s).peerValidated = s.peerValidated
           /\ SetTimer(s).pto = s.pto /\ SetTimer(s).antiDeadlock = s.antiDeadlock
           /\ SetTimer(s).ae = s.ae /\ SetTimer(s).lossTime = s.lossTime
<1>1. PICK d \in 0 .. Infinite : SetTimer(s) = [s EXCEPT !.deadline = d]
  BY SetTimerType
<1> DEFINE r == [s EXCEPT !.deadline = d]
<1>2. /\ r \in Managers(now)
      /\ r.sent = s.sent /\ r.ptoCount = s.ptoCount
      /\ r.isServer = s.isServer /\ r.lastAe = s.lastAe
      /\ r.discarded = s.discarded /\ r.confirmed = s.confirmed
      /\ r.peerValidated = s.peerValidated
      /\ r.pto = s.pto /\ r.antiDeadlock = s.antiDeadlock
      /\ r.ae = s.ae /\ r.lossTime = s.lossTime /\ r.bytes = s.bytes
  BY DEF Managers
<1> HIDE DEF r
<1>3. SetTimer(s) = r
  BY <1>1 DEF r
<1>4. Counted(s) => Counted(r)
  BY <1>2 DEF Counted, CountedAs
<1>5. \A K : Staged(s, K) => Staged(r, K)
  BY <1>2 DEF Staged
<1> QED BY <1>2, <1>3, <1>4, <1>5

\* ackm_ack_eliciting_bytes_in_flight tells whether something is in flight.
LEMMA ElicitingFacts ==
    ASSUME NEW s, NEW H, s.sent = H, CountedAs(s, H), \A p \in H : p.sp \in Spaces
    PROVE  /\ \A sp \in Spaces : s.ae[sp] \in Nat
           /\ Eliciting(s.sent) # {} => AeInFlight(s) # 0
           /\ AeInFlight(s) # 0 => \E sp \in Spaces : s.ae[sp] > 0
<1>1. \A sp \in Spaces :
        /\ s.ae[sp] \in Nat
        /\ s.ae[sp] = 0 => Eliciting({p \in H : p.sp = sp}) = {}
  <2> SUFFICES ASSUME NEW sp \in Spaces
               PROVE  /\ s.ae[sp] \in Nat
                      /\ s.ae[sp] = 0 => Eliciting({p \in H : p.sp = sp}) = {}
    OBVIOUS
  <2> DEFINE E == Eliciting({p \in H : p.sp = sp})
  <2>1. E \in SUBSET H
    BY DEF Eliciting
  <2>2. s.ae[sp] = Cardinality(E) /\ IsFiniteSet(H)
    BY DEF CountedAs
  <2> HIDE DEF E
  <2>3. IsFiniteSet(E)
    BY <2>1, <2>2, FS_Subset
  <2> QED BY <2>2, <2>3, FS_CardinalityType, FS_EmptySet DEF E
<1>2. AeInFlight(s) = s.ae[INITIAL] + s.ae[HANDSHAKE] + s.ae[APP]
  BY DEF AeInFlight
<1>3. ASSUME NEW p \in Eliciting(s.sent), AeInFlight(s) = 0 PROVE FALSE
  <2>1. p \in H /\ p.sp \in Spaces /\ p \in Eliciting({q \in H : q.sp = p.sp})
    BY <1>3 DEF Eliciting
  <2>2. s.ae[INITIAL] = 0 /\ s.ae[HANDSHAKE] = 0 /\ s.ae[APP] = 0
    <3> DEFINE x == s.ae[INITIAL]
               y == s.ae[HANDSHAKE]
               z == s.ae[APP]
    <3>1. x \in Nat /\ y \in Nat /\ z \in Nat /\ x + y + z = 0
      BY <1>1, <1>2, <1>3
    <3> HIDE DEF x, y, z
    <3>2. x = 0 /\ y = 0 /\ z = 0
      BY <3>1
    <3> QED BY <3>2 DEF x, y, z
  <2> QED BY <1>1, <2>1, <2>2
<1>4. AeInFlight(s) # 0 => \E sp \in Spaces : s.ae[sp] > 0
  BY <1>1, <1>2
<1> QED BY <1>1, <1>3, <1>4

\* With something in flight there is a space to compute a probe timeout from:
\* before the handshake is confirmed a client has its Finished for that.
LEMMA CandidateExists ==
    ASSUME NEW t, NEW s \in Managers(t), NEW K, Counted(s), Staged(s, K),
           AeInFlight(s) # 0
    PROVE  PtoCandidates(s) # {}
<1>1. \A p \in s.sent : p.sp \in Spaces
  BY DEF Managers, Pkts
<1>2. PICK sp \in Spaces : s.ae[sp] > 0
  BY <1>1, ElicitingFacts DEF Counted
<1>3. s.lastAe[sp] # 0 /\ sp \in K
  BY <1>2 DEF Counted, Staged
<1>4. CASE sp # APP \/ s.confirmed
  BY <1>2, <1>3, <1>4 DEF PtoCandidates
<1>5. CASE sp = APP /\ ~s.confirmed
  <2>1. ~s.isServer /\ s.lastAe[HANDSHAKE] # 0
    BY <1>3, <1>5 DEF Staged
  <2>2. HANDSHAKE \in PtoCandidates(s)
    BY <1>5, <2>1 DEF PtoCandidates
  <2> QED BY <2>2
<1> QED BY <1>4, <1>5

\* The timer is armed whenever it has been set anew, and only for a reason
\* that the assertion of ossl_ackm_on_timeout accepts.
LEMMA SetTimerArms ==
    ASSUME now \in 1 .. MaxTime, NEW s \in Managers(now), NEW K,
           Counted(s), Staged(s, K)
    PROVE  /\ \A N : Armed(SetTimer(s), N)
           /\ Asserted(SetTimer(s))
<1> DEFINE r == SetTimer(s)
           l == s.lossTime[LossSpace(s)]
<1>1. PICK d \in 0 .. Infinite :
         /\ SetTimer(s) = [s EXCEPT !.deadline = d]
         /\ l # 0 => d = l
         /\ l = 0 /\ AeInFlight(s) = 0 /\ s.peerValidated => d = 0
         /\ l = 0 /\ ~(AeInFlight(s) = 0 /\ s.peerValidated) => d = PtoTime(s)
  BY SetTimerType
<1>2. r.deadline = d
  BY <1>1 DEF Managers
<1>3. /\ r.sent = s.sent /\ r.isServer = s.isServer
      /\ r.peerValidated = s.peerValidated
      /\ r.ae = s.ae /\ r.lossTime = s.lossTime
  BY SetTimerKeeps
<1> HIDE DEF r
<1>4. LossSpace(r) = LossSpace(s) /\ AeInFlight(r) = AeInFlight(s)
  BY <1>3 DEF LossSpace, Earlier, AeInFlight
<1>5. Asserted(r)
  BY <1>1, <1>2, <1>3, <1>4 DEF Asserted
<1>6. AeInFlight(s) # 0 \/ ~s.peerValidated => d \notin {0, Infinite}
  <2>1. l \in 0 .. Infinite - 1 /\ Infinite \in Nat
    BY LossSpaceType, InfiniteType DEF Managers
  <2>2. PtoTime(s) \in 1 .. Infinite - 1
    BY CandidateExists, PtoTimeFacts
  <2> QED BY <1>1, <2>1, <2>2
<1>7. Eliciting(s.sent) # {} => AeInFlight(s) # 0
  <2>1. \A p \in s.sent : p.sp \in Spaces
    BY DEF Managers, Pkts
  <2> QED BY <2>1, ElicitingFacts DEF Counted
<1>8. \A N : Armed(r, N)
  BY <1>2, <1>3, <1>6, <1>7 DEF Armed
<1> QED BY <1>5, <1>8 DEF r

-----------------------------------------------------------------------------
(* Packets leave the history.                                              *)

\* The counters follow packets that are acknowledged or lost.
LEMMA RemovedCounts ==
    ASSUME NEW t, NEW s \in Managers(t), NEW H, CountedAs(s, H), NEW sp \in Spaces,
           NEW P \in SUBSET H, \A p \in P : p.sp = sp
    PROVE  /\ Removed(s, sp, P) \in Managers(t)
           /\ Removed(s, sp, P).sent = s.sent \ P
           /\ CountedAs(Removed(s, sp, P), H \ P)
           /\ \A q \in Spaces : Removed(s, sp, P).ae[q] <= s.ae[q]
<1> DEFINE r == Removed(s, sp, P)
           E(q) == Eliciting({p \in H : p.sp = q})
           F(q) == Eliciting({p \in H \ P : p.sp = q})
           b == s.bytes - Cardinality(InFlight(P))
           a == s.ae[sp] - Cardinality(Eliciting(P))
<1>1. r = [s EXCEPT !.sent = s.sent \ P, !.bytes = b, !.ae[sp] = a]
  BY DEF Removed
<1>2. /\ IsFiniteSet(H) /\ InFlight(H) \in SUBSET H /\ InFlight(P) \in SUBSET H
      /\ Eliciting(P) \in SUBSET H /\ \A q \in Spaces : E(q) \in SUBSET H
      /\ InFlight(H) \cap InFlight(P) = InFlight(P)
      /\ E(sp) \cap Eliciting(P) = Eliciting(P)
      /\ InFlight(H \ P) = InFlight(H) \ InFlight(P)
      /\ F(sp) = E(sp) \ Eliciting(P)
      /\ \A q \in Spaces \ {sp} : F(q) = E(q)
  BY DEF CountedAs, InFlight, Eliciting
<1>3. s.bytes = Cardinality(InFlight(H)) /\ \A q \in Spaces : s.ae[q] = Cardinality(E(q))
  BY DEF CountedAs
<1> HIDE DEF E, F
<1>4. /\ IsFiniteSet(InFlight(H)) /\ IsFiniteSet(InFlight(P))
      /\ IsFiniteSet(Eliciting(P)) /\ \A q \in Spaces : IsFiniteSet(E(q))
      /\ IsFiniteSet(H \ P)
  BY <1>2, FS_Subset
<1>5. /\ Cardinality(InFlight(H)) \in Nat /\ Cardinality(InFlight(P)) \in Nat
      /\ Cardinality(Eliciting(P)) \in Nat
      /\ \A q \in Spaces : Cardinality(E(q)) \in Nat
  BY <1>4, FS_CardinalityType
<1>6. Cardinality(InFlight(H \ P)) = b
  <2>1. Cardinality(InFlight(H) \ InFlight(P))
          = Cardinality(InFlight(H)) - Cardinality(InFlight(H) \cap InFlight(P))
    BY <1>4, FS_Difference
  <2> QED BY <1>2, <1>3, <2>1
<1>7. Cardinality(F(sp)) = a
  <2>1. Cardinality(E(sp) \ Eliciting(P))
          = Cardinality(E(sp)) - Cardinality(E(sp) \cap Eliciting(P))
    BY <1>4, FS_Difference
  <2> QED BY <1>2, <1>3, <2>1
<1>8. a \in Int /\ b \in Int /\ a <= s.ae[sp]
  BY <1>3, <1>5
<1> HIDE DEF a, b
<1>9. /\ s.ae \in [Spaces -> Int] /\ s.sent \in SUBSET Pkts(t)
      /\ s.sent \ P \in SUBSET Pkts(t)
  BY DEF Managers
<1>10. r \in Managers(t)
  <2> DEFINE ae == [s.ae EXCEPT ![sp] = a]
  <2>1. ae \in [Spaces -> Int]
    BY <1>8, <1>9
  <2>2. r = [s EXCEPT !.sent = s.sent \ P, !.bytes = b, !.ae = ae]
    BY <1>1 DEF Managers
  <2> HIDE DEF ae, r
  <2> QED BY <1>8, <1>9, <2>1, <2>2 DEF Managers
<1>11. /\ r.sent = s.sent \ P /\ r.bytes = b /\ r.ae[sp] = a
       /\ \A q \in Spaces \ {sp} : r.ae[q] = s.ae[q]
  BY <1>1, <1>9 DEF Managers
<1> HIDE DEF r
<1>12. CountedAs(r, H \ P)
  <2>1. \A q \in Spaces : r.ae[q] = Cardinality(F(q))
    BY <1>2, <1>3, <1>7, <1>11
  <2> QED BY <1>4, <1>6, <1>11, <2>1 DEF CountedAs, F
<1>13. \A q \in Spaces : r.ae[q] <= s.ae[q]
  BY <1>3, <1>5, <1>8, <1>11
<1> QED BY <1>10, <1>11, <1>12, <1>13 DEF r

\* What a removal or a detection of losses leaves as it is.
Alike(s, r) ==
    /\ r.isServer = s.isServer /\ r.lastAe = s.lastAe /\ r.discarded = s.discarded
    /\ r.confirmed = s.confirmed /\ r.peerValidated = s.peerValidated
    /\ r.pto = s.pto /\ r.antiDeadlock = s.antiDeadlock /\ r.ptoCount = s.ptoCount
    /\ r.deadline = s.deadline

\* A removal touches the history and its counters only.
LEMMA RemovedAlike ==
    ASSUME NEW t, NEW s \in Managers(t), NEW sp \in Spaces, NEW P
    PROVE  Alike(s, Removed(s, sp, P)) /\ Removed(s, sp, P).lossTime = s.lossTime
<1> DEFINE a == [s.ae EXCEPT ![sp] = s.ae[sp] - Cardinality(Eliciting(P))]
           b == s.bytes - Cardinality(InFlight(P))
           h == s.sent \ P
<1>1. Removed(s, sp, P) = [s EXCEPT !.sent = h, !.bytes = b, !.ae = a]
  BY DEF Removed, Managers
<1> HIDE DEF a, b, h
<1> QED BY <1>1 DEF Managers, Alike

\* Whatever leaves the history, the rest of the invariant about it stays.
LEMMA FewerCounted ==
    ASSUME NEW s, NEW r, Counted(s), Alike(s, r), r.sent \subseteq s.sent,
           CountedAs(r, r.sent), \A q \in Spaces : r.ae[q] <= s.ae[q],
           \A p \in s.sent : p.sp \in Spaces
    PROVE  Counted(r)
<1>1. \A p \in r.sent : p.sp \in Spaces
  OBVIOUS
<1>2. \A q \in Spaces : r.ae[q] \in Nat /\ s.ae[q] \in Nat
  BY <1>1, ElicitingFacts DEF Counted
<1> QED BY <1>2 DEF Counted, Alike

\* ackm_detect_and_remove_lost_pkts with ackm_on_pkts_lost: the loss time of
\* the space is that of the first packet still to be lost.
LEMMA DetectLostFacts ==
    ASSUME now \in 1 .. MaxTime, NEW s \in Managers(now), NEW H, CountedAs(s, H),
           s.sent \subseteq H, NEW sp \in Spaces
    PROVE  /\ DetectLost(s, sp) \in Managers(now) /\ Alike(s, DetectLost(s, sp))
           /\ \A q \in Spaces : DetectLost(s, sp).ae[q] <= s.ae[q]
           /\ \E lost \in SUBSET Of(s, sp) :
                 /\ DetectLost(s, sp).sent = s.sent \ lost
                 /\ CountedAs(DetectLost(s, sp), H \ lost)
<1> DEFINE below == {p \in Of(s, sp) : p.pn <= s.largestAcked[sp]}
           lost == {p \in below : \/ p.time + s.rtt[1] <= now
                                  \/ s.largestAcked[sp] >= p.pn + PktThreshold}
           due == {p.time + s.rtt[1] : p \in below \ lost}
           lt == IF due = {} THEN 0 ELSE CHOOSE t \in due : \A u \in due : t <= u
           s1 == [s EXCEPT !.lossTime[sp] = lt]
           lts == [s.lossTime EXCEPT ![sp] = lt]
           r == DetectLost(s, sp)
<1>1. r = Removed(s1, sp, lost)
  BY DEF DetectLost
<1>2. due \subseteq 1 .. Infinite - 1
  <2> SUFFICES ASSUME NEW p \in below PROVE p.time + s.rtt[1] \in 1 .. Infinite - 1
    OBVIOUS
  <2>1. p.time \in 0 .. MaxTime /\ s.rtt \in Estimates
    BY AckmConstants DEF Of, Managers, Pkts
  <2>2. 1 \in Nat /\ 1 >= 1 /\ 1 <= 2 ^ MaxPtoCount
    BY Powers, AckmConstants
  <2> QED BY <2>1, <2>2, InfiniteFacts
<1>3. lost \in SUBSET Of(s, sp) /\ \A p \in lost : p.sp = sp /\ p \in s.sent
  BY DEF Of
<1> HIDE DEF lost, due, r
<1>4. lt \in 0 .. Infinite - 1
  <2>1. CASE due = {}
    BY <2>1, InfiniteType
  <2>2. CASE due # {}
    <3>1. IsFiniteSet(1 .. Infinite - 1)
      BY InfiniteType, FS_Interval
    <3>2. IsFiniteSet(due)
      BY <1>2, <3>1, FS_Subset
    <3> due \subseteq Int
      BY <1>2
    <3>3. \E t \in due : \A u \in due : t <= u
      BY <2>2, <3>2, HasSmallest
    <3>4. lt \in due
      BY <2>2, <3>3
    <3> HIDE DEF lt
    <3> QED BY <1>2, <3>4, InfiniteType
  <2> QED BY <2>1, <2>2
<1> HIDE DEF lt
<1>5. s1 \in Managers(now) /\ Alike(s, s1) /\ CountedAs(s1, H) /\ s1.sent = s.sent
      /\ s1.ae = s.ae
  <2>1. lts \in [Spaces -> 0 .. Infinite - 1]
    BY <1>4 DEF Managers
  <2>2. s1 = [s EXCEPT !.lossTime = lts]
    BY DEF Managers
  <2> HIDE DEF s1, lts
  <2>3. s1 \in Managers(now) /\ Alike(s, s1) /\ s1.sent = s.sent
        /\ s1.ae = s.ae /\ s1.bytes = s.bytes
    BY <2>1, <2>2 DEF Managers, Alike
  <2> QED BY <2>3 DEF CountedAs
<1> HIDE DEF s1
<1>6. lost \in SUBSET H /\ \A p \in lost : p.sp = sp
  BY <1>3
<1>7. /\ r \in Managers(now) /\ r.sent = s1.sent \ lost /\ CountedAs(r, H \ lost)
      /\ \A q \in Spaces : r.ae[q] <= s1.ae[q]
  <2>1. /\ Removed(s1, sp, lost) \in Managers(now)
        /\ Removed(s1, sp, lost).sent = s1.sent \ lost
        /\ CountedAs(Removed(s1, sp, lost), H \ lost)
        /\ \A q \in Spaces : Removed(s1, sp, lost).ae[q] <= s1.ae[q]
    <3>1. s1 \in Managers(now) /\ CountedAs(s1, H)
      BY <1>5
    <3>2. Removed(s1, sp, lost) \in Managers(now)
      BY <1>6, <3>1, RemovedCounts
    <3>3. Removed(s1, sp, lost).sent = s1.sent \ lost
      BY <3>1 DEF Removed, Managers
    <3>4. CountedAs(Removed(s1, sp, lost), H \ lost)
      BY <1>6, <3>1, RemovedCounts
    <3>5. \A q \in Spaces : Removed(s1, sp, lost).ae[q] <= s1.ae[q]
      BY <1>6, <3>1, RemovedCounts
    <3> QED BY <3>2, <3>3, <3>4, <3>5
  <2> QED BY <1>1, <2>1
<1>8. Alike(s, r)
  BY <1>1, <1>5, RemovedAlike DEF Alike
<1> QED BY <1>3, <1>5, <1>7, <1>8 DEF r

\* ossl_ackm_on_pkt_space_discarded before it sets the timer.
Dropped(s, sp) ==
    [s EXCEPT !.peerValidated = @ \/ sp = HANDSHAKE,
              !.sent = @ \ Of(s, sp),
              !.bytes = @ - Cardinality(InFlight(Of(s, sp))),
              !.ae[sp] = 0, !.lastAe[sp] = 0, !.lossTime[sp] = 0,
              !.ptoCount = 0, !.discarded = @ \cup {sp}]

\* A discarded space takes its packets out of the counters of the others.
LEMMA DroppedFacts ==
    ASSUME now \in 1 .. MaxTime, NEW s \in Managers(now), Counted(s),
           NEW sp \in {INITIAL, HANDSHAKE}
    PROVE  LET r == Dropped(s, sp)
           IN  /\ r \in Managers(now) /\ Counted(r)
               /\ r.sent \subseteq s.sent /\ r.isServer = s.isServer
               /\ r.confirmed = s.confirmed /\ r.discarded = s.discarded \cup {sp}
               /\ r.peerValidated = (s.peerValidated \/ sp = HANDSHAKE)
               /\ r.lastAe = [s.lastAe EXCEPT ![sp] = 0]
               /\ r.pto = s.pto /\ r.antiDeadlock = s.antiDeadlock
<1> DEFINE P == Of(s, sp)
           v == s.peerValidated \/ sp = HANDSHAKE
           h == s.sent \ P
           b == s.bytes - Cardinality(InFlight(P))
           a == [s.ae EXCEPT ![sp] = 0]
           l == [s.lastAe EXCEPT ![sp] = 0]
           lts == [s.lossTime EXCEPT ![sp] = 0]
           g == s.discarded \cup {sp}
           r == Dropped(s, sp)
<1>1. r = [s EXCEPT !.peerValidated = v, !.sent = h, !.bytes = b, !.ae = a,
                    !.lastAe = l, !.lossTime = lts, !.ptoCount = 0, !.discarded = g]
  BY DEF Dropped, Managers
<1>2. CountedAs(s, s.sent) /\ P \in SUBSET s.sent /\ \A p \in P : p.sp = sp
  BY DEF Counted, Of
<1>3. CountedAs(Removed(s, sp, P), h) /\ Removed(s, sp, P) \in Managers(now)
  BY <1>2, RemovedCounts
<1>4. Removed(s, sp, P).bytes = b
  BY DEF Removed, Managers
<1>5. b = Cardinality(InFlight(h)) /\ b \in Int /\ IsFiniteSet(h)
  BY <1>3, <1>4 DEF CountedAs, Managers
<1>6. \A p \in h : p.sp # sp
  BY DEF Of
<1>7. \A q \in Spaces : a[q] = Cardinality(Eliciting({p \in h : p.sp = q}))
  <2> SUFFICES ASSUME NEW q \in Spaces
               PROVE  a[q] = Cardinality(Eliciting({p \in h : p.sp = q}))
    OBVIOUS
  <2>1. CASE q = sp
    <3>1. Eliciting({p \in h : p.sp = q}) = {}
      BY <1>6, <2>1 DEF Eliciting
    <3>2. a[q] = 0
      BY <2>1 DEF Managers
    <3> QED BY <3>1, <3>2, FS_EmptySet
  <2>2. CASE q # sp
    <3>1. {p \in h : p.sp = q} = {p \in s.sent : p.sp = q}
      BY <2>2 DEF Of
    <3>2. a[q] = s.ae[q]
      BY <2>2 DEF Managers
    <3> QED BY <1>2, <3>1, <3>2 DEF CountedAs
  <2> QED BY <2>1, <2>2
<1>8. /\ v \in BOOLEAN /\ h \in SUBSET Pkts(now) /\ a \in [Spaces -> Int]
      /\ l \in [Spaces -> 0 .. now] /\ lts \in [Spaces -> 0 .. Infinite - 1]
      /\ g \in SUBSET {INITIAL, HANDSHAKE}
  BY InfiniteType, AckmConstants DEF Managers
<1>9. \A q \in Spaces : a[q] > 0 => l[q] # 0
  BY DEF Counted, Managers
<1>10. \A p \in h : p.sp \notin g
  BY <1>6 DEF Counted
<1>11. h \subseteq s.sent
  OBVIOUS
<1> HIDE DEF v, h, b, a, l, lts, g, r
<1>12. /\ r \in Managers(now) /\ r.peerValidated = v /\ r.sent = h /\ r.bytes = b
       /\ r.ae = a /\ r.lastAe = l /\ r.discarded = g /\ r.isServer = s.isServer
       /\ r.confirmed = s.confirmed /\ r.pto = s.pto
       /\ r.antiDeadlock = s.antiDeadlock
  BY <1>1, <1>5, <1>8 DEF Managers
<1>13. Counted(r)
  BY <1>5, <1>7, <1>9, <1>10, <1>12 DEF Counted, CountedAs
<1> QED BY <1>11, <1>12, <1>13 DEF r, v, l, g

\* ossl_ackm_on_pkt_space_discarded as a whole.
LEMMA DiscardFacts ==
    ASSUME now \in 1 .. MaxTime, NEW s \in Managers(now), Counted(s),
           NEW sp \in {INITIAL, HANDSHAKE}
    PROVE  LET r == Discard(s, sp)
           IN  /\ r \in Managers(now) /\ Counted(r)
               /\ r.sent \subseteq s.sent /\ \A p \in s.sent : p.sp # sp => p \in r.sent
               /\ r.isServer = s.isServer /\ r.confirmed = s.confirmed
               /\ r.discarded = s.discarded \cup {sp}
               /\ r.peerValidated =
                    (s.peerValidated \/ (sp = HANDSHAKE /\ sp \notin s.discarded))
               /\ r.lastAe = IF sp \in s.discarded THEN s.lastAe
                             ELSE [s.lastAe EXCEPT ![sp] = 0]
               /\ r.pto = s.pto /\ r.antiDeadlock = s.antiDeadlock
<1>1. CASE sp \in s.discarded
  <2>1. Discard(s, sp) = s
    BY <1>1 DEF Discard
  <2>2. s.discarded = s.discarded \cup {sp} /\ s.peerValidated \in BOOLEAN
    BY <1>1 DEF Managers
  <2> QED BY <1>1, <2>1, <2>2
<1>2. CASE sp \notin s.discarded
  <2> DEFINE c == Dropped(s, sp)
             r == SetTimer(c)
  <2>1. Discard(s, sp) = r
    BY <1>2 DEF Discard, Dropped
  <2>2. now \in Nat
    BY AckmConstants
  <2>3. /\ c \in Managers(now) /\ Counted(c)
        /\ c.sent \subseteq s.sent /\ c.isServer = s.isServer
        /\ c.confirmed = s.confirmed /\ c.discarded = s.discarded \cup {sp}
        /\ c.peerValidated = (s.peerValidated \/ sp = HANDSHAKE)
        /\ c.lastAe = [s.lastAe EXCEPT ![sp] = 0]
        /\ c.pto = s.pto /\ c.antiDeadlock = s.antiDeadlock
    <3>1. CASE sp = INITIAL
      BY <2>2, <3>1, DroppedFacts
    <3>2. CASE sp = HANDSHAKE
      BY <2>2, <3>2, DroppedFacts
    <3> QED BY <3>1, <3>2
  <2>4. \A p \in s.sent : p.sp # sp => p \in c.sent
    <3> DEFINE h == s.sent \ Of(s, sp)
    <3>1. c.sent = h
      <4> HIDE DEF h
      <4> QED BY DEF Dropped, Managers, h
    <3> QED BY <3>1 DEF Of
  <2> HIDE DEF c
  <2>5. /\ r \in Managers(now) /\ Counted(r) /\ r.sent = c.sent
        /\ r.isServer = c.isServer /\ r.lastAe = c.lastAe
        /\ r.discarded = c.discarded /\ r.confirmed = c.confirmed
        /\ r.peerValidated = c.peerValidated
        /\ r.pto = c.pto /\ r.antiDeadlock = c.antiDeadlock
    BY <2>3, SetTimerKeeps
  <2> HIDE DEF r
  <2>6. s.peerValidated \in BOOLEAN
    BY DEF Managers
  <2> QED BY <1>2, <2>1, <2>3, <2>4, <2>5, <2>6
<1> QED BY <1>1, <1>2

\* Discarding the Initial space, which both endpoints do with their first
\* Handshake packet, keeps the whole invariant.
LEMMA DiscardInitial ==
    ASSUME now \in 1 .. MaxTime, NEW s \in Managers(now), Counted(s),
           NEW K, Staged(s, K), HANDSHAKE \in K, NEW N, Armed(s, N), Asserted(s)
    PROVE  LET r == Discard(s, INITIAL)
           IN  Staged(r, K) /\ Armed(r, N) /\ Asserted(r)
<1>1. CASE INITIAL \in s.discarded
  BY <1>1 DEF Discard
<1>2. CASE INITIAL \notin s.discarded
  <2> DEFINE c == Dropped(s, INITIAL)
  <2>1. Discard(s, INITIAL) = SetTimer(c)
    BY <1>2 DEF Discard, Dropped
  <2>2. now \in Nat /\ INITIAL \in {INITIAL, HANDSHAKE}
    BY AckmConstants
  <2>3. /\ c \in Managers(now) /\ Counted(c) /\ c.isServer = s.isServer
        /\ c.confirmed = s.confirmed /\ c.discarded = s.discarded \cup {INITIAL}
        /\ c.peerValidated = (s.peerValidated \/ INITIAL = HANDSHAKE)
        /\ c.lastAe = [s.lastAe EXCEPT ![INITIAL] = 0]
    BY <2>2, DroppedFacts
  <2> HIDE DEF c
  <2>4. c.lastAe[INITIAL] = 0 /\ \A q \in {HANDSHAKE, APP} : c.lastAe[q] = s.lastAe[q]
    BY <2>3 DEF Managers
  <2>5. c.peerValidated = s.peerValidated
    BY <2>3 DEF Managers
  <2>6. Staged(c, K)
    BY <2>3, <2>4, <2>5 DEF Staged
  <2>7. Staged(SetTimer(c), K)
    BY <2>3, <2>6, SetTimerKeeps
  <2> QED BY <2>1, <2>3, <2>6, <2>7, SetTimerArms
<1> QED BY <1>1, <1>2

-----------------------------------------------------------------------------
(* The steps.                                                              *)

\* What the invariant says, for the operations on the ACK manager.
LEMMA Holds ==
    ASSUME IInv
    PROVE  /\ now \in 1 .. MaxTime /\ now \in Nat /\ now # 0 /\ keys \subseteq Spaces
           /\ nextPn \in [Spaces -> 0 .. MaxPkts] /\ m \in Managers(now)
           /\ \A p \in m.sent : p.pn < nextPn[p.sp] /\ p.sp \in Spaces
           /\ Counted(m) /\ Staged(m, keys) /\ Armed(m, nextPn) /\ Asserted(m)
  BY AckmConstants DEF IInv, Managers, Pkts

\* A server drops its Initial space when a Handshake packet arrives.
LEMMA ArrivedFacts ==
    ASSUME IInv, NEW sp \in keys \ m.discarded
    PROVE  LET r == Arrived(m, sp)
           IN  /\ r \in Managers(now) /\ Counted(r) /\ Staged(r, keys)
               /\ Armed(r, nextPn) /\ Asserted(r)
               /\ r.sent \subseteq m.sent /\ Of(m, sp) \subseteq r.sent
               /\ r.pto = m.pto /\ r.antiDeadlock = m.antiDeadlock
<1>1. CASE m.isServer /\ sp = HANDSHAKE
  <2>1. Arrived(m, sp) = Discard(m, INITIAL) /\ INITIAL \in {INITIAL, HANDSHAKE}
    BY <1>1 DEF Arrived
  <2>2. HANDSHAKE \in keys
    BY <1>1
  <2>3. LET r == Discard(m, INITIAL)
        IN  /\ r \in Managers(now) /\ Counted(r) /\ Staged(r, keys)
            /\ Armed(r, nextPn) /\ Asserted(r)
            /\ r.sent \subseteq m.sent
            /\ \A p \in m.sent : p.sp # INITIAL => p \in r.sent
            /\ r.pto = m.pto /\ r.antiDeadlock = m.antiDeadlock
    BY <2>1, <2>2, Holds, DiscardFacts, DiscardInitial
  <2>4. \A p \in Of(m, sp) : p \in m.sent /\ p.sp # INITIAL
    BY <1>1 DEF Of
  <2> QED BY <2>1, <2>3, <2>4
<1>2. CASE ~(m.isServer /\ sp = HANDSHAKE)
  <2>1. Arrived(m, sp) = m
    BY <1>2 DEF Arrived
  <2> QED BY <2>1, Holds DEF Of
<1> QED BY <1>1, <1>2

\* The part of the invariant about the ACK manager, for a state r of it.
Good(r, K, N) ==
    r \in Managers(now) /\ Counted(r) /\ Staged(r, K) /\ Armed(r, N) /\ Asserted(r)

\* No probe is asked for on the way from s to r.
NoProbe(s, r) ==
    \A sp \in Spaces : r.pto[sp] <= s.pto[sp] /\ r.antiDeadlock[sp] <= s.antiDeadlock[sp]

\* Setting the timer last makes up for whatever was done to it.
LEMMA TimerSet ==
    ASSUME now \in 1 .. MaxTime, NEW s \in Managers(now), NEW K,
           Counted(s), Staged(s, K), NEW N
    PROVE  Good(SetTimer(s), K, N)
<1>1. SetTimer(s) \in Managers(now) /\ Counted(SetTimer(s)) /\ Staged(SetTimer(s), K)
  BY SetTimerKeeps
<1>2. Armed(SetTimer(s), N) /\ Asserted(SetTimer(s))
  BY SetTimerArms
<1> QED BY <1>1, <1>2 DEF Good

\* What the counter of bytes in flight becomes with one more packet.
LEMMA AddedCounts ==
    ASSUME NEW H, IsFiniteSet(H), NEW p, p \notin H
    PROVE  /\ IsFiniteSet(H \cup {p})
           /\ Cardinality(InFlight(H \cup {p}))
                = Cardinality(InFlight(H)) + (IF p.kind # "ack" THEN 1 ELSE 0)
<1>1. IsFiniteSet(H \cup {p})
  BY FS_AddElement
<1>2. Cardinality(InFlight(H \cup {p}))
        = Cardinality(InFlight(H)) + (IF p.kind # "ack" THEN 1 ELSE 0)
  <2> DEFINE F == InFlight(H)
             G == InFlight(H \cup {p})
  <2>1. /\ F \in SUBSET H /\ p \notin F
        /\ p.kind # "ack" => G = F \cup {p}
        /\ p.kind = "ack" => G = F
    BY DEF InFlight
  <2> HIDE DEF F, G
  <2>2. IsFiniteSet(F)
    BY <2>1, FS_Subset
  <2>3. Cardinality(F) \in Nat /\ Cardinality(F \cup {p}) = Cardinality(F) + 1
    BY <2>1, <2>2, FS_AddElement, FS_CardinalityType
  <2>4. CASE p.kind # "ack"
    BY <2>1, <2>3, <2>4 DEF F, G
  <2>5. CASE p.kind = "ack"
    BY <2>1, <2>3, <2>5 DEF F, G
  <2> QED BY <2>4, <2>5
<1> QED BY <1>1, <1>2

\* ossl_ackm_on_tx_packet: the packet is new, as its number is.
LEMMA TxPacketKeeps ==
    ASSUME IInv, NEW sp \in keys \ m.discarded, nextPn[sp] < MaxPkts,
           NEW kind \in {"ae", "pad", "ack"}, NEW N,
           N[INITIAL] > 0 => nextPn[INITIAL] > 0 \/ kind = "ae" \/ m.isServer
    PROVE  LET r == TxPacket(m, sp, kind)
           IN  /\ Good(r, keys, N) /\ NoProbe(m, r)
               /\ r.isServer = m.isServer /\ r.discarded = m.discarded
               /\ r.sent = m.sent \cup {[sp |-> sp, pn |-> nextPn[sp],
                                         time |-> now, kind |-> kind]}
<1> DEFINE p == [sp |-> sp, pn |-> nextPn[sp], time |-> now, kind |-> kind]
           h == m.sent \cup {p}
           s1 == [m EXCEPT !.sent = h]
           b == m.bytes + 1
           s2 == [m EXCEPT !.sent = h, !.bytes = b]
           a == [m.ae EXCEPT ![sp] = m.ae[sp] + 1]
           l == [m.lastAe EXCEPT ![sp] = now]
           f == Less(m.pto, sp)
           g == Less(m.antiDeadlock, sp)
           s3 == [m EXCEPT !.sent = h, !.bytes = b, !.lastAe = l, !.ae = a, !.pto = f,
                           !.antiDeadlock = g]
<1>1. /\ now \in 1 .. MaxTime /\ now \in Nat /\ now # 0 /\ keys \subseteq Spaces
      /\ nextPn \in [Spaces -> 0 .. MaxPkts] /\ m \in Managers(now)
      /\ \A q \in m.sent : q.pn < nextPn[q.sp] /\ q.sp \in Spaces
      /\ Counted(m) /\ Staged(m, keys) /\ Armed(m, nextPn) /\ Asserted(m)
  BY Holds
<1>2. sp \in Spaces /\ sp \in keys /\ sp \notin m.discarded /\ MaxPkts \in Nat
  BY <1>1, AckmConstants
<1>3. /\ p \in Pkts(now) /\ p \notin m.sent /\ p.sp = sp /\ p.kind = kind
  BY <1>1, <1>2 DEF Pkts
<1> HIDE DEF p
<1>4. h \in SUBSET Pkts(now)
  BY <1>1, <1>3 DEF Managers
<1>5. /\ IsFiniteSet(m.sent) /\ m.bytes = Cardinality(InFlight(m.sent))
      /\ \A x \in Spaces : m.ae[x] = Cardinality(Eliciting({q \in m.sent : q.sp = x}))
  BY <1>1 DEF Counted, CountedAs
<1>6. /\ IsFiniteSet(h)
      /\ Cardinality(InFlight(h)) = m.bytes + (IF kind # "ack" THEN 1 ELSE 0)
      /\ \A x \in Spaces :
           Cardinality(Eliciting({q \in h : q.sp = x}))
             = m.ae[x] + (IF kind = "ae" /\ sp = x THEN 1 ELSE 0)
  <2> DEFINE H == m.sent
  <2>1. IsFiniteSet(H) /\ p \notin H /\ h = H \cup {p}
    BY <1>3, <1>5
  <2>2. /\ m.bytes = Cardinality(InFlight(H))
        /\ \A x \in Spaces : m.ae[x] = Cardinality(Eliciting({q \in H : q.sp = x}))
    BY <1>5
  <2> HIDE DEF H, h
  <2>3. IsFiniteSet(H \cup {p})
    BY <2>1, AddedCounts
  <2>4. Cardinality(InFlight(H \cup {p}))
          = Cardinality(InFlight(H)) + (IF p.kind # "ack" THEN 1 ELSE 0)
    BY <2>1, AddedCounts
  <2>5. ASSUME NEW x \in Spaces
        PROVE  Cardinality(Eliciting({q \in H \cup {p} : q.sp = x}))
                 = Cardinality(Eliciting({q \in H : q.sp = x}))
                     + (IF p.kind = "ae" /\ p.sp = x THEN 1 ELSE 0)
    <3> DEFINE F == Eliciting({q \in H : q.sp = x})
               G == Eliciting({q \in H \cup {p} : q.sp = x})
               own == p.kind = "ae" /\ p.sp = x
    <3>1. /\ F \in SUBSET H /\ p \notin F
          /\ own => G = F \cup {p}
          /\ ~own => G = F
      BY <2>1 DEF Eliciting
    <3> HIDE DEF F, G
    <3>2. IsFiniteSet(F)
      BY <2>1, <3>1, FS_Subset
    <3>3. Cardinality(F) \in Nat /\ Cardinality(F \cup {p}) = Cardinality(F) + 1
      BY <3>1, <3>2, FS_AddElement, FS_CardinalityType
    <3>4. CASE own
      BY <3>1, <3>3, <3>4 DEF F, G
    <3>5. CASE ~own
      BY <3>1, <3>3, <3>5 DEF F, G
    <3> QED BY <3>4, <3>5
  <2> QED BY <1>3, <2>1, <2>2, <2>3, <2>4, <2>5
<1>7. \A q \in h : q.sp \notin m.discarded
  BY <1>1, <1>2, <1>3 DEF Counted
<1>8. m.bytes \in Int /\ \A x \in Spaces : m.ae[x] \in Int
  BY <1>1 DEF Managers
<1> HIDE DEF h
<1>9. CASE kind = "ack"
  <2>1. TxPacket(m, sp, kind) = s1
    BY <1>9 DEF TxPacket, p, h
  <2>2. Eliciting(h) = Eliciting(m.sent)
    BY <1>3, <1>9 DEF Eliciting, h
  <2>3. /\ s1 \in Managers(now) /\ s1.sent = h /\ s1.bytes = m.bytes /\ s1.ae = m.ae
        /\ s1.lastAe = m.lastAe /\ s1.discarded = m.discarded /\ s1.isServer = m.isServer
        /\ s1.peerValidated = m.peerValidated /\ s1.confirmed = m.confirmed
        /\ s1.pto = m.pto /\ s1.antiDeadlock = m.antiDeadlock
        /\ s1.deadline = m.deadline /\ s1.lossTime = m.lossTime
    BY <1>1, <1>4 DEF Managers
  <2> HIDE DEF s1
  <2>4. Counted(s1)
    BY <1>1, <1>6, <1>7, <1>8, <1>9, <2>3 DEF Counted, CountedAs
  <2>5. Staged(s1, keys)
    BY <1>1, <2>3 DEF Staged
  <2>6. Armed(s1, N)
    BY <1>1, <1>9, <2>2, <2>3 DEF Armed
  <2>7. Asserted(s1)
    BY <1>1, <2>3 DEF Asserted, AeInFlight, LossSpace, Earlier
  <2>8. NoProbe(m, s1)
    BY <1>1, <2>3 DEF NoProbe, Managers
  <2> QED BY <2>1, <2>3, <2>4, <2>5, <2>6, <2>7, <2>8 DEF Good, h, p
<1>10. CASE kind = "pad"
  <2>1. TxPacket(m, sp, kind) = SetTimer(s2)
    <3>1. s2 = [s1 EXCEPT !.bytes = s1.bytes + 1]
      BY <1>1 DEF Managers
    <3> QED BY <1>10, <3>1 DEF TxPacket, p, h
  <2> b \in Int
    BY <1>8
  <2> HIDE DEF b
  <2>2. /\ s2 \in Managers(now) /\ s2.sent = h /\ s2.bytes = b /\ s2.ae = m.ae
        /\ s2.lastAe = m.lastAe /\ s2.discarded = m.discarded /\ s2.isServer = m.isServer
        /\ s2.peerValidated = m.peerValidated /\ s2.confirmed = m.confirmed
        /\ s2.pto = m.pto /\ s2.antiDeadlock = m.antiDeadlock
    BY <1>1, <1>4 DEF Managers
  <2> HIDE DEF s2
  <2>3. Counted(s2)
    BY <1>1, <1>6, <1>7, <1>8, <1>10, <2>2 DEF Counted, CountedAs, b
  <2>4. Staged(s2, keys)
    BY <1>1, <2>2 DEF Staged
  <2>5. Good(SetTimer(s2), keys, N)
    BY <1>1, <2>2, <2>3, <2>4, TimerSet
  <2>6. /\ SetTimer(s2).sent = h /\ SetTimer(s2).discarded = m.discarded
        /\ SetTimer(s2).isServer = m.isServer
        /\ SetTimer(s2).pto = m.pto /\ SetTimer(s2).antiDeadlock = m.antiDeadlock
    BY <1>1, <2>2, SetTimerKeeps
  <2>7. NoProbe(m, SetTimer(s2))
    BY <1>1, <2>6 DEF NoProbe, Managers
  <2> QED BY <2>1, <2>5, <2>6, <2>7 DEF h, p
<1>11. CASE kind = "ae"
  <2>1. TxPacket(m, sp, kind) = SetTimer(s3)
    <3>1. s2 = [s1 EXCEPT !.bytes = s1.bytes + 1]
      BY <1>1 DEF Managers
    <3>2. s3 = [s2 EXCEPT !.lastAe[sp] = now, !.ae[sp] = s2.ae[sp] + 1,
                          !.pto = Less(s2.pto, sp),
                          !.antiDeadlock = Less(s2.antiDeadlock, sp)]
      BY <1>1 DEF Managers
    <3> QED BY <1>11, <3>1, <3>2 DEF TxPacket, p, h
  <2>2. /\ a \in [Spaces -> Int] /\ l \in [Spaces -> 0 .. now]
        /\ f \in [Spaces -> Nat] /\ g \in [Spaces -> Nat]
        /\ \A x \in Spaces : f[x] <= m.pto[x] /\ g[x] <= m.antiDeadlock[x]
    BY <1>1, <1>2 DEF Managers, Less
  <2>3. /\ \A x \in Spaces : a[x] = m.ae[x] + (IF sp = x THEN 1 ELSE 0)
        /\ \A x \in Spaces : l[x] = IF sp = x THEN now ELSE m.lastAe[x]
    BY <1>1, <1>2 DEF Managers
  <2> b \in Int
    BY <1>8
  <2> HIDE DEF a, b, l, f, g
  <2>4. /\ s3 \in Managers(now) /\ s3.sent = h /\ s3.bytes = b /\ s3.ae = a
        /\ s3.lastAe = l /\ s3.discarded = m.discarded /\ s3.isServer = m.isServer
        /\ s3.peerValidated = m.peerValidated /\ s3.confirmed = m.confirmed
        /\ s3.pto = f /\ s3.antiDeadlock = g
    BY <1>1, <1>4, <2>2 DEF Managers
  <2> HIDE DEF s3
  <2>5. Counted(s3)
    <3>1. CountedAs(s3, h)
      BY <1>6, <1>11, <2>3, <2>4 DEF CountedAs, b
    <3>2. \A x \in Spaces : a[x] > 0 => l[x] # 0
      BY <1>1, <1>8, <2>3 DEF Counted
    <3> QED BY <1>7, <2>4, <3>1, <3>2 DEF Counted
  <2>6. Staged(s3, keys)
    BY <1>1, <1>2, <2>3, <2>4 DEF Staged
  <2>7. Good(SetTimer(s3), keys, N)
    BY <1>1, <2>4, <2>5, <2>6, TimerSet
  <2>8. /\ SetTimer(s3).sent = h /\ SetTimer(s3).discarded = m.discarded
        /\ SetTimer(s3).isServer = m.isServer
        /\ SetTimer(s3).pto = f /\ SetTimer(s3).antiDeadlock = g
    BY <1>1, <2>4, SetTimerKeeps
  <2>9. NoProbe(m, SetTimer(s3))
    BY <2>2, <2>8 DEF NoProbe
  <2> QED BY <2>1, <2>7, <2>8, <2>9 DEF h, p
<1> QED BY <1>9, <1>10, <1>11

\* A packet is sent and committed.
LEMMA SendKeeps ==
    ASSUME IInv, NEW sp \in Spaces, NEW kind \in {"ae", "pad", "ack"}, Send(sp, kind)
    PROVE  IInv' /\ NoProbe(m, m')
<1> DEFINE p == [sp |-> sp, pn |-> nextPn[sp], time |-> now, kind |-> kind]
           N == [nextPn EXCEPT ![sp] = nextPn[sp] + 1]
           s == TxPacket(m, sp, kind)
<1>1. /\ sp \in keys /\ sp \notin m.discarded /\ nextPn[sp] < MaxPkts
      /\ m.isServer \/ nextPn[INITIAL] > 0 \/ kind = "ae"
      /\ m' = IF ~m.isServer /\ sp = HANDSHAKE THEN Discard(s, INITIAL) ELSE s
      /\ nextPn' = N /\ now' = now /\ keys' = keys /\ retried' = retried
  BY DEF Send
<1>2. /\ now \in 1 .. MaxTime /\ keys \subseteq Spaces /\ MaxPkts \in Nat
      /\ retried \in BOOLEAN
      /\ nextPn \in [Spaces -> 0 .. MaxPkts] /\ m \in Managers(now)
      /\ \A q \in m.sent : q.pn < nextPn[q.sp] /\ q.sp \in Spaces
  BY Holds, AckmConstants DEF IInv
<1>3. /\ N \in [Spaces -> 0 .. MaxPkts] /\ N[sp] = nextPn[sp] + 1
      /\ \A x \in Spaces : nextPn[x] <= N[x] /\ nextPn[x] \in Nat
  BY <1>1, <1>2
<1> HIDE DEF N
<1>4. /\ Good(s, keys, N) /\ NoProbe(m, s) /\ s.isServer = m.isServer
      /\ s.discarded = m.discarded /\ s.sent = m.sent \cup {p}
  <2>1. sp \in keys \ m.discarded
    BY <1>1
  <2>2. N[INITIAL] > 0 => nextPn[INITIAL] > 0 \/ kind = "ae" \/ m.isServer
    BY <1>1
  <2> HIDE DEF s
  <2>3. s = TxPacket(m, sp, kind)
    BY DEF s
  <2> QED BY <1>1, <2>1, <2>2, <2>3, TxPacketKeeps
<1> HIDE DEF s
<1>5. \A q \in s.sent : q.pn < N[q.sp]
  <2>1. ASSUME NEW q \in m.sent PROVE q.pn < N[q.sp]
    <3>1. q.pn \in Nat /\ N[q.sp] \in Nat /\ q.sp \in Spaces
      BY <1>2, <1>3 DEF Managers, Pkts
    <3> QED BY <1>2, <1>3, <3>1
  <2>2. p.pn < N[p.sp]
    BY <1>2, <1>3
  <2> QED BY <1>4, <2>1, <2>2
<1>6. CASE ~(~m.isServer /\ sp = HANDSHAKE)
  <2>1. m' = s
    BY <1>1, <1>6
  <2> QED BY <1>1, <1>2, <1>3, <1>4, <1>5, <2>1 DEF IInv, Good
<1>7. CASE ~m.isServer /\ sp = HANDSHAKE
  <2> DEFINE r == Discard(s, INITIAL)
  <2>1. m' = r /\ HANDSHAKE \in keys /\ INITIAL \in {INITIAL, HANDSHAKE}
    BY <1>1, <1>7
  <2>2. /\ s \in Managers(now) /\ Counted(s) /\ Staged(s, keys) /\ Armed(s, N)
        /\ Asserted(s)
    BY <1>4 DEF Good
  <2>3. /\ r \in Managers(now) /\ Counted(r) /\ r.sent \subseteq s.sent
        /\ r.pto = s.pto /\ r.antiDeadlock = s.antiDeadlock
    BY <1>2, <2>1, <2>2, DiscardFacts
  <2>4. Staged(r, keys) /\ Armed(r, N) /\ Asserted(r)
    BY <1>2, <2>1, <2>2, DiscardInitial
  <2> HIDE DEF r
  <2>5. NoProbe(m, r)
    BY <1>4, <2>3 DEF NoProbe
  <2> QED BY <1>1, <1>2, <1>3, <1>5, <2>1, <2>3, <2>4, <2>5 DEF IInv
<1> QED BY <1>6, <1>7

\* A packet without an ACK frame arrives.
LEMMA RxPlainKeeps ==
    ASSUME IInv, NEW sp \in Spaces, RxPlain(sp)
    PROVE  IInv' /\ NoProbe(m, m')
<1>1. /\ sp \in keys \ m.discarded /\ m' = Arrived(m, sp)
      /\ now' = now /\ nextPn' = nextPn /\ keys' = keys /\ retried' = retried
  BY DEF RxPlain
<1>2. /\ m' \in Managers(now) /\ Counted(m') /\ Staged(m', keys)
      /\ Armed(m', nextPn) /\ Asserted(m') /\ m'.sent \subseteq m.sent
      /\ m'.pto = m.pto /\ m'.antiDeadlock = m.antiDeadlock
  BY <1>1, ArrivedFacts
<1>3. NoProbe(m, m')
  BY <1>2, Holds DEF NoProbe, Managers
<1> QED BY <1>1, <1>2, <1>3 DEF IInv

\* TLS hands out keys: Staged asks for a Handshake packet before application
\* keys, and NewKeys has it.
LEMMA NewKeysKeeps ==
    ASSUME IInv, NewKeys
    PROVE  IInv' /\ NoProbe(m, m')
<1>1. /\ m' = m /\ now' = now /\ nextPn' = nextPn /\ retried' = retried
      /\ ~m.isServer /\ keys \subseteq keys' /\ keys' \subseteq Spaces
      /\ APP \in keys' => APP \in keys \/ m.lastAe[HANDSHAKE] # 0
  <2>1. CASE keys' = keys \cup {HANDSHAKE}
    BY <2>1, Holds DEF NewKeys
  <2>2. CASE m.lastAe[HANDSHAKE] # 0 /\ keys' = keys \cup {APP}
    BY <2>2, Holds DEF NewKeys
  <2> QED BY <2>1, <2>2 DEF NewKeys
<1>2. Staged(m', keys')
  BY <1>1 DEF Staged, IInv
<1>3. NoProbe(m, m')
  BY <1>1, Holds DEF NoProbe, Managers
<1> QED BY <1>1, <1>2, <1>3 DEF IInv

\* The Handshake space is discarded, and the peer is validated from then on.
LEMMA ConfirmedKeeps ==
    ASSUME IInv, Confirmed
    PROVE  IInv' /\ NoProbe(m, m')
<1> DEFINE d == Discard(m, HANDSHAKE)
           x == [d EXCEPT !.confirmed = TRUE, !.peerValidated = TRUE]
           K == keys \cup {APP}
<1>1. /\ ~m.confirmed
      /\ m.isServer \/ APP \in keys
      /\ m' = SetTimer(x) /\ keys' = K
      /\ now' = now /\ nextPn' = nextPn /\ retried' = retried
  BY DEF Confirmed, Confirm
<1>2. /\ now \in 1 .. MaxTime /\ keys \subseteq Spaces /\ m \in Managers(now)
      /\ Counted(m) /\ Staged(m, keys)
  BY Holds
<1>3. HANDSHAKE \in keys /\ HANDSHAKE \notin m.discarded /\ INITIAL \in keys
  BY <1>1, <1>2 DEF Staged
<1>4. /\ d \in Managers(now) /\ Counted(d) /\ d.sent \subseteq m.sent
      /\ d.isServer = m.isServer /\ d.discarded = m.discarded \cup {HANDSHAKE}
      /\ d.lastAe = [m.lastAe EXCEPT ![HANDSHAKE] = 0]
      /\ d.pto = m.pto /\ d.antiDeadlock = m.antiDeadlock
  <2>1. HANDSHAKE \in {INITIAL, HANDSHAKE}
    OBVIOUS
  <2> QED BY <1>2, <1>3, <2>1, DiscardFacts
<1> HIDE DEF d
<1>5. /\ x \in Managers(now) /\ x.sent = d.sent /\ x.bytes = d.bytes /\ x.ae = d.ae
      /\ x.isServer = d.isServer /\ x.discarded = d.discarded /\ x.lastAe = d.lastAe
      /\ x.confirmed = TRUE /\ x.peerValidated = TRUE
      /\ x.pto = d.pto /\ x.antiDeadlock = d.antiDeadlock
  BY <1>4 DEF Managers
<1> HIDE DEF x
<1>6. Counted(x)
  BY <1>4, <1>5 DEF Counted, CountedAs
<1>7. Staged(x, K)
  <2>1. /\ x.lastAe[HANDSHAKE] = 0 /\ x.lastAe[INITIAL] = m.lastAe[INITIAL]
        /\ x.lastAe[APP] = m.lastAe[APP]
    BY <1>2, <1>4, <1>5 DEF Managers
  <2> QED BY <1>2, <1>3, <1>4, <1>5, <2>1 DEF Staged
<1>8. Good(m', K, nextPn)
  BY <1>1, <1>2, <1>5, <1>6, <1>7, TimerSet
<1>9. m'.sent \subseteq m.sent /\ m'.pto = m.pto /\ m'.antiDeadlock = m.antiDeadlock
  BY <1>1, <1>2, <1>4, <1>5, SetTimerKeeps
<1>10. NoProbe(m, m')
  BY <1>2, <1>9 DEF NoProbe, Managers
<1> QED BY <1>1, <1>8, <1>9, <1>10 DEF IInv, Good

\* The pseudo-loss of a Retry leaves the timer as it is; the server is not
\* validated by then, so that the assertion still holds when it fires.
LEMMA FollowRetryKeeps ==
    ASSUME IInv, FollowRetry
    PROVE  IInv' /\ NoProbe(m, m')
<1>1. PICK p \in Of(m, INITIAL) : m' = Removed(m, INITIAL, {p})
  BY DEF FollowRetry
<1>2. /\ keys = {INITIAL} /\ keys' = keys /\ now' = now /\ nextPn' = nextPn
      /\ retried' = TRUE
  BY DEF FollowRetry
<1>3. /\ now \in 1 .. MaxTime /\ m \in Managers(now) /\ Counted(m) /\ Staged(m, keys)
      /\ Armed(m, nextPn) /\ \A q \in m.sent : q.sp \in Spaces
  BY Holds
<1>4. {p} \in SUBSET m.sent /\ \A q \in {p} : q.sp = INITIAL
  BY DEF Of
<1>5. CountedAs(m, m.sent) /\ INITIAL \in Spaces
  BY <1>3 DEF Counted
<1>6. /\ m' \in Managers(now) /\ m'.sent = m.sent \ {p} /\ CountedAs(m', m'.sent)
      /\ \A q \in Spaces : m'.ae[q] <= m.ae[q]
  <2> DEFINE P == {p}
  <2>1. P \in SUBSET m.sent /\ (\A q \in P : q.sp = INITIAL) /\ m' = Removed(m, INITIAL, P)
    BY <1>1, <1>4
  <2> HIDE DEF P
  <2>2. m' \in Managers(now)
    BY <1>3, <1>5, <2>1, RemovedCounts
  <2>3. m'.sent = m.sent \ P
    BY <1>3, <2>1 DEF Removed, Managers
  <2>4. CountedAs(m', m.sent \ P)
    BY <1>3, <1>5, <2>1, RemovedCounts
  <2>5. \A q \in Spaces : m'.ae[q] <= m.ae[q]
    BY <1>3, <1>5, <2>1, RemovedCounts
  <2> QED BY <2>2, <2>3, <2>4, <2>5 DEF P
<1>7. Alike(m, m')
  BY <1>1, <1>3, <1>5, RemovedAlike
<1>8. Counted(m')
  BY <1>3, <1>6, <1>7, FewerCounted
<1>9. Staged(m', keys)
  BY <1>3, <1>7 DEF Staged, Alike
<1>10. Armed(m', nextPn)
  BY <1>3, <1>6, <1>7 DEF Armed, Alike, Eliciting
<1>11. Asserted(m')
  BY <1>2, <1>9 DEF Staged, Asserted
<1>12. NoProbe(m, m')
  BY <1>3, <1>7 DEF Alike, NoProbe, Managers
<1> QED BY <1>2, <1>6, <1>8, <1>9, <1>10, <1>11, <1>12 DEF IInv

\* Time passes.
LEMMA TickKeeps ==
    ASSUME IInv, Tick
    PROVE  IInv' /\ NoProbe(m, m')
<1>1. /\ now < MaxTime /\ now' = now + 1 /\ m' = m /\ nextPn' = nextPn
      /\ keys' = keys /\ retried' = retried
  BY DEF Tick
<1>2. now' \in 1 .. MaxTime /\ now \in Nat
  BY <1>1, AckmConstants DEF IInv
<1>3. Pkts(now) \subseteq Pkts(now')
  BY <1>1, <1>2 DEF Pkts
<1>4. m \in Managers(now')
  <2>1. m.lastAe \in [Spaces -> 0 .. now'] /\ m.sent \in SUBSET Pkts(now')
    BY <1>1, <1>2, <1>3, Holds DEF Managers
  <2> QED BY <2>1, Holds DEF Managers
<1>5. NoProbe(m, m')
  BY <1>1, Holds DEF NoProbe, Managers
<1> QED BY <1>1, <1>2, <1>4, <1>5 DEF IInv

\* ossl_ackm_on_timeout; and whatever probe it asks for can be sent.
LEMMA OnTimeoutKeeps ==
    ASSUME IInv, OnTimeout
    PROVE  /\ IInv'
           /\ \A sp \in Spaces :
                m'.pto[sp] > m.pto[sp] \/ m'.antiDeadlock[sp] > m.antiDeadlock[sp]
                  => sp \in keys \ m.discarded
<1>1. /\ m.deadline # 0 /\ m' = Timeout(m) /\ now' = now /\ nextPn' = nextPn
      /\ keys' = keys /\ retried' = retried
  BY DEF OnTimeout
<1>2. /\ now \in 1 .. MaxTime /\ m \in Managers(now) /\ Counted(m) /\ Staged(m, keys)
      /\ Asserted(m) /\ \A q \in m.sent : q.sp \in Spaces
  BY Holds
<1>3. CASE m.lossTime[LossSpace(m)] # 0
  <2> DEFINE sp == LossSpace(m)
             d == DetectLost(m, sp)
  <2>1. m' = SetTimer(d) /\ sp \in Spaces /\ CountedAs(m, m.sent)
    BY <1>1, <1>2, <1>3, LossSpaceType DEF Timeout, Counted
  <2> HIDE DEF sp
  <2>2. /\ d \in Managers(now) /\ Alike(m, d) /\ \A q \in Spaces : d.ae[q] <= m.ae[q]
        /\ \E lost \in SUBSET Of(m, sp) :
              d.sent = m.sent \ lost /\ CountedAs(d, m.sent \ lost)
    <3> DEFINE H == m.sent
    <3>1. CountedAs(m, H) /\ m.sent \subseteq H
      BY <2>1
    <3> HIDE DEF H
    <3>2. d \in Managers(now) /\ Alike(m, d)
      BY <1>2, <2>1, <3>1, DetectLostFacts
    <3>3. \A q \in Spaces : d.ae[q] <= m.ae[q]
      BY <1>2, <2>1, <3>1, DetectLostFacts
    <3> DEFINE s == m
    <3>4. /\ now \in 1 .. MaxTime /\ s \in Managers(now) /\ CountedAs(s, H)
          /\ s.sent \subseteq H /\ sp \in Spaces
      BY <1>2, <2>1, <3>1
    <3> HIDE DEF s, d
    <3>5. \E lost \in SUBSET Of(s, sp) :
            /\ DetectLost(s, sp).sent = s.sent \ lost
            /\ CountedAs(DetectLost(s, sp), H \ lost)
      BY <3>4, DetectLostFacts
    <3> QED BY <3>2, <3>3, <3>5 DEF H, s, d
  <2> HIDE DEF d
  <2>3. d.sent \subseteq m.sent /\ CountedAs(d, d.sent)
    BY <2>2
  <2>4. Counted(d)
    BY <1>2, <2>2, <2>3, FewerCounted
  <2>5. Staged(d, keys)
    BY <1>2, <2>2 DEF Staged, Alike
  <2>6. Good(m', keys, nextPn)
    BY <1>2, <2>1, <2>2, <2>4, <2>5, TimerSet
  <2>7. m'.sent \subseteq m.sent /\ m'.pto = m.pto /\ m'.antiDeadlock = m.antiDeadlock
    BY <1>2, <2>1, <2>2, <2>3, SetTimerKeeps DEF Alike
  <2>8. \A q \in Spaces : ~(m'.pto[q] > m.pto[q] \/ m'.antiDeadlock[q] > m.antiDeadlock[q])
    BY <1>2, <2>7 DEF Managers
  <2> QED BY <1>1, <2>6, <2>7, <2>8 DEF IInv, Good
<1>4. CASE m.lossTime[LossSpace(m)] = 0
  <2> DEFINE stuck == IF INITIAL \in m.discarded THEN HANDSHAKE ELSE INITIAL
             sp == IF AeInFlight(m) = 0 THEN stuck ELSE PtoSpace(m)
             f == IF AeInFlight(m) = 0 THEN m.pto ELSE [m.pto EXCEPT ![sp] = m.pto[sp] + 1]
             g == IF AeInFlight(m) = 0
                  THEN [m.antiDeadlock EXCEPT ![sp] = m.antiDeadlock[sp] + 1]
                  ELSE m.antiDeadlock
             k == m.ptoCount + 1
             r == [m EXCEPT !.antiDeadlock = g, !.pto = f, !.ptoCount = k]
  <2>1. m' = SetTimer(r)
    <3>1. CASE AeInFlight(m) = 0
      <4>1. r = [[m EXCEPT !.antiDeadlock[stuck] = m.antiDeadlock[stuck] + 1]
                   EXCEPT !.ptoCount = m.ptoCount + 1]
        BY <1>2, <3>1 DEF Managers
      <4> QED BY <1>1, <1>4, <3>1, <4>1 DEF Timeout
    <3>2. CASE AeInFlight(m) # 0
      <4>1. r = [[m EXCEPT !.pto[PtoSpace(m)] = m.pto[PtoSpace(m)] + 1]
                   EXCEPT !.ptoCount = m.ptoCount + 1]
        BY <1>2, <3>2 DEF Managers
      <4> QED BY <1>1, <1>4, <3>2, <4>1 DEF Timeout
    <3> QED BY <3>1, <3>2
  <2>2. sp \in keys \ m.discarded /\ sp \in Spaces
    <3>1. CASE AeInFlight(m) = 0
      <4>1. ~m.peerValidated
        BY <1>1, <1>2, <1>4, <3>1 DEF Asserted
      <4> QED BY <1>2, <3>1, <4>1 DEF Staged
    <3>2. CASE AeInFlight(m) # 0
      <4>1. PtoCandidates(m) # {}
        BY <1>2, <3>2, CandidateExists
      <4>2. PtoSpace(m) \in PtoCandidates(m) /\ PtoSpace(m) \in Spaces
        BY <1>2, <4>1, PtoSpaceFacts
      <4>3. m.lastAe[PtoSpace(m)] # 0
        BY <4>2 DEF PtoCandidates
      <4> QED BY <1>2, <3>2, <4>2, <4>3 DEF Staged
    <3> QED BY <3>1, <3>2
  <2> HIDE DEF sp
  <2>3. /\ f \in [Spaces -> Nat] /\ g \in [Spaces -> Nat] /\ k \in Nat
        /\ \A q \in Spaces \ {sp} : f[q] = m.pto[q] /\ g[q] = m.antiDeadlock[q]
    BY <1>2, <2>2 DEF Managers
  <2> HIDE DEF f, g, k
  <2>4. /\ r \in Managers(now) /\ r.sent = m.sent /\ r.bytes = m.bytes /\ r.ae = m.ae
        /\ r.lastAe = m.lastAe /\ r.discarded = m.discarded /\ r.isServer = m.isServer
        /\ r.peerValidated = m.peerValidated /\ r.confirmed = m.confirmed
        /\ r.pto = f /\ r.antiDeadlock = g
    BY <1>2, <2>3 DEF Managers
  <2> HIDE DEF r
  <2>5. Counted(r)
    BY <1>2, <2>4 DEF Counted, CountedAs
  <2>6. Staged(r, keys)
    BY <1>2, <2>4 DEF Staged
  <2>7. Good(m', keys, nextPn)
    BY <1>2, <2>1, <2>4, <2>5, <2>6, TimerSet
  <2>8. m'.sent = m.sent /\ m'.pto = f /\ m'.antiDeadlock = g
    BY <1>2, <2>1, <2>4, SetTimerKeeps
  <2>9. \A q \in Spaces : m'.pto[q] > m.pto[q] \/ m'.antiDeadlock[q] > m.antiDeadlock[q]
                             => q = sp
    BY <1>2, <2>3, <2>8 DEF Managers
  <2> QED BY <1>1, <2>2, <2>7, <2>8, <2>9 DEF IInv, Good
<1> QED BY <1>3, <1>4

\* ossl_ackm_on_rx_ack_frame, after the space it may have ended is dropped.
\* The packets acknowledged leave the history before losses are detected and
\* the counters after, so that in between the counters are those of a larger
\* history; they agree again before the timer is set.
LEMMA RxAckKeeps ==
    ASSUME IInv, NEW sp \in Spaces, NEW A \in SUBSET Of(m, sp),
           NEW top \in 0 .. nextPn[sp] - 1, NEW est \in Estimates,
           RxAck(sp, A, top, est)
    PROVE  IInv' /\ NoProbe(m, m')
<1> DEFINE s == Arrived(m, sp)
           v == s.peerValidated \/ sp = HANDSHAKE
           first == ~s.peerValidated /\ sp = HANDSHAKE
           la == [s.largestAcked EXCEPT
                    ![sp] = IF top > s.largestAcked[sp] THEN top ELSE s.largestAcked[sp]]
           s1 == [s EXCEPT !.largestAcked = la, !.peerValidated = v]
           H == s.sent
           h2 == s.sent \ A
           s2 == [s1 EXCEPT !.sent = h2, !.rtt = est]
           d == DetectLost(s2, sp)
           s3 == Removed(d, sp, A)
           k == IF s3.peerValidated THEN 0 ELSE s3.ptoCount
           s4 == [s3 EXCEPT !.ptoCount = k]
<1>1. /\ now \in 1 .. MaxTime /\ nextPn \in [Spaces -> 0 .. MaxPkts] /\ m \in Managers(now)
      /\ MaxPkts \in Nat /\ keys \subseteq Spaces
  BY Holds, AckmConstants
<1>2. /\ sp \in keys \ m.discarded /\ now' = now /\ nextPn' = nextPn /\ keys' = keys
      /\ retried' = retried /\ m' = RxAckFrame(s, sp, A, top, est)
  BY DEF RxAck
<1>3. /\ s \in Managers(now) /\ Counted(s) /\ Staged(s, keys)
      /\ Armed(s, nextPn) /\ Asserted(s)
      /\ s.sent \subseteq m.sent /\ Of(m, sp) \subseteq s.sent
      /\ s.pto = m.pto /\ s.antiDeadlock = m.antiDeadlock
  BY <1>2, ArrivedFacts
<1>4. A \in SUBSET H /\ \A p \in A : p.sp = sp
  BY <1>3 DEF Of
<1> HIDE DEF s
<1>5. s1 = [s EXCEPT !.largestAcked[sp] =
                       IF top > s.largestAcked[sp] THEN top ELSE s.largestAcked[sp],
                     !.peerValidated = s.peerValidated \/ sp = HANDSHAKE]
  BY <1>3 DEF Managers
<1>6. m' = IF A = {} THEN (IF first THEN SetTimer(s1) ELSE s1) ELSE SetTimer(s4)
  <2>1. s2 = [s1 EXCEPT !.sent = s1.sent \ A, !.rtt = est]
    BY <1>3 DEF Managers
  <2> QED BY <1>2, <1>5, <2>1 DEF RxAckFrame
<1>7. la \in [Spaces -> None .. MaxPkts - 1] /\ v \in BOOLEAN
  <2>1. nextPn[sp] \in 0 .. MaxPkts
    BY <1>1
  <2>2. top \in None .. MaxPkts - 1
    BY <1>1, <2>1 DEF None
  <2>3. s.largestAcked \in [Spaces -> None .. MaxPkts - 1]
    BY <1>3 DEF Managers
  <2> QED BY <2>2, <2>3
<1> HIDE DEF la, v
<1>8. /\ s1 \in Managers(now) /\ s1.sent = s.sent /\ s1.bytes = s.bytes /\ s1.ae = s.ae
      /\ s1.lastAe = s.lastAe /\ s1.discarded = s.discarded /\ s1.isServer = s.isServer
      /\ s1.peerValidated = v /\ s1.confirmed = s.confirmed
      /\ s1.pto = s.pto /\ s1.antiDeadlock = s.antiDeadlock
      /\ s1.deadline = s.deadline /\ s1.lossTime = s.lossTime
  BY <1>3, <1>7 DEF Managers
<1> HIDE DEF s1
<1>9. Counted(s1) /\ Staged(s1, keys)
  <2>1. Counted(s1)
    BY <1>3, <1>8 DEF Counted, CountedAs
  <2>2. Staged(s1, keys)
    BY <1>2, <1>3, <1>8 DEF Staged, v
  <2> QED BY <2>1, <2>2
<1>10. CASE A = {}
  <2>1. CASE first
    <3>1. m' = SetTimer(s1)
      BY <1>6, <1>10, <2>1
    <3>2. Good(m', keys, nextPn)
      BY <1>1, <1>8, <1>9, <3>1, TimerSet
    <3>3. m'.sent \subseteq m.sent /\ m'.pto = m.pto /\ m'.antiDeadlock = m.antiDeadlock
      BY <1>1, <1>3, <1>8, <3>1, SetTimerKeeps
    <3>4. NoProbe(m, m')
      BY <1>1, <3>3 DEF NoProbe, Managers
    <3> QED BY <1>2, <3>2, <3>3, <3>4 DEF IInv, Good
  <2>2. CASE ~first
    <3>1. m' = s1
      BY <1>6, <1>10, <2>2
    <3>2. v = s.peerValidated
      BY <1>3, <2>2 DEF v, Managers
    <3>3. Armed(s1, nextPn) /\ Asserted(s1)
      BY <1>3, <1>8, <3>2 DEF Armed, Asserted, AeInFlight, LossSpace, Earlier
    <3>4. NoProbe(m, m')
      BY <1>1, <1>3, <1>8, <3>1 DEF NoProbe, Managers
    <3> QED BY <1>2, <1>3, <1>8, <1>9, <3>1, <3>3, <3>4 DEF IInv
  <2> QED BY <2>1, <2>2
<1>11. CASE A # {}
  <2>1. m' = SetTimer(s4)
    BY <1>6, <1>11
  <2>2. h2 \in SUBSET Pkts(now) /\ h2 \subseteq H
    BY <1>3 DEF Managers
  <2>3. CountedAs(s, H) /\ \A p \in H : p.sp \in Spaces
    BY <1>3 DEF Counted, Managers, Pkts
  <2>4. h2 = H \ A
    OBVIOUS
  <2>5. s1.sent = H
    BY <1>8
  <2> HIDE DEF h2, H
  <2>6. /\ s2 \in Managers(now) /\ s2.sent = h2 /\ Alike(s1, s2) /\ s2.ae = s1.ae
        /\ s2.bytes = s1.bytes
    BY <1>8, <2>2 DEF Managers, Alike
  <2> HIDE DEF s2
  <2>7. CountedAs(s2, H)
    BY <1>8, <2>3, <2>6 DEF CountedAs
  <2>8. s2.sent \subseteq H
    BY <2>2, <2>6
  <2>9. d \in Managers(now) /\ Alike(s2, d)
    BY <1>1, <2>6, <2>7, <2>8, DetectLostFacts
  <2>10. \A q \in Spaces : d.ae[q] <= s2.ae[q]
    BY <1>1, <2>6, <2>7, <2>8, DetectLostFacts
  <2>11. PICK lost \in SUBSET Of(s2, sp) :
            d.sent = s2.sent \ lost /\ CountedAs(d, H \ lost)
    BY <1>1, <2>6, <2>7, <2>8, DetectLostFacts
  <2> HIDE DEF d
  <2> DEFINE J == H \ lost
  <2>12. A \in SUBSET J /\ J \ A = d.sent /\ d.sent \ A = d.sent /\ d.sent \subseteq H
    BY <1>4, <2>4, <2>6, <2>11 DEF Of, H
  <2>13. CountedAs(d, J)
    BY <2>11
  <2> HIDE DEF J
  <2>14. s3 \in Managers(now)
    BY <1>4, <2>9, <2>12, <2>13, RemovedCounts
  <2>15. CountedAs(s3, J \ A)
    BY <1>4, <2>9, <2>12, <2>13, RemovedCounts
  <2>16. \A q \in Spaces : s3.ae[q] <= d.ae[q]
    BY <1>4, <2>9, <2>12, <2>13, RemovedCounts
  <2>17. s3.sent = d.sent \ A
    BY <2>9 DEF Removed, Managers
  <2>18. Alike(d, s3)
    BY <2>9, RemovedAlike
  <2> HIDE DEF s3
  <2>19. Alike(s1, s3) /\ s3.sent \subseteq s1.sent /\ CountedAs(s3, s3.sent)
    BY <2>5, <2>6, <2>9, <2>12, <2>15, <2>17, <2>18 DEF Alike
  <2>20. \A q \in Spaces : s3.ae[q] <= s1.ae[q]
    <3> SUFFICES ASSUME NEW q \in Spaces PROVE s3.ae[q] <= s1.ae[q]
      OBVIOUS
    <3>1. s3.ae[q] \in Int /\ d.ae[q] \in Int /\ s1.ae[q] \in Int
      BY <1>8, <2>9, <2>14 DEF Managers
    <3> QED BY <2>6, <2>10, <2>16, <3>1
  <2>21. Counted(s3)
    BY <1>9, <2>3, <2>5, <2>19, <2>20, FewerCounted
  <2>22. Staged(s3, keys)
    BY <1>9, <2>19 DEF Staged, Alike
  <2>23. k \in Nat
    BY <2>14 DEF Managers
  <2> HIDE DEF k
  <2>24. /\ s4 \in Managers(now) /\ s4.sent = s3.sent /\ s4.bytes = s3.bytes
         /\ s4.ae = s3.ae /\ s4.lastAe = s3.lastAe /\ s4.discarded = s3.discarded
         /\ s4.isServer = s3.isServer /\ s4.peerValidated = s3.peerValidated
         /\ s4.confirmed = s3.confirmed
         /\ s4.pto = s3.pto /\ s4.antiDeadlock = s3.antiDeadlock
    BY <2>14, <2>23 DEF Managers
  <2> HIDE DEF s4
  <2>25. Counted(s4)
    BY <2>21, <2>24 DEF Counted, CountedAs
  <2>26. Staged(s4, keys)
    BY <2>22, <2>24 DEF Staged
  <2>27. Good(m', keys, nextPn)
    BY <1>1, <2>1, <2>24, <2>25, <2>26, TimerSet
  <2>28. m'.sent = s4.sent /\ m'.pto = s4.pto /\ m'.antiDeadlock = s4.antiDeadlock
    BY <1>1, <2>1, <2>24, SetTimerKeeps
  <2>29. m'.sent \subseteq m.sent /\ m'.pto = m.pto /\ m'.antiDeadlock = m.antiDeadlock
    BY <1>3, <1>8, <2>19, <2>24, <2>28 DEF Alike
  <2>30. NoProbe(m, m')
    BY <1>1, <2>29 DEF NoProbe, Managers
  <2> QED BY <1>2, <2>27, <2>29, <2>30 DEF IInv, Good
<1> QED BY <1>10, <1>11

-----------------------------------------------------------------------------
(* The theorems.                                                           *)

\* The invariant holds when the channel is created.
LEMMA InitEstablishes == ASSUME Init PROVE IInv
<1> DEFINE Z == [sp \in Spaces |-> 0]
           L == [sp \in Spaces |-> None]
<1>1. PICK server \in Roles, est \in Estimates :
         /\ keys = {INITIAL} \cup (IF server THEN {HANDSHAKE} ELSE {})
         /\ m = [isServer |-> server, sent |-> {}, bytes |-> 0, ae |-> Z,
                 largestAcked |-> L, lastAe |-> Z, lossTime |-> Z,
                 deadline |-> 0, ptoCount |-> 0, discarded |-> {},
                 confirmed |-> FALSE, peerValidated |-> FALSE, rtt |-> est,
                 antiDeadlock |-> Z, pto |-> Z]
  BY DEF Init
<1>2. /\ now \in 1 .. MaxTime /\ nextPn \in [Spaces -> 0 .. MaxPkts] /\ nextPn[INITIAL] = 0
      /\ keys \subseteq Spaces /\ retried \in BOOLEAN
  <2>1. now \in 1 .. MaxTime /\ retried \in BOOLEAN
    <3>1. now = 1 /\ retried = FALSE
      BY DEF Init
    <3>2. MaxTime \in Nat /\ MaxTime # 0
      BY AckmConstants
    <3>3. now \in 1 .. MaxTime
      BY <3>1, <3>2
    <3> QED BY <3>1, <3>3
  <2>2. nextPn \in [Spaces -> 0 .. MaxPkts] /\ nextPn[INITIAL] = 0
    BY AckmConstants DEF Init
  <2>3. keys \subseteq Spaces
    BY <1>1
  <2> QED BY <2>1, <2>2, <2>3
<1>3. /\ \A sp \in Spaces : Z[sp] = 0
      /\ Z \in [Spaces -> Int] /\ Z \in [Spaces -> 0 .. now] /\ Z \in [Spaces -> Nat]
      /\ Z \in [Spaces -> 0 .. Infinite - 1] /\ L \in [Spaces -> None .. MaxPkts - 1]
      /\ 0 \in 0 .. Infinite
  BY <1>2, AckmConstants, InfiniteType DEF None
<1> HIDE DEF Z, L
<1>4. m \in Managers(now)
  BY <1>1, <1>3 DEF Managers
<1>5. CountedAs(m, m.sent)
  <2>1. InFlight({}) = {} /\ \A sp \in Spaces : Eliciting({p \in {} : p.sp = sp}) = {}
    BY DEF InFlight, Eliciting
  <2>2. IsFiniteSet({}) /\ Cardinality({}) = 0
    BY FS_EmptySet
  <2> QED BY <1>1, <1>3, <2>1, <2>2 DEF CountedAs
<1>6. Counted(m)
  BY <1>1, <1>3, <1>5 DEF Counted
<1>7. Staged(m, keys)
  BY <1>1, <1>3 DEF Staged
<1>8. Armed(m, nextPn) /\ Asserted(m)
  BY <1>1, <1>2 DEF Armed, Asserted, Eliciting
<1> QED BY <1>1, <1>2, <1>4, <1>6, <1>7, <1>8 DEF IInv

\* Every step keeps the invariant, and only the timer asks for probes.
LEMMA NextKeeps ==
    ASSUME IInv, [Next]_vars
    PROVE  /\ IInv'
           /\ \A sp \in Spaces :
                m'.pto[sp] > m.pto[sp] \/ m'.antiDeadlock[sp] > m.antiDeadlock[sp]
                  => sp \in keys \ m.discarded
<1> DEFINE Live == \A sp \in Spaces :
                m'.pto[sp] > m.pto[sp] \/ m'.antiDeadlock[sp] > m.antiDeadlock[sp]
                  => sp \in keys \ m.discarded
<1>1. ASSUME IInv', NoProbe(m, m') PROVE Live
  <2>1. m \in Managers(now) /\ m' \in Managers(now')
    BY <1>1 DEF IInv
  <2>2. /\ m.pto \in [Spaces -> Nat] /\ m.antiDeadlock \in [Spaces -> Nat]
        /\ m'.pto \in [Spaces -> Nat] /\ m'.antiDeadlock \in [Spaces -> Nat]
    BY <2>1 DEF Managers
  <2> QED BY <1>1, <2>2 DEF NoProbe
<1>2. ASSUME NEW sp \in Spaces, NEW kind \in {"ae", "pad", "ack"}, Send(sp, kind)
      PROVE  IInv' /\ Live
  <2>1. IInv' /\ NoProbe(m, m')
    BY <1>2, SendKeeps
  <2> QED BY <1>1, <2>1
<1>3. ASSUME NEW sp \in Spaces, RxPlain(sp) PROVE IInv' /\ Live
  <2>1. IInv' /\ NoProbe(m, m')
    BY <1>3, RxPlainKeeps
  <2> QED BY <1>1, <2>1
<1>4. ASSUME NEW sp \in Spaces, NEW est \in Estimates, NEW A \in SUBSET Of(m, sp),
             NEW top \in 0 .. nextPn[sp] - 1, RxAck(sp, A, top, est)
      PROVE  IInv' /\ Live
  <2>1. IInv' /\ NoProbe(m, m')
    BY <1>4, RxAckKeeps
  <2> QED BY <1>1, <2>1
<1>5. CASE NewKeys \/ Confirmed \/ FollowRetry \/ Tick
  <2>1. IInv' /\ NoProbe(m, m')
    BY <1>5, NewKeysKeeps, ConfirmedKeeps, FollowRetryKeeps, TickKeeps
  <2> QED BY <1>1, <2>1
<1>6. CASE OnTimeout
  BY <1>6, OnTimeoutKeeps
<1>7. CASE UNCHANGED vars
  <2>1. /\ m' = m /\ now' = now /\ nextPn' = nextPn /\ keys' = keys
        /\ retried' = retried
    BY <1>7 DEF vars
  <2>2. NoProbe(m, m')
    BY <2>1, Holds DEF NoProbe, Managers
  <2>3. IInv'
    BY <2>1 DEF IInv
  <2> QED BY <1>1, <2>2, <2>3
<1> HIDE DEF Live
<1>8. IInv' /\ Live
  BY <1>2, <1>3, <1>4, <1>5, <1>6, <1>7 DEF Next, Live
<1> QED BY <1>8 DEF Live

\* The inductive invariant is an invariant.
THEOREM Invariance == Spec => []IInv
<1>1. Init => IInv
  BY InitEstablishes
<1>2. IInv /\ [Next]_vars => IInv'
  BY NextKeeps
<1> QED BY <1>1, <1>2, PTL DEF Spec

\* Type correctness: the counters never go below zero, no instant computed for
\* the timer is out of range, and the history of a discarded space is empty.
THEOREM TypeCorrect == Spec => []TypeOK
<1>1. IInv => TypeOK
  <2> SUFFICES ASSUME IInv PROVE TypeOK
    OBVIOUS
  <2>1. /\ now \in 1 .. MaxTime /\ m \in Managers(now) /\ Counted(m)
        /\ \A q \in m.sent : q.sp \in Spaces
    BY Holds
  <2>2. CountedAs(m, m.sent)
    BY <2>1 DEF Counted
  <2>3. \A sp \in Spaces : m.ae[sp] \in Nat
    BY <2>1, <2>2, ElicitingFacts
  <2>4. m.bytes \in Nat
    <3>1. InFlight(m.sent) \in SUBSET m.sent
      BY DEF InFlight
    <3>2. IsFiniteSet(InFlight(m.sent))
      BY <2>2, <3>1, FS_Subset DEF CountedAs
    <3> QED BY <2>2, <3>2, FS_CardinalityType DEF CountedAs
  <2>5. m.ae \in [Spaces -> Nat]
    BY <2>1, <2>3 DEF Managers
  <2>6. m.lossTime \in [Spaces -> 0 .. Infinite]
    BY <2>1, InfiniteType DEF Managers
  <2>7. m.sent \subseteq [sp : Spaces \ m.discarded, pn : 0 .. MaxPkts - 1,
                          time : 1 .. now, kind : {"ae", "pad", "ack"}]
    BY <2>1 DEF Managers, Pkts, Counted
  <2> QED BY <2>1, <2>4, <2>5, <2>6, <2>7 DEF IInv, TypeOK, Managers
<1> QED BY <1>1, Invariance, PTL

\* The counters of bytes in flight are those of the packets in the history,
\* whatever is acknowledged, lost, discarded or given up for a Retry.
THEOREM CountersCorrect == Spec => []CountersMatch
<1>1. IInv => CountersMatch
  BY DEF IInv, Counted, CountedAs, CountersMatch, Of
<1> QED BY <1>1, Invariance, PTL

\* The timer is armed with an instant that comes while something ack-eliciting
\* is in flight or while the peer of a client may be short of credit.
THEOREM TimerStaysArmed == Spec => []TimerArmed
<1>1. IInv => TimerArmed
  BY DEF IInv, Armed, TimerArmed
<1> QED BY <1>1, Invariance, PTL

\* The assertion of ossl_ackm_on_timeout holds whenever the timer may fire.
THEOREM AssertionHolds == Spec => []TimeoutAssertion
<1>1. IInv => TimeoutAssertion
  BY DEF IInv, Asserted, TimeoutAssertion
<1> QED BY <1>1, Invariance, PTL

\* A timeout asks for a probe only in a space with keys that is not discarded.
THEOREM ProbesLive == Spec => ProbesInLiveSpace
<1>1. IInv /\ [Next]_vars =>
        [\A sp \in Spaces :
           m'.pto[sp] > m.pto[sp] \/ m'.antiDeadlock[sp] > m.antiDeadlock[sp]
             => sp \in keys \ m.discarded]_vars
  BY NextKeeps
<1> QED BY <1>1, Invariance, PTL DEF Spec, ProbesInLiveSpace

=============================================================================
