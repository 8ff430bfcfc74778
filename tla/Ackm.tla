-------------------------------- MODULE Ackm --------------------------------
(***************************************************************************)
(* The sending half of the ACK manager, ssl/quic/quic_ackm.c: the history  *)
(* of packets sent, loss detection by packet and time threshold, and the   *)
(* one timer that serves loss times, probe timeouts and the anti-deadlock  *)
(* timeout of an endpoint whose peer may still be limited.  The channel    *)
(* (ssl/quic/quic_channel.c) drives it: packets go out, ACK frames come    *)
(* in, packet number spaces are discarded, the handshake is confirmed, and *)
(* its tick fires the timer.                                               *)
(*                                                                         *)
(* m is struct ossl_ackm_st; a packet counts as one byte.  Time starts at  *)
(* 1: zero is "not set", as in the code.  Round-trip estimates are reduced *)
(* to the two delays computed from them and are chosen anew by a sample.   *)
(***************************************************************************)
EXTENDS Integers, FiniteSets

CONSTANTS
    Roles,          \* TRUE for a server's channel, FALSE for a client's
    PktThreshold,   \* K_PKT_THRESHOLD
    MaxPtoCount,    \* MAX_PTO_COUNT, the cap of the exponential backoff
    MaxAckDelay,    \* rx_max_ack_delay
    Estimates,      \* pairs of a loss delay and a probe timeout
    MaxTime,        \* bound: the last instant
    MaxPkts         \* bound: packets sent in a space

ASSUME AckmConstants ==
    /\ Roles \subseteq BOOLEAN
    /\ PktThreshold \in Nat \ {0} /\ MaxPtoCount \in Nat /\ MaxAckDelay \in Nat
    /\ Estimates \subseteq (Nat \ {0}) \X (Nat \ {0})
    /\ Estimates # {} /\ IsFiniteSet(Estimates)
    /\ MaxTime \in Nat \ {0} /\ MaxPkts \in Nat

INITIAL == 1
HANDSHAKE == 2
APP == 3
Spaces == {INITIAL, HANDSHAKE, APP}

\* An instant beyond any that a delay of Estimates or its backoff leads to.
LongestDelay ==
    CHOOSE d \in {e[1] + e[2] : e \in Estimates} : \A e \in Estimates : e[1] + e[2] <= d
Infinite == 2 * MaxTime + 2 ^ MaxPtoCount * (MaxAckDelay + LongestDelay)
None == -1

VARIABLES
    m,              \* the ACK manager
    now,            \* the time
    nextPn,         \* next packet number of each space
    keys,           \* spaces the packetiser may send in
    retried         \* the client has followed a Retry

vars == <<m, now, nextPn, keys, retried>>

-----------------------------------------------------------------------------
Of(s, sp) == {p \in s.sent : p.sp = sp}
InFlight(P) == {p \in P : p.kind # "ack"}
Eliciting(P) == {p \in P : p.kind = "ae"}

\* ackm_ack_eliciting_bytes_in_flight
AeInFlight(s) == s.ae[INITIAL] + s.ae[HANDSHAKE] + s.ae[APP]

\* Mutant: padding-only packets stay counted.
RemovedLessPadding(s, sp, P) ==
    [s EXCEPT !.sent = @ \ P,
              !.bytes = @ - Cardinality(Eliciting(P)),
              !.ae[sp] = @ - Cardinality(Eliciting(P))]

\* Packets P leave the history for the reason that ackm_on_pkts_lost or
\* ackm_on_pkts_acked is called with: the counters follow.
Removed(s, sp, P) ==
    [s EXCEPT !.sent = @ \ P,
              !.bytes = @ - Cardinality(InFlight(P)),
              !.ae[sp] = @ - Cardinality(Eliciting(P))]

-----------------------------------------------------------------------------
(* The timer. *)

\* ackm_get_loss_time_and_space, a fold over the spaces in order.
Earlier(s, best, sp) ==
    IF s.lossTime[best] = 0 \/ s.lossTime[sp] < s.lossTime[best] THEN sp ELSE best
LossSpace(s) == Earlier(s, Earlier(s, INITIAL, HANDSHAKE), APP)

\* The probe timeout with its backoff.
Backoff(s) == 2 ^ (IF s.ptoCount < MaxPtoCount THEN s.ptoCount ELSE MaxPtoCount)
PtoDuration(s) == s.rtt[2] * Backoff(s)

\* ackm_get_pto_time_and_space with ack-eliciting packets in flight: the spaces
\* it looks at, when the probe timeout of each ends, and the one that is first.
PtoCandidates(s) ==
    {sp \in Spaces : /\ s.ae[sp] > 0 \/ ~(s.confirmed \/ s.isServer)
                     /\ sp = APP => s.confirmed
                     /\ s.lastAe[sp] # 0}
PtoEnd(s, sp) ==
    s.lastAe[sp] + PtoDuration(s)
        + (IF sp = APP THEN MaxAckDelay * Backoff(s) ELSE 0)
PtoSpace(s) ==
    IF PtoCandidates(s) = {} THEN INITIAL
    ELSE CHOOSE sp \in PtoCandidates(s) :
           \A q \in PtoCandidates(s) :
              \/ PtoEnd(s, sp) < PtoEnd(s, q)
              \/ PtoEnd(s, sp) = PtoEnd(s, q) /\ sp <= q

\* ackm_get_pto_time_and_space
PtoTime(s) ==
    IF AeInFlight(s) = 0 THEN now + PtoDuration(s)
    ELSE IF PtoCandidates(s) = {} THEN Infinite
    ELSE PtoEnd(s, PtoSpace(s))

\* Mutant: no timer with nothing in flight, validated or not.
SetTimerIfInFlight(s) ==
    [s EXCEPT !.deadline =
        IF s.lossTime[LossSpace(s)] # 0 THEN s.lossTime[LossSpace(s)]
        ELSE IF AeInFlight(s) = 0 THEN 0
        ELSE PtoTime(s)]

\* ackm_set_loss_detection_timer
SetTimer(s) ==
    [s EXCEPT !.deadline =
        IF s.lossTime[LossSpace(s)] # 0 THEN s.lossTime[LossSpace(s)]
        ELSE IF AeInFlight(s) = 0 /\ s.peerValidated THEN 0
        ELSE PtoTime(s)]

-----------------------------------------------------------------------------
(* Loss detection. *)

\* ackm_detect_and_remove_lost_pkts and ackm_on_pkts_lost
DetectLost(s, sp) ==
    LET below == {p \in Of(s, sp) : p.pn <= s.largestAcked[sp]}
        lost == {p \in below : \/ p.time + s.rtt[1] <= now
                               \/ s.largestAcked[sp] >= p.pn + PktThreshold}
        due == {p.time + s.rtt[1] : p \in below \ lost}
    IN  Removed([s EXCEPT !.lossTime[sp] =
                    IF due = {} THEN 0 ELSE CHOOSE t \in due : \A u \in due : t <= u],
                sp, lost)

\* Mutant: the time of the last packet survives the space.
DiscardKeepingTimes(s, sp) ==
    IF sp \in s.discarded THEN s
    ELSE SetTimer(
      [s EXCEPT !.peerValidated = @ \/ sp = HANDSHAKE,
                !.sent = @ \ Of(s, sp),
                !.bytes = @ - Cardinality(InFlight(Of(s, sp))),
                !.ae[sp] = 0,
                !.lossTime[sp] = 0,
                !.ptoCount = 0,
                !.discarded = @ \cup {sp}])

\* Mutant: the history of the space is kept.
DiscardKeepingHistory(s, sp) ==
    IF sp \in s.discarded THEN s
    ELSE SetTimer([s EXCEPT !.peerValidated = @ \/ sp = HANDSHAKE,
                            !.ptoCount = 0, !.discarded = @ \cup {sp}])

\* ossl_ackm_on_pkt_space_discarded
Discard(s, sp) ==
    IF sp \in s.discarded THEN s
    ELSE SetTimer(
      [s EXCEPT !.peerValidated = @ \/ sp = HANDSHAKE,
                !.sent = @ \ Of(s, sp),
                !.bytes = @ - Cardinality(InFlight(Of(s, sp))),
                !.ae[sp] = 0,
                !.lastAe[sp] = 0,
                !.lossTime[sp] = 0,
                !.ptoCount = 0,
                !.discarded = @ \cup {sp}])

\* ossl_quic_channel_on_handshake_confirmed
Confirm(s) ==
    SetTimer([Discard(s, HANDSHAKE) EXCEPT !.confirmed = TRUE,
                                           !.peerValidated = TRUE])

\* Mutant: newly acknowledged packets leave the timer as it is.
RxAckFrameKeepingTimer(s, sp, A, top, est) ==
    LET s1 == [s EXCEPT !.largestAcked[sp] = IF top > @ THEN top ELSE @,
                        !.peerValidated = @ \/ sp = HANDSHAKE]
        s2 == [s1 EXCEPT !.sent = @ \ A, !.rtt = est]
        s3 == Removed(DetectLost(s2, sp), sp, A)
    IN  IF A = {} THEN s1
        ELSE [s3 EXCEPT !.ptoCount = IF s3.peerValidated THEN 0 ELSE @]

\* ossl_ackm_on_rx_ack_frame, for a frame with the largest number top that
\* covers the packets A of the history; est is the estimate after a sample.
RxAckFrame(s, sp, A, top, est) ==
    LET first == ~s.peerValidated /\ sp = HANDSHAKE
        s1 == [s EXCEPT !.largestAcked[sp] = IF top > @ THEN top ELSE @,
                        !.peerValidated = @ \/ sp = HANDSHAKE]
        s2 == [s1 EXCEPT !.sent = @ \ A, !.rtt = est]
        s3 == Removed(DetectLost(s2, sp), sp, A)
    IN  IF A = {} THEN (IF first THEN SetTimer(s1) ELSE s1)
        ELSE SetTimer([s3 EXCEPT !.ptoCount = IF s3.peerValidated THEN 0 ELSE @])

-----------------------------------------------------------------------------
Init ==
    /\ now = 1
    /\ nextPn = [sp \in Spaces |-> 0]
    /\ retried = FALSE
    /\ \E server \in Roles, est \in Estimates :
         /\ keys = {INITIAL} \cup (IF server THEN {HANDSHAKE} ELSE {})
         /\ m = [isServer |-> server,
                 sent |-> {}, bytes |-> 0, ae |-> [sp \in Spaces |-> 0],
                 largestAcked |-> [sp \in Spaces |-> None],
                 lastAe |-> [sp \in Spaces |-> 0],
                 lossTime |-> [sp \in Spaces |-> 0],
                 deadline |-> 0, ptoCount |-> 0, discarded |-> {},
                 confirmed |-> FALSE, peerValidated |-> FALSE, rtt |-> est,
                 antiDeadlock |-> [sp \in Spaces |-> 0],
                 pto |-> [sp \in Spaces |-> 0]]

\* A probe that was asked for is sent with any ack-eliciting packet.
Less(f, sp) == [f EXCEPT ![sp] = IF @ > 0 THEN @ - 1 ELSE @]

\* ossl_ackm_on_tx_packet
TxPacket(s, sp, kind) ==
    LET s1 == [s EXCEPT !.sent = @ \cup {[sp |-> sp, pn |-> nextPn[sp],
                                          time |-> now, kind |-> kind]}]
        s2 == [s1 EXCEPT !.bytes = @ + 1]
        s3 == [s2 EXCEPT !.lastAe[sp] = now,
                         !.ae[sp] = @ + 1,
                         !.pto = Less(@, sp), !.antiDeadlock = Less(@, sp)]
    IN  CASE kind = "ack" -> s1
          [] kind = "pad" -> SetTimer(s2)
          [] kind = "ae" -> SetTimer(s3)

\* A packet is sent and committed.  A client starts with its ClientHello, and
\* its first Handshake packet ends its Initial space; only datagrams with an
\* Initial packet are padded.
Send(sp, kind) ==
    /\ sp \in keys \ m.discarded /\ nextPn[sp] < MaxPkts
    /\ m.isServer \/ nextPn[INITIAL] > 0 \/ kind = "ae"
    /\ kind = "pad" => INITIAL \notin m.discarded
    /\ m' = LET s == TxPacket(m, sp, kind)
            IN  IF ~m.isServer /\ sp = HANDSHAKE THEN Discard(s, INITIAL) ELSE s
    /\ nextPn' = [nextPn EXCEPT ![sp] = @ + 1]
    /\ UNCHANGED <<now, keys, retried>>

\* A packet arrives in a space, with an ACK frame or without.  A server drops
\* its Initial space with the first Handshake packet, before the frames.
Arrived(s, sp) == IF s.isServer /\ sp = HANDSHAKE THEN Discard(s, INITIAL) ELSE s

RxPlain(sp) ==
    /\ sp \in keys \ m.discarded
    /\ m' = Arrived(m, sp) /\ m' # m
    /\ UNCHANGED <<now, nextPn, keys, retried>>

RxAck(sp, A, top, est) ==
    /\ sp \in keys \ m.discarded
    /\ A \subseteq Of(m, sp)
    /\ \A p \in A : p.pn <= top
    /\ \A p \in Of(m, sp) : p.pn = top => p \in A
    /\ \/ est = m.rtt
       \/ (\E p \in A : p.pn = top) /\ Eliciting(A) # {}
    /\ m' = RxAckFrame(Arrived(m, sp), sp, A, top, est)
    /\ UNCHANGED <<now, nextPn, keys, retried>>

\* TLS hands out the keys of the next level to a client: Handshake once it has
\* the ServerHello, application once it has sent its Finished.
NewKeys ==
    /\ ~m.isServer /\ nextPn[INITIAL] > 0
    /\ \/ HANDSHAKE \notin keys /\ keys' = keys \cup {HANDSHAKE}
       \/ /\ APP \notin keys /\ m.lastAe[HANDSHAKE] # 0
          /\ keys' = keys \cup {APP}
    /\ UNCHANGED <<m, now, nextPn, retried>>

\* The handshake is confirmed: a server when it completes, with the client's
\* Finished in a Handshake packet, a client with HANDSHAKE_DONE.
Confirmed ==
    /\ ~m.confirmed
    /\ IF m.isServer THEN INITIAL \in m.discarded /\ nextPn[HANDSHAKE] > 0
       ELSE APP \in keys
    /\ m' = Confirm(m)
    /\ keys' = keys \cup {APP}
    /\ UNCHANGED <<now, nextPn, retried>>

\* ch_retry: the client's first Initial counts as lost; the timer is not set.
FollowRetry ==
    /\ ~m.isServer /\ ~retried /\ keys = {INITIAL}
    /\ \E p \in Of(m, INITIAL) :
         p.pn = 0 /\ m' = Removed(m, INITIAL, {p})
    /\ retried' = TRUE
    /\ UNCHANGED <<now, nextPn, keys>>

\* ossl_ackm_on_timeout, on the state s
Timeout(s) ==
    IF s.lossTime[LossSpace(s)] # 0 THEN SetTimer(DetectLost(s, LossSpace(s)))
    ELSE LET deadlocked == IF INITIAL \in s.discarded THEN HANDSHAKE ELSE INITIAL
         IN  SetTimer([(IF AeInFlight(s) = 0
                        THEN [s EXCEPT !.antiDeadlock[deadlocked] = @ + 1]
                        ELSE [s EXCEPT !.pto[PtoSpace(s)] = @ + 1])
                       EXCEPT !.ptoCount = @ + 1])

\* The channel's tick finds the deadline reached.
OnTimeout ==
    /\ m.deadline # 0 /\ now >= m.deadline
    /\ m' = Timeout(m)
    /\ UNCHANGED <<now, nextPn, keys, retried>>

Tick ==
    /\ now < MaxTime
    /\ now' = now + 1
    /\ UNCHANGED <<m, nextPn, keys, retried>>

Next ==
    \/ \E sp \in Spaces, kind \in {"ae", "pad", "ack"} : Send(sp, kind)
    \/ \E sp \in Spaces : RxPlain(sp)
    \/ \E sp \in Spaces, est \in Estimates :
         \E A \in SUBSET Of(m, sp), top \in 0 .. nextPn[sp] - 1 :
           RxAck(sp, A, top, est)
    \/ NewKeys
    \/ Confirmed
    \/ FollowRetry
    \/ OnTimeout
    \/ Tick

Spec == Init /\ [][Next]_vars

-----------------------------------------------------------------------------
\* Type correctness; nothing of a discarded space is left in the history.
TypeOK ==
    /\ now \in 1 .. MaxTime
    /\ nextPn \in [Spaces -> 0 .. MaxPkts]
    /\ keys \subseteq Spaces /\ retried \in BOOLEAN
    /\ m.sent \subseteq [sp : Spaces \ m.discarded, pn : 0 .. MaxPkts - 1,
                         time : 1 .. now, kind : {"ae", "pad", "ack"}]
    /\ m.isServer \in Roles /\ m.bytes \in Nat /\ m.ae \in [Spaces -> Nat]
    /\ m.largestAcked \in [Spaces -> None .. MaxPkts - 1]
    /\ m.lastAe \in [Spaces -> 0 .. now]
    /\ m.lossTime \in [Spaces -> 0 .. Infinite]
    /\ m.deadline \in 0 .. Infinite /\ m.ptoCount \in Nat
    /\ m.discarded \subseteq {INITIAL, HANDSHAKE}
    /\ m.confirmed \in BOOLEAN /\ m.peerValidated \in BOOLEAN
    /\ m.rtt \in Estimates
    /\ m.pto \in [Spaces -> Nat] /\ m.antiDeadlock \in [Spaces -> Nat]

\* The counters of bytes in flight, which congestion control and the timer rely
\* on, are those of the packets in the history, after any order of
\* acknowledgments, losses, a Retry's pseudo-loss and discards.
CountersMatch ==
    /\ m.bytes = Cardinality(InFlight(m.sent))
    /\ \A sp \in Spaces : m.ae[sp] = Cardinality(Eliciting(Of(m, sp)))

\* The endpoint cannot fall silent with something outstanding: while an
\* ack-eliciting packet is in flight, or while a client's server may still be
\* short of credit, the timer is set to an instant that comes.
TimerArmed ==
    (\/ Eliciting(m.sent) # {}
     \/ ~m.isServer /\ ~m.peerValidated /\ nextPn[INITIAL] > 0)
        => m.deadline \notin {0, Infinite}

\* The assertion in ossl_ackm_on_timeout: when the timer fires with nothing
\* ack-eliciting in flight and no loss time, the peer has not completed address
\* validation.  The tick fires it at any later time, so the armed timer must
\* never outlive its reason.
TimeoutAssertion ==
    m.deadline # 0 /\ m.lossTime[LossSpace(m)] = 0 /\ AeInFlight(m) = 0
        => ~m.peerValidated

\* A timeout asks for a probe only in a space that is in use, so that the
\* packetiser can serve it.
ProbesInLiveSpace ==
    [][\A sp \in Spaces :
         m'.pto[sp] > m.pto[sp] \/ m'.antiDeadlock[sp] > m.antiDeadlock[sp]
            => sp \in keys \ m.discarded]_vars

\* A packet below the largest acknowledged number that is not lost yet is
\* declared lost when its loss time comes: the timer is neither off nor set
\* beyond it.
LossTimeHonoured ==
    \A sp \in Spaces : m.lossTime[sp] # 0 => m.deadline \in 1 .. m.lossTime[sp]
=============================================================================
