---------------------------- MODULE RxPathProofs ----------------------------
(***************************************************************************)
(* Proofs about RxPath, for every number of packets, ranges and batches    *)
(* and every acknowledgment delay.                                         *)
(***************************************************************************)
EXTENDS RxPath, Extrema, SequenceTheorems

(* The inductive invariant.                                                *)

Packets == [sp : Spaces, pn : Nat, ae : BOOLEAN, acks : SUBSET Nat,
            final : BOOLEAN]
\* RX histories of a space in which the peer has used the numbers below n.
Histories(n) == {h \in [set : SUBSET Nat, watermark : Nat] :
                   h.watermark <= n /\ h.set \subseteq h.watermark .. n - 1}
AckStates == [desired : BOOLEAN, generated : BOOLEAN, since : Nat,
              deadline : 0 .. Infinite, frame : SUBSET Nat]

\* The shape of the variables, which TypeOK says only in part.
Shape ==
    /\ net \subseteq Packets
    /\ rx \in [Spaces -> [set : SUBSET Nat, watermark : Nat]]
    /\ ack \in [Spaces -> AckStates]
    /\ own \subseteq [sp : Spaces, pn : Nat, pns : SUBSET Nat]
    /\ hist \in [processed : SUBSET (Spaces \X Nat),
                 repeated : SUBSET (Spaces \X Nat),
                 waited : [Spaces -> Never .. Infinite]]

\* Each processed number is in the history or below its watermark, in a
\* discarded space too.
Tracked == \A k \in hist.processed : ~Processable(rx[k[1]], k[2])

\* A history holds only numbers that were processed; the frames are filled
\* from it.
HistoryProcessed ==
    \A sp \in Spaces : \A pn \in rx[sp].set : <<sp, pn>> \in hist.processed

\* A packet is counted towards the next ACK frame only when its number was
\* new: the counter cannot outgrow the numbers of the space.
ProcessedIn(sp) == {k \in hist.processed : k[1] = sp}
CountedOnce ==
    \A sp \in Spaces : /\ peerNext[sp] <= MaxPn[sp]
                       /\ ack[sp].since <= Cardinality(ProcessedIn(sp))

IInv ==
    /\ Shape /\ TypeOK /\ Tracked /\ HistoryProcessed /\ CountedOnce
    /\ AcksOnlyReceived /\ OwedAckScheduled

-----------------------------------------------------------------------------
(* The RX history.                                                         *)

\* The largest of some packet numbers below n.
LEMMA LargestFacts ==
    ASSUME NEW n \in Nat, NEW S, S \subseteq 0 .. n - 1, S # {}
    PROVE  Largest(S) \in S /\ \A q \in S : q <= Largest(S)
<1>1. IsFiniteSet(0 .. n - 1)
  BY FS_Interval
<1>2. IsFiniteSet(S)
  BY <1>1, FS_Subset
<1>3. S \subseteq Int
  OBVIOUS
<1>4. \E p \in S : \A q \in S : q <= p
  BY <1>2, <1>3, HasLargest
<1> QED BY <1>4 DEF Largest

\* What an update of the history must not do: track a number no longer, or
\* report one that is not there.
Forgets(h, g) == \E q \in Nat : ~Processable(h, q) /\ Processable(g, q)

\* rx_pkt_history_bump_watermark
LEMMA BumpFacts ==
    ASSUME NEW n \in Nat, NEW h \in Histories(n), NEW mark \in 0 .. n
    PROVE  /\ BumpWatermark(h, mark) \in Histories(n)
           /\ BumpWatermark(h, mark).set \subseteq h.set
           /\ ~Forgets(h, BumpWatermark(h, mark))
<1>1. CASE mark <= h.watermark
  BY <1>1 DEF BumpWatermark, Forgets
<1>2. CASE ~(mark <= h.watermark)
  <2> DEFINE S == {p \in h.set : p >= mark}
  <2>1. BumpWatermark(h, mark) = [set |-> S, watermark |-> mark]
    BY <1>2 DEF BumpWatermark
  <2>2. S \subseteq mark .. n - 1 /\ S \subseteq h.set /\ S \in SUBSET Nat
    BY DEF Histories
  <2>3. \A q \in Nat : ~Processable(h, q) => q \in S \/ q < mark
    BY <1>2 DEF Histories, Processable
  <2> HIDE DEF S
  <2>4. [set |-> S, watermark |-> mark] \in Histories(n)
    <3>1. mark \in Nat /\ mark <= n
      OBVIOUS
    <3> QED BY <2>2, <3>1 DEF Histories
  <2>5. ~Forgets(h, [set |-> S, watermark |-> mark])
    BY <2>3 DEF Forgets, Processable
  <2> QED BY <2>1, <2>2, <2>4, <2>5
<1> QED BY <1>1, <1>2

\* rx_pkt_history_add_pn with its trimming of the oldest ranges: whichever
\* ranges go, the watermark follows them.
LEMMA AddPnFacts ==
    ASSUME NEW n \in Nat, NEW h \in Histories(n), NEW pn \in 0 .. n - 1
    PROVE  /\ AddPn(h, pn) \in Histories(n)
           /\ AddPn(h, pn).set \subseteq h.set \cup {pn}
           /\ ~Forgets(h, AddPn(h, pn))
           /\ ~Processable(AddPn(h, pn), pn)
<1>1. CASE pn < h.watermark
  BY <1>1 DEF AddPn, Forgets, Processable, Histories
<1>2. CASE ~(pn < h.watermark)
  <2> DEFINE g == [h EXCEPT !.set = @ \cup {pn}]
             kept == NewestRanges(g.set, MaxRxAckRanges)
             gone == g.set \ kept
  <2>1. AddPn(h, pn) = IF gone = {} THEN g
                       ELSE BumpWatermark([g EXCEPT !.set = kept], Largest(gone) + 1)
    BY <1>2 DEF AddPn, TrimRangeCount
  <2>2. /\ g \in Histories(n) /\ g.set = h.set \cup {pn}
        /\ g.watermark = h.watermark
    BY <1>2 DEF Histories
  <2>3. ~Forgets(h, g) /\ ~Processable(g, pn)
    BY <2>2 DEF Forgets, Processable
  <2>4. kept \subseteq g.set
    BY DEF NewestRanges
  <2> HIDE DEF kept, g
  <2>5. CASE gone = {}
    BY <2>1, <2>2, <2>3, <2>5
  <2>6. CASE gone # {}
    <3> DEFINE top == Largest(gone)
               r == BumpWatermark([g EXCEPT !.set = kept], top + 1)
               S == {p \in kept : p >= top + 1}
    <3>1. gone \subseteq 0 .. n - 1 /\ gone \subseteq g.watermark .. n - 1
      BY <2>2 DEF Histories
    <3>2. top \in gone /\ \A q \in gone : q <= top
      BY <2>6, <3>1, LargestFacts
    <3>3. top \in Nat /\ top + 1 > g.watermark /\ top + 1 <= n
      BY <2>2, <3>1, <3>2 DEF Histories
    <3> HIDE DEF top
    <3>4. r = [set |-> S, watermark |-> top + 1]
      BY <2>2, <3>3 DEF BumpWatermark, Histories
    <3>5. /\ S \subseteq g.set /\ S \in SUBSET Nat
          /\ \A q \in S : q \in top + 1 .. n - 1
      <4>1. g.set \subseteq Nat /\ \A q \in g.set : q <= n - 1
        BY <2>2 DEF Histories
      <4> QED BY <2>4, <3>3, <4>1
    <3>6. \A q \in Nat : ~Processable(g, q) => q \in S \/ q < top + 1
      BY <2>2, <2>4, <3>2, <3>3 DEF Processable, Histories
    <3> HIDE DEF S, r, gone
    <3>7. r \in Histories(n) /\ r.set \subseteq g.set
      <4> DEFINE w == top + 1
      <4>1. w \in Nat /\ w <= n /\ r = [set |-> S, watermark |-> w]
        BY <3>3, <3>4
      <4>2. S \subseteq w .. n - 1
        BY <3>5
      <4> HIDE DEF w
      <4> QED BY <3>5, <4>1, <4>2 DEF Histories
    <3>8. \A q \in Nat : ~Processable(g, q) => ~Processable(r, q)
      BY <3>3, <3>4, <3>6 DEF Processable
    <3>9. AddPn(h, pn) = r
      BY <2>1, <2>6 DEF r, top
    <3> QED BY <2>2, <2>3, <3>7, <3>8, <3>9 DEF Forgets
  <2> QED BY <2>5, <2>6
<1> QED BY <1>1, <1>2

\* ackm_on_pkts_acked: an own packet that is acknowledged moves the watermark
\* behind the largest number it reported.
LEMMA AckedFacts ==
    ASSUME NEW n \in Nat, NEW h \in Histories(n), NEW A,
           \A o \in A : o.pns # {} /\ o.pns \subseteq 0 .. n - 1
    PROVE  /\ OnPktsAcked(h, A) \in Histories(n)
           /\ OnPktsAcked(h, A).set \subseteq h.set
           /\ ~Forgets(h, OnPktsAcked(h, A))
<1>1. CASE A = {}
  BY <1>1 DEF OnPktsAcked, Forgets
<1>2. CASE A # {}
  <2> DEFINE tops == {Largest(o.pns) : o \in A}
  <2>1. tops \subseteq 0 .. n - 1
    <3> SUFFICES ASSUME NEW o \in A PROVE Largest(o.pns) \in 0 .. n - 1
      OBVIOUS
    <3> QED BY LargestFacts
  <2>2. tops # {}
    BY <1>2
  <2>3. OnPktsAcked(h, A) = BumpWatermark(h, Largest(tops) + 1)
    BY <1>2 DEF OnPktsAcked
  <2> HIDE DEF tops
  <2>4. Largest(tops) \in 0 .. n - 1
    BY <2>1, <2>2, LargestFacts
  <2> QED BY <2>3, <2>4, BumpFacts
<1> QED BY <1>1, <1>2

(* The ACK state.                                                          *)

\* A space has its own delay, never above the largest.
LEMMA AckDelayBound == \A sp \in Spaces : AckDelay(sp) \in 0 .. MaxAckDelay
  BY RxConstants DEF AckDelay

\* ackm_on_rx_ack_eliciting counts one packet at most, brings the flush
\* deadline only forward, and leaves a frame asked for or a deadline within
\* the delay of the space.
LEMMA OnRxFacts ==
    ASSUME NEW a \in AckStates, NEW sp \in Spaces, NEW S, NEW missing \in BOOLEAN
    PROVE  LET b == OnRxAckEliciting(a, sp, S, missing)
           IN  /\ b \in AckStates
               /\ b.frame = a.frame
               /\ b.since \in {a.since, a.since + 1}
               /\ \/ b.desired
                  \/ b.deadline <= a.deadline /\ b.deadline <= AckDelay(sp)
<1> DEFINE d == IF a.deadline < AckDelay(sp) THEN a.deadline ELSE AckDelay(sp)
           n == a.since + 1
           b == OnRxAckEliciting(a, sp, S, missing)
<1>1. /\ d \in 0 .. Infinite /\ d <= a.deadline /\ d <= AckDelay(sp)
      /\ n \in Nat /\ n = a.since + 1
      /\ Infinite \in 0 .. Infinite
  BY AckDelayBound, RxConstants DEF AckStates, Infinite
<1>2. \/ b = a /\ a.desired
      \/ b = [a EXCEPT !.since = n, !.desired = TRUE, !.deadline = Infinite]
      \/ b = [a EXCEPT !.since = n, !.deadline = d]
  BY DEF OnRxAckEliciting
<1> HIDE DEF d, n, b
<1>3. CASE b = a /\ a.desired
  BY <1>3 DEF b
<1>4. CASE b = [a EXCEPT !.since = n, !.desired = TRUE, !.deadline = Infinite]
  <2>1. b \in AckStates /\ b.frame = a.frame /\ b.since = n /\ b.desired
    BY <1>1, <1>4 DEF AckStates
  <2> QED BY <1>1, <2>1 DEF b
<1>5. CASE b = [a EXCEPT !.since = n, !.deadline = d]
  <2>1. b \in AckStates /\ b.frame = a.frame /\ b.since = n /\ b.deadline = d
    BY <1>1, <1>5 DEF AckStates
  <2> QED BY <1>1, <2>1 DEF b
<1> QED BY <1>2, <1>3, <1>4, <1>5

\* ossl_ackm_get_ack_frame reports numbers of the history only.
LEMMA GetAckFrameFacts ==
    ASSUME NEW a \in AckStates, NEW S \in SUBSET Nat
    PROVE  /\ GetAckFrame(a, S) \in AckStates
           /\ GetAckFrame(a, S).frame \subseteq S
           /\ GetAckFrame(a, S).since = 0
<1> DEFINE f == NewestRanges(S, FrameRanges)
<1>1. f \subseteq S /\ f \in SUBSET Nat
  BY DEF NewestRanges
<1>2. Infinite \in 0 .. Infinite
  BY RxConstants DEF Infinite
<1>3. GetAckFrame(a, S) =
        [a EXCEPT !.frame = f, !.since = 0, !.generated = TRUE,
                  !.desired = FALSE, !.deadline = Infinite]
  BY DEF GetAckFrame
<1> DEFINE b == GetAckFrame(a, S)
<1> HIDE DEF f, b
<1>4. b = [a EXCEPT !.frame = f, !.since = 0, !.generated = TRUE,
                    !.desired = FALSE, !.deadline = Infinite]
  BY <1>3 DEF b
<1>5. b \in AckStates
  BY <1>1, <1>2, <1>4 DEF AckStates
<1>6. b.frame = f /\ b.since = 0
  BY <1>4 DEF AckStates
<1> QED BY <1>1, <1>5, <1>6 DEF b

-----------------------------------------------------------------------------
(* The initial state.                                                      *)

\* The invariant holds when the channel starts.
LEMMA InitEstablishes == Init => IInv
<1> SUFFICES ASSUME Init PROVE IInv
  OBVIOUS
<1> USE DEF Init
<1> Infinite \in Nat /\ Infinite = MaxAckDelay + 1
  BY RxConstants DEF Infinite
<1>1. Shape
  BY RxConstants DEF Shape, AckStates, Never
<1>2. TypeOK
  <2>1. rxPending \in Seq(net) /\ Len(rxPending) <= MaxBatch
    BY RxConstants, EmptySeq
  <2>2. \A sp \in Spaces : MaxPn[sp] \in Nat
    BY RxConstants DEF Spaces
  <2>3. \A sp \in Spaces :
          ack[sp] \in [desired : BOOLEAN, generated : BOOLEAN,
                       since : 0 .. MaxPn[sp], deadline : 0 .. Infinite,
                       frame : SUBSET (0 .. peerNext[sp] - 1)]
    BY <2>2, RxConstants
  <2> QED BY <2>1, <2>3, RxConstants DEF TypeOK, Never
<1>3. Tracked /\ HistoryProcessed /\ AcksOnlyReceived /\ OwedAckScheduled
  BY DEF Tracked, HistoryProcessed, AcksOnlyReceived, OwedAckScheduled
<1>4. CountedOnce
  <2> SUFFICES ASSUME NEW sp \in Spaces
               PROVE  /\ peerNext[sp] <= MaxPn[sp]
                      /\ ack[sp].since <= Cardinality(ProcessedIn(sp))
    BY DEF CountedOnce
  <2>1. ProcessedIn(sp) = {}
    BY DEF ProcessedIn
  <2> QED BY <2>1, FS_EmptySet, RxConstants DEF Spaces
<1> QED BY <1>1, <1>2, <1>3, <1>4 DEF IInv

-----------------------------------------------------------------------------
(* The steps.                                                              *)

\* What the invariant says of a space, in the form the steps use it.
LEMMA SpaceFacts ==
    ASSUME IInv, NEW sp \in Spaces
    PROVE  /\ peerNext[sp] \in Nat /\ ownNext[sp] \in Nat
           /\ rx[sp] \in Histories(peerNext[sp])
           /\ ack[sp] \in AckStates
           /\ ack[sp].frame \subseteq 0 .. peerNext[sp] - 1
           /\ hist.waited[sp] \in Never .. Infinite
           /\ Infinite \in Nat /\ Infinite = MaxAckDelay + 1
           /\ MaxPn[sp] \in Nat
           /\ \A o \in own : o.sp = sp =>
                /\ o.pn \in Nat
                /\ o.pns # {} /\ o.pns \subseteq 0 .. peerNext[sp] - 1
<1>1. Infinite \in Nat /\ Infinite = MaxAckDelay + 1 /\ MaxPn[sp] \in Nat
  BY RxConstants DEF Infinite, Spaces
<1>2. /\ peerNext[sp] \in Nat /\ ownNext[sp] \in Nat /\ ack[sp] \in AckStates
      /\ hist.waited[sp] \in Never .. Infinite
  BY DEF IInv, Shape, TypeOK
<1>3. ack[sp].frame \subseteq 0 .. peerNext[sp] - 1
  BY DEF IInv, TypeOK
<1>4. rx[sp] \in Histories(peerNext[sp])
  <2>1. rx[sp] \in [set : SUBSET Nat, watermark : Nat]
    BY DEF IInv, Shape
  <2>2. /\ rx[sp].watermark \in 0 .. peerNext[sp]
        /\ rx[sp].set \subseteq rx[sp].watermark .. peerNext[sp] - 1
    BY DEF IInv, TypeOK
  <2> QED BY <1>2, <2>1, <2>2 DEF Histories
<1>5. \A o \in own : o.sp = sp =>
        o.pn \in Nat /\ o.pns # {} /\ o.pns \subseteq 0 .. peerNext[sp] - 1
  BY DEF IInv, Shape, TypeOK
<1> QED BY <1>1, <1>2, <1>3, <1>4, <1>5

\* Packets of one space that have arrived are no more than the numbers the
\* peer has used.
LEMMA KeysBound ==
    ASSUME IInv, NEW sp \in Spaces, NEW K \in SUBSET Keys, \A k \in K : k[1] = sp
    PROVE  /\ IsFiniteSet(K) /\ Cardinality(K) \in Nat
           /\ Cardinality(K) <= peerNext[sp]
<1> DEFINE n == peerNext[sp]
           box == {sp} \X (0 .. n - 1)
<1>1. n \in Nat
  BY SpaceFacts
<1>2. K \in SUBSET box
  <2> SUFFICES ASSUME NEW k \in K PROVE k \in box
    OBVIOUS
  <2>1. PICK q \in net : k = <<q.sp, q.pn>>
    BY DEF Keys
  <2>2. q.pn \in 0 .. peerNext[q.sp] - 1
    BY DEF IInv, TypeOK
  <2> QED BY <2>1, <2>2
<1>3. IsFiniteSet({sp}) /\ Cardinality({sp}) = 1
  BY FS_Singleton
<1>4. IsFiniteSet(0 .. n - 1) /\ Cardinality(0 .. n - 1) = n
  <2>1. 0 \in Int /\ n - 1 \in Int /\ (n - 1) - 0 + 1 = n /\ (0 > n - 1 => n = 0)
    BY <1>1
  <2> HIDE DEF n
  <2> QED BY <2>1, FS_Interval
<1>5. IsFiniteSet(box) /\ Cardinality(box) = 1 * n
  BY <1>3, <1>4, FS_Product
<1> HIDE DEF box
<1>6. IsFiniteSet(K) /\ Cardinality(K) <= Cardinality(box)
  BY <1>2, <1>5, FS_Subset
<1>7. Cardinality(K) \in Nat
  BY <1>6, FS_CardinalityType
<1> QED BY <1>1, <1>5, <1>6, <1>7

\* The numbers processed in a space are finitely many.
LEMMA ProcessedFinite ==
    ASSUME IInv, NEW sp \in Spaces
    PROVE  /\ ProcessedIn(sp) \subseteq Keys /\ IsFiniteSet(ProcessedIn(sp))
           /\ Cardinality(ProcessedIn(sp)) \in Nat
           /\ Cardinality(ProcessedIn(sp)) <= peerNext[sp]
<1>1. ProcessedIn(sp) \in SUBSET Keys /\ \A k \in ProcessedIn(sp) : k[1] = sp
  BY DEF ProcessedIn, IInv, TypeOK
<1> QED BY <1>1, KeysBound

\* The conjuncts of TypeOK that bound the ACK state follow from the others.
LEMMA AckBounds ==
    ASSUME NEW n \in Nat, NEW k \in Nat, NEW a \in AckStates,
           a.since <= k, a.frame \subseteq 0 .. n - 1
    PROVE  a \in [desired : BOOLEAN, generated : BOOLEAN,
                  since : 0 .. k, deadline : 0 .. Infinite,
                  frame : SUBSET (0 .. n - 1)]
<1>1. a.since \in 0 .. k /\ a.frame \in SUBSET (0 .. n - 1)
  BY DEF AckStates
<1> QED BY <1>1 DEF AckStates

\* The peer sends: what it used before stays below its next number.
LEMMA PeerSendKeeps ==
    ASSUME IInv, NEW sp \in Spaces, NEW ae \in BOOLEAN, NEW final \in BOOLEAN,
           NEW acks \in SUBSET {o.pn : o \in {q \in own : q.sp = sp}},
           PeerSend(sp, ae, acks, final)
    PROVE  IInv'
<1> DEFINE p == [sp |-> sp, pn |-> peerNext[sp], ae |-> ae,
                 acks |-> acks, final |-> final]
<1>1. /\ net' = net \cup {p} /\ peerNext[sp] < MaxPn[sp]
      /\ peerNext' = [peerNext EXCEPT ![sp] = peerNext[sp] + 1]
      /\ UNCHANGED <<rxPending, rx, ack, wantAck, own, ownNext, discarded, hist>>
  BY DEF PeerSend
<1>2. /\ peerNext' \in [Spaces -> Nat]
      /\ \A q \in Spaces : peerNext[q] \in Nat /\ peerNext[q] <= peerNext'[q]
      /\ peerNext'[sp] = peerNext[sp] + 1
      /\ \A q \in Spaces : peerNext'[q] <= MaxPn[q] /\ MaxPn[q] \in Nat
  <2>1. peerNext \in [Spaces -> Nat] /\ \A q \in Spaces : peerNext[q] <= MaxPn[q]
    BY DEF IInv, TypeOK, CountedOnce
  <2> QED BY <1>1, <2>1, SpaceFacts
<1>3. acks \in SUBSET Nat
  BY DEF IInv, Shape
<1>4. p \in Packets /\ p.sp = sp /\ p.pn = peerNext[sp]
  BY <1>2, <1>3 DEF Packets
<1> HIDE DEF p
<1>5. Shape'
  BY <1>1, <1>4 DEF IInv, Shape
<1>6. Tracked' /\ HistoryProcessed' /\ AcksOnlyReceived' /\ OwedAckScheduled'
  BY <1>1 DEF IInv, Tracked, HistoryProcessed, AcksOnlyReceived,
              OwedAckScheduled, IsAckDesired
<1>7. CountedOnce'
  BY <1>1, <1>2 DEF IInv, CountedOnce, ProcessedIn
<1>8. TypeOK'
  <2>1. \A q \in net' : q.sp \in Spaces /\ q.pn \in 0 .. peerNext'[q.sp] - 1
    <3> SUFFICES ASSUME NEW q \in net'
                 PROVE  q.sp \in Spaces /\ q.pn \in 0 .. peerNext'[q.sp] - 1
      OBVIOUS
    <3>1. CASE q \in net
      <4>1. q.sp \in Spaces /\ q.pn \in 0 .. peerNext[q.sp] - 1
        BY <3>1 DEF IInv, TypeOK
      <4> QED BY <1>2, <4>1
    <3>2. CASE q = p
      BY <1>2, <1>4, <3>2
    <3> QED BY <1>1, <3>1, <3>2
  <2>2. rxPending' \in Seq(net') /\ Len(rxPending') <= MaxBatch
    BY <1>1, SeqMonotonic DEF IInv, TypeOK
  <2>3. ASSUME NEW q \in Spaces
        PROVE  /\ rx'[q].watermark \in 0 .. peerNext'[q]
               /\ rx'[q].set \subseteq rx'[q].watermark .. peerNext'[q] - 1
               /\ ack'[q].frame \subseteq 0 .. peerNext'[q] - 1
    <3>1. /\ rx[q].watermark \in 0 .. peerNext[q]
          /\ rx[q].set \subseteq rx[q].watermark .. peerNext[q] - 1
          /\ ack[q].frame \subseteq 0 .. peerNext[q] - 1
      BY SpaceFacts DEF IInv, TypeOK
    <3> QED BY <1>1, <1>2, <3>1
  <2>4. \A q \in Spaces :
          ack'[q] \in [desired : BOOLEAN, generated : BOOLEAN,
                       since : 0 .. MaxPn[q], deadline : 0 .. Infinite,
                       frame : SUBSET (0 .. peerNext'[q] - 1)]
    <3> SUFFICES ASSUME NEW q \in Spaces
                 PROVE  ack'[q] \in [desired : BOOLEAN, generated : BOOLEAN,
                          since : 0 .. MaxPn[q], deadline : 0 .. Infinite,
                          frame : SUBSET (0 .. peerNext'[q] - 1)]
      OBVIOUS
    <3>1. ack[q].since <= MaxPn[q] /\ ack[q] \in AckStates
      BY SpaceFacts DEF IInv, TypeOK
    <3> QED BY <1>1, <1>2, <2>3, <3>1, AckBounds
  <2>5. \A o \in own' : /\ o.sp \in Spaces \ discarded'
                        /\ o.pn \in 0 .. ownNext'[o.sp] - 1
                        /\ o.pns # {} /\ o.pns \subseteq 0 .. peerNext'[o.sp] - 1
    <3> SUFFICES ASSUME NEW o \in own
                 PROVE  /\ o.sp \in Spaces \ discarded
                        /\ o.pn \in 0 .. ownNext[o.sp] - 1
                        /\ o.pns # {} /\ o.pns \subseteq 0 .. peerNext'[o.sp] - 1
      BY <1>1
    <3>1. /\ o.sp \in Spaces \ discarded
          /\ o.pn \in 0 .. ownNext[o.sp] - 1
          /\ o.pns # {} /\ o.pns \subseteq 0 .. peerNext[o.sp] - 1
      BY DEF IInv, TypeOK
    <3> QED BY <1>2, <3>1
  <2>6. \A k \in {"processed", "repeated"} : hist'[k] \subseteq Keys'
    BY <1>1 DEF IInv, TypeOK, Keys
  <2>7. /\ \A q \in Spaces : hist'.waited[q] \in Never .. MaxAckDelay + 1
        /\ wantAck' \subseteq Spaces /\ ownNext' \in [Spaces -> Nat]
        /\ discarded' \subseteq {"handshake"}
    BY <1>1 DEF IInv, TypeOK
  <2> QED BY <1>2, <2>1, <2>2, <2>3, <2>4, <2>5, <2>6, <2>7 DEF TypeOK
<1> QED BY <1>5, <1>6, <1>7, <1>8 DEF IInv

\* A step that changes only the packets waiting to be handled.
LEMMA PendingKeeps ==
    ASSUME IInv, rxPending' \in Seq(net), Len(rxPending') <= MaxBatch,
           UNCHANGED <<net, peerNext, rx, ack, wantAck, own, ownNext, discarded, hist>>
    PROVE  IInv'
  BY DEF IInv, Shape, TypeOK, Tracked, HistoryProcessed, CountedOnce,
         ProcessedIn, AcksOnlyReceived, OwedAckScheduled, IsAckDesired, Keys

\* A batch is decrypted.
LEMMA ReceiveKeeps ==
    ASSUME IInv, NEW batch \in Batches, Receive(batch)
    PROVE  IInv'
<1>1. PICK n \in 1 .. MaxBatch : batch \in [1 .. n -> net]
  BY DEF Batches
<1>2. n \in Nat /\ n <= MaxBatch
  BY RxConstants
<1>3. batch \in Seq(net) /\ Len(batch) = n
  BY <1>1, <1>2
<1> QED BY <1>2, <1>3, PendingKeeps DEF Receive

\* A packet of a discarded level is dropped.
LEMMA DropKeeps ==
    ASSUME IInv, Drop
    PROVE  IInv'
<1>1. rxPending \in Seq(net) /\ rxPending # <<>> /\ Len(rxPending) <= MaxBatch
  BY DEF IInv, TypeOK, Drop
<1>2. Tail(rxPending) \in Seq(net) /\ Len(Tail(rxPending)) = Len(rxPending) - 1
  BY <1>1, HeadTailProperties
<1>3. Len(rxPending) \in Nat
  BY <1>1, LenProperties
<1>4. Len(Tail(rxPending)) <= MaxBatch
  BY <1>1, <1>2, <1>3, RxConstants
<1> QED BY <1>2, <1>4, PendingKeeps DEF Drop

\* An own packet is lost.
LEMMA OwnLostKeeps ==
    ASSUME IInv, NEW o \in own, OwnLost(o)
    PROVE  IInv'
<1>1. /\ own' = own \ {o} /\ wantAck' = wantAck \cup {o.sp}
      /\ UNCHANGED <<net, peerNext, rxPending, rx, ack, ownNext, discarded, hist>>
  BY DEF OwnLost
<1>2. o.sp \in Spaces
  BY DEF IInv, TypeOK
<1>3. Shape' /\ Tracked' /\ HistoryProcessed' /\ CountedOnce' /\ OwedAckScheduled'
  BY <1>1 DEF IInv, Shape, Tracked, HistoryProcessed, CountedOnce, ProcessedIn,
              OwedAckScheduled, IsAckDesired
<1>4. AcksOnlyReceived'
  BY <1>1 DEF IInv, AcksOnlyReceived
<1>5. TypeOK'
  BY <1>1, <1>2 DEF IInv, TypeOK, Keys
<1> QED BY <1>3, <1>4, <1>5 DEF IInv

\* Time passes: what is left of a flush deadline and what may still be waited
\* shrink together.
LEMMA TickKeeps ==
    ASSUME IInv, Tick
    PROVE  IInv'
<1> DEFINE d(q) == IF ack[q].deadline \in {0, Infinite} THEN ack[q].deadline
                   ELSE ack[q].deadline - 1
           w(q) == IF hist.waited[q] \in 0 .. MaxAckDelay THEN hist.waited[q] + 1
                   ELSE hist.waited[q]
<1>1. /\ ack' = [q \in Spaces |-> [ack[q] EXCEPT !.deadline = d(q)]]
      /\ hist' = [hist EXCEPT !.waited = [q \in Spaces |-> w(q)]]
      /\ UNCHANGED <<net, peerNext, rxPending, rx, wantAck, own, ownNext, discarded>>
  BY DEF Tick
<1>2. \A q \in Spaces : d(q) \in 0 .. Infinite /\ w(q) \in Never .. Infinite
  <2> SUFFICES ASSUME NEW q \in Spaces
               PROVE  d(q) \in 0 .. Infinite /\ w(q) \in Never .. Infinite
    OBVIOUS
  <2>1. /\ ack[q].deadline \in 0 .. Infinite /\ hist.waited[q] \in Never .. Infinite
        /\ Infinite \in Nat /\ Infinite = MaxAckDelay + 1 /\ MaxAckDelay \in Nat
    BY SpaceFacts, RxConstants DEF AckStates
  <2> QED BY <2>1 DEF Never
<1>3. \A q \in Spaces :
        OwedAckScheduled /\ w(q) # Never
          => ack[q].desired \/ d(q) = 0 \/ w(q) + d(q) <= AckDelay(q)
  <2> SUFFICES ASSUME NEW q \in Spaces, OwedAckScheduled, w(q) # Never
               PROVE  ack[q].desired \/ d(q) = 0 \/ w(q) + d(q) <= AckDelay(q)
    OBVIOUS
  <2>1. /\ ack[q].deadline \in 0 .. Infinite /\ hist.waited[q] \in Never .. Infinite
        /\ Infinite \in Nat /\ Infinite = MaxAckDelay + 1 /\ MaxAckDelay \in Nat
        /\ AckDelay(q) \in 0 .. MaxAckDelay
    BY SpaceFacts, AckDelayBound, RxConstants DEF AckStates
  <2>2. hist.waited[q] # Never
    BY <2>1 DEF Never
  <2>3. \/ ack[q].desired \/ ack[q].deadline = 0
        \/ hist.waited[q] + ack[q].deadline <= AckDelay(q)
    BY <2>2 DEF OwedAckScheduled, IsAckDesired
  <2> QED BY <2>1, <2>2, <2>3 DEF Never
<1> HIDE DEF d, w
<1>4. \A q \in Spaces :
        /\ ack'[q] \in AckStates
        /\ ack'[q].since = ack[q].since /\ ack'[q].frame = ack[q].frame
        /\ ack'[q].desired = ack[q].desired /\ ack'[q].deadline = d(q)
        /\ hist'.waited[q] = w(q)
  <2> SUFFICES ASSUME NEW q \in Spaces
               PROVE  /\ ack'[q] \in AckStates
                      /\ ack'[q].since = ack[q].since
                      /\ ack'[q].frame = ack[q].frame
                      /\ ack'[q].desired = ack[q].desired
                      /\ ack'[q].deadline = d(q)
                      /\ hist'.waited[q] = w(q)
    OBVIOUS
  <2>1. ack[q] \in AckStates /\ ack'[q] = [ack[q] EXCEPT !.deadline = d(q)]
    BY <1>1, SpaceFacts
  <2>2. hist'.waited[q] = w(q)
    BY <1>1 DEF IInv, Shape
  <2>3. d(q) \in 0 .. Infinite
    BY <1>2
  <2> QED BY <2>1, <2>2, <2>3 DEF AckStates
<1>5. /\ ack' \in [Spaces -> AckStates]
      /\ hist' \in [processed : SUBSET (Spaces \X Nat),
                    repeated : SUBSET (Spaces \X Nat),
                    waited : [Spaces -> Never .. Infinite]]
      /\ hist'.processed = hist.processed /\ hist'.repeated = hist.repeated
  <2>1. ack' \in [Spaces -> AckStates]
    BY <1>1, <1>4
  <2>2. [q \in Spaces |-> w(q)] \in [Spaces -> Never .. Infinite]
    BY <1>2
  <2> QED BY <1>1, <2>1, <2>2 DEF IInv, Shape
<1>6. Shape' /\ Tracked' /\ HistoryProcessed'
  BY <1>1, <1>5 DEF IInv, Shape, Tracked, HistoryProcessed
<1>7. CountedOnce' /\ AcksOnlyReceived'
  BY <1>1, <1>4, <1>5 DEF IInv, CountedOnce, ProcessedIn, AcksOnlyReceived
<1>8. OwedAckScheduled'
  BY <1>3, <1>4 DEF IInv, OwedAckScheduled, IsAckDesired
<1>9. TypeOK'
  <2>1. \A q \in Spaces :
          ack'[q] \in [desired : BOOLEAN, generated : BOOLEAN,
                       since : 0 .. MaxPn[q], deadline : 0 .. Infinite,
                       frame : SUBSET (0 .. peerNext[q] - 1)]
    <3> SUFFICES ASSUME NEW q \in Spaces
                 PROVE  ack'[q] \in [desired : BOOLEAN, generated : BOOLEAN,
                          since : 0 .. MaxPn[q], deadline : 0 .. Infinite,
                          frame : SUBSET (0 .. peerNext[q] - 1)]
      OBVIOUS
    <3>1. /\ peerNext[q] \in Nat /\ MaxPn[q] \in Nat
          /\ ack[q].since <= MaxPn[q] /\ ack[q].frame \subseteq 0 .. peerNext[q] - 1
      BY SpaceFacts DEF IInv, TypeOK
    <3> QED BY <1>4, <3>1, AckBounds
  <2>2. \A q \in Spaces : hist'.waited[q] \in Never .. MaxAckDelay + 1
    BY <1>2, <1>4 DEF Infinite
  <2>3. \A k \in {"processed", "repeated"} : hist'[k] \subseteq Keys'
    BY <1>1, <1>5 DEF IInv, TypeOK, Keys
  <2> QED BY <1>1, <2>1, <2>2, <2>3 DEF IInv, TypeOK
<1> QED BY <1>6, <1>7, <1>8, <1>9 DEF IInv

\* An ACK frame is generated: it reports what the history holds, and the
\* packet that carries it remembers the same numbers.
LEMMA SendAckKeeps ==
    ASSUME IInv, NEW sp \in Spaces, NEW bundled \in BOOLEAN, SendAck(sp, bundled)
    PROVE  IInv'
<1> DEFINE b == GetAckFrame(ack[sp], rx[sp].set)
           o == [sp |-> sp, pn |-> ownNext[sp], pns |-> b.frame]
           w == [hist.waited EXCEPT ![sp] = Never]
<1>1. /\ ack' = [ack EXCEPT ![sp] = b]
      /\ hist' = [hist EXCEPT !.waited = w]
      /\ sp \notin discarded
      /\ UNCHANGED <<net, peerNext, rxPending, rx, discarded>>
  BY DEF SendAck
<1>2. /\ peerNext[sp] \in Nat /\ ownNext[sp] \in Nat /\ MaxPn[sp] \in Nat
      /\ rx[sp] \in Histories(peerNext[sp]) /\ ack[sp] \in AckStates
  BY SpaceFacts
<1>3. rx[sp].set \in SUBSET Nat /\ rx[sp].set \subseteq 0 .. peerNext[sp] - 1
  BY <1>2 DEF Histories
<1>4. b \in AckStates /\ b.frame \subseteq rx[sp].set /\ b.since = 0
  BY <1>2, <1>3, GetAckFrameFacts
<1> HIDE DEF b
<1>5. ack \in [Spaces -> AckStates]
  BY DEF IInv, Shape
<1>6. ack'[sp] = b /\ \A q \in Spaces \ {sp} : ack'[q] = ack[q]
  BY <1>1, <1>5
<1>7. \/ own' = own /\ ownNext' = ownNext
      \/ /\ b.frame # {} /\ own' = own \cup {o}
         /\ ownNext' = [ownNext EXCEPT ![sp] = ownNext[sp] + 1]
  <2>1. ack'[sp].frame = b.frame
    BY <1>6
  <2> QED BY <2>1 DEF SendAck
<1>8. wantAck' \subseteq wantAck
  BY DEF SendAck
<1>9. o \in [sp : Spaces, pn : Nat, pns : SUBSET Nat]
  BY <1>2, <1>3, <1>4
<1>10. o.sp = sp /\ o.pn = ownNext[sp] /\ o.pns = b.frame
  OBVIOUS
<1> HIDE DEF o
<1>11. /\ w \in [Spaces -> Never .. Infinite] /\ w[sp] = Never
       /\ \A q \in Spaces \ {sp} : w[q] = hist.waited[q]
  BY SpaceFacts DEF IInv, Shape, Never
<1> HIDE DEF w
<1>12. /\ hist' \in [processed : SUBSET (Spaces \X Nat),
                     repeated : SUBSET (Spaces \X Nat),
                     waited : [Spaces -> Never .. Infinite]]
       /\ hist'.processed = hist.processed /\ hist'.repeated = hist.repeated
       /\ hist'.waited = w
  BY <1>1, <1>11 DEF IInv, Shape
<1>13. Shape'
  <2>1. ack' \in [Spaces -> AckStates]
    BY <1>1, <1>4, <1>5
  <2>2. own' \subseteq [sp : Spaces, pn : Nat, pns : SUBSET Nat]
    BY <1>7, <1>9 DEF IInv, Shape
  <2> QED BY <1>1, <1>12, <2>1, <2>2 DEF IInv, Shape
<1>14. Tracked' /\ HistoryProcessed'
  BY <1>1, <1>12 DEF IInv, Tracked, HistoryProcessed
<1>15. CountedOnce'
  <2> SUFFICES ASSUME NEW q \in Spaces
               PROVE  /\ peerNext[q] <= MaxPn[q]
                      /\ ack'[q].since <= Cardinality(ProcessedIn(q))
    BY <1>1, <1>12 DEF CountedOnce, ProcessedIn
  <2>1. /\ peerNext[q] <= MaxPn[q] /\ Cardinality(ProcessedIn(q)) \in Nat
        /\ ack[q].since <= Cardinality(ProcessedIn(q))
    BY ProcessedFinite DEF IInv, CountedOnce
  <2> QED BY <1>4, <1>6, <2>1
<1>16. AcksOnlyReceived'
  <2> SUFFICES ASSUME NEW q \in Spaces, NEW pn,
                      \/ pn \in ack'[q].frame
                      \/ \E x \in own' : x.sp = q /\ pn \in x.pns
               PROVE  <<q, pn>> \in hist.processed
    BY <1>12 DEF AcksOnlyReceived
  <2>1. \A n \in b.frame : <<sp, n>> \in hist.processed
    BY <1>4 DEF IInv, HistoryProcessed
  <2>2. CASE pn \in ack'[q].frame
    BY <1>6, <2>1, <2>2 DEF IInv, AcksOnlyReceived
  <2>3. CASE \E x \in own' : x.sp = q /\ pn \in x.pns
    BY <1>7, <1>10, <2>1, <2>3 DEF IInv, AcksOnlyReceived
  <2> QED BY <2>2, <2>3
<1>17. OwedAckScheduled'
  <2> SUFFICES ASSUME NEW q \in Spaces, w[q] # Never
               PROVE  \/ ack'[q].desired \/ ack'[q].deadline = 0
                      \/ w[q] + ack'[q].deadline <= AckDelay(q)
    BY <1>12 DEF OwedAckScheduled, IsAckDesired
  <2>1. q # sp /\ ack'[q] = ack[q] /\ w[q] = hist.waited[q]
    BY <1>6, <1>11
  <2> QED BY <2>1 DEF IInv, OwedAckScheduled, IsAckDesired
<1>18. TypeOK'
  <2>1. \A q \in Spaces :
          ack'[q] \in [desired : BOOLEAN, generated : BOOLEAN,
                       since : 0 .. MaxPn[q], deadline : 0 .. Infinite,
                       frame : SUBSET (0 .. peerNext[q] - 1)]
    <3> SUFFICES ASSUME NEW q \in Spaces
                 PROVE  ack'[q] \in [desired : BOOLEAN, generated : BOOLEAN,
                          since : 0 .. MaxPn[q], deadline : 0 .. Infinite,
                          frame : SUBSET (0 .. peerNext[q] - 1)]
      OBVIOUS
    <3>1. CASE q # sp
      BY <1>6, <3>1 DEF IInv, TypeOK
    <3>2. CASE q = sp
      <4>1. b.since <= MaxPn[sp] /\ b.frame \subseteq 0 .. peerNext[sp] - 1
        BY <1>2, <1>3, <1>4
      <4>2. ack'[q] = b
        BY <1>6, <3>2
      <4> QED BY <1>2, <1>4, <3>2, <4>1, <4>2, AckBounds
    <3> QED BY <3>1, <3>2
  <2>2. \A x \in own' : /\ x.sp \in Spaces \ discarded
                        /\ x.pn \in 0 .. ownNext'[x.sp] - 1
                        /\ x.pns # {} /\ x.pns \subseteq 0 .. peerNext[x.sp] - 1
    <3>1. CASE own' = own /\ ownNext' = ownNext
      BY <3>1 DEF IInv, TypeOK
    <3>2. CASE /\ b.frame # {} /\ own' = own \cup {o}
               /\ ownNext' = [ownNext EXCEPT ![sp] = ownNext[sp] + 1]
      <4> SUFFICES ASSUME NEW x \in own'
                   PROVE  /\ x.sp \in Spaces \ discarded
                          /\ x.pn \in 0 .. ownNext'[x.sp] - 1
                          /\ x.pns # {} /\ x.pns \subseteq 0 .. peerNext[x.sp] - 1
        OBVIOUS
      <4>1. /\ ownNext \in [Spaces -> Nat] /\ ownNext'[sp] = ownNext[sp] + 1
            /\ \A q \in Spaces \ {sp} : ownNext'[q] = ownNext[q]
        BY <3>2 DEF IInv, TypeOK
      <4>2. CASE x \in own
        <5>1. /\ x.sp \in Spaces \ discarded
              /\ x.pn \in 0 .. ownNext[x.sp] - 1
              /\ x.pns # {} /\ x.pns \subseteq 0 .. peerNext[x.sp] - 1
          BY <4>2 DEF IInv, TypeOK
        <5>2. x.pn \in 0 .. ownNext'[x.sp] - 1
          BY <1>2, <4>1, <5>1
        <5> QED BY <5>1, <5>2
      <4>3. CASE x = o
        <5>1. x.pn \in 0 .. ownNext'[x.sp] - 1
          BY <1>2, <1>10, <4>1, <4>3
        <5>2. x.pns # {} /\ x.pns \subseteq 0 .. peerNext[x.sp] - 1
          BY <1>3, <1>4, <1>10, <3>2, <4>3
        <5> QED BY <1>1, <1>10, <4>3, <5>1, <5>2
      <4> QED BY <3>2, <4>2, <4>3
    <3> QED BY <1>7, <3>1, <3>2
  <2>3. ownNext' \in [Spaces -> Nat]
    BY <1>2, <1>7 DEF IInv, TypeOK
  <2>4. \A q \in Spaces : hist'.waited[q] \in Never .. MaxAckDelay + 1
    BY <1>11, <1>12 DEF Infinite
  <2>5. \A k \in {"processed", "repeated"} : hist'[k] \subseteq Keys'
    BY <1>1, <1>12 DEF IInv, TypeOK, Keys
  <2> QED BY <1>1, <1>8, <2>1, <2>2, <2>3, <2>4, <2>5 DEF IInv, TypeOK
<1> QED BY <1>13, <1>14, <1>15, <1>16, <1>17, <1>18 DEF IInv

\* A packet is processed.  Its number is tracked afterwards whether or not an
\* earlier packet of the batch moved the watermark past it; it is counted only
\* if the history did not know it, so only if it was never processed before.
LEMMA ProcessKeeps ==
    ASSUME IInv, Process
    PROVE  IInv'
<1> DEFINE p == Head(rxPending)
           sp == p.sp
           n == peerNext[sp]
           A == {o \in own : o.sp = sp /\ o.pn \in p.acks}
           h == OnPktsAcked(rx[sp], A)
           r == RecordPn(h, p)
           b == RecordAck(h, p)
           key == <<sp, p.pn>>
           new == p.ae /\ Processable(h, p.pn)
           w == [hist.waited EXCEPT ![sp] =
                   IF p.ae /\ Processable(h, p.pn) /\ hist.waited[sp] = Never
                   THEN 0 ELSE hist.waited[sp]]
           done == hist.processed \cup {key}
           twice == hist.repeated \cup ({key} \cap hist.processed)
<1>1. /\ rxPending # <<>> /\ rxPending' = Tail(rxPending)
      /\ rx' = [rx EXCEPT ![sp] = r]
      /\ ack' = [ack EXCEPT ![sp] = b]
      /\ discarded' \subseteq discarded \cup {"handshake"}
      /\ own' = {o \in own \ A : o.sp \notin discarded'}
      /\ hist' = [hist EXCEPT !.processed = done, !.repeated = twice, !.waited = w]
      /\ UNCHANGED <<net, peerNext, wantAck, ownNext>>
  <2>1. hist' = [hist EXCEPT !.processed = done, !.repeated = twice, !.waited = w]
    BY DEF Process
  <2>2. discarded' \subseteq discarded \cup {"handshake"}
    BY DEF Process
  <2> QED BY <2>1, <2>2 DEF Process
<1>2. /\ p \in net /\ Tail(rxPending) \in Seq(net)
      /\ Len(Tail(rxPending)) <= MaxBatch
  <2>1. rxPending \in Seq(net) /\ Len(rxPending) <= MaxBatch
    BY DEF IInv, TypeOK
  <2>2. Len(rxPending) \in Nat /\ Len(Tail(rxPending)) = Len(rxPending) - 1
    BY <1>1, <2>1, HeadTailProperties, LenProperties
  <2>3. Len(Tail(rxPending)) <= MaxBatch
    BY <2>1, <2>2, RxConstants
  <2> QED BY <1>1, <2>1, <2>3, HeadTailProperties
<1>3. p \in Packets /\ sp \in Spaces /\ p.pn \in 0 .. n - 1 /\ p.ae \in BOOLEAN
  BY <1>2 DEF IInv, Shape, TypeOK, Packets
<1>4. p.pn \in Nat /\ key \in Spaces \X Nat
  BY <1>3 DEF Packets
<1> HIDE DEF p
<1>5. /\ n \in Nat /\ rx[sp] \in Histories(n) /\ ack[sp] \in AckStates
      /\ hist.waited[sp] \in Never .. Infinite /\ MaxPn[sp] \in Nat
      /\ ack[sp].frame \subseteq 0 .. n - 1
      /\ \A o \in A : o.pns # {} /\ o.pns \subseteq 0 .. n - 1
  BY <1>3, SpaceFacts
<1> HIDE DEF A, n
<1>6. h \in Histories(n) /\ h.set \subseteq rx[sp].set /\ ~Forgets(rx[sp], h)
  BY <1>5, AckedFacts
<1> HIDE DEF h
<1>7. /\ r \in Histories(n) /\ r.set \subseteq rx[sp].set \cup {p.pn}
      /\ ~Forgets(rx[sp], r) /\ ~Processable(r, p.pn)
  <2>1. CASE Processable(h, p.pn)
    <3>1. r = AddPn(h, p.pn)
      BY <2>1 DEF RecordPn
    <3>2. /\ r \in Histories(n) /\ r.set \subseteq h.set \cup {p.pn}
          /\ ~Forgets(h, r) /\ ~Processable(r, p.pn)
      BY <1>3, <1>5, <1>6, <3>1, AddPnFacts
    <3> QED BY <1>6, <3>2 DEF Forgets
  <2>2. CASE ~Processable(h, p.pn)
    BY <1>6, <2>2 DEF RecordPn
  <2> QED BY <2>1, <2>2
<1>8. new => key \notin hist.processed
  <2> SUFFICES ASSUME Processable(h, p.pn), key \in hist.processed PROVE FALSE
    OBVIOUS
  <2>1. ~Processable(rx[sp], p.pn)
    BY DEF IInv, Tracked
  <2> QED BY <1>4, <1>6, <2>1 DEF Forgets
<1>9. /\ b \in AckStates /\ b.frame = ack[sp].frame
      /\ ~new => b = ack[sp]
      /\ new => b.since \in {ack[sp].since, ack[sp].since + 1}
      /\ new => b.desired \/ (b.deadline <= ack[sp].deadline /\ b.deadline <= AckDelay(sp))
  <2>1. CASE new
    <3> DEFINE S == AddPn(h, p.pn).set
               miss == IsMissing(ack[sp], p.pn)
    <3>1. b = OnRxAckEliciting(ack[sp], sp, S, miss)
      BY <2>1 DEF RecordAck
    <3>2. miss \in BOOLEAN
      BY DEF IsMissing
    <3> HIDE DEF S, miss
    <3> QED BY <1>3, <1>5, <2>1, <3>1, <3>2, OnRxFacts
  <2>2. CASE ~new
    BY <1>5, <2>2 DEF RecordAck
  <2> QED BY <2>1, <2>2
<1> HIDE DEF r, b, new
<1>10. /\ w \in [Spaces -> Never .. Infinite]
       /\ \A q \in Spaces \ {sp} : w[q] = hist.waited[q]
       /\ w[sp] = IF new /\ hist.waited[sp] = Never THEN 0 ELSE hist.waited[sp]
  <2>1. hist.waited \in [Spaces -> Never .. Infinite] /\ 0 \in Never .. Infinite
    BY <1>3, SpaceFacts DEF IInv, Shape, Never
  <2> QED BY <1>3, <2>1 DEF new
<1>11. /\ done \in SUBSET (Spaces \X Nat) /\ twice \in SUBSET (Spaces \X Nat)
       /\ done \subseteq Keys /\ twice \subseteq Keys
  <2>1. /\ hist.processed \in SUBSET (Spaces \X Nat) /\ hist.processed \subseteq Keys
        /\ hist.repeated \in SUBSET (Spaces \X Nat) /\ hist.repeated \subseteq Keys
    BY DEF IInv, Shape, TypeOK
  <2>2. key \in Keys
    BY <1>2 DEF Keys
  <2> QED BY <1>4, <2>1, <2>2
<1>12. hist.processed \subseteq done /\ key \in done
  OBVIOUS
<1> HIDE DEF w, twice
<1>13. /\ hist' \in [processed : SUBSET (Spaces \X Nat),
                     repeated : SUBSET (Spaces \X Nat),
                     waited : [Spaces -> Never .. Infinite]]
       /\ hist'.processed = done /\ hist'.repeated = twice /\ hist'.waited = w
  <2> HIDE DEF done
  <2> QED BY <1>1, <1>10, <1>11 DEF IInv, Shape
<1>14. /\ rx \in [Spaces -> [set : SUBSET Nat, watermark : Nat]]
       /\ ack \in [Spaces -> AckStates]
       /\ rx'[sp] = r /\ \A q \in Spaces \ {sp} : rx'[q] = rx[q]
       /\ ack'[sp] = b /\ \A q \in Spaces \ {sp} : ack'[q] = ack[q]
  BY <1>1, <1>3 DEF IInv, Shape
<1>15. own' \subseteq own /\ \A o \in own' : o.sp \notin discarded'
  BY <1>1
<1>16. Shape'
  <2>1. r \in [set : SUBSET Nat, watermark : Nat]
    BY <1>7 DEF Histories
  <2>2. rx' \in [Spaces -> [set : SUBSET Nat, watermark : Nat]]
    BY <1>1, <1>14, <2>1
  <2>3. ack' \in [Spaces -> AckStates]
    BY <1>1, <1>9, <1>14
  <2> QED BY <1>1, <1>13, <1>15, <2>2, <2>3 DEF IInv, Shape
<1>17. Tracked'
  <2> SUFFICES ASSUME NEW k \in done PROVE ~Processable(rx'[k[1]], k[2])
    BY <1>13 DEF Tracked
  <2>1. k \in Spaces \X Nat
    BY <1>11
  <2>2. CASE k = key
    BY <1>7, <1>14, <2>2
  <2>3. CASE k \in hist.processed /\ k[1] = sp
    <3>1. ~Processable(rx[sp], k[2])
      BY <2>3 DEF IInv, Tracked
    <3> QED BY <1>7, <1>14, <2>1, <2>3, <3>1 DEF Forgets
  <2>4. CASE k \in hist.processed /\ k[1] # sp
    BY <1>14, <2>1, <2>4 DEF IInv, Tracked
  <2> QED BY <2>2, <2>3, <2>4
<1>18. HistoryProcessed'
  <2> SUFFICES ASSUME NEW q \in Spaces, NEW pn \in rx'[q].set
               PROVE  <<q, pn>> \in done
    BY <1>13 DEF HistoryProcessed
  <2>1. CASE q = sp
    BY <1>7, <1>12, <1>14, <2>1 DEF IInv, HistoryProcessed
  <2>2. CASE q # sp
    BY <1>12, <1>14, <2>2 DEF IInv, HistoryProcessed
  <2> QED BY <2>1, <2>2
<1>19. AcksOnlyReceived'
  <2> SUFFICES ASSUME NEW q \in Spaces, NEW pn,
                      \/ pn \in ack'[q].frame
                      \/ \E x \in own : x.sp = q /\ pn \in x.pns
               PROVE  <<q, pn>> \in hist.processed
    <3> HIDE DEF done
    <3> QED BY <1>12, <1>13, <1>15 DEF AcksOnlyReceived
  <2>1. ack'[q].frame = ack[q].frame
    BY <1>9, <1>14
  <2> QED BY <2>1 DEF IInv, AcksOnlyReceived
<1>20. CountedOnce'
  <2> SUFFICES ASSUME NEW q \in Spaces
               PROVE  /\ peerNext[q] <= MaxPn[q]
                      /\ ack'[q].since <= Cardinality({k \in done : k[1] = q})
    BY <1>1, <1>13 DEF CountedOnce, ProcessedIn
  <2>1. /\ peerNext[q] <= MaxPn[q] /\ ack[q].since <= Cardinality(ProcessedIn(q))
        /\ IsFiniteSet(ProcessedIn(q)) /\ Cardinality(ProcessedIn(q)) \in Nat
        /\ ack[q].since \in Nat
    BY ProcessedFinite, SpaceFacts DEF IInv, CountedOnce, AckStates
  <2>2. CASE q # sp
    <3>1. {k \in done : k[1] = q} = ProcessedIn(q)
      BY <2>2 DEF ProcessedIn
    <3> QED BY <1>14, <2>1, <2>2, <3>1
  <2>3. CASE q = sp
    <3>1. {k \in done : k[1] = q} = ProcessedIn(q) \cup {key}
      BY <2>3 DEF ProcessedIn
    <3>2. Cardinality(ProcessedIn(q) \cup {key})
            = IF key \in ProcessedIn(q) THEN Cardinality(ProcessedIn(q))
              ELSE Cardinality(ProcessedIn(q)) + 1
      BY <2>1, FS_AddElement
    <3>3. key \in ProcessedIn(q) => ~new
      BY <1>8 DEF ProcessedIn
    <3>4. ack'[q] = b
      BY <1>14, <2>3
    <3> DEFINE c == Cardinality(ProcessedIn(q))
               d == Cardinality({k \in done : k[1] = q})
    <3>5. d \in {c, c + 1} /\ c \in Nat /\ ack[q].since <= c /\ (new => d = c + 1)
      BY <2>1, <3>1, <3>2, <3>3
    <3> HIDE DEF c, d
    <3>6. b.since <= d
      BY <1>9, <2>1, <2>3, <3>5
    <3> QED BY <2>1, <3>4, <3>6 DEF d
  <2> QED BY <2>2, <2>3
<1>21. OwedAckScheduled'
  <2> SUFFICES ASSUME NEW q \in Spaces, w[q] # Never
               PROVE  \/ ack'[q].desired \/ ack'[q].deadline = 0
                      \/ w[q] + ack'[q].deadline <= AckDelay(q)
    BY <1>13 DEF OwedAckScheduled, IsAckDesired
  <2>1. CASE q # sp
    BY <1>10, <1>14, <2>1 DEF IInv, OwedAckScheduled, IsAckDesired
  <2>2. CASE q = sp
    <3>1. /\ b.deadline \in Nat /\ ack[sp].deadline \in Nat
          /\ AckDelay(sp) \in Nat /\ hist.waited[sp] \in Int
      BY <1>3, <1>5, <1>9, AckDelayBound, RxConstants DEF AckStates, Infinite, Never
    <3>2. CASE new /\ hist.waited[sp] = Never
      BY <1>9, <1>10, <1>14, <2>2, <3>1, <3>2
    <3>3. CASE ~(new /\ hist.waited[sp] = Never)
      <4>1. /\ w[sp] = hist.waited[sp] /\ hist.waited[sp] # Never
            /\ \/ ack[sp].desired \/ ack[sp].deadline = 0
               \/ hist.waited[sp] + ack[sp].deadline <= AckDelay(sp)
        BY <1>3, <1>10, <2>2, <3>3 DEF IInv, OwedAckScheduled, IsAckDesired
      <4>2. new /\ ack[sp].desired => b.desired
        BY DEF b, new, RecordAck, OnRxAckEliciting
      <4> QED BY <1>9, <1>14, <2>2, <3>1, <4>1, <4>2
    <3> QED BY <3>2, <3>3
  <2> QED BY <2>1, <2>2
<1>22. TypeOK'
  <2>1. \A q \in Spaces :
          /\ rx'[q].watermark \in 0 .. peerNext[q]
          /\ rx'[q].set \subseteq rx'[q].watermark .. peerNext[q] - 1
    <3> SUFFICES ASSUME NEW q \in Spaces
                 PROVE  /\ rx'[q].watermark \in 0 .. peerNext[q]
                        /\ rx'[q].set \subseteq rx'[q].watermark .. peerNext[q] - 1
      OBVIOUS
    <3>1. CASE q # sp
      BY <1>14, <3>1 DEF IInv, TypeOK
    <3>2. CASE q = sp
      <4>1. /\ r.watermark \in 0 .. n /\ r.set \subseteq r.watermark .. n - 1
        BY <1>5, <1>7 DEF Histories
      <4> QED BY <1>14, <3>2, <4>1 DEF n
    <3> QED BY <3>1, <3>2
  <2>2. \A q \in Spaces :
          ack'[q] \in [desired : BOOLEAN, generated : BOOLEAN,
                       since : 0 .. MaxPn[q], deadline : 0 .. Infinite,
                       frame : SUBSET (0 .. peerNext[q] - 1)]
    <3> SUFFICES ASSUME NEW q \in Spaces
                 PROVE  ack'[q] \in [desired : BOOLEAN, generated : BOOLEAN,
                          since : 0 .. MaxPn[q], deadline : 0 .. Infinite,
                          frame : SUBSET (0 .. peerNext[q] - 1)]
      OBVIOUS
    <3>1. CASE q # sp
      BY <1>14, <3>1 DEF IInv, TypeOK
    <3>2. CASE q = sp
      <4>1. b.since <= MaxPn[sp]
        <5>1. /\ ack[sp].since <= Cardinality(ProcessedIn(sp)) /\ n <= MaxPn[sp]
              /\ Cardinality(ProcessedIn(sp)) \in Nat /\ ack[sp].since \in Nat
              /\ IsFiniteSet(ProcessedIn(sp))
          BY <1>3, <1>5, ProcessedFinite DEF IInv, CountedOnce, AckStates, n
        <5>2. new => Cardinality(ProcessedIn(sp)) + 1 <= n
          <6> SUFFICES ASSUME new PROVE Cardinality(ProcessedIn(sp)) + 1 <= n
            OBVIOUS
          <6> DEFINE K == ProcessedIn(sp) \cup {key}
          <6>1. K \in SUBSET Keys /\ \A k \in K : k[1] = sp
            <7>1. key \in Keys /\ key[1] = sp
              BY <1>2 DEF Keys
            <7>2. /\ ProcessedIn(sp) \subseteq Keys
                  /\ \A k \in ProcessedIn(sp) : k[1] = sp
              BY <1>3, ProcessedFinite DEF ProcessedIn
            <7> HIDE DEF key, sp
            <7> QED BY <7>1, <7>2
          <6>2. Cardinality(K) <= n
            <7> HIDE DEF K
            <7> QED BY <1>3, <6>1, KeysBound DEF n
          <6>3. Cardinality(K) = Cardinality(ProcessedIn(sp)) + 1
            <7>1. key \notin ProcessedIn(sp)
              BY <1>8 DEF ProcessedIn
            <7> QED BY <5>1, <7>1, FS_AddElement
          <6> QED BY <6>2, <6>3
        <5>3. CASE new
          BY <1>5, <1>9, <5>1, <5>2, <5>3
        <5>4. CASE ~new
          BY <1>5, <1>9, <5>1, <5>4, <1>3, ProcessedFinite DEF n
        <5> QED BY <5>3, <5>4
      <4>2. b.frame \subseteq 0 .. n - 1
        BY <1>5, <1>9
      <4>3. ack'[q] = b
        BY <1>14, <3>2
      <4> QED BY <1>5, <1>9, <3>2, <4>1, <4>2, <4>3, AckBounds DEF n
    <3> QED BY <3>1, <3>2
  <2>3. \A o \in own' : /\ o.sp \in Spaces \ discarded'
                        /\ o.pn \in 0 .. ownNext[o.sp] - 1
                        /\ o.pns # {} /\ o.pns \subseteq 0 .. peerNext[o.sp] - 1
    BY <1>15 DEF IInv, TypeOK
  <2>4. \A q \in Spaces : hist'.waited[q] \in Never .. MaxAckDelay + 1
    BY <1>10, <1>13 DEF Infinite
  <2>5. \A k \in {"processed", "repeated"} : hist'[k] \subseteq Keys'
    <3> HIDE DEF done
    <3>1. Keys' = Keys
      BY <1>1 DEF Keys
    <3> QED BY <1>11, <1>13, <3>1
  <2>6. rxPending' \in Seq(net) /\ Len(rxPending') <= MaxBatch
    BY <1>1, <1>2
  <2>7. discarded' \subseteq {"handshake"}
    BY <1>1 DEF IInv, TypeOK
  <2> QED BY <1>1, <2>1, <2>2, <2>3, <2>4, <2>5, <2>6, <2>7 DEF IInv, TypeOK
<1> QED BY <1>16, <1>17, <1>18, <1>19, <1>20, <1>21, <1>22 DEF IInv

-----------------------------------------------------------------------------
(* The theorems.                                                           *)

\* Every step keeps the invariant.
LEMMA NextKeeps == IInv /\ [Next]_vars => IInv'
<1> SUFFICES ASSUME IInv, [Next]_vars PROVE IInv'
  OBVIOUS
<1>1. ASSUME NEW sp \in Spaces, NEW ae \in BOOLEAN, NEW final \in BOOLEAN,
             NEW acks \in SUBSET {o.pn : o \in {q \in own : q.sp = sp}},
             PeerSend(sp, ae, acks, final)
      PROVE  IInv'
  BY <1>1, PeerSendKeeps
<1>2. ASSUME NEW batch \in Batches, Receive(batch) PROVE IInv'
  BY <1>2, ReceiveKeeps
<1>3. CASE Drop
  BY <1>3, DropKeeps
<1>4. CASE Process
  BY <1>4, ProcessKeeps
<1>5. ASSUME NEW sp \in Spaces, NEW bundled \in BOOLEAN, SendAck(sp, bundled)
      PROVE  IInv'
  BY <1>5, SendAckKeeps
<1>6. ASSUME NEW o \in own, OwnLost(o) PROVE IInv'
  BY <1>6, OwnLostKeeps
<1>7. CASE Tick
  BY <1>7, TickKeeps
<1>8. CASE UNCHANGED vars
  BY <1>8 DEF IInv, Shape, TypeOK, Tracked, HistoryProcessed, CountedOnce,
              ProcessedIn, AcksOnlyReceived, OwedAckScheduled, IsAckDesired,
              Keys, vars
<1> QED BY <1>1, <1>2, <1>3, <1>4, <1>5, <1>6, <1>7, <1>8 DEF Next

\* The inductive invariant holds in every reachable state of the receive path.
THEOREM Invariance == Spec => []IInv
  BY InitEstablishes, NextKeeps, PTL DEF Spec

\* The RX history, the ACK state and the own packets of a channel stay well
\* formed, and no number in them is one that the peer has not used.
THEOREM TypeCorrect == Spec => []TypeOK
<1>1. IInv => TypeOK
  BY DEF IInv
<1> QED BY <1>1, Invariance, PTL

\* The trimming of ranges and the watermark of rx_pkt_history never make the
\* number of a processed packet look new again.
THEOREM ProcessedStaysTracked == Spec => []SeenIsTracked
<1>1. IInv => SeenIsTracked
  BY DEF IInv, Tracked, SeenIsTracked
<1> QED BY <1>1, Invariance, PTL

\* ossl_ackm_get_ack_frame only ever acknowledges packets that were processed.
THEOREM AcksReceivedPackets == Spec => []AcksOnlyReceived
<1>1. IInv => AcksOnlyReceived
  BY DEF IInv
<1> QED BY <1>1, Invariance, PTL

\* An ack-eliciting packet is acknowledged at once or within the delay that
\* tx_max_ack_delay allows since the oldest one that waits.
THEOREM AckInTime == Spec => []OwedAckScheduled
<1>1. IInv => OwedAckScheduled
  BY DEF IInv
<1> QED BY <1>1, Invariance, PTL

=============================================================================
