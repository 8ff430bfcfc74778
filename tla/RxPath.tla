------------------------------- MODULE RxPath -------------------------------
(***************************************************************************)
(* The receiving half of a channel: a batch of datagrams is decrypted, its *)
(* packets are handled one by one, the ACK manager records their numbers   *)
(* and decides when an ACK frame is due, and the packetiser sends it.      *)
(*   ssl/quic/quic_record_rx.c   decryption of everything that is pending  *)
(*   ssl/quic/quic_channel.c     ch_rx, ch_rx_handle_packet, ch_discard_el *)
(*   ssl/quic/quic_rx_depack.c   ossl_quic_handle_frames                   *)
(*   ssl/quic/quic_ackm.c        the RX history, watermark and ACK frames  *)
(*                                                                         *)
(* A set of packet numbers stands for the range list of UINT_SET.  Time is *)
(* relative: a flush deadline is the time that is left until it.  The peer *)
(* numbers its packets one by one; the network loses, reorders and repeats *)
(* them at will.                                                           *)
(***************************************************************************)
EXTENDS Integers, FiniteSets, Sequences

CONSTANTS
    IsServer,         \* whether the channel is a server's
    MaxRxAckRanges,   \* ranges the RX history keeps (MAX_RX_ACK_RANGES)
    FrameRanges,      \* ranges an ACK frame is filled with
    PktsBeforeAck,    \* ack-eliciting packets that are acknowledged at once
    MaxAckDelay,      \* tx_max_ack_delay, in units of Tick
    MaxPn,            \* bound: how many numbers the peer uses in each space
    MaxOwn,           \* bound: own packets with an ACK frame in each space
    MaxBatch          \* bound: datagrams in one batch

ASSUME RxConstants ==
    /\ IsServer \in BOOLEAN
    /\ MaxRxAckRanges \in Nat \ {0}
    /\ FrameRanges \in 1 .. MaxRxAckRanges
    /\ PktsBeforeAck \in Nat \ {0}
    /\ MaxAckDelay \in Nat
    /\ MaxPn \in [{"handshake", "app"} -> Nat]
    /\ MaxOwn \in [{"handshake", "app"} -> Nat]
    /\ MaxBatch \in Nat \ {0}

Spaces == {"handshake", "app"}
Infinite == MaxAckDelay + 1
Never == -1

VARIABLES
    net,        \* packets the peer has sent, each to arrive any number of times
    peerNext,   \* the peer's next number in each space
    rxPending,  \* decrypted packets not handled yet
    rx,         \* RX history of each space: set and watermark
    ack,        \* ACK state of each space
    wantAck,    \* spaces for which the packetiser wants an ACK frame (want_ack)
    own,        \* own in-flight packets that carry an ACK frame
    ownNext,    \* own packets with an ACK frame so far
    discarded,  \* spaces discarded
    hist        \* history: what was processed and what became of it

vars == <<net, peerNext, rxPending, rx, ack, wantAck, own, ownNext,
          discarded, hist>>

-----------------------------------------------------------------------------
(* Sets of packet numbers as range lists. *)

Largest(S) == CHOOSE p \in S : \A q \in S : q <= p

\* The first numbers of the ranges of S.
Starts(S) == {p \in S : p - 1 \notin S}

\* The numbers in the n highest ranges of S.
NewestRanges(S, n) ==
    {p \in S : Cardinality({q \in Starts(S) : q > p}) < n}

-----------------------------------------------------------------------------
(* The RX history. *)

\* ossl_ackm_is_rx_pn_processable
Processable(h, pn) == pn >= h.watermark /\ pn \notin h.set

\* Mutant: the numbers below the new watermark stay in the set.
BumpKeepingSet(h, mark) ==
    IF mark <= h.watermark THEN h ELSE [h EXCEPT !.watermark = mark]

\* rx_pkt_history_bump_watermark
BumpWatermark(h, mark) ==
    IF mark <= h.watermark THEN h
    ELSE [set |-> {p \in h.set : p >= mark}, watermark |-> mark]

\* Mutant: trimming ranges leaves the watermark alone.
TrimForgetting(h) ==
    [h EXCEPT !.set = NewestRanges(h.set, MaxRxAckRanges)]

\* rx_pkt_history_trim_range_count: the numbers it removes are the lowest.
TrimRangeCount(h) ==
    LET kept == NewestRanges(h.set, MaxRxAckRanges)
        gone == h.set \ kept
    IN  IF gone = {} THEN h
        ELSE BumpWatermark([h EXCEPT !.set = kept], Largest(gone) + 1)

\* rx_pkt_history_add_pn
AddPn(h, pn) ==
    IF pn < h.watermark THEN h
    ELSE TrimRangeCount([h EXCEPT !.set = @ \cup {pn}])

-----------------------------------------------------------------------------
(* When an ACK frame is due. *)

\* ossl_ackm_is_ack_desired
IsAckDesired(sp) == ack[sp].desired \/ ack[sp].deadline = 0

\* ackm_is_missing: the last ACK frame implied that pn was not received.
IsMissing(a, pn) == a.frame # {} /\ pn <= Largest(a.frame) /\ pn \notin a.frame

\* ackm_has_newly_missing: the highest range is one number beyond a new gap.
HasNewlyMissing(a, S) ==
    /\ S # {} /\ a.frame # {}
    /\ Largest(S) - 1 \notin S
    /\ Largest(S) > Largest(a.frame) + 1

AckDelay(sp) == IF sp = "app" THEN MaxAckDelay ELSE 0

\* Mutant: each packet starts the delay anew, however many are waiting.
OnRxPostponing(a, sp, S, wasMissing) ==
    IF a.desired THEN a
    ELSE IF ~a.generated \/ wasMissing \/ HasNewlyMissing(a, S)
    THEN [a EXCEPT !.since = @ + 1, !.desired = TRUE, !.deadline = Infinite]
    ELSE [a EXCEPT !.since = @ + 1, !.deadline = AckDelay(sp)]

\* ackm_on_rx_ack_eliciting, on the history after the packet is added
OnRxAckEliciting(a, sp, S, wasMissing) ==
    IF a.desired THEN a
    ELSE IF \/ ~a.generated \/ wasMissing
            \/ a.since + 1 >= PktsBeforeAck
            \/ HasNewlyMissing(a, S)
    THEN [a EXCEPT !.since = @ + 1, !.desired = TRUE, !.deadline = Infinite]
    ELSE [a EXCEPT !.since = @ + 1,
                   !.deadline = IF @ < AckDelay(sp) THEN @ ELSE AckDelay(sp)]

\* Mutant: the frame spans the gaps up to the largest number.
GetFrameOfHull(a, S) ==
    [a EXCEPT !.frame = IF S = {} THEN {} ELSE 0 .. Largest(S), !.since = 0,
              !.generated = TRUE, !.desired = FALSE, !.deadline = Infinite]

\* ackm_fill_rx_ack_ranges and ossl_ackm_get_ack_frame
GetAckFrame(a, S) ==
    [a EXCEPT !.frame = NewestRanges(S, FrameRanges), !.since = 0,
              !.generated = TRUE, !.desired = FALSE, !.deadline = Infinite]

-----------------------------------------------------------------------------
Init ==
    /\ net = {} /\ peerNext = [sp \in Spaces |-> 0]
    /\ rxPending = <<>>
    /\ rx = [sp \in Spaces |-> [set |-> {}, watermark |-> 0]]
    /\ ack = [sp \in Spaces |->
                [desired |-> FALSE, generated |-> FALSE, since |-> 0,
                 deadline |-> Infinite, frame |-> {}]]
    /\ wantAck = {} /\ own = {} /\ ownNext = [sp \in Spaces |-> 0]
    /\ discarded = {}
    /\ hist = [processed |-> {}, repeated |-> {},
               waited |-> [sp \in Spaces |-> Never]]

\* The peer sends a packet: ack-eliciting or not, acknowledging own packets,
\* with or without what confirms the handshake here: the Finished message of a
\* client, in a Handshake packet, or a server's HANDSHAKE_DONE.
PeerSend(sp, ae, acks, final) ==
    /\ peerNext[sp] < MaxPn[sp]
    /\ final => ae /\ sp = IF IsServer THEN "handshake" ELSE "app"
    /\ net' = net \cup {[sp |-> sp, pn |-> peerNext[sp], ae |-> ae,
                         acks |-> acks, final |-> final]}
    /\ peerNext' = [peerNext EXCEPT ![sp] = @ + 1]
    /\ UNCHANGED <<rxPending, rx, ack, wantAck, own, ownNext, discarded, hist>>

\* Decryption passes a packet on: the keys of its level are there and
\* qrx_validate_hdr_late (rx_late_validate) finds its number processable.
Decrypted(p) == p.sp \notin discarded /\ Processable(rx[p.sp], p.pn)

\* The demultiplexer hands over a batch; the first ossl_qrx_read_pkt of ch_rx
\* decrypts all of it before a packet of it is handled.  A packet that is not
\* passed on leaves no trace: batch is what remains of the datagrams.
Receive(batch) ==
    /\ rxPending = <<>>
    /\ \A i \in 1 .. Len(batch) : Decrypted(batch[i])
    /\ rxPending' = batch
    /\ UNCHANGED <<net, peerNext, rx, ack, wantAck, own, ownNext, discarded, hist>>

\* A packet of a level that was discarded in the meantime is dropped.
Drop ==
    /\ rxPending # <<>>
    /\ Head(rxPending).sp \in discarded
    /\ rxPending' = Tail(rxPending)
    /\ UNCHANGED <<net, peerNext, rx, ack, wantAck, own, ownNext, discarded, hist>>

\* What the numbers acknowledged by own in-flight packets A leave of h
\* (ackm_on_pkts_acked).
OnPktsAcked(h, A) ==
    IF A = {} THEN h
    ELSE BumpWatermark(h, Largest({Largest(o.pns) : o \in A}) + 1)

\* ossl_ackm_on_rx_packet, for the history h of the packet's space
RecordPn(h, p) == IF Processable(h, p.pn) THEN AddPn(h, p.pn) ELSE h
RecordAck(h, p) ==
    IF Processable(h, p.pn) /\ p.ae
    THEN OnRxAckEliciting(ack[p.sp], p.sp, AddPn(h, p.pn).set,
                          IsMissing(ack[p.sp], p.pn))
    ELSE ack[p.sp]

\* The frames of a packet are processed (the ACK frame first), its number is
\* recorded, and TLS or HANDSHAKE_DONE may discard the Handshake space.
Process ==
    /\ rxPending # <<>>
    /\ Head(rxPending).sp \notin discarded
    /\ LET p == Head(rxPending)
           A == {o \in own : o.sp = p.sp /\ o.pn \in p.acks}
           h == OnPktsAcked(rx[p.sp], A)
           key == {<<p.sp, p.pn>>}
       IN  /\ rx' = [rx EXCEPT ![p.sp] = RecordPn(h, p)]
           /\ ack' = [ack EXCEPT ![p.sp] = RecordAck(h, p)]
           /\ discarded' = IF p.final THEN discarded \cup {"handshake"}
                           ELSE discarded
           /\ own' = {o \in own \ A : o.sp \notin discarded'}
           /\ hist' = [hist EXCEPT
                !.processed = @ \cup key,
                !.repeated = @ \cup (key \cap hist.processed),
                !.waited[p.sp] =
                    IF p.ae /\ Processable(h, p.pn) /\ @ = Never THEN 0 ELSE @]
    /\ rxPending' = Tail(rxPending)
    /\ UNCHANGED <<net, peerNext, wantAck, ownNext>>

\* The packetiser sends a packet with an ACK frame, in flight if it bundles
\* something ack-eliciting.  A frame without ranges is not encoded, but the
\* request for it is gone.
SendAck(sp, bundled) ==
    /\ rxPending = <<>> /\ sp \notin discarded
    /\ sp \in wantAck \/ IsAckDesired(sp)
    /\ ack' = [ack EXCEPT ![sp] = GetAckFrame(@, rx[sp].set)]
    /\ LET frame == ack'[sp].frame
       IN  IF frame = {}
           THEN UNCHANGED <<wantAck, own, ownNext>>
           ELSE /\ wantAck' = wantAck \ {sp}
                /\ bundled => ownNext[sp] < MaxOwn[sp]
                /\ own' = IF bundled
                          THEN own \cup {[sp |-> sp, pn |-> ownNext[sp],
                                          pns |-> frame]}
                          ELSE own
                /\ ownNext' = IF bundled THEN [ownNext EXCEPT ![sp] = @ + 1]
                              ELSE ownNext
    /\ hist' = [hist EXCEPT !.waited[sp] = Never]
    /\ UNCHANGED <<net, peerNext, rxPending, rx, discarded>>

\* An own packet is found to be lost; its ACK frame is to be sent anew
\* (on_regen_notify).
OwnLost(o) ==
    /\ rxPending = <<>>
    /\ own' = own \ {o}
    /\ wantAck' = wantAck \cup {o.sp}
    /\ UNCHANGED <<net, peerNext, rxPending, rx, ack, ownNext, discarded, hist>>

\* Time passes between two calls of the channel's tick.
Tick ==
    /\ rxPending = <<>>
    /\ \E sp \in Spaces : hist.waited[sp] \in 0 .. MaxAckDelay
    /\ ack' = [sp \in Spaces |->
                 [ack[sp] EXCEPT !.deadline = IF @ \in {0, Infinite} THEN @
                                              ELSE @ - 1]]
    /\ hist' = [hist EXCEPT !.waited =
                  [sp \in Spaces |-> IF @[sp] \in 0 .. MaxAckDelay
                                     THEN @[sp] + 1 ELSE @[sp]]]
    /\ UNCHANGED <<net, peerNext, rxPending, rx, wantAck, own, ownNext, discarded>>

Batches == UNION {[1 .. n -> net] : n \in 1 .. MaxBatch}

Next ==
    \/ \E sp \in Spaces, ae \in BOOLEAN, final \in BOOLEAN :
         \E acks \in SUBSET {o.pn : o \in {q \in own : q.sp = sp}} :
           PeerSend(sp, ae, acks, final)
    \/ \E batch \in Batches : Receive(batch)
    \/ Drop
    \/ Process
    \/ \E sp \in Spaces, bundled \in BOOLEAN : SendAck(sp, bundled)
    \/ \E o \in own : OwnLost(o)
    \/ Tick

Spec == Init /\ [][Next]_vars

-----------------------------------------------------------------------------
Keys == {<<p.sp, p.pn>> : p \in net}

\* Type correctness.  The RX history holds no number below its watermark, and
\* neither it nor an own packet's ACK frame one that the peer has not used; own
\* packets are tracked only while their space exists.
TypeOK ==
    /\ \A p \in net : p.sp \in Spaces /\ p.pn \in 0 .. peerNext[p.sp] - 1
    /\ peerNext \in [Spaces -> Nat]
    /\ rxPending \in Seq(net) /\ Len(rxPending) <= MaxBatch
    /\ \A sp \in Spaces :
         /\ rx[sp].watermark \in 0 .. peerNext[sp]
         /\ rx[sp].set \subseteq rx[sp].watermark .. peerNext[sp] - 1
         /\ ack[sp] \in [desired : BOOLEAN, generated : BOOLEAN,
                         since : 0 .. MaxPn[sp], deadline : 0 .. Infinite,
                         frame : SUBSET (0 .. peerNext[sp] - 1)]
         /\ hist.waited[sp] \in Never .. MaxAckDelay + 1
    /\ wantAck \subseteq Spaces
    /\ \A o \in own : /\ o.sp \in Spaces \ discarded
                     /\ o.pn \in 0 .. ownNext[o.sp] - 1
                     /\ o.pns # {} /\ o.pns \subseteq 0 .. peerNext[o.sp] - 1
    /\ ownNext \in [Spaces -> Nat]
    /\ discarded \subseteq {"handshake"}
    /\ \A k \in {"processed", "repeated"} :
         hist[k] \subseteq Keys

\* A packet number that was processed stays known as possibly processed, in the
\* set or below the watermark, whatever the trimming of ranges and the bumping
\* of the watermark have done since: no later batch can bring it back.
SeenIsTracked ==
    \A k \in hist.processed :
        k[1] \in discarded \/ ~Processable(rx[k[1]], k[2])

\* Every number in an ACK frame, the last one or one still in flight, is that of
\* a packet that was processed: the peer is never told that a lost packet
\* arrived.
AcksOnlyReceived ==
    \A sp \in Spaces :
        \A pn \in ack[sp].frame \cup UNION {o.pns : o \in {q \in own : q.sp = sp}} :
            <<sp, pn>> \in hist.processed

\* An ack-eliciting packet recorded since the last ACK frame is acknowledged in
\* time: a frame is asked for, or the flush deadline leaves no more than what is
\* left of the delay allowed since the oldest such packet.
OwedAckScheduled ==
    \A sp \in Spaces :
        hist.waited[sp] # Never =>
            \/ IsAckDesired(sp)
            \/ hist.waited[sp] + ack[sp].deadline <= AckDelay(sp)

\* The number of a packet is processed at most once in its space (RFC 9000
\* s. 12.3, which the comments of the RX history and of rx_late_validate take up).
NoPnProcessedTwice == hist.repeated = {}

\* A number in the RX history is in every ACK frame that is generated, so that
\* the peer learns of it from any of them (state (B) of the RX history).
ReportsAllTracked ==
    [][\A sp \in Spaces :
         ack'[sp].generated /\ hist'.waited[sp] = Never /\ hist.waited[sp] # Never
            => ack'[sp].frame = rx[sp].set]_vars
=============================================================================
