---------------------------- MODULE TxPacketiser ----------------------------
(***************************************************************************)
(* The TX packetiser of one server channel during the handshake: the       *)
(* anti-amplification credit window of quic_txp.c, the four phases of      *)
(* ossl_quic_tx_packetiser_generate (archetype selection, staging,         *)
(* adjustment, commit), and the events of the channel and of the ACK       *)
(* manager that change what the packetiser reads: received packets,        *)
(* acknowledgements, losses and probe timeouts.                            *)
(*                                                                         *)
(* Lengths are in an arbitrary unit of bytes, and a CRYPTO stream is the   *)
(* set of the offsets it holds.  A frame's header is counted with its      *)
(* data.  The 0-RTT level is never provisioned on a server, and nothing is *)
(* sent at 1-RTT before the handshake is complete, which is where this     *)
(* model ends, so two encryption levels remain.                            *)
(***************************************************************************)
EXTENDS Integers, FiniteSets

CONSTANTS
    SizeMax,         \* SIZE_MAX, also the sentinel "unlimited"
    MinDgram,        \* QUIC_MIN_INITIAL_DGRAM_LEN
    Mdpl,            \* maximum datagram payload length of the QTX
    Overhead,        \* packet header and AEAD tag
    AckLen,          \* an ACK frame
    PingLen,         \* a PING frame
    ServerHelloLens, \* possible sizes of the server's Initial CRYPTO data
    FlightLens,      \* possible sizes of its Handshake CRYPTO data
    RxLens,          \* possible lengths of a received datagram
    PktThreshold,    \* K_PKT_THRESHOLD
    MinCwnd,         \* smallest congestion window of the controller
    MaxRx,           \* bound: packets received
    MaxPto,          \* bound: probe timeouts
    MaxLoss          \* bound: packets declared lost

ASSUME LengthsAssumption ==
    /\ SizeMax \in Nat \ {0}
    /\ MinDgram \in Nat /\ Mdpl \in Nat /\ MinDgram <= Mdpl
    /\ Overhead \in Nat /\ AckLen \in Nat \ {0} /\ PingLen \in Nat \ {0}
    /\ ServerHelloLens \subseteq Nat \ {0} /\ FlightLens \subseteq Nat \ {0}
    /\ RxLens \subseteq Nat
    /\ PktThreshold \in Nat \ {0} /\ MinCwnd \in Nat \ {0}
    /\ MaxRx \in Nat /\ MaxPto \in Nat /\ MaxLoss \in Nat

VARIABLES
    pc,           \* "rx": between ticks or in ch_rx; "tx": in ch_tx's loop
    credit,       \* txp->unvalidated_credit
    tls,          \* progress of the TLS handshake
    prov,         \* encryption levels provisioned in the QTX
    crypto,       \* offsets of each CRYPTO send stream waiting to be sent
    ackDesired,   \* levels for which ossl_ackm_is_ack_desired
    wantAck,      \* txp->want_ack
    pto,          \* ackm->pending_probe.pto
    antiDeadlock, \* ackm->pending_probe.anti_deadlock_initial and _handshake
    sent,         \* the ACKM's TX history
    nextPn,       \* txp->next_pn
    largestAcked, \* ackm->largest_acked_pkt, -1 for QUIC_PN_INVALID
    dgram,        \* the datagram the last call of generate built
    hist          \* what happened so far; not state of the program: read by the
                  \* bounds, the peer's guards and the properties; bytes are
                  \* counted until the address is validated

vars == <<pc, credit, tls, prov, crypto, ackDesired, wantAck, pto, antiDeadlock,
          sent, nextPn, largestAcked, dgram, hist>>

EL == {"INITIAL", "HANDSHAKE"}
-----------------------------------------------------------------------------
(* The credit window.                                                      *)

\* size_t arithmetic: the value modulo SIZE_MAX + 1.
Wrap(n) == IF n <= SizeMax THEN n ELSE n % (SizeMax + 1)

SetValidated(c) == SizeMax

\* Mutant: saturates at the sentinel instead of below it.
AddUpToSentinel(c, len) ==
    IF c = SizeMax THEN c
    ELSE IF SizeMax - c > Wrap(3 * len) THEN c + Wrap(3 * len) ELSE SizeMax

AddUnvalidatedCredit(c, len) ==
    LET delta == Wrap(3 * len)
    IN  IF c = SizeMax THEN c
        ELSE IF SizeMax - c > delta THEN c + delta ELSE SizeMax - 1

ConsumeUnvalidatedCredit(c, n) ==
    IF c = SizeMax THEN c ELSE IF c < n THEN 0 ELSE c - n

\* Mutant: lets a packet through when any credit is left.
CheckSomeCredit(c, n) == c > 0

CheckUnvalidatedCredit(c, n) == c = SizeMax \/ c >= n
-----------------------------------------------------------------------------
(* Phase 1, archetype selection.  cc says whether the congestion           *)
(* controller has an allowance at this moment; it has one unless the bytes *)
(* in flight fill its window.                                              *)

TxAllowance(cc) == cc \/ Cardinality(sent) * Mdpl >= MinCwnd

\* The columns of the table archetypes that differ at these two levels.
AllowCrypto(arch) == arch # "ACK_ONLY"
AllowPadding(arch) == arch # "ACK_ONLY"
RequireAckEliciting(arch) == arch = "PROBE"

Probing(el) == pto[el] > 0 \/ antiDeadlock[el] > 0

DetermineArchetype(cc) ==
    IF \E el \in EL : Probing(el) THEN "PROBE"
    ELSE IF cc THEN "NORMAL" ELSE "ACK_ONLY"

(* Phase 2, staging.                                                       *)

AckWanted(el) == el \in ackDesired \cup wantAck

ShouldTryStaging(el, arch) ==
    /\ el \in prov
    /\ \/ Probing(el)
       \/ AllowCrypto(arch) /\ crypto[el] # {}
       \/ AckWanted(el)

\* The n lowest offsets of S, in the order the CRYPTO stream gives them out.
Lowest(S, n) ==
    IF Cardinality(S) <= n THEN S
    ELSE {x \in S : Cardinality({y \in S : y < x}) < n}

\* The range at index i, counted from 0, of the send stream's set of offsets.
Run(S, i) == {x \in S : Cardinality({y \in S : y < x /\ y + 1 \notin S}) = i}

\* The CRYPTO frames put in n bytes.  The first takes from the first range.
\* The loop that adds its buffer (one: the stream's ring buffer does not wrap
\* here) reuses the index of the loop over the frames, so every later frame
\* takes from the third range, the same bytes each time until n are used.
CryptoFrames(S, n) ==
    LET first == Lowest(Run(S, 0), n)
        third == Lowest(Run(S, 2), n - Cardinality(first))
    IN  [data |-> first \cup third,
         len  |-> IF third = {} THEN Cardinality(first) ELSE n]

\* The packet staged for el when run bytes of the datagram are taken.
Stage(el, arch, run) ==
    LET reserve == IF RequireAckEliciting(arch) THEN PingLen ELSE 0
        room    == Mdpl - run - Overhead
        valid   == ShouldTryStaging(el, arch) /\ room >= reserve
        ack     == valid /\ AckWanted(el) /\ room - reserve >= AckLen
        space   == room - reserve - (IF ack THEN AckLen ELSE 0)
        frames  == IF valid /\ AllowCrypto(arch) THEN CryptoFrames(crypto[el], space)
                   ELSE [data |-> {}, len |-> 0]
        ping    == valid /\ RequireAckEliciting(arch) /\ frames.data = {}
    IN  [valid |-> valid, ack |-> ack, data |-> frames.data,
         ae |-> frames.data # {} \/ ping,
         len |-> (IF ack THEN AckLen ELSE 0) + frames.len
                   + (IF ping THEN PingLen ELSE 0)]

\* geom.hwm, how much of the datagram is taken after this packet.
Hwm(pkt) == IF pkt.valid THEN pkt.len + Overhead ELSE 0

Staged(arch) ==
    LET ini == Stage("INITIAL", arch, 0)
    IN  [INITIAL |-> ini, HANDSHAKE |-> Stage("HANDSHAKE", arch, Hwm(ini))]

(* Phase 3, adjustment: a datagram with an Initial packet is padded, in    *)
(* that packet, to MinDgram.  ACK_ONLY packets cannot hold padding.        *)

Size(pkt) == IF pkt.len = 0 THEN 0 ELSE pkt.len + Overhead

\* Mutant: the overhead of the Initial packet counts twice.
DeficitTooSmall(pkts) ==
    LET total == Size(pkts["INITIAL"]) + Overhead + Size(pkts["HANDSHAKE"])
    IN  IF pkts["INITIAL"].len = 0 \/ total >= MinDgram THEN 0
        ELSE MinDgram - total

Deficit(pkts) ==
    LET total == Size(pkts["INITIAL"]) + Size(pkts["HANDSHAKE"])
    IN  IF pkts["INITIAL"].len = 0 \/ total >= MinDgram THEN 0
        ELSE MinDgram - total

\* Mutant: gives up whether padding is missing or not.
GiveUpAckOnly(arch, pkts) == ~AllowPadding(arch)

GiveUp(arch, pkts) == ~AllowPadding(arch) /\ Deficit(pkts) > 0

Adjusted(pkts) == [pkts EXCEPT !["INITIAL"].len = @ + Deficit(pkts)]

(* Phase 4, commit: the credit check and the charge, packet by packet.     *)

\* acc: the window, the levels committed so far, and whether one was refused.
CommitPkt(acc, el, pkt) ==
    IF acc.blocked \/ pkt.len = 0 THEN acc
    ELSE IF CheckUnvalidatedCredit(acc.credit, pkt.len)
         THEN [acc EXCEPT !.credit = ConsumeUnvalidatedCredit(@, pkt.len),
                          !.bytes = @ + pkt.len, !.done = @ \cup {el}]
         ELSE [acc EXCEPT !.blocked = TRUE]

CommitAll(pkts, giveUp) ==
    LET acc0 == [credit |-> credit, bytes |-> 0, done |-> {}, blocked |-> giveUp]
    IN  CommitPkt(CommitPkt(acc0, "INITIAL", pkts["INITIAL"]),
                  "HANDSHAKE", pkts["HANDSHAKE"])

\* The four records of a commit, and for each a mutant that takes the staged
\* packets for committed ones, or forgets the condition it depends on.
NewPackets(done, pkts) ==
    {[el |-> el, pn |-> nextPn[el], data |-> pkts[el].data,
      ack |-> pkts[el].ack, ae |-> pkts[el].ae] : el \in done}

RemainingAtStaging(done, pkts) == [el \in EL |-> crypto[el] \ pkts[el].data]

RemainingUnmarked(done, pkts) == crypto

Remaining(done, pkts) ==
    [el \in EL |-> IF el \in done THEN crypto[el] \ pkts[el].data ELSE crypto[el]]

NumbersOfAckEliciting(done, pkts) ==
    [el \in EL |-> IF el \in done /\ pkts[el].ae THEN nextPn[el] + 1 ELSE nextPn[el]]

NextNumbers(done, pkts) ==
    [el \in EL |-> IF el \in done THEN nextPn[el] + 1 ELSE nextPn[el]]

ProbesUnderflow(req, done, pkts) ==
    [el \in EL |-> IF el \in done /\ pkts[el].ae THEN req[el] - 1 ELSE req[el]]

ProbesAtStaging(req, done, pkts) ==
    [el \in EL |-> IF pkts[el].ae /\ req[el] > 0 THEN req[el] - 1 ELSE req[el]]

\* req is pto or antiDeadlock: one packet serves a request of each.
ProbesLeft(req, done, pkts) ==
    [el \in EL |-> IF el \in done /\ pkts[el].ae /\ req[el] > 0
                   THEN req[el] - 1 ELSE req[el]]

\* What txp_pkt_commit and the FIFD record of the packets in done.
RecordCommitted(done, pkts) ==
    /\ crypto' = Remaining(done, pkts)
    /\ nextPn' = NextNumbers(done, pkts)
    /\ sent' = sent \cup NewPackets(done, pkts)
    /\ wantAck' = wantAck \ {el \in done : pkts[el].ack}
    /\ pto' = ProbesLeft(pto, done, pkts)
    /\ antiDeadlock' = ProbesLeft(antiDeadlock, done, pkts)

\* ossl_ackm_get_ack_frame clears the ACK request while the frame is staged,
\* whether or not the packet commits.
ClearAckDesired(pkts) == ackDesired' = ackDesired \ {el \in EL : pkts[el].ack}

\* One call of ossl_quic_tx_packetiser_generate from ch_tx, which calls it
\* until no packet comes out.
Generate(cc) ==
    LET arch == DetermineArchetype(cc)
        plan == Staged(arch)
        pkts == Adjusted(plan)
        acc  == CommitAll(pkts, GiveUp(arch, plan))
        wire == acc.bytes + Overhead * Cardinality(acc.done)
    IN  /\ TxAllowance(cc)
        /\ pc' = IF acc.done # {} THEN "tx" ELSE "rx"
        /\ credit' = acc.credit
        /\ ClearAckDesired(pkts)
        /\ RecordCommitted(acc.done, pkts)
        /\ dgram' = [levels |-> acc.done, len |-> wire]
        /\ hist' = [hist EXCEPT
             !.payload = IF credit = SizeMax THEN @ ELSE @ + acc.bytes,
             !.wire    = IF credit = SizeMax THEN @ ELSE @ + wire,
             !.owed    = @ \ {el \in acc.done : pkts[el].ack},
             !.out     = [el \in EL |-> IF el \in acc.done
                                        THEN @[el] \cup pkts[el].data ELSE @[el]]]
        /\ UNCHANGED <<tls, prov, largestAcked>>
-----------------------------------------------------------------------------
(* What the peer's packets do.  A is the set of packets of el its ACK      *)
(* frame newly acknowledges (empty when it has none), top the largest      *)
(* packet number acknowledged so far, and k the highest number of a packet *)
(* sent at least a loss delay ago.                                         *)

Data(S) == UNION {p.data : p \in S}
Of(S, el) == {p \in S : p.el = el}
LostAcks(S) == {p.el : p \in {q \in S : q.ack}}

\* ackm_detect_and_remove_lost_pkts, called only when a packet is newly
\* acknowledged: packets PktThreshold behind the largest, or old enough.
\* Its other caller is the loss timer, which ackm_get_loss_time_and_space
\* leaves unarmed while the application space has no loss time.
Lost(el, A, top, k) ==
    IF A = {} THEN {}
    ELSE {p \in Of(sent \ A, el) :
            p.pn <= top /\ (p.pn <= k \/ p.pn + PktThreshold <= top)}

CanReceive(el) == pc = "rx" /\ el \in prov /\ hist.rx < MaxRx

\* A possible outcome of the ACK frames of one packet.
AckOutcome(el, A, top, k) ==
    /\ top \in {p.pn : p \in A} \cup {largestAcked[el]}
    /\ largestAcked[el] <= top
    /\ \A p \in A : p.pn <= top
    /\ A = {} => k = -1
    /\ hist.lost + Cardinality(Lost(el, A, top, k)) <= MaxLoss

\* n packets at the Initial level in one datagram of len bytes; ae: the
\* packet is ack-eliciting; hello: it completes the ClientHello, and the TLS
\* tick that follows writes the server's flight and yields its keys.  The
\* datagram that makes the channel has the minimum length; later ones are
\* taken at any length.
RxInitial(len, n, ae, hello, A, top, k) ==
    LET el   == "INITIAL"
        lost == Lost(el, A, top, k)
        once == AddUnvalidatedCredit(credit, len)
    IN  /\ CanReceive(el)
        /\ AckOutcome(el, A, top, k)
        /\ hist.rx = 0 => len >= MinDgram
        /\ hello => tls = "start" /\ ae
        /\ credit' = IF n = 1 THEN once ELSE AddUnvalidatedCredit(once, len)
        /\ ackDesired' = IF ae THEN ackDesired \cup {el} ELSE ackDesired
        /\ wantAck' = wantAck \cup LostAcks(lost)
        /\ sent' = sent \ (A \cup lost)
        /\ largestAcked' = [largestAcked EXCEPT ![el] = top]
        /\ \E sh \in ServerHelloLens, fl \in FlightLens :
             LET flight == [INITIAL |-> 0..(sh - 1), HANDSHAKE |-> 0..(fl - 1)]
             IN  /\ crypto' = IF hello THEN flight
                              ELSE [crypto EXCEPT ![el] = @ \cup Data(lost)]
                 /\ hist' = [hist EXCEPT
                      !.rx = @ + 1, !.lost = @ + Cardinality(lost),
                      !.rxWire = IF hist.validated THEN @ ELSE @ + len,
                      !.credited = IF hist.validated THEN @ ELSE @ + n * len,
                      !.owed = IF ae THEN @ \cup {el} ELSE @,
                      !.produced = IF hello THEN flight ELSE @,
                      !.acked[el] = @ \cup Data(A)]
        /\ tls' = IF hello THEN "flight" ELSE tls
        /\ prov' = IF hello THEN EL ELSE prov
        /\ UNCHANGED <<pc, pto, antiDeadlock, nextPn, dgram>>

\* Mutant: the streams of a discarded level stay.
DiscardNothing(streams, levels) == streams

Discard(streams, levels) ==
    [el \in EL |-> IF el \in levels THEN {} ELSE streams[el]]

\* A packet protected by Handshake keys: ch_rx_handle_packet discards the
\* Initial level, ossl_quic_handle_frames validates the address, and a
\* packet with the client's Finished completes and confirms the handshake,
\* which discards the Handshake level.  Discarding forgets the streams and
\* the packets of the level; want_ack and the probe requests stay.
RxHandshake(ae, fin, A, top, k) ==
    LET el   == "HANDSHAKE"
        lost == Lost(el, A, top, k)
    IN  /\ CanReceive(el)
        /\ AckOutcome(el, A, top, k)
        /\ hist.out["INITIAL"] = hist.produced["INITIAL"]
        /\ fin => ae /\ hist.out[el] = hist.produced[el]
        /\ credit' = SetValidated(credit)
        /\ prov' = IF fin THEN {} ELSE {el}
        /\ tls' = IF fin THEN "done" ELSE tls
        /\ ackDesired' = IF ae THEN ackDesired \cup {el} ELSE ackDesired
        /\ wantAck' = wantAck \cup LostAcks(lost)
        /\ sent' = IF fin THEN {} ELSE Of(sent \ (A \cup lost), el)
        /\ crypto' = Discard([crypto EXCEPT ![el] = @ \cup Data(lost)],
                             IF fin THEN EL ELSE EL \ {el})
        /\ largestAcked' = [largestAcked EXCEPT ![el] = top]
        /\ hist' = [hist EXCEPT
             !.rx = @ + 1, !.lost = @ + Cardinality(lost),
             !.owed = IF ae THEN @ \cup {el} ELSE @, !.validated = TRUE,
             !.acked[el] = @ \cup Data(A)]
        /\ UNCHANGED <<pc, pto, antiDeadlock, nextPn, dgram>>

\* ossl_ackm_on_timeout: the probe timeout of el passed while one of its
\* ack-eliciting packets is in flight.  ch_tick goes on to ch_tx.
OnProbeTimeout(el) ==
    /\ pc = "rx"
    /\ \E p \in Of(sent, el) : p.ae
    /\ hist.ptos < MaxPto
    /\ pc' = "tx"
    /\ pto' = [pto EXCEPT ![el] = @ + 1]
    /\ hist' = [hist EXCEPT !.ptos = @ + 1]
    /\ UNCHANGED <<credit, tls, prov, crypto, ackDesired, wantAck,
                   antiDeadlock, sent, nextPn, largestAcked, dgram>>

\* The same timer with no ack-eliciting packet in flight.  The ACK manager
\* takes a server, too, for a client that waits for the peer to validate its
\* address: a Handshake ACK or the end of the handshake tells it otherwise.
\* The timer runs once an Initial packet, which is always in flight, went out.
OnAntiDeadlockTimeout(el) ==
    /\ pc = "rx"
    /\ \A p \in sent : ~p.ae
    /\ nextPn["INITIAL"] > 0 /\ largestAcked["HANDSHAKE"] = -1
    /\ el = IF "INITIAL" \in prov THEN "INITIAL" ELSE "HANDSHAKE"
    /\ tls # "done"
    /\ hist.ptos < MaxPto
    /\ pc' = "tx"
    /\ antiDeadlock' = [antiDeadlock EXCEPT ![el] = @ + 1]
    /\ hist' = [hist EXCEPT !.ptos = @ + 1]
    /\ UNCHANGED <<credit, tls, prov, crypto, ackDesired, wantAck, pto, sent,
                   nextPn, largestAcked, dgram>>
-----------------------------------------------------------------------------
(* port_bind_channel creates the channel validated when the listener is in *)
(* the unlimited mode or the client's token was valid.                     *)

Init ==
    /\ pc = "rx"
    /\ credit \in {0, SizeMax}
    /\ tls = "start"
    /\ prov = {"INITIAL"}
    /\ crypto = [el \in EL |-> {}]
    /\ ackDesired = {} /\ wantAck = {}
    /\ pto = [el \in EL |-> 0] /\ antiDeadlock = pto
    /\ sent = {}
    /\ nextPn = [el \in EL |-> 0]
    /\ largestAcked = [el \in EL |-> -1]
    /\ dgram = [levels |-> {}, len |-> 0]
    /\ hist = [rx |-> 0, lost |-> 0, ptos |-> 0, payload |-> 0, wire |-> 0,
               rxWire |-> 0, credited |-> 0, owed |-> {},
               validated |-> credit = SizeMax,
               produced |-> crypto, out |-> crypto, acked |-> crypto]

Numbers(S, el) == {p.pn : p \in S} \cup {largestAcked[el], -1}

Rx ==
    \/ /\ CanReceive("INITIAL")
       /\ \E A \in SUBSET Of(sent, "INITIAL") :
            \E top \in Numbers(A, "INITIAL"), k \in Numbers(sent, "INITIAL") :
              \E len \in RxLens, n \in 1..2, ae \in BOOLEAN, hello \in BOOLEAN :
                RxInitial(len, n, ae, hello, A, top, k)
    \/ /\ CanReceive("HANDSHAKE")
       /\ \E A \in SUBSET Of(sent, "HANDSHAKE") :
            \E top \in Numbers(A, "HANDSHAKE"), k \in Numbers(sent, "HANDSHAKE") :
              \E ae \in BOOLEAN, fin \in BOOLEAN :
                RxHandshake(ae, fin, A, top, k)

Timeout == \E el \in EL : OnProbeTimeout(el) \/ OnAntiDeadlockTimeout(el)

Tx == \E cc \in BOOLEAN : Generate(cc)

Next == Rx \/ Timeout \/ Tx

Spec == Init /\ [][Next]_vars
-----------------------------------------------------------------------------
Packets == [el : EL, pn : Nat, data : SUBSET Nat, ack : BOOLEAN, ae : BOOLEAN]

Histories ==
    [rx : Nat, lost : Nat, ptos : Nat, payload : Nat, wire : Nat, rxWire : Nat,
     credited : Nat, owed : SUBSET EL, validated : BOOLEAN,
     produced : [EL -> SUBSET Nat], out : [EL -> SUBSET Nat],
     acked : [EL -> SUBSET Nat]]

\* Every variable of the packetiser has the type its C declaration gives it.
TypeOK ==
    /\ pc \in {"rx", "tx"}
    /\ credit \in 0..SizeMax
    /\ tls \in {"start", "flight", "done"}
    /\ prov \subseteq EL
    /\ crypto \in [EL -> SUBSET Nat]
    /\ ackDesired \subseteq EL
    /\ wantAck \subseteq EL
    /\ pto \in [EL -> Nat] /\ antiDeadlock \in [EL -> Nat]
    /\ sent \subseteq Packets
    /\ nextPn \in [EL -> Nat]
    /\ largestAcked \in [EL -> Nat \cup {-1}]
    /\ dgram \in [levels : SUBSET EL, len : Nat]
    /\ hist \in Histories

\* The window reads SIZE_MAX exactly when the address was validated: however
\* much credit is added, wraps or saturates, it never becomes the sentinel by
\* accident, and it never stops being the sentinel.
SentinelOnlyByValidation == (credit = SizeMax) <=> hist.validated

\* Before validation, the payload already committed and the window together
\* never exceed three times the bytes credited, over any interleaving of
\* credit, blocked datagrams, probes and retransmissions.
WindowBound ==
    ~hist.validated => hist.payload + credit <= 3 * hist.credited

\* Every byte of the server's flight is waiting, in flight or acknowledged
\* as long as its level is in use: a packet refused by the window, a give-up
\* for lack of padding or a loss drops no handshake data.
NoCryptoLost ==
    \A el \in prov :
        crypto[el] \cup Data(Of(sent, el)) \cup hist.acked[el] = hist.produced[el]

\* A byte is never in two places: waiting to be sent while a packet in flight
\* carries it or after it was acknowledged, or carried by two packets at once.
NoCryptoDuplicated ==
    \A el \in EL :
        /\ crypto[el] \cap hist.acked[el] = {}
        /\ \A p \in Of(sent, el) :
             /\ p.data \cap (crypto[el] \cup hist.acked[el]) = {}
             /\ \A q \in Of(sent, el) : p # q => p.data \cap q.data = {}

\* No packet number is used twice in a space, although staged packets are
\* dropped after they were given one: the ACKM refuses a repeated number.
PnsUnique ==
    \A p \in sent :
        /\ p.pn < nextPn[p.el]
        /\ \A q \in sent : q.el = p.el /\ q.pn = p.pn => p = q

\* A probe request of a level in use is only taken back by committing an
\* ack-eliciting packet of that level, never by a pass that was refused.
ProbeServedBySending ==
    [][\A el \in prov : pto'[el] < pto[el] \/ antiDeadlock'[el] < antiDeadlock[el] =>
         \E p \in sent' \ sent : p.el = el /\ p.ae]_vars

\* A datagram with an Initial packet falls below the minimum that phase 3 of
\* generate pads it to only while the window limits what is sent: then the
\* window may have refused a packet the padding was computed with.
InitialPaddedIfUnlimited ==
    [][dgram' # dgram /\ "INITIAL" \in dgram'.levels /\ credit = SizeMax
         => dgram'.len >= MinDgram]_vars

\* ossl_ackm_get_ack_frame takes the request for an acknowledgement back when
\* it is staged, so one that is still owed may stop being asked for; but only
\* while the Initial level is in use, and only by a starved pass: the window
\* refused a packet and has less than a full datagram left, or nothing was
\* sent because the congestion window was full and padding was missing.
AckRequestKept ==
    [][\A el \in hist.owed \cap hist'.owed \cap prov' :
         AckWanted(el) =>
           \/ AckWanted(el)'
           \/ /\ "INITIAL" \in prov
              /\ \/ credit' # SizeMax /\ credit' + Overhead < Mdpl
                 \/ dgram'.levels = {} /\ Cardinality(sent) * Mdpl >= MinCwnd]_vars

\* The bytes of the CRYPTO streams, of the packets in flight and of the
\* acknowledged packets, as bytes of the abstract sender.
Tagged(f) == UNION {{el} \X f[el] : el \in EL}

Sender == INSTANCE LimitedSender WITH
    Factor    <- 3,
    credited  <- hist.credited,
    spent     <- hist.payload,
    validated <- hist.validated,
    open      <- prov,
    waiting   <- Tagged(crypto),
    flying    <- Tagged([el \in EL |-> Data(Of(sent, el))]),
    arrived   <- Tagged(hist.acked)

\* The packetiser with the ACK manager, the dispatcher and the streams is a
\* sender that loses and repeats nothing and stays within the limit.
ImplementsSender == Sender!Spec

(* What the invariants above need to be inductive.                         *)

\* CRYPTO data in the send streams and in the history is data TLS wrote.
Contained ==
    /\ IsFiniteSet(sent)
    /\ \A el \in EL : IsFiniteSet(hist.produced[el])
    /\ \A el \in EL : crypto[el] \subseteq hist.produced[el]
    /\ \A p \in sent : p.data \subseteq hist.produced[p.el]

\* Before TLS wrote its flight there is nothing to send and nothing was sent.
BeforeFlight ==
    tls = "start" =>
        \A el \in EL : hist.produced[el] = {} /\ hist.acked[el] = {}

IInv == /\ TypeOK /\ Contained /\ BeforeFlight
        /\ SentinelOnlyByValidation /\ WindowBound
        /\ NoCryptoLost /\ NoCryptoDuplicated /\ PnsUnique

\* What the comments and documents say and the code does not keep:

\* "This may be useful for callers which wish to enumerate available stream
\* frames" (quic_stream.h, on the skip argument): the CRYPTO frames of one
\* packet are different ranges, so its room is used by each byte only once.
FramesEnumerateRanges ==
    \A el \in EL : LET frames == CryptoFrames(crypto[el], Mdpl - Overhead)
                   IN  frames.len = Cardinality(frames.data)

\* "The server enforces QUIC's anti-amplification rule until the client
\* address is validated" (doc/packet_logging.md): the bytes sent stay within
\* three times the bytes received.
WireBytesBounded == ~hist.validated => hist.wire <= 3 * hist.rxWire
=============================================================================
