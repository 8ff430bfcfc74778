------------------------- MODULE TxPacketiserProofs -------------------------
(***************************************************************************)
(* Proofs about TxPacketiser, for every window width, datagram size,       *)
(* flight and number of events.                                            *)
(***************************************************************************)
EXTENDS TxPacketiser, FiniteSetTheorems, TLAPS

USE DEF EL

(* The credit arithmetic.                                                  *)

\* A wrapped length is a size_t and not larger than the length.
LEMMA WrapBounds ==
    ASSUME NEW n \in Nat
    PROVE  Wrap(n) \in 0..SizeMax /\ Wrap(n) <= n
<1>1. CASE n <= SizeMax
  BY <1>1, LengthsAssumption DEF Wrap
<1>2. CASE n > SizeMax
  <2>1. n % (SizeMax + 1) \in 0..SizeMax
    BY LengthsAssumption
  <2> QED BY <1>2, <2>1, LengthsAssumption DEF Wrap
<1> QED BY <1>1, <1>2, LengthsAssumption

\* Adding credit (quic_txp.c, add_unvalidated_credit) keeps a limited window
\* limited and adds at most three times the length.
LEMMA AddBounds ==
    ASSUME NEW c \in 0..SizeMax, NEW len \in Nat
    PROVE  /\ AddUnvalidatedCredit(c, len) \in 0..SizeMax
           /\ c = SizeMax => AddUnvalidatedCredit(c, len) = SizeMax
           /\ c # SizeMax => /\ AddUnvalidatedCredit(c, len) # SizeMax
                             /\ AddUnvalidatedCredit(c, len) <= c + 3 * len
<1> DEFINE delta == Wrap(3 * len)
<1>1. delta \in 0..SizeMax /\ delta <= 3 * len
  BY WrapBounds
<1> HIDE DEF delta
<1>2. AddUnvalidatedCredit(c, len) =
        IF c = SizeMax THEN c
        ELSE IF SizeMax - c > delta THEN c + delta ELSE SizeMax - 1
  BY DEF AddUnvalidatedCredit, delta
<1> QED BY <1>1, <1>2, LengthsAssumption

\* What the commit loop carries from packet to packet.
Accs == [credit : 0..SizeMax, bytes : Nat, done : SUBSET EL, blocked : BOOLEAN]

\* A packet is charged exactly what is added to the bytes committed, and the
\* sentinel is neither reached nor left by a charge.
LEMMA CommitPktBounds ==
    ASSUME NEW acc \in Accs, NEW el \in EL, NEW pkt, pkt.len \in Nat
    PROVE  /\ CommitPkt(acc, el, pkt) \in Accs
           /\ acc.credit = SizeMax <=> CommitPkt(acc, el, pkt).credit = SizeMax
           /\ acc.credit # SizeMax =>
                CommitPkt(acc, el, pkt).credit + CommitPkt(acc, el, pkt).bytes
                  = acc.credit + acc.bytes
<1>1. CASE acc.blocked \/ pkt.len = 0
  BY <1>1 DEF CommitPkt
<1>2. CASE ~(acc.blocked \/ pkt.len = 0) /\ CheckUnvalidatedCredit(acc.credit, pkt.len)
  <2> DEFINE c == ConsumeUnvalidatedCredit(acc.credit, pkt.len)
             b == acc.bytes + pkt.len
             d == acc.done \cup {el}
  <2>1. CommitPkt(acc, el, pkt) =
          [acc EXCEPT !.credit = c, !.bytes = b, !.done = d]
    BY <1>2 DEF CommitPkt
  <2>2. /\ c \in 0..SizeMax
        /\ acc.credit = SizeMax <=> c = SizeMax
        /\ acc.credit # SizeMax => c = acc.credit - pkt.len
    BY <1>2, LengthsAssumption
       DEF Accs, ConsumeUnvalidatedCredit, CheckUnvalidatedCredit
  <2>3. acc.credit \in 0..SizeMax /\ acc.bytes \in Nat /\ d \in SUBSET EL
    BY DEF Accs
  <2>4. b \in Nat /\ b = acc.bytes + pkt.len
    BY <2>3
  <2> HIDE DEF b, c, d
  <2>5. CommitPkt(acc, el, pkt) \in Accs
    BY <2>1, <2>2, <2>3, <2>4 DEF Accs
  <2>6. CommitPkt(acc, el, pkt).credit = c /\ CommitPkt(acc, el, pkt).bytes = b
    BY <2>1 DEF Accs
  <2> QED BY <2>2, <2>3, <2>4, <2>5, <2>6, LengthsAssumption
<1>3. CASE ~(acc.blocked \/ pkt.len = 0) /\ ~CheckUnvalidatedCredit(acc.credit, pkt.len)
  BY <1>3 DEF CommitPkt, Accs
<1> QED BY <1>1, <1>2, <1>3

\* Moving b from the window c to the payload a keeps their sum bounded.
LEMMA ChargeArithmetic ==
    ASSUME NEW a \in Nat, NEW b \in Nat, NEW c \in Nat, NEW d \in Nat,
           NEW e \in Nat, d + b = c, a + c <= e
    PROVE  (a + b) + d <= e
OBVIOUS

\* Crediting d raises the window by at most 3 * d.
LEMMA CreditArithmetic ==
    ASSUME NEW a \in Nat, NEW c \in Nat, NEW d \in Nat, NEW e \in Nat,
           NEW f \in Nat, a + c <= 3 * e, f <= c + 3 * d
    PROVE  a + f <= 3 * (e + d)
OBVIOUS

(* The staged packets.                                                     *)

\* A packet takes data of its own stream only, whatever the room left.
LEMMA LowestSubset == ASSUME NEW S, NEW n PROVE Lowest(S, n) \subseteq S
BY DEF Lowest

\* The CRYPTO frames take data of the stream, in any room there is.
LEMMA CryptoFramesType ==
    ASSUME NEW S, IsFiniteSet(S), NEW n \in Nat
    PROVE  /\ CryptoFrames(S, n).data \subseteq S
           /\ CryptoFrames(S, n).len \in Nat
<1> DEFINE first == Lowest(Run(S, 0), n)
           third == Lowest(Run(S, 2), n - Cardinality(first))
<1>1. Run(S, 0) \subseteq S /\ Run(S, 2) \subseteq S
  BY DEF Run
<1>2. first \subseteq S /\ third \subseteq S
  BY <1>1, LowestSubset
<1>3. Cardinality(first) \in Nat
  BY <1>2, FS_Subset, FS_CardinalityType
<1>4. CryptoFrames(S, n) = [data |-> first \cup third,
                            len  |-> IF third = {} THEN Cardinality(first) ELSE n]
  BY DEF CryptoFrames
<1> HIDE DEF first, third
<1> QED BY <1>2, <1>3, <1>4

Staging == [valid : BOOLEAN, ack : BOOLEAN, data : SUBSET Nat, ae : BOOLEAN,
            len : Nat]

\* What is staged for a level (phase 2) is a packet of bytes that wait in the
\* CRYPTO stream of that level.
LEMMA StageType ==
    ASSUME TypeOK, Contained, NEW el \in EL, NEW arch, NEW run \in Int
    PROVE  /\ Stage(el, arch, run) \in Staging
           /\ Stage(el, arch, run).data \subseteq crypto[el]
<1> DEFINE reserve == IF RequireAckEliciting(arch) THEN PingLen ELSE 0
           room    == Mdpl - run - Overhead
           valid   == ShouldTryStaging(el, arch) /\ room >= reserve
           ack     == valid /\ AckWanted(el) /\ room - reserve >= AckLen
           space   == room - reserve - (IF ack THEN AckLen ELSE 0)
           frames  == IF valid /\ AllowCrypto(arch) THEN CryptoFrames(crypto[el], space)
                      ELSE [data |-> {}, len |-> 0]
           ping    == valid /\ RequireAckEliciting(arch) /\ frames.data = {}
           len     == (IF ack THEN AckLen ELSE 0) + frames.len
                        + (IF ping THEN PingLen ELSE 0)
<1>1. IsFiniteSet(crypto[el]) /\ crypto[el] \subseteq Nat
  BY FS_Subset DEF Contained, TypeOK
<1>2. valid => space \in Nat
  BY LengthsAssumption
<1> HIDE DEF space
<1>3. frames.data \subseteq crypto[el] /\ frames.len \in Nat
  BY <1>1, <1>2, CryptoFramesType
<1> HIDE DEF frames
<1>4. len \in Nat
  BY <1>3, LengthsAssumption
<1>5. valid \in BOOLEAN /\ ack \in BOOLEAN /\ ping \in BOOLEAN
  BY DEF ShouldTryStaging
<1>6. Stage(el, arch, run) = [valid |-> valid, ack |-> ack, data |-> frames.data,
                              ae |-> frames.data # {} \/ ping, len |-> len]
  BY DEF Stage, frames, space
<1> HIDE DEF valid, ack, ping, len
<1> QED BY <1>1, <1>3, <1>4, <1>5, <1>6 DEF Staging

\* The staged packets are well-formed for any archetype and take data of
\* their own level.
LEMMA StagedType ==
    ASSUME TypeOK, Contained, NEW arch
    PROVE  /\ Staged(arch) \in [EL -> Staging]
           /\ \A el \in EL : Staged(arch)[el].data \subseteq crypto[el]
<1> DEFINE ini == Stage("INITIAL", arch, 0)
           hs  == Stage("HANDSHAKE", arch, Hwm(ini))
<1>0. ini \in Staging /\ ini.data \subseteq crypto["INITIAL"]
  BY StageType DEF EL
<1>h. Hwm(ini) \in Int
  BY <1>0, LengthsAssumption DEF Hwm, Staging
<1>1. /\ ini \in Staging /\ ini.data \subseteq crypto["INITIAL"]
      /\ hs \in Staging /\ hs.data \subseteq crypto["HANDSHAKE"]
  BY <1>0, <1>h, StageType DEF EL
<1>2. Staged(arch) = [el \in EL |-> IF el = "INITIAL" THEN ini ELSE hs]
  BY DEF Staged
<1> HIDE DEF ini, hs
<1> QED BY <1>1, <1>2

\* Padding (phase 3) changes the length of the Initial packet only.
LEMMA AdjustedType ==
    ASSUME NEW pkts \in [EL -> Staging]
    PROVE  /\ Adjusted(pkts) \in [EL -> Staging]
           /\ \A el \in EL : Adjusted(pkts)[el].data = pkts[el].data
<1>1. pkts["INITIAL"] \in Staging /\ pkts["HANDSHAKE"] \in Staging
  OBVIOUS
<1>2. Size(pkts["INITIAL"]) \in Nat /\ Size(pkts["HANDSHAKE"]) \in Nat
  BY <1>1, LengthsAssumption DEF Size, Staging
<1>3. Deficit(pkts) \in Nat
  BY <1>2, LengthsAssumption DEF Deficit
<1> DEFINE n == pkts["INITIAL"].len + Deficit(pkts)
           new == [pkts["INITIAL"] EXCEPT !.len = n]
<1>4. n \in Nat
  BY <1>1, <1>3 DEF Staging
<1>5. Adjusted(pkts) = [pkts EXCEPT !["INITIAL"] = new]
  BY DEF Adjusted
<1> HIDE DEF n
<1>6. new \in Staging /\ new.data = pkts["INITIAL"].data
  BY <1>1, <1>4 DEF Staging
<1> HIDE DEF new
<1> QED BY <1>1, <1>5, <1>6

\* The whole commit phase: what leaves the window is what is committed, and
\* an unlimited window stays unlimited.
LEMMA CommitAllBounds ==
    ASSUME credit \in 0..SizeMax, NEW pkts \in [EL -> Staging],
           NEW giveUp \in BOOLEAN
    PROVE  /\ CommitAll(pkts, giveUp) \in Accs
           /\ credit = SizeMax <=> CommitAll(pkts, giveUp).credit = SizeMax
           /\ credit # SizeMax =>
                CommitAll(pkts, giveUp).credit + CommitAll(pkts, giveUp).bytes
                  = credit
<1> DEFINE a0 == [credit |-> credit, bytes |-> 0, done |-> {}, blocked |-> giveUp]
           a1 == CommitPkt(a0, "INITIAL", pkts["INITIAL"])
           a2 == CommitPkt(a1, "HANDSHAKE", pkts["HANDSHAKE"])
<1>1. a0 \in Accs /\ a0.credit = credit /\ a0.bytes = 0
  BY DEF Accs
<1>2. pkts["INITIAL"].len \in Nat /\ pkts["HANDSHAKE"].len \in Nat
  BY DEF Staging
<1>3. CommitAll(pkts, giveUp) = a2
  BY DEF CommitAll
<1> HIDE DEF a0
<1>4. /\ a1 \in Accs
      /\ a0.credit = SizeMax <=> a1.credit = SizeMax
      /\ a0.credit # SizeMax => a1.credit + a1.bytes = a0.credit + a0.bytes
  BY <1>1, <1>2, CommitPktBounds
<1> HIDE DEF a1
<1>5. /\ a2 \in Accs
      /\ a1.credit = SizeMax <=> a2.credit = SizeMax
      /\ a1.credit # SizeMax => a2.credit + a2.bytes = a1.credit + a1.bytes
  BY <1>2, <1>4, CommitPktBounds
<1> HIDE DEF a2
<1> QED BY <1>1, <1>3, <1>4, <1>5

(* One call of generate, with the packets it committed named.              *)

Committed(done, pkts, bytes) ==
    /\ done \in SUBSET EL /\ pkts \in [EL -> Staging] /\ bytes \in Nat
    /\ \A el \in EL : pkts[el].data \subseteq crypto[el]
    /\ credit' \in 0..SizeMax
    /\ credit = SizeMax <=> credit' = SizeMax
    /\ credit # SizeMax => credit' + bytes = credit
    /\ RecordCommitted(done, pkts)
    /\ \E wire \in Nat :
         /\ dgram' = [levels |-> done, len |-> wire]
         /\ hist' = [hist EXCEPT
              !.payload = IF credit = SizeMax THEN hist.payload
                          ELSE hist.payload + bytes,
              !.wire    = IF credit = SizeMax THEN hist.wire
                          ELSE hist.wire + wire,
              !.owed    = hist.owed \ {el \in done : pkts[el].ack},
              !.out     = [el \in EL |-> IF el \in done
                             THEN hist.out[el] \cup pkts[el].data
                             ELSE hist.out[el]]]
    /\ pc' \in {"rx", "tx"}
    /\ ackDesired' \subseteq ackDesired
    /\ UNCHANGED <<tls, prov, largestAcked>>

\* Every call commits a set of levels, takes their data from the streams and
\* their bytes from the window.
LEMMA GenerateCommits ==
    ASSUME TypeOK, Contained, NEW cc \in BOOLEAN, Generate(cc)
    PROVE  \E done, pkts, bytes : Committed(done, pkts, bytes)
<1> DEFINE arch == DetermineArchetype(cc)
           plan == Staged(arch)
           pkts == Adjusted(plan)
           give == GiveUp(arch, plan)
           acc  == CommitAll(pkts, give)
           wire == acc.bytes + Overhead * Cardinality(acc.done)
<1>1. /\ pc' = IF acc.done # {} THEN "tx" ELSE "rx"
      /\ credit' = acc.credit
      /\ ClearAckDesired(pkts)
      /\ RecordCommitted(acc.done, pkts)
      /\ dgram' = [levels |-> acc.done, len |-> wire]
      /\ hist' = [hist EXCEPT
             !.payload = IF credit = SizeMax THEN hist.payload
                         ELSE hist.payload + acc.bytes,
             !.wire    = IF credit = SizeMax THEN hist.wire ELSE hist.wire + wire,
             !.owed    = hist.owed \ {el \in acc.done : pkts[el].ack},
             !.out     = [el \in EL |-> IF el \in acc.done
                            THEN hist.out[el] \cup pkts[el].data
                            ELSE hist.out[el]]]
      /\ UNCHANGED <<tls, prov, largestAcked>>
  BY DEF Generate
<1>2. give \in BOOLEAN
  BY DEF GiveUp
<1> HIDE DEF arch, give
<1>3. /\ plan \in [EL -> Staging]
      /\ \A el \in EL : plan[el].data \subseteq crypto[el]
  BY StagedType
<1> HIDE DEF plan
<1>4. /\ pkts \in [EL -> Staging]
      /\ \A el \in EL : pkts[el].data \subseteq crypto[el]
  BY <1>3, AdjustedType
<1> HIDE DEF pkts
<1>5. /\ acc \in Accs
      /\ credit = SizeMax <=> acc.credit = SizeMax
      /\ credit # SizeMax => acc.credit + acc.bytes = credit
  BY <1>2, <1>4, CommitAllBounds DEF TypeOK, Histories
<1> HIDE DEF acc
<1>6. acc.done \in SUBSET EL /\ acc.bytes \in Nat /\ acc.credit \in 0..SizeMax
  BY <1>5 DEF Accs
<1>7. wire \in Nat
  <2>1. IsFiniteSet(EL)
    <3>1. IsFiniteSet({"INITIAL"}) /\ EL = {"INITIAL"} \cup {"HANDSHAKE"}
      BY FS_Singleton
    <3> QED BY <3>1, FS_AddElement
  <2>2. Cardinality(acc.done) \in Nat
    BY <1>6, <2>1, FS_Subset, FS_CardinalityType
  <2> QED BY <1>6, <2>2, LengthsAssumption
<1> HIDE DEF wire
<1>8. ackDesired' \subseteq ackDesired
  BY <1>1 DEF ClearAckDesired
<1>9. Committed(acc.done, pkts, acc.bytes)
  BY <1>1, <1>4, <1>5, <1>6, <1>7, <1>8 DEF Committed
<1> QED BY <1>9

(* The steps of the inductive invariant, action by action.                 *)

\* A call of generate keeps the invariant: charges and commits match, data
\* moves from a stream to one new packet, and the number of that packet is
\* new.
LEMMA GenerateKeeps ==
    ASSUME IInv, NEW cc \in BOOLEAN, Generate(cc)
    PROVE  IInv'
<1> USE DEF IInv
<1>1. PICK done, pkts, bytes : Committed(done, pkts, bytes)
  BY GenerateCommits
<1>2. /\ done \in SUBSET EL /\ pkts \in [EL -> Staging]
      /\ \A el \in EL : pkts[el].data \subseteq crypto[el]
      /\ \A el \in EL : /\ pkts[el].data \in SUBSET Nat
                         /\ pkts[el].ack \in BOOLEAN /\ pkts[el].ae \in BOOLEAN
  BY <1>1 DEF Committed, Staging
<1>3. PICK wire \in Nat :
         /\ dgram' = [levels |-> done, len |-> wire]
         /\ hist' = [hist EXCEPT
              !.payload = IF credit = SizeMax THEN hist.payload
                          ELSE hist.payload + bytes,
              !.wire    = IF credit = SizeMax THEN hist.wire
                          ELSE hist.wire + wire,
              !.owed    = hist.owed \ {el \in done : pkts[el].ack},
              !.out     = [el \in EL |-> IF el \in done
                             THEN hist.out[el] \cup pkts[el].data
                             ELSE hist.out[el]]]
  BY <1>1 DEF Committed
<1> DEFINE new(el) == [el |-> el, pn |-> nextPn[el], data |-> pkts[el].data,
                       ack |-> pkts[el].ack, ae |-> pkts[el].ae]
<1>4. /\ crypto' = [el \in EL |-> IF el \in done THEN crypto[el] \ pkts[el].data
                                  ELSE crypto[el]]
      /\ nextPn' = [el \in EL |-> IF el \in done THEN nextPn[el] + 1
                                  ELSE nextPn[el]]
      /\ sent' = sent \cup {new(el) : el \in done}
      /\ wantAck' \subseteq wantAck
      /\ pto' = [el \in EL |-> IF el \in done /\ pkts[el].ae /\ pto[el] > 0
                               THEN pto[el] - 1 ELSE pto[el]]
      /\ antiDeadlock' = [el \in EL |->
                            IF el \in done /\ pkts[el].ae /\ antiDeadlock[el] > 0
                            THEN antiDeadlock[el] - 1 ELSE antiDeadlock[el]]
  BY <1>1 DEF Committed, RecordCommitted, Remaining, NextNumbers, NewPackets,
         ProbesLeft
<1>5. \A el \in EL : new(el) \in Packets
  BY <1>2 DEF TypeOK, Packets
<1>6. \A el \in EL : /\ new(el).el = el /\ new(el).pn = nextPn[el]
                     /\ new(el).data = pkts[el].data
  OBVIOUS
<1>7. /\ bytes \in Nat /\ credit' \in 0..SizeMax /\ ackDesired' \subseteq ackDesired
      /\ credit = SizeMax <=> credit' = SizeMax
      /\ credit # SizeMax => credit' + bytes = credit
      /\ pc' \in {"rx", "tx"} /\ UNCHANGED <<tls, prov, largestAcked>>
  BY <1>1 DEF Committed
<1>8. /\ hist'.validated = hist.validated /\ hist'.credited = hist.credited
      /\ hist'.produced = hist.produced /\ hist'.acked = hist.acked
      /\ hist'.payload = IF credit = SizeMax THEN hist.payload
                         ELSE hist.payload + bytes
  BY <1>3 DEF TypeOK, Histories
<1> HIDE DEF new
<1>9. TypeOK'
  <2>1. sent' \subseteq Packets
    BY <1>2, <1>4, <1>5 DEF TypeOK, Histories
  <2>2. crypto' \in [EL -> SUBSET Nat] /\ nextPn' \in [EL -> Nat]
    BY <1>2, <1>4 DEF TypeOK, Histories
  <2>3. pto' \in [EL -> Nat] /\ antiDeadlock' \in [EL -> Nat]
    BY <1>4 DEF TypeOK, Histories
  <2>4. dgram' \in [levels : SUBSET EL, len : Nat]
    BY <1>2, <1>3
  <2>5. hist' \in Histories
    <3> DEFINE a == IF credit = SizeMax THEN hist.payload ELSE hist.payload + bytes
               b == IF credit = SizeMax THEN hist.wire ELSE hist.wire + wire
               c == hist.owed \ {el \in done : pkts[el].ack}
               d == [el \in EL |-> IF el \in done
                             THEN hist.out[el] \cup pkts[el].data
                             ELSE hist.out[el]]
    <3>1. a \in Nat /\ b \in Nat
      BY <1>3, <1>7 DEF TypeOK, Histories
    <3>2. c \in SUBSET EL
      BY DEF TypeOK, Histories
    <3>3. d \in [EL -> SUBSET Nat]
      BY <1>2 DEF TypeOK, Histories
    <3>4. hist' = [hist EXCEPT !.payload = a, !.wire = b, !.owed = c, !.out = d]
      BY <1>3
    <3> HIDE DEF a, b, c, d
    <3> QED BY <3>1, <3>2, <3>3, <3>4 DEF TypeOK, Histories
  <2> QED BY <1>4, <1>7, <2>1, <2>2, <2>3, <2>4, <2>5 DEF TypeOK, Histories
<1>10. Contained'
  <2>1. IsFiniteSet({new(el) : el \in done})
    <3>1. {new(el) : el \in done} \subseteq {new("INITIAL"), new("HANDSHAKE")}
      BY <1>2
    <3>2. IsFiniteSet({new("INITIAL"), new("HANDSHAKE")})
      <4>1. /\ {new("INITIAL"), new("HANDSHAKE")}
                 = {new("INITIAL")} \cup {new("HANDSHAKE")}
            /\ IsFiniteSet({new("INITIAL")})
        BY FS_Singleton
      <4> QED BY <4>1, FS_AddElement
    <3> QED BY <3>1, <3>2, FS_Subset
  <2>2. IsFiniteSet(sent')
    BY <1>4, <2>1, FS_Union DEF Contained
  <2>3. \A el \in EL : crypto'[el] \subseteq hist'.produced[el]
    BY <1>4, <1>8 DEF Contained
  <2>4. \A p \in sent' : p.data \subseteq hist'.produced[p.el]
    BY <1>2, <1>4, <1>6, <1>8 DEF Contained
  <2> QED BY <1>8, <2>2, <2>3, <2>4 DEF Contained
<1>11. BeforeFlight'
  BY <1>7, <1>8 DEF BeforeFlight
<1>12. SentinelOnlyByValidation' /\ WindowBound'
  <2>1. credit \in 0..SizeMax /\ hist.payload \in Nat /\ hist.credited \in Nat
    BY DEF TypeOK, Histories
  <2>2. SentinelOnlyByValidation'
    BY <1>7, <1>8 DEF SentinelOnlyByValidation
  <2>3. ASSUME ~hist'.validated
        PROVE  hist'.payload + credit' <= 3 * hist'.credited
    <3>1. credit # SizeMax /\ hist.payload + credit <= 3 * hist.credited
      BY <1>8, <2>3 DEF SentinelOnlyByValidation, WindowBound
    <3>2. hist'.payload = hist.payload + bytes /\ hist'.credited = hist.credited
      BY <1>8, <3>1
    <3>3. credit \in Nat /\ credit' \in Nat /\ bytes \in Nat
      BY <1>7, <2>1, LengthsAssumption
    <3>4. credit' + bytes = credit
      BY <1>7, <3>1
    <3>5. 3 * hist.credited \in Nat
      BY <2>1
    <3>6. (hist.payload + bytes) + credit' <= 3 * hist.credited
      BY <2>1, <3>1, <3>3, <3>4, <3>5, ChargeArithmetic
    <3> QED BY <3>2, <3>6
  <2> QED BY <2>2, <2>3 DEF WindowBound
<1>13. NoCryptoLost'
  <2> SUFFICES ASSUME NEW el \in prov
               PROVE  crypto'[el] \cup Data(Of(sent', el)) \cup hist'.acked[el]
                        = hist'.produced[el]
    BY <1>7 DEF NoCryptoLost
  <2>1. el \in EL
    BY DEF TypeOK, Histories
  <2>2. crypto[el] \cup Data(Of(sent, el)) \cup hist.acked[el] = hist.produced[el]
    BY DEF NoCryptoLost
  <2>3. CASE el \in done
    <3>1. Of(sent', el) = Of(sent, el) \cup {new(el)}
      BY <1>2, <1>4, <1>6, <2>3 DEF Of
    <3>2. Data(Of(sent', el)) = Data(Of(sent, el)) \cup pkts[el].data
      BY <1>6, <2>1, <3>1 DEF Data
    <3>3. crypto'[el] = crypto[el] \ pkts[el].data /\ pkts[el].data \subseteq crypto[el]
      BY <1>2, <1>4, <2>1, <2>3
    <3> QED BY <1>8, <2>2, <3>2, <3>3
  <2>4. CASE el \notin done
    <3>1. Of(sent', el) = Of(sent, el)
      BY <1>2, <1>4, <1>6, <2>4 DEF Of
    <3>2. crypto'[el] = crypto[el]
      BY <1>4, <2>1, <2>4
    <3> QED BY <1>8, <2>2, <3>1, <3>2
  <2> QED BY <2>3, <2>4
<1>14. NoCryptoDuplicated'
  <2> SUFFICES ASSUME NEW el \in EL
               PROVE  /\ crypto'[el] \cap hist'.acked[el] = {}
                      /\ \A p \in Of(sent', el) :
                           /\ p.data \cap (crypto'[el] \cup hist'.acked[el]) = {}
                           /\ \A q \in Of(sent', el) :
                                p # q => p.data \cap q.data = {}
    BY DEF NoCryptoDuplicated
  <2>1. /\ crypto[el] \cap hist.acked[el] = {}
        /\ \A p \in Of(sent, el) :
             /\ p.data \cap (crypto[el] \cup hist.acked[el]) = {}
             /\ \A q \in Of(sent, el) : p # q => p.data \cap q.data = {}
    BY DEF NoCryptoDuplicated
  <2>2. CASE el \in done
    <3>1. Of(sent', el) = Of(sent, el) \cup {new(el)}
      BY <1>2, <1>4, <1>6, <2>2 DEF Of
    <3>2. crypto'[el] = crypto[el] \ pkts[el].data /\ pkts[el].data \subseteq crypto[el]
      BY <1>2, <1>4, <2>2
    <3> QED BY <1>6, <1>8, <2>1, <3>1, <3>2
  <2>3. CASE el \notin done
    <3>1. Of(sent', el) = Of(sent, el)
      BY <1>2, <1>4, <1>6, <2>3 DEF Of
    <3>2. crypto'[el] = crypto[el]
      BY <1>4, <2>3
    <3> QED BY <1>8, <2>1, <3>1, <3>2
  <2> QED BY <2>2, <2>3
<1>15. PnsUnique'
  <2>1. \A el \in EL : /\ nextPn[el] \in Nat /\ nextPn[el] <= nextPn'[el]
                       /\ el \in done => nextPn[el] < nextPn'[el]
    BY <1>4 DEF TypeOK, Histories
  <2>2. \A p \in sent : p.el \in EL /\ p.pn \in Nat
    BY DEF TypeOK, Packets
  <2>3. \A p \in sent : p.pn < nextPn[p.el] /\ p.pn < nextPn'[p.el]
    BY <1>4, <2>1, <2>2 DEF PnsUnique, TypeOK
  <2>4. \A p \in sent' : p \in sent \/ \E el \in done : p = new(el)
    BY <1>4
  <2>5. \A p \in sent' : p.pn < nextPn'[p.el]
    BY <1>2, <1>6, <2>1, <2>3, <2>4
  <2>6. ASSUME NEW p \in sent', NEW q \in sent', q.el = p.el, q.pn = p.pn
        PROVE  p = q
    <3>1. CASE p \in sent /\ q \in sent
      BY <2>6, <3>1 DEF PnsUnique
    <3>2. CASE p \notin sent /\ q \notin sent
      BY <1>2, <1>6, <2>4, <2>6, <3>2
    <3>3. CASE p \in sent /\ q \notin sent
      BY <1>2, <1>6, <2>1, <2>2, <2>3, <2>4, <2>6, <3>3
    <3>4. CASE p \notin sent /\ q \in sent
      BY <1>2, <1>6, <2>1, <2>2, <2>3, <2>4, <2>6, <3>4
    <3> QED BY <3>1, <3>2, <3>3, <3>4
  <2> QED BY <2>5, <2>6 DEF PnsUnique
<1> QED BY <1>9, <1>10, <1>11, <1>12, <1>13, <1>14, <1>15

\* What an ACK frame declares lost are packets of its level still in flight,
\* none of them acknowledged.
LEMMA LostFacts ==
    ASSUME TypeOK, Contained, NEW el \in EL, NEW A \in SUBSET Of(sent, el),
           NEW top, NEW k
    PROVE  /\ Lost(el, A, top, k) \subseteq Of(sent, el)
           /\ Lost(el, A, top, k) \cap A = {}
           /\ Cardinality(Lost(el, A, top, k)) \in Nat
           /\ Data(A) \subseteq hist.produced[el] /\ Data(A) \in SUBSET Nat
           /\ Data(Lost(el, A, top, k)) \subseteq hist.produced[el]
           /\ Data(Lost(el, A, top, k)) \in SUBSET Nat
           /\ LostAcks(Lost(el, A, top, k)) \subseteq EL
<1>1. Lost(el, A, top, k) \subseteq Of(sent, el) /\ Lost(el, A, top, k) \cap A = {}
  BY DEF Lost, Of
<1>2. Of(sent, el) \subseteq sent /\ \A p \in Of(sent, el) : p.el = el
  BY DEF Of
<1>3. IsFiniteSet(Lost(el, A, top, k))
  BY <1>1, <1>2, FS_Subset DEF Contained
<1>4. Cardinality(Lost(el, A, top, k)) \in Nat
  BY <1>3, FS_CardinalityType
<1>5. \A S \in SUBSET Of(sent, el) :
         Data(S) \subseteq hist.produced[el] /\ Data(S) \in SUBSET Nat
  BY <1>2 DEF Data, Contained, TypeOK, Packets
<1>6. LostAcks(Lost(el, A, top, k)) \subseteq EL
  BY <1>1, <1>2 DEF LostAcks
<1> QED BY <1>1, <1>4, <1>5, <1>6

\* When A leaves the packets in flight of el for the acknowledged bytes and L
\* for the stream, no byte disappears and none is in two places.
AckMoved(el, A, L) ==
    LET S == Of(sent, el) \ (A \cup L)
        c == crypto[el] \cup Data(L)
        a == hist.acked[el] \cup Data(A)
    IN  /\ c \cup Data(S) \cup a =
             crypto[el] \cup Data(Of(sent, el)) \cup hist.acked[el]
        /\ c \cap a = {}
        /\ \A p \in S : /\ p.data \cap (c \cup a) = {}
                        /\ \A q \in S : p # q => p.data \cap q.data = {}

\* An ACK frame moves the data of the packets it acknowledges to the
\* acknowledged bytes and the data of those it shows lost back to the stream.
LEMMA AckMoves ==
    ASSUME NoCryptoDuplicated, NEW el \in EL, NEW A \in SUBSET Of(sent, el),
           NEW L \in SUBSET Of(sent, el), L \cap A = {}
    PROVE  AckMoved(el, A, L)
<1> DEFINE S == Of(sent, el) \ (A \cup L)
           c == crypto[el] \cup Data(L)
           a == hist.acked[el] \cup Data(A)
<1>1. /\ crypto[el] \cap hist.acked[el] = {}
      /\ \A p \in Of(sent, el) :
           /\ p.data \cap (crypto[el] \cup hist.acked[el]) = {}
           /\ \A q \in Of(sent, el) : p # q => p.data \cap q.data = {}
  BY DEF NoCryptoDuplicated
<1>2. c \cup Data(S) \cup a = crypto[el] \cup Data(Of(sent, el)) \cup hist.acked[el]
  BY DEF Data
<1>3. c \cap a = {}
  BY <1>1 DEF Data
<1>4. \A p \in S : p.data \cap (c \cup a) = {}
  BY <1>1 DEF Data
<1>5. \A p \in S : \A q \in S : p # q => p.data \cap q.data = {}
  BY <1>1
<1> QED BY <1>2, <1>3, <1>4, <1>5 DEF AckMoved

\* A probe timeout keeps the invariant.
LEMMA TimeoutKeeps ==
    ASSUME IInv, NEW el \in EL, OnProbeTimeout(el) \/ OnAntiDeadlockTimeout(el)
    PROVE  IInv'
<1> USE DEF IInv
<1>1. /\ hist' = [hist EXCEPT !.ptos = hist.ptos + 1] /\ pc' = "tx"
      /\ pto' = pto \/ pto' = [pto EXCEPT ![el] = pto[el] + 1]
      /\ \/ antiDeadlock' = antiDeadlock
         \/ antiDeadlock' = [antiDeadlock EXCEPT ![el] = antiDeadlock[el] + 1]
      /\ UNCHANGED <<credit, tls, prov, crypto, ackDesired, wantAck, sent,
                     nextPn, largestAcked, dgram>>
  BY DEF OnProbeTimeout, OnAntiDeadlockTimeout
<1> DEFINE n == hist.ptos + 1
<1>2. n \in Nat /\ hist' = [hist EXCEPT !.ptos = n]
  BY <1>1 DEF TypeOK, Histories
<1> HIDE DEF n
<1>3. hist' \in Histories
  BY <1>2 DEF TypeOK, Histories
<1>4. /\ hist'.validated = hist.validated /\ hist'.credited = hist.credited
      /\ hist'.produced = hist.produced /\ hist'.acked = hist.acked
      /\ hist'.payload = hist.payload
  BY <1>2 DEF TypeOK, Histories
<1>5. TypeOK'
  BY <1>1, <1>3 DEF TypeOK, Histories
<1>6. Contained' /\ BeforeFlight'
  BY <1>1, <1>4 DEF Contained, BeforeFlight
<1>7. SentinelOnlyByValidation' /\ WindowBound'
  BY <1>1, <1>4 DEF SentinelOnlyByValidation, WindowBound
<1>8. NoCryptoLost' /\ NoCryptoDuplicated' /\ PnsUnique'
  BY <1>1, <1>4 DEF NoCryptoLost, NoCryptoDuplicated, PnsUnique
<1> QED BY <1>5, <1>6, <1>7, <1>8

\* A packet at the Initial level keeps the invariant: every packet credited
\* adds at most three times the datagram's length, and the data of a lost
\* packet returns to its stream.
LEMMA RxInitialKeeps ==
    ASSUME IInv, NEW A \in SUBSET Of(sent, "INITIAL"), NEW top, NEW k,
           NEW len \in RxLens, NEW n \in 1..2, NEW ae \in BOOLEAN,
           NEW hello \in BOOLEAN, RxInitial(len, n, ae, hello, A, top, k)
    PROVE  IInv'
<1> USE DEF IInv
<1> DEFINE el   == "INITIAL"
           lost == Lost(el, A, top, k)
           once == AddUnvalidatedCredit(credit, len)
<1>1. PICK sh \in ServerHelloLens, fl \in FlightLens :
        LET flight == [INITIAL |-> 0..(sh - 1), HANDSHAKE |-> 0..(fl - 1)]
        IN  /\ crypto' = IF hello THEN flight
                         ELSE [crypto EXCEPT ![el] = crypto[el] \cup Data(lost)]
            /\ hist' = [hist EXCEPT
                 !.rx = hist.rx + 1, !.lost = hist.lost + Cardinality(lost),
                 !.rxWire = IF hist.validated THEN hist.rxWire ELSE hist.rxWire + len,
                 !.credited = IF hist.validated THEN hist.credited
                              ELSE hist.credited + n * len,
                 !.owed = IF ae THEN hist.owed \cup {el} ELSE hist.owed,
                 !.produced = IF hello THEN flight ELSE hist.produced,
                 !.acked[el] = hist.acked[el] \cup Data(A)]
  BY DEF RxInitial
<1>2. /\ AckOutcome(el, A, top, k)
      /\ hello => tls = "start" /\ ae
      /\ credit' = IF n = 1 THEN once ELSE AddUnvalidatedCredit(once, len)
      /\ ackDesired' = IF ae THEN ackDesired \cup {el} ELSE ackDesired
      /\ wantAck' = wantAck \cup LostAcks(lost)
      /\ sent' = sent \ (A \cup lost)
      /\ largestAcked' = [largestAcked EXCEPT ![el] = top]
      /\ tls' = IF hello THEN "flight" ELSE tls
      /\ prov' = IF hello THEN EL ELSE prov
      /\ UNCHANGED <<pc, pto, antiDeadlock, nextPn, dgram>>
  BY DEF RxInitial
<1>3. /\ lost \subseteq Of(sent, el) /\ lost \cap A = {} /\ Cardinality(lost) \in Nat
      /\ Data(A) \subseteq hist.produced[el] /\ Data(A) \in SUBSET Nat
      /\ Data(lost) \subseteq hist.produced[el] /\ Data(lost) \in SUBSET Nat
      /\ LostAcks(lost) \subseteq EL
  BY LostFacts
<1> HIDE DEF lost
<1> DEFINE flight == [INITIAL |-> 0..(sh - 1), HANDSHAKE |-> 0..(fl - 1)]
           produced == IF hello THEN flight ELSE hist.produced
           credited == IF hist.validated THEN hist.credited ELSE hist.credited + n * len
           acked == [hist.acked EXCEPT ![el] = hist.acked[el] \cup Data(A)]
<1>4. /\ flight \in [EL -> SUBSET Nat]
      /\ \A e \in EL : IsFiniteSet(flight[e])
  <2> sh - 1 \in Int /\ fl - 1 \in Int
    BY LengthsAssumption
  <2>1. /\ 0..(sh - 1) \subseteq Nat /\ IsFiniteSet(0..(sh - 1))
        /\ 0..(fl - 1) \subseteq Nat /\ IsFiniteSet(0..(fl - 1))
    BY FS_Interval
  <2>2. /\ DOMAIN flight = EL /\ flight = [e \in EL |-> flight[e]]
        /\ flight["INITIAL"] = 0..(sh - 1) /\ flight["HANDSHAKE"] = 0..(fl - 1)
    OBVIOUS
  <2> HIDE DEF flight
  <2> QED BY <2>1, <2>2
<1> HIDE DEF flight
<1>5. crypto' = IF hello THEN flight
                ELSE [crypto EXCEPT ![el] = crypto[el] \cup Data(lost)]
  BY <1>1 DEF flight
<1>6. /\ len \in Nat /\ n \in Nat /\ n * len \in Nat
      /\ n = 1 => n * len = len
      /\ n # 1 => n * len = len + len
  BY LengthsAssumption
<1>7. /\ produced \in [EL -> SUBSET Nat] /\ acked \in [EL -> SUBSET Nat]
      /\ credited \in Nat
  BY <1>3, <1>4, <1>6 DEF TypeOK, Histories
<1>8. /\ hist' \in Histories
      /\ hist'.produced = produced /\ hist'.acked = acked
      /\ hist'.credited = credited /\ hist'.payload = hist.payload
      /\ hist'.validated = hist.validated
  <2> DEFINE a == hist.rx + 1
             b == hist.lost + Cardinality(lost)
             c == IF hist.validated THEN hist.rxWire ELSE hist.rxWire + len
             d == IF ae THEN hist.owed \cup {el} ELSE hist.owed
  <2>1. a \in Nat /\ b \in Nat /\ c \in Nat
    BY <1>3, <1>6 DEF TypeOK, Histories
  <2>2. d \in SUBSET EL
    BY DEF TypeOK, Histories
  <2>3. hist' = [hist EXCEPT !.rx = a, !.lost = b, !.rxWire = c,
                   !.credited = credited, !.owed = d, !.produced = produced,
                   !.acked = acked]
    BY <1>1 DEF flight
  <2> HIDE DEF a, b, c, d, credited, produced, acked
  <2>4. hist' \in Histories
    BY <1>7, <2>1, <2>2, <2>3 DEF TypeOK, Histories
  <2> QED BY <2>3, <2>4 DEF TypeOK, Histories
<1> HIDE DEF credited
<1>9. TypeOK'
  <2>1. credit' \in 0..SizeMax
    BY <1>2, <1>6, AddBounds DEF TypeOK
  <2>2. crypto' \in [EL -> SUBSET Nat]
    BY <1>3, <1>4, <1>5 DEF TypeOK
  <2>3. top \in Nat \cup {-1}
    BY <1>2 DEF AckOutcome, TypeOK, Packets, Of
  <2>4. sent' \subseteq Packets /\ wantAck' \subseteq EL /\ ackDesired' \subseteq EL
    BY <1>2, <1>3 DEF TypeOK
  <2> QED BY <1>2, <1>8, <2>1, <2>2, <2>3, <2>4 DEF TypeOK
<1>10. \A p \in sent' : p \in sent /\ p.el \in EL /\ p.data \subseteq hist.produced[p.el]
  BY <1>2 DEF Contained, TypeOK, Packets
<1>11. hello => \A e \in EL : /\ hist.produced[e] = {} /\ acked[e] = {}
                              /\ Data(Of(sent', e)) = {}
  <2> SUFFICES ASSUME hello, NEW e \in EL
               PROVE  hist.produced[e] = {} /\ acked[e] = {} /\ Data(Of(sent', e)) = {}
    OBVIOUS
  <2>1. \A f \in EL : hist.produced[f] = {} /\ hist.acked[f] = {}
    BY <1>2 DEF BeforeFlight
  <2>2. acked[e] = {}
    BY <1>3, <2>1 DEF TypeOK, Histories
  <2>3. Data(Of(sent', e)) = {}
    BY <1>10, <2>1 DEF Data, Of
  <2> QED BY <2>1, <2>2, <2>3
<1>12. Contained'
  <2>1. IsFiniteSet(sent')
    BY <1>2, FS_Subset DEF Contained
  <2>2. \A e \in EL : IsFiniteSet(hist'.produced[e])
    BY <1>4, <1>8 DEF Contained
  <2>3. \A e \in EL : crypto'[e] \subseteq hist'.produced[e]
    BY <1>3, <1>5, <1>8 DEF Contained, TypeOK
  <2>4. \A p \in sent' : p.data \subseteq hist'.produced[p.el]
    BY <1>8, <1>10, <1>11
  <2> QED BY <2>1, <2>2, <2>3, <2>4 DEF Contained
<1>13. BeforeFlight'
  BY <1>2, <1>3, <1>8 DEF BeforeFlight, TypeOK, Histories
<1>14. SentinelOnlyByValidation' /\ WindowBound'
  <2>1. /\ once \in 0..SizeMax
        /\ once = SizeMax <=> credit = SizeMax
        /\ credit # SizeMax => once <= credit + 3 * len
    BY <1>6, AddBounds DEF TypeOK
  <2> HIDE DEF once
  <2>2. /\ credit' \in 0..SizeMax
        /\ credit' = SizeMax <=> credit = SizeMax
        /\ credit # SizeMax /\ n = 1 => credit' <= credit + 3 * len
        /\ credit # SizeMax /\ n # 1 => credit' <= once + 3 * len
    BY <1>2, <1>6, <2>1, AddBounds
  <2>3. SentinelOnlyByValidation'
    BY <1>8, <2>2 DEF SentinelOnlyByValidation
  <2>4. ASSUME ~hist'.validated
        PROVE  hist'.payload + credit' <= 3 * hist'.credited
    <3>1. /\ credit # SizeMax /\ ~hist.validated
          /\ hist.payload + credit <= 3 * hist.credited
      BY <1>8, <2>4 DEF SentinelOnlyByValidation, WindowBound
    <3>2. /\ hist.payload \in Nat /\ hist.credited \in Nat /\ credit \in Nat
          /\ credit' \in Nat /\ once \in Nat
      BY <2>1, <2>2, LengthsAssumption DEF TypeOK, Histories
    <3>3. CASE n = 1
      <4>1. credit' <= credit + 3 * len /\ credited = hist.credited + len
        BY <1>6, <2>2, <3>1, <3>3 DEF credited
      <4>2. hist.payload + credit' <= 3 * (hist.credited + len)
        BY <1>6, <3>1, <3>2, <4>1, CreditArithmetic
      <4> QED BY <1>8, <4>1, <4>2
    <3>4. CASE n # 1
      <4>1. /\ credit' <= once + 3 * len /\ once <= credit + 3 * len
            /\ credited = hist.credited + (len + len)
        BY <1>6, <2>1, <2>2, <3>1, <3>4 DEF credited
      <4>2. credit' <= credit + 3 * (len + len) /\ len + len \in Nat
        BY <1>6, <3>2, <4>1
      <4>3. hist.payload + credit' <= 3 * (hist.credited + (len + len))
        BY <3>1, <3>2, <4>2, CreditArithmetic
      <4> QED BY <1>8, <4>1, <4>3
    <3> QED BY <3>3, <3>4
  <2> QED BY <2>3, <2>4 DEF WindowBound
<1>15. NoCryptoLost' /\ NoCryptoDuplicated'
  <2>1. CASE hello
    <3>1. \A e \in EL : crypto'[e] = hist'.produced[e] /\ hist'.acked[e] = {}
      BY <1>5, <1>8, <1>11, <2>1
    <3>2. \A e \in EL : \A p \in Of(sent', e) : p.data = {}
      BY <1>10, <1>11, <2>1 DEF Of
    <3>3. NoCryptoLost'
      BY <1>2, <1>11, <2>1, <3>1 DEF NoCryptoLost
    <3>4. NoCryptoDuplicated'
      BY <3>1, <3>2 DEF NoCryptoDuplicated
    <3> QED BY <3>3, <3>4
  <2>2. CASE ~hello
    <3>1. /\ crypto'[el] = crypto[el] \cup Data(lost)
          /\ hist'.acked[el] = hist.acked[el] \cup Data(A)
          /\ Of(sent', el) = Of(sent, el) \ (A \cup lost)
          /\ hist'.produced = hist.produced /\ prov' = prov
      BY <1>2, <1>3, <1>5, <1>8, <2>2 DEF Of, TypeOK, Histories
    <3>2. /\ crypto'["HANDSHAKE"] = crypto["HANDSHAKE"]
          /\ hist'.acked["HANDSHAKE"] = hist.acked["HANDSHAKE"]
          /\ Of(sent', "HANDSHAKE") = Of(sent, "HANDSHAKE")
      BY <1>2, <1>3, <1>5, <1>8, <2>2 DEF Of, TypeOK, Histories
    <3>3. /\ crypto'[el] \cup Data(Of(sent', el)) \cup hist'.acked[el] =
               crypto[el] \cup Data(Of(sent, el)) \cup hist.acked[el]
          /\ crypto'[el] \cap hist'.acked[el] = {}
          /\ \A p \in Of(sent', el) :
               /\ p.data \cap (crypto'[el] \cup hist'.acked[el]) = {}
               /\ \A q \in Of(sent', el) : p # q => p.data \cap q.data = {}
      <4> DEFINE S == Of(sent, el) \ (A \cup lost)
                 c == crypto[el] \cup Data(lost)
                 a == hist.acked[el] \cup Data(A)
      <4>1. AckMoved(el, A, lost)
        <5>1. NoCryptoDuplicated /\ el \in EL
          BY DEF EL
        <5>2. A \in SUBSET Of(sent, el) /\ lost \in SUBSET Of(sent, el)
          BY <1>3
        <5>3. lost \cap A = {}
          BY <1>3
        <5> HIDE DEF IInv, lost, el
        <5> QED BY <5>1, <5>2, <5>3, AckMoves
      <4>2. /\ c \cup Data(S) \cup a =
                 crypto[el] \cup Data(Of(sent, el)) \cup hist.acked[el]
            /\ c \cap a = {}
            /\ \A p \in S : /\ p.data \cap (c \cup a) = {}
                            /\ \A q \in S : p # q => p.data \cap q.data = {}
        BY <4>1 DEF AckMoved
      <4>3. crypto'[el] = c /\ hist'.acked[el] = a /\ Of(sent', el) = S
        BY <3>1
      <4> HIDE DEF S, c, a
      <4> QED BY <4>2, <4>3
    <3>4. NoCryptoLost'
      BY <3>1, <3>2, <3>3 DEF NoCryptoLost, TypeOK
    <3>5. NoCryptoDuplicated'
      BY <3>2, <3>3 DEF NoCryptoDuplicated
    <3> QED BY <3>4, <3>5
  <2> QED BY <2>1, <2>2
<1>16. PnsUnique'
  BY <1>2 DEF PnsUnique
<1> QED BY <1>9, <1>12, <1>13, <1>14, <1>15, <1>16

\* A packet at the Handshake level keeps the invariant: it validates the
\* address, and what it discards belongs to levels no longer in use.
LEMMA RxHandshakeKeeps ==
    ASSUME IInv, NEW A \in SUBSET Of(sent, "HANDSHAKE"), NEW top, NEW k,
           NEW ae \in BOOLEAN, NEW fin \in BOOLEAN,
           RxHandshake(ae, fin, A, top, k)
    PROVE  IInv'
<1> USE DEF IInv
<1> DEFINE el   == "HANDSHAKE"
           lost == Lost(el, A, top, k)
<1>1. /\ el \in prov
      /\ AckOutcome(el, A, top, k)
      /\ credit' = SizeMax
      /\ prov' = IF fin THEN {} ELSE {el}
      /\ tls' = IF fin THEN "done" ELSE tls
      /\ ackDesired' = IF ae THEN ackDesired \cup {el} ELSE ackDesired
      /\ wantAck' = wantAck \cup LostAcks(lost)
      /\ sent' = IF fin THEN {} ELSE Of(sent \ (A \cup lost), el)
      /\ crypto' = Discard([crypto EXCEPT ![el] = crypto[el] \cup Data(lost)],
                           IF fin THEN EL ELSE EL \ {el})
      /\ largestAcked' = [largestAcked EXCEPT ![el] = top]
      /\ UNCHANGED <<pc, pto, antiDeadlock, nextPn, dgram>>
  BY DEF RxHandshake, CanReceive, SetValidated
<1>2. hist' = [hist EXCEPT
             !.rx = hist.rx + 1, !.lost = hist.lost + Cardinality(lost),
             !.owed = IF ae THEN hist.owed \cup {el} ELSE hist.owed,
             !.validated = TRUE, !.acked[el] = hist.acked[el] \cup Data(A)]
  BY DEF RxHandshake
<1>3. /\ lost \subseteq Of(sent, el) /\ lost \cap A = {} /\ Cardinality(lost) \in Nat
      /\ Data(A) \subseteq hist.produced[el] /\ Data(A) \in SUBSET Nat
      /\ Data(lost) \subseteq hist.produced[el] /\ Data(lost) \in SUBSET Nat
      /\ LostAcks(lost) \subseteq EL
  BY LostFacts
<1> HIDE DEF lost
<1> DEFINE acked == [hist.acked EXCEPT ![el] = hist.acked[el] \cup Data(A)]
<1>4. acked \in [EL -> SUBSET Nat]
  BY <1>3 DEF TypeOK, Histories
<1>5. /\ hist' \in Histories
      /\ hist'.produced = hist.produced /\ hist'.acked = acked
      /\ hist'.validated = TRUE
  <2> DEFINE a == hist.rx + 1
             b == hist.lost + Cardinality(lost)
             d == IF ae THEN hist.owed \cup {el} ELSE hist.owed
  <2>1. a \in Nat /\ b \in Nat
    BY <1>3 DEF TypeOK, Histories
  <2>2. d \in SUBSET EL
    BY DEF TypeOK, Histories
  <2>3. hist' = [hist EXCEPT !.rx = a, !.lost = b, !.owed = d,
                   !.validated = TRUE, !.acked = acked]
    BY <1>2
  <2> HIDE DEF a, b, d, acked
  <2>4. hist' \in Histories
    BY <1>4, <2>1, <2>2, <2>3 DEF TypeOK, Histories
  <2> QED BY <2>3, <2>4 DEF TypeOK, Histories
<1>6. /\ DOMAIN crypto' = EL /\ crypto' = [e \in EL |-> crypto'[e]]
      /\ crypto'["INITIAL"] = {}
      /\ crypto'[el] = IF fin THEN {} ELSE crypto[el] \cup Data(lost)
  BY <1>1 DEF Discard, TypeOK
<1>7. \A p \in sent' : p \in sent /\ p.el = el
  BY <1>1 DEF Of
<1>8. TypeOK'
  <2>1. top \in Nat \cup {-1}
    BY <1>1 DEF AckOutcome, TypeOK, Packets, Of
  <2>2. sent' \subseteq Packets /\ wantAck' \subseteq EL /\ ackDesired' \subseteq EL
    BY <1>1, <1>3, <1>7 DEF TypeOK
  <2>3. crypto' \in [EL -> SUBSET Nat]
    BY <1>3, <1>6 DEF TypeOK
  <2>4. credit' \in 0..SizeMax
    BY <1>1, LengthsAssumption
  <2> QED BY <1>1, <1>5, <2>1, <2>2, <2>3, <2>4 DEF TypeOK
<1>9. Contained'
  <2>1. IsFiniteSet(sent')
    BY <1>7, FS_Subset DEF Contained
  <2>2. \A e \in EL : crypto'[e] \subseteq hist'.produced[e]
    BY <1>3, <1>5, <1>6 DEF Contained
  <2> QED BY <1>5, <1>7, <2>1, <2>2 DEF Contained
<1>10. BeforeFlight'
  BY <1>1, <1>3, <1>5 DEF BeforeFlight, TypeOK, Histories
<1>11. SentinelOnlyByValidation' /\ WindowBound'
  BY <1>1, <1>5 DEF SentinelOnlyByValidation, WindowBound
<1>12. NoCryptoLost' /\ NoCryptoDuplicated'
  <2>1. CASE fin
    <3>1. prov' = {} /\ sent' = {} /\ \A e \in EL : crypto'[e] = {}
      BY <1>1, <1>6, <2>1
    <3> QED BY <3>1 DEF NoCryptoLost, NoCryptoDuplicated, Of
  <2>2. CASE ~fin
    <3>1. /\ crypto'[el] = crypto[el] \cup Data(lost)
          /\ hist'.acked[el] = hist.acked[el] \cup Data(A)
          /\ Of(sent', el) = Of(sent, el) \ (A \cup lost)
          /\ prov' = {el}
      BY <1>1, <1>3, <1>5, <1>6, <2>2 DEF Of, TypeOK, Histories
    <3>2. Of(sent', "INITIAL") = {}
      BY <1>7 DEF Of
    <3>3. /\ crypto'[el] \cup Data(Of(sent', el)) \cup hist'.acked[el] =
               crypto[el] \cup Data(Of(sent, el)) \cup hist.acked[el]
          /\ crypto'[el] \cap hist'.acked[el] = {}
          /\ \A p \in Of(sent', el) :
               /\ p.data \cap (crypto'[el] \cup hist'.acked[el]) = {}
               /\ \A q \in Of(sent', el) : p # q => p.data \cap q.data = {}
      <4> DEFINE S == Of(sent, el) \ (A \cup lost)
                 c == crypto[el] \cup Data(lost)
                 a == hist.acked[el] \cup Data(A)
      <4>1. AckMoved(el, A, lost)
        <5>1. NoCryptoDuplicated /\ el \in EL
          BY DEF EL
        <5>2. A \in SUBSET Of(sent, el) /\ lost \in SUBSET Of(sent, el)
          BY <1>3
        <5>3. lost \cap A = {}
          BY <1>3
        <5> HIDE DEF IInv, lost, el
        <5> QED BY <5>1, <5>2, <5>3, AckMoves
      <4>2. /\ c \cup Data(S) \cup a =
                 crypto[el] \cup Data(Of(sent, el)) \cup hist.acked[el]
            /\ c \cap a = {}
            /\ \A p \in S : /\ p.data \cap (c \cup a) = {}
                            /\ \A q \in S : p # q => p.data \cap q.data = {}
        BY <4>1 DEF AckMoved
      <4>3. crypto'[el] = c /\ hist'.acked[el] = a /\ Of(sent', el) = S
        BY <3>1
      <4> HIDE DEF S, c, a
      <4> QED BY <4>2, <4>3
    <3>4. NoCryptoLost'
      <4>1. crypto[el] \cup Data(Of(sent, el)) \cup hist.acked[el]
              = hist.produced[el]
        BY <1>1 DEF NoCryptoLost
      <4>2. crypto'[el] \cup Data(Of(sent', el)) \cup hist'.acked[el]
              = hist'.produced[el]
        BY <1>5, <3>3, <4>1
      <4> QED BY <3>1, <4>2 DEF NoCryptoLost
    <3>5. NoCryptoDuplicated'
      BY <1>6, <3>2, <3>3 DEF NoCryptoDuplicated
    <3> QED BY <3>4, <3>5
  <2> QED BY <2>1, <2>2
<1>13. PnsUnique'
  BY <1>1, <1>7 DEF PnsUnique
<1> QED BY <1>8, <1>9, <1>10, <1>11, <1>12, <1>13

-----------------------------------------------------------------------------
(* The invariant and what follows from it.                                 *)

\* A channel that port_bind_channel has just made satisfies the invariant.
LEMMA InitEstablishes == Init => IInv
<1> SUFFICES ASSUME Init PROVE IInv
  OBVIOUS
<1>1. IsFiniteSet({})
  BY FS_EmptySet
<1>2. credit \in 0..SizeMax
  BY LengthsAssumption DEF Init
<1>3. hist \in Histories
  BY DEF Init, Histories
<1>4. /\ \A el \in EL : /\ crypto[el] = {} /\ hist.produced[el] = {}
                        /\ hist.acked[el] = {}
      /\ sent = {} /\ hist.payload = 0 /\ hist.credited = 0
      /\ hist.validated = (credit = SizeMax) /\ prov \subseteq EL
  BY DEF Init
<1>5. TypeOK
  BY <1>2, <1>3, <1>4 DEF Init, TypeOK
<1>6. Contained /\ BeforeFlight
  BY <1>1, <1>4 DEF Contained, BeforeFlight
<1>7. SentinelOnlyByValidation
  BY <1>4 DEF SentinelOnlyByValidation
<1>8. WindowBound
  <2>1. ~hist.validated => credit = 0
    BY <1>4 DEF Init
  <2>2. ~hist.validated => hist.payload + credit <= 3 * hist.credited
    BY <1>4, <2>1
  <2> QED BY <2>2 DEF WindowBound
<1>9. NoCryptoLost /\ NoCryptoDuplicated /\ PnsUnique
  BY <1>4 DEF NoCryptoLost, NoCryptoDuplicated, PnsUnique, Of, Data
<1> QED BY <1>5, <1>6, <1>7, <1>8, <1>9 DEF IInv

\* Every step of the channel keeps it.
LEMMA NextKeeps == IInv /\ [Next]_vars => IInv'
<1> SUFFICES ASSUME IInv, [Next]_vars PROVE IInv'
  OBVIOUS
<1>1. CASE Rx
  BY <1>1, RxInitialKeeps, RxHandshakeKeeps DEF Rx
<1>2. CASE Timeout
  BY <1>2, TimeoutKeeps DEF Timeout
<1>3. CASE Tx
  BY <1>3, GenerateKeeps DEF Tx
<1>4. CASE UNCHANGED vars
  BY <1>4 DEF vars, IInv, TypeOK, Contained, BeforeFlight,
     SentinelOnlyByValidation, WindowBound, NoCryptoLost, NoCryptoDuplicated,
     PnsUnique
<1> QED BY <1>1, <1>2, <1>3, <1>4 DEF Next

\* The inductive invariant of the packetiser, for every width of size_t,
\* datagram size, flight size and number of packets, timeouts and losses.
THEOREM Invariance == Spec => []IInv
BY InitEstablishes, NextKeeps, PTL DEF Spec

\* Every variable keeps the type its C declaration gives it.
THEOREM TypeCorrect == Spec => []TypeOK
<1>1. IInv => TypeOK
  BY DEF IInv
<1> QED BY <1>1, Invariance, PTL

\* No amount of credit, wrapping or saturation makes the window of an
\* unvalidated address read as unlimited (quic_txp.c, unvalidated_credit).
THEOREM SentinelCorrect == Spec => []SentinelOnlyByValidation
<1>1. IInv => SentinelOnlyByValidation
  BY DEF IInv
<1> QED BY <1>1, Invariance, PTL

\* The payload committed to an unvalidated address and what is left of the
\* window never exceed three times the bytes credited.
THEOREM WindowCorrect == Spec => []WindowBound
<1>1. IInv => WindowBound
  BY DEF IInv
<1> QED BY <1>1, Invariance, PTL

\* No byte of the server's flight is lost by a refused, padded or lost packet.
THEOREM FlightKept == Spec => []NoCryptoLost
<1>1. IInv => NoCryptoLost
  BY DEF IInv
<1> QED BY <1>1, Invariance, PTL

\* No byte of the flight is in two places at once.
THEOREM FlightNotDuplicated == Spec => []NoCryptoDuplicated
<1>1. IInv => NoCryptoDuplicated
  BY DEF IInv
<1> QED BY <1>1, Invariance, PTL

\* No packet number is used twice in a packet number space.
THEOREM PacketNumbersUnique == Spec => []PnsUnique
<1>1. IInv => PnsUnique
  BY DEF IInv
<1> QED BY <1>1, Invariance, PTL

\* A probe request is only ever taken back by a new ack-eliciting packet of
\* its level: the packet committed has a number no packet in flight has, so
\* it is not one the history already held.
THEOREM ProbesServed == Spec => ProbeServedBySending
<1> DEFINE Taken(el) == pto'[el] < pto[el] \/ antiDeadlock'[el] < antiDeadlock[el]
           Served == \A el \in prov : Taken(el) =>
                       \E p \in sent' \ sent : p.el = el /\ p.ae
<1>1. ASSUME IInv, [Next]_vars PROVE [Served]_vars
  <2>0. \A el \in prov : el \in EL /\ pto \in [EL -> Nat] /\ antiDeadlock \in [EL -> Nat]
    BY <1>1 DEF IInv, TypeOK
  <2>1. CASE Rx
    <3>1. pto' = pto /\ antiDeadlock' = antiDeadlock
      <4>1. ASSUME NEW a, NEW b, NEW c, NEW d, NEW e, NEW f, NEW g,
                   RxInitial(a, b, c, d, e, f, g) \/ RxHandshake(c, d, e, f, g)
            PROVE  pto' = pto /\ antiDeadlock' = antiDeadlock
        BY <4>1 DEF RxInitial, RxHandshake
      <4> QED BY <2>1, <4>1, Zenon DEF Rx
    <3>2. \A el \in prov : ~Taken(el)
      BY <2>0, <3>1
    <3> QED BY <3>2
  <2>2. CASE Timeout
    <3>1. PICK e \in EL : OnProbeTimeout(e) \/ OnAntiDeadlockTimeout(e)
      BY <2>2 DEF Timeout
    <3>2. /\ pto' = pto \/ pto' = [pto EXCEPT ![e] = pto[e] + 1]
          /\ \/ antiDeadlock' = antiDeadlock
             \/ antiDeadlock' = [antiDeadlock EXCEPT ![e] = antiDeadlock[e] + 1]
      BY <3>1 DEF OnProbeTimeout, OnAntiDeadlockTimeout
    <3>3. \A el \in prov : ~Taken(el)
      BY <2>0, <3>2
    <3> QED BY <3>3
  <2>3. CASE Tx
    <3>1. PICK done, pkts, bytes : Committed(done, pkts, bytes)
      BY <1>1, <2>3, GenerateCommits DEF Tx, IInv
    <3> SUFFICES ASSUME NEW el \in prov, Taken(el)
                 PROVE  \E p \in sent' \ sent : p.el = el /\ p.ae
      OBVIOUS
    <3> DEFINE new == [el |-> el, pn |-> nextPn[el], data |-> pkts[el].data,
                       ack |-> pkts[el].ack, ae |-> pkts[el].ae]
    <3>2. /\ el \in EL /\ pto[el] \in Nat /\ antiDeadlock[el] \in Nat
          /\ nextPn[el] \in Nat
      BY <1>1 DEF IInv, TypeOK
    <3>3. /\ pto'[el] = IF el \in done /\ pkts[el].ae /\ pto[el] > 0
                        THEN pto[el] - 1 ELSE pto[el]
          /\ antiDeadlock'[el] = IF el \in done /\ pkts[el].ae /\ antiDeadlock[el] > 0
                                 THEN antiDeadlock[el] - 1 ELSE antiDeadlock[el]
      BY <3>1, <3>2 DEF Committed, RecordCommitted, ProbesLeft
    <3>4. el \in done /\ pkts[el].ae
      BY <3>2, <3>3
    <3>5. new \in sent' /\ new.el = el /\ new.ae /\ new.pn = nextPn[el]
      BY <3>1, <3>4 DEF Committed, RecordCommitted, NewPackets
    <3>6. new \notin sent
      BY <1>1, <3>2, <3>5 DEF IInv, PnsUnique
    <3> QED BY <3>5, <3>6
  <2>4. CASE UNCHANGED vars
    BY <2>4
  <2> QED BY <1>1, <2>1, <2>2, <2>3, <2>4 DEF Next
<1> QED BY <1>1, Invariance, PTL DEF Spec, ProbeServedBySending

-----------------------------------------------------------------------------
(* Datagrams to a validated address.                                       *)

\* A commit under an unlimited window, not given up; what it adds to it.
Unlimited(acc) == acc \in Accs /\ acc.credit = SizeMax /\ acc.blocked = FALSE

Grown(acc, el, len, r) ==
    /\ r.bytes = acc.bytes + len
    /\ len = 0 => r.done = acc.done
    /\ len # 0 => r.done = acc.done \cup {el}

\* An unlimited window refuses no packet.
LEMMA UnlimitedPkt ==
    ASSUME NEW acc, Unlimited(acc), NEW el \in EL, NEW pkt, pkt.len \in Nat
    PROVE  /\ Unlimited(CommitPkt(acc, el, pkt))
           /\ Grown(acc, el, pkt.len, CommitPkt(acc, el, pkt))
<1> DEFINE r == CommitPkt(acc, el, pkt)
<1> USE DEF Unlimited, Grown
<1>1. CASE pkt.len = 0
  <2>1. r = acc /\ acc.bytes \in Nat
    BY <1>1 DEF CommitPkt, Accs
  <2> HIDE DEF r
  <2>2. Unlimited(r) /\ Grown(acc, el, pkt.len, r)
    BY <1>1, <2>1
  <2> QED BY <2>2 DEF r
<1>2. CASE pkt.len # 0
  <2> DEFINE b == acc.bytes + pkt.len
             d == acc.done \cup {el}
  <2>1. r = [acc EXCEPT !.credit = acc.credit, !.bytes = b, !.done = d]
    BY <1>2 DEF CommitPkt, CheckUnvalidatedCredit, ConsumeUnvalidatedCredit
  <2>2. b \in Nat /\ d \in SUBSET EL
    BY DEF Accs
  <2> HIDE DEF b, d, r
  <2>3. /\ r \in Accs /\ r.credit = acc.credit /\ r.blocked = acc.blocked
        /\ r.bytes = b /\ r.done = d
    BY <2>1, <2>2 DEF Accs
  <2>4. Unlimited(r) /\ Grown(acc, el, pkt.len, r)
    BY <1>2, <2>3 DEF b, d
  <2> QED BY <2>4 DEF r
<1> QED BY <1>1, <1>2

\* With an unlimited window everything staged is committed, unless generate
\* gives up the datagram.
LEMMA UnlimitedCommit ==
    ASSUME credit = SizeMax, NEW pkts \in [EL -> Staging], NEW giveUp \in BOOLEAN,
           NEW acc, acc = CommitAll(pkts, giveUp)
    PROVE  /\ giveUp => acc.done = {}
           /\ ~giveUp => acc.bytes = pkts["INITIAL"].len + pkts["HANDSHAKE"].len
           /\ ~giveUp => acc.done = {el \in EL : pkts[el].len # 0}
<1> DEFINE i  == pkts["INITIAL"]
           h  == pkts["HANDSHAKE"]
           a0 == [credit |-> credit, bytes |-> 0, done |-> {}, blocked |-> giveUp]
           a1 == CommitPkt(a0, "INITIAL", i)
           a2 == CommitPkt(a1, "HANDSHAKE", h)
<1>1. acc = a2
  BY DEF CommitAll
<1>2. CASE giveUp
  <2>1. a1 = a0
    BY <1>2 DEF CommitPkt
  <2>2. a2 = a0
    BY <1>2, <2>1 DEF CommitPkt
  <2> QED BY <1>1, <1>2, <2>2
<1>3. CASE ~giveUp
  <2>1. Unlimited(a0) /\ a0.bytes = 0 /\ a0.done = {}
    BY <1>3, LengthsAssumption DEF Accs, Unlimited
  <2>2. i.len \in Nat /\ h.len \in Nat
    BY DEF Staging
  <2>3. /\ a1 = CommitPkt(a0, "INITIAL", i) /\ "INITIAL" \in EL
        /\ a2 = CommitPkt(a1, "HANDSHAKE", h) /\ "HANDSHAKE" \in EL
    OBVIOUS
  <2> HIDE DEF a0, a1, a2, i, h
  <2>4. Unlimited(a1) /\ Grown(a0, "INITIAL", i.len, a1)
    BY <2>1, <2>2, <2>3, UnlimitedPkt
  <2>5. Grown(a1, "HANDSHAKE", h.len, a2)
    BY <2>2, <2>3, <2>4, UnlimitedPkt
  <2>6. acc.bytes = i.len + h.len
    BY <1>1, <2>1, <2>2, <2>4, <2>5 DEF Grown
  <2>7. acc.done = {el \in EL : pkts[el].len # 0}
    BY <1>1, <2>1, <2>4, <2>5 DEF Grown, i, h
  <2> QED BY <1>3, <2>6, <2>7 DEF i, h
<1> QED BY <1>2, <1>3

\* One call of generate, named as in Generate.
GeneratedAs(arch, plan, pkts, give, acc) ==
    /\ plan = Staged(arch) /\ pkts = Adjusted(plan) /\ give = GiveUp(arch, plan)
    /\ acc = CommitAll(pkts, give)
    /\ plan \in [EL -> Staging] /\ pkts \in [EL -> Staging] /\ give \in BOOLEAN
    /\ ackDesired' = ackDesired \ {el \in EL : pkts[el].ack}
    /\ wantAck' = wantAck \ {el \in acc.done : pkts[el].ack}
    /\ dgram' = [levels |-> acc.done,
                 len |-> acc.bytes + Overhead * Cardinality(acc.done)]
    /\ hist'.owed = hist.owed \ {el \in acc.done : pkts[el].ack}
    /\ credit' = acc.credit
    /\ arch = "ACK_ONLY" => Cardinality(sent) * Mdpl >= MinCwnd

LEMMA GenerateNamed ==
    ASSUME TypeOK, Contained, NEW cc \in BOOLEAN, Generate(cc)
    PROVE  \E arch, plan, pkts, give, acc : GeneratedAs(arch, plan, pkts, give, acc)
<1> DEFINE arch == DetermineArchetype(cc)
           plan == Staged(arch)
           pkts == Adjusted(plan)
           give == GiveUp(arch, plan)
           acc  == CommitAll(pkts, give)
           wire == acc.bytes + Overhead * Cardinality(acc.done)
           a    == IF credit = SizeMax THEN hist.payload ELSE hist.payload + acc.bytes
           b    == IF credit = SizeMax THEN hist.wire ELSE hist.wire + wire
           c    == hist.owed \ {el \in acc.done : pkts[el].ack}
           d    == [el \in EL |-> IF el \in acc.done THEN hist.out[el] \cup pkts[el].data
                                  ELSE hist.out[el]]
<1>1. /\ ackDesired' = ackDesired \ {el \in EL : pkts[el].ack}
      /\ wantAck' = wantAck \ {el \in acc.done : pkts[el].ack}
      /\ dgram' = [levels |-> acc.done, len |-> wire]
      /\ hist' = [hist EXCEPT !.payload = a, !.wire = b, !.owed = c, !.out = d]
  BY DEF Generate, ClearAckDesired, RecordCommitted
<1>2. give \in BOOLEAN
  BY DEF GiveUp
<1>3. plan \in [EL -> Staging]
  BY StagedType
<1>4. pkts \in [EL -> Staging]
  <2> HIDE DEF plan
  <2> QED BY <1>3, AdjustedType
<1>5. hist'.owed = c
  <2>1. hist \in Histories
    BY DEF TypeOK
  <2> HIDE DEF a, b, c, d
  <2> QED BY <1>1, <2>1 DEF Histories
<1>6. credit' = acc.credit
  BY DEF Generate
<1>7. arch = "ACK_ONLY" => Cardinality(sent) * Mdpl >= MinCwnd
  BY DEF Generate, DetermineArchetype, TxAllowance
<1>8. GeneratedAs(arch, plan, pkts, give, acc)
  <2> HIDE DEF arch
  <2> QED BY <1>1, <1>2, <1>3, <1>4, <1>5, <1>6, <1>7 DEF GeneratedAs
<1> QED BY <1>8

\* Padding adds the deficit to the Initial packet and leaves the other alone.
LEMMA AdjustedLens ==
    ASSUME NEW plan \in [EL -> Staging]
    PROVE  /\ Deficit(plan) \in Nat
           /\ Adjusted(plan)["INITIAL"].len = plan["INITIAL"].len + Deficit(plan)
           /\ Adjusted(plan)["INITIAL"].ack = plan["INITIAL"].ack
           /\ Adjusted(plan)["HANDSHAKE"] = plan["HANDSHAKE"]
<1>1. plan["INITIAL"] \in Staging /\ plan["HANDSHAKE"] \in Staging
  OBVIOUS
<1>2. Size(plan["INITIAL"]) \in Nat /\ Size(plan["HANDSHAKE"]) \in Nat
  BY <1>1, LengthsAssumption DEF Size, Staging
<1>3. Deficit(plan) \in Nat
  BY <1>2, LengthsAssumption DEF Deficit
<1> DEFINE n == plan["INITIAL"].len + Deficit(plan)
           new == [plan["INITIAL"] EXCEPT !.len = n]
<1>4. Adjusted(plan) = [plan EXCEPT !["INITIAL"] = new]
  BY DEF Adjusted
<1>5. new.len = n /\ new.ack = plan["INITIAL"].ack
  <2> HIDE DEF n
  <2> QED BY <1>1 DEF Staging
<1> HIDE DEF new
<1> QED BY <1>3, <1>4, <1>5

\* The lengths of phase 3: a datagram whose Initial packet holds i bytes and
\* whose Handshake packet holds h reaches MinDgram after padding.
LEMMA PaddedTotal ==
    ASSUME NEW plan \in [EL -> Staging], plan["INITIAL"].len # 0
    PROVE  /\ plan["HANDSHAKE"].len = 0 =>
                plan["INITIAL"].len + Deficit(plan) + Overhead >= MinDgram
           /\ plan["HANDSHAKE"].len # 0 =>
                plan["INITIAL"].len + Deficit(plan) + plan["HANDSHAKE"].len
                  + 2 * Overhead >= MinDgram
<1> DEFINE i == plan["INITIAL"].len
           h == plan["HANDSHAKE"].len
           total == Size(plan["INITIAL"]) + Size(plan["HANDSHAKE"])
<1>1. i \in Nat /\ h \in Nat
  BY DEF Staging
<1>2. total = IF h = 0 THEN i + Overhead ELSE i + Overhead + (h + Overhead)
  BY <1>1, LengthsAssumption DEF Size
<1>3. Deficit(plan) = IF total >= MinDgram THEN 0 ELSE MinDgram - total
  BY DEF Deficit
<1> HIDE DEF i, h, total
<1>4. /\ h = 0 => i + Deficit(plan) + Overhead >= MinDgram
      /\ h # 0 => i + Deficit(plan) + h + 2 * Overhead >= MinDgram
  BY <1>1, <1>2, <1>3, LengthsAssumption
<1> QED BY <1>4 DEF i, h

\* The sizes of the sets of levels a datagram can hold.
LEMMA LevelCounts ==
    /\ Cardinality({"INITIAL"}) = 1
    /\ Cardinality({"INITIAL", "HANDSHAKE"}) = 2
<1>1. /\ IsFiniteSet({"HANDSHAKE"}) /\ Cardinality({"HANDSHAKE"}) = 1
      /\ Cardinality({"INITIAL"}) = 1
  BY FS_Singleton
<1>2. Cardinality({"HANDSHAKE"} \cup {"INITIAL"}) = Cardinality({"HANDSHAKE"}) + 1
  BY <1>1, FS_AddElement
<1>3. {"HANDSHAKE"} \cup {"INITIAL"} = {"INITIAL", "HANDSHAKE"}
  OBVIOUS
<1> QED BY <1>1, <1>2, <1>3

\* One call of generate towards a validated address.
LEMMA GeneratePads ==
    ASSUME TypeOK, Contained, NEW cc \in BOOLEAN, Generate(cc),
           credit = SizeMax, "INITIAL" \in dgram'.levels
    PROVE  dgram'.len >= MinDgram
<1>1. PICK arch, plan, pkts, give, acc : GeneratedAs(arch, plan, pkts, give, acc)
  BY GenerateNamed
<1> DEFINE i == plan["INITIAL"].len
           h == plan["HANDSHAKE"].len
           d == Deficit(plan)
<1>2. /\ plan \in [EL -> Staging] /\ pkts \in [EL -> Staging] /\ give \in BOOLEAN
      /\ pkts = Adjusted(plan) /\ acc = CommitAll(pkts, give)
      /\ dgram' = [levels |-> acc.done,
                   len |-> acc.bytes + Overhead * Cardinality(acc.done)]
  BY <1>1 DEF GeneratedAs
<1>3. /\ "INITIAL" \in acc.done
      /\ dgram'.len = acc.bytes + Overhead * Cardinality(acc.done)
  BY <1>2
<1>4. /\ give => acc.done = {}
      /\ ~give => acc.bytes = pkts["INITIAL"].len + pkts["HANDSHAKE"].len
      /\ ~give => acc.done = {el \in EL : pkts[el].len # 0}
  BY <1>2, UnlimitedCommit
<1>5. /\ acc.bytes = pkts["INITIAL"].len + pkts["HANDSHAKE"].len
      /\ acc.done = {el \in EL : pkts[el].len # 0}
      /\ pkts["INITIAL"].len # 0
  BY <1>2, <1>3, <1>4
<1>6. i \in Nat /\ h \in Nat
  BY <1>2 DEF Staging
<1>7. d \in Nat /\ pkts["INITIAL"].len = i + d /\ pkts["HANDSHAKE"].len = h
  BY <1>2, AdjustedLens
<1>8. i = 0 => d = 0
  BY DEF Deficit
<1>9. i # 0
  BY <1>5, <1>6, <1>7, <1>8
<1>10. /\ h = 0 => i + d + Overhead >= MinDgram
       /\ h # 0 => i + d + h + 2 * Overhead >= MinDgram
  BY <1>2, <1>9, PaddedTotal
<1>11. CASE h = 0
  <2>1. acc.done = {"INITIAL"}
    BY <1>5, <1>7, <1>11
  <2>2. dgram'.len = acc.bytes + Overhead * 1
    BY <1>3, <2>1, LevelCounts
  <2>3. acc.bytes = i + d + h
    BY <1>5, <1>7
  <2> HIDE DEF i, d, h
  <2>4. dgram'.len = i + d + h + Overhead
    BY <1>6, <1>7, <2>2, <2>3, LengthsAssumption
  <2> QED BY <1>6, <1>7, <1>10, <1>11, <2>4, LengthsAssumption
<1>12. CASE h # 0
  <2>1. acc.done = {"INITIAL", "HANDSHAKE"}
    BY <1>5, <1>7, <1>12
  <2>2. dgram'.len = acc.bytes + Overhead * 2
    BY <1>3, <2>1, LevelCounts
  <2>3. acc.bytes = i + d + h
    BY <1>5, <1>7
  <2> HIDE DEF i, d, h
  <2>4. dgram'.len = i + d + h + 2 * Overhead
    BY <1>6, <1>7, <2>2, <2>3, LengthsAssumption
  <2> QED BY <1>6, <1>7, <1>10, <1>12, <2>4, LengthsAssumption
<1> QED BY <1>11, <1>12

\* A datagram with an Initial packet is at least MinDgram long once the
\* window is unlimited: the padding phase 3 computes is committed with the
\* packets it was computed from.
THEOREM InitialPadded == Spec => InitialPaddedIfUnlimited
<1> DEFINE Padded == dgram' # dgram /\ "INITIAL" \in dgram'.levels /\ credit = SizeMax
                       => dgram'.len >= MinDgram
<1>1. ASSUME IInv, [Next]_vars PROVE [Padded]_vars
  <2>1. CASE Rx
    <3>1. ASSUME NEW a, NEW b, NEW c, NEW d, NEW e, NEW f, NEW g,
                 RxInitial(a, b, c, d, e, f, g) \/ RxHandshake(c, d, e, f, g)
          PROVE  dgram' = dgram
      BY <3>1 DEF RxInitial, RxHandshake
    <3>2. dgram' = dgram
      BY <2>1, <3>1, Zenon DEF Rx
    <3> QED BY <3>2
  <2>2. CASE Timeout
    BY <2>2 DEF Timeout, OnProbeTimeout, OnAntiDeadlockTimeout
  <2>3. CASE Tx
    BY <1>1, <2>3, GeneratePads DEF Tx, IInv
  <2>4. CASE UNCHANGED vars
    BY <2>4
  <2> QED BY <1>1, <2>1, <2>2, <2>3, <2>4 DEF Next
<1> QED BY <1>1, Invariance, PTL DEF Spec, InitialPaddedIfUnlimited

-----------------------------------------------------------------------------
(* Acknowledgements that are owed.                                         *)

\* A level that cannot be staged gets an empty packet, and a packet with an
\* ACK frame is not empty.
LEMMA StageLength ==
    ASSUME TypeOK, Contained, NEW el \in EL, NEW arch, NEW run \in Int
    PROVE  /\ el \notin prov => Stage(el, arch, run).len = 0
           /\ Stage(el, arch, run).ack => Stage(el, arch, run).len # 0
<1> DEFINE reserve == IF RequireAckEliciting(arch) THEN PingLen ELSE 0
           room    == Mdpl - run - Overhead
           valid   == ShouldTryStaging(el, arch) /\ room >= reserve
           ack     == valid /\ AckWanted(el) /\ room - reserve >= AckLen
           space   == room - reserve - (IF ack THEN AckLen ELSE 0)
           frames  == IF valid /\ AllowCrypto(arch) THEN CryptoFrames(crypto[el], space)
                      ELSE [data |-> {}, len |-> 0]
           ping    == valid /\ RequireAckEliciting(arch) /\ frames.data = {}
           len     == (IF ack THEN AckLen ELSE 0) + frames.len
                        + (IF ping THEN PingLen ELSE 0)
<1>1. IsFiniteSet(crypto[el])
  BY FS_Subset DEF Contained, TypeOK
<1>2. valid => space \in Nat
  BY LengthsAssumption
<1> HIDE DEF space
<1>3. frames.len \in Nat /\ (~valid => frames.len = 0)
  BY <1>1, <1>2, CryptoFramesType
<1>4. Stage(el, arch, run) = [valid |-> valid, ack |-> ack, data |-> frames.data,
                              ae |-> frames.data # {} \/ ping, len |-> len]
  BY DEF Stage, frames, space
<1> HIDE DEF frames
<1>5. ~valid => len = 0
  BY <1>3
<1>6. ack => len # 0
  BY <1>3, LengthsAssumption
<1>7. el \notin prov => ~valid
  BY DEF ShouldTryStaging
<1>8. Stage(el, arch, run).len = len /\ (Stage(el, arch, run).ack <=> ack)
  <2> HIDE DEF len, ack, valid, ping
  <2> QED BY <1>4
<1> HIDE DEF len, ack, valid, ping
<1> QED BY <1>5, <1>6, <1>7, <1>8

\* What is staged: a packet with an ACK frame is not empty, and without the
\* Initial level no padding is missing, so generate does not give up.
LEMMA StagedAcks ==
    ASSUME TypeOK, Contained, NEW arch
    PROVE  /\ GiveUp(arch, Staged(arch)) => arch = "ACK_ONLY" /\ "INITIAL" \in prov
           /\ \A el \in EL : Staged(arch)[el].ack => Staged(arch)[el].len # 0
<1> DEFINE ini == Stage("INITIAL", arch, 0)
           run == Hwm(ini)
           hs  == Stage("HANDSHAKE", arch, run)
<1>1. ("INITIAL" \notin prov => ini.len = 0) /\ (ini.ack => ini.len # 0)
  BY StageLength
<1>2. run \in Int
  BY StageType, LengthsAssumption DEF Hwm, Staging
<1>3. hs.ack => hs.len # 0
  <2> HIDE DEF run
  <2> QED BY <1>2, StageLength
<1>4. Staged(arch)["INITIAL"] = ini /\ Staged(arch)["HANDSHAKE"] = hs
  BY DEF Staged
<1> HIDE DEF ini, hs
<1>5. "INITIAL" \notin prov => Deficit(Staged(arch)) = 0
  BY <1>1, <1>4 DEF Deficit
<1> QED BY <1>1, <1>3, <1>4, <1>5 DEF GiveUp, AllowPadding

\* No more than n offsets are given out for a room of n: counting what is
\* below each of them is one-to-one.
LEMMA LowestSize ==
    ASSUME NEW S, IsFiniteSet(S), S \subseteq Int, NEW n \in Nat
    PROVE  Cardinality(Lowest(S, n)) <= n
<1> DEFINE Below(x) == {y \in S : y < x}
           L == {x \in S : Cardinality(Below(x)) < n}
           f == [x \in L |-> Cardinality(Below(x))]
<1>1. \A x \in S : IsFiniteSet(Below(x)) /\ Cardinality(Below(x)) \in Nat
  BY FS_Subset, FS_CardinalityType
<1>2. ASSUME NEW x \in S, NEW z \in S, x < z
      PROVE  Cardinality(Below(x)) < Cardinality(Below(z))
  <2>1. Below(x) \in SUBSET Below(z)
    <3> SUFFICES ASSUME NEW y \in S, y < x PROVE y < z
      OBVIOUS
    <3> x \in Int /\ y \in Int /\ z \in Int
      OBVIOUS
    <3> QED BY <1>2
  <2>2. x \in Below(z) /\ x \notin Below(x)
    BY <1>2
  <2> HIDE DEF Below
  <2>3. /\ Cardinality(Below(x)) <= Cardinality(Below(z))
        /\ Cardinality(Below(z)) = Cardinality(Below(x)) => Below(z) = Below(x)
    BY <1>1, <2>1, FS_Subset
  <2> QED BY <1>1, <2>2, <2>3
<1>3. f \in Injection(L, 0..(n - 1))
  <2>1. f \in [L -> 0..(n - 1)]
    <3> SUFFICES ASSUME NEW x \in L PROVE Cardinality(Below(x)) \in 0..(n - 1)
      OBVIOUS
    <3>1. Cardinality(Below(x)) \in Nat /\ Cardinality(Below(x)) < n
      BY <1>1
    <3> HIDE DEF Below
    <3> QED BY <3>1
  <2>2. \A x, z \in L : f[x] = f[z] => x = z
    <3> SUFFICES ASSUME NEW x \in L, NEW z \in L,
                        Cardinality(Below(x)) = Cardinality(Below(z))
                 PROVE  x = z
      OBVIOUS
    <3>1. x \in S /\ z \in S /\ x \in Int /\ z \in Int
      OBVIOUS
    <3>2. Cardinality(Below(x)) \in Nat
      BY <1>1, <3>1
    <3> HIDE DEF Below
    <3>3. ~(x < z) /\ ~(z < x)
      BY <1>1, <1>2, <3>1
    <3> QED BY <3>1, <3>3
  <2> HIDE DEF f, L
  <2> QED BY <2>1, <2>2 DEF Injection, IsInjective
<1>4. Cardinality(L) <= n
  <2>1. IsFiniteSet(0..(n - 1)) /\ Cardinality(0..(n - 1)) = n
    BY FS_Interval
  <2> HIDE DEF f, L
  <2> QED BY <1>3, <2>1, FS_Injection
<1>5. Lowest(S, n) = IF Cardinality(S) <= n THEN S ELSE L
  BY DEF Lowest
<1> HIDE DEF L
<1> QED BY <1>4, <1>5

\* A packet is staged within the room the datagram has left.
LEMMA StageFits ==
    ASSUME TypeOK, Contained, NEW el \in EL, NEW arch, NEW run \in Nat
    PROVE  \/ Stage(el, arch, run).len = 0
           \/ Stage(el, arch, run).len + Overhead + run <= Mdpl
<1> DEFINE reserve == IF RequireAckEliciting(arch) THEN PingLen ELSE 0
           room    == Mdpl - run - Overhead
           valid   == ShouldTryStaging(el, arch) /\ room >= reserve
           ack     == valid /\ AckWanted(el) /\ room - reserve >= AckLen
           space   == room - reserve - (IF ack THEN AckLen ELSE 0)
           cf      == CryptoFrames(crypto[el], space)
           frames  == IF valid /\ AllowCrypto(arch) THEN cf
                      ELSE [data |-> {}, len |-> 0]
           ping    == valid /\ RequireAckEliciting(arch) /\ frames.data = {}
           len     == (IF ack THEN AckLen ELSE 0) + frames.len
                        + (IF ping THEN PingLen ELSE 0)
<1>1. IsFiniteSet(crypto[el]) /\ crypto[el] \subseteq Nat
  BY FS_Subset DEF Contained, TypeOK
<1>2. /\ valid => space \in Nat
      /\ space = room - reserve - (IF ack THEN AckLen ELSE 0)
  BY LengthsAssumption
<1> HIDE DEF space
<1>3. valid => cf.len \in Nat /\ cf.len <= space
  <2> SUFFICES ASSUME space \in Nat PROVE cf.len \in Nat /\ cf.len <= space
    BY <1>2
  <2> DEFINE first == Lowest(Run(crypto[el], 0), space)
             third == Lowest(Run(crypto[el], 2), space - Cardinality(first))
  <2>1. Run(crypto[el], 0) \in SUBSET crypto[el]
    BY DEF Run
  <2>2. IsFiniteSet(Run(crypto[el], 0)) /\ Run(crypto[el], 0) \subseteq Int
    BY <1>1, <2>1, FS_Subset
  <2>3. Cardinality(first) <= space
    BY <2>2, LowestSize
  <2>4. cf.len = IF third = {} THEN Cardinality(first) ELSE space
    BY DEF CryptoFrames
  <2>5. cf.len \in Nat
    BY <1>1, CryptoFramesType
  <2> HIDE DEF cf, first, third
  <2> QED BY <2>3, <2>4, <2>5
<1> HIDE DEF cf
<1>4. frames.len \in Nat /\ (valid => frames.len <= space) /\ (~valid => frames.len = 0)
  BY <1>2, <1>3
<1>5. Stage(el, arch, run) = [valid |-> valid, ack |-> ack, data |-> frames.data,
                              ae |-> frames.data # {} \/ ping, len |-> len]
  BY DEF Stage, frames, space, cf
<1> HIDE DEF frames
<1>6. len = 0 \/ len + Overhead + run <= Mdpl
  BY <1>2, <1>4, LengthsAssumption
<1>7. Stage(el, arch, run).len = len
  <2> HIDE DEF len, ack, valid, ping
  <2> QED BY <1>5
<1> HIDE DEF len
<1> QED BY <1>6, <1>7

\* Every packet fits a datagram, the padding of the Initial one included.
Fits(pkt) == pkt.len = 0 \/ pkt.len + Overhead <= Mdpl

LEMMA PacketsFit ==
    ASSUME TypeOK, Contained, NEW arch
    PROVE  \A el \in EL : Fits(Adjusted(Staged(arch))[el])
<1> DEFINE plan == Staged(arch)
           ini == Stage("INITIAL", arch, 0)
           run == Hwm(ini)
           hs  == Stage("HANDSHAKE", arch, run)
           total == Size(ini) + Size(hs)
<1>1. plan \in [EL -> Staging]
  BY StagedType
<1>2. plan["INITIAL"] = ini /\ plan["HANDSHAKE"] = hs
  BY DEF Staged
<1>3. ini \in Staging /\ hs \in Staging
  BY <1>1, <1>2
<1>4. ini.len \in Nat /\ hs.len \in Nat /\ run \in Nat
  <2> HIDE DEF ini, hs
  <2> QED BY <1>3, LengthsAssumption DEF Hwm, Staging
<1>5. ini.len = 0 \/ ini.len + Overhead <= Mdpl
  <2>1. ini.len = 0 \/ ini.len + Overhead + 0 <= Mdpl
    BY StageFits
  <2> HIDE DEF ini
  <2> QED BY <1>4, <2>1, LengthsAssumption
<1>6. hs.len = 0 \/ hs.len + Overhead <= Mdpl
  <2>1. hs.len = 0 \/ hs.len + Overhead + run <= Mdpl
    <3> HIDE DEF run
    <3> QED BY <1>4, StageFits
  <2> HIDE DEF hs, run
  <2> QED BY <1>4, <2>1, LengthsAssumption
<1> HIDE DEF ini, hs, run
<1>7. Size(hs) \in Nat /\ (ini.len # 0 => Size(ini) = ini.len + Overhead)
  BY <1>4, LengthsAssumption DEF Size
<1>8. Deficit(plan) = IF ini.len = 0 \/ total >= MinDgram THEN 0 ELSE MinDgram - total
  BY <1>2 DEF Deficit
<1>9. /\ Adjusted(plan)["INITIAL"].len = ini.len + Deficit(plan)
      /\ Adjusted(plan)["HANDSHAKE"] = hs
  BY <1>1, <1>2, AdjustedLens
<1> HIDE DEF plan
<1>10. ini.len + Deficit(plan) = 0 \/ ini.len + Deficit(plan) + Overhead <= Mdpl
  BY <1>4, <1>5, <1>7, <1>8, LengthsAssumption
<1> QED BY <1>6, <1>9, <1>10 DEF Fits, plan

\* A window that refused a packet: limited, and less than a datagram is left.
Starved(c) == c # SizeMax /\ c + Overhead < Mdpl

\* A packet that fits a datagram is committed unless the window is starved.
LEMMA RefusedPkt ==
    ASSUME NEW acc \in Accs, NEW el \in EL, NEW pkt, pkt.len \in Nat, Fits(pkt),
           acc.blocked => Starved(acc.credit)
    PROVE  /\ CommitPkt(acc, el, pkt).blocked => Starved(CommitPkt(acc, el, pkt).credit)
           /\ acc.blocked => CommitPkt(acc, el, pkt).blocked
           /\ acc.done \subseteq CommitPkt(acc, el, pkt).done
           /\ pkt.len # 0 /\ el \notin CommitPkt(acc, el, pkt).done
                => CommitPkt(acc, el, pkt).blocked
<1> DEFINE r == CommitPkt(acc, el, pkt)
<1>1. CASE acc.blocked \/ pkt.len = 0
  <2>1. r = acc
    BY <1>1 DEF CommitPkt
  <2> HIDE DEF r
  <2>2. /\ r.blocked => Starved(r.credit)
        /\ acc.blocked => r.blocked
        /\ acc.done \subseteq r.done
        /\ pkt.len # 0 /\ el \notin r.done => r.blocked
    BY <1>1, <2>1
  <2> QED BY <2>2 DEF r
<1>2. CASE ~(acc.blocked \/ pkt.len = 0) /\ CheckUnvalidatedCredit(acc.credit, pkt.len)
  <2> DEFINE c == ConsumeUnvalidatedCredit(acc.credit, pkt.len)
             b == acc.bytes + pkt.len
             d == acc.done \cup {el}
  <2>1. r = [acc EXCEPT !.credit = c, !.bytes = b, !.done = d]
    BY <1>2 DEF CommitPkt
  <2> HIDE DEF b, c, d, r
  <2>2. r.done = d /\ r.blocked = acc.blocked
    BY <2>1 DEF Accs
  <2>3. /\ r.blocked => Starved(r.credit)
        /\ acc.blocked => r.blocked
        /\ acc.done \subseteq r.done
        /\ pkt.len # 0 /\ el \notin r.done => r.blocked
    BY <1>2, <2>2 DEF d
  <2> QED BY <2>3 DEF r
<1>3. CASE ~(acc.blocked \/ pkt.len = 0) /\ ~CheckUnvalidatedCredit(acc.credit, pkt.len)
  <2>1. r = [acc EXCEPT !.blocked = TRUE]
    BY <1>3 DEF CommitPkt
  <2> HIDE DEF r
  <2>2. r.done = acc.done /\ r.blocked = TRUE /\ r.credit = acc.credit
    BY <2>1 DEF Accs
  <2>3. Starved(acc.credit)
    BY <1>3, LengthsAssumption DEF CheckUnvalidatedCredit, Starved, Fits, Accs
  <2> QED BY <2>2, <2>3 DEF r
<1> QED BY <1>1, <1>2, <1>3

\* The commit phase leaves a packet behind only when it is given up or the
\* window is starved.
LEMMA RefusedAll ==
    ASSUME credit \in 0..SizeMax, NEW pkts \in [EL -> Staging],
           \A el \in EL : Fits(pkts[el]),
           NEW acc, acc = CommitAll(pkts, FALSE),
           NEW el \in EL, pkts[el].len # 0, el \notin acc.done
    PROVE  Starved(acc.credit)
<1> DEFINE i  == pkts["INITIAL"]
           h  == pkts["HANDSHAKE"]
           a0 == [credit |-> credit, bytes |-> 0, done |-> {}, blocked |-> FALSE]
           a1 == CommitPkt(a0, "INITIAL", i)
           a2 == CommitPkt(a1, "HANDSHAKE", h)
<1>1. acc = a2
  BY DEF CommitAll
<1>2. a0 \in Accs /\ a0.blocked = FALSE
  BY DEF Accs
<1>3. i.len \in Nat /\ h.len \in Nat /\ Fits(i) /\ Fits(h)
  BY DEF Staging
<1>4. (el = "INITIAL" /\ i.len # 0) \/ (el = "HANDSHAKE" /\ h.len # 0)
  OBVIOUS
<1>5. /\ a1 = CommitPkt(a0, "INITIAL", i) /\ "INITIAL" \in EL
      /\ a2 = CommitPkt(a1, "HANDSHAKE", h) /\ "HANDSHAKE" \in EL
  OBVIOUS
<1> HIDE DEF i, h, a0, a1, a2
<1>6. a1 \in Accs
  BY <1>2, <1>3, <1>5, CommitPktBounds
<1>7. /\ a1.blocked => Starved(a1.credit)
      /\ i.len # 0 /\ "INITIAL" \notin a1.done => a1.blocked
  BY <1>2, <1>3, <1>5, RefusedPkt
<1>8. /\ a2.blocked => Starved(a2.credit)
      /\ a1.blocked => a2.blocked
      /\ a1.done \subseteq a2.done
      /\ h.len # 0 /\ "HANDSHAKE" \notin a2.done => a2.blocked
  BY <1>3, <1>5, <1>6, <1>7, RefusedPkt
<1> QED BY <1>1, <1>4, <1>7, <1>8

\* The address is validated before the Initial level is discarded.
ValidatedFirst == "INITIAL" \notin prov => credit = SizeMax

LEMMA ValidatedFirstKept == IInv /\ ValidatedFirst /\ [Next]_vars => ValidatedFirst'
<1> SUFFICES ASSUME IInv, ValidatedFirst, [Next]_vars PROVE ValidatedFirst'
  OBVIOUS
<1>1. CASE Rx
  <2>1. ASSUME NEW a, NEW b, NEW c, NEW d, NEW e, NEW f, NEW g,
               RxInitial(a, b, c, d, e, f, g)
        PROVE  "INITIAL" \in prov'
    BY <2>1 DEF RxInitial, CanReceive
  <2>2. ASSUME NEW a, NEW c, NEW d, NEW e, NEW f, NEW g,
               RxHandshake(c, d, e, f, g)
        PROVE  credit' = SizeMax
    BY <2>2 DEF RxHandshake, SetValidated
  <2>3. "INITIAL" \in prov' \/ credit' = SizeMax
    BY <1>1, <2>1, <2>2, Zenon DEF Rx
  <2> QED BY <2>3 DEF ValidatedFirst
<1>2. CASE Timeout
  BY <1>2 DEF Timeout, OnProbeTimeout, OnAntiDeadlockTimeout, ValidatedFirst
<1>3. CASE Tx
  <2>1. PICK done, pkts, bytes : Committed(done, pkts, bytes)
    BY <1>3, GenerateCommits DEF Tx, IInv
  <2> QED BY <2>1 DEF Committed, ValidatedFirst
<1>4. CASE UNCHANGED vars
  BY <1>4 DEF vars, ValidatedFirst
<1> QED BY <1>1, <1>2, <1>3, <1>4 DEF Next

\* A request that a starved pass may take back, as AckRequestKept states it.
TakenBack ==
    /\ "INITIAL" \in prov
    /\ \/ credit' # SizeMax /\ credit' + Overhead < Mdpl
       \/ dgram'.levels = {} /\ Cardinality(sent) * Mdpl >= MinCwnd

\* One call of generate.
LEMMA GenerateKeepsAck ==
    ASSUME TypeOK, Contained, ValidatedFirst, NEW cc \in BOOLEAN, Generate(cc),
           NEW el \in EL, AckWanted(el), el \in hist'.owed
    PROVE  (el \in ackDesired' \cup wantAck') \/ TakenBack
<1>1. PICK arch, plan, pkts, give, acc : GeneratedAs(arch, plan, pkts, give, acc)
  BY GenerateNamed
<1>2. /\ plan = Staged(arch) /\ pkts = Adjusted(plan) /\ give = GiveUp(arch, plan)
      /\ acc = CommitAll(pkts, give)
      /\ plan \in [EL -> Staging] /\ pkts \in [EL -> Staging] /\ give \in BOOLEAN
      /\ ackDesired' = ackDesired \ {e \in EL : pkts[e].ack}
      /\ wantAck' = wantAck \ {e \in acc.done : pkts[e].ack}
      /\ hist'.owed = hist.owed \ {e \in acc.done : pkts[e].ack}
      /\ dgram' = [levels |-> acc.done,
                   len |-> acc.bytes + Overhead * Cardinality(acc.done)]
      /\ credit' = acc.credit
      /\ arch = "ACK_ONLY" => Cardinality(sent) * Mdpl >= MinCwnd
  BY <1>1 DEF GeneratedAs
<1>3. CASE ~pkts[el].ack
  BY <1>2, <1>3 DEF AckWanted
<1>4. CASE pkts[el].ack
  <2>1. el \notin acc.done
    BY <1>2, <1>4
  <2>2. CASE give
    <3>1. arch = "ACK_ONLY" /\ "INITIAL" \in prov
      BY <1>2, <2>2, StagedAcks
    <3>2. acc.done = {}
      BY <1>2, <2>2 DEF CommitAll, CommitPkt
    <3> QED BY <1>2, <3>1, <3>2 DEF TakenBack
  <2>3. CASE ~give
    <3>1. pkts[el].len # 0
      <4>1. plan[el].ack => plan[el].len # 0
        BY <1>2, StagedAcks
      <4>2. /\ Deficit(plan) \in Nat
            /\ pkts["INITIAL"].len = plan["INITIAL"].len + Deficit(plan)
            /\ pkts["INITIAL"].ack = plan["INITIAL"].ack
            /\ pkts["HANDSHAKE"] = plan["HANDSHAKE"]
        BY <1>2, AdjustedLens
      <4>3. plan["INITIAL"].len \in Nat
        BY <1>2 DEF Staging
      <4> QED BY <1>4, <4>1, <4>2, <4>3
    <3>2. \A e \in EL : Fits(pkts[e])
      BY <1>2, PacketsFit
    <3>3. acc = CommitAll(pkts, FALSE)
      BY <1>2, <2>3
    <3>4. credit \in 0..SizeMax
      BY DEF TypeOK
    <3>5. Starved(acc.credit)
      BY <1>2, <2>1, <3>1, <3>2, <3>3, <3>4, RefusedAll
    <3>6. credit # SizeMax
      BY <1>2, <3>3, <3>4, <3>5, CommitAllBounds DEF Starved
    <3> QED BY <1>2, <3>5, <3>6 DEF TakenBack, Starved, ValidatedFirst
  <2> QED BY <2>2, <2>3
<1> QED BY <1>3, <1>4

\* An acknowledgement that is owed stays asked for until it is sent, except
\* after a starved pass: a packet fits a datagram, so a refused one shows that
\* the window has less than a datagram left, and generate gives up only when
\* the congestion window is full.  Both need the Initial level: the address is
\* validated before that level goes, and only its packets are padded.
THEOREM AcksStayAskedFor == Spec => AckRequestKept
<1> DEFINE Kept(el) == AckWanted(el) =>
                 \/ AckWanted(el)'
                 \/ /\ "INITIAL" \in prov
                    /\ \/ credit' # SizeMax /\ credit' + Overhead < Mdpl
                       \/ dgram'.levels = {} /\ Cardinality(sent) * Mdpl >= MinCwnd
           AllKept == \A el \in hist.owed \cap hist'.owed \cap prov' : Kept(el)
<1>1. ASSUME IInv, ValidatedFirst, [Next]_vars PROVE [AllKept]_vars
  <2>1. CASE Rx
    <3>1. ASSUME NEW a, NEW b, NEW c, NEW d, NEW e, NEW f, NEW g,
                 RxInitial(a, b, c, d, e, f, g) \/ RxHandshake(c, d, e, f, g)
          PROVE  ackDesired \subseteq ackDesired' /\ wantAck \subseteq wantAck'
      BY <3>1 DEF RxInitial, RxHandshake
    <3>2. ackDesired \subseteq ackDesired' /\ wantAck \subseteq wantAck'
      BY <2>1, <3>1, Zenon DEF Rx
    <3> QED BY <3>2 DEF AckWanted
  <2>2. CASE Timeout
    BY <2>2 DEF Timeout, OnProbeTimeout, OnAntiDeadlockTimeout, AckWanted
  <2>3. CASE Tx
    <3>1. PICK cc \in BOOLEAN : Generate(cc)
      BY <2>3 DEF Tx
    <3>2. prov' = prov /\ prov \subseteq EL
      BY <1>1, <3>1 DEF Generate, IInv, TypeOK
    <3>3. ASSUME NEW el \in EL, el \in hist'.owed, AckWanted(el)
          PROVE  (el \in ackDesired' \cup wantAck') \/ TakenBack
      BY <1>1, <3>1, <3>3, GenerateKeepsAck DEF IInv
    <3> QED BY <3>2, <3>3 DEF AckWanted, TakenBack
  <2>4. CASE UNCHANGED vars
    BY <2>4
  <2> QED BY <1>1, <2>1, <2>2, <2>3, <2>4 DEF Next
<1>2. Init => ValidatedFirst
  BY DEF Init, ValidatedFirst
<1> QED BY <1>1, <1>2, ValidatedFirstKept, Invariance, PTL DEF Spec, AckRequestKept

=============================================================================
