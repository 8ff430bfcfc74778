-------------------------- MODULE SenderRefinement --------------------------
(***************************************************************************)
(* The proof that TxPacketiser implements LimitedSender: each call of      *)
(* generate sends waiting bytes within the limit, each packet received     *)
(* moves bytes as the abstract sender allows, and a timeout changes        *)
(* nothing that the abstract sender knows of.                              *)
(***************************************************************************)
EXTENDS TxPacketiserProofs

(* Bytes tagged with their level.                                          *)

\* A tagged byte is a level of the family and a byte of that level.
LEMMA TaggedIn ==
    ASSUME NEW f, NEW b
    PROVE  b \in Tagged(f) <=> \E el \in EL : \E x \in f[el] : b = <<el, x>>
  BY DEF Tagged

\* Tagging keeps inclusion, emptiness and the set operations, level by level.
LEMMA TaggedSubset ==
    ASSUME NEW f, NEW g, \A el \in EL : f[el] \subseteq g[el]
    PROVE  Tagged(f) \subseteq Tagged(g)
  BY TaggedIn

LEMMA TaggedEmpty ==
    ASSUME NEW f, \A el \in EL : f[el] = {}
    PROVE  Tagged(f) = {}
  BY TaggedIn

LEMMA TaggedUnion ==
    ASSUME NEW f, NEW g, NEW h, \A el \in EL : h[el] = f[el] \cup g[el]
    PROVE  Tagged(h) = Tagged(f) \cup Tagged(g)
<1>1. ASSUME NEW b PROVE b \in Tagged(h) <=> b \in Tagged(f) \cup Tagged(g)
  BY TaggedIn
<1> QED BY <1>1

LEMMA TaggedMinus ==
    ASSUME NEW f, NEW g, NEW h, \A el \in EL : h[el] = f[el] \ g[el]
    PROVE  Tagged(h) = Tagged(f) \ Tagged(g)
<1>1. ASSUME NEW b PROVE b \in Tagged(h) <=> b \in Tagged(f) \ Tagged(g)
  <2>1. b \in Tagged(h) => b \in Tagged(f)
    BY TaggedIn
  <2>2. b \in Tagged(h) => b \notin Tagged(g)
    BY TaggedIn
  <2>3. b \in Tagged(f) /\ b \notin Tagged(g) => b \in Tagged(h)
    BY TaggedIn
  <2> QED BY <2>1, <2>2, <2>3
<1> QED BY <1>1

\* The bytes of S whose level is in L, as LimitedSender has them.
Within(S, L) == {b \in S : b[1] \in L}

LEMMA TaggedAt ==
    ASSUME NEW f, NEW L, NEW h, \A el \in EL : h[el] = IF el \in L THEN f[el] ELSE {}
    PROVE  Tagged(h) = Within(Tagged(f), L)
<1>1. ASSUME NEW b PROVE b \in Tagged(h) <=> b \in Tagged(f) /\ b[1] \in L
  BY TaggedIn
<1> QED BY <1>1 DEF Within

\* How the bytes move when a packet of the peer is received, level by level: c
\* waiting, f in flight, a acknowledged, before and after, with the levels L in
\* use after.
Moved(c, f, a, c2, f2, a2, L) ==
    \A el \in EL :
      /\ a[el] \subseteq a2[el] /\ a2[el] \ a[el] \subseteq f[el]
      /\ f2[el] \subseteq (IF el \in L THEN f[el] ELSE {}) \ (a2[el] \ a[el])
      /\ c2[el] = (IF el \in L THEN c[el] \cup f[el] ELSE {})
                     \ (f2[el] \cup (a2[el] \ a[el]))

\* Then the tagged bytes move in the same way: those acknowledged,
LEMMA ArrivedMoves ==
    ASSUME NEW c, NEW f, NEW a, NEW c2, NEW f2, NEW a2, NEW L,
           Moved(c, f, a, c2, f2, a2, L)
    PROVE  /\ Tagged(a) \subseteq Tagged(a2)
           /\ Tagged(a2) \ Tagged(a) \subseteq Tagged(f)
<1> DEFINE n == [el \in EL |-> a2[el] \ a[el]]
<1>1. \A el \in EL : n[el] = a2[el] \ a[el]
  OBVIOUS
<1> HIDE DEF n
<1>2. Tagged(n) = Tagged(a2) \ Tagged(a)
  BY <1>1, TaggedMinus
<1>3. Tagged(a) \subseteq Tagged(a2)
  BY TaggedSubset DEF Moved
<1>4. Tagged(n) \subseteq Tagged(f)
  BY <1>1, TaggedSubset DEF Moved
<1> QED BY <1>2, <1>3, <1>4

\* those in flight,
LEMMA FlightMoves ==
    ASSUME NEW c, NEW f, NEW a, NEW c2, NEW f2, NEW a2, NEW L,
           Moved(c, f, a, c2, f2, a2, L)
    PROVE  Tagged(f2) \subseteq Within(Tagged(f), L) \ (Tagged(a2) \ Tagged(a))
<1> DEFINE n == [el \in EL |-> a2[el] \ a[el]]
           g == [el \in EL |-> IF el \in L THEN f[el] ELSE {}]
           y == [el \in EL |-> g[el] \ n[el]]
<1>1. \A el \in EL : n[el] = a2[el] \ a[el]
  OBVIOUS
<1>2. \A el \in EL : g[el] = IF el \in L THEN f[el] ELSE {}
  OBVIOUS
<1>3. \A el \in EL : y[el] = g[el] \ n[el]
  OBVIOUS
<1> HIDE DEF n, g, y
<1>4. Tagged(n) = Tagged(a2) \ Tagged(a)
  BY <1>1, TaggedMinus
<1>5. Tagged(g) = Within(Tagged(f), L)
  BY <1>2, TaggedAt
<1>6. Tagged(y) = Tagged(g) \ Tagged(n)
  BY <1>3, TaggedMinus
<1>7. \A el \in EL : f2[el] \subseteq y[el]
  BY <1>1, <1>2, <1>3 DEF Moved
<1>8. Tagged(f2) \subseteq Tagged(y)
  BY <1>7, TaggedSubset
<1> QED BY <1>4, <1>5, <1>6, <1>8

\* and those waiting.
LEMMA WaitingMoves ==
    ASSUME NEW c, NEW f, NEW a, NEW c2, NEW f2, NEW a2, NEW L,
           Moved(c, f, a, c2, f2, a2, L)
    PROVE  Tagged(c2) = Within(Tagged(c) \cup Tagged(f), L)
                          \ (Tagged(f2) \cup (Tagged(a2) \ Tagged(a)))
<1> DEFINE n == [el \in EL |-> a2[el] \ a[el]]
           u == [el \in EL |-> c[el] \cup f[el]]
           k == [el \in EL |-> IF el \in L THEN u[el] ELSE {}]
           x == [el \in EL |-> f2[el] \cup n[el]]
<1>1. \A el \in EL : n[el] = a2[el] \ a[el]
  OBVIOUS
<1>2. \A el \in EL : u[el] = c[el] \cup f[el]
  OBVIOUS
<1>3. \A el \in EL : k[el] = IF el \in L THEN u[el] ELSE {}
  OBVIOUS
<1>4. \A el \in EL : x[el] = f2[el] \cup n[el]
  OBVIOUS
<1> HIDE DEF n, u, k, x
<1>5. Tagged(n) = Tagged(a2) \ Tagged(a)
  BY <1>1, TaggedMinus
<1>6. Tagged(u) = Tagged(c) \cup Tagged(f)
  BY <1>2, TaggedUnion
<1>7. Tagged(k) = Within(Tagged(u), L)
  BY <1>3, TaggedAt
<1>8. Tagged(x) = Tagged(f2) \cup Tagged(n)
  BY <1>4, TaggedUnion
<1>9. \A el \in EL : c2[el] = k[el] \ x[el]
  BY <1>1, <1>2, <1>3, <1>4 DEF Moved
<1>10. Tagged(c2) = Tagged(k) \ Tagged(x)
  BY <1>9, TaggedMinus
<1> QED BY <1>5, <1>6, <1>7, <1>8, <1>10

-----------------------------------------------------------------------------
(* The steps.                                                              *)

\* A level that is not in use has nothing to send and nothing in flight.
ClosedEmpty ==
    \A el \in EL \ prov : crypto[el] = {} /\ Data(Of(sent, el)) = {}

\* The bytes in flight, level by level.
Flown == [el \in EL |-> Data(Of(sent, el))]

\* One call of generate is a step Send of the abstract sender.
LEMMA GenerateSends ==
    ASSUME IInv, IInv', ClosedEmpty, NEW cc \in BOOLEAN, Generate(cc)
    PROVE  Sender!Send /\ ClosedEmpty'
<1> USE DEF IInv
<1>1. PICK done, pkts, bytes : Committed(done, pkts, bytes)
  BY GenerateCommits
<1> DEFINE new(el) == [el |-> el, pn |-> nextPn[el], data |-> pkts[el].data,
                       ack |-> pkts[el].ack, ae |-> pkts[el].ae]
<1>2. /\ done \in SUBSET EL /\ \A el \in EL : pkts[el].data \subseteq crypto[el]
      /\ crypto' = [el \in EL |-> IF el \in done THEN crypto[el] \ pkts[el].data
                                  ELSE crypto[el]]
      /\ sent' = sent \cup {new(el) : el \in done}
      /\ bytes \in Nat /\ prov' = prov
  BY <1>1 DEF Committed, RecordCommitted, Remaining, NewPackets
<1>3. /\ hist'.validated = hist.validated /\ hist'.credited = hist.credited
      /\ hist'.acked = hist.acked
      /\ hist'.payload = IF credit = SizeMax THEN hist.payload
                         ELSE hist.payload + bytes
  <2>1. hist \in Histories
    BY DEF TypeOK
  <2> QED BY <1>1, <2>1 DEF Committed, Histories
<1>4. \A el \in EL : new(el).el = el /\ new(el).data = pkts[el].data
  OBVIOUS
<1> HIDE DEF new
<1>5. \A el \in EL : Data(Of(sent', el)) =
          Data(Of(sent, el)) \cup (IF el \in done THEN pkts[el].data ELSE {})
  <2> SUFFICES ASSUME NEW el \in EL
               PROVE  Data(Of(sent', el)) = Data(Of(sent, el))
                         \cup (IF el \in done THEN pkts[el].data ELSE {})
    OBVIOUS
  <2>1. CASE el \in done
    <3>1. Of(sent', el) = Of(sent, el) \cup {new(el)}
      BY <1>2, <1>4, <2>1 DEF Of
    <3> QED BY <1>4, <2>1, <3>1 DEF Data
  <2>2. CASE el \notin done
    <3>1. Of(sent', el) = Of(sent, el)
      BY <1>2, <1>4, <2>2 DEF Of
    <3> QED BY <2>2, <3>1
  <2> QED BY <2>1, <2>2
<1>6. /\ \A el \in EL : crypto'[el] \subseteq crypto[el]
      /\ \A el \in EL : Flown'[el] = Flown[el] \cup (crypto[el] \ crypto'[el])
  BY <1>2, <1>5 DEF Flown
<1>7. ClosedEmpty'
  <2> SUFFICES ASSUME NEW el \in EL \ prov
               PROVE  crypto'[el] = {} /\ Data(Of(sent', el)) = {}
    BY <1>2 DEF ClosedEmpty
  <2>1. crypto[el] = {} /\ Data(Of(sent, el)) = {}
    BY DEF ClosedEmpty
  <2> QED BY <1>2, <1>5, <2>1
<1>8. Tagged(crypto') \subseteq Tagged(crypto)
  BY <1>6, TaggedSubset
<1>9. Tagged(Flown') = Tagged(Flown) \cup (Tagged(crypto) \ Tagged(crypto'))
  <2> DEFINE g == [el \in EL |-> crypto[el] \ crypto'[el]]
  <2>1. \A el \in EL : g[el] = crypto[el] \ crypto'[el]
    OBVIOUS
  <2> HIDE DEF g
  <2>2. Tagged(g) = Tagged(crypto) \ Tagged(crypto')
    BY <2>1, TaggedMinus
  <2>3. \A el \in EL : Flown'[el] = Flown[el] \cup g[el]
    BY <1>6, <2>1
  <2> QED BY <2>2, <2>3, TaggedUnion
<1>10. /\ hist'.payload >= hist.payload
       /\ hist.validated \/ hist'.payload <= 3 * hist.credited
  <2>1. /\ hist.payload \in Nat /\ hist'.payload \in Nat /\ hist.credited \in Nat
        /\ credit' \in Nat
    BY LengthsAssumption DEF TypeOK, Histories
  <2>2. hist.validated \/ hist'.payload + credit' <= 3 * hist.credited
    BY <1>3 DEF WindowBound
  <2>3. hist'.payload >= hist.payload
    BY <1>2, <1>3, <2>1
  <2> QED BY <2>1, <2>2, <2>3
<1>11. Sender!Send
  BY <1>2, <1>3, <1>8, <1>9, <1>10 DEF Sender!Send, Flown
<1> QED BY <1>7, <1>11

\* When A is acknowledged and L is lost, the bytes of the level move as the
\* abstract sender allows: no packet in flight shares a byte with another, with
\* the stream or with the bytes acknowledged.
LEMMA BytesMove ==
    ASSUME NoCryptoDuplicated, NEW el \in EL, NEW A \in SUBSET Of(sent, el),
           NEW L \in SUBSET Of(sent, el), L \cap A = {}
    PROVE  LET f  == Data(Of(sent, el))
               f2 == Data(Of(sent, el) \ (A \cup L))
               n  == (hist.acked[el] \cup Data(A)) \ hist.acked[el]
           IN  /\ n \subseteq f /\ f2 \subseteq f \ n
               /\ crypto[el] \cup Data(L) = (crypto[el] \cup f) \ (f2 \cup n)
<1> DEFINE P  == Of(sent, el)
           S  == P \ (A \cup L)
           f  == Data(P)
           f2 == Data(S)
           n  == (hist.acked[el] \cup Data(A)) \ hist.acked[el]
<1>1. /\ \A p \in P : /\ p.data \cap crypto[el] = {} /\ p.data \cap hist.acked[el] = {}
                      /\ \A q \in P : p # q => p.data \cap q.data = {}
  BY DEF NoCryptoDuplicated
<1>2. \A Q, x : x \in Data(Q) <=> \E p \in Q : x \in p.data
  BY DEF Data
<1>3. n = Data(A)
  BY <1>1, <1>2
<1>4. Data(A) \subseteq f /\ f2 \subseteq f \ Data(A)
  BY <1>1, <1>2
<1>5. ASSUME NEW x
      PROVE  x \in crypto[el] \cup Data(L)
               <=> x \in (crypto[el] \cup f) \ (f2 \cup Data(A))
  <2>1. CASE x \in crypto[el]
    BY <1>1, <1>2, <2>1
  <2>2. CASE x \notin crypto[el]
    <3>1. x \in f => x \in f2 \/ x \in Data(A) \/ x \in Data(L)
      BY <1>2
    <3>2. x \in Data(L) => x \in f /\ x \notin f2 /\ x \notin Data(A)
      BY <1>1, <1>2
    <3> HIDE DEF f, f2
    <3> QED BY <2>2, <3>1, <3>2
  <2> QED BY <2>1, <2>2
<1>6. crypto[el] \cup Data(L) = (crypto[el] \cup f) \ (f2 \cup Data(A))
  <2> HIDE DEF f, f2
  <2> QED BY <1>5
<1> HIDE DEF n
<1> QED BY <1>3, <1>4, <1>6 DEF n

\* Bytes that move in this way, with no level opened, make a step Receive.
LEMMA ReceiveStep ==
    ASSUME Moved(crypto, Flown, hist.acked, crypto', Flown', hist'.acked, prov'),
           prov' \subseteq prov, hist'.credited >= hist.credited,
           hist.validated => hist'.validated, hist'.payload = hist.payload
    PROVE  Sender!Receive
<1> DEFINE arr == Tagged(hist'.acked) \ Tagged(hist.acked)
<1>1. Tagged(hist.acked) \subseteq Tagged(hist'.acked) /\ arr \subseteq Tagged(Flown)
  BY ArrivedMoves
<1>2. Tagged(Flown') \subseteq Within(Tagged(Flown), prov') \ arr
  BY FlightMoves
<1>3. Tagged(crypto') = Within(Tagged(crypto) \cup Tagged(Flown), prov')
                          \ (Tagged(Flown') \cup arr)
  BY WaitingMoves
<1> QED BY <1>1, <1>2, <1>3 DEF Sender!Receive, Sender!At, Within, Flown

USE DEF EL

\* A datagram with Initial packets is a step Receive.  With the ClientHello
\* nothing has been written yet, and TLS writes the flight.
LEMMA RxInitialReceives ==
    ASSUME IInv, ClosedEmpty, NEW A \in SUBSET Of(sent, "INITIAL"), NEW top, NEW k,
           NEW len \in RxLens, NEW n \in 1..2, NEW ae \in BOOLEAN,
           NEW hello \in BOOLEAN, RxInitial(len, n, ae, hello, A, top, k)
    PROVE  Sender!Receive /\ ClosedEmpty'
<1> USE DEF IInv
<1> DEFINE el   == "INITIAL"
           lost == Lost(el, A, top, k)
           acked == [hist.acked EXCEPT ![el] = hist.acked[el] \cup Data(A)]
<1>1. /\ el \in prov /\ el \in EL
      /\ hello => tls = "start"
      /\ sent' = sent \ (A \cup lost)
      /\ prov' = IF hello THEN EL ELSE prov
      /\ ~hello => crypto' = [crypto EXCEPT ![el] = crypto[el] \cup Data(lost)]
  <2>1. /\ el \in prov /\ (hello => tls = "start") /\ sent' = sent \ (A \cup lost)
        /\ prov' = IF hello THEN EL ELSE prov
    BY DEF RxInitial, CanReceive
  <2>2. ~hello => crypto' = [crypto EXCEPT ![el] = crypto[el] \cup Data(lost)]
    BY DEF RxInitial
  <2> QED BY <2>1, <2>2
<1>2. /\ hist'.credited = IF hist.validated THEN hist.credited
                            ELSE hist.credited + n * len
      /\ hist'.payload = hist.payload
      /\ hist'.validated = hist.validated /\ hist'.acked = acked
  <2>1. hist \in Histories
    BY DEF TypeOK
  <2>2. PICK sh \in ServerHelloLens, fl \in FlightLens :
          hist' = [hist EXCEPT
             !.rx = hist.rx + 1, !.lost = hist.lost + Cardinality(lost),
             !.rxWire = IF hist.validated THEN hist.rxWire ELSE hist.rxWire + len,
             !.credited = IF hist.validated THEN hist.credited
                          ELSE hist.credited + n * len,
             !.owed = IF ae THEN hist.owed \cup {el} ELSE hist.owed,
             !.produced = IF hello THEN [INITIAL |-> 0..(sh - 1),
                                         HANDSHAKE |-> 0..(fl - 1)]
                          ELSE hist.produced,
             !.acked[el] = hist.acked[el] \cup Data(A)]
    BY DEF RxInitial
  <2> DEFINE a == hist.rx + 1
             b == hist.lost + Cardinality(lost)
             c == IF hist.validated THEN hist.rxWire ELSE hist.rxWire + len
             d == IF ae THEN hist.owed \cup {el} ELSE hist.owed
             e == IF hello THEN [INITIAL |-> 0..(sh - 1), HANDSHAKE |-> 0..(fl - 1)]
                  ELSE hist.produced
             g == IF hist.validated THEN hist.credited ELSE hist.credited + n * len
  <2>3. hist' = [hist EXCEPT !.rx = a, !.lost = b, !.rxWire = c, !.credited = g,
                             !.owed = d, !.produced = e, !.acked = acked]
    BY <2>2
  <2> HIDE DEF a, b, c, d, e, g, acked
  <2> QED BY <2>1, <2>3 DEF Histories, g
<1>3. hist'.credited >= hist.credited
  <2>1. len \in Nat /\ n \in Nat /\ hist.credited \in Nat
    BY LengthsAssumption DEF TypeOK, Histories
  <2>2. n * len \in Nat
    BY <2>1
  <2> QED BY <1>2, <2>1, <2>2
<1>4. lost \in SUBSET Of(sent, el) /\ lost \cap A = {}
  BY <1>1, LostFacts
<1> HIDE DEF lost
<1>5. /\ Of(sent', el) = Of(sent, el) \ (A \cup lost)
      /\ Of(sent', "HANDSHAKE") = Of(sent, "HANDSHAKE")
  BY <1>1, <1>4 DEF Of
<1>6. /\ acked[el] = hist.acked[el] \cup Data(A)
      /\ acked["HANDSHAKE"] = hist.acked["HANDSHAKE"]
  BY DEF TypeOK, Histories
<1> HIDE DEF acked
<1>7. CASE hello
  <2>1. \A e \in EL : /\ crypto[e] = {} /\ hist.acked[e] = {}
                      /\ \A p \in Of(sent, e) : p.data = {}
    <3>1. \A e \in EL : hist.produced[e] = {} /\ hist.acked[e] = {}
      BY <1>1, <1>7 DEF BeforeFlight
    <3>2. \A e \in EL : crypto[e] \subseteq hist.produced[e]
      BY DEF Contained
    <3>3. \A e \in EL : \A p \in Of(sent, e) : p.data \subseteq hist.produced[e]
      BY DEF Contained, Of
    <3> QED BY <3>1, <3>2, <3>3
  <2>2. \A e \in EL : /\ Flown[e] = {} /\ Flown'[e] = {}
    <3>1. \A e \in EL : \A p \in Of(sent', e) : p.data = {}
      BY <1>5, <2>1
    <3> QED BY <2>1, <3>1 DEF Flown, Data
  <2>3. \A e \in EL : acked[e] = {}
    <3>1. Data(A) = {}
      BY <2>1 DEF Data
    <3> QED BY <1>6, <2>1, <3>1
  <2>4. /\ Tagged(crypto) = {} /\ Tagged(Flown) = {} /\ Tagged(Flown') = {}
        /\ Tagged(hist.acked) = {} /\ Tagged(hist'.acked) = {}
    BY <1>2, <2>1, <2>2, <2>3, TaggedEmpty
  <2>5. ClosedEmpty'
    BY <1>1, <1>7 DEF ClosedEmpty
  <2>6. Sender!Receive
    BY <1>2, <1>3, <2>4 DEF Sender!Receive, Sender!At, Flown
  <2> QED BY <2>5, <2>6
<1>8. CASE ~hello
  <2>1. /\ crypto'[el] = crypto[el] \cup Data(lost)
        /\ crypto'["HANDSHAKE"] = crypto["HANDSHAKE"] /\ prov' = prov
    BY <1>1, <1>8 DEF TypeOK
  <2> DEFINE f  == Data(Of(sent, el))
             f2 == Data(Of(sent, el) \ (A \cup lost))
             d  == (hist.acked[el] \cup Data(A)) \ hist.acked[el]
  <2>2. /\ d \subseteq f /\ f2 \subseteq f \ d
        /\ crypto[el] \cup Data(lost) = (crypto[el] \cup f) \ (f2 \cup d)
    BY <1>1, <1>4, BytesMove
  <2>3. /\ Flown[el] = f /\ Flown'[el] = f2
        /\ Flown'["HANDSHAKE"] = Flown["HANDSHAKE"]
    BY <1>5 DEF Flown
  <2>4. acked[el] \ hist.acked[el] = d /\ hist.acked[el] \subseteq acked[el]
    BY <1>6
  <2>5. /\ Flown["HANDSHAKE"] = Data(Of(sent, "HANDSHAKE"))
        /\ "HANDSHAKE" \notin prov
             => crypto["HANDSHAKE"] = {} /\ Flown["HANDSHAKE"] = {}
        /\ crypto["HANDSHAKE"] \cap Flown["HANDSHAKE"] = {}
    BY DEF ClosedEmpty, Flown, NoCryptoDuplicated, Data
  <2> HIDE DEF f, f2, d
  <2>6. Moved(crypto, Flown, hist.acked, crypto', Flown', acked, prov')
    <3>1. CASE "HANDSHAKE" \in prov
      BY <1>1, <1>6, <2>1, <2>2, <2>3, <2>4, <2>5, <3>1 DEF Moved
    <3>2. CASE "HANDSHAKE" \notin prov
      BY <1>1, <1>6, <2>1, <2>2, <2>3, <2>4, <2>5, <3>2 DEF Moved
    <3> QED BY <3>1, <3>2
  <2>7. Sender!Receive
    BY <1>2, <1>3, <2>1, <2>6, ReceiveStep
  <2>8. ClosedEmpty'
    BY <1>1, <1>5, <2>1 DEF ClosedEmpty
  <2> QED BY <2>7, <2>8
<1> QED BY <1>7, <1>8

\* A Handshake packet is a step Receive: it closes the Initial level and, with
\* the client's Finished, the Handshake level, whose bytes are forgotten.
LEMMA RxHandshakeReceives ==
    ASSUME IInv, ClosedEmpty, NEW A \in SUBSET Of(sent, "HANDSHAKE"), NEW top, NEW k,
           NEW ae \in BOOLEAN, NEW fin \in BOOLEAN,
           RxHandshake(ae, fin, A, top, k)
    PROVE  Sender!Receive /\ ClosedEmpty'
<1> USE DEF IInv
<1> DEFINE el   == "HANDSHAKE"
           lost == Lost(el, A, top, k)
           acked == [hist.acked EXCEPT ![el] = hist.acked[el] \cup Data(A)]
<1>1. /\ el \in prov /\ el \in EL
      /\ prov' = IF fin THEN {} ELSE {el}
      /\ sent' = IF fin THEN {} ELSE Of(sent \ (A \cup lost), el)
      /\ crypto' = Discard([crypto EXCEPT ![el] = crypto[el] \cup Data(lost)],
                           IF fin THEN EL ELSE EL \ {el})
  BY DEF RxHandshake, CanReceive
<1>2. /\ hist'.credited = hist.credited /\ hist'.payload = hist.payload
      /\ hist'.validated = TRUE /\ hist'.acked = acked
  <2>1. hist \in Histories
    BY DEF TypeOK
  <2>2. hist' = [hist EXCEPT
             !.rx = hist.rx + 1, !.lost = hist.lost + Cardinality(lost),
             !.owed = IF ae THEN hist.owed \cup {el} ELSE hist.owed,
             !.validated = TRUE, !.acked[el] = hist.acked[el] \cup Data(A)]
    BY DEF RxHandshake
  <2> DEFINE a == hist.rx + 1
             b == hist.lost + Cardinality(lost)
             d == IF ae THEN hist.owed \cup {el} ELSE hist.owed
  <2>3. hist' = [hist EXCEPT !.rx = a, !.lost = b, !.owed = d,
                             !.validated = TRUE, !.acked = acked]
    BY <2>2
  <2> HIDE DEF a, b, d, acked
  <2> QED BY <2>1, <2>3 DEF Histories
<1>3. hist.credited \in Nat
  BY DEF TypeOK, Histories
<1>4. lost \in SUBSET Of(sent, el) /\ lost \cap A = {}
  BY <1>1, LostFacts
<1> HIDE DEF lost
<1>5. /\ crypto'["INITIAL"] = {}
      /\ crypto'[el] = IF fin THEN {} ELSE crypto[el] \cup Data(lost)
  BY <1>1 DEF Discard, TypeOK
<1>6. /\ acked[el] = hist.acked[el] \cup Data(A)
      /\ acked["INITIAL"] = hist.acked["INITIAL"]
  BY DEF TypeOK, Histories
<1>7. /\ Of(sent', "INITIAL") = {}
      /\ Of(sent', el) = IF fin THEN {} ELSE Of(sent, el) \ (A \cup lost)
  BY <1>1, <1>4 DEF Of
<1> HIDE DEF acked
<1> DEFINE f  == Data(Of(sent, el))
           f2 == Data(Of(sent, el) \ (A \cup lost))
           d  == (hist.acked[el] \cup Data(A)) \ hist.acked[el]
<1>8. /\ d \subseteq f /\ f2 \subseteq f \ d
      /\ crypto[el] \cup Data(lost) = (crypto[el] \cup f) \ (f2 \cup d)
  BY <1>1, <1>4, BytesMove
<1>9. /\ Flown[el] = f /\ Flown'[el] = IF fin THEN {} ELSE f2
      /\ Flown'["INITIAL"] = {}
  <2>1. Data({}) = {}
    BY DEF Data
  <2> QED BY <1>7, <2>1 DEF Flown
<1>10. acked[el] \ hist.acked[el] = d /\ hist.acked[el] \subseteq acked[el]
  BY <1>6
<1> HIDE DEF f, f2, d
<1>11. Moved(crypto, Flown, hist.acked, crypto', Flown', acked, prov')
  <2>1. CASE fin
    BY <1>1, <1>5, <1>6, <1>8, <1>9, <1>10, <2>1 DEF Moved
  <2>2. CASE ~fin
    BY <1>1, <1>5, <1>6, <1>8, <1>9, <1>10, <2>2 DEF Moved
  <2> QED BY <2>1, <2>2
<1>12. Sender!Receive
  <2>1. prov' \subseteq prov
    BY <1>1
  <2>2. hist'.credited >= hist.credited
    BY <1>2, <1>3
  <2> QED BY <1>2, <1>11, <2>1, <2>2, ReceiveStep
<1>13. ClosedEmpty'
  <2>1. Data({}) = {}
    BY DEF Data
  <2> QED BY <1>1, <1>5, <1>7, <2>1 DEF ClosedEmpty
<1> QED BY <1>12, <1>13

\* A timeout is a step the abstract sender does not see.
LEMMA TimeoutStutters ==
    ASSUME IInv, ClosedEmpty, NEW el \in EL,
           OnProbeTimeout(el) \/ OnAntiDeadlockTimeout(el)
    PROVE  UNCHANGED Sender!svars /\ ClosedEmpty'
<1>1. /\ hist' = [hist EXCEPT !.ptos = hist.ptos + 1]
      /\ crypto' = crypto /\ sent' = sent /\ prov' = prov
  BY DEF OnProbeTimeout, OnAntiDeadlockTimeout
<1>2. /\ hist'.credited = hist.credited /\ hist'.payload = hist.payload
      /\ hist'.validated = hist.validated /\ hist'.acked = hist.acked
  <2>1. hist \in Histories
    BY DEF IInv, TypeOK
  <2> QED BY <1>1, <2>1 DEF Histories
<1>3. UNCHANGED Sender!svars
  BY <1>1, <1>2 DEF Sender!svars
<1> QED BY <1>1, <1>3 DEF ClosedEmpty

-----------------------------------------------------------------------------
(* The refinement.                                                         *)

\* A new channel has nothing to send.
LEMMA InitMaps == ASSUME Init PROVE Sender!Init /\ ClosedEmpty
<1>1. /\ hist.credited = 0 /\ hist.payload = 0 /\ hist.validated = (credit = SizeMax)
      /\ hist.acked = crypto /\ crypto = [el \in EL |-> {}] /\ sent = {}
  BY DEF Init
<1>2. \A el \in EL : crypto[el] = {} /\ Flown[el] = {}
  BY <1>1 DEF Flown, Of, Data
<1>3. Tagged(crypto) = {} /\ Tagged(Flown) = {} /\ Tagged(hist.acked) = {}
  BY <1>1, <1>2, TaggedEmpty
<1>4. Sender!Init
  BY <1>1, <1>3 DEF Sender!Init, Flown
<1>5. ClosedEmpty
  BY <1>1 DEF ClosedEmpty, Of, Data
<1> QED BY <1>4, <1>5

\* Every step is a step of the abstract sender or changes nothing it knows of.
LEMMA NextMaps ==
    ASSUME IInv, IInv', ClosedEmpty, [Next]_vars
    PROVE  [Sender!Next]_Sender!svars /\ ClosedEmpty'
<1>1. CASE Rx
  <2>1. Sender!Receive /\ ClosedEmpty'
    BY <1>1, RxInitialReceives, RxHandshakeReceives DEF Rx
  <2> QED BY <2>1 DEF Sender!Next
<1>2. CASE Timeout
  BY <1>2, TimeoutStutters DEF Timeout
<1>3. CASE Tx
  <2>1. Sender!Send /\ ClosedEmpty'
    BY <1>3, GenerateSends DEF Tx
  <2> QED BY <2>1 DEF Sender!Next
<1>4. CASE UNCHANGED vars
  BY <1>4 DEF vars, Sender!svars, ClosedEmpty
<1> QED BY <1>1, <1>2, <1>3, <1>4 DEF Next

\* The packetiser, with the window, the ACK manager, the dispatcher and the
\* CRYPTO streams, implements the abstract sender: no byte of the handshake is
\* lost or sent while it is already on its way, and what is sent before the
\* address is validated stays within three times what was credited.
THEOREM Refinement == Spec => ImplementsSender
<1>1. Init => Sender!Init /\ ClosedEmpty
  BY InitMaps
<1>2. IInv /\ IInv' /\ ClosedEmpty /\ [Next]_vars
        => [Sender!Next]_Sender!svars /\ ClosedEmpty'
  BY NextMaps
<1> QED BY <1>1, <1>2, Invariance, PTL DEF Spec, ImplementsSender, Sender!Spec
=============================================================================
