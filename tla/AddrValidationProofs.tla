------------------------ MODULE AddrValidationProofs ------------------------
(***************************************************************************)
(* Proofs about AddrValidation, for every number of clients, addresses and *)
(* packets of a ClientHello, every mode of the listener, and any number of *)
(* lost, repeated and late datagrams.                                      *)
(***************************************************************************)
EXTENDS AddrValidation, FiniteSetTheorems, SequenceTheorems, TLAPS

(* The types of the records, of the datagrams too.                         *)

Packets == [pn : Nat, chunk : 0..NChunks]

Clients ==
    [st : {"idle", "active", "connected", "failed"}, initDcid : Nat,
     dcid : Nat, key : Nat, token : Tokens \cup {None}, retry : BOOLEAN,
     retryScid : Nat, enc : BOOLEAN, initScid : Nat, nextPn : Nat,
     flight : SUBSET Packets, ptos : Nat]

Channels ==
    [conn : Conns, peer : Addrs, initDcid : Nat, odcid : Nat, localCid : Nat,
     remoteCid : Conns \cup Nat \cup {None}, validated : BOOLEAN,
     newToken : Tokens \cup {None}, enc : BOOLEAN, got : SUBSET Chunks,
     rxPns : SUBSET Nat, complete : BOOLEAN]

Initials ==
    [type : {"INITIAL"}, from : Addrs, scid : Conns, dcid : Nat,
     token : Tokens \cup {None}, key : Nat, pn : Nat, chunk : 0..NChunks]
Retries ==
    [type : {"RETRY"}, dcid : Conns, scid : Nat, token : Tokens, odcid : Nat]
Params == [origDcid : Nat, initScid : Nat, retryScid : Nat]
Replies ==
    [type : {"SERVER"}, dcid : Conns, scid : Nat, key : Nat, acks : SUBSET Nat,
     tp : Params \cup {None}]
Finisheds == [type : {"FINISHED"}, scid : Conns, dcid : Nat]
NewTokens == [type : {"NEW_TOKEN"}, dcid : Conns, token : Tokens]

Types ==
    /\ clock \in Nat /\ port \in Modes /\ addr \in [Conns -> Addrs]
    /\ cl \in [Conns -> Clients]
    /\ cache \in Tokens \cup {None}
    /\ chans \in Seq(Channels)
    /\ \A x \in DOMAIN lcids : x \in Nat /\ lcids[x] \in 1..Len(chans)
    /\ nextCid \in Nat \ {0}
    /\ net \subseteq Initials \cup Retries \cup Replies \cup Finisheds \cup NewTokens
    /\ count \in [retries : Nat, lost : Nat, rebinds : Nat]

(* The inductive invariant.                                                *)

\* Where a client stands: its secrets are those of the Retry it followed, or
\* of its first destination ID; the token it followed names both IDs; any
\* other token is one a NEW_TOKEN frame brought, which the server cannot
\* decrypt; packet number 0 is in flight while a Retry or an acknowledgement
\* may still come.
ClientStands(r) ==
    /\ r.st # "failed"
    /\ r.st = "idle" => ~r.retry /\ ~r.enc /\ r.nextPn = 0
    /\ r.st # "idle" => r.initDcid # NoCid
    /\ r.key = IF r.retry THEN r.retryScid ELSE r.initDcid
    /\ r.retry => /\ port.validate
                  /\ r.token.retry
                  /\ r.token.odcid = r.initDcid
                  /\ r.token.rscid = r.retryScid
    /\ ~r.retry => r.token = None \/ r.token.tail
    /\ r.st = "active" /\ ~r.enc /\ ~r.retry => \E p \in r.flight : p.pn = 0

\* An Initial packet was sent before its client followed a Retry, or after.
InitialFrom(m, r) ==
    /\ r.st # "idle"
    /\ \/ m.key = r.initDcid /\ (m.token = None \/ m.token.tail)
       \/ r.retry /\ m.key = r.retryScid /\ m.token = r.token

\* A Retry carries a token for the client it is addressed to.
RetryFor(m) ==
    /\ port.validate
    /\ m.token.retry
    /\ m.token.odcid = m.odcid /\ m.token.rscid = m.scid

\* A reply was sent by a channel of the client it is addressed to.
ReplyOf(m, ch) ==
    /\ m.dcid = ch.conn /\ m.scid = ch.localCid /\ m.key = ch.initDcid
    /\ m.tp = None \/ m.tp = TransportParams(ch)

\* Where a datagram comes from.
MsgStands(m) ==
    /\ m.type = "INITIAL" => InitialFrom(m, cl[m.scid])
    /\ m.type = "RETRY" => RetryFor(m)
    /\ m.type = "SERVER" => \E i \in 1..Len(chans) : ReplyOf(m, chans[i])
    /\ m.type = "NEW_TOKEN" => m.token.tail

\* Where a channel stands: it has heard of its client, whose secrets it has;
\* a port that validates addresses has made it for a client that followed a
\* Retry and got the token of that Retry at the address the channel sends to.
ChannelStands(ch, r) ==
    /\ r.st # "idle" /\ ch.initDcid = r.key
    /\ ch.enc /\ ch.remoteCid = ch.conn
    /\ ch.initDcid \in DOMAIN lcids
    /\ port.validate => /\ r.retry /\ r.token # None /\ r.token.addr = ch.peer
                        /\ ch.odcid = r.initDcid
    /\ ~port.validate => ch.odcid = NoCid
    /\ ch.newToken = None \/ ch.newToken.tail
    /\ ch.validated /\ ~ch.complete => port.unlimited \/ port.validate

IInv ==
    /\ Types
    /\ \A c \in Conns : ClientStands(cl[c])
    /\ \A m \in net : MsgStands(m)
    /\ \A i \in 1..Len(chans) : ChannelStands(chans[i], cl[chans[i].conn])
    /\ OneChannelPerConn
    /\ cache = None \/ cache.tail

-----------------------------------------------------------------------------
(* What a client sends.                                                    *)

LEMMA Setting ==
    /\ NChunks \in Nat \ {0} /\ Chunks \subseteq 0..NChunks /\ PING \in 0..NChunks
    /\ NoCid \in Nat
BY ConnsAssumption DEF Chunks, PING, NoCid

\* Any set of chunks is finite, so its packets can be numbered.
LEMMA ChunksFinite ==
    ASSUME NEW S \in SUBSET (0..NChunks)
    PROVE  IsFiniteSet(S) /\ Cardinality(S) \in Nat
<1>1. IsFiniteSet(0..NChunks)
  BY FS_Interval, Setting
<1>2. IsFiniteSet(S)
  BY <1>1, FS_Subset
<1> QED BY <1>2, FS_CardinalityType

LEMMA PacketsOfType ==
    ASSUME NEW r, r.nextPn \in Nat, NEW S \in SUBSET (0..NChunks)
    PROVE  PacketsOf(r, S) \subseteq Packets
<1> SUFFICES ASSUME NEW x \in S
             PROVE  [pn |-> r.nextPn + Cardinality({y \in S : y < x}), chunk |-> x]
                      \in Packets
  BY DEF PacketsOf
<1>1. {y \in S : y < x} \in SUBSET (0..NChunks)
  OBVIOUS
<1>2. Cardinality({y \in S : y < x}) \in Nat
  BY <1>1, ChunksFinite
<1> QED BY <1>2 DEF Packets

\* Recording what is sent changes the next number and the flight only.
Recorded(r, S, q) ==
    /\ q \in Clients /\ r.flight \subseteq q.flight
    /\ PacketsOf(r, S) \subseteq q.flight
    /\ q.st = r.st /\ q.initDcid = r.initDcid /\ q.dcid = r.dcid /\ q.key = r.key
    /\ q.token = r.token /\ q.retry = r.retry /\ q.retryScid = r.retryScid
    /\ q.enc = r.enc /\ q.initScid = r.initScid

LEMMA RecordType ==
    ASSUME NEW r \in Clients, NEW S \in SUBSET (0..NChunks)
    PROVE  Recorded(r, S, Record(r, S))
<1> DEFINE n == r.nextPn + Cardinality(S)
           f == r.flight \cup PacketsOf(r, S)
           q == [r EXCEPT !.nextPn = n, !.flight = f]
<1>1. n \in Nat
  BY ChunksFinite DEF Clients
<1>2. f \in SUBSET Packets /\ r.flight \subseteq f /\ PacketsOf(r, S) \subseteq f
  BY PacketsOfType DEF Clients
<1>3. Record(r, S) = q
  BY DEF Record
<1> HIDE DEF n, f
<1>4. Recorded(r, S, q)
  BY <1>1, <1>2 DEF Clients, Recorded
<1> QED BY <1>3, <1>4

\* The datagrams carry the address, token and secrets of their client.
LEMMA InitialMsgsType ==
    ASSUME addr \in [Conns -> Addrs], NEW c \in Conns, NEW r \in Clients,
           NEW S \in SUBSET (0..NChunks), NEW m \in InitialMsgs(c, r, S)
    PROVE  /\ m \in Initials
           /\ m.scid = c /\ m.from = addr[c] /\ m.token = r.token /\ m.key = r.key
<1>1. PICK p \in PacketsOf(r, S) :
        m = [type |-> "INITIAL", from |-> addr[c], scid |-> c, dcid |-> r.dcid,
             token |-> r.token, key |-> r.key, pn |-> p.pn, chunk |-> p.chunk]
  BY DEF InitialMsgs
<1>2. p \in Packets
  BY PacketsOfType DEF Clients
<1>3. p.pn \in Nat /\ p.chunk \in 0..NChunks
  BY <1>2 DEF Packets
<1>4. /\ r.dcid \in Nat /\ r.key \in Nat /\ r.token \in Tokens \cup {None}
      /\ addr[c] \in Addrs
  BY DEF Clients
<1> QED BY <1>1, <1>3, <1>4 DEF Initials
-----------------------------------------------------------------------------
(* A step of one client.                                                   *)

Messages == Initials \cup Retries \cup Replies \cup Finisheds \cup NewTokens

\* What datagrams and channels know of a client is not changed by putting r
\* in place of q: its first destination ID, and the Retry it followed.
Keeps(q, r) ==
    /\ r.st # "idle"
    /\ q.st # "idle" => r.initDcid = q.initDcid
    /\ q.retry => r.retry /\ r.token = q.token /\ r.retryScid = q.retryScid

\* Nothing a channel relies on changes, or there is no channel.
ChannelsKeep(c, r) ==
    \/ /\ cl[c].st # "idle" /\ r.key = cl[c].key
       /\ r.retry = cl[c].retry /\ r.token = cl[c].token
    \/ \A i \in 1..Len(chans) : chans[i].conn # c

\* A client's step: r in place of its record, the datagrams N sent.
ClientStep(c, r, N) ==
    /\ cl' = [cl EXCEPT ![c] = r] /\ net' = net \cup N
    /\ nextCid' \in Nat \ {0}
    /\ UNCHANGED <<clock, port, addr, cache, chans, lcids, count>>
    /\ r \in Clients /\ Keeps(cl[c], r) /\ ClientStands(r)
    /\ ChannelsKeep(c, r)
    /\ N \subseteq Initials \cup Finisheds
    /\ \A m \in N : m.type = "INITIAL" => m.scid = c /\ InitialFrom(m, r)

\* The kinds of datagrams are told apart by their type.
LEMMA Kinds ==
    ASSUME NEW m \in Messages
    PROVE  /\ m.type = "INITIAL" => m \in Initials
           /\ m.type = "RETRY" => m \in Retries
           /\ m.type = "SERVER" => m \in Replies
           /\ m.type = "FINISHED" => m \in Finisheds
           /\ m.type = "NEW_TOKEN" => m \in NewTokens
<1>1. CASE m \in Initials
  BY <1>1 DEF Initials
<1>2. CASE m \in Retries
  BY <1>2 DEF Retries
<1>3. CASE m \in Replies
  BY <1>3 DEF Replies
<1>4. CASE m \in Finisheds
  BY <1>4 DEF Finisheds
<1>5. CASE m \in NewTokens
  BY <1>5 DEF NewTokens
<1> QED BY <1>1, <1>2, <1>3, <1>4, <1>5 DEF Messages

\* A datagram under way still comes from its client.
LEMMA InitialKept ==
    ASSUME NEW m, NEW q, NEW r, InitialFrom(m, q), Keeps(q, r)
    PROVE  InitialFrom(m, r)'
BY DEF InitialFrom, Keeps

LEMMA ClientKeeps ==
    ASSUME IInv, NEW c \in Conns, NEW r, NEW N, ClientStep(c, r, N)
    PROVE  IInv'
<1>1. /\ Types /\ \A d \in Conns : ClientStands(cl[d])
      /\ \A m \in net : MsgStands(m)
      /\ \A i \in 1..Len(chans) : ChannelStands(chans[i], cl[chans[i].conn])
      /\ OneChannelPerConn /\ (cache = None \/ cache.tail)
  BY DEF IInv
<1>2. /\ cl' = [cl EXCEPT ![c] = r] /\ net' = net \cup N
      /\ nextCid' \in Nat \ {0}
      /\ UNCHANGED <<clock, port, addr, cache, chans, lcids, count>>
      /\ r \in Clients /\ Keeps(cl[c], r) /\ ClientStands(r)
      /\ ChannelsKeep(c, r)
      /\ N \subseteq Initials \cup Finisheds
      /\ \A m \in N : m.type = "INITIAL" => m.scid = c /\ InitialFrom(m, r)
  BY DEF ClientStep
<1>3. /\ cl \in [Conns -> Clients] /\ cl' \in [Conns -> Clients] /\ cl'[c] = r
      /\ \A d \in Conns \ {c} : cl'[d] = cl[d]
  BY <1>1, <1>2 DEF Types
<1>4. Types'
  <2>1. net' \subseteq Initials \cup Retries \cup Replies \cup Finisheds \cup NewTokens
    BY <1>1, <1>2 DEF Types
  <2>2. clock' \in Nat /\ port' \in Modes /\ addr' \in [Conns -> Addrs]
    BY <1>1, <1>2 DEF Types
  <2>3. /\ cache' \in Tokens \cup {None}
        /\ chans' \in Seq(Channels)
        /\ \A x \in DOMAIN lcids' : x \in Nat /\ lcids'[x] \in 1..Len(chans')
        /\ count' \in [retries : Nat, lost : Nat, rebinds : Nat]
    BY <1>1, <1>2 DEF Types
  <2> QED BY <1>2, <1>3, <2>1, <2>2, <2>3 DEF Types
<1>5. \A d \in Conns : ClientStands(cl[d])'
  BY <1>1, <1>2, <1>3 DEF ClientStands
<1>6. ASSUME NEW m \in net' PROVE MsgStands(m)'
  <2>1. m \in Messages
    BY <1>4 DEF Types, Messages
  <2>2. CASE m \in N
    <3>1. m.type # "RETRY" /\ m.type # "SERVER" /\ m.type # "NEW_TOKEN"
      BY <1>2, <2>2 DEF Initials, Finisheds
    <3>2. m.type = "INITIAL" => InitialFrom(m, cl[m.scid])'
      BY <1>2, <1>3, <2>2 DEF InitialFrom
    <3> QED BY <3>1, <3>2 DEF MsgStands
  <2>3. CASE m \in net
    <3>1. MsgStands(m)
      BY <1>1, <2>3
    <3>2. m.type = "INITIAL" => InitialFrom(m, cl[m.scid])'
      <4> SUFFICES ASSUME m.type = "INITIAL" PROVE InitialFrom(m, cl[m.scid])'
        OBVIOUS
      <4>1. m.scid \in Conns
        BY <2>1, Kinds DEF Initials
      <4>2. InitialFrom(m, cl[m.scid])
        BY <3>1 DEF MsgStands
      <4>3. CASE m.scid = c
        <5>1. InitialFrom(m, r)'
          BY <1>2, <4>2, <4>3, InitialKept
        <5> QED BY <1>3, <4>3, <5>1
      <4>4. CASE m.scid # c
        BY <1>2, <1>3, <4>1, <4>2, <4>4 DEF InitialFrom
      <4> QED BY <4>3, <4>4
    <3>3. m.type = "RETRY" => RetryFor(m)'
      BY <1>2, <3>1 DEF MsgStands, RetryFor
    <3>4. m.type = "SERVER" => \E i \in 1..Len(chans') : ReplyOf(m, chans'[i])
      BY <1>2, <3>1 DEF MsgStands
    <3>5. m.type = "NEW_TOKEN" => m.token.tail
      BY <3>1 DEF MsgStands
    <3> QED BY <3>2, <3>3, <3>4, <3>5 DEF MsgStands
  <2> QED BY <1>2, <2>2, <2>3
<1>7. ASSUME NEW i \in 1..Len(chans') PROVE ChannelStands(chans[i], cl[chans[i].conn])'
  <2> DEFINE ch == chans[i]
  <2>1. i \in 1..Len(chans) /\ chans' = chans /\ ChannelStands(ch, cl[ch.conn])
    BY <1>1, <1>2
  <2>2. ch.conn \in Conns
    <3>1. chans \in Seq(Channels)
      BY <1>1 DEF Types
    <3>2. ch \in Channels
      BY <2>1, <3>1, ElementOfSeq
    <3> HIDE DEF ch
    <3> QED BY <3>2 DEF Channels
  <2> HIDE DEF ch
  <2>3. ChannelStands(ch, cl'[ch.conn])
    <3>1. CASE ch.conn # c
      BY <1>3, <2>1, <2>2, <3>1
    <3>2. CASE ch.conn = c
      <4>1. /\ cl[c].st # "idle" /\ r.key = cl[c].key
            /\ r.retry = cl[c].retry /\ r.token = cl[c].token
        BY <1>2, <2>1, <3>2 DEF ChannelsKeep, ch
      <4>2. r.st # "idle" /\ r.initDcid = cl[c].initDcid
        BY <1>2, <4>1 DEF Keeps
      <4> QED BY <1>3, <2>1, <3>2, <4>1, <4>2 DEF ChannelStands
    <3> QED BY <3>1, <3>2
  <2> QED BY <1>2, <2>1, <2>3 DEF ChannelStands, ch
<1>8. OneChannelPerConn' /\ (cache' = None \/ cache'.tail)
  BY <1>1, <1>2 DEF OneChannelPerConn
<1> QED BY <1>4, <1>5, <1>6, <1>7, <1>8 DEF IInv
-----------------------------------------------------------------------------
(* The actions of the clients.                                             *)

\* Datagrams of c sent with the token and secrets of its record.
LEMMA InitialMsgsFrom ==
    ASSUME addr \in [Conns -> Addrs], NEW c \in Conns, NEW r \in Clients,
           NEW S \in SUBSET (0..NChunks), NEW q, r.st # "idle",
           ClientStands(q), q.st = r.st, q.key = r.key, q.token = r.token,
           q.initDcid = r.initDcid, q.retry = r.retry, q.retryScid = r.retryScid
    PROVE  /\ InitialMsgs(c, r, S) \subseteq Initials
           /\ \A m \in InitialMsgs(c, r, S) : m.scid = c /\ InitialFrom(m, q)
<1> SUFFICES ASSUME NEW m \in InitialMsgs(c, r, S)
             PROVE  m \in Initials /\ m.scid = c /\ InitialFrom(m, q)
  OBVIOUS
<1>1. /\ m \in Initials
      /\ m.scid = c /\ m.from = addr[c] /\ m.token = r.token /\ m.key = r.key
  BY InitialMsgsType
<1>2. InitialFrom(m, q)
  BY <1>1 DEF InitialFrom, ClientStands
<1> QED BY <1>1, <1>2

\* Recording what is sent leaves a client where it stands.
LEMMA RecordedStands ==
    ASSUME NEW c, NEW r, NEW S, NEW q, Recorded(r, S, q), ClientStands(r),
           r.st # "idle"
    PROVE  ClientStands(q)
BY DEF Recorded, ClientStands

\* The packet with the lowest chunk has packet number 0 at the start.
LEMMA FirstNumber ==
    ASSUME NEW r, r.nextPn = 0
    PROVE  \E p \in PacketsOf(r, Chunks) : p.pn = 0
<1> DEFINE p == [pn |-> r.nextPn + Cardinality({y \in Chunks : y < 1}), chunk |-> 1]
<1>1. {y \in Chunks : y < 1} = {}
  BY DEF Chunks
<1>2. Cardinality({y \in Chunks : y < 1}) = 0
  BY <1>1, FS_EmptySet
<1>3. 1 \in Chunks
  BY Setting DEF Chunks
<1>4. p \in PacketsOf(r, Chunks)
  BY <1>3 DEF PacketsOf
<1>5. p.pn = 0
  BY <1>2
<1> QED BY <1>4, <1>5

LEMMA StartKeeps ==
    ASSUME IInv, NEW c \in Conns, Start(c)
    PROVE  IInv'
<1> DEFINE r == [cl[c] EXCEPT !.st = "active", !.token = cache,
                   !.initDcid = nextCid, !.dcid = nextCid, !.key = nextCid]
           q == Record(r, Chunks)
           N == InitialMsgs(c, r, Chunks)
<1>1. /\ cl[c].st = "idle"
      /\ cl' = [cl EXCEPT ![c] = q] /\ net' = net \cup N /\ nextCid' = nextCid + 1
      /\ UNCHANGED <<clock, port, addr, cache, chans, lcids, count>>
  BY DEF Start
<1>2. /\ cl[c] \in Clients /\ cache \in Tokens \cup {None} /\ nextCid \in Nat \ {0}
      /\ addr \in [Conns -> Addrs] /\ ClientStands(cl[c])
      /\ (cache = None \/ cache.tail)
  BY DEF IInv, Types
<1>3. /\ r \in Clients /\ r.st = "active" /\ r.token = cache
      /\ r.initDcid = nextCid /\ r.key = nextCid
      /\ r.retry = cl[c].retry /\ r.enc = cl[c].enc /\ r.nextPn = cl[c].nextPn
  BY <1>2 DEF Clients
<1>4. ~cl[c].retry /\ ~cl[c].enc /\ cl[c].nextPn = 0
  BY <1>1, <1>2 DEF ClientStands
<1> HIDE DEF r
<1>5. Recorded(r, Chunks, q)
  BY <1>3, RecordType, Setting
<1>6. \E p \in PacketsOf(r, Chunks) : p.pn = 0
  BY <1>3, <1>4, FirstNumber
<1> HIDE DEF q
<1>7. \E p \in q.flight : p.pn = 0
  BY <1>5, <1>6 DEF Recorded
<1>8. /\ q.st = "active" /\ q.initDcid = nextCid /\ q.key = nextCid
      /\ q.token = cache /\ ~q.retry /\ q \in Clients /\ q.retry = r.retry
      /\ q.retryScid = r.retryScid
  BY <1>3, <1>4, <1>5 DEF Recorded
<1>9. ClientStands(q)
  BY <1>2, <1>7, <1>8 DEF ClientStands, NoCid
<1>10. /\ N \subseteq Initials
       /\ \A m \in N : m.scid = c /\ InitialFrom(m, q)
  BY <1>2, <1>3, <1>8, <1>9, Setting, InitialMsgsFrom
<1>11. Keeps(cl[c], q)
  BY <1>1, <1>4, <1>8 DEF Keeps
<1>12. ChannelsKeep(c, q)
  <2>1. ASSUME NEW i \in 1..Len(chans) PROVE chans[i].conn # c
    BY <1>1 DEF IInv, ChannelStands
  <2> QED BY <2>1 DEF ChannelsKeep
<1> HIDE DEF N
<1>13. ClientStep(c, q, N)
  BY <1>1, <1>2, <1>8, <1>9, <1>10, <1>11, <1>12 DEF ClientStep
<1> QED BY <1>13, ClientKeeps

LEMMA PtoKeeps ==
    ASSUME IInv, NEW c \in Conns, Pto(c)
    PROVE  IInv'
<1> DEFINE r == [cl[c] EXCEPT !.ptos = cl[c].ptos + 1]
           q == Record(r, {PING})
           N == InitialMsgs(c, r, {PING})
<1>1. /\ cl[c].st = "active"
      /\ cl' = [cl EXCEPT ![c] = q] /\ net' = net \cup N
      /\ UNCHANGED <<clock, port, addr, cache, chans, lcids, nextCid, count>>
  BY DEF Pto
<1>2. /\ cl[c] \in Clients /\ nextCid \in Nat \ {0} /\ addr \in [Conns -> Addrs]
      /\ ClientStands(cl[c])
  BY DEF IInv, Types
<1>3. /\ r \in Clients /\ r.st = cl[c].st /\ r.token = cl[c].token
      /\ r.initDcid = cl[c].initDcid /\ r.key = cl[c].key /\ r.retry = cl[c].retry
      /\ r.enc = cl[c].enc /\ r.nextPn = cl[c].nextPn /\ r.flight = cl[c].flight
      /\ r.retryScid = cl[c].retryScid
  BY <1>2 DEF Clients
<1> HIDE DEF r
<1>4. ClientStands(r)
  BY <1>2, <1>3 DEF ClientStands
<1>5. {PING} \in SUBSET (0..NChunks)
  BY Setting
<1>6. Recorded(r, {PING}, q)
  BY <1>3, <1>5, RecordType
<1> HIDE DEF q
<1>7. ClientStands(q)
  BY <1>1, <1>3, <1>4, <1>6, RecordedStands
<1>8. /\ q.st = r.st /\ q.initDcid = r.initDcid /\ q.key = r.key
      /\ q.token = r.token /\ q.retry = r.retry /\ q.retryScid = r.retryScid
      /\ q \in Clients
  BY <1>6 DEF Recorded
<1>9. /\ N \subseteq Initials
      /\ \A m \in N : m.scid = c /\ InitialFrom(m, q)
  BY <1>1, <1>2, <1>3, <1>5, <1>7, <1>8, InitialMsgsFrom
<1>10. Keeps(cl[c], q) /\ ChannelsKeep(c, q)
  BY <1>1, <1>3, <1>8 DEF Keeps, ChannelsKeep
<1> HIDE DEF N
<1>11. ClientStep(c, q, N)
  BY <1>1, <1>2, <1>7, <1>8, <1>9, <1>10 DEF ClientStep
<1> QED BY <1>11, ClientKeeps

\* A channel of a client of a validating port exists only once it followed a
\* Retry, so a Retry that can be followed finds none.
LEMMA RxRetryKeeps ==
    ASSUME IInv, NEW c \in Conns, NEW m \in net, RxRetry(c, m)
    PROVE  IInv'
<1> DEFINE first == {p \in cl[c].flight : p.pn = 0}
           again == {p.chunk : p \in first}
           t     == [m.token EXCEPT !.tail = FALSE]
           f     == cl[c].flight \ first
           r     == [cl[c] EXCEPT !.dcid = m.scid, !.token = t, !.retryScid = m.scid,
                       !.retry = TRUE, !.key = m.scid, !.flight = f]
           q     == Record(r, again)
           N     == InitialMsgs(c, r, again)
<1>1. /\ m.type = "RETRY" /\ m.dcid = c /\ cl[c].st = "active"
      /\ ~cl[c].retry /\ ~cl[c].enc /\ m.odcid = cl[c].initDcid
  BY DEF RxRetry, AcceptRetry
<1>2. /\ cl[c] \in Clients /\ nextCid \in Nat \ {0} /\ addr \in [Conns -> Addrs]
      /\ ClientStands(cl[c]) /\ m \in Messages /\ MsgStands(m)
  BY DEF IInv, Types, Messages
<1>3. first # {}
  BY <1>1, <1>2 DEF ClientStands
<1>4. [Retried(cl[c], m) EXCEPT !.flight = Retried(cl[c], m).flight \ first] = r
  <2>1. Retried(cl[c], m) =
          [cl[c] EXCEPT !.dcid = m.scid, !.token = t, !.retryScid = m.scid,
             !.retry = TRUE, !.key = m.scid]
    BY DEF Retried
  <2>2. Retried(cl[c], m).flight = cl[c].flight
    BY <1>2, <2>1 DEF Clients
  <2> HIDE DEF t, first
  <2> QED BY <1>2, <2>1, <2>2 DEF Clients
<1>5. /\ cl' = [cl EXCEPT ![c] = q] /\ net' = net \cup N
      /\ UNCHANGED <<clock, port, addr, cache, chans, lcids, nextCid, count>>
  BY <1>3, <1>4 DEF RxRetry
<1>6. /\ m.scid \in Nat /\ m.token \in Tokens /\ RetryFor(m)
  BY <1>1, <1>2, Kinds DEF Retries, MsgStands
<1>7. /\ t \in Tokens /\ t.retry = m.token.retry /\ t.addr = m.token.addr
      /\ t.odcid = m.token.odcid /\ t.rscid = m.token.rscid
  BY <1>6 DEF Tokens
<1>8. f \in SUBSET Packets /\ again \in SUBSET (0..NChunks)
  BY <1>2 DEF Clients, Packets
<1> HIDE DEF t, f, again
<1>9. /\ r \in Clients /\ r.st = cl[c].st /\ r.token = t /\ r.initDcid = cl[c].initDcid
      /\ r.key = m.scid /\ r.retry = TRUE /\ r.retryScid = m.scid
  BY <1>2, <1>6, <1>7, <1>8 DEF Clients
<1> HIDE DEF r
<1>10. ClientStands(r)
  BY <1>1, <1>2, <1>6, <1>7, <1>9 DEF ClientStands, RetryFor
<1>11. Recorded(r, again, q)
  BY <1>8, <1>9, RecordType
<1> HIDE DEF q
<1>12. ClientStands(q)
  BY <1>1, <1>9, <1>10, <1>11, RecordedStands
<1>13. /\ q.st = r.st /\ q.initDcid = r.initDcid /\ q.key = r.key
       /\ q.token = r.token /\ q.retry = r.retry /\ q.retryScid = r.retryScid
       /\ q \in Clients
  BY <1>11 DEF Recorded
<1>14. /\ N \subseteq Initials
       /\ \A x \in N : x.scid = c /\ InitialFrom(x, q)
  BY <1>1, <1>2, <1>8, <1>9, <1>12, <1>13, InitialMsgsFrom
<1>15. Keeps(cl[c], q)
  BY <1>1, <1>9, <1>13 DEF Keeps
<1>16. ChannelsKeep(c, q)
  <2>1. ASSUME NEW i \in 1..Len(chans) PROVE chans[i].conn # c
    BY <1>1, <1>6 DEF IInv, ChannelStands, RetryFor
  <2> QED BY <2>1 DEF ChannelsKeep
<1> HIDE DEF N
<1>17. ClientStep(c, q, N)
  BY <1>2, <1>5, <1>12, <1>13, <1>14, <1>15, <1>16 DEF ClientStep
<1> QED BY <1>17, ClientKeeps

\* The IDs in a channel's transport parameters are the ones its client saw:
\* its first destination ID, the channel's own, and that of the Retry.
LEMMA ParamsRight ==
    ASSUME NEW c, NEW q, ClientStands(q), q.st # "idle", NEW ch,
           ch.conn = c, ChannelStands(ch, q), NEW r, r.initDcid = q.initDcid,
           r.retry = q.retry, r.retryScid = q.retryScid, r.initScid = ch.localCid
    PROVE  TransportParamsOk(r, TransportParams(ch))
<1>1. CASE port.validate
  <2>1. /\ q.retry /\ ch.odcid = q.initDcid /\ q.initDcid # NoCid
        /\ ch.initDcid = q.retryScid
    BY <1>1 DEF ClientStands, ChannelStands
  <2> QED BY <2>1 DEF TransportParamsOk, TransportParams
<1>2. CASE ~port.validate
  <2>1. ~q.retry /\ ch.odcid = NoCid /\ ch.initDcid = q.initDcid
    BY <1>2 DEF ClientStands, ChannelStands
  <2> QED BY <2>1 DEF TransportParamsOk, TransportParams
<1> QED BY <1>1, <1>2

\* r is client q after it heard of the server, with the flight f.
Heard(q, m, f, r) ==
    /\ r \in Clients /\ r.enc = TRUE /\ r.initScid = m.scid /\ r.flight = f
    /\ r.st = q.st /\ r.initDcid = q.initDcid /\ r.key = q.key
    /\ r.token = q.token /\ r.retry = q.retry /\ r.retryScid = q.retryScid

LEMMA FirstPacketType ==
    ASSUME NEW q \in Clients, NEW m \in Replies, q.enc => m.scid = q.initScid,
           NEW f \in SUBSET Packets
    PROVE  Heard(q, m, f, [FirstPacket(q, m) EXCEPT !.flight = f])
<1> DEFINE r == [FirstPacket(q, m) EXCEPT !.flight = f]
<1>1. m.scid \in Nat
  BY DEF Replies
<1>2. CASE q.enc
  BY <1>2 DEF FirstPacket, Clients, Heard
<1>3. CASE ~q.enc
  <2>1. r = [q EXCEPT !.enc = TRUE, !.dcid = m.scid, !.initScid = m.scid,
                      !.flight = f]
    BY <1>3 DEF FirstPacket
  <2> HIDE DEF r
  <2>2. Heard(q, m, f, r)
    BY <1>1, <2>1 DEF Clients, Heard
  <2> QED BY <2>2 DEF r
<1> QED BY <1>2, <1>3

\* The client's check of the transport parameters does not fail.
LEMMA RxServerKeeps ==
    ASSUME IInv, NEW c \in Conns, NEW m \in net, NEW k, RxServer(c, m, k)
    PROVE  IInv'
<1> DEFINE lost  == LostBy(cl[c], m.acks, k)
           again == {p.chunk : p \in lost} \ {PING}
           f     == {p \in FirstPacket(cl[c], m).flight : p.pn \notin m.acks} \ lost
           r     == [FirstPacket(cl[c], m) EXCEPT !.flight = f]
<1>1. /\ m.type = "SERVER" /\ m.dcid = c /\ cl[c].st = "active"
      /\ cl[c].enc => m.scid = cl[c].initScid
      /\ UNCHANGED <<clock, port, addr, cache, chans, lcids, nextCid, count>>
  BY DEF RxServer
<1>2. /\ cl[c] \in Clients /\ nextCid \in Nat \ {0} /\ addr \in [Conns -> Addrs]
      /\ ClientStands(cl[c]) /\ m \in Messages /\ MsgStands(m)
  BY DEF IInv, Types, Messages
<1>3. m \in Replies
  BY <1>1, <1>2, Kinds
<1>4. PICK i \in 1..Len(chans) : ReplyOf(m, chans[i])
  BY <1>1, <1>2 DEF MsgStands
<1>5. lost \subseteq cl[c].flight
  BY DEF LostBy
<1>6. again \in SUBSET (0..NChunks)
  <2> HIDE DEF lost
  <2> QED BY <1>2, <1>5 DEF Clients, Packets
<1>7. f \in SUBSET Packets
  <2>1. FirstPacket(cl[c], m).flight = cl[c].flight
    BY <1>2 DEF FirstPacket, Clients
  <2> QED BY <1>2, <2>1 DEF Clients
<1>8. /\ IF m.tp = None
         THEN /\ cl' = [cl EXCEPT ![c] = Record(r, again)]
              /\ net' = net \cup InitialMsgs(c, r, again)
         ELSE IF TransportParamsOk(r, m.tp)
         THEN /\ cl' = [cl EXCEPT ![c] = [r EXCEPT !.st = "connected", !.flight = {}]]
              /\ net' = net \cup {[type |-> "FINISHED", scid |-> c, dcid |-> r.dcid]}
         ELSE /\ cl' = [cl EXCEPT ![c] = [r EXCEPT !.st = "failed", !.flight = {}]]
              /\ UNCHANGED net
  BY DEF RxServer
<1> HIDE DEF again, f, lost
<1>r. Heard(cl[c], m, f, r)
  BY <1>1, <1>2, <1>3, <1>7, FirstPacketType
<1> HIDE DEF r
<1>9. /\ r \in Clients /\ r.enc = TRUE /\ r.initScid = m.scid /\ r.flight = f
      /\ r.st = cl[c].st /\ r.initDcid = cl[c].initDcid /\ r.key = cl[c].key
      /\ r.token = cl[c].token /\ r.retry = cl[c].retry
      /\ r.retryScid = cl[c].retryScid
  BY <1>r DEF Heard
<1>10. ClientStands(r)
  BY <1>1, <1>2, <1>9 DEF ClientStands
<1>11. m.tp # None => TransportParamsOk(r, m.tp)
  <2>1. /\ chans[i].conn = c /\ m.scid = chans[i].localCid
        /\ m.tp # None => m.tp = TransportParams(chans[i])
    BY <1>1, <1>4 DEF ReplyOf
  <2>2. ChannelStands(chans[i], cl[c])
    BY <2>1 DEF IInv
  <2>3. TransportParamsOk(r, TransportParams(chans[i]))
    BY <1>1, <1>2, <1>9, <2>1, <2>2, ParamsRight
  <2> QED BY <2>1, <2>3
<1>12. CASE m.tp = None
  <2> DEFINE q == Record(r, again)
             N == InitialMsgs(c, r, again)
  <2>1. cl' = [cl EXCEPT ![c] = q] /\ net' = net \cup N
    BY <1>8, <1>12
  <2>2. Recorded(r, again, q)
    BY <1>6, <1>9, RecordType
  <2> HIDE DEF q
  <2>3. ClientStands(q)
    BY <1>1, <1>9, <1>10, <2>2, RecordedStands
  <2>4. /\ q.st = r.st /\ q.initDcid = r.initDcid /\ q.key = r.key
        /\ q.token = r.token /\ q.retry = r.retry /\ q.retryScid = r.retryScid
        /\ q \in Clients
    BY <2>2 DEF Recorded
  <2>5. /\ N \subseteq Initials
        /\ \A x \in N : x.scid = c /\ InitialFrom(x, q)
    BY <1>1, <1>2, <1>6, <1>9, <2>3, <2>4, InitialMsgsFrom
  <2>6. Keeps(cl[c], q) /\ ChannelsKeep(c, q)
    BY <1>1, <1>9, <2>4 DEF Keeps, ChannelsKeep
  <2> HIDE DEF N
  <2>7. ClientStep(c, q, N)
    BY <1>1, <1>2, <2>1, <2>3, <2>4, <2>5, <2>6 DEF ClientStep
  <2> QED BY <2>7, ClientKeeps
<1>13. CASE m.tp # None
  <2> DEFINE q == [r EXCEPT !.st = "connected", !.flight = {}]
             x == [type |-> "FINISHED", scid |-> c, dcid |-> r.dcid]
             N == {x}
  <2>1. cl' = [cl EXCEPT ![c] = q] /\ net' = net \cup N
    BY <1>8, <1>11, <1>13
  <2>2. /\ q \in Clients /\ q.st = "connected" /\ q.initDcid = r.initDcid
        /\ q.key = r.key /\ q.token = r.token /\ q.retry = r.retry
        /\ q.retryScid = r.retryScid
    BY <1>9 DEF Clients
  <2>3. x \in Finisheds /\ x.type # "INITIAL"
    BY <1>9 DEF Finisheds, Clients
  <2> HIDE DEF q, x
  <2>4. ClientStands(q)
    BY <1>1, <1>9, <1>10, <2>2 DEF ClientStands
  <2>5. Keeps(cl[c], q) /\ ChannelsKeep(c, q)
    BY <1>1, <1>9, <2>2 DEF Keeps, ChannelsKeep
  <2>6. ClientStep(c, q, N)
    BY <1>1, <1>2, <2>1, <2>2, <2>3, <2>4, <2>5 DEF ClientStep
  <2> QED BY <2>6, ClientKeeps
<1> QED BY <1>12, <1>13
-----------------------------------------------------------------------------
(* A step of the port, of a channel or of the network.                     *)

\* What replies and clients know of a channel never changes.
SameIds(a, b) ==
    /\ a.conn = b.conn /\ a.localCid = b.localCid
    /\ a.initDcid = b.initDcid /\ a.odcid = b.odcid

\* A step that leaves the clients alone and sends the datagrams N.
ServerStep(N) ==
    /\ UNCHANGED <<port, cl>> /\ addr' \in [Conns -> Addrs]
    /\ clock' \in Nat /\ nextCid' \in Nat \ {0} /\ count' \in [retries : Nat, lost : Nat, rebinds : Nat]
    /\ cache' \in Tokens \cup {None} /\ (cache' = None \/ cache'.tail)
    /\ net' \subseteq net \cup N /\ N \subseteq Retries \cup Replies \cup NewTokens
    /\ \A m \in N : MsgStands(m)'
    /\ chans' \in Seq(Channels) /\ Len(chans) <= Len(chans')
    /\ \A i \in 1..Len(chans) : SameIds(chans[i], chans'[i])
    /\ \A x \in DOMAIN lcids' : x \in Nat /\ lcids'[x] \in 1..Len(chans')
    /\ \A i \in 1..Len(chans') : ChannelStands(chans[i], cl[chans[i].conn])'
    /\ OneChannelPerConn'

LEMMA ReplyKept ==
    ASSUME NEW m, NEW a, NEW b, ReplyOf(m, a), SameIds(a, b)
    PROVE  ReplyOf(m, b)
BY DEF ReplyOf, SameIds, TransportParams

LEMMA ServerKeeps ==
    ASSUME IInv, NEW N, ServerStep(N)
    PROVE  IInv'
<1>1. /\ Types /\ \A d \in Conns : ClientStands(cl[d])
      /\ \A m \in net : MsgStands(m)
  BY DEF IInv
<1>2. /\ UNCHANGED <<port, cl>> /\ addr' \in [Conns -> Addrs]
      /\ net' \subseteq net \cup N /\ N \subseteq Retries \cup Replies \cup NewTokens
      /\ \A m \in N : MsgStands(m)'
      /\ chans \in Seq(Channels) /\ chans' \in Seq(Channels)
      /\ Len(chans) <= Len(chans')
      /\ \A i \in 1..Len(chans) : SameIds(chans[i], chans'[i])
  BY <1>1 DEF ServerStep, Types
<1>3. Types'
  <2>1. net' \subseteq Initials \cup Retries \cup Replies \cup Finisheds \cup NewTokens
    BY <1>1, <1>2 DEF Types
  <2>2. port' \in Modes /\ addr' \in [Conns -> Addrs] /\ cl' \in [Conns -> Clients]
    BY <1>1, <1>2 DEF Types
  <2> QED BY <2>1, <2>2 DEF Types, ServerStep
<1>4. \A d \in Conns : ClientStands(cl[d])'
  BY <1>1, <1>2 DEF ClientStands
<1>5. ASSUME NEW m \in net' PROVE MsgStands(m)'
  <2>1. CASE m \in N
    BY <1>2, <2>1
  <2>2. CASE m \in net
    <3>1. MsgStands(m)
      BY <1>1, <2>2
    <3>2. m.type = "INITIAL" => InitialFrom(m, cl[m.scid])'
      BY <1>2, <3>1 DEF MsgStands, InitialFrom
    <3>3. m.type = "RETRY" => RetryFor(m)'
      BY <1>2, <3>1 DEF MsgStands, RetryFor
    <3>4. m.type = "SERVER" => \E i \in 1..Len(chans') : ReplyOf(m, chans'[i])
      <4> SUFFICES ASSUME m.type = "SERVER"
                   PROVE  \E i \in 1..Len(chans') : ReplyOf(m, chans'[i])
        OBVIOUS
      <4>1. PICK i \in 1..Len(chans) : ReplyOf(m, chans[i])
        BY <3>1 DEF MsgStands
      <4>2. ReplyOf(m, chans'[i])
        BY <1>2, <4>1, ReplyKept
      <4>3. i \in 1..Len(chans')
        BY <1>2, LenProperties
      <4> QED BY <4>2, <4>3
    <3>5. m.type = "NEW_TOKEN" => m.token.tail
      BY <3>1 DEF MsgStands
    <3>6. m.type = "SERVER" => (\E i \in 1..Len(chans) : ReplyOf(m, chans[i]))'
      BY <3>4 DEF ReplyOf, TransportParams
    <3> QED BY <3>2, <3>3, <3>5, <3>6 DEF MsgStands
  <2> QED BY <1>2, <2>1, <2>2
<1>6. /\ \A i \in 1..Len(chans') : ChannelStands(chans[i], cl[chans[i].conn])'
      /\ OneChannelPerConn' /\ (cache' = None \/ cache'.tail)
  BY DEF ServerStep
<1> QED BY <1>3, <1>4, <1>5, <1>6 DEF IInv

\* The channels do not change either, and all that is sent is Retry packets.
QuietStep(N) ==
    /\ UNCHANGED <<port, cl, chans, lcids>> /\ addr' \in [Conns -> Addrs]
    /\ clock' \in Nat /\ nextCid' \in Nat \ {0} /\ count' \in [retries : Nat, lost : Nat, rebinds : Nat]
    /\ cache' \in Tokens \cup {None} /\ (cache' = None \/ cache'.tail)
    /\ net' \subseteq net \cup N /\ N \subseteq Retries
    /\ \A m \in N : RetryFor(m)

LEMMA QuietStepKeeps ==
    ASSUME IInv, NEW N, QuietStep(N)
    PROVE  IInv'
<1>1. /\ chans \in Seq(Channels) /\ chans' = chans /\ lcids' = lcids
      /\ cl' = cl /\ port' = port
      /\ \A x \in DOMAIN lcids : x \in Nat /\ lcids[x] \in 1..Len(chans)
      /\ \A i \in 1..Len(chans) : ChannelStands(chans[i], cl[chans[i].conn])
      /\ OneChannelPerConn
  BY DEF IInv, Types, QuietStep
<1>2. Len(chans) \in Nat
  BY <1>1, LenProperties
<1>3. \A m \in N : MsgStands(m)'
  BY <1>1 DEF MsgStands, Retries, RetryFor, QuietStep
<1>4. \A i \in 1..Len(chans) : SameIds(chans[i], chans'[i])
  BY <1>1 DEF SameIds
<1>5. \A i \in 1..Len(chans') : ChannelStands(chans[i], cl[chans[i].conn])'
  BY <1>1 DEF ChannelStands
<1>6. OneChannelPerConn'
  BY <1>1 DEF OneChannelPerConn
<1>7. /\ chans' \in Seq(Channels) /\ Len(chans) <= Len(chans')
      /\ \A x \in DOMAIN lcids' : x \in Nat /\ lcids'[x] \in 1..Len(chans')
  BY <1>1, <1>2
<1>8. ServerStep(N)
  BY <1>1, <1>3, <1>4, <1>5, <1>6, <1>7 DEF ServerStep, QuietStep
<1> QED BY <1>8, ServerKeeps
-----------------------------------------------------------------------------
(* The actions of the port, the channels and the network.                  *)

LEMMA RxNewTokenKeeps ==
    ASSUME IInv, NEW c \in Conns, NEW m \in net, RxNewToken(c, m)
    PROVE  IInv'
<1>1. /\ m.type = "NEW_TOKEN" /\ cache' = m.token
      /\ UNCHANGED <<clock, port, addr, cl, chans, lcids, nextCid, net, count>>
  BY DEF RxNewToken
<1>2. m \in Messages /\ MsgStands(m)
  BY DEF IInv, Types, Messages
<1>3. m.token \in Tokens /\ m.token.tail
  BY <1>1, <1>2, Kinds DEF NewTokens, MsgStands
<1>4. /\ clock \in Nat /\ nextCid \in Nat \ {0} /\ count \in [retries : Nat, lost : Nat, rebinds : Nat]
  BY DEF IInv, Types
<1>5. net' \subseteq net \cup {} /\ \A x \in {} : RetryFor(x)
  BY <1>1
<1>6. QuietStep({})
  BY <1>1, <1>3, <1>4, <1>5 DEF QuietStep, IInv, Types
<1> QED BY <1>6, QuietStepKeeps

LEMMA QuietKeeps ==
    ASSUME IInv, \/ Tick \/ \E m \in net : Lose(m)
                 \/ \E c \in Conns, a \in Addrs : Rebind(c, a)
    PROVE  IInv'
<1>1. /\ clock \in Nat /\ nextCid \in Nat \ {0} /\ count \in [retries : Nat, lost : Nat, rebinds : Nat]
      /\ cache \in Tokens \cup {None} /\ (cache = None \/ cache.tail)
  BY DEF IInv, Types
<1>2. /\ UNCHANGED <<port, cl, chans, lcids, cache, nextCid>>
      /\ addr' \in [Conns -> Addrs]
      /\ clock' \in Nat /\ count' \in [retries : Nat, lost : Nat, rebinds : Nat]
      /\ net' \subseteq net \cup {}
  <2>0. addr \in [Conns -> Addrs]
    BY DEF IInv, Types
  <2>1. CASE Tick
    BY <1>1, <2>0, <2>1 DEF Tick
  <2>2. CASE \E m \in net : Lose(m)
    <3>1. PICK m \in net : Lose(m)
      BY <2>2
    <3> DEFINE n == count.lost + 1
    <3>2. n \in Nat
      BY <1>1
    <3>3. count' = [count EXCEPT !.lost = n]
      BY <3>1 DEF Lose
    <3> HIDE DEF n
    <3>4. count' \in [retries : Nat, lost : Nat, rebinds : Nat]
      BY <1>1, <3>2, <3>3
    <3> QED BY <1>1, <2>0, <3>1, <3>4 DEF Lose
  <2>3. CASE \E c \in Conns, a \in Addrs : Rebind(c, a)
    <3>1. PICK c \in Conns, a \in Addrs : Rebind(c, a)
      BY <2>3
    <3> DEFINE n == count.rebinds + 1
    <3>2. n \in Nat
      BY <1>1
    <3>3. count' = [count EXCEPT !.rebinds = n] /\ addr' = [addr EXCEPT ![c] = a]
      BY <3>1 DEF Rebind
    <3> HIDE DEF n
    <3>4. count' \in [retries : Nat, lost : Nat, rebinds : Nat]
      BY <1>1, <3>2, <3>3
    <3> QED BY <1>1, <2>0, <3>1, <3>3, <3>4 DEF Rebind
  <2> QED BY <2>1, <2>2, <2>3
<1>3. \A x \in {} : RetryFor(x)
  OBVIOUS
<1>4. QuietStep({})
  BY <1>1, <1>2, <1>3 DEF QuietStep
<1> QED BY <1>4, QuietStepKeeps

\* A token for the client a packet came from.
LEMMA SendRetryKeeps ==
    ASSUME IInv, NEW m \in net, SendRetry(m)
    PROVE  IInv'
<1> DEFINE t == GenerateToken(TRUE, m.from, m.dcid, nextCid)
           x == [type |-> "RETRY", dcid |-> m.scid, scid |-> nextCid, token |-> t,
                 odcid |-> m.dcid]
           n == count.retries + 1
<1>1. /\ m.type = "INITIAL" /\ port.validate
      /\ net' = net \cup {x} /\ nextCid' = nextCid + 1
      /\ count' = [count EXCEPT !.retries = n]
      /\ UNCHANGED <<clock, port, addr, cl, cache, chans, lcids>>
  BY DEF SendRetry
<1>2. /\ clock \in Nat /\ nextCid \in Nat \ {0} /\ count \in [retries : Nat, lost : Nat, rebinds : Nat]
      /\ cache \in Tokens \cup {None} /\ (cache = None \/ cache.tail)
      /\ m \in Messages /\ MsgStands(m)
  BY DEF IInv, Types, Messages
<1>3. m.from \in Addrs /\ m.dcid \in Nat /\ m.scid \in Conns
  BY <1>1, <1>2, Kinds DEF Initials
<1>4. /\ t \in Tokens /\ t.retry /\ t.odcid = m.dcid
      /\ t.rscid = nextCid
  BY <1>2, <1>3 DEF GenerateToken, Tokens
<1>5. n \in Nat
  BY <1>2
<1> HIDE DEF t, n
<1>6. count' \in [retries : Nat, lost : Nat, rebinds : Nat] /\ nextCid' \in Nat \ {0}
  BY <1>1, <1>2, <1>5
<1>7. x \in Retries /\ RetryFor(x)
  BY <1>1, <1>2, <1>3, <1>4 DEF Retries, RetryFor
<1> HIDE DEF x
<1>8. {x} \subseteq Retries /\ \A y \in {x} : RetryFor(y)
  BY <1>7
<1>9. QuietStep({x})
  BY <1>1, <1>2, <1>6, <1>8 DEF QuietStep, IInv, Types
<1> QED BY <1>9, QuietStepKeeps

\* A reply of a channel that has heard of its client.
LEMMA ReplyStands ==
    ASSUME NEW ch \in Channels, ch.remoteCid = ch.conn, NEW old
    PROVE  Reply(ch, old) \in Replies /\ ReplyOf(Reply(ch, old), ch)
<1> DEFINE tp == IF ch.got = Chunks /\ old # Chunks THEN TransportParams(ch) ELSE None
           x  == [type |-> "SERVER", dcid |-> ch.remoteCid, scid |-> ch.localCid,
                  key |-> ch.initDcid, acks |-> ch.rxPns, tp |-> tp]
<1>1. /\ ch.conn \in Conns /\ ch.localCid \in Nat /\ ch.initDcid \in Nat
      /\ ch.odcid \in Nat /\ ch.rxPns \in SUBSET Nat
  BY DEF Channels
<1>2. TransportParams(ch) \in Params
  BY <1>1, Setting DEF TransportParams, Params
<1>3. tp \in Params \cup {None} /\ (tp = None \/ tp = TransportParams(ch))
  BY <1>2
<1>4. Reply(ch, old) = x
  BY DEF Reply
<1> HIDE DEF tp
<1>5. x \in Replies /\ ReplyOf(x, ch)
  BY <1>1, <1>3 DEF Replies, ReplyOf
<1> QED BY <1>4, <1>5

\* Channel ch in place of one with the same IDs, which sends N.
ChannelStep(i, ch, N) ==
    /\ i \in 1..Len(chans) /\ ch \in Channels
    /\ SameIds(chans[i], ch) /\ ChannelStands(ch, cl[ch.conn])
    /\ chans' = [chans EXCEPT ![i] = ch] /\ net' = net \cup N
    /\ UNCHANGED <<clock, port, addr, cl, cache, lcids, nextCid, count>>
    /\ N \subseteq Replies \cup NewTokens
    /\ \A m \in N : m.type = "SERVER" => ReplyOf(m, ch)
    /\ \A m \in N : m.type = "NEW_TOKEN" => m.token.tail

LEMMA ChannelKeeps ==
    ASSUME IInv, NEW i, NEW ch, NEW N, ChannelStep(i, ch, N)
    PROVE  IInv'
<1> USE DEF ChannelStep
<1>1. /\ chans \in Seq(Channels) /\ clock \in Nat /\ nextCid \in Nat \ {0}
      /\ count \in [retries : Nat, lost : Nat, rebinds : Nat]
      /\ cache \in Tokens \cup {None} /\ (cache = None \/ cache.tail)
      /\ \A x \in DOMAIN lcids : x \in Nat /\ lcids[x] \in 1..Len(chans)
      /\ \A j \in 1..Len(chans) : ChannelStands(chans[j], cl[chans[j].conn])
      /\ OneChannelPerConn
  BY DEF IInv, Types
<1>2. Len(chans) \in Nat
  BY <1>1, LenProperties
<1>3. /\ chans' \in Seq(Channels) /\ Len(chans') = Len(chans) /\ chans'[i] = ch
      /\ \A j \in 1..Len(chans) : j # i => chans'[j] = chans[j]
  BY <1>1, ExceptSeq
<1>4. \A j \in 1..Len(chans) : SameIds(chans[j], chans'[j])
  BY <1>3 DEF SameIds
<1>5. \A j \in 1..Len(chans') : ChannelStands(chans'[j], cl[chans'[j].conn])
  BY <1>1, <1>3
<1>6. \A j \in 1..Len(chans') : ChannelStands(chans[j], cl[chans[j].conn])'
  BY <1>5 DEF ChannelStands
<1>7. OneChannelPerConn'
  BY <1>1, <1>3, <1>4 DEF OneChannelPerConn, SameIds
<1>8. ASSUME NEW m \in N PROVE MsgStands(m)'
  <2>1. m.type \notin {"INITIAL", "RETRY"}
    BY DEF Replies, NewTokens
  <2>2. m.type = "SERVER" => \E j \in 1..Len(chans') : ReplyOf(m, chans'[j])
    BY <1>3
  <2>3. m.type = "SERVER" => (\E j \in 1..Len(chans) : ReplyOf(m, chans[j]))'
    BY <2>2 DEF ReplyOf, TransportParams
  <2> QED BY <2>1, <2>3 DEF MsgStands
<1>9. addr' \in [Conns -> Addrs]
  BY DEF IInv, Types
<1>10. ServerStep(N)
  BY <1>1, <1>2, <1>3, <1>4, <1>6, <1>7, <1>8, <1>9 DEF ServerStep
<1> QED BY <1>10, ServerKeeps

\* A channel that has received another packet.
LEMMA RxInitialKeeps ==
    ASSUME IInv, NEW m \in net, RxInitial(m)
    PROVE  IInv'
<1> DEFINE i   == lcids[m.dcid]
           ch  == chans[i]
           pns == ch.rxPns \cup {m.pn}
           got == IF m.chunk = PING THEN ch.got ELSE ch.got \cup {m.chunk}
           new == [ch EXCEPT !.rxPns = pns, !.got = got]
           x   == Reply(Received(ch, m), ch.got)
<1>1. /\ m.type = "INITIAL" /\ m.dcid \in DOMAIN lcids
      /\ chans' = [chans EXCEPT ![i] = Received(ch, m)] /\ net' = net \cup {x}
      /\ UNCHANGED <<clock, port, addr, cl, cache, lcids, nextCid, count>>
  BY DEF RxInitial
<1>2. /\ chans \in Seq(Channels) /\ i \in 1..Len(chans) /\ m \in Messages
      /\ ChannelStands(ch, cl[ch.conn])
  BY <1>1 DEF IInv, Types, Messages
<1>3. ch \in Channels
  BY <1>2, ElementOfSeq
<1>4. m.pn \in Nat /\ m.chunk \in 0..NChunks
  BY <1>1, <1>2, Kinds DEF Initials
<1> HIDE DEF i, ch
<1>5. pns \in SUBSET Nat /\ got \in SUBSET Chunks
  BY <1>3, <1>4, Setting DEF Channels, Chunks, PING
<1>6. Received(ch, m) = new
  <2>1. ch.enc
    BY <1>2 DEF ChannelStands
  <2>2. LearnRemoteCid(ch, m) = ch
    BY <2>1 DEF LearnRemoteCid
  <2> QED BY <2>2 DEF Received
<1> HIDE DEF pns, got
<1>7. /\ new \in Channels /\ SameIds(ch, new) /\ new.remoteCid = ch.remoteCid
      /\ new.validated = ch.validated /\ new.newToken = ch.newToken
      /\ new.enc = ch.enc /\ new.complete = ch.complete /\ new.peer = ch.peer
  BY <1>3, <1>5 DEF Channels, SameIds
<1> HIDE DEF new
<1>8. ChannelStands(new, cl[new.conn]) /\ new.remoteCid = new.conn
  BY <1>2, <1>7 DEF ChannelStands, SameIds
<1>9. x \in Replies /\ ReplyOf(x, new)
  BY <1>6, <1>7, <1>8, ReplyStands
<1>10. x.type # "NEW_TOKEN"
  BY <1>9 DEF Replies
<1> HIDE DEF x
<1>11. ChannelStep(i, new, {x})
  BY <1>1, <1>2, <1>6, <1>7, <1>8, <1>9, <1>10 DEF ChannelStep, ch
<1> QED BY <1>11, ChannelKeeps

\* A channel whose handshake is complete.
LEMMA RxFinishedKeeps ==
    ASSUME IInv, NEW m \in net, RxFinished(m)
    PROVE  IInv'
<1> DEFINE i   == lcids[m.dcid]
           ch  == chans[i]
           new == [ch EXCEPT !.complete = TRUE, !.validated = TRUE, !.newToken = None]
           x   == [type |-> "NEW_TOKEN", dcid |-> ch.remoteCid, token |-> ch.newToken]
           N   == IF ch.newToken = None THEN {} ELSE {x}
<1>1. /\ m.dcid \in DOMAIN lcids
      /\ chans' = [chans EXCEPT ![i].complete = TRUE, ![i].validated = TRUE,
                                ![i].newToken = None]
      /\ net' = IF ch.newToken = None THEN net ELSE net \cup {x}
      /\ UNCHANGED <<clock, port, addr, cl, cache, lcids, nextCid, count>>
  BY DEF RxFinished
<1>2. /\ chans \in Seq(Channels) /\ i \in 1..Len(chans)
      /\ ChannelStands(ch, cl[ch.conn])
  BY <1>1 DEF IInv, Types
<1>3. ch \in Channels
  BY <1>2, ElementOfSeq
<1>4. chans' = [chans EXCEPT ![i] = new]
  BY <1>1, <1>2
<1>5. net' = net \cup N
  BY <1>1
<1> HIDE DEF i, ch
<1>6. /\ new \in Channels /\ SameIds(ch, new) /\ new.remoteCid = ch.remoteCid
      /\ new.newToken = None /\ new.enc = ch.enc /\ new.complete = TRUE
      /\ new.peer = ch.peer
  BY <1>3 DEF Channels, SameIds
<1>7. ch.remoteCid = ch.conn /\ ch.conn \in Conns /\ ch.newToken \in Tokens \cup {None}
  BY <1>2, <1>3 DEF ChannelStands, Channels
<1>8. ch.newToken # None => /\ x \in NewTokens /\ x.type = "NEW_TOKEN"
                            /\ x.token = ch.newToken /\ x.token.tail
  BY <1>2, <1>7 DEF NewTokens, ChannelStands
<1> HIDE DEF new, x
<1>9. ChannelStands(new, cl[new.conn])
  BY <1>2, <1>6 DEF ChannelStands, SameIds
<1>10. /\ N \subseteq Replies \cup NewTokens
       /\ \A y \in N : y.type = "NEW_TOKEN" /\ y.token.tail
  BY <1>8
<1> HIDE DEF N
<1>11. ChannelStep(i, new, N)
  BY <1>1, <1>2, <1>4, <1>5, <1>6, <1>9, <1>10 DEF ChannelStep, ch
<1> QED BY <1>11, ChannelKeeps

\* A packet that starts a connection carries the secrets its client has now:
\* a validating port has decrypted its token, so it was sent after the Retry
\* the client followed; without tokens there was no Retry.
Starts(m, q) ==
    /\ m.scid \in Conns /\ q.st # "idle"
    /\ m.dcid \in Nat /\ m.dcid = q.key /\ m.from \in Addrs
    /\ m.pn \in Nat /\ m.chunk \in 0..NChunks
    /\ port.validate => /\ ValidateToken(m) /\ m.token # None /\ m.token = q.token
                        /\ m.token \in Tokens /\ q.retry /\ m.token.retry
                        /\ m.token.odcid = q.initDcid /\ m.token.addr = m.from
    /\ ~port.validate => m.token = None /\ ~q.retry

LEMMA NewConnStarts ==
    ASSUME IInv, NEW m \in net, NewConn(m)
    PROVE  Starts(m, cl[m.scid])
<1>1. /\ m.type = "INITIAL" /\ m.key = m.dcid
      /\ IF port.validate THEN ValidateToken(m) ELSE m.token = None
  BY DEF NewConn
<1>2. m \in Messages /\ MsgStands(m)
  BY DEF IInv, Types, Messages
<1>3. m \in Initials /\ InitialFrom(m, cl[m.scid])
  BY <1>1, <1>2, Kinds DEF MsgStands
<1>4. /\ m.scid \in Conns /\ m.dcid \in Nat /\ m.from \in Addrs /\ m.pn \in Nat
      /\ m.chunk \in 0..NChunks /\ m.token \in Tokens \cup {None}
  BY <1>3 DEF Initials
<1>5. ClientStands(cl[m.scid])
  BY <1>4 DEF IInv
<1>6. CASE port.validate
  <2>1. ValidateToken(m) /\ m.token # None /\ ~m.token.tail
    BY <1>1, <1>6 DEF ValidateToken, DecryptToken
  <2>2. /\ cl[m.scid].retry /\ m.key = cl[m.scid].retryScid
        /\ m.token = cl[m.scid].token
    BY <1>3, <2>1 DEF InitialFrom
  <2> QED BY <1>1, <1>3, <1>4, <1>5, <1>6, <2>1, <2>2
         DEF Starts, ClientStands, InitialFrom, ValidateToken
<1>7. CASE ~port.validate
  BY <1>1, <1>3, <1>4, <1>5, <1>7 DEF Starts, ClientStands, InitialFrom
<1> QED BY <1>6, <1>7

\* The channel made for a packet m of client q, before and after that packet.
Made(m, q, ch) ==
    /\ ch.conn = m.scid /\ ch.peer = m.from
    /\ ch.initDcid = m.dcid /\ ch.localCid \in Nat
    /\ port.validate => ch.odcid = q.initDcid /\ ch.localCid = m.dcid
    /\ ~port.validate => ch.odcid = NoCid
    /\ ch.validated \in BOOLEAN /\ (ch.validated => port.unlimited \/ port.validate)
    /\ ch.newToken \in Tokens \cup {None} /\ (ch.newToken = None \/ ch.newToken.tail)
    /\ ch.complete = FALSE

LEMMA NewChannelMade ==
    ASSUME IInv, NEW m, Starts(m, cl[m.scid])
    PROVE  /\ Made(m, cl[m.scid], NewChannel(m)) /\ NewChannel(m).enc = FALSE
           /\ NewChannel(m).got = {} /\ NewChannel(m).rxPns = {}
           /\ NewChannel(m) = [conn |-> m.scid, peer |-> m.from, initDcid |-> m.dcid,
                odcid |-> NewChannel(m).odcid, localCid |-> NewChannel(m).localCid,
                remoteCid |-> NewChannel(m).remoteCid,
                validated |-> NewChannel(m).validated,
                newToken |-> NewChannel(m).newToken,
                enc |-> FALSE, got |-> {}, rxPns |-> {}, complete |-> FALSE]
<1> DEFINE retry == m.token # None /\ m.token.retry
           valid == ValidateToken(m)
           odcid == IF ~valid THEN NoCid ELSE IF retry THEN m.token.odcid ELSE nextCid
           local == IF valid THEN m.dcid ELSE nextCid
           remote == IF valid THEN (IF retry THEN m.token.rscid ELSE m.scid) ELSE None
           validated == StartsValidated(valid)
           token == IF valid /\ GenNewToken(m)
                    THEN GenerateToken(FALSE, m.from, NoCid, NoCid) ELSE None
           ch == [conn |-> m.scid, peer |-> m.from, initDcid |-> m.dcid, odcid |-> odcid,
                  localCid |-> local, remoteCid |-> remote, validated |-> validated,
                  newToken |-> token, enc |-> FALSE, got |-> {}, rxPns |-> {},
                  complete |-> FALSE]
<1>1. NewChannel(m) = ch
  BY DEF NewChannel, InitDcid
<1>2. nextCid \in Nat /\ clock \in Nat /\ port \in Modes
  BY DEF IInv, Types
<1>3. /\ valid \in BOOLEAN /\ (~port.validate => ~valid)
      /\ port.validate => valid /\ retry
  BY DEF Starts, ValidateToken
<1>4. /\ port.validate => odcid = cl[m.scid].initDcid /\ local = m.dcid
      /\ ~port.validate => odcid = NoCid /\ local = nextCid
  BY <1>3 DEF Starts
<1>5. validated \in BOOLEAN /\ (validated => port.unlimited \/ port.validate)
  BY <1>2, <1>3, ConnsAssumption DEF StartsValidated
<1>6. token \in Tokens \cup {None} /\ (token = None \/ token.tail)
  <2>1. /\ GenerateToken(FALSE, m.from, NoCid, NoCid) \in Tokens
        /\ GenerateToken(FALSE, m.from, NoCid, NoCid).tail
    BY <1>2, Setting DEF GenerateToken, Tokens, Starts
  <2> QED BY <2>1
<1>7. m.dcid \in Nat
  BY DEF Starts
<1> HIDE DEF odcid, local, remote, validated, token
<1>8. Made(m, cl[m.scid], ch)
  BY <1>2, <1>4, <1>5, <1>6, <1>7 DEF Made
<1> QED BY <1>1, <1>8

\* Its first packet tells the channel its client's connection ID.
LEMMA FirstReceived ==
    ASSUME IInv, NEW m, Starts(m, cl[m.scid])
    PROVE  /\ Received(NewChannel(m), m) \in Channels
           /\ Made(m, cl[m.scid], Received(NewChannel(m), m))
           /\ SameIds(NewChannel(m), Received(NewChannel(m), m))
           /\ Received(NewChannel(m), m).enc = TRUE
           /\ Received(NewChannel(m), m).remoteCid = m.scid
<1> DEFINE ch  == NewChannel(m)
           got == IF m.chunk = PING THEN {} ELSE {m.chunk}
           new == [conn |-> m.scid, peer |-> m.from, initDcid |-> m.dcid, odcid |-> ch.odcid,
                   localCid |-> ch.localCid, remoteCid |-> m.scid,
                   validated |-> ch.validated, newToken |-> ch.newToken,
                   enc |-> TRUE, got |-> got, rxPns |-> {m.pn}, complete |-> FALSE]
<1>1. /\ Made(m, cl[m.scid], ch) /\ ch.enc = FALSE /\ ch.got = {} /\ ch.rxPns = {}
      /\ ch = [conn |-> m.scid, peer |-> m.from, initDcid |-> m.dcid,
                odcid |-> ch.odcid, localCid |-> ch.localCid,
                remoteCid |-> ch.remoteCid, validated |-> ch.validated,
                newToken |-> ch.newToken,
                enc |-> FALSE, got |-> {}, rxPns |-> {}, complete |-> FALSE]
  BY NewChannelMade
<1> HIDE DEF ch
<1>2. Received(ch, m) = new
  <2> DEFINE o == ch.odcid
             l == ch.localCid
             e == ch.remoteCid
             v == ch.validated
             t == ch.newToken
             heard == [conn |-> m.scid, peer |-> m.from, initDcid |-> m.dcid, odcid |-> o,
                       localCid |-> l, remoteCid |-> m.scid, validated |-> v,
                       newToken |-> t, enc |-> TRUE, got |-> {}, rxPns |-> {},
                       complete |-> FALSE]
  <2>1. ch = [conn |-> m.scid, peer |-> m.from, initDcid |-> m.dcid, odcid |-> o, localCid |-> l,
              remoteCid |-> e, validated |-> v, newToken |-> t,
              enc |-> FALSE, got |-> {}, rxPns |-> {}, complete |-> FALSE]
    BY <1>1
  <2>2. new = [conn |-> m.scid, peer |-> m.from, initDcid |-> m.dcid, odcid |-> o, localCid |-> l,
               remoteCid |-> m.scid, validated |-> v, newToken |-> t,
               enc |-> TRUE, got |-> got, rxPns |-> {m.pn}, complete |-> FALSE]
    OBVIOUS
  <2> HIDE DEF o, l, e, v, t, new
  <2>3. LearnRemoteCid(ch, m) = [ch EXCEPT !.enc = TRUE, !.remoteCid = m.scid]
    BY <1>1 DEF LearnRemoteCid
  <2>4. LearnRemoteCid(ch, m) = heard
    BY <2>1, <2>3
  <2>5. Received(ch, m) = [heard EXCEPT !.rxPns = {} \cup {m.pn},
                             !.got = IF m.chunk = PING THEN {} ELSE {} \cup {m.chunk}]
    BY <2>4 DEF Received
  <2>6. Received(ch, m) = [heard EXCEPT !.rxPns = {m.pn}, !.got = got]
    BY <2>5
  <2> HIDE DEF got
  <2> QED BY <2>2, <2>6
<1>3. /\ m.scid \in Conns /\ m.from \in Addrs /\ m.dcid \in Nat /\ m.pn \in Nat
      /\ got \in SUBSET Chunks
  BY Setting DEF Starts, Chunks, PING
<1>4. ch.odcid \in Nat
  <2>1. cl[m.scid].initDcid \in Nat
    BY <1>3 DEF IInv, Types, Clients
  <2> QED BY <1>1, <2>1, Setting DEF Made
<1> HIDE DEF got
<1>5. new \in Channels
  BY <1>1, <1>3, <1>4 DEF Channels, Made
<1>6. Made(m, cl[m.scid], new)
  BY <1>1 DEF Made
<1>7. SameIds(ch, new) /\ new.enc = TRUE /\ new.remoteCid = m.scid
  BY <1>1 DEF SameIds, Made
<1> HIDE DEF new
<1> QED BY <1>2, <1>5, <1>6, <1>7 DEF ch

\* An old channel of the same client would have enrolled the ID the packet
\* came with.
LEMMA NewConnKeeps ==
    ASSUME IInv, NEW m \in net, NewConn(m)
    PROVE  IInv'
<1> DEFINE q   == cl[m.scid]
           ch  == NewChannel(m)
           ids == Enrolled(ch)
           new == Received(ch, m)
           i   == Len(chans) + 1
           x   == Reply(new, {})
<1>1. /\ m.dcid \notin DOMAIN lcids /\ ids \cap DOMAIN lcids = {}
      /\ chans' = Append(chans, new)
      /\ lcids' = [y \in DOMAIN lcids \cup ids |-> IF y \in ids THEN i ELSE lcids[y]]
      /\ nextCid' = nextCid + 1 /\ net' = net \cup {x}
      /\ UNCHANGED <<clock, port, addr, cl, cache, count>>
  BY DEF NewConn
<1>2. /\ chans \in Seq(Channels) /\ clock \in Nat /\ nextCid \in Nat \ {0}
      /\ count \in [retries : Nat, lost : Nat, rebinds : Nat]
      /\ cache \in Tokens \cup {None} /\ (cache = None \/ cache.tail)
      /\ \A y \in DOMAIN lcids : y \in Nat /\ lcids[y] \in 1..Len(chans)
      /\ \A j \in 1..Len(chans) : ChannelStands(chans[j], cl[chans[j].conn])
      /\ OneChannelPerConn
  BY DEF IInv, Types
<1>3. Len(chans) \in Nat
  BY <1>2, LenProperties
<1>4. Starts(m, q)
  BY NewConnStarts
<1>5. /\ new \in Channels /\ Made(m, q, new) /\ SameIds(ch, new)
      /\ new.enc = TRUE /\ new.remoteCid = m.scid
  BY <1>4, FirstReceived
<1> HIDE DEF q
<1>6. m.dcid \in ids /\ ids \subseteq Nat
  <2>1. ids = {new.localCid, IF new.odcid = NoCid THEN new.initDcid ELSE new.odcid}
    BY <1>5 DEF Enrolled, SameIds
  <2>2. new.localCid \in Nat /\ new.initDcid \in Nat /\ new.odcid \in Nat
    BY <1>5 DEF Channels
  <2> HIDE DEF ids, new
  <2>3. ids \subseteq Nat
    BY <2>1, <2>2
  <2>4. m.dcid \in ids
    BY <1>5, <2>1 DEF Made
  <2> QED BY <2>3, <2>4
<1> HIDE DEF ids, ch, new
<1>7. /\ chans' \in Seq(Channels) /\ Len(chans') = i /\ chans'[i] = new
      /\ \A j \in 1..Len(chans) : chans'[j] = chans[j]
  BY <1>1, <1>2, <1>5, AppendProperties
<1>8. /\ DOMAIN lcids' = DOMAIN lcids \cup ids
      /\ \A y \in DOMAIN lcids' : y \in Nat /\ lcids'[y] \in 1..Len(chans')
  <2>1. DOMAIN lcids' = DOMAIN lcids \cup ids
    BY <1>1
  <2> SUFFICES ASSUME NEW y \in DOMAIN lcids'
               PROVE  y \in Nat /\ lcids'[y] \in 1..Len(chans')
    BY <2>1
  <2>2. lcids'[y] = IF y \in ids THEN i ELSE lcids[y]
    BY <1>1, <2>1
  <2>3. CASE y \in ids
    <3>1. y \in Nat
      BY <1>6, <2>3
    <3>2. lcids'[y] = i /\ i \in 1..i
      BY <1>3, <2>2, <2>3
    <3> QED BY <1>7, <3>1, <3>2
  <2>4. CASE y \notin ids
    BY <1>2, <1>3, <1>7, <2>1, <2>2, <2>4
  <2> QED BY <2>3, <2>4
<1>9. \A j \in 1..Len(chans) : SameIds(chans[j], chans'[j])
  BY <1>7 DEF SameIds
<1>10. \A j \in 1..Len(chans) : chans[j].conn # m.scid
  <2> SUFFICES ASSUME NEW j \in 1..Len(chans), chans[j].conn = m.scid PROVE FALSE
    OBVIOUS
  <2>1. chans[j].initDcid = q.key /\ chans[j].initDcid \in DOMAIN lcids
    BY <1>2 DEF ChannelStands, q
  <2> QED BY <1>1, <1>4, <2>1 DEF Starts
<1>11. OneChannelPerConn'
  <2> SUFFICES ASSUME NEW j \in 1..Len(chans'), NEW k \in 1..Len(chans'),
                      chans'[j].conn = chans'[k].conn
               PROVE  j = k
    BY DEF OneChannelPerConn
  <2>1. new.conn = m.scid
    BY <1>5 DEF Made
  <2>2. j \in 1..Len(chans) \/ j = i
    BY <1>3, <1>7
  <2>3. k \in 1..Len(chans) \/ k = i
    BY <1>3, <1>7
  <2> QED BY <1>2, <1>7, <1>10, <2>1, <2>2, <2>3 DEF OneChannelPerConn
<1>12. ASSUME NEW j \in 1..Len(chans')
       PROVE  ChannelStands(chans[j], cl[chans[j].conn])'
  <2>1. CASE j \in 1..Len(chans)
    <3>1. chans'[j] = chans[j] /\ ChannelStands(chans[j], cl[chans[j].conn])
      BY <1>2, <1>7, <2>1
    <3> QED BY <1>1, <1>8, <3>1 DEF ChannelStands
  <2>2. CASE j = i
    <3>1. chans'[j] = new /\ new.conn = m.scid
      BY <1>5, <1>7, <2>2 DEF Made
    <3>2. q.st # "idle" /\ m.dcid = q.key
      BY <1>4 DEF Starts
    <3>3. port.validate => q.retry /\ q.token # None /\ q.token.addr = new.peer
      BY <1>4, <1>5 DEF Starts, Made
    <3>4. m.dcid \in DOMAIN lcids'
      BY <1>6, <1>8
    <3>5. /\ q.st # "idle" /\ new.initDcid = q.key
          /\ new.enc /\ new.remoteCid = new.conn
          /\ new.initDcid \in DOMAIN lcids'
          /\ port.validate => /\ q.retry /\ q.token # None
                              /\ q.token.addr = new.peer /\ new.odcid = q.initDcid
          /\ ~port.validate => new.odcid = NoCid
          /\ new.newToken = None \/ new.newToken.tail
          /\ new.validated /\ ~new.complete => port.unlimited \/ port.validate
      BY <1>5, <3>1, <3>2, <3>3, <3>4 DEF Made
    <3>6. cl'[chans'[j].conn] = q /\ port' = port
      BY <1>1, <3>1 DEF q
    <3> QED BY <3>1, <3>5, <3>6 DEF ChannelStands
  <2> QED BY <1>3, <1>7, <2>1, <2>2
<1>13. x \in Replies /\ ReplyOf(x, new)
  <2>1. new.remoteCid = new.conn
    BY <1>5 DEF Made
  <2> QED BY <1>5, <2>1, ReplyStands
<1> HIDE DEF x
<1>14. ASSUME NEW y \in {x} PROVE MsgStands(y)'
  <2>1. y.type = "SERVER"
    BY <1>13 DEF Replies
  <2>2. \E j \in 1..Len(chans') : ReplyOf(y, chans'[j])
    BY <1>3, <1>7, <1>13
  <2>3. (\E j \in 1..Len(chans) : ReplyOf(y, chans[j]))'
    BY <2>2 DEF ReplyOf, TransportParams
  <2> QED BY <2>1, <2>3 DEF MsgStands
<1>15. ServerStep({x})
  <2>1. Len(chans) <= Len(chans') /\ nextCid' \in Nat \ {0}
    BY <1>1, <1>2, <1>3, <1>7
  <2>2. {x} \subseteq Retries \cup Replies \cup NewTokens
    BY <1>13
  <2>3. addr' \in [Conns -> Addrs]
    BY <1>1 DEF IInv, Types
  <2> QED BY <1>1, <1>2, <1>7, <1>8, <1>9, <1>11, <1>12, <1>14, <2>1, <2>2, <2>3
         DEF ServerStep
<1> QED BY <1>15, ServerKeeps
-----------------------------------------------------------------------------
(* The theorems.                                                           *)

LEMMA InitEstablishes == Init => IInv
<1> SUFFICES ASSUME Init PROVE IInv
  OBVIOUS
<1> DEFINE idle == [st |-> "idle", initDcid |-> NoCid, dcid |-> NoCid, key |-> NoCid,
                    token |-> None, retry |-> FALSE, retryScid |-> NoCid,
                    enc |-> FALSE, initScid |-> NoCid, nextPn |-> 0,
                    flight |-> {}, ptos |-> 0]
<1>1. /\ clock = 0 /\ port \in Modes /\ addr \in [Conns -> Addrs]
      /\ cl = [c \in Conns |-> idle] /\ cache = None /\ chans = <<>>
      /\ DOMAIN lcids = {} /\ nextCid = 1 /\ net = {}
      /\ count = [retries |-> 0, lost |-> 0, rebinds |-> 0]
  BY DEF Init
<1>2. idle \in Clients
  BY DEF Clients, NoCid
<1>3. \A c \in Conns : ClientStands(idle)
  BY DEF ClientStands, NoCid
<1> HIDE DEF idle
<1>4. cl \in [Conns -> Clients] /\ \A c \in Conns : ClientStands(cl[c])
  BY <1>1, <1>2, <1>3
<1>5. chans \in Seq(Channels) /\ Len(chans) = 0
  BY <1>1, EmptySeq
<1>6. Types
  BY <1>1, <1>4, <1>5 DEF Types
<1>7. OneChannelPerConn
  BY <1>5 DEF OneChannelPerConn
<1> QED BY <1>1, <1>4, <1>5, <1>6, <1>7 DEF IInv

LEMMA NextKeeps == IInv /\ [Next]_vars => IInv'
<1> SUFFICES ASSUME IInv, [Next]_vars PROVE IInv'
  OBVIOUS
<1>1. ASSUME NEW c \in Conns, Start(c) \/ Pto(c) \/ ClientRx(c) PROVE IInv'
  <2>1. CASE Start(c)
    BY <2>1, StartKeeps
  <2>2. CASE Pto(c)
    BY <2>2, PtoKeeps
  <2>3. CASE ClientRx(c)
    BY <2>3, RxRetryKeeps, RxServerKeeps, RxNewTokenKeeps DEF ClientRx
  <2> QED BY <1>1, <2>1, <2>2, <2>3
<1>2. CASE ServerRx
  BY <1>2, SendRetryKeeps, NewConnKeeps, RxInitialKeeps, RxFinishedKeeps DEF ServerRx
<1>3. CASE \/ Tick \/ \E m \in net : Lose(m)
           \/ \E c \in Conns, a \in Addrs : Rebind(c, a)
  BY <1>3, QuietKeeps
<1>4. CASE UNCHANGED vars
  <2>1. QuietStep({})
    BY <1>4 DEF vars, QuietStep, IInv, Types
  <2> QED BY <2>1, QuietStepKeeps
<1> QED BY <1>1, <1>2, <1>3, <1>4 DEF Next

\* The inductive invariant: what clients, datagrams and channels know of each
\* other agrees.
THEOREM Invariance == Spec => []IInv
BY InitEstablishes, NextKeeps, PTL DEF Spec

\* Every record keeps the fields and ranges of its C declaration.
THEOREM TypeCorrect == Spec => []TypeOK
<1>1. IInv => TypeOK
  <2> SUFFICES ASSUME IInv PROVE TypeOK
    OBVIOUS
  <2>1. Types
    BY DEF IInv
  <2>2. \A i \in 1..Len(chans) : chans[i] \in Channels
    BY <2>1, ElementOfSeq DEF Types
  <2> QED BY <2>1, <2>2 DEF TypeOK, Types, Clients, Packets, Channels
<1> QED BY <1>1, Invariance, PTL

\* No client fails by its own checks of the server's transport parameters, or
\* by a Retry that finds packet number 0 gone (ch_on_transport_params and
\* ch_retry of quic_channel.c).
THEOREM ChecksPass == Spec => []NoSpuriousFailure
<1>1. IInv => NoSpuriousFailure
  BY DEF IInv, ClientStands, NoSpuriousFailure
<1> QED BY <1>1, Invariance, PTL

\* However its packets are repeated or delayed, a connection gets one channel
\* (port_default_packet_handler of quic_port.c).
THEOREM OneChannel == Spec => []OneChannelPerConn
<1>1. IInv => OneChannelPerConn
  BY DEF IInv
<1> QED BY <1>1, Invariance, PTL

\* A channel and its client derive the same Initial secrets.
THEOREM SameSecrets == Spec => []SecretsAgree
<1>1. IInv => SecretsAgree
  BY DEF IInv, ChannelStands, SecretsAgree
<1> QED BY <1>1, Invariance, PTL

\* A channel that is exempt from the amplification limit before its handshake
\* is complete sends to the address its client's token was issued to
\* (port_validate_token of quic_port.c), although clients change addresses.
THEOREM ExemptOwnsAddress == Spec => []ValidatedOwnsAddress
<1>1. IInv => ValidatedOwnsAddress
  BY DEF IInv, ChannelStands, ValidatedOwnsAddress
<1> QED BY <1>1, Invariance, PTL

\* What the server sends is addressed to a connection ID of a client.
THEOREM RepliesAddressed == Spec => []RepliesReachClient
<1>1. IInv => RepliesReachClient
  <2> SUFFICES ASSUME IInv, NEW m \in net, m.type \in {"SERVER", "NEW_TOKEN"}
               PROVE  m.dcid \in Conns
    BY DEF RepliesReachClient
  <2>1. m \in Messages
    BY DEF IInv, Types, Messages
  <2>2. m \in Replies \/ m \in NewTokens
    BY <2>1, Kinds
  <2> QED BY <2>2 DEF Replies, NewTokens
<1> QED BY <1>1, Invariance, PTL
=============================================================================
