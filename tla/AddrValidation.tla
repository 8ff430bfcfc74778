--------------------------- MODULE AddrValidation ---------------------------
(***************************************************************************)
(* Address validation and connection-ID agreement between QUIC clients and *)
(* one server port: the port's handler for packets of unknown connections, *)
(* its tokens and Retry packets (quic_port.c), the local connection IDs    *)
(* (quic_lcidm.c), the server channel it binds, and the client channel's   *)
(* start, Retry, packet handling and transport-parameter checks            *)
(* (quic_channel.c), over a network that reorders, duplicates and loses    *)
(* datagrams.                                                              *)
(*                                                                         *)
(* The ClientHello is a set of numbered chunks, one per Initial packet: a  *)
(* post-quantum key share does not fit in one.  Connection IDs are drawn   *)
(* from a counter, and a client's own connection ID is its name.  All      *)
(* packets are version 1, and a packet can be opened exactly with the      *)
(* connection ID its Initial secrets were derived from.                    *)
(***************************************************************************)
EXTENDS Integers, FiniteSets, Sequences

CONSTANTS
    Conns,            \* client connections, sharing one SSL_CTX
    Addrs,            \* client addresses
    NChunks,          \* Initial packets a ClientHello needs
    Modes,            \* possible modes of the listener, see port
    RetryLifetime,    \* RETRY_LIFETIME
    NewTokenLifetime, \* NEW_TOKEN_LIFETIME
    PktThreshold,     \* K_PKT_THRESHOLD
    MaxTime,          \* bound: the clock
    MaxRetry,         \* bound: Retry packets the port sends
    MaxPto,           \* bound: probe timeouts of a client
    MaxLose,          \* bound: datagrams lost
    MaxRebind,        \* bound: changes of a client's address
    None              \* a null pointer

ASSUME ConnsAssumption ==
    /\ Conns \cap Int = {} /\ None \notin Conns \cup Int
    /\ NChunks \in Nat \ {0}
    /\ Modes \subseteq [validate : BOOLEAN, unlimited : BOOLEAN]
    /\ RetryLifetime \in Nat /\ NewTokenLifetime \in Nat
    /\ PktThreshold \in Nat \ {0}
    /\ MaxTime \in Nat /\ MaxRetry \in Nat /\ MaxPto \in Nat /\ MaxLose \in Nat
    /\ MaxRebind \in Nat

VARIABLES
    clock,   \* ossl_time_now
    port,    \* port->validate_addr and port->unlimited_amplification
    addr,    \* the address each client sends from
    cl,      \* the client channels
    cache,   \* the token cache of the clients' SSL_CTX, for this server
    chans,   \* the server channels, in the order they were created
    lcids,   \* the port's LCIDM: connection ID -> index in chans
    nextCid, \* the next random connection ID
    net,     \* the datagrams that can still arrive
    count    \* Retry packets, losses and rebindings so far, for the bounds

vars == <<clock, port, addr, cl, cache, chans, lcids, nextCid, net, count>>

Chunks == 1..NChunks
PING == 0    \* a packet without a chunk
NoCid == 0   \* a connection ID of length 0
-----------------------------------------------------------------------------
(* Tokens.  encrypt_validation_token leaves room for the integrity tag of  *)
(* a Retry packet behind the ciphertext; "tail" says that it is still      *)
(* there, in which case the last bytes are not the AEAD tag.               *)

GenerateToken(isRetry, peer, odcid, rscid) ==
    [retry |-> isRetry, time |-> clock, addr |-> peer,
     odcid |-> IF isRetry THEN odcid ELSE NoCid,
     rscid |-> IF isRetry THEN rscid ELSE NoCid, tail |-> TRUE]

DecryptToken(token) == ~token.tail

Lifetime(token) == IF token.retry THEN RetryLifetime ELSE NewTokenLifetime

\* Mutant: takes a token from whatever address it comes.
ValidateTokenFromAnywhere(m) ==
    /\ m.token # None
    /\ DecryptToken(m.token)
    /\ m.token.time <= clock
    /\ clock - m.token.time <= Lifetime(m.token)
    /\ m.token.retry => m.token.rscid = m.dcid

ValidateToken(m) ==
    /\ m.token # None
    /\ DecryptToken(m.token)
    /\ m.token.time <= clock
    /\ clock - m.token.time <= Lifetime(m.token)
    /\ m.token.addr = m.from
    /\ m.token.retry => m.token.rscid = m.dcid

GenNewToken(m) ==
    /\ m.token # None
    /\ m.token.retry \/ clock - m.token.time > (NewTokenLifetime * 9) \div 10
-----------------------------------------------------------------------------
(* The client's transmissions.  The packets carry the connection's token,  *)
(* destination and secrets of the moment.                                  *)

\* The packets that carry the chunks of S, numbered in order.
PacketsOf(r, S) ==
    {[pn |-> r.nextPn + Cardinality({y \in S : y < x}), chunk |-> x] : x \in S}

Record(r, S) ==
    [r EXCEPT !.nextPn = @ + Cardinality(S), !.flight = @ \cup PacketsOf(r, S)]

InitialMsgs(c, r, S) ==
    {[type |-> "INITIAL", from |-> addr[c], scid |-> c, dcid |-> r.dcid,
      token |-> r.token, key |-> r.key, pn |-> p.pn, chunk |-> p.chunk]
        : p \in PacketsOf(r, S)}

\* ossl_quic_channel_start: the cached token, a random destination ID, and
\* the whole ClientHello goes out in the tick that ends it.
Start(c) ==
    LET r == [cl[c] EXCEPT !.st = "active", !.token = cache,
                           !.initDcid = nextCid, !.dcid = nextCid, !.key = nextCid]
    IN  /\ cl[c].st = "idle"
        /\ cl' = [cl EXCEPT ![c] = Record(r, Chunks)]
        /\ net' = net \cup InitialMsgs(c, r, Chunks)
        /\ nextCid' = nextCid + 1
        /\ UNCHANGED <<clock, port, addr, cache, chans, lcids, count>>

\* A probe timeout, or an anti-deadlock probe when nothing is in flight: the
\* packetiser has no new data, so it sends a PING.
Pto(c) ==
    /\ cl[c].st = "active"
    /\ cl[c].ptos < MaxPto
    /\ LET r == [cl[c] EXCEPT !.ptos = @ + 1]
       IN  /\ cl' = [cl EXCEPT ![c] = Record(r, {PING})]
           /\ net' = net \cup InitialMsgs(c, r, {PING})
    /\ UNCHANGED <<clock, port, addr, cache, chans, lcids, nextCid, count>>

\* Mutant: follows every Retry.
AcceptEveryRetry(r, m) == m.odcid = r.initDcid /\ m.scid # r.initDcid

\* A Retry is followed once, before any encrypted packet, and only if its
\* integrity tag was made for this connection's first destination ID.
AcceptRetry(r, m) ==
    /\ ~r.retry /\ ~r.enc
    /\ m.odcid = r.initDcid
    /\ m.scid # r.initDcid

\* Mutant: the secrets stay those of the first destination ID.
RetryKeepingSecrets(r, m) ==
    [r EXCEPT !.dcid = m.scid, !.token = [m.token EXCEPT !.tail = FALSE],
              !.retryScid = m.scid, !.retry = TRUE]

\* ch_retry: new destination, token without the integrity tag, new secrets.
Retried(r, m) ==
    [r EXCEPT !.dcid = m.scid, !.token = [m.token EXCEPT !.tail = FALSE],
              !.retryScid = m.scid, !.retry = TRUE, !.key = m.scid]

\* Packet number 0 is declared lost and sent again at once; the ACKM not
\* having it is an internal error.  The other packets of the ClientHello
\* stay in flight.
RxRetry(c, m) ==
    LET first == {p \in cl[c].flight : p.pn = 0}
        r     == [Retried(cl[c], m) EXCEPT !.flight = @ \ first]
        again == {p.chunk : p \in first}
    IN  /\ m.type = "RETRY" /\ m.dcid = c
        /\ cl[c].st = "active"
        /\ AcceptRetry(cl[c], m)
        /\ cl' = [cl EXCEPT ![c] = IF first = {} THEN [r EXCEPT !.st = "failed"]
                                   ELSE Record(r, again)]
        /\ net' = net \cup InitialMsgs(c, r, again)
        /\ UNCHANGED <<clock, port, addr, cache, chans, lcids, nextCid, count>>

\* ch_on_transport_params, the connection IDs: each must be there exactly
\* when expected, with the value this client saw.
TransportParamsOk(r, tp) ==
    /\ tp.origDcid = r.initDcid
    /\ tp.initScid = r.initScid
    /\ tp.retryScid = IF r.retry THEN r.retryScid ELSE NoCid

\* The first encrypted packet fixes the server's connection ID.
FirstPacket(r, m) ==
    IF r.enc THEN r ELSE [r EXCEPT !.enc = TRUE, !.dcid = m.scid, !.initScid = m.scid]

\* The packets an ACK frame makes the ACKM give up: PktThreshold behind the
\* largest acknowledged, or sent a loss delay ago (those up to number k).
LostBy(r, acks, k) ==
    IF \A p \in r.flight : p.pn \notin acks THEN {}
    ELSE {p \in r.flight : p.pn \notin acks /\
            \E q \in acks : q > p.pn /\ (p.pn <= k \/ p.pn + PktThreshold <= q)}

\* A packet of the server channel: its secrets must be this connection's, and
\* after the first one its source ID must not change.  The server's flight
\* completes the handshake when its transport parameters are right.
RxServer(c, m, k) ==
    LET lost  == LostBy(cl[c], m.acks, k)
        again == {p.chunk : p \in lost} \ {PING}
        r     == [FirstPacket(cl[c], m) EXCEPT
                    !.flight = {p \in @ : p.pn \notin m.acks} \ lost]
    IN  /\ m.type = "SERVER" /\ m.dcid = c
        /\ cl[c].st = "active"
        /\ m.key = cl[c].key
        /\ cl[c].enc => m.scid = cl[c].initScid
        /\ IF m.tp = None
           THEN /\ cl' = [cl EXCEPT ![c] = Record(r, again)]
                /\ net' = net \cup InitialMsgs(c, r, again)
           ELSE IF TransportParamsOk(r, m.tp)
           THEN /\ cl' = [cl EXCEPT ![c] = [r EXCEPT !.st = "connected", !.flight = {}]]
                /\ net' = net \cup {[type |-> "FINISHED", scid |-> c, dcid |-> r.dcid]}
           ELSE /\ cl' = [cl EXCEPT ![c] = [r EXCEPT !.st = "failed", !.flight = {}]]
                /\ UNCHANGED net
        /\ UNCHANGED <<clock, port, addr, cache, chans, lcids, nextCid, count>>

\* depack_do_frame_new_token stores the token as it came.
RxNewToken(c, m) ==
    /\ m.type = "NEW_TOKEN" /\ m.dcid = c
    /\ cl[c].st = "connected"
    /\ cache' = m.token
    /\ UNCHANGED <<clock, port, addr, cl, chans, lcids, nextCid, net, count>>
-----------------------------------------------------------------------------
(* The server port and its channels.                                       *)

\* port_send_retry: a random connection ID and a token bound to the address,
\* to the client's first destination ID and to the new one.
SendRetry(m) ==
    /\ m.type = "INITIAL"
    /\ m.dcid \notin DOMAIN lcids /\ m.key = m.dcid
    /\ port.validate /\ ~ValidateToken(m)
    /\ count.retries < MaxRetry
    /\ net' = net \cup {[type |-> "RETRY", dcid |-> m.scid, scid |-> nextCid,
                         token |-> GenerateToken(TRUE, m.from, m.dcid, nextCid),
                         odcid |-> m.dcid]}
    /\ nextCid' = nextCid + 1
    /\ count' = [count EXCEPT !.retries = @ + 1]
    /\ UNCHANGED <<clock, port, addr, cl, cache, chans, lcids>>

\* Mutant: the first packet does not fix the client's connection ID.
KeepRemoteCid(ch, m) == [ch EXCEPT !.enc = TRUE]

\* The server's half of the first-packet rule: until then remoteCid is what
\* the port passed, which is not the client's connection ID.
LearnRemoteCid(ch, m) ==
    IF ch.enc THEN ch ELSE [ch EXCEPT !.enc = TRUE, !.remoteCid = m.scid]

\* Mutant: names the Retry's source ID whether or not there was a Retry.
TransportParamsOfRetry(ch) ==
    [origDcid |-> IF ch.odcid = NoCid THEN ch.initDcid ELSE ch.odcid,
     initScid |-> ch.localCid, retryScid |-> ch.initDcid]

\* ch_generate_transport_params, the connection IDs.
TransportParams(ch) ==
    [origDcid  |-> IF ch.odcid = NoCid THEN ch.initDcid ELSE ch.odcid,
     initScid  |-> ch.localCid,
     retryScid |-> IF ch.odcid = NoCid THEN NoCid ELSE ch.initDcid]

\* Mutant: takes a packet without a chunk for data.
ReceivedAsData(ch, m) ==
    [LearnRemoteCid(ch, m) EXCEPT !.rxPns = @ \cup {m.pn}, !.got = @ \cup {m.chunk}]

\* A packet that opens and is new: its chunk goes to TLS, and the tick
\* acknowledges it; the last chunk brings out the server's flight.
Received(ch, m) ==
    [LearnRemoteCid(ch, m) EXCEPT
        !.rxPns = @ \cup {m.pn},
        !.got = IF m.chunk = PING THEN @ ELSE @ \cup {m.chunk}]

Reply(ch, old) ==
    [type |-> "SERVER", dcid |-> ch.remoteCid, scid |-> ch.localCid,
     key |-> ch.initDcid, acks |-> ch.rxPns,
     tp |-> IF ch.got = Chunks /\ old # Chunks THEN TransportParams(ch) ELSE None]

\* The unlimited mode, or an odcid, which only a valid token gives.
StartsValidated(valid) == port.unlimited \/ valid

\* Mutant: the secrets are those of the client's very first packets.
InitDcidOfToken(m) ==
    IF m.token # None /\ m.token.retry THEN m.token.odcid ELSE m.dcid

\* ch->init_dcid, from which the channel derives its Initial secrets.
InitDcid(m) == m.dcid

\* The channel port_bind_channel makes for m.  With a valid token the local
\* ID is the one the client was told to use; otherwise it is random, and the
\* scid the port passes is an uninitialized variable.
NewChannel(m) ==
    LET retry == m.token # None /\ m.token.retry
        valid == ValidateToken(m)
    IN  [conn |-> m.scid, peer |-> m.from, initDcid |-> InitDcid(m),
         odcid |-> IF ~valid THEN NoCid ELSE IF retry THEN m.token.odcid ELSE nextCid,
         localCid |-> IF valid THEN m.dcid ELSE nextCid,
         remoteCid |-> IF valid THEN (IF retry THEN m.token.rscid ELSE m.scid) ELSE None,
         validated |-> StartsValidated(valid),
         newToken |-> IF valid /\ GenNewToken(m)
                      THEN GenerateToken(FALSE, m.from, NoCid, NoCid) ELSE None,
         enc |-> FALSE, got |-> {}, rxPns |-> {}, complete |-> FALSE]

\* Mutant: the first destination ID is not enrolled.
EnrolLocalOnly(ch) == {ch.localCid}

\* The IDs enrolled for a channel: its own, and the client's first one.
Enrolled(ch) == {ch.localCid, IF ch.odcid = NoCid THEN ch.initDcid ELSE ch.odcid}

\* port_default_packet_handler for a new connection, and the channel's first
\* packet.  A port that does not validate addresses hands out no tokens, so
\* its clients have none.
NewConn(m) ==
    LET ch  == NewChannel(m)
        ids == Enrolled(ch)
        ch1 == Received(ch, m)
        i   == Len(chans) + 1
    IN  /\ m.type = "INITIAL"
        /\ m.dcid \notin DOMAIN lcids /\ m.key = m.dcid
        /\ IF port.validate THEN ValidateToken(m) ELSE m.token = None
        /\ ids \cap DOMAIN lcids = {}
        /\ chans' = Append(chans, ch1)
        /\ lcids' = [x \in DOMAIN lcids \cup ids |-> IF x \in ids THEN i ELSE lcids[x]]
        /\ nextCid' = nextCid + 1
        /\ net' = net \cup {Reply(ch1, {})}
        /\ UNCHANGED <<clock, port, addr, cl, cache, count>>

\* An Initial packet for a connection ID in use.  Packets under other
\* secrets, repeated packet numbers and a discarded level are dropped.
RxInitial(m) ==
    /\ m.type = "INITIAL"
    /\ m.dcid \in DOMAIN lcids
    /\ LET i   == lcids[m.dcid]
           ch  == chans[i]
           ch1 == Received(ch, m)
       IN  /\ m.key = ch.initDcid
           /\ ~ch.complete
           /\ m.pn \notin ch.rxPns
           /\ chans' = [chans EXCEPT ![i] = ch1]
           /\ net' = net \cup {Reply(ch1, ch.got)}
    /\ UNCHANGED <<clock, port, addr, cl, cache, lcids, nextCid, count>>

\* The client's Finished, in a Handshake packet: the handshake is complete,
\* the address validated, and the pending token goes out.
RxFinished(m) ==
    /\ m.type = "FINISHED"
    /\ m.dcid \in DOMAIN lcids
    /\ LET i  == lcids[m.dcid]
           ch == chans[i]
       IN  /\ ~ch.complete
           /\ chans' = [chans EXCEPT ![i].complete = TRUE, ![i].validated = TRUE,
                                     ![i].newToken = None]
           /\ net' = IF ch.newToken = None THEN net
                     ELSE net \cup {[type |-> "NEW_TOKEN", dcid |-> ch.remoteCid,
                                     token |-> ch.newToken]}
    /\ UNCHANGED <<clock, port, addr, cl, cache, lcids, nextCid, count>>
-----------------------------------------------------------------------------
(* The network keeps a datagram available, so that it may arrive late and  *)
(* more than once, unless it is lost.  What follows the server's flight is *)
(* not lost here, and no more is lost than the timeouts left can repair.   *)

Lose(m) ==
    /\ count.lost < MaxLose
    /\ m.type = "SERVER" => m.tp = None
    /\ m.type \in {"INITIAL", "RETRY", "SERVER"}
    /\ \A c \in Conns : cl[c].st = "active" => cl[c].ptos + PktThreshold <= MaxPto
    /\ net' = net \ {m}
    /\ count' = [count EXCEPT !.lost = @ + 1]
    /\ UNCHANGED <<clock, port, addr, cl, cache, chans, lcids, nextCid>>

\* A NAT on the way gives a client another address.  What is under way keeps
\* the old one, and so does a channel.
Rebind(c, a) ==
    /\ count.rebinds < MaxRebind
    /\ a # addr[c]
    /\ addr' = [addr EXCEPT ![c] = a]
    /\ count' = [count EXCEPT !.rebinds = @ + 1]
    /\ UNCHANGED <<clock, port, cl, cache, chans, lcids, nextCid, net>>

Tick ==
    /\ clock < MaxTime
    /\ clock' = clock + 1
    /\ UNCHANGED <<port, addr, cl, cache, chans, lcids, nextCid, net, count>>

Init ==
    /\ clock = 0
    /\ port \in Modes
    /\ addr \in [Conns -> Addrs]
    /\ cl = [c \in Conns |->
               [st |-> "idle", initDcid |-> NoCid, dcid |-> NoCid, key |-> NoCid,
                token |-> None, retry |-> FALSE, retryScid |-> NoCid,
                enc |-> FALSE, initScid |-> NoCid, nextPn |-> 0,
                flight |-> {}, ptos |-> 0]]
    /\ cache = None
    /\ chans = <<>>
    /\ lcids = [x \in {} |-> 0]
    /\ nextCid = 1
    /\ net = {}
    /\ count = [retries |-> 0, lost |-> 0, rebinds |-> 0]

ClientRx(c) ==
    \E m \in net :
        \/ RxRetry(c, m)
        \/ \E k \in {-1} \cup {p.pn : p \in cl[c].flight} : RxServer(c, m, k)
        \/ RxNewToken(c, m)

ServerRx == \E m \in net : SendRetry(m) \/ NewConn(m) \/ RxInitial(m) \/ RxFinished(m)

Next ==
    \/ \E c \in Conns : Start(c) \/ Pto(c) \/ ClientRx(c)
    \/ ServerRx
    \/ \E m \in net : Lose(m)
    \/ \E c \in Conns, a \in Addrs : Rebind(c, a)
    \/ Tick

Spec == Init /\ [][Next]_vars

\* The reactor is ticked on both sides whenever a datagram arrives or a timer
\* expires, and a datagram sent again and again arrives.
FairSpec ==
    /\ Spec
    /\ WF_vars(ServerRx)
    /\ \A c \in Conns : WF_vars(Pto(c)) /\ WF_vars(ClientRx(c))
-----------------------------------------------------------------------------
Tokens == [retry : BOOLEAN, time : Nat, addr : Addrs, odcid : Nat, rscid : Nat,
           tail : BOOLEAN]

\* Every record has the fields and ranges of its C declaration.
TypeOK ==
    /\ clock \in Nat
    /\ port \in Modes
    /\ addr \in [Conns -> Addrs]
    /\ cl \in [Conns ->
         [st : {"idle", "active", "connected", "failed"}, initDcid : Nat,
          dcid : Nat, key : Nat, token : Tokens \cup {None}, retry : BOOLEAN,
          retryScid : Nat, enc : BOOLEAN, initScid : Nat, nextPn : Nat,
          flight : SUBSET [pn : Nat, chunk : 0..NChunks], ptos : Nat]]
    /\ cache \in Tokens \cup {None}
    /\ \A i \in 1..Len(chans) : chans[i] \in
         [conn : Conns, peer : Addrs, initDcid : Nat, odcid : Nat, localCid : Nat,
          remoteCid : Conns \cup Nat \cup {None}, validated : BOOLEAN,
          newToken : Tokens \cup {None}, enc : BOOLEAN, got : SUBSET Chunks,
          rxPns : SUBSET Nat, complete : BOOLEAN]
    /\ \A x \in DOMAIN lcids : x \in Nat /\ lcids[x] \in 1..Len(chans)
    /\ nextCid \in Nat
    /\ count \in [retries : Nat, lost : Nat, rebinds : Nat]

\* No client is turned away by its own checks: whatever was lost, repeated or
\* late, however many Retry packets were sent and whatever token it started
\* with, the IDs the server puts in its transport parameters are the ones the
\* client saw, and a Retry always finds packet number 0 to send again.
NoSpuriousFailure == \A c \in Conns : cl[c].st # "failed"

\* The server has at most one channel for a connection, although every packet
\* of the ClientHello, repeated or late, can look like a new connection.
OneChannelPerConn ==
    \A i, j \in 1..Len(chans) : chans[i].conn = chans[j].conn => i = j

\* A server channel and its client derived their Initial secrets from the
\* same connection ID; if not, neither could ever open the other's packets.
SecretsAgree == \A i \in 1..Len(chans) : chans[i].initDcid = cl[chans[i].conn].key

\* A channel exempt from the amplification limit before its handshake is
\* complete sends to an address whose owner got a token there and returned it:
\* a client whose address changes between the Retry and the packet that brings
\* the token back does not take the exemption along.
ValidatedOwnsAddress ==
    \A i \in 1..Len(chans) :
        LET token == cl[chans[i].conn].token
        IN  chans[i].validated /\ ~chans[i].complete /\ ~port.unlimited =>
                token # None /\ token.addr = chans[i].peer

\* What the server sends is addressed to a client's connection ID, although
\* the port starts a channel with an unset or a wrong one.
RepliesReachClient ==
    \A m \in net : m.type \in {"SERVER", "NEW_TOKEN"} => m.dcid \in Conns

\* A client that starts completes its handshake, although a Retry makes it
\* send only the first packet of its ClientHello again and datagrams get lost.
HandshakeCompletes ==
    \A c \in Conns : (cl[c].st = "active") ~> (cl[c].st = "connected")

\* "Tokens may still be communicated from the server via NEW_TOKEN frames,
\* which will still be validated on receipt in future connections"
\* (SSL_new_listener.pod): a client that starts with such a token, from the
\* address it was given to and in time, has it accepted.
NewTokenAccepted ==
    \A m \in net :
        m.type = "INITIAL" /\ m.token # None =>
            (/\ ~m.token.retry
             /\ m.token.addr = m.from
             /\ clock - m.token.time <= Lifetime(m.token)
                => ValidateToken(m))
=============================================================================
