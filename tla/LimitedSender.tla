--------------------------- MODULE LimitedSender ---------------------------
(***************************************************************************)
(* What the sending half of a server channel promises its peer and its TLS *)
(* until the handshake is confirmed, without packets, datagrams, probes or *)
(* congestion: a byte of the handshake is waiting, on its way or           *)
(* acknowledged and moves only between these; and until the address is     *)
(* validated, what is sent stays within a multiple of what was received.   *)
(*                                                                         *)
(* A byte is a pair of its encryption level and its offset.                *)
(***************************************************************************)
EXTENDS Naturals

CONSTANT Factor     \* the amplification limit

VARIABLES
    credited,       \* bytes received that count towards the limit
    spent,          \* bytes sent while the limit applied
    validated,      \* the peer's address is validated
    open,           \* encryption levels in use
    waiting,        \* bytes to be sent, or to be sent again
    flying,         \* bytes sent and not yet known to be received or lost
    arrived         \* bytes acknowledged

svars == <<credited, spent, validated, open, waiting, flying, arrived>>

\* The bytes of S whose level is in L.
At(S, L) == {b \in S : b[1] \in L}

Init ==
    /\ credited = 0 /\ spent = 0
    /\ validated \in BOOLEAN
    /\ waiting = {} /\ flying = {} /\ arrived = {}

\* Waiting bytes are sent, if the limit leaves room for what is sent.
Send ==
    /\ waiting' \subseteq waiting
    /\ flying' = flying \cup (waiting \ waiting')
    /\ spent' >= spent
    /\ validated \/ spent' <= Factor * credited
    /\ UNCHANGED <<credited, validated, open, arrived>>

\* A packet of the peer acknowledges bytes, shows others to be lost, brings
\* credit or validates the address, opens levels with the flight TLS writes,
\* or closes levels, whose bytes are forgotten.
Receive ==
    LET acked == arrived' \ arrived
        kept  == At(waiting \cup flying, open')
        wrote == waiting \cup flying \cup arrived # {}
    IN  /\ credited' >= credited
        /\ validated => validated'
        /\ wrote => open' \subseteq open
        /\ arrived \subseteq arrived' /\ acked \subseteq flying
        /\ flying' \subseteq At(flying, open') \ acked
        /\ wrote => waiting' = kept \ (flying' \cup acked)
        /\ UNCHANGED spent

Next == Send \/ Receive

Spec == Init /\ [][Next]_svars
=============================================================================
