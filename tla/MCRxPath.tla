------------------------------ MODULE MCRxPath ------------------------------
(* Bounds of RxPath for TLC. *)
EXTENDS RxPath

\* One Handshake packet, to race the packet that discards its space.
MostlyApp == [handshake |-> 1, app |-> 3]
\* Enough numbers for one range more than the history keeps.
ManyRanges == [handshake |-> 0, app |-> 6]
NoneOfHandshake == [handshake |-> 0, app |-> 1]
=============================================================================
