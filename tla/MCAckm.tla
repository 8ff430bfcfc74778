------------------------------- MODULE MCAckm -------------------------------
(* Round-trip estimates of Ackm for TLC: a loss delay and a probe timeout. *)
EXTENDS Ackm

TwoEstimates == {<<1, 1>>, <<2, 2>>}
=============================================================================
