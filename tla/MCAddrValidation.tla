-------------------------- MODULE MCAddrValidation --------------------------
(* Model-checking instances of AddrValidation: the modes in which the demo *)
(* server opens its listener.                                              *)
EXTENDS AddrValidation

DefaultMode   == [validate |-> FALSE, unlimited |-> FALSE]
UnlimitedMode == [validate |-> FALSE, unlimited |-> TRUE]
RetryMode     == [validate |-> TRUE, unlimited |-> FALSE]

AllModes     == {DefaultMode, UnlimitedMode, RetryMode}
LimitedModes == {DefaultMode, RetryMode}
RetryOnly    == {RetryMode}
=============================================================================
