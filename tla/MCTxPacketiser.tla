--------------------------- MODULE MCTxPacketiser ---------------------------
(* Model-checking instance of TxPacketiser. *)
EXTENDS TxPacketiser
=============================================================================
