--------------------------- MODULE MCCircularQueue --------------------------
(* A ring of three slots over three values: long enough for the contents   *)
(* to start in, and to wrap around, every slot at every length.            *)
EXTENDS CircularQueue
=============================================================================
