------------------------- MODULE MCMessageDelivery --------------------------
(* Small instances of MessageDelivery for TLC. *)
EXTENDS MessageDelivery
=============================================================================
