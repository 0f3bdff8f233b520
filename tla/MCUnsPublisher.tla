--------------------------- MODULE MCUnsPublisher ---------------------------
(* UnsPublisher for TLC: odd messages are of a line, even ones of an order. *)
EXTENDS UnsPublisher

CONSTANTS line, orders

Topics == [m \in Message |-> IF m % 2 = 1 THEN line ELSE orders]
=============================================================================
