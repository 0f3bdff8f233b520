-------------------------- MODULE MCRedundantReader --------------------------
(* RedundantReader for TLC: two nodes, one counter. *)
EXTENDS RedundantReader

CONSTANTS good, press

MachineOfTag == [c \in Counter |-> press]
=============================================================================
