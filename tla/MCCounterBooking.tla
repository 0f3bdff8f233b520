-------------------------- MODULE MCCounterBooking --------------------------
(***************************************************************************)
(* CounterBooking for TLC: a press and a filler with a counter each, whose *)
(* readings share batches. What fails for one may not touch the other.     *)
(***************************************************************************)
EXTENDS CounterBooking

CONSTANTS good, filled, press, filler

TwoMachines == {good, filled}
MachineOfTag == [c \in Counter |-> IF c = filled THEN filler ELSE press]
=============================================================================
