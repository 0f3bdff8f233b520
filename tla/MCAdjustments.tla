---------------------------- MODULE MCAdjustments ----------------------------
(***************************************************************************)
(* Adjustments for TLC: two recommendations for the filler's speed, one    *)
(* after the other, and one for the oven's temperature.                    *)
(***************************************************************************)
EXTENDS Adjustments

CONSTANTS speed, temperature, filling, baking, ada, bo

Setpoint == [r \in Rec |-> IF r = 2 THEN temperature ELSE speed]

\* Every setpoint on the one endpoint, or each machine on its own.
AllFilling == [t \in Tag |-> filling]
TwoEndpoints == [t \in Tag |-> IF t = speed THEN filling ELSE baking]
=============================================================================
