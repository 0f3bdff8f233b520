---------------------------- MODULE MCWorkOrders ----------------------------
(***************************************************************************)
(* WorkOrders for TLC: orders for a drink that is mixed (10), then packed  *)
(* (20).                                                                   *)
(***************************************************************************)
EXTENDS WorkOrders

CONSTANTS mixer, packer

Route == [s \in Operation |-> IF s = 20 THEN packer ELSE mixer]
=============================================================================
