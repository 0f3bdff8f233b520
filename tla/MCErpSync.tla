------------------------------ MODULE MCErpSync ------------------------------
(***************************************************************************)
(* ErpSync for TLC. ERPNext's allowance admits no entry for the last       *)
(* completion, which it refuses, and has room to spare for any other.      *)
(***************************************************************************)
EXTENDS ErpSync

CONSTANT Refused

RoomFor == [m \in Stocked |-> IF m = Refused THEN 0 ELSE 2]
=============================================================================
