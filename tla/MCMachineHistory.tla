-------------------------- MODULE MCMachineHistory --------------------------
(* MachineHistory for TLC: a machine that runs or is down.                  *)
EXTENDS MachineHistory
=============================================================================
