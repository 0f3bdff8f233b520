------------------------------- MODULE MCLease -------------------------------
(* Lease for TLC: a bounded clock and a symmetric set of nodes. *)
EXTENDS Lease, TLC

Symmetry == Permutations(Node)
=============================================================================
