-------------------------- MODULE MCLeaseRegistry --------------------------
(* Finite instances of LeaseRegistry for TLC. *)
EXTENDS LeaseRegistry, TLC

Symmetry == Permutations(LeaseIds)
=============================================================================
