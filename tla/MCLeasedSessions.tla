-------------------------- MODULE MCLeasedSessions --------------------------
(* Instances of LeasedSessions for TLC: two clients, of which the first has two
   requests under way at a time. *)
EXTENDS LeasedSessions, TLC

CONSTANTS p1, p2, p3, alice, bob

MCClientOf(p) == IF p = p3 THEN bob ELSE alice

Symmetry == Permutations(LeaseIds) \cup Permutations({p1, p2})
=============================================================================
