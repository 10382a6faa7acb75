--------------------------- MODULE MCSessionRepair ---------------------------
(* Instances of SessionRepair for TLC. *)
EXTENDS SessionRepair, TLC

CONSTANTS healed, other, app, plain, session1, scoped1

Symmetry == Permutations({app, plain})
=============================================================================
