----------------------------- MODULE MCRefFrame -----------------------------
(* Two refs and three screens: on the second the elements have changed places,
   on the third one of them has moved and the other is gone. *)
EXTENDS RefFrame, TLC

CONSTANTS e1, e2, ok, cancel, top, bottom

MCRefs == {e1, e2}
El(i, p) == [id |-> i, place |-> p]
MCTrees == {
    (e1 :> El(ok, top)) @@ (e2 :> El(cancel, bottom)),
    (e1 :> El(cancel, bottom)) @@ (e2 :> El(ok, top)),
    (e1 :> El(ok, bottom)) @@ (e2 :> None) }
=============================================================================
