-------------------------- MODULE DeviceOwnership --------------------------
(***************************************************************************)
(* What device leases promise (src/docs/adr/0007-remote-device-leases.md): *)
(* a device slot has at most one owner at a time; it is claimed only with  *)
(* an id never seen before, so an owner that lost a slot never gets it     *)
(* back under the same id; and an owner is displaced only after its lease  *)
(* lapsed.  The abstract state knows nothing of tenants, runs or bindings. *)
(***************************************************************************)
CONSTANTS Slots, Owners, Nobody

VARIABLES
    owner,    \* the owner of each slot, or Nobody
    seen,     \* ids ever used
    lapsed    \* ids whose lease has run out

Init ==
    /\ owner = [s \in Slots |-> Nobody]
    /\ seen = {}
    /\ lapsed = {}

\* A step may free any slots, and may claim one slot with a new id.  A slot is
\* claimed when it was free, or in the step that evicts a lapsed owner.
Vacate(freed) == [s \in Slots |-> IF s \in freed THEN Nobody ELSE owner[s]]

Free(freed) ==
    /\ owner' = Vacate(freed)
    /\ UNCHANGED seen

Claim(freed, slot, id) ==
    /\ id \notin seen
    /\ owner[slot] # Nobody => slot \in freed /\ owner[slot] \in lapsed
    /\ owner' = [Vacate(freed) EXCEPT ![slot] = id]
    /\ seen' = seen \cup {id}

\* A lease of a whole backend takes an id and no slot.
Reserve(freed, id) ==
    /\ id \notin seen
    /\ owner' = Vacate(freed)
    /\ seen' = seen \cup {id}

\* Lapsed owners stay lapsed, and nobody claims a slot with a lapsed lease.
Lapse == lapsed \subseteq lapsed' /\ lapsed' \subseteq seen

Next ==
    /\ Lapse
    /\ \E freed \in SUBSET Slots :
          \/ Free(freed)
          \/ \E slot \in Slots, id \in Owners : Claim(freed, slot, id)
          \/ \E id \in Owners : Reserve(freed, id)

Spec == Init /\ [][Next]_<<owner, seen, lapsed>>
=============================================================================
