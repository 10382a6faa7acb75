------------------------------ MODULE KeyedLock ------------------------------
(***************************************************************************)
(* The keyed lock of utils/keyed-lock.ts.  A map holds, per key, the       *)
(* promise of the last caller that asked for it (tail); a caller chains    *)
(* its task behind that promise (ahead) and becomes the new tail.  When    *)
(* its task has settled the next caller may start, and only afterwards     *)
(* does the caller's own cleanup look at the map again: it deletes the     *)
(* entry when nobody has queued behind it meanwhile.                       *)
(*                                                                         *)
(* An acquisition is one call of withKeyedLock: the key and the async      *)
(* context it runs in.  A context that already holds the key does not call *)
(* the lock again (the re-entrancy of lines 15-18 is the caller's).        *)
(***************************************************************************)
EXTENDS FiniteSets

CONSTANTS
    Keys,       \* what may be locked
    Callers,    \* the async contexts that take locks
    None        \* no acquisition, no device

Acquisitions == [key : Keys, caller : Callers]

ASSUME NoneAssumption == None \notin Acquisitions

VARIABLES
    tail,       \* per key: the acquisition whose promise the map holds
    live,       \* the acquisitions that have asked and not settled
    ahead       \* the unsettled acquisition each one is chained behind

lockVars == <<tail, live, ahead>>

LockTypeOK ==
    /\ tail \in [Keys -> Acquisitions \cup {None}]
    /\ live \subseteq Acquisitions
    /\ ahead \in [Acquisitions -> Acquisitions \cup {None}]

LockInit ==
    /\ tail = [k \in Keys |-> None]
    /\ live = {}
    /\ ahead = [a \in Acquisitions |-> None]

Granted(a) == a \in live /\ ahead[a] = None

(* locks.get(key) ?? Promise.resolve(), then locks.set(key, current); a tail
   that has settled lets the task start at once. *)
Enqueue(a) ==
    /\ a \notin live
    /\ tail[a.key] # a
    /\ tail' = [tail EXCEPT ![a.key] = a]
    /\ live' = live \cup {a}
    /\ ahead' = [ahead EXCEPT ![a] = IF tail[a.key] \in live THEN tail[a.key] ELSE None]

(* The task has returned or thrown; previous.catch().then() starts the next. *)
Settle(a) ==
    /\ Granted(a)
    /\ live' = live \ {a}
    /\ ahead' = [b \in Acquisitions |-> IF ahead[b] = a THEN None ELSE ahead[b]]
    /\ UNCHANGED tail

CleanupAlways(a) ==
    /\ a \notin live
    /\ tail' = [tail EXCEPT ![a.key] = None]
    /\ UNCHANGED <<live, ahead>>

(* current.finally(): only the caller that is still the tail deletes the entry. *)
Cleanup(a) ==
    /\ a \notin live
    /\ tail' = IF tail[a.key] = a THEN [tail EXCEPT ![a.key] = None] ELSE tail
    /\ UNCHANGED <<live, ahead>>

LockNext == \E a \in Acquisitions : Enqueue(a) \/ Settle(a) \/ Cleanup(a)

LockSpec == LockInit /\ [][LockNext]_lockVars

-----------------------------------------------------------------------------
(* No two tasks of one key run at once, however late a finished caller's
   cleanup of the map comes and whoever has queued meanwhile
   (keyed-lock.ts:24-28). *)
KeyExclusive ==
    \A a, b \in Acquisitions : Granted(a) /\ Granted(b) /\ a.key = b.key => a = b
=============================================================================
