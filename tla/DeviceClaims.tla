------------------------------ MODULE DeviceClaims ------------------------------
(***************************************************************************)
(* The advisory claim of one local device: src/src/daemon/device-claims.ts *)
(* and its use by session open and close, by the clean-up of a session     *)
(* whose lease expired and by the shutdown of a daemon.  The claim file is *)
(* read and written under the process lock of ProcessLock, by daemons that *)
(* may die at any step.  Opening does not depend on the claim: a daemon    *)
(* that finds the claim of another goes on without one.  A daemon has one  *)
(* claim operation under way at a time.                                    *)
(***************************************************************************)
EXTENDS ProcessLock, Naturals

CONSTANTS
    Openers,    \* daemons that open sessions on the device
    Pruners,    \* daemons that start, and prune, while others serve
    MaxClaims   \* claims a daemon writes

Claims == [owner : Procs, token : 1..MaxClaims]
Kinds == {"claim", "rollback", "close", "expiry", "shutdown", "prune"}

\* ended: torn down when its lease expired, and left in the store under its key.
\* stopped: the daemon has shut down, and serves no more.
Sessions == {"none", "opening", "open", "ended", "stopped"}

ASSUME ClaimAssumption ==
    /\ Openers \subseteq Procs /\ Pruners \subseteq Procs
    /\ MaxClaims \in Nat \ {0}
    /\ None \notin Claims \cup Kinds

VARIABLES
    claim,    \* the claim file: None, or its owner and token
    session,  \* the daemon's session on the device
    owned,    \* the ownership the session keeps: None or the claim it wrote
    job,      \* the claim operation under way
    pruned,   \* pruneDeadDeviceClaims has run
    left,     \* history: a session was deleted and its claim left behind
    count     \* claims written

claimVars == <<claim, session, owned, job, pruned, left, count>>
allVars == <<lockVars, claimVars>>

NoJob == [kind |-> None, step |-> "locking", seen |-> None]
Job(kind, seen) == [kind |-> kind, step |-> "locking", seen |-> seen]

ClaimInit ==
    /\ LockInit
    /\ claim = None
    /\ session = [p \in Procs |-> "none"]
    /\ owned = [p \in Procs |-> None]
    /\ job = [p \in Procs |-> NoJob]
    /\ pruned = [p \in Procs |-> FALSE]
    /\ left = [p \in Procs |-> FALSE]
    /\ count = [p \in Procs |-> 0]

\* classifyOwnerLiveness: a start time that cannot be read is not the owner's.
JudgedDead(p, c) == ~Alive(c.owner) \/ p \in Blind

Free(p) == Alive(p) /\ job[p] = NoJob
Does(p, kind, step) == job[p].kind = kind /\ job[p].step = step
StepTo(p, s) == job' = [job EXCEPT ![p].step = s]

Begins(p, kind, seen) ==
    /\ Free(p)
    /\ Start(p)
    /\ job' = [job EXCEPT ![p] = Job(kind, seen)]

Finishes(p) ==
    /\ stage[p] = "idle"
    /\ job' = [job EXCEPT ![p] = NoJob]
    /\ UNCHANGED lockVars

(***************************************************************************)
(* acquireAdvisoryDeviceClaim                                              *)
(***************************************************************************)

OpenBegins(p) ==
    /\ p \in Openers
    /\ session[p] = "none"
    /\ Begins(p, "claim", None)
    /\ UNCHANGED <<claim, session, owned, pruned, left, count>>

\* A claim there is, dead or alive, is a conflict unless it is the session's own.
FindClaim(p) ==
    /\ stage[p] = "held" /\ Does(p, "claim", "locking")
    /\ IF claim = None THEN count[p] < MaxClaims /\ StepTo(p, "acting") /\ UNCHANGED owned
       ELSE /\ StepTo(p, "done")
            /\ owned' = [owned EXCEPT ![p] = IF claim.owner = p THEN claim ELSE None]
    /\ UNCHANGED <<lockVars, claim, session, pruned, left, count>>

\* Mutant: a claim is written without a token of its own.
WriteClaimUntokened(p) ==
    /\ stage[p] = "held" /\ Does(p, "claim", "acting")
    /\ LET new == [owner |-> p, token |-> 0]
       IN  claim' = new /\ owned' = [owned EXCEPT ![p] = new]
    /\ count' = [count EXCEPT ![p] = @ + 1]
    /\ StepTo(p, "done")
    /\ UNCHANGED <<lockVars, session, pruned, left>>

WriteClaim(p) ==
    /\ stage[p] = "held" /\ Does(p, "claim", "acting")
    /\ LET new == [owner |-> p, token |-> count[p] + 1]
       IN  claim' = new /\ owned' = [owned EXCEPT ![p] = new]
    /\ count' = [count EXCEPT ![p] = @ + 1]
    /\ StepTo(p, "done")
    /\ UNCHANGED <<lockVars, session, pruned, left>>

\* Without the lock the operation throws, and the open with it.
ClaimEnds(p) ==
    /\ job[p].kind = "claim"
    /\ Finishes(p)
    /\ session' = [session EXCEPT ![p] = IF Does(p, "claim", "done") THEN "opening" ELSE @]
    /\ UNCHANGED <<claim, owned, pruned, left, count>>

(***************************************************************************)
(* The rest of open, and close                                             *)
(***************************************************************************)

OpenSucceeds(p) ==
    /\ Free(p) /\ session[p] = "opening"
    /\ session' = [session EXCEPT ![p] = "open"]
    /\ UNCHANGED <<lockVars, claim, owned, job, pruned, left, count>>

\* The session is gone, and nobody keeps the ownership of a claim not cleared.
Deletes(p, next) ==
    /\ session' = [session EXCEPT ![p] = next]
    /\ owned' = [owned EXCEPT ![p] = None]
    /\ left' = [left EXCEPT ![p] = left[p] \/ (owned[p] # None /\ job[p].step # "done")]

\* The session stays in the store with its ownership.
Remains(p, next) ==
    /\ session' = [session EXCEPT ![p] = next]
    /\ UNCHANGED <<owned, left>>

\* The app may already have been touched: rollbackNewSessionClaim keeps the claim.
OpenFailsLate(p) ==
    /\ Free(p) /\ session[p] = "opening"
    /\ Deletes(p, "none")
    /\ UNCHANGED <<lockVars, claim, job, pruned, count>>

\* Mutant: a preparation that fails is not rolled back.
OpenFailsEarlyKept(p) ==
    /\ Free(p) /\ session[p] = "opening"
    /\ session' = [session EXCEPT ![p] = "none"]
    /\ owned' = [owned EXCEPT ![p] = None]
    /\ UNCHANGED <<lockVars, claim, job, pruned, left, count>>

OpenFailsEarly(p) ==
    /\ session[p] = "opening"
    /\ Begins(p, "rollback", owned[p])
    /\ UNCHANGED <<claim, session, owned, pruned, left, count>>

Stored(p) == session[p] \in {"open", "ended"}

CloseBegins(p) ==
    /\ Stored(p)
    /\ Begins(p, "close", owned[p])
    /\ UNCHANGED <<claim, session, owned, pruned, left, count>>

\* runCloseTeardownAndRelease: after a failed teardown the claim is not cleared.
CloseFails(p) ==
    /\ Free(p) /\ Stored(p)
    /\ Deletes(p, "none")
    /\ UNCHANGED <<lockVars, claim, job, pruned, count>>

(***************************************************************************)
(* Expired leases, and shutdown                                            *)
(***************************************************************************)

\* cleanupExpiredLeasedSession clears the claim even after a failed teardown.
ExpiryBegins(p) ==
    /\ session[p] = "open"
    /\ Begins(p, "expiry", owned[p])
    /\ UNCHANGED <<claim, session, owned, pruned, left, count>>

\* teardownDaemonSessionForShutdown clears it after a teardown that succeeded in time.
ShutdownBegins(p) ==
    /\ Stored(p)
    /\ Begins(p, "shutdown", owned[p])
    /\ UNCHANGED <<claim, session, owned, pruned, left, count>>

\* The teardown failed or timed out: the claim is left to the daemon's end.
ShutdownFails(p) ==
    /\ Free(p) /\ Stored(p)
    /\ Deletes(p, "stopped")
    /\ UNCHANGED <<lockVars, claim, job, pruned, count>>

(***************************************************************************)
(* clearAdvisoryDeviceClaim                                                *)
(***************************************************************************)

Clears(p) == job[p].kind \in {"rollback", "close", "expiry", "shutdown"}

\* Mutant: a session clears whatever claim there is.
MatchesOwnershipAny(p) == claim # None

MatchesOwnership(p) == claim # None /\ claim = job[p].seen

FindOwn(p) ==
    /\ stage[p] = "held" /\ Clears(p) /\ job[p].step = "locking"
    /\ StepTo(p, IF MatchesOwnership(p) THEN "acting" ELSE "done")
    /\ UNCHANGED <<lockVars, claim, session, owned, pruned, left, count>>

\* unlinkSync removes the file that is there by now.
Unlink(p) ==
    /\ stage[p] = "held" /\ job[p].kind # "claim" /\ job[p].step = "acting"
    /\ claim' = None
    /\ StepTo(p, "done")
    /\ UNCHANGED <<lockVars, session, owned, pruned, left, count>>

\* Without the lock the operation throws: a close before the session is deleted, so
\* that it may be repeated; a rollback after the open failed.  The shutdown throws
\* too, and keeps the session.  The clean-up of an expired session swallows the
\* error and deletes by the public name, which may not be the session's key.
ClearEnds(p) ==
    /\ Clears(p)
    /\ Finishes(p)
    /\ LET kind == job[p].kind
           done == job[p].step = "done"
       IN  \/ kind \in {"rollback", "expiry"} /\ Deletes(p, "none")
           \/ kind = "expiry" /\ Remains(p, "ended")
           \/ kind = "close" /\ done /\ Deletes(p, "none")
           \/ kind = "close" /\ ~done /\ Remains(p, session[p])
           \/ kind = "shutdown" /\ done /\ Deletes(p, "stopped")
           \/ kind = "shutdown" /\ ~done /\ Remains(p, "stopped")
    /\ UNCHANGED <<claim, pruned, count>>

(***************************************************************************)
(* pruneDeadDeviceClaims, at the start of a daemon                         *)
(***************************************************************************)

PruneScans(p) ==
    /\ p \in Pruners /\ ~pruned[p] /\ session[p] # "stopped"
    /\ claim # None /\ JudgedDead(p, claim)
    /\ Begins(p, "prune", claim)
    /\ pruned' = [pruned EXCEPT ![p] = TRUE]
    /\ UNCHANGED <<claim, session, owned, left, count>>

\* Mutant: the claim is not looked at again under the lock.
StillDeadUnchecked(p) == claim # None

StillDead(p) == claim # None /\ JudgedDead(p, claim) /\ claim.token = job[p].seen.token
                             /\ claim.owner = job[p].seen.owner

PruneChecks(p) ==
    /\ stage[p] = "held" /\ Does(p, "prune", "locking")
    /\ StepTo(p, IF StillDead(p) THEN "acting" ELSE "done")
    /\ UNCHANGED <<lockVars, claim, session, owned, pruned, left, count>>

PruneEnds(p) ==
    /\ job[p].kind = "prune"
    /\ Finishes(p)
    /\ UNCHANGED <<claim, session, owned, pruned, left, count>>

(***************************************************************************)
(* The specification                                                       *)
(***************************************************************************)

\* Sessions, ownership and the operation under way are the process's memory.
DaemonDies(p) ==
    /\ Dies(p)
    /\ session' = [session EXCEPT ![p] = "none"]
    /\ owned' = [owned EXCEPT ![p] = None]
    /\ job' = [job EXCEPT ![p] = NoJob]
    /\ UNCHANGED <<claim, pruned, left, count>>

LockStep(p) ==
    /\ job[p] # NoJob
    /\ \/ Acquiring(p) \/ TimesOut(p) \/ MisreadOwner(p)
       \/ job[p].step = "done" /\ Release(p)
    /\ UNCHANGED claimVars

ClaimStep(p) ==
    \/ OpenBegins(p) \/ FindClaim(p) \/ WriteClaim(p) \/ ClaimEnds(p)
    \/ OpenSucceeds(p) \/ OpenFailsLate(p) \/ OpenFailsEarly(p)
    \/ CloseBegins(p) \/ CloseFails(p) \/ ExpiryBegins(p)
    \/ ShutdownBegins(p) \/ ShutdownFails(p)
    \/ FindOwn(p) \/ Unlink(p) \/ ClearEnds(p)
    \/ PruneScans(p) \/ PruneChecks(p) \/ PruneEnds(p)

ClaimNext ==
    \/ \E p \in Procs : LockStep(p) \/ ClaimStep(p) \/ DaemonDies(p)
    \/ Age /\ UNCHANGED claimVars

ClaimSpec == ClaimInit /\ [][ClaimNext]_allVars

\* Lock operations are synchronous calls of a process that lives; a directory
\* that is left alone grows old.
FairClaimSpec ==
    /\ ClaimSpec
    /\ \A p \in Procs : WF_allVars(job[p] # NoJob /\ Acquiring(p) /\ UNCHANGED claimVars)
    /\ WF_allVars(Age /\ UNCHANGED claimVars)

(***************************************************************************)
(* Properties                                                              *)
(***************************************************************************)

\* The types of the claim file and of what the daemons of device-claims.ts keep.
ClaimTypeOK ==
    /\ LockTypeOK
    /\ claim \in Claims \cup {None}
    /\ session \in [Procs -> Sessions]
    /\ owned \in [Procs -> Claims \cup {None}]
    /\ job \in [Procs -> [kind : Kinds \cup {None},
                          step : {"locking", "acting", "done"},
                          seen : Claims \cup {None}]]
    /\ pruned \in [Procs -> BOOLEAN]
    /\ left \in [Procs -> BOOLEAN]
    /\ count \in [Procs -> 0..MaxClaims]

Clearing(p) == Clears(p) /\ job[p].step = "done"

\* The ownership a live session keeps is that of the claim file: no other daemon's
\* open, close or prune takes it, as long as the lock held off the others.
OwnershipHolds ==
    misfire \/ \A p \in Procs :
        owned[p] # None /\ session[p] \notin {"ended", "stopped"} /\ ~Clearing(p)
           => claim = owned[p]

\* A live daemon's claim belongs to a session of its, unless it was left behind:
\* by an open that may have touched the app, a teardown that failed at close or
\* shutdown, or a clear that failed in a rollback or, swallowed, when the session's
\* lease expired.  No other order of operations leaves one.
NoClaimLeaked ==
    misfire \/ (claim # None /\ Alive(claim.owner) /\ ~left[claim.owner]
                  => owned[claim.owner] = claim)

Prunes(p) == job[p].kind = "prune" /\ job[p].step = "acting" /\ job'[p].step = "done"

\* "Deleting on the first read would take the successor with it": the claim that is
\* deleted by the prune is the one that was checked under the lock.
SuccessorKept ==
    [][\A p \in Procs : Prunes(p) => claim \in {job[p].seen, None}]_allVars
=============================================================================
