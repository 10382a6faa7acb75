------------------------- MODULE DeviceClaimsProofs -------------------------
(***************************************************************************)
(* Proofs about ProcessLock and DeviceClaims, for any number of processes. *)
(*                                                                         *)
(* The lock excludes when no process pauses between making its directory   *)
(* and writing its owner file for longer than the grace; claims are safe   *)
(* when, besides, no daemon that prunes misjudges a live owner.  Both are  *)
(* what the code takes for granted (ownerGraceMs, classifyOwnerLiveness).  *)
(***************************************************************************)
EXTENDS DeviceClaims, TLAPS

-----------------------------------------------------------------------------
(* The lock: the inductive invariant *)

\* A directory grows old without an owner file only when its maker has died.
OldIsDead == dir # None /\ dir.old /\ dir.owner = None => ~Alive(maker)

\* Who is current has seen the directory that is there; if it was old, it still has
\* no living maker, or has got its owner file meanwhile.
SeesDead ==
    \A p \in current :
       /\ dir # None
       /\ stage[p] = "reading" /\ sawOld[p] => dir.owner # None \/ ~Alive(maker)

\* The directory is that of whoever writes its owner file or holds the lock; who has
\* judged it stale was right.
Makers ==
    /\ dir # None => dir.owner \in {None, maker}
    /\ \A p \in Procs :
        /\ stage[p] \in {"writing", "held"} => maker = p
        /\ stage[p] = "held" => dir.owner = p
        /\ stage[p] = "clearing" /\ p \in current => ~Alive(maker)

LockInv == LockTypeOK /\ OldIsDead /\ SeesDead /\ (misfire \/ Makers)

Dirs == [owner : Procs \cup {None}, old : BOOLEAN]

LEMMA DirFacts ==
  ASSUME NEW o \in Procs \cup {None}, NEW b \in BOOLEAN
  PROVE  LET d == [owner |-> o, old |-> b] IN
         d \in Dirs /\ d # None /\ d.owner = o /\ d.old = b
BY LockAssumption DEF Dirs

LEMMA LockInvInitially ==
  ASSUME LockInit
  PROVE  LockInv
<1>. USE LockAssumption DEF LockInit
<1>1. LockTypeOK
  BY DEF LockTypeOK, Stages
<1>2. OldIsDead /\ SeesDead /\ Makers
  BY DEF OldIsDead, SeesDead, Makers, Alive
<1>. QED
  BY <1>1, <1>2 DEF LockInv

\* Steps that move one process and change neither the directory nor its history.
LEMMA MovingStep ==
  ASSUME LockInv, NEW p \in Procs, Start(p) \/ Exists(p) \/ TimesOut(p)
  PROVE  LockInv'
<1>1. /\ LockTypeOK /\ OldIsDead /\ SeesDead
      /\ UNCHANGED <<dir, sawOld, maker, current, misfire>>
      /\ \E s \in {"trying", "looking", "idle"} :
            stage[p] \in {"idle", "trying"} /\ stage' = [stage EXCEPT ![p] = s]
  BY DEF LockInv, Start, Exists, TimesOut, Moves
<1>. USE LockAssumption
<1>2. LockTypeOK'
  BY <1>1 DEF LockTypeOK, Stages
<1>3. OldIsDead'
  BY <1>1 DEF LockTypeOK, OldIsDead, Alive
<1>4. SeesDead'
  BY <1>1 DEF LockTypeOK, SeesDead, Alive
<1>5. ASSUME ~misfire' PROVE Makers'
  <2>1. Makers
    BY <1>1, <1>5, Zenon DEF LockInv
  <2>. QED
    BY <1>1, <2>1 DEF LockTypeOK, Makers, Alive
<1>. QED
  BY <1>2, <1>3, <1>4, <1>5 DEF LockInv

LEMMA MakeDirStep ==
  ASSUME LockInv, NEW p \in Procs, MakeDir(p)
  PROVE  LockInv'
<1>. USE LockAssumption DEF MakeDir, Moves
<1>1. LockTypeOK /\ OldIsDead /\ SeesDead
  BY DEF LockInv
<1>2. dir' \in Dirs /\ dir' # None /\ dir'.owner = None /\ dir'.old = FALSE
  BY DirFacts
<1>3. LockTypeOK'
  BY <1>1, <1>2 DEF LockTypeOK, Stages, Dirs
<1>4. OldIsDead' /\ SeesDead'
  BY <1>1, <1>2 DEF LockTypeOK, OldIsDead, SeesDead, Alive
<1>5. ASSUME ~misfire' PROVE Makers'
  <2>1. Makers
    BY <1>5, Zenon DEF LockInv
  <2>. QED
    BY <1>1, <1>2, <2>1 DEF LockTypeOK, Makers, Alive
<1>. QED
  BY <1>3, <1>4, <1>5 DEF LockInv

LEMMA WriteOwnerStep ==
  ASSUME LockInv, NEW p \in Procs, WriteOwner(p)
  PROVE  LockInv'
<1>. USE LockAssumption DEF WriteOwner, Moves
<1>1. LockTypeOK /\ OldIsDead /\ SeesDead
  BY DEF LockInv
<1>2. dir # None =>
         dir' \in Dirs /\ dir' # None /\ dir'.owner = p /\ dir'.old = FALSE
  BY DirFacts
<1>3. LockTypeOK'
  BY <1>1, <1>2 DEF LockTypeOK, Stages, Dirs
<1>4. OldIsDead' /\ SeesDead'
  BY <1>1, <1>2 DEF LockTypeOK, OldIsDead, SeesDead, Alive
<1>5. ASSUME ~misfire' PROVE Makers'
  <2>1. Makers
    BY <1>5, Zenon DEF LockInv
  <2>2. dir # None
    BY <1>1, <2>1 DEF LockTypeOK, Makers
  <2>. QED
    BY <1>1, <1>2, <2>1, <2>2 DEF LockTypeOK, Makers, Alive
<1>. QED
  BY <1>3, <1>4, <1>5 DEF LockInv

LEMMA LookStep ==
  ASSUME LockInv, NEW p \in Procs, Look(p)
  PROVE  LockInv'
<1>. USE LockAssumption DEF Look, Moves
<1>1. LockTypeOK /\ OldIsDead /\ SeesDead
  BY DEF LockInv
<1>2. LockTypeOK'
  BY <1>1 DEF LockTypeOK, Stages
<1>3. OldIsDead' /\ SeesDead'
  BY <1>1 DEF LockTypeOK, OldIsDead, SeesDead, Alive
<1>4. ASSUME ~misfire' PROVE Makers'
  <2>1. Makers
    BY <1>4, Zenon DEF LockInv
  <2>2. CASE dir = None
    <3>1. /\ UNCHANGED <<dir, maker, current>>
          /\ \A q \in Procs : stage'[q] = IF q = p THEN "trying" ELSE stage[q]
      BY <1>1, <2>2 DEF LockTypeOK
    <3>2. maker = None /\ \A q \in Procs : stage[q] \notin {"writing", "held"}
      BY <1>1, <2>1, <2>2 DEF LockTypeOK, Makers
    <3>3. current = {}
      BY <1>1, <2>2 DEF SeesDead
    <3>. QED
      BY <2>2, <3>1, <3>2, <3>3 DEF Makers
  <2>3. CASE dir # None
    BY <1>1, <2>1, <2>3 DEF LockTypeOK, Makers, Alive
  <2>. QED
    BY <2>2, <2>3
<1>. QED
  BY <1>2, <1>3, <1>4 DEF LockInv

\* What is judged stale has a dead owner, or no owner file and a dead maker.
LEMMA ReadOwnerStep ==
  ASSUME LockInv, NEW p \in Procs, ReadOwner(p)
  PROVE  LockInv'
<1>. USE LockAssumption DEF ReadOwner, Moves, JudgesStale, OwnerRead
<1>1. LockTypeOK /\ OldIsDead /\ SeesDead
  BY DEF LockInv
<1>2. LockTypeOK'
  BY <1>1 DEF LockTypeOK, Stages
<1>3. OldIsDead' /\ SeesDead'
  BY <1>1 DEF LockTypeOK, OldIsDead, SeesDead, Alive
<1>4. ASSUME ~misfire' PROVE Makers'
  <2>1. Makers
    BY <1>4, Zenon DEF LockInv
  <2>2. JudgesStale(p) /\ p \in current => ~Alive(maker)
    BY <1>1, <2>1 DEF LockTypeOK, SeesDead, Makers
  <2>3. CASE JudgesStale(p)
    BY <1>1, <2>1, <2>2, <2>3 DEF LockTypeOK, Makers, Alive
  <2>4. CASE ~JudgesStale(p)
    BY <1>1, <2>1, <2>4 DEF LockTypeOK, Makers, Alive
  <2>. QED
    BY <2>3, <2>4
<1>. QED
  BY <1>2, <1>3, <1>4 DEF LockInv

LEMMA MisreadOwnerStep ==
  ASSUME LockInv, NEW p \in Procs, MisreadOwner(p)
  PROVE  LockInv'
<1>. USE LockAssumption DEF MisreadOwner, Moves
<1>1. LockTypeOK /\ OldIsDead /\ SeesDead
  BY DEF LockInv
<1>2. LockTypeOK'
  BY <1>1 DEF LockTypeOK, Stages
<1>3. OldIsDead' /\ SeesDead'
  BY <1>1 DEF LockTypeOK, OldIsDead, SeesDead, Alive
<1>4. ASSUME ~misfire' PROVE Makers'
  <2>1. Makers
    BY <1>4, Zenon DEF LockInv
  <2>. QED
    BY <1>1, <2>1 DEF LockTypeOK, Makers, Alive
<1>. QED
  BY <1>2, <1>3, <1>4 DEF LockInv

LEMMA PollStep ==
  ASSUME LockInv, NEW p \in Procs, Poll(p)
  PROVE  LockInv'
<1>. USE LockAssumption DEF Poll, Moves
<1>1. LockTypeOK /\ OldIsDead /\ SeesDead
  BY DEF LockInv
<1>2. LockTypeOK'
  BY <1>1 DEF LockTypeOK, Stages
<1>3. OldIsDead' /\ SeesDead'
  BY <1>1 DEF LockTypeOK, OldIsDead, SeesDead, Alive
<1>4. ASSUME ~misfire' PROVE Makers'
  <2>1. Makers
    BY <1>4, Zenon DEF LockInv
  <2>. QED
    BY <1>1, <2>1 DEF LockTypeOK, Makers, Alive
<1>. QED
  BY <1>2, <1>3, <1>4 DEF LockInv

\* A deletion that is no misfire hits the deleter's own directory, or one whose
\* maker is dead: nobody else is in the critical section.
LEMMA RemovalStep ==
  ASSUME LockInv, NEW p \in Procs, Clear(p) \/ Release(p)
  PROVE  LockInv'
<1>. USE LockAssumption
<1>1. /\ LockTypeOK /\ OldIsDead /\ SeesDead
      /\ \/ stage[p] = "clearing" /\ stage' = [stage EXCEPT ![p] = "trying"]
         \/ stage[p] = "held" /\ stage' = [stage EXCEPT ![p] = "idle"]
      /\ dir' = None /\ maker' = None /\ current' = {} /\ sawOld' = sawOld
      /\ misfire' = (misfire \/ (dir # None /\ p \notin current))
  BY DEF LockInv, Clear, Release, Moves, Removes
<1>2. LockTypeOK'
  BY <1>1 DEF LockTypeOK, Stages
<1>3. OldIsDead' /\ SeesDead'
  BY <1>1 DEF LockTypeOK, OldIsDead, SeesDead, Alive
<1>4. ASSUME ~misfire' PROVE Makers'
  <2>1. Makers /\ (dir = None \/ p \in current)
    BY <1>1, <1>4, Zenon DEF LockInv
  <2>2. \A q \in Procs : stage'[q] \notin {"writing", "held"}
    BY <1>1, <2>1 DEF LockTypeOK, Makers, Alive
  <2>. QED
    BY <1>1, <2>2 DEF LockTypeOK, Makers
<1>. QED
  BY <1>2, <1>3, <1>4 DEF LockInv

LEMMA DiesStep ==
  ASSUME LockInv, NEW p \in Procs, Dies(p)
  PROVE  LockInv'
<1>. USE LockAssumption DEF Dies, Moves
<1>1. LockTypeOK /\ OldIsDead /\ SeesDead
  BY DEF LockInv
<1>2. LockTypeOK'
  BY <1>1 DEF LockTypeOK, Stages
<1>3. OldIsDead' /\ SeesDead'
  BY <1>1 DEF LockTypeOK, OldIsDead, SeesDead, Alive
<1>4. ASSUME ~misfire' PROVE Makers'
  <2>1. Makers
    BY <1>4, Zenon DEF LockInv
  <2>. QED
    BY <1>1, <2>1 DEF LockTypeOK, Makers, Alive
<1>. QED
  BY <1>2, <1>3, <1>4 DEF LockInv

\* Here nobody may stall: the directory of a living maker has its owner file.
LEMMA AgeStep ==
  ASSUME LockInv, Stalling = {}, Age
  PROVE  LockInv'
<1>. USE LockAssumption DEF Age
<1>1. LockTypeOK /\ OldIsDead /\ SeesDead
  BY DEF LockInv
<1>2. LockTypeOK'
  BY <1>1 DEF LockTypeOK, Stages
<1>3. OldIsDead' /\ SeesDead'
  BY <1>1 DEF LockTypeOK, OldIsDead, SeesDead, Alive
<1>4. ASSUME ~misfire' PROVE Makers'
  <2>1. Makers
    BY <1>4, Zenon DEF LockInv
  <2>. QED
    BY <1>1, <2>1 DEF LockTypeOK, Makers, Alive
<1>. QED
  BY <1>2, <1>3, <1>4 DEF LockInv

LEMMA LockStep1 ==
  ASSUME LockInv, Stalling = {}, [LockNext]_lockVars
  PROVE  LockInv'
<1>1. ASSUME NEW p \in Procs,
             Start(p) \/ Acquiring(p) \/ TimesOut(p) \/ Release(p)
                \/ MisreadOwner(p) \/ Dies(p)
      PROVE  LockInv'
  BY <1>1, MovingStep, MakeDirStep, WriteOwnerStep, LookStep, ReadOwnerStep,
     MisreadOwnerStep, PollStep, RemovalStep, DiesStep DEF Acquiring
<1>2. CASE UNCHANGED lockVars
  <2>. USE <1>2 DEF lockVars
  <2>1. (LockTypeOK /\ OldIsDead /\ SeesDead)'
    BY DEF LockInv, LockTypeOK, OldIsDead, SeesDead, Alive
  <2>2. (misfire \/ Makers) => (misfire \/ Makers)'
    BY Zenon DEF Makers, Alive
  <2>. QED
    BY <2>1, <2>2 DEF LockInv
<1>. QED
  BY <1>1, <1>2, AgeStep DEF LockNext

\* Types need no assumption about who stalls.
LEMMA LockTypesStep ==
  ASSUME LockTypeOK, [LockNext]_lockVars
  PROVE  LockTypeOK'
<1>. USE LockAssumption DEF LockTypeOK
<1>1. ASSUME NEW p \in Procs, Start(p) \/ Exists(p) \/ TimesOut(p) \/ Poll(p) \/ Dies(p)
      PROVE  LockTypeOK'
  BY <1>1 DEF Start, Exists, TimesOut, Poll, Dies, Moves, Stages
<1>2. ASSUME NEW p \in Procs, Look(p) \/ ReadOwner(p) \/ MisreadOwner(p)
      PROVE  LockTypeOK'
  <2>1. dir = None \/ dir.old \in BOOLEAN
    OBVIOUS
  <2>. QED
    BY <1>2, <2>1 DEF Look, ReadOwner, MisreadOwner, Moves, Stages
<1>3. ASSUME NEW p \in Procs, MakeDir(p)
      PROVE  LockTypeOK'
  <2>1. dir' \in Dirs /\ dir' # None
    BY <1>3, DirFacts DEF MakeDir
  <2>. QED
    BY <1>3, <2>1 DEF MakeDir, Moves, Stages, Dirs
<1>4. ASSUME NEW p \in Procs, WriteOwner(p)
      PROVE  LockTypeOK'
  <2>1. [owner |-> p, old |-> FALSE] \in Dirs /\ [owner |-> p, old |-> FALSE] # None
    BY DirFacts
  <2>. QED
    BY <1>4, <2>1 DEF WriteOwner, Moves, Stages, Dirs
<1>5. ASSUME NEW p \in Procs, Clear(p) \/ Release(p)
      PROVE  LockTypeOK'
  BY <1>5 DEF Clear, Release, Removes, Moves, Stages
<1>6. CASE Age
  BY <1>6 DEF Age
<1>7. CASE UNCHANGED lockVars
  BY <1>7 DEF lockVars
<1>. QED
  BY <1>1, <1>2, <1>3, <1>4, <1>5, <1>6, <1>7 DEF LockNext, Acquiring

\* At most one process holds the lock, unless a directory was deleted that its
\* deleter had not found stale (process-lock.ts:65-85), as long as no process pauses
\* for longer than the grace before its owner file is written.
THEOREM LockIsExclusive ==
  ASSUME Stalling = {}
  PROVE  LockSpec => []ExclusiveUnlessMisfire
<1>1. LockInit => LockInv
  BY LockInvInitially
<1>2. LockInv /\ [LockNext]_lockVars => LockInv'
  BY LockStep1
<1>3. LockInv => ExclusiveUnlessMisfire
  BY DEF LockInv, Makers, ExclusiveUnlessMisfire
<1>. QED
  BY <1>1, <1>2, <1>3, PTL DEF LockSpec

-----------------------------------------------------------------------------
(* Claims: the inductive invariant *)

\* What a daemon does under the lock: it acts while it holds the lock, its operation
\* ends with the process, and what it saw is what its session owns.
Jobs ==
    \A p \in Procs :
       /\ job[p].kind = None => job[p] = NoJob
       /\ job[p].step = "acting" => stage[p] = "held"
       /\ job[p].step = "done" => stage[p] \in {"held", "idle"}
       /\ job[p] = NoJob => stage[p] \in {"idle", "dead"}
       /\ ~Alive(p) => job[p] = NoJob /\ owned[p] = None
       /\ Does(p, "claim", "acting") => count[p] < MaxClaims
       /\ job[p].kind = "claim" => session[p] = "none"
       /\ Clears(p) => job[p].seen = owned[p]
       /\ job[p].kind = "prune" => p \in Pruners /\ job[p].seen # None
       /\ owned[p] # None => owned[p].owner = p

\* What was found under the lock still holds when it is acted on.
Acts ==
    \A p \in Procs : job[p].step = "acting" =>
       /\ job[p].kind = "claim" => claim = None
       /\ Clears(p) => claim # None /\ claim = job[p].seen
       /\ job[p].kind = "prune" => claim = job[p].seen /\ ~Alive(claim.owner)

\* Once a session's clearing is done its claim is gone.
Cleared == \A p \in Procs : Clearing(p) => claim = None \/ claim.owner # p \/ left[p]

Claimed == Acts /\ Cleared /\ OwnershipHolds /\ NoClaimLeaked
ClaimBase == ClaimTypeOK /\ Jobs
ClaimInv == ClaimBase /\ LockInv /\ (misfire \/ Claimed)

LEMMA ClaimInvInitially ==
  ASSUME ClaimInit
  PROVE  ClaimInv
<1>. USE ClaimAssumption DEF ClaimInit, NoJob
<1>1. LockInv
  BY LockInvInitially
<1>2. ClaimTypeOK
  BY <1>1 DEF LockInv, ClaimTypeOK, Kinds, Sessions
<1>3. Jobs
  BY DEF Jobs, LockInit, Alive, Does, Clears, Kinds
<1>4. Claimed
  BY DEF Claimed, Acts, Cleared, OwnershipHolds, NoClaimLeaked, Clearing, Clears, Kinds
<1>. QED
  BY <1>1, <1>2, <1>3, <1>4 DEF ClaimInv, ClaimBase

\* Every step of the claims is one of the lock or leaves the lock alone.
LEMMA ClaimStepIsLockStep ==
  ASSUME [ClaimNext]_allVars
  PROVE  [LockNext]_lockVars
<1>1. ASSUME NEW p \in Procs, LockStep(p) \/ ClaimStep(p) \/ DaemonDies(p)
      PROVE  [LockNext]_lockVars
  BY <1>1 DEF LockNext, LockStep, DaemonDies, ClaimStep, Begins, Finishes,
     OpenBegins, FindClaim, WriteClaim, ClaimEnds, OpenSucceeds, OpenFailsLate,
     OpenFailsEarly, CloseBegins, CloseFails, ExpiryBegins, ShutdownBegins, ShutdownFails,
     FindOwn, Unlink, ClearEnds, PruneScans, PruneChecks, PruneEnds
<1>2. CASE Age /\ UNCHANGED claimVars
  BY <1>2 DEF LockNext
<1>3. CASE UNCHANGED allVars
  BY <1>3 DEF allVars
<1>. QED
  BY <1>1, <1>2, <1>3 DEF ClaimNext

\* The invariants that need no exclusion, action by action.
LEMMA BaseStep ==
  ASSUME ClaimBase, [ClaimNext]_allVars
  PROVE  ClaimBase'
<1>. USE ClaimAssumption
<1>1. ClaimTypeOK /\ LockTypeOK /\ Jobs
  BY DEF ClaimBase, ClaimTypeOK
<1>2. LockTypeOK'
  BY <1>1, ClaimStepIsLockStep, LockTypesStep
<1>3. ASSUME NEW p \in Procs, NEW kind \in Kinds, NEW seen \in Claims \cup {None},
             Begins(p, kind, seen),
             kind \in {"rollback", "close", "expiry", "shutdown"} => seen = owned[p],
             kind = "claim" => session[p] = "none",
             kind = "prune" => p \in Pruners /\ seen # None,
             UNCHANGED <<claim, session, owned, left, count>>, pruned' \in [Procs -> BOOLEAN]
      PROVE  ClaimBase'
  <2>1. /\ stage[p] = "idle" /\ stage' = [stage EXCEPT ![p] = "trying"]
        /\ stage \in [Procs -> Stages] /\ job[p] = NoJob
        /\ job' = [job EXCEPT ![p] = [kind |-> kind, step |-> "locking", seen |-> seen]]
    BY <1>1, <1>3 DEF Begins, Free, Job, Start, Moves, LockTypeOK
  <2>2. ClaimTypeOK'
    BY <1>1, <1>2, <1>3, <2>1 DEF ClaimTypeOK
  <2>3. Jobs'
    BY <1>1, <1>3, <2>1 DEF ClaimTypeOK, Jobs, Alive, Does, Clears, NoJob, Kinds
  <2>. QED
    BY <2>2, <2>3 DEF ClaimBase
<1>4. ASSUME NEW p \in Procs,
             \/ OpenBegins(p) \/ OpenFailsEarly(p) \/ CloseBegins(p)
             \/ ExpiryBegins(p) \/ ShutdownBegins(p) \/ PruneScans(p)
      PROVE  ClaimBase'
  <2>1. owned[p] \in Claims \cup {None} /\ pruned \in [Procs -> BOOLEAN]
    BY <1>1 DEF ClaimTypeOK
  <2>2. CASE \/ OpenBegins(p) \/ OpenFailsEarly(p) \/ CloseBegins(p)
             \/ ExpiryBegins(p) \/ ShutdownBegins(p)
    BY <1>3, <2>1, <2>2 DEF OpenBegins, OpenFailsEarly, CloseBegins, ExpiryBegins,
       ShutdownBegins, Kinds
  <2>3. CASE PruneScans(p)
    <3>1. pruned' \in [Procs -> BOOLEAN] /\ claim \in Claims /\ claim # None
      BY <1>1, <2>3 DEF PruneScans, ClaimTypeOK
    <3>. QED
      BY <1>3, <2>3, <3>1 DEF PruneScans, Kinds
  <2>. QED
    BY <1>4, <2>2, <2>3
<1>5. ASSUME NEW p \in Procs, FindOwn(p) \/ PruneChecks(p) \/ Unlink(p) \/ FindClaim(p)
      PROVE  ClaimBase'
  <2>. USE <1>5 DEF FindOwn, PruneChecks, Unlink, FindClaim, StepTo, Does, Clears
  <2>1. stage' = stage /\ UNCHANGED <<session, pruned, left, count>>
    BY DEF lockVars
  <2>2. claim' \in {claim, None} /\ stage[p] = "held" /\ job[p].kind # None
    BY <1>1 DEF Jobs, NoJob
  <2>3. /\ \E s \in {"acting", "done"} : job' = [job EXCEPT ![p].step = s]
                 /\ job[p].kind = "claim" /\ s = "acting" => count[p] < MaxClaims
        /\ owned' = owned \/ (job[p].kind = "claim" /\ \E c \in Claims \cup {None} :
                owned' = [owned EXCEPT ![p] = c] /\ (c # None => c.owner = p))
    BY <1>1 DEF ClaimTypeOK
  <2>4. ClaimTypeOK'
    BY <1>1, <1>2, <2>1, <2>2, <2>3 DEF ClaimTypeOK
  <2>5. Jobs'
    BY <1>1, <2>1, <2>2, <2>3 DEF ClaimTypeOK, Jobs, Alive, NoJob, Kinds
  <2>. QED
    BY <2>4, <2>5 DEF ClaimBase
<1>6. ASSUME NEW p \in Procs, WriteClaim(p)
      PROVE  ClaimBase'
  <2>. DEFINE new == [owner |-> p, token |-> count[p] + 1]
  <2>. USE <1>6 DEF WriteClaim, StepTo
  <2>1. count[p] \in Nat /\ count[p] < MaxClaims
    BY <1>1 DEF ClaimTypeOK, Jobs
  <2>2. new \in Claims /\ new # None /\ new.owner = p
    BY <2>1 DEF Claims
  <2>3. claim' = new /\ owned' = [owned EXCEPT ![p] = new] /\ stage' = stage
    BY DEF lockVars
  <2>. HIDE DEF new
  <2>4. ClaimTypeOK'
    BY <1>1, <1>2, <2>1, <2>2, <2>3 DEF ClaimTypeOK
  <2>5. Jobs'
    BY <1>1, <2>2, <2>3 DEF ClaimTypeOK, Jobs, Alive, Does, Clears, NoJob, Kinds
  <2>. QED
    BY <2>4, <2>5 DEF ClaimBase
<1>7. ASSUME NEW p \in Procs, stage[p] \in {"idle", "dead"} \/ job[p] = NoJob,
             job' = [job EXCEPT ![p] = NoJob],
             owned' = owned \/ owned' = [owned EXCEPT ![p] = None],
             session' \in [Procs -> Sessions],
             \A q \in Procs : q # p => session'[q] = session[q],
             left' \in [Procs -> BOOLEAN], UNCHANGED <<lockVars, claim, pruned, count>>
      PROVE  ClaimBase'
  <2>1. stage' = stage /\ job'[p] = NoJob
    BY <1>1, <1>7 DEF lockVars, ClaimTypeOK
  <2>2. stage[p] \in {"idle", "dead"}
    BY <1>1, <1>7 DEF Jobs
  <2>3. ClaimTypeOK'
    BY <1>1, <1>2, <1>7 DEF ClaimTypeOK, NoJob
  <2>4. Jobs'
    BY <1>1, <1>7, <2>1, <2>2 DEF ClaimTypeOK, Jobs, Alive, Does, Clears, NoJob, Kinds
  <2>. QED
    BY <2>3, <2>4 DEF ClaimBase
<1>8. ASSUME NEW p \in Procs,
             OpenSucceeds(p) \/ OpenFailsLate(p) \/ CloseFails(p) \/ ShutdownFails(p)
                \/ ClaimEnds(p) \/ ClearEnds(p) \/ PruneEnds(p)
      PROVE  ClaimBase'
  <2>1. stage[p] = "idle" \/ job[p] = NoJob
    BY <1>8 DEF OpenSucceeds, OpenFailsLate, CloseFails, ShutdownFails, ClaimEnds, ClearEnds,
       PruneEnds, Finishes, Free
  <2>2. job' = [job EXCEPT ![p] = NoJob]
    BY <1>1, <1>8 DEF OpenSucceeds, OpenFailsLate, CloseFails, ShutdownFails, ClaimEnds,
       ClearEnds, PruneEnds, Finishes, Free, ClaimTypeOK
  <2>3. /\ owned' = owned \/ owned' = [owned EXCEPT ![p] = None]
        /\ UNCHANGED <<lockVars, claim, pruned, count>>
        /\ left' \in [Procs -> BOOLEAN]
    BY <1>1, <1>8 DEF OpenSucceeds, OpenFailsLate, CloseFails, ShutdownFails, ClaimEnds,
       ClearEnds, PruneEnds, Finishes, Deletes, Remains, ClaimTypeOK
  <2>4. session[p] \in Sessions /\ \E next \in Sessions : session' = [session EXCEPT ![p] = next]
    BY <1>1, <1>8 DEF OpenSucceeds, OpenFailsLate, CloseFails, ShutdownFails, ClaimEnds,
       ClearEnds, PruneEnds, Deletes, Remains, Sessions, ClaimTypeOK
  <2>5. /\ session' \in [Procs -> Sessions]
        /\ \A q \in Procs : q # p => session'[q] = session[q]
    BY <1>1, <2>4 DEF ClaimTypeOK
  <2>. QED
    BY <1>7, <2>1, <2>2, <2>3, <2>5
<1>9. ASSUME NEW p \in Procs, DaemonDies(p)
      PROVE  ClaimBase'
  <2>. USE <1>9 DEF DaemonDies
  <2>1. \A q \in Procs : stage'[q] = IF q = p THEN "dead" ELSE stage[q]
    BY <1>1 DEF Dies, Moves, LockTypeOK
  <2>2. \A q \in Procs : /\ job'[q] = IF q = p THEN NoJob ELSE job[q]
                         /\ owned'[q] = IF q = p THEN None ELSE owned[q]
                         /\ session'[q] = IF q = p THEN "none" ELSE session[q]
    BY <1>1 DEF ClaimTypeOK
  <2>3. ClaimTypeOK'
    BY <1>1, <1>2 DEF ClaimTypeOK, NoJob, Sessions
  <2>4. Jobs'
    BY <1>1, <2>1, <2>2 DEF Jobs, Does, Clears, NoJob, Kinds, Alive
  <2>. QED
    BY <2>3, <2>4 DEF ClaimBase
<1>10. ASSUME UNCHANGED claimVars, Age \/ \E p \in Procs : LockStep(p)
       PROVE  ClaimBase'
  <2>1. \A q \in Procs :
           \/ stage'[q] = stage[q]
           \/ stage[q] = "held" /\ job[q].step = "done" /\ stage'[q] = "idle"
           \/ /\ stage[q] \notin {"idle", "dead", "held"} /\ job[q] # NoJob
              /\ stage'[q] # "dead"
    <3>1. CASE Age
      BY <3>1 DEF Age
    <3>2. ASSUME NEW p \in Procs, LockStep(p)
          PROVE  <2>1
      BY <1>1, <3>2 DEF LockStep, Acquiring, MakeDir, Exists, WriteOwner, Look, ReadOwner,
         Clear, Poll, TimesOut, MisreadOwner, Release, Moves, LockTypeOK
    <3>. QED
      BY <1>10, <3>1, <3>2
  <2>2. \A q \in Procs : stage[q] \notin {"idle", "dead", "held"} => job[q].step = "locking"
    BY <1>1 DEF ClaimTypeOK, Jobs
  <2>3. ClaimTypeOK'
    BY <1>1, <1>2, <1>10 DEF ClaimTypeOK, claimVars
  <2>4. Jobs'
    BY <1>1, <1>10, <2>1, <2>2 DEF Jobs, Does, Clears, NoJob, Alive, claimVars
  <2>. QED
    BY <2>3, <2>4 DEF ClaimBase
<1>11. CASE UNCHANGED allVars
  <2>. USE <1>11 DEF allVars, claimVars, lockVars
  <2>1. ClaimTypeOK' /\ Jobs'
    BY <1>1, <1>2 DEF ClaimTypeOK, Jobs, Does, Clears, Alive
  <2>. QED
    BY <2>1 DEF ClaimBase
<1>. QED
  BY <1>4, <1>5, <1>6, <1>8, <1>9, <1>10, <1>11 DEF ClaimNext, ClaimStep, LockStep

\* Under the lock a daemon is alone.
LEMMA HolderAlone ==
  ASSUME LockInv, ~misfire, NEW p \in Procs, NEW q \in Procs,
         stage[p] = "held", stage[q] = "held"
  PROVE  p = q
<1>1. Makers
  BY Zenon DEF LockInv
<1>. QED
  BY <1>1 DEF Makers

\* The steps that begin an operation.
LEMMA BeginsStep ==
  ASSUME ClaimInv, ClaimBase', NEW p \in Procs, NEW kind \in Kinds,
         NEW seen \in Claims \cup {None}, Begins(p, kind, seen),
         kind \in {"rollback", "close", "expiry", "shutdown"} => seen = owned[p],
         kind = "prune" => p \in Pruners /\ seen # None,
         UNCHANGED <<claim, session, owned, left, count>>, pruned' \in [Procs -> BOOLEAN]
  PROVE  ~misfire' => Claimed'
<1>. USE ClaimAssumption DEF Begins, Free, Job
<1>1. ClaimTypeOK /\ LockInv /\ Jobs
  BY DEF ClaimInv, ClaimBase
<1>2. /\ stage[p] = "idle" /\ stage' = [stage EXCEPT ![p] = "trying"]
      /\ stage \in [Procs -> Stages] /\ misfire' = misfire
  BY <1>1 DEF Start, Moves, LockInv, LockTypeOK
<1>3. /\ job' = [job EXCEPT ![p] = [kind |-> kind, step |-> "locking", seen |-> seen]]
      /\ job[p] = NoJob
  BY DEF Begins
<1>4. ASSUME ~misfire' PROVE Claimed'
  <2>1. Claimed
    BY <1>2, <1>4, Zenon DEF ClaimInv
  <2>2. Acts' /\ Cleared'
    BY <1>1, <1>2, <1>3, <2>1 DEF ClaimTypeOK, Claimed, Acts, Cleared, Clearing, Clears, Alive, NoJob
  <2>3. \A q \in Procs : owned[q] # None /\ session[q] \notin {"ended", "stopped"}
                            /\ ~Clearing(q)' => claim = owned[q]
    BY <1>1, <1>3, <1>4, <2>1, <1>2 DEF ClaimTypeOK, Claimed, OwnershipHolds, Clearing, Clears, NoJob
  <2>. QED
    BY <2>1, <2>2, <2>3, <1>2, <1>4 DEF Claimed, OwnershipHolds, NoClaimLeaked, Alive
<1>. QED
  BY <1>4

\* The steps that only look at the claim, under the lock.
LEMMA LooksStep ==
  ASSUME ClaimInv, ClaimBase', NEW p \in Procs, NEW s \in {"acting", "done"},
         stage[p] = "held", job[p].kind \in Kinds \ {"claim"},
         job[p].step = "locking", StepTo(p, s),
         Clears(p) /\ s = "acting" => claim # None /\ claim = job[p].seen,
         Clears(p) /\ s = "done" => claim = None \/ claim # job[p].seen,
         job[p].kind = "prune" /\ s = "acting" => claim = job[p].seen /\ ~Alive(claim.owner),
         UNCHANGED <<lockVars, claim, session, owned, pruned, left, count>>
  PROVE  ~misfire' => Claimed'
<1>. USE ClaimAssumption DEF StepTo
<1>1. ClaimTypeOK /\ LockInv /\ Jobs
  BY DEF ClaimInv, ClaimBase
<1>2. UNCHANGED <<stage, misfire>>
  BY DEF lockVars
<1>3. ASSUME ~misfire' PROVE Claimed'
  <2>1. Claimed /\ ~misfire
    BY <1>2, <1>3, Zenon DEF ClaimInv
  <2>2. Acts'
    BY <1>1, <1>2, <2>1 DEF ClaimTypeOK, Claimed, Acts, Clears, Alive, Kinds
  <2>3. Cleared'
    <3>1. Clearing(p)' => claim = None \/ claim.owner # p \/ left[p]
      <4>1. SUFFICES ASSUME Clears(p), s = "done", claim # None, claim.owner = p, ~left[p]
                     PROVE  FALSE
        BY <1>1 DEF ClaimTypeOK, Clearing, Clears
      <4>2. job[p].seen = owned[p] /\ Alive(p)
        BY <1>1, <4>1 DEF Jobs, Alive
      <4>3. claim = owned[p]
        BY <2>1, <4>1, <4>2 DEF Claimed, NoClaimLeaked
      <4>. QED
        BY <4>1, <4>2, <4>3
    <3>2. ASSUME NEW q \in Procs, q # p, Clearing(q)'
          PROVE  claim = None \/ claim.owner # q \/ left[q]
      BY <1>1, <2>1, <3>2 DEF ClaimTypeOK, Claimed, Cleared, Clearing, Clears
    <3>. QED
      BY <3>1, <3>2 DEF Cleared
  <2>4. \A q \in Procs : ~Clearing(q)' => ~Clearing(q)
    BY <1>1 DEF ClaimTypeOK, Clearing, Clears
  <2>5. OwnershipHolds'
    BY <2>1, <2>4 DEF Claimed, OwnershipHolds
  <2>6. NoClaimLeaked'
    BY <1>2, <2>1 DEF Claimed, NoClaimLeaked, Alive
  <2>. QED
    BY <2>2, <2>3, <2>5, <2>6 DEF Claimed
<1>. QED
  BY <1>3

LEMMA FindClaimStep ==
  ASSUME ClaimInv, ClaimBase', NEW p \in Procs, FindClaim(p)
  PROVE  ~misfire' => Claimed'
<1>. USE ClaimAssumption DEF FindClaim, StepTo
<1>1. ClaimTypeOK /\ LockInv /\ Jobs
  BY DEF ClaimInv, ClaimBase
<1>2. UNCHANGED <<stage, misfire, claim, left>>
  BY DEF lockVars
<1>3. ASSUME ~misfire' PROVE Claimed'
  <2>1. Claimed /\ ~misfire
    BY <1>2, <1>3, Zenon DEF ClaimInv
  <2>2. Acts' /\ Cleared'
    BY <1>1, <1>2, <2>1
       DEF ClaimTypeOK, Claimed, Acts, Cleared, Clearing, Clears, Alive, Does, Kinds
  <2>3. \A q \in Procs : Clearing(q)' = Clearing(q)
    BY <1>1 DEF ClaimTypeOK, Clearing, Clears, Does
  <2>4. OwnershipHolds'
    BY <1>1, <1>2, <2>1, <2>3 DEF ClaimTypeOK, Claimed, OwnershipHolds
  <2>5. ASSUME claim # None, Alive(claim.owner), ~left[claim.owner]
        PROVE  owned'[claim.owner] = claim
    <3>1. claim.owner \in Procs /\ owned[claim.owner] = claim
      BY <1>1, <2>1, <2>5 DEF ClaimTypeOK, Claims, Claimed, NoClaimLeaked
    <3>. QED
      BY <1>1, <2>5, <3>1 DEF ClaimTypeOK
  <2>6. NoClaimLeaked'
    BY <1>2, <2>5 DEF NoClaimLeaked, Alive
  <2>. QED
    BY <2>2, <2>4, <2>6 DEF Claimed
<1>. QED
  BY <1>3

\* The claim is written where there is none, so nobody else's is replaced.
LEMMA WriteClaimStep ==
  ASSUME ClaimInv, ClaimBase', NEW p \in Procs, WriteClaim(p)
  PROVE  ~misfire' => Claimed'
<1>. DEFINE new == [owner |-> p, token |-> count[p] + 1]
<1>. USE ClaimAssumption DEF WriteClaim, StepTo
<1>1. ClaimTypeOK /\ LockInv /\ Jobs
  BY DEF ClaimInv, ClaimBase
<1>2. UNCHANGED <<stage, misfire, left>>
  BY DEF lockVars
<1>3. count[p] \in Nat /\ count[p] < MaxClaims
  BY <1>1 DEF ClaimTypeOK, Jobs
<1>4. new \in Claims /\ new # None /\ new.owner = p
  BY <1>3 DEF Claims
<1>5. claim' = new /\ owned' = [owned EXCEPT ![p] = new]
  OBVIOUS
<1>. HIDE DEF new
<1>6. ASSUME ~misfire' PROVE Claimed'
  <2>1. Claimed /\ ~misfire
    BY <1>2, <1>6, Zenon DEF ClaimInv
  <2>2. claim = None
    BY <1>1, <2>1 DEF Claimed, Acts, Does
  <2>3. \A q \in Procs : job[q].step = "acting" => q = p
    BY <1>1, <2>1, HolderAlone DEF Jobs
  <2>4. Acts' /\ Cleared'
    BY <1>1, <1>4, <1>5, <2>3 DEF ClaimTypeOK, Acts, Cleared, Clearing, Clears, Does
  <2>5. \A q \in Procs : Clearing(q)' = Clearing(q)
    BY <1>1 DEF ClaimTypeOK, Clearing, Clears, Does
  <2>6. OwnershipHolds'
    BY <1>1, <1>4, <1>5, <2>1, <2>2, <2>5 DEF ClaimTypeOK, Claimed, OwnershipHolds
  <2>7. NoClaimLeaked'
    BY <1>1, <1>4, <1>5 DEF ClaimTypeOK, NoClaimLeaked
  <2>. QED
    BY <2>4, <2>6, <2>7 DEF Claimed
<1>. QED
  BY <1>6

\* What is unlinked was the session's own, or a dead owner's.
LEMMA UnlinkStep ==
  ASSUME ClaimInv, ClaimBase', NEW p \in Procs, Unlink(p)
  PROVE  ~misfire' => Claimed'
<1>. USE ClaimAssumption DEF Unlink, StepTo
<1>1. ClaimTypeOK /\ LockInv /\ Jobs
  BY DEF ClaimInv, ClaimBase
<1>2. UNCHANGED <<stage, misfire, left>>
  BY DEF lockVars
<1>3. ASSUME ~misfire' PROVE Claimed'
  <2>1. Claimed /\ ~misfire
    BY <1>2, <1>3, Zenon DEF ClaimInv
  <2>2. job[p].kind \in {"rollback", "close", "expiry", "shutdown", "prune"}
    BY <1>1 DEF ClaimTypeOK, Jobs, NoJob, Kinds
  <2>3. \A q \in Procs : job[q].step = "acting" => q = p
    BY <1>1, <2>1, HolderAlone DEF Jobs
  <2>4. Acts' /\ Cleared' /\ NoClaimLeaked'
    BY <1>1, <2>3 DEF ClaimTypeOK, Acts, Cleared, NoClaimLeaked
  <2>5. ASSUME NEW q \in Procs, owned[q] # None, session[q] \notin {"ended", "stopped"},
               ~Clearing(q)'
        PROVE  FALSE
    <3>1. claim = owned[q] /\ claim.owner = q
      BY <1>1, <2>1, <2>5 DEF ClaimTypeOK, Claimed, OwnershipHolds, Jobs, Clearing, Clears
    <3>2. CASE job[p].kind = "prune"
      BY <1>1, <2>1, <3>1, <3>2, <2>5 DEF Claimed, Acts, Jobs
    <3>3. CASE Clears(p)
      <4>1. claim = owned[p] /\ owned[p].owner = p
        BY <1>1, <2>1, <2>5, <3>1, <3>3 DEF Claimed, Acts, Jobs
      <4>. QED
        BY <1>1, <3>1, <3>3, <4>1, <2>5 DEF ClaimTypeOK, Clearing, Clears
    <3>. QED
      BY <2>2, <3>2, <3>3 DEF Clears
  <2>6. OwnershipHolds'
    BY <2>5 DEF OwnershipHolds
  <2>. QED
    BY <2>4, <2>6 DEF Claimed
<1>. QED
  BY <1>3

\* The steps that change the session's phase, or end an operation, and keep what the
\* session owns: a clearing that was done ends here only with the session ended.
LEMMA PhaseStep ==
  ASSUME ClaimInv, ClaimBase', NEW p \in Procs, NEW phase \in Sessions,
         session' = [session EXCEPT ![p] = phase],
         \/ phase \in {"ended", "stopped"}
         \/ ~Clearing(p) /\ (phase = session[p] \/ session[p] \notin {"ended", "stopped"}),
         job' = job \/ (stage[p] = "idle" /\ job' = [job EXCEPT ![p] = NoJob]),
         UNCHANGED <<lockVars, claim, owned, pruned, left, count>>
  PROVE  ~misfire' => Claimed'
<1>. USE ClaimAssumption
<1>1. ClaimTypeOK /\ LockInv /\ Jobs
  BY DEF ClaimInv, ClaimBase
<1>2. UNCHANGED <<stage, misfire>>
  BY DEF lockVars
<1>3. session'[p] = phase /\ \A q \in Procs : q # p => session'[q] = session[q]
  BY <1>1 DEF ClaimTypeOK
<1>4. ASSUME ~misfire' PROVE Claimed'
  <2>1. Claimed /\ ~misfire
    BY <1>2, <1>4, Zenon DEF ClaimInv
  <2>2. \A q \in Procs : /\ Clearing(q)' => Clearing(q)
                         /\ q # p => (Clearing(q)' <=> Clearing(q))
    BY <1>1 DEF ClaimTypeOK, Clearing, Clears, NoJob, Kinds
  <2>3. Acts'
    BY <1>1, <1>2, <2>1 DEF ClaimTypeOK, Claimed, Acts, Clears, Alive, NoJob, Kinds
  <2>4. Cleared'
    BY <2>1, <2>2 DEF Claimed, Cleared
  <2>5. OwnershipHolds'
    <3>1. SUFFICES ASSUME NEW q \in Procs, owned[q] # None,
                          session'[q] \notin {"ended", "stopped"}, ~Clearing(q)'
                   PROVE  claim = owned[q]
      BY DEF OwnershipHolds
    <3>2. session[q] \notin {"ended", "stopped"} /\ ~Clearing(q)
      BY <1>3, <2>2, <3>1
    <3>. QED
      BY <2>1, <3>1, <3>2 DEF Claimed, OwnershipHolds
  <2>6. NoClaimLeaked'
    BY <1>2, <2>1 DEF Claimed, NoClaimLeaked, Alive
  <2>. QED
    BY <2>3, <2>4, <2>5, <2>6 DEF Claimed
<1>. QED
  BY <1>4

\* The steps after which a session is gone: its claim was cleared, or is left.
LEMMA DeletesStep ==
  ASSUME ClaimInv, ClaimBase', NEW p \in Procs, NEW next \in Sessions, Deletes(p, next),
         \/ job[p] = NoJob /\ job' = job
         \/ stage[p] = "idle" /\ Clears(p) /\ job' = [job EXCEPT ![p] = NoJob],
         UNCHANGED <<lockVars, claim, pruned, count>>
  PROVE  ~misfire' => Claimed'
<1>. USE ClaimAssumption DEF Deletes
<1>1. ClaimTypeOK /\ LockInv /\ Jobs
  BY DEF ClaimInv, ClaimBase
<1>2. UNCHANGED <<stage, misfire>>
  BY DEF lockVars
<1>3. /\ job'[p] = NoJob
      /\ \A q \in Procs : q # p => /\ job'[q] = job[q] /\ owned'[q] = owned[q]
                                   /\ session'[q] = session[q]
  BY <1>1 DEF ClaimTypeOK
<1>4. owned'[p] = None
  BY <1>1 DEF ClaimTypeOK
<1>5. stage[p] \in {"idle", "dead"} /\ job[p].step # "acting"
  BY <1>1 DEF Jobs, NoJob
<1>6. ASSUME ~misfire' PROVE Claimed'
  <2>1. Claimed /\ ~misfire
    BY <1>2, <1>6, Zenon DEF ClaimInv
  <2>2. \A q \in Procs : Clearing(q)' => Clearing(q) /\ q # p
    BY <1>3 DEF Clearing, Clears, NoJob, Kinds
  <2>3. \A q \in Procs : left[q] => left'[q]
    BY <1>1 DEF ClaimTypeOK
  <2>4. Acts'
    BY <1>1, <1>2, <1>3, <2>1 DEF Claimed, Acts, Clears, Alive, NoJob
  <2>5. Cleared'
    BY <2>1, <2>2, <2>3 DEF Claimed, Cleared
  <2>6. OwnershipHolds'
    BY <1>3, <1>4, <2>1, <2>2 DEF Claimed, OwnershipHolds, Clearing, Clears
  <2>7. ASSUME claim # None, Alive(claim.owner), ~left'[claim.owner]
        PROVE  owned'[claim.owner] = claim
    <3>1. claim.owner \in Procs /\ owned[claim.owner] = claim
      BY <1>1, <2>1, <2>3, <2>7 DEF ClaimTypeOK, Claims, Claimed, NoClaimLeaked
    <3>2. claim.owner # p
      <4>1. CASE job[p].step = "done"
        <5>1. Clearing(p)
          BY <4>1 DEF Clearing, NoJob
        <5>. QED
          BY <2>1, <2>3, <2>7, <3>1, <5>1 DEF Claimed, Cleared
      <4>2. CASE job[p].step # "done"
        BY <1>1, <2>7, <3>1, <4>2 DEF ClaimTypeOK
      <4>. QED
        BY <4>1, <4>2
    <3>. QED
      BY <1>3, <3>1, <3>2
  <2>8. NoClaimLeaked'
    BY <1>2, <2>7 DEF NoClaimLeaked, Alive
  <2>. QED
    BY <2>4, <2>5, <2>6, <2>8 DEF Claimed
<1>. QED
  BY <1>6

LEMMA DaemonDiesStep ==
  ASSUME ClaimInv, ClaimBase', NEW p \in Procs, DaemonDies(p)
  PROVE  ~misfire' => Claimed'
<1>. USE ClaimAssumption DEF DaemonDies
<1>1. ClaimTypeOK /\ LockInv /\ Jobs
  BY DEF ClaimInv, ClaimBase
<1>2. misfire' = misfire /\ \A q \in Procs : Alive(q)' <=> Alive(q) /\ q # p
  BY <1>1 DEF Dies, Moves, Alive, LockInv, LockTypeOK
<1>3. \A q \in Procs : stage'[q] = IF q = p THEN "dead" ELSE stage[q]
  BY <1>1 DEF Dies, Moves, LockInv, LockTypeOK
<1>4. \A q \in Procs : /\ job'[q] = IF q = p THEN NoJob ELSE job[q]
                       /\ owned'[q] = IF q = p THEN None ELSE owned[q]
                       /\ session'[q] = IF q = p THEN "none" ELSE session[q]
  BY <1>1 DEF ClaimTypeOK
<1>5. ASSUME ~misfire' PROVE Claimed'
  <2>1. Claimed /\ ~misfire
    BY <1>2, <1>5, Zenon DEF ClaimInv
  <2>2. \A q \in Procs : Clearing(q)' <=> Clearing(q) /\ q # p
    BY <1>4 DEF Clearing, Clears, NoJob, Kinds
  <2>3. Acts'
    BY <1>1, <1>2, <1>4, <2>1 DEF ClaimTypeOK, Claims, Claimed, Acts, Jobs, Clears, NoJob
  <2>4. Cleared'
    BY <2>1, <2>2 DEF Claimed, Cleared
  <2>5. OwnershipHolds'
    BY <1>4, <2>1, <2>2 DEF Claimed, OwnershipHolds
  <2>6. ASSUME claim # None, Alive(claim.owner)', ~left[claim.owner]
        PROVE  owned'[claim.owner] = claim
    <3>1. claim.owner \in Procs
      BY <1>1, <2>6 DEF ClaimTypeOK, Claims
    <3>. QED
      BY <1>2, <1>4, <2>1, <2>6, <3>1 DEF Claimed, NoClaimLeaked
  <2>7. NoClaimLeaked'
    BY <2>6 DEF NoClaimLeaked
  <2>. QED
    BY <2>3, <2>4, <2>5, <2>7 DEF Claimed
<1>. QED
  BY <1>5

\* The lock's own steps: only a daemon that is done gives the lock back.
LEMMA LocksStep ==
  ASSUME ClaimInv, ClaimBase', UNCHANGED claimVars,
         Age \/ \E p \in Procs : LockStep(p)
  PROVE  ~misfire' => Claimed'
<1>. USE ClaimAssumption DEF claimVars
<1>1. ClaimTypeOK /\ LockInv /\ Jobs
  BY DEF ClaimInv, ClaimBase
<1>2. \A q \in Procs :
         /\ Alive(q)' <=> Alive(q)
         /\ \/ stage'[q] = stage[q]
            \/ stage[q] = "held" /\ job[q].step = "done" /\ stage'[q] = "idle"
            \/ stage[q] \notin {"idle", "dead", "held"} /\ job[q] # NoJob
  <2>1. CASE Age
    BY <2>1 DEF Age, Alive
  <2>2. ASSUME NEW p \in Procs, LockStep(p)
        PROVE  <1>2
    BY <1>1, <2>2 DEF LockStep, Acquiring, MakeDir, Exists, WriteOwner, Look, ReadOwner,
       Clear, Poll, TimesOut, MisreadOwner, Release, Moves, Alive, LockInv, LockTypeOK
  <2>. QED
    BY <2>1, <2>2
<1>3. ~misfire' => ~misfire
  BY Zenon DEF Age, LockStep, Acquiring, MakeDir, Exists, WriteOwner, Look, ReadOwner,
     Clear, Poll, TimesOut, MisreadOwner, Release, Removes
<1>4. \A q \in Procs : stage[q] \notin {"idle", "dead", "held"} => job[q].step = "locking"
  BY <1>1 DEF ClaimTypeOK, Jobs
<1>5. ASSUME ~misfire' PROVE Claimed'
  <2>1. Claimed
    BY <1>3, <1>5, Zenon DEF ClaimInv
  <2>2. ~misfire
    BY <1>3, <1>5
  <2>3. claim # None => claim.owner \in Procs
    BY <1>1 DEF ClaimTypeOK, Claims
  <2>4. Acts'
    <3>1. \A q \in Procs : job[q].kind = "prune" => job[q].seen.owner \in Procs
      BY <1>1 DEF ClaimTypeOK, Claims, Jobs
    <3>. QED
      BY <1>2, <2>1, <3>1 DEF Claimed, Acts, Clears
  <2>5. Cleared' /\ OwnershipHolds'
    BY <2>1, <2>2 DEF Claimed, Cleared, OwnershipHolds, Clearing, Clears
  <2>6. NoClaimLeaked'
    BY <1>2, <2>1, <2>2, <2>3 DEF Claimed, NoClaimLeaked
  <2>. QED
    BY <2>4, <2>5, <2>6 DEF Claimed
<1>. QED
  BY <1>5

LEMMA ClaimInvStep ==
  ASSUME ClaimInv, Stalling = {}, Blind \cap Pruners = {}, [ClaimNext]_allVars
  PROVE  ClaimInv'
<1>. USE ClaimAssumption
<1>1. ClaimTypeOK /\ LockInv /\ Jobs
  BY DEF ClaimInv, ClaimBase
<1>2. LockInv' /\ ClaimBase'
  BY <1>1, ClaimStepIsLockStep, LockStep1, BaseStep DEF ClaimInv
<1>3. ASSUME NEW p \in Procs, ClaimStep(p)
      PROVE  ~misfire' => Claimed'
  <2>1. CASE OpenBegins(p)
    BY <1>1, <1>2, <2>1, BeginsStep DEF OpenBegins, Kinds, ClaimTypeOK
  <2>2. CASE OpenFailsEarly(p) \/ CloseBegins(p) \/ ExpiryBegins(p) \/ ShutdownBegins(p)
    BY <1>1, <1>2, <2>2, BeginsStep DEF OpenFailsEarly, CloseBegins, ExpiryBegins,
       ShutdownBegins, Kinds, ClaimTypeOK
  <2>3. CASE PruneScans(p)
    <3>1. pruned' \in [Procs -> BOOLEAN] /\ claim \in Claims /\ claim # None
      BY <1>1, <2>3 DEF PruneScans, ClaimTypeOK
    <3>. QED
      BY <1>2, <2>3, <3>1, BeginsStep DEF PruneScans, Kinds
  <2>4. CASE FindOwn(p)
    <3>1. job[p].kind \in Kinds \ {"claim"} /\ job[p].kind # "prune" /\ Clears(p)
      BY <2>4 DEF FindOwn, Clears, Kinds
    <3>. QED
      BY <1>2, <2>4, <3>1, LooksStep DEF FindOwn, MatchesOwnership
  <2>5. CASE PruneChecks(p)
    <3>1. job[p].kind = "prune" /\ job[p].kind \in Kinds \ {"claim"} /\ ~Clears(p)
      BY <2>5 DEF PruneChecks, Does, Clears, Kinds
    <3>2. p \notin Blind /\ job[p].seen \in Claims
      BY <1>1, <3>1 DEF Jobs, ClaimTypeOK
    <3>3. StillDead(p) => claim = job[p].seen /\ ~Alive(claim.owner)
      BY <1>1, <3>2 DEF StillDead, JudgedDead, ClaimTypeOK, Claims
    <3>. QED
      BY <1>2, <2>5, <3>1, <3>3, LooksStep DEF PruneChecks, Does
  <2>6. CASE ClaimEnds(p)
    <3>1. PICK phase \in {"none", "opening"} : session' = [session EXCEPT ![p] = phase]
      BY <1>1, <2>6 DEF ClaimEnds, Jobs
    <3>2. ~Clearing(p) /\ session[p] = "none"
      BY <1>1, <2>6 DEF ClaimEnds, Clearing, Clears, Jobs
    <3>. QED
      BY <1>2, <2>6, <3>1, <3>2, PhaseStep DEF ClaimEnds, Finishes, Sessions
  <2>7. CASE OpenSucceeds(p)
    <3>1. ~Clearing(p) /\ session[p] = "opening"
      BY <2>7 DEF OpenSucceeds, Free, Clearing, Clears, NoJob, Kinds
    <3>. QED
      BY <1>2, <2>7, <3>1, PhaseStep DEF OpenSucceeds, Sessions
  <2>8. CASE OpenFailsLate(p) \/ CloseFails(p) \/ ShutdownFails(p)
    BY <1>2, <2>8, DeletesStep DEF OpenFailsLate, CloseFails, ShutdownFails, Free, Sessions
  <2>9. CASE ClearEnds(p)
    <3>1. session[p] \in Sessions
      BY <1>1 DEF ClaimTypeOK
    <3>2. \/ \E next \in Sessions : Deletes(p, next)
          \/ \E next \in {"ended", "stopped"} : Remains(p, next)
          \/ job[p].step # "done" /\ Remains(p, session[p])
      BY <2>9 DEF ClearEnds, Sessions
    <3>3. CASE \E next \in Sessions : Deletes(p, next)
      BY <1>2, <2>9, <3>3, DeletesStep DEF ClearEnds, Finishes
    <3>4. CASE \E next \in {"ended", "stopped"} : Remains(p, next)
      BY <1>2, <2>9, <3>4, PhaseStep DEF ClearEnds, Finishes, Remains, Sessions
    <3>5. CASE job[p].step # "done" /\ Remains(p, session[p])
      <4>1. ~Clearing(p)
        BY <3>5 DEF Clearing
      <4>. QED
        BY <1>2, <2>9, <3>1, <3>5, <4>1, PhaseStep DEF ClearEnds, Finishes, Remains
    <3>. QED
      BY <3>2, <3>3, <3>4, <3>5
  <2>10. CASE PruneEnds(p)
    <3>1. session' = [session EXCEPT ![p] = session[p]] /\ ~Clearing(p)
      BY <1>1, <2>10 DEF PruneEnds, ClaimTypeOK, Clearing, Clears
    <3>2. session[p] \in Sessions
      BY <1>1 DEF ClaimTypeOK
    <3>. QED
      BY <1>2, <2>10, <3>1, <3>2, PhaseStep DEF PruneEnds, Finishes
  <2>. QED
    BY <1>2, <1>3, <2>1, <2>2, <2>3, <2>4, <2>5, <2>6, <2>7, <2>8, <2>9, <2>10,
       FindClaimStep, WriteClaimStep, UnlinkStep DEF ClaimStep
<1>4. ASSUME NEW p \in Procs, LockStep(p)
      PROVE  ~misfire' => Claimed'
  BY <1>2, <1>4, LocksStep DEF LockStep
<1>5. ASSUME UNCHANGED allVars
      PROVE  ~misfire' => Claimed'
  <2>. USE <1>5 DEF allVars, claimVars, lockVars
  <2>1. (misfire \/ Claimed) => (misfire' \/ Claimed')
    BY Zenon DEF Claimed, Acts, Cleared, OwnershipHolds, NoClaimLeaked, Clearing, Clears, Alive
  <2>2. misfire \/ Claimed
    BY Zenon DEF ClaimInv
  <2>. QED
    BY <2>1, <2>2, Zenon
<1>6. ~misfire' => Claimed'
  BY <1>2, <1>3, <1>4, <1>5, LocksStep, DaemonDiesStep DEF ClaimNext
<1>7. misfire' \/ Claimed'
  BY <1>6, Zenon
<1>. QED
  BY <1>2, <1>7, Zenon DEF ClaimInv

-----------------------------------------------------------------------------
(* Theorems about the claims *)

\* Daemons use the lock as acquireProcessLock and its release allow, whatever they do
\* under it: what is proved of the lock holds of them.
THEOREM ClaimsUseTheLock == ClaimSpec => LockSpec
<1>1. ClaimInit => LockInit
  BY DEF ClaimInit
<1>2. [ClaimNext]_allVars => [LockNext]_lockVars
  BY ClaimStepIsLockStep
<1>. QED
  BY <1>1, <1>2, PTL DEF ClaimSpec, LockSpec

\* The types of the claim file and of what the daemons of device-claims.ts keep,
\* whoever stalls or misjudges.
THEOREM ClaimTypesHold == ClaimSpec => []ClaimTypeOK
<1>1. ClaimInit => ClaimBase
  BY ClaimInvInitially DEF ClaimInv
<1>2. ClaimBase /\ [ClaimNext]_allVars => ClaimBase'
  BY BaseStep
<1>3. ClaimBase => ClaimTypeOK
  BY DEF ClaimBase
<1>. QED
  BY <1>1, <1>2, <1>3, PTL DEF ClaimSpec

\* At most one daemon is in the critical section of a device's claim
\* (process-lock.ts:30-60), unless the deletion of a stale directory misfired.
THEOREM ClaimsAreExclusive ==
  ASSUME Stalling = {}
  PROVE  ClaimSpec => []ExclusiveUnlessMisfire
BY ClaimsUseTheLock, LockIsExclusive, PTL

\* The invariant of the claims: a daemon under the lock acts on the claim that is still
\* on file, and a session's claim is there (device-claims.ts:59-199).
THEOREM ClaimInvariant ==
  ASSUME Stalling = {}, Blind \cap Pruners = {}
  PROVE  ClaimSpec => []ClaimInv
<1>1. ClaimInit => ClaimInv
  BY ClaimInvInitially
<1>2. ClaimInv /\ [ClaimNext]_allVars => ClaimInv'
  BY ClaimInvStep
<1>. QED
  BY <1>1, <1>2, PTL DEF ClaimSpec

\* The claim of a live session stays its own until the session is closed: neither a
\* second open nor a close or prune of another daemon takes it (device-claims.ts).
THEOREM OwnershipIsKept ==
  ASSUME Stalling = {}, Blind \cap Pruners = {}
  PROVE  ClaimSpec => []OwnershipHolds
<1>1. ClaimInv => OwnershipHolds
  BY Zenon DEF ClaimInv, Claimed, OwnershipHolds
<1>. QED
  BY <1>1, ClaimInvariant, PTL

\* No live daemon's claim outlives its session but one that was left behind: by an open
\* or a teardown that failed after the app may have been touched (session-open.ts:632,
\* session-close.ts:391, daemon-runtime.ts:123), or by a clear that failed in a rollback or
\* in the clean-up of an expired session (lease-lifecycle.ts:86).
THEOREM ClaimsDoNotLeak ==
  ASSUME Stalling = {}, Blind \cap Pruners = {}
  PROVE  ClaimSpec => []NoClaimLeaked
<1>1. ClaimInv => NoClaimLeaked
  BY Zenon DEF ClaimInv, Claimed, NoClaimLeaked
<1>. QED
  BY <1>1, ClaimInvariant, PTL

PrunesWhatItChecked ==
    [][~misfire => \A p \in Procs : Prunes(p) => claim = job[p].seen]_allVars

\* While no deletion of a stale directory has misfired, a prune unlinks exactly the
\* dead claim it has checked under the lock, never a successor (device-claims.ts:187).
THEOREM PruneSparesSuccessors ==
  ASSUME Stalling = {}, Blind \cap Pruners = {}
  PROVE  ClaimSpec => PrunesWhatItChecked
<1>1. ClaimInv /\ [ClaimNext]_allVars =>
         [~misfire => \A p \in Procs : Prunes(p) => claim = job[p].seen]_allVars
  <2>1. SUFFICES ASSUME ClaimInv, ~misfire, NEW p \in Procs, Prunes(p)
                 PROVE  claim = job[p].seen
    BY Zenon
  <2>2. Claimed
    BY <2>1, Zenon DEF ClaimInv
  <2>. QED
    BY <2>1, <2>2 DEF Claimed, Acts, Prunes
<1>. QED
  BY <1>1, ClaimInvariant, PTL DEF ClaimSpec, PrunesWhatItChecked
=============================================================================
