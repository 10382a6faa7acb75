------------------------------ MODULE ProcessLock ------------------------------
(***************************************************************************)
(* acquireProcessLock of src/src/utils/process-lock.ts: a lock directory   *)
(* with an owner file, shared by processes of one host.  Each file system  *)
(* call is a step, so the calls of different processes interleave and a    *)
(* process may die between any two of its own.                             *)
(*                                                                         *)
(* `current' is a history variable: the processes whose last look at the   *)
(* directory was at the one that is there now, and told them the truth.    *)
(* `misfire' records that a directory was deleted by another process.      *)
(***************************************************************************)
EXTENDS FiniteSets

CONSTANTS
    Procs,      \* processes that contend for one lock
    Mortal,     \* processes that may die
    Stalling,   \* may pause for more than ownerGraceMs before the owner file
    Patient,    \* processes whose timeoutMs is not reached
    Blind,      \* where readProcessStartTime may fail, its `ps' being slow
    None

ASSUME LockAssumption ==
    /\ None \notin Procs
    /\ Mortal \subseteq Procs /\ Stalling \subseteq Procs /\ Patient \subseteq Procs
    /\ Blind \subseteq Procs
    /\ None \notin [owner : Procs \cup {None}, old : BOOLEAN]

VARIABLES
    dir,      \* the lock directory: None, or its owner file and its age
    stage,    \* what each process is doing
    sawOld,   \* clearStaleProcessLock: the mtime read was older than the grace
    maker,    \* history: the process that made the directory
    current,  \* history
    misfire   \* history

lockVars == <<dir, stage, sawOld, maker, current, misfire>>

\* trying: at mkdir.  writing: made the directory, no owner file yet.
\* looking, reading, clearing: the calls of clearStaleProcessLock.
Stages == {"idle", "trying", "writing", "held", "looking", "reading",
           "clearing", "sleeping", "dead"}

Alive(p) == stage[p] # "dead"
Contends(p) == stage[p] \notin {"idle", "held", "dead"}
Moves(p, s) == stage' = [stage EXCEPT ![p] = s]

LockInit ==
    /\ dir = None
    /\ stage = [p \in Procs |-> "idle"]
    /\ sawOld = [p \in Procs |-> FALSE]
    /\ maker = None
    /\ current = {}
    /\ misfire = FALSE

Start(p) ==
    /\ stage[p] = "idle"
    /\ Moves(p, "trying")
    /\ UNCHANGED <<dir, sawOld, maker, current, misfire>>

MakeDir(p) ==
    /\ stage[p] = "trying"
    /\ dir = None
    /\ dir' = [owner |-> None, old |-> FALSE]
    /\ maker' = p
    /\ current' = {p}
    /\ Moves(p, "writing")
    /\ UNCHANGED <<sawOld, misfire>>

Exists(p) ==
    /\ stage[p] = "trying"
    /\ dir # None
    /\ Moves(p, "looking")
    /\ UNCHANGED <<dir, sawOld, maker, current, misfire>>

TimesOut(p) ==
    /\ stage[p] = "trying"
    /\ p \notin Patient
    /\ Moves(p, "idle")
    /\ UNCHANGED <<dir, sawOld, maker, current, misfire>>

\* Mutant: the owner file is written in place, and is empty at first.
WriteOwnerInPlace(p) ==
    /\ stage[p] = "writing"
    /\ IF dir = None
       THEN Moves(p, "idle") /\ UNCHANGED dir
       ELSE Moves(p, "held") /\ dir' = [owner |-> "", old |-> FALSE]
    /\ UNCHANGED <<sawOld, maker, current, misfire>>

\* renameSync puts the file into the directory that is there by now.
WriteOwner(p) ==
    /\ stage[p] = "writing"
    /\ IF dir = None
       THEN Moves(p, "idle") /\ UNCHANGED dir      \* ENOENT is thrown
       ELSE Moves(p, "held") /\ dir' = [owner |-> p, old |-> FALSE]
    /\ UNCHANGED <<sawOld, maker, current, misfire>>

(***************************************************************************)
(* clearStaleProcessLock                                                   *)
(***************************************************************************)

Look(p) ==
    /\ stage[p] = "looking"
    /\ IF dir = None
       THEN Moves(p, "trying") /\ UNCHANGED <<sawOld, current>>
       ELSE /\ Moves(p, "reading")
            /\ sawOld' = [sawOld EXCEPT ![p] = dir.old]
            /\ current' = current \cup {p}
    /\ UNCHANGED <<dir, maker, misfire>>

OwnerRead == IF dir = None THEN None ELSE dir.owner

\* Mutant: a directory without an owner file is stale whatever its age.
JudgesStaleAtOnce(p) == OwnerRead # None => ~Alive(OwnerRead)

\* The owner file is read after the directory's age, and may by then be that
\* of another directory.
JudgesStale(p) ==
    IF OwnerRead # None THEN ~Alive(OwnerRead) ELSE sawOld[p]

\* Mutant: a readable owner file counts as a live owner.
ReadOwnerTrusting(p) ==
    /\ stage[p] = "reading"
    /\ Moves(p, IF OwnerRead = None /\ sawOld[p] THEN "clearing" ELSE "sleeping")
    /\ UNCHANGED <<dir, sawOld, maker, current, misfire>>

ReadOwner(p) ==
    /\ stage[p] = "reading"
    /\ Moves(p, IF JudgesStale(p) THEN "clearing" ELSE "sleeping")
    /\ sawOld' = [sawOld EXCEPT ![p] = FALSE]
    /\ UNCHANGED <<dir, maker, current, misfire>>

\* isLiveProcessLockOwner compares the recorded start time with null.
MisreadOwner(p) ==
    /\ p \in Blind
    /\ stage[p] = "reading"
    /\ OwnerRead # None
    /\ Moves(p, "clearing")
    /\ sawOld' = [sawOld EXCEPT ![p] = FALSE]
    /\ current' = current \ {p}
    /\ UNCHANGED <<dir, maker, misfire>>

Removes(p) ==
    /\ misfire' = (misfire \/ (dir # None /\ p \notin current))
    /\ dir' = None
    /\ maker' = None
    /\ current' = {}

Clear(p) ==
    /\ stage[p] = "clearing"
    /\ Removes(p)
    /\ Moves(p, "trying")
    /\ UNCHANGED sawOld

Poll(p) ==
    /\ stage[p] = "sleeping"
    /\ Moves(p, "trying")
    /\ current' = IF p = maker THEN current ELSE current \ {p}
    /\ UNCHANGED <<dir, sawOld, maker, misfire>>

\* The directory is removed by its path, whoever made it.
Release(p) ==
    /\ stage[p] = "held"
    /\ Removes(p)
    /\ Moves(p, "idle")
    /\ UNCHANGED sawOld

(***************************************************************************)
(* The environment: time and death                                         *)
(***************************************************************************)

Age ==
    /\ dir # None /\ ~dir.old
    /\ maker \in Stalling \/ ~Alive(maker) \/ dir.owner # None
    /\ dir' = [dir EXCEPT !.old = TRUE]
    /\ UNCHANGED <<stage, sawOld, maker, current, misfire>>

Dies(p) ==
    /\ p \in Mortal /\ Alive(p)
    /\ Moves(p, "dead")
    /\ sawOld' = [sawOld EXCEPT ![p] = FALSE]
    /\ current' = current \ {p}
    /\ UNCHANGED <<dir, maker, misfire>>

Acquiring(p) ==
    \/ MakeDir(p) \/ Exists(p) \/ WriteOwner(p)
    \/ Look(p) \/ ReadOwner(p) \/ Clear(p) \/ Poll(p)

LockNext ==
    \/ \E p \in Procs : Start(p) \/ Acquiring(p) \/ TimesOut(p) \/ Release(p)
          \/ MisreadOwner(p) \/ Dies(p)
    \/ Age

LockSpec == LockInit /\ [][LockNext]_lockVars

\* A process that lives runs; a directory that is left alone grows old.
LockFairness ==
    /\ \A p \in Procs : WF_lockVars(Acquiring(p)) /\ WF_lockVars(Release(p))
    /\ WF_lockVars(Age)

FairLockSpec == LockSpec /\ LockFairness

(***************************************************************************)
(* Properties                                                              *)
(***************************************************************************)

\* The types of the lock's state: the owner file of process-lock.ts names a
\* process, and a directory has a maker.
LockTypeOK ==
    /\ dir \in [owner : Procs \cup {None}, old : BOOLEAN] \cup {None}
    /\ stage \in [Procs -> Stages]
    /\ sawOld \in [Procs -> BOOLEAN]
    /\ maker \in Procs \cup {None}
    /\ dir = None <=> maker = None
    /\ current \subseteq Procs
    /\ misfire \in BOOLEAN

\* acquireProcessLock: at most one process is between its acquisition and its
\* release, as long as every directory that was deleted was the one its deleter
\* had found to be stale, or its own.
ExclusiveUnlessMisfire ==
    misfire \/ \A p, q \in Procs : stage[p] = "held" /\ stage[q] = "held" => p = q

\* Dead owners and directories without an owner file do not wedge the lock: while
\* patient processes contend for it, one gets it or all have been thrown out by a
\* directory that vanished under them.
LockObtained ==
    (\E p \in Patient : Contends(p)) ~>
        \/ \E p \in Procs : stage[p] = "held"
        \/ \A p \in Patient : ~Contends(p)
=============================================================================
