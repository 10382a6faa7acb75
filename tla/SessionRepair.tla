---------------------------- MODULE SessionRepair ----------------------------
(***************************************************************************)
(* The repair of a replay script (ADR 0012, decision 6), for one session.  *)
(*                                                                         *)
(* `replay --save-script` arms a repair on the session: its plan runs step *)
(* by step and what runs is recorded.  A step may diverge; the client then *)
(* corrects the screen, by actions that are recorded too, and goes on with *)
(* `replay --from`.  When a leg reaches the plan's end the repair is       *)
(* complete, and whatever ends the session next publishes what was         *)
(* recorded since it was armed: a close, or the daemon's teardown when it  *)
(* is idle or told to stop.  A close may fail before it publishes, when it *)
(* publishes, or when it gives the lease back, and is then retried.        *)
(*                                                                         *)
(* The requests of the session run one at a time under its lock: `run` is  *)
(* the replay, `closing` the close at work.  The teardown takes no lock.   *)
(* Steps end where the code awaits.  Left out: replays that neither save   *)
(* nor continue a repair, whose actions are recorded like any others; plan *)
(* digests, which match; closes inside a plan; ordinary recordings.        *)
(***************************************************************************)
EXTENDS Naturals, Sequences

CONSTANTS
    PlanLength,  \* the steps of the plan
    Targets,     \* paths a script may be written to
    Sibling,     \* of these, the one beside the source script
    Idents,      \* what a close may name: the identity of its platform close
    Key, Public, \* the session's key in the store and its public name
    Signals,     \* may the daemon be told to stop at any time?
    Earlier, Within, CloseLine, \* recorded before the repair, in it, and its close
    None,
    MaxActs, MaxCalls \* bounds: recorded actions, replays and closes

Steps == 1 .. PlanLength
Actions == {Earlier, Within, CloseLine}
Hints == {"heal", "dual", "state"} \* record-and-heal, caution or manual, state-repair

Repairs == [status : {"armed", "complete", "close-succeeded", "committed", "aborted"},
            boundary : Nat, path : Targets, force : BOOLEAN, receipt : Idents \cup {None}]
Watermarks == [from : Nat, count : Nat]
Sessions == [acts : Seq(Actions), repair : Repairs \cup {None}, pending : Watermarks \cup {None}]
Legs == [at : 1 .. PlanLength + 1, save : BOOLEAN, path : Targets \cup {None},
         force : BOOLEAN, first : BOOLEAN]
Closes == [ident : Idents, save : BOOLEAN, path : Targets \cup {None}, force : BOOLEAN,
           quiet : BOOLEAN, phase : {"dispatching", "releasing"}]
Divergences == [at : Steps, owed : BOOLEAN]

ASSUME RepairAssumption ==
    /\ PlanLength \in Nat \ {0} /\ MaxActs \in Nat /\ MaxCalls \in Nat
    /\ Sibling \in Targets
    /\ None \notin Targets \cup Idents
    /\ None \notin Repairs /\ None \notin Watermarks /\ None \notin Sessions
    /\ None \notin Legs /\ None \notin Closes /\ None \notin Divergences
    /\ Earlier # Within /\ Earlier # CloseLine /\ Within # CloseLine
    /\ Signals \in BOOLEAN

VARIABLES
    session,       \* the session's record, also while only a request refers to it
    stored,        \* is it in the session store?
    run,           \* the replay at work
    closing,       \* the close at work
    files,         \* the targets at which there is a file
    tombs,         \* session names with a repair tombstone, whatever its cause
    daemon,        \* "up", then "stopping", "tearing", "ending" and "down"
    endsWithClose, \* is the plan's last step a close?
    calls,         \* replays and closes so far
    \* What the code does not keep, for the properties only:
    outstanding,   \* the divergence nobody has answered
    finished,      \* has the last leg reached the end of the plan?
    closedAs,      \* the last platform close that succeeded, until the repair has ended
    granted,       \* targets the client has said may be overwritten in it
    ended,         \* how the last close that got through has ended it, or "no"
    written        \* what the close or the teardown at work has published, and where

history == <<outstanding, finished, closedAs, granted, ended, written>>
requests == <<run, closing, calls>>
Forgotten ==
    /\ outstanding' = None /\ finished' = FALSE /\ closedAs' = None
    /\ granted' = {} /\ ended' = "no" /\ written' = None
vars == <<session, stored, requests, files, tombs, daemon, endsWithClose, history>>

Live == IF stored THEN session ELSE None

Repairing(s) == s # None /\ s.repair # None
Committable(s) == s.repair.status \in {"complete", "close-succeeded"}
Ended(s) == s.repair.status \in {"committed", "aborted"}

RetargetKeepingForce(r, path, force) ==
    [r EXCEPT !.path = IF path = None THEN @ ELSE path, !.force = @ \/ force]

\* A force grant belongs to its target: another one loses it.
Retarget(r, path, force) ==
    IF path = None
    THEN [r EXCEPT !.force = @ \/ force]
    ELSE [r EXCEPT !.path = path, !.force = force \/ (@ /\ r.path = path)]

BoundaryPastOpen(s, leg) == Len(s.acts) + 1

\* The boundary is set once; a later arming finds no repair only if the first
\* step has just opened the session.
Boundary(s, leg) == IF leg.first THEN Len(s.acts) ELSE 0

Arm(s, leg) ==
    [s EXCEPT !.repair =
        IF s.repair # None THEN Retarget(@, leg.path, leg.force)
        ELSE [status |-> "armed", boundary |-> Boundary(s, leg),
              path |-> IF leg.path = None THEN Sibling ELSE leg.path,
              force |-> leg.force, receipt |-> None]]

DemoteNothing(r) == r
DemoteForgetting(r) == [r EXCEPT !.status = "armed", !.receipt = None]

\* A rerun takes completion back and keeps the receipt of the platform close.
Demote(r) == [r EXCEPT !.status = "armed"]

MarkComplete(r) == IF r.status = "armed" THEN [r EXCEPT !.status = "complete"] ELSE r
RecordClosed(r, ident) ==
    [r EXCEPT !.status = IF @ = "complete" THEN "close-succeeded" ELSE @, !.receipt = ident]
Terminated(s, status) == [s EXCEPT !.repair.status = status, !.repair.receipt = None]

\* What must be recorded before which continuation: after a step to be healed by
\* the client, and past the plan's last step.
Owed(hint, at) == hint = "heal" \/ (hint = "dual" /\ at = PlanLength)

Watermark(s, hint, at) ==
    IF Owed(hint, at) THEN [from |-> at + 1, count |-> Len(s.acts)] ELSE None

Init ==
    /\ session = None /\ stored = FALSE
    /\ run = None /\ closing = None /\ calls = 0
    /\ files \in SUBSET Targets
    /\ tombs = {}
    /\ daemon = "up"
    /\ endsWithClose \in BOOLEAN
    /\ outstanding = None /\ finished = FALSE /\ closedAs = None
    /\ granted = {} /\ ended = "no" /\ written = None

-----------------------------------------------------------------------------
(* Requests outside a replay *)

\* While the daemon's servers close, requests on open connections still come.
Free == run = None /\ closing = None /\ daemon \in {"up", "stopping"}
Called == calls < MaxCalls /\ calls' = calls + 1

\* open without a session.
Open ==
    /\ Free /\ Live = None
    /\ session' = [acts |-> <<Earlier>>, repair |-> None, pending |-> None]
    /\ stored' = TRUE
    /\ UNCHANGED <<requests, files, tombs, daemon, endsWithClose, history>>

\* Any recorded command. Reads without --record are not recorded in a repair.
Act ==
    /\ Free /\ Live # None /\ Len(session.acts) < MaxActs
    /\ session' = [session EXCEPT !.acts =
                     Append(@, IF Repairing(session) THEN Within ELSE Earlier)]
    /\ outstanding' = IF Repairing(session) THEN None ELSE outstanding
    /\ UNCHANGED <<stored, requests, files, tombs, daemon, endsWithClose,
                   finished, closedAs, granted, ended, written>>

-----------------------------------------------------------------------------
(* replay; from = 0 stands for a request without --from *)

Pending == IF Live = None THEN None ELSE session.pending
Expected(from) == Pending # None /\ Pending.from = from

\* resolveReplayEntryIndex, then the preflight against an active repair.
Corrected(from) == Expected(from) => Len(session.acts) # Pending.count

Admissible(from) ==
    /\ from = 0 \/ from \in Steps \/ Expected(from)
    /\ Corrected(from)
    /\ IF from \in {0, 1} THEN ~Repairing(Live) ELSE Live # None

TargetOf(path) ==
    IF path # None THEN path ELSE IF Repairing(Live) THEN session.repair.path ELSE Sibling

\* preflightSaveScriptTarget
Taken(path, force) ==
    /\ TargetOf(path) \in files
    /\ ~force
    /\ ~(Repairing(Live) /\ session.repair.force /\ TargetOf(path) = session.repair.path)

\* The client knows what it skips by going on elsewhere than it was told.
Skips(from) ==
    /\ outstanding # None
    /\ from > outstanding.at + 1 \/ (from = outstanding.at + 1 /\ ~outstanding.owed)

ClearedNever(save) == tombs

\* clearTombstone, under the session's key in the store.
Cleared(save) == IF save THEN tombs \ {Key} ELSE tombs

\* The watermark and the tombstone go before the target is looked at, so also
\* when the target then stops the replay.
Replay(from, save, path, force) ==
    LET s == IF Expected(from) THEN [session EXCEPT !.pending = None] ELSE Live
        refused == save /\ Taken(path, force)
        fresh == ~Repairing(Live)
    IN
    /\ Free /\ Called /\ Admissible(from)
    /\ save \/ (Repairing(Live) /\ path = None /\ ~force)
    /\ tombs' = Cleared(save)
    /\ IF refused
       THEN /\ session' = s
            /\ UNCHANGED <<run, history>>
       ELSE /\ session' = IF Repairing(s) THEN [s EXCEPT !.repair = Demote(@)] ELSE s
            /\ run' = [at |-> IF from = 0 THEN 1 ELSE from, save |-> save,
                       path |-> path, force |-> force, first |-> TRUE]
            /\ outstanding' = IF fresh \/ Skips(from) THEN None ELSE outstanding
            /\ finished' = FALSE
            /\ closedAs' = IF fresh THEN None ELSE closedAs
            /\ granted' = (IF fresh THEN {} ELSE granted)
                            \cup (IF force THEN {TargetOf(path)} ELSE {})
            /\ ended' = IF fresh THEN "no" ELSE ended
            /\ UNCHANGED written
    /\ UNCHANGED <<stored, closing, files, daemon, endsWithClose>>

\* Every step arms before anything else, as does the end of the run.
Armed == IF run.save /\ Live # None THEN Arm(session, run) ELSE Live

Dispatches == run # None /\ run.at \in Steps /\ ~(endsWithClose /\ run.at = PlanLength)

\* The first step opens the session if there is none.
StepSucceeds ==
    /\ Dispatches
    /\ IF Live = None
       THEN /\ run.at = 1
            /\ session' = [acts |-> <<Within>>, repair |-> None, pending |-> None]
       ELSE /\ Len(session.acts) < MaxActs
            /\ session' = [Armed EXCEPT !.acts = Append(@, Within)]
    /\ stored' = TRUE
    /\ run' = [run EXCEPT !.at = @ + 1, !.first = FALSE]
    /\ outstanding' = IF outstanding # None /\ outstanding.at = run.at THEN None ELSE outstanding
    /\ UNCHANGED <<closing, calls, files, tombs, daemon, endsWithClose,
                   finished, closedAs, granted, ended, written>>

StepDiverges(hint) ==
    /\ Dispatches
    /\ session' = IF Live = None THEN session
                  ELSE [Armed EXCEPT !.pending = Watermark(session, hint, run.at)]
    /\ run' = None
    /\ outstanding' = IF Live = None THEN None ELSE [at |-> run.at, owed |-> Owed(hint, run.at)]
    /\ UNCHANGED <<stored, closing, calls, files, tombs, daemon, endsWithClose,
                   finished, closedAs, granted, ended, written>>

\* The plan's own close is not dispatched, it would end the repair.
CloseSuppressed ==
    /\ run # None /\ run.at = PlanLength /\ endsWithClose
    /\ session' = IF Live = None THEN session ELSE Armed
    /\ run' = [run EXCEPT !.at = @ + 1, !.first = FALSE]
    /\ UNCHANGED <<stored, closing, calls, files, tombs, daemon, endsWithClose, history>>

RunEnds ==
    /\ run # None /\ run.at = PlanLength + 1
    /\ session' = IF Repairing(Armed) THEN [Armed EXCEPT !.repair = MarkComplete(@)]
                  ELSE session
    /\ run' = None
    /\ finished' = TRUE
    /\ UNCHANGED <<stored, closing, calls, files, tombs, daemon, endsWithClose,
                   outstanding, closedAs, granted, ended, written>>

-----------------------------------------------------------------------------
(* close *)

\* Between the records of a session nobody refers to any more and the next one
\* there is none; the teardown refers to the session it has begun with.
Dropped(s) == IF daemon = "tearing" THEN s ELSE None
Kept(s) == IF stored THEN s ELSE Dropped(s)

Script(s) == SubSeq(s.acts, s.repair.boundary + 1, Len(s.acts))
Writable(s, force) == s.repair.path \notin files \/ force \/ s.repair.force
Publish(s) ==
    /\ files' = files \cup {s.repair.path}
    /\ written' = [to |-> s.repair.path, script |-> Script(s)]
WithClose(s) == [s EXCEPT !.acts = Append(@, CloseLine)]

\* A failed publication takes the close back out, so that the retry records it
\* again.
Unrecorded(s, before) == [s EXCEPT !.acts = before.acts]

\* The close is recorded and may name another target. With --no-record (quiet) it is
\* not recorded, and what it names is not looked at.
Recorded(s, c) ==
    LET told == IF c.save THEN [s EXCEPT !.repair = Retarget(@, c.path, c.force)] ELSE s
    IN  IF c.quiet THEN s ELSE WithClose(told)

\* commitRepairScriptBeforeClose: the script is published if the repair is complete.
Publishes(s, c, fails) ==
    LET last == Recorded(s, c)
        released == [c EXCEPT !.phase = "releasing"]
    IN
    \/ /\ s.repair.status = "committed"
       /\ session' = last /\ closing' = released
       /\ UNCHANGED <<files, stored, written>>
    \/ /\ s.repair.status # "committed" /\ ~Committable(s)
       /\ session' = Terminated(last, "aborted") /\ closing' = released
       /\ UNCHANGED <<files, stored, written>>
    \/ /\ Committable(s) /\ ~fails /\ Writable(last, c.force)
       /\ session' = Terminated(last, "committed") /\ closing' = released
       /\ Publish(last)
       /\ UNCHANGED stored
    \/ /\ Committable(s) /\ (fails \/ ~Writable(last, c.force))
       /\ session' = Kept(Unrecorded(last, s)) /\ closing' = None
       /\ UNCHANGED <<files, stored, written>>

\* The close has got through to its lease: it has ended the repair.
Released == closing' # None /\ closing'.phase = "releasing"

\* prepareRepairClose: no platform close if this one has succeeded before.
Close(ident, save, path, force, quiet, fails) ==
    LET c == [ident |-> ident, save |-> save /\ ~quiet,
              path |-> IF quiet THEN None ELSE path,
              force |-> force, quiet |-> quiet, phase |-> "dispatching"]
    IN
    /\ Free /\ Called /\ Repairing(Live)
    /\ save \/ path = None
    /\ granted' = IF force THEN granted \cup {TargetOf(path)} ELSE granted
    /\ IF session.repair.receipt = ident
       THEN /\ Len(session.acts) < MaxActs
            /\ Publishes(session, c, fails)
       ELSE /\ ~fails
            /\ closing' = c
            /\ UNCHANGED <<session, stored, files, written>>
    /\ closedAs' = IF Released THEN None ELSE closedAs
    /\ ended' = IF Released THEN session'.repair.status ELSE ended
    /\ UNCHANGED <<run, tombs, daemon, endsWithClose, outstanding, finished>>

CloseFails ==
    /\ closing # None /\ closing.phase = "dispatching"
    /\ closing' = None
    /\ session' = Kept(session)
    /\ UNCHANGED <<stored, run, calls, files, tombs, daemon, endsWithClose, history>>

CloseDispatched(fails) ==
    LET s == [session EXCEPT !.repair = RecordClosed(@, closing.ident)]
    IN
    /\ closing # None /\ closing.phase = "dispatching"
    /\ Len(session.acts) < MaxActs
    /\ Publishes(s, closing, fails)
    /\ closedAs' = IF Released THEN None ELSE closing.ident
    /\ ended' = IF Released THEN session'.repair.status ELSE ended
    /\ UNCHANGED <<run, calls, tombs, daemon, endsWithClose, outstanding, finished, granted>>

\* The lease is given back and the session deleted, or kept for another close.
CloseEnds ==
    /\ closing # None /\ closing.phase = "releasing"
    /\ closing' = None /\ stored' = FALSE
    /\ session' = Dropped(session) /\ Forgotten
    /\ UNCHANGED <<run, calls, files, tombs, daemon, endsWithClose>>

ReleaseFails ==
    /\ closing # None /\ closing.phase = "releasing"
    /\ closing' = None
    /\ session' = Kept(session)
    /\ written' = None
    /\ UNCHANGED <<stored, run, calls, files, tombs, daemon, endsWithClose,
                   outstanding, finished, closedAs, granted, ended>>

\* The close of a session without a repair, and its script, in one step.
OrdinaryClose ==
    /\ Free /\ Live # None /\ ~Repairing(Live)
    /\ session' = None /\ stored' = FALSE /\ Forgotten
    /\ UNCHANGED <<requests, files, tombs, daemon, endsWithClose>>

-----------------------------------------------------------------------------
(* The daemon *)

\* An uncommitted repair does not keep an idle daemon alive, any other session does.
IdleReap ==
    /\ daemon = "up" /\ run = None /\ closing = None
    /\ Live = None \/ (Repairing(Live) /\ session.repair.status # "committed")
    /\ daemon' = "stopping"
    /\ UNCHANGED <<session, stored, requests, files, tombs, endsWithClose, history>>

Signal ==
    /\ Signals /\ daemon = "up"
    /\ daemon' = "stopping"
    /\ UNCHANGED <<session, stored, requests, files, tombs, endsWithClose, history>>

\* The servers are closed; what is in the store now is torn down.
TeardownStarts ==
    /\ daemon = "stopping"
    /\ daemon' = IF stored THEN "tearing" ELSE "ending"
    /\ UNCHANGED <<session, stored, requests, files, tombs, endsWithClose, history>>

\* finalizeRepairTeardown, when the session's resources are stopped or the time
\* for that is over. The session is deleted by its public name.
Finalize(fails) ==
    LET commits == Repairing(session) /\ Committable(session)
        last == IF commits THEN WithClose(session) ELSE session
        publishes == commits /\ ~fails /\ Writable(session, FALSE)
        reaped == Repairing(session) /\ session.repair.status # "committed" /\ ~publishes
        after == IF publishes THEN Terminated(last, "committed") ELSE last
    IN
    /\ daemon = "tearing"
    /\ fails => commits
    /\ daemon' = "ending"
    /\ IF publishes THEN Publish(last) ELSE UNCHANGED <<files, written>>
    /\ tombs' = IF reaped THEN tombs \cup {Public} ELSE tombs
    /\ stored' = (stored /\ Key # Public)
    /\ session' = IF closing # None \/ stored' THEN after ELSE None
    /\ UNCHANGED <<requests, endsWithClose, outstanding, finished, closedAs, granted, ended>>

Gone ==
    /\ session' = None /\ stored' = FALSE /\ run' = None /\ closing' = None
    /\ daemon' = "down" /\ Forgotten
    /\ UNCHANGED <<calls, files, tombs, endsWithClose>>

\* The process ends, whatever still runs in it, or is killed.
Exit == daemon = "ending" /\ Gone
Crash == Signals /\ daemon # "down" /\ Gone

Start ==
    /\ daemon = "down"
    /\ daemon' = "up"
    /\ UNCHANGED <<session, stored, requests, files, tombs, endsWithClose, history>>

TombstoneExpires ==
    /\ \E n \in tombs : tombs' = tombs \ {n}
    /\ UNCHANGED <<session, stored, requests, files, daemon, endsWithClose, history>>

\* Somebody else makes or removes a file at a target.
FileChanges ==
    /\ \E t \in Targets : files' = IF t \in files THEN files \ {t} ELSE files \cup {t}
    /\ UNCHANGED <<session, stored, requests, tombs, daemon, endsWithClose, history>>

Next ==
    \/ Open \/ Act
    \/ \E from \in 0 .. PlanLength + 1, save, force \in BOOLEAN, path \in Targets \cup {None} :
          Replay(from, save, path, force)
    \/ StepSucceeds \/ (\E hint \in Hints : StepDiverges(hint)) \/ CloseSuppressed \/ RunEnds
    \/ \E ident \in Idents, path \in Targets \cup {None}, save, force, quiet, fails \in BOOLEAN :
          Close(ident, save, path, force, quiet, fails)
    \/ CloseFails \/ (\E fails \in BOOLEAN : CloseDispatched(fails))
    \/ CloseEnds \/ ReleaseFails \/ OrdinaryClose
    \/ IdleReap \/ Signal \/ TeardownStarts \/ (\E fails \in BOOLEAN : Finalize(fails))
    \/ Exit \/ Crash \/ Start \/ TombstoneExpires \/ FileChanges

Spec == Init /\ [][Next]_vars

-----------------------------------------------------------------------------
(* Properties *)

\* The state has its types; the part of the record that a repair would publish
\* begins within the record (repairBoundary, by which buildOptimizedActions slices
\* it); a close is of a repair and never beside a replay.
RepairTypeOK ==
    /\ session \in Sessions \cup {None} /\ stored \in BOOLEAN
    /\ run \in Legs \cup {None} /\ closing \in Closes \cup {None} /\ calls \in Nat
    /\ files \subseteq Targets /\ granted \subseteq Targets /\ tombs \subseteq {Key, Public}
    /\ daemon \in {"up", "stopping", "tearing", "ending", "down"} /\ endsWithClose \in BOOLEAN
    /\ outstanding \in Divergences \cup {None} /\ finished \in BOOLEAN
    /\ closedAs \in Idents \cup {None} /\ ended \in {"no", "committed", "aborted"}
    /\ stored => session # None
    /\ Repairing(session) => session.repair.boundary <= Len(session.acts)
    /\ closing # None => Repairing(session) /\ run = None

Published == written' # written /\ written' # None

\* A step of a close that is not recorded.
ByQuietClose == closing' # closing /\ closing' # None /\ closing'.quiet

\* A script is only published when the last leg of the plan has reached its end, and,
\* if no close has ended the repair before, when every divergence was answered
\* (isRepairCommittable, and the watermark that makes the client correct a step before
\* it goes on), by a close as well as by the teardown of a daemon. It then holds
\* nothing that was recorded before the repair and ends with a close, unless this is
\* one with --no-record. That is its only close, unless the daemon was torn down while
\* a close was under way or an ended repair was resumed.
PublishedWhole ==
    [][Published =>
          LET script == written'.script IN
          /\ finished /\ (ended = "no" => outstanding = None)
          /\ ByQuietClose \/ (script # <<>> /\ script[Len(script)] = CloseLine)
          /\ \A i \in 1 .. Len(script) : script[i] # Earlier
          /\ daemon = "up" /\ ended = "no" =>
                \A i \in 1 .. Len(script) - 1 : script[i] # CloseLine]_vars

\* A platform close that has succeeded is not dispatched again by the retry of a
\* close whose publication failed, whatever replays there were between them
\* (recordRepairCloseSucceeded and demoteRepairToArmed, which keeps the receipt).
CloseDispatchedOnce ==
    closing # None /\ closing.phase = "dispatching" => closedAs # closing.ident

\* A script replaces a file only at a target for which the client has allowed that
\* in this repair (#1258), or on the --force of a close with --no-record, which
\* commitRepairScriptBeforeClose honours at the repair's own target whatever the close
\* has named: else the grant for one target never covers another one.
OverwritesGranted ==
    [][Published /\ written'.to \in files =>
          written'.to \in granted' \/ (ByQuietClose /\ closing'.force)]_vars

\* While a repair is in the store of a running daemon, the next call is not told that
\* the repair has expired: replay clears what an earlier daemon has left
\* (clearTombstone, repairExpiredIfTombstoned).
TombstoneCleared ==
    daemon = "up" /\ stored /\ Repairing(session) => Public \notin tombs

\* So it is for a session stored under its public name, as one that the client has
\* named: the tombstone is cleared under the one, and written and read under the other.
NamedTombstoneCleared == Key = Public => TombstoneCleared

=============================================================================
