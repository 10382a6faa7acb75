------------------------------ MODULE RefFrame ------------------------------
(***************************************************************************)
(* The lifetime of the refs of one session (daemon/ref-frame.ts,           *)
(* session-snapshot.ts and the commands that use them).                    *)
(*                                                                         *)
(* A capture of the screen gives every element a positional ref.  The      *)
(* session keeps the last capture (the observation, counted by gen) and,   *)
(* apart from it, the frame: the capture whose refs the client may act on, *)
(* with the refs it was shown and the generation its pins carry.  A        *)
(* complete snapshot renews the frame, a find, a settled diff or a replay  *)
(* divergence renews it for the refs it shows, and every possible effect   *)
(* on the device expires it.  Other captures leave it alone.               *)
(*                                                                         *)
(* The requests of a session run one at a time under its lock, so one      *)
(* program counter describes the one that runs; each step ends where the   *)
(* code awaits.  The screen may change at any moment by itself: a capture  *)
(* returns any tree.                                                       *)
(***************************************************************************)
EXTENDS Naturals, FiniteSets

CONSTANTS
    Refs,       \* positional refs
    Ids,        \* local identities of elements
    Places,     \* where an element is on the screen
    Trees,      \* what a capture may return
    None,
    MaxGen,     \* bound: captures
    MaxEffects  \* bound: effects on the device

Elements == [id : Ids, place : Places]

ASSUME RefAssumption ==
    /\ Trees \subseteq [Refs -> Elements \cup {None}]
    /\ None \notin Refs \cup Elements \cup Trees \cup Nat
    /\ MaxGen \in Nat /\ MaxEffects \in Nat

VARIABLES
    effects,    \* how often the device side-effect seam was crossed
    last,       \* the generation of the session's last capture, ever
    obs,        \* session.snapshot, and the effects there were before it
    gen,        \* session.snapshotGeneration
    frame,      \* the four refFrame fields, and the effects before its tree
    at,         \* where the request that runs is
    job,        \* what it does, and the ref it was given
    named,      \* what responses have told clients: ref, pin and identity
    acted       \* the last ref mutation that was dispatched

vars == <<effects, last, obs, gen, frame, at, job, named, acted>>

NoObs == [tree |-> None, at |-> 0]
NoFrame == [state |-> "active", scope |-> Refs, all |-> TRUE,
            tree |-> None, epoch |-> None, at |-> 0]
NoJob == [kind |-> "none", ref |-> None]
NoAct == [ref |-> None, epoch |-> None, id |-> None, fresh |-> TRUE]

Init ==
    /\ effects = 0 /\ last = 0
    /\ obs = NoObs /\ gen = None
    /\ frame = NoFrame
    /\ at = "idle" /\ job = NoJob
    /\ named = {} /\ acted = NoAct

-----------------------------------------------------------------------------
(* The parts of the steps *)

Shown(t) == {r \in Refs : t[r] # None}

StoresSeedingOnce(t) ==
    /\ last < MaxGen
    /\ last' = IF gen = None THEN last + 1 ELSE last
    /\ gen' = last'
    /\ obs' = [tree |-> t, at |-> effects]

(* setSessionSnapshot: every replaced tree has a generation of its own.  The
   first of a session's lifetime is drawn at random: taken here as one that
   no former lifetime used. *)
Stores(t) ==
    /\ last < MaxGen
    /\ last' = last + 1
    /\ gen' = last + 1
    /\ obs' = [tree |-> t, at |-> effects]

(* expireRefFrame, before the effect is awaited. *)
Expires ==
    /\ effects < MaxEffects
    /\ effects' = effects + 1
    /\ frame' = [frame EXCEPT !.state = "expired"]

IssueWithoutTree(refs, all, o, g) ==
    frame' = [state |-> "active", scope |-> refs, all |-> all,
              tree |-> frame.tree, epoch |-> g, at |-> o.at]

(* activateRefFrame: the tree and generation of the observation o. *)
Issue(refs, all, o, g) ==
    frame' = [state |-> "active", scope |-> refs, all |-> all,
              tree |-> o.tree, epoch |-> g, at |-> o.at]

(* The response tells the client these refs of the tree t and their pin. *)
Tells(refs, t, g) ==
    named' = named \cup {[ref |-> r, gen |-> g, id |-> t[r].id] : r \in refs}

(* refFrameEpoch and requireSnapshotSession: a session that never issued a
   frame falls back on its observation. *)
Epoch == IF frame.epoch # None THEN frame.epoch ELSE gen
FrameTree == IF frame.tree # None THEN frame.tree ELSE obs.tree

(* admitRefMutation; a plain ref has no pin. *)
Admits(r, pin) ==
    /\ frame.state = "active"
    /\ pin # None => pin = Epoch
    /\ ~frame.all => pin # None /\ r \in frame.scope

-----------------------------------------------------------------------------
(* Commands that read *)

(* snapshot: the response carries every ref of the stored tree. *)
Snapshot(t) ==
    /\ at = "idle"
    /\ Stores(t)
    /\ Issue(Refs, TRUE, obs', gen')
    /\ Tells(Shown(t), t, gen')
    /\ UNCHANGED <<effects, at, job, acted>>

(* diff, is, wait, get, a snapshot the daemon takes for itself. *)
Observe(t) ==
    /\ at = "idle"
    /\ Stores(t)
    /\ UNCHANGED <<effects, frame, at, job, named, acted>>

(* A find that only reads shows the one ref it matched. *)
FindRead(t, r) ==
    /\ at = "idle"
    /\ r \in Shown(t)
    /\ Stores(t)
    /\ Issue({r}, FALSE, obs', gen')
    /\ Tells({r}, t, gen')
    /\ UNCHANGED <<effects, at, job, acted>>

-----------------------------------------------------------------------------
(* Commands that act *)

(* back, type, settings, a direct iOS selector ...: they answer, fail or time
   out after the seam. *)
Act ==
    /\ at = "idle"
    /\ Expires
    /\ UNCHANGED <<last, obs, gen, at, job, named, acted>>

(* open on an open session keeps the record but for its snapshot. *)
OpenAgain ==
    /\ at = "idle"
    /\ Expires
    /\ obs' = NoObs
    /\ UNCHANGED <<last, gen, at, job, named, acted>>

(* close, and an open that makes a new record. *)
Reopen ==
    /\ at = "idle"
    /\ effects < MaxEffects
    /\ effects' = effects + 1
    /\ obs' = NoObs
    /\ gen' = None
    /\ frame' = NoFrame
    /\ UNCHANGED <<last, at, job, named, acted>>

(* press, fill or longpress on a ref, with a pin that a response told or none. *)
ActOnRef(r, pin) ==
    /\ at = "idle"
    /\ Admits(r, pin)
    /\ job' = [kind |-> "ref", ref |-> r]
    /\ at' = "admitted"
    /\ UNCHANGED <<effects, last, obs, gen, frame, named, acted>>

(* A find that acts resolves its locator to a ref of its own capture, which
   the command it dispatches uses without admission. *)
FindAct(t, r) ==
    /\ at = "idle"
    /\ r \in Shown(t)
    /\ Stores(t)
    /\ job' = [kind |-> "find", ref |-> r]
    /\ at' = "admitted"
    /\ UNCHANGED <<effects, frame, named, acted>>

(* A selector or a point needs no ref. *)
ActOnSelector ==
    /\ at = "idle"
    /\ job' = [kind |-> "selector", ref |-> None]
    /\ at' = "refreshed"
    /\ UNCHANGED <<effects, last, obs, gen, frame, named, acted>>

(* refreshAndroidRefSnapshotIfFreshnessActive: after a navigation Android's
   tree is captured again; a sparse or failed capture is not stored. *)
Refresh(t) ==
    /\ at = "admitted"
    /\ Stores(t)
    /\ at' = "refreshed"
    /\ UNCHANGED <<effects, frame, job, named, acted>>

NoRefresh ==
    /\ at = "admitted"
    /\ at' = "refreshed"
    /\ UNCHANGED <<effects, last, obs, gen, frame, job, named, acted>>

(* ensureAndroidBlockingSystemDialogReady before the command. *)
Ready ==
    /\ at = "refreshed"
    /\ at' = "ready"
    /\ UNCHANGED <<effects, last, obs, gen, frame, job, named, acted>>

(* It closes and relaunches an app that does not respond, and the command goes
   on; one that was given a ref is admitted again, and refused. *)
Recover ==
    /\ at = "refreshed"
    /\ job.kind # "ref"
    /\ Expires
    /\ at' = "ready"
    /\ UNCHANGED <<last, obs, gen, job, named, acted>>

RecoverAborts ==
    /\ at = "refreshed"
    /\ Expires
    /\ at' = "idle"
    /\ job' = NoJob
    /\ UNCHANGED <<last, obs, gen, named, acted>>

(* A selector is resolved in a capture of its own. *)
CaptureForSelector(t) ==
    /\ at = "ready"
    /\ job.kind = "selector"
    /\ Stores(t)
    /\ at' = "resolved"
    /\ UNCHANGED <<effects, frame, job, named, acted>>

ResolvePositional(r) == IF obs.tree # None /\ obs.tree[r] # None THEN obs.tree[r] ELSE FrameTree[r]

(* reconcileFreshObservation: the frame says which element the ref means; a
   newer observation may say where it is now. *)
Resolve(r) ==
    IF obs.tree # None /\ obs.tree[r] # None /\ obs.tree[r].id = FrameTree[r].id
    THEN obs.tree[r]
    ELSE FrameTree[r]

(* The tap, fill or long press: the frame is expired, then it is awaited. *)
DispatchOnRef ==
    /\ at = "ready"
    /\ job.kind = "ref"
    /\ FrameTree # None
    /\ FrameTree[job.ref] # None
    /\ Expires
    /\ acted' = [ref |-> job.ref, epoch |-> frame.epoch, id |-> Resolve(job.ref).id,
                 fresh |-> frame.at = effects]
    /\ at' = "dispatched"
    /\ UNCHANGED <<last, obs, gen, job, named>>

Dispatch ==
    /\ \/ at = "ready" /\ job.kind = "find" /\ obs.tree[job.ref] # None
       \/ at = "resolved"
    /\ Expires
    /\ at' = "dispatched"
    /\ UNCHANGED <<last, obs, gen, job, named, acted>>

(* Nothing matches, the element is covered or off the screen, the guard of a
   replay refuses: no effect, no change. *)
GiveUp ==
    /\ at \in {"ready", "resolved"}
    /\ at' = "idle"
    /\ job' = NoJob
    /\ UNCHANGED <<effects, last, obs, gen, frame, named, acted>>

(* --settle, and --verify: the last capture is stored unless it is sparse.
   Only a settled one will be shown. *)
Settle(t, shown) ==
    /\ at = "dispatched"
    /\ Stores(t)
    /\ at' = IF shown THEN "settled" ELSE "done"
    /\ UNCHANGED <<effects, frame, job, named, acted>>

NoSettle ==
    /\ at = "dispatched"
    /\ at' = "done"
    /\ UNCHANGED <<effects, last, obs, gen, frame, job, named, acted>>

RecoverAfterwardsAndGoOn ==
    /\ at \in {"settled", "done"}
    /\ Expires
    /\ UNCHANGED <<last, obs, gen, at, job, named, acted>>

(* After the command the dialog is looked for again; a recovery throws. *)
RecoverAfterwards ==
    /\ at \in {"settled", "done"}
    /\ Expires
    /\ at' = "idle"
    /\ job' = NoJob
    /\ UNCHANGED <<last, obs, gen, named, acted>>

DivergeIssuing(t) ==
    /\ at = "idle"
    /\ Stores(t)
    /\ Issue(Refs, TRUE, obs', gen')
    /\ at' = "diverged"
    /\ UNCHANGED <<effects, job, named, acted>>

(* A failed step of a replay is captured for its report. *)
Diverge(t) ==
    /\ at = "idle"
    /\ Stores(t)
    /\ at' = "diverged"
    /\ UNCHANGED <<effects, frame, job, named, acted>>

(* markSessionPartialRefsIssued for the refs of a settled diff or of a
   divergence's screen; showing none changes nothing. *)
Publish(refs) ==
    /\ at \in {"settled", "diverged"}
    /\ refs \subseteq Shown(obs.tree)
    /\ refs # {}
    /\ Issue(refs, FALSE, obs, gen)
    /\ Tells(refs, obs.tree, gen)
    /\ at' = "idle"
    /\ job' = NoJob
    /\ UNCHANGED <<effects, last, obs, gen, acted>>

(* No refs to show, the request was cancelled, or it failed: the answer names
   no ref. *)
Finish ==
    /\ at \in {"dispatched", "settled", "diverged", "done"}
    /\ at' = "idle"
    /\ job' = NoJob
    /\ UNCHANGED <<effects, last, obs, gen, frame, named, acted>>

-----------------------------------------------------------------------------
Pins == {None} \cup {n.gen : n \in named}

Next ==
    \/ \E t \in Trees :
        \/ Snapshot(t) \/ Observe(t) \/ Diverge(t) \/ Refresh(t) \/ CaptureForSelector(t)
        \/ \E r \in Refs : FindRead(t, r) \/ FindAct(t, r)
        \/ \E shown \in BOOLEAN : Settle(t, shown)
    \/ \E r \in Refs, pin \in Pins : ActOnRef(r, pin)
    \/ Act \/ OpenAgain \/ Reopen \/ ActOnSelector
    \/ NoRefresh \/ Ready \/ Recover \/ RecoverAborts
    \/ DispatchOnRef \/ Dispatch \/ GiveUp
    \/ NoSettle \/ RecoverAfterwards
    \/ \E refs \in SUBSET Refs : Publish(refs)
    \/ Finish

Spec == Init /\ [][Next]_vars

-----------------------------------------------------------------------------
(* The fields of the frame move together: a frame has a tree exactly when it
   has an epoch (ref-frame.ts:121-137). *)
RefTypeOK ==
    /\ effects \in 0..MaxEffects
    /\ last \in 0..MaxGen
    /\ gen \in {None, last}
    /\ obs \in [tree : Trees \cup {None}, at : 0..effects]
    /\ obs.tree # None => gen # None
    /\ frame \in [state : {"active", "expired"}, scope : SUBSET Refs, all : BOOLEAN,
                  tree : Trees \cup {None}, epoch : {None} \cup 1..last, at : 0..effects]
    /\ frame.tree = None <=> frame.epoch = None
    /\ at \in {"idle", "admitted", "refreshed", "ready", "resolved", "dispatched",
               "settled", "done", "diverged"}
    /\ job \in [kind : {"none", "ref", "find", "selector"}, ref : Refs \cup {None}]
    /\ job.ref = None <=> job.kind \in {"none", "selector"}
    /\ named \subseteq [ref : Refs, gen : 1..last, id : Ids]
    /\ acted \in [ref : Refs \cup {None}, epoch : {None} \cup 1..last,
                  id : Ids \cup {None}, fresh : BOOLEAN]

(* Refs that may be acted on come from a tree captured after everything this
   session did to the device, recoveries in the middle of a command included:
   an effect between a capture and its publication must void it
   (ref-frame.ts:56-75, android-system-dialog.ts:155-168). *)
ActiveFrameCurrent ==
    frame.epoch # None /\ frame.state = "active" => frame.at = effects

(* A ref mutation acts on the element that a response named to clients under
   that ref and generation, whatever was captured in between, and nothing was
   done to the device since the tree was captured
   (commands/interaction/runtime/resolution.ts:596-647). *)
ActedOnNamed ==
    acted.epoch # None =>
        /\ acted.fresh
        /\ [ref |-> acted.ref, gen |-> acted.epoch, id |-> acted.id] \in named

(* A pin means one element for as long as anybody may use it, although four
   commands issue refs and many more replace the tree
   (session-snapshot.ts:26-33, 61-73). *)
PinNamesOneElement ==
    \A m, n \in named : m.ref = n.ref /\ m.gen = n.gen => m.id = n.id

(* What the client may act on changes only when the device was acted on, when
   a response told refs, or when the session is a new one: no internal capture
   takes authority away or gives it (session-snapshot.ts:19-25). *)
AuthorityChangesOpenly ==
    [][frame' # frame => effects' # effects \/ named' # named]_vars

(* "Session reopen ... Plain refs: Rejected until publication"
   (docs/adr/0014-session-ref-frame-lifetime.md:110). *)
NoActBeforePublication == acted.ref # None => acted.epoch # None
=============================================================================
