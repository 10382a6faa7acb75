---------------------------- MODULE RequestLocks ----------------------------
(***************************************************************************)
(* How the requests of one daemon are serialized (daemon/request-binding,  *)
(* request-execution-locks, request-execution-scope and request-router).   *)
(*                                                                         *)
(* A request reads the session store to choose its lock keys: the session, *)
(* and the device the session is bound to or, for a fresh session, the     *)
(* device its selector resolves to.  The choice is advisory: it is made    *)
(* before the locks are held and may be stale when they are.  It then      *)
(* takes the keys in order, runs its steps and lets them go.  A replay     *)
(* runs several steps under its locks; a step that opens a device nobody   *)
(* could foresee retains that device's lock until the replay ends.  A step *)
(* that is not a recorded action takes the full request path again: keys   *)
(* of its own, re-entrant on those of the request's async context.         *)
(*                                                                         *)
(* An open of a fresh session is serialized per device by a third kind of  *)
(* key, and refused when another session is bound to the device.           *)
(***************************************************************************)
EXTENDS Sequences, Naturals, SequencesExt, KeyedLock

CONSTANTS
    Requests,
    Sessions,
    Devices,
    Plans       \* what a request may be: session, hint, replay, steps

Ops == {"open", "close", "act", "full", "probe"}

(* A request holds locks in its own async context; each device lock that it
   retains is held in a context of its own (retainExecutionLock). *)
ASSUME RequestAssumption ==
    /\ None \notin Devices /\ None \notin Sessions
    /\ Keys = ({"session"} \X Sessions) \cup ({"device", "open"} \X Devices)
    /\ Callers = Requests \X {"own", "retained"}
    /\ Plans \subseteq [session : Sessions, hint : Devices \cup {None}, replay : BOOLEAN,
                        steps : Seq([op : Ops, device : Devices \cup {None}])]
    /\ \A p \in Plans :      \* an open resolves to some device
        /\ Len(p.steps) > 0
        /\ \A i \in 1..Len(p.steps) : p.steps[i].op = "open" => p.steps[i].device # None

VARIABLES
    bound,      \* the session store: the device of each open session
    plan,       \* what each request asks for
    pc,         \* where each request is
    step,       \* the step it is at: 0 while the first keys are taken
    initial,    \* the keys it chose before it took any lock
    todo,       \* the keys it still has to take
    stack,      \* the keys its async context holds, in order
    retained,   \* the device keys it has retained
    using       \* the device it is working on

vars == <<bound, plan, pc, step, initial, todo, stack, retained, using, lockVars>>

NoPlan == [session |-> None, hint |-> None, replay |-> FALSE, steps |-> <<>>]

SessionOf(r) == plan[r].session
BoundTo(r) == bound[SessionOf(r)]
StepOf(r) == plan[r].steps[step[r]]
Over(r) == step[r] > Len(plan[r].steps)

SessionKey(s) == <<"session", s>>
DeviceKey(d) == <<"device", d>>
OpenKey(d) == <<"open", d>>
Own(r, k) == [key |-> k, caller |-> <<r, "own">>]
Kept(r, k) == [key |-> k, caller |-> <<r, "retained">>]

KeysForUnresolved(s, hint) ==
    <<SessionKey(s), DeviceKey(IF bound[s] # None THEN bound[s] ELSE hint)>>

(* The keys of a request on a session: session keys sort before device keys. *)
KeysFor(s, hint) ==
    LET d == IF bound[s] # None THEN bound[s] ELSE hint
    IN IF d = None THEN <<SessionKey(s)>> ELSE <<SessionKey(s), DeviceKey(d)>>

Init ==
    /\ LockInit
    /\ bound = [s \in Sessions |-> None]
    /\ plan = [r \in Requests |-> NoPlan]
    /\ pc = [r \in Requests |-> "idle"]
    /\ step = [r \in Requests |-> 0]
    /\ initial = [r \in Requests |-> <<>>]
    /\ todo = [r \in Requests |-> <<>>]
    /\ stack = [r \in Requests |-> <<>>]
    /\ retained = [r \in Requests |-> {}]
    /\ using = [r \in Requests |-> None]

-----------------------------------------------------------------------------
(* Taking locks *)

(* The keys are resolved from the store as it is now, before any lock. *)
Arrive(r, p) ==
    /\ pc[r] = "idle"
    /\ plan' = [plan EXCEPT ![r] = p]
    /\ initial' = [initial EXCEPT ![r] = KeysFor(p.session, p.hint)]
    /\ todo' = [todo EXCEPT ![r] = KeysFor(p.session, p.hint)]
    /\ pc' = [pc EXCEPT ![r] = "asking"]
    /\ UNCHANGED <<bound, step, stack, retained, using, lockVars>>

Ask(r) ==
    /\ pc[r] = "asking"
    /\ Enqueue(Own(r, Head(todo[r])))
    /\ pc' = [pc EXCEPT ![r] = "waiting"]
    /\ UNCHANGED <<bound, plan, step, initial, todo, stack, retained, using>>

(* The last key admits the request to its first step, or lets the step that
   asked for keys of its own start. *)
Got(r) ==
    /\ pc[r] = "waiting"
    /\ Granted(Own(r, Head(todo[r])))
    /\ stack' = [stack EXCEPT ![r] = Append(@, Head(todo[r]))]
    /\ todo' = [todo EXCEPT ![r] = Tail(@)]
    /\ IF Len(todo[r]) > 1
       THEN pc' = [pc EXCEPT ![r] = "asking"] /\ UNCHANGED step
       ELSE /\ pc' = [pc EXCEPT ![r] = IF step[r] = 0 THEN "body" ELSE "ready"]
            /\ step' = [step EXCEPT ![r] = IF @ = 0 THEN 1 ELSE @]
    /\ UNCHANGED <<bound, plan, initial, retained, using, lockVars>>

(* A step on the full request path resolves keys of its own; those its async
   context holds are re-entrant, a retained device lock is not among them.  The
   session key always is, so the last key is the one it may have to take. *)
AskAgain(r) ==
    LET key == Last(KeysFor(SessionOf(r), None))
        wanted == IF key \in ToSet(stack[r]) THEN <<>> ELSE <<key>>
    IN /\ pc[r] = "body" /\ ~Over(r)
       /\ StepOf(r).op = "full"
       /\ todo' = [todo EXCEPT ![r] = wanted]
       /\ pc' = [pc EXCEPT ![r] = IF wanted = <<>> THEN "ready" ELSE "asking"]
       /\ UNCHANGED <<bound, plan, step, initial, stack, retained, using, lockVars>>

(* The session's device, or the one the handler resolves now: for an open, and
   for a close of an app or another command that needs no session, whose keys
   name that device only if a selector did. *)
OpenDevice(r) == IF BoundTo(r) # None THEN BoundTo(r) ELSE StepOf(r).device

RetainsNothing(r) == FALSE

(* retainDevice: a replay keeps the lock of a device that its first keys did
   not name. *)
MustRetain(r) ==
    /\ plan[r].replay
    /\ DeviceKey(OpenDevice(r)) \notin ToSet(initial[r]) \cup retained[r]

AtOpen(r) == pc[r] = "body" /\ ~Over(r) /\ StepOf(r).op = "open"

Retain(r) ==
    /\ AtOpen(r)
    /\ MustRetain(r)
    /\ Enqueue(Kept(r, DeviceKey(OpenDevice(r))))
    /\ pc' = [pc EXCEPT ![r] = "retaining"]
    /\ UNCHANGED <<bound, plan, step, initial, todo, stack, retained, using>>

Retained(r) ==
    /\ pc[r] = "retaining"
    /\ Granted(Kept(r, DeviceKey(OpenDevice(r))))
    /\ retained' = [retained EXCEPT ![r] = @ \cup {DeviceKey(OpenDevice(r))}]
    /\ pc' = [pc EXCEPT ![r] = "body"]
    /\ UNCHANGED <<bound, plan, step, initial, todo, stack, using, lockVars>>

(* firstSessionOpenLocks: opens of fresh sessions take turns on a device. *)
AskToOpen(r) ==
    /\ AtOpen(r)
    /\ ~MustRetain(r)
    /\ BoundTo(r) = None
    /\ todo' = [todo EXCEPT ![r] = <<OpenKey(OpenDevice(r))>>]
    /\ pc' = [pc EXCEPT ![r] = "asking"]
    /\ UNCHANGED <<bound, plan, step, initial, stack, retained, using, lockVars>>

-----------------------------------------------------------------------------
(* The steps of a request *)

MayStartUnserialized(r) ==
    \/ pc[r] = "ready"
    \/ pc[r] = "body" /\ ~Over(r) /\ StepOf(r).op \in {"act", "close", "probe"}
    \/ AtOpen(r) /\ ~MustRetain(r)

(* No lock of its own is needed, or it is held. *)
MayStart(r) ==
    \/ pc[r] = "ready"
    \/ pc[r] = "body" /\ ~Over(r) /\ StepOf(r).op \in {"act", "close", "probe"}
    \/ AtOpen(r) /\ ~MustRetain(r) /\ BoundTo(r) # None

(* A probe goes by its explicit selector even if there is a session. *)
Target(r) == IF StepOf(r).op = "probe" THEN StepOf(r).device ELSE OpenDevice(r)

(* findNewSessionDeviceConflict: the device is another session's. *)
Conflict(r) ==
    /\ StepOf(r).op = "open"
    /\ \E s \in Sessions \ {SessionOf(r)} : bound[s] = Target(r)

Accepted(r) == Target(r) # None /\ ~Conflict(r)

Start(r) ==
    /\ MayStart(r)
    /\ Accepted(r)
    /\ using' = [using EXCEPT ![r] = Target(r)]
    /\ pc' = [pc EXCEPT ![r] = "using"]
    /\ UNCHANGED <<bound, plan, step, initial, todo, stack, retained, lockVars>>

(* Neither session nor device, or the device is another session's: a failed step
   ends the request. *)
Refuse(r) ==
    /\ MayStart(r)
    /\ ~Accepted(r)
    /\ step' = [step EXCEPT ![r] = Len(plan[r].steps) + 1]
    /\ pc' = [pc EXCEPT ![r] = "leaving"]
    /\ UNCHANGED <<bound, plan, initial, todo, stack, retained, using, lockVars>>

(* The store learns of an opened session last, and of a closed one last. *)
Finish(r) ==
    /\ pc[r] = "using"
    /\ bound' = CASE StepOf(r).op = "open" -> [bound EXCEPT ![SessionOf(r)] = using[r]]
                  [] StepOf(r).op = "close" -> [bound EXCEPT ![SessionOf(r)] = None]
                  [] OTHER -> bound
    /\ using' = [using EXCEPT ![r] = None]
    /\ step' = [step EXCEPT ![r] = @ + 1]
    /\ pc' = [pc EXCEPT ![r] = "leaving"]
    /\ UNCHANGED <<plan, initial, todo, stack, retained, lockVars>>

(* The platform fails the step; what was bound stays bound. *)
Fail(r) ==
    /\ pc[r] = "using"
    /\ using' = [using EXCEPT ![r] = None]
    /\ step' = [step EXCEPT ![r] = Len(plan[r].steps) + 1]
    /\ pc' = [pc EXCEPT ![r] = "leaving"]
    /\ UNCHANGED <<bound, plan, initial, todo, stack, retained, lockVars>>

-----------------------------------------------------------------------------
(* Letting locks go *)

(* A step gives back the keys it asked for itself, the end of the request
   the first keys too, innermost first. *)
Floor(r) == IF Over(r) THEN 0 ELSE Len(initial[r])

Leave(r) ==
    /\ pc[r] = "leaving"
    /\ Len(stack[r]) > Floor(r)
    /\ Settle(Own(r, Last(stack[r])))
    /\ pc' = [pc EXCEPT ![r] = "cleaning"]
    /\ UNCHANGED <<bound, plan, step, initial, todo, stack, retained, using>>

Clean(r) ==
    /\ pc[r] = "cleaning"
    /\ Cleanup(Own(r, Last(stack[r])))
    /\ stack' = [stack EXCEPT ![r] = Front(@)]
    /\ pc' = [pc EXCEPT ![r] = "leaving"]
    /\ UNCHANGED <<bound, plan, step, initial, todo, retained, using>>

GoOn(r) ==
    /\ pc[r] = "leaving"
    /\ ~Over(r)
    /\ Len(stack[r]) = Floor(r)
    /\ pc' = [pc EXCEPT ![r] = "body"]
    /\ UNCHANGED <<bound, plan, step, initial, todo, stack, retained, using, lockVars>>

ReleaseUnqueued(r, k) ==
    /\ pc[r] = "leaving"
    /\ stack[r] = <<>>
    /\ k \in retained[r]
    /\ live' = live \ {Kept(r, k)}
    /\ pc' = [pc EXCEPT ![r] = "releasing"]
    /\ UNCHANGED <<bound, plan, step, initial, todo, stack, retained, using, tail, ahead>>

(* releaseRetainedLocks, after the request's own locks. *)
Release(r, k) ==
    /\ pc[r] = "leaving"
    /\ stack[r] = <<>>
    /\ k \in retained[r]
    /\ Settle(Kept(r, k))
    /\ pc' = [pc EXCEPT ![r] = "releasing"]
    /\ UNCHANGED <<bound, plan, step, initial, todo, stack, retained, using>>

Released(r, k) ==
    /\ pc[r] = "releasing"
    /\ k \in retained[r]
    /\ Cleanup(Kept(r, k))
    /\ retained' = [retained EXCEPT ![r] = @ \ {k}]
    /\ pc' = [pc EXCEPT ![r] = "leaving"]
    /\ UNCHANGED <<bound, plan, step, initial, todo, stack, using>>

EndHolding(r) ==
    /\ pc[r] = "leaving"
    /\ Over(r)
    /\ stack[r] = <<>>
    /\ pc' = [pc EXCEPT ![r] = "idle"]
    /\ plan' = [plan EXCEPT ![r] = NoPlan]
    /\ initial' = [initial EXCEPT ![r] = <<>>]
    /\ step' = [step EXCEPT ![r] = 0]
    /\ UNCHANGED <<bound, todo, stack, retained, using, lockVars>>

(* The answer goes out when every lock is back. *)
End(r) ==
    /\ pc[r] = "leaving"
    /\ Over(r)
    /\ stack[r] = <<>>
    /\ retained[r] = {}
    /\ pc' = [pc EXCEPT ![r] = "idle"]
    /\ plan' = [plan EXCEPT ![r] = NoPlan]
    /\ initial' = [initial EXCEPT ![r] = <<>>]
    /\ step' = [step EXCEPT ![r] = 0]
    /\ UNCHANGED <<bound, todo, stack, retained, using, lockVars>>

-----------------------------------------------------------------------------
Work(r) ==
    \/ Ask(r) \/ Got(r) \/ AskAgain(r)
    \/ Retain(r) \/ Retained(r) \/ AskToOpen(r)
    \/ Start(r) \/ Refuse(r) \/ Finish(r) \/ Fail(r)
    \/ Leave(r) \/ Clean(r) \/ GoOn(r)
    \/ \E k \in retained[r] : Release(r, k) \/ Released(r, k)
    \/ End(r)

Next == \E r \in Requests : Work(r) \/ \E p \in Plans : Arrive(r, p)

Spec == Init /\ [][Next]_vars

(* Promises that can run do, and a device step ends (every platform call has
   a deadline of its own); nobody is obliged to send a request. *)
FairSpec == Spec /\ \A r \in Requests : WF_vars(Work(r))

-----------------------------------------------------------------------------
RequestTypeOK ==
    /\ LockTypeOK
    /\ bound \in [Sessions -> Devices \cup {None}]
    /\ plan \in [Requests -> Plans \cup {NoPlan}]
    /\ pc \in [Requests -> {"idle", "asking", "waiting", "body", "ready", "retaining",
                            "using", "leaving", "cleaning", "releasing"}]
    /\ step \in [Requests -> Nat]
    /\ \A r \in Requests :
        /\ ToSet(initial[r]) \cup ToSet(todo[r]) \cup ToSet(stack[r]) \subseteq Keys
        /\ retained[r] \subseteq {DeviceKey(d) : d \in Devices}
    /\ using \in [Requests -> Devices \cup {None}]

(* No two sessions are bound to one device, although requests choose their
   device locks from a store that may have changed by the time they run, and
   some choose none (request-binding.ts:20, session-open.ts:574,766). *)
OneSessionPerDevice ==
    \A s, t \in Sessions : bound[s] # None /\ bound[s] = bound[t] => s = t

(* A command that went by a device its keys do not name: one found in the handler
   without session and selector, or by a selector that led elsewhere before. *)
Strays(q) ==
    /\ StepOf(q).op # "open" /\ using[q] # BoundTo(q)
    /\ DeviceKey(using[q]) \notin ToSet(initial[q]) \cup retained[q]

(* Once a replay has opened a device nobody else works on it until the last
   step is over, whatever keys the others chose before the open or from their
   selectors, but for commands without a session that chose no key of the
   device (request-router.ts:277-279). *)
ReplayKeepsDevice ==
    \A r, q \in Requests :
        /\ r # q
        /\ plan[r].replay
        /\ ~Over(r)
        /\ step[r] > 1
        /\ plan[r].steps[1].op = "open"
        /\ BoundTo(r) # None
        /\ using[q] = BoundTo(r)
        => Strays(q)

(* Requests use the keyed lock as its callers may: they ask for a key once,
   settle only what they were granted, and clean up what has settled. *)
UsesKeyedLock == LockSpec

(* Every request is answered: there is no cycle of requests that wait for
   each other's session, device and open locks, and no lock is left behind. *)
EveryRequestEnds == \A r \in Requests : (pc[r] # "idle") ~> (pc[r] = "idle")

(* A step of a replay reuses the scope of the replay "instead of reacquiring
   the non-reentrant locks" (request-router.ts:277-281): no request waits for
   a lock that the request itself retains until it ends. *)
NoSelfWait ==
    \A a \in live : ahead[a] # None => ahead[a].caller[1] # a.caller[1]
=============================================================================
