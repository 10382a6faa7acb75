-------------------------- MODULE RequestLocksProofs --------------------------
(***************************************************************************)
(* Proofs about the locks of requests, for any number of requests,         *)
(* sessions and devices and whatever the requests ask for.                 *)
(***************************************************************************)
EXTENDS RequestLocks, KeyedLockProofs

(***************************************************************************)
(* The inductive invariant                                                 *)
(***************************************************************************)

Depth(r) == Len(stack[r])
Base(r) == Len(initial[r])
Left(r) == Len(todo[r])

Asks(r) == pc[r] \in {"asking", "waiting"}
AsksFirst(r) == Asks(r) /\ step[r] = 0
AsksMore(r) == Asks(r) /\ step[r] > 0
Inside(r) == step[r] > 0 /\ ~Over(r)
Op(r) == StepOf(r).op

\* The keys a request chose before it took any.
FirstKeys(r) ==
    /\ Base(r) \in {1, 2}
    /\ initial[r][1] = SessionKey(SessionOf(r))
    /\ Base(r) = 2 => \E d \in Devices : initial[r][2] = DeviceKey(d)

\* Its stack holds these in order, and at most one key that a step asked for.
Stacked(r) ==
    /\ Depth(r) <= Base(r) + 1
    /\ \A i \in 1..Depth(r) : i <= Base(r) => stack[r][i] = initial[r][i]
    /\ \A i, j \in 1..Depth(r) : stack[r][i] = stack[r][j] => i = j

\* Where a request may be, and how much it holds there.
Phase(r) ==
    /\ pc[r] = "idle" => step[r] = 0 /\ Depth(r) = 0 /\ retained[r] = {}
    /\ pc[r] # "idle" => plan[r] \in Plans /\ FirstKeys(r)
    /\ step[r] = 0 => pc[r] = "idle" \/ Asks(r)
    /\ step[r] > 0 /\ Over(r) => pc[r] \in {"leaving", "cleaning", "releasing"}
    /\ AsksFirst(r) =>
        /\ Left(r) > 0 /\ Depth(r) + Left(r) = Base(r)
        /\ \A i \in 1..Left(r) : todo[r][i] = initial[r][Depth(r) + i]
    /\ AsksMore(r) =>
        /\ Left(r) = 1
        /\ \A i \in 1..Depth(r) : stack[r][i] # todo[r][1]
    /\ AsksMore(r) \/ pc[r] \in {"body", "retaining"} =>
        Depth(r) = Base(r)
    /\ Inside(r) => Depth(r) >= Base(r)
    /\ pc[r] = "cleaning" => Depth(r) > Floor(r)
    /\ pc[r] = "releasing" => Over(r)

\* What a request has, but for the key it has just settled, is granted to it.
Holds(r) ==
    /\ \A i \in 1..Depth(r) :
         (pc[r] = "cleaning" /\ i = Depth(r)) \/ Granted(Own(r, stack[r][i]))
    /\ ~Over(r) => \A k \in retained[r] : Granted(Kept(r, k))

Named(r, d) == DeviceKey(d) \in ToSet(initial[r]) \cup retained[r]

\* An open of a fresh session asks for the device's open key and works under it.
Opens(r) ==
    /\ pc[r] = "retaining" => Op(r) = "open"
    /\ AsksMore(r) \/ pc[r] = "ready" => Op(r) \in {"open", "full"}
    /\ AsksMore(r) /\ Op(r) = "open" =>
        BoundTo(r) = None /\ todo[r][1] = OpenKey(StepOf(r).device)
    /\ pc[r] = "ready" /\ Op(r) = "open" =>
        /\ BoundTo(r) = None /\ Depth(r) = Base(r) + 1
        /\ stack[r][Depth(r)] = OpenKey(StepOf(r).device)

\* What a request works on is its session's, unless it has none or goes by its
\* selector; nobody else's session is bound to what it opens.
Uses(r) ==
    /\ using[r] # None <=> pc[r] = "using"
    /\ pc[r] = "using" =>
        /\ Op(r) \in {"act", "close", "full"} /\ BoundTo(r) # None => using[r] = BoundTo(r)
        /\ Op(r) = "probe" => using[r] = StepOf(r).device
        /\ Op(r) = "open" =>
            /\ BoundTo(r) # None => using[r] = BoundTo(r)
            /\ BoundTo(r) = None =>
                /\ Depth(r) = Base(r) + 1
                /\ stack[r][Depth(r)] = OpenKey(using[r])
            /\ \A s \in Sessions \ {SessionOf(r)} : bound[s] # using[r]

\* A replay has named or retained the device it opens, and opened.
Replays(r) == plan[r].replay /\ Inside(r) /\ step[r] > 1 /\ plan[r].steps[1].op = "open"

Replayed(r) ==
    /\ Inside(r) /\ plan[r].replay /\ Op(r) = "open" =>
        /\ Asks(r) \/ pc[r] = "ready" => Named(r, StepOf(r).device)
        /\ pc[r] = "using" => Named(r, using[r])
    /\ Replays(r) /\ BoundTo(r) # None => Named(r, BoundTo(r))

Proper(r) == Stacked(r) /\ Phase(r) /\ Holds(r) /\ Opens(r) /\ Uses(r) /\ Replayed(r)

DeviceKeys == {DeviceKey(d) : d \in Devices}

Queues ==
    /\ initial \in [Requests -> Seq(Keys)]
    /\ todo \in [Requests -> Seq(Keys)]
    /\ stack \in [Requests -> Seq(Keys)]
    /\ retained \in [Requests -> SUBSET DeviceKeys]

RequestInv ==
    /\ LockInv /\ RequestTypeOK /\ Queues
    /\ \A r \in Requests : Proper(r)
    /\ OneSessionPerDevice

-----------------------------------------------------------------------------
(* Lemmas about keys, acquisitions and plans *)

LEMMA KeyFacts ==
  /\ \A s \in Sessions : SessionKey(s) \in Keys
  /\ \A d \in Devices : DeviceKey(d) \in Keys /\ OpenKey(d) \in Keys
  /\ \A d \in Devices, k \in Keys : k = DeviceKey(d) => k # OpenKey(d)
BY RequestAssumption DEF SessionKey, DeviceKey, OpenKey

LEMMA KeysDiffer ==
  ASSUME NEW s, NEW t, NEW d, NEW e
  PROVE  /\ SessionKey(s) = SessionKey(t) => s = t
         /\ DeviceKey(d) = DeviceKey(e) => d = e
         /\ OpenKey(d) = OpenKey(e) => d = e
         /\ SessionKey(s) # DeviceKey(d) /\ SessionKey(s) # OpenKey(d)
         /\ DeviceKey(d) # OpenKey(e)
BY DEF SessionKey, DeviceKey, OpenKey

LEMMA AcquisitionFacts ==
  ASSUME NEW r \in Requests, NEW k \in Keys
  PROVE  /\ Own(r, k) \in Acquisitions /\ Own(r, k).key = k
         /\ Own(r, k).caller = <<r, "own">>
         /\ Kept(r, k) \in Acquisitions /\ Kept(r, k).key = k
         /\ Kept(r, k).caller = <<r, "retained">>
BY RequestAssumption DEF Own, Kept, Acquisitions

\* Acquisitions of two requests, or of two kinds, or of two keys, are two.
LEMMA AcquisitionsDiffer ==
  ASSUME NEW r, NEW q, NEW j, NEW k
  PROVE  /\ Own(r, j) = Own(q, k) => r = q /\ j = k
         /\ Kept(r, j) = Kept(q, k) => r = q /\ j = k
         /\ Own(r, j) # Kept(q, k)
BY DEF Own, Kept

\* What a request asks for first is its session's key and at most one device's.
LEMMA KeysForFacts ==
  ASSUME bound \in [Sessions -> Devices \cup {None}],
         NEW s \in Sessions, NEW hint \in Devices \cup {None}
  PROVE  LET ks == KeysFor(s, hint) IN
         /\ ks \in Seq(Keys) /\ Len(ks) \in {1, 2} /\ ks[1] = SessionKey(s)
         /\ Len(ks) = 2 => \E d \in Devices : ks[2] = DeviceKey(d)
<1>. DEFINE d == IF bound[s] # None THEN bound[s] ELSE hint
<1>1. CASE d = None
  <2>1. KeysFor(s, hint) = <<SessionKey(s)>>
    BY <1>1 DEF KeysFor
  <2>. QED
    BY <2>1, KeyFacts
<1>2. CASE d # None
  <2>1. d \in Devices
    BY <1>2
  <2>2. KeysFor(s, hint) = <<SessionKey(s), DeviceKey(d)>>
    BY <1>2 DEF KeysFor
  <2>. QED
    BY <2>1, <2>2, KeyFacts
<1>. QED
  BY <1>1, <1>2

Steps == [op : Ops, device : Devices \cup {None}]

LEMMA PlanFacts ==
  ASSUME NEW p \in Plans
  PROVE  /\ p.session \in Sessions /\ p.hint \in Devices \cup {None}
         /\ p.replay \in BOOLEAN /\ p.steps \in Seq(Steps) /\ Len(p.steps) \in Nat \ {0}
         /\ \A i \in 1..Len(p.steps) :
              p.steps[i] \in Steps /\ (p.steps[i].op = "open" => p.steps[i].device \in Devices)
<1>1. p \in [session : Sessions, hint : Devices \cup {None}, replay : BOOLEAN, steps : Seq(Steps)]
  BY RequestAssumption DEF Steps
<1>2. p.steps \in Seq(Steps)
  BY <1>1
<1>3. Len(p.steps) \in Nat /\ \A i \in 1..Len(p.steps) : p.steps[i] \in Steps
  BY <1>2
<1>. QED
  BY <1>1, <1>2, <1>3, RequestAssumption DEF Steps

LEMMA StepFacts ==
  ASSUME RequestTypeOK, NEW r \in Requests, Phase(r), pc[r] # "idle"
  PROVE  /\ plan[r] \in Plans /\ SessionOf(r) \in Sessions
         /\ BoundTo(r) \in Devices \cup {None}
         /\ step[r] \in Nat /\ Len(plan[r].steps) \in Nat \ {0}
         /\ Inside(r) => /\ step[r] \in 1..Len(plan[r].steps) /\ StepOf(r) \in Steps
                         /\ Op(r) = "open" =>
                               StepOf(r).device \in Devices /\ OpenDevice(r) \in Devices
<1>1. plan[r] \in Plans /\ step[r] \in Nat
  BY DEF Phase, RequestTypeOK
<1>2. SessionOf(r) \in Sessions /\ BoundTo(r) \in Devices \cup {None}
  BY <1>1, PlanFacts DEF SessionOf, BoundTo, RequestTypeOK
<1>3. Inside(r) => step[r] \in 1..Len(plan[r].steps)
  BY <1>1, PlanFacts DEF Inside, Over
<1>. QED
  BY <1>1, <1>2, <1>3, PlanFacts, RequestAssumption DEF StepOf, Op, OpenDevice

LEMMA QueueFacts ==
  ASSUME Queues, NEW r \in Requests
  PROVE  /\ initial[r] \in Seq(Keys) /\ todo[r] \in Seq(Keys) /\ stack[r] \in Seq(Keys)
         /\ Base(r) \in Nat /\ Left(r) \in Nat /\ Depth(r) \in Nat
         /\ \A i \in 1..Base(r) : initial[r][i] \in Keys
         /\ \A i \in 1..Left(r) : todo[r][i] \in Keys
         /\ \A i \in 1..Depth(r) : stack[r][i] \in Keys
         /\ Left(r) > 0 => Head(todo[r]) = todo[r][1] /\ todo[r][1] \in Keys
         /\ Depth(r) > 0 => Last(stack[r]) = stack[r][Depth(r)]
                                /\ Last(stack[r]) \in Keys
         /\ retained[r] \subseteq DeviceKeys /\ retained[r] \subseteq Keys
<1>1. initial[r] \in Seq(Keys) /\ todo[r] \in Seq(Keys) /\ stack[r] \in Seq(Keys)
      /\ retained[r] \subseteq DeviceKeys
  BY DEF Queues
<1>2. DeviceKeys \subseteq Keys
  BY KeyFacts DEF DeviceKeys
<1>3. ASSUME NEW s \in Seq(Keys)
      PROVE  /\ Len(s) \in Nat /\ \A i \in 1..Len(s) : s[i] \in Keys
             /\ Len(s) > 0 => Head(s) = s[1] /\ s[1] \in Keys
             /\ Len(s) > 0 => Last(s) = s[Len(s)] /\ Last(s) \in Keys
  BY DEF Last
<1>. QED
  BY <1>1, <1>2, <1>3 DEF Depth, Base, Left

\* A grant outlasts every call of the lock but its own settling.
LEMMA GrantsLast ==
  ASSUME LockInv, NEW a \in Acquisitions, NEW b \in Acquisitions, Granted(b),
         \/ Enqueue(a) \/ Cleanup(a)
         \/ Settle(a) /\ a # b
         \/ UNCHANGED lockVars
  PROVE  Granted(b)'
<1>. USE DEF LockInv, LockTypeOK, Granted
<1>1. CASE Enqueue(a)
  BY <1>1 DEF Enqueue
<1>2. CASE Settle(a) /\ a # b
  BY <1>2, NoneAssumption DEF Settle
<1>3. CASE Cleanup(a) \/ UNCHANGED lockVars
  BY <1>3 DEF Cleanup, lockVars
<1>. QED
  BY <1>1, <1>2, <1>3

LEMMA TodoFacts ==
  ASSUME Queues, NEW r \in Requests, Phase(r), step[r] \in Nat, Asks(r)
  PROVE  /\ todo[r] \in Seq(Keys) /\ Left(r) \in Nat \ {0}
         /\ Head(todo[r]) = todo[r][1] /\ todo[r][1] \in Keys
<1>1. CASE step[r] = 0
  <2>1. Left(r) > 0
    BY <1>1 DEF Phase, AsksFirst
  <2>. QED
    BY <2>1, QueueFacts
<1>2. CASE step[r] > 0
  <2>1. Left(r) = 1
    BY <1>2 DEF Phase, AsksMore
  <2>. QED
    BY <2>1, QueueFacts
<1>. QED
  BY <1>1, <1>2

-----------------------------------------------------------------------------
(* Steps as steps of the keyed lock, and their types *)

\* What a request asks the keyed lock to do, it asks for acquisitions of its own.
LEMMA LockCalls ==
  ASSUME RequestTypeOK, Queues, NEW r \in Requests, Proper(r), Work(r)
  PROVE  \/ UNCHANGED lockVars
         \/ \E k \in Keys : Enqueue(Own(r, k)) \/ Settle(Own(r, k)) \/ Cleanup(Own(r, k))
         \/ \E k \in Keys : Enqueue(Kept(r, k)) \/ Settle(Kept(r, k)) \/ Cleanup(Kept(r, k))
<1>0. Phase(r) /\ Base(r) \in Nat /\ step[r] \in Nat
  BY QueueFacts DEF Proper, RequestTypeOK
<1>1. CASE Ask(r)
  BY <1>0, <1>1, TodoFacts DEF Ask, Asks
<1>2. CASE Retain(r)
  <2>1. OpenDevice(r) \in Devices
    <3>1. pc[r] = "body" /\ ~Over(r) /\ Op(r) = "open"
      BY <1>2 DEF Retain, AtOpen, Op
    <3>2. Inside(r)
      BY <1>0, <3>1 DEF Inside, Phase, Asks
    <3>. QED
      BY <1>0, <3>1, <3>2, StepFacts
  <2>. QED
    BY <1>2, <2>1, KeyFacts DEF Retain
<1>3. CASE Leave(r) \/ Clean(r)
  <2>1. Depth(r) > 0
    <3>1. Floor(r) \in Nat /\ Depth(r) \in Nat /\ Depth(r) > Floor(r)
      BY <1>0, <1>3, QueueFacts DEF Leave, Clean, Floor, Phase, Depth, Base
    <3>. QED
      BY <3>1
  <2>. QED
    BY <1>3, <2>1, QueueFacts DEF Leave, Clean
<1>4. ASSUME NEW k \in retained[r], Release(r, k) \/ Released(r, k)
      PROVE  \E j \in Keys : Settle(Kept(r, j)) \/ Cleanup(Kept(r, j))
  BY <1>4, QueueFacts DEF Release, Released
<1>5. CASE Got(r) \/ AskAgain(r) \/ Retained(r) \/ AskToOpen(r) \/ Start(r) \/ Refuse(r)
             \/ Finish(r) \/ Fail(r) \/ GoOn(r) \/ End(r)
  BY <1>5 DEF Got, AskAgain, Retained, AskToOpen, Start, Refuse, Finish, Fail, GoOn, End
<1>. QED
  BY <1>1, <1>2, <1>3, <1>4, <1>5 DEF Work

LEMMA NextIsLockStep ==
  ASSUME RequestInv, [Next]_vars
  PROVE  [LockNext]_lockVars
<1>1. ASSUME NEW r \in Requests, Work(r)
      PROVE  [LockNext]_lockVars
  <2>1. CASE UNCHANGED lockVars
    BY <2>1
  <2>2. ASSUME NEW k \in Keys,
               \/ Enqueue(Own(r, k)) \/ Settle(Own(r, k)) \/ Cleanup(Own(r, k))
               \/ Enqueue(Kept(r, k)) \/ Settle(Kept(r, k)) \/ Cleanup(Kept(r, k))
        PROVE  LockNext
    BY <2>2, AcquisitionFacts, Zenon DEF LockNext
  <2>. QED
    BY <1>1, <2>1, <2>2, LockCalls DEF RequestInv
<1>2. ASSUME NEW r \in Requests, NEW p \in Plans, Arrive(r, p)
      PROVE  UNCHANGED lockVars
  BY <1>2 DEF Arrive
<1>3. CASE UNCHANGED vars
  BY <1>3 DEF vars
<1>. QED
  BY <1>1, <1>2, <1>3 DEF Next

\* The state of the other requests, and what they are granted, stays.
Same(q) ==
    /\ plan'[q] = plan[q] /\ pc'[q] = pc[q] /\ step'[q] = step[q]
    /\ initial'[q] = initial[q] /\ todo'[q] = todo[q] /\ stack'[q] = stack[q]
    /\ retained'[q] = retained[q] /\ using'[q] = using[q]

LEMMA OthersSame ==
  ASSUME RequestTypeOK, Queues, NEW r \in Requests, NEW q \in Requests, q # r,
         Work(r) \/ \E p \in Plans : Arrive(r, p)
  PROVE  Same(q)
<1>. USE DEF RequestTypeOK, Queues, Same
<1>1. CASE Ask(r) \/ Got(r) \/ AskAgain(r) \/ Retain(r) \/ Retained(r) \/ AskToOpen(r)
  BY <1>1 DEF Ask, Got, AskAgain, Retain, Retained, AskToOpen
<1>2. CASE Start(r) \/ Refuse(r) \/ Finish(r) \/ Fail(r)
  BY <1>2 DEF Start, Refuse, Finish, Fail
<1>3. CASE Leave(r) \/ Clean(r) \/ GoOn(r) \/ End(r)
  BY <1>3 DEF Leave, Clean, GoOn, End
<1>4. ASSUME NEW k \in retained[r], Release(r, k) \/ Released(r, k)
      PROVE  Same(q)
  BY <1>4 DEF Release, Released
<1>5. ASSUME NEW p \in Plans, Arrive(r, p)
      PROVE  Same(q)
  BY <1>5 DEF Arrive
<1>. QED
  BY <1>1, <1>2, <1>3, <1>4, <1>5 DEF Work

LEMMA OthersKeepGrants ==
  ASSUME RequestInv, NEW r \in Requests, NEW q \in Requests, q # r,
         Work(r) \/ \E p \in Plans : Arrive(r, p), NEW k \in Keys
  PROVE  /\ Granted(Own(q, k)) => Granted(Own(q, k))'
         /\ Granted(Kept(q, k)) => Granted(Kept(q, k))'
<1>. USE AcquisitionFacts, AcquisitionsDiffer DEF RequestInv
<1>1. CASE UNCHANGED lockVars
  BY <1>1 DEF lockVars, Granted, Own, Kept
<1>2. ASSUME NEW j \in Keys, NEW a \in {Own(r, j), Kept(r, j)},
             Enqueue(a) \/ Settle(a) \/ Cleanup(a)
      PROVE  /\ Granted(Own(q, k)) => Granted(Own(q, k))'
             /\ Granted(Kept(q, k)) => Granted(Kept(q, k))'
  <2>1. a \in Acquisitions /\ a # Own(q, k) /\ a # Kept(q, k)
    OBVIOUS
  <2>2. ASSUME NEW b \in {Own(q, k), Kept(q, k)}, Granted(b)
        PROVE  Granted(b)'
    BY <1>2, <2>1, <2>2, GrantsLast
  <2>. QED
    BY <2>2 DEF Own, Kept
<1>3. CASE \E p \in Plans : Arrive(r, p)
  BY <1>1, <1>3 DEF Arrive
<1>. QED
  BY <1>1, <1>2, <1>3, LockCalls

\* A request that does not move stays proper, when its session stays bound as it is
\* and no other session gets the device that it opens.
LEMMA OthersProper ==
  ASSUME RequestInv, NEW r \in Requests, NEW q \in Requests, q # r,
         Work(r) \/ \E p \in Plans : Arrive(r, p),
         Inside(q) => BoundTo(q)' = BoundTo(q),
         pc[q] = "using" /\ Op(q) = "open" =>
            \A s \in Sessions \ {SessionOf(q)} : bound'[s] # using[q]
  PROVE  Proper(q)'
<1>1. Same(q)
  BY OthersSame DEF RequestInv
<1>2. Proper(q) /\ RequestTypeOK /\ Queues
  BY DEF RequestInv
<1>3. /\ SessionOf(q)' = SessionOf(q) /\ StepOf(q)' = StepOf(q) /\ Op(q)' = Op(q)
      /\ Over(q)' = Over(q) /\ Inside(q)' = Inside(q)
      /\ Asks(q)' = Asks(q) /\ AsksFirst(q)' = AsksFirst(q) /\ AsksMore(q)' = AsksMore(q)
      /\ Floor(q)' = Floor(q)
  BY <1>1 DEF Same, SessionOf, StepOf, Op, Over, Inside, Asks, AsksFirst, AsksMore, Floor
<1>0. Depth(q)' = Depth(q) /\ Base(q)' = Base(q) /\ Left(q)' = Left(q)
  BY <1>1 DEF Same, Depth, Base, Left
<1>4. Stacked(q)'
  BY <1>0, <1>1, <1>2 DEF Same, Proper, Stacked
<1>5. Phase(q)'
  <2>1. FirstKeys(q)' = FirstKeys(q)
    BY <1>0, <1>1, <1>3 DEF Same, FirstKeys
  <2>. QED
    BY <1>0, <1>1, <1>2, <1>3, <2>1 DEF Same, Proper, Phase
<1>6. Holds(q)'
  <2>1. ASSUME NEW i \in 1..Depth(q), ~(pc[q] = "cleaning" /\ i = Depth(q))
        PROVE  Granted(Own(q, stack[q][i]))'
    <3>1. Granted(Own(q, stack[q][i])) /\ stack[q][i] \in Keys
      BY <1>2, <2>1, QueueFacts DEF Proper, Holds
    <3>2. Granted(Own(q, stack[q][i]))' = (Own(q, stack[q][i]) \in live' /\ ahead'[Own(q, stack[q][i])] = None)
      BY <1>1 DEF Same, Granted, Own
    <3>3. PICK k \in Keys : k = stack[q][i]
      BY <3>1
    <3>4. Granted(Own(q, k))'
      BY <3>1, <3>3, OthersKeepGrants
    <3>. QED
      BY <3>2, <3>3, <3>4 DEF Granted, Own
  <2>2. ASSUME ~Over(q), NEW k \in retained[q]
        PROVE  Granted(Kept(q, k))'
    BY <1>2, <2>2, QueueFacts, OthersKeepGrants DEF Proper, Holds
  <2>3. stack'[q] = stack[q] /\ pc'[q] = pc[q] /\ retained'[q] = retained[q]
    BY <1>1 DEF Same
  <2>. QED
    BY <1>0, <1>3, <2>1, <2>2, <2>3 DEF Holds, Granted, Own, Kept
<1>7. \/ BoundTo(q)' = BoundTo(q)
      \/ ~AsksMore(q) /\ pc[q] \notin {"ready", "using"}
  BY <1>2, StepFacts DEF Inside, AsksMore, Asks, Proper, Phase, RequestTypeOK
<1>8. Opens(q)'
  BY <1>0, <1>1, <1>2, <1>3, <1>7 DEF Same, Proper, Opens
<1>9. Uses(q)'
  BY <1>0, <1>1, <1>2, <1>3, <1>7 DEF Same, Proper, Uses
<1>10. Replayed(q)'
  <2>1. Replays(q)' = Replays(q)
    BY <1>1, <1>3 DEF Same, Replays
  <2>2. \A d : Named(q, d)' = Named(q, d)
    BY <1>1 DEF Same, Named
  <2>3. Replays(q) => Inside(q)
    BY DEF Replays
  <2>4. BoundTo(q)' # BoundTo(q) => ~Inside(q)
    OBVIOUS
  <2>. QED
    BY <1>1, <1>2, <1>3, <2>1, <2>2, <2>3, <2>4 DEF Same, Proper, Replayed
<1>. QED
  BY <1>4, <1>5, <1>6, <1>8, <1>9, <1>10 DEF Proper

\* The types, action by action.
LEMMA TypesStep ==
  ASSUME RequestInv, LockInv', [Next]_vars
  PROVE  RequestTypeOK' /\ Queues'
<1>. DEFINE PCs == {"idle", "asking", "waiting", "body", "ready", "retaining",
                    "using", "leaving", "cleaning", "releasing"}
            Types == /\ bound \in [Sessions -> Devices \cup {None}]
                     /\ plan \in [Requests -> Plans \cup {NoPlan}]
                     /\ pc \in [Requests -> PCs]
                     /\ step \in [Requests -> Nat]
                     /\ using \in [Requests -> Devices \cup {None}]
<1>1. Types /\ Queues /\ RequestTypeOK
  BY DEF RequestInv, RequestTypeOK
<1>2. SUFFICES Types' /\ Queues'
  <2>1. ASSUME Types', Queues' PROVE RequestTypeOK'
    <3>1. ASSUME NEW s, s \in Seq(Keys) PROVE ToSet(s) \subseteq Keys
      BY <3>1 DEF ToSet
    <3>2. \A r \in Requests : ToSet(initial'[r]) \cup ToSet(todo'[r]) \cup ToSet(stack'[r]) \subseteq Keys
      BY <2>1, <3>1 DEF Queues
    <3>3. LockTypeOK'
      BY DEF LockInv
    <3>. QED
      BY <2>1, <3>2, <3>3 DEF RequestTypeOK, Queues, DeviceKeys
  <2>. QED
    BY <2>1
<1>3. ASSUME NEW r \in Requests, Work(r)
      PROVE  Types' /\ Queues'
  <2>1. Phase(r) /\ step[r] \in Nat /\ Proper(r)
    BY <1>1 DEF RequestInv, Proper
  <2>2. pc[r] # "idle" => /\ plan[r] \in Plans /\ SessionOf(r) \in Sessions
                          /\ Len(plan[r].steps) \in Nat
                          /\ BoundTo(r) \in Devices \cup {None}
    BY <1>1, <2>1, StepFacts
  <2>3. pc[r] \in {"body", "ready", "retaining", "using"} => pc[r] # "idle" /\ Inside(r)
    BY <2>1 DEF Phase, Inside, Asks
  <2>4. pc[r] \in {"body", "ready", "retaining", "using"} =>
           /\ StepOf(r) \in Steps
           /\ Op(r) = "open" => StepOf(r).device \in Devices /\ OpenDevice(r) \in Devices
    BY <1>1, <2>1, <2>3, StepFacts
  <2>5. CASE Ask(r) \/ Retain(r) \/ Leave(r) \/ GoOn(r)
    BY <1>1, <2>5 DEF Ask, Retain, Leave, GoOn, Queues
  <2>6. CASE Got(r)
    <3>1. Len(todo[r]) > 0
      BY <1>1, <2>1, <2>6, TodoFacts DEF Got, Asks, Left
    <3>2. Append(stack[r], Head(todo[r])) \in Seq(Keys) /\ Tail(todo[r]) \in Seq(Keys)
      BY <1>1, <3>1, QueueFacts
    <3>3. /\ stack' = [stack EXCEPT ![r] = Append(@, Head(todo[r]))]
          /\ todo' = [todo EXCEPT ![r] = Tail(@)]
          /\ UNCHANGED <<bound, plan, initial, retained, using>>
      BY <2>6 DEF Got
    <3>4. /\ \E c \in PCs : pc' = [pc EXCEPT ![r] = c]
          /\ step' = step \/ step' = [step EXCEPT ![r] = IF @ = 0 THEN 1 ELSE @]
      BY <2>6 DEF Got
    <3>5. Types'
      BY <1>1, <3>3, <3>4
    <3>. QED
      BY <1>1, <3>2, <3>3, <3>5 DEF Queues
  <2>7. CASE AskAgain(r)
    <3>. DEFINE key == Last(KeysFor(SessionOf(r), None))
    <3>1. key \in Keys
      <4>. DEFINE ks == KeysFor(SessionOf(r), None)
      <4>1. ks \in Seq(Keys) /\ Len(ks) \in {1, 2}
        BY <1>1, <2>2, <2>7, KeysForFacts DEF AskAgain
      <4>. QED
        BY <4>1 DEF Last
    <3>2. todo'[r] \in Seq(Keys) /\ \A q \in Requests \ {r} : todo'[q] = todo[q]
      BY <1>1, <2>7, <3>1 DEF AskAgain, Queues
    <3>3. todo' \in [Requests -> Seq(Keys)]
      BY <1>1, <2>7, <3>2 DEF AskAgain, Queues
    <3>. QED
      BY <1>1, <2>7, <3>3 DEF AskAgain, Queues
  <2>8. CASE Retained(r)
    <3>1. Op(r) = "open"
      BY <2>1, <2>8 DEF Retained, Proper, Opens
    <3>2. DeviceKey(OpenDevice(r)) \in DeviceKeys
      BY <2>4, <2>8, <3>1 DEF Retained, DeviceKeys
    <3>. QED
      BY <1>1, <2>8, <3>2 DEF Retained, Queues
  <2>9. CASE AskToOpen(r)
    <3>1. OpenDevice(r) \in Devices
      BY <2>4, <2>9 DEF AskToOpen, AtOpen, Op
    <3>2. <<OpenKey(OpenDevice(r))>> \in Seq(Keys)
      BY <3>1, KeyFacts
    <3>. QED
      BY <1>1, <2>9, <3>2 DEF AskToOpen, Queues
  <2>10. CASE Start(r)
    <3>1. pc[r] \in {"body", "ready"}
      BY <2>10 DEF Start, MayStart, AtOpen
    <3>2. Target(r) \in Devices \cup {None}
      BY <2>2, <2>4, <3>1 DEF Target, OpenDevice, Op, Steps
    <3>. QED
      BY <1>1, <2>10, <3>2 DEF Start, Queues
  <2>11. CASE Refuse(r) \/ Fail(r)
    <3>1. pc[r] # "idle"
      BY <2>11 DEF Refuse, Fail, MayStart, AtOpen
    <3>2. Len(plan[r].steps) + 1 \in Nat
      BY <2>2, <3>1
    <3>3. /\ step' = [step EXCEPT ![r] = Len(plan[r].steps) + 1]
          /\ pc' = [pc EXCEPT ![r] = "leaving"]
          /\ using' = using \/ using' = [using EXCEPT ![r] = None]
          /\ UNCHANGED <<bound, plan, initial, todo, stack, retained>>
      BY <2>11 DEF Refuse, Fail
    <3>. QED
      BY <1>1, <3>2, <3>3 DEF Queues
  <2>12. CASE Finish(r)
    BY <1>1, <2>2, <2>12 DEF Finish, Queues
  <2>13. CASE Clean(r)
    <3>1. Depth(r) > 0
      BY <1>1, <2>1, <2>13, QueueFacts DEF Clean, Phase, Floor
    <3>2. Front(stack[r]) \in Seq(Keys)
      BY <1>1, <3>1, QueueFacts DEF Front
    <3>3. /\ stack' = [stack EXCEPT ![r] = Front(@)] /\ pc' = [pc EXCEPT ![r] = "leaving"]
          /\ UNCHANGED <<bound, plan, step, initial, todo, retained, using>>
      BY <2>13 DEF Clean
    <3>4. stack' \in [Requests -> Seq(Keys)]
      BY <1>1, <3>2, <3>3 DEF Queues
    <3>. QED
      BY <1>1, <3>3, <3>4 DEF Queues
  <2>14. ASSUME NEW k \in retained[r], Release(r, k) \/ Released(r, k)
         PROVE  Types' /\ Queues'
    BY <1>1, <2>14 DEF Release, Released, Queues
  <2>15. CASE End(r)
    BY <1>1, <2>15 DEF End, Queues
  <2>. QED
    BY <1>3, <2>5, <2>6, <2>7, <2>8, <2>9, <2>10, <2>11, <2>12, <2>13, <2>14, <2>15 DEF Work
<1>4. ASSUME NEW r \in Requests, NEW p \in Plans, Arrive(r, p)
      PROVE  Types' /\ Queues'
  <2>1. KeysFor(p.session, p.hint) \in Seq(Keys)
    BY <1>1, KeysForFacts, PlanFacts
  <2>. QED
    BY <1>1, <1>4, <2>1 DEF Arrive, Queues
<1>5. CASE UNCHANGED vars
  BY <1>1, <1>5 DEF vars, Queues
<1>. QED
  BY <1>3, <1>4, <1>5 DEF Next

-----------------------------------------------------------------------------
(* The request that moves, action by action *)

LEMMA SameStep ==
  ASSUME NEW r \in Requests, plan'[r] = plan[r], step'[r] = step[r],
         initial'[r] = initial[r], bound' = bound
  PROVE  /\ SessionOf(r)' = SessionOf(r) /\ BoundTo(r)' = BoundTo(r)
         /\ StepOf(r)' = StepOf(r) /\ Op(r)' = Op(r)
         /\ Over(r)' = Over(r) /\ Inside(r)' = Inside(r) /\ Floor(r)' = Floor(r)
         /\ Replays(r)' = Replays(r) /\ FirstKeys(r)' = FirstKeys(r)
         /\ Base(r)' = Base(r)
BY DEF SessionOf, BoundTo, StepOf, Op, Over, Inside, Floor, Replays, FirstKeys, Base

\* While a request gives nothing back, it keeps what it was granted.
LEMMA KeepsGrants ==
  ASSUME LockInv, NEW r \in Requests, NEW k \in Keys, NEW a \in Acquisitions,
         \/ Enqueue(a) \/ Cleanup(a) \/ UNCHANGED lockVars
         \/ Settle(a) /\ a \notin {Own(r, k), Kept(r, k)}
  PROVE  /\ Granted(Own(r, k)) => Granted(Own(r, k))'
         /\ Granted(Kept(r, k)) => Granted(Kept(r, k))'
<1>1. ASSUME NEW b \in {Own(r, k), Kept(r, k)}, Granted(b)
      PROVE  Granted(b)'
  BY <1>1, AcquisitionFacts, GrantsLast
<1>. QED
  BY <1>1 DEF Own, Kept

LEMMA HoldsOn ==
  ASSUME RequestInv, NEW r \in Requests, NEW a \in Acquisitions,
         Enqueue(a) \/ Cleanup(a) \/ UNCHANGED lockVars,
         stack'[r] = stack[r], retained'[r] = retained[r], pc[r] # "cleaning",
         Over(r) => Over(r)'
  PROVE  Holds(r)'
<1>1. LockInv /\ Queues /\ Holds(r)
  BY DEF RequestInv, Proper
<1>2. ASSUME NEW i \in 1..Depth(r)
      PROVE  Granted(Own(r, stack[r][i]))'
  <2>1. PICK k \in Keys : k = stack[r][i]
    BY <1>1, QueueFacts
  <2>2. Granted(Own(r, k))'
    BY <1>1, <2>1, KeepsGrants DEF Holds
  <2>. QED
    BY <2>1, <2>2 DEF Granted, Own
<1>3. ASSUME ~Over(r), NEW k \in retained[r]
      PROVE  Granted(Kept(r, k))'
  BY <1>1, <1>3, QueueFacts, KeepsGrants DEF Holds
<1>4. Depth(r)' = Depth(r)
  BY DEF Depth
<1>. QED
  BY <1>2, <1>3, <1>4 DEF Holds, Granted, Own, Kept

LEMMA AskStep ==
  ASSUME RequestInv, NEW r \in Requests, Ask(r)
  PROVE  Proper(r)'
<1>1. RequestTypeOK /\ Queues /\ Proper(r) /\ Phase(r) /\ step[r] \in Nat
  BY DEF RequestInv, Proper, RequestTypeOK
<1>2. /\ pc[r] = "asking" /\ pc'[r] = "waiting" /\ bound' = bound
      /\ plan'[r] = plan[r] /\ step'[r] = step[r] /\ initial'[r] = initial[r]
      /\ todo'[r] = todo[r] /\ stack'[r] = stack[r] /\ retained'[r] = retained[r]
      /\ using'[r] = using[r]
  BY <1>1 DEF Ask, RequestTypeOK
<1>3. /\ Asks(r)' = Asks(r) /\ AsksFirst(r)' = AsksFirst(r) /\ AsksMore(r)' = AsksMore(r)
      /\ Asks(r) /\ Depth(r)' = Depth(r) /\ Left(r)' = Left(r)
  BY <1>2 DEF Asks, AsksFirst, AsksMore, Depth, Left
<1>4. Stacked(r)' /\ Phase(r)' /\ Opens(r)' /\ Uses(r)' /\ Replayed(r)'
  BY <1>1, <1>2, <1>3, SameStep
     DEF Proper, Stacked, Phase, Opens, Uses, Replayed, Named
<1>5. Holds(r)'
  <2>1. Own(r, Head(todo[r])) \in Acquisitions
    BY <1>1, <1>3, TodoFacts, AcquisitionFacts
  <2>. QED
    BY <1>2, <2>1, HoldsOn, SameStep DEF Ask
<1>. QED
  BY <1>4, <1>5 DEF Proper

LEMMA Shifted ==
  ASSUME NEW n \in Nat, NEW d \in Nat, NEW m, m = n - 1, NEW i \in 1..m
  PROVE  i + 1 \in 1..n /\ d + (i + 1) = (d + 1) + i
OBVIOUS

LEMMA GotStep ==
  ASSUME RequestInv, NEW r \in Requests, Got(r)
  PROVE  Proper(r)'
<1>. DEFINE k == Head(todo[r])
<1>1. /\ RequestTypeOK /\ Queues /\ LockInv /\ step[r] \in Nat /\ pc[r] = "waiting"
      /\ Stacked(r) /\ Phase(r) /\ Holds(r) /\ Opens(r) /\ Uses(r) /\ Replayed(r)
  BY DEF RequestInv, Proper, RequestTypeOK, Got
<1>2. /\ Left(r) \in Nat \ {0} /\ k = todo[r][1] /\ k \in Keys
      /\ todo[r] \in Seq(Keys) /\ stack[r] \in Seq(Keys) /\ initial[r] \in Seq(Keys)
      /\ Depth(r) \in Nat /\ Base(r) \in Nat
  BY <1>1, TodoFacts, QueueFacts DEF Asks
<1>3. /\ bound' = bound /\ UNCHANGED lockVars
      /\ plan'[r] = plan[r] /\ initial'[r] = initial[r]
      /\ retained'[r] = retained[r] /\ using'[r] = using[r]
      /\ stack'[r] = Append(stack[r], k) /\ todo'[r] = Tail(todo[r])
  BY <1>1 DEF Got, Queues
<1>4. /\ Depth(r)' = Depth(r) + 1
      /\ \A i \in 1..Depth(r) : stack'[r][i] = stack[r][i]
      /\ stack'[r][Depth(r) + 1] = k
      /\ Base(r)' = Base(r)
  BY <1>2, <1>3 DEF Depth, Base
<1>5. plan[r] \in Plans /\ FirstKeys(r) /\ Len(plan[r].steps) \in Nat \ {0}
  BY <1>1, PlanFacts DEF Phase
<1>6. FirstKeys(r)'
  BY <1>3, <1>4, <1>5 DEF FirstKeys, SessionOf
<1>7. ASSUME AsksFirst(r)
      PROVE  /\ k = initial[r][Depth(r) + 1]
             /\ Depth(r) + Left(r) = Base(r)
             /\ \A i \in 1..Depth(r) : stack[r][i] # k
  <2>1. /\ Depth(r) + Left(r) = Base(r)
        /\ \A i \in 1..Left(r) : todo[r][i] = initial[r][Depth(r) + i]
    BY <1>1, <1>7 DEF Phase
  <2>2. k = initial[r][Depth(r) + 1]
    BY <1>2, <2>1
  <2>3. ASSUME NEW i \in 1..Depth(r) PROVE stack[r][i] # k
    <3>1. Depth(r) = 1 /\ Base(r) = 2 /\ i = 1
      <4>1. Base(r) = 1 \/ Base(r) = 2
        BY <1>5 DEF FirstKeys
      <4>. HIDE DEF k
      <4>. QED
        BY <1>2, <4>1, <2>1, <2>3
    <3>2. stack[r][i] = initial[r][1]
      BY <1>1, <3>1 DEF Stacked
    <3>. QED
      BY <1>5, <2>2, <3>1, <3>2, KeysDiffer DEF FirstKeys
  <2>. QED
    BY <2>1, <2>2, <2>3
<1>8. AsksFirst(r) \/ AsksMore(r)
  BY <1>1 DEF AsksFirst, AsksMore, Asks
<1>9. AsksMore(r) => /\ Left(r) = 1 /\ Depth(r) = Base(r)
                    /\ \A i \in 1..Depth(r) : stack[r][i] # k
  BY <1>1, <1>2 DEF Phase
<1>10. /\ \A i \in 1..Depth(r) : stack[r][i] # k
       /\ Depth(r) <= Base(r)
       /\ Depth(r) < Base(r) => k = initial[r][Depth(r) + 1]
  <2>. HIDE DEF k
  <2>1. CASE AsksFirst(r)
    BY <1>2, <1>7, <2>1
  <2>2. CASE AsksMore(r)
    BY <1>2, <1>9, <2>2
  <2>. QED
    BY <1>8, <2>1, <2>2
<1>. HIDE DEF k
<1>11. Stacked(r)'
  <2>1. \A i, j \in 1..Depth(r)' : stack'[r][i] = stack'[r][j] => i = j
    BY <1>1, <1>2, <1>4, <1>10 DEF Stacked
  <2>2. Depth(r)' <= Base(r) + 1
    BY <1>2, <1>4, <1>10
  <2>3. ASSUME NEW i \in 1..Depth(r)', i <= Base(r)
        PROVE  stack'[r][i] = initial[r][i]
    <3>1. CASE i <= Depth(r)
      BY <1>1, <1>2, <1>4, <2>3, <3>1 DEF Stacked
    <3>2. CASE i = Depth(r) + 1
      BY <1>2, <1>4, <1>10, <2>3, <3>2
    <3>. QED
      BY <1>2, <1>4, <3>1, <3>2
  <2>. QED
    BY <1>3, <1>4, <2>1, <2>2, <2>3 DEF Stacked
<1>12. Over(r)' => Over(r) \/ step[r] = 0
  BY <1>1, <1>3, <1>5 DEF Got, Over, RequestTypeOK
<1>13. pc'[r] \in {"asking", "body", "ready"}
  BY <1>1 DEF Got, RequestTypeOK, Left
<1>14. Holds(r)'
  <2>1. ASSUME NEW i \in 1..Depth(r)'
        PROVE  Granted(Own(r, stack'[r][i]))
    <3>1. CASE i <= Depth(r)
      BY <1>1, <1>2, <1>4, <3>1 DEF Holds
    <3>2. CASE i = Depth(r) + 1
      BY <1>4, <3>2 DEF Got, k
    <3>. QED
      BY <1>2, <1>4, <3>1, <3>2
  <2>2. ~Over(r)
    BY <1>1, <1>5 DEF Phase, Over
  <2>3. \A j \in retained[r] : Granted(Kept(r, j))
    BY <1>1, <2>2 DEF Holds
  <2>. QED
    BY <1>3, <2>1, <2>3 DEF Holds, Granted, Own, Kept, lockVars
<1>15. CASE Left(r) > 1
  <2>1. AsksFirst(r) /\ step[r] = 0
    BY <1>2, <1>8, <1>9, <1>15 DEF AsksFirst
  <2>2. pc'[r] = "asking" /\ step'[r] = 0
    BY <1>1, <1>15, <2>1 DEF Got, RequestTypeOK, Left
  <2>3. /\ Left(r)' = Left(r) - 1
        /\ \A i \in 1..Left(r)' : todo'[r][i] = todo[r][i + 1]
    BY <1>2, <1>3, <1>15 DEF Left
  <2>4. Left(r)' \in Nat /\ Left(r)' > 0 /\ Depth(r)' \in Nat
    <3>. DEFINE n == Left(r)
    <3>1. n \in Nat /\ n > 1 /\ Left(r)' = n - 1
      BY <1>2, <1>15, <2>3
    <3>. HIDE DEF n
    <3>. QED
      BY <1>2, <1>4, <3>1
  <2>5. ASSUME NEW i \in 1..Left(r)'
        PROVE  todo'[r][i] = initial[r][Depth(r)' + i]
    <3>1. \A j \in 1..Left(r) : todo[r][j] = initial[r][Depth(r) + j]
      BY <1>1, <2>1 DEF Phase
    <3>2. i + 1 \in 1..Left(r) /\ Depth(r) + (i + 1) = Depth(r)' + i
      <4>1. Left(r) \in Nat /\ Depth(r) \in Nat /\ Left(r)' = Left(r) - 1
        BY <1>2, <2>3
      <4>2. i + 1 \in 1..Left(r) /\ Depth(r) + (i + 1) = (Depth(r) + 1) + i
        BY <4>1, Shifted, Zenon
      <4>. QED
        BY <1>4, <4>2
    <3>. QED
      BY <2>3, <3>1, <3>2
  <2>6. Depth(r)' + Left(r)' = Base(r)
    BY <1>2, <1>4, <1>7, <2>1, <2>3
  <2>7. Phase(r)'
    <3>1. /\ step'[r] = 0 /\ ~Inside(r)' /\ ~AsksMore(r)' /\ Asks(r)'
      BY <2>2 DEF Inside, AsksMore, Asks
    <3>2. /\ Left(r)' > 0 /\ Depth(r)' + Left(r)' = Base(r)'
          /\ \A i \in 1..Left(r)' : todo'[r][i] = initial'[r][Depth(r)' + i]
      BY <1>3, <1>4, <2>4, <2>5, <2>6
    <3>3. ~(step'[r] > 0) /\ plan'[r] \in Plans
      BY <1>3, <1>5, <2>2
    <3>. QED
      BY <1>6, <2>2, <3>1, <3>2, <3>3 DEF Phase
  <2>8. Opens(r)' /\ Replayed(r)'
    BY <2>2 DEF Opens, Replayed, Replays, AsksMore, Inside
  <2>9. Uses(r)'
    BY <1>1, <1>3, <2>2 DEF Uses
  <2>. QED
    BY <1>11, <1>14, <2>7, <2>8, <2>9 DEF Proper
<1>16. CASE Left(r) = 1 /\ step[r] = 0
  <2>1. pc'[r] = "body" /\ step'[r] = 1
    BY <1>1, <1>16 DEF Got, RequestTypeOK, Left
  <2>2. Depth(r)' = Base(r)
    BY <1>2, <1>4, <1>7, <1>8, <1>16 DEF AsksMore
  <2>3. ~Over(r)'
    BY <1>3, <1>5, <2>1 DEF Over
  <2>4. Phase(r)'
    BY <1>2, <1>3, <1>4, <1>5, <1>6, <2>1, <2>2, <2>3 DEF Phase, Asks, AsksFirst, AsksMore, Inside
  <2>5. Opens(r)' /\ Replayed(r)'
    BY <2>1 DEF Opens, Replayed, Replays, AsksMore, Asks
  <2>6. Uses(r)'
    BY <1>1, <1>3, <2>1 DEF Uses
  <2>. QED
    BY <1>11, <1>14, <2>4, <2>5, <2>6 DEF Proper
<1>17. CASE Left(r) = 1 /\ step[r] > 0
  <2>1. pc'[r] = "ready" /\ step'[r] = step[r]
    BY <1>1, <1>17 DEF Got, RequestTypeOK, Left
  <2>2. AsksMore(r) /\ Depth(r)' = Base(r) + 1
    BY <1>4, <1>8, <1>9, <1>17 DEF AsksFirst
  <2>3. Inside(r) /\ ~Over(r)
    BY <1>1, <1>17 DEF Phase, Inside
  <2>4. Phase(r)'
    BY <1>2, <1>3, <1>4, <1>5, <1>6, <2>1, <2>2, <2>3, SameStep
       DEF Phase, Asks, AsksFirst, AsksMore, Inside
  <2>5. Opens(r)'
    BY <1>1, <1>2, <1>3, <1>4, <1>9, <2>1, <2>2, SameStep DEF Opens, Asks, AsksMore
  <2>6. Uses(r)'
    BY <1>1, <1>3, <2>1 DEF Uses
  <2>7. Replayed(r)'
    BY <1>1, <1>3, <2>1, <2>2, SameStep DEF Replayed, Named, AsksMore
  <2>. QED
    BY <1>11, <1>14, <2>4, <2>5, <2>6, <2>7 DEF Proper
<1>18. \/ Left(r) > 1
       \/ Left(r) = 1 /\ step[r] = 0
       \/ Left(r) = 1 /\ step[r] > 0
  BY <1>1, <1>2
<1>. QED
  BY <1>15, <1>16, <1>17, <1>18

\* A request in one of the phases of a step.
LEMMA BodyFacts ==
  ASSUME RequestInv, NEW r \in Requests,
         pc[r] \in {"body", "ready", "retaining", "using"}
  PROVE  /\ Inside(r) /\ ~Over(r) /\ step[r] > 0 /\ step[r] \in 1..Len(plan[r].steps)
         /\ plan[r] \in Plans /\ FirstKeys(r) /\ SessionOf(r) \in Sessions
         /\ BoundTo(r) \in Devices \cup {None} /\ StepOf(r) \in Steps
         /\ Op(r) = "open" => StepOf(r).device \in Devices /\ OpenDevice(r) \in Devices
         /\ Depth(r) \in Nat /\ Base(r) \in Nat /\ Depth(r) >= Base(r)
         /\ pc[r] = "body" => Depth(r) = Base(r)
<1>1. RequestTypeOK /\ Queues /\ Phase(r) /\ step[r] \in Nat
  BY DEF RequestInv, Proper, RequestTypeOK
<1>2. ~Over(r) /\ step[r] > 0 /\ Inside(r)
  BY <1>1 DEF Phase, Asks, Inside
<1>3. Depth(r) >= Base(r) /\ (pc[r] = "body" => Depth(r) = Base(r)) /\ FirstKeys(r)
  BY <1>1, <1>2 DEF Phase
<1>. QED
  BY <1>1, <1>2, <1>3, StepFacts, QueueFacts

LEMMA AskAgainStep ==
  ASSUME RequestInv, NEW r \in Requests, AskAgain(r)
  PROVE  Proper(r)'
<1>. DEFINE key == Last(KeysFor(SessionOf(r), None))
<1>1. /\ RequestTypeOK /\ Queues /\ Proper(r)
      /\ Stacked(r) /\ Phase(r) /\ Holds(r) /\ Opens(r) /\ Uses(r) /\ Replayed(r)
  BY DEF RequestInv, Proper
<1>2. /\ pc[r] = "body" /\ Op(r) = "full" /\ bound' = bound
      /\ plan'[r] = plan[r] /\ step'[r] = step[r] /\ initial'[r] = initial[r]
      /\ stack'[r] = stack[r] /\ retained'[r] = retained[r] /\ using'[r] = using[r]
  BY DEF AskAgain, Op
<1>3. /\ Inside(r) /\ ~Over(r) /\ step[r] > 0 /\ plan[r] \in Plans /\ FirstKeys(r)
      /\ Depth(r) \in Nat /\ Base(r) \in Nat /\ Depth(r) = Base(r)
  BY <1>2, BodyFacts
<1>4. Depth(r)' = Depth(r) /\ Base(r)' = Base(r)
  BY <1>2 DEF Depth, Base
<1>5. \/ pc'[r] = "ready"
      \/ /\ pc'[r] = "asking" /\ todo'[r] = <<key>>
         /\ \A i \in 1..Depth(r) : stack[r][i] # key
  <2>1. CASE key \in ToSet(stack[r])
    BY <1>1, <2>1 DEF AskAgain, RequestTypeOK
  <2>2. CASE key \notin ToSet(stack[r])
    <3>1. pc'[r] = "asking" /\ todo'[r] = <<key>>
      BY <1>1, <2>2 DEF AskAgain, RequestTypeOK, Queues
    <3>2. \A i \in 1..Depth(r) : stack[r][i] # key
      BY <1>1, <2>2, QueueFacts DEF ToSet, Depth
    <3>. QED
      BY <3>1, <3>2
  <2>. QED
    BY <2>1, <2>2
<1>. HIDE DEF key
<1>6. pc'[r] = "asking" => Left(r)' = 1 /\ todo'[r][1] = key
  BY <1>5 DEF Left
<1>7. Stacked(r)'
  BY <1>1, <1>2, <1>4 DEF Stacked
<1>8. Phase(r)'
  BY <1>2, <1>3, <1>4, <1>5, <1>6, SameStep DEF Phase, AsksFirst, AsksMore, Asks
<1>9. Holds(r)'
  BY <1>1, <1>2, <1>4, <1>5, SameStep DEF AskAgain, Holds, Granted, Own, Kept, lockVars
<1>10. Opens(r)' /\ Uses(r)' /\ Replayed(r)'
  BY <1>1, <1>2, <1>5, SameStep DEF Opens, Uses, Replayed, Named
<1>. QED
  BY <1>7, <1>8, <1>9, <1>10 DEF Proper

LEMMA RetainStep ==
  ASSUME RequestInv, NEW r \in Requests, Retain(r)
  PROVE  Proper(r)'
<1>1. /\ RequestTypeOK /\ Queues /\ Proper(r)
      /\ Stacked(r) /\ Phase(r) /\ Holds(r) /\ Opens(r) /\ Uses(r) /\ Replayed(r)
  BY DEF RequestInv, Proper
<1>2. /\ pc[r] = "body" /\ pc'[r] = "retaining" /\ Op(r) = "open" /\ bound' = bound
      /\ plan'[r] = plan[r] /\ step'[r] = step[r] /\ initial'[r] = initial[r]
      /\ stack'[r] = stack[r] /\ retained'[r] = retained[r] /\ using'[r] = using[r]
  BY <1>1 DEF Retain, AtOpen, Op, RequestTypeOK
<1>3. /\ Inside(r) /\ ~Over(r) /\ step[r] > 0 /\ plan[r] \in Plans /\ FirstKeys(r)
      /\ Depth(r) \in Nat /\ Base(r) \in Nat /\ Depth(r) = Base(r)
      /\ OpenDevice(r) \in Devices
  BY <1>2, BodyFacts
<1>4. Depth(r)' = Depth(r) /\ Base(r)' = Base(r)
  BY <1>2 DEF Depth, Base
<1>5. Stacked(r)'
  BY <1>1, <1>2, <1>4 DEF Stacked
<1>6. Phase(r)'
  BY <1>2, <1>3, <1>4, SameStep DEF Phase, AsksFirst, AsksMore, Asks
<1>7. Holds(r)'
  <2>1. Kept(r, DeviceKey(OpenDevice(r))) \in Acquisitions
    BY <1>3, KeyFacts, AcquisitionFacts
  <2>. QED
    BY <1>2, <2>1, HoldsOn, SameStep DEF Retain
<1>8. Opens(r)' /\ Uses(r)' /\ Replayed(r)'
  BY <1>1, <1>2, SameStep DEF Opens, Uses, Replayed, Named, AsksMore, Asks
<1>. QED
  BY <1>5, <1>6, <1>7, <1>8 DEF Proper

LEMMA RetainedStep ==
  ASSUME RequestInv, NEW r \in Requests, Retained(r)
  PROVE  Proper(r)'
<1>1. /\ RequestTypeOK /\ Queues /\ Proper(r)
      /\ Stacked(r) /\ Phase(r) /\ Holds(r) /\ Opens(r) /\ Uses(r) /\ Replayed(r)
  BY DEF RequestInv, Proper
<1>2. /\ pc[r] = "retaining" /\ pc'[r] = "body" /\ bound' = bound
      /\ plan'[r] = plan[r] /\ step'[r] = step[r] /\ initial'[r] = initial[r]
      /\ stack'[r] = stack[r] /\ using'[r] = using[r]
      /\ retained'[r] = retained[r] \cup {DeviceKey(OpenDevice(r))}
  BY <1>1 DEF Retained, RequestTypeOK, Queues
<1>3. /\ Inside(r) /\ ~Over(r) /\ step[r] > 0 /\ plan[r] \in Plans /\ FirstKeys(r)
      /\ Depth(r) \in Nat /\ Base(r) \in Nat
  BY <1>2, BodyFacts
<1>4. Depth(r)' = Depth(r) /\ Base(r)' = Base(r) /\ Depth(r) = Base(r)
  BY <1>1, <1>2 DEF Depth, Base, Phase
<1>5. Stacked(r)'
  BY <1>1, <1>2, <1>4 DEF Stacked
<1>6. Phase(r)'
  BY <1>2, <1>3, <1>4, SameStep DEF Phase, AsksFirst, AsksMore, Asks
<1>7. Holds(r)'
  BY <1>1, <1>2, <1>4, SameStep DEF Retained, Holds, Granted, Own, Kept, lockVars
<1>8. Opens(r)' /\ Uses(r)'
  BY <1>1, <1>2, SameStep DEF Opens, Uses, AsksMore, Asks
<1>9. Replayed(r)'
  BY <1>1, <1>2, SameStep DEF Replayed, Named, Asks
<1>. QED
  BY <1>5, <1>6, <1>7, <1>8, <1>9 DEF Proper

LEMMA AskToOpenStep ==
  ASSUME RequestInv, NEW r \in Requests, AskToOpen(r)
  PROVE  Proper(r)'
<1>1. /\ RequestTypeOK /\ Queues /\ Proper(r)
      /\ Stacked(r) /\ Phase(r) /\ Holds(r) /\ Opens(r) /\ Uses(r) /\ Replayed(r)
  BY DEF RequestInv, Proper
<1>2. /\ pc[r] = "body" /\ pc'[r] = "asking" /\ Op(r) = "open" /\ bound' = bound
      /\ BoundTo(r) = None /\ OpenDevice(r) = StepOf(r).device /\ ~MustRetain(r)
      /\ plan'[r] = plan[r] /\ step'[r] = step[r] /\ initial'[r] = initial[r]
      /\ stack'[r] = stack[r] /\ retained'[r] = retained[r] /\ using'[r] = using[r]
      /\ todo'[r] = <<OpenKey(StepOf(r).device)>>
  BY <1>1 DEF AskToOpen, AtOpen, Op, RequestTypeOK, Queues, OpenDevice
<1>3. /\ Inside(r) /\ ~Over(r) /\ step[r] > 0 /\ plan[r] \in Plans /\ FirstKeys(r)
      /\ Depth(r) \in Nat /\ Base(r) \in Nat /\ Depth(r) = Base(r)
  BY <1>2, BodyFacts
<1>4. /\ Depth(r)' = Depth(r) /\ Base(r)' = Base(r) /\ Left(r)' = 1
      /\ todo'[r][1] = OpenKey(StepOf(r).device)
  BY <1>2 DEF Depth, Base, Left
<1>5. \A i \in 1..Depth(r) : stack[r][i] # OpenKey(StepOf(r).device)
  <2>1. ASSUME NEW i \in 1..Depth(r) PROVE stack[r][i] # OpenKey(StepOf(r).device)
    <3>1. stack[r][i] = initial[r][i] /\ (i = 1 \/ (i = 2 /\ Base(r) = 2))
      <4>1. Base(r) = 1 \/ Base(r) = 2
        BY <1>3 DEF FirstKeys
      <4>. QED
        BY <1>1, <1>3, <4>1, <2>1 DEF Stacked
    <3>. QED
      BY <1>3, <3>1, KeysDiffer DEF FirstKeys
  <2>. QED
    BY <2>1
<1>6. Stacked(r)'
  BY <1>1, <1>2, <1>4 DEF Stacked
<1>7. Phase(r)'
  BY <1>2, <1>3, <1>4, <1>5, SameStep DEF Phase, AsksFirst, AsksMore, Asks
<1>8. Holds(r)'
  BY <1>1, <1>2, <1>4, SameStep DEF AskToOpen, Holds, Granted, Own, Kept, lockVars
<1>9. Opens(r)' /\ Uses(r)'
  BY <1>1, <1>2, <1>4, SameStep DEF Opens, Uses, AsksMore, Asks
<1>10. Replayed(r)'
  <2>1. plan[r].replay => Named(r, StepOf(r).device)
    BY <1>2 DEF MustRetain, Named
  <2>. QED
    BY <1>1, <1>2, <2>1, SameStep DEF Replayed, Named
<1>. QED
  BY <1>6, <1>7, <1>8, <1>9, <1>10 DEF Proper

LEMMA StartStep ==
  ASSUME RequestInv, NEW r \in Requests, Start(r)
  PROVE  Proper(r)'
<1>1. /\ RequestTypeOK /\ Queues /\ Proper(r)
      /\ Stacked(r) /\ Phase(r) /\ Holds(r) /\ Opens(r) /\ Uses(r) /\ Replayed(r)
  BY DEF RequestInv, Proper
<1>2. /\ pc[r] \in {"body", "ready"} /\ pc'[r] = "using" /\ bound' = bound
      /\ plan'[r] = plan[r] /\ step'[r] = step[r] /\ initial'[r] = initial[r]
      /\ stack'[r] = stack[r] /\ retained'[r] = retained[r] /\ using'[r] = Target(r)
  BY <1>1 DEF Start, MayStart, AtOpen, RequestTypeOK
<1>3. /\ Inside(r) /\ ~Over(r) /\ step[r] > 0 /\ plan[r] \in Plans /\ FirstKeys(r)
      /\ Depth(r) \in Nat /\ Base(r) \in Nat /\ Depth(r) >= Base(r)
      /\ BoundTo(r) \in Devices \cup {None} /\ StepOf(r) \in Steps
  BY <1>2, BodyFacts
<1>4. Depth(r)' = Depth(r) /\ Base(r)' = Base(r)
  BY <1>2 DEF Depth, Base
<1>5. /\ Op(r) = "probe" => Target(r) = StepOf(r).device
      /\ Op(r) = "open" => Target(r) = OpenDevice(r)
      /\ Op(r) \in {"act", "close", "full"} /\ BoundTo(r) # None => Target(r) = BoundTo(r)
  BY DEF Target, OpenDevice, Op
<1>6. /\ Target(r) # None
      /\ Op(r) = "open" => \A s \in Sessions \ {SessionOf(r)} : bound[s] # Target(r)
  BY DEF Start, Accepted, Conflict, Op
<1>7. Op(r) = "open" =>
         \/ pc[r] = "ready"
         \/ pc[r] = "body" /\ BoundTo(r) # None /\ ~MustRetain(r)
  BY DEF Start, MayStart, AtOpen, Op
<1>8. Op(r) = "open" /\ pc[r] = "ready" =>
         BoundTo(r) = None /\ OpenDevice(r) = StepOf(r).device
  BY <1>1 DEF Opens, OpenDevice
<1>9. Stacked(r)'
  BY <1>1, <1>2, <1>4 DEF Stacked
<1>10. Phase(r)'
  BY <1>2, <1>3, <1>4, SameStep DEF Phase, AsksFirst, AsksMore, Asks
<1>11. Holds(r)'
  BY <1>1, <1>2, <1>4, SameStep DEF Start, Holds, Granted, Own, Kept, lockVars
<1>12. Opens(r)'
  BY <1>2 DEF Opens, AsksMore, Asks
<1>13. Uses(r)'
  <2>1. ASSUME Op(r) = "open", BoundTo(r) # None PROVE Target(r) = BoundTo(r)
    BY <1>5, <2>1 DEF OpenDevice
  <2>2. ASSUME Op(r) = "open", BoundTo(r) = None
        PROVE  Depth(r) = Base(r) + 1 /\ stack[r][Depth(r)] = OpenKey(Target(r))
    BY <1>1, <1>5, <1>7, <1>8, <2>2 DEF Opens
  <2>. QED
    BY <1>2, <1>4, <1>5, <1>6, <2>1, <2>2, SameStep DEF Uses
<1>14. Replayed(r)'
  <2>1. plan[r].replay /\ Op(r) = "open" => Named(r, Target(r))
    BY <1>1, <1>3, <1>5, <1>7, <1>8 DEF Replayed, MustRetain, Named
  <2>. QED
    BY <1>1, <1>2, <2>1, SameStep DEF Replayed, Named, Asks
<1>. QED
  BY <1>9, <1>10, <1>11, <1>12, <1>13, <1>14 DEF Proper

\* A step that fails or is refused ends the request.
LEMMA EndsEarlyStep ==
  ASSUME RequestInv, NEW r \in Requests, Refuse(r) \/ Fail(r)
  PROVE  Proper(r)'
<1>1. /\ RequestTypeOK /\ Queues /\ Proper(r)
      /\ Stacked(r) /\ Phase(r) /\ Holds(r) /\ Opens(r) /\ Uses(r) /\ Replayed(r)
  BY DEF RequestInv, Proper
<1>2. /\ pc[r] \in {"body", "ready", "using"} /\ pc'[r] = "leaving" /\ bound' = bound
      /\ plan'[r] = plan[r] /\ step'[r] = Len(plan[r].steps) + 1 /\ initial'[r] = initial[r]
      /\ stack'[r] = stack[r] /\ retained'[r] = retained[r] /\ using'[r] = None
  BY <1>1 DEF Refuse, Fail, MayStart, AtOpen, RequestTypeOK, Uses
<1>3. plan[r] \in Plans /\ FirstKeys(r) /\ Len(plan[r].steps) \in Nat
  BY <1>2, BodyFacts, PlanFacts
<1>4. Depth(r)' = Depth(r) /\ Base(r)' = Base(r) /\ FirstKeys(r)'
  BY <1>2, <1>3 DEF Depth, Base, FirstKeys, SessionOf
<1>5. Over(r)' /\ step'[r] > 0 /\ ~Inside(r)'
  BY <1>2, <1>3 DEF Over, Inside
<1>6. Stacked(r)'
  BY <1>1, <1>2, <1>4 DEF Stacked
<1>7. Phase(r)'
  BY <1>2, <1>3, <1>4, <1>5 DEF Phase, AsksFirst, AsksMore, Asks
<1>8. Holds(r)'
  <2>1. \A i \in 1..Depth(r) : Granted(Own(r, stack[r][i]))
    BY <1>1, <1>2 DEF Holds
  <2>2. UNCHANGED lockVars
    BY DEF Refuse, Fail
  <2>. QED
    BY <1>2, <1>4, <1>5, <2>1, <2>2 DEF Holds, Granted, Own, Kept, lockVars
<1>9. Opens(r)' /\ Uses(r)' /\ Replayed(r)'
  BY <1>2, <1>5 DEF Opens, Uses, Replayed, Replays, AsksMore, Asks
<1>. QED
  BY <1>6, <1>7, <1>8, <1>9 DEF Proper

LEMMA FinishStep ==
  ASSUME RequestInv, NEW r \in Requests, Finish(r)
  PROVE  Proper(r)'
<1>1. /\ RequestTypeOK /\ Queues /\ Proper(r)
      /\ Stacked(r) /\ Phase(r) /\ Holds(r) /\ Opens(r) /\ Uses(r) /\ Replayed(r)
  BY DEF RequestInv, Proper
<1>2. /\ pc[r] = "using" /\ pc'[r] = "leaving" /\ UNCHANGED lockVars
      /\ plan'[r] = plan[r] /\ step'[r] = step[r] + 1 /\ initial'[r] = initial[r]
      /\ stack'[r] = stack[r] /\ retained'[r] = retained[r] /\ using'[r] = None
  BY <1>1 DEF Finish, RequestTypeOK
<1>3. /\ Inside(r) /\ ~Over(r) /\ step[r] \in 1..Len(plan[r].steps)
      /\ plan[r] \in Plans /\ FirstKeys(r) /\ SessionOf(r) \in Sessions
      /\ Depth(r) \in Nat /\ Base(r) \in Nat /\ Depth(r) >= Base(r)
      /\ StepOf(r) \in Steps
  BY <1>2, BodyFacts
<1>4. /\ Depth(r)' = Depth(r) /\ Base(r)' = Base(r) /\ FirstKeys(r)'
      /\ step[r] \in Nat /\ step'[r] > 0 /\ step'[r] # 0
  BY <1>2, <1>3 DEF Depth, Base, FirstKeys, SessionOf
<1>5. Stacked(r)'
  BY <1>1, <1>2, <1>4 DEF Stacked
<1>6. Phase(r)'
  BY <1>2, <1>3, <1>4 DEF Phase, AsksFirst, AsksMore, Asks
<1>7. Holds(r)'
  BY <1>1, <1>2, <1>3, <1>4 DEF Holds, Granted, Own, Kept, lockVars
<1>8. Opens(r)' /\ Uses(r)'
  BY <1>2 DEF Opens, Uses, AsksMore, Asks
<1>9. Replayed(r)'
  <2>1. /\ Op(r) = "open" => BoundTo(r)' = using[r]
        /\ Op(r) = "close" => BoundTo(r)' = None
        /\ Op(r) \notin {"open", "close"} => BoundTo(r)' = BoundTo(r)
    BY <1>1, <1>2, <1>3 DEF Finish, Op, BoundTo, SessionOf, RequestTypeOK
  <2>2. ASSUME Replays(r)', BoundTo(r)' # None
        PROVE  Named(r, BoundTo(r)')
    <3>1. plan[r].replay /\ plan[r].steps[1].op = "open"
      BY <1>2, <2>2 DEF Replays
    <3>2. CASE Op(r) = "open"
      BY <1>1, <1>2, <1>3, <2>1, <3>1, <3>2 DEF Replayed
    <3>3. CASE Op(r) \notin {"open", "close"}
      <4>1. step[r] # 1
        BY <3>1, <3>3 DEF Op, StepOf
      <4>2. Replays(r)
        BY <1>3, <1>4, <3>1, <4>1 DEF Replays
      <4>. QED
        BY <1>1, <2>1, <2>2, <3>3, <4>2 DEF Replayed
    <3>. QED
      BY <2>1, <2>2, <3>2, <3>3
  <2>3. Named(r, BoundTo(r)') => (Named(r, BoundTo(r)))'
    BY <1>2 DEF Named
  <2>. QED
    BY <1>2, <2>2, <2>3 DEF Replayed, Asks
<1>. QED
  BY <1>5, <1>6, <1>7, <1>8, <1>9 DEF Proper

\* What a request gives back is its innermost key, and nothing else it holds.
LEMMA LeaveStep ==
  ASSUME RequestInv, NEW r \in Requests, Leave(r)
  PROVE  Proper(r)'
<1>. DEFINE k == Last(stack[r])
<1>1. /\ RequestTypeOK /\ Queues /\ LockInv /\ step[r] \in Nat
      /\ Stacked(r) /\ Phase(r) /\ Holds(r) /\ Opens(r) /\ Uses(r) /\ Replayed(r)
  BY DEF RequestInv, Proper, RequestTypeOK
<1>2. /\ pc[r] = "leaving" /\ pc'[r] = "cleaning" /\ bound' = bound
      /\ plan'[r] = plan[r] /\ step'[r] = step[r] /\ initial'[r] = initial[r]
      /\ stack'[r] = stack[r] /\ retained'[r] = retained[r] /\ using'[r] = using[r]
      /\ Settle(Own(r, k)) /\ Depth(r) > Floor(r)
  BY <1>1 DEF Leave, RequestTypeOK, Depth
<1>3. /\ plan[r] \in Plans /\ FirstKeys(r) /\ step[r] # 0
      /\ Depth(r) \in Nat /\ Base(r) \in Nat /\ Floor(r) \in Nat
      /\ Inside(r) => Depth(r) >= Base(r)
  BY <1>1, <1>2, QueueFacts DEF Phase, Asks, Floor, Base
<1>4. Depth(r)' = Depth(r) /\ Base(r)' = Base(r) /\ Depth(r) > 0
  BY <1>2, <1>3 DEF Depth, Base
<1>5. k = stack[r][Depth(r)] /\ k \in Keys
  BY <1>1, <1>4, QueueFacts
<1>. HIDE DEF k
<1>6. Stacked(r)'
  BY <1>1, <1>2, <1>4 DEF Stacked
<1>7. Phase(r)'
  BY <1>2, <1>3, <1>4, SameStep DEF Phase, AsksFirst, AsksMore, Asks
<1>8. Holds(r)'
  <2>1. ASSUME NEW i \in 1..Depth(r), i # Depth(r)
        PROVE  Granted(Own(r, stack[r][i]))'
    <3>1. PICK j \in Keys : j = stack[r][i]
      BY <1>1, <2>1, QueueFacts
    <3>2. j # k
      BY <1>1, <1>3, <1>4, <1>5, <2>1, <3>1 DEF Stacked
    <3>3. Granted(Own(r, j))
      BY <1>1, <1>2, <2>1, <3>1 DEF Holds
    <3>4. Own(r, k) \notin {Own(r, j), Kept(r, j)} /\ Own(r, k) \in Acquisitions
      BY <1>5, <3>2, AcquisitionsDiffer, AcquisitionFacts
    <3>5. Granted(Own(r, j))'
      BY <1>1, <1>2, <3>3, <3>4, KeepsGrants
    <3>. QED
      BY <1>2, <3>1, <3>5 DEF Granted, Own
  <2>2. ASSUME ~Over(r), NEW j \in retained[r]
        PROVE  Granted(Kept(r, j))'
    <3>1. j \in Keys /\ Granted(Kept(r, j))
      BY <1>1, <2>2, QueueFacts DEF Holds
    <3>2. Kept(r, j) # Own(r, k) /\ Own(r, k) \in Acquisitions /\ Kept(r, j) \in Acquisitions
      BY <1>5, <3>1, AcquisitionsDiffer, AcquisitionFacts
    <3>. QED
      BY <1>1, <1>2, <3>1, <3>2, GrantsLast
  <2>3. Over(r)' = Over(r)
    BY <1>2, SameStep
  <2>. QED
    BY <1>2, <1>4, <2>1, <2>2, <2>3 DEF Holds, Granted, Own, Kept
<1>9. Opens(r)' /\ Uses(r)' /\ Replayed(r)'
  BY <1>1, <1>2, SameStep DEF Opens, Uses, Replayed, Named, AsksMore, Asks
<1>. QED
  BY <1>6, <1>7, <1>8, <1>9 DEF Proper

LEMMA FrontFacts ==
  ASSUME NEW s \in Seq(Keys), Len(s) > 0
  PROVE  /\ Len(Front(s)) \in Nat /\ Len(s) = Len(Front(s)) + 1
         /\ \A i \in 1..Len(Front(s)) : Front(s)[i] = s[i]
<1>. DEFINE n == Len(s)
<1>1. n \in Nat /\ n > 0 /\ n - 1 \in Nat /\ \A i \in 1..n : s[i] \in Keys
  OBVIOUS
<1>2. Front(s) = [i \in 1..(n - 1) |-> s[i]]
  BY <1>1 DEF Front
<1>3. Len(Front(s)) = n - 1
  BY <1>1, <1>2
<1>. QED
  BY <1>1, <1>2, <1>3

LEMMA CleanStep ==
  ASSUME RequestInv, NEW r \in Requests, Clean(r)
  PROVE  Proper(r)'
<1>1. /\ RequestTypeOK /\ Queues /\ LockInv /\ step[r] \in Nat
      /\ Stacked(r) /\ Phase(r) /\ Holds(r) /\ Opens(r) /\ Uses(r) /\ Replayed(r)
  BY DEF RequestInv, Proper, RequestTypeOK
<1>2. /\ pc[r] = "cleaning" /\ pc'[r] = "leaving" /\ bound' = bound
      /\ plan'[r] = plan[r] /\ step'[r] = step[r] /\ initial'[r] = initial[r]
      /\ stack'[r] = Front(stack[r]) /\ retained'[r] = retained[r] /\ using'[r] = using[r]
      /\ Cleanup(Own(r, Last(stack[r])))
  BY <1>1 DEF Clean, RequestTypeOK, Queues
<1>3. /\ plan[r] \in Plans /\ FirstKeys(r) /\ step[r] # 0 /\ Depth(r) > Floor(r)
      /\ Depth(r) \in Nat /\ Base(r) \in Nat
      /\ Floor(r) = IF Over(r) THEN 0 ELSE Base(r)
      /\ Last(stack[r]) \in Keys /\ stack[r] \in Seq(Keys)
  <2>1. /\ plan[r] \in Plans /\ FirstKeys(r) /\ step[r] # 0 /\ Depth(r) > Floor(r)
        /\ Depth(r) \in Nat /\ Base(r) \in Nat
        /\ Floor(r) = IF Over(r) THEN 0 ELSE Base(r)
    BY <1>1, <1>2, QueueFacts DEF Phase, Asks, Floor, Base
  <2>2. Depth(r) > 0
    BY <2>1
  <2>. QED
    BY <1>1, <2>1, <2>2, QueueFacts
<1>4. /\ Depth(r)' \in Nat /\ Depth(r) = Depth(r)' + 1 /\ Base(r)' = Base(r)
      /\ \A i \in 1..Depth(r)' : stack'[r][i] = stack[r][i]
  <2>1. Depth(r) > 0
    BY <1>3
  <2>2. Len(stack[r]) > 0
    BY <2>1 DEF Depth
  <2>. QED
    BY <1>2, <1>3, <2>2, FrontFacts DEF Depth, Base
<1>5. Depth(r)' < Depth(r) /\ Depth(r)' >= Floor(r)
  BY <1>3, <1>4
<1>6. Stacked(r)'
  BY <1>1, <1>2, <1>3, <1>4, <1>5 DEF Stacked
<1>7. Phase(r)'
  BY <1>2, <1>3, <1>4, <1>5, SameStep DEF Phase, AsksFirst, AsksMore, Asks, Inside
<1>8. Holds(r)'
  <2>1. Own(r, Last(stack[r])) \in Acquisitions
    BY <1>3, AcquisitionFacts
  <2>2. ASSUME NEW i \in 1..Depth(r)'
        PROVE  Own(r, stack'[r][i]) \in live' /\ ahead'[Own(r, stack'[r][i])] = None
    <3>1. i \in 1..Depth(r) /\ i # Depth(r)
      BY <1>3, <1>4, <1>5, <2>2
    <3>2. PICK j \in Keys : j = stack[r][i]
      BY <1>1, <3>1, QueueFacts
    <3>3. Granted(Own(r, j))
      BY <1>1, <3>1, <3>2 DEF Holds
    <3>4. Granted(Own(r, j))'
      BY <1>1, <1>2, <2>1, <3>3, KeepsGrants
    <3>. QED
      BY <1>4, <3>2, <3>4 DEF Granted, Own
  <2>3. ASSUME ~Over(r), NEW j \in retained[r]
        PROVE  Granted(Kept(r, j))'
    BY <1>1, <1>2, <2>1, <2>3, QueueFacts, KeepsGrants DEF Holds
  <2>4. Over(r)' = Over(r)
    BY <1>2, SameStep
  <2>. QED
    BY <1>2, <1>4, <2>2, <2>3, <2>4 DEF Holds, Granted, Own, Kept
<1>9. Opens(r)' /\ Uses(r)' /\ Replayed(r)'
  BY <1>1, <1>2, SameStep DEF Opens, Uses, Replayed, Named, AsksMore, Asks
<1>. QED
  BY <1>6, <1>7, <1>8, <1>9 DEF Proper

LEMMA GoOnStep ==
  ASSUME RequestInv, NEW r \in Requests, GoOn(r)
  PROVE  Proper(r)'
<1>1. /\ RequestTypeOK /\ Queues /\ step[r] \in Nat
      /\ Stacked(r) /\ Phase(r) /\ Holds(r) /\ Opens(r) /\ Uses(r) /\ Replayed(r)
  BY DEF RequestInv, Proper, RequestTypeOK
<1>2. /\ pc[r] = "leaving" /\ pc'[r] = "body" /\ bound' = bound /\ UNCHANGED lockVars
      /\ plan'[r] = plan[r] /\ step'[r] = step[r] /\ initial'[r] = initial[r]
      /\ stack'[r] = stack[r] /\ retained'[r] = retained[r] /\ using'[r] = using[r]
      /\ ~Over(r) /\ Depth(r) = Base(r)
  BY <1>1 DEF GoOn, RequestTypeOK, Depth, Base, Floor
<1>3. /\ plan[r] \in Plans /\ FirstKeys(r) /\ step[r] # 0
      /\ Depth(r) \in Nat /\ Base(r) \in Nat
  BY <1>1, <1>2, QueueFacts DEF Phase, Asks
<1>4. Depth(r)' = Depth(r) /\ Base(r)' = Base(r)
  BY <1>2 DEF Depth, Base
<1>5. Stacked(r)'
  BY <1>1, <1>2, <1>4 DEF Stacked
<1>6. Phase(r)'
  BY <1>2, <1>3, <1>4, SameStep DEF Phase, AsksFirst, AsksMore, Asks
<1>7. Holds(r)'
  BY <1>1, <1>2, <1>4, SameStep DEF Holds, Granted, Own, Kept, lockVars
<1>8. Opens(r)' /\ Uses(r)' /\ Replayed(r)'
  BY <1>1, <1>2, SameStep DEF Opens, Uses, Replayed, Named, AsksMore, Asks
<1>. QED
  BY <1>5, <1>6, <1>7, <1>8 DEF Proper

\* Retained locks go when the request is over and its own keys are back.
LEMMA ReleaseStep ==
  ASSUME RequestInv, NEW r \in Requests, NEW k \in retained[r],
         Release(r, k) \/ Released(r, k)
  PROVE  Proper(r)'
<1>1. /\ RequestTypeOK /\ Queues /\ step[r] \in Nat
      /\ Stacked(r) /\ Phase(r) /\ Holds(r) /\ Opens(r) /\ Uses(r) /\ Replayed(r)
  BY DEF RequestInv, Proper, RequestTypeOK
<1>2. /\ pc[r] \in {"leaving", "releasing"} /\ pc'[r] \in {"leaving", "releasing"}
      /\ plan'[r] = plan[r] /\ step'[r] = step[r] /\ initial'[r] = initial[r]
      /\ stack'[r] = stack[r] /\ using'[r] = using[r] /\ bound' = bound
  BY <1>1 DEF Release, Released, RequestTypeOK
<1>3. /\ plan[r] \in Plans /\ FirstKeys(r) /\ step[r] # 0 /\ step[r] > 0
      /\ Depth(r) \in Nat /\ Base(r) \in Nat
  BY <1>1, <1>2, QueueFacts DEF Phase, Asks
<1>4. Over(r)
  <2>1. CASE Release(r, k)
    <3>1. Depth(r) = 0 /\ Base(r) > 0
      BY <1>3, <2>1 DEF Release, Depth, FirstKeys
    <3>. QED
      BY <1>1, <1>3, <3>1 DEF Phase, Inside
  <2>2. CASE Released(r, k)
    BY <1>1, <2>2 DEF Released, Phase
  <2>. QED
    BY <2>1, <2>2
<1>5. Depth(r)' = Depth(r) /\ Base(r)' = Base(r) /\ Over(r)'
  BY <1>2, <1>4, SameStep DEF Depth
<1>6. Stacked(r)'
  BY <1>1, <1>2, <1>5 DEF Stacked
<1>7. Phase(r)'
  BY <1>2, <1>3, <1>4, <1>5, SameStep DEF Phase, AsksFirst, AsksMore, Asks, Inside
<1>8. Holds(r)'
  <2>1. Depth(r) = 0 \/ Released(r, k)
    BY DEF Release, Depth
  <2>2. CASE Depth(r) = 0
    BY <1>5, <2>2 DEF Holds
  <2>3. CASE Released(r, k)
    <3>1. \A i \in 1..Depth(r) : Granted(Own(r, stack[r][i]))
      BY <1>1, <2>3 DEF Holds, Released
    <3>2. \A a : Granted(a) => a \in live' /\ ahead'[a] = None
      BY <2>3 DEF Released, Cleanup, Granted
    <3>. QED
      BY <1>2, <1>5, <3>1, <3>2 DEF Holds, Granted, Own
  <2>. QED
    BY <2>1, <2>2, <2>3
<1>9. Opens(r)' /\ Uses(r)' /\ Replayed(r)'
  BY <1>1, <1>2, <1>5 DEF Opens, Uses, Replayed, Replays, Inside, AsksMore, Asks
<1>. QED
  BY <1>6, <1>7, <1>8, <1>9 DEF Proper

LEMMA EndStep ==
  ASSUME RequestInv, NEW r \in Requests, End(r)
  PROVE  Proper(r)'
<1>1. /\ RequestTypeOK /\ Queues /\ Uses(r)
  BY DEF RequestInv, Proper
<1>2. /\ pc[r] = "leaving" /\ pc'[r] = "idle" /\ step'[r] = 0
      /\ initial'[r] = <<>> /\ stack'[r] = <<>> /\ retained'[r] = {}
      /\ using'[r] = using[r]
  BY <1>1 DEF End, RequestTypeOK, Queues
<1>3. Depth(r)' = 0 /\ Base(r)' = 0 /\ ~Inside(r)' /\ ~Asks(r)'
  BY <1>2 DEF Depth, Base, Inside, Asks
<1>4. Stacked(r)' /\ Phase(r)' /\ Holds(r)'
  BY <1>2, <1>3 DEF Stacked, Phase, Holds, AsksFirst, AsksMore
<1>5. Opens(r)' /\ Uses(r)' /\ Replayed(r)'
  BY <1>1, <1>2, <1>3 DEF Opens, Uses, Replayed, Replays, AsksMore
<1>. QED
  BY <1>4, <1>5 DEF Proper

LEMMA ArriveStep ==
  ASSUME RequestInv, NEW r \in Requests, NEW p \in Plans, Arrive(r, p)
  PROVE  Proper(r)'
<1>. DEFINE ks == KeysFor(p.session, p.hint)
<1>1. /\ RequestTypeOK /\ Queues /\ Uses(r) /\ Phase(r)
  BY DEF RequestInv, Proper
<1>2. /\ pc[r] = "idle" /\ pc'[r] = "asking" /\ step'[r] = 0 /\ plan'[r] = p
      /\ initial'[r] = ks /\ todo'[r] = ks /\ stack'[r] = stack[r]
      /\ retained'[r] = {} /\ using'[r] = using[r] /\ Depth(r) = 0
  BY <1>1 DEF Arrive, RequestTypeOK, Queues, Phase
<1>3. /\ ks \in Seq(Keys) /\ Len(ks) \in {1, 2} /\ ks[1] = SessionKey(p.session)
      /\ Len(ks) = 2 => \E d \in Devices : ks[2] = DeviceKey(d)
  BY <1>1, PlanFacts, KeysForFacts DEF RequestTypeOK
<1>. HIDE DEF ks
<1>4. /\ Depth(r)' = 0 /\ Base(r)' \in {1, 2} /\ Left(r)' = Base(r)'
      /\ ~Inside(r)' /\ Asks(r)' /\ ~AsksMore(r)'
  BY <1>2, <1>3 DEF Depth, Base, Left, Inside, Asks, AsksMore
<1>5. FirstKeys(r)'
  BY <1>2, <1>3, <1>4 DEF FirstKeys, Base, SessionOf
<1>6. Stacked(r)'
  BY <1>4 DEF Stacked
<1>7. Phase(r)'
  <2>1. /\ Left(r)' > 0 /\ Depth(r)' + Left(r)' = Base(r)'
        /\ \A i \in 1..Left(r)' : todo'[r][i] = initial'[r][Depth(r)' + i]
    BY <1>2, <1>4
  <2>. QED
    BY <1>2, <1>4, <1>5, <2>1 DEF Phase
<1>8. Holds(r)'
  BY <1>2, <1>4 DEF Holds
<1>9. Opens(r)' /\ Uses(r)' /\ Replayed(r)'
  BY <1>1, <1>2, <1>4 DEF Opens, Uses, Replayed, Replays
<1>. QED
  BY <1>6, <1>7, <1>8, <1>9 DEF Proper

-----------------------------------------------------------------------------
(* What the locks exclude, and the invariant *)

\* A request at a step holds its session's key.
LEMMA HoldsSession ==
  ASSUME RequestInv, NEW r \in Requests, Inside(r)
  PROVE  SessionOf(r) \in Sessions /\ Granted(Own(r, SessionKey(SessionOf(r))))
<1>1. RequestTypeOK /\ Queues /\ Stacked(r) /\ Phase(r) /\ Holds(r) /\ step[r] \in Nat
  BY DEF RequestInv, Proper, RequestTypeOK
<1>2. pc[r] # "idle" /\ ~Over(r)
  BY <1>1 DEF Phase, Inside
<1>3. Depth(r) \in Nat /\ Base(r) \in Nat /\ Base(r) > 0 /\ Depth(r) >= Base(r)
  BY <1>1, <1>2, QueueFacts DEF Phase, FirstKeys
<1>4. stack[r][1] = SessionKey(SessionOf(r))
  BY <1>1, <1>2, <1>3 DEF Stacked, Phase, FirstKeys
<1>5. pc[r] = "cleaning" => Depth(r) > Base(r)
  BY <1>1, <1>2 DEF Phase, Floor, Base
<1>6. Granted(Own(r, stack[r][1]))
  BY <1>1, <1>3, <1>5 DEF Holds
<1>. QED
  BY <1>1, <1>2, <1>4, <1>6, StepFacts

\* Two requests at a step are on two sessions.
LEMMA SessionsExclude ==
  ASSUME RequestInv, NEW r \in Requests, NEW q \in Requests, r # q, Inside(r), Inside(q)
  PROVE  SessionOf(r) # SessionOf(q)
<1>. SUFFICES ASSUME SessionOf(r) = SessionOf(q) PROVE FALSE
  OBVIOUS
<1>. DEFINE k == SessionKey(SessionOf(r))
<1>1. k \in Keys /\ Granted(Own(r, k)) /\ Granted(Own(q, k))
  BY HoldsSession, KeyFacts
<1>2. Own(r, k) = Own(q, k)
  BY <1>1, AcquisitionFacts DEF RequestInv, LockInv, KeyExclusive
<1>. QED
  BY <1>2, AcquisitionsDiffer

\* No two requests open the same device at once.
LEMMA OpensExclude ==
  ASSUME RequestInv, NEW r \in Requests, NEW q \in Requests, r # q,
         pc[r] = "using", pc[q] = "using", Op(r) = "open", Op(q) = "open"
  PROVE  using[r] # using[q]
<1>. SUFFICES ASSUME using[r] = using[q] PROVE FALSE
  OBVIOUS
<1>1. Uses(r) /\ Uses(q) /\ Holds(r) /\ Holds(q) /\ Inside(r) /\ Inside(q)
  BY BodyFacts DEF RequestInv, Proper
<1>2. SessionOf(r) \in Sessions /\ SessionOf(q) \in Sessions /\ SessionOf(r) # SessionOf(q)
  BY <1>1, BodyFacts, SessionsExclude
<1>3. BoundTo(r) = None /\ BoundTo(q) = None
  BY <1>1, <1>2 DEF Uses, BoundTo
<1>. DEFINE k == OpenKey(using[r])
<1>4. ASSUME NEW p \in {r, q} PROVE Granted(Own(p, k)) /\ k \in Keys
  <2>1. /\ Depth(p) = Base(p) + 1 /\ stack[p][Depth(p)] = k
        /\ Depth(p) \in Nat /\ Base(p) \in Nat /\ Holds(p) /\ pc[p] = "using"
    BY <1>1, <1>3, BodyFacts DEF Uses
  <2>2. Depth(p) \in 1..Depth(p)
    BY <2>1
  <2>. QED
    BY <2>1, <2>2, QueueFacts DEF Holds, RequestInv
<1>. HIDE DEF k
<1>5. Own(r, k) = Own(q, k)
  BY <1>4, AcquisitionFacts DEF RequestInv, LockInv, KeyExclusive
<1>. QED
  BY <1>5, AcquisitionsDiffer

\* Only the end of a step changes the store, and only for the request's own session.
LEMMA BoundSteps ==
  ASSUME RequestInv, NEW r \in Requests, Work(r) \/ \E p \in Plans : Arrive(r, p)
  PROVE  \/ bound' = bound
         \/ Finish(r) /\ \E d \in {using[r], None} :
              /\ bound' = [bound EXCEPT ![SessionOf(r)] = d]
              /\ d = None \/ Op(r) = "open"
<1>1. CASE Finish(r)
  BY <1>1 DEF Finish, Op
<1>2. CASE Ask(r) \/ Got(r) \/ AskAgain(r) \/ Retain(r) \/ Retained(r) \/ AskToOpen(r)
  BY <1>2 DEF Ask, Got, AskAgain, Retain, Retained, AskToOpen
<1>3. CASE Start(r) \/ Refuse(r) \/ Fail(r) \/ Leave(r) \/ Clean(r) \/ GoOn(r) \/ End(r)
  BY <1>3 DEF Start, Refuse, Fail, Leave, Clean, GoOn, End
<1>4. ASSUME NEW k \in retained[r], Release(r, k) \/ Released(r, k)
      PROVE  bound' = bound
  BY <1>4 DEF Release, Released
<1>5. ASSUME NEW p \in Plans, Arrive(r, p)
      PROVE  bound' = bound
  BY <1>5 DEF Arrive
<1>. QED
  BY <1>1, <1>2, <1>3, <1>4, <1>5 DEF Work

LEMMA OneSessionStep ==
  ASSUME RequestInv, NEW r \in Requests, Work(r) \/ \E p \in Plans : Arrive(r, p)
  PROVE  OneSessionPerDevice'
<1>1. OneSessionPerDevice /\ Uses(r) /\ bound \in [Sessions -> Devices \cup {None}]
  BY DEF RequestInv, Proper, RequestTypeOK
<1>2. CASE bound' = bound
  BY <1>1, <1>2 DEF OneSessionPerDevice
<1>3. ASSUME Finish(r), NEW d \in {using[r], None},
             bound' = [bound EXCEPT ![SessionOf(r)] = d], d = None \/ Op(r) = "open"
      PROVE  OneSessionPerDevice'
  <2>1. d # None => \A s \in Sessions \ {SessionOf(r)} : bound[s] # d
    BY <1>1, <1>3 DEF Finish, Uses
  <2>. QED
    BY <1>1, <1>3, <2>1 DEF OneSessionPerDevice
<1>. QED
  BY <1>2, <1>3, BoundSteps

\* While a request is at a step nobody else binds its session.
LEMMA OthersBound ==
  ASSUME RequestInv, NEW r \in Requests, NEW q \in Requests, q # r,
         Work(r) \/ \E p \in Plans : Arrive(r, p), Inside(q)
  PROVE  BoundTo(q)' = BoundTo(q)
<1>1. bound \in [Sessions -> Devices \cup {None}] /\ SessionOf(q) \in Sessions
  BY HoldsSession DEF RequestInv, RequestTypeOK
<1>2. SessionOf(q)' = SessionOf(q)
  BY OthersSame DEF RequestInv, Same, SessionOf
<1>3. CASE bound' = bound
  BY <1>2, <1>3 DEF BoundTo
<1>4. ASSUME Finish(r), NEW d, bound' = [bound EXCEPT ![SessionOf(r)] = d]
      PROVE  BoundTo(q)' = BoundTo(q)
  <2>1. pc[r] = "using" /\ Inside(r)
    BY <1>4, BodyFacts DEF Finish
  <2>2. SessionOf(q) # SessionOf(r)
    BY <2>1, SessionsExclude
  <2>. QED
    BY <1>1, <1>2, <1>4, <2>2 DEF BoundTo
<1>. QED
  BY <1>3, <1>4, BoundSteps

LEMMA OthersStep ==
  ASSUME RequestInv, NEW r \in Requests, NEW q \in Requests, q # r,
         Work(r) \/ \E p \in Plans : Arrive(r, p)
  PROVE  Proper(q)'
<1>1. Uses(q) /\ bound \in [Sessions -> Devices \cup {None}]
  BY DEF RequestInv, Proper, RequestTypeOK
<1>2. Inside(q) => BoundTo(q)' = BoundTo(q)
  BY OthersBound
<1>3. CASE bound' = bound
  BY <1>1, <1>2, <1>3, OthersProper DEF Uses
<1>4. ASSUME Finish(r), NEW d \in {using[r], None},
             bound' = [bound EXCEPT ![SessionOf(r)] = d], d = None \/ Op(r) = "open"
      PROVE  Proper(q)'
  <2>1. pc[r] = "using"
    BY <1>4 DEF Finish
  <2>2. ASSUME pc[q] = "using", Op(q) = "open", NEW s \in Sessions \ {SessionOf(q)}
        PROVE  bound'[s] # using[q]
    <3>1. bound[s] # using[q] /\ using[q] # None
      BY <1>1, <2>2 DEF Uses
    <3>2. d # using[q]
      BY <1>4, <2>1, <2>2, <3>1, OpensExclude
    <3>. QED
      BY <1>1, <1>4, <3>1, <3>2
  <2>. QED
    BY <1>2, <2>2, OthersProper
<1>. QED
  BY <1>3, <1>4, BoundSteps

LEMMA MoverStep ==
  ASSUME RequestInv, NEW r \in Requests, Work(r) \/ \E p \in Plans : Arrive(r, p)
  PROVE  Proper(r)'
BY AskStep, GotStep, AskAgainStep, RetainStep, RetainedStep, AskToOpenStep, StartStep,
   EndsEarlyStep, FinishStep, LeaveStep, CleanStep, GoOnStep, ReleaseStep, EndStep,
   ArriveStep DEF Work

LEMMA RequestInitially == Init => RequestInv
<1>. SUFFICES ASSUME Init PROVE RequestInv
  OBVIOUS
<1>1. LockInv
  BY LockInitially DEF Init
<1>2. Queues
  BY DEF Init, Queues
<1>3. RequestTypeOK
  <2>1. \A r \in Requests : ToSet(initial[r]) \cup ToSet(todo[r]) \cup ToSet(stack[r]) = {}
    BY DEF Init, ToSet
  <2>2. LockTypeOK
    BY <1>1 DEF LockInv
  <2>. QED
    BY <2>1, <2>2 DEF Init, RequestTypeOK
<1>4. ASSUME NEW r \in Requests PROVE Proper(r)
  <2>1. /\ pc[r] = "idle" /\ step[r] = 0 /\ stack[r] = <<>> /\ retained[r] = {}
        /\ using[r] = None
    BY DEF Init
  <2>2. Depth(r) = 0 /\ ~Inside(r) /\ ~Asks(r)
    BY <2>1 DEF Depth, Inside, Asks
  <2>3. Stacked(r) /\ Phase(r) /\ Holds(r)
    <3>1. Base(r) = 0
      BY DEF Init, Base
    <3>. QED
      BY <2>1, <2>2, <3>1 DEF Stacked, Phase, Holds, AsksFirst, AsksMore
  <2>4. Opens(r) /\ Uses(r) /\ Replayed(r)
    BY <2>1, <2>2 DEF Opens, Uses, Replayed, Replays, AsksMore
  <2>. QED
    BY <2>3, <2>4 DEF Proper
<1>5. OneSessionPerDevice
  BY DEF Init, OneSessionPerDevice
<1>. QED
  BY <1>1, <1>2, <1>3, <1>4, <1>5 DEF RequestInv

LEMMA RequestInvStep == RequestInv /\ [Next]_vars => RequestInv'
<1>. SUFFICES ASSUME RequestInv, [Next]_vars PROVE RequestInv'
  OBVIOUS
<1>1. LockInv'
  BY NextIsLockStep, LockStep DEF RequestInv
<1>2. RequestTypeOK' /\ Queues'
  BY <1>1, TypesStep
<1>3. ASSUME NEW r \in Requests, Work(r) \/ \E p \in Plans : Arrive(r, p)
      PROVE  (\A q \in Requests : Proper(q)') /\ OneSessionPerDevice'
  BY <1>3, MoverStep, OthersStep, OneSessionStep
<1>4. CASE UNCHANGED vars
  <2>1. ASSUME NEW r \in Requests PROVE Proper(r)'
    <3>1. Proper(r)
      BY DEF RequestInv
    <3>2. /\ UNCHANGED lockVars /\ bound' = bound /\ plan' = plan /\ pc' = pc /\ step' = step
          /\ initial' = initial /\ todo' = todo /\ stack' = stack
          /\ retained' = retained /\ using' = using
      BY <1>4 DEF vars
    <3>3. /\ Depth(r)' = Depth(r) /\ Left(r)' = Left(r)
          /\ Asks(r)' = Asks(r) /\ AsksFirst(r)' = AsksFirst(r) /\ AsksMore(r)' = AsksMore(r)
      BY <3>2 DEF Depth, Left, Asks, AsksFirst, AsksMore
    <3>4. Stacked(r)' /\ Phase(r)'
      BY <3>1, <3>2, <3>3, SameStep DEF Proper, Stacked, Phase
    <3>5. Holds(r)'
      BY <3>1, <3>2, <3>3, SameStep DEF Proper, Holds, Granted, Own, Kept, lockVars
    <3>6. Opens(r)' /\ Uses(r)' /\ Replayed(r)'
      BY <3>1, <3>2, <3>3, SameStep DEF Proper, Opens, Uses, Replayed, Named
    <3>. QED
      BY <3>4, <3>5, <3>6 DEF Proper
  <2>2. OneSessionPerDevice'
    BY <1>4 DEF vars, RequestInv, OneSessionPerDevice
  <2>. QED
    BY <1>1, <1>2, <2>1, <2>2 DEF RequestInv
<1>5. CASE Next
  BY <1>1, <1>2, <1>3, <1>5 DEF Next, RequestInv
<1>. QED
  BY <1>4, <1>5

(* The invariant of the requests and their locks: what each holds at each point, and
   which locks cover the device it works on (request-execution-locks.ts:20,
   request-router.ts:277, session-open.ts:574). *)
THEOREM RequestInvariant == Spec => []RequestInv
BY RequestInitially, RequestInvStep, PTL DEF Spec

(* Requests stay within their types: no request waits for a key that is none, loses its
   plan while it runs, or works on what is not a device (request-execution-scope.ts). *)
THEOREM RequestTypesHold == Spec => []RequestTypeOK
<1>1. RequestInv => RequestTypeOK
  BY DEF RequestInv
<1>. QED
  BY <1>1, RequestInvariant, PTL

(* Whatever keys requests choose, and however often a step asks again, they use the
   keyed lock as its callers may (request-execution-locks.ts:20): the keyed lock's
   theorems are theorems about requests. *)
THEOREM RequestsUseKeyedLock == Spec => UsesKeyedLock
<1>1. Init => LockInit
  BY DEF Init
<1>. QED
  BY <1>1, RequestInvariant, NextIsLockStep, PTL DEF Spec, UsesKeyedLock, LockSpec

(* So no two requests hold one session, device or open key at once, and no request
   holds a key twice (keyed-lock.ts:24). *)
THEOREM RequestKeysExclude == Spec => []KeyExclusive
BY RequestsUseKeyedLock, LockExcludes, PTL DEF UsesKeyedLock

(* No two sessions are bound to one device, although the device locks are chosen from a
   store that changes and some requests choose none (session-open.ts:574,766). *)
THEOREM OneSession == Spec => []OneSessionPerDevice
<1>1. RequestInv => OneSessionPerDevice
  BY DEF RequestInv
<1>. QED
  BY <1>1, RequestInvariant, PTL

-----------------------------------------------------------------------------
(* Whom a replay shares its device with *)

LEMMA HoldsNamed ==
  ASSUME RequestInv, NEW r \in Requests, Inside(r), NEW d \in Devices, Named(r, d)
  PROVE  Granted(Own(r, DeviceKey(d))) \/ Granted(Kept(r, DeviceKey(d)))
<1>1. RequestTypeOK /\ Queues /\ Stacked(r) /\ Phase(r) /\ Holds(r) /\ step[r] \in Nat /\ ~Over(r)
  BY DEF RequestInv, Proper, RequestTypeOK, Inside
<1>2. CASE DeviceKey(d) \in retained[r]
  BY <1>1, <1>2 DEF Holds
<1>3. CASE DeviceKey(d) \in ToSet(initial[r])
  <2>1. PICK i \in 1..Base(r) : initial[r][i] = DeviceKey(d)
    BY <1>1, <1>3, QueueFacts DEF ToSet, Base
  <2>2. /\ Depth(r) \in Nat /\ Base(r) \in Nat /\ Depth(r) >= Base(r)
        /\ pc[r] = "cleaning" => Depth(r) > Base(r)
    BY <1>1, QueueFacts DEF Phase, Floor, Base
  <2>3. i \in 1..Depth(r) /\ i <= Base(r) /\ ~(pc[r] = "cleaning" /\ i = Depth(r))
    BY <2>2
  <2>4. stack[r][i] = DeviceKey(d) /\ Granted(Own(r, stack[r][i]))
    BY <1>1, <2>1, <2>3 DEF Stacked, Holds
  <2>. QED
    BY <2>4
<1>. QED
  BY <1>2, <1>3 DEF Named

\* Two requests at a step have not both the lock of a device.
LEMMA NamesExclude ==
  ASSUME RequestInv, NEW r \in Requests, NEW q \in Requests, r # q, Inside(r), Inside(q),
         NEW d \in Devices, Named(r, d), Named(q, d)
  PROVE  FALSE
<1>. DEFINE k == DeviceKey(d)
<1>1. k \in Keys
  BY KeyFacts
<1>2. PICK a \in {Own(r, k), Kept(r, k)} : Granted(a)
  BY HoldsNamed
<1>3. PICK b \in {Own(q, k), Kept(q, k)} : Granted(b)
  BY HoldsNamed
<1>. HIDE DEF k
<1>4. a = b
  BY <1>1, <1>2, <1>3, AcquisitionFacts DEF RequestInv, LockInv, KeyExclusive
<1>. QED
  BY <1>2, <1>3, <1>4, AcquisitionsDiffer

LEMMA Intruders ==
  ASSUME RequestInv
  PROVE  ReplayKeepsDevice
<1>. SUFFICES ASSUME NEW r \in Requests, NEW q \in Requests, r # q, Replays(r),
                     BoundTo(r) # None, using[q] = BoundTo(r)
              PROVE  Strays(q)
  <2>1. ASSUME NEW r \in Requests, plan[r].replay, ~Over(r), step[r] > 1,
               plan[r].steps[1].op = "open"
        PROVE  Replays(r)
    BY <2>1 DEF Replays, Inside, RequestInv, RequestTypeOK
  <2>. QED
    BY <2>1 DEF ReplayKeepsDevice
<1>1. Uses(q) /\ Replayed(r) /\ RequestTypeOK /\ OneSessionPerDevice /\ Inside(r)
  BY DEF RequestInv, Proper, Replays
<1>2. pc[q] = "using"
  BY <1>1 DEF Uses
<1>3. Inside(q) /\ SessionOf(r) # SessionOf(q)
  BY <1>1, <1>2, BodyFacts, SessionsExclude
<1>4. SessionOf(r) \in Sessions /\ SessionOf(q) \in Sessions
  BY <1>1, <1>3, HoldsSession
<1>5. BoundTo(r) \in Devices /\ Named(r, BoundTo(r))
  BY <1>1, <1>4 DEF Replayed, RequestTypeOK, BoundTo
<1>6. BoundTo(q) # using[q]
  BY <1>1, <1>3, <1>4 DEF OneSessionPerDevice, BoundTo
<1>7. Op(q) # "open"
  BY <1>1, <1>2, <1>3, <1>4 DEF Uses, BoundTo
<1>8. ~Named(q, using[q])
  BY <1>1, <1>3, <1>5, NamesExclude
<1>. QED
  BY <1>6, <1>7, <1>8 DEF Strays, Named, Op

(* Once a replay has opened a device, only a command that is no open, does not go by
   its session's device and chose no key of that device may work on it as well;
   whatever goes by a session, every open, and whoever named the device is kept out
   (request-router.ts:277-279, request-binding.ts:16-91, session-device-utils.ts:42). *)
THEOREM ReplayYieldsToStraysOnly == Spec => []ReplayKeepsDevice
BY RequestInvariant, Intruders, PTL

-----------------------------------------------------------------------------
(* What is left behind, and who may wait for whom *)

\* The locks a request has asked for and not given back: those of its stack, the one it
\* waits for, and those it retains.
OwnsOnly(r) ==
    \A k \in Keys : Own(r, k) \in live =>
        \/ \E i \in 1..Depth(r) : stack[r][i] = k /\ ~(pc[r] = "cleaning" /\ i = Depth(r))
        \/ pc[r] = "waiting" /\ k = todo[r][1]

KeepsOnly(r) ==
    \A k \in Keys : Kept(r, k) \in live =>
        \/ k \in retained[r] /\ ahead[Kept(r, k)] = None
        \/ pc[r] = "retaining" /\ k = DeviceKey(OpenDevice(r))

\* What it asks for when it already has something.
AsksFor(r) ==
    /\ step[r] = 0 => retained[r] = {}
    /\ AsksMore(r) /\ Op(r) = "full" => todo[r][1] \in DeviceKeys
    /\ pc[r] = "retaining" => plan[r].replay

Accounted(r) == OwnsOnly(r) /\ KeepsOnly(r) /\ AsksFor(r)

AccountedInv == \A r \in Requests : Accounted(r)

\* What a call of the keyed lock does to the acquisitions.
LEMMA LockEffects ==
  ASSUME LockInv, NEW a \in Acquisitions
  PROVE  /\ Enqueue(a) => /\ live' = live \cup {a}
                          /\ \A b \in Acquisitions \ {a} : ahead'[b] = ahead[b]
         /\ Settle(a) => /\ live' = live \ {a}
                         /\ \A b \in Acquisitions : ahead[b] = None => ahead'[b] = None
         /\ Cleanup(a) => live' = live /\ ahead' = ahead
<1>. USE DEF LockInv, LockTypeOK
<1>1. CASE Enqueue(a)
  BY <1>1 DEF Enqueue, Settle, Cleanup, Granted
<1>2. CASE Settle(a)
  BY <1>2, NoneAssumption DEF Enqueue, Settle, Cleanup, Granted
<1>3. CASE Cleanup(a)
  BY <1>3 DEF Enqueue, Settle, Cleanup, Granted
<1>. QED
  BY <1>1, <1>2, <1>3

\* A request that calls no lock and moves no key has what it had.
LEMMA CalmStep ==
  ASSUME NEW r \in Requests, OwnsOnly(r), KeepsOnly(r), UNCHANGED lockVars,
         stack'[r] = stack[r], retained'[r] = retained[r],
         pc[r] \notin {"waiting", "retaining", "cleaning"}, pc'[r] # "cleaning"
  PROVE  OwnsOnly(r)' /\ KeepsOnly(r)'
<1>1. Depth(r)' = Depth(r)
  BY DEF Depth
<1>2. live' = live /\ ahead' = ahead
  BY DEF lockVars
<1>3. OwnsOnly(r)'
  BY <1>1, <1>2 DEF OwnsOnly, Own
<1>4. KeepsOnly(r)'
  BY <1>2 DEF KeepsOnly, Kept
<1>. QED
  BY <1>3, <1>4

LEMMA CalmSteps ==
  ASSUME RequestInv, NEW r \in Requests, Accounted(r),
         \/ AskAgain(r) \/ AskToOpen(r) \/ Start(r) \/ Refuse(r) \/ Finish(r) \/ Fail(r)
         \/ GoOn(r) \/ End(r) \/ \E p \in Plans : Arrive(r, p)
  PROVE  OwnsOnly(r)' /\ KeepsOnly(r)'
<1>1. RequestTypeOK /\ Queues
  BY DEF RequestInv
<1>2. UNCHANGED lockVars /\ stack'[r] = stack[r] /\ retained'[r] = retained[r]
  <2>1. CASE AskAgain(r) \/ AskToOpen(r) \/ Start(r) \/ Refuse(r)
    BY <2>1 DEF AskAgain, AskToOpen, Start, Refuse
  <2>2. CASE Finish(r) \/ Fail(r) \/ GoOn(r) \/ End(r) \/ \E p \in Plans : Arrive(r, p)
    BY <2>2 DEF Finish, Fail, GoOn, End, Arrive
  <2>. QED
    BY <2>1, <2>2
<1>3. pc[r] \in {"body", "ready", "using", "leaving", "idle"}
  BY DEF AskAgain, AskToOpen, Start, Refuse, Finish, Fail, GoOn, End, Arrive,
         MayStart, AtOpen
<1>4. pc'[r] \in {"asking", "ready", "using", "leaving", "body", "idle"}
  <2>1. CASE AskAgain(r) \/ AskToOpen(r) \/ Start(r) \/ Refuse(r)
    BY <1>1, <2>1 DEF AskAgain, AskToOpen, Start, Refuse, RequestTypeOK
  <2>2. CASE Finish(r) \/ Fail(r) \/ GoOn(r) \/ End(r) \/ \E p \in Plans : Arrive(r, p)
    BY <1>1, <2>2 DEF Finish, Fail, GoOn, End, Arrive, RequestTypeOK
  <2>. QED
    BY <2>1, <2>2
<1>. QED
  BY <1>2, <1>3, <1>4, CalmStep DEF Accounted

\* Asking for the next key, and getting it.
LEMMA AskGotAccounted ==
  ASSUME RequestInv, NEW r \in Requests, Accounted(r), Ask(r) \/ Got(r)
  PROVE  OwnsOnly(r)' /\ KeepsOnly(r)'
<1>. DEFINE t == todo[r][1]
<1>1. LockInv /\ RequestTypeOK /\ Queues /\ Phase(r) /\ step[r] \in Nat
  BY DEF RequestInv, Proper, RequestTypeOK
<1>2. Asks(r) /\ Head(todo[r]) = t /\ t \in Keys /\ Depth(r) \in Nat
  BY <1>1, TodoFacts, QueueFacts DEF Ask, Got, Asks
<1>3. Own(r, t) \in Acquisitions
  BY <1>2, AcquisitionFacts
<1>4. retained'[r] = retained[r] /\ pc[r] # "retaining" /\ pc[r] # "cleaning"
  BY DEF Ask, Got
<1>5. CASE Ask(r)
  <2>1. /\ Enqueue(Own(r, t)) /\ pc'[r] = "waiting" /\ stack'[r] = stack[r]
        /\ todo'[r] = todo[r]
    BY <1>1, <1>2, <1>5 DEF Ask, RequestTypeOK
  <2>2. /\ live' = live \cup {Own(r, t)}
        /\ \A b \in Acquisitions \ {Own(r, t)} : ahead'[b] = ahead[b]
    BY <1>1, <1>3, <2>1, LockEffects
  <2>3. Depth(r)' = Depth(r)
    BY <2>1 DEF Depth
  <2>4. OwnsOnly(r)'
    <3>1. ASSUME NEW k \in Keys, Own(r, k) \in live'
          PROVE  k = t \/ \E i \in 1..Depth(r) : stack[r][i] = k
      BY <1>4, <1>5, <2>2, <3>1, AcquisitionsDiffer DEF Accounted, OwnsOnly, Ask
    <3>. QED
      BY <2>1, <2>3, <3>1 DEF OwnsOnly, Own
  <2>5. KeepsOnly(r)'
    <3>1. ASSUME NEW k \in Keys, Kept(r, k) \in live'
          PROVE  k \in retained[r] /\ ahead'[Kept(r, k)] = None
      BY <1>4, <2>2, <3>1, AcquisitionsDiffer, AcquisitionFacts DEF Accounted, KeepsOnly
    <3>. QED
      BY <1>4, <3>1 DEF KeepsOnly, Kept
  <2>. QED
    BY <2>4, <2>5
<1>6. CASE Got(r)
  <2>1. live' = live /\ ahead' = ahead
    BY <1>6 DEF Got, lockVars
  <2>2. stack'[r] = Append(stack[r], t) /\ pc'[r] \in {"asking", "body", "ready"}
    BY <1>1, <1>2, <1>6 DEF Got, RequestTypeOK, Queues
  <2>. HIDE DEF t
  <2>3. /\ Depth(r)' = Depth(r) + 1 /\ stack'[r][Depth(r) + 1] = t
        /\ \A i \in 1..Depth(r) : stack'[r][i] = stack[r][i]
    BY <1>1, <1>2, <2>2 DEF Depth, Queues
  <2>4. OwnsOnly(r)'
    <3>1. ASSUME NEW k \in Keys, Own(r, k) \in live
          PROVE  \E i \in 1..Depth(r) + 1 : stack'[r][i] = k
      <4>1. CASE k = t
        BY <1>2, <2>3, <4>1
      <4>2. CASE k # t
        <5>1. PICK i \in 1..Depth(r) : stack[r][i] = k
          BY <3>1, <4>2 DEF Accounted, OwnsOnly, t
        <5>2. i \in 1..Depth(r) + 1
          BY <1>2
        <5>. QED
          BY <2>3, <5>1, <5>2
      <4>. QED
        BY <4>1, <4>2
    <3>. QED
      BY <2>1, <2>2, <2>3, <3>1 DEF OwnsOnly, Own
  <2>5. KeepsOnly(r)'
    BY <1>4, <2>1 DEF Accounted, KeepsOnly, Kept
  <2>. QED
    BY <2>4, <2>5
<1>. QED
  BY <1>5, <1>6

\* Retaining a device, and having it retained.
LEMMA RetainAccounted ==
  ASSUME RequestInv, NEW r \in Requests, Accounted(r), Retain(r) \/ Retained(r)
  PROVE  OwnsOnly(r)' /\ KeepsOnly(r)'
<1>. DEFINE e == DeviceKey(OpenDevice(r))
<1>1. LockInv /\ RequestTypeOK /\ Queues
  BY DEF RequestInv
<1>2. /\ pc[r] \in {"body", "retaining"} /\ Op(r) = "open" /\ bound' = bound
      /\ plan'[r] = plan[r] /\ step'[r] = step[r] /\ initial'[r] = initial[r]
      /\ stack'[r] = stack[r] /\ pc'[r] \in {"body", "retaining"}
  <2>1. Opens(r)
    BY DEF RequestInv, Proper
  <2>. QED
    BY <1>1, <2>1 DEF Retain, Retained, AtOpen, Op, RequestTypeOK, Opens
<1>3. e \in Keys
  BY <1>2, BodyFacts, KeyFacts
<1>4. Kept(r, e) \in Acquisitions
  BY <1>3, AcquisitionFacts
<1>5. Depth(r)' = Depth(r) /\ e' = e
  BY <1>2, SameStep DEF Depth, OpenDevice, DeviceKey
<1>. HIDE DEF e
<1>6. CASE Retain(r)
  <2>1. Enqueue(Kept(r, e)) /\ pc[r] = "body" /\ pc'[r] = "retaining"
        /\ retained'[r] = retained[r]
    BY <1>1, <1>6 DEF Retain, RequestTypeOK, AtOpen, e
  <2>2. /\ live' = live \cup {Kept(r, e)}
        /\ \A b \in Acquisitions \ {Kept(r, e)} : ahead'[b] = ahead[b]
    BY <1>1, <1>4, <2>1, LockEffects
  <2>3. OwnsOnly(r)'
    <3>1. \A k \in Keys : Own(r, k) \in live' => Own(r, k) \in live
      BY <2>2, AcquisitionsDiffer
    <3>. QED
      BY <1>2, <1>5, <2>1, <3>1 DEF Accounted, OwnsOnly, Own
  <2>4. KeepsOnly(r)'
    <3>1. ASSUME NEW k \in Keys, Kept(r, k) \in live'
          PROVE  \/ k \in retained[r] /\ ahead'[Kept(r, k)] = None
                 \/ k = e
      BY <2>1, <2>2, <3>1, AcquisitionsDiffer, AcquisitionFacts DEF Accounted, KeepsOnly
    <3>. QED
      BY <1>5, <2>1, <3>1 DEF KeepsOnly, Kept, e
  <2>. QED
    BY <2>3, <2>4
<1>7. CASE Retained(r)
  <2>1. /\ live' = live /\ ahead' = ahead /\ pc[r] = "retaining" /\ pc'[r] = "body"
        /\ Granted(Kept(r, e)) /\ retained'[r] = retained[r] \cup {e}
    BY <1>1, <1>7 DEF Retained, lockVars, RequestTypeOK, Queues, e
  <2>2. OwnsOnly(r)'
    BY <1>2, <1>5, <2>1 DEF Accounted, OwnsOnly, Own
  <2>3. KeepsOnly(r)'
    BY <2>1 DEF Accounted, KeepsOnly, Kept, Granted, e
  <2>. QED
    BY <2>2, <2>3
<1>. QED
  BY <1>6, <1>7

\* Giving the innermost key back, and cleaning up behind it.
LEMMA LeaveAccounted ==
  ASSUME RequestInv, NEW r \in Requests, Accounted(r), Leave(r) \/ Clean(r)
  PROVE  OwnsOnly(r)' /\ KeepsOnly(r)'
<1>. DEFINE t == Last(stack[r])
            n == Depth(r)
<1>1. LockInv /\ RequestTypeOK /\ Queues /\ Phase(r)
  BY DEF RequestInv, Proper
<1>2. n \in Nat /\ n > 0
  <2>1. n \in Nat /\ Floor(r) \in Nat /\ n > Floor(r)
    BY <1>1, QueueFacts DEF Leave, Clean, Floor, Phase, Depth, Base
  <2>. QED
    BY <2>1
<1>3. t = stack[r][n] /\ t \in Keys /\ Own(r, t) \in Acquisitions /\ stack[r] \in Seq(Keys)
  BY <1>1, <1>2, QueueFacts, AcquisitionFacts
<1>4. retained'[r] = retained[r] /\ pc[r] # "retaining" /\ pc[r] # "waiting"
  BY DEF Leave, Clean
<1>. HIDE DEF t
<1>5. CASE Leave(r)
  <2>1. /\ Settle(Own(r, t)) /\ pc[r] = "leaving" /\ pc'[r] = "cleaning"
        /\ stack'[r] = stack[r]
    BY <1>1, <1>5 DEF Leave, RequestTypeOK, t
  <2>2. /\ live' = live \ {Own(r, t)}
        /\ \A b \in Acquisitions : ahead[b] = None => ahead'[b] = None
    BY <1>1, <1>3, <2>1, LockEffects
  <2>3. n' = n
    BY <2>1 DEF Depth
  <2>4. OwnsOnly(r)'
    <3>1. ASSUME NEW k \in Keys, Own(r, k) \in live'
          PROVE  \E i \in 1..n : stack[r][i] = k /\ i # n
      BY <1>3, <1>4, <2>2, <3>1 DEF Accounted, OwnsOnly
    <3>. QED
      BY <2>1, <2>3, <3>1 DEF OwnsOnly, Own
  <2>5. KeepsOnly(r)'
    <3>1. ASSUME NEW k \in Keys, Kept(r, k) \in live'
          PROVE  k \in retained[r] /\ ahead'[Kept(r, k)] = None
      BY <1>4, <2>2, <3>1, AcquisitionFacts DEF Accounted, KeepsOnly
    <3>. QED
      BY <1>4, <3>1 DEF KeepsOnly, Kept
  <2>. QED
    BY <2>4, <2>5
<1>6. CASE Clean(r)
  <2>1. /\ Cleanup(Own(r, t)) /\ pc[r] = "cleaning" /\ pc'[r] = "leaving"
        /\ stack'[r] = Front(stack[r])
    BY <1>1, <1>6 DEF Clean, RequestTypeOK, Queues, t
  <2>2. live' = live /\ ahead' = ahead
    BY <1>1, <1>3, <2>1, LockEffects
  <2>3. Len(stack[r]) > 0
    BY <1>2 DEF Depth
  <2>4. n' \in Nat /\ n = n' + 1 /\ \A i \in 1..n' : stack'[r][i] = stack[r][i]
    BY <1>3, <2>1, <2>3, FrontFacts DEF Depth
  <2>5. OwnsOnly(r)'
    <3>1. ASSUME NEW k \in Keys, Own(r, k) \in live
          PROVE  \E i \in 1..n' : stack'[r][i] = k
      <4>1. PICK i \in 1..n : stack[r][i] = k /\ i # n
        BY <2>1, <3>1 DEF Accounted, OwnsOnly
      <4>2. i \in 1..n'
        BY <1>2, <2>4, <4>1
      <4>. QED
        BY <2>4, <4>1, <4>2
    <3>. QED
      BY <2>1, <2>2, <3>1 DEF OwnsOnly, Own
  <2>6. KeepsOnly(r)'
    BY <1>4, <2>2 DEF Accounted, KeepsOnly, Kept
  <2>. QED
    BY <2>5, <2>6
<1>. QED
  BY <1>5, <1>6

\* Giving a retained device back, and cleaning up behind it.
LEMMA ReleaseAccounted ==
  ASSUME RequestInv, NEW r \in Requests, Accounted(r), NEW j \in retained[r],
         Release(r, j) \/ Released(r, j)
  PROVE  OwnsOnly(r)' /\ KeepsOnly(r)'
<1>1. LockInv /\ RequestTypeOK /\ Queues
  BY DEF RequestInv
<1>2. j \in Keys /\ Kept(r, j) \in Acquisitions
  BY <1>1, QueueFacts, AcquisitionFacts
<1>3. /\ pc[r] \in {"leaving", "releasing"} /\ pc'[r] \in {"leaving", "releasing"}
      /\ stack'[r] = stack[r]
  BY <1>1 DEF Release, Released, RequestTypeOK
<1>4. Depth(r)' = Depth(r)
  BY <1>3 DEF Depth
<1>5. /\ live' \subseteq live /\ Kept(r, j) \notin live'
      /\ \A b \in Acquisitions : ahead[b] = None => ahead'[b] = None
      /\ \A k \in Keys : k \in retained[r] /\ k # j => k \in retained'[r]
      /\ Kept(r, j) \in live => retained'[r] = retained[r]
  <2>1. CASE Release(r, j)
    BY <1>1, <1>2, <2>1, LockEffects DEF Release
  <2>2. CASE Released(r, j)
    <3>1. Cleanup(Kept(r, j)) /\ retained'[r] = retained[r] \ {j}
      BY <1>1, <2>2 DEF Released, Queues
    <3>. QED
      BY <1>1, <1>2, <3>1, LockEffects DEF Cleanup
  <2>. QED
    BY <2>1, <2>2
<1>6. OwnsOnly(r)'
  BY <1>3, <1>4, <1>5 DEF Accounted, OwnsOnly, Own
<1>7. KeepsOnly(r)'
  <2>1. ASSUME NEW k \in Keys, Kept(r, k) \in live'
        PROVE  k \in retained'[r] /\ ahead'[Kept(r, k)] = None
    BY <1>3, <1>5, <2>1, AcquisitionFacts DEF Accounted, KeepsOnly
  <2>. QED
    BY <2>1 DEF KeepsOnly, Kept
<1>. QED
  BY <1>6, <1>7

\* A step asks for a device or an open key, and only a replay's retains.
LEMMA AsksForStep ==
  ASSUME RequestInv, NEW r \in Requests, Accounted(r),
         Work(r) \/ \E p \in Plans : Arrive(r, p)
  PROVE  AsksFor(r)'
<1>1. /\ RequestTypeOK /\ Queues /\ Stacked(r) /\ Phase(r) /\ AsksFor(r) /\ step[r] \in Nat
      /\ Base(r) \in Nat /\ Depth(r) \in Nat
  BY QueueFacts DEF RequestInv, Proper, Accounted, RequestTypeOK
<1>2. CASE Ask(r)
  <2>1. /\ pc[r] = "asking" /\ pc'[r] = "waiting" /\ bound' = bound
        /\ plan'[r] = plan[r] /\ step'[r] = step[r] /\ initial'[r] = initial[r]
        /\ todo'[r] = todo[r] /\ retained'[r] = retained[r]
    BY <1>1, <1>2 DEF Ask, RequestTypeOK
  <2>2. AsksMore(r)' = AsksMore(r) /\ Op(r)' = Op(r)
    BY <2>1, SameStep DEF AsksMore, Asks
  <2>. QED
    BY <1>1, <2>1, <2>2 DEF AsksFor
<1>3. CASE Got(r)
  <2>1. /\ retained'[r] = retained[r] /\ pc'[r] \in {"asking", "body", "ready"}
        /\ step'[r] = 0 => step[r] = 0
        /\ pc'[r] = "asking" => Left(r) > 1 /\ step'[r] = step[r]
        /\ pc[r] = "waiting"
    BY <1>1, <1>3 DEF Got, RequestTypeOK, Left
  <2>2. ~AsksMore(r)'
    BY <1>1, <2>1 DEF AsksMore, Asks, Phase
  <2>. QED
    BY <1>1, <2>1, <2>2 DEF AsksFor
<1>4. CASE AskAgain(r)
  <2>. DEFINE key == Last(KeysFor(SessionOf(r), None))
  <2>1. /\ pc[r] = "body" /\ Inside(r) /\ retained'[r] = retained[r] /\ step'[r] = step[r]
        /\ pc'[r] \in {"asking", "ready"} /\ FirstKeys(r) /\ Depth(r) = Base(r)
        /\ SessionOf(r) \in Sessions
    BY <1>1, <1>4, BodyFacts DEF AskAgain, RequestTypeOK
  <2>2. stack[r][1] = SessionKey(SessionOf(r)) /\ 1 \in 1..Depth(r)
    BY <1>1, <2>1 DEF Stacked, FirstKeys
  <2>3. SessionKey(SessionOf(r)) \in ToSet(stack[r])
    BY <1>1, <2>2, QueueFacts DEF ToSet, Depth
  <2>4. key = SessionKey(SessionOf(r)) \/ key \in DeviceKeys
    <3>1. CASE BoundTo(r) = None
      BY <3>1 DEF KeysFor, BoundTo, Last
    <3>2. CASE BoundTo(r) # None
      <4>1. BoundTo(r) \in Devices
        BY <1>1, <2>1, <3>2 DEF BoundTo, RequestTypeOK
      <4>2. key = DeviceKey(BoundTo(r))
        BY <3>2 DEF KeysFor, BoundTo, Last
      <4>. QED
        BY <4>1, <4>2 DEF DeviceKeys
    <3>. QED
      BY <3>1, <3>2
  <2>5. pc'[r] = "asking" => key \notin ToSet(stack[r]) /\ todo'[r] = <<key>>
    BY <1>1, <1>4 DEF AskAgain, RequestTypeOK, Queues
  <2>. HIDE DEF key
  <2>6. pc'[r] = "asking" => todo'[r][1] \in DeviceKeys
    BY <2>3, <2>4, <2>5
  <2>. QED
    BY <1>1, <2>1, <2>6 DEF AsksFor, AsksMore, Asks
<1>5. CASE Retain(r) \/ Retained(r)
  <2>1. /\ pc[r] \in {"body", "retaining"} /\ step'[r] = step[r] /\ plan'[r] = plan[r]
        /\ pc'[r] \in {"body", "retaining"}
        /\ pc'[r] = "retaining" => plan[r].replay
    BY <1>1, <1>5 DEF Retain, Retained, AtOpen, MustRetain, RequestTypeOK
  <2>2. step[r] # 0
    BY <1>1, <2>1, BodyFacts
  <2>. QED
    BY <2>1, <2>2 DEF AsksFor, AsksMore, Asks
<1>6. CASE AskToOpen(r)
  <2>1. /\ pc[r] = "body" /\ Op(r) = "open" /\ bound' = bound /\ pc'[r] = "asking"
        /\ plan'[r] = plan[r] /\ step'[r] = step[r] /\ initial'[r] = initial[r]
        /\ retained'[r] = retained[r]
    BY <1>1, <1>6 DEF AskToOpen, AtOpen, Op, RequestTypeOK
  <2>2. Op(r)' = Op(r)
    BY <2>1, SameStep
  <2>. QED
    BY <1>1, <2>1, <2>2 DEF AsksFor
<1>7. CASE Start(r) \/ Refuse(r) \/ Finish(r) \/ Fail(r)
  <2>1. pc[r] \in {"body", "ready", "using"}
    BY <1>7 DEF Start, Refuse, Finish, Fail, MayStart, AtOpen
  <2>2. step[r] > 0 /\ Len(plan[r].steps) \in Nat
    BY <2>1, BodyFacts, PlanFacts
  <2>3. pc'[r] \in {"using", "leaving"} /\ step'[r] \in {step[r], step[r] + 1, Len(plan[r].steps) + 1}
    BY <1>1, <1>7 DEF Start, Refuse, Finish, Fail, RequestTypeOK
  <2>. QED
    BY <1>1, <2>2, <2>3 DEF AsksFor, AsksMore, Asks
<1>8. CASE Leave(r) \/ Clean(r) \/ GoOn(r)
  <2>1. /\ pc'[r] \in {"leaving", "cleaning", "body"} /\ step'[r] = step[r]
        /\ retained'[r] = retained[r]
    BY <1>1, <1>8 DEF Leave, Clean, GoOn, RequestTypeOK
  <2>. QED
    BY <1>1, <2>1 DEF AsksFor, AsksMore, Asks
<1>9. ASSUME NEW j \in retained[r], Release(r, j) \/ Released(r, j)
      PROVE  AsksFor(r)'
  <2>1. /\ pc'[r] \in {"leaving", "releasing"} /\ step'[r] = step[r]
        /\ retained'[r] \subseteq retained[r]
    BY <1>1, <1>9 DEF Release, Released, RequestTypeOK, Queues
  <2>. QED
    BY <1>1, <2>1 DEF AsksFor, AsksMore, Asks
<1>10. CASE End(r)
  <2>1. pc'[r] = "idle" /\ retained'[r] = {}
    BY <1>1, <1>10 DEF End, RequestTypeOK
  <2>. QED
    BY <2>1 DEF AsksFor, AsksMore, Asks
<1>11. ASSUME NEW p \in Plans, Arrive(r, p)
       PROVE  AsksFor(r)'
  <2>1. pc[r] = "idle" /\ pc'[r] = "asking" /\ step'[r] = step[r] /\ retained'[r] = retained[r]
    BY <1>1, <1>11 DEF Arrive, RequestTypeOK
  <2>. QED
    BY <1>1, <2>1 DEF AsksFor, AsksMore, Phase
<1>. QED
  BY <1>2, <1>3, <1>4, <1>5, <1>6, <1>7, <1>8, <1>9, <1>10, <1>11 DEF Work

\* What another request asks the lock to do leaves its locks alone.
LEMMA OthersAccounted ==
  ASSUME RequestInv, NEW r \in Requests, NEW q \in Requests, q # r, Accounted(q),
         Work(r) \/ \E p \in Plans : Arrive(r, p)
  PROVE  Accounted(q)'
<1>1. Same(q) /\ pc[q] = "retaining" => OpenDevice(q)' = OpenDevice(q)
  <2>1. ASSUME Same(q), pc[q] = "retaining"
        PROVE  OpenDevice(q)' = OpenDevice(q)
    <3>1. BoundTo(q)' = BoundTo(q)
      BY <2>1, BodyFacts, OthersBound
    <3>. QED
      BY <2>1, <3>1 DEF OpenDevice, Same, StepOf
  <2>. QED
    BY <2>1
<1>2. Same(q) /\ LockInv
  BY OthersSame DEF RequestInv
<1>3. ASSUME NEW k \in Keys, NEW b \in {Own(q, k), Kept(q, k)}
      PROVE  /\ b \in live' => b \in live
             /\ ahead[b] = None => ahead'[b] = None
  <2>1. b \in Acquisitions /\ \A j \in Keys : b # Own(r, j) /\ b # Kept(r, j)
    BY <1>3, AcquisitionFacts, AcquisitionsDiffer
  <2>2. ASSUME NEW a \in Acquisitions, a # b, Enqueue(a) \/ Settle(a) \/ Cleanup(a)
        PROVE  (b \in live' => b \in live) /\ (ahead[b] = None => ahead'[b] = None)
    BY <1>2, <2>1, <2>2, LockEffects
  <2>3. \/ UNCHANGED lockVars
        \/ \E a \in Acquisitions : a # b /\ (Enqueue(a) \/ Settle(a) \/ Cleanup(a))
    <3>1. CASE Work(r)
      <4>1. \/ UNCHANGED lockVars
            \/ \E k1 \in Keys : Enqueue(Own(r, k1)) \/ Settle(Own(r, k1)) \/ Cleanup(Own(r, k1))
            \/ \E k1 \in Keys : Enqueue(Kept(r, k1)) \/ Settle(Kept(r, k1)) \/ Cleanup(Kept(r, k1))
        BY <3>1, LockCalls DEF RequestInv
      <4>. QED
        BY <2>1, <4>1, AcquisitionFacts, Zenon
    <3>2. CASE \E p \in Plans : Arrive(r, p)
      BY <3>2 DEF Arrive
    <3>. QED
      BY <3>1, <3>2
  <2>. QED
    BY <2>2, <2>3 DEF lockVars
<1>4. Depth(q)' = Depth(q)
  BY <1>2 DEF Same, Depth
<1>5. OwnsOnly(q)'
  <2>1. \A k \in Keys : Own(q, k) \in live' => Own(q, k) \in live
    BY <1>3
  <2>. QED
    BY <1>2, <1>4, <2>1 DEF Accounted, OwnsOnly, Own, Same
<1>6. KeepsOnly(q)'
  <2>1. ASSUME NEW k \in Keys, Kept(q, k) \in live'
        PROVE  \/ k \in retained[q] /\ ahead'[Kept(q, k)] = None
               \/ pc[q] = "retaining" /\ k = DeviceKey(OpenDevice(q))
    BY <1>3, <2>1 DEF Accounted, KeepsOnly
  <2>. QED
    BY <1>1, <1>2, <2>1 DEF KeepsOnly, Kept, Same, DeviceKey
<1>7. AsksFor(q)'
  BY <1>2 DEF Accounted, AsksFor, AsksMore, Asks, Op, StepOf, Same
<1>. QED
  BY <1>5, <1>6, <1>7 DEF Accounted

LEMMA AccountedStep ==
  ASSUME RequestInv, AccountedInv, [Next]_vars
  PROVE  AccountedInv'
<1>1. ASSUME NEW r \in Requests, Work(r) \/ \E p \in Plans : Arrive(r, p)
      PROVE  AccountedInv'
  <2>1. Accounted(r)
    BY DEF AccountedInv
  <2>2. OwnsOnly(r)' /\ KeepsOnly(r)'
    BY <1>1, <2>1, CalmSteps, AskGotAccounted, RetainAccounted, LeaveAccounted,
       ReleaseAccounted DEF Work
  <2>3. Accounted(r)'
    BY <1>1, <2>1, <2>2, AsksForStep DEF Accounted
  <2>. QED
    BY <1>1, <2>3, OthersAccounted DEF AccountedInv
<1>2. CASE UNCHANGED vars
  <2>1. ASSUME NEW r \in Requests PROVE Accounted(r)'
    <3>1. Accounted(r) /\ UNCHANGED vars
      BY <1>2 DEF AccountedInv
    <3>2. live' = live /\ ahead' = ahead /\ pc' = pc /\ stack' = stack /\ todo' = todo
          /\ retained' = retained /\ step' = step /\ plan' = plan /\ bound' = bound
      BY <1>2 DEF vars, lockVars
    <3>3. OwnsOnly(r)'
      BY <3>1, <3>2 DEF Accounted, OwnsOnly, Own, Depth
    <3>4. KeepsOnly(r)'
      BY <3>1, <3>2 DEF Accounted, KeepsOnly, Kept, DeviceKey, OpenDevice, BoundTo, SessionOf, StepOf
    <3>5. AsksFor(r)'
      BY <3>1, <3>2 DEF Accounted, AsksFor, AsksMore, Asks, Op, StepOf
    <3>. QED
      BY <3>3, <3>4, <3>5 DEF Accounted
  <2>. QED
    BY <2>1 DEF AccountedInv
<1>. QED
  BY <1>1, <1>2 DEF Next

LEMMA AccountedInitially ==
  ASSUME Init
  PROVE  AccountedInv
<1>1. live = {} /\ \A r \in Requests : pc[r] = "idle" /\ retained[r] = {}
  BY DEF Init, LockInit
<1>. QED
  BY <1>1 DEF AccountedInv, Accounted, OwnsOnly, KeepsOnly, AsksFor, AsksMore, Asks

LEMMA AccountedAlways == Spec => []AccountedInv
<1>1. RequestInv /\ AccountedInv /\ [Next]_vars => AccountedInv'
  BY AccountedStep
<1>. QED
  BY <1>1, AccountedInitially, RequestInvariant, PTL DEF Spec

\* An answered request has no lock, and asks for none.
NothingLeft ==
    \A r \in Requests : pc[r] = "idle" =>
        \A k \in Keys : Own(r, k) \notin live /\ Kept(r, k) \notin live

(* Every lock a request took or asked for is given back by the time it is answered, the
   retained ones too, whichever step failed (request-execution-locks.ts:29-49,76). *)
THEOREM NothingLeftBehind == Spec => []NothingLeft
<1>1. RequestInv /\ AccountedInv => NothingLeft
  <2>. SUFFICES ASSUME RequestInv, AccountedInv, NEW r \in Requests, pc[r] = "idle",
                       NEW k \in Keys
                PROVE  Own(r, k) \notin live /\ Kept(r, k) \notin live
    BY DEF NothingLeft
  <2>1. Accounted(r) /\ Depth(r) = 0 /\ retained[r] = {}
    BY DEF RequestInv, Proper, Phase, AccountedInv
  <2>. QED
    BY <2>1 DEF Accounted, OwnsOnly, KeepsOnly
<1>. QED
  BY <1>1, RequestInvariant, AccountedAlways, PTL

\* What a request holds, in its own context or retained, and what it waits for.
HasKey(r, k) == Granted(Own(r, k)) \/ Granted(Kept(r, k))
Awaits(r, k) == \E a \in {Own(r, k), Kept(r, k)} : a \in live /\ ahead[a] # None

SessionKeys == {SessionKey(s) : s \in Sessions}

\* A request waits for its first keys, for what its step asks, or to retain.
LEMMA WaitFacts ==
  ASSUME RequestInv, AccountedInv, NEW r \in Requests, NEW k \in Keys, Awaits(r, k)
  PROVE  \/ /\ pc[r] = "waiting" /\ AsksFirst(r) /\ k = todo[r][1] /\ retained[r] = {}
            /\ \/ Depth(r) = 0
               \/ /\ Depth(r) = 1 /\ k \in DeviceKeys
                  /\ stack[r][1] = SessionKey(SessionOf(r))
         \/ /\ pc[r] = "waiting" /\ AsksMore(r) /\ k = todo[r][1] /\ Depth(r) = Base(r)
            /\ \/ Op(r) = "open" /\ \E d \in Devices : k = OpenKey(d)
               \/ Op(r) = "full" /\ k \in DeviceKeys
         \/ /\ pc[r] = "retaining" /\ plan[r].replay /\ k \in DeviceKeys
            /\ k = DeviceKey(OpenDevice(r)) /\ Depth(r) = Base(r)
<1>1. /\ RequestTypeOK /\ Queues /\ Stacked(r) /\ Phase(r) /\ Holds(r) /\ Opens(r)
      /\ OwnsOnly(r) /\ KeepsOnly(r) /\ AsksFor(r) /\ step[r] \in Nat
      /\ Depth(r) \in Nat /\ Base(r) \in Nat /\ Left(r) \in Nat
  BY QueueFacts DEF RequestInv, Proper, AccountedInv, Accounted, RequestTypeOK
<1>2. CASE Kept(r, k) \in live /\ ahead[Kept(r, k)] # None
  <2>1. pc[r] = "retaining" /\ k = DeviceKey(OpenDevice(r))
    BY <1>1, <1>2 DEF KeepsOnly
  <2>2. OpenDevice(r) \in Devices
    BY <1>1, <2>1, BodyFacts DEF Opens
  <2>. QED
    BY <1>1, <2>1, <2>2 DEF AsksFor, Phase, DeviceKeys
<1>3. CASE Own(r, k) \in live /\ ahead[Own(r, k)] # None
  <2>1. pc[r] = "waiting" /\ k = todo[r][1]
    BY <1>1, <1>3 DEF OwnsOnly, Holds, Granted
  <2>2. CASE step[r] = 0
    <3>1. /\ AsksFirst(r) /\ Left(r) > 0 /\ Depth(r) + Left(r) = Base(r)
          /\ k = initial[r][Depth(r) + 1] /\ FirstKeys(r) /\ retained[r] = {}
      BY <1>1, <2>1, <2>2 DEF AsksFirst, Asks, Phase, AsksFor
    <3>2. Depth(r) = 0 \/ (Depth(r) = 1 /\ Base(r) = 2)
      BY <1>1, <3>1 DEF FirstKeys
    <3>3. Depth(r) = 1 => stack[r][1] = SessionKey(SessionOf(r)) /\ k \in DeviceKeys
      BY <1>1, <3>1, <3>2 DEF FirstKeys, Stacked, DeviceKeys
    <3>. QED
      BY <2>1, <3>1, <3>2, <3>3
  <2>3. CASE step[r] > 0
    <3>1. AsksMore(r)
      BY <2>1, <2>3 DEF AsksMore, Asks
    <3>2. Depth(r) = Base(r) /\ Op(r) \in {"open", "full"}
      BY <1>1, <3>1 DEF Phase, Opens
    <3>3. Op(r) = "full" => k \in DeviceKeys
      BY <1>1, <2>1, <3>1 DEF AsksFor
    <3>4. Op(r) = "open" => \E d \in Devices : k = OpenKey(d)
      <4>1. pc[r] # "idle" /\ Inside(r)
        BY <1>1, <2>1, <2>3 DEF Phase, Inside
      <4>. QED
        BY <1>1, <2>1, <3>1, <4>1, StepFacts DEF Opens
    <3>. QED
      BY <2>1, <3>1, <3>2, <3>3, <3>4
  <2>. QED
    BY <1>1, <2>2, <2>3
<1>. QED
  BY <1>2, <1>3 DEF Awaits

\* Keys are taken in levels: who waits with a key in hand has no open key, and waits for
\* no session; if it waits for a device with a device in hand, it is a replay, or at a
\* step that takes the full request path.
LEMMA HoldAndWait ==
  ASSUME RequestInv, AccountedInv, NEW r \in Requests, NEW j \in Keys, NEW k \in Keys,
         HasKey(r, j), Awaits(r, k)
  PROVE  /\ \A d \in Devices : j # OpenKey(d)
         /\ k \notin SessionKeys
         /\ j \in DeviceKeys /\ k \in DeviceKeys =>
              plan[r].replay \/ (Inside(r) /\ Op(r) = "full")
<1>1. /\ Queues /\ Stacked(r) /\ Phase(r) /\ OwnsOnly(r) /\ KeepsOnly(r)
      /\ Depth(r) \in Nat /\ Base(r) \in Nat
  BY QueueFacts DEF RequestInv, Proper, AccountedInv, Accounted
<1>2. /\ Own(r, k) \in live /\ pc[r] = "waiting" => ahead[Own(r, k)] # None
      /\ pc[r] = "retaining" => Kept(r, k) \in live /\ ahead[Kept(r, k)] # None
      /\ pc[r] \in {"waiting", "retaining"}
  <2>1. Kept(r, k) \in live /\ ahead[Kept(r, k)] # None => pc[r] = "retaining"
    BY <1>1 DEF KeepsOnly
  <2>2. Own(r, k) \in live /\ ahead[Own(r, k)] # None => pc[r] # "retaining"
    BY <1>1 DEF OwnsOnly, RequestInv, Proper, Holds, Granted
  <2>. QED
    BY <2>1, <2>2, WaitFacts DEF Awaits
<1>3. \/ \E i \in 1..Depth(r) : stack[r][i] = j
      \/ j \in retained[r]
  <2>1. CASE Granted(Own(r, j))
    BY <1>1, <1>2, <2>1, WaitFacts DEF OwnsOnly, Granted
  <2>2. CASE Granted(Kept(r, j))
    BY <1>1, <1>2, <2>2, WaitFacts DEF KeepsOnly, Granted
  <2>. QED
    BY <2>1, <2>2 DEF HasKey
<1>4. pc[r] # "idle" /\ FirstKeys(r) /\ Depth(r) <= Base(r)
  BY <1>1, <1>2, WaitFacts DEF Phase, FirstKeys
<1>5. j = SessionKey(SessionOf(r)) \/ j \in DeviceKeys
  <2>1. ASSUME NEW i \in 1..Depth(r), stack[r][i] = j
        PROVE  j = SessionKey(SessionOf(r)) \/ j \in DeviceKeys
    <3>1. j = initial[r][i] /\ (i = 1 \/ (i = 2 /\ Base(r) = 2))
      <4>1. Base(r) = 1 \/ Base(r) = 2
        BY <1>4 DEF FirstKeys
      <4>. QED
        BY <1>1, <1>4, <2>1, <4>1 DEF Stacked
    <3>. QED
      BY <1>4, <3>1 DEF FirstKeys, DeviceKeys
  <2>2. j \in retained[r] => j \in DeviceKeys
    BY <1>1, QueueFacts
  <2>. QED
    BY <1>3, <2>1, <2>2
<1>6. \A d \in Devices : j # OpenKey(d)
  BY <1>5, KeysDiffer DEF DeviceKeys
<1>7. ~(AsksFirst(r) /\ Depth(r) = 0 /\ retained[r] = {})
  BY <1>3
<1>8. k \notin SessionKeys
  <2>1. k \in DeviceKeys \/ \E d \in Devices : k = OpenKey(d)
    BY <1>7, WaitFacts
  <2>. QED
    BY <2>1, KeysDiffer DEF SessionKeys, DeviceKeys
<1>9. ASSUME j \in DeviceKeys, k \in DeviceKeys
      PROVE  plan[r].replay \/ (Inside(r) /\ Op(r) = "full")
  <2>1. ASSUME Depth(r) = 1, stack[r][1] = SessionKey(SessionOf(r)), retained[r] = {}
        PROVE  FALSE
    <3>1. j = SessionKey(SessionOf(r))
      <4>1. \A i \in 1..Depth(r) : i = 1
        BY <2>1
      <4>. QED
        BY <1>3, <2>1, <4>1
    <3>. QED
      BY <1>9, <3>1, KeysDiffer DEF DeviceKeys
  <2>2. \A d \in Devices : k # OpenKey(d)
    BY <1>9, KeysDiffer DEF DeviceKeys
  <2>3. AsksMore(r) => Inside(r)
    BY <1>1 DEF AsksMore, Asks, Inside, Phase
  <2>. QED
    BY <1>7, <2>1, <2>2, <2>3, WaitFacts
<1>. QED
  BY <1>6, <1>8, <1>9

AwaitedIsHeld ==
    \A r \in Requests, k \in Keys : Awaits(r, k) => \E q \in Requests : HasKey(q, k)

(* Whatever a request waits for, some request has: no lock is held by nobody, and no
   waiter is forgotten behind an acquisition that is gone (keyed-lock.ts:19-28). *)
THEOREM AwaitedKeysAreHeld == Spec => []AwaitedIsHeld
<1>1. RequestInv => AwaitedIsHeld
  <2>. SUFFICES ASSUME RequestInv, NEW r \in Requests, NEW k \in Keys, Awaits(r, k)
                PROVE  \E q \in Requests : HasKey(q, k)
    BY DEF AwaitedIsHeld
  <2>. DEFINE U == {b \in live : b.key = k}
  <2>1. LockInv /\ live \subseteq Acquisitions
    BY DEF RequestInv, LockInv, LockTypeOK
  <2>2. U \in SUBSET live /\ U # {}
    BY AcquisitionFacts DEF Awaits
  <2>3. PICK u \in U : ahead[u] \notin U
    BY <2>1, <2>2 DEF LockInv, NoCycle
  <2>4. Granted(u)
    BY <2>1, <2>3 DEF LockInv, AheadOK, Granted
  <2>5. PICK q \in Requests, w \in {"own", "retained"} : u.caller = <<q, w>>
    BY <2>1, RequestAssumption DEF Acquisitions
  <2>6. u = Own(q, k) \/ u = Kept(q, k)
    BY <2>1, <2>5 DEF Own, Kept, Acquisitions
  <2>. QED
    BY <2>4, <2>6 DEF HasKey
<1>. QED
  BY <1>1, RequestInvariant, PTL

\* Requests that wait for each other: each for a key that one of them has.
Circle(R) ==
    R # {} /\ \A r \in R : \E k \in Keys, q \in R : Awaits(r, k) /\ HasKey(q, k)

\* A step that waits for a device's lock with a device's lock in hand.
NestsDevices(r) ==
    /\ plan[r].replay \/ (Inside(r) /\ Op(r) = "full")
    /\ \E d, e \in Devices : HasKey(r, DeviceKey(d)) /\ Awaits(r, DeviceKey(e))

OnlyNestedDevicesBlock ==
    \A R \in SUBSET Requests : Circle(R) => \E r \in R : NestsDevices(r)

LEMMA Levels ==
  ASSUME RequestInv, AccountedInv
  PROVE  OnlyNestedDevicesBlock
<1>. SUFFICES ASSUME NEW R \in SUBSET Requests, Circle(R)
              PROVE  \E r \in R : NestsDevices(r)
  BY DEF OnlyNestedDevicesBlock
\* Somebody in the circle has the key that another waits for, and waits in turn.
<1>1. ASSUME NEW r \in R
      PROVE  \E k, j \in Keys, q \in R : Awaits(r, k) /\ HasKey(q, k) /\ Awaits(q, j)
  <2>1. PICK k \in Keys, q \in R : Awaits(r, k) /\ HasKey(q, k)
    BY DEF Circle
  <2>2. PICK j \in Keys : Awaits(q, j)
    BY DEF Circle
  <2>. QED
    BY <2>1, <2>2
\* So it waits for no session, and what it waits for is no open key.
<1>2. PICK r \in R : TRUE
  BY DEF Circle
<1>3. PICK k1 \in Keys, j1 \in Keys, q1 \in R : HasKey(q1, k1) /\ Awaits(q1, j1)
  BY <1>1, <1>2
<1>4. PICK k2 \in Keys, j2 \in Keys, q2 \in R :
          Awaits(q1, k2) /\ HasKey(q2, k2) /\ Awaits(q2, j2)
  BY <1>1
<1>5. PICK k3 \in Keys, j3 \in Keys, q3 \in R : Awaits(q2, k3) /\ HasKey(q3, k3) /\ Awaits(q3, j3)
  BY <1>1
<1>6. ASSUME NEW k \in Keys, k \notin SessionKeys, \A d \in Devices : k # OpenKey(d)
      PROVE  \E d \in Devices : k = DeviceKey(d)
  BY <1>6, RequestAssumption DEF SessionKeys, SessionKey, DeviceKey, OpenKey
<1>7. PICK d \in Devices : k2 = DeviceKey(d)
  <2>1. k2 \notin SessionKeys /\ \A e \in Devices : k2 # OpenKey(e)
    BY <1>3, <1>4, HoldAndWait
  <2>. QED
    BY <1>6, <2>1
<1>8. PICK e \in Devices : k3 = DeviceKey(e)
  <2>1. k3 \notin SessionKeys /\ \A f \in Devices : k3 # OpenKey(f)
    BY <1>4, <1>5, HoldAndWait
  <2>. QED
    BY <1>6, <2>1
<1>9. plan[q2].replay \/ (Inside(q2) /\ Op(q2) = "full")
  BY <1>4, <1>5, <1>7, <1>8, HoldAndWait DEF DeviceKeys
<1>. QED
  BY <1>4, <1>5, <1>7, <1>8, <1>9 DEF NestsDevices

(* Session, device and open locks are taken in that order by every request, so requests
   block each other only around a step that waits for a device with a device in hand: an
   open that retains its device, or a step of a replay that takes the full request path
   (request-execution-locks.ts:52,74, session-open.ts:689,750, request-router.ts:277). *)
THEOREM BlockedAroundNestedDevices == Spec => []OnlyNestedDevicesBlock
BY RequestInvariant, AccountedAlways, Levels, PTL

\* The plans of commands that are no replays and take the request path once.
LoneCommands ==
    \A p \in Plans : ~p.replay /\ \A i \in 1..Len(p.steps) : p.steps[i].op # "full"

NobodyBlocks == \A R \in SUBSET Requests : ~Circle(R)

(* Where no replay runs, requests never wait for each other in a circle, although each
   chose its keys from a store that has changed since (request-binding.ts:20,
   request-execution-locks.ts:20). *)
THEOREM LoneCommandsNeverBlock ==
  ASSUME LoneCommands
  PROVE  Spec => []NobodyBlocks
<1>1. RequestInv /\ OnlyNestedDevicesBlock => NobodyBlocks
  <2>. SUFFICES ASSUME RequestInv, OnlyNestedDevicesBlock, NEW R \in SUBSET Requests, Circle(R)
                PROVE  FALSE
    BY DEF NobodyBlocks
  <2>1. PICK r \in R : NestsDevices(r)
    BY DEF OnlyNestedDevicesBlock
  <2>2. RequestTypeOK /\ Phase(r) /\ step[r] \in Nat
    BY DEF RequestInv, Proper, RequestTypeOK
  <2>3. CASE plan[r].replay
    <3>1. plan[r] \in Plans \cup {NoPlan}
      BY <2>2 DEF RequestTypeOK
    <3>. QED
      BY <2>3, <3>1 DEF LoneCommands, NoPlan
  <2>4. CASE Inside(r) /\ Op(r) = "full"
    <3>1. pc[r] # "idle"
      BY <2>2, <2>4 DEF Phase, Inside
    <3>2. plan[r] \in Plans /\ step[r] \in 1..Len(plan[r].steps)
      BY <2>2, <2>4, <3>1, StepFacts
    <3>. QED
      BY <2>4, <3>2 DEF LoneCommands, Op, StepOf
  <2>. QED
    BY <2>1, <2>3, <2>4 DEF NestsDevices
<1>. QED
  BY <1>1, RequestInvariant, BlockedAroundNestedDevices, PTL
=============================================================================
