--------------------------- MODULE RefFrameProofs ---------------------------
(* What RefFrame's runs check, for every set of refs, elements and screens. *)
EXTENDS RefFrame, TLAPS

(* The strengthening: what makes the properties inductive. *)

(* A generation in use is a positive number. *)
Counted == gen # None => gen \in 1..last

(* A capture waiting for its publication is the session's last one, no
   response has named its generation, and nothing was done to the device since. *)
Publishable ==
    at \in {"settled", "diverged"} =>
        /\ obs.tree # None /\ gen # None /\ obs.at = effects
        /\ \A n \in named : n.gen # gen

(* A response has named every ref of the frame that its tree has. *)
FrameNamed ==
    frame.epoch # None =>
        \A r \in frame.scope : frame.tree[r] # None =>
            [ref |-> r, gen |-> frame.epoch, id |-> frame.tree[r].id] \in named

(* What was named at the present generation is in the present observation. *)
NamedObserved ==
    obs.tree # None =>
        \A n \in named : n.gen = gen => obs.tree[n.ref] # None /\ n.id = obs.tree[n.ref].id

(* From its admission to its dispatch a ref keeps the frame that admitted it. *)
AdmittedFrame ==
    /\ frame.all => frame.scope = Refs
    /\ job.kind = "ref" /\ at \in {"admitted", "refreshed", "ready"} =>
           frame.state = "active" /\ job.ref \in frame.scope

IInv ==
    /\ RefTypeOK /\ Counted
    /\ Publishable /\ ActiveFrameCurrent
    /\ FrameNamed /\ NamedObserved /\ PinNamesOneElement
    /\ AdmittedFrame /\ ActedOnNamed

(* The kinds of steps. *)

(* A tree is stored and no ref is issued. *)
Captures ==
    \E t \in Trees :
        \/ Observe(t) \/ Diverge(t) \/ Refresh(t) \/ CaptureForSelector(t)
        \/ \E r \in Refs : FindAct(t, r)
        \/ \E shown \in BOOLEAN : Settle(t, shown)

(* Refs of a tree are issued. *)
Snapshots == \E t \in Trees : Snapshot(t)
FindsRead == \E t \in Trees, r \in Refs : FindRead(t, r)
Publishes == \E refs \in SUBSET Refs : Publish(refs)

(* The device is acted on, but through no ref. *)
Effects == Act \/ OpenAgain \/ Recover \/ RecoverAborts \/ Dispatch \/ RecoverAfterwards

(* Only the request moves on. *)
Moves ==
    \/ \E r \in Refs, pin \in Pins : ActOnRef(r, pin)
    \/ ActOnSelector \/ NoRefresh \/ Ready \/ GiveUp \/ NoSettle \/ Finish

LEMMA StepKinds ==
  ASSUME Next
  PROVE  Captures \/ Snapshots \/ FindsRead \/ Publishes \/ Effects \/ Reopen \/ DispatchOnRef \/ Moves
  BY Zenon DEF Next, Captures, Snapshots, FindsRead, Publishes, Effects, Moves

(* Types: a capture takes the next generation, a published one has a tree. *)
LEMMA TypeStep ==
  ASSUME RefTypeOK, Counted, Publishable, Next
  PROVE  RefTypeOK' /\ Counted'
<1>. USE RefAssumption DEF RefTypeOK, Counted, Publishable, Shown, Elements, NoObs, NoFrame, NoJob
<1>1. CASE Captures
  BY <1>1
  DEF Captures, Observe, Diverge, Refresh, CaptureForSelector, FindAct,
          Settle, Stores
<1>2. CASE Snapshots
  BY <1>2
  DEF Snapshots, Snapshot, Stores, Issue, Tells
<1>3. CASE FindsRead
  BY <1>3
  DEF FindsRead, FindRead, Stores, Issue, Tells
<1>4. CASE Publishes
  BY <1>4
  DEF Publishes, Publish, Issue, Tells
<1>5. CASE Effects
  BY <1>5
  DEF Effects, Act, OpenAgain, Recover, RecoverAborts, Dispatch,
          RecoverAfterwards, Expires
<1>6. CASE Reopen
  BY <1>6
  DEF Reopen
<1>7. CASE DispatchOnRef
  BY <1>7
  DEF DispatchOnRef, Expires, Resolve, FrameTree
<1>8. CASE Moves
  BY <1>8
  DEF Moves, ActOnRef, ActOnSelector, NoRefresh, Ready, GiveUp, NoSettle,
          Finish
<1>. QED
  BY <1>1, <1>2, <1>3, <1>4, <1>5, <1>6, <1>7, <1>8, StepKinds, Zenon

(* A step that stores a capture for publication has it captured after all
   effects; every later effect ends the request. *)
LEMMA PublishableStep ==
  ASSUME RefTypeOK, Publishable, Next
  PROVE  Publishable'
<1>. USE RefAssumption DEF RefTypeOK, Publishable
<1>1. CASE Captures
  BY <1>1
  DEF Captures, Observe, Diverge, Refresh, CaptureForSelector, FindAct,
          Settle, Stores
<1>2. CASE Snapshots
  BY <1>2
  DEF Snapshots, Snapshot, Stores, Issue, Tells
<1>3. CASE FindsRead
  BY <1>3
  DEF FindsRead, FindRead, Stores, Issue, Tells
<1>4. CASE Publishes
  BY <1>4
  DEF Publishes, Publish, Issue, Tells
<1>5. CASE Effects
  BY <1>5
  DEF Effects, Act, OpenAgain, Recover, RecoverAborts, Dispatch,
          RecoverAfterwards, Expires
<1>6. CASE Reopen
  BY <1>6
  DEF Reopen
<1>7. CASE DispatchOnRef
  BY <1>7
  DEF DispatchOnRef, Expires
<1>8. CASE Moves
  BY <1>8
  DEF Moves, ActOnRef, ActOnSelector, NoRefresh, Ready, GiveUp, NoSettle,
          Finish
<1>. QED
  BY <1>1, <1>2, <1>3, <1>4, <1>5, <1>6, <1>7, <1>8, StepKinds, Zenon

(* A frame is issued from a current capture and expires with every effect. *)
LEMMA CurrentStep ==
  ASSUME RefTypeOK, Publishable, ActiveFrameCurrent, Next
  PROVE  ActiveFrameCurrent'
<1>. USE RefAssumption DEF RefTypeOK, Publishable, ActiveFrameCurrent, NoFrame
<1>1. CASE Captures
  BY <1>1
  DEF Captures, Observe, Diverge, Refresh, CaptureForSelector, FindAct,
          Settle, Stores
<1>2. CASE Snapshots
  BY <1>2
  DEF Snapshots, Snapshot, Stores, Issue, Tells
<1>3. CASE FindsRead
  BY <1>3
  DEF FindsRead, FindRead, Stores, Issue, Tells
<1>4. CASE Publishes
  BY <1>4
  DEF Publishes, Publish, Issue, Tells
<1>5. CASE Effects
  BY <1>5
  DEF Effects, Act, OpenAgain, Recover, RecoverAborts, Dispatch,
          RecoverAfterwards, Expires
<1>6. CASE Reopen
  BY <1>6
  DEF Reopen
<1>7. CASE DispatchOnRef
  BY <1>7
  DEF DispatchOnRef, Expires
<1>8. CASE Moves
  BY <1>8
  DEF Moves, ActOnRef, ActOnSelector, NoRefresh, Ready, GiveUp, NoSettle,
          Finish
<1>. QED
  BY <1>1, <1>2, <1>3, <1>4, <1>5, <1>6, <1>7, <1>8, StepKinds, Zenon

(* Issuing names the refs of the scope; named only grows. *)
LEMMA FrameNamedStep ==
  ASSUME RefTypeOK, FrameNamed, Next
  PROVE  FrameNamed'
<1>. USE RefAssumption DEF RefTypeOK, FrameNamed, NoFrame, Shown
<1>1. CASE Captures
  BY <1>1
  DEF Captures, Observe, Diverge, Refresh, CaptureForSelector, FindAct,
          Settle, Stores
<1>2. CASE Snapshots
  BY <1>2
  DEF Snapshots, Snapshot, Stores, Issue, Tells
<1>3. CASE FindsRead
  BY <1>3
  DEF FindsRead, FindRead, Stores, Issue, Tells
<1>4. CASE Publishes
  BY <1>4
  DEF Publishes, Publish, Issue, Tells
<1>5. CASE Effects
  BY <1>5
  DEF Effects, Act, OpenAgain, Recover, RecoverAborts, Dispatch,
          RecoverAfterwards, Expires
<1>6. CASE Reopen
  BY <1>6
  DEF Reopen
<1>7. CASE DispatchOnRef
  BY <1>7
  DEF DispatchOnRef, Expires
<1>8. CASE Moves
  BY <1>8
  DEF Moves, ActOnRef, ActOnSelector, NoRefresh, Ready, GiveUp, NoSettle,
          Finish
<1>. QED
  BY <1>1, <1>2, <1>3, <1>4, <1>5, <1>6, <1>7, <1>8, StepKinds, Zenon

(* A stored tree has a generation no response has named. *)
LEMMA NamedObservedStep ==
  ASSUME RefTypeOK, Counted, NamedObserved, Next
  PROVE  NamedObserved'
<1>. USE RefAssumption DEF RefTypeOK, Counted, NamedObserved, NoObs, Shown
<1>1. CASE Captures
  BY <1>1
  DEF Captures, Observe, Diverge, Refresh, CaptureForSelector, FindAct,
          Settle, Stores
<1>2. CASE Snapshots
  BY <1>2
  DEF Snapshots, Snapshot, Stores, Issue, Tells
<1>3. CASE FindsRead
  BY <1>3
  DEF FindsRead, FindRead, Stores, Issue, Tells
<1>4. CASE Publishes
  BY <1>4
  DEF Publishes, Publish, Issue, Tells
<1>5. CASE Effects
  BY <1>5
  DEF Effects, Act, OpenAgain, Recover, RecoverAborts, Dispatch,
          RecoverAfterwards, Expires
<1>6. CASE Reopen
  BY <1>6
  DEF Reopen
<1>7. CASE DispatchOnRef
  BY <1>7
  DEF DispatchOnRef, Expires
<1>8. CASE Moves
  BY <1>8
  DEF Moves, ActOnRef, ActOnSelector, NoRefresh, Ready, GiveUp, NoSettle,
          Finish
<1>. QED
  BY <1>1, <1>2, <1>3, <1>4, <1>5, <1>6, <1>7, <1>8, StepKinds, Zenon

(* What is named anew is named from the observation. *)
LEMMA PinStep ==
  ASSUME RefTypeOK, Counted, Publishable, NamedObserved, PinNamesOneElement, Next
  PROVE  PinNamesOneElement'
<1>. USE RefAssumption DEF RefTypeOK, Counted, Publishable, NamedObserved, PinNamesOneElement, Shown
<1>1. CASE Captures
  BY <1>1
  DEF Captures, Observe, Diverge, Refresh, CaptureForSelector, FindAct,
          Settle, Stores
<1>2. CASE Snapshots
  BY <1>2
  DEF Snapshots, Snapshot, Stores, Issue, Tells
<1>3. CASE FindsRead
  BY <1>3
  DEF FindsRead, FindRead, Stores, Issue, Tells
<1>4. CASE Publishes
  BY <1>4
  DEF Publishes, Publish, Issue, Tells
<1>5. CASE Effects
  BY <1>5
  DEF Effects, Act, OpenAgain, Recover, RecoverAborts, Dispatch,
          RecoverAfterwards, Expires
<1>6. CASE Reopen
  BY <1>6
  DEF Reopen
<1>7. CASE DispatchOnRef
  BY <1>7
  DEF DispatchOnRef, Expires
<1>8. CASE Moves
  BY <1>8
  DEF Moves, ActOnRef, ActOnSelector, NoRefresh, Ready, GiveUp, NoSettle,
          Finish
<1>. QED
  BY <1>1, <1>2, <1>3, <1>4, <1>5, <1>6, <1>7, <1>8, StepKinds, Zenon

(* While an admitted ref is under way only its own request steps, and an
   effect ends it. *)
LEMMA AdmittedStep ==
  ASSUME RefTypeOK, AdmittedFrame, Next
  PROVE  AdmittedFrame'
<1>. USE RefAssumption DEF RefTypeOK, AdmittedFrame, NoFrame, NoJob
<1>1. CASE Captures
  BY <1>1
  DEF Captures, Observe, Diverge, Refresh, CaptureForSelector, FindAct,
          Settle, Stores
<1>2. CASE Snapshots
  BY <1>2
  DEF Snapshots, Snapshot, Stores, Issue, Tells
<1>3. CASE FindsRead
  BY <1>3
  DEF FindsRead, FindRead, Stores, Issue, Tells
<1>4. CASE Publishes
  BY <1>4
  DEF Publishes, Publish, Issue, Tells
<1>5. CASE Effects
  BY <1>5
  DEF Effects, Act, OpenAgain, Recover, RecoverAborts, Dispatch,
          RecoverAfterwards, Expires
<1>6. CASE Reopen
  BY <1>6
  DEF Reopen
<1>7. CASE DispatchOnRef
  BY <1>7
  DEF DispatchOnRef, Expires
<1>8. CASE Moves
  BY <1>8
  DEF Moves, ActOnRef, ActOnSelector, NoRefresh, Ready, GiveUp, NoSettle,
          Finish, Admits
<1>. QED
  BY <1>1, <1>2, <1>3, <1>4, <1>5, <1>6, <1>7, <1>8, StepKinds, Zenon

(* The element acted on is the one of the frame's tree, moved or not. *)
LEMMA ActedStep ==
  ASSUME RefTypeOK, ActedOnNamed, AdmittedFrame, ActiveFrameCurrent, FrameNamed, Next
  PROVE  ActedOnNamed'
<1>. USE RefAssumption DEF RefTypeOK, ActedOnNamed
<1>1. CASE Captures
  BY <1>1
  DEF Captures, Observe, Diverge, Refresh, CaptureForSelector, FindAct,
          Settle, Stores
<1>2. CASE Snapshots
  BY <1>2
  DEF Snapshots, Snapshot, Stores, Issue, Tells
<1>3. CASE FindsRead
  BY <1>3
  DEF FindsRead, FindRead, Stores, Issue, Tells
<1>4. CASE Publishes
  BY <1>4
  DEF Publishes, Publish, Issue, Tells
<1>5. CASE Effects
  BY <1>5
  DEF Effects, Act, OpenAgain, Recover, RecoverAborts, Dispatch,
          RecoverAfterwards, Expires
<1>6. CASE Reopen
  BY <1>6
  DEF Reopen
<1>7. CASE DispatchOnRef
  BY <1>7
  DEF DispatchOnRef, Expires, AdmittedFrame, ActiveFrameCurrent,
          FrameNamed, Resolve, FrameTree, Elements
<1>8. CASE Moves
  BY <1>8
  DEF Moves, ActOnRef, ActOnSelector, NoRefresh, Ready, GiveUp, NoSettle,
          Finish
<1>. QED
  BY <1>1, <1>2, <1>3, <1>4, <1>5, <1>6, <1>7, <1>8, StepKinds, Zenon

(* The initial state: nothing captured, named or acted on. *)
LEMMA RefInit ==
  ASSUME Init
  PROVE  IInv
  BY RefAssumption
  DEF Init, NoObs, NoFrame, NoJob, NoAct, IInv, RefTypeOK, Counted, Publishable,
      ActiveFrameCurrent, FrameNamed, NamedObserved, PinNamesOneElement,
      AdmittedFrame, ActedOnNamed

(* IInv is inductive. *)
LEMMA RefStep ==
  ASSUME IInv, [Next]_vars
  PROVE  IInv'
<1>1. CASE Next
  BY <1>1, TypeStep, PublishableStep, CurrentStep, FrameNamedStep, NamedObservedStep,
     PinStep, AdmittedStep, ActedStep, Zenon
  DEF IInv
<1>2. CASE UNCHANGED vars
  BY <1>2
  DEF vars, IInv, RefTypeOK, Counted, Publishable, ActiveFrameCurrent, FrameNamed,
      NamedObserved, PinNamesOneElement, AdmittedFrame, ActedOnNamed
<1>. QED
  BY <1>1, <1>2

(* The inductive invariant holds in every reachable state. *)
THEOREM RefInvariant == Spec => []IInv
  BY RefInit, RefStep, PTL DEF Spec

(* The fields of the frame move together, at every step of every command. *)
THEOREM RefTypes == Spec => []RefTypeOK
<1>1. IInv => RefTypeOK
  BY DEF IInv
<1>. QED
  BY <1>1, RefInvariant, PTL

(* No ref that may be acted on stems from a capture older than the last effect
   of the session, whatever awaits lie between capture, effect and publication. *)
THEOREM FramesCurrent == Spec => []ActiveFrameCurrent
<1>1. IInv => ActiveFrameCurrent
  BY DEF IInv
<1>. QED
  BY <1>1, RefInvariant, PTL

(* A ref of an issued frame acts on the element that a response named under it,
   however many captures replaced the observation meanwhile. *)
THEOREM RefsActOnNamed == Spec => []ActedOnNamed
<1>1. IInv => ActedOnNamed
  BY DEF IInv
<1>. QED
  BY <1>1, RefInvariant, PTL

(* A pin means one element for ever, whichever commands issued it. *)
THEOREM PinsUnambiguous == Spec => []PinNamesOneElement
<1>1. IInv => PinNamesOneElement
  BY DEF IInv
<1>. QED
  BY <1>1, RefInvariant, PTL

(* Refs told with a generation not told before are news. *)
LEMMA TellsNews ==
  ASSUME NEW refs, NEW r \in refs, NEW t, NEW g,
         Tells(refs, t, g), \A n \in named : n.gen # g
  PROVE  named' # named
<1>. DEFINE n == [ref |-> r, gen |-> g, id |-> t[r].id]
<1>1. n \in named'
  BY DEF Tells
<1>2. n \notin named
  OBVIOUS
<1>. QED
  BY <1>1, <1>2

(* Authority changes with an effect or in a response: for screens on which
   there always is an element, so that a snapshot shows at least one ref. *)
THEOREM AuthorityOpen ==
  ASSUME \A t \in Trees : Shown(t) # {}
  PROVE  Spec => AuthorityChangesOpenly
<1>0. \A t \in Trees : Shown(t) # {}
  OBVIOUS
<1>1. ASSUME IInv, [Next]_vars
      PROVE  [frame' # frame => effects' # effects \/ named' # named]_vars
  <2>. USE RefAssumption DEF IInv, RefTypeOK, Counted, Publishable
  <2>1. CASE Captures
    BY <1>1, <2>1
    DEF Captures, Observe, Diverge, Refresh, CaptureForSelector, FindAct,
        Settle, Stores
  <2>2. CASE Snapshots
    <3>1. ASSUME NEW t \in Trees, Snapshot(t)
          PROVE  named' # named
      <4>1. PICK r \in Refs : r \in Shown(t)
        BY <3>1, <1>0 DEF Shown
      <4>2. Tells(Shown(t), t, gen') /\ \A n \in named : n.gen # gen'
        BY <1>1, <3>1 DEF Stores, Snapshot
      <4>. QED
        BY <4>1, <4>2, TellsNews, Zenon
    <3>. QED
      BY <2>2, <3>1, Zenon DEF Snapshots
  <2>3. CASE FindsRead
    <3>1. ASSUME NEW t \in Trees, NEW r \in Refs, FindRead(t, r)
          PROVE  named' # named
      <4>1. Tells({r}, t, gen') /\ \A n \in named : n.gen # gen'
        BY <1>1, <3>1 DEF Stores, FindRead
      <4>. QED
        BY <4>1, TellsNews, Zenon
    <3>. QED
      BY <2>3, <3>1, Zenon DEF FindsRead
  <2>4. CASE Publishes
    <3>1. ASSUME NEW refs \in SUBSET Refs, Publish(refs)
          PROVE  named' # named
      <4>1. PICK r \in Refs : r \in refs
        BY <3>1 DEF Publish
      <4>2. Tells(refs, obs.tree, gen) /\ \A n \in named : n.gen # gen
        BY <1>1, <3>1 DEF Publish
      <4>. QED
        BY <4>1, <4>2, TellsNews, Zenon
    <3>. QED
      BY <2>4, <3>1, Zenon DEF Publishes
  <2>5. CASE Effects
    BY <1>1, <2>5
    DEF Effects, Act, OpenAgain, Recover, RecoverAborts, Dispatch,
        RecoverAfterwards, Expires
  <2>6. CASE Reopen
    BY <1>1, <2>6
    DEF Reopen
  <2>7. CASE DispatchOnRef
    BY <1>1, <2>7
    DEF DispatchOnRef, Expires
  <2>8. CASE Moves
    BY <1>1, <2>8
    DEF Moves, ActOnRef, ActOnSelector, NoRefresh, Ready, GiveUp, NoSettle,
        Finish
  <2>. QED
    BY <1>1, <2>1, <2>2, <2>3, <2>4, <2>5, <2>6, <2>7, <2>8, StepKinds, Zenon
<1>. QED
  BY <1>1, RefInvariant, PTL DEF Spec, AuthorityChangesOpenly
=============================================================================
