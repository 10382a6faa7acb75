------------------------- MODULE SessionRepairProofs -------------------------
(***************************************************************************)
(* Proofs about SessionRepair, for every plan, every set of targets and    *)
(* every bound: types, receipts, tombstones, and what is published.        *)
(***************************************************************************)
EXTENDS SessionRepair, TLAPS

-----------------------------------------------------------------------------
(* The inductive invariant *)

\* What a close without a record names is not kept.
Plain(c) ==
    /\ c.path # None => c.save
    /\ c.quiet => ~c.save

\* Only a close or the teardown refers to a session that is not in the store, and a
\* session leaves the store under a close by the teardown alone.
Present ==
    /\ session # None => stored \/ closing # None \/ daemon = "tearing"
    /\ closing # None => (stored \/ daemon = "ending") /\ Plain(closing)
    /\ daemon = "tearing" => stored \/ run = None
    /\ daemon = "down" => run = None /\ closing = None /\ ~stored

\* The receipt is that of the last platform close, and is gone when the repair ends.
Receipts ==
    /\ closedAs # None /\ daemon # "ending" =>
          Repairing(session) /\ session.repair.receipt = closedAs
    /\ closing # None /\ closing.phase = "releasing" => Ended(session)

\* Whoever may overwrite a target has been allowed to.
LegGrants ==
    run # None /\ run.force =>
       /\ run.path # None => run.path \in granted
       /\ run.path = None /\ stored /\ Repairing(session) => session.repair.path \in granted
       /\ run.path = None /\ stored /\ ~Repairing(session) => Sibling \in granted
       /\ run.path = None /\ ~stored /\ run.at = 1 => Sibling \in granted

CloseGrants ==
    closing # None /\ closing.force /\ ~closing.quiet =>
       (IF closing.path # None THEN closing.path ELSE session.repair.path) \in granted

Grants ==
    /\ Repairing(session) /\ session.repair.force /\ (stored \/ ~Ended(session)) =>
          session.repair.path \in granted
    /\ LegGrants /\ CloseGrants

\* A leg starts at the first step only without a repair, and continues nothing else.
LegShape ==
    run # None =>
       /\ run.at = 1 => run.save /\ ~(stored /\ Repairing(session))
       /\ ~run.save => run.path = None /\ ~run.force /\ (stored => Repairing(session))

\* A close that got through was of this repair, and of every one that has ended.
Ends ==
    /\ ended # "no" /\ daemon # "ending" => Repairing(session)
    /\ stored /\ Repairing(session) /\ Ended(session) /\ daemon # "ending" => ended # "no"

\* A repair is complete only after its last leg, with nothing left to answer if no
\* close has ended it before.
Completed ==
    Repairing(session) /\ Committable(session) =>
       run = None /\ finished /\ (ended = "no" => outstanding = None)

\* A leg has not passed the divergence nobody has answered; between two legs it is
\* that of the repair, and the watermark tells whether it has been corrected.
Answered ==
    outstanding # None /\ ended = "no" =>
       /\ ~(endsWithClose /\ outstanding.at = PlanLength)
       /\ run # None => run.at <= outstanding.at
       /\ run = None => stored \/ daemon = "ending"
       /\ run = None /\ stored =>
             /\ Repairing(session)
             /\ outstanding.owed /\ ~Ended(session) =>
                   session.pending = [from |-> outstanding.at + 1, count |-> Len(session.acts)]

\* What is recorded holds no close until the repair ends, and nothing earlier behind
\* the boundary.
NoClose(acts) == \A i \in 1 .. Len(acts) : acts[i] # CloseLine
NoneEarlier(acts, boundary) == \A i \in 1 .. Len(acts) : i > boundary => acts[i] # Earlier

Clean ==
    /\ session # None /\ daemon # "ending" /\ ended = "no"
       /\ (Repairing(session) => ~Ended(session)) =>
          NoClose(session.acts)
    /\ Repairing(session) => NoneEarlier(session.acts, session.repair.boundary)
    /\ run # None /\ run.save /\ stored /\ ~Repairing(session) /\ ~run.first =>
          NoneEarlier(session.acts, 0)

\* The invariant in two layers: the second is about a repair's progress to its script.
Records == RepairTypeOK /\ Present /\ Receipts /\ CloseDispatchedOnce
Progress == Grants /\ LegShape /\ Ends /\ Completed /\ Answered /\ Clean
IInv == Records /\ Progress

-----------------------------------------------------------------------------
(* What the operators on records do *)

\* A retargeted repair differs in its path and its grant alone, and a grant it has
\* kept is for the same path.
LEMMA RetargetFacts ==
    ASSUME NEW r \in Repairs, NEW path \in Targets \cup {None}, NEW force \in BOOLEAN
    PROVE  LET t == Retarget(r, path, force) IN
           /\ t \in Repairs
           /\ t.status = r.status /\ t.boundary = r.boundary /\ t.receipt = r.receipt
           /\ t.path = IF path = None THEN r.path ELSE path
           /\ t.force => force \/ (r.force /\ t.path = r.path)
BY DEF Retarget, Repairs

\* Arming keeps the actions and the watermark and leaves a repair: the retargeted
\* one, or a new one that has no receipt.
LEMMA ArmFacts ==
    ASSUME NEW s \in Sessions, NEW leg \in Legs
    PROVE  LET a == Arm(s, leg) IN
           /\ a \in Sessions /\ a.acts = s.acts /\ a.pending = s.pending
           /\ a.repair \in Repairs /\ a.repair # None
           /\ s.repair # None => a.repair = Retarget(s.repair, leg.path, leg.force)
           /\ s.repair = None =>
                 /\ a.repair.status = "armed" /\ a.repair.receipt = None
                 /\ a.repair.boundary = IF leg.first THEN Len(s.acts) ELSE 0
                 /\ a.repair.path = IF leg.path = None THEN Sibling ELSE leg.path
                 /\ a.repair.force = leg.force
<1>1. CASE s.repair = None
  <2>1. Arm(s, leg).repair \in Repairs
    BY <1>1, RepairAssumption DEF Arm, Boundary, Repairs, Sessions, Legs
  <2>2. QED
    BY <1>1, <2>1, RepairAssumption DEF Arm, Boundary, Sessions, Legs
<1>2. CASE s.repair # None
  <2>1. s.repair \in Repairs
    BY <1>2 DEF Sessions
  <2>2. Retarget(s.repair, leg.path, leg.force) \in Repairs
    BY <2>1, RetargetFacts DEF Legs
  <2>3. QED
    BY <1>2, <2>2, RepairAssumption DEF Arm, Sessions
<1>3. QED
  BY <1>1, <1>2

\* The other changes of a repair keep its boundary, path and grant.
LEMMA StatusFacts ==
    ASSUME NEW r \in Repairs, NEW ident \in Idents
    PROVE  /\ Demote(r) = [r EXCEPT !.status = "armed"] /\ Demote(r) \in Repairs
           /\ MarkComplete(r) \in Repairs
           /\ MarkComplete(r) = [r EXCEPT !.status = IF @ = "armed" THEN "complete" ELSE @]
           /\ RecordClosed(r, ident) \in Repairs
           /\ RecordClosed(r, ident).receipt = ident
           /\ RecordClosed(r, ident).boundary = r.boundary
           /\ RecordClosed(r, ident).path = r.path /\ RecordClosed(r, ident).force = r.force
           /\ RecordClosed(r, ident).status =
                 IF r.status = "complete" THEN "close-succeeded" ELSE r.status
<1>1. r \in [status : {"armed", "complete", "close-succeeded", "committed", "aborted"},
             boundary : Nat, path : Targets, force : BOOLEAN, receipt : Idents \cup {None}]
  BY DEF Repairs
<1>2. QED
  BY <1>1 DEF Demote, MarkComplete, RecordClosed, Repairs

LEMMA TerminatedFacts ==
    ASSUME NEW s \in Sessions, s.repair # None, NEW status \in {"committed", "aborted"}
    PROVE  LET t == Terminated(s, status) IN
           /\ t \in Sessions /\ t.acts = s.acts /\ t.pending = s.pending
           /\ t.repair \in Repairs /\ t.repair # None
           /\ t.repair.status = status /\ t.repair.boundary = s.repair.boundary
           /\ t.repair.path = s.repair.path /\ t.repair.force = s.repair.force
<1>1. s.repair \in Repairs
  BY DEF Sessions
<1> DEFINE r == [s.repair EXCEPT !.status = status, !.receipt = None]
<1>2. r \in Repairs /\ r.boundary = s.repair.boundary
      /\ r.path = s.repair.path /\ r.force = s.repair.force /\ r.status = status
  BY <1>1 DEF Repairs
<1>3. Terminated(s, status) = [s EXCEPT !.repair = r]
  BY <1>1 DEF Terminated, Sessions, Repairs
<1> HIDE DEF r
<1>4. QED
  BY <1>2, <1>3, RepairAssumption DEF Sessions

\* Where a close publishes.
ClosePath(s, c) == IF c.path # None THEN c.path ELSE s.repair.path

\* What is recorded once the close is, or is not.
ActsAfter(s, quiet) == IF quiet THEN s.acts ELSE Append(s.acts, CloseLine)

\* The close has ended the repair.
CloseTook(s, c) ==
    /\ closing' = [c EXCEPT !.phase = "releasing"]
    /\ session' \in Sessions /\ session' # None
    /\ session'.acts = ActsAfter(s, c.quiet) /\ session'.pending = s.pending
    /\ session'.repair \in Repairs /\ session'.repair # None
    /\ session'.repair.status \in {"committed", "aborted"}
    /\ session'.repair.boundary = s.repair.boundary
    /\ session'.repair.path = ClosePath(s, c)
    /\ session'.repair.force =>
          (c.force /\ ~c.quiet) \/ (s.repair.force /\ session'.repair.path = s.repair.path)

\* The close has failed and left the repair as it was, at the close's target.
CloseLeft(s, c) ==
    /\ closing' = None /\ Committable(s)
    /\ \E t \in Sessions :
          /\ session' = Kept(t) /\ t # None
          /\ t.acts = s.acts /\ t.pending = s.pending
          /\ t.repair \in Repairs /\ t.repair # None
          /\ t.repair.status = s.repair.status /\ t.repair.receipt = s.repair.receipt
          /\ t.repair.boundary = s.repair.boundary /\ t.repair.path = ClosePath(s, c)
          /\ t.repair.force =>
                (c.force /\ ~c.quiet) \/ (s.repair.force /\ t.repair.path = s.repair.path)

\* What a close, or the teardown, may have published.
Wrote(s, path, force, quiet) ==
    /\ Committable(s)
    /\ written' = [to |-> path,
                   script |-> SubSeq(ActsAfter(s, quiet), s.repair.boundary + 1,
                                     Len(ActsAfter(s, quiet)))]
    /\ path \in files => force \/ (s.repair.force /\ path = s.repair.path)
    /\ files' = files \cup {path} /\ path \in Targets

LEMMA PublishesFacts ==
    ASSUME NEW s \in Sessions, s.repair # None, NEW c \in Closes, NEW fails \in BOOLEAN,
           Plain(c), Publishes(s, c, fails)
    PROVE  /\ UNCHANGED stored
           /\ CloseTook(s, c) \/ CloseLeft(s, c)
           /\ \/ UNCHANGED <<files, written>>
              \/ Wrote(s, ClosePath(s, c), c.force, c.quiet) /\ CloseTook(s, c)
<1> DEFINE r == IF c.save THEN Retarget(s.repair, c.path, c.force) ELSE s.repair
           told == IF c.save THEN [s EXCEPT !.repair = Retarget(@, c.path, c.force)] ELSE s
           last == Recorded(s, c)
           t == Unrecorded(last, s)
<1>1. s.repair \in Repairs /\ c.path \in Targets \cup {None} /\ c.force \in BOOLEAN
      /\ c.save \in BOOLEAN /\ c.quiet \in BOOLEAN /\ (c.path # None => c.save)
      /\ (c.quiet => ~c.save)
  BY DEF Sessions, Closes, Plain
<1>2. /\ r \in Repairs /\ r # None
      /\ r.status = s.repair.status /\ r.receipt = s.repair.receipt
      /\ r.boundary = s.repair.boundary /\ r.path = ClosePath(s, c)
      /\ r.force => (c.force /\ ~c.quiet) \/ (s.repair.force /\ r.path = s.repair.path)
  <2>1. CASE c.save
    <3>1. r = Retarget(s.repair, c.path, c.force)
      BY <2>1
    <3> HIDE DEF r
    <3> HIDE DEF told, last, t
    <3>2. /\ r \in Repairs
          /\ r.status = s.repair.status /\ r.receipt = s.repair.receipt
          /\ r.boundary = s.repair.boundary
          /\ r.path = (IF c.path = None THEN s.repair.path ELSE c.path)
          /\ r.force => c.force \/ (s.repair.force /\ r.path = s.repair.path)
      <4> DEFINE n == Retarget(s.repair, c.path, c.force)
      <4>1. /\ n \in Repairs
            /\ n.status = s.repair.status /\ n.receipt = s.repair.receipt
            /\ n.boundary = s.repair.boundary
            /\ n.path = (IF c.path = None THEN s.repair.path ELSE c.path)
            /\ n.force => c.force \/ (s.repair.force /\ n.path = s.repair.path)
        <5>1. s.repair \in Repairs /\ c.path \in Targets \cup {None} /\ c.force \in BOOLEAN
          BY <1>1
        <5>2. QED
          BY <5>1, RetargetFacts
      <4>2. r = n
        BY <3>1
      <4> HIDE DEF n
      <4>3. QED
        BY <4>1, <4>2, Zenon
    <3>3. QED
      BY <1>1, <2>1, <3>2, RepairAssumption DEF ClosePath
  <2>2. CASE ~c.save
    BY <1>1, <2>2, RepairAssumption DEF ClosePath
  <2>3. QED
    BY <1>1, <2>1, <2>2
<1>3. told = [s EXCEPT !.repair = r]
  BY DEF Sessions
<1> HIDE DEF r
<1>4. /\ last \in Sessions /\ last # None
      /\ last.acts = ActsAfter(s, c.quiet) /\ last.pending = s.pending /\ last.repair = r
  <2>1. told \in Sessions /\ told.acts = s.acts /\ told.pending = s.pending /\ told.repair = r
    BY <1>2, <1>3 DEF Sessions
  <2>2. Append(s.acts, CloseLine) \in Seq(Actions)
    BY DEF Sessions, Actions
  <2>3. CASE c.quiet
    <3>1. last = s /\ r = s.repair
      BY <1>1, <2>3 DEF Recorded, r
    <3>2. QED
      BY <2>3, <3>1, RepairAssumption DEF ActsAfter
  <2>4. CASE ~c.quiet
    <3>1. last = WithClose(told)
      BY <2>4 DEF Recorded
    <3> HIDE DEF told, last
    <3>2. last = [told EXCEPT !.acts = Append(s.acts, CloseLine)]
      BY <2>1, <3>1 DEF WithClose
    <3>3. QED
      BY <2>1, <2>2, <2>4, <3>2, RepairAssumption DEF Sessions, ActsAfter
  <2>5. QED
    BY <1>1, <2>3, <2>4
<1>5. t \in Sessions /\ t # None /\ t.acts = s.acts /\ t.pending = s.pending /\ t.repair = r
  BY <1>4, RepairAssumption DEF Unrecorded, Sessions
<1> HIDE DEF told, last, t
<1>6. CASE session' = last /\ s.repair.status = "committed"
           /\ closing' = [c EXCEPT !.phase = "releasing"] /\ UNCHANGED <<files, stored, written>>
  BY <1>2, <1>4, <1>6 DEF CloseTook
<1>7. CASE session' = Terminated(last, "aborted")
           /\ closing' = [c EXCEPT !.phase = "releasing"] /\ UNCHANGED <<files, stored, written>>
  BY <1>2, <1>4, <1>7, TerminatedFacts, RepairAssumption DEF CloseTook
<1>8. CASE /\ session' = Terminated(last, "committed") /\ Committable(s)
           /\ closing' = [c EXCEPT !.phase = "releasing"] /\ UNCHANGED stored
           /\ Writable(last, c.force) /\ Publish(last)
  <2>1. CloseTook(s, c)
    BY <1>2, <1>4, <1>8, TerminatedFacts, RepairAssumption DEF CloseTook
  <2>2. ClosePath(s, c) \in Targets
    BY <1>2 DEF Repairs
  <2>4. written' = [to |-> ClosePath(s, c), script |-> Script(last)]
        /\ files' = files \cup {ClosePath(s, c)}
    BY <1>2, <1>4, <1>8 DEF Publish
  <2>5. Script(last) = SubSeq(ActsAfter(s, c.quiet), s.repair.boundary + 1,
                              Len(ActsAfter(s, c.quiet)))
    BY <1>2, <1>4 DEF Script
  <2>6. ClosePath(s, c) \in files => c.force \/ (s.repair.force /\ ClosePath(s, c) = s.repair.path)
    BY <1>2, <1>4, <1>8 DEF Writable
  <2>7. QED
    BY <1>8, <2>1, <2>2, <2>4, <2>5, <2>6 DEF Wrote
<1>9. CASE session' = Kept(t) /\ Committable(s) /\ closing' = None
           /\ UNCHANGED <<files, stored, written>>
  BY <1>2, <1>5, <1>9 DEF CloseLeft
<1>10. QED
  <2>1. CASE s.repair.status = "committed"
    BY <1>6, <2>1 DEF Publishes, last, told, Committable
  <2>2. CASE s.repair.status # "committed" /\ ~Committable(s)
    BY <1>7, <2>2 DEF Publishes, last, told
  <2>3. CASE Committable(s)
    BY <1>8, <1>9, <2>3 DEF Publishes, last, told, t, Committable
  <2>4. QED
    BY <2>1, <2>2, <2>3

\* The finalizer publishes, to the repair's own target, or changes no script.
LEMMA FinalizeFacts ==
    ASSUME RepairTypeOK, NEW fails \in BOOLEAN, Finalize(fails)
    PROVE  /\ daemon = "tearing" /\ daemon' = "ending"
           /\ UNCHANGED <<run, closing, calls, endsWithClose, outstanding, finished,
                          closedAs, granted, ended>>
           /\ tombs' \subseteq tombs \cup {Public}
           /\ stored' \in BOOLEAN /\ (stored' => stored)
           /\ session' # None => closing # None \/ stored'
           /\ stored' => session' # None
           /\ session # None /\ closing # None => session' # None
           /\ session # None /\ session' # None =>
                 /\ session' \in Sessions /\ (session'.repair = None <=> session.repair = None)
                 /\ Repairing(session) /\ ~Committable(session) => session' = session
                 /\ Repairing(session) => Len(session.acts) <= Len(session'.acts)
                 /\ Repairing(session) /\ Committable(session) =>
                       /\ session'.acts = Append(session.acts, CloseLine)
                       /\ session'.repair.status \in
                             {"complete", "close-succeeded", "committed"}
                 /\ ~Repairing(session) => session' = session
                 /\ Repairing(session) =>
                       /\ session'.repair.boundary = session.repair.boundary
                       /\ session'.repair.path = session.repair.path
                       /\ session'.repair.force = session.repair.force
                       /\ session'.pending = session.pending
           /\ UNCHANGED <<files, written>>
              \/ (Repairing(session) /\ Wrote(session, session.repair.path, FALSE, FALSE))
<1> DEFINE commits == Repairing(session) /\ Committable(session)
           last == IF commits THEN WithClose(session) ELSE session
           publishes == commits /\ ~fails /\ Writable(session, FALSE)
           after == IF publishes THEN Terminated(last, "committed") ELSE last
<1>1. /\ daemon = "tearing" /\ daemon' = "ending"
      /\ UNCHANGED <<run, closing, calls, endsWithClose, outstanding, finished,
                     closedAs, granted, ended>>
      /\ tombs' \subseteq tombs \cup {Public}
      /\ stored' \in BOOLEAN /\ (stored' => stored)
      /\ session' = IF closing # None \/ stored' THEN after ELSE None
      /\ IF publishes THEN Publish(last) ELSE UNCHANGED <<files, written>>
  BY DEF Finalize, requests, RepairTypeOK
<1>2. CASE ~commits
  <2>1. last = session /\ after = session /\ UNCHANGED <<files, written>>
    BY <1>1, <1>2
  <2> HIDE DEF last, after, publishes
  <2>2. session # None => session \in Sessions
    BY DEF RepairTypeOK
  <2>3. session' = IF closing # None \/ stored' THEN session ELSE None
    BY <1>1, <2>1
  <2>4. stored => session # None
    BY DEF RepairTypeOK
  <2>5. QED
    BY <1>1, <1>2, <2>1, <2>2, <2>3, <2>4 DEF Repairing
<1>3. CASE commits
  <2>1. /\ session \in Sessions /\ session # None /\ session.repair # None
        /\ session.repair \in Repairs /\ session.acts \in Seq(Actions)
    BY <1>3 DEF RepairTypeOK, Repairing, Sessions
  <2>2. Append(session.acts, CloseLine) \in Seq(Actions)
        /\ Len(Append(session.acts, CloseLine)) = Len(session.acts) + 1
    BY <2>1 DEF Actions
  <2>3. last = [session EXCEPT !.acts = Append(session.acts, CloseLine)]
    BY <1>3, <2>1 DEF WithClose
  <2> HIDE DEF last
  <2>4. /\ last \in Sessions /\ last # None /\ last.repair = session.repair
        /\ last.acts = Append(session.acts, CloseLine) /\ last.pending = session.pending
    BY <2>1, <2>2, <2>3, RepairAssumption DEF Sessions
  <2>5. /\ after \in Sessions /\ after # None /\ after.repair # None
        /\ after.acts = Append(session.acts, CloseLine) /\ after.pending = session.pending
        /\ after.repair.status \in {"complete", "close-succeeded", "committed"}
        /\ after.repair.boundary = session.repair.boundary
        /\ after.repair.path = session.repair.path /\ after.repair.force = session.repair.force
    <3>1. CASE publishes
      <4>1. after = Terminated(last, "committed")
        BY <3>1
      <4> HIDE DEF after, publishes
      <4>2. QED
        BY <2>1, <2>4, <4>1, TerminatedFacts, RepairAssumption
    <3>2. CASE ~publishes
      BY <1>3, <2>1, <2>4, <3>2 DEF Committable
    <3>3. QED
      BY <3>1, <3>2
  <2>6. UNCHANGED <<files, written>>
        \/ (Repairing(session) /\ Wrote(session, session.repair.path, FALSE, FALSE))
    <3>1. CASE publishes
      <4>1. files' = files \cup {session.repair.path}
            /\ written' = [to |-> session.repair.path, script |-> Script(last)]
        BY <1>1, <2>4, <3>1 DEF Publish
      <4>2. Script(last) = SubSeq(Append(session.acts, CloseLine), session.repair.boundary + 1,
                                  Len(session.acts) + 1)
        BY <2>2, <2>4 DEF Script
      <4>3. session.repair.path \in files => session.repair.force
        BY <3>1 DEF Writable
      <4>4. session.repair.path \in Targets
        BY <2>1 DEF Repairs
      <4>5. QED
        BY <1>3, <2>2, <4>1, <4>2, <4>3, <4>4 DEF Wrote, ActsAfter
    <3>2. QED
      BY <1>1, <3>1
  <2>7. session' = IF closing # None \/ stored' THEN after ELSE None
    BY <1>1
  <2> HIDE DEF after, publishes, last
  <2>8. Len(session.acts) <= Len(after.acts)
    BY <2>1, <2>2, <2>5
  <2>9. CASE closing # None \/ stored'
    <3>1. session' = after
      BY <2>7, <2>9
    <3>2. QED
      BY <1>1, <1>3, <2>1, <2>5, <2>6, <2>8, <2>9, <3>1 DEF Repairing
  <2>10. CASE ~(closing # None \/ stored')
    BY <1>1, <2>6, <2>7, <2>10
  <2>11. QED
    BY <2>9, <2>10
<1>4. QED
  BY <1>2, <1>3

\* Steps that leave the session and its requests alone.
Aside ==
    /\ UNCHANGED <<session, stored, run, closing, calls, endsWithClose>>
    /\ UNCHANGED <<outstanding, finished, closedAs, granted, ended, written>>
    /\ files' \subseteq Targets /\ tombs' \subseteq tombs
    /\ \/ daemon' = daemon
       \/ daemon = "up" /\ daemon' = "stopping"
       \/ daemon = "stopping" /\ daemon' = IF stored THEN "tearing" ELSE "ending"
       \/ daemon = "down" /\ daemon' = "up"

LEMMA AsideSteps ==
    ASSUME RepairTypeOK,
           \/ IdleReap \/ Signal \/ TeardownStarts \/ Start \/ TombstoneExpires
           \/ FileChanges \/ UNCHANGED vars
    PROVE  Aside
<1> USE DEF Aside, RepairTypeOK, requests, history
<1>1. CASE IdleReap \/ Signal
  BY <1>1 DEF IdleReap, Signal
<1>2. CASE TeardownStarts \/ Start
  BY <1>2 DEF TeardownStarts, Start
<1>3. CASE TombstoneExpires
  BY <1>3 DEF TombstoneExpires
<1>4. CASE FileChanges
  BY <1>4 DEF FileChanges
<1>5. CASE UNCHANGED vars
  BY <1>5 DEF vars
<1>6. QED
  BY <1>1, <1>2, <1>3, <1>4, <1>5

\* A request to close.
SomeClose ==
    \E ident \in Idents, path \in Targets \cup {None}, save, force, quiet, fails \in BOOLEAN :
        Close(ident, save, path, force, quiet, fails)

\* The kinds of step, for the proofs by cases below.
LEMMA StepKinds ==
    ASSUME RepairTypeOK, [Next]_vars
    PROVE  \/ Open \/ Act \/ OrdinaryClose
           \/ \E from \in 0 .. PlanLength + 1, save, force \in BOOLEAN,
                 path \in Targets \cup {None} : Replay(from, save, path, force)
           \/ StepSucceeds \/ (\E hint \in Hints : StepDiverges(hint))
           \/ CloseSuppressed \/ RunEnds
           \/ SomeClose \/ CloseFails \/ (\E fails \in BOOLEAN : CloseDispatched(fails))
           \/ CloseEnds \/ ReleaseFails
           \/ (\E fails \in BOOLEAN : Finalize(fails)) \/ Gone \/ Aside
<1>1. Next \/ UNCHANGED vars
  BY Zenon
<1>2. Exit \/ Crash => Gone
  BY Zenon DEF Exit, Crash
<1>3. QED
  BY <1>1, <1>2, AsideSteps, Zenon DEF Next, SomeClose

-----------------------------------------------------------------------------
(* Types *)

\* What a continued record is: of the right type, with the boundary within it.
Fine(s) == s \in Sessions /\ s # None /\ (s.repair # None => s.repair.boundary <= Len(s.acts))

\* What the session is once the leg at work has armed the repair.
Rearmed(n) ==
    /\ Fine(n)
    /\ n.repair = None <=> session.repair = None /\ ~run.save
    /\ session.repair # None =>
          /\ n.repair.boundary = session.repair.boundary
          /\ n.repair.receipt = session.repair.receipt
          /\ n.repair.path = IF run.save /\ run.path # None THEN run.path ELSE session.repair.path
          /\ n.repair.force =>
                run.force \/ (session.repair.force /\ n.repair.path = session.repair.path)
    /\ session.repair = None /\ run.save =>
          /\ n.repair.receipt = None
          /\ n.repair.boundary = IF run.first THEN Len(session.acts) ELSE 0
          /\ n.repair.path = IF run.path = None THEN Sibling ELSE run.path
          /\ n.repair.force = run.force

\* Its status while the leg goes on.
Unfinished(n) ==
    /\ session.repair # None => n.repair.status = session.repair.status
    /\ session.repair = None /\ run.save => n.repair.status = "armed"

LEMMA ArmedFacts ==
    ASSUME RepairTypeOK, run # None, stored
    PROVE  Rearmed(Armed) /\ Unfinished(Armed)
           /\ Armed.acts = session.acts /\ Armed.pending = session.pending
<1>1. session \in Sessions /\ session # None /\ Live = session /\ run \in Legs /\ Fine(session)
  BY DEF RepairTypeOK, Live, Fine, Repairing
<1>2. session.acts \in Seq(Actions) /\ Len(session.acts) \in Nat
  BY <1>1 DEF Sessions
<1>3. CASE run.save
  <2> DEFINE a == Arm(session, run)
  <2>1. Armed = a
    BY <1>1, <1>3 DEF Armed
  <2>2. /\ a \in Sessions /\ a.acts = session.acts /\ a.pending = session.pending
        /\ a.repair # None /\ a # None
    BY <1>1, ArmFacts, RepairAssumption
  <2>3. CASE session.repair = None
    <3>1. /\ a.repair.status = "armed" /\ a.repair.receipt = None
          /\ a.repair.boundary = IF run.first THEN Len(session.acts) ELSE 0
          /\ a.repair.path = IF run.path = None THEN Sibling ELSE run.path
          /\ a.repair.force = run.force
      BY <1>1, <2>3, ArmFacts
    <3> HIDE DEF a
    <3>2. QED
      BY <1>2, <1>3, <2>1, <2>2, <2>3, <3>1 DEF Rearmed, Unfinished, Fine
  <2>4. CASE session.repair # None
    <3> DEFINE r == Retarget(session.repair, run.path, run.force)
    <3>1. a.repair = r
      BY <1>1, <2>4, ArmFacts
    <3>2. session.repair \in Repairs /\ run.path \in Targets \cup {None} /\ run.force \in BOOLEAN
      BY <1>1, <2>4 DEF Sessions, Legs
    <3>3. /\ r.status = session.repair.status /\ r.boundary = session.repair.boundary
          /\ r.receipt = session.repair.receipt
          /\ r.path = IF run.path = None THEN session.repair.path ELSE run.path
          /\ r.force => run.force \/ (session.repair.force /\ r.path = session.repair.path)
      BY <3>2, RetargetFacts
    <3> HIDE DEF a, r
    <3>4. Fine(a)
      BY <1>1, <2>2, <2>4, <3>1, <3>3 DEF Fine
    <3>5. QED
      BY <1>3, <2>1, <2>2, <2>4, <3>1, <3>3, <3>4 DEF Rearmed, Unfinished
  <2>5. QED
    BY <2>3, <2>4
<1>4. CASE ~run.save
  BY <1>1, <1>4 DEF Armed, Rearmed, Unfinished
<1>5. QED
  BY <1>1, <1>3, <1>4 DEF Legs

\* Recording an action, changing the watermark, and changing the repair without its
\* boundary keep that.
LEMMA FineAppend ==
    ASSUME NEW s, Fine(s), NEW a \in Actions, NEW n, n = [s EXCEPT !.acts = Append(s.acts, a)]
    PROVE  Fine(n) /\ n.acts = Append(s.acts, a) /\ n.repair = s.repair /\ n.pending = s.pending
<1>1. s \in Sessions /\ s.acts \in Seq(Actions) /\ Len(s.acts) \in Nat
  BY DEF Fine, Sessions
<1>2. Append(s.acts, a) \in Seq(Actions) /\ Len(Append(s.acts, a)) = Len(s.acts) + 1
  BY <1>1
<1>3. s.repair # None => s.repair.boundary \in Nat
  BY <1>1 DEF Sessions, Repairs
<1>4. n \in Sessions /\ n.acts = Append(s.acts, a) /\ n.repair = s.repair /\ n.pending = s.pending
  BY <1>1, <1>2 DEF Sessions
<1>5. n # None
  BY <1>4, RepairAssumption
<1>6. QED
  BY <1>1, <1>2, <1>3, <1>4, <1>5 DEF Fine

LEMMA FinePending ==
    ASSUME NEW s, Fine(s), NEW w \in Watermarks \cup {None}, NEW n, n = [s EXCEPT !.pending = w]
    PROVE  Fine(n) /\ n.acts = s.acts /\ n.repair = s.repair /\ n.pending = w
<1>1. n \in Sessions /\ n.acts = s.acts /\ n.repair = s.repair /\ n.pending = w
  BY DEF Sessions, Fine
<1>2. QED
  BY <1>1, RepairAssumption DEF Fine

LEMMA FineRepair ==
    ASSUME NEW s, Fine(s), s.repair # None, NEW r \in Repairs, r.boundary = s.repair.boundary,
           NEW n, n = [s EXCEPT !.repair = r]
    PROVE  Fine(n) /\ n.acts = s.acts /\ n.repair = r /\ n.pending = s.pending
<1>1. n \in Sessions /\ n.acts = s.acts /\ n.repair = r /\ n.pending = s.pending
  BY DEF Sessions, Fine
<1>2. QED
  BY <1>1, RepairAssumption DEF Fine

\* A replay keeps the record but for the watermark and the repair's status.
ReplayEffect(from, save, path, force) ==
    /\ run = None /\ closing = None /\ daemon \in {"up", "stopping"}
    /\ UNCHANGED <<stored, closing, files, daemon, endsWithClose>>
    /\ calls' = calls + 1 /\ tombs' \subseteq tombs
    /\ ~stored => session' = None
    /\ stored =>
          /\ Fine(session) /\ Fine(session') /\ session'.acts = session.acts
          /\ session'.repair = None <=> session.repair = None
          /\ session'.pending = IF Expected(from) THEN None ELSE session.pending
          /\ session.repair # None =>
                /\ session'.repair.boundary = session.repair.boundary
                /\ session'.repair.path = session.repair.path
                /\ session'.repair.force = session.repair.force
                /\ session'.repair.receipt = session.repair.receipt
    /\ \/ /\ UNCHANGED run /\ UNCHANGED history
          /\ stored /\ session.repair # None => session'.repair = session.repair
       \/ /\ run' = [at |-> IF from = 0 THEN 1 ELSE from, save |-> save,
                     path |-> path, force |-> force, first |-> TRUE]
          /\ run' \in Legs /\ run' # None
          /\ stored /\ session.repair # None => session'.repair.status = "armed"
          /\ outstanding' = IF ~Repairing(Live) \/ Skips(from) THEN None ELSE outstanding
          /\ finished' = FALSE
          /\ closedAs' = IF ~Repairing(Live) THEN None ELSE closedAs
          /\ granted' = (IF ~Repairing(Live) THEN {} ELSE granted)
                           \cup (IF force THEN {TargetOf(path)} ELSE {})
          /\ ended' = IF ~Repairing(Live) THEN "no" ELSE ended
          /\ UNCHANGED written

LEMMA ReplayFacts ==
    ASSUME RepairTypeOK, NEW from \in 0 .. PlanLength + 1, NEW save \in BOOLEAN,
           NEW path \in Targets \cup {None}, NEW force \in BOOLEAN,
           Replay(from, save, path, force)
    PROVE  ReplayEffect(from, save, path, force)
<1> DEFINE s == IF Expected(from) THEN [session EXCEPT !.pending = None] ELSE Live
           refused == save /\ Taken(path, force)
           leg == [at |-> IF from = 0 THEN 1 ELSE from, save |-> save,
                   path |-> path, force |-> force, first |-> TRUE]
<1>1. /\ run = None /\ closing = None /\ daemon \in {"up", "stopping"}
      /\ UNCHANGED <<stored, closing, files, daemon, endsWithClose>>
      /\ calls' = calls + 1
  BY DEF Replay, Free, Called
<1>2. tombs' \subseteq tombs
  BY DEF Replay, Cleared
<1>3. ~stored => ~Expected(from) /\ s = None /\ ~Repairing(s) /\ Live = None
  BY DEF Expected, Pending, Live, Repairing
<1>4. stored =>
        /\ Fine(session) /\ Fine(s) /\ s.acts = session.acts /\ s.repair = session.repair
        /\ s.pending = IF Expected(from) THEN None ELSE session.pending
  <2>1. SUFFICES ASSUME stored
                 PROVE  /\ Fine(session) /\ Fine(s) /\ s.acts = session.acts
                        /\ s.repair = session.repair
                        /\ s.pending = IF Expected(from) THEN None ELSE session.pending
    OBVIOUS
  <2>2. Fine(session) /\ Live = session
    BY <2>1 DEF RepairTypeOK, Fine, Live, Repairing
  <2>3. CASE Expected(from)
    <3>1. s = [session EXCEPT !.pending = None]
      BY <2>3
    <3> HIDE DEF s
    <3>2. QED
      BY <2>2, <2>3, <3>1, FinePending
  <2>4. CASE ~Expected(from)
    BY <2>2, <2>4
  <2>5. QED
    BY <2>3, <2>4
<1>5. leg \in Legs /\ leg # None
  <2>1. leg \in Legs
    BY RepairAssumption DEF Legs
  <2>2. QED
    BY <2>1, RepairAssumption
<1>6. IF refused
      THEN session' = s /\ UNCHANGED <<run, history>>
      ELSE /\ session' = IF Repairing(s) THEN [s EXCEPT !.repair = Demote(@)] ELSE s
           /\ run' = leg
           /\ outstanding' = IF ~Repairing(Live) \/ Skips(from) THEN None ELSE outstanding
           /\ finished' = FALSE
           /\ closedAs' = IF ~Repairing(Live) THEN None ELSE closedAs
           /\ granted' = (IF ~Repairing(Live) THEN {} ELSE granted)
                            \cup (IF force THEN {TargetOf(path)} ELSE {})
           /\ ended' = IF ~Repairing(Live) THEN "no" ELSE ended
           /\ UNCHANGED written
  BY DEF Replay
<1> HIDE DEF s, refused
<1>7. CASE refused
  <2>1. session' = s /\ UNCHANGED run /\ UNCHANGED history
    BY <1>6, <1>7
  <2>2. QED
    BY <1>1, <1>2, <1>3, <1>4, <2>1 DEF ReplayEffect
<1>8. CASE ~refused
  <2>1. CASE stored /\ session.repair # None
    <3>1. session.repair \in Repairs
      BY <1>4, <2>1 DEF Fine, Sessions
    <3>2. Demote(session.repair) \in Repairs
          /\ Demote(session.repair) = [session.repair EXCEPT !.status = "armed"]
      BY <3>1 DEF Demote, Repairs
    <3>3. /\ Demote(session.repair).status = "armed"
          /\ Demote(session.repair).boundary = session.repair.boundary
          /\ Demote(session.repair).path = session.repair.path
          /\ Demote(session.repair).force = session.repair.force
          /\ Demote(session.repair).receipt = session.repair.receipt
          /\ Demote(session.repair) # None
      BY <3>1, <3>2, RepairAssumption DEF Repairs
    <3>4. session' = [s EXCEPT !.repair = Demote(session.repair)]
      BY <1>4, <1>6, <1>8, <2>1 DEF Repairing, Fine
    <3>5. /\ Fine(session') /\ session'.acts = s.acts /\ session'.pending = s.pending
          /\ session'.repair = Demote(session.repair)
      <4>1. s.repair # None /\ Fine(s) /\ s.repair = session.repair
        BY <1>4, <2>1
      <4> DEFINE r == Demote(session.repair)
      <4>2. r \in Repairs /\ r.boundary = s.repair.boundary
        BY <3>2, <3>3, <4>1
      <4>3. session' = [s EXCEPT !.repair = r]
        BY <3>4
      <4> HIDE DEF r
      <4>4. Fine(session') /\ session'.acts = s.acts /\ session'.pending = s.pending
            /\ session'.repair = r
        BY <4>1, <4>2, <4>3, FineRepair
      <4>5. QED
        BY <4>4 DEF r
    <3>6. QED
      BY <1>1, <1>2, <1>4, <1>5, <1>6, <1>8, <2>1, <3>3, <3>5 DEF ReplayEffect
  <2>2. CASE ~(stored /\ session.repair # None)
    <3>1. session' = s
      BY <1>3, <1>4, <1>6, <1>8, <2>2 DEF Repairing
    <3>2. QED
      BY <1>1, <1>2, <1>3, <1>4, <1>5, <1>6, <1>8, <2>2, <3>1 DEF ReplayEffect
  <2>3. QED
    BY <2>1, <2>2
<1>9. QED
  BY <1>7, <1>8

\* A leg that goes on to its next step is a leg.
LEMMA NextLeg ==
    ASSUME NEW l \in Legs, l.at <= PlanLength,
           NEW n, n = [l EXCEPT !.at = l.at + 1, !.first = FALSE]
    PROVE  n \in Legs /\ n # None
<1>1. l.at \in Nat /\ 1 <= l.at /\ PlanLength \in Nat
  BY RepairAssumption DEF Legs
<1>2. l.at + 1 \in 1 .. PlanLength + 1
  BY <1>1
<1>3. n \in Legs
  BY <1>2 DEF Legs
<1>4. QED
  BY <1>3, RepairAssumption

\* What the steps of a leg do to the record.
LEMMA StepSucceedsFacts ==
    ASSUME RepairTypeOK, StepSucceeds
    PROVE  /\ run # None /\ closing = None /\ run.at \in 1 .. PlanLength
           /\ ~(endsWithClose /\ run.at = PlanLength)
           /\ run' \in Legs /\ run' # None /\ stored' = TRUE
           /\ run' = [run EXCEPT !.at = @ + 1, !.first = FALSE]
           /\ ~stored => /\ run.at = 1 /\ Fine(session')
                         /\ session'.acts = <<Within>> /\ session'.repair = None
                         /\ session'.pending = None
           /\ stored => /\ Rearmed(session') /\ Unfinished(session')
                        /\ session'.acts = Append(session.acts, Within)
                        /\ session'.pending = session.pending
<1>1. run # None /\ run \in Legs /\ run.at \in 1 .. PlanLength /\ closing = None
      /\ ~(endsWithClose /\ run.at = PlanLength)
  BY DEF StepSucceeds, Dispatches, RepairTypeOK, Steps
<1>2. /\ run' = [run EXCEPT !.at = @ + 1, !.first = FALSE] /\ stored' = TRUE
  BY DEF StepSucceeds
<1>3. run' \in Legs /\ run' # None
  <2>1. run.at <= PlanLength
    BY <1>1, RepairAssumption
  <2>2. QED
    BY <1>1, <1>2, <2>1, NextLeg
<1>4. CASE ~stored
  <2>1. run.at = 1 /\ session' = [acts |-> <<Within>>, repair |-> None, pending |-> None]
    BY <1>4 DEF StepSucceeds, Live
  <2>2. <<Within>> \in Seq(Actions)
    BY DEF Actions
  <2>3. session' \in Sessions
    BY <2>1, <2>2 DEF Sessions
  <2>4. QED
    BY <1>1, <1>2, <1>3, <1>4, <2>1, <2>3, RepairAssumption DEF Fine
<1>5. CASE stored
  <2>1. Rearmed(Armed) /\ Unfinished(Armed) /\ Armed.acts = session.acts
        /\ Armed.pending = session.pending
    BY <1>1, <1>5, ArmedFacts
  <2> DEFINE a == Armed
  <2>2. session' = [a EXCEPT !.acts = Append(a.acts, Within)]
    BY <1>5 DEF StepSucceeds, Live, RepairTypeOK
  <2>3. Fine(a) /\ Within \in Actions
    BY <2>1 DEF Rearmed, Actions
  <2> HIDE DEF a
  <2>4. Fine(session') /\ session'.acts = Append(a.acts, Within)
        /\ session'.repair = a.repair /\ session'.pending = a.pending
    BY <2>2, <2>3, FineAppend
  <2>5. QED
    BY <1>1, <1>2, <1>3, <1>5, <2>1, <2>4, RepairAssumption DEF Rearmed, Unfinished, a
<1>6. QED
  BY <1>4, <1>5 DEF RepairTypeOK

LEMMA StepDivergesFacts ==
    ASSUME RepairTypeOK, NEW hint \in Hints, StepDiverges(hint)
    PROVE  /\ run # None /\ closing = None /\ run.at \in 1 .. PlanLength
           /\ ~(endsWithClose /\ run.at = PlanLength)
           /\ run' = None
           /\ ~stored => session' = session /\ outstanding' = None
           /\ stored => /\ Rearmed(session') /\ Unfinished(session')
                        /\ session'.acts = session.acts
                        /\ outstanding' = [at |-> run.at, owed |-> Owed(hint, run.at)]
                        /\ outstanding' \in Divergences
                        /\ session'.pending =
                              IF Owed(hint, run.at)
                              THEN [from |-> run.at + 1, count |-> Len(session.acts)] ELSE None
<1>1. run # None /\ run \in Legs /\ run.at \in 1 .. PlanLength /\ closing = None /\ run' = None
      /\ ~(endsWithClose /\ run.at = PlanLength)
  BY DEF StepDiverges, Dispatches, RepairTypeOK, Steps
<1>2. CASE ~stored
  BY <1>1, <1>2 DEF StepDiverges, Live
<1>3. CASE stored
  <2> DEFINE a == Armed
             w == IF Owed(hint, run.at)
                  THEN [from |-> run.at + 1, count |-> Len(session.acts)] ELSE None
  <2>1. Rearmed(a) /\ Unfinished(a) /\ a.acts = session.acts
    BY <1>1, <1>3, ArmedFacts
  <2>2. session \in Sessions /\ session # None /\ Live = session
    BY <1>3 DEF RepairTypeOK, Live
  <2>3. w \in Watermarks \cup {None}
    BY <1>1, <2>2, RepairAssumption DEF Watermarks, Sessions
  <2>4. session' = [a EXCEPT !.pending = w]
    BY <2>2 DEF StepDiverges, Watermark
  <2>5. /\ outstanding' = [at |-> run.at, owed |-> Owed(hint, run.at)]
        /\ Owed(hint, run.at) \in BOOLEAN
    BY <2>2 DEF StepDiverges, Owed
  <2>6. Fine(a)
    BY <2>1 DEF Rearmed
  <2> HIDE DEF a, w
  <2>7. Fine(session') /\ session'.acts = a.acts /\ session'.repair = a.repair
        /\ session'.pending = w
    BY <2>3, <2>4, <2>6, FinePending
  <2>8. outstanding' \in Divergences
    BY <1>1, <2>5, RepairAssumption DEF Divergences, Steps
  <2>9. Rearmed(session') /\ Unfinished(session')
    BY <2>1, <2>7 DEF Rearmed, Unfinished
  <2>10. QED
    BY <1>1, <1>3, <2>1, <2>5, <2>7, <2>8, <2>9 DEF w
<1>4. QED
  BY <1>2, <1>3 DEF RepairTypeOK

LEMMA CloseSuppressedFacts ==
    ASSUME RepairTypeOK, CloseSuppressed
    PROVE  /\ run # None /\ closing = None /\ run.at = PlanLength /\ endsWithClose
           /\ run' \in Legs /\ run' # None
           /\ run' = [run EXCEPT !.at = @ + 1, !.first = FALSE]
           /\ ~stored => session' = session
           /\ stored => /\ Rearmed(session') /\ Unfinished(session')
                        /\ session'.acts = session.acts /\ session'.pending = session.pending
<1>1. /\ run # None /\ closing = None /\ run \in Legs /\ run.at = PlanLength /\ endsWithClose
      /\ run' = [run EXCEPT !.at = @ + 1, !.first = FALSE]
      /\ session' = IF Live = None THEN session ELSE Armed
  BY DEF CloseSuppressed, RepairTypeOK
<1>2. run' \in Legs /\ run' # None
  <2>1. run.at <= PlanLength
    BY <1>1, RepairAssumption
  <2>2. QED
    BY <1>1, <2>1, NextLeg
<1>3. stored => Live # None
  BY DEF Live, RepairTypeOK
<1>4. ~stored => Live = None
  BY DEF Live
<1>5. QED
  BY <1>1, <1>2, <1>3, <1>4, ArmedFacts

LEMMA RunEndsFacts ==
    ASSUME RepairTypeOK, RunEnds
    PROVE  /\ run # None /\ closing = None /\ run.at = PlanLength + 1 /\ run' = None
           /\ finished' = TRUE
           /\ ~stored => session' = session
           /\ stored => /\ Rearmed(session')
                        /\ session'.acts = session.acts /\ session'.pending = session.pending
                        /\ session.repair # None /\ session.repair.status # "armed" =>
                              session'.repair.status = session.repair.status
                        /\ session'.repair # None => session'.repair.status # "armed"
                        /\ session'.repair # None /\ Ended(session') =>
                              session.repair # None /\ Ended(session)
<1>1. /\ run # None /\ closing = None /\ run \in Legs /\ run.at = PlanLength + 1 /\ run' = None
      /\ finished' = TRUE
      /\ session' = IF Repairing(Armed) THEN [Armed EXCEPT !.repair = MarkComplete(@)] ELSE session
  BY DEF RunEnds, RepairTypeOK
<1>2. CASE ~stored
  <2>1. Armed = None
    BY <1>2 DEF Armed, Live
  <2>2. QED
    BY <1>1, <1>2, <2>1 DEF Repairing
<1>3. CASE stored
  <2> DEFINE a == Armed
  <2>1. Rearmed(a) /\ Unfinished(a) /\ a.acts = session.acts /\ a.pending = session.pending
    BY <1>1, <1>3, ArmedFacts
  <2>2. Fine(a) /\ Live = session /\ Live # None
    BY <1>3, <2>1 DEF Rearmed, Live, RepairTypeOK
  <2>3. CASE a.repair = None
    <3>1. a = session /\ session' = session
      <4>1. session' = session
        BY <1>1, <2>3 DEF Repairing
      <4>2. ~run.save
        BY <2>1, <2>3 DEF Rearmed
      <4>3. QED
        BY <2>2, <4>1, <4>2 DEF Armed
    <3> HIDE DEF a
    <3>2. QED
      BY <1>1, <1>3, <2>1, <2>3, <3>1 DEF Rearmed
  <2>4. CASE a.repair # None
    <3> DEFINE r == MarkComplete(a.repair)
    <3>1. session' = [a EXCEPT !.repair = r]
      BY <1>1, <2>2, <2>4 DEF Repairing, Fine
    <3>2. a.repair \in Repairs
      BY <2>2, <2>4 DEF Fine, Sessions
    <3> HIDE DEF a
    <3>3. /\ r \in Repairs /\ r.boundary = a.repair.boundary /\ r.receipt = a.repair.receipt
          /\ r.path = a.repair.path /\ r.force = a.repair.force /\ r # None
          /\ r.status = IF a.repair.status = "armed" THEN "complete" ELSE a.repair.status
      BY <3>2, RepairAssumption DEF MarkComplete, Repairs
    <3> HIDE DEF r
    <3>4. Fine(session') /\ session'.acts = a.acts /\ session'.repair = r
          /\ session'.pending = a.pending
      BY <2>2, <2>4, <3>1, <3>3, FineRepair
    <3>5. Rearmed(session')
      BY <2>1, <2>4, <3>3, <3>4 DEF Rearmed
    <3>6. QED
      BY <1>1, <1>3, <2>1, <2>4, <3>3, <3>4, <3>5 DEF Unfinished, Ended, Rearmed
  <2>5. QED
    BY <2>3, <2>4
<1>4. QED
  BY <1>2, <1>3 DEF RepairTypeOK

\* A close that still has to close the platform's part leaves the repair alone, one
\* that has done so before ends it, or fails.
CloseEffect(c) ==
    /\ run = None /\ closing = None /\ daemon \in {"up", "stopping"}
    /\ stored /\ Fine(session) /\ session.repair # None
    /\ c \in Closes /\ c # None /\ c.phase = "dispatching" /\ Plain(c)
    /\ UNCHANGED <<stored, run, tombs, daemon, endsWithClose, outstanding, finished>>
    /\ calls' = calls + 1
    /\ granted \subseteq granted' /\ granted' \subseteq Targets
    /\ c.force /\ ~c.quiet => ClosePath(session, c) \in granted'
    /\ \/ /\ session.repair.receipt # c.ident /\ closing' = c
          /\ UNCHANGED <<session, files, written, closedAs, ended>>
       \/ /\ session.repair.receipt = c.ident
          /\ \/ /\ CloseTook(session, c)
                /\ closedAs' = None /\ ended' = session'.repair.status
             \/ CloseLeft(session, c) /\ UNCHANGED <<closedAs, ended>>
          /\ \/ UNCHANGED <<files, written>>
             \/ /\ Wrote(session, ClosePath(session, c), c.force, c.quiet)
                /\ CloseTook(session, c)

LEMMA CloseFacts ==
    ASSUME RepairTypeOK, SomeClose
    PROVE  \E c : CloseEffect(c)
<1>1. PICK ident \in Idents, path \in Targets \cup {None}, save \in BOOLEAN,
           force \in BOOLEAN, quiet \in BOOLEAN, fails \in BOOLEAN :
               Close(ident, save, path, force, quiet, fails)
  BY DEF SomeClose
<1> DEFINE c == [ident |-> ident, save |-> save /\ ~quiet,
                 path |-> IF quiet THEN None ELSE path,
                 force |-> force, quiet |-> quiet, phase |-> "dispatching"]
<1>2. /\ run = None /\ closing = None /\ daemon \in {"up", "stopping"}
      /\ stored /\ Live = session /\ Fine(session) /\ session.repair # None
      /\ UNCHANGED <<run, tombs, daemon, endsWithClose, outstanding, finished>>
      /\ calls' = calls + 1 /\ (path # None => save)
  BY <1>1 DEF Close, Free, Called, Repairing, Live, Fine, RepairTypeOK
<1>3. c \in Closes /\ c.ident = ident /\ c.phase = "dispatching" /\ c.force = force
      /\ c.quiet = quiet /\ (quiet => ~c.save) /\ (c.path # None => c.save)
      /\ (~quiet => c.path = path)
  BY <1>2 DEF Closes
<1>4. /\ granted' = IF force THEN granted \cup {TargetOf(path)} ELSE granted
      /\ IF session.repair.receipt = ident
         THEN Publishes(session, c, fails)
         ELSE closing' = c /\ UNCHANGED <<session, stored, files, written>>
      /\ closedAs' = IF Released THEN None ELSE closedAs
      /\ ended' = IF Released THEN session'.repair.status ELSE ended
  BY <1>1 DEF Close
<1> HIDE DEF c
<1>5. c # None /\ Plain(c)
  BY <1>3, RepairAssumption DEF Plain
<1>6. /\ granted \subseteq granted' /\ granted' \subseteq Targets
      /\ c.force /\ ~c.quiet => ClosePath(session, c) \in granted'
  <2>1. TargetOf(path) \in Targets
    BY RepairAssumption DEF TargetOf, Repairing, Live, RepairTypeOK, Sessions, Repairs
  <2>2. ~quiet => ClosePath(session, c) = TargetOf(path)
    BY <1>2, <1>3 DEF TargetOf, ClosePath, Repairing, Fine
  <2>3. QED
    BY <1>3, <1>4, <2>1, <2>2 DEF RepairTypeOK
<1>7. CASE session.repair.receipt # ident
  <2>1. closing' = c /\ UNCHANGED <<session, stored, files, written>>
    BY <1>4, <1>7
  <2>2. UNCHANGED <<closedAs, ended>>
    BY <1>3, <1>4, <2>1 DEF Released
  <2>3. CloseEffect(c)
    BY <1>2, <1>3, <1>5, <1>6, <1>7, <2>1, <2>2 DEF CloseEffect
  <2>4. QED
    BY <2>3
<1>8. CASE session.repair.receipt = ident
  <2>1. /\ UNCHANGED stored
        /\ CloseTook(session, c) \/ CloseLeft(session, c)
        /\ UNCHANGED <<files, written>>
           \/ (Wrote(session, ClosePath(session, c), c.force, c.quiet) /\ CloseTook(session, c))
    BY <1>2, <1>3, <1>4, <1>5, <1>8, PublishesFacts DEF Fine
  <2>2. CASE CloseTook(session, c)
    <3>1. closing' = [c EXCEPT !.phase = "releasing"]
      BY <2>2 DEF CloseTook
    <3>2. closing' \in Closes /\ closing'.phase = "releasing"
      BY <1>3, <3>1 DEF Closes
    <3>3. closedAs' = None /\ ended' = session'.repair.status
      BY <1>4, <3>2, RepairAssumption DEF Released
    <3>4. CloseEffect(c)
      BY <1>2, <1>3, <1>5, <1>6, <1>8, <2>1, <2>2, <3>3 DEF CloseEffect
    <3>5. QED
      BY <3>4
  <2>3. CASE CloseLeft(session, c)
    <3>1. UNCHANGED <<closedAs, ended>>
      BY <1>4, <2>3 DEF CloseLeft, Released
    <3>2. CloseEffect(c)
      BY <1>2, <1>3, <1>5, <1>6, <1>8, <2>1, <2>3, <3>1 DEF CloseEffect
    <3>3. QED
      BY <3>2
  <2>4. QED
    BY <2>1, <2>2, <2>3
<1>9. QED
  BY <1>7, <1>8

\* The session whose platform close has succeeded.
Closed == [session EXCEPT !.repair = RecordClosed(@, closing.ident)]

LEMMA CloseDispatchedFacts ==
    ASSUME RepairTypeOK, Plain(closing), NEW fails \in BOOLEAN, CloseDispatched(fails)
    PROVE  /\ run = None /\ closing # None /\ closing \in Closes
           /\ closing.phase = "dispatching"
           /\ Fine(session) /\ session.repair # None
           /\ UNCHANGED <<stored, run, calls, tombs, daemon, endsWithClose, outstanding,
                          finished, granted>>
           /\ Fine(Closed) /\ Closed.acts = session.acts /\ Closed.pending = session.pending
           /\ Closed.repair # None
           /\ Closed.repair.boundary = session.repair.boundary
           /\ Closed.repair.path = session.repair.path
           /\ Closed.repair.force = session.repair.force
           /\ Closed.repair.receipt = closing.ident
           /\ Committable(Closed) <=> Committable(session)
           /\ \/ /\ CloseTook(Closed, closing)
                 /\ closedAs' = None /\ ended' = session'.repair.status
              \/ CloseLeft(Closed, closing) /\ closedAs' = closing.ident /\ ended' = ended
           /\ \/ UNCHANGED <<files, written>>
              \/ Wrote(Closed, ClosePath(Closed, closing), closing.force, closing.quiet)
                 /\ CloseTook(Closed, closing)
<1> DEFINE r == RecordClosed(session.repair, closing.ident)
<1>1. /\ closing # None /\ closing.phase = "dispatching" /\ closing \in Closes /\ run = None
      /\ Fine(session) /\ session.repair # None /\ closing.ident \in Idents
      /\ UNCHANGED <<run, calls, tombs, daemon, endsWithClose, outstanding, finished, granted>>
  BY DEF CloseDispatched, RepairTypeOK, Repairing, Fine, Closes
<1>2. /\ Publishes(Closed, closing, fails)
      /\ closedAs' = IF Released THEN None ELSE closing.ident
      /\ ended' = IF Released THEN session'.repair.status ELSE ended
  BY DEF CloseDispatched, Closed
<1>3. session.repair \in Repairs
  BY <1>1 DEF Fine, Sessions
<1>4. /\ r \in Repairs /\ r # None
      /\ r.receipt = closing.ident /\ r.boundary = session.repair.boundary
      /\ r.path = session.repair.path /\ r.force = session.repair.force
      /\ r.status = IF session.repair.status = "complete"
                    THEN "close-succeeded" ELSE session.repair.status
  BY <1>1, <1>3, StatusFacts, RepairAssumption
<1>5. Closed = [session EXCEPT !.repair = r]
  BY DEF Closed
<1> HIDE DEF r
<1>6. Fine(Closed) /\ Closed.acts = session.acts /\ Closed.repair = r
      /\ Closed.pending = session.pending
  BY <1>1, <1>4, <1>5, FineRepair
<1>7. Committable(Closed) <=> Committable(session)
  BY <1>4, <1>6 DEF Committable
<1>8. /\ UNCHANGED stored
      /\ CloseTook(Closed, closing) \/ CloseLeft(Closed, closing)
      /\ UNCHANGED <<files, written>>
         \/ (/\ Wrote(Closed, ClosePath(Closed, closing), closing.force, closing.quiet)
             /\ CloseTook(Closed, closing))
  BY <1>1, <1>2, <1>4, <1>6, PublishesFacts DEF Fine
<1>9. CASE CloseTook(Closed, closing)
  <2>1. closing' = [closing EXCEPT !.phase = "releasing"]
    BY <1>9 DEF CloseTook
  <2>2. closing' \in Closes /\ closing'.phase = "releasing"
    BY <1>1, <2>1 DEF Closes
  <2>3. closedAs' = None /\ ended' = session'.repair.status
    BY <1>2, <2>2, RepairAssumption DEF Released
  <2>4. QED
    BY <1>1, <1>4, <1>6, <1>7, <1>8, <1>9, <2>3
<1>10. CASE CloseLeft(Closed, closing)
  <2>1. closedAs' = closing.ident /\ ended' = ended
    BY <1>2, <1>10 DEF CloseLeft, Released
  <2>2. QED
    BY <1>1, <1>4, <1>6, <1>7, <1>8, <1>10, <2>1
<1>11. QED
  BY <1>8, <1>9, <1>10

\* The two outcomes of a close, as far as the invariant is concerned.
LEMMA TookFacts ==
    ASSUME NEW s, Fine(s), s.repair # None, NEW c \in Closes, CloseTook(s, c)
    PROVE  /\ closing' \in Closes /\ closing' # None /\ closing'.phase = "releasing"
           /\ closing'.path = c.path /\ closing'.force = c.force /\ closing'.save = c.save
           /\ closing'.quiet = c.quiet
           /\ Fine(session') /\ session'.repair # None /\ Ended(session')
           /\ ~Committable(session') /\ session'.repair.status \in {"committed", "aborted"}
           /\ session'.acts = ActsAfter(s, c.quiet)
           /\ session'.repair.boundary = s.repair.boundary
           /\ session'.repair.path = ClosePath(s, c)
           /\ session'.repair.force =>
                 (c.force /\ ~c.quiet) \/ (s.repair.force /\ session'.repair.path = s.repair.path)
<1>1. closing' = [c EXCEPT !.phase = "releasing"]
  BY DEF CloseTook
<1>2. closing' \in Closes /\ closing'.phase = "releasing" /\ closing'.quiet = c.quiet
      /\ closing'.path = c.path /\ closing'.force = c.force /\ closing'.save = c.save
  BY <1>1 DEF Closes
<1>3. s.acts \in Seq(Actions) /\ s.repair \in Repairs /\ s.repair.boundary \in Nat
      /\ s.repair.boundary <= Len(s.acts) /\ Len(s.acts) \in Nat
  BY DEF Fine, Sessions, Repairs
<1>4. Len(Append(s.acts, CloseLine)) = Len(s.acts) + 1
  BY <1>3
<1>5. s.repair.boundary <= Len(ActsAfter(s, c.quiet))
  BY <1>3, <1>4 DEF ActsAfter
<1>6. Fine(session')
  BY <1>5 DEF CloseTook, Fine
<1>7. QED
  BY <1>2, <1>6, RepairAssumption DEF CloseTook, Ended, Committable

LEMMA LeftFacts ==
    ASSUME NEW s, Fine(s), s.repair # None, NEW c, CloseLeft(s, c)
    PROVE  /\ closing' = None
           /\ ~(stored \/ daemon = "tearing") => session' = None
           /\ stored \/ daemon = "tearing" =>
                 /\ Fine(session') /\ session'.repair # None
                 /\ ~Ended(session') /\ Committable(session')
                 /\ session'.acts = s.acts /\ session'.pending = s.pending
                 /\ session'.repair.boundary = s.repair.boundary
                 /\ session'.repair.receipt = s.repair.receipt
                 /\ session'.repair.path = ClosePath(s, c)
                 /\ session'.repair.force =>
                       \/ c.force /\ ~c.quiet
                       \/ s.repair.force /\ session'.repair.path = s.repair.path
<1>1. closing' = None /\ Committable(s)
  BY DEF CloseLeft
<1>2. PICK t \in Sessions :
          /\ session' = Kept(t) /\ t # None
          /\ t.acts = s.acts /\ t.pending = s.pending
          /\ t.repair \in Repairs /\ t.repair # None
          /\ t.repair.status = s.repair.status /\ t.repair.receipt = s.repair.receipt
          /\ t.repair.boundary = s.repair.boundary /\ t.repair.path = ClosePath(s, c)
          /\ t.repair.force =>
                (c.force /\ ~c.quiet) \/ (s.repair.force /\ t.repair.path = s.repair.path)
  BY DEF CloseLeft
<1>3. session' = IF stored \/ daemon = "tearing" THEN t ELSE None
  BY <1>2 DEF Kept, Dropped
<1>4. Fine(t) /\ ~Ended(t) /\ Committable(t)
  BY <1>1, <1>2 DEF Fine, Ended, Committable
<1>5. QED
  BY <1>1, <1>2, <1>3, <1>4

\* Types are kept by every step.
LEMMA TypeStep ==
    ASSUME RepairTypeOK, Present, [Next]_vars
    PROVE  RepairTypeOK'
<1> DEFINE Shape ==
             /\ session' \in Sessions \cup {None} /\ stored' \in BOOLEAN
             /\ stored' => session' # None
             /\ Repairing(session') => session'.repair.boundary <= Len(session'.acts)
           Requests ==
             /\ run' \in Legs \cup {None} /\ closing' \in Closes \cup {None} /\ calls' \in Nat
             /\ closing' # None => Repairing(session') /\ run' = None
           Others ==
             /\ files' \subseteq Targets /\ granted' \subseteq Targets
             /\ tombs' \subseteq {Key, Public}
             /\ daemon' \in {"up", "stopping", "tearing", "ending", "down"}
             /\ endsWithClose' \in BOOLEAN
             /\ outstanding' \in Divergences \cup {None} /\ finished' \in BOOLEAN
             /\ closedAs' \in Idents \cup {None} /\ ended' \in {"no", "committed", "aborted"}
<1>1. SUFFICES Shape /\ Requests /\ Others
  BY DEF RepairTypeOK
<1>2. Fine(session') => Shape \/ stored' \notin BOOLEAN
  BY DEF Fine, Repairing
<1>3. session' = None /\ stored' = FALSE => Shape
  BY DEF Repairing
<1>4. stored => Fine(session)
  BY DEF RepairTypeOK, Fine, Repairing
<1> HIDE DEF Shape
<1>5. CASE Open
  <2>1. <<Earlier>> \in Seq(Actions)
    BY DEF Actions
  <2>2. session' \in Sessions /\ session'.repair = None
    BY <1>5, <2>1 DEF Open, Sessions
  <2>3. Shape
    BY <1>2, <1>5, <2>2, RepairAssumption DEF Open, Fine
  <2>4. QED
    BY <1>5, <2>3 DEF Open, Free, requests, history, RepairTypeOK
<1>6. CASE Act
  <2>1. stored /\ Fine(session) /\ Live = session
    BY <1>4, <1>6 DEF Act, Live
  <2> DEFINE a == IF Repairing(session) THEN Within ELSE Earlier
  <2>2. session' = [session EXCEPT !.acts = Append(session.acts, a)] /\ a \in Actions
    BY <1>6 DEF Act, Actions
  <2> HIDE DEF a
  <2>3. Fine(session')
    BY <2>1, <2>2, FineAppend
  <2>4. QED
    BY <1>2, <1>6, <2>3 DEF Act, Free, requests, RepairTypeOK
<1>7. CASE OrdinaryClose
  BY <1>3, <1>7 DEF OrdinaryClose, Free, Forgotten, requests, RepairTypeOK
<1>8. CASE \E from \in 0 .. PlanLength + 1, save, force \in BOOLEAN,
            path \in Targets \cup {None} : Replay(from, save, path, force)
  <2>1. PICK from \in 0 .. PlanLength + 1, save \in BOOLEAN, force \in BOOLEAN,
             path \in Targets \cup {None} : Replay(from, save, path, force)
    BY <1>8
  <2>2. ReplayEffect(from, save, path, force)
    BY <2>1, ReplayFacts, Zenon
  <2>3. Shape
    BY <1>2, <1>3, <2>2 DEF ReplayEffect, RepairTypeOK
  <2>4. TargetOf(path) \in Targets
    BY RepairAssumption DEF TargetOf, Repairing, Live, RepairTypeOK, Sessions, Repairs
  <2>5. Others
    BY <2>2, <2>4 DEF ReplayEffect, history, RepairTypeOK
  <2>6. Requests
    BY <2>2 DEF ReplayEffect, RepairTypeOK
  <2>7. QED
    BY <2>3, <2>5, <2>6
<1>9. CASE StepSucceeds
  <2>1. Shape
    BY <1>2, <1>9, StepSucceedsFacts DEF Rearmed, RepairTypeOK
  <2>2. QED
    BY <1>9, <2>1, StepSucceedsFacts DEF StepSucceeds, RepairTypeOK
<1>10. CASE \E hint \in Hints : StepDiverges(hint)
  <2>1. PICK hint \in Hints : StepDiverges(hint)
    BY <1>10
  <2>2. UNCHANGED <<stored, closing, calls, files, tombs, daemon, endsWithClose,
                    finished, closedAs, granted, ended, written>>
    BY <2>1 DEF StepDiverges
  <2>3. Shape
    BY <1>2, <2>1, <2>2, StepDivergesFacts DEF Rearmed, RepairTypeOK, Shape
  <2>4. QED
    BY <2>1, <2>2, <2>3, StepDivergesFacts DEF RepairTypeOK
<1>11. CASE CloseSuppressed
  <2>1. Shape
    BY <1>2, <1>11, CloseSuppressedFacts DEF CloseSuppressed, Rearmed, RepairTypeOK, Shape
  <2>2. QED
    BY <1>11, <2>1, CloseSuppressedFacts DEF CloseSuppressed, history, RepairTypeOK
<1>12. CASE RunEnds
  <2>1. Shape
    BY <1>2, <1>12, RunEndsFacts DEF RunEnds, Rearmed, RepairTypeOK, Shape
  <2>2. QED
    BY <1>12, <2>1, RunEndsFacts DEF RunEnds, RepairTypeOK
<1>13. CASE SomeClose
  <2>1. PICK c : CloseEffect(c)
    BY <1>13, CloseFacts
  <2>2. /\ run = None /\ closing = None /\ stored /\ Fine(session) /\ session.repair # None
        /\ c \in Closes /\ c # None
        /\ UNCHANGED <<stored, run, tombs, daemon, endsWithClose, outstanding, finished>>
        /\ calls' = calls + 1 /\ granted' \subseteq Targets
        /\ \/ closing' = c /\ UNCHANGED <<session, files, closedAs, ended>>
           \/ CloseTook(session, c) /\ closedAs' = None /\ ended' = session'.repair.status
           \/ CloseLeft(session, c) /\ UNCHANGED <<closedAs, ended>>
        /\ UNCHANGED files \/ Wrote(session, ClosePath(session, c), c.force, c.quiet)
    BY <2>1 DEF CloseEffect
  <2>3. CloseTook(session, c) => session'.repair.status \in {"committed", "aborted"}
    BY DEF CloseTook
  <2>4. Others
    BY <2>2, <2>3 DEF RepairTypeOK, Wrote
  <2>5. CASE closing' = c /\ UNCHANGED session
    BY <1>2, <2>2, <2>4, <2>5 DEF RepairTypeOK, Repairing, Fine
  <2>6. CASE CloseTook(session, c)
    BY <1>2, <2>2, <2>4, <2>6, TookFacts DEF RepairTypeOK, Repairing, Fine
  <2>7. CASE CloseLeft(session, c)
    <3>1. closing' = None /\ Fine(session')
      BY <2>2, <2>7, LeftFacts
    <3>2. QED
      BY <1>2, <2>2, <2>4, <3>1 DEF RepairTypeOK
  <2>8. QED
    BY <2>2, <2>5, <2>6, <2>7
<1>14. CASE CloseFails
  BY <1>14 DEF CloseFails, Kept, Dropped, Shape, history, RepairTypeOK, Repairing
<1>15. CASE \E fails \in BOOLEAN : CloseDispatched(fails)
  <2>1. PICK fails \in BOOLEAN : CloseDispatched(fails)
    BY <1>15
  <2> DEFINE s == Closed
  <2>2. closing # None /\ Plain(closing)
    BY <2>1 DEF CloseDispatched, Present
  <2>3. /\ run = None /\ closing \in Closes /\ Fine(s) /\ s.repair # None
        /\ UNCHANGED <<stored, run, calls, tombs, daemon, endsWithClose, outstanding,
                       finished, granted>>
        /\ \/ CloseTook(s, closing) /\ closedAs' = None /\ ended' = session'.repair.status
           \/ CloseLeft(s, closing) /\ closedAs' = closing.ident /\ ended' = ended
        /\ UNCHANGED files \/ Wrote(s, ClosePath(s, closing), closing.force, closing.quiet)
    BY <2>1, <2>2, CloseDispatchedFacts
  <2> HIDE DEF s
  <2>4. Others
    BY <2>3 DEF RepairTypeOK, Wrote, Closes, CloseTook
  <2>5. CASE CloseTook(s, closing)
    BY <1>2, <2>3, <2>4, <2>5, TookFacts DEF RepairTypeOK, Repairing, Fine
  <2>6. CASE CloseLeft(s, closing)
    <3>1. /\ closing' = None /\ (stored \/ daemon = "tearing" => Fine(session'))
          /\ ~(stored \/ daemon = "tearing") => session' = None
      BY <2>3, <2>6, LeftFacts
    <3>2. Shape
      BY <1>2, <1>3, <2>3, <3>1 DEF RepairTypeOK
    <3>3. QED
      BY <2>3, <2>4, <3>1, <3>2 DEF RepairTypeOK
  <2>7. QED
    BY <2>3, <2>5, <2>6
<1>16. CASE CloseEnds
  BY <1>16 DEF CloseEnds, Dropped, Forgotten, Shape, history, RepairTypeOK, Repairing
<1>17. CASE ReleaseFails
  BY <1>17 DEF ReleaseFails, Kept, Dropped, Shape, history, RepairTypeOK, Repairing
<1>18. CASE \E fails \in BOOLEAN : Finalize(fails)
  <2>1. PICK fails \in BOOLEAN : Finalize(fails)
    BY <1>18
  <2>2. stored' => stored
    BY <2>1, FinalizeFacts
  <2>3. CASE session' = None
    BY <2>1, <2>3, FinalizeFacts DEF RepairTypeOK, Wrote, Repairing, Sessions, Repairs, Shape
  <2>4. CASE session' # None
    <3>1. session # None /\ session' \in Sessions
      BY <2>1, <2>2, <2>4, FinalizeFacts DEF RepairTypeOK, Repairing
    <3>2. Fine(session) /\ Len(session.acts) \in Nat /\ Len(session'.acts) \in Nat
          /\ (session.repair # None => session.repair.boundary \in Nat)
      BY <3>1 DEF RepairTypeOK, Fine, Repairing, Sessions, Repairs
    <3>3. /\ session'.repair = None <=> session.repair = None
          /\ session.repair # None =>
                /\ session'.repair.boundary = session.repair.boundary
                /\ Len(session.acts) <= Len(session'.acts)
      BY <2>1, <2>4, <3>1, FinalizeFacts DEF Repairing
    <3>4. Fine(session')
      BY <2>4, <3>1, <3>2, <3>3 DEF Fine
    <3>5. closing # None => Repairing(session')
      BY <2>4, <3>1, <3>3 DEF RepairTypeOK, Repairing
    <3>6. Shape
      BY <1>2, <2>1, <3>4, FinalizeFacts
    <3>7. QED
      BY <2>1, <3>5, <3>6, FinalizeFacts DEF RepairTypeOK, Wrote
  <2>5. QED
    BY <2>3, <2>4
<1>19. CASE Gone
  BY <1>3, <1>19 DEF Gone, Forgotten, RepairTypeOK
<1>20. CASE Aside
  BY <1>20 DEF Aside, Shape, RepairTypeOK
<1>21. QED
  BY <1>5, <1>6, <1>7, <1>8, <1>9, <1>10, <1>11, <1>12, <1>13, <1>14, <1>15, <1>16, <1>17,
     <1>18, <1>19, <1>20, StepKinds, Zenon

-----------------------------------------------------------------------------
(* The receipt of a platform close *)

LEMMA RecordsStep ==
    ASSUME Records, [Next]_vars
    PROVE  Records'
<1>1. RepairTypeOK /\ Present /\ Receipts /\ CloseDispatchedOnce
  BY DEF Records
<1>2. RepairTypeOK'
  BY <1>1, TypeStep
<1> DEFINE Goal == Present' /\ Receipts' /\ CloseDispatchedOnce'
<1>3. SUFFICES Goal
  BY <1>2 DEF Records
<1>4. None \notin Idents /\ None \notin Closes
  BY RepairAssumption
<1>5. closing # None => closing.ident \in Idents
  BY <1>1 DEF RepairTypeOK, Closes
<1> USE DEF Present, Receipts, CloseDispatchedOnce, Repairing, Ended
<1>6. CASE Open
  BY <1>1, <1>6 DEF Open, Free, Live, requests, history, RepairTypeOK
<1>7. CASE Act
  <2>1. session'.repair = session.repair /\ stored
    BY <1>1, <1>7 DEF Act, Live, RepairTypeOK, Sessions
  <2>2. QED
    BY <1>1, <1>2, <1>7, <2>1 DEF Act, Free, requests, RepairTypeOK
<1>8. CASE OrdinaryClose
  BY <1>1, <1>8 DEF OrdinaryClose, Free, Forgotten, requests
<1>9. CASE \E from \in 0 .. PlanLength + 1, save, force \in BOOLEAN,
            path \in Targets \cup {None} : Replay(from, save, path, force)
  <2>1. PICK from \in 0 .. PlanLength + 1, save \in BOOLEAN, force \in BOOLEAN,
             path \in Targets \cup {None} : Replay(from, save, path, force)
    BY <1>9
  <2>2. ReplayEffect(from, save, path, force)
    BY <1>1, <2>1, ReplayFacts, Zenon
  <2>3. closedAs' \in {None, closedAs}
    BY <2>2 DEF ReplayEffect, history
  <2>4. QED
    BY <1>1, <1>2, <2>2, <2>3 DEF ReplayEffect, Fine
<1>10. CASE StepSucceeds
  <2>1. UNCHANGED <<closing, daemon, closedAs>>
    BY <1>10 DEF StepSucceeds
  <2>2. stored => session'.repair.receipt = session.repair.receipt \/ session.repair = None
    BY <1>1, <1>10, StepSucceedsFacts DEF Rearmed
  <2>3. QED
    BY <1>1, <1>2, <1>10, <2>1, <2>2, StepSucceedsFacts DEF Rearmed, Fine, RepairTypeOK
<1>11. CASE \E hint \in Hints : StepDiverges(hint)
  <2>1. PICK hint \in Hints : StepDiverges(hint)
    BY <1>11
  <2>2. UNCHANGED <<stored, closing, daemon, closedAs>>
    BY <2>1 DEF StepDiverges
  <2>3. QED
    BY <1>1, <1>2, <2>1, <2>2, StepDivergesFacts DEF Rearmed, Fine, RepairTypeOK
<1>12. CASE CloseSuppressed
  <2>1. UNCHANGED <<stored, closing, daemon, closedAs>>
    BY <1>12 DEF CloseSuppressed, history
  <2>2. QED
    BY <1>1, <1>2, <1>12, <2>1, CloseSuppressedFacts DEF Rearmed, Fine, RepairTypeOK
<1>13. CASE RunEnds
  <2>1. UNCHANGED <<stored, closing, daemon, closedAs>>
    BY <1>13 DEF RunEnds
  <2>2. QED
    BY <1>1, <1>2, <1>13, <2>1, RunEndsFacts DEF Rearmed, Fine, RepairTypeOK
<1>14. CASE SomeClose
  <2>1. PICK c : CloseEffect(c)
    BY <1>1, <1>14, CloseFacts
  <2>2. /\ run = None /\ closing = None /\ daemon \in {"up", "stopping"} /\ stored
        /\ Fine(session) /\ session.repair # None
        /\ c \in Closes /\ c # None /\ c.ident \in Idents /\ c.phase = "dispatching" /\ Plain(c)
        /\ UNCHANGED <<stored, run, daemon>>
        /\ \/ /\ session.repair.receipt # c.ident /\ closing' = c
              /\ UNCHANGED <<session, closedAs>>
           \/ CloseTook(session, c) /\ closedAs' = None
           \/ CloseLeft(session, c) /\ closedAs' = closedAs
    BY <2>1 DEF CloseEffect, Closes
  <2>3. CASE session.repair.receipt # c.ident /\ closing' = c /\ UNCHANGED <<session, closedAs>>
    BY <1>1, <1>2, <1>4, <2>2, <2>3
  <2>4. CASE CloseTook(session, c) /\ closedAs' = None
    BY <1>1, <1>2, <2>2, <2>4, TookFacts DEF Plain
  <2>5. CASE CloseLeft(session, c) /\ closedAs' = closedAs
    BY <1>1, <1>2, <2>2, <2>5, LeftFacts DEF Fine
  <2>6. QED
    BY <2>2, <2>3, <2>4, <2>5
<1>15. CASE CloseFails
  BY <1>1, <1>2, <1>15 DEF CloseFails, Kept, Dropped, history, RepairTypeOK
<1>16. CASE \E fails \in BOOLEAN : CloseDispatched(fails)
  <2>1. PICK fails \in BOOLEAN : CloseDispatched(fails)
    BY <1>16
  <2> DEFINE s == Closed
  <2>2. closing # None /\ Plain(closing)
    BY <1>1, <2>1 DEF CloseDispatched
  <2>3. /\ run = None /\ closing \in Closes /\ Fine(s) /\ s.repair # None
        /\ s.repair.receipt = closing.ident
        /\ UNCHANGED <<stored, run, daemon>>
        /\ \/ CloseTook(s, closing) /\ closedAs' = None
           \/ CloseLeft(s, closing) /\ closedAs' = closing.ident
    BY <1>1, <2>1, <2>2, CloseDispatchedFacts
  <2> HIDE DEF s
  <2>4. CASE CloseTook(s, closing) /\ closedAs' = None
    BY <1>1, <1>2, <2>2, <2>3, <2>4, TookFacts DEF Plain
  <2>5. CASE CloseLeft(s, closing) /\ closedAs' = closing.ident
    BY <1>1, <1>2, <2>2, <2>3, <2>5, LeftFacts DEF Fine
  <2>6. QED
    BY <2>3, <2>4, <2>5
<1>17. CASE CloseEnds
  BY <1>1, <1>2, <1>17 DEF CloseEnds, Dropped, Forgotten, history, RepairTypeOK
<1>18. CASE ReleaseFails
  BY <1>1, <1>2, <1>18 DEF ReleaseFails, Kept, Dropped, history, RepairTypeOK
<1>19. CASE \E fails \in BOOLEAN : Finalize(fails)
  <2>1. PICK fails \in BOOLEAN : Finalize(fails)
    BY <1>19
  <2>2. /\ daemon' = "ending" /\ UNCHANGED <<run, closing, closedAs>>
        /\ session' # None => closing # None \/ stored'
        /\ closing # None => session # None /\ session.repair # None /\ session' # None
    BY <1>1, <2>1, FinalizeFacts DEF RepairTypeOK
  <2>3. closing # None /\ closing.phase = "releasing" => session' = session
    BY <1>1, <2>1, <2>2, FinalizeFacts DEF Committable
  <2>4. QED
    BY <1>1, <1>2, <2>2, <2>3
<1>20. CASE Gone
  BY <1>20 DEF Gone, Forgotten
<1>21. CASE Aside
  BY <1>1, <1>2, <1>21 DEF Aside, RepairTypeOK
<1>22. QED
  BY <1>1, <1>6, <1>7, <1>8, <1>9, <1>10, <1>11, <1>12, <1>13, <1>14, <1>15, <1>16, <1>17,
     <1>18, <1>19, <1>20, <1>21, StepKinds, Zenon

LEMMA RecordsInit ==
    ASSUME Init
    PROVE  Records
<1>1. RepairTypeOK
  BY RepairAssumption DEF Init, RepairTypeOK, Repairing
<1>2. Present
  BY DEF Init, Present
<1>3. Receipts /\ CloseDispatchedOnce
  BY DEF Init, Receipts, CloseDispatchedOnce
<1>4. QED
  BY <1>1, <1>2, <1>3 DEF Records

\* The state has its types, whatever the plan, the targets and the bounds.
THEOREM TypesHold == Spec => []RepairTypeOK
<1>1. Records /\ [Next]_vars => Records'
  BY RecordsStep
<1>2. Records => RepairTypeOK
  BY DEF Records
<1>3. QED
  BY <1>1, <1>2, RecordsInit, PTL DEF Spec

\* A platform close that has succeeded is not dispatched again before the repair has
\* ended: its receipt stays on the session through every replay and every failed
\* publication between two closes (demoteRepairToArmed, recordRepairCloseSucceeded).
THEOREM ClosesOnce == Spec => []CloseDispatchedOnce
<1>1. Records /\ [Next]_vars => Records'
  BY RecordsStep
<1>2. Records => CloseDispatchedOnce
  BY DEF Records
<1>3. QED
  BY <1>1, <1>2, RecordsInit, PTL DEF Spec

-----------------------------------------------------------------------------
(* The tombstone *)

\* As long as the daemon has not torn its session down, a repair, and a leg that
\* will arm one, is there only without the tombstone of an earlier daemon, if the
\* session is stored under its public name.
Repaired == Repairing(session) \/ (run # None /\ run.save)
Swept == Key = Public /\ daemon # "ending" /\ Repaired => Public \notin tombs

\* No step but a saving replay makes a repair or a leg that will make one.
LEMMA RepairedBefore ==
    ASSUME Records,
           \/ Open \/ Act \/ OrdinaryClose \/ StepSucceeds
           \/ (\E hint \in Hints : StepDiverges(hint)) \/ CloseSuppressed \/ RunEnds
           \/ CloseFails \/ CloseEnds \/ ReleaseFails
    PROVE  UNCHANGED <<tombs, daemon>> /\ (Repaired' => Repaired)
<1>1. RepairTypeOK /\ Present
  BY DEF Records
<1> USE DEF Repaired, Repairing
<1>2. CASE Open \/ OrdinaryClose
  BY <1>2 DEF Open, OrdinaryClose, Free, requests
<1>3. CASE Act
  <2>1. session'.repair = session.repair
    BY <1>1, <1>3 DEF Act, Live, RepairTypeOK, Sessions
  <2>2. QED
    BY <1>1, <1>3, <2>1 DEF Act, Live, requests, RepairTypeOK
<1>4. CASE StepSucceeds
  <2>1. UNCHANGED <<tombs, daemon>> /\ run # None /\ run'.save = run.save
    BY <1>1, <1>4, StepSucceedsFacts DEF StepSucceeds, RepairTypeOK, Legs
  <2>2. QED
    BY <1>1, <1>4, <2>1, StepSucceedsFacts DEF Rearmed, RepairTypeOK
<1>5. CASE \E hint \in Hints : StepDiverges(hint)
  <2>1. PICK hint \in Hints : StepDiverges(hint)
    BY <1>5
  <2>2. UNCHANGED <<tombs, daemon>>
    BY <2>1 DEF StepDiverges
  <2>3. QED
    BY <1>1, <2>1, <2>2, StepDivergesFacts DEF Rearmed, RepairTypeOK
<1>6. CASE CloseSuppressed
  <2>1. UNCHANGED <<tombs, daemon>> /\ run # None /\ run'.save = run.save
    BY <1>1, <1>6, CloseSuppressedFacts DEF CloseSuppressed, RepairTypeOK, Legs
  <2>2. QED
    BY <1>1, <1>6, <2>1, CloseSuppressedFacts DEF Rearmed, RepairTypeOK
<1>7. CASE RunEnds
  <2>1. UNCHANGED <<tombs, daemon>>
    BY <1>7 DEF RunEnds
  <2>2. QED
    BY <1>1, <1>7, <2>1, RunEndsFacts DEF Rearmed, RepairTypeOK
<1>8. CASE CloseFails \/ CloseEnds \/ ReleaseFails
  BY <1>8 DEF CloseFails, CloseEnds, ReleaseFails, Kept, Dropped
<1>9. QED
  BY <1>2, <1>3, <1>4, <1>5, <1>6, <1>7, <1>8

LEMMA SweptStep ==
    ASSUME Records, Swept, [Next]_vars
    PROVE  Swept'
<1>1. RepairTypeOK /\ Present
  BY DEF Records
<1>2. CASE \/ Open \/ Act \/ OrdinaryClose \/ StepSucceeds
           \/ (\E hint \in Hints : StepDiverges(hint)) \/ CloseSuppressed \/ RunEnds
           \/ CloseFails \/ CloseEnds \/ ReleaseFails
  BY <1>2, RepairedBefore DEF Swept
<1>3. CASE \E from \in 0 .. PlanLength + 1, save, force \in BOOLEAN,
            path \in Targets \cup {None} : Replay(from, save, path, force)
  <2>1. PICK from \in 0 .. PlanLength + 1, save \in BOOLEAN, force \in BOOLEAN,
             path \in Targets \cup {None} : Replay(from, save, path, force)
    BY <1>3
  <2>2. daemon # "ending" /\ tombs' = Cleared(save) /\ (save \/ Repairing(session))
    BY <2>1 DEF Replay, Free, Repairing, Live
  <2>3. QED
    BY <2>2 DEF Swept, Repaired, Cleared
<1>4. CASE SomeClose
  <2>1. Repairing(session) /\ daemon # "ending" /\ UNCHANGED tombs
    BY <1>4 DEF SomeClose, Close, Free, Repairing, Live
  <2>2. QED
    BY <2>1 DEF Swept, Repaired
<1>5. CASE \E fails \in BOOLEAN : CloseDispatched(fails)
  <2>1. Repairing(session) /\ UNCHANGED <<tombs, daemon>>
    BY <1>1, <1>5 DEF CloseDispatched, RepairTypeOK
  <2>2. QED
    BY <2>1 DEF Swept, Repaired
<1>6. CASE \E fails \in BOOLEAN : Finalize(fails)
  BY <1>6 DEF Finalize, Swept
<1>7. CASE Gone
  BY <1>7 DEF Gone, Swept, Repaired, Repairing
<1>8. CASE Aside
  BY <1>8 DEF Aside, Swept, Repaired, Repairing
<1>9. QED
  BY <1>1, <1>2, <1>3, <1>4, <1>5, <1>6, <1>7, <1>8, StepKinds, Zenon

\* No client is told that the repair of a session it has named has expired: a tombstone
\* left by an earlier daemon is gone before a replay arms anything, and only a teardown
\* leaves another one (clearTombstone, repairExpiredIfTombstoned).
THEOREM TombstonesCleared == Spec => []NamedTombstoneCleared
<1>1. Init => Records /\ Swept
  BY RecordsInit DEF Init, Swept, Repaired, Repairing
<1>2. Records /\ Swept /\ [Next]_vars => Records' /\ Swept'
  BY RecordsStep, SweptStep
<1>3. Swept => NamedTombstoneCleared
  BY DEF Swept, Repaired, NamedTombstoneCleared, TombstoneCleared
<1>4. QED
  BY <1>1, <1>2, <1>3, PTL DEF Spec

-----------------------------------------------------------------------------
(* The repair's progress *)

LEMMA AppendFacts ==
    ASSUME NEW q \in Seq(Actions), NEW a \in Actions, NEW boundary \in Nat
    PROVE  /\ Append(q, a) \in Seq(Actions) /\ Len(Append(q, a)) = Len(q) + 1
           /\ Append(q, a)[Len(q) + 1] = a
           /\ NoClose(q) /\ a # CloseLine => NoClose(Append(q, a))
           /\ NoneEarlier(q, boundary) /\ a # Earlier => NoneEarlier(Append(q, a), boundary)
<1>1. /\ Append(q, a) \in Seq(Actions) /\ Len(Append(q, a)) = Len(q) + 1 /\ Len(q) \in Nat
      /\ \A i \in 1 .. Len(q) : Append(q, a)[i] = q[i]
      /\ Append(q, a)[Len(q) + 1] = a
  OBVIOUS
<1>2. \A i \in 1 .. Len(q) + 1 : i \in 1 .. Len(q) \/ i = Len(q) + 1
  BY <1>1
<1>3. QED
  BY <1>1, <1>2 DEF NoClose, NoneEarlier

\* Steps outside a replay and a close.
LEMMA ProgressOutside ==
    ASSUME Records, Progress, Records', Open \/ Act \/ OrdinaryClose
    PROVE  Progress'
<1>1. RepairTypeOK /\ Present /\ RepairTypeOK'
  BY DEF Records
<1>2. Grants /\ LegShape /\ Ends /\ Completed /\ Answered /\ Clean
  BY DEF Progress
<1> USE DEF Repairing, Ended, Committable
<1>3. CASE Open
  <2>1. /\ run = None /\ run' = None /\ closing' = None /\ ~stored /\ daemon # "ending"
        /\ session' = [acts |-> <<Earlier>>, repair |-> None, pending |-> None]
        /\ session = None /\ UNCHANGED <<outstanding, granted, finished, ended>>
    BY <1>1, <1>3 DEF Present, Open, Free, Live, requests, history, RepairTypeOK
  <2>2. Grants' /\ LegShape' /\ Ends' /\ Completed'
    BY <1>2, <2>1 DEF Grants, LegGrants, CloseGrants, LegShape, Ends, Completed
  <2>3. Answered'
    BY <1>2, <2>1 DEF Answered, Ends
  <2>4. Clean'
    BY <2>1, RepairAssumption DEF Clean, NoClose
  <2>5. QED
    BY <2>2, <2>3, <2>4 DEF Progress
<1>4. CASE Act
  <2> DEFINE a == IF Repairing(session) THEN Within ELSE Earlier
  <2>1. /\ run = None /\ run' = None /\ closing' = None /\ stored /\ stored' /\ daemon' = daemon
        /\ session \in Sessions /\ session # None
        /\ session' = [session EXCEPT !.acts = Append(session.acts, a)]
        /\ outstanding' = IF Repairing(session) THEN None ELSE outstanding
        /\ UNCHANGED <<finished, granted, ended, endsWithClose>>
    BY <1>1, <1>4 DEF Act, Free, Live, requests, RepairTypeOK
  <2>2. a \in Actions /\ a # CloseLine /\ (Repairing(session) => a # Earlier)
    BY RepairAssumption DEF Actions
  <2>3. session.acts \in Seq(Actions)
        /\ (session.repair # None => session.repair.boundary \in Nat)
    BY <2>1 DEF Sessions, Repairs
  <2> HIDE DEF a
  <2>4. /\ session'.acts = Append(session.acts, a) /\ session'.repair = session.repair
        /\ session'.pending = session.pending /\ session' # None
    BY <1>1, <2>1 DEF Sessions, RepairTypeOK
  <2>5. Grants' /\ LegShape' /\ Ends' /\ Completed'
    BY <1>2, <2>1, <2>4 DEF Grants, LegGrants, CloseGrants, LegShape, Ends, Completed
  <2>6. Answered'
    BY <1>2, <2>1, <2>4 DEF Answered
  <2>7. Clean'
    <3>1. NoClose(session.acts) => NoClose(session'.acts)
      BY <2>2, <2>3, <2>4, AppendFacts
    <3>2. Repairing(session) /\ NoneEarlier(session.acts, session.repair.boundary) =>
             NoneEarlier(session'.acts, session.repair.boundary)
      BY <2>2, <2>3, <2>4, AppendFacts
    <3>3. QED
      BY <1>2, <2>1, <2>4, <3>1, <3>2 DEF Clean
  <2>8. QED
    BY <2>5, <2>6, <2>7 DEF Progress
<1>5. CASE OrdinaryClose
  BY <1>1, <1>5 DEF OrdinaryClose, Free, Forgotten, requests, Progress, Grants, LegGrants,
     CloseGrants, LegShape, Ends, Completed, Answered, Clean
<1>6. QED
  BY <1>3, <1>4, <1>5

\* A replay: none goes past the divergence its client has not answered.
LEMMA ProgressReplay ==
    ASSUME Records, Progress, Records',
           NEW from \in 0 .. PlanLength + 1, NEW save \in BOOLEAN,
           NEW path \in Targets \cup {None}, NEW force \in BOOLEAN,
           Replay(from, save, path, force)
    PROVE  Progress'
<1>1. RepairTypeOK /\ Present /\ RepairTypeOK'
  BY DEF Records
<1>2. Grants /\ LegShape /\ Ends /\ Completed /\ Answered /\ Clean
  BY DEF Progress
<1>3. ReplayEffect(from, save, path, force)
  BY <1>1, ReplayFacts, Zenon
<1>4. /\ Admissible(from)
      /\ save \/ (Repairing(Live) /\ path = None /\ ~force)
  BY DEF Replay
<1>5. /\ run = None /\ closing = None /\ closing' = None /\ daemon \in {"up", "stopping"}
      /\ UNCHANGED <<stored, daemon, endsWithClose>>
      /\ ~stored => session' = None
  BY <1>3 DEF ReplayEffect
<1>6. stored =>
        /\ session # None /\ session' # None /\ session'.acts = session.acts
        /\ session'.repair = None <=> session.repair = None
        /\ session'.pending = IF Expected(from) THEN None ELSE session.pending
        /\ session.repair # None =>
              /\ session'.repair.boundary = session.repair.boundary
              /\ session'.repair.path = session.repair.path
              /\ session'.repair.force = session.repair.force
  BY <1>3 DEF ReplayEffect, Fine
<1>7. Repairing(Live) <=> stored /\ session # None /\ session.repair # None
  BY DEF Repairing, Live
<1> DEFINE Fresh == ended' = IF ~Repairing(Live) THEN "no" ELSE ended
<1>8. ended' = ended \/ Fresh
  BY <1>3 DEF ReplayEffect, history
<1>9. stored /\ ended' = "no" => ended = "no" /\ ~(Repairing(session) /\ Ended(session))
  BY <1>1, <1>2, <1>5, <1>7, <1>8 DEF Ends, Repairing
<1>10. Clean'
  <2>1. CASE ~stored
    BY <1>1, <1>5, <2>1, <1>3 DEF Clean, Repairing
  <2>2. CASE stored
    <3>1. Repairing(session') <=> Repairing(session)
      BY <1>6, <2>2 DEF Repairing
    <3>2. run' # None => run'.first
      BY <1>3, <1>5 DEF ReplayEffect
    <3>3. QED
      BY <1>2, <1>5, <1>6, <1>9, <2>2, <3>1, <3>2 DEF Clean, Repairing
  <2>3. QED
    BY <2>1, <2>2
<1>11. CASE UNCHANGED run /\ UNCHANGED history
           /\ (stored /\ session.repair # None => session'.repair = session.repair)
  <2>1. Grants' /\ LegShape' /\ Ends' /\ Completed'
    BY <1>1, <1>2, <1>5, <1>6, <1>11 DEF history, Grants, LegGrants, CloseGrants, LegShape,
       Ends, Completed, Repairing, Ended, Committable, Present
  <2>2. Answered'
    <3>1. CASE outstanding = None \/ ended # "no"
      BY <1>11, <3>1 DEF Answered, history
    <3>2. CASE outstanding # None /\ ended = "no"
      <4>1. stored /\ Repairing(session)
        BY <1>2, <1>5, <3>2 DEF Answered
      <4>2. outstanding.owed /\ ~Ended(session) => ~Expected(from)
        BY <1>2, <1>4, <1>5, <1>7, <3>2, <4>1
           DEF Answered, Admissible, Corrected, Expected, Pending, Live, Repairing, Ended
      <4>3. QED
        BY <1>2, <1>5, <1>6, <1>11, <3>2, <4>1, <4>2 DEF Answered, history, Repairing, Ended
    <3>3. QED
      BY <3>1, <3>2
  <2>3. QED
    BY <1>10, <2>1, <2>2 DEF Progress
<1>12. CASE /\ run' = [at |-> IF from = 0 THEN 1 ELSE from, save |-> save,
                       path |-> path, force |-> force, first |-> TRUE]
            /\ run' # None
            /\ stored /\ session.repair # None => session'.repair.status = "armed"
            /\ outstanding' = IF ~Repairing(Live) \/ Skips(from) THEN None ELSE outstanding
            /\ Fresh
            /\ granted' = (IF ~Repairing(Live) THEN {} ELSE granted)
                             \cup (IF force THEN {TargetOf(path)} ELSE {})
  <2>1. /\ run'.at = (IF from = 0 THEN 1 ELSE from) /\ run'.save = save
        /\ run'.path = path /\ run'.force = force
    BY <1>12
  <2>2. from \in {0, 1} => ~Repairing(Live)
    BY <1>4 DEF Admissible
  <2>3. Grants'
    <3>1. force => TargetOf(path) \in granted'
      BY <1>12
    <3>2. Repairing(Live) => granted \subseteq granted'
      BY <1>12
    <3>3. TargetOf(path) = IF path # None THEN path
                           ELSE IF Repairing(Live) THEN session.repair.path ELSE Sibling
      BY DEF TargetOf
    <3>4. QED
      BY <1>1, <1>2, <1>4, <1>5, <1>6, <1>7, <2>1, <3>1, <3>2, <3>3
         DEF Grants, LegGrants, CloseGrants, Repairing, Ended
  <2>4. LegShape'
    BY <1>4, <1>5, <1>6, <1>7, <2>1, <2>2, <1>12 DEF LegShape, Repairing
  <2>5. Ends' /\ Completed'
    <3>1. Completed'
      BY <1>5, <1>6, <1>12 DEF Completed, Repairing, Committable
    <3>2. Ends'
      BY <1>5, <1>6, <1>7, <1>12 DEF Ends, Repairing, Ended
    <3>3. QED
      BY <3>1, <3>2
  <2>6. Answered'
    <3>1. CASE outstanding' = None \/ ended' # "no"
      BY <3>1 DEF Answered
    <3>2. CASE outstanding' # None /\ ended' = "no"
      <4>1. outstanding' = outstanding /\ outstanding # None /\ Repairing(Live) /\ ~Skips(from)
        BY <1>12, <3>2
      <4>2. stored /\ Repairing(session) /\ ended = "no" /\ ~Ended(session)
        BY <1>7, <1>9, <3>2, <4>1 DEF Repairing
      <4>3. outstanding.at \in 1 .. PlanLength /\ outstanding.owed \in BOOLEAN
        BY <1>1, <4>1 DEF RepairTypeOK, Divergences, Steps
      <4>4. from \notin {0, 1} /\ from \in Nat
        BY <2>2, <4>1, RepairAssumption
      <4>5. from <= outstanding.at
        <5>1. from <= outstanding.at + 1 /\ ~(from = outstanding.at + 1 /\ ~outstanding.owed)
          BY <4>1, <4>3, <4>4 DEF Skips
        <5>2. ~(from = outstanding.at + 1 /\ outstanding.owed)
          <6>1. SUFFICES ASSUME from = outstanding.at + 1, outstanding.owed PROVE FALSE
            OBVIOUS
          <6> DEFINE w == [from |-> outstanding.at + 1, count |-> Len(session.acts)]
          <6>2. session.pending = w /\ Pending = session.pending
            BY <1>2, <1>5, <4>1, <4>2, <6>1 DEF Answered, Pending, Live, Repairing
          <6>3. w \in Watermarks
            BY <1>1, <4>2, <4>3 DEF Watermarks, RepairTypeOK, Repairing, Sessions
          <6>4. w # None
            BY <6>3, RepairAssumption
          <6>5. Expected(from)
            BY <6>1, <6>2, <6>4 DEF Expected
          <6>6. Len(session.acts) # Pending.count
            BY <1>4, <6>5 DEF Admissible, Corrected
          <6>7. QED
            BY <6>2, <6>6
        <5>3. QED
          BY <4>3, <4>4, <5>1, <5>2
      <4>6. run'.at <= outstanding.at
        BY <2>1, <4>4, <4>5
      <4>7. ~(endsWithClose /\ outstanding.at = PlanLength)
        BY <1>2, <4>1, <4>2 DEF Answered
      <4>8. QED
        BY <1>5, <1>12, <4>1, <4>6, <4>7 DEF Answered
    <3>3. QED
      BY <3>1, <3>2
  <2>7. QED
    BY <1>10, <2>3, <2>4, <2>5, <2>6 DEF Progress
<1>13. QED
  BY <1>3, <1>11, <1>12 DEF ReplayEffect

\* What arming leaves of the invariant: the grants cover the new target, and nothing
\* earlier lies behind the boundary.
LEMMA RearmedFacts ==
    ASSUME Records, Progress, run # None, stored, NEW n, Rearmed(n)
    PROVE  /\ n # None
           /\ Repairing(n) /\ n.repair.force => n.repair.path \in granted
           /\ run.force /\ run.path = None =>
                 IF Repairing(n) THEN n.repair.path \in granted ELSE Sibling \in granted
           /\ Repairing(n) => NoneEarlier(session.acts, n.repair.boundary)
           /\ Repairing(session) => Repairing(n)
           /\ run.save => Repairing(n)
<1>1. RepairTypeOK /\ Grants /\ LegShape /\ Clean
  BY DEF Records, Progress
<1>2. session \in Sessions /\ session # None /\ session.acts \in Seq(Actions) /\ n # None
      /\ Len(session.acts) \in Nat
  BY <1>1 DEF RepairTypeOK, Sessions, Rearmed, Fine
<1>3. run.path \in Targets \cup {None} /\ run.force \in BOOLEAN /\ run.save \in BOOLEAN
      /\ run.first \in BOOLEAN
  BY <1>1 DEF RepairTypeOK, Legs
<1>4. CASE session.repair # None
  <2>1. /\ n.repair # None /\ n.repair.boundary = session.repair.boundary
        /\ n.repair.path = IF run.save /\ run.path # None THEN run.path ELSE session.repair.path
        /\ n.repair.force =>
              run.force \/ (session.repair.force /\ n.repair.path = session.repair.path)
    BY <1>4 DEF Rearmed
  <2>2. NoneEarlier(session.acts, n.repair.boundary)
    BY <1>1, <1>2, <1>4, <2>1 DEF Clean, Repairing
  <2>3. run.force => n.repair.path \in granted
    BY <1>1, <1>2, <1>3, <1>4, <2>1 DEF Grants, LegGrants, LegShape, Repairing
  <2>4. session.repair.force => session.repair.path \in granted
    BY <1>1, <1>2, <1>4 DEF Grants, Repairing
  <2>5. QED
    BY <1>2, <1>4, <2>1, <2>2, <2>3, <2>4 DEF Repairing
<1>5. CASE session.repair = None
  <2>1. Repairing(n) => NoneEarlier(session.acts, n.repair.boundary)
    <3>1. SUFFICES ASSUME Repairing(n) PROVE NoneEarlier(session.acts, n.repair.boundary)
      OBVIOUS
    <3>2. run.save /\ n.repair.boundary = IF run.first THEN Len(session.acts) ELSE 0
      BY <1>5, <3>1 DEF Rearmed, Repairing
    <3>3. NoneEarlier(session.acts, Len(session.acts))
      BY <1>2 DEF NoneEarlier
    <3>4. ~run.first => NoneEarlier(session.acts, 0)
      BY <1>1, <1>5, <3>2 DEF Clean, Repairing
    <3>5. QED
      BY <1>3, <3>2, <3>3, <3>4
  <2>2. QED
    BY <1>1, <1>2, <1>3, <1>5, <2>1 DEF Rearmed, Grants, LegGrants, Repairing
<1>6. QED
  BY <1>4, <1>5

\* The steps of a leg.
LEMMA ProgressLeg ==
    ASSUME Records, Progress, Records',
           \/ StepSucceeds \/ (\E hint \in Hints : StepDiverges(hint))
           \/ CloseSuppressed \/ RunEnds
    PROVE  Progress'
<1>1. RepairTypeOK /\ Present /\ RepairTypeOK'
  BY DEF Records
<1>2. Grants /\ LegShape /\ Ends /\ Completed /\ Answered /\ Clean
  BY DEF Progress
<1>3. run # None /\ run \in Legs /\ run.at \in 1 .. PlanLength + 1
      /\ UNCHANGED <<closing, daemon, endsWithClose, granted, ended>>
  BY <1>1 DEF StepSucceeds, StepDiverges, CloseSuppressed, RunEnds, Dispatches, history,
     RepairTypeOK, Legs
<1>4. closing = None /\ run.save \in BOOLEAN /\ run.first \in BOOLEAN /\ run.force \in BOOLEAN
      /\ run.at \in Nat /\ 1 <= run.at /\ PlanLength \in Nat
  BY <1>1, <1>3, RepairAssumption DEF RepairTypeOK, Legs
<1>5. outstanding # None => outstanding.at \in Nat /\ outstanding.at <= PlanLength
  BY <1>1, RepairAssumption DEF RepairTypeOK, Divergences, Steps
<1>6. stored => session # None /\ session.acts \in Seq(Actions)
                /\ (session.repair # None => session.repair.boundary \in Nat)
  BY <1>1 DEF RepairTypeOK, Sessions, Repairs
<1>7. ~stored => session = None \/ daemon = "ending"
  BY <1>1, <1>3, <1>4 DEF Present
<1>8. Repairing(session) => ~Committable(session)
  BY <1>2, <1>3 DEF Completed
<1>9. CASE StepSucceeds
  <2>1. /\ run.at <= PlanLength /\ ~(endsWithClose /\ run.at = PlanLength)
        /\ run' # None /\ stored' = TRUE
        /\ run'.at = run.at + 1 /\ run'.save = run.save /\ run'.path = run.path
        /\ run'.force = run.force /\ ~run'.first
    <3>1. /\ run.at \in 1 .. PlanLength /\ ~(endsWithClose /\ run.at = PlanLength)
          /\ run' # None /\ stored' = TRUE
          /\ run' = [run EXCEPT !.at = @ + 1, !.first = FALSE]
      BY <1>1, <1>9, StepSucceedsFacts
    <3>2. /\ run'.at = run.at + 1 /\ run'.save = run.save /\ run'.path = run.path
          /\ run'.force = run.force /\ ~run'.first
      BY <1>3, <3>1 DEF Legs
    <3>3. QED
      BY <1>4, <3>1, <3>2
  <2>2. outstanding' = IF outstanding # None /\ outstanding.at = run.at THEN None ELSE outstanding
    BY <1>9 DEF StepSucceeds
  <2>3. Answered'
    BY <1>2, <1>3, <1>4, <1>5, <2>1, <2>2 DEF Answered
  <2>4. CASE ~stored
    <3>1. /\ run.at = 1 /\ session' # None /\ session'.acts = <<Within>> /\ session'.repair = None
      BY <1>1, <1>9, <2>4, StepSucceedsFacts DEF Fine
    <3>2. Grants' /\ LegShape' /\ Ends' /\ Completed'
      BY <1>2, <1>3, <1>4, <1>7, <2>1, <2>4, <3>1
         DEF Grants, LegGrants, CloseGrants, LegShape, Ends, Completed, Repairing
    <3>3. NoClose(<<Within>>) /\ NoneEarlier(<<Within>>, 0)
      BY RepairAssumption DEF NoClose, NoneEarlier
    <3>4. Clean'
      BY <3>1, <3>3 DEF Clean, Repairing
    <3>5. QED
      BY <2>3, <3>2, <3>4 DEF Progress
  <2>5. CASE stored
    <3>1. /\ Rearmed(session') /\ Unfinished(session')
          /\ session'.acts = Append(session.acts, Within)
      BY <1>1, <1>9, <2>5, StepSucceedsFacts
    <3>2. /\ session' # None
          /\ Repairing(session') /\ session'.repair.force =>
                session'.repair.path \in granted
          /\ run.force /\ run.path = None =>
                IF Repairing(session') THEN session'.repair.path \in granted
                ELSE Sibling \in granted
          /\ Repairing(session') => NoneEarlier(session.acts, session'.repair.boundary)
          /\ Repairing(session) => Repairing(session')
          /\ run.save => Repairing(session')
      BY <1>3, <2>5, <3>1, RearmedFacts
    <3>3. Repairing(session') =>
             /\ ~Committable(session')
             /\ Ended(session') <=> Repairing(session) /\ Ended(session)
      BY <1>6, <1>8, <2>5, <3>1 DEF Rearmed, Unfinished, Repairing, Ended, Committable
    <3>4. Grants' /\ LegShape' /\ Ends' /\ Completed'
      BY <1>2, <1>3, <1>4, <2>1, <2>5, <3>2, <3>3
         DEF Grants, LegGrants, CloseGrants, LegShape, Ends, Completed
    <3>5. NoClose(session.acts) => NoClose(session'.acts)
      BY <1>6, <2>5, <3>1, AppendFacts, RepairAssumption DEF Actions
    <3>6. Repairing(session') => NoneEarlier(session'.acts, session'.repair.boundary)
      <4>1. Repairing(session') => session'.repair.boundary \in Nat
        BY <3>1 DEF Rearmed, Fine, Sessions, Repairs, Repairing
      <4>2. QED
        BY <1>6, <2>5, <3>1, <3>2, <4>1, AppendFacts, RepairAssumption DEF Actions
    <3>7. Clean'
      <4>1. Repairing(session) /\ Ended(session) => Repairing(session') /\ Ended(session')
        BY <3>2, <3>3
      <4>2. QED
        BY <1>2, <1>3, <1>6, <2>1, <2>5, <3>2, <3>5, <3>6, <4>1 DEF Clean
    <3>8. QED
      BY <2>3, <3>4, <3>7 DEF Progress
  <2>6. QED
    BY <2>4, <2>5
<1>10. CASE \E hint \in Hints : StepDiverges(hint)
  <2>1. PICK hint \in Hints : StepDiverges(hint)
    BY <1>10
  <2>2. UNCHANGED <<stored, finished>> /\ run' = None
    BY <2>1 DEF StepDiverges
  <2>3. CASE ~stored
    <3>1. session' = session /\ outstanding' = None
      BY <1>1, <2>1, <2>3, StepDivergesFacts
    <3>2. QED
      BY <1>2, <1>3, <1>4, <1>7, <2>2, <2>3, <3>1 DEF Progress, Grants, LegGrants, CloseGrants,
         LegShape, Ends, Completed, Answered, Clean, Repairing
  <2>4. CASE stored
    <3>1. /\ Rearmed(session') /\ Unfinished(session') /\ session'.acts = session.acts
          /\ run.at \in 1 .. PlanLength /\ ~(endsWithClose /\ run.at = PlanLength)
          /\ outstanding' = [at |-> run.at, owed |-> Owed(hint, run.at)]
          /\ session'.pending = IF Owed(hint, run.at)
                                THEN [from |-> run.at + 1, count |-> Len(session.acts)] ELSE None
      BY <1>1, <2>1, <2>4, StepDivergesFacts
    <3>2. /\ session' # None
          /\ Repairing(session') /\ session'.repair.force =>
                session'.repair.path \in granted
          /\ Repairing(session') => NoneEarlier(session.acts, session'.repair.boundary)
          /\ Repairing(session) => Repairing(session')
          /\ run.save => Repairing(session')
      BY <1>3, <2>4, <3>1, RearmedFacts
    <3>3. Repairing(session') =>
             /\ ~Committable(session')
             /\ Ended(session') <=> Repairing(session) /\ Ended(session)
      BY <1>6, <1>8, <2>4, <3>1 DEF Rearmed, Unfinished, Repairing, Ended, Committable
    <3>4. Repairing(session')
      BY <1>2, <1>3, <1>4, <2>4, <3>2 DEF LegShape
    <3>5. Grants' /\ LegShape' /\ Ends' /\ Completed'
      BY <1>2, <1>3, <1>4, <2>2, <2>4, <3>2, <3>3
         DEF Grants, LegGrants, CloseGrants, LegShape, Ends, Completed
    <3>6. Answered'
      BY <1>3, <2>2, <2>4, <3>1, <3>4 DEF Answered
    <3>7. Clean'
      BY <1>2, <1>3, <1>6, <2>2, <2>4, <3>1, <3>2, <3>3 DEF Clean
    <3>8. QED
      BY <3>5, <3>6, <3>7 DEF Progress
  <2>5. QED
    BY <2>3, <2>4
<1>11. CASE CloseSuppressed
  <2>1. /\ run.at = PlanLength /\ endsWithClose /\ run' # None
        /\ run'.at = run.at + 1 /\ run'.save = run.save /\ run'.path = run.path
        /\ run'.force = run.force /\ ~run'.first
        /\ UNCHANGED <<stored, outstanding, finished>>
    BY <1>1, <1>3, <1>4, <1>11, CloseSuppressedFacts DEF Legs, CloseSuppressed, history
  <2>2. ended = "no" => outstanding = None
    BY <1>2, <1>3, <1>4, <1>5, <2>1 DEF Answered
  <2>3. CASE ~stored
    <3>1. session' = session
      BY <1>1, <1>11, <2>3, CloseSuppressedFacts
    <3>2. QED
      BY <1>2, <1>3, <1>4, <1>7, <2>1, <2>2, <2>3, <3>1 DEF Progress, Grants, LegGrants,
         CloseGrants, LegShape, Ends, Completed, Answered, Clean, Repairing
  <2>4. CASE stored
    <3>1. Rearmed(session') /\ Unfinished(session') /\ session'.acts = session.acts
      BY <1>1, <1>11, <2>4, CloseSuppressedFacts
    <3>2. /\ session' # None
          /\ Repairing(session') /\ session'.repair.force =>
                session'.repair.path \in granted
          /\ run.force /\ run.path = None =>
                IF Repairing(session') THEN session'.repair.path \in granted
                ELSE Sibling \in granted
          /\ Repairing(session') => NoneEarlier(session.acts, session'.repair.boundary)
          /\ Repairing(session) => Repairing(session')
          /\ run.save => Repairing(session')
      BY <1>3, <2>4, <3>1, RearmedFacts
    <3>3. Repairing(session') =>
             /\ ~Committable(session')
             /\ Ended(session') <=> Repairing(session) /\ Ended(session)
      BY <1>6, <1>8, <2>4, <3>1 DEF Rearmed, Unfinished, Repairing, Ended, Committable
    <3>4. Grants' /\ LegShape' /\ Ends' /\ Completed'
      BY <1>2, <1>3, <1>4, <2>1, <2>4, <3>2, <3>3
         DEF Grants, LegGrants, CloseGrants, LegShape, Ends, Completed
    <3>5. Answered'
      BY <1>3, <2>1, <2>2 DEF Answered
    <3>6. Clean'
      BY <1>2, <1>3, <1>6, <2>1, <2>4, <3>1, <3>2, <3>3 DEF Clean
    <3>7. QED
      BY <3>4, <3>5, <3>6 DEF Progress
  <2>5. QED
    BY <2>3, <2>4
<1>12. CASE RunEnds
  <2>1. /\ run.at = PlanLength + 1 /\ run' = None /\ finished'
        /\ UNCHANGED <<stored, outstanding>>
    BY <1>1, <1>12, RunEndsFacts DEF RunEnds
  <2>2. ended = "no" => outstanding = None
    BY <1>2, <1>3, <1>4, <1>5, <2>1 DEF Answered
  <2>3. CASE ~stored
    <3>1. session' = session
      BY <1>1, <1>12, <2>3, RunEndsFacts
    <3>2. QED
      BY <1>2, <1>3, <1>4, <1>7, <2>1, <2>2, <2>3, <3>1 DEF Progress, Grants, LegGrants,
         CloseGrants, LegShape, Ends, Completed, Answered, Clean, Repairing
  <2>4. CASE stored
    <3>1. /\ Rearmed(session') /\ session'.acts = session.acts
          /\ session'.repair # None /\ Ended(session') => session.repair # None /\ Ended(session)
          /\ session.repair # None /\ session.repair.status # "armed" =>
                session'.repair.status = session.repair.status
      BY <1>1, <1>12, <2>4, RunEndsFacts
    <3>2. /\ session' # None
          /\ Repairing(session') /\ session'.repair.force =>
                session'.repair.path \in granted
          /\ Repairing(session') => NoneEarlier(session.acts, session'.repair.boundary)
          /\ Repairing(session) => Repairing(session')
      BY <1>3, <2>4, <3>1, RearmedFacts
    <3>3. Repairing(session') => (Ended(session') <=> Repairing(session) /\ Ended(session))
      BY <1>6, <2>4, <3>1 DEF Repairing, Ended
    <3>4. Grants' /\ LegShape' /\ Ends' /\ Completed'
      BY <1>2, <1>3, <1>4, <2>1, <2>2, <2>4, <3>2, <3>3
         DEF Grants, LegGrants, CloseGrants, LegShape, Ends, Completed
    <3>5. Answered'
      BY <1>3, <2>1, <2>2 DEF Answered
    <3>6. Clean'
      BY <1>2, <1>3, <1>6, <2>1, <2>4, <3>1, <3>2, <3>3 DEF Clean
    <3>7. QED
      BY <3>4, <3>5, <3>6 DEF Progress
  <2>5. QED
    BY <2>3, <2>4
<1>13. QED
  BY <1>9, <1>10, <1>11, <1>12

\* Whether a close ends the repair or fails, what comes next is in order.
LEMMA ProgressOutcome ==
    ASSUME Records, Progress, NEW s, NEW c \in Closes, CloseTook(s, c) \/ CloseLeft(s, c),
           Fine(s), s.repair # None, Fine(session), session.repair # None,
           s.acts = session.acts, s.pending = session.pending,
           s.repair.boundary = session.repair.boundary, s.repair.path = session.repair.path,
           s.repair.force = session.repair.force, Committable(s) <=> Committable(session),
           run = None, UNCHANGED <<stored, run, daemon, endsWithClose, outstanding, finished>>,
           granted \subseteq granted', c.force /\ ~c.quiet => ClosePath(s, c) \in granted',
           ended' = IF closing' = None THEN ended ELSE session'.repair.status
    PROVE  Progress'
<1>1. Grants /\ LegShape /\ Ends /\ Completed /\ Answered /\ Clean
  BY DEF Progress
<1>2. /\ session.acts \in Seq(Actions) /\ session.repair.boundary \in Nat
      /\ CloseLine \in Actions /\ CloseLine # Earlier
  BY RepairAssumption DEF Fine, Sessions, Repairs, Actions
<1>3. CASE CloseTook(s, c)
  <2>1. /\ closing' # None /\ closing'.path = c.path /\ closing'.force = c.force
        /\ closing'.quiet = c.quiet /\ ended' # "no"
        /\ session' # None /\ session'.repair # None /\ Ended(session') /\ ~Committable(session')
        /\ session'.acts = session.acts \/ session'.acts = Append(session.acts, CloseLine)
        /\ session'.repair.boundary = session.repair.boundary
        /\ session'.repair.path = ClosePath(s, c)
        /\ session'.repair.force =>
              \/ c.force /\ ~c.quiet
              \/ session.repair.force /\ session'.repair.path = session.repair.path
    BY <1>3, TookFacts DEF Fine, ActsAfter
  <2>2. Grants'
    <3>1. CloseGrants'
      BY <2>1 DEF CloseGrants, ClosePath
    <3>2. stored /\ session.repair.force => session.repair.path \in granted
      BY <1>1 DEF Grants, Repairing, Fine
    <3>3. QED
      BY <2>1, <3>1, <3>2 DEF Grants, LegGrants, Repairing
  <2>3. LegShape' /\ Ends' /\ Completed'
    BY <2>1 DEF LegShape, Ends, Completed, Repairing
  <2>4. Answered'
    BY <1>1, <2>1 DEF Answered, Repairing
  <2>5. Clean'
    <3>1. NoneEarlier(session.acts, session.repair.boundary)
      BY <1>1 DEF Clean, Repairing, Fine
    <3>2. NoneEarlier(Append(session.acts, CloseLine), session.repair.boundary)
      BY <1>2, <3>1, AppendFacts
    <3>3. QED
      BY <2>1, <3>1, <3>2 DEF Clean, Repairing
  <2>6. QED
    BY <2>2, <2>3, <2>4, <2>5 DEF Progress
<1>4. CASE CloseLeft(s, c)
  <2>1. finished /\ (ended = "no" => outstanding = None)
    BY <1>1, <1>4 DEF CloseLeft, Completed, Repairing, Fine
  <2>2. closing' = None /\ ended' = ended
    BY <1>4 DEF CloseLeft
  <2>3. CASE stored \/ daemon = "tearing"
    <3>1. /\ session' # None /\ session'.repair # None
          /\ ~Ended(session') /\ session'.acts = session.acts
          /\ session'.repair.boundary = session.repair.boundary
          /\ session'.repair.path = ClosePath(s, c)
          /\ session'.repair.force =>
                \/ c.force /\ ~c.quiet
                \/ session.repair.force /\ session'.repair.path = session.repair.path
      BY <1>4, <2>3, LeftFacts DEF Fine
    <3>2. ~Ended(session) /\ Repairing(session)
      BY <1>4 DEF CloseLeft, Committable, Ended, Repairing, Fine
    <3>3. Grants'
      BY <1>1, <2>2, <3>1, <3>2 DEF Grants, LegGrants, CloseGrants, Repairing
    <3>4. LegShape' /\ Ends' /\ Completed' /\ Answered'
      BY <1>1, <2>1, <2>2, <3>1 DEF LegShape, Ends, Completed, Answered, Repairing
    <3>5. Clean'
      BY <1>1, <2>2, <3>1, <3>2 DEF Clean, Repairing
    <3>6. QED
      BY <3>3, <3>4, <3>5 DEF Progress
  <2>4. CASE ~(stored \/ daemon = "tearing")
    <3>1. session' = None
      BY <1>4, <2>4, LeftFacts
    <3>2. daemon = "ending"
      BY <2>4 DEF Records, Present, Fine
    <3>3. QED
      BY <1>1, <2>1, <2>2, <3>1, <3>2 DEF Progress, Grants, LegGrants, CloseGrants, LegShape,
         Ends, Completed, Answered, Clean, Repairing
  <2>5. QED
    BY <2>3, <2>4
<1>5. QED
  BY <1>3, <1>4

\* The steps of a close.
LEMMA ProgressClose ==
    ASSUME Records, Progress, Records',
           \/ SomeClose
           \/ CloseFails \/ (\E fails \in BOOLEAN : CloseDispatched(fails))
           \/ CloseEnds \/ ReleaseFails
    PROVE  Progress'
<1>1. RepairTypeOK /\ Present /\ Receipts /\ RepairTypeOK'
  BY DEF Records
<1>2. Grants /\ LegShape /\ Ends /\ Completed /\ Answered /\ Clean
  BY DEF Progress
<1>3. CASE SomeClose
  <2>1. PICK c : CloseEffect(c)
    BY <1>1, <1>3, CloseFacts
  <2>2. /\ run = None /\ stored /\ Fine(session) /\ session.repair # None
        /\ c \in Closes /\ c # None
        /\ UNCHANGED <<stored, run, daemon, endsWithClose, outstanding, finished>>
        /\ granted \subseteq granted' /\ (c.force /\ ~c.quiet => ClosePath(session, c) \in granted')
        /\ \/ closing' = c /\ UNCHANGED <<session, ended>>
           \/ CloseTook(session, c) /\ ended' = session'.repair.status
           \/ CloseLeft(session, c) /\ ended' = ended
    BY <2>1 DEF CloseEffect
  <2>3. CASE closing' = c /\ UNCHANGED <<session, ended>>
    <3>1. Grants'
      BY <1>2, <2>2, <2>3 DEF Grants, LegGrants, CloseGrants, ClosePath, Repairing, Ended
    <3>2. LegShape' /\ Ends' /\ Completed' /\ Answered' /\ Clean'
      BY <1>2, <2>2, <2>3
         DEF LegShape, Ends, Completed, Answered, Clean, Repairing, Ended, Committable
    <3>3. QED
      BY <3>1, <3>2 DEF Progress
  <2>4. CASE CloseTook(session, c) /\ ended' = session'.repair.status
    <3>1. closing' # None
      BY <2>2, <2>4, TookFacts
    <3>2. QED
      BY <2>2, <2>4, <3>1, ProgressOutcome
  <2>5. CASE CloseLeft(session, c) /\ ended' = ended
    <3>1. closing' = None
      BY <2>5 DEF CloseLeft
    <3>2. QED
      BY <2>2, <2>5, <3>1, ProgressOutcome
  <2>6. QED
    BY <2>2, <2>3, <2>4, <2>5
<1>4. CASE CloseFails
  <2>1. /\ closing # None /\ closing' = None /\ run = None /\ run' = None
        /\ session' = IF stored \/ daemon = "tearing" THEN session ELSE None
        /\ UNCHANGED <<stored, daemon, endsWithClose, outstanding, finished, granted, ended>>
    BY <1>1, <1>4 DEF CloseFails, Kept, Dropped, history, RepairTypeOK
  <2>2. QED
    BY <1>1, <1>2, <2>1 DEF Present, Progress, Grants, LegGrants, CloseGrants, LegShape,
       Ends, Completed, Answered, Clean, Repairing, Ended, Committable
<1>5. CASE \E fails \in BOOLEAN : CloseDispatched(fails)
  <2>1. PICK fails \in BOOLEAN : CloseDispatched(fails)
    BY <1>5
  <2> DEFINE s == Closed
  <2>2. closing # None /\ Plain(closing)
    BY <1>1, <2>1 DEF CloseDispatched, Present
  <2>3. /\ run = None /\ closing \in Closes /\ Fine(session) /\ session.repair # None
        /\ Fine(s) /\ s.repair # None
        /\ s.acts = session.acts /\ s.pending = session.pending
        /\ s.repair.boundary = session.repair.boundary /\ s.repair.path = session.repair.path
        /\ s.repair.force = session.repair.force
        /\ Committable(s) <=> Committable(session)
        /\ UNCHANGED <<stored, run, daemon, endsWithClose, outstanding, finished, granted>>
        /\ \/ CloseTook(s, closing) /\ ended' = session'.repair.status
           \/ CloseLeft(s, closing) /\ ended' = ended
    BY <1>1, <2>1, <2>2, CloseDispatchedFacts
  <2> HIDE DEF s
  <2>4. closing.force /\ ~closing.quiet => ClosePath(s, closing) \in granted'
    BY <1>2, <2>2, <2>3 DEF Grants, CloseGrants, ClosePath
  <2>5. ended' = IF closing' = None THEN ended ELSE session'.repair.status
    BY <2>3, TookFacts DEF CloseLeft
  <2>6. QED
    BY <2>3, <2>4, <2>5, ProgressOutcome
<1>6. CASE CloseEnds
  <2>1. /\ closing # None /\ closing' = None /\ run = None /\ run' = None /\ stored' = FALSE
        /\ session' = IF daemon = "tearing" THEN session ELSE None
        /\ Repairing(session) /\ Ended(session)
        /\ UNCHANGED daemon /\ outstanding' = None /\ ended' = "no"
    BY <1>1, <1>6 DEF CloseEnds, Dropped, Forgotten, RepairTypeOK, Receipts
  <2>2. QED
    BY <1>2, <2>1 DEF Progress, Grants, LegGrants, CloseGrants, LegShape, Ends, Completed,
       Answered, Clean, Repairing, Ended, Committable
<1>7. CASE ReleaseFails
  <2>1. /\ closing # None /\ closing' = None /\ run = None /\ run' = None
        /\ session' = IF stored \/ daemon = "tearing" THEN session ELSE None
        /\ UNCHANGED <<stored, daemon, endsWithClose, outstanding, finished, granted, ended>>
    BY <1>1, <1>7 DEF ReleaseFails, Kept, Dropped, RepairTypeOK
  <2>2. QED
    BY <1>1, <1>2, <2>1 DEF Present, Progress, Grants, LegGrants, CloseGrants, LegShape,
       Ends, Completed, Answered, Clean, Repairing, Ended, Committable
<1>8. QED
  BY <1>3, <1>4, <1>5, <1>6, <1>7

\* The daemon's steps.
LEMMA ProgressDaemon ==
    ASSUME Records, Progress, Records', (\E fails \in BOOLEAN : Finalize(fails)) \/ Gone \/ Aside
    PROVE  Progress'
<1>1. RepairTypeOK /\ Present /\ Receipts /\ RepairTypeOK'
  BY DEF Records
<1>2. Grants /\ LegShape /\ Ends /\ Completed /\ Answered /\ Clean
  BY DEF Progress
<1>3. CASE \E fails \in BOOLEAN : Finalize(fails)
  <2>1. PICK fails \in BOOLEAN : Finalize(fails)
    BY <1>3
  <2>2. /\ daemon' = "ending" /\ (stored' => stored)
        /\ UNCHANGED <<run, closing, endsWithClose, outstanding, finished, granted, ended>>
    BY <1>1, <2>1, FinalizeFacts
  <2>3. CASE session' = None
    <3>1. stored' = FALSE /\ closing' = None
      BY <1>1, <2>1, <2>2, <2>3, FinalizeFacts DEF RepairTypeOK, Repairing
    <3>2. QED
      BY <1>1, <1>2, <2>2, <2>3, <3>1 DEF Progress, Grants, LegGrants, CloseGrants, LegShape,
         Ends, Completed, Answered, Clean, Repairing, RepairTypeOK
  <2>4. CASE session' # None
    <3>1. /\ session # None
      BY <1>1, <2>1, <2>4, FinalizeFacts DEF RepairTypeOK, Repairing
    <3>2. CASE ~(Repairing(session) /\ Committable(session))
      <4>1. session' = session
        BY <1>1, <2>1, <2>4, <3>1, <3>2, FinalizeFacts
      <4>2. QED
        BY <1>1, <1>2, <2>2, <3>1, <4>1 DEF Progress, Grants, LegGrants, CloseGrants, LegShape,
           Ends, Completed, Answered, Clean, Repairing, Ended, Committable
    <3>3. CASE Repairing(session) /\ Committable(session)
      <4>1. run = None /\ finished /\ (ended = "no" => outstanding = None) /\ ~Ended(session)
        BY <1>2, <3>3 DEF Completed, Ended, Committable
      <4>2. /\ session'.repair # None /\ session'.acts = Append(session.acts, CloseLine)
            /\ session'.repair.boundary = session.repair.boundary
            /\ session'.repair.path = session.repair.path
            /\ session'.repair.force = session.repair.force
        BY <1>1, <2>1, <2>4, <3>1, <3>3, FinalizeFacts DEF Repairing
      <4>3. Grants'
        BY <1>2, <2>2, <2>4, <3>1, <3>3, <4>1, <4>2
           DEF Grants, LegGrants, CloseGrants, Repairing
      <4>4. LegShape' /\ Ends' /\ Completed' /\ Answered'
        BY <2>2, <4>1 DEF LegShape, Ends, Completed, Answered
      <4>5. Clean'
        <5>1. /\ session.acts \in Seq(Actions) /\ session.repair.boundary \in Nat
              /\ CloseLine \in Actions /\ CloseLine # Earlier
          BY <1>1, <3>1, <3>3, RepairAssumption
             DEF RepairTypeOK, Sessions, Repairs, Actions, Repairing
        <5>2. NoneEarlier(session'.acts, session.repair.boundary)
          BY <1>2, <3>3, <4>2, <5>1, AppendFacts DEF Clean
        <5>3. QED
          BY <2>2, <4>1, <4>2, <5>2 DEF Clean
      <4>6. QED
        BY <4>3, <4>4, <4>5 DEF Progress
    <3>4. QED
      BY <3>2, <3>3
  <2>5. QED
    BY <2>3, <2>4
<1>4. CASE Gone
  BY <1>4 DEF Gone, Forgotten, Progress, Grants, LegGrants, CloseGrants, LegShape, Ends,
     Completed, Answered, Clean, Repairing
<1>5. CASE Aside
  <2>1. /\ UNCHANGED <<session, stored, run, closing, endsWithClose>>
        /\ UNCHANGED <<outstanding, finished, granted, ended>>
        /\ daemon = "ending" => daemon' = "ending"
        /\ daemon' = "ending" => daemon = "ending" \/ ~stored
    BY <1>5 DEF Aside
  <2>2. QED
    BY <1>2, <2>1 DEF Progress, Grants, LegGrants, CloseGrants, LegShape, Ends, Completed,
       Answered, Clean, Repairing, Ended, Committable
<1>6. QED
  BY <1>3, <1>4, <1>5

LEMMA ProgressInit ==
    ASSUME Init
    PROVE  Progress
BY DEF Init, Progress, Grants, LegGrants, CloseGrants, LegShape, Ends, Completed, Answered,
   Clean, Repairing

LEMMA IInvStep ==
    ASSUME IInv, [Next]_vars
    PROVE  IInv'
<1>1. Records /\ Progress
  BY DEF IInv
<1>2. Records' /\ RepairTypeOK
  BY <1>1, RecordsStep DEF Records
<1>3. Progress'
  BY <1>1, <1>2, StepKinds, ProgressOutside, ProgressReplay, ProgressLeg, ProgressClose,
     ProgressDaemon, Zenon
<1>4. QED
  BY <1>2, <1>3 DEF IInv

-----------------------------------------------------------------------------
(* What is published *)

\* Only a close, or the teardown, publishes, and only a complete repair, at a target
\* that is free or has been granted, unless the close has no record.
Slice(q, boundary) == SubSeq(q, boundary + 1, Len(q))

LEMMA PublishedFacts ==
    ASSUME IInv, [Next]_vars, Published
    PROVE  /\ Fine(session) /\ Repairing(session) /\ Committable(session)
           /\ \E quiet \in BOOLEAN :
                 /\ quiet => ByQuietClose
                 /\ written'.script = Slice(ActsAfter(session, quiet), session.repair.boundary)
           /\ written'.to \in files => written'.to \in granted' \/ (ByQuietClose /\ closing'.force)
<1>1. RepairTypeOK /\ Present /\ Progress
  BY DEF IInv, Records
<1>2. Grants /\ Completed
  BY <1>1 DEF Progress
<1>3. written' # written /\ written' # None
  BY DEF Published
<1> DEFINE SameRepair(s, path, force, quiet) ==
             /\ Fine(s) /\ s.repair # None /\ Fine(session) /\ session.repair # None
             /\ s.acts = session.acts /\ s.repair.boundary = session.repair.boundary
             /\ s.repair.path = session.repair.path /\ s.repair.force = session.repair.force
             /\ Committable(s) <=> Committable(session)
             /\ granted \subseteq granted' /\ (force /\ ~quiet => path \in granted')
             /\ quiet \in BOOLEAN /\ (quiet => ByQuietClose)
             /\ quiet /\ force => closing'.force
             /\ Wrote(s, path, force, quiet)
           Goal ==
             /\ Fine(session) /\ Repairing(session) /\ Committable(session)
             /\ \E quiet \in BOOLEAN :
                   /\ quiet => ByQuietClose
                   /\ written'.script = Slice(ActsAfter(session, quiet), session.repair.boundary)
             /\ written'.to \in files => written'.to \in granted' \/ (ByQuietClose /\ closing'.force)
<1>4. ASSUME NEW s, NEW path, NEW force, NEW quiet, SameRepair(s, path, force, quiet)
      PROVE  Goal
  <2>1. /\ Fine(session) /\ Repairing(session) /\ Committable(session) /\ ~Ended(session)
    BY <1>4 DEF Wrote, Repairing, Fine, Committable, Ended
  <2>2. ActsAfter(s, quiet) = ActsAfter(session, quiet)
    BY <1>4 DEF ActsAfter
  <2>3. written' = [to |-> path,
                    script |-> Slice(ActsAfter(session, quiet), session.repair.boundary)]
    BY <1>4, <2>2 DEF Wrote, Slice
  <2>4. path \in files => path \in granted' \/ (ByQuietClose /\ closing'.force)
    BY <1>2, <1>4, <2>1 DEF Wrote, Grants
  <2>5. quiet \in BOOLEAN /\ (quiet => ByQuietClose)
    BY <1>4
  <2>6. written'.to = path
        /\ written'.script = Slice(ActsAfter(session, quiet), session.repair.boundary)
    BY <2>3
  <2>7. QED
    BY <2>1, <2>4, <2>5, <2>6
<1>5. CASE SomeClose
  <2>1. PICK c : CloseEffect(c)
    BY <1>1, <1>5, CloseFacts
  <2>2. /\ Fine(session) /\ session.repair # None /\ closing = None /\ c \in Closes
        /\ granted \subseteq granted' /\ (c.force /\ ~c.quiet => ClosePath(session, c) \in granted')
        /\ Wrote(session, ClosePath(session, c), c.force, c.quiet) /\ CloseTook(session, c)
    BY <1>3, <2>1 DEF CloseEffect
  <2>3. /\ closing' # None /\ closing'.force = c.force
        /\ closing'.quiet = c.quiet /\ c.quiet \in BOOLEAN
    BY <2>2, TookFacts DEF Closes
  <2>4. c.quiet => ByQuietClose
    BY <2>2, <2>3 DEF ByQuietClose
  <2>5. SameRepair(session, ClosePath(session, c), c.force, c.quiet)
    BY <2>2, <2>3, <2>4
  <2> HIDE DEF SameRepair, Goal
  <2>6. Goal
    BY <1>4, <2>5
  <2>7. QED
    BY <2>6 DEF Goal
<1>6. CASE \E fails \in BOOLEAN : CloseDispatched(fails)
  <2>1. PICK fails \in BOOLEAN : CloseDispatched(fails)
    BY <1>6
  <2>2. closing # None /\ Plain(closing)
    BY <1>1, <2>1 DEF CloseDispatched, Present
  <2> DEFINE s == Closed
  <2>3. /\ Fine(s) /\ s.repair # None /\ Fine(session) /\ session.repair # None
        /\ closing \in Closes /\ closing.phase = "dispatching"
        /\ s.acts = session.acts /\ s.repair.boundary = session.repair.boundary
        /\ s.repair.path = session.repair.path /\ s.repair.force = session.repair.force
        /\ Committable(s) <=> Committable(session)
        /\ granted' = granted
        /\ Wrote(s, ClosePath(s, closing), closing.force, closing.quiet)
        /\ CloseTook(s, closing)
    BY <1>1, <1>3, <2>1, <2>2, CloseDispatchedFacts
  <2> HIDE DEF s
  <2>4. closing.force /\ ~closing.quiet => ClosePath(s, closing) \in granted'
    BY <1>2, <2>2, <2>3 DEF Grants, CloseGrants, ClosePath
  <2>5. /\ closing' # None /\ closing'.phase = "releasing" /\ closing'.force = closing.force
        /\ closing'.quiet = closing.quiet /\ closing.quiet \in BOOLEAN
    BY <2>3, TookFacts DEF Closes
  <2>6. closing.quiet => ByQuietClose
    BY <2>3, <2>5 DEF ByQuietClose
  <2>7. SameRepair(s, ClosePath(s, closing), closing.force, closing.quiet)
    BY <2>3, <2>4, <2>5, <2>6
  <2> HIDE DEF SameRepair, Goal
  <2>8. Goal
    BY <1>4, <2>7
  <2>9. QED
    BY <2>8 DEF Goal
<1>7. CASE \E fails \in BOOLEAN : Finalize(fails)
  <2>1. PICK fails \in BOOLEAN : Finalize(fails)
    BY <1>7
  <2>2. /\ Repairing(session) /\ granted' = granted
        /\ Wrote(session, session.repair.path, FALSE, FALSE)
    BY <1>1, <1>3, <2>1, FinalizeFacts
  <2>3. SameRepair(session, session.repair.path, FALSE, FALSE)
    BY <1>1, <2>2 DEF Repairing, Fine, RepairTypeOK
  <2> HIDE DEF SameRepair, Goal
  <2>4. Goal
    BY <1>4, <2>3
  <2>5. QED
    BY <2>4 DEF Goal
<1>8. CASE \E from \in 0 .. PlanLength + 1, save, force \in BOOLEAN,
            path \in Targets \cup {None} : Replay(from, save, path, force)
  <2>1. PICK from \in 0 .. PlanLength + 1, save \in BOOLEAN, force \in BOOLEAN,
             path \in Targets \cup {None} : Replay(from, save, path, force)
    BY <1>8
  <2>2. ReplayEffect(from, save, path, force)
    BY <1>1, <2>1, ReplayFacts, Zenon
  <2>3. QED
    BY <1>3, <2>2 DEF ReplayEffect, history
<1>9. CASE \/ Open \/ Act \/ OrdinaryClose \/ StepSucceeds \/ CloseSuppressed \/ RunEnds
           \/ CloseFails \/ CloseEnds \/ ReleaseFails \/ Gone \/ Aside
           \/ \E hint \in Hints : StepDiverges(hint)
  BY <1>3, <1>9 DEF Open, Act, OrdinaryClose, StepSucceeds, CloseSuppressed, RunEnds,
     CloseFails, CloseEnds, ReleaseFails, Gone, Aside, StepDiverges, Forgotten, history
<1>10. QED
  BY <1>1, <1>5, <1>6, <1>7, <1>8, <1>9, StepKinds, Zenon

\* The published part of the record, element by element.
LEMMA ScriptFacts ==
    ASSUME NEW q \in Seq(Actions), NEW b \in Nat, b <= Len(q), NoneEarlier(q, b)
    PROVE  LET script == Slice(Append(q, CloseLine), b) IN
           /\ script # <<>> /\ script[Len(script)] = CloseLine
           /\ \A i \in 1 .. Len(script) : script[i] # Earlier
           /\ NoClose(q) => \A i \in 1 .. Len(script) - 1 : script[i] # CloseLine
<1> DEFINE p == Append(q, CloseLine)
           script == SubSeq(p, b + 1, Len(q) + 1)
<1>1. /\ p \in Seq(Actions) /\ Len(p) = Len(q) + 1 /\ Len(q) \in Nat
      /\ p[Len(q) + 1] = CloseLine /\ \A i \in 1 .. Len(q) : p[i] = q[i]
  BY DEF Actions
<1> HIDE DEF p
<1>2. /\ script \in Seq(Actions) /\ Len(script) = Len(q) + 1 - b
      /\ \A i \in 1 .. Len(script) : script[i] = p[b + i]
  BY <1>1
<1> HIDE DEF script
<1>3. script # <<>> /\ script[Len(script)] = CloseLine
  BY <1>1, <1>2
<1>4. \A i \in 1 .. Len(script) - 1 : script[i] = q[b + i] /\ b + i \in 1 .. Len(q)
  BY <1>1, <1>2
<1>5. \A i \in 1 .. Len(script) : script[i] # Earlier
  <2>1. SUFFICES ASSUME NEW i \in 1 .. Len(script) PROVE script[i] # Earlier
    OBVIOUS
  <2>2. CASE i = Len(script)
    BY <1>3, <2>2, RepairAssumption
  <2>3. CASE i # Len(script)
    <3>1. i \in 1 .. Len(script) - 1
      BY <1>1, <1>2, <2>3
    <3>2. b + i > b
      BY <3>1
    <3>3. QED
      BY <1>4, <3>1, <3>2 DEF NoneEarlier
  <2>4. QED
    BY <2>2, <2>3
<1>6. Slice(p, b) = script
  BY <1>1 DEF Slice, script
<1>7. QED
  BY <1>3, <1>4, <1>5, <1>6 DEF p, NoClose

\* The same of a record without a close.
LEMMA QuietScriptFacts ==
    ASSUME NEW q \in Seq(Actions), NEW b \in Nat, b <= Len(q), NoneEarlier(q, b)
    PROVE  LET script == Slice(q, b) IN
           /\ \A i \in 1 .. Len(script) : script[i] # Earlier
           /\ NoClose(q) => \A i \in 1 .. Len(script) - 1 : script[i] # CloseLine
<1> DEFINE script == Slice(q, b)
<1>1. /\ script \in Seq(Actions) /\ Len(script) = Len(q) - b /\ Len(q) \in Nat
      /\ \A i \in 1 .. Len(script) : script[i] = q[b + i]
  BY DEF Slice
<1> HIDE DEF script
<1>2. ASSUME NEW i \in 1 .. Len(script)
      PROVE  b + i \in 1 .. Len(q) /\ b + i > b /\ script[i] = q[b + i]
  BY <1>1, <1>2
<1>3. \A i \in 1 .. Len(script) : script[i] # Earlier
  BY <1>2 DEF NoneEarlier
<1>4. NoClose(q) => \A i \in 1 .. Len(script) : script[i] # CloseLine
  BY <1>2 DEF NoClose
<1>5. \A i \in 1 .. Len(script) - 1 : i \in 1 .. Len(script)
  BY <1>1
<1>6. QED
  BY <1>3, <1>4, <1>5 DEF script

\* What is published is a whole script of a plan whose last leg has reached its end
\* with every divergence answered, unless a close has ended the repair before
\* (isRepairCommittable; the watermark that makes the client correct a step before it
\* goes on), whatever the length of the plan and however often it is resumed.
THEOREM PublishesWhole == Spec => PublishedWhole
<1>1. Init => IInv
  BY RecordsInit, ProgressInit DEF IInv
<1>2. IInv /\ [Next]_vars => IInv'
  BY IInvStep
<1> DEFINE Whole(script) ==
             /\ finished /\ (ended = "no" => outstanding = None)
             /\ ByQuietClose \/ (script # <<>> /\ script[Len(script)] = CloseLine)
             /\ \A i \in 1 .. Len(script) : script[i] # Earlier
             /\ daemon = "up" /\ ended = "no" =>
                   \A i \in 1 .. Len(script) - 1 : script[i] # CloseLine
<1>3. ASSUME IInv, [Next]_vars, Published
      PROVE  Whole(written'.script)
  <2>1. /\ Fine(session) /\ Repairing(session) /\ Committable(session)
    BY <1>3, PublishedFacts
  <2>2. PICK quiet \in BOOLEAN :
           /\ quiet => ByQuietClose
           /\ written'.script = Slice(ActsAfter(session, quiet), session.repair.boundary)
    BY <1>3, PublishedFacts
  <2>3. finished /\ (ended = "no" => outstanding = None)
    BY <1>3, <2>1 DEF IInv, Progress, Completed
  <2>4. session.acts \in Seq(Actions) /\ session.repair.boundary \in Nat
        /\ session.repair.boundary <= Len(session.acts)
    BY <2>1 DEF Fine, Sessions, Repairs, Repairing
  <2>5. NoneEarlier(session.acts, session.repair.boundary)
        /\ (daemon = "up" /\ ended = "no" => NoClose(session.acts))
    BY <1>3, <2>1 DEF IInv, Progress, Clean, Fine, Committable, Ended
  <2>6. CASE quiet
    <3> DEFINE sub == Slice(session.acts, session.repair.boundary)
    <3>1. /\ \A i \in 1 .. Len(sub) : sub[i] # Earlier
          /\ NoClose(session.acts) => \A i \in 1 .. Len(sub) - 1 : sub[i] # CloseLine
      BY <2>4, <2>5, QuietScriptFacts
    <3>2. written'.script = sub
      BY <2>2, <2>6 DEF ActsAfter
    <3> HIDE DEF sub
    <3>3. Whole(sub)
      BY <2>2, <2>3, <2>5, <2>6, <3>1
    <3>4. QED
      BY <3>2, <3>3
  <2>7. CASE ~quiet
    <3> DEFINE sub == Slice(Append(session.acts, CloseLine), session.repair.boundary)
    <3>1. /\ sub # <<>> /\ sub[Len(sub)] = CloseLine
          /\ \A i \in 1 .. Len(sub) : sub[i] # Earlier
          /\ NoClose(session.acts) => \A i \in 1 .. Len(sub) - 1 : sub[i] # CloseLine
      BY <2>4, <2>5, ScriptFacts
    <3>2. written'.script = sub
      BY <2>2, <2>7 DEF ActsAfter
    <3> HIDE DEF sub
    <3>3. Whole(sub)
      BY <2>3, <2>5, <3>1
    <3>4. QED
      BY <3>2, <3>3
  <2>8. QED
    BY <2>6, <2>7
<1>4. QED
  BY <1>1, <1>2, <1>3, PTL DEF Spec, PublishedWhole

\* A script replaces a file only where the client has allowed that in the same repair
\* (#1258), or closes it with --no-record and --force, over any number of targets and
\* of changes between them.
THEOREM OverwritesAllowed == Spec => OverwritesGranted
<1>1. Init => IInv
  BY RecordsInit, ProgressInit DEF IInv
<1>2. IInv /\ [Next]_vars => IInv'
  BY IInvStep
<1>3. IInv /\ [Next]_vars =>
         (Published /\ written'.to \in files =>
             written'.to \in granted' \/ (ByQuietClose /\ closing'.force))
  BY PublishedFacts
<1>4. QED
  BY <1>1, <1>2, <1>3, PTL DEF Spec, OverwritesGranted

=============================================================================
