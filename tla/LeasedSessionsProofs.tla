------------------------ MODULE LeasedSessionsProofs ------------------------
(***************************************************************************)
(* Theorems about LeasedSessions, for any clients, request slots, leases   *)
(* and times to live: the requests of all clients use the registry as its  *)
(* specification allows, one device has one session, and two requests  *)
(* work on the device at once only when one goes through no session.       *)
(***************************************************************************)
EXTENDS LeasedSessions, LeaseRegistryProofs

(***************************************************************************)
(* The inductive invariant                                                 *)
(***************************************************************************)

NeedsSession == {"cleaning", "acting", "tearing", "releasing", "clearing"}

\* A request under way carries a lease.
LeaseCarried == \A p \in Requests : stage(p) # "idle" => request[p].lease # None

\* The session lock: requests of one client are past it one at a time.
SessionLocked ==
    \A p, q \in Requests :
       ClientOf(p) = ClientOf(q) /\ HoldsSession(p) /\ HoldsSession(q) => p = q

\* firstSessionOpenLocks, and the search for a session it protects.
OpeningAlone ==
    \A p \in Requests : stage(p) = "opening" =>
       /\ \A q \in Requests : stage(q) = "opening" => q = p
       /\ \A c \in Clients : sessions[c] = None

\* No other request takes a session away from the one that works on it.
SessionPresent == \A p \in Requests : stage(p) \in NeedsSession => session(p) # None

ReqInv ==
    /\ ReqTypeOK
    /\ LeaseCarried
    /\ SessionLocked
    /\ OpeningAlone
    /\ SessionPresent
    /\ SessionsExclusive

(***************************************************************************)
(* Steps of one request                                                    *)
(***************************************************************************)

Request == [stage: Stages, command: Commands, lease: Optional(LeaseIds), locksDevice: BOOLEAN]

\* Only the request in slot p changes, to one that is well formed.
Moves(p, next) ==
    /\ request' \in [Requests -> Request]
    /\ \A q \in Requests : q # p => request'[q] = request[q]
    /\ request'[p].stage = next
    /\ next # "idle" => request'[p].lease # None

\* A request that goes to its next stage keeps its lease.
LEMMA GoesMoves ==
    ASSUME ReqTypeOK, LeaseCarried, NEW p \in Requests, NEW next \in Stages,
           stage(p) # "idle", Goes(p, next)
    PROVE  Moves(p, next)
    BY DEF ReqTypeOK, LeaseCarried, Goes, Moves, Request, stage

\* A request that ends leaves its slot idle.
LEMMA EndsMoves ==
    ASSUME ReqTypeOK, NEW p \in Requests, Ends(p)
    PROVE  Moves(p, "idle")
    <1>1. Idle \in Request /\ Idle.stage = "idle"
      BY DEF Idle, Request, Stages, Outside, Commands, Optional
    <1> QED
      BY <1>1 DEF ReqTypeOK, Ends, Moves, Request

\* A step that leaves the sessions alone keeps the invariant if it takes the
\* session lock only when it is free, opens only a device without sessions, and
\* works only on a session that is there.
LEMMA MoveKeepsInv ==
    ASSUME ReqInv, NEW p \in Requests, NEW next \in Stages, Moves(p, next),
           UNCHANGED sessions, held' \in [Clients -> Optional(LeaseIds)],
           next \notin Outside =>
              \/ HoldsSession(p)
              \/ \A q \in Requests : ClientOf(q) = ClientOf(p) => ~HoldsSession(q),
           next = "opening" =>
              /\ \A q \in Requests : stage(q) # "opening"
              /\ \A c \in Clients : sessions[c] = None,
           next \in NeedsSession => session(p) # None
    PROVE  ReqInv'
    <1>1. ReqTypeOK'
      BY DEF ReqInv, ReqTypeOK, Moves, Request
    <1>2. LeaseCarried'
      BY DEF ReqInv, LeaseCarried, Moves, stage
    <1>3. SessionLocked'
      <2> SUFFICES ASSUME NEW a \in Requests, NEW b \in Requests,
                          ClientOf(a) = ClientOf(b),
                          HoldsSession(a)', HoldsSession(b)'
                   PROVE  a = b
        BY DEF SessionLocked
      <2>1. a # p => HoldsSession(a)
        BY DEF Moves, HoldsSession, stage
      <2>2. b # p => HoldsSession(b)
        BY DEF Moves, HoldsSession, stage
      <2>3. a = p \/ b = p => next \notin Outside
        BY DEF Moves, HoldsSession, stage
      <2> QED
        BY <2>1, <2>2, <2>3 DEF ReqInv, SessionLocked
    <1>4. OpeningAlone'
      BY DEF ReqInv, OpeningAlone, Moves, stage
    <1>5. SessionPresent'
      BY DEF ReqInv, SessionPresent, Moves, stage, session
    <1>6. SessionsExclusive'
      BY DEF ReqInv, SessionsExclusive
    <1> QED
      BY <1>1, <1>2, <1>3, <1>4, <1>5, <1>6 DEF ReqInv

\* A step that takes the session of the lock's holder out of the store.
LEMMA RemovalKeepsInv ==
    ASSUME ReqInv, NEW p \in Requests, NEW next \in Stages, Moves(p, next),
           sessions' = [sessions EXCEPT ![ClientOf(p)] = None], UNCHANGED held,
           HoldsSession(p), next # "opening", next \notin NeedsSession
    PROVE  ReqInv'
    <1>0. ClientOf(p) \in Clients
      BY ClientAssumption
    <1>1. ReqTypeOK'
      BY <1>0 DEF ReqInv, ReqTypeOK, Moves, Request, Optional
    <1>2. LeaseCarried'
      BY DEF ReqInv, LeaseCarried, Moves, stage
    <1>3. SessionLocked'
      <2>1. \A a \in Requests : HoldsSession(a)' => HoldsSession(a)
        BY DEF Moves, HoldsSession, stage
      <2> QED
        BY <2>1 DEF ReqInv, SessionLocked
    <1>4. OpeningAlone'
      BY <1>0 DEF ReqInv, ReqTypeOK, OpeningAlone, Moves, stage
    <1>5. SessionPresent'
      <2> SUFFICES ASSUME NEW q \in Requests, stage(q)' \in NeedsSession
                   PROVE  session(q)' # None
        BY DEF SessionPresent
      <2>1. q # p /\ stage(q) \in NeedsSession
        BY DEF Moves, stage
      <2>2. HoldsSession(q) /\ session(q) # None
        BY <2>1 DEF ReqInv, SessionPresent, HoldsSession, NeedsSession, Outside
      <2>3. ClientOf(q) # ClientOf(p) /\ ClientOf(q) \in Clients
        BY <2>1, <2>2, ClientAssumption DEF ReqInv, SessionLocked
      <2> QED
        BY <1>0, <2>2, <2>3 DEF ReqInv, ReqTypeOK, session
    <1>6. SessionsExclusive'
      BY <1>0 DEF ReqInv, ReqTypeOK, SessionsExclusive
    <1> QED
      BY <1>1, <1>2, <1>3, <1>4, <1>5, <1>6 DEF ReqInv

\* A step that stores the session of the lock's holder with its own lease, when
\* the device has no session of another client.
LEMMA StoreKeepsInv ==
    ASSUME ReqInv, NEW p \in Requests, Moves(p, "idle"), stage(p) # "idle",
           sessions' = [sessions EXCEPT ![ClientOf(p)] = request[p].lease], UNCHANGED held,
           \A q \in Requests : stage(q) = "opening" => q = p,
           \A c \in Clients : c # ClientOf(p) => sessions[c] = None
    PROVE  ReqInv'
    <1>0. ClientOf(p) \in Clients
      BY ClientAssumption
    <1>1. request[p].lease \in LeaseIds
      BY DEF ReqInv, ReqTypeOK, LeaseCarried, Optional
    <1>2. /\ sessions' \in [Clients -> Optional(LeaseIds)]
          /\ \A c \in Clients : c # ClientOf(p) => sessions'[c] = None
          /\ sessions'[ClientOf(p)] # None
      BY <1>0, <1>1, IdAssumption DEF ReqInv, ReqTypeOK, Optional
    <1>3. ReqTypeOK'
      BY <1>2 DEF ReqInv, ReqTypeOK, Moves, Request
    <1>4. LeaseCarried'
      BY DEF ReqInv, LeaseCarried, Moves, stage
    <1>5. SessionLocked'
      <2>1. \A a \in Requests : HoldsSession(a)' => HoldsSession(a)
        BY DEF Moves, HoldsSession, stage, Outside
      <2> QED
        BY <2>1 DEF ReqInv, SessionLocked
    <1>6. OpeningAlone'
      BY DEF OpeningAlone, Moves, stage
    <1>7. SessionPresent'
      <2> SUFFICES ASSUME NEW q \in Requests, stage(q)' \in NeedsSession
                   PROVE  session(q)' # None
        BY DEF SessionPresent
      <2>1. q # p /\ stage(q) \in NeedsSession
        BY DEF Moves, stage, NeedsSession
      <2>2. session(q) # None /\ ClientOf(q) \in Clients
        BY <2>1, ClientAssumption DEF ReqInv, SessionPresent
      <2>3. ClientOf(q) = ClientOf(p)
        BY <2>2 DEF session
      <2> QED
        BY <1>2, <2>3 DEF session
    <1>8. SessionsExclusive'
      BY <1>2 DEF SessionsExclusive
    <1> QED
      BY <1>3, <1>4, <1>5, <1>6, <1>7, <1>8 DEF ReqInv

(***************************************************************************)
(* Every step of the system                                                *)
(***************************************************************************)

\* The system starts in the invariant.
LEMMA InitReqInv == ReqInit => ReqInv
    <1> SUFFICES ASSUME ReqInit PROVE ReqInv
      OBVIOUS
    <1>1. Idle \in Request /\ Idle.stage = "idle"
      BY DEF Idle, Request, Stages, Outside, Commands, Optional
    <1>2. ReqTypeOK
      BY <1>1 DEF ReqInit, ReqTypeOK, Request, Optional
    <1>3. \A p \in Requests : stage(p) = "idle"
      BY <1>1 DEF ReqInit, stage
    <1> QED
      BY <1>2, <1>3 DEF ReqInit, ReqInv, LeaseCarried, SessionLocked, OpeningAlone,
         SessionPresent, SessionsExclusive, HoldsSession, Outside, NeedsSession

\* The stages and the values a step may store.
LEMMA StagesKnown ==
    /\ NeedsSession \in SUBSET Stages
    /\ Outside \in SUBSET Stages
    /\ {"waiting", "entered", "admitting", "resolving", "opening", "shutting"} \in SUBSET Stages
    /\ NeedsSession \cap Outside = {}
    /\ {"waiting", "entered", "admitting", "resolving", "opening", "shutting"}
          \cap (Outside \cup NeedsSession) = {}
    BY DEF NeedsSession, Outside, Stages

\* The stages a handler starts in, and which of them need a session.
LEMMA HandlerStagesAre ==
    ASSUME NEW p \in Requests, NEW next \in HandlerStages(p)
    PROVE  /\ next \in {"idle", "resolving", "tearing", "acting", "unbound"}
           /\ next \in {"tearing", "acting"} => session(p) # None
    <1>1. CASE session(p) = None /\ request[p].command = "open"
      BY <1>1 DEF HandlerStages
    <1>2. CASE session(p) = None /\ request[p].command # "open"
      BY <1>2 DEF HandlerStages
    <1>3. CASE session(p) # None /\ request[p].command = "close"
      BY <1>3 DEF HandlerStages
    <1>4. CASE session(p) # None /\ request[p].command # "close"
      BY <1>4 DEF HandlerStages
    <1> QED
      BY <1>1, <1>2, <1>3, <1>4

\* Each action of a request keeps the invariant.
LEMMA RequestKeepsInv ==
    ASSUME ReqInv, TypeOK', NEW p \in Requests,
           Arrives(p) \/ LeaseCommand(p) \/ Proceeds(p) \/ TakesLock(p) \/ OpenUnresolved(p)
    PROVE  ReqInv'
    <1>0. /\ ReqTypeOK /\ LeaseCarried
          /\ ClientOf(p) \in Clients
          /\ held \in [Clients -> Optional(LeaseIds)]
          /\ request[p].lease \in Optional(LeaseIds)
      BY ClientAssumption DEF ReqInv, ReqTypeOK
    <1>1. ASSUME NEW command \in Commands, NEW locksDevice \in BOOLEAN,
                 Arrive(p, command, locksDevice)
          PROVE  ReqInv'
      <2>1. Moves(p, "queued")
        BY <1>0, <1>1 DEF Arrive, Moves, Request, ReqTypeOK, Stages, Outside, Optional
      <2> QED
        BY <1>0, <1>1, <2>1, MoveKeepsInv, StagesKnown DEF Arrive, Outside
    <1>2. CASE TakeSessionLock(p)
      <2>1. PICK next \in {"waiting", "entered"} : Goes(p, next)
        BY <1>2 DEF TakeSessionLock
      <2>2. Moves(p, next)
        BY <1>0, <1>2, <2>1, GoesMoves, StagesKnown DEF TakeSessionLock
      <2> QED
        BY <1>0, <1>2, <2>1, <2>2, MoveKeepsInv, StagesKnown DEF TakeSessionLock
    <1>3. CASE TakeDeviceLock(p)
      <2>1. Moves(p, "entered")
        BY <1>0, <1>3, GoesMoves, StagesKnown DEF TakeDeviceLock
      <2> QED
        BY <1>0, <1>3, <2>1, MoveKeepsInv, StagesKnown
           DEF TakeDeviceLock, HoldsSession, Outside
    <1>4. CASE CleanupNotNeeded(p) \/ CleanupStarts(p)
      <2>1. PICK next \in {"admitting", "cleaning"} :
               Goes(p, next) /\ (next = "cleaning" => session(p) # None)
        BY <1>4 DEF CleanupNotNeeded, CleanupStarts
      <2>2. next \in Stages /\ next # "opening"
        BY StagesKnown DEF NeedsSession
      <2>3. Moves(p, next)
        BY <1>0, <1>4, <2>1, <2>2, GoesMoves DEF CleanupNotNeeded, CleanupStarts
      <2>4. next \in NeedsSession => session(p) # None
        BY <2>1 DEF NeedsSession
      <2>5. HoldsSession(p) /\ UNCHANGED <<sessions, held>>
        BY <1>4 DEF CleanupNotNeeded, CleanupStarts, HoldsSession, Outside
      <2> QED
        BY <1>0, <2>2, <2>3, <2>4, <2>5, MoveKeepsInv
    <1>5. CASE CleanupEnds(p)
      <2>1. Moves(p, "admitting") /\ HoldsSession(p)
        BY <1>0, <1>5, GoesMoves, StagesKnown DEF CleanupEnds, HoldsSession, Outside
      <2>2. CASE ClientOf(p) \in Scoped
        BY <1>0, <1>5, <2>1, <2>2, MoveKeepsInv, StagesKnown DEF CleanupEnds
      <2>3. CASE ClientOf(p) \notin Scoped
        BY <1>0, <1>5, <2>1, <2>3, RemovalKeepsInv, StagesKnown DEF CleanupEnds
      <2> QED
        BY <2>2, <2>3
    <1>6. CASE Admit(p)
      <2>1. PICK next \in {"idle", "resolving", "tearing", "acting", "unbound"} :
               /\ IF next = "idle" THEN Ends(p) ELSE Goes(p, next)
               /\ next \in {"tearing", "acting"} => session(p) # None
        BY <1>6, HandlerStagesAre DEF Admit
      <2>2. next \in Stages /\ next # "opening"
        BY DEF Stages, Outside
      <2>3. Moves(p, next)
        BY <1>0, <1>6, <2>1, <2>2, GoesMoves, EndsMoves DEF Admit
      <2>4. next \in NeedsSession => session(p) # None
        BY <2>1 DEF NeedsSession
      <2>5. HoldsSession(p) /\ UNCHANGED <<sessions, held>>
        BY <1>6 DEF Admit, HoldsSession, Outside
      <2> QED
        BY <1>0, <2>2, <2>3, <2>4, <2>5, MoveKeepsInv
    <1>7. CASE OpenStarts(p)
      <2>1. Moves(p, "opening") /\ HoldsSession(p)
        BY <1>0, <1>7, GoesMoves, StagesKnown DEF OpenStarts, HoldsSession, Outside
      <2>2. \A q \in Requests : stage(q) # "opening"
        BY <1>7 DEF OpenStarts, FirstOpenFree, HoldsFirstOpen
      <2>3. \A c \in Clients : sessions[c] = None
        BY <1>7 DEF OpenStarts, DeviceInUse
      <2> QED
        BY <1>0, <1>7, <2>1, <2>2, <2>3, MoveKeepsInv, StagesKnown DEF OpenStarts
    <1>8. CASE OpenSucceeds(p)
      <2>1. Moves(p, "idle")
        BY <1>0, <1>8, EndsMoves DEF OpenSucceeds
      <2> QED
        BY <1>8, <2>1, StoreKeepsInv DEF OpenSucceeds, ReqInv, OpeningAlone
    <1>9. CASE ActEnds(p)
      <2>1. Moves(p, "idle") /\ session(p) # None
        BY <1>0, <1>9, EndsMoves DEF ActEnds, ReqInv, SessionPresent, NeedsSession
      <2>2. /\ \A c \in Clients : c # ClientOf(p) => sessions[c] = None
            /\ \A q \in Requests : stage(q) # "opening"
        BY <1>0, <2>1 DEF ReqInv, SessionsExclusive, OpeningAlone, session
      <2>3. CASE request[p].command = "open"
        BY <1>9, <2>1, <2>2, <2>3, StoreKeepsInv DEF ActEnds
      <2>4. CASE request[p].command # "open"
        BY <1>0, <1>9, <2>1, <2>4, MoveKeepsInv, StagesKnown DEF ActEnds, Outside
      <2> QED
        BY <2>3, <2>4
    <1>10. CASE CloseTornDown(p)
      <2>1. PICK next \in {"releasing", "clearing"} : Goes(p, next)
        BY <1>10 DEF CloseTornDown
      <2>2. next \in NeedsSession /\ next \in Stages /\ next # "opening"
        BY DEF NeedsSession, Stages
      <2>3. Moves(p, next) /\ HoldsSession(p) /\ session(p) # None
        BY <1>0, <1>10, <2>1, <2>2, GoesMoves
           DEF CloseTornDown, HoldsSession, Outside, ReqInv, SessionPresent, NeedsSession
      <2> QED
        BY <1>0, <1>10, <2>2, <2>3, MoveKeepsInv DEF CloseTornDown
    <1>11. CASE CloseReleased(p)
      <2>1. Moves(p, "clearing") /\ HoldsSession(p) /\ session(p) # None
        BY <1>0, <1>11, GoesMoves, StagesKnown
           DEF CloseReleased, HoldsSession, Outside, ReqInv, SessionPresent, NeedsSession
      <2> QED
        BY <1>0, <1>11, <2>1, MoveKeepsInv, StagesKnown DEF CloseReleased, NeedsSession
    <1>12. ASSUME NEW shutdown \in BOOLEAN, CloseDeletes(p, shutdown)
           PROVE  ReqInv'
      <2>1. PICK next \in {"shutting", "idle"} :
               IF next = "idle" THEN Ends(p) ELSE Goes(p, next)
        BY <1>12 DEF CloseDeletes
      <2>2. next \in Stages /\ next # "opening" /\ next \notin NeedsSession
        BY DEF NeedsSession, Stages, Outside
      <2>3. Moves(p, next) /\ HoldsSession(p)
        BY <1>0, <1>12, <2>1, <2>2, GoesMoves, EndsMoves
           DEF CloseDeletes, HoldsSession, Outside
      <2> QED
        BY <1>12, <2>2, <2>3, RemovalKeepsInv DEF CloseDeletes
    <1>13. CASE AllocateStarts(p)
      <2>1. CASE Granted(ClientOf(p)) = None
        BY <1>13, <2>1
           DEF AllocateStarts, ReqInv, ReqTypeOK, LeaseCarried, SessionLocked, OpeningAlone,
               SessionPresent, SessionsExclusive, HoldsSession, stage, session
      <2>2. CASE Granted(ClientOf(p)) # None
        <3>1. bindingKey(Allocation(ClientOf(p))) \in RunKeys
          BY <1>0, ClientAssumption
             DEF bindingKey, Allocation, OrElse, RunKeys, ProviderSlots
        <3>2. Granted(ClientOf(p)) \in LeaseIds
          BY <2>2, <3>1 DEF TypeOK, Granted, Optional
        <3>3. request' = [request EXCEPT ![p].stage = "allocating",
                                        ![p].lease = Granted(ClientOf(p))]
          BY <1>13, <2>2 DEF AllocateStarts
        <3>4. Moves(p, "allocating")
          BY <1>0, <2>2, <3>2, <3>3 DEF Moves, Request, ReqTypeOK, Stages, Outside, Optional
        <3> QED
          BY <1>0, <1>13, <3>4, MoveKeepsInv, StagesKnown DEF AllocateStarts, Outside
      <2> QED
        BY <2>1, <2>2
    <1>14. CASE AllocateEnds(p)
      <2>1. Moves(p, "idle")
        BY <1>0, <1>14, EndsMoves DEF AllocateEnds
      <2>2. held' \in [Clients -> Optional(LeaseIds)]
        BY <1>0, <1>14 DEF AllocateEnds
      <2> QED
        BY <1>0, <1>14, <2>1, <2>2, MoveKeepsInv, StagesKnown DEF AllocateEnds, Outside
    <1>15. CASE Heartbeat(p)
      BY <1>15
         DEF Heartbeat, reqVars, ReqInv, ReqTypeOK, LeaseCarried, SessionLocked,
             OpeningAlone, SessionPresent, SessionsExclusive, HoldsSession, stage, session
    <1>16. CASE ReleaseStarts(p)
      <2>1. CASE request' = request
        BY <1>16, <2>1
           DEF ReleaseStarts, ReqInv, ReqTypeOK, LeaseCarried, SessionLocked, OpeningAlone,
               SessionPresent, SessionsExclusive, HoldsSession, stage, session
      <2>2. CASE request' # request
        <3>1. request' = [request EXCEPT ![p].stage = "freeing",
                                        ![p].lease = held[ClientOf(p)]]
          BY <1>16, <2>2 DEF ReleaseStarts
        <3>2. held[ClientOf(p)] # None /\ held[ClientOf(p)] \in Optional(LeaseIds)
          BY <1>0, <1>16 DEF ReleaseStarts
        <3>3. Moves(p, "freeing")
          BY <1>0, <3>1, <3>2 DEF Moves, Request, ReqTypeOK, Stages, Outside
        <3> QED
          BY <1>0, <1>16, <3>3, MoveKeepsInv, StagesKnown DEF ReleaseStarts, Outside
      <2> QED
        BY <2>1, <2>2
    <1>17. CASE Ends(p) /\ UNCHANGED <<sessions, held>>
      <2>1. Moves(p, "idle")
        BY <1>0, <1>17, EndsMoves
      <2> QED
        BY <1>0, <1>17, <2>1, MoveKeepsInv, StagesKnown DEF Outside
    <1>18. Canceled(p) \/ Refuse(p) \/ OpenRefused(p) \/ OpenUnresolved(p) \/ OpenFails(p)
           \/ CloseReleaseFails(p) \/ ShutdownEnds(p) \/ AllocateFails(p)
           \/ ReleaseEnds(p) \/ ReleaseFails(p) \/ UnboundEnds(p)
             => Ends(p) /\ UNCHANGED <<sessions, held>>
      BY DEF Canceled, Refuse, OpenRefused, OpenUnresolved, OpenFails, CloseReleaseFails,
             ShutdownEnds, AllocateFails, ReleaseEnds, ReleaseFails, UnboundEnds
    <1> QED
      BY <1>1, <1>2, <1>3, <1>4, <1>5, <1>6, <1>7, <1>8, <1>9, <1>10, <1>11, <1>12,
         <1>13, <1>14, <1>15, <1>16, <1>17, <1>18
         DEF Arrives, LeaseCommand, Proceeds, TakesLock
(***************************************************************************)
(* The registry under the requests                                         *)
(***************************************************************************)

\* A sweep is a step of the registry, or finds nothing to remove.
LEMMA SweepIsStep ==
    ASSUME TypeOK, Sweep
    PROVE  [Next]_vars
    <1>1. CASE ExpiredIds # {}
      BY <1>1 DEF Next, ConsumeExpiredLeases
    <1>2. CASE ExpiredIds = {}
      <2>1. /\ WithoutLeases(leases, ExpiredIds) = leases
            /\ WithoutRuns(leases, runBindings, ExpiredIds) = runBindings
            /\ WithoutDevices(leases, deviceBindings, ExpiredIds) = deviceBindings
        BY <1>2 DEF TypeOK, WithoutLeases, WithoutRuns, WithoutDevices
      <2>2. notified \cup ExpiredIds = notified
        BY <1>2
      <2> QED
        BY <2>1, <2>2 DEF Sweep, Drop, NotifySwept, vars
    <1> QED
      BY <1>1, <1>2

\* What a client asks of the registry is a request the registry knows.
LEMMA ClientRequests ==
    ASSUME NEW p \in Requests
    PROVE  /\ Allocation(ClientOf(p)) \in AllocateRequest
           /\ Scope(ClientOf(p)) \in ScopeRequest
           /\ ProxyTtl \in Optional(Ttls)
    BY ClientAssumption DEF Allocation, Scope, AllocateRequest, ScopeRequest, Optional

\* Every step of a request is one call of the registry, or none.
LEMMA RequestUsesRegistry ==
    ASSUME TypeOK, ReqInv, NEW p \in Requests,
           Arrives(p) \/ LeaseCommand(p) \/ Proceeds(p) \/ TakesLock(p) \/ OpenUnresolved(p)
    PROVE  [Next]_vars
    <1>0. /\ Allocation(ClientOf(p)) \in AllocateRequest
          /\ Scope(ClientOf(p)) \in ScopeRequest
          /\ ProxyTtl \in Optional(Ttls)
      BY ClientRequests
    <1>1. /\ stage(p) # "idle" => request[p].lease \in LeaseIds
          /\ stage(p) \in NeedsSession => session(p) \in LeaseIds
          /\ session(p) # None => session(p) \in LeaseIds
          /\ held[ClientOf(p)] # None => held[ClientOf(p)] \in LeaseIds
      BY ClientAssumption
         DEF ReqInv, ReqTypeOK, LeaseCarried, SessionPresent, Optional, session
    <1>2. CASE CleanupStarts(p)
      BY <1>1, <1>2 DEF CleanupStarts, Next
    <1>3. CASE Admit(p)
      BY <1>0, <1>1, <1>3 DEF Admit, Next
    <1>4. CASE Refuse(p) \/ CloseTornDown(p) \/ ReleaseStarts(p)
      BY <1>4, SweepIsStep DEF Refuse, CloseTornDown, ReleaseStarts
    <1>5. CASE CloseReleased(p)
      BY <1>0, <1>1, <1>5 DEF CloseReleased, Next, NeedsSession
    <1>6. CASE AllocateStarts(p)
      BY <1>0, <1>6 DEF AllocateStarts, Next
    <1>7. CASE AllocateFails(p) \/ ReleaseEnds(p)
      BY <1>0, <1>1, <1>7 DEF AllocateFails, ReleaseEnds, Next
    <1>8. CASE Heartbeat(p)
      BY <1>0, <1>1, <1>8 DEF Heartbeat, Next
    <1>9. CASE UNCHANGED vars
      BY <1>9
    <1>10. Arrives(p) \/ TakesLock(p) \/ OpenUnresolved(p) \/ Canceled(p) \/ CleanupNotNeeded(p)
           \/ CleanupEnds(p) \/ OpenSucceeds(p) \/ OpenFails(p) \/ ActEnds(p)
           \/ CloseReleaseFails(p) \/ (\E shutdown \in BOOLEAN : CloseDeletes(p, shutdown))
           \/ ShutdownEnds(p) \/ AllocateEnds(p) \/ ReleaseFails(p) \/ UnboundEnds(p)
             => UNCHANGED vars
      BY DEF Arrives, Arrive, TakesLock, TakeSessionLock, TakeDeviceLock, OpenStarts, OpenRefused,
             OpenUnresolved, Canceled, CleanupNotNeeded, CleanupEnds, OpenSucceeds, OpenFails,
             ActEnds, CloseReleaseFails, CloseDeletes, ShutdownEnds, AllocateEnds, ReleaseFails,
             UnboundEnds
    <1> QED
      BY <1>2, <1>3, <1>4, <1>5, <1>6, <1>7, <1>8, <1>9, <1>10 DEF LeaseCommand, Proceeds

\* Every step of the system is a step of the registry or leaves it alone.
LEMMA StepUsesRegistry == TypeOK /\ ReqInv /\ [ReqNext]_allVars => [Next]_vars
    <1>1. ASSUME TypeOK, ReqInv, ReqNext PROVE [Next]_vars
      <2>1. CASE Tick
        BY <2>1 DEF Next
      <2> QED
        BY <1>1, <2>1, RequestUsesRegistry DEF ReqNext
    <1>2. UNCHANGED allVars => UNCHANGED vars
      BY DEF allVars
    <1> QED
      BY <1>1, <1>2

\* The invariants of the registry and of the requests together.
LEMMA StepKeepsInv == IInv /\ ReqInv /\ [ReqNext]_allVars => IInv' /\ ReqInv'
    <1> SUFFICES ASSUME IInv, ReqInv, [ReqNext]_allVars PROVE IInv' /\ ReqInv'
      OBVIOUS
    <1>1. IInv' /\ TypeOK /\ TypeOK'
      BY StepUsesRegistry, NextIInv DEF IInv
    <1>2. ASSUME UNCHANGED reqVars PROVE ReqInv'
      BY <1>2 DEF reqVars, ReqInv, ReqTypeOK, LeaseCarried, SessionLocked, OpeningAlone,
         SessionPresent, SessionsExclusive, HoldsSession, stage, session
    <1>3. CASE ReqNext
      BY <1>1, <1>2, <1>3, RequestKeepsInv DEF ReqNext
    <1>4. CASE UNCHANGED allVars
      BY <1>1, <1>2, <1>4 DEF allVars
    <1> QED
      BY <1>1, <1>3, <1>4

\* The locks, the sessions and the registry are consistent in every state.
THEOREM ReqInvariance == ReqSpec => [](IInv /\ ReqInv)
    <1>1. ReqInit => IInv /\ ReqInv
      BY InitReqInv, InitIInv DEF ReqInit
    <1> QED
      BY <1>1, StepKeepsInv, PTL DEF ReqSpec

\* Requests, sessions and held leases always have their types.
THEOREM ReqTypeCorrect == ReqSpec => []ReqTypeOK
    <1>1. ReqInv => ReqTypeOK
      BY DEF ReqInv
    <1> QED
      BY <1>1, ReqInvariance, PTL

\* The requests of any number of clients use the registry by its methods alone:
\* every theorem about LeaseRegistry is a theorem about the requests.
THEOREM RequestsUseRegistry == ReqSpec => UsesRegistry
    <1>1. ReqInit => Init
      BY DEF ReqInit
    <1>2. IInv /\ ReqInv /\ [ReqNext]_allVars => [Next]_vars
      BY StepUsesRegistry DEF IInv
    <1> QED
      BY <1>1, <1>2, ReqInvariance, PTL DEF ReqSpec, UsesRegistry, Spec

\* findNewSessionDeviceConflict under firstSessionOpenLocks keeps a device to one
\* session, even when requests enter without the device lock.
THEOREM SessionsAreExclusive == ReqSpec => []SessionsExclusive
    <1>1. ReqInv => SessionsExclusive
      BY DEF ReqInv
    <1> QED
      BY <1>1, ReqInvariance, PTL

(***************************************************************************)
(* Which lease a session and an admitted request stand for                 *)
(***************************************************************************)

OwnedBy(id, c) == leases[id] # None => OwnerScopeAccepted(leases[id], Scope(c))

\* An admitted request carries a lease that was granted, to its own client.
AdmittedOwned ==
    \A p \in Requests : stage(p) \in {"resolving", "opening", "acting"} =>
       request[p].lease \in issued /\ OwnedBy(request[p].lease, ClientOf(p))

\* So does a session.
SessionsOwned ==
    \A c \in Clients : sessions[c] # None => sessions[c] \in issued /\ OwnedBy(sessions[c], c)

\* A command of a session was admitted with the session's lease.
ActsForSession == \A p \in Requests : stage(p) = "acting" => request[p].lease = session(p)

\* A session about to be deleted has no lease any more.
EndingReleased ==
    \A p \in Requests : stage(p) \in {"cleaning", "clearing"} => leases[session(p)] = None

OwnInv == AdmittedOwned /\ SessionsOwned /\ ActsForSession /\ EndingReleased

\* A step of the registry draws ids, and never changes whose a lease is.
LEMMA LeasesPersist ==
    ASSUME IInv, [Next]_vars
    PROVE  /\ issued \in SUBSET issued'
           /\ \A id \in issued, c \in Clients : OwnedBy(id, c) => OwnedBy(id, c)'
    <1>0. issued \in SUBSET LeaseIds
      BY DEF IInv, TypeOK
    <1>1. ASSUME NEW gone \in SUBSET LeaseIds, Vanish(gone)
          PROVE  /\ issued \in SUBSET issued'
                 /\ \A id \in issued : leases'[id] \in {None, leases[id]}
      BY <1>0, <1>1 DEF Vanish, Drop, WithoutLeases
    <1>2. ASSUME NEW id \in LeaseIds, NEW q \in AllocateRequest, Create(id, q)
          PROVE  /\ issued \in SUBSET issued'
                 /\ \A i \in issued : leases'[i] \in {None, leases[i]}
      <2>1. \A i \in issued : leases'[i] = SweptLeases[i]
        BY <1>0, <1>2, CreateExact, SweptMaps DEF IInv, MapsTyped, Create
      <2> QED
        BY <1>0, <1>2, <2>1, SweptMaps DEF IInv, Create
    <1>3. ASSUME NEW id \in LeaseIds, NEW ttl \in Optional(Ttls), Refresh(id, ttl)
          PROVE  /\ issued \in SUBSET issued'
                 /\ \A i \in issued, c \in Clients : OwnedBy(i, c) => OwnedBy(i, c)'
      <2>1. /\ leases[id] # None /\ leases[id] \in Lease
            /\ leases'[id] = [leases[id] EXCEPT !.expiresAt = now + resolveLeaseTtlMs(ttl)]
            /\ \A i \in LeaseIds : i # id => leases'[i] = SweptLeases[i]
        BY <1>3, RefreshExact, SweptMaps DEF IInv, MapsTyped, TypeOK, Optional
      <2>2. \A i \in issued : i # id => leases'[i] \in {None, leases[i]}
        BY <1>0, <2>1, SweptMaps DEF IInv
      <2>3. \A c \in Clients : OwnedBy(id, c) => OwnedBy(id, c)'
        BY <2>1 DEF OwnedBy, OwnerScopeAccepted, OptionalScopeMatch, OptionalLeaseIdentityMatch,
                    leaseRequiresOwnerScope, hasRequiredOwnerScope, Lease
      <2>4. issued' = issued
        BY <1>3 DEF Refresh
      <2> QED
        BY <2>2, <2>3, <2>4 DEF OwnedBy
    <1>4. CASE Elapse
      BY <1>4 DEF Elapse, maps, OwnedBy
    <1>5. CASE UNCHANGED vars
      BY <1>5 DEF vars, OwnedBy
    <1>6. ASSUME issued \in SUBSET issued',
                 \A id \in issued : leases'[id] \in {None, leases[id]}
          PROVE  \A id \in issued, c \in Clients : OwnedBy(id, c) => OwnedBy(id, c)'
      BY <1>6 DEF OwnedBy
    <1> QED
      BY <1>1, <1>2, <1>3, <1>4, <1>5, <1>6, StepShape

\* What a step of the request in slot p leaves alone: the other requests, and
\* every session but its own client's, which it changes under the session lock.
LEMMA RequestFrame ==
    ASSUME ReqInv, NEW p \in Requests,
           Arrives(p) \/ LeaseCommand(p) \/ Proceeds(p) \/ TakesLock(p) \/ OpenUnresolved(p)
    PROVE  /\ \A q \in Requests : q # p => request'[q] = request[q]
           /\ \A c \in Clients : sessions'[c] # sessions[c] => c = ClientOf(p) /\ HoldsSession(p)
    <1>0. /\ ReqTypeOK /\ ClientOf(p) \in Clients
      BY ClientAssumption DEF ReqInv
    <1>1. \A q \in Requests : q # p => request'[q] = request[q]
      <2>1. ASSUME NEW next, Goes(p, next) \/ Ends(p)
            PROVE  \A q \in Requests : q # p => request'[q] = request[q]
        BY <1>0, <2>1 DEF Goes, Ends, ReqTypeOK
      <2>2. CASE Arrives(p) \/ LeaseCommand(p)
        BY <1>0, <2>2 DEF Arrives, Arrive, LeaseCommand, AllocateStarts, Heartbeat, ReleaseStarts,
           reqVars, ReqTypeOK
      <2>3. CASE Proceeds(p) \/ TakesLock(p) \/ OpenUnresolved(p)
        BY <2>1, <2>3
           DEF Proceeds, TakesLock, TakeSessionLock, TakeDeviceLock, OpenStarts, OpenRefused,
               OpenUnresolved, Canceled, CleanupNotNeeded, CleanupStarts, CleanupEnds, Admit,
               Refuse, OpenSucceeds, OpenFails, ActEnds, CloseTornDown, CloseReleased,
               CloseReleaseFails, CloseDeletes, ShutdownEnds, AllocateEnds, AllocateFails,
               ReleaseEnds, ReleaseFails, UnboundEnds
      <2> QED
        BY <2>2, <2>3
    <1>2. CASE UNCHANGED sessions
      BY <1>1, <1>2
    <1>3. CASE CleanupEnds(p) \/ OpenSucceeds(p) \/ ActEnds(p)
               \/ \E shutdown \in BOOLEAN : CloseDeletes(p, shutdown)
      <2>1. HoldsSession(p)
        BY <1>3 DEF CleanupEnds, OpenSucceeds, ActEnds, CloseDeletes, HoldsSession, Outside
      <2>2. \A c \in Clients : c # ClientOf(p) => sessions'[c] = sessions[c]
        BY <1>0, <1>3 DEF CleanupEnds, OpenSucceeds, ActEnds, CloseDeletes, ReqTypeOK
      <2> QED
        BY <1>1, <2>1, <2>2
    <1> QED
      BY <1>2, <1>3
         DEF Arrives, Arrive, LeaseCommand, AllocateStarts, Heartbeat, ReleaseStarts, reqVars,
             Proceeds, TakesLock, TakeSessionLock, TakeDeviceLock, OpenStarts, OpenRefused,
             OpenUnresolved, Canceled, CleanupNotNeeded, CleanupStarts, Admit, Refuse, OpenFails,
             CloseTornDown, CloseReleased, CloseReleaseFails, ShutdownEnds, AllocateEnds,
             AllocateFails, ReleaseEnds, ReleaseFails, UnboundEnds

\* The device lock: requests with the device key are past it one at a time.
DeviceLocked == \A p, q \in Requests : HoldsDevice(p) /\ HoldsDevice(q) => p = q

\* A request comes to hold the device lock by TakeDeviceLock alone.
LEMMA DeviceLockTaken ==
    ASSUME ReqInv, NEW p \in Requests,
           Arrives(p) \/ LeaseCommand(p) \/ Proceeds(p) \/ TakesLock(p) \/ OpenUnresolved(p)
    PROVE  HoldsDevice(p)' => HoldsDevice(p) \/ TakeDeviceLock(p)
    <1>0. ReqTypeOK
      BY DEF ReqInv
    <1>1. ASSUME NEW next, Goes(p, next)
          PROVE  stage(p)' = next /\ request'[p].locksDevice = request[p].locksDevice
      BY <1>0, <1>1 DEF Goes, stage, ReqTypeOK
    <1>2. ASSUME Ends(p)
          PROVE  ~HoldsDevice(p)'
      BY <1>0, <1>2 DEF Ends, stage, Idle, HoldsDevice, ReqTypeOK
    <1>3. CASE Arrives(p) \/ LeaseCommand(p)
      BY <1>0, <1>3 DEF Arrives, Arrive, LeaseCommand, AllocateStarts, Heartbeat, ReleaseStarts,
         reqVars, ReqTypeOK, stage, HoldsDevice, Outside
    <1>4. CASE TakeSessionLock(p)
      BY <1>0, <1>1, <1>4 DEF TakeSessionLock, Goes, HoldsDevice, stage, ReqTypeOK
    <1>5. ASSUME NEW next, Goes(p, next), stage(p) \notin Outside \cup {"waiting"}
          PROVE  HoldsDevice(p)' => HoldsDevice(p)
      BY <1>1, <1>5 DEF HoldsDevice
    <1>6. CASE Proceeds(p) \/ OpenStarts(p) \/ OpenRefused(p) \/ OpenUnresolved(p)
      <2>1. Ends(p) \/ (\E next : Goes(p, next) /\ stage(p) \notin Outside \cup {"waiting"})
        <3>1. CASE Admit(p)
          BY <3>1 DEF Admit, Outside
        <3>2. CASE CleanupNotNeeded(p) \/ CleanupStarts(p) \/ CleanupEnds(p)
          BY <3>2 DEF CleanupNotNeeded, CleanupStarts, CleanupEnds, Outside
        <3>3. CASE CloseTornDown(p) \/ CloseReleased(p)
                   \/ \E shutdown \in BOOLEAN : CloseDeletes(p, shutdown)
          BY <3>3 DEF CloseTornDown, CloseReleased, CloseDeletes, Outside
        <3>4. CASE OpenStarts(p)
          BY <3>4 DEF OpenStarts, Outside
        <3> QED
          BY <1>6, <3>1, <3>2, <3>3, <3>4
             DEF Proceeds, Canceled, Refuse, OpenSucceeds, OpenFails, ActEnds, UnboundEnds,
                 CloseReleaseFails, ShutdownEnds, AllocateEnds, AllocateFails, ReleaseEnds,
                 ReleaseFails, OpenRefused, OpenUnresolved
      <2> QED
        BY <1>2, <1>5, <2>1
    <1> QED
      BY <1>3, <1>4, <1>6 DEF TakesLock

\* The device lock is taken only when no request holds it.
LEMMA StepKeepsDeviceLock == ReqInv /\ DeviceLocked /\ [ReqNext]_allVars => DeviceLocked'
    <1> SUFFICES ASSUME ReqInv, DeviceLocked, [ReqNext]_allVars PROVE DeviceLocked'
      OBVIOUS
    <1>1. CASE UNCHANGED reqVars
      BY <1>1 DEF reqVars, DeviceLocked, HoldsDevice, stage
    <1>2. ASSUME NEW p \in Requests,
                 Arrives(p) \/ LeaseCommand(p) \/ Proceeds(p) \/ TakesLock(p) \/ OpenUnresolved(p)
          PROVE  DeviceLocked'
      <2>1. \A q \in Requests : q # p => (HoldsDevice(q)' <=> HoldsDevice(q))
        BY <1>2, RequestFrame DEF HoldsDevice, stage
      <2>2. CASE ~TakeDeviceLock(p)
        BY <1>2, <2>1, <2>2, DeviceLockTaken DEF DeviceLocked
      <2>3. CASE TakeDeviceLock(p)
        BY <2>1, <2>3 DEF TakeDeviceLock, DeviceLocked
      <2> QED
        BY <2>2, <2>3
    <1> QED
      BY <1>1, <1>2 DEF ReqNext, allVars

\* Two requests open, tear down or work on the device at once only when one of
\* them goes through no session and one of them has no device key.
THEOREM OneOperator == ReqSpec => []SoleOperator
    <1>1. ASSUME ReqInv, DeviceLocked PROVE SoleOperator
      <2> SUFFICES ASSUME NEW p \in Requests, NEW q \in Requests, p # q,
                          stage(p) \in OnDevice, stage(q) \in OnDevice
                   PROVE  /\ "unbound" \in {stage(p), stage(q)}
                          /\ ~(HoldsDevice(p) /\ HoldsDevice(q))
        BY DEF SoleOperator
      <2>1. ClientOf(p) \in Clients /\ ClientOf(q) \in Clients
        BY ClientAssumption
      <2>2. HoldsSession(p) /\ HoldsSession(q)
        BY DEF HoldsSession, OnDevice, Outside
      <2>3. ~(HoldsDevice(p) /\ HoldsDevice(q))
        BY <1>1 DEF DeviceLocked
      <2>4. SUFFICES ASSUME stage(p) # "unbound", stage(q) # "unbound"
                     PROVE  FALSE
        BY <2>3
      <2>5. CASE stage(p) = "opening" \/ stage(q) = "opening"
        BY <1>1, <2>1, <2>4, <2>5
           DEF ReqInv, OpeningAlone, SessionPresent, OnDevice, NeedsSession, session
      <2>6. CASE stage(p) # "opening" /\ stage(q) # "opening"
        <3>1. session(p) # None /\ session(q) # None
          BY <1>1, <2>4, <2>6 DEF ReqInv, SessionPresent, OnDevice, NeedsSession
        <3>2. ClientOf(p) = ClientOf(q)
          BY <1>1, <2>1, <3>1 DEF ReqInv, SessionsExclusive, session
        <3> QED
          BY <1>1, <2>2, <3>2 DEF ReqInv, SessionLocked
      <2> QED
        BY <2>5, <2>6
    <1>2. ReqInit => DeviceLocked
      BY DEF ReqInit, DeviceLocked, HoldsDevice, Idle
    <1> QED
      BY <1>1, <1>2, StepKeepsDeviceLock, ReqInvariance, PTL DEF ReqSpec

\* A step to a stage that no part of the invariant speaks of.
PassesOn(p) ==
    \E next \in {"waiting", "entered", "admitting", "releasing", "shutting"} : Goes(p, next)

\* The steps by which a request gets to the stages the invariant speaks of.
LEMMA StageReached ==
    ASSUME ReqInv, NEW p \in Requests,
           Arrives(p) \/ LeaseCommand(p) \/ Proceeds(p) \/ TakesLock(p) \/ OpenUnresolved(p)
    PROVE  /\ stage(p)' \in {"resolving", "acting", "tearing"} => Admit(p)
           /\ stage(p)' = "opening" => OpenStarts(p)
           /\ stage(p)' = "cleaning" => CleanupStarts(p)
           /\ stage(p)' = "clearing" => CloseTornDown(p) \/ CloseReleased(p)
    <1>0. ReqTypeOK
      BY DEF ReqInv
    <1>1. ASSUME NEW next, Goes(p, next)
          PROVE  stage(p)' = next
      BY <1>0, <1>1 DEF Goes, stage, ReqTypeOK
    <1>2. ASSUME Ends(p)
          PROVE  stage(p)' = "idle"
      BY <1>0, <1>2 DEF Ends, stage, Idle, ReqTypeOK
    <1>3. CASE Arrives(p) \/ LeaseCommand(p)
      BY <1>0, <1>3 DEF Arrives, Arrive, LeaseCommand, AllocateStarts, Heartbeat, ReleaseStarts,
         reqVars, ReqTypeOK, stage
    <1>4. CASE Ends(p)
      BY <1>2, <1>4
    <1>5. CASE PassesOn(p)
      BY <1>1, <1>5 DEF PassesOn
    <1>6. CASE OpenStarts(p) \/ CleanupStarts(p)
      BY <1>1, <1>6 DEF OpenStarts, CleanupStarts
    <1>7. CASE CloseTornDown(p) \/ CloseReleased(p)
      BY <1>1, <1>7 DEF CloseTornDown, CloseReleased
    <1>8. CASE Admit(p)
      BY <1>1, <1>2, <1>8, HandlerStagesAre DEF Admit
    <1>9. ASSUME \/ TakeSessionLock(p) \/ TakeDeviceLock(p) \/ OpenRefused(p) \/ OpenUnresolved(p)
                 \/ Canceled(p) \/ CleanupNotNeeded(p) \/ CleanupEnds(p) \/ Refuse(p)
                 \/ OpenSucceeds(p) \/ OpenFails(p) \/ ActEnds(p) \/ CloseReleaseFails(p)
                 \/ (\E shutdown \in BOOLEAN : CloseDeletes(p, shutdown)) \/ ShutdownEnds(p)
                 \/ AllocateEnds(p) \/ AllocateFails(p) \/ ReleaseEnds(p) \/ ReleaseFails(p)
                 \/ UnboundEnds(p)
          PROVE  Ends(p) \/ PassesOn(p)
      BY <1>9 DEF PassesOn, TakeSessionLock, TakeDeviceLock, OpenRefused, OpenUnresolved, Canceled,
             CleanupNotNeeded, CleanupEnds, Refuse, OpenSucceeds, OpenFails, ActEnds,
             CloseReleaseFails, CloseDeletes, ShutdownEnds, AllocateEnds, AllocateFails,
             ReleaseEnds, ReleaseFails, UnboundEnds
    <1>10. ASSUME Proceeds(p) \/ TakesLock(p) \/ OpenUnresolved(p),
                  ~OpenStarts(p), ~CleanupStarts(p), ~CloseTornDown(p), ~CloseReleased(p), ~Admit(p)
           PROVE  Ends(p) \/ PassesOn(p)
      <2>1. CASE TakesLock(p)
        BY <1>9, <1>10, <2>1 DEF TakesLock
      <2>2. CASE Proceeds(p)
        BY <1>9, <1>10, <2>2 DEF Proceeds
      <2> QED
        BY <1>9, <1>10, <2>1, <2>2
    <1> QED
      BY <1>3, <1>4, <1>5, <1>6, <1>7, <1>8, <1>10

\* Admission finds the request's lease in the registry, granted to its client,
\* and the same as the session's if there is one.
LEMMA AdmitOwned ==
    ASSUME IInv, ReqInv, NEW p \in Requests, Admit(p)
    PROVE  /\ request[p].lease \in issued
           /\ OwnedBy(request[p].lease, ClientOf(p))
           /\ session(p) # None => session(p) = request[p].lease
           /\ stage(p)' = "acting" => session(p) # None
           /\ request'[p].lease = request[p].lease \/ stage(p)' = "idle"
    <1>0. /\ ReqTypeOK
          /\ request[p].lease \in LeaseIds
      BY DEF Admit, ReqInv, ReqTypeOK, LeaseCarried, Optional
    <1>1. /\ SweptLeases[request[p].lease] # None
          /\ OwnerScopeAccepted(SweptLeases[request[p].lease], Scope(ClientOf(p)))
      BY DEF Admit, Admitted, HeartbeatAccepted
    <1>2. SweptLeases[request[p].lease] = leases[request[p].lease]
      BY <1>0, <1>1, SweptMaps DEF IInv
    <1>3. request[p].lease \in issued /\ OwnedBy(request[p].lease, ClientOf(p))
      BY <1>0, <1>1, <1>2 DEF IInv, EndedForGood, OwnedBy
    <1>4. session(p) # None => session(p) = request[p].lease
      BY DEF Admit, Admitted, SessionMismatch
    <1>5. /\ stage(p)' = "acting" => session(p) # None
          /\ request'[p].lease = request[p].lease \/ stage(p)' = "idle"
      <2>1. PICK next \in HandlerStages(p) : IF next = "idle" THEN Ends(p) ELSE Goes(p, next)
        BY DEF Admit
      <2>2. next = "acting" => session(p) # None
        BY <2>1, HandlerStagesAre
      <2> QED
        BY <1>0, <2>1, <2>2 DEF Goes, Ends, Idle, stage, ReqTypeOK
    <1> QED
      BY <1>3, <1>4, <1>5

\* Cleaning and clearing begin with the session's lease out of the registry.
LEMMA EndingBegins ==
    ASSUME IInv, ReqInv, SessionsOwned, NEW p \in Requests,
           CleanupStarts(p) \/ CloseTornDown(p) \/ CloseReleased(p),
           stage(p)' \in {"cleaning", "clearing"}
    PROVE  leases'[session(p)] = None
    <1>0. /\ ReqTypeOK /\ ClientOf(p) \in Clients
          /\ session(p) # None /\ session(p) \in LeaseIds
      BY ClientAssumption
         DEF ReqInv, ReqTypeOK, SessionPresent, NeedsSession, CleanupStarts, CloseTornDown,
             CloseReleased, Optional, session
    <1>1. CASE CleanupStarts(p)
      BY <1>0, <1>1 DEF CleanupStarts, consumeExpiredLease, Drop, WithoutLeases
    <1>2. CASE CloseTornDown(p)
      BY <1>0, <1>2 DEF CloseTornDown, Goes, stage, ReqTypeOK, Sweep, Drop, SweptLeases
    <1>3. CASE CloseReleased(p)
      <2>1. OwnedBy(session(p), ClientOf(p))
        BY <1>0 DEF SessionsOwned, session
      <2>2. SweptLeases[session(p)] \in {None, leases[session(p)]}
        BY <1>0, SweptMaps DEF IInv
      <2>3. CASE ReleaseAccepted(session(p), Scope(ClientOf(p)))
        BY <1>0, <1>3, <2>3 DEF CloseReleased, releaseLease, Drop, WithoutLeases
      <2>4. CASE ~ReleaseAccepted(session(p), Scope(ClientOf(p)))
        <3>1. SweptLeases[session(p)] = None
          BY <2>1, <2>2, <2>4 DEF ReleaseAccepted, OwnedBy
        <3> QED
          BY <1>3, <2>4, <3>1 DEF CloseReleased, releaseLease, Sweep, Drop, SweptLeases
      <2> QED
        BY <2>3, <2>4
    <1> QED
      BY <1>1, <1>2, <1>3

\* A request that holds the session lock keeps its session through the steps of
\* all others.
LEMMA SessionKept ==
    ASSUME ReqInv, NEW p \in Requests, NEW q \in Requests, q # p, HoldsSession(q),
           \A c \in Clients : sessions'[c] # sessions[c] => c = ClientOf(p) /\ HoldsSession(p)
    PROVE  session(q)' = session(q)
    BY ClientAssumption DEF ReqInv, SessionLocked, session

\* A session is deleted while it is cleaned or cleared, and stored with the lease
\* of the request that opens.
LEMMA SessionWrites ==
    ASSUME ReqInv, NEW p \in Requests,
           Arrives(p) \/ LeaseCommand(p) \/ Proceeds(p) \/ TakesLock(p) \/ OpenUnresolved(p),
           session(p)' # session(p)
    PROVE  \/ session(p)' = None /\ stage(p) \in {"cleaning", "clearing"}
           \/ session(p)' = request[p].lease /\ stage(p) \in {"opening", "acting"}
    <1>0. ReqTypeOK /\ ClientOf(p) \in Clients /\ sessions' # sessions
      BY ClientAssumption DEF ReqInv, session
    <1>1. CASE CleanupEnds(p) \/ \E shutdown \in BOOLEAN : CloseDeletes(p, shutdown)
      BY <1>0, <1>1 DEF CleanupEnds, CloseDeletes, ReqTypeOK, session
    <1>2. CASE OpenSucceeds(p) \/ ActEnds(p)
      BY <1>0, <1>2 DEF OpenSucceeds, ActEnds, ReqTypeOK, session
    <1> QED
      BY <1>0, <1>1, <1>2
         DEF Arrives, Arrive, LeaseCommand, AllocateStarts, Heartbeat, ReleaseStarts, reqVars,
             Proceeds, TakesLock, TakeSessionLock, TakeDeviceLock, OpenStarts, OpenRefused,
             OpenUnresolved, Canceled, CleanupNotNeeded, CleanupStarts, Admit, Refuse, OpenFails,
             CloseTornDown, CloseReleased, CloseReleaseFails, ShutdownEnds, AllocateEnds,
             AllocateFails, ReleaseEnds, ReleaseFails, UnboundEnds

StillOwnedBy(id, c) == leases'[id] # None => OwnerScopeAccepted(leases'[id], Scope(c))

\* A step of one request keeps every lease with its session and its request, and
\* takes no session from a lease that is still in the registry.
LEMMA RequestKeepsOwn ==
    ASSUME IInv, ReqInv, OwnInv, [Next]_vars, NEW p \in Requests,
           Arrives(p) \/ LeaseCommand(p) \/ Proceeds(p) \/ TakesLock(p) \/ OpenUnresolved(p)
    PROVE  OwnInv' /\ SessionEndsWithLeaseStep
    <1>0. /\ ReqTypeOK
          /\ \A q \in Requests : ClientOf(q) \in Clients
      BY ClientAssumption DEF ReqInv
    <1>1. /\ \A q \in Requests : q # p => request'[q] = request[q]
          /\ \A c \in Clients : sessions'[c] # sessions[c] => c = ClientOf(p) /\ HoldsSession(p)
      BY RequestFrame
    <1>2. \A q \in Requests : q # p => stage(q)' = stage(q)
      BY <1>1 DEF stage
    <1>3. \A q \in Requests : q # p /\ HoldsSession(q) => session(q)' = session(q)
      BY <1>1, SessionKept
    <1>4. /\ issued \in SUBSET issued'
          /\ \A id \in issued, c \in Clients : OwnedBy(id, c) => StillOwnedBy(id, c)
      BY LeasesPersist DEF OwnedBy, StillOwnedBy
    <1>5. \A id \in issued : leases[id] = None => leases'[id] = None
      BY StepNoRevival DEF NoRevivalStep
    <1>6. \A c \in Clients : sessions[c] # None => sessions[c] \in issued /\ OwnedBy(sessions[c], c)
      BY DEF OwnInv, SessionsOwned
    <1>7. AdmittedOwned'
      <2> SUFFICES ASSUME NEW q \in Requests, stage(q)' \in {"resolving", "opening", "acting"}
                   PROVE  /\ request'[q].lease \in issued'
                          /\ StillOwnedBy(request'[q].lease, ClientOf(q))
        BY DEF AdmittedOwned, OwnedBy, StillOwnedBy
      <2>1. CASE q # p
        BY <1>0, <1>1, <1>2, <1>4, <2>1 DEF OwnInv, AdmittedOwned
      <2>2. CASE q = p /\ stage(p)' = "opening"
        <3>1. request'[p].lease = request[p].lease /\ stage(p) = "resolving"
          BY <1>0, <2>2, StageReached DEF OpenStarts, Goes, ReqTypeOK
        <3> QED
          BY <1>0, <1>4, <2>2, <3>1 DEF OwnInv, AdmittedOwned
      <2>3. CASE q = p /\ stage(p)' \in {"resolving", "acting"}
        <3>1. /\ request[p].lease \in issued /\ OwnedBy(request[p].lease, ClientOf(p))
              /\ request'[p].lease = request[p].lease
          BY <2>3, StageReached, AdmitOwned
        <3> QED
          BY <1>0, <1>4, <2>3, <3>1
      <2> QED
        BY <2>1, <2>2, <2>3
    <1>8. \A c \in Clients : sessions'[c] # sessions[c] =>
             \/ sessions'[c] = None /\ leases[sessions[c]] = None /\ sessions[c] # None
             \/ /\ sessions[c] = None
                /\ sessions'[c] \in issued /\ OwnedBy(sessions'[c], c)
      <2> SUFFICES ASSUME session(p)' # session(p)
                   PROVE  \/ session(p)' = None /\ leases[session(p)] = None /\ session(p) # None
                          \/ /\ session(p) = None
                             /\ session(p)' \in issued /\ OwnedBy(session(p)', ClientOf(p))
        BY <1>1 DEF session
      <2>1. CASE session(p)' = None /\ stage(p) \in {"cleaning", "clearing"}
        BY <2>1 DEF OwnInv, EndingReleased
      <2>2. CASE session(p)' = request[p].lease /\ stage(p) = "opening"
        <3>1. session(p) = None
          BY <1>0, <2>2 DEF ReqInv, OpeningAlone, session
        <3> QED
          BY <2>2, <3>1 DEF OwnInv, AdmittedOwned
      <2>3. CASE session(p)' = request[p].lease /\ stage(p) = "acting"
        BY <2>3 DEF OwnInv, ActsForSession
      <2> QED
        BY <2>1, <2>2, <2>3, SessionWrites
    <1>9. SessionsOwned'
      <2> SUFFICES ASSUME NEW c \in Clients, sessions'[c] # None
                   PROVE  sessions'[c] \in issued' /\ StillOwnedBy(sessions'[c], c)
        BY DEF SessionsOwned, OwnedBy, StillOwnedBy
      <2>1. sessions'[c] \in issued /\ OwnedBy(sessions'[c], c)
        BY <1>6, <1>8
      <2> QED
        BY <1>4, <2>1
    <1>10. SessionEndsWithLeaseStep
      BY <1>5, <1>6, <1>8 DEF SessionEndsWithLeaseStep
    <1>11. ActsForSession'
      <2> SUFFICES ASSUME NEW q \in Requests, stage(q)' = "acting"
                   PROVE  request'[q].lease = session(q)'
        BY DEF ActsForSession
      <2>1. CASE q # p
        <3>1. stage(q) = "acting" /\ HoldsSession(q) /\ request'[q].lease = request[q].lease
          BY <1>1, <1>2, <2>1 DEF HoldsSession, Outside
        <3> QED
          BY <1>3, <2>1, <3>1 DEF OwnInv, ActsForSession
      <2>2. CASE q = p
        <3>1. Admit(p) /\ stage(p)' = "acting"
          BY <2>2, StageReached
        <3>2. session(p)' = session(p)
          BY <3>1 DEF Admit, session
        <3> QED
          BY <2>2, <3>1, <3>2, AdmitOwned
      <2> QED
        BY <2>1, <2>2
    <1>12. EndingReleased'
      <2> SUFFICES ASSUME NEW q \in Requests, stage(q)' \in {"cleaning", "clearing"}
                   PROVE  leases'[session(q)'] = None
        BY DEF EndingReleased
      <2>1. CASE q # p
        <3>1. stage(q) \in {"cleaning", "clearing"} /\ HoldsSession(q)
          BY <1>2, <2>1 DEF HoldsSession, Outside
        <3>2. leases[session(q)] = None /\ session(q) # None
          BY <3>1 DEF OwnInv, EndingReleased, ReqInv, SessionPresent, NeedsSession
        <3>3. session(q) \in issued
          BY <1>0, <1>6, <3>2 DEF session
        <3> QED
          BY <1>3, <1>5, <2>1, <3>1, <3>2, <3>3
      <2>2. CASE q = p
        <3>1. CleanupStarts(p) \/ CloseTornDown(p) \/ CloseReleased(p)
          BY <2>2, StageReached
        <3>2. session(p)' = session(p)
          BY <3>1 DEF CleanupStarts, CloseTornDown, CloseReleased, session
        <3> QED
          BY <2>2, <3>1, <3>2, EndingBegins DEF OwnInv
      <2> QED
        BY <2>1, <2>2
    <1> QED
      BY <1>7, <1>9, <1>10, <1>11, <1>12 DEF OwnInv

\* The same for every step of the system.
LEMMA StepKeepsOwn ==
    IInv /\ ReqInv /\ OwnInv /\ [ReqNext]_allVars => OwnInv' /\ SessionEndsWithLeaseStep
    <1> SUFFICES ASSUME IInv, ReqInv, OwnInv, [ReqNext]_allVars
                 PROVE  OwnInv' /\ SessionEndsWithLeaseStep
      OBVIOUS
    <1>1. [Next]_vars
      BY StepUsesRegistry DEF IInv
    <1>2. ASSUME UNCHANGED reqVars PROVE OwnInv' /\ SessionEndsWithLeaseStep
      <2>1. /\ issued \in SUBSET issued'
            /\ \A id \in issued, c \in Clients : OwnedBy(id, c) => StillOwnedBy(id, c)
        BY <1>1, LeasesPersist DEF OwnedBy, StillOwnedBy
      <2>2. \A id \in issued : leases[id] = None => leases'[id] = None
        BY <1>1, StepNoRevival DEF NoRevivalStep
      <2>3. /\ request' = request /\ sessions' = sessions
            /\ \A q \in Requests : ClientOf(q) \in Clients
        BY <1>2, ClientAssumption DEF reqVars
      <2>4. AdmittedOwned' /\ SessionsOwned'
        BY <2>1, <2>3 DEF OwnInv, AdmittedOwned, SessionsOwned, OwnedBy, StillOwnedBy, stage
      <2>5. EndingReleased'
        BY <2>2, <2>3 DEF OwnInv, EndingReleased, SessionsOwned, ReqInv, SessionPresent,
           NeedsSession, stage, session
      <2> QED
        BY <2>3, <2>4, <2>5 DEF OwnInv, ActsForSession, SessionEndsWithLeaseStep, stage, session
    <1>3. CASE ReqNext
      BY <1>1, <1>2, <1>3, RequestKeepsOwn DEF ReqNext
    <1>4. CASE UNCHANGED allVars
      BY <1>2, <1>4 DEF allVars
    <1> QED
      BY <1>3, <1>4

\* Neither close nor the clean-up of an expired session frees a device that is
\* still leased for the session it ends.
THEOREM SessionsEndWithLeases == ReqSpec => SessionEndsWithLease
    <1>1. ReqInit => OwnInv
      BY DEF ReqInit, OwnInv, AdmittedOwned, SessionsOwned, ActsForSession, EndingReleased,
             Idle, stage
    <1>2. ReqSpec => [](IInv /\ ReqInv)
      BY ReqInvariance
    <1>3. IInv /\ ReqInv /\ OwnInv /\ [ReqNext]_allVars => [SessionEndsWithLeaseStep]_allVars
      BY StepKeepsOwn
    <1> QED
      BY <1>1, <1>2, <1>3, StepKeepsOwn, PTL DEF ReqSpec, SessionEndsWithLease

\* Of all steps of a request only its admission leads from "admitting" to a handler.
LEMMA AdmissionLeads ==
    ASSUME ReqInv, NEW p \in Requests, ReqNext,
           stage(p) = "admitting", stage(p)' \notin {"admitting", "idle"}
    PROVE  Admit(p)
    <1>0. ReqTypeOK
      BY DEF ReqInv
    <1>1. CASE UNCHANGED reqVars
      BY <1>1 DEF reqVars, stage
    <1>2. ASSUME NEW q \in Requests,
                 Arrives(q) \/ LeaseCommand(q) \/ Proceeds(q) \/ TakesLock(q) \/ OpenUnresolved(q)
          PROVE  Admit(p)
      <2>1. q = p
        BY <1>2, RequestFrame DEF stage
      <2>2. ~Refuse(p)
        BY <1>0 DEF Refuse, Ends, Idle, stage, ReqTypeOK
      <2>3. CASE Proceeds(p)
        BY <2>2, <2>3 DEF Proceeds, Canceled, CleanupNotNeeded, CleanupStarts, CleanupEnds,
           OpenSucceeds, OpenFails, ActEnds, CloseTornDown, CloseReleased, CloseReleaseFails,
           CloseDeletes, ShutdownEnds, AllocateEnds, AllocateFails, ReleaseEnds, ReleaseFails,
           UnboundEnds
      <2>4. CASE Arrives(p) \/ TakesLock(p) \/ OpenUnresolved(p)
        BY <2>4 DEF Arrives, Arrive, TakesLock, TakeSessionLock, TakeDeviceLock, OpenStarts,
           OpenRefused, OpenUnresolved
      <2>5. CASE LeaseCommand(p)
        BY <1>1, <2>5 DEF LeaseCommand, AllocateStarts, Heartbeat, ReleaseStarts
      <2> QED
        BY <1>2, <2>1, <2>3, <2>4, <2>5
    <1> QED
      BY <1>1, <1>2 DEF ReqNext

\* A request goes on to a handler only with the lease that owns the device.
THEOREM AdmittedOwnTheDevice == ReqSpec => AdmittedOwner
    <1>1. ASSUME IInv, ReqInv, ReqNext PROVE AdmittedOwnerStep
      <2> SUFFICES ASSUME NEW p \in Requests,
                          stage(p) = "admitting", stage(p)' \notin {"admitting", "idle"}
                   PROVE  deviceBindings'[deviceBindingKey(Allocation(ClientOf(p)))]
                             = request[p].lease
        BY DEF AdmittedOwnerStep
      <2> DEFINE id == request[p].lease
                 lease == SweptLeases[id]
      <2>1. Admit(p)
        BY <1>1, AdmissionLeads
      <2>2. id \in LeaseIds
        BY <1>1 DEF ReqInv, ReqTypeOK, LeaseCarried, Optional
      <2>3. lease # None /\ OwnerScopeAccepted(lease, Scope(ClientOf(p)))
        BY <2>1 DEF Admit, Admitted, HeartbeatAccepted
      <2>4. /\ refreshLease(SweptLeases, SweptRuns, SweptDevices, id, resolveLeaseTtlMs(ProxyTtl))
        BY <2>1 DEF Admit, Admitted, heartbeatLease
      <2>5. Device # None /\ Backend # None
        BY IdAssumption, ClientAssumption
      <2>6. /\ lease.deviceKey = Device /\ lease.backend = Backend
            /\ lease.leaseProvider = Provider
        BY <2>3, <2>5 DEF OwnerScopeAccepted, OptionalScopeMatch, OptionalLeaseIdentityMatch,
           leaseRequiresOwnerScope, hasRequiredOwnerScope, Agrees, Scope
      <2>7. deviceBindingKey(lease) = deviceBindingKey(Allocation(ClientOf(p)))
        BY <2>6 DEF deviceBindingKey, Allocation
      <2>8. lease \in Lease
        BY <1>1, <2>2, <2>3, SweptMaps DEF IInv
      <2>9. /\ deviceBindingKey(lease) \in DeviceSlots
            /\ SweptDevices \in [DeviceSlots -> Optional(LeaseIds)]
        BY <1>1, <2>5, <2>6, <2>8, LeaseKeys, SweptMaps DEF IInv, MapsTyped
      <2> DEFINE stored == [lease EXCEPT !.expiresAt = now + resolveLeaseTtlMs(ProxyTtl)]
      <2>10. /\ deviceBindingKey(stored) = deviceBindingKey(lease)
             /\ stored.deviceKey # None
        BY <2>5, <2>6, <2>8 DEF deviceBindingKey, Lease
      <2>11. deviceBindings' = [SweptDevices EXCEPT ![deviceBindingKey(stored)] = id]
        BY <2>4, <2>10 DEF refreshLease, Store
      <2> QED
        BY <2>7, <2>9, <2>10, <2>11
    <1>2. ASSUME UNCHANGED allVars PROVE [AdmittedOwnerStep]_allVars
      BY <1>2
    <1>3. IInv /\ ReqInv /\ [ReqNext]_allVars => [AdmittedOwnerStep]_allVars
      BY <1>1, <1>2
    <1> QED
      BY <1>3, ReqInvariance, PTL DEF ReqSpec, AdmittedOwner
=============================================================================
