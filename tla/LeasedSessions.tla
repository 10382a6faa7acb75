---------------------------- MODULE LeasedSessions ----------------------------
(***************************************************************************)
(* Requests of several clients for one leased device: the execution locks  *)
(* of src/src/daemon/request-execution-locks.ts, lease admission and the   *)
(* cleaning of expired sessions (lease-lifecycle.ts), and the open, close  *)
(* and lease commands as far as they change sessions and leases.           *)
(*                                                                         *)
(* A request is a chain of steps separated by awaits; between two of them  *)
(* any other request may run, the clock may advance and leases may expire. *)
(* The leases are those of LeaseRegistry: each step makes at most one call *)
(* of it.  Every client has a session key of its own; the sessions of one  *)
(* device are the only ones modelled, for requests about different devices *)
(* share the registry alone.                                               *)
(***************************************************************************)
EXTENDS LeaseRegistry

CONSTANTS
    Requests,        \* slots for requests under way
    ClientOf(_),     \* the client that uses a slot
    Scoped,          \* clients whose session key is 'cwd:<hash>:default'
    Run, Backend, Provider, Device, \* what every client asks for
    ProxyTtl         \* DEFAULT_PROXY_LEASE_TTL_MS

ASSUME ClientAssumption ==
    /\ \A p \in Requests : ClientOf(p) \in Clients
    /\ Clients \subseteq Tenants
    /\ Scoped \subseteq Clients
    /\ Run \in Runs /\ Backend \in Backends \ {None}
    /\ Provider \in Providers /\ Device \in DeviceKeys
    /\ ProxyTtl \in Ttls /\ MinTtl <= ProxyTtl /\ ProxyTtl <= MaxTtl

VARIABLES
    request,   \* what the request in each slot is doing
    sessions,  \* SessionStore: the lease of a client's session
    held       \* the lease each client was last granted

reqVars == <<request, sessions, held>>
allVars == <<vars, reqVars>>

Commands == {"open", "act", "close"}

\* queued, waiting: for the session lock, for the device lock.
\* entered: both held.  resolving: for firstSessionOpenLocks.
\* allocating, freeing: a lease command, which takes no lock.
\* unbound: a command without a session, on the device its handler resolves.
Outside == {"idle", "queued", "allocating", "freeing"}
Stages == Outside \cup
    {"waiting", "entered", "cleaning", "admitting", "resolving", "opening",
     "acting", "unbound", "tearing", "releasing", "clearing", "shutting"}

Idle == [stage |-> "idle", command |-> "act", lease |-> None, locksDevice |-> FALSE]

Scope(c) ==
    [tenantId |-> c, runId |-> Run, leaseBackend |-> Backend,
     leaseProvider |-> Provider, deviceKey |-> Device, clientId |-> c]

Allocation(c) ==
    [tenantId |-> c, runId |-> Run, backend |-> Backend, leaseProvider |-> Provider,
     deviceKey |-> Device, clientId |-> c, ttlMs |-> None]

stage(p) == request[p].stage
session(p) == sessions[ClientOf(p)]

Goes(p, next) == request' = [request EXCEPT ![p].stage = next]
Ends(p) == request' = [request EXCEPT ![p] = Idle]

(***************************************************************************)
(* The execution locks                                                     *)
(***************************************************************************)

HoldsSession(p) == stage(p) \notin Outside

\* Mutant: a request that waits for the device lock counts as holding it.
HoldsDeviceWaiting(p) == request[p].locksDevice /\ stage(p) \notin Outside

HoldsDevice(p) == request[p].locksDevice /\ stage(p) \notin Outside \cup {"waiting"}

\* Mutant: first opens of a device are not kept apart.
HoldsFirstOpenNever(p) == FALSE

HoldsFirstOpen(p) == stage(p) = "opening"

\* resolveRequestExecutionLockKeys reads the session store here, before any lock
\* is held.  Without a session the device key is advisory: it is among the keys
\* when the request resolves to the device.
Arrive(p, command, locksDevice) ==
    /\ stage(p) = "idle"
    /\ held[ClientOf(p)] # None
    /\ session(p) # None => locksDevice
    /\ request' = [request EXCEPT ![p] =
          [stage |-> "queued", command |-> command,
           lease |-> held[ClientOf(p)], locksDevice |-> locksDevice]]
    /\ UNCHANGED <<vars, sessions, held>>

TakeSessionLock(p) ==
    /\ stage(p) = "queued"
    /\ \A q \in Requests : ClientOf(q) = ClientOf(p) => ~HoldsSession(q)
    /\ Goes(p, IF request[p].locksDevice THEN "waiting" ELSE "entered")
    /\ UNCHANGED <<vars, sessions, held>>

TakeDeviceLock(p) ==
    /\ stage(p) = "waiting"
    /\ \A q \in Requests : ~HoldsDevice(q)
    /\ Goes(p, "entered")
    /\ UNCHANGED <<vars, sessions, held>>

Canceled(p) ==
    /\ stage(p) = "entered"
    /\ Ends(p)
    /\ UNCHANGED <<vars, sessions, held>>

(***************************************************************************)
(* Admission                                                               *)
(***************************************************************************)

CleanupNotNeeded(p) ==
    /\ stage(p) = "entered"
    /\ session(p) # None => ~Expired(session(p))
    /\ Goes(p, "admitting")
    /\ UNCHANGED <<vars, sessions, held>>

CleanupStarts(p) ==
    /\ stage(p) = "entered"
    /\ session(p) # None
    /\ consumeExpiredLease(session(p))
    /\ Goes(p, "cleaning")
    /\ UNCHANGED <<sessions, held>>

\* The teardown is over, whether or not it failed.  The session is deleted by
\* its public name, which is not the key of a session with an implicit scope.
CleanupEnds(p) ==
    /\ stage(p) = "cleaning"
    /\ sessions' = IF ClientOf(p) \in Scoped THEN sessions
                   ELSE [sessions EXCEPT ![ClientOf(p)] = None]
    /\ Goes(p, "admitting")
    /\ UNCHANGED <<vars, held>>

SessionMismatch(p) == session(p) # None /\ session(p) # request[p].lease

\* Where a handler may go.  Without a session, close <app> and the commands that
\* take a device selector work on the device they resolve; the others end.
HandlerStages(p) ==
    CASE session(p) = None /\ request[p].command = "open" -> {"resolving"}
      [] session(p) = None /\ request[p].command # "open" -> {"unbound", "idle"}
      [] session(p) # None /\ request[p].command = "close" -> {"tearing"}
      [] session(p) # None /\ request[p].command # "close" -> {"acting"}

\* Mutant: only the session's lease is compared, the registry is not asked.
AdmittedUnchecked(p) == ~SessionMismatch(p)

Admitted(p) ==
    /\ ~SessionMismatch(p)
    /\ HeartbeatAccepted(request[p].lease, Scope(ClientOf(p)), ProxyTtl)

\* assertLeaseAdmission and heartbeatLease run without an await between them.
Admit(p) ==
    /\ stage(p) = "admitting"
    /\ Admitted(p)
    /\ heartbeatLease(request[p].lease, Scope(ClientOf(p)), ProxyTtl)
    /\ \E next \in HandlerStages(p) : IF next = "idle" THEN Ends(p) ELSE Goes(p, next)
    /\ UNCHANGED <<sessions, held>>

\* LEASE_SESSION_MISMATCH, LEASE_NOT_FOUND or LEASE_SCOPE_MISMATCH.
Refuse(p) ==
    /\ stage(p) = "admitting"
    /\ ~Admitted(p)
    /\ IF SessionMismatch(p) THEN UNCHANGED vars ELSE Sweep
    /\ Ends(p)
    /\ UNCHANGED <<sessions, held>>

(***************************************************************************)
(* open, and any other command of a session                                *)
(***************************************************************************)

\* Mutant: the conflict is looked for by session key instead of by device.
DeviceInUseByKey(p) == session(p) # None

DeviceInUse(p) == \E c \in Clients : sessions[c] # None

FirstOpenFree == \A q \in Requests : ~HoldsFirstOpen(q)

\* findNewSessionDeviceConflict: DEVICE_IN_USE.
OpenRefused(p) ==
    /\ stage(p) = "resolving"
    /\ FirstOpenFree
    /\ DeviceInUse(p)
    /\ Ends(p)
    /\ UNCHANGED <<vars, sessions, held>>

OpenStarts(p) ==
    /\ stage(p) = "resolving"
    /\ FirstOpenFree
    /\ ~DeviceInUse(p)
    /\ Goes(p, "opening")
    /\ UNCHANGED <<vars, sessions, held>>

\* Mutant: the client is stored where the lease belongs.
OpenSucceedsMixedUp(p) ==
    /\ stage(p) = "opening"
    /\ sessions' = [sessions EXCEPT ![ClientOf(p)] = ClientOf(p)]
    /\ Ends(p)
    /\ UNCHANGED <<vars, held>>

\* The lease stored is the one admitted, whatever became of it since.
OpenSucceeds(p) ==
    /\ stage(p) = "opening"
    /\ sessions' = [sessions EXCEPT ![ClientOf(p)] = request[p].lease]
    /\ Ends(p)
    /\ UNCHANGED <<vars, held>>

\* The device does not resolve, or the request is invalid for it.
OpenUnresolved(p) ==
    /\ stage(p) = "resolving"
    /\ Ends(p)
    /\ UNCHANGED <<vars, sessions, held>>

\* The preparation of the device or the launch fails.
OpenFails(p) ==
    /\ stage(p) = "opening"
    /\ Ends(p)
    /\ UNCHANGED <<vars, sessions, held>>

\* A command of an existing session; open stores the session anew.
ActEnds(p) ==
    /\ stage(p) = "acting"
    /\ sessions' = IF request[p].command = "open"
                   THEN [sessions EXCEPT ![ClientOf(p)] = request[p].lease]
                   ELSE sessions
    /\ Ends(p)
    /\ UNCHANGED <<vars, held>>

\* The command without a session is over.  No session is stored or deleted.
UnboundEnds(p) ==
    /\ stage(p) = "unbound"
    /\ Ends(p)
    /\ UNCHANGED <<vars, sessions, held>>

(***************************************************************************)
(* close                                                                   *)
(***************************************************************************)

\* runSessionCloseTeardown is over and releaseSessionLease looks the lease up.
CloseTornDown(p) ==
    /\ stage(p) = "tearing"
    /\ Goes(p, IF SweptLeases[session(p)] # None THEN "releasing" ELSE "clearing")
    /\ Sweep
    /\ UNCHANGED <<sessions, held>>

\* Mutants: the lease stays in the registry, or leaves it without its bindings.
CloseReleasedKept(p) ==
    /\ stage(p) = "releasing"
    /\ Goes(p, "clearing")
    /\ UNCHANGED <<vars, sessions, held>>

CloseReleased(p) ==
    /\ stage(p) = "releasing"
    /\ releaseLease(session(p), Scope(ClientOf(p)))
    /\ Goes(p, "clearing")
    /\ UNCHANGED <<sessions, held>>

\* The provider refuses: the session is kept, so that close can be repeated.
CloseReleaseFails(p) ==
    /\ stage(p) = "releasing"
    /\ Ends(p)
    /\ UNCHANGED <<vars, sessions, held>>

\* After the session is deleted, close --shutdown turns the device off.
CloseDeletes(p, shutdown) ==
    /\ stage(p) = "clearing"
    /\ sessions' = [sessions EXCEPT ![ClientOf(p)] = None]
    /\ IF shutdown THEN Goes(p, "shutting") ELSE Ends(p)
    /\ UNCHANGED <<vars, held>>

ShutdownEnds(p) ==
    /\ stage(p) = "shutting"
    /\ Ends(p)
    /\ UNCHANGED <<vars, sessions, held>>

(***************************************************************************)
(* The lease commands, exempt from admission and locks                     *)
(***************************************************************************)

\* The registry's answer is the lease bound to the client's key.
Granted(c) == runBindings'[bindingKey(Allocation(c))]

AllocateStarts(p) ==
    /\ stage(p) = "idle"
    /\ allocateLease(Allocation(ClientOf(p)))
    /\ request' =
          IF Granted(ClientOf(p)) = None THEN request
          ELSE [request EXCEPT ![p].stage = "allocating", ![p].lease = Granted(ClientOf(p))]
    /\ UNCHANGED <<sessions, held>>

AllocateEnds(p) ==
    /\ stage(p) = "allocating"
    /\ held' = [held EXCEPT ![ClientOf(p)] = request[p].lease]
    /\ Ends(p)
    /\ UNCHANGED <<vars, sessions>>

\* The provider has no device to give: the lease is taken back, even one that
\* an earlier allocation was granted.
AllocateFails(p) ==
    /\ stage(p) = "allocating"
    /\ releaseLease(request[p].lease, Scope(ClientOf(p)))
    /\ Ends(p)
    /\ UNCHANGED <<sessions, held>>

Heartbeat(p) ==
    /\ stage(p) = "idle"
    /\ held[ClientOf(p)] # None
    /\ heartbeatLease(held[ClientOf(p)], Scope(ClientOf(p)), ProxyTtl)
    /\ UNCHANGED reqVars

\* lease_release looks the lease up and, if it is active, asks the provider.
ReleaseStarts(p) ==
    /\ stage(p) = "idle"
    /\ held[ClientOf(p)] # None
    /\ Sweep
    /\ request' =
          IF SweptLeases[held[ClientOf(p)]] = None THEN request
          ELSE [request EXCEPT ![p].stage = "freeing", ![p].lease = held[ClientOf(p)]]
    /\ UNCHANGED <<sessions, held>>

ReleaseEnds(p) ==
    /\ stage(p) = "freeing"
    /\ releaseLease(request[p].lease, Scope(ClientOf(p)))
    /\ Ends(p)
    /\ UNCHANGED <<sessions, held>>

ReleaseFails(p) ==
    /\ stage(p) = "freeing"
    /\ Ends(p)
    /\ UNCHANGED <<vars, sessions, held>>

(***************************************************************************)
(* The system                                                              *)
(***************************************************************************)

ReqInit ==
    /\ Init
    /\ request = [p \in Requests |-> Idle]
    /\ sessions = [c \in Clients |-> None]
    /\ held = [c \in Clients |-> None]

Arrives(p) ==
    \E command \in Commands, locksDevice \in BOOLEAN : Arrive(p, command, locksDevice)

Proceeds(p) ==
    \/ Canceled(p) \/ CleanupNotNeeded(p) \/ CleanupStarts(p) \/ CleanupEnds(p)
    \/ Admit(p) \/ Refuse(p)
    \/ OpenSucceeds(p) \/ OpenFails(p) \/ ActEnds(p) \/ UnboundEnds(p)
    \/ CloseTornDown(p) \/ CloseReleased(p) \/ CloseReleaseFails(p)
    \/ \E shutdown \in BOOLEAN : CloseDeletes(p, shutdown)
    \/ ShutdownEnds(p)
    \/ AllocateEnds(p) \/ AllocateFails(p) \/ ReleaseEnds(p) \/ ReleaseFails(p)

\* Steps that wait for a lock, in the order of the lock's promise chain.
TakesLock(p) ==
    TakeSessionLock(p) \/ TakeDeviceLock(p) \/ OpenStarts(p) \/ OpenRefused(p)

LeaseCommand(p) == AllocateStarts(p) \/ Heartbeat(p) \/ ReleaseStarts(p)

ReqNext ==
    \/ \E p \in Requests :
          Arrives(p) \/ LeaseCommand(p) \/ Proceeds(p) \/ TakesLock(p) \/ OpenUnresolved(p)
    \/ Tick /\ UNCHANGED reqVars

ReqSpec == ReqInit /\ [][ReqNext]_allVars

\* Whatever a request awaits settles in the end: device commands and provider
\* calls time out, and a lock is passed on in the order it was asked for.
Fairness ==
    \A p \in Requests : WF_allVars(Proceeds(p)) /\ SF_allVars(TakesLock(p))

FairReqSpec == ReqSpec /\ Fairness


(***************************************************************************)
(* Properties                                                              *)
(***************************************************************************)

\* Requests, sessions and held leases have their types.
ReqTypeOK ==
    /\ request \in [Requests -> [stage: Stages, command: Commands,
                                 lease: Optional(LeaseIds), locksDevice: BOOLEAN]]
    /\ sessions \in [Clients -> Optional(LeaseIds)]
    /\ held \in [Clients -> Optional(LeaseIds)]

OnDevice == {"cleaning", "opening", "acting", "unbound", "tearing"}

\* Two requests work on the device at once only when one of them goes through no
\* session and one of them has no device key: the key is advisory, and what the
\* device lock does not keep apart, the session lock, firstSessionOpenLocks and
\* the search for a conflicting session do, for every request with a session.
SoleOperator ==
    \A p, q \in Requests :
       p # q /\ stage(p) \in OnDevice /\ stage(q) \in OnDevice
          => /\ "unbound" \in {stage(p), stage(q)}
             /\ ~(HoldsDevice(p) /\ HoldsDevice(q))

\* One device has at most one session, whichever opens, closes and clean-ups
\* of expired sessions run side by side.
SessionsExclusive ==
    \A a, b \in Clients : sessions[a] # None /\ sessions[b] # None => a = b

\* A session keeps its lease, and leaves the store only once that lease is out
\* of the registry: neither close nor a clean-up frees a device that is still
\* leased for the session it ends.
SessionEndsWithLeaseStep ==
    \A c \in Clients :
       sessions[c] # None /\ sessions'[c] # sessions[c]
          => sessions'[c] = None /\ leases'[sessions[c]] = None
SessionEndsWithLease == [][SessionEndsWithLeaseStep]_allVars

\* A request goes on to a handler only with the lease that owns the device, so
\* the clients' requests are admitted for one of them at a time.
AdmittedOwnerStep ==
    \A p \in Requests :
       stage(p) = "admitting" /\ stage(p)' \notin {"admitting", "idle"}
          => deviceBindings'[deviceBindingKey(Allocation(ClientOf(p)))] = request[p].lease
AdmittedOwner == [][AdmittedOwnerStep]_allVars

\* Every request uses the lease registry by its methods alone.
UsesRegistry == Spec

\* Locks are passed on: every request that queues for them is answered.
RequestsAnswered == \A p \in Requests : stage(p) = "queued" ~> stage(p) = "idle"

\* A test of the router: "router serializes concurrent commands for the same
\* device across sessions".  A close whose keys were chosen before its session
\* existed turns the device off while another session opens on it.
DeviceSerialized ==
    LET busy == (OnDevice \ {"unbound"}) \cup {"shutting"}
    IN \A p, q \in Requests : stage(p) \in busy /\ stage(q) \in busy => p = q

=============================================================================
