---------------------------- MODULE LeaseRegistry ----------------------------
(***************************************************************************)
(* The daemon's device-lease registry, src/src/daemon/lease-registry.ts.   *)
(* A lease is the logical ownership of a device (or of a whole backend) by *)
(* one tenant, run and client until it expires.  The class is synchronous  *)
(* JavaScript, so every public method is one atomic action.  Time advances *)
(* between calls; expired leases stay in the maps until some call sweeps   *)
(* them, exactly as in the code: there is no timer.                        *)
(*                                                                         *)
(* Identifiers are model values that have passed the normalize* functions; *)
(* a request those functions reject changes nothing (allocate, an invalid  *)
(* lease id) or only sweeps (the others), and sweeping is an action here.  *)
(***************************************************************************)
EXTENDS Integers, FiniteSets

CONSTANTS
    LeaseIds,         \* values of crypto.randomBytes(16)
    Tenants, Runs,    \* normalized tenant and run ids
    Backends,         \* LeaseBackend
    Simulator,        \* the backend with a capacity limit, 'ios-simulator'
    Providers,        \* lease providers a caller may name
    DefaultProvider,  \* DEFAULT_LEASE_PROVIDER
    DeviceKeys,       \* device keys a caller may name
    AnyDevice,        \* the '*' of a binding key without a device
    Clients,          \* client ids
    Ttls,             \* ttlMs values a caller may ask for
    MinTtl, MaxTtl, DefaultTtl,
    MaxActive,        \* maxActiveSimulatorLeases, 0 for no limit
    MaxTime,          \* bound on the modelled clock
    None              \* an absent (undefined) field, lease or binding

ASSUME TtlAssumption ==
    /\ Ttls \subseteq Int
    /\ MinTtl \in Nat \ {0} /\ MaxTtl \in Nat /\ MinTtl <= MaxTtl
    /\ DefaultTtl \in Nat \ {0}
    /\ MaxActive \in Nat
    /\ MaxTime \in Nat

VARIABLES
    now,             \* the injected clock, Date.now() in the daemon
    leases,          \* Map leaseId -> lease
    runBindings,     \* Map tenant/run/backend/provider/device -> leaseId
    deviceBindings,  \* Map backend/provider/device -> leaseId
    issued,          \* ids drawn so far: 16 random bytes do not repeat
    notified         \* ids of the leases given to onLeaseExpired

vars == <<now, leases, runBindings, deviceBindings, issued, notified>>
maps == <<leases, runBindings, deviceBindings>>

(***************************************************************************)
(* Leases, requests and binding keys                                       *)
(***************************************************************************)

Optional(S) == S \cup {None}

Lease ==
    [tenantId: Tenants, runId: Runs, backend: Backends,
     leaseProvider: Optional(Providers), deviceKey: Optional(DeviceKeys),
     clientId: Optional(Clients), expiresAt: Nat]

ASSUME IdAssumption ==
    /\ None \notin LeaseIds
    /\ None \notin DeviceKeys
    /\ None \notin Lease
    /\ IsFiniteSet(LeaseIds)

AllocateRequest ==
    [tenantId: Tenants, runId: Runs, backend: Backends,
     leaseProvider: Optional(Providers), deviceKey: Optional(DeviceKeys),
     clientId: Optional(Clients), ttlMs: Optional(Ttls)]

\* What a caller may say about a lease it does not allocate.
ScopeRequest ==
    [tenantId: Optional(Tenants), runId: Optional(Runs),
     leaseBackend: Optional(Backends), leaseProvider: Optional(Providers),
     deviceKey: Optional(DeviceKeys), clientId: Optional(Clients)]

OrElse(value, default) == IF value = None THEN default ELSE value

bindingKey(l) ==
    <<l.tenantId, l.runId, l.backend,
      OrElse(l.leaseProvider, DefaultProvider), OrElse(l.deviceKey, AnyDevice)>>

\* Only meaningful for a lease or request with a device key.
deviceBindingKey(l) ==
    <<l.backend, OrElse(l.leaseProvider, DefaultProvider), l.deviceKey>>

ProviderSlots == Providers \cup {DefaultProvider}
RunKeys == Tenants \X Runs \X Backends \X ProviderSlots \X (DeviceKeys \cup {AnyDevice})
DeviceSlots == Backends \X ProviderSlots \X DeviceKeys

(***************************************************************************)
(* The three maps as values, so that a method that sweeps and then writes  *)
(* is the composition of the two.                                          *)
(***************************************************************************)

Expired(id) == leases[id] # None /\ leases[id].expiresAt <= now
ExpiredIds == {id \in LeaseIds : Expired(id)}

\* unbindLease deletes by key, whatever id the key maps to.
WithoutLeases(L, gone) == [id \in LeaseIds |-> IF id \in gone THEN None ELSE L[id]]

WithoutRuns(L, R, gone) ==
    [k \in RunKeys |-> IF \E id \in gone : bindingKey(L[id]) = k THEN None ELSE R[k]]

\* Mutant: unbindLease forgets the device binding.
WithoutDevicesLeaky(L, D, gone) == D

WithoutDevices(L, D, gone) ==
    [s \in DeviceSlots |->
        IF \E id \in gone : L[id].deviceKey # None /\ deviceBindingKey(L[id]) = s
        THEN None ELSE D[s]]

\* The maps after cleanupExpiredLeases.
SweptLeases == WithoutLeases(leases, ExpiredIds)
SweptRuns == WithoutRuns(leases, runBindings, ExpiredIds)
SweptDevices == WithoutDevices(leases, deviceBindings, ExpiredIds)

\* leases.set and bindLease.
Store(L, R, D, id, lease) ==
    /\ leases' = [L EXCEPT ![id] = lease]
    /\ runBindings' = [R EXCEPT ![bindingKey(lease)] = id]
    /\ deviceBindings' =
          IF lease.deviceKey = None THEN D
          ELSE [D EXCEPT ![deviceBindingKey(lease)] = id]

\* leases.delete and unbindLease.
Drop(L, R, D, gone) ==
    /\ leases' = WithoutLeases(L, gone)
    /\ runBindings' = WithoutRuns(L, R, gone)
    /\ deviceBindings' = WithoutDevices(L, D, gone)

refreshLease(L, R, D, id, ttl) ==
    Store(L, R, D, id, [L[id] EXCEPT !.expiresAt = now + ttl])

(***************************************************************************)
(* The checks                                                              *)
(***************************************************************************)

TtlAccepted(raw) == raw # None => (MinTtl <= raw /\ raw <= MaxTtl)
resolveLeaseTtlMs(raw) == OrElse(raw, DefaultTtl)

Agrees(wanted, actual) == wanted = None \/ wanted = actual

leaseRequiresOwnerScope(l) ==
    l.leaseProvider # None \/ l.deviceKey # None \/ l.clientId # None

hasRequiredOwnerScope(l, q) ==
    /\ q.tenantId # None /\ q.runId # None
    /\ l.leaseProvider # None => q.leaseProvider # None
    /\ l.deviceKey # None => q.deviceKey # None
    /\ l.clientId # None => q.clientId # None

OptionalLeaseIdentityMatch(l, q) ==
    /\ Agrees(q.leaseProvider, l.leaseProvider)
    /\ Agrees(q.deviceKey, l.deviceKey)
    /\ Agrees(q.clientId, l.clientId)

OptionalScopeMatch(l, q) ==
    /\ Agrees(q.tenantId, l.tenantId)
    /\ Agrees(q.runId, l.runId)
    /\ Agrees(q.leaseBackend, l.backend)
    /\ OptionalLeaseIdentityMatch(l, q)

\* getLease and heartbeatLease make the same two assertions, in this order.
OwnerScopeAccepted(l, q) ==
    /\ leaseRequiresOwnerScope(l) => hasRequiredOwnerScope(l, q)
    /\ OptionalScopeMatch(l, q)

BoundTo(M, L, key) == M[key] # None /\ L[M[key]] # None

\* A binding whose lease is gone is deleted when an allocation meets it.
WithoutStale(M, L, key) == IF BoundTo(M, L, key) THEN M ELSE [M EXCEPT ![key] = None]

ReusableBy(l, q) ==
    \/ l.clientId = q.clientId
    \/ l.deviceKey = None /\ OptionalLeaseIdentityMatch(l, q)

\* Mutant: only the requesting run's own binding is consulted.
DeviceAvailableUnchecked(L, D, q) == TRUE

DeviceAvailable(L, D, q) ==
    q.deviceKey # None => ~BoundTo(D, L, deviceBindingKey(q))

SimulatorLeases(L) == {id \in LeaseIds : L[id] # None /\ L[id].backend = Simulator}

CapacityAvailable(L, q) ==
    (q.backend = Simulator /\ MaxActive > 0) => Cardinality(SimulatorLeases(L)) < MaxActive

(***************************************************************************)
(* The methods.  A call that throws after the sweep leaves the swept maps  *)
(* behind, which is the Rejected disjunct of each method.                  *)
(***************************************************************************)

Init ==
    /\ now = 0
    /\ leases = [id \in LeaseIds |-> None]
    /\ runBindings = [k \in RunKeys |-> None]
    /\ deviceBindings = [s \in DeviceSlots |-> None]
    /\ issued = {}
    /\ notified = {}

\* consumeExpiredLeases hands every lease it removes to onLeaseExpired.
NotifySwept == notified' = notified \cup ExpiredIds

Sweep ==
    /\ Drop(leases, runBindings, deviceBindings, ExpiredIds)
    /\ NotifySwept
    /\ UNCHANGED <<now, issued>>

\* Public entry points whose only effect is the sweep: consumeExpiredLeases,
\* listActiveLeases, assertLeaseAdmission, getLease.
ConsumeExpiredLeases ==
    /\ ExpiredIds # {}
    /\ Sweep

AllocateRefreshes(q) ==
    LET L == SweptLeases
        R == SweptRuns
        key == bindingKey(q)
    IN  /\ TtlAccepted(q.ttlMs)
        /\ BoundTo(R, L, key)
        /\ ReusableBy(L[R[key]], q)
        /\ refreshLease(L, R, SweptDevices, R[key], resolveLeaseTtlMs(q.ttlMs))
        /\ NotifySwept
        /\ UNCHANGED <<now, issued>>

\* Mutant: the client field is filled from the wrong field of the request.
NewLeaseMixedUp(q) ==
    [tenantId |-> q.tenantId, runId |-> q.runId, backend |-> q.backend,
     leaseProvider |-> q.leaseProvider, deviceKey |-> q.deviceKey,
     clientId |-> q.runId, expiresAt |-> now + resolveLeaseTtlMs(q.ttlMs)]

NewLease(q) ==
    [tenantId |-> q.tenantId, runId |-> q.runId, backend |-> q.backend,
     leaseProvider |-> q.leaseProvider, deviceKey |-> q.deviceKey,
     clientId |-> q.clientId, expiresAt |-> now + resolveLeaseTtlMs(q.ttlMs)]

MayCreate(q) ==
    /\ TtlAccepted(q.ttlMs)
    /\ ~BoundTo(SweptRuns, SweptLeases, bindingKey(q))
    /\ DeviceAvailable(SweptLeases, SweptDevices, q)
    /\ CapacityAvailable(SweptLeases, q)

AllocateCreates(q, id) ==
    /\ id \notin issued
    /\ MayCreate(q)
    /\ Store(SweptLeases, SweptRuns, SweptDevices, id, NewLease(q))
    /\ issued' = issued \cup {id}
    /\ NotifySwept
    /\ UNCHANGED now

\* INVALID_ARGS for the ttl, DEVICE_LEASE_BUSY, LEASE_SCOPE_MISMATCH or
\* LEASE_CAPACITY_EXCEEDED.
AllocateRejected(q) ==
    LET L == SweptLeases
        R == SweptRuns
        key == bindingKey(q)
        fresh == TtlAccepted(q.ttlMs) /\ ~BoundTo(R, L, key)
    IN  /\ ~MayCreate(q)
        /\ ~(TtlAccepted(q.ttlMs) /\ BoundTo(R, L, key) /\ ReusableBy(L[R[key]], q))
        /\ leases' = L
        /\ runBindings' = IF fresh THEN WithoutStale(R, L, key) ELSE R
        /\ deviceBindings' =
              IF fresh /\ q.deviceKey # None /\ DeviceAvailable(L, SweptDevices, q)
              THEN WithoutStale(SweptDevices, L, deviceBindingKey(q))
              ELSE SweptDevices
        /\ NotifySwept
        /\ UNCHANGED <<now, issued>>

allocateLease(q) ==
    \/ AllocateRefreshes(q)
    \/ \E id \in LeaseIds : AllocateCreates(q, id)
    \/ AllocateRejected(q)

HeartbeatAccepted(id, q, ttl) ==
    /\ SweptLeases[id] # None
    /\ OwnerScopeAccepted(SweptLeases[id], q)
    /\ TtlAccepted(ttl)

\* Mutant: the heartbeat looks its lease up without sweeping first.
heartbeatLeaseUnswept(id, q, ttl) ==
    /\ leases[id] # None
    /\ OwnerScopeAccepted(leases[id], q)
    /\ TtlAccepted(ttl)
    /\ refreshLease(leases, runBindings, deviceBindings, id, resolveLeaseTtlMs(ttl))
    /\ UNCHANGED <<now, issued, notified>>

heartbeatLease(id, q, ttl) ==
    \/ /\ HeartbeatAccepted(id, q, ttl)
       /\ refreshLease(SweptLeases, SweptRuns, SweptDevices, id, resolveLeaseTtlMs(ttl))
       /\ NotifySwept
       /\ UNCHANGED <<now, issued>>
    \/ /\ ~HeartbeatAccepted(id, q, ttl)
       /\ Sweep

ReleaseAccepted(id, q) ==
    /\ SweptLeases[id] # None
    /\ OwnerScopeAccepted(SweptLeases[id], q)

releaseLease(id, q) ==
    \/ /\ ReleaseAccepted(id, q)
       /\ Drop(leases, runBindings, deviceBindings, ExpiredIds \cup {id})
       /\ NotifySwept
       /\ UNCHANGED <<now, issued>>
    \/ /\ ~ReleaseAccepted(id, q)
       /\ Sweep

\* Mutant: the lease is removed and not reported.
consumeExpiredLeaseSilent(id) ==
    /\ Expired(id)
    /\ Drop(leases, runBindings, deviceBindings, {id})
    /\ UNCHANGED <<now, issued, notified>>

consumeExpiredLease(id) ==
    /\ Expired(id)
    /\ Drop(leases, runBindings, deviceBindings, {id})
    /\ notified' = notified \cup {id}
    /\ UNCHANGED <<now, issued>>

Tick ==
    /\ now < MaxTime
    /\ now' = now + 1
    /\ UNCHANGED <<maps, issued, notified>>

Next ==
    \/ \E q \in AllocateRequest : allocateLease(q)
    \/ \E id \in LeaseIds, q \in ScopeRequest, ttl \in Optional(Ttls) :
          heartbeatLease(id, q, ttl)
    \/ \E id \in LeaseIds, q \in ScopeRequest : releaseLease(id, q)
    \/ \E id \in LeaseIds : consumeExpiredLease(id)
    \/ ConsumeExpiredLeases
    \/ Tick

Spec == Init /\ [][Next]_vars


(***************************************************************************)
(* Properties                                                              *)
(***************************************************************************)

\* Every map and every stored lease has its type.
TypeOK ==
    /\ now \in Nat
    /\ leases \in [LeaseIds -> Optional(Lease)]
    /\ runBindings \in [RunKeys -> Optional(LeaseIds)]
    /\ deviceBindings \in [DeviceSlots -> Optional(LeaseIds)]
    /\ issued \in SUBSET LeaseIds
    /\ notified \in SUBSET LeaseIds

\* A binding map is exact when it maps the key of every stored lease to that
\* lease and maps nothing else.
RunsExact(L, R) ==
    /\ \A id \in LeaseIds : L[id] # None => R[bindingKey(L[id])] = id
    /\ \A k \in RunKeys : R[k] # None => L[R[k]] # None /\ bindingKey(L[R[k]]) = k

DevicesExact(L, D) ==
    /\ \A id \in LeaseIds :
          L[id] # None /\ L[id].deviceKey # None => D[deviceBindingKey(L[id])] = id
    /\ \A s \in DeviceSlots :
          D[s] # None =>
             /\ L[D[s]] # None
             /\ L[D[s]].deviceKey # None
             /\ deviceBindingKey(L[D[s]]) = s

\* The three maps agree after any sequence of allocations, heartbeats,
\* releases and sweeps (bindLease and unbindLease never drift apart), so the
\* code's branches for a binding without a lease are never needed.
BindingsExact == RunsExact(leases, runBindings) /\ DevicesExact(leases, deviceBindings)

\* The claim of ADR 0007: one device of one backend and provider has at most one
\* active lease, whatever tenants, runs and clients ask for.
DeviceExclusive ==
    \A a, b \in LeaseIds :
        /\ leases[a] # None /\ leases[b] # None
        /\ leases[a].deviceKey # None /\ leases[b].deviceKey # None
        /\ deviceBindingKey(leases[a]) = deviceBindingKey(leases[b])
        => a = b

\* enforceCapacity: no order of allocations, refreshes and expiries takes the
\* number of simulator leases past the configured maximum.
CapacityRespected == MaxActive > 0 => Cardinality(SimulatorLeases(leases)) <= MaxActive

\* ADR 0007: without activity a device becomes available again after a bounded
\* time; no call, and no sequence of them, stores an expiry further away.
ExpiryBounded ==
    \A id \in LeaseIds :
        leases[id] # None =>
           \/ leases[id].expiresAt <= now + MaxTtl
           \/ leases[id].expiresAt <= now + DefaultTtl

\* A lease that reached onLeaseExpired, whose provider resource is therefore
\* being released, is never active again; ids come from the generator only.
EndedForGood ==
    /\ \A id \in notified : id \in issued /\ leases[id] = None
    /\ \A id \in LeaseIds : leases[id] # None => id \in issued

\* A lease that was removed never comes back, and one that has expired is never
\* extended: every method sweeps before it looks a lease up.
NoRevivalStep ==
    \A id \in issued :
       /\ leases[id] = None => leases'[id] = None
       /\ Expired(id) => leases'[id] \in {None, leases[id]}
NoRevival == [][NoRevivalStep]_vars

\* onLeaseExpired is told of a removed lease exactly when the lease had expired:
\* the daemon releases its provider resource in that case and in no other.
ExpiryReportedStep ==
    \A id \in LeaseIds :
       leases[id] # None /\ leases'[id] = None
          => (id \in notified' <=> Expired(id))
ExpiryReported == [][ExpiryReportedStep]_vars

\* A device passes from one lease to another without having been released only
\* when the first has expired.
HandoverAfterExpiryStep ==
    \A s \in DeviceSlots :
       LET before == deviceBindings[s]
           after == deviceBindings'[s]
       IN  before # None /\ after # None /\ before # after => Expired(before)
HandoverAfterExpiry == [][HandoverAfterExpiryStep]_vars

\* The registry implements DeviceOwnership: the owner of a slot is its binding.
Ownership ==
    INSTANCE DeviceOwnership WITH
        Slots <- DeviceSlots, Owners <- LeaseIds, Nobody <- None,
        owner <- deviceBindings, seen <- issued, lapsed <- notified \cup ExpiredIds

\* Every behaviour of the registry is one of the abstract device ownership.
ImplementsOwnership == Ownership!Spec

=============================================================================
