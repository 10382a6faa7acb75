------------------------ MODULE LeaseRegistryProofs ------------------------
(***************************************************************************)
(* Theorems about LeaseRegistry, for any sets of ids, tenants, runs,       *)
(* backends, providers, devices and clients and any times to live.         *)
(***************************************************************************)
EXTENDS LeaseRegistry, FiniteSetTheorems, TLAPS

(***************************************************************************)
(* Binding keys of leases and requests                                     *)
(***************************************************************************)

\* The binding keys of a stored lease are keys of the two binding maps.
LEMMA LeaseKeys ==
    ASSUME NEW l \in Lease
    PROVE  /\ bindingKey(l) \in RunKeys
           /\ l.deviceKey # None => deviceBindingKey(l) \in DeviceSlots
    BY DEF Lease, Optional, bindingKey, deviceBindingKey, OrElse, RunKeys,
           DeviceSlots, ProviderSlots

\* The binding keys of an allocation are keys of the two binding maps.
LEMMA RequestKeys ==
    ASSUME NEW q \in AllocateRequest
    PROVE  /\ bindingKey(q) \in RunKeys
           /\ q.deviceKey # None => deviceBindingKey(q) \in DeviceSlots
    BY DEF AllocateRequest, Optional, bindingKey, deviceBindingKey, OrElse, RunKeys,
           DeviceSlots, ProviderSlots

(***************************************************************************)
(* Dropping and storing leases keeps the binding maps exact                *)
(***************************************************************************)

MapsTyped(L, R, D) ==
    /\ L \in [LeaseIds -> Optional(Lease)]
    /\ R \in [RunKeys -> Optional(LeaseIds)]
    /\ D \in [DeviceSlots -> Optional(LeaseIds)]

\* Deleting leases and their bindings yields maps of the same types.
LEMMA DropTyped ==
    ASSUME NEW L, NEW R, NEW D, MapsTyped(L, R, D), NEW gone \in SUBSET LeaseIds
    PROVE  MapsTyped(WithoutLeases(L, gone), WithoutRuns(L, R, gone),
                     WithoutDevices(L, D, gone))
    BY DEF MapsTyped, WithoutLeases, WithoutRuns, WithoutDevices, Optional

\* unbindLease of a stored lease removes its own run binding and no other's.
LEMMA DropRunsExact ==
    ASSUME NEW L, NEW R, NEW D, MapsTyped(L, R, D), RunsExact(L, R),
           NEW gone \in SUBSET LeaseIds, \A id \in gone : L[id] # None
    PROVE  RunsExact(WithoutLeases(L, gone), WithoutRuns(L, R, gone))
    <1> DEFINE L2 == WithoutLeases(L, gone)
               R2 == WithoutRuns(L, R, gone)
    <1>1. ASSUME NEW id \in LeaseIds, L2[id] # None
          PROVE  R2[bindingKey(L2[id])] = id
      <2>1. id \notin gone /\ L[id] # None /\ L2[id] = L[id]
        BY <1>1 DEF WithoutLeases
      <2>2. bindingKey(L[id]) \in RunKeys
        BY <2>1, LeaseKeys DEF MapsTyped, Optional
      <2>3. ASSUME NEW other \in gone, bindingKey(L[other]) = bindingKey(L[id])
            PROVE  FALSE
        BY <2>1, <2>3 DEF RunsExact
      <2> QED
        BY <2>1, <2>2, <2>3 DEF RunsExact, WithoutRuns
    <1>2. ASSUME NEW k \in RunKeys, R2[k] # None
          PROVE  L2[R2[k]] # None /\ bindingKey(L2[R2[k]]) = k
      <2>1. R2[k] = R[k] /\ R[k] # None /\ ~\E id \in gone : bindingKey(L[id]) = k
        BY <1>2 DEF WithoutRuns
      <2>2. R[k] \in LeaseIds /\ L[R[k]] # None /\ bindingKey(L[R[k]]) = k
        BY <2>1 DEF RunsExact, MapsTyped, Optional
      <2>3. L2[R[k]] = L[R[k]]
        BY <2>1, <2>2 DEF WithoutLeases
      <2> QED
        BY <2>1, <2>2, <2>3
    <1> HIDE DEF L2, R2
    <1>3. RunsExact(L2, R2)
      BY <1>1, <1>2 DEF RunsExact
    <1> QED
      BY <1>3 DEF L2, R2

\* unbindLease of a stored lease removes its own device binding and no other's.
LEMMA DropDevicesExact ==
    ASSUME NEW L, NEW R, NEW D, MapsTyped(L, R, D), DevicesExact(L, D),
           NEW gone \in SUBSET LeaseIds, \A id \in gone : L[id] # None
    PROVE  DevicesExact(WithoutLeases(L, gone), WithoutDevices(L, D, gone))
    <1> DEFINE L2 == WithoutLeases(L, gone)
               D2 == WithoutDevices(L, D, gone)
    <1>1. ASSUME NEW id \in LeaseIds, L2[id] # None, L2[id].deviceKey # None
          PROVE  D2[deviceBindingKey(L2[id])] = id
      <2>1. id \notin gone /\ L[id] # None /\ L2[id] = L[id]
        BY <1>1 DEF WithoutLeases
      <2>2. deviceBindingKey(L[id]) \in DeviceSlots
        BY <1>1, <2>1, LeaseKeys DEF MapsTyped, Optional
      <2>3. ASSUME NEW other \in gone, L[other].deviceKey # None,
                   deviceBindingKey(L[other]) = deviceBindingKey(L[id])
            PROVE  FALSE
        BY <1>1, <2>1, <2>3 DEF DevicesExact
      <2> QED
        BY <1>1, <2>1, <2>2, <2>3 DEF DevicesExact, WithoutDevices
    <1>2. ASSUME NEW s \in DeviceSlots, D2[s] # None
          PROVE  /\ L2[D2[s]] # None /\ L2[D2[s]].deviceKey # None
                 /\ deviceBindingKey(L2[D2[s]]) = s
      <2>1. /\ D2[s] = D[s] /\ D[s] # None
            /\ ~\E id \in gone : L[id].deviceKey # None /\ deviceBindingKey(L[id]) = s
        BY <1>2 DEF WithoutDevices
      <2>2. /\ D[s] \in LeaseIds /\ L[D[s]] # None /\ L[D[s]].deviceKey # None
            /\ deviceBindingKey(L[D[s]]) = s
        BY <2>1 DEF DevicesExact, MapsTyped, Optional
      <2>3. L2[D[s]] = L[D[s]]
        BY <2>1, <2>2 DEF WithoutLeases
      <2> QED
        BY <2>1, <2>2, <2>3
    <1> HIDE DEF L2, D2
    <1>3. DevicesExact(L2, D2)
      BY <1>1, <1>2 DEF DevicesExact
    <1> QED
      BY <1>3 DEF L2, D2

\* leases.set and bindLease as values.
StoredLeases(L, id, lease) == [L EXCEPT ![id] = lease]
StoredRuns(R, id, lease) == [R EXCEPT ![bindingKey(lease)] = id]
StoredDevices(D, id, lease) ==
    IF lease.deviceKey = None THEN D ELSE [D EXCEPT ![deviceBindingKey(lease)] = id]

\* Storing a lease yields maps of the same types.
LEMMA StoreTyped ==
    ASSUME NEW L, NEW R, NEW D, MapsTyped(L, R, D), NEW id \in LeaseIds, NEW lease \in Lease
    PROVE  MapsTyped(StoredLeases(L, id, lease), StoredRuns(R, id, lease),
                     StoredDevices(D, id, lease))
    BY DEF MapsTyped, StoredLeases, StoredRuns, StoredDevices, Optional

\* The condition under which bindLease keeps the run bindings exact: the key is
\* unbound or the lease's own, and the id does not leave another key behind.
LEMMA StoreRunsExact ==
    ASSUME NEW L, NEW R, NEW D, MapsTyped(L, R, D), RunsExact(L, R),
           NEW id \in LeaseIds, NEW lease \in Lease,
           R[bindingKey(lease)] \in {None, id},
           L[id] # None => bindingKey(L[id]) = bindingKey(lease)
    PROVE  RunsExact(StoredLeases(L, id, lease), StoredRuns(R, id, lease))
    <1> DEFINE L2 == StoredLeases(L, id, lease)
               R2 == StoredRuns(R, id, lease)
               key == bindingKey(lease)
    <1>1. /\ key \in RunKeys
          /\ lease # None
          /\ L2[id] = lease
          /\ R2[key] = id
          /\ \A i \in LeaseIds : i # id => L2[i] = L[i]
          /\ \A k \in RunKeys : k # key => R2[k] = R[k]
      BY LeaseKeys, IdAssumption DEF MapsTyped, StoredLeases, StoredRuns
    <1>2. ASSUME NEW i \in LeaseIds, L2[i] # None
          PROVE  R2[bindingKey(L2[i])] = i
      <2>1. CASE i = id
        BY <1>1, <2>1
      <2>2. CASE i # id
        <3>1. L2[i] = L[i] /\ R[bindingKey(L[i])] = i /\ bindingKey(L[i]) \in RunKeys
          BY <1>1, <1>2, <2>2, LeaseKeys DEF RunsExact, MapsTyped, Optional
        <3>2. bindingKey(L[i]) # key
          BY <3>1, <2>2, IdAssumption
        <3> QED
          BY <1>1, <3>1, <3>2
      <2> QED
        BY <2>1, <2>2
    <1>3. ASSUME NEW k \in RunKeys, R2[k] # None
          PROVE  L2[R2[k]] # None /\ bindingKey(L2[R2[k]]) = k
      <2>1. CASE k = key
        BY <1>1, <2>1
      <2>2. CASE k # key
        <3>1. R2[k] = R[k] /\ R[k] \in LeaseIds /\ L[R[k]] # None /\ bindingKey(L[R[k]]) = k
          BY <1>1, <1>3, <2>2 DEF RunsExact, MapsTyped, Optional
        <3>2. R[k] # id
          BY <3>1, <2>2
        <3> QED
          BY <1>1, <3>1, <3>2
      <2> QED
        BY <2>1, <2>2
    <1> HIDE DEF L2, R2
    <1>4. RunsExact(L2, R2)
      BY <1>2, <1>3 DEF RunsExact
    <1> QED
      BY <1>4 DEF L2, R2

\* The same for the device bindings; a lease without a device binds none.
LEMMA StoreDevicesExact ==
    ASSUME NEW L, NEW R, NEW D, MapsTyped(L, R, D), DevicesExact(L, D),
           NEW id \in LeaseIds, NEW lease \in Lease,
           lease.deviceKey # None => D[deviceBindingKey(lease)] \in {None, id},
           L[id] # None => /\ L[id].deviceKey = lease.deviceKey
                           /\ deviceBindingKey(L[id]) = deviceBindingKey(lease)
    PROVE  DevicesExact(StoredLeases(L, id, lease), StoredDevices(D, id, lease))
    <1> DEFINE L2 == StoredLeases(L, id, lease)
               D2 == StoredDevices(D, id, lease)
               slot == deviceBindingKey(lease)
    <1>1. /\ lease # None
          /\ L2[id] = lease
          /\ \A i \in LeaseIds : i # id => L2[i] = L[i]
      BY IdAssumption DEF MapsTyped, StoredLeases
    <1>2. /\ lease.deviceKey = None => D2 = D
          /\ lease.deviceKey # None =>
                /\ slot \in DeviceSlots
                /\ D2[slot] = id
                /\ \A s \in DeviceSlots : s # slot => D2[s] = D[s]
      BY LeaseKeys DEF MapsTyped, StoredDevices
    <1> HIDE DEF L2, D2
    <1>3. ASSUME NEW i \in LeaseIds, L2[i] # None, L2[i].deviceKey # None
          PROVE  D2[deviceBindingKey(L2[i])] = i
      <2>1. CASE i = id
        BY <1>1, <1>2, <1>3, <2>1
      <2>2. CASE i # id
        <3>1. /\ L2[i] = L[i] /\ D[deviceBindingKey(L[i])] = i
              /\ deviceBindingKey(L[i]) \in DeviceSlots
          BY <1>1, <1>3, <2>2, LeaseKeys DEF DevicesExact, MapsTyped, Optional
        <3>2. lease.deviceKey # None => deviceBindingKey(L[i]) # slot
          BY <3>1, <2>2, IdAssumption
        <3> QED
          BY <1>2, <3>1, <3>2
      <2> QED
        BY <2>1, <2>2
    <1>4. ASSUME NEW s \in DeviceSlots, D2[s] # None
          PROVE  /\ L2[D2[s]] # None /\ L2[D2[s]].deviceKey # None
                 /\ deviceBindingKey(L2[D2[s]]) = s
      <2>1. CASE lease.deviceKey # None /\ s = slot
        BY <1>1, <1>2, <2>1
      <2>2. CASE ~(lease.deviceKey # None /\ s = slot)
        <3>1. /\ D2[s] = D[s] /\ D[s] \in LeaseIds
              /\ L[D[s]] # None /\ L[D[s]].deviceKey # None
              /\ deviceBindingKey(L[D[s]]) = s
          BY <1>2, <1>4, <2>2 DEF DevicesExact, MapsTyped, Optional
        <3>2. D[s] # id
          BY <3>1, <2>2
        <3> QED
          BY <1>1, <3>1, <3>2
      <2> QED
        BY <2>1, <2>2
    <1>5. DevicesExact(L2, D2)
      BY <1>3, <1>4 DEF DevicesExact
    <1> QED
      BY <1>5 DEF L2, D2

(***************************************************************************)
(* The inductive invariant and the four shapes a step can take under it    *)
(***************************************************************************)

IInv == TypeOK /\ BindingsExact /\ EndedForGood

Vanish(gone) ==
    /\ gone \in SUBSET {id \in LeaseIds : leases[id] # None}
    /\ Drop(leases, runBindings, deviceBindings, gone)
    /\ notified' = notified \cup {id \in gone : Expired(id)}
    /\ UNCHANGED <<now, issued>>

Write(id, lease) ==
    /\ Store(SweptLeases, SweptRuns, SweptDevices, id, lease)
    /\ NotifySwept
    /\ UNCHANGED now

Create(id, q) ==
    /\ id \notin issued
    /\ MayCreate(q)
    /\ Write(id, NewLease(q))
    /\ issued' = issued \cup {id}

Refresh(id, ttl) ==
    /\ SweptLeases[id] # None
    /\ TtlAccepted(ttl)
    /\ Write(id, [SweptLeases[id] EXCEPT !.expiresAt = now + resolveLeaseTtlMs(ttl)])
    /\ UNCHANGED issued

Elapse == now' = now + 1 /\ UNCHANGED <<maps, issued, notified>>

\* The sweep of the registry's own maps keeps them typed and exact, and leaves
\* exactly the leases that have not expired.
LEMMA SweptMaps ==
    ASSUME TypeOK, BindingsExact
    PROVE  /\ MapsTyped(SweptLeases, SweptRuns, SweptDevices)
           /\ RunsExact(SweptLeases, SweptRuns)
           /\ DevicesExact(SweptLeases, SweptDevices)
           /\ \A id \in LeaseIds :
                 /\ SweptLeases[id] = IF Expired(id) THEN None ELSE leases[id]
                 /\ SweptLeases[id] # None => SweptLeases[id] \in Lease
    <1>1. MapsTyped(leases, runBindings, deviceBindings)
      BY DEF TypeOK, MapsTyped
    <1>2. ExpiredIds \in SUBSET LeaseIds /\ \A id \in ExpiredIds : leases[id] # None
      BY DEF ExpiredIds, Expired
    <1>3. MapsTyped(SweptLeases, SweptRuns, SweptDevices)
      BY <1>1, <1>2, DropTyped DEF SweptLeases, SweptRuns, SweptDevices
    <1>4. RunsExact(SweptLeases, SweptRuns)
      BY <1>1, <1>2, DropRunsExact DEF SweptLeases, SweptRuns, BindingsExact
    <1>5. DevicesExact(SweptLeases, SweptDevices)
      BY <1>1, <1>2, DropDevicesExact DEF SweptLeases, SweptDevices, BindingsExact
    <1>6. \A id \in LeaseIds : SweptLeases[id] = IF Expired(id) THEN None ELSE leases[id]
      BY DEF SweptLeases, WithoutLeases, ExpiredIds
    <1> QED
      BY <1>3, <1>4, <1>5, <1>6 DEF MapsTyped, Optional

\* Under exact bindings the branches that delete a binding without a lease
\* change nothing.
LEMMA NothingStale ==
    ASSUME TypeOK, BindingsExact, NEW q \in AllocateRequest
    PROVE  /\ WithoutStale(SweptRuns, SweptLeases, bindingKey(q)) = SweptRuns
           /\ q.deviceKey # None =>
                 WithoutStale(SweptDevices, SweptLeases, deviceBindingKey(q)) = SweptDevices
    <1>1. \A k \in RunKeys : SweptRuns[k] # None => SweptLeases[SweptRuns[k]] # None
      BY SweptMaps DEF RunsExact
    <1>2. \A s \in DeviceSlots : SweptDevices[s] # None => SweptLeases[SweptDevices[s]] # None
      BY SweptMaps DEF DevicesExact
    <1>3. /\ SweptRuns \in [RunKeys -> Optional(LeaseIds)]
          /\ SweptDevices \in [DeviceSlots -> Optional(LeaseIds)]
      BY SweptMaps DEF MapsTyped
    <1> QED
      BY <1>1, <1>2, <1>3, RequestKeys DEF WithoutStale, BoundTo

\* A step that only sweeps is a Vanish of the expired leases.
LEMMA SweepShape ==
    ASSUME leases' = SweptLeases, runBindings' = SweptRuns, deviceBindings' = SweptDevices,
           NotifySwept, UNCHANGED <<now, issued>>
    PROVE  Vanish(ExpiredIds)
    <1>1. {id \in ExpiredIds : Expired(id)} = ExpiredIds
      BY DEF ExpiredIds
    <1>2. ExpiredIds \in SUBSET {id \in LeaseIds : leases[id] # None}
      BY DEF ExpiredIds, Expired
    <1> QED
      BY <1>1, <1>2 DEF Vanish, Drop, NotifySwept, SweptLeases, SweptRuns, SweptDevices

\* Every step of the registry has one of the four shapes, or changes nothing.
LEMMA StepShape ==
    ASSUME IInv, [Next]_vars
    PROVE  \/ \E gone \in SUBSET LeaseIds : Vanish(gone)
           \/ \E id \in LeaseIds, q \in AllocateRequest : Create(id, q)
           \/ \E id \in LeaseIds, ttl \in Optional(Ttls) : Refresh(id, ttl)
           \/ Elapse
           \/ UNCHANGED vars
    <1> USE DEF IInv
    <1>0. ExpiredIds \in SUBSET LeaseIds
      BY DEF ExpiredIds
    <1>s. ASSUME Sweep PROVE Vanish(ExpiredIds)
      BY <1>s, SweepShape DEF Sweep, Drop, SweptLeases, SweptRuns, SweptDevices
    <1>1. ASSUME NEW q \in AllocateRequest, AllocateRefreshes(q)
          PROVE  \E id \in LeaseIds, ttl \in Optional(Ttls) : Refresh(id, ttl)
      <2>1. /\ BoundTo(SweptRuns, SweptLeases, bindingKey(q))
            /\ SweptRuns[bindingKey(q)] \in LeaseIds
        BY <1>1, SweptMaps, RequestKeys DEF AllocateRefreshes, BoundTo, MapsTyped, Optional
      <2>2. Refresh(SweptRuns[bindingKey(q)], q.ttlMs)
        BY <1>1, <2>1 DEF AllocateRefreshes, refreshLease, Refresh, Write, BoundTo
      <2> QED
        BY <2>1, <2>2 DEF AllocateRequest
    <1>2. ASSUME NEW q \in AllocateRequest, NEW id \in LeaseIds, AllocateCreates(q, id)
          PROVE  Create(id, q)
      BY <1>2 DEF AllocateCreates, Create, Write
    <1>3. ASSUME NEW q \in AllocateRequest, AllocateRejected(q)
          PROVE  Vanish(ExpiredIds)
      BY <1>3, NothingStale, SweepShape DEF AllocateRejected
    <1>4. ASSUME NEW id \in LeaseIds, NEW q \in ScopeRequest, NEW ttl \in Optional(Ttls),
                 heartbeatLease(id, q, ttl)
          PROVE  Refresh(id, ttl) \/ Vanish(ExpiredIds)
      BY <1>4, <1>s DEF heartbeatLease, HeartbeatAccepted, Refresh, Write, refreshLease
    <1>5. ASSUME NEW id \in LeaseIds, NEW q \in ScopeRequest, releaseLease(id, q)
          PROVE  Vanish(ExpiredIds \cup {id}) \/ Vanish(ExpiredIds)
      <2>1. CASE ReleaseAccepted(id, q)
        <3>1. leases[id] # None /\ ~Expired(id)
          BY <2>1, SweptMaps DEF ReleaseAccepted
        <3>2. /\ ExpiredIds \cup {id} \in SUBSET {i \in LeaseIds : leases[i] # None}
              /\ {i \in ExpiredIds \cup {id} : Expired(i)} = ExpiredIds
          BY <3>1 DEF ExpiredIds, Expired
        <3> QED
          BY <1>5, <2>1, <3>2 DEF releaseLease, Vanish, NotifySwept
      <2>2. CASE ~ReleaseAccepted(id, q)
        BY <1>5, <2>2, <1>s DEF releaseLease
      <2> QED
        BY <2>1, <2>2
    <1>6. ASSUME NEW id \in LeaseIds, consumeExpiredLease(id)
          PROVE  Vanish({id})
      <2>1. {i \in {id} : Expired(i)} = {id}
        BY <1>6 DEF consumeExpiredLease
      <2> QED
        BY <1>6, <2>1 DEF consumeExpiredLease, Vanish, Expired
    <1>7. CASE ConsumeExpiredLeases
      BY <1>7, <1>s, <1>0 DEF ConsumeExpiredLeases
    <1>8. CASE Tick
      BY <1>8 DEF Tick, Elapse
    <1> QED
      BY <1>0, <1>1, <1>2, <1>3, <1>4, <1>5, <1>6, <1>7, <1>8 DEF Next, allocateLease

(***************************************************************************)
(* Invariance                                                              *)
(***************************************************************************)

\* Accepted times to live are natural numbers, so expiries are.
LEMMA TtlNat ==
    ASSUME NEW raw \in Optional(Ttls), TtlAccepted(raw)
    PROVE  /\ resolveLeaseTtlMs(raw) \in Nat \ {0}
           /\ resolveLeaseTtlMs(raw) <= MaxTtl \/ resolveLeaseTtlMs(raw) = DefaultTtl
    BY TtlAssumption DEF Optional, TtlAccepted, resolveLeaseTtlMs, OrElse

\* The lease an allocation creates has the request's binding keys.
LEMMA NewLeaseTyped ==
    ASSUME NEW q \in AllocateRequest, TtlAccepted(q.ttlMs), now \in Nat
    PROVE  /\ NewLease(q) \in Lease
           /\ bindingKey(NewLease(q)) = bindingKey(q)
           /\ NewLease(q).deviceKey = q.deviceKey
           /\ deviceBindingKey(NewLease(q)) = deviceBindingKey(q)
    <1>1. resolveLeaseTtlMs(q.ttlMs) \in Nat
      BY TtlNat DEF AllocateRequest
    <1> QED
      BY <1>1 DEF NewLease, AllocateRequest, Lease, bindingKey, deviceBindingKey

\* Writing a lease whose keys are free or its own keeps the maps typed and exact.
LEMMA WriteExact ==
    ASSUME TypeOK, BindingsExact, NEW id \in LeaseIds, NEW lease \in Lease, Write(id, lease),
           SweptRuns[bindingKey(lease)] \in {None, id},
           lease.deviceKey # None => SweptDevices[deviceBindingKey(lease)] \in {None, id},
           SweptLeases[id] # None =>
              /\ bindingKey(SweptLeases[id]) = bindingKey(lease)
              /\ SweptLeases[id].deviceKey = lease.deviceKey
              /\ deviceBindingKey(SweptLeases[id]) = deviceBindingKey(lease)
    PROVE  MapsTyped(leases, runBindings, deviceBindings)' /\ BindingsExact'
    <1>1. /\ leases' = StoredLeases(SweptLeases, id, lease)
          /\ runBindings' = StoredRuns(SweptRuns, id, lease)
          /\ deviceBindings' = StoredDevices(SweptDevices, id, lease)
      BY DEF Write, Store, StoredLeases, StoredRuns, StoredDevices
    <1>2. MapsTyped(leases', runBindings', deviceBindings')
      BY <1>1, SweptMaps, StoreTyped
    <1>3. RunsExact(leases', runBindings')
      BY <1>1, SweptMaps, StoreRunsExact
    <1>4. DevicesExact(leases', deviceBindings')
      BY <1>1, SweptMaps, StoreDevicesExact
    <1> QED
      BY <1>2, <1>3, <1>4 DEF BindingsExact, MapsTyped, RunsExact, DevicesExact

\* What a creating step writes is a lease whose keys are free after the sweep.
LEMMA CreateExact ==
    ASSUME IInv, NEW id \in LeaseIds, NEW q \in AllocateRequest, Create(id, q)
    PROVE  /\ MapsTyped(leases, runBindings, deviceBindings)' /\ BindingsExact'
           /\ leases[id] = None
           /\ leases' = [SweptLeases EXCEPT ![id] = NewLease(q)]
           /\ NewLease(q) \in Lease
           /\ q.deviceKey # None =>
                 /\ SweptDevices[deviceBindingKey(q)] = None
                 /\ deviceBindings' = [SweptDevices EXCEPT ![deviceBindingKey(q)] = id]
           /\ q.deviceKey = None => deviceBindings' = SweptDevices
    <1> USE DEF IInv
    <1>1. /\ NewLease(q) \in Lease
          /\ bindingKey(NewLease(q)) = bindingKey(q)
          /\ NewLease(q).deviceKey = q.deviceKey
          /\ deviceBindingKey(NewLease(q)) = deviceBindingKey(q)
      BY NewLeaseTyped DEF Create, MayCreate, TypeOK
    <1>2. leases[id] = None /\ SweptLeases[id] = None
      BY SweptMaps DEF Create, EndedForGood
    <1>3. SweptRuns[bindingKey(q)] = None
      BY SweptMaps, RequestKeys DEF Create, MayCreate, BoundTo, RunsExact
    <1>4. q.deviceKey # None => SweptDevices[deviceBindingKey(q)] = None
      BY SweptMaps, RequestKeys DEF Create, MayCreate, DeviceAvailable, BoundTo, DevicesExact
    <1>5. MapsTyped(leases, runBindings, deviceBindings)' /\ BindingsExact'
      BY <1>1, <1>2, <1>3, <1>4, WriteExact DEF Create
    <1> QED
      BY <1>1, <1>2, <1>4, <1>5 DEF Create, Write, Store

\* What a refreshing step writes is a stored lease with another expiry.
LEMMA RefreshExact ==
    ASSUME IInv, NEW id \in LeaseIds, NEW ttl \in Optional(Ttls), Refresh(id, ttl)
    PROVE  /\ MapsTyped(leases, runBindings, deviceBindings)' /\ BindingsExact'
           /\ leases[id] # None /\ ~Expired(id)
           /\ leases' = [SweptLeases EXCEPT ![id] =
                           [leases[id] EXCEPT !.expiresAt = now + resolveLeaseTtlMs(ttl)]]
           /\ deviceBindings' = SweptDevices
    <1> USE DEF IInv
    <1> DEFINE lease == [SweptLeases[id] EXCEPT !.expiresAt = now + resolveLeaseTtlMs(ttl)]
    <1>1. /\ leases[id] # None /\ ~Expired(id)
          /\ SweptLeases[id] = leases[id] /\ SweptLeases[id] \in Lease
      BY SweptMaps DEF Refresh
    <1>2. /\ lease \in Lease
          /\ bindingKey(lease) = bindingKey(SweptLeases[id])
          /\ lease.deviceKey = SweptLeases[id].deviceKey
          /\ deviceBindingKey(lease) = deviceBindingKey(SweptLeases[id])
      <2>1. now + resolveLeaseTtlMs(ttl) \in Nat
        BY TtlNat DEF Refresh, TypeOK
      <2> QED
        BY <1>1, <2>1 DEF Lease, bindingKey, deviceBindingKey
    <1>3. SweptRuns[bindingKey(lease)] = id
      BY <1>1, <1>2, SweptMaps DEF RunsExact
    <1>4. lease.deviceKey # None =>
             /\ SweptDevices[deviceBindingKey(lease)] = id
             /\ deviceBindingKey(lease) \in DeviceSlots
      BY <1>1, <1>2, SweptMaps, LeaseKeys DEF DevicesExact
    <1>5. MapsTyped(leases, runBindings, deviceBindings)' /\ BindingsExact'
      BY <1>1, <1>2, <1>3, <1>4, WriteExact DEF Refresh
    <1>6. deviceBindings' = SweptDevices
      <2>1. SweptDevices \in [DeviceSlots -> Optional(LeaseIds)]
        BY SweptMaps DEF MapsTyped
      <2> QED
        BY <1>4, <2>1 DEF Refresh, Write, Store
    <1> QED
      BY <1>1, <1>5, <1>6 DEF Refresh, Write, Store

\* A vanishing step removes stored leases and their bindings, nothing else.
LEMMA VanishExact ==
    ASSUME IInv, NEW gone \in SUBSET LeaseIds, Vanish(gone)
    PROVE  MapsTyped(leases, runBindings, deviceBindings)' /\ BindingsExact'
    <1>1. MapsTyped(leases, runBindings, deviceBindings) /\ \A id \in gone : leases[id] # None
      BY DEF IInv, TypeOK, MapsTyped, Vanish
    <1>2. /\ leases' = WithoutLeases(leases, gone)
          /\ runBindings' = WithoutRuns(leases, runBindings, gone)
          /\ deviceBindings' = WithoutDevices(leases, deviceBindings, gone)
      BY DEF Vanish, Drop
    <1>3. MapsTyped(leases', runBindings', deviceBindings')
      BY <1>1, <1>2, DropTyped
    <1>4. RunsExact(leases', runBindings') /\ DevicesExact(leases', deviceBindings')
      BY <1>1, <1>2, DropRunsExact, DropDevicesExact DEF IInv, BindingsExact
    <1> QED
      BY <1>3, <1>4 DEF MapsTyped, BindingsExact, RunsExact, DevicesExact

\* The empty registry satisfies the invariant.
LEMMA InitIInv == Init => IInv
    BY TtlAssumption DEF Init, IInv, TypeOK, BindingsExact, RunsExact, DevicesExact,
       EndedForGood, Optional

\* Every step preserves the invariant.
LEMMA NextIInv == IInv /\ [Next]_vars => IInv'
    <1> SUFFICES ASSUME IInv, [Next]_vars PROVE IInv'
      OBVIOUS
    <1>1. ASSUME NEW gone \in SUBSET LeaseIds, Vanish(gone)
          PROVE  IInv'
      <2>1. TypeOK'
        BY <1>1, VanishExact DEF IInv, TypeOK, MapsTyped, Vanish
      <2>2. EndedForGood'
        BY <1>1 DEF IInv, TypeOK, EndedForGood, Vanish, Drop, WithoutLeases
      <2> QED
        BY <1>1, <2>1, <2>2, VanishExact DEF IInv
    <1>2. ASSUME NEW id \in LeaseIds, NEW q \in AllocateRequest, Create(id, q)
          PROVE  IInv'
      <2>1. TypeOK'
        BY <1>2, CreateExact DEF IInv, TypeOK, MapsTyped, Create, Write, NotifySwept, ExpiredIds
      <2>2. EndedForGood'
        <3>1. /\ leases'[id] # None
              /\ \A i \in LeaseIds : i # id => leases'[i] = SweptLeases[i]
          BY <1>2, CreateExact, SweptMaps, IdAssumption DEF IInv, MapsTyped
        <3>2. \A i \in LeaseIds : SweptLeases[i] = IF Expired(i) THEN None ELSE leases[i]
          BY SweptMaps DEF IInv
        <3>3. id \notin notified' /\ \A i \in notified' : i \in issued
          BY <1>2, CreateExact DEF IInv, TypeOK, EndedForGood, Create, Write, NotifySwept,
             ExpiredIds, Expired
        <3> QED
          BY <1>2, <3>1, <3>2, <3>3 DEF IInv, TypeOK, EndedForGood, Create, Write,
             NotifySwept, ExpiredIds
      <2> QED
        BY <1>2, <2>1, <2>2, CreateExact DEF IInv
    <1>3. ASSUME NEW id \in LeaseIds, NEW ttl \in Optional(Ttls), Refresh(id, ttl)
          PROVE  IInv'
      <2>1. TypeOK'
        BY <1>3, RefreshExact DEF IInv, TypeOK, MapsTyped, Refresh, Write, NotifySwept, ExpiredIds
      <2>2. EndedForGood'
        <3>1. /\ leases[id] # None /\ ~Expired(id)
              /\ \A i \in LeaseIds : i # id => leases'[i] = SweptLeases[i]
          BY <1>3, RefreshExact, SweptMaps DEF IInv, MapsTyped
        <3>2. \A i \in LeaseIds : SweptLeases[i] = IF Expired(i) THEN None ELSE leases[i]
          BY SweptMaps DEF IInv
        <3> QED
          BY <1>3, <3>1, <3>2 DEF IInv, TypeOK, EndedForGood, Refresh, Write,
             NotifySwept, ExpiredIds, Expired
      <2> QED
        BY <1>3, <2>1, <2>2, RefreshExact DEF IInv
    <1>4. CASE Elapse
      BY <1>4 DEF Elapse, maps, IInv, TypeOK, BindingsExact, RunsExact, DevicesExact, EndedForGood
    <1>5. CASE UNCHANGED vars
      BY <1>5 DEF vars, IInv, TypeOK, BindingsExact, RunsExact, DevicesExact, EndedForGood
    <1> QED
      BY <1>1, <1>2, <1>3, <1>4, <1>5, StepShape

\* The registry's state always has its type, its three maps agree, and a lease
\* that ended stays ended.
THEOREM Invariance == Spec => []IInv
    BY InitIInv, NextIInv, PTL DEF Spec

\* Type correctness of the registry.
THEOREM TypeCorrect == Spec => []TypeOK
    <1>1. IInv => TypeOK
      BY DEF IInv
    <1> QED
      BY <1>1, Invariance, PTL

\* Run and device bindings name exactly the stored leases, in every reachable
\* state: allocation by run and exclusion by device look up the same leases.
THEOREM BindingsAreExact == Spec => []BindingsExact
    <1>1. IInv => BindingsExact
      BY DEF IInv
    <1> QED
      BY <1>1, Invariance, PTL

\* ADR 0007's promise: no two active leases own the same device of the same
\* backend and provider.
THEOREM DevicesAreExclusive == Spec => []DeviceExclusive
    <1>1. IInv => DeviceExclusive
      BY DEF IInv, BindingsExact, DevicesExact, DeviceExclusive
    <1> QED
      BY <1>1, Invariance, PTL

\* A lease reported to onLeaseExpired is never active again.
THEOREM EndedLeasesStayEnded == Spec => []EndedForGood
    <1>1. IInv => EndedForGood
      BY DEF IInv
    <1> QED
      BY <1>1, Invariance, PTL

(***************************************************************************)
(* Bounded expiry                                                          *)
(***************************************************************************)

\* The expiry bound survives every step: refreshed and new leases are stamped
\* from the current time, and the clock does not go back.
LEMMA NextExpiryBounded ==
    IInv /\ ExpiryBounded /\ [Next]_vars => ExpiryBounded'
    <1> SUFFICES ASSUME IInv, ExpiryBounded, [Next]_vars PROVE ExpiryBounded'
      OBVIOUS
    <1> USE TtlAssumption
    <1>0. /\ now \in Nat
          /\ \A i \in LeaseIds : leases[i] # None => leases[i].expiresAt \in Nat
      BY DEF IInv, TypeOK, Optional, Lease
    <1>1. ASSUME NEW gone \in SUBSET LeaseIds, Vanish(gone)
          PROVE  ExpiryBounded'
      BY <1>1 DEF Vanish, Drop, WithoutLeases, ExpiryBounded
    <1>2. ASSUME NEW id \in LeaseIds, NEW q \in AllocateRequest, Create(id, q)
          PROVE  ExpiryBounded'
      <2>1. /\ leases' = [SweptLeases EXCEPT ![id] = NewLease(q)]
            /\ now' = now
            /\ SweptLeases \in [LeaseIds -> Optional(Lease)]
            /\ \A i \in LeaseIds : SweptLeases[i] # None => SweptLeases[i] = leases[i]
        BY <1>2, CreateExact, SweptMaps DEF IInv, Create, Write, MapsTyped
      <2>2. \/ NewLease(q).expiresAt <= now + MaxTtl
            \/ NewLease(q).expiresAt <= now + DefaultTtl
        BY <1>0, <1>2, TtlNat DEF Create, MayCreate, NewLease, AllocateRequest
      <2> QED
        BY <2>1, <2>2 DEF ExpiryBounded
    <1>3. ASSUME NEW id \in LeaseIds, NEW ttl \in Optional(Ttls), Refresh(id, ttl)
          PROVE  ExpiryBounded'
      <2> DEFINE lease == [leases[id] EXCEPT !.expiresAt = now + resolveLeaseTtlMs(ttl)]
      <2>1. /\ leases' = [SweptLeases EXCEPT ![id] = lease]
            /\ now' = now
            /\ SweptLeases \in [LeaseIds -> Optional(Lease)]
            /\ leases[id] \in Lease
            /\ \A i \in LeaseIds : SweptLeases[i] # None => SweptLeases[i] = leases[i]
        BY <1>3, RefreshExact, SweptMaps DEF IInv, TypeOK, Optional, Refresh, Write, MapsTyped
      <2>2. lease.expiresAt <= now + MaxTtl \/ lease.expiresAt <= now + DefaultTtl
        BY <1>0, <1>3, <2>1, TtlNat DEF Refresh, Lease
      <2> QED
        BY <2>1, <2>2 DEF ExpiryBounded
    <1>4. CASE Elapse
      BY <1>0, <1>4 DEF Elapse, maps, ExpiryBounded
    <1>5. CASE UNCHANGED vars
      BY <1>5 DEF vars, ExpiryBounded
    <1> QED
      BY <1>1, <1>2, <1>3, <1>4, <1>5, StepShape

\* ADR 0007: a device without activity becomes available after a bounded time,
\* for every sequence of allocations and heartbeats.
THEOREM ExpiryIsBounded == Spec => []ExpiryBounded
    <1>1. Init => ExpiryBounded
      BY DEF Init, ExpiryBounded
    <1> QED
      BY <1>1, Invariance, NextExpiryBounded, PTL DEF Spec

(***************************************************************************)
(* Action properties                                                       *)
(***************************************************************************)

\* No step brings a removed lease back or extends an expired one.
LEMMA StepNoRevival ==
    ASSUME IInv, [Next]_vars
    PROVE  NoRevivalStep
    <1> USE DEF NoRevivalStep
    <1>0. issued \in SUBSET LeaseIds
      BY DEF IInv, TypeOK
    <1>1. ASSUME NEW gone \in SUBSET LeaseIds, Vanish(gone) PROVE NoRevivalStep
      BY <1>0, <1>1 DEF Vanish, Drop, WithoutLeases
    <1>2. ASSUME NEW id \in LeaseIds, NEW q \in AllocateRequest, Create(id, q)
          PROVE  NoRevivalStep
      <2>1. \A i \in issued : leases'[i] = SweptLeases[i]
        BY <1>0, <1>2, CreateExact, SweptMaps DEF IInv, MapsTyped, Create
      <2> QED
        BY <1>0, <2>1, SweptMaps DEF IInv
    <1>3. ASSUME NEW id \in LeaseIds, NEW ttl \in Optional(Ttls), Refresh(id, ttl)
          PROVE  NoRevivalStep
      <2>1. /\ leases[id] # None /\ ~Expired(id)
            /\ \A i \in LeaseIds : i # id => leases'[i] = SweptLeases[i]
        BY <1>3, RefreshExact, SweptMaps DEF IInv, MapsTyped
      <2> QED
        BY <1>0, <2>1, SweptMaps DEF IInv
    <1>4. CASE Elapse
      BY <1>4 DEF Elapse, maps
    <1>5. CASE UNCHANGED vars
      BY <1>5 DEF vars
    <1> QED
      BY <1>1, <1>2, <1>3, <1>4, <1>5, StepShape

\* Removed leases stay removed and expired ones are never extended.
THEOREM NoLeaseRevives == Spec => NoRevival
    BY StepNoRevival, Invariance, PTL DEF Spec, NoRevival

\* Any step that removes a lease reports it exactly when it had expired.
LEMMA StepExpiryReported ==
    ASSUME IInv, [Next]_vars
    PROVE  ExpiryReportedStep
    <1> USE DEF ExpiryReportedStep
    <1>1. ASSUME NEW gone \in SUBSET LeaseIds, Vanish(gone) PROVE ExpiryReportedStep
      BY <1>1 DEF Vanish, Drop, WithoutLeases, IInv, EndedForGood
    <1>2. ASSUME NEW id \in LeaseIds, NEW q \in AllocateRequest, Create(id, q)
          PROVE  ExpiryReportedStep
      <2>1. /\ leases[id] = None
            /\ \A i \in LeaseIds : i # id => leases'[i] = SweptLeases[i]
        BY <1>2, CreateExact, SweptMaps DEF IInv, MapsTyped
      <2> QED
        BY <1>2, <2>1, SweptMaps DEF IInv, EndedForGood, Create, Write, NotifySwept, ExpiredIds
    <1>3. ASSUME NEW id \in LeaseIds, NEW ttl \in Optional(Ttls), Refresh(id, ttl)
          PROVE  ExpiryReportedStep
      <2>1. /\ leases[id] # None /\ ~Expired(id)
            /\ leases'[id] = [leases[id] EXCEPT !.expiresAt = now + resolveLeaseTtlMs(ttl)]
            /\ \A i \in LeaseIds : i # id => leases'[i] = SweptLeases[i]
        BY <1>3, RefreshExact, SweptMaps DEF IInv, MapsTyped
      <2>2. leases'[id] # None
        BY <1>3, RefreshExact, <2>1, NextIInv, IdAssumption, TtlNat
           DEF IInv, TypeOK, Optional, Lease, Refresh
      <2> QED
        BY <1>3, <2>1, <2>2, SweptMaps
           DEF IInv, EndedForGood, Refresh, Write, NotifySwept, ExpiredIds
    <1>4. CASE Elapse
      BY <1>4 DEF Elapse, maps
    <1>5. CASE UNCHANGED vars
      BY <1>5 DEF vars
    <1> QED
      BY <1>1, <1>2, <1>3, <1>4, <1>5, StepShape

\* onLeaseExpired is called for a removed lease exactly when it had expired.
THEOREM ExpiryIsReported == Spec => ExpiryReported
    BY StepExpiryReported, Invariance, PTL DEF Spec, ExpiryReported

\* No step gives a device of an unexpired lease to another lease.
LEMMA StepHandover ==
    ASSUME IInv, [Next]_vars
    PROVE  HandoverAfterExpiryStep
    <1> USE DEF HandoverAfterExpiryStep
    <1>0. \A s \in DeviceSlots : SweptDevices[s] \in {None, deviceBindings[s]}
      BY DEF SweptDevices, WithoutDevices
    <1>1. ASSUME NEW gone \in SUBSET LeaseIds, Vanish(gone) PROVE HandoverAfterExpiryStep
      BY <1>1 DEF Vanish, Drop, WithoutDevices
    <1>2. ASSUME NEW id \in LeaseIds, NEW q \in AllocateRequest, Create(id, q)
          PROVE  HandoverAfterExpiryStep
      <2>1. /\ SweptDevices \in [DeviceSlots -> Optional(LeaseIds)]
            /\ q.deviceKey # None => deviceBindingKey(q) \in DeviceSlots
        BY SweptMaps, RequestKeys DEF IInv, MapsTyped
      <2>2. CASE q.deviceKey = None
        BY <1>0, <1>2, <2>2, CreateExact
      <2>3. CASE q.deviceKey # None
        <3> DEFINE slot == deviceBindingKey(q)
        <3>1. /\ SweptDevices[slot] = None
              /\ \A s \in DeviceSlots : s # slot => deviceBindings'[s] = SweptDevices[s]
          BY <1>2, <2>1, <2>3, CreateExact
        <3>2. deviceBindings[slot] # None => Expired(deviceBindings[slot])
          <4> SUFFICES ASSUME deviceBindings[slot] # None, ~Expired(deviceBindings[slot])
                       PROVE  FALSE
            OBVIOUS
          <4>1. /\ deviceBindings[slot] \in LeaseIds
                /\ SweptLeases[deviceBindings[slot]] = leases[deviceBindings[slot]]
                /\ leases[deviceBindings[slot]] # None
                /\ leases[deviceBindings[slot]].deviceKey # None
                /\ deviceBindingKey(leases[deviceBindings[slot]]) = slot
            BY <2>1, <2>3, SweptMaps DEF IInv, TypeOK, Optional, BindingsExact, DevicesExact
          <4>2. SweptDevices[slot] = deviceBindings[slot]
            BY <4>1, SweptMaps DEF IInv, DevicesExact
          <4> QED
            BY <3>1, <4>2
        <3> QED
          BY <1>0, <3>1, <3>2
      <2> QED
        BY <2>2, <2>3
    <1>3. ASSUME NEW id \in LeaseIds, NEW ttl \in Optional(Ttls), Refresh(id, ttl)
          PROVE  HandoverAfterExpiryStep
      BY <1>0, <1>3, RefreshExact
    <1>4. CASE Elapse
      BY <1>4 DEF Elapse, maps
    <1>5. CASE UNCHANGED vars
      BY <1>5 DEF vars
    <1> QED
      BY <1>1, <1>2, <1>3, <1>4, <1>5, StepShape

\* A device changes hands within one step only when its lease had expired.
THEOREM HandoverOnlyAfterExpiry == Spec => HandoverAfterExpiry
    BY StepHandover, Invariance, PTL DEF Spec, HandoverAfterExpiry

(***************************************************************************)
(* Capacity                                                                *)
(***************************************************************************)

\* Every step keeps the number of simulator leases within the limit: only a
\* creation adds one, after counting those the sweep left.
LEMMA NextCapacity ==
    IInv /\ CapacityRespected /\ [Next]_vars => CapacityRespected'
    <1> SUFFICES ASSUME IInv, CapacityRespected, [Next]_vars, MaxActive > 0
                 PROVE  Cardinality(SimulatorLeases(leases')) <= MaxActive
      BY DEF CapacityRespected, SimulatorLeases
    <1>0. /\ IsFiniteSet(SimulatorLeases(leases))
          /\ Cardinality(SimulatorLeases(leases)) \in Nat
          /\ Cardinality(SimulatorLeases(leases)) <= MaxActive
      <2>1. SimulatorLeases(leases) \subseteq LeaseIds
        BY DEF SimulatorLeases
      <2> QED
        BY <2>1, FS_Subset, FS_CardinalityType, IdAssumption DEF CapacityRespected
    <1>s. ASSUME SimulatorLeases(leases') \subseteq SimulatorLeases(leases)
          PROVE  Cardinality(SimulatorLeases(leases')) <= MaxActive
      <2>1. /\ IsFiniteSet(SimulatorLeases(leases'))
            /\ Cardinality(SimulatorLeases(leases')) <= Cardinality(SimulatorLeases(leases))
            /\ Cardinality(SimulatorLeases(leases')) \in Nat
        BY <1>0, <1>s, FS_Subset, FS_CardinalityType
      <2> QED
        BY <1>0, <2>1, TtlAssumption
    <1>1. ASSUME NEW gone \in SUBSET LeaseIds, Vanish(gone)
          PROVE  SimulatorLeases(leases') \subseteq SimulatorLeases(leases)
      BY <1>1 DEF Vanish, Drop, WithoutLeases, SimulatorLeases
    <1>2. ASSUME NEW id \in LeaseIds, NEW q \in AllocateRequest, Create(id, q)
          PROVE  Cardinality(SimulatorLeases(leases')) <= MaxActive
      <2>1. /\ NewLease(q).backend = q.backend
            /\ leases' = [SweptLeases EXCEPT ![id] = NewLease(q)]
            /\ SweptLeases \in [LeaseIds -> Optional(Lease)]
            /\ SweptLeases[id] = None
            /\ \A i \in LeaseIds : SweptLeases[i] # None => SweptLeases[i] = leases[i]
            /\ NewLease(q) # None
        BY <1>2, CreateExact, SweptMaps, IdAssumption DEF IInv, NewLease, MapsTyped
      <2>2. CASE q.backend # Simulator
        <3>1. SimulatorLeases(leases') \subseteq SimulatorLeases(leases)
          BY <2>1, <2>2 DEF SimulatorLeases
        <3> QED
          BY <3>1, <1>s
      <2>3. CASE q.backend = Simulator
        <3>1. /\ SimulatorLeases(leases') = SimulatorLeases(SweptLeases) \cup {id}
              /\ id \notin SimulatorLeases(SweptLeases)
              /\ SimulatorLeases(SweptLeases) \subseteq LeaseIds
          BY <2>1, <2>3 DEF SimulatorLeases
        <3>2. /\ IsFiniteSet(SimulatorLeases(SweptLeases))
              /\ Cardinality(SimulatorLeases(SweptLeases)) \in Nat
          BY <3>1, FS_Subset, FS_CardinalityType, IdAssumption
        <3>3. Cardinality(SimulatorLeases(SweptLeases)) < MaxActive
          BY <1>2, <2>3 DEF Create, MayCreate, CapacityAvailable
        <3>4. Cardinality(SimulatorLeases(leases')) = Cardinality(SimulatorLeases(SweptLeases)) + 1
          BY <3>1, <3>2, FS_AddElement
        <3> QED
          BY <3>2, <3>3, <3>4, TtlAssumption
      <2> QED
        BY <2>2, <2>3
    <1>3. ASSUME NEW id \in LeaseIds, NEW ttl \in Optional(Ttls), Refresh(id, ttl)
          PROVE  SimulatorLeases(leases') \subseteq SimulatorLeases(leases)
      <2>1. /\ leases[id] \in Lease /\ leases[id] # None
            /\ leases' = [SweptLeases EXCEPT ![id] =
                           [leases[id] EXCEPT !.expiresAt = now + resolveLeaseTtlMs(ttl)]]
            /\ SweptLeases \in [LeaseIds -> Optional(Lease)]
            /\ \A i \in LeaseIds : SweptLeases[i] # None => SweptLeases[i] = leases[i]
        BY <1>3, RefreshExact, SweptMaps DEF IInv, TypeOK, Optional, MapsTyped
      <2> QED
        BY <2>1 DEF SimulatorLeases, Lease
    <1>4. CASE Elapse
      BY <1>4, <1>s DEF Elapse, maps
    <1>5. CASE UNCHANGED vars
      BY <1>5, <1>s DEF vars
    <1> QED
      BY <1>s, <1>1, <1>2, <1>3, <1>4, <1>5, StepShape

\* The number of simulator leases never exceeds maxActiveSimulatorLeases.
THEOREM CapacityIsRespected == Spec => []CapacityRespected
    <1>1. Init => CapacityRespected
      <2> SUFFICES ASSUME Init PROVE SimulatorLeases(leases) = {}
        BY FS_EmptySet, TtlAssumption DEF CapacityRespected
      <2> QED
        BY DEF Init, SimulatorLeases
    <1> QED
      BY <1>1, Invariance, NextCapacity, PTL DEF Spec

(***************************************************************************)
(* Refinement                                                              *)
(***************************************************************************)

\* The ids that have run out, swept or not, only grow and were all issued.
LEMMA LapsesGrow ==
    ASSUME IInv, [Next]_vars
    PROVE  Ownership!Lapse
    <1>0. now \in Nat /\ IInv'
      BY NextIInv DEF IInv, TypeOK
    <1>1. /\ notified \cup ExpiredIds \subseteq issued
          /\ notified' \cup ExpiredIds' \subseteq issued
      <2>1. notified \cup ExpiredIds \subseteq issued
        BY DEF IInv, EndedForGood, ExpiredIds, Expired
      <2>2. notified' \cup ExpiredIds' \subseteq issued'
        BY <1>0 DEF IInv, EndedForGood, ExpiredIds, Expired
      <2>3. ASSUME NEW id \in LeaseIds, NEW q \in AllocateRequest, Create(id, q)
            PROVE  notified' \cup ExpiredIds' \subseteq issued
        <3>1. leases'[id] = NewLease(q) /\ now' = now /\ issued' = issued \cup {id}
          BY <2>3, CreateExact, SweptMaps DEF IInv, MapsTyped, Create, Write
        <3>2. NewLease(q).expiresAt \in Nat /\ NewLease(q).expiresAt > now
          BY <1>0, <2>3, TtlNat DEF Create, MayCreate, NewLease, AllocateRequest
        <3>3. id \notin ExpiredIds'
          BY <1>0, <3>1, <3>2 DEF ExpiredIds, Expired
        <3>4. id \notin notified'
          BY <2>1, <2>3 DEF Create, Write, NotifySwept
        <3> QED
          BY <2>2, <3>1, <3>3, <3>4
      <2>4. issued' = issued => notified' \cup ExpiredIds' \subseteq issued
        BY <2>2
      <2> QED
        BY <2>1, <2>3, <2>4, StepShape DEF Vanish, Refresh, Elapse, vars
    <1>2. notified \subseteq notified' /\ now' \in Nat /\ now <= now'
      <2>1. ASSUME NEW gone \in SUBSET LeaseIds, Vanish(gone) PROVE <1>2!:
        BY <1>0, <2>1 DEF Vanish
      <2>2. ASSUME NEW id \in LeaseIds, NEW q \in AllocateRequest, Create(id, q) PROVE <1>2!:
        BY <1>0, <2>2 DEF Create, Write, NotifySwept
      <2>3. ASSUME NEW id \in LeaseIds, NEW ttl \in Optional(Ttls), Refresh(id, ttl)
            PROVE  <1>2!:
        BY <1>0, <2>3 DEF Refresh, Write, NotifySwept
      <2>4. CASE Elapse \/ UNCHANGED vars
        BY <1>0, <2>4 DEF Elapse, vars
      <2> QED
        BY <2>1, <2>2, <2>3, <2>4, StepShape
    <1>3. ASSUME NEW id \in ExpiredIds
          PROVE  id \in notified' \cup ExpiredIds'
      <2>1. id \in LeaseIds /\ Expired(id) /\ id \in issued
        BY <1>3 DEF IInv, ExpiredIds, Expired, EndedForGood
      <2>2. leases'[id] \in {None, leases[id]}
        BY <2>1, StepNoRevival DEF NoRevivalStep
      <2>3. CASE leases'[id] = None
        BY <2>1, <2>3, StepExpiryReported DEF ExpiryReportedStep, Expired
      <2>4. CASE leases'[id] = leases[id] /\ leases'[id] # None
        <3>1. leases[id].expiresAt \in Nat
          BY <2>1 DEF IInv, TypeOK, Expired, Optional, Lease
        <3> QED
          BY <1>0, <1>2, <2>1, <2>4, <3>1 DEF ExpiredIds, Expired
      <2> QED
        BY <2>2, <2>3, <2>4
    <1> QED
      BY <1>1, <1>2, <1>3 DEF Ownership!Lapse

\* Every registry step is a step of the abstract device ownership.
LEMMA StepOwnership ==
    ASSUME IInv, [Next]_vars
    PROVE  Ownership!Next \/ UNCHANGED <<deviceBindings, issued, notified \cup ExpiredIds>>
    <1> DEFINE Freed == {s \in DeviceSlots : deviceBindings'[s] = None}
    <1>0. /\ deviceBindings \in [DeviceSlots -> Optional(LeaseIds)]
          /\ deviceBindings' \in [DeviceSlots -> Optional(LeaseIds)]
          /\ Freed \in SUBSET DeviceSlots
      BY NextIInv DEF IInv, TypeOK
    <1>1. ASSUME NEW gone \in SUBSET LeaseIds, Vanish(gone)
          PROVE  Ownership!Next
      <2>1. Ownership!Free(Freed)
        BY <1>0, <1>1 DEF Vanish, Drop, WithoutDevices, Ownership!Free, Ownership!Vacate
      <2> QED
        BY <1>0, <2>1, LapsesGrow DEF Ownership!Next
    <1>2. ASSUME NEW id \in LeaseIds, NEW q \in AllocateRequest, Create(id, q)
          PROVE  Ownership!Next
      <2>1. CASE q.deviceKey = None
        <3>1. Ownership!Reserve(Freed, id)
          <4>1. deviceBindings' = SweptDevices /\ issued' = issued \cup {id} /\ id \notin issued
            BY <1>2, <2>1, CreateExact DEF Create
          <4>2. \A s \in DeviceSlots : SweptDevices[s] \in {None, deviceBindings[s]}
            BY DEF SweptDevices, WithoutDevices
          <4> QED
            BY <1>0, <4>1, <4>2 DEF Ownership!Reserve, Ownership!Vacate
        <3> QED
          BY <1>0, <3>1, LapsesGrow DEF Ownership!Next
      <2>2. CASE q.deviceKey # None
        <3> DEFINE slot == deviceBindingKey(q)
                   Gone == {s \in DeviceSlots : SweptDevices[s] = None}
        <3>1. /\ slot \in DeviceSlots
              /\ SweptDevices \in [DeviceSlots -> Optional(LeaseIds)]
              /\ deviceBindings' = [SweptDevices EXCEPT ![slot] = id]
              /\ SweptDevices[slot] = None
          BY <1>2, <2>2, RequestKeys, SweptMaps, CreateExact DEF IInv, MapsTyped
        <3>2. deviceBindings[slot] # None =>
                 slot \in Gone /\ deviceBindings[slot] \in notified \cup ExpiredIds
          <4> SUFFICES ASSUME deviceBindings[slot] # None
                       PROVE  deviceBindings[slot] \in ExpiredIds
            BY <3>1
          <4>1. /\ deviceBindings[slot] \in LeaseIds /\ id \in LeaseIds
                /\ leases[deviceBindings[slot]] # None
                /\ leases[id] = None
                /\ deviceBindings'[slot] = id
            BY <1>0, <1>2, <3>1, CreateExact DEF Optional, IInv, BindingsExact, DevicesExact
          <4> QED
            BY <3>1, <4>1, StepHandover, IdAssumption DEF HandoverAfterExpiryStep, ExpiredIds
        <3>3. SweptDevices = Ownership!Vacate(Gone)
          BY <1>0, <3>1 DEF SweptDevices, WithoutDevices, Ownership!Vacate
        <3>4. Ownership!Claim(Gone, slot, id)
          BY <1>2, <3>1, <3>2, <3>3 DEF Create, Ownership!Claim
        <3> QED
          BY <3>1, <3>4, LapsesGrow DEF Ownership!Next
      <2> QED
        BY <2>1, <2>2
    <1>3. ASSUME NEW id \in LeaseIds, NEW ttl \in Optional(Ttls), Refresh(id, ttl)
          PROVE  Ownership!Next
      <2>1. Ownership!Free(Freed)
        BY <1>0, <1>3, RefreshExact
           DEF Refresh, SweptDevices, WithoutDevices, Ownership!Free, Ownership!Vacate
      <2> QED
        BY <1>0, <2>1, LapsesGrow DEF Ownership!Next
    <1>4. CASE Elapse
      <2>1. Ownership!Free({})
        BY <1>0, <1>4 DEF Elapse, maps, Ownership!Free, Ownership!Vacate
      <2> QED
        BY <2>1, LapsesGrow DEF Ownership!Next
    <1>5. CASE UNCHANGED vars
      BY <1>5 DEF vars, ExpiredIds, Expired
    <1> QED
      BY <1>1, <1>2, <1>3, <1>4, <1>5, StepShape

\* The registry implements the abstract device ownership: one owner per device,
\* ids used once, eviction only after a lapse.
THEOREM RegistryImplementsOwnership == Spec => ImplementsOwnership
    <1>1. Init => Ownership!Init
      BY DEF Init, Ownership!Init, ExpiredIds, Expired
    <1>2. IInv /\ [Next]_vars =>
             [Ownership!Next]_<<deviceBindings, issued, notified \cup ExpiredIds>>
      BY StepOwnership
    <1> QED
      BY <1>1, <1>2, Invariance, PTL DEF Spec, ImplementsOwnership, Ownership!Spec
=============================================================================
