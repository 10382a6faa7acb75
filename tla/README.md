# A formal model of the agent-device daemon

agent-device drives phones, simulators, desktops and browsers for automated
agents. Its long-lived part is the daemon: it keeps sessions, serialises the
requests of many clients for the same device, leases devices to remote tenants,
and gives the devices of remote providers back when a lease ends. This directory
holds TLA+ specifications of that part, TLC configurations that check them on
small instances, and proofs for all instances, checked by TLAPS. Paths below are
relative to the directory above this one.

## 1. Results in short

| Module | Models | Checked by TLC | Proved |
|---|---|---|---|
| `LeaseRegistry` | `src/src/daemon/lease-registry.ts` | 6 properties | all 6 and 4 more, for every instance |
| `DeviceOwnership` | what the registry promises: one owner per device | as a property of `LeaseRegistry` | the refinement |
| `LeasedSessions` | locks, admission, open, close and lease commands of concurrent requests | 6 properties; 1 counterexample | 5 of the 6 (all but liveness), and that it refines the registry |
| `ExpiredLeaseRelease` | `src/src/daemon/provider-lease-expiry.ts`, with restarts | 7 properties | the 5 safety properties |
| `ProcessLock`, `DeviceClaims` | lock directories and claim files shared by daemons that may die | 5 properties; 1 counterexample | the 4 safety properties and 2 more, under the assumptions of the run |
| `KeyedLock` | `src/src/utils/keyed-lock.ts`, the promise chains | as part of `RequestLocks` | mutual exclusion, for any keys and callers |
| `RequestLocks` | keys, nesting and retention of locks by requests and replays, over `KeyedLock` | 6 properties, one of them the refinement; 1 counterexample | 5 of the 6 (all but liveness), that nothing is left behind, and around what requests can block each other |
| `RefFrame` | the lifetime of a session's refs | 5 properties; 1 counterexample | all 5 |
| `SessionRepair` | repair of a replay script: legs, divergences, closes, publication, tombstones, daemon teardown | 5 properties; 1 counterexample | all 5 |

Five statements of documents, comments and tests do not hold of the code (section 6).

## 2. Inventory

For each component: its state, its operations, whom it works with, what makes it
hard, and what makes it correct. The state of each row in the model is in
`PROJECT.json`, "components".

### Daemon core (`src/src/daemon`)

* **Lease registry** (`lease-registry.ts`). State: leases by id, run bindings by
  tenant, run, backend, provider and device, device bindings by backend, provider
  and device. Operations: allocate, heartbeat, release, consume one or all expired
  leases, the assertion of admission, queries. Every operation sweeps the expired
  leases first and reports them to `onLeaseExpired`. Hard: three maps that must
  agree; expiry that happens between calls; capacity and ttl limits. Correct: one
  owner per device, exact maps, no revival, every expiry reported once.
* **Expired provider lease release** (`provider-lease-expiry.ts`). State: pending
  leases of two kinds, calls under way, a retry timer, the file
  `expired-provider-leases.json`. Operations: release, retry, begin shutdown,
  drain, shutdown, loading at start. Hard: provider calls that fail or hang, a
  lease handed over again during its release, crashes, failing writes, the drain's
  timeout. Correct: written before called, never forgotten, never without a
  wake-up, a truthful shutdown report.
* **Admission and expired sessions** (`lease-lifecycle.ts`, `request-admission.ts`,
  `lease-context.ts`). Run under the request's locks: tear down the session whose
  lease expired, compare the request's lease with the session's, refresh it.
  Hard: teardown is awaited; other requests sweep leases meanwhile.
* **Execution locks** (`request-execution-locks.ts`, `request-binding.ts`,
  `src/src/utils/keyed-lock.ts`). State: promise chains by key. A request takes its
  session's lock, then the device's if it could be resolved beforehand, and may
  retain another device's later (replay). Re-entrancy goes by async context. Hard:
  keys chosen before the lock is held, nesting, hand-over on every exit.
* **Router and execution scope** (`request-router.ts`, `request-execution-scope.ts`,
  handler chain, finalization). Order: cancellation, locks, clean-up, admission,
  handler, finalization; nested requests of a replay reuse the scope.
* **Sessions** (`session-store.ts`, `handlers/session-open.ts`,
  `handlers/session-close.ts`, `session-teardown.ts`, `session-routing.ts`). State:
  sessions by key with device, lease, recording, actions; tombstones on disk.
  Hard: first open of a device by two sessions at once, failures after effects,
  failure of the provider on close, public names that differ from keys.
* **Lease commands** (`handlers/lease.ts`): allocate, heartbeat, release around a
  call of the provider; exempt from admission and from the locks.
* **Ref frames** (`ref-frame.ts`, ADR 0014). State: frame state, scope, tree and
  generation of a session. Hard: an effect awaited between issue and use of a ref.
* **Script publication and repair** (`session-script-publication-state.ts`,
  `session-replay-transaction.ts`, ADR 0012). State: the repair transaction with
  its receipt and boundary. Hard: divergence, resumption, close retries, reaping.
* **Device claims** (`device-claims.ts`) and **process locks**
  (`src/src/utils/process-lock.ts`, `server/server-lifecycle.ts`). State: claim and
  lock files shared by daemons. Hard: taking over what a dead process left.
* **Runtime** (`server/daemon-runtime.ts`, `daemon-idle-reap.ts`, finalizer). Start,
  shutdown with bounded teardown, idle exit. Hard: timers against requests.
* **Transports, client, recordings, logs, uploads**: input and output around these.

### Outside the daemon core

Platform adapters (`src/src/platforms`), the Swift and Java helpers (`src/apple`,
`src/android`), provider runtimes (`src/packages/provider-*`), front ends (CLI,
client, SDK, MCP), the command catalogue, selectors and snapshots, the replay and
Maestro engines, Metro and remote tunnels, contracts and the XML reader. They are
sequential, pure, or drive external tools; the providers appear as an environment.

### How the parts interact

```
 client --lease command--------------------> LeaseRegistry --onLeaseExpired--> releaser --> provider
   |                                             ^   ^                            |  ^
   +--request--> locks --> clean-up --> admission+   |                            v  |
                   |                        |        |                     file on disk
                   |                        v        |
                   +----------------> open/act/close-+--> SessionStore
```

The registry is synchronous, so each of its methods is one step; everything else is
divided by `await`. Three pairs of modules are composed:

* `LeasedSessions` extends `LeaseRegistry`, and `DeviceClaims` extends `ProcessLock`,
  each changing the variables of the other by its operators only;
* `RequestLocks` extends `KeyedLock` the same way, and the property `UsesKeyedLock`
  says that its behaviours are behaviours of the lock.

The releaser takes what `onLeaseExpired` reports (`notified` in the registry, a
hand-over in the releaser) and is modelled on its own: nothing flows back from it to
the registry. `RefFrame` and `SessionRepair` are about what one session keeps. They
rely on the session's lock, whose exclusion is what `RequestLocks` shows, and model
one request at a time, except where the code takes no lock (the daemon's teardown).

## 3. The modules

### LeaseRegistry and DeviceOwnership

`leases`, `runBindings` and `deviceBindings` are total functions into values or
`None`. `now` is the clock, moved by `Tick`; `issued` are the ids drawn so far
(they are random in the code, so never drawn twice) and `notified` those reported
to `onLeaseExpired`. One action per method: `allocateLease`, `heartbeatLease`,
`releaseLease`, `consumeExpiredLease`, `ConsumeExpiredLeases`; the swept maps are
values, so a method is "sweep, then write" in one step. A method that throws
after the sweep leaves the swept maps behind, and so does the model. A lease keeps
the fields the scope checks compare; `createdAt` and `heartbeatAt` are left out, and
so is `normalize`, which trims names. An absent field is `None`.

`DeviceOwnership` is the promise of ADR 0007: owner of each device, taken when
free, given up, or lapsed. The registry implements it by the mapping of
`deviceBindings` to `owner`; a method that sweeps an expired lease and grants
the device to another client is one step of both.

### LeasedSessions

`request` holds, for each slot of `Requests`, how far its request has come
(`stage`), its command, its lease and whether the device key is among its locks.
`sessions` maps each client's session key to the lease of its session, and `held`
what each client was last granted. All clients want the same device: requests about
different devices share the registry alone.

| Stage | In the code |
|---|---|
| `queued`, `waiting` | waiting for `session:` and then `device:` in `withRequestExecutionLocks` |
| `entered`, `cleaning` | `cleanupExpiredLeasedSession`, before and during the teardown |
| `admitting` | `admitRequestLeaseForLockedScope`, which has no await inside |
| `resolving`, `opening` | `handleOpenCommand` before and inside `firstSessionOpenLocks` |
| `acting` | any command of an existing session, re-open included |
| `unbound` | `closeWithoutSession` and the commands that take a device selector, without a session: on the device that `resolveCommandDevice` finds, whatever keys were chosen |
| `tearing`, `releasing`, `clearing`, `shutting` | `runCloseTeardownAndRelease`: teardown, provider, deletion; then `maybeShutdownSessionTarget` |
| `allocating`, `freeing` | the provider's part of `lease_allocate`, `lease_release` |

A lock is held by being in a stage past its acquisition, as the code holds it for
the extent of a callback. `Arrive` chooses the keys from the session store before
any lock: with a session, its device is among them; without one, it depends on
whether the request resolves to the device (`locksDevice`). A plain request retains
no further lock: `retainDeviceExecutionLock` is set for the nested requests of a
replay only. `Scoped` are the clients whose session has an implicit scope, whose key
differs from its public name.

### ExpiredLeaseRelease

`pendingLive`, `pendingRecovery` and `persistedIds` are the maps of the releaser,
`attempt` its `activeReleaseAttempts`, `file` what is on disk, `freed` what the
provider has freed. One step is what runs between two awaits, so the answer of the
provider (`ReleaseSucceeds`, `ReleaseFails`) and the bookkeeping of the attempt
(`finish`) are two. A write may fail before or after the rename. A process may end
at any step (`Stop`) and the next one starts with other recoverable providers
(`Configs`), reads the file or fails to. A provider may free the device and the
answer be lost. `owed`, `report` and `readOk` are history variables for the
properties.

### ProcessLock and DeviceClaims

`dir` is the lock directory with its owner file and whether it is older than the
grace; `stage` says which file system call of `acquireProcessLock` a process makes
next, `sawOld` what it remembers of the last one. Each `mkdir`, read, write, `stat`
and deletion is a step, and a process in `Mortal` may die before any of them. `Blind`
are the processes whose look at an owner's start time may fail, because `ps` was slow
or absent: `classifyOwnerLiveness` then judges the owner dead. `Stalling` may pause
between making the directory and writing the owner file for longer than the grace;
`Patient` never reach their time-out. `maker`, `current` and `misfire` are history:
`misfire` records that somebody deleted the directory another process had made since.

`DeviceClaims` adds the claim file of one local device (`claim`), each daemon's
session on it (`session`, `owned`) and the operation a daemon performs under the lock
(`job`: open, rollback, close, the clean-up of an expired session, shutdown, prune).
The claim is advisory: an open that finds the claim of a live owner goes on without one,
and so does the model. A clear that cannot take the lock throws: the close keeps its
session, the shutdown stops, the clean-up of an expired session swallows the error and
deletes the session (`ended` if its key is not its public name). `left` remembers that a
session has gone and its claim has not. Abstracted: a daemon has one claim operation on
the device under way at a time, though its sessions could have several.

### KeyedLock and RequestLocks

`tail` is the map of promises, `live` the acquisitions that have not settled,
`ahead` the one each is chained behind. `Enqueue` is the synchronous part of
`withKeyedLock`, `Settle` the end of a task, `Cleanup` the later look at the map that
deletes an entry nobody has queued behind.

A request of `RequestLocks` has a `plan` (its session, the device its selector names,
whether it is a replay, its steps). It chooses its keys from `bound`, the session
store, before it holds any (`Arrive`), takes them in order (`Ask`, `Got`), works
through its steps (`Start`, `Refuse`, `Finish`, `Fail`), and lets them go
(`Leave`, `Clean`, `Release`, `Released`, `End`). `stack` is the re-entrancy of its
async context. A replay whose step opened a device nobody could foresee asks for the
device's lock and retains it in a context of its own (`Retain`, `Retained`,
`retained`); a first open takes a third kind of key (`AskToOpen`). A step of kind
`full` goes through the whole request path again (`AskAgain`), a `probe` is a command
that goes by its explicit selector whether there is a session or not, `act` any other
command. A step without a session works on the device its handler finds (`device`),
which may be one its keys do not name (`close <app>` without a selector has no device
key), or on none and is refused.

Left out: the shutdown of a target after a close. What a selector resolves to may
differ between the choice of the keys (`hint`) and the step (`device`).
`request_locks` excludes two kinds of plans by its constants, because in the code they
wait for ever: a replay that has retained a device and has a `full` step (run
`replay_self_wait` shows it), and two replays that retain two devices in opposite
order, against which `retainExecutionLock` does nothing.

### RefFrame

`obs` is the session's last capture, `gen` its generation, `last` the highest one
drawn, `frame` the four `refFrame` fields: state, scope, tree and generation. `at` and
`job` are the request that runs, one step per await: a mutation of a ref is admitted,
its tree may be refreshed, Android may recover from a system dialog, the seam of
device effects is crossed (`effects`), and only then does it act. Any capture may
return any tree, because the screen changes by itself. `named` (what responses have
told clients) and `acted` (the last mutation dispatched) are history.

Left out: the seeding of generations, whose collisions are taken not to happen; the
lineage check, which cannot fail under the session's lock; the label fallback and the
guards of replays, which only reject; a scoped snapshot that shows nothing and is
kept, which changes nothing; a press by coordinates with `--settle` while recording.
What a web page does on `tapTarget` or `fillTarget` is external.

### SessionRepair

`session` is the record of the session (recorded actions, the repair with status,
boundary, target and receipt, the watermark of a divergence), `stored` whether the
store has it, `run` the leg of the replay at work, `closing` the close at work,
`files` and `tombs` what is on disk, `daemon` whether the daemon serves, is tearing
sessions down, or is dead. `Key` is what the session is stored by, `Public` its name:
for an implicit session they differ. A replay arms a repair (`replay --save-script`), runs step
by step, may diverge, and is continued with `replay --from`; a leg at the plan's end
completes the repair; a close or the teardown publishes it. The platform close, the
publication and the lease's release may each fail, and the client may close again, or
resume a repair that a close has ended. A close with `--no-record` (`quiet`) is not
recorded and what it names is not looked at, but its `--force` counts.
The teardown of an idle or stopped daemon takes no lock and runs beside a close.
`outstanding`, `finished`, `closedAs`, `granted`, `ended` and `written` are history.

Left out: recordings that are not repairs, a close inside the plan, plan digests
(taken to match) and the other conditions of `resume.allowed`.

`LeaseRegistryProofs`, `LeasedSessionsProofs`, `ExpiredLeaseReleaseProofs`,
`DeviceClaimsProofs` (both of its modules), `KeyedLockProofs`, `RequestLocksProofs`,
`RefFrameProofs` and `SessionRepairProofs` hold the theorems, the `MC` modules the
definitions that configurations need. Operators commented as mutants are plausible
errors of the code; no specification uses them, and each property is checked to fail
under at least one.

## 4. The runs

| Run | Question | Bounds |
|---|---|---|
| `lease_registry` | Are the maps exact, ownership exclusive, ends final and reported, and is `DeviceOwnership` implemented? | 2 tenants, one client id or none, 1 device or none, 3 ids, capacity 2, a ttl of 3 clamped to `MaxTtl` = 2 or the default of 1, clock to 3 |
| `expired_leases` | Is nothing forgotten, nothing called before it is recorded, no wake-up lost, the report truthful, and everything freed in the end? | 2 leases, daemons that can recover one of them or the other, 2 process ends, 1 repeated hand-over |
| `leased_sessions` | One session per device, one request at work on it but for those without session and key, sessions that end after their leases, only owners admitted, everyone answered? | 2 clients with a request each, one with an implicit session scope, 2 leases, clock to 1 |
| `device_claims` | Is the lock exclusive unless a deletion hit the wrong directory, are claims kept and not leaked, is the lock obtained after a crash? | 3 daemons, one mortal and blind, 2 open, 2 prune, 1 claim each |
| `request_locks` | One request per key, one session per device, a replay's device kept from all but strays, no cycle of waiting? | 2 requests, 2 sessions, 2 devices, 9 plans |
| `ref_frames` | Does a ref act on the element it was told to name, on a screen nobody has touched since? | 2 refs, 3 screens, 3 captures, 3 effects |
| `session_repair` | Is only a whole, answered plan published, once closed, over files the client allowed? | 2 steps, 2 targets, 2 kinds of close, 3 recorded actions, 4 calls |
| `device_shutdown`, `prune_race`, `replay_self_wait`, `refs_after_reopen`, `scoped_tombstone` | The statements of section 6, each found violated | as the runs above, with a third request where two do not suffice, and for the last with `Key` different from `Public` |

**Why the bounds are enough.** A handover of a device needs an old and a new lease
and, for mistakes of keys, one more in between: three ids. A lease's life is
allocated, refreshed once, expired: with a ttl of one or, clamped, two ticks a clock
to 3 contains it and a second one. Races at the locks are between two requests. The
releaser's races are between an attempt, a repeated hand-over and a process end; a
second end shows what the first restart left. Races about a stale lock directory need
the process that died, the one that clears it and the one that takes it over: three. With one claim for each of two openers
one claim succeeds another; what a second token of one daemon adds is proved.
The plans of `RequestLocks` hold fresh opens of either device with and without a
selector, replays whose device is known or unknown in advance, a request that takes
the full path again, probes with and without a device key, a close, and a close of an app
without a session, any two against each other.
A ref goes wrong when its frame, a later capture and a third one are confused: three
captures; and two refs on three screens let an element move, vanish and be replaced.
A plan of two steps has a step before and one after a divergence; four calls are an
arming, a resumption, a close that fails and its retry. `MaxTime`, `LeaseIds`,
`MaxStops`, `MaxRepeats`, `MaxClaims`, `MaxGen`, `MaxEffects`, `MaxActs` and
`MaxCalls` are the only bounds on behaviour. The proofs do not depend on their values.

**Assumptions of the runs.** `device_claims` has `Stalling` empty: a process that
pauses between `mkdir` and its owner file for longer than the grace loses its lock by
design of the code, and mutual exclusion with it. `Blind` holds only the mortal
process; a blind one that prunes may delete the claim of a live owner
(section 6, further observations). `session_repair` has `Key = Public`, so
`NamedTombstoneCleared` is there about named sessions; about the others it says nothing,
and `scoped_tombstone` shows why.

**Deadlock** is checked in `lease_registry`, `request_locks` and `replay_self_wait`.
Elsewhere the system may rightly stop: a bounded clock with all ids used, a process
that has ended for the last time, bounds of captures and calls reached.

**Fairness.** `LeasedSessions`: weak fairness of `Proceeds` for each request, because
what a request awaits settles (device commands and provider calls have timeouts,
rejected promises continue in `catch` and `finally`), and strong fairness of
`TakesLock`, because a keyed lock is a promise chain and so first come, first served:
whoever waits while the lock is free again and again is served. Nothing obliges a
client to send a request. `RequestLocks`: weak fairness of `Work` of each request, a
promise that can run does; that a queue is first come, first served is there not
assumed but modelled. `DeviceClaims`: weak fairness of the steps of a live process
that has begun to acquire the lock, and of the ageing of a directory; nothing obliges
a dead process, or one that has not begun. `ExpiredLeaseRelease`: weak fairness of the
bookkeeping and of the provider's answer (both are promise continuations), strong
fairness of the provider freeing a device and of a retry with a working disk (a
provider or a disk that never works again frees nothing), weak fairness of the start
of the next process, for without it nothing on file can be freed. `RefFrame` and
`SessionRepair` state no liveness: what a client does next is up to it.

**Symmetry** is declared in runs of safety and action properties only: of leases, of
slots, and of the two kinds of close in `session_repair`.

## 5. The proofs

`tlapm` checks every leaf. The assumptions are the named `ASSUME`s on constants:
`None` differs from the values it stands beside, the ids are finitely many, the ttls
are integers with positive minimum and default, plans have a length, a request has at
least one step and an open resolves to some device, and for `LeasedSessions` that every
slot has a client and what clients ask for is of its type. Where a theorem needs more,
the assumption stands in the theorem itself and is explained below.

Every safety and action property that a passing run checks is also stated by a theorem.

**LeaseRegistry.** `IInv` is `TypeOK`, `BindingsExact` and `EndedForGood`; none of
them is inductive alone: that a refresh finds its keys free or its own needs
exactness, that a created id has no binding needs `EndedForGood`. `StepShape` reduces
every step to one of four shapes (leases vanish, one is created, one is refreshed,
time passes), and each property is proved shape by shape. `CapacityIsRespected`,
`ExpiryIsBounded`, `EndedLeasesStayEnded` and `HandoverOnlyAfterExpiry` are proved for
every instance and so are not repeated by a run. `RegistryImplementsOwnership` maps
each shape to a step of `DeviceOwnership`.

**LeasedSessions.** `ReqInv` adds to typing and `SessionsExclusive` what the locks
give: requests past the session lock of one client are one (`SessionLocked`), a
request in `opening` is the only one there and there is no session at all
(`OpeningAlone`), and whoever works with a session finds it (`SessionPresent`).
`SoleOperator` follows: two requests that go by sessions would be of one client, or one
of them would be opening while there is a session. For these the device lock is not used:
the session lock, `firstSessionOpenLocks` and the search for a conflict suffice. A
request that goes by no session (`unbound`) is kept apart by the device lock alone
(`DeviceLocked`), so not from those that have no device key: a close that queued before
its session existed, or a command whose keys name no device. `RequestsUseRegistry` makes each request step a registry step, so
every theorem about the registry holds of this system too. For
`SessionsEndWithLeases`, `OwnInv` follows leases through a request: what was admitted
was granted to its client (`AdmittedOwned`), so is what a session stores
(`SessionsOwned`), hence a client's release of its session's lease is accepted, and
by `NoRevival` the lease is still gone when the session is deleted
(`EndingReleased`).

**ExpiredLeaseRelease.** What the process remembers of the file and what the file
holds differ after a failed write. The invariant says how: the difference is always a
lease already freed (`PersistedTracked`, `FileRemembered`). With `CallsPersisted`,
`PathsApart`, `DownForgetful` and `ShutdownTracked` the safety properties are
inductive; there is one lemma per action.

**KeyedLock.** Exclusion is not inductive: the second of two granted tasks might have
been chained behind nobody. The strengthening says that the unsettled acquisitions of
a key are one chain: nobody is waited for by two (`AheadOK`), the map's entry is the
chain's end (`TailOK`), and no set of them waits in a cycle (`NoCycle`, stated over
sets so that it needs no recursion). `LockExcludes` then holds of any keys and any
number of callers, and so of requests, because their steps refine the lock's.

**RequestLocks.** `RequestInv` says of each request where it may be (`Phase`), that its
stack is its first keys in order and at most one key a step asked for (`Stacked`), that
all of them but the one just settled are granted (`Holds`), which key an open is about to
take or works under (`Opens`), what it works on (`Uses`), and that a replay has named or
retained the device it opened (`Replayed`). A request at a step therefore holds its
session's key (`HoldsSession`), so two of them are on two sessions (`SessionsExclude`)
and nobody else binds one's session (`OthersBound`); two opens of one device would both
hold its open key (`OpensExclude`). `OneSession` follows without the device locks, whose
choice may be stale, and from `Holds` that each call of the lock is one its callers may
make: `RequestsUseKeyedLock`, and with it `RequestKeysExclude`.

*The replay's device.* Device keys exclude those who have chosen them
(`NamesExclude`), and opens and commands of a session are kept out by the conflict search
and `OneSession`. Whoever is on a replay's device beside it is therefore a *stray*
(`Strays`): no open, not on its session's device, and without a key of that device
(`ReplayYieldsToStraysOnly`, with no hypothesis about what clients ask for). There are
two kinds. A `close <app>` or another command without session and selector gets no device
key (`request-binding.ts:89-91`) and finds a device in its handler
(`session-device-utils.ts:42`). A command with a selector has its keys chosen by its
session, if that is bound, and then runs on the selector's device. Both are in the plans
of the run.

*Deadlock.* `AccountedInv` says where each unsettled acquisition is: on the stack, the
one waited for, or retained. Hence an answered request has left nothing
(`NothingLeftBehind`), and with `NoCycle` of the lock whatever is awaited is held by some
request (`AwaitedKeysAreHeld`). Keys have levels: session, device, open. Who waits with
a key in hand has no open key and waits for no session (`HoldAndWait`), so in a circle of
waiting requests somebody waits for a device with a device in hand, and that is a
replay's open or a step on the full path (`BlockedAroundNestedDevices`). Where there are
none, there is no circle (`LoneCommandsNeverBlock`). The exceptions are real: the run
`replay_self_wait` is a circle of one, and two replays make one of two. That a request
which is in no circle does go on is liveness and left to `EveryRequestEnds`.

**ProcessLock and DeviceClaims.** `LockInv` follows the directory of the lock through
the calls of several processes: one that is older than the grace and has no owner file
was made by a process that has died (`OldIsDead`), so did one that has been seen in that
state and not been replaced since (`SeesDead`), and who writes or holds is its maker
(`Makers`). Then a deletion can only hit a living holder if the directory is no longer
the one its deleter looked at, which is `misfire`; the window between look and deletion
is the code's, and `prune_race` shows it. `LockIsExclusive` assumes `Stalling = {}`: a
process that pauses beyond the grace before its owner file is written is taken for dead
by design of the code, which trades that for not waiting on dead makers.

For the claims, `ClaimBase` (types, and which step of which operation goes with which
stage of the lock, `Jobs`) holds without any assumption. `Acts` says that what an
operation has read under the lock is still on file when it writes or deletes, `Cleared`
that a daemon whose clearing is done has no claim on file, or has left one behind before;
with them `OwnershipHolds` and `NoClaimLeaked` are inductive while there is no `misfire`.
`NoClaimLeaked` excepts four ways to leave a claim, and says that no other order of
operations does: an open that failed after the app may have been touched, a teardown that
failed at close or shutdown, a rollback whose clear failed, and the swallowed one of an
expired session (section 6, further observations).
They assume besides that no process that prunes is blind: one whose `ps` fails
deletes a live owner's claim, as section 6 says. A blind *opener* does no harm, which is
why the assumption is about `Blind \cap Pruners` only. `PruneSparesSuccessors` states for
steps what `prune_race` finds violated, with `misfire` excepted.

**RefFrame.** A capture awaiting its publication must still be the last one, unnamed
and unspoilt (`Publishable`); every ref of the frame has been told (`FrameNamed`); what
was told at the present generation is in the present observation (`NamedObserved`);
and from admission to dispatch a ref keeps its frame (`AdmittedFrame`). With the
generations counted (`Counted`) the properties are inductive. `AuthorityOpen` assumes
that every screen shows an element: a frame of an empty screen names nothing, so its
change could not be seen in what was told.

**SessionRepair.** The invariant has two layers. `Records` has the types, who may refer
to a session the store has lost (`Present`), and whose receipt it is (`Receipts`); it
gives `TypesHold` and `ClosesOnce`. `Progress` says who has allowed an overwrite
(`Grants`), what a leg may continue (`LegShape`), how a close has ended the repair
(`Ends`), that a complete repair's plan has run to its end (`Completed`), that it has
nothing left to answer while no close has ended it (`Answered`), and what is recorded
(`Clean`). It gives `PublishesWhole` and `OverwritesAllowed`, of every client, also one
that resumes an ended repair or closes with `--no-record`; both properties state what
these change: a resumed repair counts the line of the failed close as a correction, a
close that is not recorded publishes without a close line, and overwrites at the repair's
target on a `--force` given for another. `FinalizeFacts` and `PublishesFacts` say what
the finalization of a repair does, so that the proof of each action is about that action
only. The whole invariant was model-checked before it was proved. `TombstonesCleared`
stands beside both layers: what is repaired, or is being armed by a leg, has no
tombstone under the public name if the session is stored under it (`Swept`), except
while the teardown is leaving one.

**Only model-checked:** liveness under fairness (`RequestsAnswered`,
`EventuallyFreed`, `RecoveredAfterRestart`, `LockObtained`, `EveryRequestEnds`), which
is outside the prover's reach, as are `ENABLED` and induction over data.

## 6. Statements that do not hold

1. *"router serializes concurrent commands for the same device across sessions"*
   (`src/src/daemon/__tests__/request-router-screenshot.test.ts:157`). A close that
   queued before its session existed holds no device lock, and turns the device off
   after it deleted the session and so let another open pass. Run `device_shutdown`.
2. *"The liveness check is repeated under the per-device lock immediately before"*
   the deletion, because *"Deleting on the first read would take the successor with
   it"* (`src/src/daemon/device-claims.ts:158`). Two processes may both find the same
   stale lock directory; the slower one deletes by path, and so deletes the directory
   the faster one has just made (`src/src/utils/process-lock.ts:85`). Under a lock
   held twice, a prune deletes the claim that was written since its check. Run
   `prune_race`.
3. *"A same-session replay action reuses that admitted scope instead of reacquiring the
   non-reentrant locks"* (`src/src/daemon/request-router.ts:277`). A step that records
   no action (a `runtime set` line) takes the full path and asks for the lock of the
   device its own replay has retained in another async context, and waits for itself.
   Run `replay_self_wait`.
4. Reopened session, plain refs: *"Rejected until publication"*
   (`src/docs/adr/0014-session-ref-frame-lifetime.md:110`). A session made anew has no
   frame fields, which read as an active frame of all refs, and the tree falls back on
   the last observation: after any internal capture a plain ref of the former session
   is admitted and acts on a screen no response has shown. Run `refs_after_reopen`.
5. *"a fresh `replay --save-script` on this key clears the tombstone"*
   (`src/src/daemon/session-store.ts:262`, and ADR 0012). The tombstone of a repair is
   written under the session's public name and cleared under its key in the store
   (`src/src/daemon/session-replay-coordinator.ts:158`). For an implicit session, the
   CLI's default, they differ, and the tombstone stays. Run `scoped_tombstone`.

**Further observations,** each read in the code while modelling, without a run:

* *"cleanupExpiredLeasedSession consumes expired lease and deletes the session after
  teardown"* (`src/src/daemon/__tests__/lease-lifecycle.test.ts:54`) holds of sessions that
  a client has named. The code deletes by the public name, so that one with an implicit
  scope, stored under another key, stays (`src/src/daemon/lease-lifecycle.ts:97`). It is
  in `CleanupEnds`, for the clients in `Scoped`.
* An aborted repair is documented as final: *"the transaction never completed, so
  publication is refused forever"*
  (`src/src/daemon/session-script-publication-state.ts:243`). If the release of the lease
  failed and the session was kept, `replay --from` arms it again, it may complete, and is
  published. In `SessionRepair`, `[][Published => ended # "aborted"]_vars` is violated;
  `PublishedWhole` says what is left.
* *"`--force` is a per-target grant"*
  (`src/src/daemon/session-script-publication-state.ts:82`), but
  `close --no-record --save-script=B --force` returns before it retargets
  (`src/src/daemon/session-action-recorder.ts:45`) and passes its force to the writer, so
  that it overwrites A. `OverwritesGranted` without its second alternative is violated.
* A busy device is not always owned: a session is torn down only by a request for that
  very session that consumes its expired lease. If another call sweeps it first, the
  session stays and the next holder of the device gets `DEVICE_IN_USE`
  (`src/website/docs/docs/remote-proxy.md:49`).
* Lease commands take no lock and so change the owner under an executing request,
  which `src/docs/adr/0007-remote-device-leases.md:33` rules out.
* A prune may delete the claim of a live owner when its `ps` fails
  (`src/src/daemon/device-claims.ts:153`).
* When the lock of a claim cannot be had, the clean-up of an expired session swallows the
  failed clear and deletes the session (`src/src/daemon/lease-lifecycle.ts:86`): the
  claim of a live daemon stays and no session owns it, although claims are said to be
  *"released on session close and daemon shutdown"* and only the abrupt death of their
  process to leave them (`src/src/daemon/device-claims.ts:155`). In `DeviceClaims` it is
  `ClearEnds` of kind `expiry`, excepted in `NoClaimLeaked`.
* The same failure at shutdown rejects `teardownDaemonSessions`
  (`src/src/daemon/server/daemon-runtime.ts:232`), so that the shutdown does not go on to
  the exit of the process.
* A close with `--no-record` publishes a complete repair without a close line.
* The watermark of a divergence and the tombstone are consumed before the target's
  preflight can reject the replay, so a retry with an empty tail is out of range.
* A `close --force` beside the teardown may publish two close lines; an open under way
  when the teardown reads the store leaves a repair without a tombstone; a receipt kept
  across a rerun that opened the app again makes the last close skip the platform; a
  close retried after a commit and a failed release closes the platform again.
* Refs drawn by `screenshot --overlay-refs` are stored as an observation only
  (`src/src/daemon/request-generic-dispatch.ts:304`), though the CLI's help offers
  them for use.
* `find click` and `find fill` on Android go on with their positional ref after the
  recovery from a system dialog
  (`src/src/daemon/handlers/interaction-touch.ts:866`), where ADR 0014 asks for a new
  resolution.
* Two replays that retain two devices in opposite order wait for each other: one that
  opens a device, closes the session and opens a second device keeps the first and awaits
  the second (`src/src/daemon/request-execution-locks.ts:52`,
  `src/src/daemon/handlers/session-open.ts:750`), while the other does the reverse. With
  two such plans TLC stops in a deadlock; `BlockedAroundNestedDevices` says that this and
  the self-wait of item 3 are of the only kind there is.
* A command without a session may work on a device that another request holds: `close
  <app>` without a selector has no device key at all, and a command with an explicit
  selector chooses its key from its session when that is bound, and runs on the
  selector's device (`src/src/daemon/request-binding.ts:20`). `SoleOperator` and
  `ReplayYieldsToStraysOnly` say that nothing else can.

## 7. What is not modelled

The daemon's own lifecycle beyond what `ExpiredLeaseRelease` and `SessionRepair` need:
the daemon lock (`src/src/daemon/server/server-lifecycle.ts:99` compares and unlinks
as the process lock does), two daemons sharing the releaser's file, the arming of the
idle timer. Requests without a lease and sessions of several devices in one model with
leases. The provider's own table of devices, so double calls of `release` are not
counted. Ordinary recordings. The Apple runner session and its lease.

The models map the part of the daemon that holds state shared by concurrent actors.
That is a small share of the repository's lines: most of them are platform adapters
that build command lines and parse their output, the CLI and its help, schemas,
parsers, metro and remote tunnels, and the programs on the device. Those are input
and output or sequential functions over large texts and trees, which a model would
only restate; unit tests serve them better.

## 8. Plan

Done: `LeaseRegistry` with `DeviceOwnership`, `ExpiredLeaseRelease`, `LeasedSessions`
over the registry, `ProcessLock` and `DeviceClaims`, `KeyedLock` and `RequestLocks`,
`RefFrame`, `SessionRepair`; proofs of every safety property about all of them.

Next, in this order:

1. Proofs one level up: that `DeviceClaims` implements an abstract claim (taken when
   free, given up by its owner or pruned when dead) while no deletion misfires, and that
   `RequestLocks` implements "one user per session, one opener per device".
2. `DaemonLifecycle`: idle timer, requests in flight, shutdown with bounded teardown,
   two daemons sharing a state directory and the releaser's file.
3. The Apple runner session and its lease across daemons.
