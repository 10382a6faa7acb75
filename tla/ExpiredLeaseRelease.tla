------------------------- MODULE ExpiredLeaseRelease -------------------------
(***************************************************************************)
(* The releaser of expired provider leases,                                *)
(* src/src/daemon/provider-lease-expiry.ts.  A lease that expired, or whose*)
(* session ends at shutdown, still holds a device at a remote provider.    *)
(* The releaser calls the provider until it succeeds.  A lease of a        *)
(* recoverable provider is first written to expired-provider-leases.json,  *)
(* so that the next daemon goes on where a crashed one stopped; a lease of *)
(* any other provider is remembered in memory only.                        *)
(*                                                                         *)
(* JavaScript runs one step to its next await, so an action is what runs   *)
(* between two awaits.  A call to the provider has two such steps: its     *)
(* answer (which also rewrites the file) and the bookkeeping that tracks   *)
(* the attempt.  The process may stop between any two actions.             *)
(***************************************************************************)
EXTENDS Naturals, FiniteSets

CONSTANTS
    Leases,         \* ids of leases whose lease provider is set
    RuntimeLeases,  \* those whose provider has a runtime in this daemon
    Configs,        \* the sets of leases a daemon may be configured to recover
    MaxStops,       \* bound: how often a daemon process ends
    MaxRepeats      \* bound: how often a lease is handed over again

ASSUME ConstantsAssumption ==
    /\ RuntimeLeases \subseteq Leases
    /\ Configs \subseteq SUBSET Leases
    /\ MaxStops \in Nat /\ MaxRepeats \in Nat

VARIABLES
    phase,            \* of the daemon process
    recoverable,      \* leases of recoverableProviderIds in this process
    pendingLive,      \* pendingLiveLeases
    pendingRecovery,  \* pendingRecoveryLeases
    persistedIds,     \* persistedRecoveryLeaseIds
    attempt,          \* activeReleaseAttempts: none, calling, or settled
    retryTimer,       \* whether a retry is scheduled
    shutdownReleased, \* shutdownReleasedLeases
    file,             \* leases in expired-provider-leases.json
    freed,            \* external: leases whose device the provider has freed
    handed,           \* leases handed over in this process
    known,            \* leases ever handed over: ids are not used twice
    stops, repeats,   \* counters of the two bounds
    readOk,           \* history: this process could read the file
    owed,             \* history: leases the shutdown report must mention
    report            \* history: what drain returned

daemonVars == <<phase, recoverable, handed, known, stops, repeats, readOk>>
memoryVars == <<pendingLive, pendingRecovery, attempt, retryTimer>>
diskVars == <<file, persistedIds>>
shutdownVars == <<shutdownReleased, owed, report>>
vars == <<daemonVars, memoryVars, diskVars, shutdownVars, freed>>

Up == phase # "down"
trackingShutdownReleases == phase \in {"closing", "draining"}
NoReport == [pending |-> {}, released |-> {}]

(***************************************************************************)
(* The file.  A write may fail before the rename, leaving the old file, or *)
(* after it (chmod), leaving the new one; both count as failed.  Removing  *)
(* the file of an empty record either works or does not.                   *)
(***************************************************************************)

PersistSucceeds(pending) ==
    /\ file' = pending
    /\ persistedIds' = pending

PersistFails(pending) ==
    /\ file' \in {file} \cup (IF pending = {} THEN {} ELSE {pending})
    /\ UNCHANGED persistedIds

(***************************************************************************)
(* Retries                                                                 *)
(***************************************************************************)

Retryable(live, recovery) == live \cup (recovery \cap recoverable)

\* scheduleRetry.
Scheduled(armed, live, recovery) == armed \/ Retryable(live, recovery) # {}

\* An attempt that is being tracked is joined, not repeated.
Begun(tried) ==
    [l \in Leases |-> IF l \in tried /\ attempt[l] = "none" THEN "calling" ELSE attempt[l]]

Unpersisted == (pendingRecovery \cap recoverable) \ persistedIds

\* Mutant: a retry takes every pending lease for persisted.
retryPendingUnpersisted(armed, skipped) ==
    /\ skipped = {}
    /\ UNCHANGED diskVars
    /\ attempt' = Begun(Retryable(pendingLive, pendingRecovery))
    /\ retryTimer' = armed

\* Each lease that is not on file persists the whole record before its attempt;
\* those before the first write that succeeds are skipped until the next retry.
retryPending(armed, skipped) ==
    LET tried == Retryable(pendingLive, pendingRecovery) \ skipped IN
    /\ skipped \subseteq Unpersisted
    /\ IF Unpersisted = {} THEN UNCHANGED diskVars
       ELSE IF skipped = Unpersisted THEN PersistFails(pendingRecovery)
       ELSE PersistSucceeds(pendingRecovery)
    /\ attempt' = Begun(tried)
    /\ retryTimer' = IF tried = {} THEN Scheduled(armed, pendingLive, pendingRecovery) ELSE armed

\* The timer clears itself, then retries.
TimerFires(skipped) ==
    /\ Up /\ retryTimer
    /\ retryPending(FALSE, skipped)
    /\ UNCHANGED <<daemonVars, pendingLive, pendingRecovery, shutdownVars, freed>>

(***************************************************************************)
(* Handing a lease over: LeaseRegistry's onLeaseExpired, and the session   *)
(* finalizer at shutdown.  A lease is handed over again when it expires    *)
(* while the finalizer is releasing it.                                    *)
(***************************************************************************)

MayHandOver(l) ==
    /\ Up
    /\ l \in handed => repeats < MaxRepeats
    /\ l \in handed \/ l \notin known
    /\ repeats' = IF l \in handed THEN repeats + 1 ELSE repeats
    /\ handed' = handed \cup {l}
    /\ known' = known \cup {l}
    /\ owed' = IF trackingShutdownReleases THEN owed \cup {l} ELSE owed
    /\ UNCHANGED <<phase, recoverable, stops, readOk, shutdownReleased, report, freed>>

releaseRecoverable(l) ==
    LET pending == pendingRecovery \cup {l} IN
    /\ l \in recoverable
    /\ MayHandOver(l)
    /\ pendingRecovery' = pending
    /\ \/ /\ PersistSucceeds(pending)
          /\ attempt' = Begun({l})
          /\ UNCHANGED retryTimer
       \/ /\ PersistFails(pending)
          /\ retryTimer' = Scheduled(retryTimer, pendingLive, pending)
          /\ UNCHANGED attempt
    /\ UNCHANGED pendingLive

\* Mutant: the runtime of the lease's provider is not looked for.
releaseLiveAnywhere(l) ==
    /\ l \in Leases \ recoverable
    /\ MayHandOver(l)
    /\ pendingLive' = pendingLive \cup {l}
    /\ attempt' = Begun({l})
    /\ UNCHANGED <<pendingRecovery, retryTimer, diskVars>>

\* After its await this branch schedules a retry if the lease is still pending;
\* finish has already done so by then.
releaseLive(l) ==
    /\ l \in RuntimeLeases \ recoverable
    /\ MayHandOver(l)
    /\ pendingLive' = pendingLive \cup {l}
    /\ attempt' = Begun({l})
    /\ UNCHANGED <<pendingRecovery, retryTimer, diskVars>>

(***************************************************************************)
(* Calling the provider                                                    *)
(***************************************************************************)

\* The provider frees the device at some point of the call, if at all.
ProviderFrees(l) ==
    /\ Up /\ attempt[l] = "calling"
    /\ freed' = freed \cup {l}
    /\ UNCHANGED <<daemonVars, memoryVars, diskVars, shutdownVars>>

\* Mutant: a successful release is not recorded for the shutdown report.
SettledUnrecorded(l) ==
    /\ attempt' = [attempt EXCEPT ![l] = "settled"]
    /\ UNCHANGED shutdownReleased

\* The attempt's promise settles; recordReleasedLease when it succeeded.
Settled(l) ==
    /\ attempt' = [attempt EXCEPT ![l] = "settled"]
    /\ shutdownReleased' =
          IF trackingShutdownReleases THEN shutdownReleased \cup {l} ELSE shutdownReleased

ReleaseSucceeds(l) ==
    /\ Up /\ attempt[l] = "calling" /\ l \in freed
    /\ Settled(l)
    /\ \/ /\ l \in recoverable
          /\ pendingRecovery' = pendingRecovery \ {l}
          /\ PersistSucceeds(pendingRecovery \ {l}) \/ PersistFails(pendingRecovery \ {l})
          /\ UNCHANGED pendingLive
       \/ /\ l \notin recoverable
          /\ pendingLive' = pendingLive \ {l}
          /\ UNCHANGED <<pendingRecovery, diskVars>>
    /\ UNCHANGED <<daemonVars, retryTimer, owed, report, freed>>

\* Mutant: a failed release is forgotten, and the record rewritten without it.
ReleaseFailsForgetting(l) ==
    /\ Up /\ attempt[l] = "calling"
    /\ attempt' = [attempt EXCEPT ![l] = "settled"]
    /\ pendingRecovery' = pendingRecovery \ {l}
    /\ PersistSucceeds(pendingRecovery \ {l})
    /\ UNCHANGED <<daemonVars, pendingLive, retryTimer, shutdownVars, freed>>

\* The provider call is rejected, before or after it freed the device.
ReleaseFails(l) ==
    /\ Up /\ attempt[l] = "calling"
    /\ attempt' = [attempt EXCEPT ![l] = "settled"]
    /\ UNCHANGED <<daemonVars, pendingLive, pendingRecovery, retryTimer>>
    /\ UNCHANGED <<diskVars, shutdownVars, freed>>

\* Mutant: finish leaves scheduling the retry to somebody else.
finishWithoutRetry(l) ==
    /\ Up /\ attempt[l] = "settled"
    /\ attempt' = [attempt EXCEPT ![l] = "none"]
    /\ retryTimer' = (retryTimer /\ pendingLive \cup pendingRecovery # {})
    /\ UNCHANGED <<daemonVars, pendingLive, pendingRecovery, diskVars, shutdownVars, freed>>

\* trackReleaseAttempt's finish, a microtask after the attempt settled.
finish(l) ==
    /\ Up /\ attempt[l] = "settled"
    /\ attempt' = [attempt EXCEPT ![l] = "none"]
    /\ retryTimer' =
          /\ pendingLive \cup pendingRecovery # {}
          /\ Scheduled(retryTimer, pendingLive, pendingRecovery)
    /\ UNCHANGED <<daemonVars, pendingLive, pendingRecovery, diskVars, shutdownVars, freed>>

(***************************************************************************)
(* The daemon process                                                      *)
(***************************************************************************)

Init ==
    /\ phase = "down" /\ recoverable = {}
    /\ pendingLive = {} /\ pendingRecovery = {}
    /\ attempt = [l \in Leases |-> "none"] /\ retryTimer = FALSE
    /\ file = {} /\ persistedIds = {}
    /\ shutdownReleased = {} /\ owed = {} /\ report = NoReport
    /\ freed = {}
    /\ handed = {} /\ known = {} /\ stops = 0 /\ repeats = 0 /\ readOk = TRUE

\* Mutant: a new process loads the record and waits for the next expiry.
StartIdle(loaded) ==
    /\ phase = "down"
    /\ phase' = "serving"
    /\ recoverable' \in Configs
    /\ loaded \in {file, {}}
    /\ readOk' = (loaded = file)
    /\ pendingRecovery' = loaded /\ persistedIds' = loaded
    /\ attempt' = [l \in Leases |-> "none"]
    /\ UNCHANGED <<pendingLive, retryTimer, file, freed, shutdownVars>>
    /\ UNCHANGED <<handed, known, stops, repeats>>

\* createExpiredProviderLeaseReleaser and the retryPending that follows it.  A
\* file that cannot be read or parsed loads as empty.
Start(loaded) ==
    /\ phase = "down"
    /\ phase' = "serving"
    /\ recoverable' \in Configs
    /\ loaded \in {file, {}}
    /\ readOk' = (loaded = file)
    /\ pendingRecovery' = loaded /\ persistedIds' = loaded
    /\ attempt' = [l \in Leases |-> IF l \in loaded \cap recoverable' THEN "calling" ELSE "none"]
    /\ UNCHANGED <<pendingLive, retryTimer, file, freed, shutdownVars>>
    /\ UNCHANGED <<handed, known, stops, repeats>>

\* A second process retries before it finds the daemon lock taken and exits: it
\* may free what is on file, but lives too short to see an answer or to write.
StartWithoutLock(l) ==
    /\ Up
    /\ l \in file \cap recoverable
    /\ freed' = freed \cup {l}
    /\ UNCHANGED <<daemonVars, memoryVars, diskVars, shutdownVars>>

beginShutdown ==
    /\ phase = "serving" /\ stops < MaxStops
    /\ phase' = "closing"
    /\ shutdownReleased' = {}
    /\ owed' = pendingLive \cup pendingRecovery
    /\ UNCHANGED <<recoverable, handed, known, stops, repeats, readOk>>
    /\ UNCHANGED <<memoryVars, diskVars, report, freed>>

DrainStart(skipped) ==
    /\ phase = "closing"
    /\ phase' = "draining"
    /\ retryPending(retryTimer, skipped)
    /\ UNCHANGED <<recoverable, handed, known, stops, repeats, readOk>>
    /\ UNCHANGED <<pendingLive, pendingRecovery, shutdownVars, freed>>

\* The attempts have settled or the time is up, so this is always possible; the
\* releaser's shutdown() follows without an await.
DrainEnd ==
    /\ phase = "draining"
    /\ phase' = "stopping"
    /\ report' = [pending |-> pendingLive \cup pendingRecovery, released |-> shutdownReleased]
    /\ shutdownReleased' = {}
    /\ retryTimer' = FALSE
    /\ UNCHANGED <<recoverable, handed, known, stops, repeats, readOk>>
    /\ UNCHANGED <<pendingLive, pendingRecovery, attempt, diskVars, owed, freed>>

\* The process exits or is killed; memory is gone, the file is not.
Stop ==
    /\ Up /\ stops < MaxStops
    /\ phase' = "down"
    /\ stops' = stops + 1
    /\ recoverable' = {} /\ handed' = {}
    /\ pendingLive' = {} /\ pendingRecovery' = {} /\ persistedIds' = {}
    /\ attempt' = [l \in Leases |-> "none"] /\ retryTimer' = FALSE
    /\ shutdownReleased' = {} /\ owed' = {} /\ report' = NoReport
    /\ UNCHANGED <<known, repeats, readOk, file, freed>>

LeaseStep(l) ==
    \/ releaseRecoverable(l) \/ releaseLive(l)
    \/ ProviderFrees(l) \/ ReleaseSucceeds(l) \/ ReleaseFails(l)
    \/ finish(l)
    \/ StartWithoutLock(l)

Next ==
    \/ \E l \in Leases : LeaseStep(l)
    \/ \E skipped \in SUBSET Leases : TimerFires(skipped) \/ DrainStart(skipped)
    \/ \E loaded \in SUBSET Leases : Start(loaded)
    \/ beginShutdown \/ DrainEnd \/ Stop

Spec == Init /\ [][Next]_vars

\* The event loop runs its microtasks and timers, a process that is shutting down
\* ends, and the next client starts a new one.  Of the environment: a provider
\* asked again and again frees the device at last, and a disk writes the record.
Fairness ==
    /\ \A l \in Leases :
          /\ WF_vars(finish(l))
          /\ WF_vars(ReleaseSucceeds(l) \/ ReleaseFails(l))
          /\ SF_vars(ProviderFrees(l))
    /\ SF_vars(TimerFires({}))
    /\ WF_vars(\E loaded \in SUBSET Leases : Start(loaded))
    /\ WF_vars(phase \in {"draining", "stopping"} /\ (DrainEnd \/ Stop))

FairSpec == Spec /\ Fairness

(***************************************************************************)
(* Properties                                                              *)
(***************************************************************************)

\* The state of the releaser has its type.
TypeOK ==
    /\ phase \in {"down", "serving", "closing", "draining", "stopping"}
    /\ recoverable \in SUBSET Leases
    /\ pendingLive \in SUBSET RuntimeLeases
    /\ pendingRecovery \in SUBSET Leases
    /\ persistedIds \in SUBSET Leases
    /\ attempt \in [Leases -> {"none", "calling", "settled"}]
    /\ retryTimer \in BOOLEAN
    /\ file \in SUBSET Leases
    /\ freed \in SUBSET Leases
    /\ shutdownReleased \in SUBSET Leases
    /\ handed \in SUBSET Leases /\ known \in SUBSET Leases
    /\ stops \in 0..MaxStops /\ repeats \in 0..MaxRepeats
    /\ readOk \in BOOLEAN
    /\ owed \in SUBSET Leases
    /\ report \in [pending: SUBSET Leases, released: SUBSET Leases]

\* The test 'does not release until the expired lease record is durable': while
\* the provider is asked to release a recoverable lease it still holds, the lease
\* is on file, whatever writes failed before and whoever handed the lease over.
DurableBeforeRelease ==
    \A l \in recoverable :
        attempt[l] = "calling" /\ l \notin freed => l \in file

\* A lease leaves the file only after the provider has freed its device, unless
\* this process could not read the file when it started.
NothingForgottenStep ==
    \A l \in Leases : l \in file /\ l \notin file' => l \in freed \/ ~readOk
NothingForgotten == [][NothingForgottenStep]_vars

\* No lost wakeup: until shutdown() a lease that can be retried has a timer
\* armed or an attempt whose end will arm one.
RetryAlive ==
    phase \in {"serving", "closing", "draining"}
    /\ Retryable(pendingLive, pendingRecovery) # {}
       => retryTimer \/ \E l \in Leases : attempt[l] # "none"

\* The test 'shutdown drain reports releases completed before and during its
\* final retry': every lease pending when shutdown began or handed over during it
\* is reported as released or pending, and none is reported released in vain.
DrainReportComplete ==
    phase = "stopping" =>
        /\ owed \subseteq report.pending \cup report.released
        /\ report.released \subseteq freed

\* A lease that can be retried is freed in the end as long as its daemon serves:
\* no order of failures, retries and new expiries strands it.
EventuallyFreed ==
    \A l \in Leases :
        l \in Retryable(pendingLive, pendingRecovery)
            ~> l \in freed \/ phase \in {"down", "stopping"}

\* A lease on file is freed in the end, by this process or a later one, unless the
\* file cannot be read or a daemon serves that is not configured to recover it.
RecoveredAfterRestart ==
    \A l \in Leases :
        l \in file ~> l \in freed \/ ~readOk \/ (phase # "down" /\ l \notin recoverable)

=============================================================================
