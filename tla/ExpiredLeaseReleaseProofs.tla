---------------------- MODULE ExpiredLeaseReleaseProofs ----------------------
(***************************************************************************)
(* Proofs that the releaser of expired provider leases neither forgets a   *)
(* lease nor calls a provider before the lease is on file, for any set of  *)
(* leases, any configuration and any number of restarts.                   *)
(***************************************************************************)
EXTENDS ExpiredLeaseRelease, TLAPS

(***************************************************************************)
(* The inductive invariant.  What the process remembers of the file is     *)
(* only approximately what the file holds, because a write may fail after  *)
(* the rename; the difference is always a lease already freed.             *)
(***************************************************************************)

\* persistedIds is on file and still pending, but for leases that are freed.
PersistedTracked ==
    /\ persistedIds \subseteq file \cup freed
    /\ persistedIds \subseteq pendingRecovery \cup freed

\* A recovery call in flight is for a pending lease that counts as persisted.
CallsPersisted ==
    \A l \in recoverable :
        attempt[l] = "calling" => l \in pendingRecovery /\ l \in persistedIds

\* What is on file is pending in memory, or freed.
FileRemembered == Up /\ readOk => file \subseteq pendingRecovery \cup freed

\* A lease is pending on one of the two paths only.
PathsApart == pendingLive \cap recoverable = {}

\* A process that is down remembers nothing.
DownForgetful == phase = "down" => pendingLive = {} /\ pendingRecovery = {}

\* From the start of shutdown on, a lease that is owed a mention is pending or
\* among the recorded releases.
ShutdownTracked ==
    trackingShutdownReleases =>
        /\ owed \subseteq pendingLive \cup pendingRecovery \cup shutdownReleased
        /\ shutdownReleased \subseteq freed

IInv ==
    /\ TypeOK /\ PersistedTracked /\ CallsPersisted /\ FileRemembered
    /\ PathsApart /\ DownForgetful /\ RetryAlive /\ ShutdownTracked /\ DrainReportComplete

(***************************************************************************)
(* Facts about the operators                                               *)
(***************************************************************************)

\* Beginning attempts keeps those that are tracked and begins no others.
LEMMA BegunAttempts ==
    ASSUME TypeOK, NEW tried \in SUBSET Leases
    PROVE  /\ Begun(tried) \in [Leases -> {"none", "calling", "settled"}]
           /\ \A l \in Leases : Begun(tried)[l] = "calling" => attempt[l] = "calling" \/ l \in tried
           /\ \A l \in Leases : attempt[l] # "none" \/ l \in tried => Begun(tried)[l] # "none"
BY DEF Begun, TypeOK

\* Whether it succeeds or fails, a write keeps the record of what is pending and
\* drops only what is freed.
LEMMA PersistKeeps ==
    ASSUME NEW pending \in SUBSET Leases,
           PersistedTracked, TypeOK,
           persistedIds \subseteq pending \cup freed,
           PersistSucceeds(pending) \/ PersistFails(pending)
    PROVE  /\ file' \in SUBSET Leases /\ persistedIds' \in SUBSET Leases
           /\ persistedIds' \subseteq file' \cup freed
           /\ persistedIds' \subseteq pending \cup freed
           /\ file' \subseteq file \cup pending
           /\ \A l \in pending : l \in persistedIds => l \in persistedIds'
           /\ \A l \in pending : l \in file => l \in file'
BY DEF PersistSucceeds, PersistFails, PersistedTracked, TypeOK

\* A retry joins or begins attempts for leases on file, and leaves either an
\* attempt or a timer behind.
LEMMA RetryKeeps ==
    ASSUME IInv, NEW armed \in BOOLEAN, NEW skipped \in SUBSET Leases,
           retryPending(armed, skipped)
    PROVE  /\ file' \in SUBSET Leases /\ persistedIds' \in SUBSET Leases
           /\ persistedIds' \subseteq file' \cup freed
           /\ persistedIds' \subseteq pendingRecovery \cup freed
           /\ file' \subseteq file \cup pendingRecovery
           /\ \A l \in pendingRecovery : l \in file => l \in file'
           /\ attempt' \in [Leases -> {"none", "calling", "settled"}]
           /\ \A l \in recoverable :
                 attempt'[l] = "calling" => l \in pendingRecovery /\ l \in persistedIds'
           /\ retryTimer' \in BOOLEAN
           /\ Retryable(pendingLive, pendingRecovery) # {} =>
                 retryTimer' \/ \E l \in Leases : attempt'[l] # "none"
<1> DEFINE tried == Retryable(pendingLive, pendingRecovery) \ skipped
<1>1. TypeOK /\ PersistedTracked /\ CallsPersisted /\ PathsApart
  BY DEF IInv
<1>2. Unpersisted \subseteq pendingRecovery /\ tried \in SUBSET Leases
  BY <1>1, ConstantsAssumption DEF Unpersisted, Retryable, TypeOK
<1>3. /\ attempt' = Begun(tried)
      /\ retryTimer' = IF tried = {} THEN Scheduled(armed, pendingLive, pendingRecovery) ELSE armed
      /\ skipped \subseteq Unpersisted
  BY DEF retryPending
<1>4. \/ Unpersisted = {} /\ UNCHANGED diskVars
      \/ skipped = Unpersisted /\ PersistFails(pendingRecovery)
      \/ PersistSucceeds(pendingRecovery)
  BY DEF retryPending
<1>5. /\ file' \in SUBSET Leases /\ persistedIds' \in SUBSET Leases
      /\ persistedIds' \subseteq file' \cup freed
      /\ persistedIds' \subseteq pendingRecovery \cup freed
      /\ file' \subseteq file \cup pendingRecovery
      /\ \A l \in pendingRecovery : l \in persistedIds => l \in persistedIds'
      /\ \A l \in pendingRecovery : l \in file => l \in file'
  <2>1. CASE UNCHANGED diskVars
    BY <2>1, <1>1 DEF diskVars, TypeOK, PersistedTracked
  <2>2. CASE PersistFails(pendingRecovery) \/ PersistSucceeds(pendingRecovery)
    <3>1. pendingRecovery \in SUBSET Leases /\ persistedIds \subseteq pendingRecovery \cup freed
      BY <1>1 DEF TypeOK, PersistedTracked
    <3> QED
      BY <2>2, <3>1, <1>1, PersistKeeps
  <2> QED
    BY <2>1, <2>2, <1>4
<1>6. \A l \in recoverable : l \in tried => l \in pendingRecovery /\ l \in persistedIds'
  <2> SUFFICES ASSUME NEW l \in recoverable, l \in tried
               PROVE  l \in pendingRecovery /\ l \in persistedIds'
    OBVIOUS
  <2>1. l \in pendingRecovery /\ l \notin skipped
    BY <1>1 DEF Retryable, PathsApart
  <2>2. CASE l \in persistedIds
    BY <2>1, <2>2, <1>5
  <2>3. CASE l \notin persistedIds
    <3>1. l \in Unpersisted
      BY <2>1, <2>3 DEF Unpersisted
    <3>2. PersistSucceeds(pendingRecovery)
      BY <3>1, <2>1, <1>4
    <3> QED
      BY <3>2, <2>1 DEF PersistSucceeds
  <2> QED
    BY <2>2, <2>3
<1>7. /\ attempt' \in [Leases -> {"none", "calling", "settled"}]
      /\ \A l \in Leases : attempt'[l] = "calling" => attempt[l] = "calling" \/ l \in tried
      /\ \A l \in Leases : l \in tried => attempt'[l] # "none"
  BY <1>1, <1>2, <1>3, BegunAttempts
<1>8. \A l \in recoverable :
         attempt'[l] = "calling" => l \in pendingRecovery /\ l \in persistedIds'
  <2> SUFFICES ASSUME NEW l \in recoverable, attempt'[l] = "calling"
               PROVE  l \in pendingRecovery /\ l \in persistedIds'
    OBVIOUS
  <2>1. l \in Leases
    BY <1>1 DEF TypeOK
  <2>2. CASE l \in tried
    BY <2>2, <1>6
  <2>3. CASE attempt[l] = "calling"
    BY <2>3, <1>1, <1>5 DEF CallsPersisted
  <2> QED
    BY <2>1, <2>2, <2>3, <1>7
<1>9. /\ retryTimer' \in BOOLEAN
      /\ Retryable(pendingLive, pendingRecovery) # {} =>
            retryTimer' \/ \E l \in Leases : attempt'[l] # "none"
  <2>1. CASE tried = {}
    BY <2>1, <1>3 DEF Scheduled
  <2>2. CASE tried # {}
    BY <2>2, <1>2, <1>3, <1>7
  <2> QED
    BY <2>1, <2>2
<1> QED
  BY <1>5, <1>7, <1>8, <1>9

(***************************************************************************)
(* Every action preserves the invariant                                    *)
(***************************************************************************)

\* Handing over a recoverable lease: the attempt begins only after the write.
LEMMA ReleaseRecoverableStep ==
    ASSUME IInv, NEW l \in Leases, releaseRecoverable(l)
    PROVE  IInv'
<1>1. TypeOK /\ PersistedTracked /\ CallsPersisted /\ FileRemembered /\ PathsApart
      /\ DownForgetful /\ RetryAlive /\ ShutdownTracked /\ DrainReportComplete
  BY DEF IInv
<1>2. LET pending == pendingRecovery \cup {l} IN
         /\ l \in recoverable /\ pending \in SUBSET Leases
         /\ pendingRecovery' = pending /\ UNCHANGED <<pendingLive, phase, recoverable, readOk, freed>>
         /\ \/ PersistSucceeds(pending) /\ attempt' = Begun({l}) /\ UNCHANGED retryTimer
            \/ PersistFails(pending) /\ UNCHANGED attempt /\ retryTimer' = TRUE
  BY <1>1 DEF releaseRecoverable, MayHandOver, Scheduled, Retryable, TypeOK
<1>3. /\ file' \in SUBSET Leases /\ persistedIds' \in SUBSET Leases
      /\ persistedIds' \subseteq file' \cup freed
      /\ persistedIds' \subseteq pendingRecovery' \cup freed
      /\ file' \subseteq file \cup pendingRecovery'
      /\ \A k \in pendingRecovery : k \in persistedIds => k \in persistedIds'
  <2>1. persistedIds \subseteq (pendingRecovery \cup {l}) \cup freed
    BY <1>1 DEF PersistedTracked
  <2> QED
    BY <1>1, <1>2, <2>1, PersistKeeps
<1>4. /\ attempt' \in [Leases -> {"none", "calling", "settled"}]
      /\ \A k \in Leases : attempt'[k] = "calling" => attempt[k] = "calling" \/ (k = l /\ l \in persistedIds')
      /\ retryTimer' \in BOOLEAN
      /\ retryTimer' \/ attempt'[l] # "none"
  <2>1. CASE PersistSucceeds(pendingRecovery \cup {l}) /\ attempt' = Begun({l}) /\ UNCHANGED retryTimer
    BY <2>1, <1>1, BegunAttempts DEF PersistSucceeds, TypeOK
  <2>2. CASE UNCHANGED attempt /\ retryTimer' = TRUE
    BY <2>2, <1>1 DEF TypeOK
  <2> QED
    BY <1>2, <2>1, <2>2
<1>10. TypeOK'
  BY <1>1, <1>2, <1>3, <1>4, ConstantsAssumption
     DEF TypeOK, releaseRecoverable, MayHandOver, Scheduled, Retryable, Up, trackingShutdownReleases, PersistedTracked, PathsApart
<1>11. PersistedTracked'
  BY <1>1, <1>2, <1>3, <1>4
     DEF PersistedTracked, TypeOK, releaseRecoverable, MayHandOver, Scheduled, Retryable, Up, trackingShutdownReleases, PersistedTracked, PathsApart
<1>12. CallsPersisted'
  BY <1>1, <1>2, <1>3, <1>4
     DEF CallsPersisted, TypeOK, releaseRecoverable, MayHandOver, Scheduled, Retryable, Up, trackingShutdownReleases, PersistedTracked, PathsApart
<1>13. FileRemembered'
  BY <1>1, <1>2, <1>3, <1>4
     DEF FileRemembered, TypeOK, releaseRecoverable, MayHandOver, Scheduled, Retryable, Up, trackingShutdownReleases, PersistedTracked, PathsApart
<1>14. PathsApart'
  BY <1>1, <1>2, <1>3, <1>4
     DEF PathsApart, TypeOK, releaseRecoverable, MayHandOver, Scheduled, Retryable, Up, trackingShutdownReleases, PersistedTracked, PathsApart
<1>15. DownForgetful'
  BY <1>1, <1>2, <1>3, <1>4
     DEF DownForgetful, TypeOK, releaseRecoverable, MayHandOver, Scheduled, Retryable, Up, trackingShutdownReleases, PersistedTracked, PathsApart
<1>16. RetryAlive'
  BY <1>1, <1>2, <1>3, <1>4
     DEF RetryAlive, TypeOK, releaseRecoverable, MayHandOver, Scheduled, Retryable, Up, trackingShutdownReleases, PersistedTracked, PathsApart
<1>17. ShutdownTracked'
  BY <1>1, <1>2, <1>3, <1>4
     DEF ShutdownTracked, TypeOK, releaseRecoverable, MayHandOver, Scheduled, Retryable, Up, trackingShutdownReleases, PersistedTracked, PathsApart
<1>18. DrainReportComplete'
  BY <1>1, <1>2, <1>3, <1>4
     DEF DrainReportComplete, TypeOK, releaseRecoverable, MayHandOver, Scheduled, Retryable, Up, trackingShutdownReleases, PersistedTracked, PathsApart
<1> QED
  BY <1>10, <1>11, <1>12, <1>13, <1>14, <1>15, <1>16, <1>17, <1>18 DEF IInv

\* Handing over a lease that is kept in memory.
LEMMA ReleaseLiveStep ==
    ASSUME IInv, NEW l \in Leases, releaseLive(l)
    PROVE  IInv'
<1>1. TypeOK /\ PersistedTracked /\ CallsPersisted /\ FileRemembered /\ PathsApart
      /\ DownForgetful /\ RetryAlive /\ ShutdownTracked /\ DrainReportComplete
  BY DEF IInv
<1>2. /\ attempt' \in [Leases -> {"none", "calling", "settled"}]
      /\ \A k \in Leases : attempt'[k] = "calling" => attempt[k] = "calling" \/ k = l
      /\ attempt'[l] # "none"
  BY <1>1, BegunAttempts DEF releaseLive
<1>3. /\ handed' \in SUBSET Leases /\ known' \in SUBSET Leases
      /\ owed' \in SUBSET Leases /\ repeats' \in 0..MaxRepeats
  BY <1>1, ConstantsAssumption DEF TypeOK, releaseLive, MayHandOver
<1>4. pendingLive' \in SUBSET RuntimeLeases
  BY <1>1 DEF TypeOK, releaseLive
<1>10. TypeOK'
  BY <1>1, <1>2, <1>3, <1>4
     DEF TypeOK, releaseLive, MayHandOver, diskVars
<1>11. PersistedTracked'
  BY <1>1, <1>2
     DEF PersistedTracked, TypeOK, releaseLive, MayHandOver, Retryable, Up, trackingShutdownReleases, diskVars
<1>12. CallsPersisted'
  BY <1>1, <1>2
     DEF CallsPersisted, TypeOK, releaseLive, MayHandOver, Retryable, Up, trackingShutdownReleases, diskVars
<1>13. FileRemembered'
  BY <1>1, <1>2
     DEF FileRemembered, TypeOK, releaseLive, MayHandOver, Retryable, Up, trackingShutdownReleases, diskVars
<1>14. PathsApart'
  BY <1>1, <1>2
     DEF PathsApart, TypeOK, releaseLive, MayHandOver, Retryable, Up, trackingShutdownReleases, diskVars
<1>15. DownForgetful'
  BY <1>1, <1>2
     DEF DownForgetful, TypeOK, releaseLive, MayHandOver, Retryable, Up, trackingShutdownReleases, diskVars
<1>16. RetryAlive'
  BY <1>1, <1>2
     DEF RetryAlive, TypeOK, releaseLive, MayHandOver, Retryable, Up, trackingShutdownReleases, diskVars
<1>17. ShutdownTracked'
  BY <1>1, <1>2
     DEF ShutdownTracked, TypeOK, releaseLive, MayHandOver, Retryable, Up, trackingShutdownReleases, diskVars
<1>18. DrainReportComplete'
  BY <1>1, <1>2
     DEF DrainReportComplete, TypeOK, releaseLive, MayHandOver, Retryable, Up, trackingShutdownReleases, diskVars
<1> QED
  BY <1>10, <1>11, <1>12, <1>13, <1>14, <1>15, <1>16, <1>17, <1>18 DEF IInv

\* The provider freeing a device only adds to what is freed.
LEMMA ProviderFreesStep ==
    ASSUME IInv, NEW l \in Leases, ProviderFrees(l) \/ StartWithoutLock(l)
    PROVE  IInv'
<1>1. TypeOK /\ PersistedTracked /\ CallsPersisted /\ FileRemembered /\ PathsApart
      /\ DownForgetful /\ RetryAlive /\ ShutdownTracked /\ DrainReportComplete
  BY DEF IInv
<1>10. TypeOK'
  BY <1>1, ConstantsAssumption
     DEF TypeOK, ProviderFrees, StartWithoutLock, daemonVars, memoryVars, diskVars, shutdownVars, Retryable, Up, trackingShutdownReleases
<1>11. PersistedTracked'
  BY <1>1
     DEF PersistedTracked, TypeOK, ProviderFrees, StartWithoutLock, daemonVars, memoryVars, diskVars, shutdownVars, Retryable, Up, trackingShutdownReleases
<1>12. CallsPersisted'
  BY <1>1
     DEF CallsPersisted, TypeOK, ProviderFrees, StartWithoutLock, daemonVars, memoryVars, diskVars, shutdownVars, Retryable, Up, trackingShutdownReleases
<1>13. FileRemembered'
  BY <1>1
     DEF FileRemembered, TypeOK, ProviderFrees, StartWithoutLock, daemonVars, memoryVars, diskVars, shutdownVars, Retryable, Up, trackingShutdownReleases
<1>14. PathsApart'
  BY <1>1
     DEF PathsApart, TypeOK, ProviderFrees, StartWithoutLock, daemonVars, memoryVars, diskVars, shutdownVars, Retryable, Up, trackingShutdownReleases
<1>15. DownForgetful'
  BY <1>1
     DEF DownForgetful, TypeOK, ProviderFrees, StartWithoutLock, daemonVars, memoryVars, diskVars, shutdownVars, Retryable, Up, trackingShutdownReleases
<1>16. RetryAlive'
  BY <1>1
     DEF RetryAlive, TypeOK, ProviderFrees, StartWithoutLock, daemonVars, memoryVars, diskVars, shutdownVars, Retryable, Up, trackingShutdownReleases
<1>17. ShutdownTracked'
  BY <1>1
     DEF ShutdownTracked, TypeOK, ProviderFrees, StartWithoutLock, daemonVars, memoryVars, diskVars, shutdownVars, Retryable, Up, trackingShutdownReleases
<1>18. DrainReportComplete'
  BY <1>1
     DEF DrainReportComplete, TypeOK, ProviderFrees, StartWithoutLock, daemonVars, memoryVars, diskVars, shutdownVars, Retryable, Up, trackingShutdownReleases
<1> QED
  BY <1>10, <1>11, <1>12, <1>13, <1>14, <1>15, <1>16, <1>17, <1>18 DEF IInv

\* A lease whose release succeeded is freed, so it may leave the record.
LEMMA ReleaseSucceedsStep ==
    ASSUME IInv, NEW l \in Leases, ReleaseSucceeds(l)
    PROVE  IInv'
<1>1. TypeOK /\ PersistedTracked /\ CallsPersisted /\ FileRemembered /\ PathsApart
      /\ DownForgetful /\ RetryAlive /\ ShutdownTracked /\ DrainReportComplete
  BY DEF IInv
<1>2. /\ file' \in SUBSET Leases /\ persistedIds' \in SUBSET Leases
      /\ persistedIds' \subseteq file' \cup freed
      /\ persistedIds' \subseteq pendingRecovery' \cup freed
      /\ file' \subseteq file \cup pendingRecovery'
      /\ \A k \in pendingRecovery' : k \in persistedIds => k \in persistedIds'
  <2>1. CASE l \in recoverable
    <3>1. /\ pendingRecovery \ {l} \in SUBSET Leases
          /\ persistedIds \subseteq (pendingRecovery \ {l}) \cup freed
      BY <1>1 DEF TypeOK, PersistedTracked, ReleaseSucceeds
    <3>2. /\ pendingRecovery' = pendingRecovery \ {l}
          /\ PersistSucceeds(pendingRecovery \ {l}) \/ PersistFails(pendingRecovery \ {l})
      BY <2>1 DEF ReleaseSucceeds
    <3> QED
      BY <1>1, <3>1, <3>2, PersistKeeps
  <2>2. CASE l \notin recoverable
    BY <2>2, <1>1 DEF ReleaseSucceeds, diskVars, TypeOK, PersistedTracked
  <2> QED
    BY <2>1, <2>2
<1>3. /\ pendingLive' \cup pendingRecovery' \cup {l} = pendingLive \cup pendingRecovery \cup {l}
      /\ pendingLive' \subseteq pendingLive /\ pendingRecovery' \subseteq pendingRecovery
      /\ \A k \in pendingRecovery : k = l \/ k \in pendingRecovery'
  BY <1>1 DEF ReleaseSucceeds
<1>10. TypeOK'
  BY <1>1, <1>2, <1>3, ConstantsAssumption
     DEF TypeOK, ReleaseSucceeds, Settled, daemonVars, diskVars, Retryable, Up, trackingShutdownReleases
<1>11. PersistedTracked'
  BY <1>1, <1>2, <1>3
     DEF PersistedTracked, TypeOK, ReleaseSucceeds, Settled, daemonVars, diskVars, Retryable, Up, trackingShutdownReleases
<1>12. CallsPersisted'
  BY <1>1, <1>2, <1>3
     DEF CallsPersisted, TypeOK, ReleaseSucceeds, Settled, daemonVars, diskVars, Retryable, Up, trackingShutdownReleases
<1>13. FileRemembered'
  BY <1>1, <1>2, <1>3
     DEF FileRemembered, TypeOK, ReleaseSucceeds, Settled, daemonVars, diskVars, Retryable, Up, trackingShutdownReleases
<1>14. PathsApart'
  BY <1>1, <1>2, <1>3
     DEF PathsApart, TypeOK, ReleaseSucceeds, Settled, daemonVars, diskVars, Retryable, Up, trackingShutdownReleases
<1>15. DownForgetful'
  BY <1>1, <1>2, <1>3
     DEF DownForgetful, TypeOK, ReleaseSucceeds, Settled, daemonVars, diskVars, Retryable, Up, trackingShutdownReleases
<1>16. RetryAlive'
  BY <1>1, <1>2, <1>3
     DEF RetryAlive, TypeOK, ReleaseSucceeds, Settled, daemonVars, diskVars, Retryable, Up, trackingShutdownReleases
<1>17. ShutdownTracked'
  BY <1>1, <1>2, <1>3
     DEF ShutdownTracked, TypeOK, ReleaseSucceeds, Settled, daemonVars, diskVars, Retryable, Up, trackingShutdownReleases
<1>18. DrainReportComplete'
  BY <1>1, <1>2, <1>3
     DEF DrainReportComplete, TypeOK, ReleaseSucceeds, Settled, daemonVars, diskVars, Retryable, Up, trackingShutdownReleases
<1> QED
  BY <1>10, <1>11, <1>12, <1>13, <1>14, <1>15, <1>16, <1>17, <1>18 DEF IInv

\* A failed release leaves its lease pending.
LEMMA ReleaseFailsStep ==
    ASSUME IInv, NEW l \in Leases, ReleaseFails(l)
    PROVE  IInv'
<1>1. TypeOK /\ PersistedTracked /\ CallsPersisted /\ FileRemembered /\ PathsApart
      /\ DownForgetful /\ RetryAlive /\ ShutdownTracked /\ DrainReportComplete
  BY DEF IInv
<1>10. TypeOK'
  BY <1>1, ConstantsAssumption
     DEF TypeOK, ReleaseFails, daemonVars, memoryVars, diskVars, shutdownVars, Retryable, Up, trackingShutdownReleases
<1>11. PersistedTracked'
  BY <1>1
     DEF PersistedTracked, TypeOK, ReleaseFails, daemonVars, memoryVars, diskVars, shutdownVars, Retryable, Up, trackingShutdownReleases
<1>12. CallsPersisted'
  BY <1>1
     DEF CallsPersisted, TypeOK, ReleaseFails, daemonVars, memoryVars, diskVars, shutdownVars, Retryable, Up, trackingShutdownReleases
<1>13. FileRemembered'
  BY <1>1
     DEF FileRemembered, TypeOK, ReleaseFails, daemonVars, memoryVars, diskVars, shutdownVars, Retryable, Up, trackingShutdownReleases
<1>14. PathsApart'
  BY <1>1
     DEF PathsApart, TypeOK, ReleaseFails, daemonVars, memoryVars, diskVars, shutdownVars, Retryable, Up, trackingShutdownReleases
<1>15. DownForgetful'
  BY <1>1
     DEF DownForgetful, TypeOK, ReleaseFails, daemonVars, memoryVars, diskVars, shutdownVars, Retryable, Up, trackingShutdownReleases
<1>16. RetryAlive'
  BY <1>1
     DEF RetryAlive, TypeOK, ReleaseFails, daemonVars, memoryVars, diskVars, shutdownVars, Retryable, Up, trackingShutdownReleases
<1>17. ShutdownTracked'
  BY <1>1
     DEF ShutdownTracked, TypeOK, ReleaseFails, daemonVars, memoryVars, diskVars, shutdownVars, Retryable, Up, trackingShutdownReleases
<1>18. DrainReportComplete'
  BY <1>1
     DEF DrainReportComplete, TypeOK, ReleaseFails, daemonVars, memoryVars, diskVars, shutdownVars, Retryable, Up, trackingShutdownReleases
<1> QED
  BY <1>10, <1>11, <1>12, <1>13, <1>14, <1>15, <1>16, <1>17, <1>18 DEF IInv

\* An attempt that ends arms the timer while anything can be retried.
LEMMA FinishStep ==
    ASSUME IInv, NEW l \in Leases, finish(l)
    PROVE  IInv'
<1>1. TypeOK /\ PersistedTracked /\ CallsPersisted /\ FileRemembered /\ PathsApart
      /\ DownForgetful /\ RetryAlive /\ ShutdownTracked /\ DrainReportComplete
  BY DEF IInv
<1>10. TypeOK'
  BY <1>1, ConstantsAssumption
     DEF TypeOK, finish, Scheduled, daemonVars, memoryVars, diskVars, shutdownVars, Retryable, Up, trackingShutdownReleases
<1>11. PersistedTracked'
  BY <1>1
     DEF PersistedTracked, TypeOK, finish, Scheduled, daemonVars, memoryVars, diskVars, shutdownVars, Retryable, Up, trackingShutdownReleases
<1>12. CallsPersisted'
  BY <1>1
     DEF CallsPersisted, TypeOK, finish, Scheduled, daemonVars, memoryVars, diskVars, shutdownVars, Retryable, Up, trackingShutdownReleases
<1>13. FileRemembered'
  BY <1>1
     DEF FileRemembered, TypeOK, finish, Scheduled, daemonVars, memoryVars, diskVars, shutdownVars, Retryable, Up, trackingShutdownReleases
<1>14. PathsApart'
  BY <1>1
     DEF PathsApart, TypeOK, finish, Scheduled, daemonVars, memoryVars, diskVars, shutdownVars, Retryable, Up, trackingShutdownReleases
<1>15. DownForgetful'
  BY <1>1
     DEF DownForgetful, TypeOK, finish, Scheduled, daemonVars, memoryVars, diskVars, shutdownVars, Retryable, Up, trackingShutdownReleases
<1>16. RetryAlive'
  BY <1>1
     DEF RetryAlive, TypeOK, finish, Scheduled, daemonVars, memoryVars, diskVars, shutdownVars, Retryable, Up, trackingShutdownReleases
<1>17. ShutdownTracked'
  BY <1>1
     DEF ShutdownTracked, TypeOK, finish, Scheduled, daemonVars, memoryVars, diskVars, shutdownVars, Retryable, Up, trackingShutdownReleases
<1>18. DrainReportComplete'
  BY <1>1
     DEF DrainReportComplete, TypeOK, finish, Scheduled, daemonVars, memoryVars, diskVars, shutdownVars, Retryable, Up, trackingShutdownReleases
<1> QED
  BY <1>10, <1>11, <1>12, <1>13, <1>14, <1>15, <1>16, <1>17, <1>18 DEF IInv

\* A retry from the timer.
LEMMA TimerFiresStep ==
    ASSUME IInv, NEW skipped \in SUBSET Leases, TimerFires(skipped)
    PROVE  IInv'
<1>1. TypeOK /\ PersistedTracked /\ CallsPersisted /\ FileRemembered /\ PathsApart
      /\ DownForgetful /\ RetryAlive /\ ShutdownTracked /\ DrainReportComplete
  BY DEF IInv
<1>2. retryPending(FALSE, skipped)
  BY DEF TimerFires
<1>3. /\ file' \in SUBSET Leases /\ persistedIds' \in SUBSET Leases
      /\ persistedIds' \subseteq file' \cup freed
      /\ persistedIds' \subseteq pendingRecovery \cup freed
      /\ file' \subseteq file \cup pendingRecovery
      /\ attempt' \in [Leases -> {"none", "calling", "settled"}]
      /\ \A l \in recoverable :
            attempt'[l] = "calling" => l \in pendingRecovery /\ l \in persistedIds'
      /\ retryTimer' \in BOOLEAN
      /\ Retryable(pendingLive, pendingRecovery) # {} =>
            retryTimer' \/ \E l \in Leases : attempt'[l] # "none"
  BY <1>2, RetryKeeps
<1>10. TypeOK'
  BY <1>1, <1>2, <1>3, ConstantsAssumption
     DEF TypeOK, TimerFires, daemonVars, shutdownVars, Retryable, Up, trackingShutdownReleases
<1>11. PersistedTracked'
  BY <1>1, <1>2, <1>3
     DEF PersistedTracked, TypeOK, TimerFires, daemonVars, shutdownVars, Retryable, Up, trackingShutdownReleases
<1>12. CallsPersisted'
  BY <1>1, <1>2, <1>3
     DEF CallsPersisted, TypeOK, TimerFires, daemonVars, shutdownVars, Retryable, Up, trackingShutdownReleases
<1>13. FileRemembered'
  BY <1>1, <1>2, <1>3
     DEF FileRemembered, TypeOK, TimerFires, daemonVars, shutdownVars, Retryable, Up, trackingShutdownReleases
<1>14. PathsApart'
  BY <1>1, <1>2, <1>3
     DEF PathsApart, TypeOK, TimerFires, daemonVars, shutdownVars, Retryable, Up, trackingShutdownReleases
<1>15. DownForgetful'
  BY <1>1, <1>2, <1>3
     DEF DownForgetful, TypeOK, TimerFires, daemonVars, shutdownVars, Retryable, Up, trackingShutdownReleases
<1>16. RetryAlive'
  BY <1>1, <1>2, <1>3
     DEF RetryAlive, TypeOK, TimerFires, daemonVars, shutdownVars, Retryable, Up, trackingShutdownReleases
<1>17. ShutdownTracked'
  BY <1>1, <1>2, <1>3
     DEF ShutdownTracked, TypeOK, TimerFires, daemonVars, shutdownVars, Retryable, Up, trackingShutdownReleases
<1>18. DrainReportComplete'
  BY <1>1, <1>2, <1>3
     DEF DrainReportComplete, TypeOK, TimerFires, daemonVars, shutdownVars, Retryable, Up, trackingShutdownReleases
<1> QED
  BY <1>10, <1>11, <1>12, <1>13, <1>14, <1>15, <1>16, <1>17, <1>18 DEF IInv

\* The final retry of a shutdown.
LEMMA DrainStartStep ==
    ASSUME IInv, NEW skipped \in SUBSET Leases, DrainStart(skipped)
    PROVE  IInv'
<1>1. TypeOK /\ PersistedTracked /\ CallsPersisted /\ FileRemembered /\ PathsApart
      /\ DownForgetful /\ RetryAlive /\ ShutdownTracked /\ DrainReportComplete
  BY DEF IInv
<1>2. retryPending(retryTimer, skipped) /\ retryTimer \in BOOLEAN
  BY <1>1 DEF DrainStart, TypeOK
<1>3. /\ file' \in SUBSET Leases /\ persistedIds' \in SUBSET Leases
      /\ persistedIds' \subseteq file' \cup freed
      /\ persistedIds' \subseteq pendingRecovery \cup freed
      /\ file' \subseteq file \cup pendingRecovery
      /\ attempt' \in [Leases -> {"none", "calling", "settled"}]
      /\ \A l \in recoverable :
            attempt'[l] = "calling" => l \in pendingRecovery /\ l \in persistedIds'
      /\ retryTimer' \in BOOLEAN
      /\ Retryable(pendingLive, pendingRecovery) # {} =>
            retryTimer' \/ \E l \in Leases : attempt'[l] # "none"
  BY <1>2, RetryKeeps
<1>10. TypeOK'
  BY <1>1, <1>3, ConstantsAssumption
     DEF TypeOK, DrainStart, shutdownVars, Retryable, Up, trackingShutdownReleases
<1>11. PersistedTracked'
  BY <1>1, <1>3
     DEF PersistedTracked, TypeOK, DrainStart, shutdownVars, Retryable, Up, trackingShutdownReleases
<1>12. CallsPersisted'
  BY <1>1, <1>3
     DEF CallsPersisted, TypeOK, DrainStart, shutdownVars, Retryable, Up, trackingShutdownReleases
<1>13. FileRemembered'
  BY <1>1, <1>3
     DEF FileRemembered, TypeOK, DrainStart, shutdownVars, Retryable, Up, trackingShutdownReleases
<1>14. PathsApart'
  BY <1>1, <1>3
     DEF PathsApart, TypeOK, DrainStart, shutdownVars, Retryable, Up, trackingShutdownReleases
<1>15. DownForgetful'
  BY <1>1, <1>3
     DEF DownForgetful, TypeOK, DrainStart, shutdownVars, Retryable, Up, trackingShutdownReleases
<1>16. RetryAlive'
  BY <1>1, <1>3
     DEF RetryAlive, TypeOK, DrainStart, shutdownVars, Retryable, Up, trackingShutdownReleases
<1>17. ShutdownTracked'
  BY <1>1, <1>3
     DEF ShutdownTracked, TypeOK, DrainStart, shutdownVars, Retryable, Up, trackingShutdownReleases
<1>18. DrainReportComplete'
  BY <1>1, <1>3
     DEF DrainReportComplete, TypeOK, DrainStart, shutdownVars, Retryable, Up, trackingShutdownReleases
<1> QED
  BY <1>10, <1>11, <1>12, <1>13, <1>14, <1>15, <1>16, <1>17, <1>18 DEF IInv

\* A new process remembers what it loads, or knows that it could not.
LEMMA StartStep ==
    ASSUME IInv, NEW loaded \in SUBSET Leases, Start(loaded)
    PROVE  IInv'
<1>1. TypeOK /\ PersistedTracked /\ CallsPersisted /\ FileRemembered /\ PathsApart
      /\ DownForgetful /\ RetryAlive /\ ShutdownTracked /\ DrainReportComplete
  BY DEF IInv
<1>2. /\ recoverable' \in SUBSET Leases
      /\ pendingRecovery' = loaded /\ persistedIds' = loaded
      /\ loaded \subseteq file /\ (readOk' => loaded = file) /\ readOk' \in BOOLEAN
      /\ phase' = "serving" /\ UNCHANGED <<pendingLive, file, freed>>
  BY ConstantsAssumption DEF Start
<1>3. /\ attempt' \in [Leases -> {"none", "calling", "settled"}]
      /\ \A l \in Leases : attempt'[l] = "calling" => l \in loaded
      /\ \A l \in Leases : l \in loaded \cap recoverable' => attempt'[l] # "none"
  BY DEF Start
<1>4. pendingLive = {}
  BY <1>1 DEF Start, DownForgetful
<1>10. TypeOK'
  BY <1>1, <1>2, <1>3, <1>4, ConstantsAssumption
     DEF TypeOK, Start, shutdownVars, Retryable, Up, trackingShutdownReleases
<1>11. PersistedTracked'
  BY <1>1, <1>2, <1>3, <1>4
     DEF PersistedTracked, TypeOK, Start, shutdownVars, Retryable, Up, trackingShutdownReleases
<1>12. CallsPersisted'
  BY <1>1, <1>2, <1>3, <1>4
     DEF CallsPersisted, TypeOK, Start, shutdownVars, Retryable, Up, trackingShutdownReleases
<1>13. FileRemembered'
  BY <1>1, <1>2, <1>3, <1>4
     DEF FileRemembered, TypeOK, Start, shutdownVars, Retryable, Up, trackingShutdownReleases
<1>14. PathsApart'
  BY <1>1, <1>2, <1>3, <1>4
     DEF PathsApart, TypeOK, Start, shutdownVars, Retryable, Up, trackingShutdownReleases
<1>15. DownForgetful'
  BY <1>1, <1>2, <1>3, <1>4
     DEF DownForgetful, TypeOK, Start, shutdownVars, Retryable, Up, trackingShutdownReleases
<1>16. RetryAlive'
  BY <1>1, <1>2, <1>3, <1>4
     DEF RetryAlive, TypeOK, Start, shutdownVars, Retryable, Up, trackingShutdownReleases
<1>17. ShutdownTracked'
  BY <1>1, <1>2, <1>3, <1>4
     DEF ShutdownTracked, TypeOK, Start, shutdownVars, Retryable, Up, trackingShutdownReleases
<1>18. DrainReportComplete'
  BY <1>1, <1>2, <1>3, <1>4
     DEF DrainReportComplete, TypeOK, Start, shutdownVars, Retryable, Up, trackingShutdownReleases
<1> QED
  BY <1>10, <1>11, <1>12, <1>13, <1>14, <1>15, <1>16, <1>17, <1>18 DEF IInv

\* The beginning of a shutdown.
LEMMA BeginShutdownStep ==
    ASSUME IInv, beginShutdown
    PROVE  IInv'
<1>1. TypeOK /\ PersistedTracked /\ CallsPersisted /\ FileRemembered /\ PathsApart
      /\ DownForgetful /\ RetryAlive /\ ShutdownTracked /\ DrainReportComplete
  BY DEF IInv
<1>10. TypeOK'
  BY <1>1, ConstantsAssumption
     DEF TypeOK, beginShutdown, memoryVars, diskVars, Retryable, Up, trackingShutdownReleases
<1>11. PersistedTracked'
  BY <1>1
     DEF PersistedTracked, TypeOK, beginShutdown, memoryVars, diskVars, Retryable, Up, trackingShutdownReleases
<1>12. CallsPersisted'
  BY <1>1
     DEF CallsPersisted, TypeOK, beginShutdown, memoryVars, diskVars, Retryable, Up, trackingShutdownReleases
<1>13. FileRemembered'
  BY <1>1
     DEF FileRemembered, TypeOK, beginShutdown, memoryVars, diskVars, Retryable, Up, trackingShutdownReleases
<1>14. PathsApart'
  BY <1>1
     DEF PathsApart, TypeOK, beginShutdown, memoryVars, diskVars, Retryable, Up, trackingShutdownReleases
<1>15. DownForgetful'
  BY <1>1
     DEF DownForgetful, TypeOK, beginShutdown, memoryVars, diskVars, Retryable, Up, trackingShutdownReleases
<1>16. RetryAlive'
  BY <1>1
     DEF RetryAlive, TypeOK, beginShutdown, memoryVars, diskVars, Retryable, Up, trackingShutdownReleases
<1>17. ShutdownTracked'
  BY <1>1
     DEF ShutdownTracked, TypeOK, beginShutdown, memoryVars, diskVars, Retryable, Up, trackingShutdownReleases
<1>18. DrainReportComplete'
  BY <1>1
     DEF DrainReportComplete, TypeOK, beginShutdown, memoryVars, diskVars, Retryable, Up, trackingShutdownReleases
<1> QED
  BY <1>10, <1>11, <1>12, <1>13, <1>14, <1>15, <1>16, <1>17, <1>18 DEF IInv


\* The report names what is pending and what was released.
LEMMA DrainEndStep ==
    ASSUME IInv, DrainEnd
    PROVE  IInv'
<1>1. TypeOK /\ PersistedTracked /\ CallsPersisted /\ FileRemembered /\ PathsApart
      /\ DownForgetful /\ RetryAlive /\ ShutdownTracked /\ DrainReportComplete
  BY DEF IInv
<1>2. /\ report'.pending = pendingLive \cup pendingRecovery
      /\ report'.released = shutdownReleased
      /\ report' \in [pending: SUBSET Leases, released: SUBSET Leases]
  BY <1>1, ConstantsAssumption DEF DrainEnd, TypeOK
<1>10. TypeOK'
  BY <1>1, <1>2, ConstantsAssumption
     DEF TypeOK, DrainEnd, diskVars, Retryable, Up, trackingShutdownReleases
<1>11. PersistedTracked'
  BY <1>1
     DEF PersistedTracked, TypeOK, DrainEnd, diskVars, Retryable, Up, trackingShutdownReleases
<1>12. CallsPersisted'
  BY <1>1
     DEF CallsPersisted, TypeOK, DrainEnd, diskVars, Retryable, Up, trackingShutdownReleases
<1>13. FileRemembered'
  BY <1>1
     DEF FileRemembered, TypeOK, DrainEnd, diskVars, Retryable, Up, trackingShutdownReleases
<1>14. PathsApart'
  BY <1>1
     DEF PathsApart, TypeOK, DrainEnd, diskVars, Retryable, Up, trackingShutdownReleases
<1>15. DownForgetful'
  BY <1>1
     DEF DownForgetful, TypeOK, DrainEnd, diskVars, Retryable, Up, trackingShutdownReleases
<1>16. RetryAlive'
  BY <1>1
     DEF RetryAlive, TypeOK, DrainEnd, diskVars, Retryable, Up, trackingShutdownReleases
<1>17. ShutdownTracked'
  BY <1>1
     DEF ShutdownTracked, TypeOK, DrainEnd, diskVars, Retryable, Up, trackingShutdownReleases
<1>18. DrainReportComplete'
  BY <1>1, <1>2
     DEF DrainReportComplete, ShutdownTracked, DrainEnd, diskVars, Retryable, Up, trackingShutdownReleases
<1> QED
  BY <1>10, <1>11, <1>12, <1>13, <1>14, <1>15, <1>16, <1>17, <1>18 DEF IInv

\* A process that ends forgets everything but the file.
LEMMA StopStep ==
    ASSUME IInv, Stop
    PROVE  IInv'
<1>1. TypeOK /\ PersistedTracked /\ CallsPersisted /\ FileRemembered /\ PathsApart
      /\ DownForgetful /\ RetryAlive /\ ShutdownTracked /\ DrainReportComplete
  BY DEF IInv
<1>2. attempt' \in [Leases -> {"none", "calling", "settled"}]
  BY DEF Stop
<1>3. stops' \in 0..MaxStops
  BY <1>1, ConstantsAssumption DEF Stop, TypeOK
<1>4. report' \in [pending: SUBSET Leases, released: SUBSET Leases]
  BY DEF Stop, NoReport
<1>10. TypeOK'
  BY <1>1, <1>2, <1>3, <1>4
     DEF TypeOK, Stop, NoReport, Retryable, Up, trackingShutdownReleases
<1>11. PersistedTracked'
  BY <1>1
     DEF PersistedTracked, TypeOK, Stop, NoReport, Retryable, Up, trackingShutdownReleases
<1>12. CallsPersisted'
  BY <1>1
     DEF CallsPersisted, TypeOK, Stop, NoReport, Retryable, Up, trackingShutdownReleases
<1>13. FileRemembered'
  BY <1>1
     DEF FileRemembered, TypeOK, Stop, NoReport, Retryable, Up, trackingShutdownReleases
<1>14. PathsApart'
  BY <1>1
     DEF PathsApart, TypeOK, Stop, NoReport, Retryable, Up, trackingShutdownReleases
<1>15. DownForgetful'
  BY <1>1
     DEF DownForgetful, TypeOK, Stop, NoReport, Retryable, Up, trackingShutdownReleases
<1>16. RetryAlive'
  BY <1>1
     DEF RetryAlive, TypeOK, Stop, NoReport, Retryable, Up, trackingShutdownReleases
<1>17. ShutdownTracked'
  BY <1>1
     DEF ShutdownTracked, TypeOK, Stop, NoReport, Retryable, Up, trackingShutdownReleases
<1>18. DrainReportComplete'
  BY <1>1
     DEF DrainReportComplete, TypeOK, Stop, NoReport, Retryable, Up, trackingShutdownReleases
<1> QED
  BY <1>10, <1>11, <1>12, <1>13, <1>14, <1>15, <1>16, <1>17, <1>18 DEF IInv

(***************************************************************************)
(* The theorems                                                            *)
(***************************************************************************)

\* The invariant holds at first and every step preserves it.
THEOREM Invariance == Spec => []IInv
<1>1. Init => IInv
  <2> SUFFICES ASSUME Init PROVE IInv
    OBVIOUS
  <2>1. /\ attempt \in [Leases -> {"none", "calling", "settled"}]
        /\ \A l \in Leases : attempt[l] = "none"
    BY DEF Init
  <2>2. report \in [pending: SUBSET Leases, released: SUBSET Leases]
    BY DEF Init, NoReport
  <2>3. stops \in 0..MaxStops /\ repeats \in 0..MaxRepeats
    BY ConstantsAssumption DEF Init
  <2>4. TypeOK
    BY <2>1, <2>2, <2>3 DEF Init, TypeOK
  <2>5. PersistedTracked /\ CallsPersisted /\ FileRemembered /\ PathsApart /\ DownForgetful
    BY DEF Init, PersistedTracked, CallsPersisted, FileRemembered, PathsApart, DownForgetful, Up
  <2>6. RetryAlive /\ ShutdownTracked /\ DrainReportComplete
    BY DEF Init, RetryAlive, ShutdownTracked, DrainReportComplete, trackingShutdownReleases
  <2> QED
    BY <2>4, <2>5, <2>6 DEF IInv
<1>2. ASSUME IInv, Next PROVE IInv'
  <2>1. ASSUME NEW l \in Leases, LeaseStep(l) PROVE IInv'
    BY <1>2, <2>1, ReleaseRecoverableStep, ReleaseLiveStep, ProviderFreesStep,
       ReleaseSucceedsStep, ReleaseFailsStep, FinishStep DEF LeaseStep
  <2>2. ASSUME NEW skipped \in SUBSET Leases, TimerFires(skipped) \/ DrainStart(skipped)
        PROVE IInv'
    BY <1>2, <2>2, TimerFiresStep, DrainStartStep
  <2>3. ASSUME NEW loaded \in SUBSET Leases, Start(loaded) PROVE IInv'
    BY <1>2, <2>3, StartStep
  <2> QED
    BY <1>2, <2>1, <2>2, <2>3, BeginShutdownStep, DrainEndStep, StopStep DEF Next
<1>3. IInv /\ UNCHANGED vars => IInv'
  BY DEF vars, daemonVars, memoryVars, diskVars, shutdownVars, IInv, TypeOK, PersistedTracked,
         CallsPersisted, FileRemembered, PathsApart, DownForgetful, RetryAlive, ShutdownTracked,
         DrainReportComplete, Up, trackingShutdownReleases, Retryable
<1> QED
  BY <1>1, <1>2, <1>3, PTL DEF Spec

\* The releaser's state has its type.
THEOREM TypeCorrect == Spec => []TypeOK
<1>1. IInv => TypeOK
  BY DEF IInv
<1> QED
  BY <1>1, Invariance, PTL

\* While the provider is asked to free a recoverable lease, the lease is on file.
THEOREM ReleasesAreDurable == Spec => []DurableBeforeRelease
<1>1. IInv => DurableBeforeRelease
  BY DEF IInv, CallsPersisted, PersistedTracked, DurableBeforeRelease
<1> QED
  BY <1>1, Invariance, PTL

\* A lease that can be retried will be: no wakeup is lost before shutdown().
THEOREM NoLostWakeup == Spec => []RetryAlive
<1>1. IInv => RetryAlive
  BY DEF IInv
<1> QED
  BY <1>1, Invariance, PTL

\* The shutdown report misses no lease and claims no release that failed.
THEOREM DrainReportIsComplete == Spec => []DrainReportComplete
<1>1. IInv => DrainReportComplete
  BY DEF IInv
<1> QED
  BY <1>1, Invariance, PTL

\* A step that rewrites the file writes what is then pending.
LEMMA FileIsPending ==
    ASSUME Next, file' # file
    PROVE  file' = pendingRecovery' /\ phase # "down" /\ UNCHANGED readOk
<1>1. ASSUME NEW l \in Leases, LeaseStep(l)
      PROVE  file' = pendingRecovery' /\ phase # "down" /\ UNCHANGED readOk
  <2>1. CASE releaseRecoverable(l)
    BY <2>1 DEF releaseRecoverable, MayHandOver, Up, PersistSucceeds, PersistFails
  <2>2. CASE releaseLive(l)
    BY <2>2 DEF releaseLive, diskVars
  <2>3. CASE ReleaseSucceeds(l)
    BY <2>3 DEF ReleaseSucceeds, daemonVars, diskVars, Up, PersistSucceeds, PersistFails
  <2>4. CASE ProviderFrees(l) \/ ReleaseFails(l) \/ finish(l) \/ StartWithoutLock(l)
    BY <2>4 DEF ProviderFrees, ReleaseFails, finish, StartWithoutLock, diskVars
  <2> QED
    BY <1>1, <2>1, <2>2, <2>3, <2>4 DEF LeaseStep
<1>2. ASSUME NEW skipped \in SUBSET Leases, TimerFires(skipped) \/ DrainStart(skipped)
      PROVE  file' = pendingRecovery' /\ phase # "down" /\ UNCHANGED readOk
  BY <1>2
     DEF TimerFires, DrainStart, retryPending, daemonVars, diskVars, Up,
         PersistSucceeds, PersistFails
<1> QED
  BY <1>1, <1>2
     DEF Next, Start, beginShutdown, DrainEnd, Stop, diskVars

\* A lease stays on file until its device is freed, unless the process could not
\* read the file it overwrites.
THEOREM NothingIsForgotten == Spec => NothingForgotten
<1>1. IInv /\ IInv' /\ [Next]_vars => NothingForgottenStep
  <2> SUFFICES ASSUME IInv, IInv', [Next]_vars, NEW l \in Leases,
                      l \in file, l \notin file', readOk
               PROVE  l \in freed
    BY DEF NothingForgottenStep
  <2>1. Next /\ file' # file
    BY DEF vars, diskVars
  <2>2. file' = pendingRecovery' /\ phase # "down" /\ UNCHANGED readOk
    BY <2>1, FileIsPending
  <2>3. l \in pendingRecovery \/ l \in freed
    BY <2>2 DEF IInv, FileRemembered, Up
  <2>4. l \notin pendingRecovery'
    BY <2>2
  <2>5. l \in pendingRecovery /\ l \notin pendingRecovery' /\ file' # file => l \in freed
    BY <2>1, <2>2
       DEF Next, LeaseStep, releaseRecoverable, releaseLive, ProviderFrees, ReleaseSucceeds,
           ReleaseFails, finish, StartWithoutLock, TimerFires, DrainStart, Start, beginShutdown,
           DrainEnd, Stop, memoryVars
  <2> QED
    BY <2>1, <2>3, <2>4, <2>5
<1> QED
  BY <1>1, Invariance, PTL DEF Spec, NothingForgotten

=============================================================================
