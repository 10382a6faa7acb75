\* Two leases and three daemons one after the other.
SPECIFICATION FairSpec
CONSTANTS
    a = a
    b = b
    Leases = {a, b}
    RuntimeLeases = {b}
    Configs <- MixedConfigs
    MaxStops = 2
    MaxRepeats = 1
INVARIANTS TypeOK DurableBeforeRelease RetryAlive DrainReportComplete
PROPERTIES NothingForgotten EventuallyFreed RecoveredAfterRestart
CHECK_DEADLOCK FALSE
