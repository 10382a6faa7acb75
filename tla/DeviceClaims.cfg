\* Three daemons, one of which may die at any step and misjudge the lock's owner.
SPECIFICATION FairClaimSpec
CONSTANTS
    Procs = {p1, p2, p3}
    Mortal = {p1}
    Stalling = {}
    Patient = {p2, p3}
    Blind = {p1}
    Openers = {p1, p2}
    Pruners = {p2, p3}
    MaxClaims = 1
    None = None
INVARIANTS ClaimTypeOK ExclusiveUnlessMisfire OwnershipHolds NoClaimLeaked
PROPERTIES LockObtained
CHECK_DEADLOCK FALSE
