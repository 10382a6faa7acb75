\* Three daemons, one of which may die at any step.
SPECIFICATION ClaimSpec
CONSTANTS
    Procs = {p1, p2, p3}
    Mortal = {p1}
    Stalling = {}
    Patient = {}
    Blind = {}
    Openers = {p1, p2}
    Pruners = {p2, p3}
    MaxClaims = 1
    None = None
PROPERTY SuccessorKept
CHECK_DEADLOCK FALSE
