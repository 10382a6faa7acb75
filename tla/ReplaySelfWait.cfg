SPECIFICATION Spec
CONSTANTS
    r1 = r1  r2 = r2  s1 = s1  s2 = s2  d1 = d1  d2 = d2
    None = None
    Requests <- MCRequests
    Sessions <- MCSessions
    Devices <- MCDevices
    Keys <- MCKeys
    Callers <- MCCallers
    Plans <- SelfWaitPlans
INVARIANT
    NoSelfWait
