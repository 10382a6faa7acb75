\* A session the client has not named: stored under its scope, the tombstone under its name.
SPECIFICATION Spec
CONSTANTS
    healed = healed
    other = other
    app = app
    plain = plain
    session1 = session1
    scoped1 = scoped1
    PlanLength = 2
    Targets = {healed, other}
    Sibling = healed
    Idents = {app, plain}
    Key = scoped1
    Public = session1
    Signals = TRUE
    Earlier = Earlier
    Within = Within
    CloseLine = CloseLine
    None = None
    MaxActs = 3
    MaxCalls = 4
SYMMETRY Symmetry
INVARIANT TombstoneCleared
CHECK_DEADLOCK FALSE
