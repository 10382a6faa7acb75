\* A plan of two steps, two targets, closes with and without an app, and a daemon
\* that may be stopped or killed at any time.
SPECIFICATION Spec
CONSTANTS
    healed = healed
    other = other
    app = app
    plain = plain
    session1 = session1
    scoped1 = scoped1
    PlanLength = 2
    Targets = {healed, other}
    Sibling = healed
    Idents = {app, plain}
    Key = session1
    Public = session1
    Signals = TRUE
    Earlier = Earlier
    Within = Within
    CloseLine = CloseLine
    None = None
    MaxActs = 3
    MaxCalls = 4
SYMMETRY Symmetry
INVARIANTS RepairTypeOK CloseDispatchedOnce NamedTombstoneCleared
PROPERTIES PublishedWhole OverwritesGranted
CHECK_DEADLOCK FALSE
