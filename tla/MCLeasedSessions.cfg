\* A request of each of two clients, for one device and two leases; the sessions of
\* the second client have an implicit scope.
SPECIFICATION FairReqSpec
CONSTANTS
    p1 = p1
    p2 = p2
    p3 = p3
    alice = alice
    bob = bob
    LeaseIds = {l1, l2}
    Tenants = {alice, bob}
    Runs = {run}
    Backends = {sim}
    Simulator = sim
    Providers = {proxy}
    DefaultProvider = proxy
    DeviceKeys = {dev}
    AnyDevice = any
    Clients = {alice, bob}
    Ttls = {1}
    MinTtl = 1
    MaxTtl = 1
    DefaultTtl = 1
    MaxActive = 0
    MaxTime = 1
    None = None
    Requests = {p1, p3}
    ClientOf <- MCClientOf
    Scoped = {bob}
    Run = run
    Backend = sim
    Provider = proxy
    Device = dev
    ProxyTtl = 1
INVARIANTS ReqTypeOK SoleOperator SessionsExclusive
PROPERTIES SessionEndsWithLease AdmittedOwner RequestsAnswered
CHECK_DEADLOCK FALSE
