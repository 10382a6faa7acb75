SPECIFICATION ReqSpec
CONSTANTS
    p1 = p1
    p2 = p2
    p3 = p3
    alice = alice
    bob = bob
    LeaseIds = {l1, l2}
    Tenants = {alice, bob}
    Runs = {run}
    Backends = {sim}
    Simulator = sim
    Providers = {proxy}
    DefaultProvider = proxy
    DeviceKeys = {dev}
    AnyDevice = any
    Clients = {alice, bob}
    Ttls = {1}
    MinTtl = 1
    MaxTtl = 1
    DefaultTtl = 1
    MaxActive = 0
    MaxTime = 2
    None = None
    Requests = {p1, p2, p3}
    ClientOf <- MCClientOf
    Scoped = {}
    Run = run
    Backend = sim
    Provider = proxy
    Device = dev
    ProxyTtl = 1
SYMMETRY Symmetry
INVARIANTS DeviceSerialized
CHECK_DEADLOCK FALSE
