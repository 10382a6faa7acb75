SPECIFICATION Spec
CONSTANTS
    LeaseIds = {l1, l2, l3}
    Tenants = {t1, t2}
    Runs = {r1}
    Backends = {sim}
    Simulator = sim
    Providers = {dflt}
    DefaultProvider = dflt
    DeviceKeys = {d1}
    AnyDevice = any
    Clients = {c1}
    Ttls = {3}
    MinTtl = 1
    MaxTtl = 2
    DefaultTtl = 1
    MaxActive = 2
    MaxTime = 3
    None = None
SYMMETRY Symmetry
INVARIANTS TypeOK BindingsExact DeviceExclusive
PROPERTIES NoRevival ExpiryReported ImplementsOwnership
