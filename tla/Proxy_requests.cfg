SPECIFICATION Spec
CONSTANTS
    old = old
    new = new
    r1 = r1
    r2 = r2
    Requests = {r1, r2}
    Credentials = {old, new}
    Configs <- RouteConfigs
    Kinds <- RequestKinds
    CacheCap = 1
    MaxStates = 2
    MaxArrivals = 3
    StorageSet = FALSE
    None = None
SYMMETRY Slots
CHECK_DEADLOCK FALSE
INVARIANTS
    CacheSound
    RequestsAccounted
    SteadyAdmission
