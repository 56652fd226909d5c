SPECIFICATION Spec
CONSTANTS
    a1 = a1
    a2 = a2
    c1 = c1
    c2 = c2
    NoAddress = NoAddress
    Address = {a1, a2}
    Call = {c1, c2}
    InitialBackends <- RepeatedBackends
    ReloadLists <- NoReload
    AllowedSets <- AnyOrSecond
    AdminActions <- DrainEnable
    ProbeResults <- AnyResult
    Latencies <- ZeroLatency
    BreakerFailureThreshold = 2
    BreakerCooldown = 1
    Scale = 2
    MaxErr = 3
    MaxReloads = 0
SYMMETRY Symmetry
CHECK_DEADLOCK FALSE
INVARIANTS
    TypeOK
    BreakerConsistent
    ProbeOwned
    GaugeExact
    RoundRobinExact
