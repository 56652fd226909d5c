SPECIFICATION Spec
CONSTANTS
    a1 = a1
    a2 = a2
    c1 = c1
    c2 = c2
    NoAddress = NoAddress
    Address = {a1}
    Call = {c1, c2}
    InitialBackends <- OneBackend
    ReloadLists <- KeepOne
    AllowedSets <- AnyBackend
    AdminActions <- NoAction
    ProbeResults <- CheckerOff
    Latencies <- ZeroLatency
    BreakerFailureThreshold = 2
    BreakerCooldown = 1
    Scale = 2
    MaxErr = 2
    MaxReloads = 1
SYMMETRY Symmetry
CHECK_DEADLOCK FALSE
INVARIANTS
    GaugeExact
