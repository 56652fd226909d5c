SPECIFICATION Spec
CONSTANTS
    a1 = a1
    a2 = a2
    c1 = c1
    c2 = c2
    NoAddress = NoAddress
    Address = {a1, a2}
    Call = {c1, c2}
    InitialBackends <- TwoBackends
    ReloadLists <- DropOrKeep
    AllowedSets <- AnyBackend
    AdminActions <- DisableEnable
    ProbeResults <- CheckerOff
    Latencies <- ZeroLatency
    BreakerFailureThreshold = 1
    BreakerCooldown = 1
    Scale = 2
    MaxErr = 2
    MaxReloads = 2
SYMMETRY Symmetry
CHECK_DEADLOCK FALSE
INVARIANTS
    ProbeOwned
    ActiveCovers
    StatusAgrees
PROPERTIES
    OperatorDecides
