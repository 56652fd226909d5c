SPECIFICATION BusySpec
CONSTANTS
    a1 = a1
    a2 = a2
    c1 = c1
    c2 = c2
    NoAddress = NoAddress
    Address = {a1}
    Call = {c1, c2}
    InitialBackends <- OneBackend
    ReloadLists <- NoReload
    AllowedSets <- AnyBackend
    AdminActions <- NoAction
    ProbeResults <- CheckerOff
    Latencies <- ZeroLatency
    BreakerFailureThreshold = 3
    BreakerCooldown = 2
    Scale = 1
    MaxErr = 4
    MaxReloads = 0
CHECK_DEADLOCK FALSE
PROPERTIES
    SlotReleased
    BreakersRecover
