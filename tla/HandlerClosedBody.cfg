SPECIFICATION HandlerSpec
CONSTANTS
    a1 = a1
    a2 = a2
    c1 = c1
    c2 = c2
    NoAddress = NoAddress
    Address = {a1}
    Call = {c1}
    InitialBackends <- OneBackend
    ReloadLists <- NoReload
    AllowedSets <- AnyBackend
    AdminActions <- NoAction
    ProbeResults <- CheckerOff
    Latencies <- ZeroLatency
    Retries <- Once
    Limits <- NoLimit
    Bodies <- GoodBody
    Responses <- OkOrGateway
    Sizes <- Fits
    Endings <- AnyEnding
    BreakerFailureThreshold = 2
    BreakerCooldown = 1
    Scale = 1
    MaxErr = 2
    MaxReloads = 0
INVARIANTS
    NoBackendIs503
