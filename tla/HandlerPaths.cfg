SPECIFICATION FairHandlerSpec
CONSTANTS
    a1 = a1
    a2 = a2
    c1 = c1
    c2 = c2
    NoAddress = NoAddress
    Address = {a1, a2}
    Call = {c1}
    InitialBackends <- TwoBackends
    ReloadLists <- DropFirst
    AllowedSets <- AnyBackend
    AdminActions <- DisableEnable
    ProbeResults <- CheckerOff
    Latencies <- ZeroLatency
    Retries <- UpToTwo
    Limits <- AnyLimit
    Bodies <- AnyBody
    Responses <- AnyResponse
    Sizes <- AnySize
    Endings <- AnyEnding
    BreakerFailureThreshold = 2
    BreakerCooldown = 1
    Scale = 2
    MaxErr = 2
    MaxReloads = 1
INVARIANTS
    HandlerTypeOK
    NothingLeft
    TriesBounded
    AnswerHasSource
PROPERTIES
    EveryRequestAnswered
    PoolImplemented
