SPECIFICATION Spec
CONSTANTS
    c1 = c1
    c2 = c2
    Call = {c1, c2}
    BaseRequestsPerSecond = 1
    BurstCapacity = 2
    SlidingWindowSeconds = 2
    BlockSeconds = 1
    RepeatedAbuseThreshold = 2
    EventRetentionSeconds = 3
    MaxSkew = 1
    Failing <- AnyCall
    MaxClock = 4
    MaxEvals = 5
SYMMETRY Symmetry
CHECK_DEADLOCK FALSE
INVARIANTS
    TypeOK
    WindowBounded
    TokensHold
    ModestSpared
    CounterHasEnd
