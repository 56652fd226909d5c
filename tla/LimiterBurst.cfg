SPECIFICATION Spec
CONSTANTS
    u1 = u1
    c1 = c1
    c2 = c2
    User = {u1}
    Call = {c1, c2}
    Window = 2
    Limit = 2
    Block = 3
    MaxClock = 5
SYMMETRY Symmetry
CHECK_DEADLOCK FALSE
INVARIANTS
    TypeOK
    BurstBounded
    BlockNeedsFull
    RetryAfterHolds
