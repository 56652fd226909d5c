SPECIFICATION FairSpec
CONSTANTS
    c1 = c1
    c2 = c2
    b1 = b1
    b2 = b2
    junk = junk
    Conn = {c1, c2}
    Inputs <- AllInputs
    Requests <- AskedRequests
    Scale = 12
    DefaultBackends <- OneBackend
    HostPorts <- Addresses
INVARIANTS
    LifecycleTypeOK
    AcceptedSound
    PoliciesInherit
    BucketsApart
    CountExact
PROPERTIES
    DrainComplete
    RelayComplete
    ShutdownEnds
    RelayEnds
CHECK_DEADLOCK FALSE
