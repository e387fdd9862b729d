SPECIFICATION FairSpec
CONSTANTS
    a = a
    b = b
    Objects = {a, b}
    Expires <- MCExpires
    AckOf <- MCAckOf
    Wants <- MCWants
    Limit = 2
    FirstCap = 1
    Chunk = 1
    Threshold = 1
    QueueLimit = 2
    AcceptGrace = 1
    GcGrace = 1
    MaxTime = 3
    MaxOther = 2
    None = None
INVARIANTS
    HandledOnce
PROPERTIES
    ImplementsFifo
    EveryUploadEnds
    PoolIsAdvertised
CHECK_DEADLOCK FALSE
