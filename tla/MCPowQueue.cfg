SPECIFICATION Spec
CONSTANTS
    ack = ack
    msg = msg
    resend = resend
    bcast = bcast
    bad = bad
    S = S
    Jobs <- MCJobs
    Keys = {S}
    NoKey = NoKey
    LongKey = LongKey
    KeyOf <- MCKeyOf
    MaxPending = 2
    None = None
INVARIANTS
    NoDuplicateWork
PROPERTIES
    AcceptedIsDelivered
    ShutdownReturns
    ImplementsLedger
CHECK_DEADLOCK FALSE
