SPECIFICATION SendSpec
CONSTANTS
    m = m
    self = self
    Msgs = {m}
    SelfMsgs = {}
    MaxAttempts = 2
    MaxSends = 3
    MaxRestarts = 0
    DbOutcomes = {TRUE, FALSE}
    Jobs <- MCJobs
    Keys = {m}
    NoKey = NoKey
    LongKey = LongKey
    KeyOf <- MCKeyOf
    MaxPending = 1
    None = None
PROPERTIES
    AckedIsNoCandidate
CHECK_DEADLOCK FALSE
