SPECIFICATION SendSpec
CONSTANTS
    m = m
    self = self
    Msgs = {m, self}
    SelfMsgs = {self}
    MaxAttempts = 1
    MaxSends = 3
    MaxRestarts = 1
    DbOutcomes = {TRUE, FALSE}
    Jobs <- MCJobs
    Keys = {m, self}
    NoKey = NoKey
    LongKey = LongKey
    KeyOf <- MCKeyOf
    MaxPending = 1
    None = None
INVARIANTS
    OneAttemptAtATime
    NewestAckKnown
PROPERTIES
    AckEndsResending
    EveryAttemptReported
    AckedOrGivenUp
CHECK_DEADLOCK FALSE
