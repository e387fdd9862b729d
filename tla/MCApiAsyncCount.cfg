SPECIFICATION MhdSpec
CONSTANTS
    batch = batch
    single = single
    plain = plain
    toolong = toolong
    Requests = {single, plain}
    Body <- MCBody
    MaxBatch = 2
    None = None
INVARIANTS
    CountsSuspended
CHECK_DEADLOCK FALSE
