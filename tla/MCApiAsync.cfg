SPECIFICATION MhdSpec
CONSTANTS
    batch = batch
    single = single
    plain = plain
    toolong = toolong
    Requests = {batch, single, plain, toolong}
    Body <- MCBody
    MaxBatch = 2
    None = None
INVARIANTS
    FreedIsUntouched
    AnswersAreTrue
    StopsWithoutSuspended
PROPERTIES
    AnsweredOrGone
CHECK_DEADLOCK FALSE
