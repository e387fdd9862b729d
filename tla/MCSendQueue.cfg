SPECIFICATION Spec
CONSTANTS
    Others = {sender}
    Epoll = Epoll
    Free = Free
    Lens = {1, 2}
    HardLimit = 4
    Stall = 2
    Lag = 1
    MaxRoom = 2
    CtlOutcomes = {TRUE, FALSE}
    MaxAccepted = 6
INVARIANTS
    StreamIntact
PROPERTIES
    SlowPeerSurvives
    SentOrClosed
CHECK_DEADLOCK FALSE
