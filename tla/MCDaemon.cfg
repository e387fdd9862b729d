SPECIFICATION DaemonFairSpec
CONSTANTS
    m1 = m1
    k1 = k1
    k2 = k2
    Msgs = {m1}
    Keys = {k1, k2}
    Nil = Nil
    Settings <- MCSettings
INVARIANTS
    HandedOverIsKept
    JoinedBeforeDestroyed
    OnionIsKept
PROPERTIES
    SignalEnds
