SPECIFICATION BookSpec
CONSTANTS
    s = s
    x = x
    me = me
    Peers = {s, x, me}
    Seeds = {s}
    Observed = {s}
    Onion = {me}
    Me = me
    OtherStream = {x}
    MaxCandidates = 2
    MaxOutbound = 2
    Best = 1
    Worst <- MCWorst
    Forget <- MCWorst
    MinAge = 0
    MaxAge = 1
    Cooldown = 1
    Nil = Nil
PROPERTIES
    CooldownForAll
