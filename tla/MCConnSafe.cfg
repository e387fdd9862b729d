SPECIFICATION Spec
CONSTANTS
    i1 = i1
    o1 = o1
    o2 = o2
    a = a
    Inbound = {i1}
    Outbound = {o1, o2}
    Peers = {a}
    PeerOf <- OnePeer
    Listener = Listener
    Commands = {"oldversion", "error"}
    MaxInbound = 1
    MaxOutbound = 1
    MaxAccepts = 1
    Window = 0
    HandshakeTimeout = 0
    PingTimeout = 0
    ReplyDelay = 1
    Cooldown = 0
    Scale = 0
    FirstRating = 0
    MaxUnread = 1
    None = None
INVARIANTS
    SafeOnceListed
