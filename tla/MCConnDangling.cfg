SPECIFICATION Spec
CONSTANTS
    i1 = i1
    o1 = o1
    o2 = o2
    a = a
    Inbound = {}
    Outbound = {o1}
    Peers = {a}
    PeerOf <- OnePeer
    Listener = Listener
    Commands = {"version"}
    MaxInbound = 1
    MaxOutbound = 1
    MaxAccepts = 2
    Window = 1
    HandshakeTimeout = 1
    PingTimeout = 1
    ReplyDelay = 1
    Cooldown = 1
    Scale = 1
    FirstRating = 0
    MaxUnread = 1
    None = None
INVARIANT
    NoDangling
