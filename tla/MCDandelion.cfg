SPECIFICATION RelayFairSpec
CONSTANTS
    p = p
    s = s
    obj = obj
    Peers <- MCPeers
    Stemmers <- MCStemmers
    Hashes <- MCHashes
    Timeouts = {1}
    Epoch = 1
    PruneAge = 0
    MaxExpire = 1
    MaxLag = 1
    Nil = Nil
INVARIANTS
    AdvertisesHeld
    NobodyForgotten
PROPERTIES
    EventuallyTold
