SPECIFICATION FairSpec
CONSTANTS
    g1 = g1
    p1 = p1
    p2 = p2
    p3 = p3
    Gets = {g1}
    Pubs = {p1, p2, p3}
    Demands <- DemandV4
    Owned = {2, 4, 5}
    Chans = {2}
    None = None
PROPERTY KeyObtained
