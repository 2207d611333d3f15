SPECIFICATION FairSpec
CONSTANTS
    dash = dash
    shop = shop
    Domains = {dash, shop}
    Base = dash
    QueueCap = 1
    Life = 3
    Window = 2
    Visited = {shop}
    MaxOps = 3
    MaxFails = 2
    MaxCrashes = 1
    None = None
CHECK_DEADLOCK FALSE
INVARIANTS
    ChallengesOfOpenOrder
    ReissueFollowsUp
    HandshakeServesStored
    NoLapse
PROPERTIES
    ManagedGetsCertificate
