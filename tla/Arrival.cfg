SPECIFICATION FairSpec
CONSTANTS
    u1 = u1
    i1 = i1
    n1 = n1
    r1 = r1
    s1 = s1
    s2 = s2
    None = None
    Users = {u1}
    Instances = {i1}
    Notifications = {n1}
    Requests = {r1}
    Sockets = {s1, s2}
    KeysExpire = FALSE
    CallsMayFail = TRUE
    Overlap = FALSE
    MayCrash = TRUE
    ServerDrains = FALSE
    Times = {0}
    BacklogLimit = 2
    MaxReceipts = 1
PROPERTIES
    StoredArrives
    PlatformRefinesApi
    ImplementsDelivery
INVARIANTS
    DeliveryComplete
