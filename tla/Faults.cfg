SPECIFICATION Spec
CONSTANTS
    u1 = u1
    i1 = i1
    i2 = i2
    n1 = n1
    r1 = r1
    s1 = s1
    s2 = s2
    None = None
    Users = {u1}
    Instances = {i1, i2}
    Notifications = {n1}
    Requests = {r1}
    Sockets = {s1, s2}
    KeysExpire = TRUE
    CallsMayFail = FALSE
    Overlap = TRUE
    MayCrash = TRUE
    ServerDrains = TRUE
    Times = {0}
    BacklogLimit = 2
    MaxReceipts = 0
SYMMETRY Symmetry
INVARIANTS
    DeliveryComplete
    LiveAtMostOnce
    PlatformInv
