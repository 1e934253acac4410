SPECIFICATION Spec
CONSTANTS
    u1 = u1
    u2 = u2
    i1 = i1
    r2 = r2
    n1 = n1
    n2 = n2
    r1 = r1
    s1 = s1
    s2 = s2
    None = None
    Users = {u1, u2}
    Instances = {i1}
    Notifications = {n1, n2}
    Requests = {r1, r2}
    Sockets = {s1, s2}
    KeysExpire = FALSE
    CallsMayFail = FALSE
    Overlap = FALSE
    MayCrash = FALSE
    ServerDrains = TRUE
    Times = {0}
    BacklogLimit = 1
    MaxReceipts = 1
SYMMETRY Symmetry
INVARIANTS
    TypeOK
    DeliveryComplete
    LiveAtMostOnce
    NoMisdelivery
    RegistryMapsConnectedUsers
    ConnectedUsersArePresent
    PlatformInv
    SessionInv
