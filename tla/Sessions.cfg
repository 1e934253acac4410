SPECIFICATION Spec
CONSTANTS
    u1 = u1
    i1 = i1
    i2 = i2
    n1 = n1
    s1 = s1
    s2 = s2
    s3 = s3
    None = None
    Users = {u1}
    Instances = {i1, i2}
    Notifications = {n1}
    Requests = {}
    Sockets = {s1, s2, s3}
    KeysExpire = FALSE
    CallsMayFail = FALSE
    Overlap = TRUE
    MayCrash = FALSE
    ServerDrains = TRUE
    Times = {0}
    BacklogLimit = 2
    MaxReceipts = 1
SYMMETRY Symmetry
INVARIANTS
    NoOrphanRoute
    NoGhostPresence
    TracksHeldSockets
