SPECIFICATION Spec
CONSTANTS
    u1 = u1
    i1 = i1
    n1 = n1
    r1 = r1
    s1 = s1
    None = None
    Users = {u1}
    Instances = {i1}
    Notifications = {n1}
    Requests = {r1}
    Sockets = {s1}
    KeysExpire = FALSE
    CallsMayFail = FALSE
    Overlap = TRUE
    MayCrash = FALSE
    ServerDrains = TRUE
    Times = {0}
    BacklogLimit = 2
    MaxReceipts = 0
SYMMETRY Symmetry
INVARIANTS
    BacklogPrecedesLive
