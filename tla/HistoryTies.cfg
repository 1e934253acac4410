SPECIFICATION HistorySpec
CONSTANTS
    u1 = u1
    i1 = i1
    n1 = n1
    n2 = n2
    None = None
    Users = {u1}
    Instances = {i1}
    Notifications = {n1, n2}
    KeysExpire = FALSE
    CallsMayFail = FALSE
    Times = {0}
    BacklogLimit = 1
    MaxReceipts = 0
    MaxLimit = 1
INVARIANTS
    WalkReachesEveryRow
