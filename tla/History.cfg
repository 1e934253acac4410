SPECIFICATION HistoryFairSpec
CONSTANTS
    u1 = u1
    u2 = u2
    i1 = i1
    n1 = n1
    n2 = n2
    n3 = n3
    n4 = n4
    None = None
    Users = {u1, u2}
    Instances = {i1}
    Notifications = {n1, n2, n3, n4}
    KeysExpire = FALSE
    CallsMayFail = FALSE
    Times = {0, 1, 2}
    BacklogLimit = 1
    MaxReceipts = 0
    MaxLimit = 2
INVARIANTS
    HistoryInv
    MissedRowsTieWithCursor
    PagesNeverRepeat
PROPERTY
    WalkEnds
