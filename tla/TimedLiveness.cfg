SPECIFICATION TimedFairSpec
CONSTANTS
    u1 = u1
    i1 = i1
    s1 = s1
    s2 = s2
    t1 = t1
    t2 = t2
    None = None
    Users = {u1}
    Instances = {i1}
    Notifications = {}
    Sockets = {s1, s2}
    Callers = {s1, s2}
    Watched = {}
    Tickets = {t1, t2}
    KeysExpire = TRUE
    CallsMayFail = FALSE
    SweepsMayFail = TRUE
    Overlap = TRUE
    Times = {0}
    BacklogLimit = 2
    MaxReceipts = 1
    Limit = 1
    Window = 2
    TicketTtl = 1
    PresenceTtl = 2
    LivenessTtl = 1
    MaxMisses = 2
PROPERTIES
    LimitedCallersGetThrough
    DriftIsNoticed
INVARIANT
    TicketsOpenOneSocket
