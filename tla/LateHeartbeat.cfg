SPECIFICATION TimedSpec
CONSTANTS
    u1 = u1
    i1 = i1
    s1 = s1
    t1 = t1
    None = None
    Users = {u1}
    Instances = {i1}
    Notifications = {}
    Sockets = {s1}
    Callers = {s1}
    Watched = {s1}
    Tickets = {t1}
    KeysExpire = TRUE
    CallsMayFail = TRUE
    SweepsMayFail = TRUE
    Overlap = FALSE
    Times = {0}
    BacklogLimit = 2
    MaxReceipts = 1
    Limit = 2
    Window = 2
    TicketTtl = 1
    PresenceTtl = 4
    LivenessTtl = 3
    MaxMisses = 2
INVARIANT
    BeatingUsersAreOnline
