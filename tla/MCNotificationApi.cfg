SPECIFICATION ApiSpec
CONSTANTS
    u1 = u1
    u2 = u2
    i1 = i1
    n1 = n1
    r1 = r1
    r2 = r2
    r3 = r3
    None = None
    Users = {u1, u2}
    Instances = {i1}
    Notifications = {n1}
    Requests = {r1, r2, r3}
    KeysExpire = TRUE
    CallsMayFail = TRUE
    Times = {0}
    BacklogLimit = 1
    MaxReceipts = 1
SYMMETRY Symmetry
INVARIANTS
    ApiTypeOK
    ApiInv
    SeenImpliesPersisted
    AnsweredImpliesPersisted
    InsertedAndPublishedOnce
    QueuedMessagesMatchRows
    DeliveredLiveIsTruthful
PROPERTY
    ImplementsLedger
