SPECIFICATION Spec
CONSTANTS
    w1 = w1
    w2 = w2
    t1 = t1
    t2 = t2
    o1 = o1
    o2 = o2
    o3 = o3
    Worker = {w1, w2}
    Token = {t1, t2}
    NoToken = NoToken
    OrderId = {o1, o2, o3}
    RunMode = "LIVE"
    PositionUsd = 2
    MaxTokenUsd = 3
    MaxDailyUsd = 3
    MaxPositions = 2
    MaxOrders = 2
    MaxAttempts = 2
    LastDay = 1
    Faults = {"abort", "no_answer", "unreadable"}
SYMMETRY Symmetry
INVARIANTS
    TypeOK
    BookWithinCaps
    ExposureNotStale
    HaltStopsNewOrders
    LiveRowsAreReal
PROPERTIES
    ImplementsAccount
