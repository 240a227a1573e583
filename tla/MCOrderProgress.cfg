SPECIFICATION FairSpec
CONSTANTS
    w1 = w1
    w2 = w2
    t1 = t1
    t2 = t2
    o1 = o1
    o2 = o2
    Worker = {w1, w2}
    Token = {t1, t2}
    NoToken = NoToken
    OrderId = {o1, o2}
    RunMode = "LIVE"
    PositionUsd = 1
    MaxTokenUsd = 2
    MaxDailyUsd = 2
    MaxPositions = 1
    MaxOrders = 2
    MaxAttempts = 1
    LastDay = 0
    Faults = {"abort"}
INVARIANTS
    DisownedNothing
PROPERTIES
    ScreeningEnds
