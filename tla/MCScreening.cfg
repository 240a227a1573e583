SPECIFICATION Spec
CONSTANTS
    w1 = w1
    w2 = w2
    t1 = t1
    Worker = {w1, w2}
    Token = {t1}
    AlertMin = 60
    PaperMin = 72
    LiveMin = 90
    Required = 2
    MaxStdev = 8
    RunMode = "LIVE"
    Verdict <- Verdicts
    AlertMinState = "ALERT"
    Depth = 10
    ScoreDepth = 5
    LastHour = 1
    MaxEvals = 3
SYMMETRY Symmetry
INVARIANTS
    TypeOK
    BuyIsEarned
    CallsAreRecorded
    OneAlertPerKey
PROPERTIES
    HeardOnce
