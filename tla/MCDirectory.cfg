SPECIFICATION FairSpec
CONSTANTS
    r1 = r1
    r2 = r2
    Reader = {r1, r2}
    Contract = {"a", "b"}
    Birth <- Births
    Mints <- MintLogs
    Chunk = 1
    Lookback = 2
    LastBlock = 2
    Spelling = {"lower", "mixed"}
    Limit = 2
    Listing <- Listed
    Typing <- Typed
INVARIANTS
    TypeOK
    ScanIsExact
    SearchFinds
    TwiceOnlyIfTyped
PROPERTIES
    ListIsFair
    DatesHold
    CycleEnds
