SPECIFICATION FairSpec
CONSTANTS
    t1 = t1
    c1 = c1
    c2 = c2
    Cycle = {c1, c2}
    Token = {t1}
    Horizon = {1, 2}
    Reading <- Market
    MaxCandidates = 2
    MaxSnapshots = 3
    MaxFailures = 1
    LastTime = 3
INVARIANTS
    TypeOK
    MissesOnlyUnstored
    CensoredIsMarked
PROPERTIES
    LabelledUnlessCrowded
