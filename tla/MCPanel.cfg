SPECIFICATION FairSpec
CONSTANTS
    Process = {"panel", "api", "cli"}
    ApiKey = {"k1"}
    Form <- Forms
    Edit <- Edits
    MaxSaves = 1
    MaxEdits = 1
    MaxDeaths = 1
    MaxUp = 2
    MaxPressed = 1
INVARIANTS
    TypeOK
    ReopenIsHarmless
    NoteIsTrue
    ConfirmedOrHalted
PROPERTIES
    TornReadIsSafe
    LostOnlyOverTorn
    RestIsKept
    SettingsReachCycles
CHECK_DEADLOCK FALSE
