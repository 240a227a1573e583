SPECIFICATION Spec
CONSTANTS
    Process = {"panel"}
    ApiKey = {"k1"}
    Form <- Forms
    Edit <- Edits
    MaxSaves = 2
    MaxEdits = 0
    MaxDeaths = 0
    MaxUp = 2
    MaxPressed = 1
PROPERTIES
    DemoIsDemo
CHECK_DEADLOCK FALSE
