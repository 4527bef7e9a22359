SPECIFICATION Checked
CHECK_DEADLOCK FALSE
CONSTANTS
    Keys <- MCKeys
    Values <- MCValues
    Contents <- MCContents
    NoFile = NoFile
    BadFile = BadFile
    Interpreters = {"python", "copy"}
    MaxEdits = 1
    CommandLines <- MCCommandLines
    ApiKey = "key"
    NoText = ""
    HostHasSdk = FALSE
    MaxImages = 2
    MaxMessages = 2
INVARIANTS
    RunsUnderVenv
