SPECIFICATION CheckedSpec
SYMMETRY Symmetric
CONSTANTS
    p1 = p1
    p2 = p2
    Procs <- TwoProcs
    Payload <- SmallPayload
    Dirs <- SomeDirs
    Requirements = "setup"
    Stale <- OldFiles
    DefaultKeys <- SomeKeys
    ApiKey = "GEMINI_API_KEY"
    ForeignKey = "OTHER"
    MaxRuns = 2
    None = None
    Torn = Torn
    Malformed = Malformed
    BadEnv = BadEnv
\* Installers end, and no more than MaxRuns are started.
CHECK_DEADLOCK FALSE
INVARIANTS
    InstalledIsComplete
    CleanVerdictIsRight
    BackupIsOriginal
    UserValuesKept
