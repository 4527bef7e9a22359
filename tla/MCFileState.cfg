SPECIFICATION Spec
CONSTANTS
    p1 = p1
    p2 = p2
    k1 = k1
    k2 = k2
    Procs <- TwoProcs
    Nobody = Nobody
    Timeouts <- Default
    Ids <- TwoIds
    Expiries <- TwoExpiries
    Ops <- FileOps
    NoOp <- NoCall
    Docs <- FileDocs
    Empty <- NoFiles
    Apply <- FileApply
    Saves <- FileSaves
    NoDoc = NoDoc
    NoTemp = NoTemp
    Partial = Partial
    MaxTime = 1
    ShortWrites = FALSE
INVARIANTS
    LoadedIsCurrent
PROPERTIES
    LiveRecordKept
    IsAtomic
SYMMETRY Symmetry
