SPECIFICATION Spec
CONSTANTS
    p1 = p1
    p2 = p2
    n1 = n1
    d1 = d1
    d2 = d2
    Procs <- TwoProcs
    Nobody = Nobody
    Timeouts <- Default
    Names <- OneName
    DocIds <- TwoIds
    Statuses <- OneStatus
    Ops <- StoreOps
    NoOp <- NoCall
    Docs <- StoreDocs
    Empty <- NoStores
    Apply <- StoreApply
    Saves <- StoreSaves
    NoDoc = NoDoc
    NoTemp = NoTemp
    Partial = Partial
    MaxTime = 0
    ShortWrites = TRUE
PROPERTIES
    NothingResurrected
    CallsReturn
