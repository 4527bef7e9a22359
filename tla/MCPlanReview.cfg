SPECIFICATION SharedSpec
CONSTANTS
    p1 = p1
    p2 = p2
    s1 = s1
    Procs <- TwoProcs
    Nobody = Nobody
    Sessions <- OneSession
    NoFile = NoFile
    NoSession = NoSession
    Models = 2
    MaxProposals = 2
    MayFail = TRUE
    MayCrash = TRUE
    MayEnd = TRUE
\* A process that has reviewed all its proposals stops.
CHECK_DEADLOCK FALSE
INVARIANTS
    TypeOK
    SavedConversation
    MemoryIsComplete
PROPERTIES
    ReviewsEnd
