SPECIFICATION Spec
CONSTANTS
    p1 = p1
    p2 = p2
    s1 = s1
    Procs <- TwoProcs
    Nobody = Nobody
    Sessions <- OneSession
    NoFile = NoFile
    NoSession = NoSession
    MaxTurns = 2
    MayCrash = TRUE
    MayFail = TRUE
    MayEnd = TRUE
CHECK_DEADLOCK FALSE
INVARIANTS
    AnswersFollowQuestions
    SentWasSaved
PROPERTIES
    SavedMessagesStay
    AppendsKeepHistory
