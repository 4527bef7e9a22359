SPECIFICATION Spec
CONSTANTS
    p1 = p1
    p2 = p2
    s1 = s1
    Procs <- OneProc
    Nobody = Nobody
    Sessions <- OneSession
    NoFile = NoFile
    NoSession = NoSession
    Models = 3
    MaxProposals = 1
    MayFail = TRUE
    MayCrash = FALSE
    MayEnd = FALSE
\* A process that has reviewed all its proposals stops.
CHECK_DEADLOCK FALSE
INVARIANTS
    ProposalSavedOnce
