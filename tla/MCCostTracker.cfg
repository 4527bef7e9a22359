SPECIFICATION Spec
CONSTANTS
    p1 = p1
    p2 = p2
    p3 = p3
    Procs <- ThreeProcs
    Nobody = Nobody
    NoRecord = NoRecord
    Costs <- CheapOrDear
    MaxDay = 2
    MaxCalls = 2
CHECK_DEADLOCK FALSE
SYMMETRY Symmetry
INVARIANTS
    NeverUndercounts
    ResetsAtMidnight
