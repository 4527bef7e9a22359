\* No symmetry: the run checks a liveness property.
SPECIFICATION LockSpec
CONSTANTS
    p1 = p1
    p2 = p2
    p3 = p3
    Nobody = Nobody
    Procs <- AllProcs
    Timeouts <- AllTimeouts
INVARIANTS
    MutualExclusion
    HolderIsInside
PROPERTIES
    BoundedWait
