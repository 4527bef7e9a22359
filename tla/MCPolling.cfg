SPECIFICATION Spec
CONSTANTS
    Waits <- SomeWaits
    DefaultWait = 5
    Intervals <- SomeIntervals
    FixedInterval = 2
    MaxCall = 2
    Durations <- SomeDurations
    Horizon = 20
    MaxCommands = 2
\* All commands have been run.
CHECK_DEADLOCK FALSE
INVARIANTS
    ReportIsFinal
    TimeoutMeansLate
    TimeoutInTime
PROPERTIES
    CommandsEnd
