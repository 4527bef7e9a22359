SPECIFICATION Spec
CONSTANTS
    MaxRetries = 3
    ErrorStatuses <- SomeStatuses
    MaxChunks = 2
INVARIANTS
    SendsAreBounded
    SuccessMeansAnswered
    StatusIsTheLastReply
PROPERTIES
    NothingSentAfterFinal
    CallsEnd
