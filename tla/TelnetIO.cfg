CONSTANTS
    Timeout = 2
    MaxChunks = 4
    MaxCalls = 4
SPECIFICATION FairSpec
CHECK_DEADLOCK FALSE
INVARIANTS
    TypeOK
    NoReadLeft
    InOrder
PROPERTIES
    SentMeansWritten
    TargetEndsReadUntil
    SendDataReturns
