CONSTANTS
    Timeout = 2
    MaxChunks = 2
    MaxCalls = 1
SPECIFICATION FairSpec
CHECK_DEADLOCK FALSE
PROPERTY ReadUntilReturns
