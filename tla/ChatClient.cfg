CONSTANTS
    MaxLines = 3
    MaxFrames = 2
SPECIFICATION FairSpec
CHECK_DEADLOCK FALSE
INVARIANTS
    TypeOK
    DeliveredInOrder
    BufferAlive
    InStep
PROPERTIES
    Drains
    Ends
