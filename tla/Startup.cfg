CONSTANTS
    Process = {p1, p2}
    MaxFaults = 2
SPECIFICATION FairSpec
INVARIANTS
    TypeOK
    LayoutComplete
    OwedAccountedFor
PROPERTIES
    ComesUp
