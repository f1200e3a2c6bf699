CONSTANTS
    Option = {0}
    NoHandler = NoHandler
    Handlers <- MCHandlers
    MaxConnects = 2
    MaxAdds = 1
    MaxAsks = 4
SPECIFICATION FairSpec
CHECK_DEADLOCK FALSE
INVARIANTS
    TypeOK
    Agreement
    FlagsFollow
    SubnegotiationFollows
PROPERTY Settles
