CONSTANTS
    Option = {0}
    NoHandler = NoHandler
    Handlers <- MCHandlers
    MaxConnects = 2
    MaxAdds = 1
    MaxAsks = 4
SPECIFICATION Spec
CHECK_DEADLOCK FALSE
INVARIANT FlagsAsDocumented
