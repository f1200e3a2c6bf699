CONSTANTS
    Plain = {"LF"}
    Width = 3
    OptionByte = {"IAC", "NUL"}
    Payload <- MCPayload
    MaxTokens = 2
    MaxConnects = 2
SPECIFICATION Spec
CHECK_DEADLOCK FALSE
INVARIANTS
    TypeOK
    TextIntact
    CommandsIntact
