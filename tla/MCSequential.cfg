CONSTANTS
    Connection = {c1, c2}
    Name <- MCName
    Bits = 17
    header_length = 4
    max_body_length = 512
    HEADER_SIZE = 3
    PeerCharacters = {16, 17, 18, 19, 0, 1, 5, 9, 12}
    MaxSize = 4200
SPECIFICATION Spec
CHECK_DEADLOCK FALSE
INVARIANTS
    UsersTypeOK
    UniqueNames
    Utf8RoundTrip
    ChatFrames
    DataFrames
PROPERTY OwnEntriesOnly
