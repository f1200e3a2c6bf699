CONSTANTS
    Connection = {s1, s2}
    NoSession = NoSession
    Name <- OneName
    Word = {"quit", "register"}
    MaxChunk = 2
    MaxReads = 2
    MaxLogins = 0
SPECIFICATION Spec
INVARIANT EndCleansUp
