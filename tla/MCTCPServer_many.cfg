CONSTANTS
    Connection = {s1, s2, s3}
    NoSession = NoSession
    Name <- OneName
    Word = {"quit", "register"}
    MaxChunk = 2
    MaxReads = 1
    MaxLogins = 0
SPECIFICATION Spec
SYMMETRY Addresses
INVARIANTS
    DistinctUsernames
PROPERTY LifecycleSpec
