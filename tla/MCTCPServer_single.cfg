CONSTANTS
    Connection = {s1, s2}
    NoSession = NoSession
    Name <- OneName
    Word = {"quit", "login", "register"}
    MaxChunk = 2
    MaxReads = 2
    MaxLogins = 1
SPECIFICATION FairSpec
INVARIANTS
    TypeOK
    ReturnScreenSafe
    OneChain
    PoolServed
    DetachedIsDead
PROPERTIES
    ServerSurvives
    DeadIsFreed
