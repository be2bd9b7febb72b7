CONSTANTS
    InputRate = 2
    OutputRate = 1
    CacheReadRate = 1
    CacheWriteRate = 2
    OutputWindow = 1
    FlatFee = 1
    N = 2
    TraceId <- UniqueIds
    InputUB <- MCInputUB
    Stream <- MCStream
    Usages <- MCUsages
    CacheMayMiss = TRUE
    PartialUsage = TRUE
    Launches <- FreeLines
    KeyRings <- MCKeyRings
    Listings <- MCListings
    AbsoluteMax = 17000
    RunId = "own"
    RunProfile = "bigpickle"
    HardCap = 17000
    MaxRestarts = 0
    MaxFaults = 2
SPECIFICATION FairSpec
INVARIANTS IdentityRefusal
PROPERTIES HoldsDrain
CHECK_DEADLOCK FALSE
