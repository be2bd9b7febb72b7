CONSTANTS
    InputRate = 2
    OutputRate = 1
    CacheReadRate = 1
    CacheWriteRate = 2
    OutputWindow = 1
    FlatFee = 1
    N = 3
    TraceId <- UniqueIds
    InputUB <- MCInputUB
    Stream <- MCStream
    Usages <- MCUsages
    CacheMayMiss = FALSE
    PartialUsage = FALSE
    Launches <- PaidLines
    KeyRings <- MCKeyRings
    Listings <- MCListings
    AbsoluteMax = 17000
    RunId = "own"
    RunProfile = "glm"
    HardCap = 17000
    MaxRestarts = 1
    MaxFaults = 1
SPECIFICATION Spec
INVARIANTS CapHeld DurableHold NoUnaccountedSpend ReservationsAreUpperBounds
CHECK_DEADLOCK FALSE
