CONSTANTS
    S = 2
    CellResults <- EachOutcome
    MaxAttempts = 1
    MaxTurns = 1
    GateFails <- LastGateFails
    MaxBoots = 3
    MaxReads = 0
    MaxTears = 0
    MayLoseRunManifest = FALSE
SPECIFICATION Spec
INVARIANTS StreamAgrees RerunOnlyAfterKill
PROPERTIES KeepsBook
CHECK_DEADLOCK FALSE
