CONSTANTS
    S = 2
    CellResults <- PassOrVoid
    MaxAttempts = 1
    MaxTurns = 0
    GateFails <- LastGateFails
    MaxBoots = 3
    MaxReads = 1
    MaxTears = 1
    MayLoseRunManifest = TRUE
SPECIFICATION FairSpec
INVARIANTS TearsCostOneSession ScheduleOrder StandingsComplete
PROPERTIES CheckpointsAdvance RunEnds
CHECK_DEADLOCK FALSE
