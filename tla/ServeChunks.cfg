CONSTANTS
    Chunks = 2
    Rounds = 1
    Compact = TRUE
    Written <- MCWritten
    MaxMessages = 3
    MaxKills = 1
    MaxStalls = 1
    MaxFaults = 1
SPECIFICATION Spec
INVARIANTS MeteredIsBurned KilledTurnsDoNotCount GatedWhenQuiet
PROPERTIES DriveReturns
CHECK_DEADLOCK FALSE
