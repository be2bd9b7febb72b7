SPECIFICATION Spec
CONSTANTS
    Cells = 2
    Tasks = {"backgammon-cumulative-primary"}
    Faulty = {"rm"}
    Seen = {"exec", "gate", "vitest"}
    MaxRows = 1
    MaxFaults = 1
    MaxBreaks = 0
INVARIANTS SweptClean
CHECK_DEADLOCK FALSE
