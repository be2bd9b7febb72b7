SPECIFICATION Spec
CONSTANTS
    Cells = 2
    Tasks = {"cumulative", "backgammon-cumulative-primary"}
    Faulty <- AllCalls
    Seen = {"exec", "gate", "vitest"}
    MaxRows = 1
    MaxFaults = 2
    MaxBreaks = 2
INVARIANTS OwnTranscript NothingLeftBehind HostReaped
PROPERTIES TranscriptKept Completes
CHECK_DEADLOCK FALSE
