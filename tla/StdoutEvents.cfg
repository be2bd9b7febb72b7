CONSTANTS
    MaxSteps = 1
    TokenCap = 0
    Stamps = {TRUE}
    MaxEvents = 5
    MaxRuns = 2
SPECIFICATION Spec
INVARIANTS NothingUnheard SilenceIsChosen WorkerGone NoTurnInvisible
PROPERTIES RunReturns
CHECK_DEADLOCK FALSE
