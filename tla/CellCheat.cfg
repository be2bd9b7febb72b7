CONSTANTS
    MaxAttempts = 2
    Gates = {g1, g2}
    Costs <- MCCosts
    Overhead <- MCOverhead
    Budget = 2
    Fallback = 1
    ResumeBudgets = {2}
    Meters = {"checkpoint"}
SPECIFICATION Spec
INVARIANTS CheatNeverPass
CHECK_DEADLOCK FALSE
