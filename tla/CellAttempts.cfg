CONSTANTS
    MaxAttempts = 3
    Gates = {g1, g2}
    Costs <- MCCosts
    Overhead <- MCOverhead
    Budget = 2
    Fallback = 1
    ResumeBudgets = {0, 2}
    Meters = {"checkpoint", "missing", "unbounded"}
SPECIFICATION Spec
INVARIANTS VerdictIsGates CostsAddUp BudgetStopIsReal
PROPERTIES DeadWorkerLeftAlone
CHECK_DEADLOCK FALSE
