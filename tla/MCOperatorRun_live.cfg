SPECIFICATION FairSpec
CONSTANTS
    a = a
    b = b
    Replicas = {a}
    Steps = 1
    MaxRestarts = 0
    Timed = FALSE
    Cancels = {"cancel_run"}
    Unreliable = FALSE
    MaxFaults = 1
INVARIANTS BudgetInv
PROPERTIES StopEnds
CHECK_DEADLOCK FALSE
