SPECIFICATION Spec
CONSTANTS
    a = a
    b = b
    Replicas = {a}
    Steps = 1
    MaxRestarts = 1
    Timed = FALSE
    Cancels = {}
    Unreliable = TRUE
    MaxFaults = 0
INVARIANTS BudgetResets
CHECK_DEADLOCK FALSE
