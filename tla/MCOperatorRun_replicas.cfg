SPECIFICATION Spec
CONSTANTS
    a = a
    b = b
    Replicas = {a, b}
    Steps = 1
    MaxRestarts = 1
    Timed = FALSE
    Cancels = {}
    Unreliable = TRUE
    MaxFaults = 0
PROPERTY NeverReset
CHECK_DEADLOCK FALSE
