SPECIFICATION Spec
CONSTANTS
    a = a
    b = b
    Replicas = {a}
    Steps = 1
    MaxRestarts = 0
    Timed = TRUE
    Cancels = {"annotate", "delete"}
    Unreliable = TRUE
    MaxFaults = 1
INVARIANTS TypeOK OneExecutor SuccessIsReal HonestInv ExecutorInv
PROPERTIES StoppedStartsNothing
CHECK_DEADLOCK FALSE
