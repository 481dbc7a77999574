SPECIFICATION Spec
CONSTANTS
    Threads = {"t1"}
    Closer = "closer"
    MaySpawn = TRUE
    HasHost = FALSE
    RetryAfter = 1
    MaxTime = 0
    MaxQ = 2
INVARIANTS
    ClosedMeansStopped
CHECK_DEADLOCK FALSE
