SPECIFICATION Spec
CONSTANTS
    Threads = {"t1", "t2"}
    Closer = "closer"
    MaySpawn = TRUE
    HasHost = TRUE
    RetryAfter = 1
    MaxTime = 1
    MaxQ = 2
INVARIANTS
    OneSupervisedChild
    FailureLeavesNoChild
    QueriesSeeSchema
    ReachableMeansServed
PROPERTIES
    EveryCallReturns
CHECK_DEADLOCK FALSE
