SPECIFICATION Spec
CONSTANTS
    w1 = w1
    w2 = w2
    c1 = c1
    c2 = c2
    j1 = j1
    j2 = j2
    NoJob = NoJob
    NoRequest = NoRequest
    Workers = {w1}
    Clients = {c1}
    Jobs = {j1}
    Requests = {1}
    MaxCalls = 2
    MaxEvents = 20
    MaxRivals = 20
    MaxFaults = 2
INVARIANTS
    RowTellsTheLog
    CancelStopsCalls
PROPERTIES
    QueuedIsTakenUp
    ClaimedJobEnds
CHECK_DEADLOCK FALSE
