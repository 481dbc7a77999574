SPECIFICATION Spec
CONSTANTS
    w1 = w1
    w2 = w2
    c1 = c1
    c2 = c2
    j1 = j1
    j2 = j2
    NoJob = NoJob
    NoRequest = NoRequest
    Workers = {w1, w2}
    Clients = {c1, c2}
    Jobs = {j1}
    Requests = {1}
    MaxCalls = 1
    MaxEvents = 6
    MaxRivals = 3
    MaxFaults = 0
INVARIANTS
    OwnStagesInOrder
    ClaimIsNeverLost
    EndedWithoutSilver
SYMMETRY Interchangeable
CHECK_DEADLOCK FALSE
