SPECIFICATION Spec
CONSTANTS
    w1 = w1
    w2 = w2
    c1 = c1
    c2 = c2
    j1 = j1
    j2 = j2
    NoJob = NoJob
    NoRequest = NoRequest
    Workers = {w1, w2}
    Clients = {c1}
    Jobs = {j1}
    Requests = {1}
    MaxCalls = 1
    MaxEvents = 4
    MaxRivals = 4
    MaxFaults = 1
INVARIANTS
    OneHolder
SYMMETRY Interchangeable
CHECK_DEADLOCK FALSE
