SPECIFICATION Spec
CONSTANTS
    Parts = {"days"}
    AAA = AAA
    BBB = BBB
    CCC = CCC
    us = us
    crypto = crypto
    S1 = S1
    Feeds <- TwoFeeds
    Routable = {AAA, CCC}
    Unroutable = {XXX}
    FeedOf <- FeedOfSymbol
    Grids = {g1}
    Cap = 2
    MaxBuffer = 1
    GridOps = 3
    GridFaults = 1
    MaxRows = 4
    MaxRev = 2
    SessionRows = 2
    Overnight = TRUE
    Sockets = {k1, k2}
    DayLength = 4
    TickWindow = 3
    Floor = 3
    Timeout = 2
    Queries = {q1, q2}
    Principals = {p1, p2}
    PerPrincipal = 1
    ScanSlots = 1
    ResultRows = 3
    PageSize = 2
    Cancels = 1
    Workers = {w1, w2}
    Days = {1, 2, 3}
    Weekend = {2}
    MaxJobs = 2
    Securities = {s1, s2}
    NoTime = NoTime
    LastDay = 4
    PerDay = 3
    Page = 3
    MaxRequests = 6
    Calls = {"a", "b", "c"}
    Process <- TwoProcesses
    MaxExpiries = 2
    Period = 4
    Fast = 2
    Slow = 5
    SessionBars = 3
    TickSymbols <- OneSymbol
    DaySlots = 2
    Window = 2
    LastSlot = 4
    Attempts = 2
    DayFaults = 1
    Windows <- ReadWindows
    Unset = Unset
    TailRows = 3
    MaxTime = 5
    Steps = {1, 2, 3}
    MaxRanges = 3
    Members = {AAA, BBB}
    Tenure <- StaysAndLeaves
    EndDated = {BBB}
    Weeks = {1, 2}
    Holidays = {15}
    FirstSlot <- WednesdayMorning
    FinalSlot = 101
    RetryMax = 2
    BlacklistWeeks = 2
    SettleLag = 7
    MaxLate = 1
    Overlooked = {14}
    MaxFaults = 2
    Askers = {x1, x2}
    MaxTurns = 2
    MidnightEvery = 2
PROPERTIES
    RerunIsHarmless
CHECK_DEADLOCK FALSE
