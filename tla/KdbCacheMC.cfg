SPECIFICATION Spec
CONSTANTS
    X = X
    Y = Y
    r1 = r1
    r2 = r2
    r3 = r3
    NoRow = NoRow
    Requests = {r1, r2}
    Symbols = {X, Y}
    TableOf <- OwnTables
    Windows <- OneWindow
    MaxTime = 3
    StartClock = 2
    Step = 1
    DayLen = 2
    BarTimes <- HolidayFirst
    OverlapBars = 1
    Budget = 3
    MaxOther = 1
    MaxRev = 1
    MaxDeaths = 1
INVARIANTS
    CoverageBacked
    ServedComplete
    BackstopCatchesRewrite
    BypassPaysOnce
SYMMETRY Interchangeable
CHECK_DEADLOCK FALSE
