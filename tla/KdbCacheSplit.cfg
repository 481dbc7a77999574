SPECIFICATION Spec
CONSTANTS
    X = X
    Y = Y
    r1 = r1
    r2 = r2
    r3 = r3
    NoRow = NoRow
    Requests = {r1}
    Symbols = {X}
    TableOf <- OwnTables
    Windows <- ApartWindows
    MaxTime = 4
    StartClock = 4
    Step = 1
    DayLen = 1
    BarTimes <- AllBars
    OverlapBars = 1
    Budget = 10
    MaxOther = 0
    MaxRev = 1
    MaxDeaths = 0
INVARIANTS
    TailRequestIsUniform
CHECK_DEADLOCK FALSE
