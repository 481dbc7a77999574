SPECIFICATION Spec
CONSTANTS
    X = X
    Y = Y
    r1 = r1
    r2 = r2
    r3 = r3
    NoRow = NoRow
    Requests = {r1}
    Symbols = {X, Y}
    TableOf <- OwnTables
    Windows <- TwoWindows
    MaxTime = 3
    StartClock = 2
    Step = 1
    DayLen = 2
    BarTimes <- AllBars
    OverlapBars = 1
    Budget = 3
    MaxOther = 1
    MaxRev = 1
    MaxDeaths = 0
INVARIANTS
    AnswerIsTheMerge
CHECK_DEADLOCK FALSE
