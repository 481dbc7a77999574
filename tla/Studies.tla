------------------------------- MODULE Studies -------------------------------
(***************************************************************************)
(* The indicators of the live grid's charts (live-grid/app/ta: registry,   *)
(* exprs, compute, iterative), by what their values are made of: a series  *)
(* gives every bar the set of bars its value reads, and no bar for a null. *)
(* Prices move in every window, so that no ratio is 0/0.                   *)
(***************************************************************************)
EXTENDS Integers, FiniteSets

CONSTANTS
    Period, Fast, Slow,   \* windows of the requests (a window of no bars is an error of Polars)
    SessionBars           \* bars of a session

ASSUME StudyBounds ==
    /\ Period \in Nat \ {0} /\ Fast \in Nat \ {0} /\ Slow \in Nat \ {0}
    /\ SessionBars \in Nat \ {0}

Null == {}

----------------------------------------------------------------------------
\* The vocabulary of Polars, over n bars.
Column(n) == [i \in 1..n |-> {i}]
Past(s, i) == UNION {s[j] : j \in 1..i}

\* rolling_mean, rolling_sum, rolling_std, rolling_max, rolling_min
Rolling(s, k) ==
    [i \in DOMAIN s |-> IF i < k \/ \E j \in i - k + 1 .. i : s[j] = Null THEN Null
                        ELSE UNION {s[j] : j \in i - k + 1 .. i}]

\* ewm_mean, Wilder's or not; cum_sum.
Cumulated(s) == [i \in DOMAIN s |-> IF s[i] = Null THEN Null ELSE Past(s, i)]

\* shift(k): from k bars before; of a negative k, from bars to come.
Shift(s, k) == [i \in DOMAIN s |-> IF i - k \in DOMAIN s THEN s[i - k] ELSE Null]

\* Arithmetic has a value where both sides have one, max_horizontal where one has.
With(s, t) == [i \in DOMAIN s |-> IF s[i] = Null \/ t[i] = Null THEN Null ELSE s[i] \cup t[i]]
Either(s, t) == [i \in DOMAIN s |-> s[i] \cup t[i]]

\* when(x > 0).then(x).otherwise(0.0): a null x is a zero.
OrZero(s) == [i \in DOMAIN s |-> IF s[i] = Null THEN {i} ELSE s[i]]

Change(s, k) == With(s, Shift(s, k))

----------------------------------------------------------------------------
\* Bases: true range, and the spread of a window.
TrueRange(n) == Either(Column(n), With(Column(n), Shift(Column(n), 1)))
Spread(n, k) == Rolling(Column(n), k)

\* Indicators, in the order of the registry.
Sma(n) == Rolling(Column(n), Period)
Ema(n) == Cumulated(Column(n))
Rsi(n) ==
    LET moves == Change(Column(n), 1) IN
    [i \in 1..n |-> IF i = 1 THEN Null ELSE Cumulated(OrZero(moves))[i]]
Bbands(n) == Sma(n)
Atr(n) == Cumulated(TrueRange(n))
Wma(n) == Rolling(Column(n), Period)
\* Half the window and its root, both rounded as Python rounds.
HullHalf == LET h == Period \div 2 IN IF Period = 1 \/ (Period % 2 = 1 /\ h % 2 = 1) THEN h + 1 ELSE h
HullRoot == CHOOSE r \in 1..Period : r * r - r < Period /\ Period <= r * r + r
Hma(n) == Rolling(With(Rolling(Column(n), HullHalf), Rolling(Column(n), Period)), HullRoot)
Trix(n) == Change(Cumulated(Cumulated(Cumulated(Column(n)))), 1)
Keltner(n) == With(Ema(n), Atr(n))
Donchian(n) == Spread(n, Period)
Vwap(n) == Cumulated(Column(n))

\* Only bars that traded, from the anchor on; the others have no value.
Avwap(n, traded) == [i \in 1..n |-> IF i \in traded THEN traded \cap 1..i ELSE Null]

Volume(n) == Column(n)
MacdLine(n) == Cumulated(Column(n))
Macd(n) == With(MacdLine(n), Cumulated(MacdLine(n)))
Stoch(n) ==
    LET k == Rolling(With(Column(n), Spread(n, Slow)), Fast) IN With(k, Rolling(k, Fast))
StochRsi(n) == With(Rsi(n), Rolling(Rsi(n), Slow))
Adx(n) ==
    LET di == With(Cumulated(OrZero(Change(Column(n), 1))), Atr(n))
        dx == [i \in 1..n |-> IF i = 1 THEN Null ELSE di[i]]
    IN  Cumulated(dx)
Cci(n) ==
    LET deviation == With(Column(n), Spread(n, Period)) IN
    With(deviation, Rolling(deviation, Period))
WilliamsR(n) == With(Spread(n, Period), Column(n))
Roc(n, lag) == Change(Column(n), lag)
Obv(n) == Cumulated(Change(Column(n), 1))
StdDev(n) == Rolling(Column(n), Period)
PercentB(n) == With(Column(n), Bbands(n))
BandWidth(n) == Bbands(n)

\* Recurrences, which begin at the second bar.
ParabolicSar(n) == [i \in 1..n |-> IF i = 1 THEN Null ELSE 1..i]
Supertrend(n) == [i \in 1..n |-> IF i = 1 \/ Atr(n)[i] = Null THEN Null ELSE Past(Atr(n), i)]

Awesome(n) == With(Rolling(Column(n), Fast), Rolling(Column(n), Slow))
MoneyFlow(n) == Rolling(With(Column(n), OrZero(Change(Column(n), 1))), Period)
ChaikinFlow(n) == Rolling(Column(n), Period)
Ultimate(n) ==
    LET buying == Either(Column(n), Shift(Column(n), 1))
        Ratio(k) == With(Rolling(buying, k), Rolling(TrueRange(n), k))
    IN  With(With(Ratio(Fast), Ratio(Period)), Ratio(Slow))
Vortex(n) == With(Rolling(TrueRange(n), Period), Rolling(Change(Column(n), 1), Period))
Choppiness(n) == With(Rolling(TrueRange(n), Period), Spread(n, Period))

\* Conversion, base, the two spans, and the close; where they are drawn is not theirs.
Ichimoku(n) == With(With(Spread(n, Fast), Spread(n, Period)), Spread(n, Slow))

----------------------------------------------------------------------------
\* Sessions.
SessionOf(i) == (i - 1) \div SessionBars
BarsOf(k, n) == {i \in 1..n : SessionOf(i) = k}

\* Mutant of SessionColumns: the levels of a session are those of its own bars.
SessionColumnsToday(n, back) == [i \in 1..n |-> BarsOf(SessionOf(i), n)]

\* session_columns: what an earlier session came to, at every bar of this one.
SessionColumns(n, back) ==
    [i \in 1..n |-> IF SessionOf(i) < back THEN Null ELSE BarsOf(SessionOf(i) - back, n)]

\* `back` is the request's session_shift, 1 unless it says otherwise.
PivotsStandard(n, back) == SessionColumns(n, back)

\* session_closes and the join of LocalSource: a window of business days is computed
\* over one close a session, the running one's too, and shown at every bar of it.
SessionClose(k, n) == CHOOSE i \in BarsOf(k, n) : \A j \in BarsOf(k, n) : j <= i
BusinessDays(n, k) ==
    [i \in 1..n |-> IF SessionOf(i) + 1 < k THEN Null
                    ELSE {SessionClose(d, n) : d \in SessionOf(i) - k + 1 .. SessionOf(i)}]

----------------------------------------------------------------------------
\* compute: every indicator over the bars.
Compute(n) ==
    [sma |-> Sma(n), ema |-> Ema(n), rsi |-> Rsi(n), bbands |-> Bbands(n),
     atr |-> Atr(n), wma |-> Wma(n), hma |-> Hma(n), trix |-> Trix(n),
     keltner |-> Keltner(n), donchian |-> Donchian(n), vwap |-> Vwap(n),
     volume |-> Volume(n), macd |-> MacdLine(n), macd_signal |-> Macd(n),
     stoch |-> Stoch(n), stochrsi |-> StochRsi(n), adx |-> Adx(n), cci |-> Cci(n),
     willr |-> WilliamsR(n), roc |-> Roc(n, Period), obv |-> Obv(n), stddev |-> StdDev(n),
     pct_b |-> PercentB(n), bandwidth |-> BandWidth(n), sar |-> ParabolicSar(n),
     supertrend |-> Supertrend(n), ao |-> Awesome(n), mfi |-> MoneyFlow(n),
     cmf |-> ChaikinFlow(n), uo |-> Ultimate(n), vortex |-> Vortex(n),
     chop |-> Choppiness(n), ichimoku |-> Ichimoku(n)]

OddBars(n) == {i \in 2..n : i % 2 = 1}

\* A delta resends the rows from the one that was the last, and for a window of business
\* days those of the session it was in (payload.delta_start).  No earlier row may read a bar
\* that has come since or was still forming, or change: no indicator is marked `repaints`,
\* so nothing else would ever correct it on the client (payload.py 258-304, registry.py 121).
\*
\* That holds whatever the windows are, and of the two indicators whose offset a request may
\* choose freely (pivots' session_shift, compute.py 48-54; roc's period, registry.py 909) as
\* long as it looks back: back >= 1, and lag >= 0.  Otherwise the rows that move although
\* they are not sent again are those whose levels are of the running session or a later one,
\* or whose other end is the forming bar or the next.
ClosedRowsStay(n, offset) ==
    LET Moved(s, t) == {i \in 1..n - 1 : s[i] # t[i] \/ s[i] \cap n..n + 1 # {}}
        runningFrom == CHOOSE i \in BarsOf(SessionOf(n), n) : \A j \in BarsOf(SessionOf(n), n) : i <= j
        now == Compute(n + 1)
        before == Compute(n)
    IN  /\ \A name \in DOMAIN now : Moved(now[name], before[name]) = {}
        /\ Moved(Avwap(n + 1, OddBars(n + 1)), Avwap(n, OddBars(n))) = {}
        /\ Moved(BusinessDays(n + 1, 2), BusinessDays(n, 2)) \subseteq runningFrom..n
        /\ Moved(PivotsStandard(n + 1, offset), PivotsStandard(n, offset)) =
              IF offset >= 1 THEN {}
              ELSE {i \in 1..n - 1 : SessionOf(i) - offset \in {SessionOf(n), SessionOf(n + 1)}}
        /\ Moved(Roc(n + 1, offset), Roc(n, offset)) =
              IF offset >= 0 THEN {} ELSE {i \in 1..n - 1 : i - offset \in {n, n + 1}}
============================================================================
