----------------------------- MODULE KdbRanges -----------------------------
(***************************************************************************)
(* Date-range arithmetic of the kdb read-through cache                     *)
(* (kdb-store/kdb_store/ranges.py, and the calendar rules of               *)
(* openbb-kdb/openbb_kdb/cache.py that decide what goes on the wire).      *)
(*                                                                         *)
(* A range is a pair <<first, last>>, both ends inclusive, of integer      *)
(* timestamps.  `step` is one bar width, `dayLen` the length of a calendar *)
(* day in the same unit.  A Python list of ranges is a set of pairs here:  *)
(* the code sorts it before every use.  The operators below say what the   *)
(* loops of the source leave in their output list; module KdbRangesLoops   *)
(* transcribes the loops and checks the two against each other.            *)
(***************************************************************************)
EXTENDS Integers

Lesser(a, b)  == IF a <= b THEN a ELSE b
Greater(a, b) == IF a >= b THEN a ELSE b

Starts(R) == {r[1] : r \in R}
Ends(R)   == {r[2] : r \in R}

\* The timestamps a set of ranges covers.
Spanned(r, t)      == r[1] <= t /\ t <= r[2]
CoversStamp(R, t)  == \E r \in R : Spanned(r, t)

\* A merged range opens at s when every range starting earlier ends more than
\* one step before s (the loop's else branch).
Opens(R, s, step) == \A q \in R : q[1] < s => q[2] < s - step

Coalesce(R, step) ==
    {m \in Starts(R) \X Ends(R) :
        /\ m[1] <= m[2]
        /\ Opens(R, m[1], step)
        /\ \A s \in Starts(R) : m[1] < s /\ s <= m[2] => ~Opens(R, s, step)
        /\ \A q \in R : m[1] <= q[1] /\ q[1] <= m[2] + step => q[2] <= m[2]}

\* subtract: a gap opens at the requested start, unless a merged range covers
\* it, and one step after every merged range that meets the request; it runs to
\* one step before the next merged range, or to the requested end.  The early
\* return inside the loop hands back its gaps unfiltered, so when the last
\* merged range reaches the end of the request an inverted gap survives.
Subtract(req, covered, step) ==
    LET C == Coalesce(covered, step)
        Meets    == {c \in C : c[2] >= req[1] /\ c[1] <= req[2]}
        Cursors  == {b \in {req[1]} : ~CoversStamp(C, b)} \cup {c[2] + step : c \in Meets}
        Next(b)  == {c \in Meets : c[1] > b}
        Early    == \E c \in Meets : c[2] + step > req[2]
    IN  {g \in Cursors \X ({req[2]} \cup {Lesser(c[1] - step, req[2]) : c \in Meets}) :
            /\ req[1] <= req[2]
            /\ g[1] <= req[2]
            /\ \/ Next(g[1]) = {} /\ g[2] = req[2]
               \/ \E n \in Next(g[1]) : /\ \A m \in Next(g[1]) : n[1] <= m[1]
                                        /\ g[2] = Lesser(n[1] - step, req[2])
            /\ g[1] <= g[2] \/ Early}

\* trim_tail: the range clipped at the last completed bar; {} stands for None.
TrimTail(r, boundary) ==
    IF r[1] > boundary THEN {} ELSE {<<r[1], Lesser(r[2], boundary)>>}

\* last_complete_boundary for the intervals whose bars start on multiples of
\* the step (intraday, daily, weekly): the stamp of the last fully formed bar.
LastCompleteBoundary(now, step) == (now \div step) * step - step

DayStart(t, dayLen) == (t \div dayLen) * dayLen

\* _day_range: an intraday gap is widened to whole days.
DayRange(r, step, dayLen) ==
    IF step >= dayLen THEN r
    ELSE <<DayStart(r[1], dayLen), DayStart(r[2], dayLen) + dayLen - step>>

\* _fetch_bounds: the wire carries dates, so the provider answers for whole days.
WireBounds(r, dayLen) ==
    <<DayStart(r[1], dayLen), DayStart(r[2], dayLen) + dayLen - 1>>
============================================================================
