----------------------------- MODULE LiveSeries -----------------------------
(***************************************************************************)
(* Tick bars joined to cached history (live-grid/app/series.py and         *)
(* main.build_series, kdb-store's tick_span and aggregate_frame).  Times   *)
(* and widths are small integers, a bar is the time its bucket opens at.   *)
(***************************************************************************)
EXTENDS Integers, FiniteSets, FiniteSetsExt

CONSTANTS DayLength,   \* times a day has
          TickWindow   \* LIVE_TICK_WINDOW_SECONDS

ASSUME SeriesBounds == DayLength \in Nat \ {0} /\ TickWindow \in Nat

Bucket(t, width) == t - (t % width)

\* window_end: a date is the whole day, an instant is itself.
WindowEnd(end) ==
    IF end.date THEN Bucket(end.at, DayLength) + DayLength - 1 ELSE end.at

\* Mutant of SeamBoundary: the bucket the first tick falls into.
SeamBoundaryEarly(first, width) == Bucket(first, width)

\* seam_boundary: the first bucket at or after the first tick.
SeamBoundary(first, width) == Bucket(first + width - 1, width)

TickCapable(width) == width <= TickWindow

TickSpan(ticks) == <<Min(ticks), Max(ticks)>>

\* aggregate_frame: the buckets of the ticks within [boundary, hi].
TickBars(ticks, width, boundary, hi) ==
    {Bucket(t, width) : t \in {u \in ticks : boundary <= u /\ u <= hi}}

Stitch(history, bars, boundary) == IF bars = {} THEN history ELSE {b \in history : b < boundary}

\* build_series: the bars taken from history, and those from ticks.
Stitched(history, ticks, width, end) ==
    LET boundary == SeamBoundary(TickSpan(ticks)[1], width)
        hi == Min({TickSpan(ticks)[2], WindowEnd(end)})
        bars == IF ~TickCapable(width) \/ ticks = {} THEN {} ELSE
                IF hi < boundary THEN {} ELSE TickBars(ticks, width, boundary, hi)
    IN  [history |-> Stitch(history, bars, boundary), ticks |-> bars]

----------------------------------------------------------------------------
\* A bar made of ticks had ticks from its opening on, comes once, and lies inside the
\* window asked for; every bar before the first tick is history's; no tick after the
\* seam is left out, those of a last day given as a date included (series.py 4-49).
SeamIsClean(history, ticks, width, end) ==
    LET out == Stitched(history, ticks, width, end)
    IN  /\ out.history \cap out.ticks = {}
        /\ \A b \in out.ticks : Min(ticks) <= b /\ b <= WindowEnd(end)
        /\ {b \in history : ticks = {} \/ b < Min(ticks)} \subseteq out.history
        /\ TickCapable(width) =>
              \A t \in ticks : t <= WindowEnd(end) /\ Bucket(t, width) >= Min(ticks) =>
                  Bucket(t, width) \in out.ticks
============================================================================
