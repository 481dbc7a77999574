---------------------------- MODULE ChartStream ----------------------------
(***************************************************************************)
(* The chart sockets of the live grid (main.py ta_chart_ws, ta_series_ws;  *)
(* ta/payload, ta/session): the server sends whole charts or   *)
(* tails of them, the client merges, and both should show the same chart.  *)
(*                                                                         *)
(* A row is a number that changes when its bar, or a study over it, does.  *)
(***************************************************************************)
EXTENDS Integers, FiniteSets, Sequences, SequencesExt, FiniteSetsExt

CONSTANTS
    MaxRows, MaxRev,     \* bounds: bars, changes of one row
    SessionRows,         \* bars of a session
    Overnight            \* pushes go out between two sessions

ASSUME ChartBounds ==
    /\ MaxRows \in Nat /\ MaxRev \in Nat /\ SessionRows \in Nat \ {0}
    /\ Overnight \in BOOLEAN

VARIABLES
    study,      \* what the panes hold: "causal", "bd" or "repaints"
    rows,       \* the chart as a full push would show it
    trouble,    \* the bars cannot be had
    marks,      \* columns the vendor did not supply
    last,       \* previous, previous_marks and rev of the socket's loop
    shown       \* the client: rows, the title's note, marks

chartVars == <<study, rows, trouble, marks, last, shown>>

----------------------------------------------------------------------------
\* A `bd` window gives every bar of a session the session's close.
Session(i) == (i - 1) \div SessionRows
SessionStart(n) == CHOOSE i \in 1..n : Session(i) = Session(n) /\ \A j \in 1..i - 1 : Session(j) # Session(n)

\* Rows a change of bar n moves.
Moved(n) == CASE study = "causal"   -> {n}
              [] study = "bd"       -> SessionStart(n)..n
              [] study = "repaints" -> 1..n

Bars == IF trouble THEN << >> ELSE rows

\* revised_from, as a count of rows that are kept.
Kept(previous, now) ==
    IF previous = 0 \/ now < previous THEN 0 ELSE previous - 1

\* Mutant of DeltaStart: business-day windows get the tail.
DeltaStartNarrow(previous, now) == Kept(previous, now)

\* delta_start, widened to the running session.
DeltaStart(previous, now) ==
    IF study = "bd" /\ now > 0 THEN Min({Kept(previous, now), SessionStart(now) - 1})
    ELSE Kept(previous, now)

Full == last.rev = 0 \/ study = "repaints" \/ trouble \/ marks # last.marks

\* build_series_payload, build_ta_figure: everything there is to see.
WholeChart == [rows |-> Bars, note |-> trouble, marks |-> marks]

\* series_delta, figure.delta: the rows from a position on, times taken before the cut;
\* the client lays them over its own.
RowsFrom(from) == SubSeq(Bars, from + 1, Len(Bars))
Merged(from) == [shown EXCEPT !.rows = SubSeq(@, 1, from) \o RowsFrom(from)]

ChartInit ==
    /\ study \in {"causal", "bd", "repaints"}
    /\ rows = <<0>> /\ trouble = FALSE /\ marks = {}
    /\ last = [dates |-> 0, marks |-> {}, rev |-> 0]
    /\ shown = [rows |-> << >>, note |-> FALSE, marks |-> {}]

\* One turn of the loop: fetch, compute, send, remember.
Push ==
    /\ shown' = IF Full THEN WholeChart ELSE Merged(DeltaStart(last.dates, Len(Bars)))
    /\ last' = [dates |-> Len(Bars), marks |-> marks, rev |-> 1]
    /\ UNCHANGED <<study, rows, trouble, marks>>

\* The forming bar is revised by a tick.
TickRevises ==
    LET n == Len(rows) IN
    /\ rows[n] < MaxRev
    /\ rows' = [i \in 1..n |-> IF i \in Moved(n) THEN rows[i] + 1 ELSE rows[i]]
    /\ UNCHANGED <<study, trouble, marks, last, shown>>

\* The next bar.  With a night between two sessions the old one was pushed before.
NewBar ==
    LET n == Len(rows) + 1 IN
    /\ n <= MaxRows
    /\ Overnight /\ Session(n) # Session(n - 1) => last.rev > 0 /\ shown.rows = rows
    /\ rows' = [i \in 1..n |-> IF i = n THEN 0
                               ELSE IF i \in Moved(n) THEN rows[i] + 1 ELSE rows[i]]
    /\ UNCHANGED <<study, trouble, marks, last, shown>>

\* build_series fails, or works again; the vendor stops or goes on to supply.
Outage == trouble' = ~trouble /\ UNCHANGED <<study, rows, marks, last, shown>>
VendorTurns ==
    /\ marks' \in {{}, {"study"}} /\ marks' # marks
    /\ UNCHANGED <<study, rows, trouble, last, shown>>

ChartNext == Push \/ TickRevises \/ NewBar \/ Outage \/ VendorTurns

----------------------------------------------------------------------------
\* After every push the client's rows are the server's, though deltas carry only a
\* tail: a forming bar, a session that moves as one, a chart that was emptied by an
\* error (payload.delta_start 290-304, main.py 523-530).
RowsInSync == [][Push => shown'.rows = Bars]_chartVars
============================================================================
