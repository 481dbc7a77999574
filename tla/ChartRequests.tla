--------------------------- MODULE ChartRequests ---------------------------
(***************************************************************************)
(* From the words of a chart request to the lines that are drawn           *)
(* (live-grid/app/ta: payload.parse_indicators and build_payload,          *)
(* registry.resolve and col_suffix, macros, panes, sources, compute).      *)
(*                                                                         *)
(* A word names an indicator, gives some of its parameters a value and     *)
(* perhaps a unit, and perhaps a source.  A column holds the numbers of    *)
(* some request, computed by an engine on a clock: bars or sessions.       *)
(***************************************************************************)
EXTENDS Integers, FiniteSets, Sequences, SequencesExt, Functions

\* Four indicators of the registry, one of each kind: with and without a vendor's
\* equivalent, with a parameter that is no window and that the vendor is never sent
\* (EodhdMap.params), and one of which the vendor has a part.
Registry ==
    [sma    |-> [params |-> {"period"}, windows |-> {"period"}, price |-> TRUE,
                 outputs |-> {"sma"}, vendor |-> {"sma"}, sent |-> {"period"}],
     bbands |-> [params |-> {"period", "k"}, windows |-> {"period"}, price |-> TRUE,
                 outputs |-> {"bb_up", "bb_lo"}, vendor |-> {"bb_up", "bb_lo"}, sent |-> {"period"}],
     adx    |-> [params |-> {"period"}, windows |-> {"period"}, price |-> FALSE,
                 outputs |-> {"adx", "di_plus"}, vendor |-> {"adx"}, sent |-> {"period"}],
     obv    |-> [params |-> {}, windows |-> {}, price |-> FALSE,
                 outputs |-> {"obv"}, vendor |-> {}, sent |-> {}]]

Indicator(r) == Registry[r.name]

----------------------------------------------------------------------------
\* _coerce: a unit that is not `bd` makes the number unreadable.
Readable(word) == \A p \in DOMAIN word.given : word.given[p].unit # "bx"

\* resolve, after parse_indicators or a macro's file: what it raises on.
Accepts(word) ==
    LET ind == Registry[word.name]
        units == {p \in DOMAIN word.given : word.given[p].unit = "bd"}
    IN  /\ Readable(word) /\ word.source \in {"", "local", "eodhd"}
        /\ DOMAIN word.given \subseteq ind.params
        /\ units = {} \/ units = ind.windows

\* Value 0 is the registry's default.
Resolved(word) ==
    [name   |-> word.name,
     values |-> [p \in Registry[word.name].params |->
                    IF p \in DOMAIN word.given THEN word.given[p].value ELSE 0],
     units  |-> {p \in DOMAIN word.given : word.given[p].unit = "bd"},
     source |-> word.source]

\* parse_indicators: one word that is refused refuses the chart.  load_macros: one that is
\* refused takes its macro out of the list, and no other.
Parses(words) == \A i \in DOMAIN words : Accepts(words[i])
ParseIndicators(words) == [i \in DOMAIN words |-> Resolved(words[i])]
LoadMacros(files) == {ParseIndicators(file) : file \in {words \in files : Parses(words)}}

\* Mutant of ColSuffix: the unit is no part of the column's name.
ColSuffixUnitless(r) == [values |-> r.values, units |-> {}, source |-> r.source]

ColSuffix(r) == [values |-> r.values, units |-> r.units, source |-> r.source]
ColumnsOf(r) == {<<output, ColSuffix(r)>> : output \in Indicator(r).outputs}

----------------------------------------------------------------------------
\* panes._key: what makes two requests one.
ReqKey(r) == <<r.name, r.values, r.source, r.units>>

\* assign: the macro's requests as they are, then the picks that are not there yet, in the
\* price pane or in a pane of their own.
PlacedIn(panes, r) ==
    IF \E i \in DOMAIN panes : \E j \in DOMAIN panes[i] : ReqKey(panes[i][j]) = ReqKey(r) THEN panes
    ELSE IF Indicator(r).price THEN [panes EXCEPT ![1] = Append(@, r)] ELSE Append(panes, <<r>>)
Assigned(macro, picks) == FoldLeft(PlacedIn, <<macro>>, picks)

AllReqs(panes) == UNION {ToSet(panes[i]) : i \in DOMAIN panes}

----------------------------------------------------------------------------
\* The frame: the columns of a set of requests, and what each of them holds.
EngineOf(r, chart) == IF r.source = "" THEN chart.source ELSE r.source
\* LocalSource.series: every parameter counts, and on an intraday chart a `bd` request is
\* computed over sessions; a chart coarser than a day has bars only.
LocalClock(r, chart) ==
    IF r.units # {} /\ chart.interval \notin {"1d", "1wk"} THEN "sessions" ELSE "bars"
LocalNumbers(r, chart) ==
    [of |-> r.name, values |-> r.values, engine |-> "local", clock |-> LocalClock(r, chart)]
LocalColumns(reqs, chart) ==
    [c \in UNION {ColumnsOf(r) : r \in reqs} |->
        {LocalNumbers(r, chart) : r \in {q \in reqs : c \in ColumnsOf(q)}}]

\* eodhd_query: the vendor answers what it is sent, which is the mapped parameters.
VendorNumbers(r) ==
    [of |-> r.name, values |-> Restrict(r.values, Indicator(r).sent), engine |-> "eodhd", clock |-> "bars"]

\* EodhdSource.series and _join: every request of a chart that is not daily, and unmapped,
\* throttled and failed requests are computed here and marked; of the others the columns
\* the vendor has are joined.
VendorColumns(reqs, chart) ==
    LET asked == IF chart.interval # "1d" THEN {}
                 ELSE {r \in reqs : Indicator(r).vendor # {} /\ r.name \in chart.supplied}
        joined(r) == {c \in ColumnsOf(r) : c[1] \in Indicator(r).vendor}
    IN  [frame |-> LocalColumns(reqs \ asked, chart) @@
                   [c \in UNION {joined(r) : r \in asked} |->
                       {VendorNumbers(r) : r \in {q \in asked : c \in joined(q)}}],
         marks |-> UNION {ColumnsOf(r) : r \in reqs \ asked}]

\* build_payload: local first, and the vendor's columns onto the same frame.
BuiltChart(macro, picks, chart) ==
    LET panes == Assigned(macro, picks)
        vendor == {r \in AllReqs(panes) : EngineOf(r, chart) = "eodhd"}
        other == AllReqs(panes) \ vendor
        theirs == VendorColumns(vendor, chart)
        fallback == [frame |-> LocalColumns(vendor, chart), marks |-> UNION {ColumnsOf(r) : r \in vendor}]
        result == IF chart.vendor THEN theirs ELSE fallback
        mine == LocalColumns(other, chart)
    IN  [panes |-> panes, marks |-> result.marks,
         frame |-> [c \in DOMAIN mine \cup DOMAIN result.frame |->
                       (IF c \in DOMAIN mine THEN mine[c] ELSE {}) \cup
                       (IF c \in DOMAIN result.frame THEN result.frame[c] ELSE {})]]

\* _series_of: which engine a line says it is from.
Served(r, c, chart, marks) == IF EngineOf(r, chart) = "eodhd" /\ c \notin marks THEN "eodhd" ELSE "local"

----------------------------------------------------------------------------
\* The request a line was drawn for decides what it shows.  A column holds one request's
\* numbers, from the engine the line says they are from, and over the clock its unit asks
\* for (registry.py 202-225, panes.py 65-73, series_payload.py 57-68).  Two lines of one
\* output show the same numbers only where their requests agree in every parameter, or
\* where both are the vendor's and differ in nothing it was sent (sources.py 61-69): two
\* bands of different `k` are then the same line.  Not drawn are the columns of a mapped
\* indicator for which the vendor has no field.
Drawn(built) ==
    {<<r, c>> \in AllReqs(built.panes) \X DOMAIN built.frame : c \in ColumnsOf(r)}
LinesAreDrawn(macro, picks, chart) ==
    LET built == BuiltChart(macro, picks, chart)
        served(r, c) == Served(r, c, chart, built.marks)
    IN  /\ \A r \in AllReqs(built.panes) : \A c \in ColumnsOf(r) \ DOMAIN built.frame :
               c[1] \notin Indicator(r).vendor /\ EngineOf(r, chart) = "eodhd"
        /\ \A line \in Drawn(built) : \E shown \in built.frame[line[2]] :
               /\ built.frame[line[2]] = {shown}
               /\ shown.engine = served(line[1], line[2])
               /\ (shown.clock = "sessions") <=>
                     (line[1].units # {} /\ shown.engine = "local" /\ chart.interval = "5m")
        /\ \A one, two \in Drawn(built) :
               /\ one[2][1] = two[2][1]
               /\ built.frame[one[2]] = built.frame[two[2]]
               => \A p \in Indicator(one[1]).params :
                     \/ one[1].values[p] = two[1].values[p]
                     \/ /\ served(one[1], one[2]) = "eodhd"
                        /\ p \notin Indicator(one[1]).sent
=============================================================================
