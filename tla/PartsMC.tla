------------------------------- MODULE PartsMC -------------------------------
(***************************************************************************)
(* The parts of the system that share no state, one at a time: an initial  *)
(* state chooses the part that moves, every other one stays as it begins.  *)
(* The constants that are sequences or functions are defined here, the     *)
(* rest in the configurations.                                             *)
(***************************************************************************)
EXTENDS LiveGrid, ChartStream, VendorQuota, LiveSeries, SqlExecutions, TemporalStore,
        Identity, EodhdCalendar, EodhdBundle, EodhdFetchers, Studies, DayTables,
        KdbRangesLoops, ChartRequests, SipBackfill, DeltaReads, LiveQuotes, TLC

CONSTANTS
    Parts,                           \* the parts that move
    AAA, BBB, CCC, us, crypto, S1    \* symbols and feeds

TwoFeeds      == <<us, crypto>>
FeedOfSymbol  == AAA :> us @@ CCC :> crypto
OneSymbol     == <<S1>>
ReadWindows   == {<<Unset, Unset>>, <<1, 4>>, <<2, Unset>>, <<Unset, 3>>}
\* One symbol that stays in the index and one that leaves it on the Tuesday of the last
\* week; the passes start on the Wednesday after week 2, after 02:05 New York.
StaysAndLeaves == AAA :> <<-100, 1000>> @@ BBB :> <<-100, 15>>
WednesdayMorning == 4 * 23 + 1
TwoProcesses  == "a" :> 1 @@ "b" :> 1 @@ "c" :> 2

VARIABLES
    part,     \* the part that moves
    input     \* what a part that only computes is given

PartsVars == <<part, input, gridVars, chartVars, vendorVars, sqlVars, storeVars, calVars,
               bundleVars, dayVars, covered, sipVars, quoteVars>>

----------------------------------------------------------------------------
\* What the parts that only compute are given.
Seams ==
    UNION {[history : SUBSET {t \in 0..5 : t % width = 0}, ticks : SUBSET (0..5),
            width : {width}, end : [at : 0..5, date : BOOLEAN]] : width \in 2..4}

Bindings ==
    UNION {[known : SUBSET held, held : {held}, at : Moments, cutoff : {TRUE}] \cup
           [known : {held}, held : {held}, at : Moments, cutoff : {FALSE}] :
               held \in UNION {kSubset(k, Aliases) : k \in 0..2}}

VendorRows == [day : 0..2, value : BOOLEAN, key : BOOLEAN]
WithoutRows == [kind : {"denied", "failed", "payload", "rows"}, rows : {<< >>}, sections : {{}}]
WithRows(most) == [kind : {"rows"}, rows : BoundedSeq(VendorRows, most), sections : {Sections}]
Replies == [reply : WithoutRows \cup WithRows(2), other : WithoutRows \cup WithRows(1)]

\* The words of a chart request, one of them perhaps from a macro, which draws in the price
\* pane, and the chart it is for.
GivenNumbers(units) == [value : {1}, unit : units]
Words ==
    [name : {"sma"}, source : {"", "local", "eodhd", "typo"},
     given : {<< >>} \cup [period : GivenNumbers({"", "bd", "bx"})]] \cup
    [name : {"bbands"}, source : {"", "eodhd"},
     given : {<< >>} \cup [period : GivenNumbers({"bd"})] \cup [k : GivenNumbers({"", "bd"})]] \cup
    [name : {"adx"}, source : {"", "eodhd"}, given : {<< >>}] \cup
    [name : {"obv"}, source : {"eodhd"}, given : {<< >>}]
Files == {<< >>} \cup {<<word>> : word \in {w \in Words : w.name = "sma" /\ w.source \in {"", "typo"} /\ w.given # << >>}}
PickLists == {ParseIndicators(pair) : pair \in {p \in Words \X Words : Parses(p)}}
DayCharts == [interval : {"1d"}, vendor : {TRUE}, supplied : {{}, {"sma", "bbands"}, {"bbands", "adx"}}]
OtherCharts == [interval : {"5m", "1wk"}, vendor : {TRUE}, supplied : {{"sma", "bbands", "adx"}}] \cup
               [interval : {"1d"}, vendor : {FALSE}, supplied : {{}}]
Charts == [picks : PickLists, macro : LoadMacros(Files), source : {"local", "eodhd"},
           of : DayCharts \cup OtherCharts]

\* Tables of up to three trades in order of time, in files of strictly later ones.
Trades == [at : 0..3, price : {1, 2}, size : {0, 2}]
InOrder == {t \in BoundedSeq(Trades, 3) : t # <<>> /\ \A i \in 2..Len(t) : t[i-1].at <= t[i].at}
Cuts(t) ==
    {k \in SUBSET (0..Len(t)) :
        /\ {0, Len(t)} \subseteq k
        /\ \A i \in k \ {0, Len(t)} : t[i].at < t[i+1].at}
CutAt(t, k) ==
    LET ends == SetToSortSeq(k, <) IN [i \in 1..Len(ends)-1 |-> SubSeq(t, ends[i] + 1, ends[i+1])]
WrittenInTurn(parts) == FoldLeft(Appended, Written(Head(parts)), Tail(parts))
Grown == UNION {{WrittenInTurn(CutAt(t, k)) : k \in Cuts(t)} : t \in InOrder}

Given ==
    CASE part = "seam"     -> Seams
      [] part = "identity" -> Bindings
      [] part = "fetchers" -> Replies
      [] part = "studies"  -> [bars : 1..16, offset : -2..1]
      [] part = "requests" -> Charts
      [] part = "delta"    -> Grown
      [] OTHER             -> {<< >>}

Init ==
    /\ part \in Parts /\ input \in Given
    /\ GridInit
    /\ ChartInit /\ (part # "chart" => study = "causal")
    /\ VendorInit /\ SqlInit /\ StoreInit
    /\ CalInit /\ (part # "calendar" => \A d \in DOMAIN events : events[d] = 0)
    /\ BundleInit /\ (part # "bundle" => l2 = "none")
    /\ DayInit /\ LoopsInit /\ SipInit /\ QuoteInit

----------------------------------------------------------------------------
\* The part that moves leaves the others alone.
Only(p) ==
    /\ part = p /\ UNCHANGED <<part, input>>
    /\ IF p = "grid" THEN TRUE ELSE UNCHANGED gridVars
    /\ IF p = "chart" THEN TRUE ELSE UNCHANGED chartVars
    /\ IF p = "quota" THEN TRUE ELSE UNCHANGED vendorVars
    /\ IF p = "sql" THEN TRUE ELSE UNCHANGED sqlVars
    /\ IF p = "store" THEN TRUE ELSE UNCHANGED storeVars
    /\ IF p = "calendar" THEN TRUE ELSE UNCHANGED calVars
    /\ IF p = "bundle" THEN TRUE ELSE UNCHANGED bundleVars
    /\ IF p = "days" THEN TRUE ELSE UNCHANGED dayVars
    /\ IF p = "ranges" THEN TRUE ELSE UNCHANGED covered
    /\ IF p = "sip" THEN TRUE ELSE UNCHANGED sipVars
    /\ IF p = "quote" THEN TRUE ELSE UNCHANGED quoteVars

Grid          == Only("grid") /\ GridNext
Chart         == Only("chart") /\ ChartNext
Quota         == Only("quota") /\ VendorNext
Sql           == Only("sql") /\ SqlNext
Store         == Only("store") /\ StoreNext
EventCalendar == Only("calendar") /\ CalNext
Fundamentals  == Only("bundle") /\ BundleNext
TickArchive   == Only("days") /\ DayNext
Coverage      == Only("ranges") /\ LoopsNext
Backfill      == Only("sip") /\ SipNext
Quotes        == Only("quote") /\ QuoteNext

Next == Grid \/ Chart \/ Quota \/ Sql \/ Store \/ EventCalendar \/ Fundamentals \/ TickArchive \/ Coverage
        \/ Backfill \/ Quotes

\* The drain loop of the live grid runs for ever and a stopped container is restarted; so
\* does the backfill, while the clock and the vendor go on; the event loop of a quote runs
\* what is ready and its timers.
Spec ==
    /\ Init /\ [][Next]_PartsVars
    /\ WF_gridVars(part = "grid" /\ Loop) /\ WF_gridVars(part = "grid" /\ Restart)
    /\ WF_sipVars(part = "sip" /\ Proceeds)
    /\ \A a \in Askers : /\ WF_quoteVars(part = "quote" /\ QuoteSteps(a))
                        /\ WF_quoteVars(part = "quote" /\ Deadline(a))

----------------------------------------------------------------------------
\* The loops of kdb-store give what is missing from a list of ranges, and give what the
\* operators of the cache's model give (ranges.py 20-93).
SubtractIsExact == part = "ranges" => SubtractExact /\ LoopsAgree

\* The parts that only compute: their properties, of what they are given.

\* Bars from ticks and bars from history meet without a gap or a repeat (series.py 4-12).
SeamsAreClean ==
    part = "seam" => SeamIsClean(input.history, input.ticks, input.width, input.end)

\* A name or a stable id binds one security or is refused (identity.py 53-97, odp.py 166-212).
BindsAreSafe ==
    part = "identity" => OneCandidateIsBound(input.known, input.held, input.at, input.cutoff)

\* No fetcher shows a refusal as an empty answer (_client.py 76-105), except a country profile
\* whose every series was refused (macro.py 430-443), and of the error objects that come with
\* HTTP 200 those of the fetchers that EodhdFetchers names.
NoRefusalIsLost == part = "fetchers" => RefusalsAreTold(input.reply, input.other)

\* A bar that has been sent and is not sent again is never wrong later, of any request whose
\* offset looks back.  Of one that looks ahead, the rows that ClosedRowsStay names are wrong
\* later, and no others (payload.py 258-304).
NoClosedRowMoves == part = "studies" => ClosedRowsStay(input.bars, input.offset)

\* The newest rows of a Delta table and its bars are those of all its trades
\* (store.py 223-256, historical.py 76-148).
DeltaReadsAreExact ==
    part = "delta" =>
        /\ TailIsNewest(input)
        /\ \A fine \in {1, 2}, coarse \in {2, 3, 4} : BarsCompose(input, fine, coarse)

\* Every week is loaded in the end (sip_backfill.py 796-831).
WeeksAreWorkedOff == part = "sip" => BacklogIsWorkedOff

\* Every line of a chart shows what its own request asks of the engine it names, and two
\* lines are alike only as far as that engine can tell them apart (registry.py 202-225,
\* sources.py 61-69).
LinesAreTheirOwn == part = "requests" =>
    LinesAreDrawn(input.macro, input.picks, [source |-> input.source] @@ input.of)
=============================================================================
