------------------------------ MODULE KdbCache ------------------------------
(***************************************************************************)
(* ReadThroughCache (openbb-kdb/openbb_kdb/cache.py) over KdbStore         *)
(* (kdb-store/kdb_store/store.py).                                         *)
(*                                                                         *)
(* Requests are coroutines of one event loop.  A coroutine gives the loop  *)
(* up only at an upstream fetch (and while it waits for its symbol's       *)
(* lock), so the store calls of one stretch between two awaits are not     *)
(* interleaved with another request; each store call is still a step of    *)
(* its own, because q is another process and can die between any two.      *)
(***************************************************************************)
EXTENDS KdbRanges, FiniteSets

CONSTANTS
    Requests,      \* coroutines that call ReadThroughCache.get, again and again
    Symbols,       \* (symbol, interval) keys, as the caller spells them
    TableOf,       \* KdbStore.table_name: the q table of each key
    Windows,       \* the (start, end) windows a request may ask for
    MaxTime,       \* timestamps are 0..MaxTime
    StartClock,    \* the wall clock when the system starts
    Step,          \* one bar width
    DayLen,        \* one calendar day
    BarTimes,      \* stamps at which the provider has a bar (no holidays)
    OverlapBars,   \* _OVERLAP_BARS: 3 in the code
    Budget,        \* heap budget: memory_mb * watermark, in stored rows
    MaxOther,      \* heap the live-grid tick table may take, in rows
    MaxRev,        \* bound: corporate actions, all of one symbol
    MaxDeaths,     \* bound: deaths of q
    NoRow

Times  == 0..MaxTime
Tables == {TableOf[s] : s \in Symbols}
Row    == [rev : 0..MaxRev, final : BOOLEAN]
Series == [Times -> Row \cup {NoRow}]
Range2 == Nat \X Int   \* no range starts before the first stamp

ASSUME CacheBounds ==
    /\ MaxTime \in Nat /\ StartClock \in Times
    /\ Step \in Nat \ {0} /\ DayLen \in Nat \ {0}
    /\ OverlapBars \in Nat /\ Budget \in Nat /\ MaxOther \in Nat
    /\ MaxRev \in Nat /\ MaxDeaths \in Nat
    /\ BarTimes \subseteq Times
    /\ Windows \subseteq {w \in Times \X Times : w[1] <= w[2]}
    /\ TableOf \in [Symbols -> Tables]
    /\ NoRow \notin Row /\ Symbols # {}

VARIABLES
    bars,       \* bars_<SYMBOL>_<INTERVAL>: the stored series of each table
    cov,        \* .cache.cov: the ranges recorded for each key
    lru,        \* .cache.lru: <<k, l>> when k was last used no later than l
    q,          \* "up", or "down" while no q can be reached (the retry latch)
    epoch,      \* which q process this is: each death is followed by an empty q
    rev,        \* corporate actions so far: each rewrites the adjusted series
    clock,      \* the wall clock
    req,        \* the requests
    torn        \* ghost: keys whose coverage was recorded in a q process other
                \* than the one their rows were written to

store == <<bars, cov, lru>>
world == <<q, epoch, rev, clock>>
vars  == <<bars, cov, lru, q, epoch, rev, clock, req, torn>>

Sync   == {"read", "write", "record", "settle", "serve", "bypass"}
Await  == {"fetch", "refetch"}
Active == Sync \cup Await
Final  == {"done", "failed"}

Empty == [t \in Times |-> NoRow]

Boundary(x)  == LastCompleteBoundary(x.asked, Step)
LoopFree     == \A r \in Requests : req[r].pc \notin Sync
Held(s)      == \E r \in Requests : req[r].sym = s /\ req[r].pc \in Active
\* .Q.w[]'s heap, once these keys are gone and with this many ticks beside the bars.
HeapAfter(dropped, ticks) ==
    ticks + Cardinality({x \in Tables \X Times :
                                /\ x[1] \notin {TableOf[s] : s \in dropped}
                                /\ bars[x[1]][x[2]] # NoRow})

\* The provider's rows for one call: the whole days asked for, the forming bar
\* included, adjusted as of now.  A bar is final once its period has ended.
Answer(s, w) ==
    [t \in Times |->
        IF t \in BarTimes /\ t <= clock /\ Spanned(WireBounds(w, DayLen), t)
        THEN [rev |-> rev[s], final |-> t + Step <= clock]
        ELSE NoRow]

UpsertReplaces(old, new) == IF new = Empty THEN old ELSE new

\* Newer rows win, stamp by stamp (write_bars' upsert, _dedupe's keep="last").
Upsert(old, new) == [t \in Times |-> IF new[t] # NoRow THEN new[t] ELSE old[t]]
Within(series, lo, hi) ==
    [t \in Times |-> IF lo <= t /\ t <= hi THEN series[t] ELSE NoRow]

----------------------------------------------------------------------------
Earliest(R) == CHOOSE g \in R : \A h \in R : g[1] <= h[1]

\* The current gap is the earliest one left; its fetch may reach back over bars
\* that are already cached, so that the backstop can compare them.
Gap(x) == Earliest(x.plan)
IsLastGap(x) == x.plan = {Gap(x)}

FetchStart(x) ==
    LET floor == Greater(Earliest(x.eff)[1], Gap(x)[1] - Step * OverlapBars)
    IN  IF x.backstop /\ IsLastGap(x) /\ x.eff # {} /\ floor < Gap(x)[1]
        THEN floor ELSE Gap(x)[1]
Compares(x) == FetchStart(x) < Gap(x)[1]
Wire(x)     == DayRange(<<FetchStart(x), Gap(x)[2]>>, Step, DayLen)

\* _adjusted_history_changed.  A half-formed bar and the finished one differ too.
HistoryChanged(x) ==
    \E t \in Times : /\ x.overlap[t] # NoRow /\ x.batch[t] # NoRow
                     /\ x.overlap[t] # x.batch[t]

Idle == [pc |-> "idle", sym |-> CHOOSE s \in Symbols : TRUE,
         win |-> <<0, 0>>, asked |-> 0, backstop |-> TRUE, eff |-> {}, plan |-> {},
         batch |-> Empty, overlap |-> Empty, got |-> Empty, logged |-> {},
         served |-> Empty, via |-> "none",
         wroteIn |-> 0, disturbed |-> FALSE, steady |-> TRUE, extends |-> FALSE]

Init ==
    /\ bars = [b \in Tables |-> Empty]
    /\ cov = [s \in Symbols |-> {}]
    /\ lru = {}
    /\ q = "up" /\ epoch = 0
    /\ rev = [s \in Symbols |-> 0]
    /\ clock = StartClock
    /\ req = [r \in Requests |-> Idle]
    /\ torn = {}

\* get: the request obtains its symbol's lock and reads the clock.
Begin(r, s, w) ==
    /\ req[r].pc \in {"idle"} \cup Final /\ LoopFree /\ ~Held(s)
    /\ req' = [req EXCEPT ![r] =
                [Idle EXCEPT !.pc = "read", !.sym = s, !.win = w, !.asked = clock]]
    /\ UNCHANGED <<store, world, torn>>

RecordedUntrimmed(x) == {Wire(x)}

\* What record_coverage is called with: nothing past the last complete bar.
Recorded(x) == TrimTail(Wire(x), Boundary(x))

\* The next store call of a running request; an empty answer is not written and
\* a range beyond the boundary is not recorded, so those make no call.
NeedsQ(r) ==
    LET x == req[r] IN
    \/ x.pc \in {"read", "settle", "serve"}
    \/ x.pc = "write" /\ x.batch # Empty
    \/ x.pc = "record" /\ (Recorded(x) # {} \/ (Compares(x) /\ HistoryChanged(x)))

\* Any store call while no q can be reached raises; _get turns that into a bypass.
Degrade(r) ==
    /\ NeedsQ(r) /\ q = "down"
    /\ req' = [req EXCEPT ![r].pc = "bypass"]
    /\ UNCHANGED <<store, world, torn>>

OneSeries(series) ==
    \A t, u \in Times : series[t] # NoRow /\ series[u] # NoRow
                            => series[t].rev = series[u].rev

\* Ghost: the request only extends one contiguous, uniformly adjusted stretch of
\* coverage, and the backstop has a bar to compare.
PlainExtension(x, eff, plan) ==
    \E e \in eff : /\ eff = {e}
                   /\ plan = {<<e[2] + Step, x.win[2]>>}
                   /\ OneSeries(Within(bars[TableOf[x.sym]], 0, e[2]))
                   /\ \E t \in BarTimes : /\ e[2] - Step * OverlapBars < t
                                          /\ e[1] <= t /\ t <= e[2]

\* _pass up to its loop: what is covered, and which gaps are left.
ReadCoverage(r) ==
    LET x    == req[r]
        eff  == UNION {TrimTail(c, Boundary(x)) : c \in Coalesce(cov[x.sym], Step)}
        plan == Subtract(x.win, eff, Step)
    IN  /\ x.pc = "read" /\ q = "up"
        /\ req' = [req EXCEPT
             ![r].pc = IF plan = {} THEN "settle" ELSE "fetch",
             ![r].eff = eff, ![r].plan = plan,
             ![r].via = IF plan = {} THEN "hit" ELSE IF eff # {} THEN "partial" ELSE "miss",
             ![r].extends = IF x.backstop THEN PlainExtension(x, eff, plan) ELSE @,
             ![r].disturbed = @ \/ x.sym \in torn]
        /\ UNCHANGED <<store, world, torn>>

FetchReturnsLateOverlap(r) ==
    LET x == req[r]
        rows == Answer(x.sym, Wire(x))
    IN  /\ x.pc = "fetch" /\ LoopFree
        /\ req' = [req EXCEPT
             ![r].pc = IF Compares(x) /\ q = "down" THEN "bypass" ELSE "write",
             ![r].batch = rows,
             ![r].overlap = IF Compares(x) /\ q = "up"
                            THEN Within(Upsert(bars[TableOf[x.sym]], rows), FetchStart(x),
                                        Lesser(Gap(x)[1] - Step, Boundary(x)))
                            ELSE Empty,
             ![r].got = Upsert(@, rows), ![r].logged = @ \cup {Wire(x)}]
        /\ UNCHANGED <<store, world, torn>>

\* The awaited fetch returns: the log grows, and the overlap is read back before
\* the new rows are stored.
FetchReturns(r) ==
    LET x == req[r]
        rows == Answer(x.sym, Wire(x))
    IN  /\ x.pc = "fetch" /\ LoopFree
        /\ req' = [req EXCEPT
             ![r].pc = IF Compares(x) /\ q = "down" THEN "bypass" ELSE "write",
             ![r].batch = rows,
             ![r].overlap = IF Compares(x) /\ q = "up"
                            THEN Within(bars[TableOf[x.sym]], FetchStart(x),
                                        Lesser(Gap(x)[1] - Step, Boundary(x)))
                            ELSE Empty,
             ![r].got = Upsert(@, rows), ![r].logged = @ \cup {Wire(x)}]
        /\ UNCHANGED <<store, world, torn>>

FetchFails(r) ==
    /\ req[r].pc = "fetch" /\ LoopFree
    /\ req' = [req EXCEPT ![r].pc = "bypass"]
    /\ UNCHANGED <<store, world, torn>>

WriteBars(r) ==
    LET x == req[r] IN
    /\ x.pc = "write" /\ (NeedsQ(r) => q = "up")
    /\ bars' = [bars EXCEPT ![TableOf[x.sym]] = Upsert(@, x.batch)]
    /\ req' = [req EXCEPT ![r].pc = "record", ![r].wroteIn = IF NeedsQ(r) THEN epoch ELSE -1]
    /\ UNCHANGED <<cov, lru, world, torn>>

\* KdbStore.drop of a set of keys: their tables, coverage and LRU entries.
Drop(keys) ==
    /\ bars' = [b \in Tables |-> IF b \in {TableOf[s] : s \in keys} THEN Empty ELSE bars[b]]
    /\ cov' = [s \in Symbols |-> IF s \in keys THEN {} ELSE cov[s]]

\* The loop variables of one gap are gone when the next one starts.
NextFetch(x, rest) ==
    [x EXCEPT !.plan = rest, !.pc = IF rest = {} THEN "settle" ELSE "fetch",
              !.batch = Empty, !.overlap = Empty, !.wroteIn = 0]

\* record_coverage, then the corporate-action backstop; on to the next gap,
\* to the second pass, or out of the loop.
RecordCoverage(r) ==
    LET x == req[r]
        rest == x.plan \ {Gap(x)}
    IN  /\ x.pc = "record" /\ (NeedsQ(r) => q = "up")
        /\ IF Compares(x) /\ HistoryChanged(x)
           THEN /\ Drop({x.sym})
                /\ lru' = {p \in lru : x.sym \notin {p[1], p[2]}}
                /\ torn' = torn \ {x.sym}
                /\ req' = [req EXCEPT ![r] = [NextFetch(x, {}) EXCEPT
                                                !.pc = "read", !.backstop = FALSE]]
           ELSE /\ cov' = [cov EXCEPT ![x.sym] = @ \cup Recorded(x)]
                /\ torn' = IF Recorded(x) # {} /\ x.wroteIn \in 0..epoch - 1
                           THEN torn \cup {x.sym} ELSE torn
                /\ req' = [req EXCEPT ![r] = NextFetch(x, rest)]
                /\ UNCHANGED <<bars, lru>>
        /\ UNCHANGED world

\* touch: s becomes the key used last.
Touched(s) == {p \in lru : s \notin {p[1], p[2]}}
                \cup {<<k, s>> : k \in {p[1] : p \in lru} \cup {s}}

\* touch, then evict_until_below: an entry goes while the heap is still above
\* the budget once every older entry is gone.  live-grid's tick table shares q's
\* heap and is whatever size it is when the heap is measured.
Settle(r, ticks) ==
    LET order == Touched(req[r].sym)
        Older(k) == {j \in Symbols \ {k} : <<j, k>> \in order}
        evicted == {k \in Symbols : /\ <<k, k>> \in order
                                    /\ \A j \in Older(k) \cup {k} :
                                          HeapAfter(Older(j), ticks) > Budget}
    IN  /\ req[r].pc = "settle" /\ q = "up"
        /\ Drop(evicted)
        /\ lru' = {p \in order : p[1] \notin evicted /\ p[2] \notin evicted}
        /\ torn' = torn \ evicted
        /\ req' = [o \in Requests |->
                     [req[o] EXCEPT
                        !.pc = IF o = r THEN "serve" ELSE @,
                        !.disturbed = @ \/ (req[o].pc \in Active /\
                                            TableOf[req[o].sym] \in {TableOf[k] : k \in evicted})]]
        /\ UNCHANGED world

\* The call returns: its rows and its label, none of its locals.
Answered(x, via, rows) ==
    [x EXCEPT !.pc = "done", !.served = rows, !.via = via, !.plan = {}, !.eff = {},
              !.batch = Empty, !.overlap = Empty, !.got = Empty, !.logged = {},
              !.wroteIn = 0]

Serve(r) ==
    LET x == req[r] IN
    /\ x.pc = "serve" /\ q = "up"
    /\ req' = [req EXCEPT ![r] =
                 Answered(x, x.via, Within(bars[TableOf[x.sym]], x.win[1], x.win[2]))]
    /\ UNCHANGED <<store, world, torn>>

----------------------------------------------------------------------------
BypassPlanAll(r) ==
    LET x == req[r] IN
    /\ x.pc = "bypass"
    /\ req' = [req EXCEPT ![r] = [x EXCEPT !.pc = "refetch", !.plan = {x.win}]]
    /\ UNCHANGED <<store, world, torn>>

\* _bypass: fetch what this call has not fetched yet, then hand back everything
\* it fetched.
BypassPlan(r) ==
    LET x == req[r]
        left == Subtract(x.win, x.logged, Step)
    IN
    /\ x.pc = "bypass"
    /\ req' = [req EXCEPT ![r] =
                 IF left = {} THEN Answered(x, "bypass", x.got)
                 ELSE [x EXCEPT !.pc = "refetch", !.plan = left]]
    /\ UNCHANGED <<store, world, torn>>

BypassReturns(r) ==
    LET x == req[r]
        got  == Upsert(x.got, Answer(x.sym, Gap(x)))
        rest == x.plan \ {Gap(x)}
    IN  /\ x.pc = "refetch" /\ LoopFree
        /\ req' = [req EXCEPT ![r] =
                     IF rest = {} THEN Answered(x, "bypass", got)
                     ELSE [x EXCEPT !.got = got, !.logged = @ \cup {Gap(x)},
                                    !.plan = rest]]
        /\ UNCHANGED <<store, world, torn>>

\* There is no third fallback: the provider's own error reaches the caller.
BypassFails(r) ==
    /\ req[r].pc = "refetch" /\ LoopFree
    /\ req' = [req EXCEPT ![r] = [Answered(req[r], "bypass", Empty) EXCEPT
                                    !.pc = "failed"]]
    /\ UNCHANGED <<store, world, torn>>

----------------------------------------------------------------------------
\* The environment.  q dies (crossing -w kills it) and the next call finds an
\* empty one, or none until the retry latch expires.
QDies ==
    /\ q = "up" /\ epoch < MaxDeaths
    /\ epoch' = epoch + 1
    /\ q' \in {"up", "down"}
    /\ bars' = [b \in Tables |-> Empty]
    /\ cov' = [s \in Symbols |-> {}]
    /\ lru' = {} /\ torn' = {}
    /\ req' = [r \in Requests |->
                 [req[r] EXCEPT !.disturbed = @ \/ req[r].pc \in Active]]
    /\ UNCHANGED <<rev, clock>>

QReturns ==
    /\ q = "down" /\ q' = "up"
    /\ UNCHANGED <<store, epoch, rev, clock, req, torn>>

CorporateAction(s) ==
    /\ rev[s] < MaxRev /\ \A k \in Symbols \ {s} : rev[k] = 0
    /\ rev' = [rev EXCEPT ![s] = @ + 1]
    /\ req' = [r \in Requests |->
                 [req[r] EXCEPT !.steady = @ /\ ~(req[r].pc \in Active /\ req[r].sym = s)]]
    /\ UNCHANGED <<store, q, epoch, clock, torn>>

Tick ==
    /\ clock < MaxTime /\ clock' = clock + 1
    /\ UNCHANGED <<store, q, epoch, rev, req, torn>>

----------------------------------------------------------------------------
Advance(r) ==
    \/ Degrade(r)        \/ ReadCoverage(r)  \/ FetchReturns(r) \/ FetchFails(r)
    \/ WriteBars(r)      \/ RecordCoverage(r) \/ Serve(r)
    \/ BypassPlan(r)     \/ BypassReturns(r) \/ BypassFails(r)
    \/ \E ticks \in 0..MaxOther : Settle(r, ticks)

Environment ==
    \/ QDies \/ QReturns \/ Tick
    \/ \E s \in Symbols : CorporateAction(s)

Next ==
    \/ \E r \in Requests :
          \/ \E s \in Symbols, w \in Windows : Begin(r, s, w)
          \/ Advance(r)
    \/ Environment

Spec == Init /\ [][Next]_vars

----------------------------------------------------------------------------
ReqType ==
    [pc : {"idle"} \cup Active \cup Final, sym : Symbols, win : Times \X Times,
     asked : Times, backstop : BOOLEAN, eff : SUBSET Range2, plan : SUBSET Range2,
     batch : Series, overlap : Series, got : Series, logged : SUBSET Range2,
     served : Series, via : {"none", "hit", "partial", "miss", "bypass"},
     wroteIn : -1..MaxDeaths, disturbed : BOOLEAN, steady : BOOLEAN, extends : BOOLEAN]

\* Every variable holds what its declaration says.
TypeOK ==
    /\ bars \in [Tables -> Series]
    /\ cov \in [Symbols -> SUBSET Range2]
    /\ lru \subseteq Symbols \X Symbols
    /\ q \in {"up", "down"} /\ epoch \in 0..MaxDeaths
    /\ rev \in [Symbols -> 0..MaxRev] /\ clock \in Times
    /\ req \in [Requests -> ReqType]
    /\ torn \subseteq Symbols

Finished(row) == row # NoRow /\ row.final

\* A stamp `.cache.cov` calls covered has its finished bar in the table whenever
\* the provider has that bar, so a hit on it is never a false one -- unless q
\* died between write_bars and record_coverage (_pass, cache.py 312-320).
CoverageBacked ==
    \A s \in Symbols \ torn : \A t \in BarTimes :
        CoversStamp(cov[s], t) => Finished(bars[TableOf[s]][t])

\* An answer holds every bar of the window that existed when it was asked for.
\* The one exception is a request whose rows left the store while it ran
\* (evict_until_below, a dead q), and a bypass has no exception at all.
\* It is said of windows that begin and end at bar stamps: subtract ends a gap one step
\* before the covered range that follows it, and of weekly or monthly bars a covered range
\* that begins inside a period then hides the bar of that period.
Complete(x) == \A t \in BarTimes : x.win[1] <= t /\ t <= x.win[2] /\ t <= x.asked
                                      => x.served[t] # NoRow
ServedComplete ==
    \A r \in Requests : req[r].pc = "done" =>
        Complete(req[r]) \/ (req[r].disturbed /\ req[r].via # "bypass")

\* A split or dividend is noticed by the first request that extends the cached
\* stretch: it never hands back a series adjusted two ways.
BackstopCatchesRewrite ==
    \A r \in Requests :
        LET x == req[r] IN
        x.pc = "done" /\ x.extends /\ x.steady /\ ~x.disturbed /\ x.via # "bypass"
            => OneSeries(x.served)

\* cache.py 6: "Serve what is cached, fetch only what is missing, store it, return
\* the merge."  Nothing there excuses an answer with a hole; eviction makes one.
AnswerIsTheMerge ==
    \A r \in Requests : req[r].pc = "done" => Complete(req[r])

\* cache.py 276-280 accepts stale adjusted values "until some request touches the
\* tail".  A request that reaches past the last complete bar does touch it.
TailRequestIsUniform ==
    \A r \in Requests :
        LET x == req[r] IN
        x.pc = "done" /\ x.steady /\ ~x.disturbed /\ x.via # "bypass"
          /\ x.win[2] > LastCompleteBoundary(x.asked, Step) => OneSeries(x.served)

\* What a request has paid the network for is not fetched again when the store
\* fails under it (_bypass).
BypassPaysOnce ==
    \A r \in Requests : req[r].pc = "refetch" =>
        \A g \in req[r].plan, t \in BarTimes :
            Spanned(g, t) => ~CoversStamp(req[r].logged, t)
============================================================================
