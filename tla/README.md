# TLA+ models of the OpenBB docker stack

This directory holds TLA+ models of the parts of the repository that keep state,
decide or compute, the TLC configurations that check them on small instances, and
TLAPS proofs about the core. Source lines below are those of the commit beside this
directory; `PROJECT.json` maps every definition to the lines it stands for, and lists
the hazards of the code with the properties that are about them.

    tlc -workers 2 -config KdbCacheMC.cfg KdbCacheMC     # model-check one run
    tlc -workers 2 -config Parts.cfg PartsMC             # the parts that stand alone
    tlapm KdbCacheProofs.tla                             # check proofs

## Inventory of the system

The repository packages OpenBB with home-grown providers and services. What
keeps state, and what can go wrong in it:

| Component | State | Operations | Hard part |
|---|---|---|---|
| kdb-store `ranges.py` | none | coalesce, subtract, trim_tail | ends off the grid, inverted gaps |
| openbb-kdb `cache.py` (`ReadThroughCache`) | per-key locks, fetch log of a call | get, `_pass`, `_bypass` | awaits in the middle of read-modify-write over a store that evicts and dies |
| kdb-store `store.py` (`KdbStore`) | bars, `.cache.cov`, `.cache.lru`, tick table, all inside q | read, write, record, touch, drop, evict | q loses everything when it dies; nothing spans two calls |
| kdb-store `session.py` (`KdbSession`) | connection, child process, retry latch, one-worker executor | run, `_connection`, `_spawn`, close | threads, a child process, retries, shutdown |
| openbb-kdb fetchers, `quote.py`, `leasing.py` | none | call the cache, ask live-grid for leases, wait for a tick | deadlines that are timers of an event loop the store's calls block |
| live-grid `feeds.py`, `leases.py`, `watchlist.py`, `main.py` | feeds by provider, leases, the watchlist file | register, unregister, sync, liveness check, sweep | awaits inside rebuilds, silent feeds, expiring leases |
| live-grid `quotes.py`, `recorder.py`, `series.py` | latest quotes, tick buffer, chart series | push, flush, join | full buffers, failed flushes, the seam between history and ticks |
| live-grid `ta/*` | vendor cache and its stamps, what a socket was sent | parse, resolve, compute, push a tail of rows | which rows can still change, which request a column belongs to, billed calls |
| security-master-api `store/jobs.py`, `acquire/*` | append-only job events | create, claim, emit, cancel | two workers and several requests over one event log without transactions |
| security-master-api `sql/*` | executions in memory | submit, page, cancel, expire | slots and threads |
| security-master-api `resolver/*`, `store/tables` | append-only assertions, receipts | promote, supersede, read as of, bind an identifier | which assertion counts, as of when, while writers go on |
| scripts `sip_backfill.py` | progress and blacklist files, tick tables | load week, retry, settle, daily pass | restarts, symbols moving between lists, a budget |
| `persist.q`, scripts `eod_dump.py`, openbb-deltalake, `mcp_stores` reads | ticks in q and its log, one Delta table per symbol and day | tick, prune, dump, read across days | a dump that runs again later, reads that span tables while one is written |
| openbb-eodhd | in-process and shared cache of fundamentals | about forty fetchers | paging, refusals that look like empty answers, paid calls |
| openbb-security-master, stores-explorer, tick-lab, key-maint, api_app, containers | little or none | request mapping, views, one-shot commands | no protocol |

Interactions. A fetcher of `openbb-kdb` awaits `ReadThroughCache.get`. The cache
calls `KdbStore` method by method; each method is one task for the single worker
thread of `KdbSession`, which owns the only q connection and, where it may, the
q process. live-grid writes ticks into the same q, so its tick table takes heap
the cache's eviction then has to find. live-grid's feeds are kept alive by the
leases the fetchers ask for. security-master-api, the backfill and tick-lab share
Delta tables on disk.

What makes the parts correct:

* ranges: what was fetched is known as fetched, what was not is fetched, exactly.
* cache: a covered stamp has its bar; an answer is complete; a split or dividend
  is noticed; a store failure costs the network nothing twice.
* session: one q child at most, supervised at all times; a connection is never
  used before its schema; a failure is latched for an interval, never for good; every
  call returns.
* feeds and leases: the running feeds come to follow what is wanted, with one client a
  feed; an expired lease leaves, a renewed one stays; the tick counters add up.
* charts: a line shows its own request's numbers, as far as the vendor is told of the
  request; a bar that is not sent again is never wrong later, unless the request looks
  ahead; after a push the client shows what the server has; a vendor indicator
  is billed once a bar; history and ticks meet exactly.
* SQL: the budget is kept and given back on every way out; a cancel is not lost.
* resolver: the past stays as it was known; no day goes missing while it is replaced; a
  receipt reproduces its answer (one of a single manifest always, one of several manifests
  where it asks about a past that no job works on any more); an identifier binds one security
  or none.
* EODHD: a refusal is told (by all fetchers but a country profile, and an error object under
  HTTP 200 by those that look for it), a calendar is walked exactly (violated for a day of more
  than a page), a bundle is bought once.
* jobs: a job queued is taken up, a job claimed ends in its log, a cancel stops
  further calls, a refused job promotes nothing, one winner per job (violated).
* backfill: after its first pass a week has every member on a list, a settle pass leaves
  no hole its lists do not admit but a day its own requests passed over, and every week is reached in the end.
* tick archive: a read as of a moment is what was held at that moment; dumping a day
  again loses nothing (violated).

## Modules

| Module | What it is |
|---|---|
| `KdbRanges` | the coverage arithmetic as operators on sets of ranges |
| `KdbRangesLoops` | the loops of `ranges.py` transcribed, compared with `KdbRanges` and with what a caller needs |
| `KdbCache`, `KdbCacheMC` | the read-through cache over the store: requests, rows, coverage, LRU, the q process, the provider |
| `KdbSession` | the session: threads, the worker, the link chain, the latch, close, and the q processes around it |
| `AcquisitionJobs`, `AcquisitionJobsMC` | the acquisition job log, its workers and the API threads that create and cancel jobs |
| `TemporalStore` | one Silver relation through time: jobs that promote and supersede, reads as of a moment, receipts |
| `Identity` | which securities a name or an id may mean, and when one is bound |
| `SqlExecutions` | the threads of guarded SQL: start, permit, run, cancel, page, expire |
| `ScanBudget` | what the budget of guarded SQL promises; `SqlExecutions` implements it |
| `LiveGrid` | live-grid's registrations, leases, watchlist, feeds, drain loop and tick recorder |
| `LiveSeries` | the join of cached history and recorded ticks |
| `LiveQuotes` | a quote: lease, wait for a tick, yesterday's close, delayed fallback |
| `ChartRequests` | from the words of a chart request to the columns and lines that are drawn |
| `Studies` | every indicator by the bars its values read |
| `ChartStream` | chart sockets: full pushes, tails of rows, what the client merges |
| `VendorQuota` | the cache and the stamp that space billed vendor calls |
| `SipBackfill` | the tick backfill: scheduler, passes, progress, daily and blacklist files |
| `DayTables` | ticks in q, its log, the rolling window, the end-of-day dump, reads across day tables |
| `DeltaReads` | appended Delta tables: newest rows, description, bars of trades and of finer bars |
| `EodhdFetchers` | what each EODHD fetcher makes of each kind of reply |
| `EodhdCalendar` | the windowed walk through the economic calendar |
| `EodhdBundle` | the shared fundamentals payload: in-process entry, lock, shared table |
| `PartsMC` | the modules that share no state with each other, checked one at a time |
| `KdbCacheProofs`, `KdbAnswersProofs` | theorems about the cache: what it records, what it answers |
| `KdbSessionProofs`, `AcquisitionJobsProofs` | theorems about the session and the job log |
| `LiveGridProofs` | theorems about `LiveGrid`, `ChartStream`, `LiveSeries`, `Studies` and `DayTables` |
| `SecurityMasterProofs` | theorems about `SqlExecutions`, `TemporalStore` and `Identity` |
| `VendorProofs` | theorems about the talks with vendors: `VendorQuota`, `EodhdBundle`, `EodhdCalendar`, `SipBackfill` |
| `IntegerSets` | lemmas these proofs share: least and greatest elements, places in an order, quotients |

`PartsMC` is not a composition. Those parts meet only in tables and tick streams that
each model holds itself; its initial states choose one part, `Only` keeps the others
still, and its properties are those of the modules. One run therefore explores the sum
of the parts' state spaces and never their product.

### KdbRanges and KdbRangesLoops

A range is a pair of integers, both ends inclusive; `step` is one bar. A Python
list of ranges is a set, since the code sorts before each use. `Coalesce` and
`Subtract` say what the loops leave behind without running them, which is what
lets TLAPS reason about them (`KdbRangesLoops` has recursive loops and is left to
TLC). One detail that is easy to lose is kept: the early `return gaps` inside
`subtract` skips the filter at the end, so an inverted gap can be returned.

### KdbCache

`req[r]` holds the locals of one coroutine of `get`, `pc` where it stands:

    read -> fetch -> write -> record -> (fetch ... | read | settle) -> serve -> done
                 \-> bypass -> refetch -> done | failed

* A coroutine yields only while it waits for its lock or for the network
  (`fetch`, `refetch`). Every other step is one store call, and the store calls
  between two awaits are not interleaved with another request (`LoopFree`). They
  are separate steps all the same because q is another process and may die
  between any two of them (`QDies`).
* Three merges, each harmless: `record_coverage` and the drop of the corporate
  action backstop are one step, `touch` and `evict_until_below` are one step, and
  the store calls of one eviction are one step. q keeps nothing across a death,
  so a death inside such a step leaves what a death just before or after leaves.
* The data are a revision number and a finished flag per row: enough to tell a
  half-formed bar from a finished one, and rows of one adjustment from another's.
  `HistoryChanged` compares whole rows, as `_adjusted_history_changed` does.
* A key's lock is taken as held from `Begin` to the end. The pruning of the lock
  table (`_prune_locks`) is not in the model: an entry deleted between a release and the
  waiter's turn would let a third request in beside the waiter.
* `lru` orders the keys by last access, as the timestamps of `.cache.lru` do.
* The heap of q is counted in rows; live-grid's tick table takes any number of
  them up to `MaxOther`.
* All requests are of one event loop: the locks are keyed by (loop, symbol, interval) (cache.py
  135-146), so requests of two loops over one store would not wait for each other. The
  boundary between finished and forming bars and the provider's stamps are of one clock in
  the model; the code compares the container's naive local time with stamps that are
  exchange-local or UTC (cache.py 16-20). A container whose clock runs ahead of the stamps would
  take a forming bar for finished, which no theorem here excludes.
* `disturbed`, `steady`, `extends` and `torn` are ghosts: they say what happened
  around a request, and no action's guard reads them.

### KdbSession

`work.step` is the worker's place in one task: `nested` (the store asks for the
connection through `run()` again, inline on the owner thread), `latch`, then
`spawn`, `attempt`, `stop`, `loopback`, `host`, `fail`, then `schema` and `query`.
`closing` is the place of `close()`. q processes are numbers in order of birth,
so that "the same connection" and "another q at the same address" differ. A
child may listen, die, or lose the port to another service's q; the operator's q
comes and goes. `_connect_with_retry` connects to the loopback address; the
model, like the code's default, has the child bind there. `owed` is a ghost: at
the moment of the call a q could be reached and the last failure was an interval
old.

### AcquisitionJobs

`hand[a]` is where one actor stands. A worker goes

    idle -> (claim) append fetching -> decide -> next -> get -> next ... ->
    append bronze_retained, normalizing, validating -> judge ->
    append silver_ready, materializing -> publish -> append gold_ready -> idle

and may leave for any other end at the place the code does. An append is four
steps, because nothing locks the two Delta tables: `Mint` counts the events and
reads the clock, `Commit` adds the event, `ReadRow` and `CarryRow` are `_record`.
`Now` is one clock for all: the claim race of the run `jobs_claim` needs no skew.
An API thread creates (`Create`, `Insert`, then the append) or cancels; the append
after a cancel's check is a step of its own, so that the job may end meanwhile.
`held` says that a worker is inside `process`, where an exception becomes a
`failed` event; outside of it (`RunNotRecorded`, a failed commit in `claim` or of
the `failed` event itself) the poll loop just goes on. `hurt` and `crowded` are
ghosts. Bronze captures, receipts and run records are evidence nobody reads back
in this protocol; their commits fail into the ends the code gives them.

### TemporalStore and Identity

`log` is the sequence of commits of one Silver relation; a Delta version is a prefix of
it. A job reads its stamp in `Begin` (worker.py takes `now` before it asks anybody), asks
the provider, finds the rows it replaces (`Supersede`) and commits closes and new rows
together (`Promote`). `KnownAt`, `Current` and `Effective` are the filters of `views.py`;
a reader pins versions, resolves another manifest where the code does, reads, and reports a
receipt. What its receipt and its rows come from differs by its kind: `project` has one
manifest for both; `named` binds the name under a first one and reads under a second
(odp.py 234-248); `compare` reads in sessions of earlier manifests and makes its receipt of a
later one (compare.py 108, main.py 366-386). `ReceiptReproduces` holds of `project` always, and
of all three where the question is about a past that no job is working on any more (the
ghost `settled`); a job that commits between two of the manifests is the exception, and it
is listed below. A caller that names `versions` itself is not modelled.
`Identity` has no state: it is the resolver's decision for every set of up to two rows
that claim one identifier, at every moment, with and without a knowledge cutoff. The fallback
of `_by_stable_id` for an id that no listing carries, which answers with the row of the security,
issuer or instrument itself and calls it active whatever its dates (identity.py 154-160), is
left out.

### SqlExecutions and ScanBudget

`query[q]` is the thread of one execution: `new`, `waiting` for a permit, `opening`,
`listed`, `armed`, `executing`, `returned`, `closing`, `done`. The steps are cut where
another thread can see the difference: a cancel is a flag, an interrupt and a removal
from the list, each a step, and lands between any two steps of the run. `Finish` takes
the count and the permit back in one step, although the code releases the semaphore just
after the lock; nothing reads both. `ScanBudget` knows queries, principals and numbers
only; `SqlExecutions` maps `admitted` to the threads waiting or inside, `scanning` to
those inside, `refused` to those that were never let in.

### LiveGrid, LiveSeries, LiveQuotes

One event loop: requests, grids and the sweeper act between the awaits of the drain loop
(`Wake`, `Sync`, `Resume`, `Drain`, `Check`, `Dropped`, `Flush`). `want` is the set read
before an await and used after it. `running` counts the SDK clients the vendor sees,
`client` the one the manager holds, `active` what it believes: the properties are about
how they differ. `Shutdown` may happen at any await, and `Restart` reads the
watchlist's file. A client whose `stop()` raises is taken to be gone like any other
(feeds.py 84-88 swallows the error and cannot know). `LiveSeries` is the join of a chart's two
sources as operators.
In `LiveQuotes` a store call of the cache occupies the loop (`OnLoop`): it runs there
and blocks in `KdbSession.run`, while the tick read runs in a thread that a deadline can
leave behind. q may answer, refuse, or keep the call.

### ChartRequests, Studies, ChartStream, VendorQuota

`ChartRequests` keeps four indicators of the registry, one of each kind (with and without
a vendor's equivalent, with a parameter that is no window, with a part of its columns
supplied), since nothing else of a request tells two of them apart. A column holds
the engine and the clock its numbers come from, and the parameters they depend on: all of
the request's for a local column, only those that `eodhd_query` sends for a vendor's
(`VendorNumbers`: sources.py 61-69; `k` of `bbands` is not sent). Every interval
but `1d` is computed locally, weekly bars too (sources.py 155). `Studies` writes every
indicator over sets of bars in place of prices: a value is the set of bars it reads, a null is
none. The offset of a session (`session_shift`) and the lag of `roc` are the request's numbers,
whose sign nothing on the way checks. What may move when a new bar comes is then a question about sets. `ChartStream` numbers
a row anew whenever it changes, so that "the client shows the same row" is equality;
its three kinds of study are those `payload.delta_start` tells apart. `VendorQuota` is one
key of the vendor's cache.

### SipBackfill

Time goes in four slots a day, cut where the code's clocks differ. `Decide` is one decision
of the scheduler in the code's order (daily pass, newest week, settle, retry, backlog);
`Cycle` takes it with the truth about the vendor's last session, `Deferred` with a control
request that failed, so that the daily pass is not due yet. `Pass` is one symbol of the running
pass: `LoadRows`, all days or all but some; `LoadEmpty`; `LoadFails`, also after the table was
written. `CutShort` is an exhausted budget or a death; fetches that are under way then may still
write, and nobody records them (`StillWrite`).

A day may be missing from an answer although the vendor has it: `fetch_span` passes over a chunk
of one day that came empty (424), or that failed while the control on SPY failed for that day
too (363-366), and the symbol counts as loaded. `Skips` is that step, `Overlooked` the days it
may hit, and the ghost `skipped` the days a settle pass passed over. A load that does so is
mended by the settle pass; a settle pass that does so is the end of it, and
`SettlePassMakesWhole` says that this, and what the lists admit, is all.

The files are `prog`, `daily` and `blacklist`. The vendor loads a session up to `MaxLate`
evenings late. `BBB` leaves the index on the Tuesday of the last week.

### DayTables and DeltaReads

`DayTables` is the life of a tick: in q and its log, pruned from memory by live-grid,
replayed when q restarts, written to the table of its symbol and day by the dump, read
across tables one after the other. A table is its sequence of versions, each with the slot
of its commit; `VersionAt` is what delta-rs opens as of a moment. A read goes by the set of
tables left and sorts at its end (`Ascending`), so that no fold runs over a sequence.
`DeltaReads` is one table
of trades in files: the newest rows out of as few files as the log allows, the description,
and bars made of trades against bars made of finer bars.

### EodhdFetchers, EodhdCalendar, EodhdBundle

A reply of the vendor is an exception, an error object under HTTP 200, or rows; a row keeps
what fetchers look at. Each fetcher is an operator from replies to rows or a refusal, in
the code's order of filters, sorts and checks. `EodhdCalendar` is the walk of
`_fetch_windowed` over all ways events can fall on four days with a page of three. A page is
the set of events that fewer than a page of others precede in the vendor's order.
`EodhdBundle` has two processes with one table: in-process entry, lock per symbol, and a
table that may be unreadable, expire, or fail at the drop or the write. Calls are not
cancelled in it.

## Runs

| Run | What it asks | Result |
|---|---|---|
| `cache` | `CoverageBacked`, `ServedComplete`, `BackstopCatchesRewrite`, `BypassPaysOnce` | holds |
| `cache_eviction` | "store it, return the merge" (cache.py 6) | violated |
| `cache_split` | stale adjustments only "until some request touches the tail" (cache.py 276-279) | violated |
| `session` | one supervised child, no child after a failure, schema before query, an expiring latch, every call returns | holds |
| `session_close` | "no task can outlive the process it drives" (session.py 335-337) | violated |
| `jobs_life` | one worker, a canceller, two faults: `RowTellsTheLog`, `CancelStopsCalls`, `QueuedIsTakenUp`, `ClaimedJobEnds` | holds |
| `jobs_rivals` | two workers, two API threads: `OwnStagesInOrder`, `ClaimIsNeverLost`, `EndedWithoutSilver` | holds |
| `jobs_claim` | `at` keeps two workers from both holding a claim (jobs.py 35-38) | violated |
| `parts` | the properties of the modules in `PartsMC`, below | holds |
| `calendar` | the re-fetch "is what makes the join exact" (calendar.py 403) | violated |
| `eod_rerun` | "re-flushing a covered day is harmless" (eod_dump.py 197) | violated |
| `quote_wedged` | "never a hang" (quote.py 101-102) | violated |

What `parts` checks, by module:

| Module | Properties |
|---|---|
| `LiveGrid` | `OneClientPerFeed`, `FeedsFollow`, `TicksAddUp` |
| `LiveSeries` | `SeamsAreClean` |
| `LiveQuotes` | `QuotesAnswer` |
| `ChartRequests`, `Studies`, `ChartStream`, `VendorQuota` | `LinesAreTheirOwn`, `NoClosedRowMoves`, `RowsInSync`, `BilledOnce` |
| `SqlExecutions` | `BudgetIsKept` (the refinement of `ScanBudget`), `CancelIsNotLost` |
| `TemporalStore`, `Identity` | `KnownAtIsStable`, `NoDayIsLost`, `ReceiptReproduces`, `BindsAreSafe` |
| `SipBackfill` | `AccountedFor`, `SettlePassMakesWhole`, `WeeksAreWorkedOff` |
| `DayTables`, `DeltaReads` | `ReadIsOneMoment`, `DeltaReadsAreExact` |
| `EodhdFetchers`, `EodhdCalendar`, `EodhdBundle` | `NoRefusalIsLost`, `JoinIsExact`, `BundleIsShared` |
| `KdbRangesLoops` | `SubtractIsExact` |

Bounds. *cache*: two requests and two
keys are what an eviction of another request's rows, a lock per key and a shared
q need; four stamps hold a cached stretch, a gap, an overlap bar and the forming
bar; days are two bars long so that `_day_range` widens; the provider has no bar at
the first stamp, a holiday; a budget of three rows is one full table; one death
of q and one corporate action, at any point. Requests are repeated without limit. All of
them ask for one window, whose last stamp the clock has yet to reach: a miss, then tails.
Windows that zoom out of what is cached, and leave gaps before it and in the middle, are in
`cache_eviction`; that the properties hold for them too is what the theorems below say.
*session*: two callers and a closer
make a queue of three; two q processes are a child and its rival, or a q and its
replacement; one time unit is one retry interval.
*jobs*: one job, since no step reads another job's events except the check for a live
job of the same request, which stays unexercised until a run with two jobs; two
calls are a call before and one after a cancel; two faults are an API death and a
worker's, or a failed commit and the failure of the `failed` event that reports
it; `MaxEvents` = 20 is more than one job can collect in `jobs_life`. In `jobs_rivals`
six events are a job that goes from `queued` to its end with a cancel and a close beside
it, or to the promotion. Two workers that both claim a job multiply the logs, so such a
job stops after `MaxRivals` = 3 events: `queued` and two claims, or a cancel and one. It has
no faults; `jobs_life` has them, and the theorems have both.

*parts*, by module. Grid: two feeds, a routable symbol on each and an unroutable one, one
grid beside leases and pins; a watchlist applied two deep and a buffer of one tick so that
both overflow; three operations and one fault (a failed start, save or flush, a silent
feed, a shutdown) are enough for a registration, its withdrawal and a fault within one
await. Chart: four rows, two a session, a revision of the forming bar, so that a push
may cover a session that moved and one that did not. Quota: a request shorter than the
floor, as the defaults have it (30 s against 60 s; the 30 s of httpx are for each phase of a
request, so a vendor that answers byte by byte could outlast the floor and be billed twice).
SQL: two executions, two principals, one slot, one query each, one cancel, a result of a
page and a half. Store: two workers, two jobs, three days of which one is a weekend.
Identity: every pair of rows of two securities. Calendar: four days, up to three events a
day, pages of three: a page that cuts a day, a day that fills a page. Bundle: two calls in
one process and one in another, two expiries. Studies: up to sixteen bars, more than three
times the longest window, and offsets from -2, which looks ahead, to 1. Chart requests: two
words and a macro, daily charts with each mix of supplied vendor columns, 5-minute and weekly
ones. Fetchers: every pair of replies, the first of up to two rows, the second of up to one.
Days: two slots a day, a rolling window of two, five slots, one fault: two days are flushed, the second while the first is being read. Ranges: all lists of
up to three ranges over 0..4, steps 1 to 3, so that ends are off the grid. Sip: two weeks,
one holiday, two members of which one leaves and is past its vendor's end date, two faults,
a vendor one evening late, one day that a fetch may pass over (the Monday of the second
week); from the Wednesday after the weeks to the evening on which the
second falls due to be settled. Quotes: two at once, q turns twice. Delta: all tables of up to
three trades and every way to cut them into files that do not overlap in time.

`CHECK_DEADLOCK FALSE` where set: the environment's bounds are spent, nobody has to call,
or a part that only computes has nothing left to do.

Symmetry is used where a run has no liveness property: in `cache` over requests
and over keys with a table each, in `jobs_rivals` and `jobs_claim` over workers and over API threads.

### What the violated runs show

* `cache_eviction`: `evict_until_below` runs between the write of a request's
  rows and their final read, and goes up to the newest entry when the heap stays
  above budget (the tick table or one big table is enough). The request's own
  rows go and it is answered with an empty frame. The passing `ServedComplete`
  says that eviction and a dead q are the only ways.
* `cache_split`: the backstop compares the overlap of the last gap only with rows
  within `_OVERLAP_BARS`. Rows of the new adjustment stored by a disjoint fetch
  are then compared with themselves, and one answer mixes two adjustments. The
  passing `BackstopCatchesRewrite` says that a plain extension is never fooled.
* `jobs_claim`: `append_event` takes `seq` and `at` before it commits, and `claim`
  decides as soon as its own event is in. The worker with the later time may
  commit and decide before the one with the earlier time commits; each then reads
  itself as the first. Both run the job: the provider is billed twice and Silver
  gets the rows twice. The passing `ClaimIsNeverLost` says that the tie-break at
  least never leaves a job without a holder.
* `session_close`: `close()` sets `_closed` after its shutdown task ran, so calls
  queued behind that task start q again.
* `calendar`: a day of a page or more is paged by offset. The short page that ends it is
  fetched with the window's lower bound, so it also holds earlier days; they are collected,
  then fetched again. The passing `JoinIsExact` says that without such a day the walk is
  exact.
* `eod_rerun`: the dump writes yesterday at every start, from a q whose rolling window has
  lost the morning: the newest version of the table has fewer ticks than the one before.
  A read as of the earlier commit still has them (`ReadIsOneMoment`).
* `quote_wedged`: the deadline of yesterday's close is a timer of the loop on which the
  cache's store call blocks. With a q that keeps the call nothing on the loop moves. The
  passing `QuotesAnswer` says that a q that comes back, or goes away for good, is enough.

## Fairness and liveness

The liveness properties are `EveryCallReturns`, `QueuedIsTakenUp`, `ClaimedJobEnds`,
`FeedsFollow`, `WeeksAreWorkedOff` and `QuotesAnswer`.

`KdbSession` assumes weak fairness
of the worker thread's steps, of the thread inside `close()`, and of a caller
between `run()`'s check and `submit`: started threads run on, and Python's
executor hands the queue to the worker in order. Nothing is assumed of the
environment: q may never listen, and no caller has to call. In the code each
attempt to connect is bounded by a budget; in the model it ends in one step
(`GiveUp`, `Refused`) that is always possible when no q listens. The cache has no
liveness property: whether a fetch ever returns is the provider's affair.

`AcquisitionJobs` assumes weak fairness of a worker's polling and of its steps
inside a job (`main` loops for ever, and the compose file restarts it; HTTP calls
have a timeout), and of an API thread inside a request. Nobody has to create or
cancel, and no fault has to happen. `ClaimedJobEnds` leaves out jobs whose actor died
or lost a commit: the code has no takeover of such a job, whatever "a job must end
in a durable state" (worker.py 256) suggests.

`LiveGrid`: the drain loop is `while True` and the compose file restarts the container;
registrations, leases and ticks need not happen, and `FeedsFollow` speaks of the time when
operations and faults are spent. `SipBackfill`: the loop, the clock and the vendor go on
(`Proceeds`); failures and interruptions need not happen and are bounded. It also assumes that
the passes keep up: `Tick` waits for what is running or due, and a pass that takes longer than
its slot is `Late`, one of the faults. The scheduler has no such guarantee (796-831), and a
machine that needs more than a day for a daily pass would starve the backlog;
`WeeksAreWorkedOff` says that the order of the decisions does not. `LiveQuotes`: the
event loop runs what is ready and fires its timers; the premise `<>[](qState # "wedged")`
of `QuotesAnswer` is about the environment, and `quote_wedged` is what happens without it.

## Proofs

`KdbCacheProofs` proves, for every number of requests, keys, windows, bar widths,
deaths and corporate actions allowed by `CacheBounds`:

* `TypeCorrect`: `Spec => []TypeOK`. `TypeOK` is not inductive: the next gap of a
  request is a `CHOOSE`, a range only if some gap is left. `TypeInv` adds that.
  That a nonempty set of ranges has an earliest one rests on the well-foundedness
  of the natural numbers (`EarliestIsMember`), which is why ranges start in `Nat`.
* `CoverageIsBacked`: `Unaliased => (Spec => []CoverageBacked)`. Coverage is
  recorded two store calls after the fetch that justifies it, so the inductive
  invariant `IInv` carries the answer along: at most one request is between two
  awaits (`OneRunning`); a finished bar's period is over (`FinishedBarsEnded`); at
  the write the batch has a finished row for every stamp about to be recorded and
  would not put a half-formed bar over a finished one (`HoldsAnswer`,
  `KeepsFinished`); at the record the same rows are in the table if they were
  written to this q (`HasWritten`). The arithmetic is in `RecordedIsFetched`: what
  `trim_tail` leaves of a fetched range lies inside the whole days that went over
  the wire and ends before the clock that the request read.

The assumption `Unaliased` says that no two keys share a q table. The code does
not guarantee it: `table_name` maps BRK-B and BRK.B to one name, and a drop for
one key then takes the rows the other's coverage promises. `CacheBounds` lists
what the constants are: a positive step and day, bar stamps and windows within
the modelled time.

`IInv` was checked by TLC on the instance of the run `cache` before it was proved.

`KdbAnswersProofs` goes on from there to what a caller gets, under `Unaliased` and `OnGrid`:

* `AnswersAreComplete`: an answer holds every bar of its window that existed when it was
  asked for, unless rows left the store while it was made. Rows, coverage and the plan of
  a request belong together at every step of it: `ServeInv` says, for each place in
  `get`, that a stamp of the window is in what was already put away or in a gap still to be
  fetched (`FirstPass`), that what this call logged is what a bypass need not fetch
  (`SecondPass`), and that what an answer is read from holds the rest (`Stock`). The arithmetic
  is `GapsAreEnough` (every stamp of a window is covered or in a gap of `Subtract`), and that
  gaps meet neither coverage nor each other (`GapsAreMissing`, `GapsAreApart`).
* `PaidOnce`: a bypass after a failed store pays for nothing this call already paid for,
  from the same invariant.
* `RewritesAreCaught`: a request that extends one uniformly adjusted stretch never returns a
  series of two adjustments. `BackInv` follows both passes: in the first, the one gap reaches
  back to a finished bar of the stretch, so that the fetch either finds the history changed or
  leaves one series (`FirstPass`); in the second the table was emptied and every row written
  is adjusted as of now (`SecondPass`).

`OnGrid` says that windows, bars and days are made of whole steps. That is so for daily bars and
for intraday bars whose width divides the day. It is not so for weekly and monthly bars, and
it is needed: `subtract` ends a gap one step before the covered range after it. With
weekly bars and coverage that begins on a Wednesday, a later request that begins earlier has
its gap end on the Wednesday before, and the Monday in between is in neither. TLC
finds the lost bar with a step of two, bars at even stamps, the windows `<<3, 4>>` and
`<<0, 4>>`, and a clock at 6. `BackInv` and `ServeInv` were checked by TLC on the instance of the
run `cache`, and on one request that zooms out with a step of two on the grid.

`SecurityMasterProofs`, about `SqlExecutions`, for any executions, principals, limits and cancels allowed by
`SqlBounds` (finitely many executions, "nobody" is no principal):

* `CountersAreRight`: the free permits and the counts per principal are what the threads
  hold. The code compares two integers with constants and never looks at the threads; the
  inductive invariant `SqlInv` says that the integers are cardinalities of sets of threads,
  and whose an execution is. Ten of the fourteen actions change nothing that is counted
  (`Quietly`); `StartCounts`, `PermitCounts` and `LeaveCounts` are the others.
* `BudgetHolds`: `SqlSpec => BudgetIsKept`, the refinement of `ScanBudget`. Every step is
  one of `Admit`, `Refuse`, `Scan`, `Leave` or a stutter (`StepRefines`), from the same
  three lemmas.
* `CancelsAreKept`: `SqlSpec => []CancelIsNotLost`. `CancelInv` says that the flag of a
  cancel that could still be noticed stays up, and that its run has said nothing yet or
  something a cancelled run may say; `Arm`, `Executed` and `Returned` are the three places
  that have to look at the flag.

`VendorProofs`, about `VendorQuota` (`QuotaBounds`: a request takes less time than the floor):
`OneRequestIsBilled`. The stamp is shared without a lock; `QuotaInv` says that a request
under way is exactly as old as the stamp, hence that there is one at most.

About `EodhdBundle`: `OneBundleIsBought`, without assumptions on the constants. A purchase
and the entry that saves the next one are awaits apart; `BundleInv` says that a purchase is
in the entry or in the hands of a call that holds the lock, and that whoever is inside
found no entry.

About `SipBackfill` (`SipBounds`), for any members, weeks, holidays and faults:

* `NobodyIsDropped`: `AccountedFor`. `ListsInv` says that a member of a week that is being
  loaded, or was, is on one of its lists, kept out by the blacklist, or still to come in the
  running pass. `Recorded` says on which list a result puts a symbol, and leaves the other
  names where they are; that a member once kept out of a week stays out of it while the
  blacklist grows (`BlockedGrows`) needs the greatest element of a finite set.
* `SettledIsWhole`: a settle pass leaves no hole in what was loaded but those that the
  week's lists name and the days that its own requests passed over (`skipped`), which the code
  notes nowhere. Whatever an earlier load, retry or daily pass passed over, or wrote and did not
  record, is mended; `Holes` carries that through the pass (what is missing of a symbol that the
  pass is done with was passed over by it), and `Loads` and `Grown` are the steps that add days
  or excuses. It rests on `MaxLate + 2 <= SettleLag`: the pass waits for `SettleLag`
  days after the week's Friday, and the vendor has that Friday's session at most `MaxLate`
  evenings late. `SettleInv` carries that into the pass. The bound is exact: for the script's
  lag of seven days TLC finds `SettleInv` true with a vendor five evenings late and false
  with one six evenings late.

`LiveGridProofs` (`LiveGridBounds`: there is a feed, every routable symbol has one, and the
buffer holds a tick):

* `OneClient`, `GridSpec => []OneClientPerFeed`. The manager does not count clients;
  `GridInv` says that a connected client is the one in its table or the one whose stop is
  awaited, never both: `StopBegins` and `StartCountsOne` are the two steps that move between
  the cases, and everything else, a registration in the middle of an await included, leaves
  them alone (`QuietLoop`).
* `TicksAreCounted`: what the recorder took is held, written or counted as dropped.
  `TapeInv` adds that what waits to be drained is finite.

About `ChartStream`, in the same module:

* `TailsAreEnough`: `ChartSpec => RowsInSync`, after every push the client's rows are the
  server's, however many bars came, moved or were cut between two pushes. `SyncInv` says
  that the client's settled rows (`Settled`: older than the last one pushed, and of no running
  session where the study has one) are right at all times; `DeltaKeepsSettled`, that a tail
  leaves only such rows out. The hypothesis `Overnight` is that a push goes out between a
  session's last bar and the next session's first, which a loop with a period of seconds
  does: the tail covers the running session only, so a socket that missed the night would
  keep the last session's rows as they were before its close.

`KdbSessionProofs` (`SessionBounds`: an interval and a time that are numbers, a closer that is
no caller) proves the four invariants of `KdbSession` for any threads and any order of deaths,
closes and failed starts: `OneChild`, `NoChildIsLeft`, `TablesAreThere` and `LatchExpires`.
They share one inductive invariant, `SessionInv`. `LatchExpires` needs to know which q a
task that is owed an answer can still reach (`Promise`): after the attempt at its own child
failed and the child was stopped, only a listener that is not that child is left, which is
why `Handle` says that a q on the port with the handle's number runs. `Quiet` says that a close
that runs on its own thread finds the worker at rest for good. `SessionInv` was checked by TLC
on the instance of the run `session`, and with the chain's first and last link taken away.

`SecurityMasterProofs`, about `TemporalStore` (`StoreBounds`: days are integers): `KnownStays`, `DaysAreKept` and
`ReceiptsReproduce` (for every kind of reader: of one manifest at any time, of several where
the past asked about is settled). An assertion's id is the stamp of the job that made it and its day;
`Stamps` says that a job that has not committed has a stamp that no assertion in the log and
no other such job has, and `Holdings` that it closes only assertions of days for which it
holds a new one. A close and its successor are then in one commit, and a commit changes
nothing that was known before its stamp. A past is settled when no job that has not committed
has a stamp in it; `PastStaysOver` keeps it so, and `SettledInv` says that every manifest
resolved since then answers alike, which one a receipt names does then not matter. About
`Identity`: `OneSecurityIsBound`, an answer
that is no refusal names one security, and a live one if there is one, for any finite set of
rows (the run checks `BindsAreSafe` for two at a time).

About `DayTables` (`DayBounds`: a day has a slot, a flush one attempt and a tail one row; the
windows that are asked for have an end that is a time or none):

* `ReadsAreOneMoment`: `DaySpec => []ReadIsOneMoment`. A read goes from table to table while
  the flush commits new versions. `DayInv` says that what the read holds, with what it would
  still take from the tables left, is what the store held as of its moment (`ReadOK`).
  That survives a commit because a commit is of the current slot and the moment asked for is
  over (`VersionsOK`); a read that names no moment is only promised something while nothing is
  committed. Its order rests on every tick of a table being of that table's day, and on the
  tables being read by day (`Rises`, `RisingStretch`). The answers are rising sequences, and of
  a set there is one (`PlacesAreTaken`), which is why they can be compared with a sorted set
  without a proof about sorting.

About `LiveSeries` and `Studies`, the operators themselves, of inputs of any size:

* `SeamsMeet`: what `SeamsAreClean` checks of a few series holds of any history, finite set of
  ticks, width and end of window. The seam is the first multiple of the width that no first
  tick cuts (`SeamIsNext`), and a bucket that opens at or after the first tick opens at or
  after the seam.
* `ClosedRowsNeverMove`: what `NoClosedRowMoves` checks up to 16 bars holds of any number of
  bars, any windows, any length of a session and any offset: of a request whose offset looks back,
  no row that `delta_start` leaves out is ever wrong later; of one that looks ahead, exactly
  the rows that read a later session or bar move (`PivotsMove`, `RocMoves`), which the code
  does not resend (listed below). `Grows` is what carries over: the series over
  one bar more has the same values at the earlier bars, and they read no later bar than their
  own. Every operator of the vocabulary preserves it (`RollingGrows`, `CumulatedGrows`,
  `ShiftGrows`, `WithGrows`, ...), hence every indicator has it (`StudiesGrow`); pivots and
  business days need that a session that is over keeps its bars (`ClosedSession`,
  `CloseStays`).

About `EodhdCalendar`, in `VendorProofs`: `WalksJoinExactly`, `CalSpec => []JoinIsExact`, for any range, page
size and limit on requests. `Walked` says that while no day fills a page the walk has, at every
step, each event that is newer than the day it has come to exactly once and nothing else. A full
page is cut at the oldest day it holds, and `PlacesInOrder` (each member of a finite set has a
place of its own in an order) tells that a page that is not full is all there is, and that a
full one reaches beyond a day. Where a day does fill a page the property promises nothing: the
run `calendar` shows what happens then.

`AcquisitionJobsProofs` (`JobsBounds`: workers and API threads are different actors, finitely
many): the theorems `JobsTypes`, `StagesInOrder`, `ClaimsAreKept` and `CancelStops`. Since
nothing is locked, the invariant `JobsInv` is about what lies between two steps of an append.
`Minted`: an event that was numbered and is not committed has a stamp nobody else has
(`NowIsLater`, from the greatest element of a finite set) and follows all of its worker's own
events. `HeldByFirst`: the worker named by the first `fetching` event works on the job, or the
job has an end or is hurt; who is first may change with a late commit, but then it changes to
the committer, who is at work (`CommitInv`), and only a worker that is not first stands back
(`DecideInv`). `JobsInv` was checked by TLC on the instance of the run `jobs_rivals`.

`RowsTellTheLog`: while one writer at a time is at work on a job, its row names the stage of
the last event. The row and the event are two commits of two tables, and the row is written in
two steps, so `RowsInv` follows the writer: before the job's row there is no event and
nobody else at work (`Fresh`); after it there is one row, and it names the last event or the
writer that committed that event is between its two commits (`Kept`). TLC checked `RowsInv` on the
instances of `jobs_life` and `jobs_rivals`, and with one worker and two API threads.

`RefusedLeavesNothing`: a job that was claimed once and ended as refused, short or cancelled put
nothing into Silver (`EndedWithoutSilver`), for any workers, API threads, jobs, deaths and failed
commits. The hard case is a cancel: the poll loop of one worker closes a job that nobody had claimed
when it looked, while another worker, past its own look, goes on to claim it; and a cancel of one API
thread may be logged before the creator's `queued`, which then comes last and hides the close from
the next worker that looks for jobs. Both end well because of two things that lie far apart: the
holder reads the log for a cancel between its claim and its first call (worker.py 182-186), and a
job without an answer has "nothing to promote" (219). `EndsInv` says so: whoever closes a job
without holding it has the cancel in the log (`Placed`), and a holder that has an answer or is
asking for one has seen a log in which nobody had ended the job or was about to (`Promotes`).
A job with two claims in its log is left to the run `jobs_claim`: both workers may believe they
hold it, and then one can promote what the other has refused.

Only model-checked:

* Liveness: `EveryCallReturns`, `QueuedIsTakenUp`, `ClaimedJobEnds`, `FeedsFollow`,
  `QuotesAnswer`, `WeeksAreWorkedOff`. It is out of the provers' reach.
* What sorts or folds sequences: the loops of `KdbRangesLoops` (`SubtractIsExact`),
  `DeltaReads` (`DeltaReadsAreExact`), `EodhdFetchers` (`NoRefusalIsLost`). What a fold or a
  sort does for every input is an induction over data.
* `ChartRequests` (`LinesAreTheirOwn`, with its exception for what the vendor is not told): a statement about a fixed list of indicators and
  finitely many requests, decided by enumerating them.
* `SeamsAreClean`, `BindsAreSafe` and `NoClosedRowMoves` as they stand in `PartsMC`, where they
  speak of the inputs of the run: `SeamsMeet`, `OneSecurityIsBound` and `ClosedRowsNeverMove` are the
  same of all inputs.

## Not modelled

`PROJECT.json` gives the reason per component. Whole components: tick-lab and key
maintenance (one command or request at a time, no protocol), the stores explorer (read-only
views), the security-master provider and the configuration (stateless), the API wrapper,
containers and CI.

Within modelled components: the numbers of indicators, drawing, styles and payload layout;
the fields of each EODHD endpoint and the taxonomy tables; which statements `policy.py`
accepts; SQL text and q text; interval parsing and month bars of `ranges.py` and
`last_complete_boundary`; column types of rows (`_conform_dtypes`); log files of a spawned
q; tokens and the event stream of the jobs API; deletes and paths of the Delta provider.

What was read, is known to matter, and either has no property or is an exception that a
property states:

* cache.py 320: the rows of a fetch are in q and its coverage is not yet; a q that dies and is
  replaced between the two calls has coverage without rows. The keys this happens to (`torn`)
  are left out of `CoverageBacked`, so no property says how long such a key stays wrong.
* Requests that resolve two manifests (odp.py 234-248, compare.py 108, main.py 366-386), about the
  current state or about a moment with jobs under way, may return a receipt of other versions than the
  rows were read from. Service README 40-43 and store/receipts.py 3 ("what a result depended on")
  promise otherwise. TLC finds it when `reader.settled` is dropped from `ReceiptReproduces`.
* macro.py 430-443: a country profile takes an outage of a series, or a key rejected with HTTP
  401, for a series there is not; refused everywhere, it says there is no data (`EmptyDataError`).
* quote.py 64-68, market_cap.py 59-61, _fundamentals.py 77: an error object under HTTP 200 becomes
  an answer without rows in quotes, snapshots, market caps and all that reads the bundle; in a
  dividend yield it becomes "no dividends", so the yield is zero (dividend_yield.py 73). Search
  and pairs raise something else on it. `RefusalsAreTold` lists them one by one.
* treasury.py 166: month_4 has no place in a curve. In the model every tenor has one, so it draws
  a curve of a day whose only tenor is that one, where the code draws none.
* payload.py 28, registry.py 1353: a `session_shift` of zero or less is accepted, and so is a
  negative `period` of `roc` (registry.py 909). Rows that were sent then change and no delta
  resends them. `ClosedRowsStay` says which.
* registry.py 403, 783: `k` of `bbands` and `stoch_period` of `stochrsi` are not sent to the vendor, so
  two requests that differ in them draw the same line under different names, as
  `LinesAreDrawn` states. `adx` from the vendor supplies one of its three lines.
* sources.py 95-100: `bd` on a weekly or monthly chart means bars.
* sip_backfill.py 409-416, 424: a chunk of one day that fails while the control on SPY fails too,
  or that comes empty, is passed over and nobody notes it, although "one cheap control request
  on SPY tells the two apart" (408). For good where the settle pass does it, or the week is
  never settled.
* sip_backfill.py 289: any `OSError` on reading a progress file counts as no file, and the next
  save overwrites it. Not modelled: files are read as they were saved.
* `_prune_locks` (cache.py 163): a lock that was released and has a waiter that has not run
  yet is not `locked()`, so its entry may go and a third request get a lock of its own.
* cache.py 331: a request whose second gap fails has written a table that has no LRU entry
  until some later request of the key touches it.
* quotes.py: `seed` runs in a thread while `apply_tick` runs on the loop; a re-seed
  overwrites a live price and narrows a day range that ticks had widened. `LiveQuotes` has
  the row's provenance only; `/snapshot` may serve a tick's price as delayed, although its
  docstring says "never the websocket".
* `read_trailing` of a table whose appended files overlap in time may miss some of the
  newest rows; the deployed writers overwrite or append in order, and `DeltaReadsAreExact`
  assumes as much.
* main.py 602: the subtitle of a chart whose bars came back is cleared by a full push only.
* jobs.py 110: two API threads may both find no live job of a request and create two.
* ranges.py 76: weekly and monthly windows that begin off the bars lose a bar when they are
  zoomed out (above, at `OnGrid`).

## Further work

Theorems next in reach: `DeltaReads` with the rows of a table as a set, as `DayTables` has them;
that no fetcher of `EodhdFetchers` turns a refusal into rows, fetcher by fetcher.
Models: a run of `AcquisitionJobs` with two jobs of one request, the lock table of the cache
with its pruning, the change arithmetic of a quote's row.
