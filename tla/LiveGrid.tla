------------------------------ MODULE LiveGrid ------------------------------
(***************************************************************************)
(* The live grid's subscriptions and ticks (live-grid/app: feeds, leases,  *)
(* watchlist, recorder, and the routes of main.py that drive them).  One   *)
(* event loop runs everything; its only interruptions are the awaits of    *)
(* the drain loop, where requests, grids and the sweeper run.              *)
(***************************************************************************)
EXTENDS Integers, FiniteSets, Sequences, SequencesExt

CONSTANTS
    Feeds,         \* the vendor's feeds, in the order they are synchronised
    Routable,      \* symbols some feed carries
    Unroutable,    \* symbols classify knows no feed for
    FeedOf,        \* feed of a routable symbol
    Grids,         \* websocket grids
    Cap,           \* LIVE_GRID_MAX_SYMBOLS
    MaxBuffer,     \* ticks the recorder holds
    GridOps,       \* bound: requests, grid messages, lapses, ticks
    GridFaults     \* bound: starts, saves and flushes that fail, silences, restarts

Symbols == Routable \cup Unroutable

ASSUME LiveGridBounds ==
    /\ Feeds \in Seq(ToSet(Feeds)) /\ Feeds # << >>
    /\ FeedOf \in [Routable -> ToSet(Feeds)] /\ Routable \cap Unroutable = {}
    /\ Cap \in Nat /\ MaxBuffer \in Nat \ {0} /\ GridOps \in Nat /\ GridFaults \in Nat

VARIABLES
    grid,        \* per grid: registered, what it wants, what is dirty, its two ends
    leased,      \* symbols with a lease, each a connection of its own
    saved,       \* the watchlist's file; the list in memory is the same
    pins,        \* watchlist symbols that are registered
    client,      \* SDK client of each feed, the symbols it was built for, or None
    active,      \* what each feed is believed to be subscribed to
    running,     \* SDK clients of each feed that are connected
    stale,       \* feeds silent for STALE_AFTER although ticks are expected
    failed,      \* ghost: feeds whose last start failed
    pending,     \* _rebuild_pending
    at,          \* where the drain loop is
    inbox,       \* ticks in the SDK's buffers
    tape,        \* the recorder's ticks: buffered, written, dropped, and all there were
    ops, slips   \* spent bounds

None == {}
subs == <<grid, leased, saved, pins>>
clients == <<client, active, running, stale, failed>>
gridVars == <<subs, clients, pending, at, inbox, tape, ops, slips>>

Sleeping == [pc |-> "sleep", i |-> 1, want |-> {}]
Off == [on |-> FALSE, wants |-> {}, dirty |-> {}, peer |-> FALSE, hears |-> FALSE]

GridInit ==
    /\ grid = [g \in Grids |-> Off] /\ leased = {} /\ saved = {} /\ pins = {}
    /\ client = [f \in ToSet(Feeds) |-> None] /\ active = client
    /\ running = [f \in ToSet(Feeds) |-> 0] /\ stale = {} /\ failed = {}
    /\ pending = FALSE /\ at = Sleeping /\ inbox = {}
    /\ tape = [held |-> 0, written |-> 0, dropped |-> 0, seen |-> 0]
    /\ ops = 0 /\ slips = 0

----------------------------------------------------------------------------
\* split_by_feed: a symbol no feed carries is registered and never wanted.
OfFeed(f, symbols) == {s \in symbols \cap Routable : FeedOf[s] = f}
Registered == leased \cup pins \cup UNION {grid[g].wants : g \in {h \in Grids : grid[h].on}}
Union(f) == OfFeed(f, Registered)
Subscribed == Registered \cap Routable

Up == at.pc # "down"
Op == Up /\ ops < GridOps /\ ops' = ops + 1
Slip == slips < GridFaults /\ slips' = slips + 1

----------------------------------------------------------------------------
\* Requests, sweeps and grids, between two steps of the drain loop.

\* POST /subscribe -> renew: only a new lease is a registration.
Lease(s) ==
    /\ Op
    /\ leased' = leased \cup {s} /\ pending' = (pending \/ s \notin leased)
    /\ UNCHANGED <<grid, saved, pins, clients, at, inbox, tape, slips>>

Sweep(s) ==
    /\ Op /\ s \in leased
    /\ leased' = leased \ {s} /\ pending' = TRUE
    /\ UNCHANGED <<grid, saved, pins, clients, at, inbox, tape, slips>>

\* _apply_watchlist: the first Cap pins in the list's order (here any Cap of them).
Apply(list) ==
    \E wanted \in SUBSET list :
        /\ Cardinality(wanted) = IF Cardinality(list) < Cap THEN Cardinality(list) ELSE Cap
        /\ pins' = wanted /\ pending' = (pending \/ wanted # pins)

\* POST /api/subscriptions.  A save that fails leaves list and feeds alone.
Pin(s) ==
    /\ Op /\ s \notin saved /\ Cardinality(Subscribed \cup {s}) <= Cap
    /\ \/ saved' = saved \cup {s} /\ Apply(saved') /\ UNCHANGED slips
       \/ Slip /\ UNCHANGED <<saved, pins, pending>>
    /\ UNCHANGED <<grid, leased, clients, at, inbox, tape>>

\* DELETE /api/subscriptions/<symbol>
Unpin(s) ==
    /\ Op /\ s \in saved
    /\ \/ saved' = saved \ {s} /\ Apply(saved') /\ UNCHANGED slips
       \/ Slip /\ UNCHANGED <<saved, pins, pending>>
    /\ UNCHANGED <<grid, leased, clients, at, inbox, tape>>

\* live_grid_ws.consume: a message (re)registers; the dirty set is kept.
Message(g, symbols) ==
    /\ Op /\ (grid[g].hears \/ ~grid[g].on)
    /\ grid' = [grid EXCEPT ![g] = [on |-> TRUE, wants |-> symbols, dirty |-> @.dirty,
                                    peer |-> TRUE, hears |-> TRUE]]
    /\ pending' = TRUE
    /\ UNCHANGED <<leased, saved, pins, clients, at, inbox, tape, slips>>

\* One that is not JSON ends the consumer and nobody else.
Garbage(g) ==
    /\ Op /\ Slip /\ grid[g].on /\ grid[g].hears
    /\ grid' = [grid EXCEPT ![g].hears = FALSE]
    /\ UNCHANGED <<leased, saved, pins, clients, pending, at, inbox, tape>>

Unregister(g) == grid' = [grid EXCEPT ![g] = Off] /\ pending' = TRUE

Disconnect(g) ==
    /\ Op /\ grid[g].peer
    /\ IF grid[g].hears THEN Unregister(g)
       ELSE grid' = [grid EXCEPT ![g].peer = FALSE] /\ UNCHANGED pending
    /\ UNCHANGED <<leased, saved, pins, clients, at, inbox, tape, slips>>

\* live_grid_ws.produce: the rows of the dirty symbols, or the end of the grid.
Produce(g) ==
    /\ Up /\ grid[g].dirty # {}
    /\ IF grid[g].peer
       THEN grid' = [grid EXCEPT ![g].dirty = {}] /\ UNCHANGED pending
       ELSE Unregister(g)
    /\ UNCHANGED <<leased, saved, pins, clients, at, inbox, tape, ops, slips>>

----------------------------------------------------------------------------
\* FeedManager.run: sync, drain, liveness, flush.
Goto(pc) == at' = [at EXCEPT !.pc = pc, !.want = {}]

Wake ==
    /\ at.pc = "sleep"
    /\ at' = [Sleeping EXCEPT !.pc = IF pending THEN "sync" ELSE "drain"]
    /\ pending' = FALSE
    /\ UNCHANGED <<subs, clients, inbox, tape, ops, slips>>

NextFeed == IF at.i = Len(Feeds) THEN [Sleeping EXCEPT !.pc = "drain"]
            ELSE [Sleeping EXCEPT !.pc = "sync", !.i = at.i + 1]

\* The SDK client is built and started, or the feed is down until the next change.
Start(f, want) ==
    \/ /\ client' = [client EXCEPT ![f] = want] /\ active' = [active EXCEPT ![f] = want]
       /\ running' = [running EXCEPT ![f] = @ - (IF at.pc = "stop" THEN 1 ELSE 0)
                                              + (IF want # {} THEN 1 ELSE 0)]
       /\ stale' = stale \ {f} /\ failed' = failed \ {f} /\ UNCHANGED slips
    \/ /\ want # {} /\ Slip
       /\ active' = [active EXCEPT ![f] = {}] /\ failed' = failed \cup {f}
       /\ running' = [running EXCEPT ![f] = @ - (IF at.pc = "stop" THEN 1 ELSE 0)]
       /\ UNCHANGED <<client, stale>>

\* _sync_feeds, one feed.  The old client leaves the table, and the loop waits for
\* it to stop.
Sync ==
    LET f == Feeds[at.i] IN
    /\ at.pc = "sync"
    /\ IF Union(f) = active[f] THEN at' = NextFeed /\ UNCHANGED <<clients, slips>>
       ELSE IF client[f] # None
       THEN /\ client' = [client EXCEPT ![f] = None]
            /\ at' = [at EXCEPT !.pc = "stop", !.want = Union(f)]
            /\ UNCHANGED <<active, running, stale, failed, slips>>
       ELSE Start(f, Union(f)) /\ at' = NextFeed
    /\ UNCHANGED <<subs, pending, inbox, tape, ops>>

\* Mutant of Resume: the set of symbols is read again and the stop is not awaited.
ResumeEarly ==
    LET f == Feeds[at.i] IN
    /\ at.pc = "stop"
    /\ client' = [client EXCEPT ![f] = at.want] /\ active' = [active EXCEPT ![f] = at.want]
    /\ running' = [running EXCEPT ![f] = @ + (IF at.want # {} THEN 1 ELSE 0)]
    /\ stale' = stale \ {f} /\ failed' = failed \ {f} /\ at' = NextFeed
    /\ UNCHANGED <<subs, pending, inbox, tape, ops, slips>>

\* The stop is over; `want` is as old as the await.
Resume ==
    /\ at.pc = "stop"
    /\ Start(Feeds[at.i], at.want) /\ at' = NextFeed
    /\ UNCHANGED <<subs, pending, inbox, tape, ops>>

\* _drain_all: rows, dirty marks, and the recorder's buffer, which drops its oldest.
Drain ==
    LET n == Cardinality(inbox)
        over == IF tape.held + n > MaxBuffer THEN tape.held + n - MaxBuffer ELSE 0
    IN  /\ at.pc = "drain"
        /\ grid' = [g \in Grids |-> IF grid[g].on
                        THEN [grid[g] EXCEPT !.dirty = @ \cup (inbox \cap grid[g].wants)]
                        ELSE grid[g]]
        /\ tape' = [tape EXCEPT !.held = @ + n - over, !.dropped = @ + over, !.seen = @ + n]
        /\ stale' = stale \ {FeedOf[s] : s \in inbox}
        /\ inbox' = {} /\ Goto("check")
        /\ UNCHANGED <<leased, saved, pins, client, active, running, failed, pending, ops, slips>>

\* _check_liveness: a silent client is taken out and stopped ...
Check ==
    /\ at.pc = "check"
    /\ \/ \E i \in DOMAIN Feeds :
             /\ Feeds[i] \in stale /\ client[Feeds[i]] # None
             /\ client' = [client EXCEPT ![Feeds[i]] = None]
             /\ at' = [at EXCEPT !.pc = "drop", !.i = i]
       \/ /\ \A f \in stale : client[f] = None
          /\ Goto("flush") /\ UNCHANGED client
    /\ UNCHANGED <<subs, active, running, stale, failed, pending, inbox, tape, ops, slips>>

\* Mutant of Dropped: the feed is still believed to be subscribed.
DroppedKeepsActive ==
    LET f == Feeds[at.i] IN
    /\ at.pc = "drop"
    /\ running' = [running EXCEPT ![f] = @ - 1] /\ stale' = stale \ {f}
    /\ pending' = TRUE /\ Goto("check")
    /\ UNCHANGED <<subs, client, active, failed, inbox, tape, ops, slips>>

\* ... and the next sync builds one again, if anybody still wants it.
Dropped ==
    LET f == Feeds[at.i] IN
    /\ at.pc = "drop"
    /\ running' = [running EXCEPT ![f] = @ - 1]
    /\ active' = [active EXCEPT ![f] = {}] /\ stale' = stale \ {f}
    /\ pending' = TRUE /\ Goto("check")
    /\ UNCHANGED <<subs, client, failed, inbox, tape, ops, slips>>

\* Mutant of Flush: a batch that could not be written is just cleared.
FlushUncounted ==
    /\ at.pc = "flush"
    /\ \/ tape' = [tape EXCEPT !.held = 0, !.written = @ + tape.held] /\ UNCHANGED slips
       \/ tape.held > 0 /\ Slip /\ tape' = [tape EXCEPT !.held = 0]
    /\ at' = Sleeping
    /\ UNCHANGED <<subs, clients, pending, inbox, ops>>

\* TickRecorder.flush: the batch is written or lost, and counted.
Flush ==
    /\ at.pc = "flush"
    /\ \/ tape' = [tape EXCEPT !.held = 0, !.written = @ + tape.held] /\ UNCHANGED slips
       \/ tape.held > 0 /\ Slip /\ tape' = [tape EXCEPT !.held = 0, !.dropped = @ + tape.held]
    /\ at' = Sleeping
    /\ UNCHANGED <<subs, clients, pending, inbox, ops>>

Loop == Wake \/ Sync \/ Resume \/ Drain \/ Check \/ Dropped \/ Flush

----------------------------------------------------------------------------
\* The vendor.
Ticks(s) ==
    /\ Op /\ s \in UNION {client[f] : f \in ToSet(Feeds)} /\ s \notin inbox
    /\ inbox' = inbox \cup {s}
    /\ UNCHANGED <<subs, clients, pending, at, tape, slips>>

Silence(f) ==
    /\ Up /\ Slip /\ client[f] # None /\ f \notin stale
    /\ stale' = stale \cup {f}
    /\ UNCHANGED <<subs, client, active, running, failed, pending, at, inbox, tape, ops>>

\* The service stops at an await, stop_all stops what is left, and a new process
\* starts with the file.
Shutdown ==
    /\ Slip /\ at.pc \in {"sleep", "stop", "drop"} /\ at' = [Sleeping EXCEPT !.pc = "down"]
    /\ grid' = [g \in Grids |-> Off] /\ leased' = {} /\ pins' = {}
    /\ client' = [f \in ToSet(Feeds) |-> None] /\ active' = client'
    /\ running' = [f \in ToSet(Feeds) |-> 0] /\ stale' = {} /\ failed' = {} /\ inbox' = {}
    /\ pending' = FALSE /\ tape' = [held |-> 0, written |-> 0, dropped |-> 0, seen |-> 0]
    /\ UNCHANGED <<saved, ops>>

Restart ==
    /\ at.pc = "down" /\ at' = Sleeping /\ Apply(saved)
    /\ UNCHANGED <<grid, leased, saved, clients, inbox, tape, ops, slips>>

GridNext ==
    \/ Loop \/ Shutdown \/ Restart
    \/ \E s \in Symbols : Lease(s) \/ Sweep(s) \/ Pin(s) \/ Unpin(s) \/ Ticks(s)
    \/ \E g \in Grids :
          \/ \E symbols \in SUBSET Symbols : Message(g, symbols)
          \/ Garbage(g) \/ Disconnect(g) \/ Produce(g)
    \/ \E f \in ToSet(Feeds) : Silence(f)

GridSpec == GridInit /\ [][GridNext]_gridVars

\* The drain loop runs for ever, a stop ends, a flush timer fires, the container
\* is restarted.
GridFair == WF_gridVars(Loop) /\ WF_gridVars(Restart)

----------------------------------------------------------------------------
\* The vendor never sees two connections for a feed: the second would take the ticks
\* and leave the first connected and silent (feeds.py 230-232, 182-191).
OneClientPerFeed == \A f \in ToSet(Feeds) : running[f] <= 1

\* Whatever is registered while a stop is awaited, and whichever feed falls silent,
\* the clients end up with what the connections want, except for a feed whose start
\* failed and that nobody has asked to rebuild since (feeds.py 175-199, 227-266).
FeedsFollow ==
    <>[](Up /\ \A f \in ToSet(Feeds) :
            /\ active[f] = (IF f \in failed THEN {} ELSE Union(f))
            /\ client[f] = active[f] /\ running[f] = (IF active[f] = {} THEN 0 ELSE 1))

\* Every tick the recorder took is held, written or counted as dropped (recorder.py
\* 33-58): /health's counters add up whatever flushes failed and however full it was.
TicksAddUp == tape.held + tape.written + tape.dropped = tape.seen
============================================================================
