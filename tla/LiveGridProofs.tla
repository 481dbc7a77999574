--------------------------- MODULE LiveGridProofs ---------------------------
(***************************************************************************)
(* For any feeds, symbols, grids and faults, the vendor sees one client of *)
(* a feed at most, and the recorder's counters add up.  The manager never  *)
(* counts clients: it knows the one in its table, and forgets it before it *)
(* waits for its stop.                                                     *)
(*                                                                         *)
(* A client that lays pushed tails over its own rows has the server's,     *)
(* whatever moved: a delta starts before the first row that is not         *)
(* settled, and the client's settled rows are the server's.                *)
(*                                                                         *)
(* A read of a symbol's day tables as of an earlier moment has what they   *)
(* held then: a version committed later is of a later moment.              *)
(*                                                                         *)
(* Bars of ticks meet those of history without a gap or a repeat: the seam *)
(* is a multiple of the width.  No bar that comes moves the indicators of  *)
(* the bars before the last: a value is made of no later bar than its own. *)
(***************************************************************************)
EXTENDS LiveGrid, ChartStream, DayTables, LiveSeries, Studies, IntegerSets, SequenceTheorems

FeedSet == ToSet(Feeds)
Places  == {"sleep", "sync", "stop", "drain", "check", "drop", "flush", "down"}

GridTypeOK ==
    /\ client \in [FeedSet -> SUBSET Symbols] /\ running \in [FeedSet -> Int]
    /\ at \in [pc : Places, i : DOMAIN Feeds, want : SUBSET Symbols]

\* The loop waits for the stop of this feed's client.
Stopping(f) == at.pc \in {"stop", "drop"} /\ f = Feeds[at.i]

\* A connected client is the one in the table, or the one that is being stopped, and then
\* the table has none.
GridInv ==
    /\ GridTypeOK
    /\ \A f \in FeedSet :
          /\ Stopping(f) => client[f] = None
          /\ running[f] = IF client[f] # None \/ Stopping(f) THEN 1 ELSE 0

----------------------------------------------------------------------------
\* The place in the list of feeds is always one of a feed.
LEMMA FeedAt ==
    ASSUME GridTypeOK
    PROVE  /\ Feeds[at.i] \in FeedSet /\ at.i \in Nat /\ 1 \in DOMAIN Feeds
           /\ at.i # Len(Feeds) => at.i + 1 \in DOMAIN Feeds
<1>1. at.i \in DOMAIN Feeds  BY DEF GridTypeOK
<1>2. DOMAIN Feeds = 1..Len(Feeds) /\ Len(Feeds) \in Nat \ {0}  BY LiveGridBounds
<1> QED  BY <1>1, <1>2 DEF FeedSet, ToSet

\* A step that leaves clients alone and neither begins nor ends a stop.
LEMMA QuietLoop ==
    ASSUME GridInv, client' = client, running' = running,
           at' \in [pc : Places, i : DOMAIN Feeds, want : SUBSET Symbols],
           \/ at' = at
           \/ at.pc \notin {"stop", "drop"} /\ at'.pc \notin {"stop", "drop"}
    PROVE  GridInv'
<1>1. \A f \in FeedSet : Stopping(f)' <=> Stopping(f)  BY DEF Stopping
<1> QED  BY <1>1 DEF GridInv, GridTypeOK

LEMMA NextFeedType ==
    ASSUME GridTypeOK
    PROVE  /\ NextFeed \in [pc : Places, i : DOMAIN Feeds, want : SUBSET Symbols]
           /\ NextFeed.pc \in {"sync", "drain"}
<1>1. 1 \in DOMAIN Feeds /\ (at.i # Len(Feeds) => at.i + 1 \in DOMAIN Feeds)  BY FeedAt
<1> QED  BY <1>1 DEF NextFeed, Sleeping, Places

\* A client is built where there is none, or where the old one has just stopped.
LEMMA StartCountsOne ==
    ASSUME GridInv, NEW want \in SUBSET Symbols, Start(Feeds[at.i], want), at' = NextFeed,
           at.pc = "stop" \/ (at.pc = "sync" /\ client[Feeds[at.i]] = None)
    PROVE  GridInv'
<1> DEFINE f == Feeds[at.i]
<1>1. f \in FeedSet /\ NextFeed.pc \in {"sync", "drain"}
  BY FeedAt, NextFeedType DEF GridInv
<1>2. client[f] = None /\ running[f] = IF at.pc = "stop" THEN 1 ELSE 0
  BY <1>1 DEF GridInv, Stopping
<1>3. \A g \in FeedSet : ~Stopping(g)'
  BY <1>1 DEF Stopping
<1>4. \A g \in FeedSet \ {f} : running[g] = IF client[g] # None THEN 1 ELSE 0
  BY DEF GridInv, Stopping
<1>5. client \in [FeedSet -> SUBSET Symbols] /\ running \in [FeedSet -> Int]
  BY DEF GridInv, GridTypeOK
<1>6. at' \in [pc : Places, i : DOMAIN Feeds, want : SUBSET Symbols]
  BY NextFeedType DEF GridInv
<1>7. CASE /\ client' = [client EXCEPT ![f] = want]
           /\ running' = [running EXCEPT ![f] = @ - (IF at.pc = "stop" THEN 1 ELSE 0)
                                                  + (IF want # {} THEN 1 ELSE 0)]
  <2>1. client'[f] = want /\ running'[f] = IF want # None THEN 1 ELSE 0
    BY <1>1, <1>2, <1>5, <1>7 DEF None
  <2>2. \A g \in FeedSet \ {f} : client'[g] = client[g] /\ running'[g] = running[g]
    BY <1>5, <1>7
  <2>3. client' \in [FeedSet -> SUBSET Symbols] /\ running' \in [FeedSet -> Int]
    BY <1>1, <1>2, <1>5, <1>7
  <2> QED  BY <1>3, <1>4, <1>6, <2>1, <2>2, <2>3 DEF GridInv, GridTypeOK
<1>8. CASE /\ client' = client
           /\ running' = [running EXCEPT ![f] = @ - (IF at.pc = "stop" THEN 1 ELSE 0)]
  <2>1. client'[f] = None /\ running'[f] = 0
    BY <1>1, <1>2, <1>5, <1>8
  <2>2. \A g \in FeedSet \ {f} : client'[g] = client[g] /\ running'[g] = running[g]
    BY <1>5, <1>8
  <2>3. client' \in [FeedSet -> SUBSET Symbols] /\ running' \in [FeedSet -> Int]
    BY <1>1, <1>2, <1>5, <1>8
  <2> QED  BY <1>3, <1>4, <1>6, <2>1, <2>2, <2>3 DEF GridInv, GridTypeOK
<1> QED  BY <1>7, <1>8 DEF Start

\* A client leaves the table, and from now on the loop waits for its stop.
LEMMA StopBegins ==
    ASSUME GridInv, NEW i \in DOMAIN Feeds, NEW pc \in {"stop", "drop"}, NEW want \in SUBSET Symbols,
           at.pc \notin {"stop", "drop"}, client[Feeds[i]] # None,
           at' = [pc |-> pc, i |-> i, want |-> want],
           client' = [client EXCEPT ![Feeds[i]] = None], running' = running
    PROVE  GridInv'
<1> DEFINE f == Feeds[i]
<1>1. f \in FeedSet  BY DEF FeedSet, ToSet
<1>2. client \in [FeedSet -> SUBSET Symbols] /\ running \in [FeedSet -> Int]
  BY DEF GridInv, GridTypeOK
<1>3. \A g \in FeedSet : running[g] = IF client[g] # None THEN 1 ELSE 0
  BY DEF GridInv, Stopping
<1>4. \A g \in FeedSet : Stopping(g)' <=> g = f
  BY DEF Stopping
<1>5. client' \in [FeedSet -> SUBSET Symbols]
  BY <1>1, <1>2 DEF None
<1>6. at' \in [pc : Places, i : DOMAIN Feeds, want : SUBSET Symbols]
  BY DEF Places
<1>7. \A g \in FeedSet : client'[g] = IF g = f THEN None ELSE client[g]
  BY <1>2
<1>8. \A g \in FeedSet : running'[g] = IF client'[g] # None \/ Stopping(g)' THEN 1 ELSE 0
  BY <1>1, <1>3, <1>4, <1>7
<1> QED  BY <1>2, <1>4, <1>5, <1>6, <1>7, <1>8 DEF GridInv, GridTypeOK

----------------------------------------------------------------------------
LEMMA GridInitInv == GridInit => GridInv
<1> SUFFICES ASSUME GridInit PROVE GridInv  OBVIOUS
<1>1. 1 \in DOMAIN Feeds
  <2>1. DOMAIN Feeds = 1..Len(Feeds) /\ Len(Feeds) \in Nat \ {0}  BY LiveGridBounds
  <2> QED  BY <2>1
<1>2. /\ client = [f \in FeedSet |-> None] /\ running = [f \in FeedSet |-> 0]
      /\ at = [pc |-> "sleep", i |-> 1, want |-> {}]
  BY DEF GridInit, Sleeping, FeedSet
<1>3. client \in [FeedSet -> SUBSET Symbols] /\ running \in [FeedSet -> Int]
  BY <1>2 DEF None
<1>4. at \in [pc : Places, i : DOMAIN Feeds, want : SUBSET Symbols]
  <2>1. "sleep" \in Places /\ {} \in SUBSET Symbols  BY DEF Places
  <2> QED  BY <1>1, <1>2, <2>1
<1>5. \A f \in FeedSet : ~Stopping(f) /\ client[f] = None /\ running[f] = 0
  BY <1>2 DEF Stopping
<1> QED  BY <1>3, <1>4, <1>5 DEF GridInv, GridTypeOK

LEMMA LoopInv == ASSUME GridInv, Loop PROVE GridInv'
<1>1. GridTypeOK /\ 1 \in DOMAIN Feeds  BY FeedAt DEF GridInv
<1>2. \A f \in FeedSet : Union(f) \in SUBSET Symbols
  BY DEF Union, OfFeed, Symbols
<1>3. CASE Wake
  <2>1. at' = [pc |-> IF pending THEN "sync" ELSE "drain", i |-> 1, want |-> {}]
    BY <1>3 DEF Wake, Sleeping
  <2>2. at' \in [pc : Places, i : DOMAIN Feeds, want : SUBSET Symbols]
    <3>1. {"sync", "drain"} \subseteq Places /\ {} \in SUBSET Symbols  BY DEF Places
    <3> QED  BY <1>1, <2>1, <3>1
  <2>3. at.pc \notin {"stop", "drop"} /\ at'.pc \notin {"stop", "drop"}
    BY <1>3, <2>1 DEF Wake
  <2>4. client' = client /\ running' = running  BY <1>3 DEF Wake, clients
  <2> QED  BY <2>2, <2>3, <2>4, QuietLoop
<1>4. CASE Sync
  <2> DEFINE f == Feeds[at.i]
  <2>1. f \in FeedSet /\ at.i \in DOMAIN Feeds /\ at.pc = "sync"
    BY <1>1, <1>4, FeedAt DEF Sync, GridTypeOK
  <2>2. CASE at' = NextFeed /\ UNCHANGED clients
    BY <1>1, <2>1, <2>2, NextFeedType, QuietLoop DEF clients
  <2>3. CASE /\ client[f] # None /\ client' = [client EXCEPT ![f] = None]
             /\ at' = [at EXCEPT !.pc = "stop", !.want = Union(f)] /\ running' = running
    <3>1. at' = [pc |-> "stop", i |-> at.i, want |-> Union(f)]
      BY <1>1, <2>3 DEF GridTypeOK
    <3> QED  BY <1>2, <2>1, <2>3, <3>1, StopBegins
  <2>4. CASE client[f] = None /\ Start(f, Union(f)) /\ at' = NextFeed
    BY <1>2, <2>1, <2>4, StartCountsOne
  <2> QED  BY <1>4, <2>2, <2>3, <2>4 DEF Sync
<1>5. CASE Resume
  <2>1. at.want \in SUBSET Symbols  BY <1>1 DEF GridTypeOK
  <2>2. at.pc = "stop" /\ Start(Feeds[at.i], at.want) /\ at' = NextFeed
    BY <1>5 DEF Resume
  <2> QED  BY <2>1, <2>2, StartCountsOne
<1>6. CASE Drain
  BY <1>1, <1>6, QuietLoop DEF Drain, Goto, GridTypeOK, Places
<1>7. CASE Check
  <2>1. at.pc = "check" /\ running' = running  BY <1>7 DEF Check
  <2>2. CASE Goto("flush") /\ UNCHANGED client
    BY <1>1, <2>1, <2>2, QuietLoop DEF Goto, GridTypeOK, Places
  <2>3. CASE \E i \in DOMAIN Feeds :
               /\ Feeds[i] \in stale /\ client[Feeds[i]] # None
               /\ client' = [client EXCEPT ![Feeds[i]] = None]
               /\ at' = [at EXCEPT !.pc = "drop", !.i = i]
    <3>1. PICK i \in DOMAIN Feeds :
               /\ client[Feeds[i]] # None /\ client' = [client EXCEPT ![Feeds[i]] = None]
               /\ at' = [at EXCEPT !.pc = "drop", !.i = i]
      BY <2>3
    <3>2. at' = [pc |-> "drop", i |-> i, want |-> at.want] /\ at.want \in SUBSET Symbols
      BY <1>1, <3>1 DEF GridTypeOK
    <3> QED  BY <2>1, <3>1, <3>2, StopBegins
  <2> QED  BY <1>7, <2>2, <2>3 DEF Check
<1>8. CASE Dropped
  <2> DEFINE f == Feeds[at.i]
  <2>1. /\ f \in FeedSet /\ at.pc = "drop" /\ client' = client
        /\ running' = [running EXCEPT ![f] = @ - 1]
        /\ at' \in [pc : Places, i : DOMAIN Feeds, want : SUBSET Symbols] /\ at'.pc = "check"
    BY <1>1, <1>8, FeedAt DEF Dropped, Goto, GridTypeOK, Places
  <2>2. client[f] = None /\ running[f] = 1  BY <2>1 DEF GridInv, Stopping
  <2>3. \A g \in FeedSet \ {f} : running[g] = IF client[g] # None THEN 1 ELSE 0
    BY DEF GridInv, Stopping
  <2>4. \A g \in FeedSet : ~Stopping(g)'  BY <2>1 DEF Stopping
  <2>5. /\ running' \in [FeedSet -> Int] /\ running'[f] = 0
        /\ \A g \in FeedSet \ {f} : running'[g] = running[g]
    BY <1>1, <2>1, <2>2 DEF GridTypeOK
  <2> QED  BY <1>1, <2>1, <2>2, <2>3, <2>4, <2>5 DEF GridInv, GridTypeOK
<1>9. CASE Flush
  BY <1>1, <1>9, QuietLoop DEF Flush, Sleeping, Places, clients
<1> QED  BY <1>3, <1>4, <1>5, <1>6, <1>7, <1>8, <1>9 DEF Loop

LEMMA GridNextInv == GridInv /\ [GridNext]_gridVars => GridInv'
<1> SUFFICES ASSUME GridInv, [GridNext]_gridVars PROVE GridInv'  OBVIOUS
<1>1. GridTypeOK /\ 1 \in DOMAIN Feeds  BY FeedAt DEF GridInv
<1>2. ASSUME UNCHANGED <<client, running, at>>  PROVE GridInv'
  BY <1>1, <1>2, QuietLoop DEF GridTypeOK
<1>3. CASE UNCHANGED gridVars  BY <1>2, <1>3 DEF gridVars, clients
<1>4. CASE Loop  BY <1>4, LoopInv
<1>5. CASE Shutdown
  <2>1. /\ client' = [f \in FeedSet |-> None] /\ running' = [f \in FeedSet |-> 0]
        /\ at' = [pc |-> "down", i |-> 1, want |-> {}]
    BY <1>5 DEF Shutdown, Sleeping, FeedSet
  <2> QED  BY <1>1, <2>1 DEF GridInv, GridTypeOK, Stopping, Places, None
<1>6. CASE Restart
  BY <1>1, <1>6, QuietLoop DEF Restart, Sleeping, Places, clients
<1>7. ASSUME NEW s \in Symbols, Lease(s) \/ Sweep(s) \/ Pin(s) \/ Unpin(s) \/ Ticks(s)
      PROVE  GridInv'
  BY <1>2, <1>7 DEF Lease, Sweep, Pin, Unpin, Ticks, clients
<1>8. ASSUME NEW g \in Grids,
             \/ \E symbols \in SUBSET Symbols : Message(g, symbols)
             \/ Garbage(g) \/ Disconnect(g) \/ Produce(g)
      PROVE  GridInv'
  BY <1>2, <1>8 DEF Message, Garbage, Disconnect, Produce, clients
<1>9. ASSUME NEW f \in ToSet(Feeds), Silence(f)  PROVE GridInv'
  BY <1>2, <1>9 DEF Silence
<1> QED  BY <1>3, <1>4, <1>5, <1>6, <1>7, <1>8, <1>9 DEF GridNext

\* Whatever is registered, falls silent or fails while a stop is awaited, a feed never has
\* two connections (feeds.py 175-199, 227-266; the property OneClientPerFeed).
THEOREM OneClient == GridSpec => []OneClientPerFeed
<1>1. GridInv => OneClientPerFeed  BY DEF GridInv, GridTypeOK, OneClientPerFeed, FeedSet
<1> QED  BY <1>1, GridInitInv, GridNextInv, PTL DEF GridSpec

----------------------------------------------------------------------------
Tapes == [held : Int, written : Int, dropped : Int, seen : Int]
AddsUp(x) == x.held + x.written + x.dropped = x.seen
TapeInv == IsFiniteSet(inbox) /\ tape \in Tapes /\ AddsUp(tape)

\* A tape with new counts that add up, for the three ways in which a step writes them.
LEMMA TapeFields ==
    ASSUME NEW x \in Tapes, NEW h \in Int, NEW w \in Int, NEW d \in Int, NEW s \in Int
    PROVE  /\ h + x.written + d = s =>
                 LET y == [x EXCEPT !.held = h, !.dropped = d, !.seen = s]
                 IN  y \in Tapes /\ AddsUp(y)
           /\ h + w + x.dropped = x.seen =>
                 LET y == [x EXCEPT !.held = h, !.written = w] IN y \in Tapes /\ AddsUp(y)
           /\ h + x.written + d = x.seen =>
                 LET y == [x EXCEPT !.held = h, !.dropped = d] IN y \in Tapes /\ AddsUp(y)
<1>1. LET y == [x EXCEPT !.held = h, !.dropped = d, !.seen = s] IN
      y \in Tapes /\ y.held = h /\ y.written = x.written /\ y.dropped = d /\ y.seen = s
  BY DEF Tapes
<1>2. LET y == [x EXCEPT !.held = h, !.written = w] IN
      y \in Tapes /\ y.held = h /\ y.written = w /\ y.dropped = x.dropped /\ y.seen = x.seen
  BY DEF Tapes
<1>3. LET y == [x EXCEPT !.held = h, !.dropped = d] IN
      y \in Tapes /\ y.held = h /\ y.written = x.written /\ y.dropped = d /\ y.seen = x.seen
  BY DEF Tapes
<1> QED  BY <1>1, <1>2, <1>3 DEF AddsUp

LEMMA TapeStep == ASSUME TapeInv, [GridNext]_gridVars PROVE TapeInv'
<1>0. /\ tape \in Tapes /\ IsFiniteSet(inbox) /\ tape.held \in Int /\ tape.written \in Int
      /\ tape.dropped \in Int /\ tape.seen \in Int
      /\ tape.held + tape.written + tape.dropped = tape.seen
  BY DEF TapeInv, Tapes, AddsUp
<1>1. CASE Drain
  <2> DEFINE n    == Cardinality(inbox)
             over == IF tape.held + n > MaxBuffer THEN tape.held + n - MaxBuffer ELSE 0
             h == tape.held + n - over
             d == tape.dropped + over
             s == tape.seen + n
  <2>1. n \in Int
    <3>1. n \in Nat  BY <1>0, FS_CardinalityType
    <3> QED  BY <3>1
  <2>2. over \in Int  BY <1>0, <2>1, LiveGridBounds
  <2>3. tape' = [tape EXCEPT !.held = h, !.dropped = d, !.seen = s]  BY <1>1 DEF Drain
  <2>4. inbox' = {} /\ IsFiniteSet({})  BY <1>1, FS_EmptySet DEF Drain
  <2> HIDE DEF n, over
  <2>5. h \in Int /\ d \in Int /\ s \in Int /\ h + tape.written + d = s  BY <1>0, <2>1, <2>2
  <2> HIDE DEF h, d, s
  <2>6. tape' \in Tapes /\ AddsUp(tape')  BY <1>0, <2>3, <2>5, TapeFields
  <2> QED  BY <2>4, <2>6 DEF TapeInv
<1>2. CASE Flush
  <2> DEFINE h == 0
             w == tape.written + tape.held
             d == tape.dropped + tape.held
  <2>1. \/ tape' = [tape EXCEPT !.held = h, !.written = w]
        \/ tape' = [tape EXCEPT !.held = h, !.dropped = d]
    BY <1>2 DEF Flush
  <2>2. inbox' = inbox  BY <1>2 DEF Flush
  <2>3. /\ h \in Int /\ w \in Int /\ d \in Int
        /\ h + w + tape.dropped = tape.seen /\ h + tape.written + d = tape.seen
    BY <1>0
  <2> HIDE DEF h, w, d
  <2>4. CASE tape' = [tape EXCEPT !.held = h, !.written = w]
    <3>1. tape' \in Tapes /\ AddsUp(tape')  BY <1>0, <2>3, <2>4, TapeFields
    <3> QED  BY <1>0, <2>2, <3>1 DEF TapeInv
  <2>5. CASE tape' = [tape EXCEPT !.held = h, !.dropped = d]
    <3>1. tape' \in Tapes /\ AddsUp(tape')  BY <1>0, <2>3, <2>5, TapeFields
    <3> QED  BY <1>0, <2>2, <3>1 DEF TapeInv
  <2> QED  BY <2>1, <2>4, <2>5
<1>3. CASE Shutdown
  <2>1. inbox' = {} /\ tape' = [held |-> 0, written |-> 0, dropped |-> 0, seen |-> 0]
    BY <1>3 DEF Shutdown
  <2> QED  BY <2>1, FS_EmptySet DEF TapeInv, Tapes, AddsUp
<1>4. ASSUME NEW s \in Symbols, Ticks(s)  PROVE TapeInv'
  <2>1. inbox' = inbox \cup {s} /\ tape' = tape  BY <1>4 DEF Ticks
  <2>2. IsFiniteSet(inbox \cup {s})  BY FS_AddElement DEF TapeInv
  <2> QED  BY <2>1, <2>2 DEF TapeInv
<1>5. ASSUME UNCHANGED <<inbox, tape>>  PROVE TapeInv'
  BY <1>5 DEF TapeInv
<1>6. CASE Wake \/ Sync \/ Resume \/ Check \/ Dropped \/ Restart \/ UNCHANGED gridVars
  BY <1>5, <1>6 DEF Wake, Sync, Resume, Check, Dropped, Restart, gridVars
<1>7. ASSUME NEW s \in Symbols, Lease(s) \/ Sweep(s) \/ Pin(s) \/ Unpin(s)  PROVE TapeInv'
  BY <1>5, <1>7 DEF Lease, Sweep, Pin, Unpin
<1>8. ASSUME NEW g \in Grids,
             \/ \E symbols \in SUBSET Symbols : Message(g, symbols)
             \/ Garbage(g) \/ Disconnect(g) \/ Produce(g)
      PROVE  TapeInv'
  BY <1>5, <1>8 DEF Message, Garbage, Disconnect, Produce
<1>9. ASSUME NEW f \in ToSet(Feeds), Silence(f)  PROVE TapeInv'
  BY <1>5, <1>9 DEF Silence
<1> QED  BY <1>1, <1>2, <1>3, <1>4, <1>6, <1>7, <1>8, <1>9 DEF GridNext, Loop

\* Every tick the recorder took is held, written or counted as dropped, whatever flushes
\* failed and however full the buffer was (recorder.py 33-58; the property TicksAddUp).
THEOREM TicksAreCounted == GridSpec => []TicksAddUp
<1>1. GridInit => TapeInv
  BY FS_EmptySet DEF GridInit, TapeInv, Tapes, AddsUp
<1>2. TapeInv /\ [GridNext]_gridVars => TapeInv'  BY TapeStep
<1>3. TapeInv => TicksAddUp  BY DEF TapeInv, AddsUp, TicksAddUp
<1> QED  BY <1>1, <1>2, <1>3, PTL DEF GridSpec
----------------------------------------------------------------------------
\* The sockets of one chart, on their own.
ChartSpec == ChartInit /\ [][ChartNext]_chartVars

ChartTypeOK ==
    /\ study \in {"causal", "bd", "repaints"} /\ rows \in Seq(Int) /\ Len(rows) >= 1
    /\ trouble \in BOOLEAN /\ marks \in {{}, {"study"}}
    /\ last \in [dates : Nat, marks : {{}, {"study"}}, rev : {0, 1}]
    /\ shown \in [rows : Seq(Int), note : BOOLEAN, marks : {{}, {"study"}}]

\* A row that no bar moves any more: it is older than the last one pushed, and with a `bd`
\* window it is not of the running session.
Settled(i) ==
    /\ i \in 1..last.dates - 1
    /\ study = "bd" => i < SessionStart(Len(rows))

\* The client's settled rows are the server's; a study that repaints has none.
SyncInv ==
    /\ ChartTypeOK
    /\ last.dates <= Len(rows) /\ Len(shown.rows) = last.dates
    /\ study # "repaints" => \A i \in 1..Len(rows) : Settled(i) => shown.rows[i] = rows[i]

----------------------------------------------------------------------------
\* A session begins at one of its bars, and at the same one for each of them.
LEMMA SessionStarts ==
    ASSUME NEW n \in Nat \ {0}
    PROVE  /\ SessionStart(n) \in 1..n
           /\ \A m \in Nat \ {0} :
                 Session(m) = Session(n) /\ m <= n => SessionStart(n) = SessionStart(m)
<1> DEFINE First(i, k) == /\ i \in 1..k /\ Session(i) = Session(k)
                          /\ \A j \in 1..i - 1 : Session(j) # Session(k)
<1>1. ASSUME NEW k \in Nat \ {0}  PROVE \E i \in 1..k : First(i, k)
  <2> DEFINE S == {i \in 1..k : Session(i) = Session(k)}
  <2>1. S \in SUBSET Nat /\ k \in S  OBVIOUS
  <2> HIDE DEF S
  <2>2. PICK i \in S : \A j \in S : i <= j
    BY <2>1, LeastNat
  <2>3. \A j \in 1..i - 1 : j \in 1..k /\ j \notin S  BY <2>1, <2>2 DEF S
  <2> QED  BY <2>2, <2>3 DEF S
<1>2. ASSUME NEW k \in Nat \ {0}  PROVE SessionStart(k) \in 1..k /\ First(SessionStart(k), k)
  BY <1>1, <1>2 DEF SessionStart
<1>3. ASSUME NEW m \in Nat \ {0}, Session(m) = Session(n), m <= n
      PROVE  SessionStart(n) = SessionStart(m)
  <2>1. First(SessionStart(m), m) /\ First(SessionStart(n), n)  BY <1>2
  <2>2. ~ SessionStart(m) < SessionStart(n) /\ ~ SessionStart(n) < SessionStart(m)
    BY <1>2, <1>3, <2>1
  <2> QED  BY <1>2, <2>2
<1> QED  BY <1>2, <1>3

\* A tail begins after settled rows only.
LEMMA DeltaKeepsSettled ==
    ASSUME SyncInv, ~ Full
    PROVE  /\ DeltaStart(last.dates, Len(Bars)) \in 0..last.dates
           /\ \A i \in 1..DeltaStart(last.dates, Len(Bars)) : Settled(i)
<1> DEFINE n == Len(rows)
           kept == Kept(last.dates, n)
           start == SessionStart(n)
<1>1. Bars = rows /\ n \in Nat \ {0} /\ last.dates \in Nat /\ last.dates <= n
  BY DEF SyncInv, ChartTypeOK, Full, Bars
<1>2. kept \in Nat /\ kept <= last.dates /\ \A i \in 1..kept : i \in 1..last.dates - 1
  BY <1>1 DEF Kept
<1>3. start \in 1..n  BY <1>1, SessionStarts
<1>4. CASE study # "bd"
  <2>1. DeltaStart(last.dates, n) = kept  BY <1>4 DEF DeltaStart
  <2> QED  BY <1>1, <1>2, <1>4, <2>1 DEF Settled
<1>5. CASE study = "bd"
  <2> DEFINE d == DeltaStart(last.dates, n)
  <2>1. d = Min({kept, start - 1})  BY <1>1, <1>5 DEF DeltaStart
  <2> HIDE DEF kept, start, n
  <2>2. d \in Nat /\ d <= kept /\ d <= start - 1
    <3>1. kept \in Int /\ start - 1 \in Int  BY <1>2, <1>3, <1>1
    <3>2. d \in {kept, start - 1} /\ d <= kept /\ d <= start - 1  BY <2>1, <3>1, MinOfTwo
    <3> QED  BY <1>1, <1>2, <1>3, <3>2
  <2> HIDE DEF d
  <2>3. \A i \in 1..d : i \in 1..last.dates - 1 /\ i < start  BY <1>1, <1>2, <1>3, <2>2
  <2>4. d \in 0..last.dates  BY <1>1, <1>2, <2>2
  <2> QED  BY <1>1, <2>3, <2>4 DEF Settled, d, start, n
<1> QED  BY <1>4, <1>5

\* A prefix of one sequence with the rest of another that agrees on it.
LEMMA SplicedRows ==
    ASSUME NEW s \in Seq(Int), NEW t \in Seq(Int), NEW k \in 0..Len(s), k <= Len(t),
           \A i \in 1..k : s[i] = t[i]
    PROVE  SubSeq(s, 1, k) \o SubSeq(t, k + 1, Len(t)) = t
<1>1. SubSeq(s, 1, k) = SubSeq(t, 1, k)
  <2>1. \A i \in 1..k : s[i] \in Int /\ t[i] \in Int  OBVIOUS
  <2>2. /\ SubSeq(s, 1, k) \in Seq(Int) /\ Len(SubSeq(s, 1, k)) = k
        /\ \A i \in 1..k : SubSeq(s, 1, k)[i] = s[i]
    BY <2>1, SubSeqProperties
  <2>3. /\ SubSeq(t, 1, k) \in Seq(Int) /\ Len(SubSeq(t, 1, k)) = k
        /\ \A i \in 1..k : SubSeq(t, 1, k)[i] = t[i]
    BY <2>1, SubSeqProperties
  <2> QED  BY <2>2, <2>3, SeqEqual
<1>2. SubSeq(t, 1, k) \o SubSeq(t, k + 1, Len(t)) = SubSeq(t, 1, Len(t))
  <2>1. 1 \in 1..Len(t) + 1 /\ k \in 1 - 1..Len(t) /\ Len(t) \in k..Len(t)  OBVIOUS
  <2> QED  BY <2>1, ConcatAdjacentSubSeq
<1> QED  BY <1>1, <1>2, SubSeqFull

\* A push leaves the client with the server's rows, whole chart or tail.
LEMMA PushSyncs == ASSUME SyncInv, Push PROVE shown'.rows = Bars /\ SyncInv'
<1>0. rows \in Seq(Int) /\ shown.rows \in Seq(Int) /\ Bars \in Seq(Int) /\ Len(rows) \in Nat
  BY DEF SyncInv, ChartTypeOK, Bars
<1>1. shown'.rows = Bars /\ shown' \in [rows : Seq(Int), note : BOOLEAN, marks : {{}, {"study"}}]
  <2>1. CASE Full
    <3>1. shown' = WholeChart  BY <2>1 DEF Push
    <3> QED  BY <1>0, <3>1 DEF WholeChart, SyncInv, ChartTypeOK
  <2>2. CASE ~ Full
    <3> DEFINE k == DeltaStart(last.dates, Len(Bars))
    <3>1. Bars = rows /\ study # "repaints"  BY <2>2 DEF Full, Bars
    <3>2. k \in 0..last.dates /\ \A i \in 1..k : Settled(i)  BY <2>2, DeltaKeepsSettled
    <3> HIDE DEF k
    <3>3. /\ k \in 0..Len(shown.rows) /\ k <= Len(rows)
          /\ \A i \in 1..k : shown.rows[i] = rows[i]
      BY <1>0, <3>1, <3>2 DEF SyncInv, ChartTypeOK
    <3>4. shown' = [shown EXCEPT !.rows = SubSeq(shown.rows, 1, k) \o SubSeq(rows, k + 1, Len(rows))]
      BY <2>2, <3>1 DEF Push, Merged, RowsFrom, k
    <3>5. SubSeq(shown.rows, 1, k) \o SubSeq(rows, k + 1, Len(rows)) = rows
      BY <1>0, <3>3, SplicedRows
    <3>6. shown' = [shown EXCEPT !.rows = rows]  BY <3>4, <3>5
    <3> QED  BY <1>0, <3>1, <3>6 DEF SyncInv, ChartTypeOK
  <2> QED  BY <2>1, <2>2
<1>2. last' = [dates |-> Len(Bars), marks |-> marks, rev |-> 1] /\ UNCHANGED <<study, rows, trouble, marks>>
  BY DEF Push
<1>3. ChartTypeOK'  BY <1>0, <1>1, <1>2 DEF SyncInv, ChartTypeOK
<1>4. last'.dates <= Len(rows)' /\ Len(shown.rows)' = last'.dates
  BY <1>0, <1>1, <1>2 DEF Bars
<1>5. \A i \in 1..Len(rows) : Settled(i)' => shown'.rows[i] = rows[i]
  <2>1. trouble => last'.dates = 0  BY <1>2 DEF Bars
  <2>2. ~ trouble => Bars = rows  BY DEF Bars
  <2> QED  BY <1>1, <2>1, <2>2 DEF Settled
<1> QED  BY <1>1, <1>2, <1>3, <1>4, <1>5 DEF SyncInv

LEMMA TickKeepsSync == ASSUME SyncInv, TickRevises PROVE SyncInv'
<1> DEFINE n == Len(rows)
<1>1. n \in Nat \ {0} /\ rows \in Seq(Int)  BY DEF SyncInv, ChartTypeOK
<1>2. /\ rows' = [i \in 1..n |-> IF i \in Moved(n) THEN rows[i] + 1 ELSE rows[i]]
      /\ UNCHANGED <<study, trouble, marks, last, shown>>
  BY DEF TickRevises
<1>3. rows' \in Seq(Int) /\ Len(rows') = n
  <2>1. \A i \in 1..n : rows[i] \in Int  BY <1>1
  <2> HIDE DEF n
  <2> QED  BY <1>1, <1>2, <2>1
<1>4. SessionStart(n) \in 1..n  BY <1>1, SessionStarts
<1>5. ASSUME study # "repaints", NEW i \in 1..n, Settled(i)'  PROVE shown'.rows[i] = rows'[i]
  <2>1. Settled(i) /\ i < n  BY <1>1, <1>2, <1>3, <1>5 DEF Settled, SyncInv, ChartTypeOK
  <2>2. i \notin Moved(n)
    BY <1>1, <1>4, <1>5, <2>1 DEF Moved, Settled, SyncInv, ChartTypeOK
  <2> QED  BY <1>2, <1>5, <2>1, <2>2 DEF SyncInv
<1> QED  BY <1>1, <1>2, <1>3, <1>5 DEF SyncInv, ChartTypeOK

LEMMA BarKeepsSync == ASSUME SyncInv, NewBar, Overnight PROVE SyncInv'
<1> DEFINE m == Len(rows)
           n == m + 1
<1>1. m \in Nat \ {0} /\ n \in Nat \ {0} /\ rows \in Seq(Int)  BY DEF SyncInv, ChartTypeOK
<1>2. /\ rows' = [i \in 1..n |-> IF i = n THEN 0
                                 ELSE IF i \in Moved(n) THEN rows[i] + 1 ELSE rows[i]]
      /\ Session(n) # Session(m) => shown.rows = rows
      /\ UNCHANGED <<study, trouble, marks, last, shown>>
  BY <1>1 DEF NewBar
<1>3. rows' \in Seq(Int) /\ Len(rows') = n
  <2>1. \A i \in 1..n : i # n => rows[i] \in Int  BY <1>1
  <2> HIDE DEF m, n
  <2> QED  BY <1>1, <1>2, <2>1
<1>4. SessionStart(n) \in 1..n  BY <1>1, SessionStarts
<1>5. ASSUME study # "repaints", NEW i \in 1..n, Settled(i)'  PROVE shown'.rows[i] = rows'[i]
  <2>1. i \in 1..last.dates - 1 /\ (study = "bd" => i < SessionStart(n))
    BY <1>2, <1>3, <1>5 DEF Settled
  <2>2. i < m /\ i \in 1..m  BY <1>1, <2>1 DEF SyncInv, ChartTypeOK
  <2>3. i \notin Moved(n)
    BY <1>1, <1>4, <1>5, <2>1, <2>2 DEF Moved, SyncInv, ChartTypeOK
  <2>4. rows'[i] = rows[i]  BY <1>1, <1>2, <2>2, <2>3
  <2>5. shown.rows[i] = rows[i]
    <3>1. CASE Session(n) # Session(m)  BY <1>2, <3>1
    <3>2. CASE Session(n) = Session(m)
      <4>1. SessionStart(n) = SessionStart(m)  BY <1>1, <3>2, SessionStarts
      <4> QED  BY <1>5, <2>1, <2>2, <4>1 DEF Settled, SyncInv
    <3> QED  BY <3>1, <3>2
  <2> QED  BY <1>2, <2>4, <2>5
<1>6. last'.dates <= n  BY <1>1, <1>2 DEF SyncInv, ChartTypeOK
<1> QED  BY <1>1, <1>2, <1>3, <1>5, <1>6 DEF SyncInv, ChartTypeOK

\* The bars come and go, and what the vendor supplies: no row moves.
LEMMA QuietKeepsSync ==
    ASSUME SyncInv, Outage \/ VendorTurns \/ UNCHANGED chartVars PROVE SyncInv'
<1>1. UNCHANGED <<study, rows, last, shown>>  BY DEF Outage, VendorTurns, chartVars
<1>2. trouble' \in BOOLEAN /\ marks' \in {{}, {"study"}}
  BY DEF SyncInv, ChartTypeOK, Outage, VendorTurns, chartVars
<1>3. \A i : Settled(i)' <=> Settled(i)  BY <1>1 DEF Settled
<1> QED  BY <1>1, <1>2, <1>3 DEF SyncInv, ChartTypeOK

\* After every push the client's rows are the server's, whatever moved since the last one,
\* if pushes go out between two sessions (payload.delta_start 290-304, main.py 523-530; the
\* property RowsInSync).
THEOREM TailsAreEnough == ASSUME Overnight PROVE ChartSpec => RowsInSync
<1>1. ChartInit => SyncInv
  <2> SUFFICES ASSUME ChartInit PROVE SyncInv  OBVIOUS
  <2>1. rows = <<0>> /\ rows \in Seq(Int) /\ Len(rows) = 1 /\ << >> \in Seq(Int) /\ Len(<< >>) = 0
    BY DEF ChartInit
  <2>2. last.dates = 0 /\ shown.rows = << >>  BY DEF ChartInit
  <2>3. ChartTypeOK
    <3>1. /\ study \in {"causal", "bd", "repaints"} /\ trouble = FALSE /\ marks = {}
          /\ last = [dates |-> 0, marks |-> {}, rev |-> 0]
          /\ shown = [rows |-> << >>, note |-> FALSE, marks |-> {}]
      BY DEF ChartInit
    <3>2. last \in [dates : Nat, marks : {{}, {"study"}}, rev : {0, 1}]  BY <3>1
    <3>3. shown \in [rows : Seq(Int), note : BOOLEAN, marks : {{}, {"study"}}]
      BY <2>1, <3>1
    <3>4. Len(rows) >= 1 /\ marks \in {{}, {"study"}}  BY <2>1, <3>1, SMT
    <3>5. trouble \in BOOLEAN  BY <3>1, Zenon
    <3> QED  BY <2>1, <3>1, <3>2, <3>3, <3>4, <3>5, Zenon DEF ChartTypeOK
  <2>4. \A i : ~ Settled(i)  BY <2>2 DEF Settled
  <2> QED  BY <2>1, <2>2, <2>3, <2>4 DEF SyncInv
<1>2. SyncInv /\ [ChartNext]_chartVars => SyncInv'
  BY PushSyncs, TickKeepsSync, BarKeepsSync, QuietKeepsSync DEF ChartNext
<1>3. SyncInv /\ [ChartNext]_chartVars => [Push => shown'.rows = Bars]_chartVars
  BY PushSyncs
<1> QED  BY <1>1, <1>2, <1>3, PTL DEF ChartSpec, RowsInSync

----------------------------------------------------------------------------
\* The ticks once they are in day tables.  A read goes through the tables one after the
\* other while a flush may commit; its promise was told when it began.  The invariant says
\* what it has and what it would take from the tables left: together the promise, as long as
\* nothing is committed that it may see.
Slots == 0 .. LastSlot
Bound == {Unset} \cup Nat

\* A sequence that rises.
Rises(s) == \A i, j \in 1 .. Len(s) : i < j => s[i] < s[j]

DumpType ==
    [pc : {"asleep", "read", "write", "wait"}, day : Int, left : SUBSET DOMAIN TickSymbols,
     rows : {<<>>} \cup [SymbolSet -> SUBSET Slots], tries : Nat]
ReadType ==
    [pc : {"tables", "answered"}, symbol : SymbolSet, start : Bound, end : Bound, asOf : Bound,
     left : SUBSET TableDays, rows : Seq(Int), quiet : BOOLEAN, promise : SUBSET Slots]

DayTypeOK ==
    /\ now \in Slots
    /\ rdb \in [SymbolSet -> SUBSET Slots] /\ tlog \in [SymbolSet -> SUBSET Slots]
    /\ tables \in [SymbolSet -> [TableDays -> Seq([at : Slots, rows : SUBSET Slots])]]
    /\ dump \in DumpType
    /\ read = NoRead \/ read \in ReadType

\* Every version of a table holds ticks of its day, and was committed by now; and a flush
\* that writes has ticks of its day for every symbol left.  A read is of tables there are, as
\* of a moment that is over.
VersionsOK ==
    /\ \A s \in SymbolSet, d \in TableDays : \A v \in DOMAIN tables[s][d] :
          /\ tables[s][d][v].at <= now
          /\ tables[s][d][v].rows # {}
          /\ \A t \in tables[s][d][v].rows : DayOf(t) = d
    /\ dump.pc = "write" =>
          /\ dump.day \in TableDays /\ dump.left # {}
          /\ dump.rows \in [SymbolSet -> SUBSET Slots]
          /\ \A i \in dump.left :
                /\ dump.rows[TickSymbols[i]] # {}
                /\ \A t \in dump.rows[TickSymbols[i]] : DayOf(t) = dump.day
    /\ read.pc = "tables" =>
          /\ read.asOf = Unset \/ read.asOf < now
          /\ \A d \in read.left : d \in DayKeys(read.symbol)

\* What a read takes from the table of a day, told from what was held then.
Taken(r, d) ==
    LET inside == Inside(HeldOf(r.symbol, d, r.asOf), r.start, r.end) IN
    IF r.start = Unset /\ r.end = Unset THEN NewestTicks(inside) ELSE inside
ToCome(r) == UNION {Taken(r, d) : d \in r.left}

\* A read that something may still be asked of: its rows and what it would take from the
\* tables left, were nothing committed any more, are the promise; the rows are those of
\* earlier days, in order.
ReadOK(r) ==
    \/ r.pc = "idle"
    \/ r.asOf = Unset /\ ~r.quiet
    \/ /\ r.pc = "tables"
       /\ Rises(r.rows)
       /\ \A d \in r.left, t \in ToSet(r.rows) : DayOf(t) < d
       /\ ToSet(r.rows) \subseteq Slots
       /\ r.promise = NewestTicks(ToSet(r.rows) \cup ToCome(r))
    \/ r.pc = "answered" /\ r.rows = Ascending(r.promise)

DayInv == DayTypeOK /\ VersionsOK /\ ReadOK(read)

----------------------------------------------------------------------------
\* Later slots are of later days, or the same.
LEMMA DaysGrow == ASSUME NEW t \in Nat, NEW u \in Nat PROVE DayOf(t) \in Nat /\ (t <= u => DayOf(t) <= DayOf(u))
BY DayBounds, QuotientsGrow DEF DayOf

\* A stretch of one holds as many members as it has places.
LEMMA RisingStretch ==
    ASSUME NEW s \in Seq(Int), Rises(s), NEW m \in 1 .. Len(s) + 1, NEW k \in m - 1 .. Len(s)
    PROVE  /\ IsFiniteSet({s[i] : i \in m .. k})
           /\ Cardinality({s[i] : i \in m .. k}) = k - m + 1
<1> DEFINE T == {s[i] : i \in m .. k}
           f == [i \in m .. k |-> s[i]]
<1>1. Len(s) \in Nat /\ m \in Int /\ k \in Int /\ m .. k \subseteq 1 .. Len(s)  OBVIOUS
<1>2. \A i \in 1 .. Len(s) : s[i] \in Int  BY ElementOfSeq
<1>3. f \in Injection(m .. k, T)
  <2>1. f \in [m .. k -> T]  OBVIOUS
  <2>2. \A i, j \in m .. k : f[i] = f[j] => i = j
    <3> SUFFICES ASSUME NEW i \in m .. k, NEW j \in m .. k, i # j PROVE f[i] # f[j]  OBVIOUS
    <3>1. i \in 1 .. Len(s) /\ j \in 1 .. Len(s)  BY <1>1
    <3>2. s[i] < s[j] \/ s[j] < s[i]  BY <3>1 DEF Rises
    <3> QED  BY <1>2, <3>1, <3>2
  <2> HIDE DEF f, T
  <2> QED  BY <2>1, <2>2 DEF Injection, IsInjective
<1>4. f \in Surjection(m .. k, T)
  <2>1. f \in [m .. k -> T] /\ \A t \in T : \E i \in m .. k : f[i] = t  OBVIOUS
  <2> HIDE DEF f, T
  <2> QED  BY <2>1 DEF Surjection
<1>5. ExistsBijection(m .. k, T)
  <2> HIDE DEF f, T
  <2> QED  BY <1>3, <1>4 DEF ExistsBijection, Bijection
<1>6. IsFiniteSet(m .. k) /\ Cardinality(m .. k) = k - m + 1
  <2>1. /\ IsFiniteSet(m .. k)
        /\ Cardinality(m .. k) = IF m > k THEN 0 ELSE k - m + 1
    BY <1>1, FS_Interval
  <2>2. m > k => k - m + 1 = 0  BY <1>1
  <2> QED  BY <2>1, <2>2
<1> HIDE DEF T
<1>7. IsFiniteSet(T) /\ Cardinality(T) = k - m + 1  BY <1>5, <1>6, FS_Bijection
<1> QED  BY <1>7 DEF T

\* The rows of a table, oldest first, are a rising sequence of them, and the only one.
LEMMA AscendingRises ==
    ASSUME NEW S \in SUBSET Int, IsFiniteSet(S)
    PROVE  Ascending(S) \in Seq(S) /\ Rises(Ascending(S)) /\ ToSet(Ascending(S)) = S
<1> DEFINE n == Cardinality(S)
           Place(t) == Cardinality({u \in S : u < t})
           At(i) == CHOOSE t \in S : Place(t) = i - 1
           a == [i \in 1 .. n |-> At(i)]
<1>1. \A t : Place(t) = Cardinality(Below(S, t))  BY DEF Below
<1>2. n \in Nat /\ \A t \in S : Place(t) \in 0 .. n - 1  BY <1>1, PlacesAreTaken
<1>3. \A t, u \in S : t < u => Place(t) < Place(u)  BY <1>1, PlacesAreTaken
<1>4. \A k \in 0 .. n - 1 : \E t \in S : Place(t) = k  BY <1>1, PlacesAreTaken
<1> HIDE DEF Place, n
<1>5. \A i \in 1 .. n : At(i) \in S /\ Place(At(i)) = i - 1
  <2> TAKE i \in 1 .. n
  <2>1. i - 1 \in 0 .. n - 1  BY <1>2
  <2> QED  BY <1>4, <2>1
<1>6. \A t, u \in S : Place(t) = Place(u) => t = u
  <2> SUFFICES ASSUME NEW t \in S, NEW u \in S, t # u PROVE Place(t) # Place(u)  OBVIOUS
  <2>1. t < u \/ u < t  OBVIOUS
  <2> QED  BY <1>2, <1>3, <2>1
<1>7. \A i, j \in 1 .. n : i < j => At(i) < At(j)
  <2> SUFFICES ASSUME NEW i \in 1 .. n, NEW j \in 1 .. n, i < j PROVE At(i) < At(j)  OBVIOUS
  <2>1. /\ At(i) \in S /\ At(j) \in S /\ Place(At(i)) = i - 1 /\ Place(At(j)) = j - 1
    BY <1>5
  <2> HIDE DEF At
  <2>2. At(i) \in Int /\ At(j) \in Int  BY <2>1
  <2>3. At(j) < At(i) => Place(At(j)) < Place(At(i))  BY <1>3, <2>1
  <2>4. At(i) # At(j)  BY <1>2, <2>1
  <2> QED  BY <1>2, <2>1, <2>2, <2>3, <2>4
<1>8. \A t \in S : \E i \in 1 .. n : At(i) = t
  <2> TAKE t \in S
  <2>1. Place(t) + 1 \in 1 .. n  BY <1>2
  <2>2. At(Place(t) + 1) \in S /\ Place(At(Place(t) + 1)) = Place(t)  BY <1>2, <1>5, <2>1
  <2> QED  BY <1>6, <2>1, <2>2
<1> HIDE DEF At
<1>9. a \in Seq(S) /\ Len(a) = n /\ DOMAIN a = 1 .. n  BY <1>2, <1>5
<1>10. Rises(a)  BY <1>7, <1>9 DEF Rises
<1>11. ToSet(a) = S
  <2>1. ToSet(a) = {At(i) : i \in 1 .. n}  BY <1>9 DEF ToSet
  <2> QED  BY <1>5, <1>8, <2>1
<1>12. Ascending(S) = a  BY DEF Ascending, a, At, Place, n
<1> QED  BY <1>9, <1>10, <1>11, <1>12

LEMMA RisingIsAscending ==
    ASSUME NEW s \in Seq(Int), Rises(s)
    PROVE  s = Ascending(ToSet(s))
<1> DEFINE S == ToSet(s)
           n == Len(s)
<1>1. n \in Nat /\ DOMAIN s = 1 .. n /\ \A i \in 1 .. n : s[i] \in Int  BY LenProperties, ElementOfSeq
<1>2. S = {s[i] : i \in 1 .. n}  BY <1>1 DEF ToSet
<1>3. S \in SUBSET Int /\ IsFiniteSet(S) /\ Cardinality(S) = n
  <2>1. 1 \in 1 .. Len(s) + 1 /\ n \in 1 - 1 .. Len(s)  BY <1>1
  <2>2. IsFiniteSet({s[i] : i \in 1 .. n}) /\ Cardinality({s[i] : i \in 1 .. n}) = n - 1 + 1
    BY <2>1, RisingStretch
  <2>3. S \in SUBSET Int  BY <1>1, <1>2
  <2>4. n - 1 + 1 = n  BY <1>1
  <2> HIDE DEF S, n
  <2> QED  BY <1>2, <2>2, <2>3, <2>4
<1> DEFINE a == Ascending(S)
<1>4. a \in Seq(S) /\ Rises(a) /\ ToSet(a) = S  BY <1>3, AscendingRises
<1>5. a \in Seq(Int)  BY <1>3, <1>4, SeqMonotonic
<1>6. Len(a) = n /\ DOMAIN a = 1 .. n
  <2>1. a = [i \in 1 .. n |-> CHOOSE t \in S : Cardinality({u \in S : u < t}) = i - 1]
    BY <1>3 DEF Ascending
  <2>2. DOMAIN a = 1 .. n  BY <2>1
  <2> HIDE DEF a, S
  <2>3. DOMAIN a = 1 .. Len(a) /\ Len(a) \in Nat  BY <1>5
  <2> QED  BY <1>1, <1>5, <2>2
<1>7. \A i \in 1 .. n : s[i] \in S /\ Cardinality(Below(S, s[i])) = i - 1
  <2> TAKE i \in 1 .. n
  <2>1. Below(S, s[i]) = {s[j] : j \in 1 .. i - 1}
    <3>1. \A j \in 1 .. n : s[j] < s[i] <=> j < i
      <4> TAKE j \in 1 .. n
      <4>1. j < i => s[j] < s[i]  BY <1>1 DEF Rises
      <4>2. i < j => s[i] < s[j]  BY <1>1 DEF Rises
      <4>3. s[i] \in Int /\ s[j] \in Int  BY <1>1
      <4> QED  BY <4>1, <4>2, <4>3
    <3>2. Below(S, s[i]) = {s[j] : j \in {k \in 1 .. n : s[k] < s[i]}}  BY <1>2 DEF Below
    <3>3. {k \in 1 .. n : s[k] < s[i]} = 1 .. i - 1  BY <1>1, <3>1
    <3> QED  BY <3>2, <3>3
  <2>2. 1 \in 1 .. Len(s) + 1 /\ i - 1 \in 1 - 1 .. Len(s)  BY <1>1
  <2>3. Cardinality({s[j] : j \in 1 .. i - 1}) = i - 1 - 1 + 1  BY <2>2, RisingStretch
  <2>4. s[i] \in S /\ i - 1 - 1 + 1 = i - 1  BY <1>1, <1>2
  <2> HIDE DEF S, n
  <2> QED  BY <2>1, <2>3, <2>4
<1>8. \A i \in 1 .. n : a[i] \in S /\ Cardinality(Below(S, a[i])) = i - 1
  <2> TAKE i \in 1 .. n
  <2>1. a[i] = CHOOSE t \in S : Cardinality(Below(S, t)) = i - 1
    BY <1>3 DEF Ascending, Below
  <2> HIDE DEF a, S
  <2> QED  BY <1>7, <2>1
<1>9. \A i \in 1 .. n : s[i] = a[i]
  <2> TAKE i \in 1 .. n
  <2> HIDE DEF a, S
  <2>1. \A t, u \in S : t < u => Cardinality(Below(S, t)) < Cardinality(Below(S, u))
    BY <1>3, PlacesAreTaken
  <2>2. s[i] \in Int /\ a[i] \in Int  BY <1>3, <1>7, <1>8
  <2>3. /\ s[i] \in S /\ a[i] \in S /\ i - 1 \in Int
        /\ Cardinality(Below(S, s[i])) = i - 1 /\ Cardinality(Below(S, a[i])) = i - 1
    BY <1>1, <1>7, <1>8
  <2>4. ~(s[i] < a[i]) /\ ~(a[i] < s[i])  BY <2>1, <2>3
  <2> QED  BY <2>2, <2>4
<1> HIDE DEF a, S
<1> QED  BY <1>1, <1>5, <1>6, <1>9, SeqEqual DEF a, S

\* The newest of the newest are the newest.
LEMMA NewestOnce ==
    ASSUME NEW S \in SUBSET Int, IsFiniteSet(S)
    PROVE  NewestTicks(NewestTicks(S)) = NewestTicks(S)
<1> DEFINE Above(T, t) == {u \in T : u > t}
           N == NewestTicks(S)
<1>1. N \in SUBSET S /\ \A T, t : t \in NewestTicks(T) <=> t \in T /\ Cardinality(Above(T, t)) < TailRows
  BY DEF NewestTicks
<1>2. \A t \in N, u \in S : u > t => u \in N
  <2> SUFFICES ASSUME NEW t \in N, NEW u \in S, u > t PROVE u \in N  OBVIOUS
  <2>1. t \in Int /\ u \in Int  BY <1>1
  <2>2. Above(S, u) \in SUBSET Above(S, t) /\ Above(S, t) \in SUBSET S
    <3>1. \A x \in S : x > u => x > t
      <4> TAKE x \in S
      <4>1. x \in Int  OBVIOUS
      <4> QED  BY <2>1, <4>1
    <3> QED  BY <3>1
  <2> HIDE DEF N
  <2>3. IsFiniteSet(Above(S, t))  BY <2>2, FS_Subset
  <2>4. /\ IsFiniteSet(Above(S, u)) /\ Cardinality(Above(S, u)) <= Cardinality(Above(S, t))
    BY <2>2, <2>3, FS_Subset
  <2>5. Cardinality(Above(S, t)) \in Nat /\ Cardinality(Above(S, u)) \in Nat
    BY <2>3, <2>4, FS_CardinalityType
  <2>6. t \in S /\ Cardinality(Above(S, t)) < TailRows  BY <1>1 DEF N
  <2> HIDE DEF Above
  <2>7. Cardinality(Above(S, u)) < TailRows  BY <2>4, <2>5, <2>6, DayBounds
  <2> QED  BY <1>1, <2>7 DEF N
<1>3. \A t \in N : Above(N, t) = Above(S, t)  BY <1>1, <1>2
<1> HIDE DEF N, Above
<1>4. \A t : t \in NewestTicks(N) <=> t \in N  BY <1>1, <1>3 DEF N
<1> QED  BY <1>4 DEF N

\* Where the last rows begin.
LEMMA LastRowsBegin ==
    ASSUME NEW s \in Seq(Int)
    PROVE  \E from \in Nat \ {0} :
               /\ from <= Len(s) + 1
               /\ \A i \in 1 .. Len(s) : i >= from <=> Len(s) - i < TailRows
               /\ LastRows(s) \in Seq(Int) /\ Len(LastRows(s)) = Len(s) - from + 1
               /\ \A i \in 1 .. Len(s) - from + 1 : LastRows(s)[i] = s[from + i - 1]
<1> DEFINE n == Len(s)
           from == Max({1, n - TailRows + 1})
           l == LastRows(s)
<1>1. n \in Nat /\ DOMAIN s = 1 .. n /\ \A i \in 1 .. n : s[i] \in Int  BY LenProperties, ElementOfSeq
<1>2. TailRows \in Nat \ {0}  BY DayBounds
<1>3. from \in Nat \ {0} /\ from <= n + 1 /\ \A i \in 1 .. n : i >= from <=> n - i < TailRows
  <2> DEFINE S == {1, n - TailRows + 1}
  <2>1. S \in SUBSET Int /\ S # {} /\ IsFiniteSet(S)
    <3> DEFINE k == n - TailRows + 1
    <3>1. k \in Int  BY <1>1, <1>2
    <3> HIDE DEF k
    <3>2. IsFiniteSet({1})  BY FS_Singleton
    <3>3. IsFiniteSet({1} \cup {k})  BY <3>2, FS_AddElement
    <3>4. {1, k} = {1} \cup {k}  OBVIOUS
    <3>5. IsFiniteSet({1, k})  BY <3>3, <3>4
    <3>6. {1, k} \in SUBSET Int /\ {1, k} # {}  BY <3>1
    <3> QED  BY <3>5, <3>6 DEF k
  <2>2. Max(S) \in S /\ \A y \in S : Max(S) >= y
    <3> HIDE DEF S
    <3> QED  BY <2>1, MaxOfFinite
  <2>3. from \in {1, n - TailRows + 1} /\ from >= 1 /\ from >= n - TailRows + 1  BY <2>2
  <2> HIDE DEF n, from, S
  <2> QED  BY <1>1, <1>2, <2>3
<1> HIDE DEF n, from
<1>4. /\ l \in Seq(Int) /\ Len(l) = n - from + 1
      /\ \A i \in 1 .. n - from + 1 : l[i] = s[from + i - 1]
  <2>1. \A i \in from .. n : s[i] \in Int  BY <1>1, <1>3
  <2>2. /\ SubSeq(s, from, n) \in Seq(Int)
        /\ Len(SubSeq(s, from, n)) = IF from <= n THEN n - from + 1 ELSE 0
        /\ \A i \in 1 .. n - from + 1 : SubSeq(s, from, n)[i] = s[from + i - 1]
    <3>1. from \in Int /\ n \in Int  BY <1>1, <1>3
    <3> QED  BY <2>1, <3>1, SubSeqProperties
  <2>3. ~(from <= n) => n - from + 1 = 0  BY <1>1, <1>3
  <2>4. l = SubSeq(s, from, n)  BY DEF l, LastRows, from, n
  <2> QED  BY <2>2, <2>3, <2>4
<1> QED  BY <1>3, <1>4 DEF l, n

\* The last rows of a rising sequence are the newest of what it holds.
LEMMA LastRowsAreNewest ==
    ASSUME NEW s \in Seq(Int), Rises(s)
    PROVE  LastRows(s) = Ascending(NewestTicks(ToSet(s)))
<1> DEFINE n == Len(s)
           l == LastRows(s)
<1>1. n \in Nat /\ DOMAIN s = 1 .. n /\ \A i \in 1 .. n : s[i] \in Int  BY LenProperties, ElementOfSeq
<1>2. PICK from \in Nat \ {0} :
         /\ from <= n + 1
         /\ \A i \in 1 .. n : i >= from <=> n - i < TailRows
         /\ l \in Seq(Int) /\ Len(l) = n - from + 1
         /\ \A i \in 1 .. n - from + 1 : l[i] = s[from + i - 1]
  BY LastRowsBegin
<1>3. from <= n + 1 /\ \A i \in 1 .. n : i >= from <=> n - i < TailRows  BY <1>2
<1>4. /\ l \in Seq(Int) /\ Len(l) = n - from + 1
      /\ \A i \in 1 .. n - from + 1 : l[i] = s[from + i - 1]
  BY <1>2
<1> HIDE DEF n
<1> HIDE DEF l
<1>5. Rises(l)
  <2> SUFFICES ASSUME NEW i \in 1 .. Len(l), NEW j \in 1 .. Len(l), i < j PROVE l[i] < l[j]
    BY DEF Rises
  <2>1. /\ from + i - 1 \in 1 .. Len(s) /\ from + j - 1 \in 1 .. Len(s)
        /\ from + i - 1 < from + j - 1
    <3>1. i \in 1 .. n - from + 1 /\ j \in 1 .. n - from + 1  BY <1>4
    <3>2. n = Len(s) /\ n \in Nat /\ from \in Nat /\ from >= 1  BY <1>1, <1>3
    <3> HIDE DEF n
    <3> QED  BY <3>1, <3>2
  <2>2. s[from + i - 1] < s[from + j - 1]  BY <2>1 DEF Rises
  <2> QED  BY <1>4, <2>2
<1>6. ToSet(l) = {s[i] : i \in from .. n}
  <2>1. DOMAIN l = 1 .. n - from + 1  BY <1>4
  <2>2. ToSet(l) = {s[from + i - 1] : i \in 1 .. n - from + 1}  BY <1>4, <2>1 DEF ToSet
  <2>3. \A i \in from .. n : i - from + 1 \in 1 .. n - from + 1 /\ from + (i - from + 1) - 1 = i
    BY <1>1, <1>3
  <2>4. \A i \in 1 .. n - from + 1 : from + i - 1 \in from .. n  BY <1>1, <1>3
  <2> QED  BY <2>2, <2>3, <2>4
<1>7. \A i \in 1 .. n : s[i] \in NewestTicks(ToSet(s)) <=> i >= from
  <2> TAKE i \in 1 .. n
  <2> DEFINE A == {u \in ToSet(s) : u > s[i]}
  <2>1. A = {s[j] : j \in i + 1 .. n}
    <3>1. ToSet(s) = {s[j] : j \in 1 .. n}  BY <1>1 DEF ToSet
    <3>2. \A j \in 1 .. n : s[j] > s[i] <=> j > i
      <4> TAKE j \in 1 .. n
      <4>1. j < i => s[j] < s[i]  BY DEF Rises, n
      <4>2. i < j => s[i] < s[j]  BY DEF Rises, n
      <4>3. s[i] \in Int /\ s[j] \in Int  BY <1>1
      <4> QED  BY <4>1, <4>2, <4>3
    <3>3. A = {s[j] : j \in {k \in 1 .. n : s[k] > s[i]}}  BY <3>1
    <3>4. {k \in 1 .. n : s[k] > s[i]} = i + 1 .. n  BY <1>1, <3>2
    <3> QED  BY <3>3, <3>4
  <2>2. i + 1 \in 1 .. Len(s) + 1 /\ n \in i + 1 - 1 .. Len(s)  BY <1>1 DEF n
  <2>3. Cardinality({s[j] : j \in i + 1 .. n}) = n - (i + 1) + 1  
    <3> DEFINE m == i + 1
    <3>1. m \in 1 .. Len(s) + 1 /\ n \in m - 1 .. Len(s)  BY <2>2
    <3> HIDE DEF m
    <3>2. Cardinality({s[j] : j \in m .. n}) = n - m + 1  BY <3>1, RisingStretch
    <3> QED  BY <3>2 DEF m
  <2>4. n - (i + 1) + 1 = n - i  BY <1>1
  <2>5. Cardinality(A) = n - i  BY <2>1, <2>3, <2>4
  <2>6. s[i] \in ToSet(s)  BY <1>1 DEF ToSet
  <2>7. s[i] \in NewestTicks(ToSet(s)) <=> Cardinality(A) < TailRows  BY <2>6 DEF NewestTicks
  <2> HIDE DEF A
  <2> QED  BY <1>3, <2>5, <2>7
<1>8. ToSet(l) = NewestTicks(ToSet(s))
  <2>1. \A t \in NewestTicks(ToSet(s)) : \E i \in 1 .. n : t = s[i]  BY <1>1 DEF NewestTicks, ToSet
  <2>2. from .. n = {i \in 1 .. n : i >= from}  BY <1>1, <1>3
  <2> QED  BY <1>6, <1>7, <2>1, <2>2
<1>9. l = Ascending(ToSet(l))  BY <1>4, <1>5, RisingIsAscending
<1> QED  BY <1>8, <1>9 DEF l

\* A rising sequence goes on rising with later ones.
LEMMA RisingGoesOn ==
    ASSUME NEW s \in Seq(Int), Rises(s), NEW r \in Seq(Int), Rises(r),
           \A t \in ToSet(s), u \in ToSet(r) : t < u
    PROVE  s \o r \in Seq(Int) /\ Rises(s \o r) /\ ToSet(s \o r) = ToSet(s) \cup ToSet(r)
<1> DEFINE c == s \o r  m == Len(s)  n == Len(r)
<1>1. /\ c \in Seq(Int) /\ Len(c) = m + n /\ m \in Nat /\ n \in Nat
      /\ \A i \in 1 .. m + n : c[i] = IF i <= m THEN s[i] ELSE r[i - m]
      /\ DOMAIN s = 1 .. m /\ DOMAIN r = 1 .. n /\ DOMAIN c = 1 .. m + n
  BY ConcatProperties, LenProperties
<1> HIDE DEF c
<1>2. ToSet(s) = {s[i] : i \in 1 .. m} /\ ToSet(r) = {r[i] : i \in 1 .. n}
  BY <1>1 DEF ToSet
<1>3. Rises(c)
  <2> SUFFICES ASSUME NEW i \in 1 .. m + n, NEW j \in 1 .. m + n, i < j PROVE c[i] < c[j]
    BY <1>1 DEF Rises
  <2>1. CASE j <= m
    <3>1. i \in 1 .. m /\ j \in 1 .. m  BY <1>1, <2>1
    <3>2. s[i] < s[j]  BY <3>1 DEF Rises
    <3> QED  BY <1>1, <2>1, <3>1, <3>2
  <2>2. CASE i > m
    <3>1. i - m \in 1 .. n /\ j - m \in 1 .. n /\ i - m < j - m  BY <1>1, <2>2
    <3>2. r[i - m] < r[j - m]  BY <3>1 DEF Rises
    <3>3. ~(i <= m) /\ ~(j <= m)  BY <1>1, <2>2
    <3> QED  BY <1>1, <3>2, <3>3
  <2>3. CASE i <= m /\ j > m
    <3>1. i \in 1 .. m /\ j - m \in 1 .. n  BY <1>1, <2>3
    <3>2. s[i] < r[j - m]  BY <1>2, <3>1
    <3>3. ~(j <= m)  BY <1>1, <2>3
    <3> QED  BY <1>1, <2>3, <3>2, <3>3
  <2> QED  BY <1>1, <2>1, <2>2, <2>3
<1>4. ToSet(c) = ToSet(s) \cup ToSet(r)
  <2>1. ToSet(c) = {c[i] : i \in 1 .. m + n}  BY <1>1 DEF ToSet
  <2>2. \A i \in 1 .. m + n : c[i] \in ToSet(s) \cup ToSet(r)
    <3> TAKE i \in 1 .. m + n
    <3>1. CASE i <= m
      <4>1. i \in 1 .. m  BY <1>1, <3>1
      <4> QED  BY <1>1, <1>2, <3>1, <4>1
    <3>2. CASE ~(i <= m)
      <4>1. i - m \in 1 .. n  BY <1>1, <3>2
      <4> QED  BY <1>1, <1>2, <3>2, <4>1
    <3> QED  BY <3>1, <3>2
  <2>3. \A i \in 1 .. m : i \in 1 .. m + n /\ c[i] = s[i]
    <3> TAKE i \in 1 .. m
    <3>1. i \in 1 .. m + n /\ i <= m  BY <1>1
    <3> QED  BY <1>1, <3>1
  <2>4. \A i \in 1 .. n : m + i \in 1 .. m + n /\ c[m + i] = r[i]
    <3> TAKE i \in 1 .. n
    <3> DEFINE k == m + i
    <3>1. k \in 1 .. m + n /\ ~(k <= m) /\ k - m = i  BY <1>1
    <3> HIDE DEF k
    <3>2. c[k] = IF k <= m THEN s[k] ELSE r[k - m]  BY <1>1, <3>1
    <3>3. k \in 1 .. m + n /\ c[k] = r[i]  BY <3>1, <3>2
    <3> QED  BY <3>3 DEF k
  <2>5. \A t \in ToSet(s) : t \in ToSet(c)  BY <1>2, <2>1, <2>3
  <2>6. \A t \in ToSet(r) : t \in ToSet(c)  BY <1>2, <2>1, <2>4
  <2>7. \A t \in ToSet(c) : t \in ToSet(s) \cup ToSet(r)  BY <2>1, <2>2
  <2> QED  BY <2>5, <2>6, <2>7
<1> QED  BY <1>1, <1>3, <1>4 DEF c

\* Sets of slots are finite.
LEMMA SlotsAreFinite == ASSUME NEW S \in SUBSET Slots PROVE S \in SUBSET Int /\ IsFiniteSet(S)
<1>1. LastSlot \in Nat  BY DayBounds
<1>2. IsFiniteSet(Slots)  BY <1>1, FS_Interval DEF Slots
<1>3. IsFiniteSet(S)  BY <1>2, FS_Subset
<1>4. S \in SUBSET Int  BY <1>1 DEF Slots
<1> QED  BY <1>3, <1>4

\* What a symbol's table of a day held at a moment: ticks of that day, some if the table
\* had been committed by then, and what a reader as of that moment is given.
LEMMA HeldIs ==
    ASSUME DayTypeOK, VersionsOK, NEW s \in SymbolSet, NEW d \in TableDays, NEW asOf \in Bound
    PROVE  /\ HeldOf(s, d, asOf) \in SUBSET Slots
           /\ \A t \in HeldOf(s, d, asOf) : DayOf(t) = d
           /\ HeldOf(s, d, asOf) # {} <=> d \in DayKeys(s) /\ CommittedBy(s, d, asOf)
           /\ HeldOf(s, d, asOf) # {} => VersionAt(tables[s][d], asOf).rows = HeldOf(s, d, asOf)
<1> DEFINE vs == tables[s][d]
           by == {v \in DOMAIN vs : asOf = Unset \/ vs[v].at <= asOf}
           Version == [at : Slots, rows : SUBSET Slots]
<1>1. /\ vs \in Seq(Version)
      /\ \A v \in DOMAIN vs : vs[v].rows # {} /\ \A t \in vs[v].rows : DayOf(t) = d
  <2>1. vs \in Seq(Version)  BY DEF DayTypeOK
  <2>2. \A v \in DOMAIN vs : vs[v].rows # {} /\ \A t \in vs[v].rows : DayOf(t) = d
    BY DEF VersionsOK
  <2> QED  BY <2>1, <2>2
<1> HIDE DEF vs
<1>2. /\ Len(vs) \in Nat /\ DOMAIN vs = 1 .. Len(vs) /\ (vs = <<>> <=> DOMAIN vs = {})
      /\ \A v \in DOMAIN vs : vs[v].rows \in SUBSET Slots
  <2>1. /\ Len(vs) \in Nat /\ DOMAIN vs = 1 .. Len(vs) /\ \A v \in DOMAIN vs : vs[v] \in Version
    <3> HIDE DEF Version
    <3> QED  BY <1>1, LenProperties, ElementOfSeq
  <2>2. vs = <<>> <=> Len(vs) = 0
    <3> HIDE DEF Version
    <3> QED  BY <1>1, EmptySeq
  <2>3. Len(vs) = 0 <=> 1 .. Len(vs) = {}  BY <2>1
  <2> QED  BY <2>1, <2>2, <2>3
<1>3. HeldOf(s, d, asOf) = IF by = {} THEN {} ELSE vs[Max(by)].rows  BY DEF HeldOf, vs
<1>4. by # {} => Max(by) \in by /\ \A y \in by : Max(by) >= y
  <2> SUFFICES ASSUME by # {} PROVE Max(by) \in by /\ \A y \in by : Max(by) >= y  OBVIOUS
  <2>1. by \in SUBSET (1 .. Len(vs)) /\ by \in SUBSET Int  BY <1>2
  <2>2. IsFiniteSet(1 .. Len(vs))  BY <1>2, FS_Interval
  <2> HIDE DEF by
  <2>3. IsFiniteSet(by)  BY <2>1, <2>2, FS_Subset
  <2> QED  BY <2>1, <2>3, MaxOfFinite
<1>5. by # {} <=> d \in DayKeys(s) /\ CommittedBy(s, d, asOf)
  <2>1. d \in DayKeys(s) <=> DOMAIN vs # {}  BY <1>2 DEF DayKeys, vs
  <2>2. CommittedBy(s, d, asOf) <=> asOf = Unset \/ \E v \in DOMAIN vs : vs[v].at <= asOf
    BY DEF CommittedBy, vs
  <2> QED  BY <2>1, <2>2
<1>6. CASE by = {}  BY <1>3, <1>5, <1>6
<1>7. CASE by # {}
  <2>1. Max(by) \in DOMAIN vs /\ HeldOf(s, d, asOf) = vs[Max(by)].rows  BY <1>3, <1>4, <1>7
  <2>2. asOf = Unset => Max(by) = Len(vs)
    <3> SUFFICES ASSUME asOf = Unset PROVE Max(by) = Len(vs)  OBVIOUS
    <3>1. by = 1 .. Len(vs)  BY <1>2
    <3>2. Len(vs) \in by /\ Max(by) \in 1 .. Len(vs)  BY <1>2, <1>4, <1>7, <3>1
    <3>3. Max(by) >= Len(vs)  BY <1>4, <1>7, <3>2
    <3> HIDE DEF by
    <3> QED  BY <1>2, <3>2, <3>3
  <2>3. VersionAt(vs, asOf).rows = vs[Max(by)].rows
    <3>1. CASE asOf = Unset  BY <2>2, <3>1 DEF VersionAt
    <3>2. CASE asOf # Unset
      <4>1. by = {v \in DOMAIN vs : vs[v].at <= asOf}  BY <3>2
      <4> QED  BY <1>7, <3>2, <4>1 DEF VersionAt
    <3> QED  BY <3>1, <3>2
  <2> HIDE DEF by
  <2> QED  BY <1>1, <1>2, <1>5, <1>7, <2>1, <2>3 DEF vs
<1> QED  BY <1>6, <1>7

\* A version committed now changes nothing of an earlier moment.
LEMMA HeldStays ==
    ASSUME DayTypeOK, NEW s \in SymbolSet, NEW d \in TableDays, NEW X \in SUBSET Slots,
           tables' = [tables EXCEPT ![s][d] = Append(@, [at |-> now, rows |-> X])],
           NEW asOf \in Bound, asOf # Unset, asOf < now
    PROVE  \A s2 \in SymbolSet, d2 \in TableDays :
               HeldOf(s2, d2, asOf)' = HeldOf(s2, d2, asOf)
<1> TAKE s2 \in SymbolSet, d2 \in TableDays
<1> DEFINE vs == tables[s2][d2]
           by == {v \in DOMAIN vs : vs[v].at <= asOf}
<1>1. /\ vs \in Seq([at : Slots, rows : SUBSET Slots]) /\ now \in Slots /\ now \in Int
      /\ Len(vs) \in Nat /\ DOMAIN vs = 1 .. Len(vs)
  <2>1. vs \in Seq([at : Slots, rows : SUBSET Slots]) /\ now \in Slots  BY DEF DayTypeOK
  <2>2. now \in Int  BY <2>1, DayBounds DEF Slots
  <2> HIDE DEF vs
  <2>3. Len(vs) \in Nat /\ DOMAIN vs = 1 .. Len(vs)  BY <2>1, LenProperties
  <2> QED  BY <2>1, <2>2, <2>3
<1>2. asOf \in Int  BY DEF Bound
<1>3. tables' [s2][d2] = IF s2 = s /\ d2 = d THEN Append(vs, [at |-> now, rows |-> X]) ELSE vs
  BY DEF DayTypeOK
<1>4. HeldOf(s2, d2, asOf) = IF by = {} THEN {} ELSE vs[Max(by)].rows  BY DEF HeldOf
<1> DEFINE ws == tables' [s2][d2]
           then == {v \in DOMAIN ws : ws[v].at <= asOf}
<1>5. HeldOf(s2, d2, asOf)' = IF then = {} THEN {} ELSE ws[Max(then)].rows
  <2> DEFINE visible == {v \in DOMAIN ws : asOf = Unset \/ ws[v].at <= asOf}
  <2>1. visible = then  OBVIOUS
  <2>2. HeldOf(s2, d2, asOf)' = IF visible = {} THEN {} ELSE ws[Max(visible)].rows
    BY Zenon DEF HeldOf
  <2> HIDE DEF visible, then
  <2> QED  BY <2>1, <2>2
<1>6. then = by /\ \A v \in by : ws[v] = vs[v]
  <2>1. CASE s2 = s /\ d2 = d
    <3> DEFINE r == [at |-> now, rows |-> X]
    <3>1. r \in [at : Slots, rows : SUBSET Slots]  BY <1>1
    <3>2. ws = Append(vs, r)  BY <1>3, <2>1
    <3> HIDE DEF r, vs, ws
    <3>3. /\ DOMAIN ws = 1 .. Len(vs) + 1 /\ ws[Len(vs) + 1] = r
          /\ \A v \in 1 .. Len(vs) : ws[v] = vs[v]
      BY <1>1, <3>1, <3>2
    <3>4. ~(ws[Len(vs) + 1].at <= asOf)  BY <1>1, <1>2, <3>3 DEF r
    <3>5. 1 .. Len(vs) + 1 = (1 .. Len(vs)) \cup {Len(vs) + 1}  BY <1>1
    <3> QED  BY <1>1, <3>3, <3>4, <3>5
  <2>2. CASE ~(s2 = s /\ d2 = d)  BY <1>3, <2>2
  <2> QED  BY <2>1, <2>2
<1>7. by # {} => Max(by) \in by
  <2> SUFFICES ASSUME by # {} PROVE Max(by) \in by  OBVIOUS
  <2>1. by \in SUBSET (1 .. Len(vs)) /\ by \in SUBSET Int  BY <1>1
  <2> HIDE DEF vs
  <2>2. IsFiniteSet(1 .. Len(vs))  BY <1>1, FS_Interval
  <2> HIDE DEF by
  <2>3. IsFiniteSet(by)  BY <2>1, <2>2, FS_Subset
  <2> QED  BY <2>1, <2>3, MaxOfFinite
<1> HIDE DEF by, then, vs, ws
<1> QED  BY <1>4, <1>5, <1>6, <1>7

----------------------------------------------------------------------------
\* What a read of the tables left takes.
LEMMA KeysAreThere ==
    ASSUME NEW s, NEW start, NEW end, NEW asOf
    PROVE  KeysFor(s, start, end, asOf) \subseteq DayKeys(s) /\ DayKeys(s) \subseteq TableDays
BY DEF KeysFor, InWindow, DayKeys

LEMMA TakenIs ==
    ASSUME DayTypeOK, VersionsOK, NEW s \in SymbolSet, NEW d \in TableDays, d \in DayKeys(s),
           NEW asOf \in Bound, CommittedBy(s, d, asOf), s = read.symbol, asOf = read.asOf
    PROVE  ReadOne(s, d) = Taken(read, d)
BY HeldIs DEF ReadOne, Taken

LEMMA TakenType ==
    ASSUME DayTypeOK, VersionsOK, NEW r \in ReadType, NEW d \in TableDays
    PROVE  /\ Taken(r, d) \in SUBSET Slots
           /\ \A t \in Taken(r, d) : DayOf(t) = d
           /\ ~CommittedBy(r.symbol, d, r.asOf) => Taken(r, d) = {}
<1>1. r.symbol \in SymbolSet /\ r.asOf \in Bound  BY DEF ReadType
<1>2. Taken(r, d) \subseteq HeldOf(r.symbol, d, r.asOf)  BY DEF Taken, Inside, NewestTicks
<1> QED  BY <1>1, <1>2, HeldIs

\* The types of what a read takes.
LEMMA BeginReadType ==
    ASSUME DayTypeOK, VersionsOK, NEW s \in SymbolSet, NEW w \in Windows,
           NEW asOf \in (0 .. now - 1) \cup {Unset}, BeginRead(s, w[1], w[2], asOf)
    PROVE  /\ read' \in ReadType /\ read'.pc = "tables" /\ asOf \in Bound
           /\ read'.asOf = Unset \/ read'.asOf < now
           /\ \A d \in read'.left : d \in DayKeys(read'.symbol)
<1>1. w[1] \in Bound /\ w[2] \in Bound  BY DayBounds DEF Bound
<1>2. now \in Nat  BY DayBounds DEF DayTypeOK, Slots
<1>3. asOf \in Bound /\ (asOf = Unset \/ asOf < now)  BY <1>2 DEF Bound
<1>4. KeysFor(s, w[1], w[2], asOf) \subseteq DayKeys(s) /\ DayKeys(s) \subseteq TableDays
  BY KeysAreThere
<1>5. Promise(s, w[1], w[2], asOf) \in SUBSET Slots
  <2>1. \A d \in TableDays : HeldOf(s, d, asOf) \in SUBSET Slots  BY <1>3, HeldIs
  <2> QED  BY <2>1 DEF Promise, NewestTicks, Inside
<1>6. <<>> \in Seq(Int)  OBVIOUS
<1>7. read' = [pc |-> "tables", symbol |-> s, start |-> w[1], end |-> w[2], asOf |-> asOf,
               left |-> KeysFor(s, w[1], w[2], asOf), rows |-> <<>>,
               quiet |-> TRUE, promise |-> Promise(s, w[1], w[2], asOf)]
  BY DEF BeginRead
<1>8. read' \in ReadType  BY <1>1, <1>3, <1>4, <1>5, <1>6, <1>7 DEF ReadType
<1> QED  BY <1>3, <1>4, <1>7, <1>8

LEMMA LeastLeft ==
    ASSUME read \in ReadType, read.left # {}
    PROVE  Min(read.left) \in read.left /\ \A e \in read.left : Min(read.left) <= e
<1>1. read.left \in SUBSET TableDays  BY DEF ReadType
<1>2. TableDays \in SUBSET Nat  BY DEF TableDays
<1>3. \E d \in read.left : \A e \in read.left : d <= e  BY <1>1, <1>2, LeastNat
<1> QED  BY <1>3 DEF Min

LEMMA ReadTableType ==
    ASSUME DayTypeOK, VersionsOK, ReadTable
    PROVE  /\ read' \in ReadType /\ read'.pc = "tables" /\ read'.symbol = read.symbol
           /\ read'.asOf = read.asOf /\ read'.left \subseteq read.left
<1>1. read \in ReadType /\ read.pc = "tables" /\ read.left # {}  BY DEF ReadTable, DayTypeOK, NoRead
<1> DEFINE d == Min(read.left)
           more == IF CommittedBy(read.symbol, d, read.asOf)
                   THEN read.rows \o Ascending(ReadOne(read.symbol, d)) ELSE read.rows
<1>2. d \in read.left /\ d \in TableDays /\ read.symbol \in SymbolSet /\ read.asOf \in Bound
      /\ read.left \subseteq TableDays
  BY <1>1, LeastLeft DEF ReadType
<1>3. d \in DayKeys(read.symbol)  BY <1>1, <1>2 DEF VersionsOK
<1>4. more \in Seq(Int)
  <2>1. read.rows \in Seq(Int)  BY <1>1 DEF ReadType
  <2>2. ASSUME CommittedBy(read.symbol, d, read.asOf)
        PROVE  Ascending(ReadOne(read.symbol, d)) \in Seq(Int)
    <3> HIDE DEF d
    <3>1. ReadOne(read.symbol, d) \in SUBSET Slots
      BY <1>1, <1>2, <1>3, <2>2, TakenIs, TakenType
    <3>2. /\ ReadOne(read.symbol, d) \in SUBSET Int
          /\ Ascending(ReadOne(read.symbol, d)) \in Seq(ReadOne(read.symbol, d))
      BY <3>1, SlotsAreFinite, AscendingRises
    <3> QED  BY <3>2, SeqMonotonic
  <2> QED  BY <2>1, <2>2
<1>5. read' = [read EXCEPT !.left = @ \ {d}, !.rows = more]  BY DEF ReadTable
<1> HIDE DEF more
<1>6. read' \in ReadType  BY <1>1, <1>2, <1>4, <1>5 DEF ReadType
<1>7. /\ read'.pc = read.pc /\ read'.symbol = read.symbol /\ read'.asOf = read.asOf
      /\ read'.left = read.left \ {d}
  BY <1>1, <1>5 DEF ReadType
<1> QED  BY <1>1, <1>6, <1>7

LEMMA EndReadType ==
    ASSUME DayTypeOK, EndRead
    PROVE  /\ read' \in ReadType /\ read'.pc = "answered" /\ read'.asOf = read.asOf
           /\ read'.quiet = read.quiet /\ read'.promise = read.promise
           /\ read'.rows = LastRows(read.rows)
<1>1. read \in ReadType  BY DEF EndRead, DayTypeOK, NoRead
<1>2. LastRows(read.rows) \in Seq(Int)
  <2>1. read.rows \in Seq(Int)  BY <1>1 DEF ReadType
  <2> QED  BY <2>1, LastRowsBegin
<1>3. read' = [read EXCEPT !.pc = "answered", !.rows = LastRows(read.rows)]  BY DEF EndRead
<1> HIDE DEF LastRows
<1> QED  BY <1>1, <1>2, <1>3 DEF ReadType

----------------------------------------------------------------------------
\* Types, and what the versions and a flush hold.
SetsInv == DayTypeOK /\ VersionsOK

LEMMA DayInitInv == DayInit => DayInv
<1> SUFFICES ASSUME DayInit PROVE DayInv  OBVIOUS
<1>1. 0 \in Slots  BY DayBounds DEF Slots
<1>2. DayTypeOK
  <2>1. <<>> \in Seq([at : Slots, rows : SUBSET Slots])  OBVIOUS
  <2>2. tables \in [SymbolSet -> [TableDays -> Seq([at : Slots, rows : SUBSET Slots])]]
    BY <2>1 DEF DayInit
  <2> QED  BY <1>1, <2>2 DEF DayInit, DayTypeOK, DumpType, Asleep
<1>3. VersionsOK  BY DEF DayInit, VersionsOK, Asleep, NoRead
<1> QED  BY <1>2, <1>3 DEF DayInv, DayInit, ReadOK, NoRead

\* Steps of q and live-grid.
LEMMA TicksStep ==
    ASSUME SetsInv, Advance \/ Prune \/ RestartQ
    PROVE  SetsInv' /\ tables' = tables /\ read' = read
<1>1. DayTypeOK'
  <2>1. CASE Advance
    <3>1. now + 1 \in Slots  BY <2>1, DayBounds DEF Advance, SetsInv, DayTypeOK, Slots
    <3> QED  BY <2>1, <3>1 DEF Advance, SetsInv, DayTypeOK
  <2>2. CASE Prune  BY <2>2 DEF Prune, SetsInv, DayTypeOK
  <2>3. CASE RestartQ  BY <2>3 DEF RestartQ, SetsInv, DayTypeOK
  <2> QED  BY <2>1, <2>2, <2>3
<1>2. now' \in Int /\ now \in Int /\ now <= now'
  BY DayBounds DEF SetsInv, DayTypeOK, Slots, Advance, Prune, RestartQ
<1>3. tables' = tables /\ dump' = dump /\ read' = read  BY DEF Advance, Prune, RestartQ
<1>4. \A s \in SymbolSet, d \in TableDays : \A v \in DOMAIN tables[s][d] :
          tables[s][d][v].at <= now'
  <2> SUFFICES ASSUME NEW s \in SymbolSet, NEW d \in TableDays, NEW v \in DOMAIN tables[s][d]
               PROVE  tables[s][d][v].at <= now'
    OBVIOUS
  <2>1. tables[s][d][v].at <= now  BY DEF SetsInv, VersionsOK
  <2>2. tables[s][d][v].at \in Int
    <3>1. tables[s][d] \in Seq([at : Slots, rows : SUBSET Slots])  BY DEF SetsInv, DayTypeOK
    <3>2. tables[s][d][v] \in [at : Slots, rows : SUBSET Slots]  BY <3>1, LenProperties, ElementOfSeq
    <3>3. Slots \subseteq Int  BY DayBounds DEF Slots
    <3> QED  BY <3>2, <3>3
  <2> QED  BY <1>2, <2>1, <2>2
<1>5. read.pc = "tables" => read.asOf = Unset \/ read.asOf < now'
  <2> SUFFICES ASSUME read.pc = "tables", read.asOf # Unset PROVE read.asOf < now'  OBVIOUS
  <2>1. read.asOf < now /\ read.asOf \in Int
    BY DEF SetsInv, VersionsOK, DayTypeOK, ReadType, Bound, NoRead
  <2> QED  BY <1>2, <2>1
<1>6. VersionsOK'  BY <1>3, <1>4, <1>5 DEF SetsInv, VersionsOK, DayKeys
<1> QED  BY <1>1, <1>3, <1>6 DEF SetsInv

\* Steps of the loop of eod_dump that write nothing.
LEMMA DumpStep ==
    ASSUME SetsInv, WakeDump \/ Boot \/ ReadDay \/ FlushFails \/ Retry
    PROVE  SetsInv' /\ tables' = tables /\ read' = read /\ now' = now
<1>1. /\ now' = now /\ rdb' = rdb /\ tlog' = tlog /\ tables' = tables /\ read' = read
  BY DEF WakeDump, Boot, ReadDay, FlushFails, Retry
<1>2. now \in Nat /\ DayOf(now) \in Int /\ NextFlush \in DumpType /\ NextFlush.pc = "asleep"
  <2>1. now \in Nat  BY DayBounds DEF SetsInv, DayTypeOK, Slots
  <2>2. DayOf(now) \in Int  BY <2>1, DaysGrow
  <2> QED  BY <2>1, <2>2 DEF NextFlush, Asleep, DumpType
<1>3. SUFFICES /\ dump' \in DumpType
               /\ dump'.pc = "write" =>
                     /\ dump'.day \in TableDays /\ dump'.left # {}
                     /\ dump'.rows \in [SymbolSet -> SUBSET Slots]
                     /\ \A i \in dump'.left :
                           /\ dump'.rows[TickSymbols[i]] # {}
                           /\ \A t \in dump'.rows[TickSymbols[i]] : DayOf(t) = dump'.day
  BY <1>1 DEF SetsInv, DayTypeOK, VersionsOK, DayKeys
<1>4. dump \in DumpType  BY DEF SetsInv, DayTypeOK
<1>5. CASE WakeDump
  <2>1. dump' \in DumpType /\ dump'.pc = "read"  BY <1>4, <1>5 DEF WakeDump, DumpType
  <2> QED  BY <2>1
<1>6. CASE Boot
  <2>1. EndedDay \in Int  BY <1>2 DEF EndedDay
  <2>2. dump' \in DumpType /\ dump'.pc \in {"read", "asleep"}
    BY <1>2, <1>6, <2>1, DayBounds DEF Boot, DumpType
  <2> QED  BY <2>2
<1>7. CASE ReadDay
  <2> DEFINE found == [s \in SymbolSet |-> TicksOf(s, dump.day)]
             left == {i \in DOMAIN TickSymbols : found[TickSymbols[i]] # {}}
  <2>1. CASE left = {}
    <3>1. dump' = NextFlush  BY <1>7, <2>1 DEF ReadDay
    <3> QED  BY <1>2, <3>1
  <2>2. CASE left # {}
    <3>1. found \in [SymbolSet -> SUBSET Slots]
      BY DEF SetsInv, DayTypeOK, TicksOf
    <3>2. \A i \in left : \A t \in found[TickSymbols[i]] : t \in Slots /\ DayOf(t) = dump.day
      <4> SUFFICES ASSUME NEW i \in left, NEW t \in found[TickSymbols[i]]
                   PROVE  t \in Slots /\ DayOf(t) = dump.day
        OBVIOUS
      <4>1. TickSymbols[i] \in SymbolSet  BY DEF SymbolSet, ToSet
      <4>2. t \in TicksOf(TickSymbols[i], dump.day)  BY <4>1
      <4> QED  BY <4>1, <4>2 DEF TicksOf, SetsInv, DayTypeOK
    <3>3. dump.day \in TableDays
      <4>1. PICK t \in Slots : DayOf(t) = dump.day  BY <2>2, <3>2
      <4>2. t \in Nat /\ t <= LastSlot /\ LastSlot \in Nat  BY DayBounds DEF Slots
      <4>3. DayOf(t) \in Nat /\ DayOf(t) <= DayOf(LastSlot) /\ DayOf(LastSlot) \in Nat
        BY <4>2, DaysGrow
      <4> QED  BY <4>1, <4>3 DEF TableDays, DayOf
    <3>4. dump' = [dump EXCEPT !.pc = "write", !.left = left, !.rows = found]
      BY <1>7, <2>2 DEF ReadDay
    <3>5. left \subseteq DOMAIN TickSymbols /\ \A i \in left : found[TickSymbols[i]] # {}
      OBVIOUS
    <3> HIDE DEF left, found
    <3>6. /\ dump' \in DumpType /\ dump'.left = left /\ dump'.rows = found
          /\ dump'.day = dump.day
      BY <1>4, <3>1, <3>4, <3>5 DEF DumpType
    <3> QED  BY <2>2, <3>1, <3>2, <3>3, <3>5, <3>6
  <2> QED  BY <2>1, <2>2
<1>8. CASE FlushFails
  <2>1. dump' \in DumpType /\ dump'.pc \in {"asleep", "wait"}
    BY <1>2, <1>4, <1>8 DEF FlushFails, DumpType
  <2> QED  BY <2>1
<1>9. CASE Retry
  <2>1. dump.tries + 1 \in Nat  BY <1>4 DEF DumpType
  <2>2. dump' = [dump EXCEPT !.pc = "read", !.tries = dump.tries + 1]  BY <1>9 DEF Retry
  <2>3. dump' \in DumpType /\ dump'.pc = "read"  BY <1>4, <2>1, <2>2 DEF DumpType
  <2> QED  BY <2>3
<1> QED  BY <1>5, <1>6, <1>7, <1>8, <1>9

\* What a flush appends.
LEMMA WriteIs ==
    ASSUME SetsInv, WriteTable
    PROVE  LET i == Min(dump.left) s == TickSymbols[i] IN
           /\ i \in dump.left /\ s \in SymbolSet /\ dump.day \in TableDays
           /\ dump.rows[s] \in SUBSET Slots /\ dump.rows[s] # {}
           /\ \A t \in dump.rows[s] : DayOf(t) = dump.day
           /\ tables' = [tables EXCEPT ![s][dump.day] = Append(@, [at |-> now, rows |-> dump.rows[s]])]
           /\ dump' = IF dump.left = {i} THEN NextFlush ELSE [dump EXCEPT !.left = @ \ {i}]
<1> DEFINE i == Min(dump.left)  s == TickSymbols[i]
<1>1. dump.pc = "write"  BY DEF WriteTable
<1>2. /\ dump.day \in TableDays /\ dump.left # {} /\ dump.left \in SUBSET DOMAIN TickSymbols
      /\ dump.rows \in [SymbolSet -> SUBSET Slots]
  BY <1>1 DEF SetsInv, VersionsOK, DayTypeOK, DumpType
<1>3. i \in dump.left
  <2>1. DOMAIN TickSymbols \subseteq Nat
    <3>1. DOMAIN TickSymbols = 1 .. Len(TickSymbols) /\ Len(TickSymbols) \in Nat
      BY DayBounds, LenProperties
    <3> QED  BY <3>1
  <2>2. dump.left \in SUBSET Nat  BY <1>2, <2>1
  <2>3. \E n \in dump.left : \A m \in dump.left : n <= m  BY <1>2, <2>2, LeastNat
  <2> QED  BY <2>3 DEF Min
<1>4. s \in SymbolSet  BY <1>2, <1>3 DEF SymbolSet, ToSet
<1> HIDE DEF i
<1>5. dump.rows[s] # {} /\ \A t \in dump.rows[s] : DayOf(t) = dump.day
  BY <1>1, <1>3 DEF SetsInv, VersionsOK
<1>6. dump.rows[s] \in SUBSET Slots  BY <1>2, <1>4
<1> QED  BY <1>2, <1>3, <1>4, <1>5, <1>6 DEF WriteTable, i

LEMMA WriteStep ==
    ASSUME SetsInv, WriteTable
    PROVE  /\ SetsInv' /\ now' = now
           /\ read' = IF read.pc = "idle" THEN read ELSE [read EXCEPT !.quiet = FALSE]
<1> DEFINE i == Min(dump.left)  s == TickSymbols[i]
           r == [at |-> now, rows |-> dump.rows[s]]
<1>1. /\ i \in dump.left /\ s \in SymbolSet /\ dump.day \in TableDays
      /\ dump.rows[s] \in SUBSET Slots /\ dump.rows[s] # {}
      /\ \A t \in dump.rows[s] : DayOf(t) = dump.day
      /\ tables' = [tables EXCEPT ![s][dump.day] = Append(@, r)]
      /\ dump' = IF dump.left = {i} THEN NextFlush ELSE [dump EXCEPT !.left = @ \ {i}]
  BY WriteIs
<1>2. /\ now' = now /\ rdb' = rdb /\ tlog' = tlog
      /\ read' = IF read.pc = "idle" THEN read ELSE [read EXCEPT !.quiet = FALSE]
  BY DEF WriteTable
<1>3. now \in Slots /\ now \in Nat  BY DayBounds DEF SetsInv, DayTypeOK, Slots
<1>4. r \in [at : Slots, rows : SUBSET Slots] /\ r.at = now /\ r.rows = dump.rows[s]
  BY <1>1, <1>3
<1> HIDE DEF r, s, i
<1>5. \A s2 \in SymbolSet, d2 \in TableDays :
          /\ tables' [s2][d2] = IF s2 = s /\ d2 = dump.day THEN Append(tables[s2][d2], r)
                                ELSE tables[s2][d2]
          /\ tables[s2][d2] \in Seq([at : Slots, rows : SUBSET Slots])
  BY <1>1 DEF SetsInv, DayTypeOK
<1>6. \A s2 \in SymbolSet, d2 \in TableDays :
          /\ tables' [s2][d2] \in Seq([at : Slots, rows : SUBSET Slots])
          /\ tables[s2][d2] # <<>> => tables' [s2][d2] # <<>>
          /\ \A v \in DOMAIN tables' [s2][d2] :
                \/ v \in DOMAIN tables[s2][d2] /\ tables' [s2][d2][v] = tables[s2][d2][v]
                \/ d2 = dump.day /\ tables' [s2][d2][v] = r
  <2> TAKE s2 \in SymbolSet, d2 \in TableDays
  <2> DEFINE vs == tables[s2][d2]  ws == tables' [s2][d2]
  <2>1. vs \in Seq([at : Slots, rows : SUBSET Slots])  BY <1>5
  <2>2. CASE ~(s2 = s /\ d2 = dump.day)  BY <1>5, <2>1, <2>2
  <2>3. CASE s2 = s /\ d2 = dump.day
    <3>1. ws = Append(vs, r)  BY <1>5, <2>3
    <3> HIDE DEF vs, ws
    <3>2. /\ ws \in Seq([at : Slots, rows : SUBSET Slots])
          /\ Len(vs) \in Nat /\ DOMAIN vs = 1 .. Len(vs) /\ DOMAIN ws = 1 .. Len(vs) + 1
          /\ ws[Len(vs) + 1] = r /\ \A v \in 1 .. Len(vs) : ws[v] = vs[v]
      BY <1>4, <2>1, <3>1
    <3>3. \A v \in 1 .. Len(vs) + 1 : v \in 1 .. Len(vs) \/ v = Len(vs) + 1  BY <3>2
    <3>4. ws # <<>>
      <4>1. Len(vs) + 1 \in DOMAIN ws  BY <3>2
      <4> QED  BY <4>1
    <3>5. /\ ws \in Seq([at : Slots, rows : SUBSET Slots])
          /\ vs # <<>> => ws # <<>>
          /\ \A v \in DOMAIN ws :
                (v \in DOMAIN vs /\ ws[v] = vs[v]) \/ (d2 = dump.day /\ ws[v] = r)
      BY <2>3, <3>2, <3>3, <3>4
    <3> QED  BY <3>5 DEF vs, ws
  <2> QED  BY <2>2, <2>3
<1>7. tables' \in [SymbolSet -> [TableDays -> Seq([at : Slots, rows : SUBSET Slots])]]
  <2>1. DOMAIN tables' = SymbolSet /\ tables' = [s2 \in SymbolSet |-> tables' [s2]]
    BY <1>1 DEF SetsInv, DayTypeOK
  <2>2. \A s2 \in SymbolSet : tables' [s2] = [d2 \in TableDays |-> tables' [s2][d2]]
    BY <1>1 DEF SetsInv, DayTypeOK
  <2> DEFINE Versions == Seq([at : Slots, rows : SUBSET Slots])
  <2>3. \A s2 \in SymbolSet, d2 \in TableDays : tables' [s2][d2] \in Versions  BY <1>6
  <2> HIDE DEF Versions
  <2>4. \A s2 \in SymbolSet : tables' [s2] \in [TableDays -> Versions]  BY <2>2, <2>3
  <2>5. tables' \in [SymbolSet -> [TableDays -> Versions]]  BY <2>1, <2>4
  <2> QED  BY <2>5 DEF Versions
<1>8. read' = NoRead \/ read' \in ReadType
  <2>1. CASE read = NoRead  BY <1>2, <2>1 DEF NoRead
  <2>2. CASE read \in ReadType  BY <1>2, <2>2 DEF ReadType
  <2> QED  BY <2>1, <2>2 DEF SetsInv, DayTypeOK
<1>9. dump' \in DumpType /\ (dump'.pc = "write" =>
                                 dump'.left = dump.left \ {i} /\ dump'.left # {} /\ dump.pc = "write"
                                 /\ dump'.day = dump.day /\ dump'.rows = dump.rows)
  <2>1. dump \in DumpType  BY DEF SetsInv, DayTypeOK
  <2>2. CASE dump.left = {i}
    <3>1. DayOf(now) \in Int  BY <1>3, DaysGrow
    <3> QED  BY <1>1, <2>2, <3>1 DEF NextFlush, Asleep, DumpType
  <2>3. CASE dump.left # {i}
    <3>1. dump' = [dump EXCEPT !.left = @ \ {i}]  BY <1>1, <2>3
    <3>2. dump.left \ {i} # {}  BY <1>1, <2>3
    <3> QED  BY <2>1, <3>1, <3>2 DEF DumpType
  <2> QED  BY <2>2, <2>3
<1>10. DayTypeOK'  BY <1>2, <1>7, <1>8, <1>9 DEF SetsInv, DayTypeOK
<1>11. \A s2 \in SymbolSet, d2 \in TableDays : \A v \in DOMAIN tables' [s2][d2] :
          /\ tables' [s2][d2][v].at <= now
          /\ tables' [s2][d2][v].rows # {}
          /\ \A t \in tables' [s2][d2][v].rows : DayOf(t) = d2
  <2> SUFFICES ASSUME NEW s2 \in SymbolSet, NEW d2 \in TableDays, NEW v \in DOMAIN tables' [s2][d2]
               PROVE  LET row == tables' [s2][d2][v] IN
                      row.at <= now /\ row.rows # {} /\ \A t \in row.rows : DayOf(t) = d2
    OBVIOUS
  <2>1. CASE v \in DOMAIN tables[s2][d2] /\ tables' [s2][d2][v] = tables[s2][d2][v]
    BY <2>1 DEF SetsInv, VersionsOK
  <2>2. CASE d2 = dump.day /\ tables' [s2][d2][v] = r
    BY <1>1, <1>3, <1>4, <2>2
  <2> QED  BY <1>6, <2>1, <2>2
<1>12. VersionsOK'
  <2>1. dump'.pc = "write" =>
          /\ dump'.day \in TableDays /\ dump'.left # {}
          /\ dump'.rows \in [SymbolSet -> SUBSET Slots]
          /\ \A j \in dump'.left :
                /\ dump'.rows[TickSymbols[j]] # {}
                /\ \A t \in dump'.rows[TickSymbols[j]] : DayOf(t) = dump'.day
    BY <1>9 DEF SetsInv, VersionsOK
  <2>2. read'.pc = "tables" =>
          /\ read.pc = "tables" /\ read'.asOf = read.asOf /\ read'.left = read.left
          /\ read'.symbol = read.symbol /\ read.symbol \in SymbolSet
    BY <1>2 DEF SetsInv, DayTypeOK, ReadType, NoRead
  <2>3. \A s2 \in SymbolSet : DayKeys(s2) \subseteq DayKeys(s2)'  BY <1>6 DEF DayKeys
  <2>4. read'.pc = "tables" =>
          /\ read'.asOf = Unset \/ read'.asOf < now'
          /\ (\A d \in read.left : d \in DayKeys(read.symbol))'
    BY <1>2, <2>2, <2>3 DEF SetsInv, VersionsOK
  <2> QED  BY <1>2, <1>11, <2>1, <2>4 DEF VersionsOK, DayKeys
<1> QED  BY <1>2, <1>10, <1>12 DEF SetsInv

\* Steps of a reader move the read alone.
LEMMA ReaderStep ==
    ASSUME SetsInv,
           \/ \E s \in SymbolSet, w \in Windows, asOf \in (0 .. now - 1) \cup {Unset} :
                 BeginRead(s, w[1], w[2], asOf)
           \/ ReadTable \/ EndRead \/ Answered
    PROVE  SetsInv'
<1>1. now' = now /\ rdb' = rdb /\ tlog' = tlog /\ tables' = tables /\ dump' = dump
  BY DEF BeginRead, ReadTable, EndRead, Answered
<1>2. SUFFICES /\ read' = NoRead \/ read' \in ReadType
               /\ read'.pc = "tables" =>
                     /\ read'.asOf = Unset \/ read'.asOf < now
                     /\ read'.left \subseteq DayKeys(read'.symbol)
  <2>1. read'.pc = "tables" =>
          /\ read'.asOf = Unset \/ read'.asOf < now'
          /\ (\A d \in read.left : d \in DayKeys(read.symbol))'
    BY <1>1, <1>2 DEF DayKeys
  <2> QED  BY <1>1, <1>2, <2>1 DEF SetsInv, DayTypeOK, VersionsOK
<1>3. DayTypeOK /\ VersionsOK  BY DEF SetsInv
<1>4. ASSUME NEW s \in SymbolSet, NEW w \in Windows, NEW asOf \in (0 .. now - 1) \cup {Unset},
             BeginRead(s, w[1], w[2], asOf)
      PROVE  /\ read' = NoRead \/ read' \in ReadType
             /\ read'.pc = "tables" =>
                   /\ read'.asOf = Unset \/ read'.asOf < now
                   /\ read'.left \subseteq DayKeys(read'.symbol)
  BY <1>3, <1>4, BeginReadType
<1>5. CASE ReadTable
  <2>1. read.pc = "tables"  BY <1>5 DEF ReadTable
  <2>2. read.left \subseteq DayKeys(read.symbol) /\ (read.asOf = Unset \/ read.asOf < now)
    BY <1>3, <2>1 DEF VersionsOK
  <2> QED  BY <1>3, <1>5, <2>2, ReadTableType
<1>6. CASE EndRead  BY <1>3, <1>6, EndReadType
<1>7. CASE Answered  BY <1>7 DEF Answered, NoRead
<1> QED  BY <1>4, <1>5, <1>6, <1>7

----------------------------------------------------------------------------
\* A read begins with its promise still to come.
LEMMA PromiseIsToCome ==
    ASSUME SetsInv, NEW s \in SymbolSet, NEW w \in Windows,
           NEW asOf \in (0 .. now - 1) \cup {Unset}, BeginRead(s, w[1], w[2], asOf)
    PROVE  /\ read'.promise = NewestTicks(ToCome(read'))
           /\ read'.rows = <<>>
<1> DEFINE start == w[1]  end == w[2]
           Held(d) == HeldOf(s, d, asOf)
           keys == KeysFor(s, start, end, asOf)
           held == {d \in TableDays : Held(d) # {}}
<1>1. DayTypeOK /\ VersionsOK  BY DEF SetsInv
<1>2. start \in Bound /\ end \in Bound /\ asOf \in Bound
  BY <1>1, BeginReadType, DayBounds DEF Bound
<1>3. /\ read'.symbol = s /\ read'.start = start /\ read'.end = end /\ read'.asOf = asOf
      /\ read'.left = keys /\ read'.rows = <<>> /\ read'.promise = Promise(s, start, end, asOf)
  BY DEF BeginRead
<1>4. \A d \in TableDays :
          /\ Held(d) \in SUBSET Slots /\ \A t \in Held(d) : DayOf(t) = d
          /\ Held(d) # {} <=> d \in DayKeys(s) /\ CommittedBy(s, d, asOf)
  BY <1>1, <1>2, HeldIs
<1>5. keys \subseteq DayKeys(s) /\ DayKeys(s) \subseteq TableDays  BY KeysAreThere
<1> HIDE DEF Held, start, end, keys
<1>6. CASE start = Unset /\ end = Unset
  <2>1. \A S : Inside(S, start, end) = S  BY <1>6 DEF Inside
  <2>2. keys = {d \in held : \A e \in held : e <= d}
    <3>1. held = {d \in DayKeys(s) : CommittedBy(s, d, asOf)}  BY <1>4, <1>5
    <3>2. CASE asOf # Unset  BY <1>6, <3>1, <3>2 DEF keys, KeysFor
    <3>3. CASE asOf = Unset
      <4>1. held = DayKeys(s)  BY <3>1, <3>3 DEF CommittedBy
      <4>2. keys = InWindow(s, start, end)  BY <3>3 DEF keys, KeysFor
      <4>3. InWindow(s, start, end) = {d \in DayKeys(s) : \A e \in DayKeys(s) : e <= d}
        BY <1>6 DEF InWindow
      <4> QED  BY <4>1, <4>2, <4>3
    <3> QED  BY <3>2, <3>3
  <2>3. Promise(s, start, end, asOf) = NewestTicks(UNION {Held(d) : d \in keys})
    BY <1>6, <2>1, <2>2 DEF Promise, Held
  <2>4. ToCome(read') = UNION {NewestTicks(Held(d)) : d \in keys}
    BY <1>3, <1>6, <2>1 DEF ToCome, Taken, Held
  <2>5. \A d, e \in keys : d = e
    <3> SUFFICES ASSUME NEW d \in keys, NEW e \in keys PROVE d = e  OBVIOUS
    <3>1. d <= e /\ e <= d  BY <2>2
    <3>2. d \in Int /\ e \in Int  BY <1>5 DEF TableDays
    <3> QED  BY <3>1, <3>2
  <2>6. CASE keys = {}
    <3>1. NewestTicks({}) = {}  BY DEF NewestTicks
    <3>2. UNION {Held(d) : d \in keys} = {}  BY <2>6
    <3>3. ToCome(read') = {}  BY <2>4, <2>6
    <3>4. read'.promise = {}  BY <1>3, <2>3, <3>1, <3>2
    <3> QED  BY <1>3, <3>1, <3>3, <3>4
  <2>7. CASE keys # {}
    <3>1. PICK d \in keys : keys = {d}  BY <2>5, <2>7
    <3>2. Held(d) \in SUBSET Int /\ IsFiniteSet(Held(d))  BY <1>4, <1>5, SlotsAreFinite
    <3>3. NewestTicks(NewestTicks(Held(d))) = NewestTicks(Held(d))  BY <3>2, NewestOnce
    <3>4. UNION {Held(x) : x \in keys} = Held(d)
          /\ UNION {NewestTicks(Held(x)) : x \in keys} = NewestTicks(Held(d))
      BY <3>1
    <3>5. read'.promise = NewestTicks(Held(d))  BY <1>3, <2>3, <3>4
    <3>6. ToCome(read') = NewestTicks(Held(d))  BY <2>4, <3>4
    <3> QED  BY <1>3, <3>3, <3>5, <3>6
  <2> QED  BY <2>6, <2>7
<1>7. CASE ~(start = Unset /\ end = Unset)
  <2>1. keys = {d \in DayKeys(s) : /\ start = Unset \/ d >= DayOf(start)
                                   /\ end = Unset \/ d <= DayOf(end)}
    BY <1>7 DEF keys, KeysFor, InWindow
  <2>2. Promise(s, start, end, asOf) = NewestTicks(Inside(UNION {Held(d) : d \in held}, start, end))
    BY <1>7 DEF Promise, Held
  <2>3. ToCome(read') = UNION {Inside(Held(d), start, end) : d \in keys}
    BY <1>3, <1>7 DEF ToCome, Taken, Held
  <2>4. \A d \in held : \A t \in Held(d) : t \in Inside(Held(d), start, end) => d \in keys
    <3> SUFFICES ASSUME NEW d \in held, NEW t \in Held(d), t \in Inside(Held(d), start, end)
                 PROVE  d \in keys
      OBVIOUS
    <3>1. d \in TableDays /\ d \in DayKeys(s) /\ DayOf(t) = d /\ t \in Slots  BY <1>4
    <3>2. t \in Nat  BY <3>1, DayBounds DEF Slots
    <3>3. start = Unset \/ d >= DayOf(start)
      <4> SUFFICES ASSUME start # Unset PROVE d >= DayOf(start)  OBVIOUS
      <4>1. start \in Nat /\ t >= start  BY <1>2 DEF Bound, Inside
      <4>2. start <= t  BY <3>2, <4>1
      <4>3. DayOf(start) \in Nat /\ DayOf(t) \in Nat /\ DayOf(start) <= DayOf(t)
        BY <3>2, <4>1, <4>2, DaysGrow
      <4> QED  BY <3>1, <4>3
    <3>4. end = Unset \/ d <= DayOf(end)
      <4> SUFFICES ASSUME end # Unset PROVE d <= DayOf(end)  OBVIOUS
      <4>1. end \in Nat /\ t <= end  BY <1>2 DEF Bound, Inside
      <4>2. DayOf(t) <= DayOf(end)  BY <3>2, <4>1, DaysGrow
      <4> QED  BY <3>1, <4>2
    <3> QED  BY <2>1, <3>1, <3>3, <3>4
  <2>5. Inside(UNION {Held(d) : d \in held}, start, end) = UNION {Inside(Held(d), start, end) : d \in keys}
    <3>1. ASSUME NEW t \in Inside(UNION {Held(d) : d \in held}, start, end)
          PROVE  t \in UNION {Inside(Held(d), start, end) : d \in keys}
      <4>1. PICK d \in held : t \in Held(d)  BY DEF Inside
      <4>2. t \in Inside(Held(d), start, end)  BY <4>1 DEF Inside
      <4> QED  BY <2>4, <4>1, <4>2
    <3>2. ASSUME NEW d \in keys, NEW t \in Inside(Held(d), start, end)
          PROVE  t \in Inside(UNION {Held(x) : x \in held}, start, end)
      <4>1. t \in Held(d) /\ d \in held  BY <1>5 DEF Inside
      <4> QED  BY <4>1 DEF Inside
    <3> QED  BY <3>1, <3>2
  <2> QED  BY <1>3, <2>2, <2>3, <2>5
<1> QED  BY <1>3, <1>6, <1>7

\* Taking a table keeps what is still to come, less what is now there.
LEMMA ReadTableKeeps ==
    ASSUME SetsInv, ReadOK(read), ReadTable
    PROVE  ReadOK(read')
<1>1. DayTypeOK /\ VersionsOK /\ read.pc = "tables" /\ read.left # {} /\ read \in ReadType
  <2>1. read.pc = "tables" /\ read.left # {}  BY DEF ReadTable
  <2>2. DayTypeOK /\ VersionsOK  BY DEF SetsInv
  <2>3. read \in ReadType  BY <2>1, <2>2 DEF DayTypeOK, NoRead
  <2> QED  BY <2>1, <2>2, <2>3
<1> DEFINE d == Min(read.left)
           s == read.symbol
           new == IF CommittedBy(s, d, read.asOf) THEN Ascending(ReadOne(s, d)) ELSE <<>>
<1>2. /\ d \in read.left /\ \A e \in read.left : d <= e
      /\ d \in TableDays /\ read.left \subseteq TableDays /\ TableDays \subseteq Nat
      /\ s \in SymbolSet /\ read.asOf \in Bound /\ read.rows \in Seq(Int)
      /\ d \in DayKeys(s)
  BY <1>1, LeastLeft DEF ReadType, TableDays, VersionsOK
<1>3. Taken(read, d) \in SUBSET Slots /\ \A t \in Taken(read, d) : DayOf(t) = d
  BY <1>1, <1>2, TakenType
<1>4. new \in Seq(Int) /\ Rises(new) /\ ToSet(new) = Taken(read, d)
  <2>1. CASE CommittedBy(s, d, read.asOf)
    <3>1. ReadOne(s, d) = Taken(read, d)
      <4> HIDE DEF d
      <4> QED  BY <1>1, <1>2, <2>1, TakenIs
    <3>2. Taken(read, d) \in SUBSET Int /\ IsFiniteSet(Taken(read, d))  BY <1>3, SlotsAreFinite
    <3> DEFINE a == Ascending(Taken(read, d))
    <3>3. a \in Seq(Taken(read, d)) /\ Rises(a) /\ ToSet(a) = Taken(read, d)
      BY <3>2, AscendingRises
    <3>4. a \in Seq(Int)  BY <3>2, <3>3, SeqMonotonic
    <3>5. new = a  BY <2>1, <3>1
    <3> HIDE DEF a, new
    <3> QED  BY <3>3, <3>4, <3>5
  <2>2. CASE ~CommittedBy(s, d, read.asOf)
    <3>1. Taken(read, d) = {}  BY <1>1, <1>2, <2>2, TakenType
    <3>2. new = <<>>  BY <2>2
    <3>3. <<>> \in Seq(Int) /\ Rises(<<>>) /\ ToSet(<<>>) = {}  BY DEF Rises, ToSet
    <3> QED  BY <3>1, <3>2, <3>3
  <2> QED  BY <2>1, <2>2
<1>5. read' = [read EXCEPT !.left = @ \ {d}, !.rows = read.rows \o new]
  <2>1. CASE CommittedBy(s, d, read.asOf)  BY <2>1 DEF ReadTable
  <2>2. CASE ~CommittedBy(s, d, read.asOf)
    <3>1. read.rows \o new = read.rows  BY <1>2, <2>2
    <3> QED  BY <2>2, <3>1 DEF ReadTable
  <2> QED  BY <2>1, <2>2
<1> HIDE DEF d, new, s
<1>6. /\ read'.pc = "tables" /\ read'.asOf = read.asOf /\ read'.quiet = read.quiet
      /\ read'.left = read.left \ {d} /\ read'.rows = read.rows \o new
      /\ read'.promise = read.promise /\ read'.symbol = read.symbol
      /\ read'.start = read.start /\ read'.end = read.end
  BY <1>1, <1>5 DEF ReadType
<1>7. \A e : Taken(read', e) = Taken(read, e)  BY <1>6 DEF Taken
<1>8. CASE read.asOf = Unset /\ ~read.quiet  BY <1>6, <1>8 DEF ReadOK
<1>9. CASE ~(read.asOf = Unset /\ ~read.quiet)
  <2>1. /\ Rises(read.rows)
        /\ \A e \in read.left, t \in ToSet(read.rows) : DayOf(t) < e
        /\ ToSet(read.rows) \subseteq Slots
        /\ read.promise = NewestTicks(ToSet(read.rows) \cup ToCome(read))
    BY <1>1, <1>9 DEF ReadOK
  <2>2. \A t \in ToSet(read.rows), u \in ToSet(new) : t < u
    <3> SUFFICES ASSUME NEW t \in ToSet(read.rows), NEW u \in ToSet(new) PROVE t < u  OBVIOUS
    <3>1. t \in Nat /\ u \in Nat  BY <1>3, <1>4, <2>1, DayBounds DEF Slots
    <3>2. DayOf(t) < d /\ DayOf(u) = d  BY <1>2, <1>3, <1>4, <2>1
    <3>3. DayOf(t) \in Nat /\ DayOf(u) \in Nat /\ (u <= t => DayOf(u) <= DayOf(t))
      BY <3>1, DaysGrow
    <3> QED  BY <3>1, <3>2, <3>3
  <2>3. Rises(read'.rows) /\ ToSet(read'.rows) = ToSet(read.rows) \cup Taken(read, d)
    BY <1>2, <1>4, <1>6, <2>1, <2>2, RisingGoesOn
  <2>4. \A e \in read'.left, t \in ToSet(read'.rows) : DayOf(t) < e
    <3> SUFFICES ASSUME NEW e \in read'.left, NEW t \in ToSet(read'.rows) PROVE DayOf(t) < e
      OBVIOUS
    <3>1. e \in read.left /\ e # d /\ d <= e /\ e \in Nat /\ d \in Nat  BY <1>2, <1>6
    <3>2. CASE t \in ToSet(read.rows)  BY <2>1, <3>1, <3>2
    <3>3. CASE t \in Taken(read, d)
      <4>1. DayOf(t) = d  BY <1>3, <3>3
      <4> QED  BY <3>1, <4>1
    <3> QED  BY <2>3, <3>2, <3>3
  <2>5. ToSet(read'.rows) \subseteq Slots  BY <1>3, <2>1, <2>3
  <2>6. ToCome(read) = Taken(read, d) \cup ToCome(read')
    <3>1. ToCome(read') = UNION {Taken(read, e) : e \in read.left \ {d}}
      BY <1>6, <1>7 DEF ToCome
    <3>2. read.left = {d} \cup (read.left \ {d})  BY <1>2
    <3> QED  BY <1>2, <3>1, <3>2 DEF ToCome
  <2>7. ToSet(read.rows) \cup ToCome(read) = ToSet(read'.rows) \cup ToCome(read')
    BY <2>3, <2>6
  <2>8. read'.promise = NewestTicks(ToSet(read'.rows) \cup ToCome(read'))
    BY <1>6, <2>1, <2>7
  <2> QED  BY <1>6, <2>3, <2>4, <2>5, <2>8 DEF ReadOK
<1> QED  BY <1>8, <1>9

LEMMA EndReadKeeps ==
    ASSUME SetsInv, ReadOK(read), EndRead
    PROVE  ReadOK(read')
<1>1. read.pc = "tables" /\ read.left = {} /\ read \in ReadType
  BY DEF SetsInv, EndRead, DayTypeOK, NoRead
<1>2. /\ read'.pc = "answered" /\ read'.asOf = read.asOf /\ read'.quiet = read.quiet
      /\ read'.promise = read.promise /\ read'.rows = LastRows(read.rows)
  BY EndReadType DEF SetsInv
<1>3. CASE read.asOf = Unset /\ ~read.quiet  BY <1>2, <1>3 DEF ReadOK
<1>4. CASE ~(read.asOf = Unset /\ ~read.quiet)
  <2>1. Rises(read.rows) /\ read.promise = NewestTicks(ToSet(read.rows) \cup ToCome(read))
    BY <1>1, <1>4 DEF ReadOK
  <2>2. ToCome(read) = {}  BY <1>1 DEF ToCome
  <2>3. read.promise = NewestTicks(ToSet(read.rows))  BY <2>1, <2>2
  <2>4. read.rows \in Seq(Int)  BY <1>1 DEF ReadType
  <2>5. LastRows(read.rows) = Ascending(read.promise)  BY <2>1, <2>3, <2>4, LastRowsAreNewest
  <2> QED  BY <1>2, <2>5 DEF ReadOK
<1> QED  BY <1>3, <1>4

\* A step that leaves what the read takes alone.
LEMMA UndisturbedRead ==
    ASSUME SetsInv, ReadOK(read), read' = read,
           \A s \in SymbolSet, d \in TableDays, asOf \in Bound :
               HeldOf(s, d, asOf)' = HeldOf(s, d, asOf)
    PROVE  ReadOK(read)'
<1>1. CASE read.pc # "tables"  BY <1>1 DEF ReadOK
<1>2. CASE read.pc = "tables"
  <2>1. read \in ReadType  BY <1>2 DEF SetsInv, DayTypeOK, NoRead
  <2>2. \A d \in read.left : Taken(read, d)' = Taken(read, d)
    <3> TAKE d \in read.left
    <3>1. d \in TableDays /\ read.symbol \in SymbolSet /\ read.asOf \in Bound
      BY <2>1 DEF ReadType
    <3>2. HeldOf(read.symbol, d, read.asOf)' = HeldOf(read.symbol, d, read.asOf)  BY <3>1
    <3> QED  BY <3>2 DEF Taken
  <2>3. ToCome(read)' = ToCome(read)  BY <2>2 DEF ToCome
  <2> QED  BY <2>3 DEF ReadOK
<1> QED  BY <1>1, <1>2

\* A commit now disturbs no read as of a moment before, and ends the quiet of the others.
LEMMA WriteKeepsRead ==
    ASSUME SetsInv, ReadOK(read), WriteTable
    PROVE  ReadOK(read)'
<1> DEFINE i == Min(dump.left)  s == TickSymbols[i]
<1>1. /\ s \in SymbolSet /\ dump.day \in TableDays /\ dump.rows[s] \in SUBSET Slots
      /\ tables' = [tables EXCEPT ![s][dump.day] = Append(@, [at |-> now, rows |-> dump.rows[s]])]
  BY WriteIs
<1>2. /\ now' = now
      /\ read' = IF read.pc = "idle" THEN read ELSE [read EXCEPT !.quiet = FALSE]
  BY WriteStep
<1> HIDE DEF s
<1>3. CASE read.pc = "idle"  BY <1>2, <1>3 DEF ReadOK
<1>4. CASE read.pc # "idle"
  <2>1. read \in ReadType  BY <1>4 DEF SetsInv, DayTypeOK, NoRead
  <2>2. /\ read'.pc = read.pc /\ read'.symbol = read.symbol /\ read'.start = read.start
        /\ read'.end = read.end /\ read'.asOf = read.asOf /\ read'.left = read.left
        /\ read'.rows = read.rows /\ read'.promise = read.promise /\ ~read'.quiet
    BY <1>2, <1>4, <2>1 DEF ReadType
  <2>3. CASE read.asOf = Unset  BY <2>2, <2>3 DEF ReadOK
  <2>4. CASE read.asOf # Unset /\ read.pc = "answered"
    BY <2>2, <2>4 DEF ReadOK
  <2>5. CASE read.asOf # Unset /\ read.pc = "tables"
    <3>1. read.asOf < now /\ read.asOf \in Bound
      BY <2>1, <2>5 DEF SetsInv, VersionsOK, ReadType
    <3> DEFINE asOf == read.asOf
    <3>2. \A s2 \in SymbolSet, d2 \in TableDays, a \in Bound :
              a # Unset /\ a < now => HeldOf(s2, d2, a)' = HeldOf(s2, d2, a)
      <4> SUFFICES ASSUME NEW a \in Bound, a # Unset, a < now
                   PROVE  \A s2 \in SymbolSet, d2 \in TableDays :
                              HeldOf(s2, d2, a)' = HeldOf(s2, d2, a)
        OBVIOUS
      <4>1. DayTypeOK  BY DEF SetsInv
      <4> QED  BY <1>1, <4>1, HeldStays
    <3>3. \A d \in read.left : Taken(read, d)' = Taken(read, d)
      <4> TAKE d \in read.left
      <4>1. d \in TableDays /\ read.symbol \in SymbolSet  BY <2>1 DEF ReadType
      <4>2. PICK s2 \in SymbolSet, a \in Bound : s2 = read.symbol /\ a = read.asOf
        BY <3>1, <4>1
      <4>3. HeldOf(s2, d, a)' = HeldOf(s2, d, a)  BY <2>5, <3>1, <3>2, <4>1, <4>2
      <4>4. s2 = read'.symbol /\ a = read'.asOf  BY <2>2, <4>2
      <4>5. Taken(read, d) = IF read.start = Unset /\ read.end = Unset
                             THEN NewestTicks(Inside(HeldOf(s2, d, a), read.start, read.end))
                             ELSE Inside(HeldOf(s2, d, a), read.start, read.end)
        BY <4>2 DEF Taken
      <4>6. Taken(read, d)' = IF read'.start = Unset /\ read'.end = Unset
                             THEN NewestTicks(Inside(HeldOf(s2, d, a)', read'.start, read'.end))
                             ELSE Inside(HeldOf(s2, d, a)', read'.start, read'.end)
        BY <4>4 DEF Taken
      <4> QED  BY <2>2, <4>3, <4>5, <4>6
    <3>4. ToCome(read)' = ToCome(read)  BY <2>2, <3>3 DEF ToCome
    <3> QED  BY <2>2, <2>5, <3>4 DEF ReadOK
  <2> QED  BY <1>4, <2>1, <2>3, <2>4, <2>5 DEF ReadType
<1> QED  BY <1>3, <1>4

\* Nothing held at a moment changes while no table is written.
LEMMA SameTables ==
    ASSUME tables' = tables
    PROVE  \A s \in SymbolSet, d \in TableDays, asOf \in Bound :
               HeldOf(s, d, asOf)' = HeldOf(s, d, asOf)
BY DEF HeldOf

LEMMA DayNextInv == DayInv /\ [DayNext]_dayVars => DayInv'
<1> SUFFICES ASSUME DayInv, [DayNext]_dayVars PROVE DayInv'  OBVIOUS
<1>1. SetsInv /\ ReadOK(read)  BY DEF DayInv, SetsInv
<1>2. SUFFICES SetsInv' /\ ReadOK(read)'  BY DEF DayInv, SetsInv
<1>3. ASSUME SetsInv', tables' = tables, read' = read PROVE SetsInv' /\ ReadOK(read)'
  BY <1>1, <1>3, SameTables, UndisturbedRead
<1>4. CASE Advance \/ Prune \/ RestartQ  BY <1>1, <1>3, <1>4, TicksStep
<1>5. CASE WakeDump \/ Boot \/ ReadDay \/ FlushFails \/ Retry  BY <1>1, <1>3, <1>5, DumpStep
<1>6. CASE WriteTable  BY <1>1, <1>6, WriteStep, WriteKeepsRead
<1>7. ASSUME ReadOK(read'), now' = now, tables' = tables PROVE ReadOK(read)'
  <2>1. \A d : Taken(read, d)' = Taken(read', d)  BY <1>7 DEF Taken, HeldOf
  <2>2. ToCome(read)' = ToCome(read')  BY <2>1 DEF ToCome
  <2> QED  BY <1>7, <2>2 DEF ReadOK
<1>8. ASSUME NEW s \in SymbolSet, NEW w \in Windows, NEW asOf \in (0 .. now - 1) \cup {Unset},
             BeginRead(s, w[1], w[2], asOf)
      PROVE  SetsInv' /\ ReadOK(read)'
  <2>1. SetsInv' /\ now' = now /\ tables' = tables  BY <1>1, <1>8, ReaderStep DEF BeginRead
  <2>2. read'.promise = NewestTicks(ToCome(read')) /\ read'.rows = <<>> /\ read'.pc = "tables"
    BY <1>1, <1>8, PromiseIsToCome DEF BeginRead
  <2>3. Rises(<<>>) /\ ToSet(<<>>) = {} /\ {} \cup ToCome(read') = ToCome(read')
    BY DEF Rises, ToSet
  <2>4. ReadOK(read')  BY <2>2, <2>3 DEF ReadOK
  <2> QED  BY <1>7, <2>1, <2>4
<1>9. CASE ReadTable
  <2>1. SetsInv' /\ now' = now /\ tables' = tables  BY <1>1, <1>9, ReaderStep DEF ReadTable
  <2> QED  BY <1>1, <1>7, <1>9, <2>1, ReadTableKeeps
<1>10. CASE EndRead
  <2>1. SetsInv' /\ now' = now /\ tables' = tables  BY <1>1, <1>10, ReaderStep DEF EndRead
  <2> QED  BY <1>1, <1>7, <1>10, <2>1, EndReadKeeps
<1>11. CASE Answered
  <2>1. SetsInv' /\ read'.pc = "idle"  BY <1>1, <1>11, ReaderStep DEF Answered, NoRead
  <2> QED  BY <2>1 DEF ReadOK
<1>12. CASE UNCHANGED dayVars
  <2>1. SetsInv'
    BY <1>1, <1>12 DEF SetsInv, DayTypeOK, VersionsOK, DayKeys, dayVars
  <2> QED  BY <1>3, <1>12, <2>1 DEF dayVars
<1> QED  BY <1>4, <1>5, <1>6, <1>8, <1>9, <1>10, <1>11, <1>12 DEF DayNext

\* A read of a symbol as of an earlier moment answers what the store held at that moment, in
\* order and once, however the flush's commits fall between the tables it reads
\* (server.py 291-308).
THEOREM ReadsAreOneMoment == DaySpec => []ReadIsOneMoment
<1>1. DayInv => ReadIsOneMoment  BY DEF DayInv, ReadOK, ReadIsOneMoment
<1> QED  BY <1>1, DayInitInv, DayNextInv, PTL DEF DaySpec

----------------------------------------------------------------------------
\* The seam.  A bucket opens at the last multiple of the width.
LEMMA BucketIs ==
    ASSUME NEW w \in Nat \ {0}, NEW t \in Int
    PROVE  /\ Bucket(t, w) \in Int /\ Bucket(t, w) <= t /\ t < Bucket(t, w) + w
           /\ \E q \in Int : Bucket(t, w) = w * q
<1>1. t % w \in 0 .. w - 1 /\ t \div w \in Int /\ t = w * (t \div w) + (t % w)  OBVIOUS
<1>2. Bucket(t, w) = w * (t \div w)  BY <1>1 DEF Bucket
<1>3. Bucket(t, w) \in Int /\ Bucket(t, w) <= t /\ t < Bucket(t, w) + w
  <2> DEFINE r == t % w
  <2>1. r \in 0 .. w - 1 /\ Bucket(t, w) = t - r  BY <1>1 DEF Bucket
  <2> HIDE DEF r
  <2> QED  BY <2>1
<1> QED  BY <1>1, <1>2, <1>3

\* The seam is the first bucket that opens no earlier than the first tick.
LEMMA SeamIsNext ==
    ASSUME NEW w \in Nat \ {0}, NEW first \in Int, NEW t \in Int
    PROVE  /\ SeamBoundary(first, w) \in Int /\ first <= SeamBoundary(first, w)
           /\ SeamBoundary(first, w) <= t => SeamBoundary(first, w) <= Bucket(t, w)
           /\ first <= Bucket(t, w) => SeamBoundary(first, w) <= Bucket(t, w)
<1> DEFINE s == SeamBoundary(first, w)  b == Bucket(t, w)
<1>1. w \in Int /\ w > 0 /\ first + w - 1 \in Int  OBVIOUS
<1>2. s \in Int /\ s <= first + w - 1 /\ first + w - 1 < s + w /\ \E q \in Int : s = w * q
  BY <1>1, BucketIs DEF SeamBoundary
<1>3. b \in Int /\ b <= t /\ t < b + w /\ \E q \in Int : b = w * q  BY BucketIs
<1>4. PICK p \in Int : s = w * p  BY <1>2
<1>5. PICK q \in Int : b = w * q  BY <1>3
<1> HIDE DEF s, b
<1>6. first <= s  BY <1>1, <1>2
<1>7. s < b + w => s <= b  BY <1>4, <1>5, NextMultiple
<1>8. s <= t => s < b + w  BY <1>1, <1>2, <1>3
<1>9. first <= b => s < b + w  BY <1>1, <1>2, <1>3
<1>10. s \in Int /\ first <= s /\ (s <= t => s <= b) /\ (first <= b => s <= b)
  BY <1>2, <1>6, <1>7, <1>8, <1>9
<1> QED  BY <1>10 DEF s, b

\* The first and the last of some ticks.
LEMMA SpanOfTicks ==
    ASSUME NEW ticks \in SUBSET Nat, ticks # {}, IsFiniteSet(ticks)
    PROVE  /\ Min(ticks) \in ticks /\ Max(ticks) \in ticks
           /\ \A t \in ticks : Min(ticks) <= t /\ t <= Max(ticks)
<1>1. ticks \in SUBSET Int  OBVIOUS
<1>2. Max(ticks) \in ticks /\ \A t \in ticks : Max(ticks) >= t  BY <1>1, MaxOfFinite
<1>3. \E n \in ticks : \A m \in ticks : n <= m  BY LeastNat
<1>4. Min(ticks) \in ticks /\ \A t \in ticks : Min(ticks) <= t  BY <1>3 DEF Min
<1>5. \A t \in ticks : t <= Max(ticks)
  <2> DEFINE m == Max(ticks)
  <2>1. m \in ticks /\ \A t \in ticks : m >= t  BY <1>2
  <2> HIDE DEF m
  <2>2. \A t \in ticks : t <= m  BY <2>1
  <2> QED  BY <2>2 DEF m
<1> QED  BY <1>2, <1>4, <1>5

\* An end is a date, or the instant it names.
Ends == [date : BOOLEAN, at : Nat]

\* Of any history, ticks, width and end, bars of ticks and bars of history meet without a gap
\* or a repeat: a bar of ticks had ticks from its opening on, and the tick window leaves out
\* none that could (series.py 4-49, main.build_series; what the property SeamsAreClean asks).
THEOREM SeamsMeet ==
    ASSUME NEW history \in SUBSET Nat, NEW ticks \in SUBSET Nat, IsFiniteSet(ticks),
           NEW width \in Nat \ {0}, NEW end \in Ends
    PROVE  SeamIsClean(history, ticks, width, end)
<1>1. width \in Int /\ width > 0  OBVIOUS
<1> DEFINE first == Min(ticks)  newest == Max(ticks)  seam == SeamBoundary(first, width)
           until == WindowEnd(end)  hi == Min({newest, until})
           bars == IF ~TickCapable(width) \/ ticks = {} THEN {} ELSE
                   IF hi < seam THEN {} ELSE TickBars(ticks, width, seam, hi)
           kept == Stitch(history, bars, seam)
<1>2. Stitched(history, ticks, width, end) = [history |-> kept, ticks |-> bars]
  BY DEF Stitched, TickSpan
<1>3. until \in Int
  <2>1. DayLength \in Nat \ {0} /\ end.at \in Int /\ end.date \in BOOLEAN  BY SeriesBounds DEF Ends
  <2>2. Bucket(end.at, DayLength) \in Int  BY <2>1, BucketIs
  <2> QED  BY <2>1, <2>2 DEF WindowEnd
<1>4. CASE ticks = {}
  <2>1. bars = {} /\ kept = history  BY <1>4 DEF Stitch
  <2> HIDE DEF bars, kept
  <2> QED  BY <1>2, <1>4, <2>1 DEF SeamIsClean
<1>5. CASE ticks # {}
  <2>1. /\ first \in ticks /\ newest \in ticks
        /\ \A t \in ticks : first <= t /\ t <= newest
    BY <1>5, SpanOfTicks
  <2>2. first \in Int /\ newest \in Int
    <3> HIDE DEF first, newest
    <3> QED  BY <2>1
  <2>3. hi \in Int /\ hi <= newest /\ hi <= until /\ (hi = newest \/ hi = until)
    BY <1>3, <2>2, MinOfTwo
  <2>4. seam \in Int /\ first <= seam  BY <2>2, SeamIsNext
  <2>5. \A t \in ticks : /\ Bucket(t, width) \in Int /\ Bucket(t, width) <= t
                         /\ seam <= t => seam <= Bucket(t, width)
                         /\ first <= Bucket(t, width) => seam <= Bucket(t, width)
    <3> TAKE t \in ticks
    <3>1. t \in Int  OBVIOUS
    <3>2. Bucket(t, width) \in Int /\ Bucket(t, width) <= t  BY <3>1, BucketIs
    <3>3. /\ seam <= t => seam <= Bucket(t, width)
          /\ first <= Bucket(t, width) => seam <= Bucket(t, width)
      BY <2>2, <3>1, SeamIsNext
    <3> QED  BY <3>2, <3>3
  <2> HIDE DEF first, newest, seam, until, hi
  <2>6. \A b \in bars : \E t \in ticks : seam <= t /\ t <= hi /\ b = Bucket(t, width)
    BY DEF TickBars
  <2>7. \A b \in bars : b \in Int /\ first <= b /\ seam <= b /\ b <= until
    <3> TAKE b \in bars
    <3>1. PICK t \in ticks : seam <= t /\ t <= hi /\ b = Bucket(t, width)  BY <2>6
    <3>2. t \in Int /\ b \in Int /\ b <= t /\ seam <= b  BY <2>5, <3>1
    <3> HIDE DEF bars
    <3> QED  BY <1>3, <2>2, <2>3, <2>4, <3>1, <3>2
  <2>8. kept = history \/ kept = {b \in history : b < seam}  BY DEF Stitch
  <2>9. kept \cap bars = {}
    <3>1. CASE bars = {}  BY <3>1
    <3>2. CASE bars # {}
      <4>1. kept = {b \in history : b < seam}  BY <3>2 DEF Stitch
      <4> HIDE DEF bars, kept
      <4> QED  BY <2>4, <2>7, <4>1
    <3> QED  BY <3>1, <3>2
  <2>10. {b \in history : ticks = {} \/ b < first} \subseteq kept
    <3> SUFFICES ASSUME NEW b \in history, b < first PROVE b \in kept  BY <1>5
    <3>1. b \in Int /\ b < seam  BY <2>2, <2>4
    <3> HIDE DEF bars, kept
    <3> QED  BY <2>8, <3>1
  <2>11. ASSUME TickCapable(width), NEW t \in ticks, t <= until, Bucket(t, width) >= first
         PROVE  Bucket(t, width) \in bars
    <3>1. t \in Int /\ Bucket(t, width) \in Int /\ Bucket(t, width) <= t /\ seam <= Bucket(t, width)
      BY <2>2, <2>5, <2>11
    <3>2. seam <= t  BY <2>4, <3>1
    <3>3. t <= newest  BY <2>1
    <3>4. t <= hi  BY <2>3, <2>11, <3>3
    <3>5. ~(hi < seam)  BY <2>3, <2>4, <3>1, <3>2, <3>4
    <3>6. bars = TickBars(ticks, width, seam, hi)  BY <1>5, <2>11, <3>5
    <3> QED  BY <3>2, <3>4, <3>6 DEF TickBars
  <2> HIDE DEF bars, kept
  <2>12. \A b \in bars : first <= b /\ b <= until  BY <2>7
  <2> QED  BY <1>2, <2>9, <2>10, <2>11, <2>12 DEF SeamIsClean, first, until
<1> QED  BY <1>4, <1>5

----------------------------------------------------------------------------
\* The studies.  One bar more leaves the values of the earlier bars as they are, made of bars
\* no later than their own.
Grows(s, t, n) ==
    /\ DOMAIN s = 1 .. n + 1 /\ DOMAIN t = 1 .. n
    /\ \A i \in 1 .. n : s[i] = t[i] /\ s[i] \subseteq 1 .. i

\* So do the columns, and all that Polars makes of series that do.
LEMMA ColumnGrows == ASSUME NEW n \in Nat PROVE Grows(Column(n + 1), Column(n), n)
BY DEF Grows, Column

LEMMA RollingGrows ==
    ASSUME NEW n \in Nat, NEW s, NEW t, Grows(s, t, n), NEW k \in Int
    PROVE  Grows(Rolling(s, k), Rolling(t, k), n)
<1> DEFINE a == Rolling(s, k)  b == Rolling(t, k)
<1>1. DOMAIN a = 1 .. n + 1 /\ DOMAIN b = 1 .. n  BY DEF Rolling, Grows
<1>2. ASSUME NEW i \in 1 .. n PROVE a[i] = b[i] /\ a[i] \subseteq 1 .. i
  <2>1. i \in DOMAIN s /\ i \in DOMAIN t  BY DEF Grows
  <2>2. CASE i < k
    <3>1. a[i] = Null /\ b[i] = Null  BY <2>1, <2>2 DEF Rolling
    <3> QED  BY <3>1 DEF Null
  <2>3. CASE ~(i < k)
    <3>1. \A j \in i - k + 1 .. i : j \in 1 .. n /\ s[j] = t[j] /\ s[j] \subseteq 1 .. i
      <4> TAKE j \in i - k + 1 .. i
      <4>1. j \in 1 .. n /\ j <= i  BY <2>3
      <4>2. s[j] = t[j] /\ s[j] \subseteq 1 .. j  BY <4>1 DEF Grows
      <4>3. 1 .. j \subseteq 1 .. i  BY <4>1
      <4> QED  BY <4>1, <4>2, <4>3
    <3>2. {s[j] : j \in i - k + 1 .. i} = {t[j] : j \in i - k + 1 .. i}  BY <3>1
    <3>3. (\E j \in i - k + 1 .. i : s[j] = Null) <=> \E j \in i - k + 1 .. i : t[j] = Null
      BY <3>1
    <3>4. UNION {s[j] : j \in i - k + 1 .. i} \subseteq 1 .. i  BY <3>1
    <3>5. a[i] = IF \E j \in i - k + 1 .. i : s[j] = Null THEN Null
                 ELSE UNION {s[j] : j \in i - k + 1 .. i}
      BY <2>1, <2>3 DEF Rolling
    <3>6. b[i] = IF \E j \in i - k + 1 .. i : t[j] = Null THEN Null
                 ELSE UNION {t[j] : j \in i - k + 1 .. i}
      BY <2>1, <2>3 DEF Rolling
    <3>7. Null \subseteq 1 .. i  BY DEF Null
    <3> QED  BY <3>2, <3>3, <3>4, <3>5, <3>6, <3>7
  <2> QED  BY <2>2, <2>3
<1> HIDE DEF a, b
<1>3. Grows(a, b, n)  BY <1>1, <1>2 DEF Grows
<1> QED  BY <1>3 DEF a, b

LEMMA PastGrows ==
    ASSUME NEW n \in Nat, NEW s, NEW t, Grows(s, t, n), NEW i \in 1 .. n
    PROVE  Past(s, i) = Past(t, i) /\ Past(s, i) \subseteq 1 .. i
<1>1. \A j \in 1 .. i : s[j] = t[j] /\ s[j] \subseteq 1 .. i
  <2> TAKE j \in 1 .. i
  <2>1. j \in 1 .. n /\ j <= i  OBVIOUS
  <2>2. s[j] = t[j] /\ s[j] \subseteq 1 .. j  BY <2>1 DEF Grows
  <2>3. 1 .. j \subseteq 1 .. i  BY <2>1
  <2> QED  BY <2>2, <2>3
<1>2. {s[j] : j \in 1 .. i} = {t[j] : j \in 1 .. i}  BY <1>1
<1>3. UNION {s[j] : j \in 1 .. i} \subseteq 1 .. i  BY <1>1
<1> QED  BY <1>2, <1>3 DEF Past

LEMMA CumulatedGrows ==
    ASSUME NEW n \in Nat, NEW s, NEW t, Grows(s, t, n)
    PROVE  Grows(Cumulated(s), Cumulated(t), n)
<1> DEFINE a == Cumulated(s)  b == Cumulated(t)
<1>1. DOMAIN a = 1 .. n + 1 /\ DOMAIN b = 1 .. n  BY DEF Cumulated, Grows
<1>2. ASSUME NEW i \in 1 .. n PROVE a[i] = b[i] /\ a[i] \subseteq 1 .. i
  <2>1. i \in DOMAIN s /\ i \in DOMAIN t /\ s[i] = t[i]  BY DEF Grows
  <2>2. a[i] = (IF s[i] = Null THEN Null ELSE Past(s, i))
        /\ b[i] = (IF t[i] = Null THEN Null ELSE Past(t, i))
    BY <2>1 DEF Cumulated
  <2>3. Past(s, i) = Past(t, i) /\ Past(s, i) \subseteq 1 .. i  BY PastGrows
  <2> QED  BY <2>1, <2>2, <2>3 DEF Null
<1> HIDE DEF a, b
<1>3. Grows(a, b, n)  BY <1>1, <1>2 DEF Grows
<1> QED  BY <1>3 DEF a, b

LEMMA ShiftGrows ==
    ASSUME NEW n \in Nat, NEW s, NEW t, Grows(s, t, n), NEW k \in Nat
    PROVE  Grows(Shift(s, k), Shift(t, k), n)
<1> DEFINE a == Shift(s, k)  b == Shift(t, k)
<1>1. DOMAIN a = 1 .. n + 1 /\ DOMAIN b = 1 .. n  BY DEF Shift, Grows
<1>2. ASSUME NEW i \in 1 .. n PROVE a[i] = b[i] /\ a[i] \subseteq 1 .. i
  <2>1. i \in DOMAIN s /\ i \in DOMAIN t  BY DEF Grows
  <2>2. /\ a[i] = IF i > k THEN s[i - k] ELSE Null
        /\ b[i] = IF i > k THEN t[i - k] ELSE Null
    <3>1. i > k <=> i - k \in 1 .. n  OBVIOUS
    <3>2. i > k <=> i - k \in 1 .. n + 1  OBVIOUS
    <3> QED  BY <2>1, <3>1, <3>2 DEF Shift, Grows
  <2>3. CASE i > k
    <3>1. i - k \in 1 .. n /\ 1 .. i - k \subseteq 1 .. i  BY <2>3
    <3>2. s[i - k] = t[i - k] /\ s[i - k] \subseteq 1 .. i - k  BY <3>1 DEF Grows
    <3> QED  BY <2>2, <2>3, <3>1, <3>2
  <2>4. CASE ~(i > k)  BY <2>2, <2>4 DEF Null
  <2> QED  BY <2>3, <2>4
<1> HIDE DEF a, b
<1>3. Grows(a, b, n)  BY <1>1, <1>2 DEF Grows
<1> QED  BY <1>3 DEF a, b

LEMMA WithGrows ==
    ASSUME NEW n \in Nat, NEW s, NEW t, Grows(s, t, n), NEW u, NEW v, Grows(u, v, n)
    PROVE  Grows(With(s, u), With(t, v), n) /\ Grows(Either(s, u), Either(t, v), n)
<1>1. \A i \in 1 .. n : i \in 1 .. n + 1  OBVIOUS
<1>2. Grows(With(s, u), With(t, v), n)  BY <1>1 DEF Grows, With, Null
<1>3. Grows(Either(s, u), Either(t, v), n)  BY <1>1 DEF Grows, Either
<1> QED  BY <1>2, <1>3

LEMMA OrZeroGrows ==
    ASSUME NEW n \in Nat, NEW s, NEW t, Grows(s, t, n)
    PROVE  Grows(OrZero(s), OrZero(t), n)
BY DEF Grows, OrZero, Null

LEMMA ChangeGrows ==
    ASSUME NEW n \in Nat, NEW s, NEW t, Grows(s, t, n), NEW k \in Nat
    PROVE  Grows(Change(s, k), Change(t, k), n)
BY ShiftGrows, WithGrows DEF Change

\* A recurrence has no value at the first bar.
FromSecond(s, n) == [i \in 1 .. n |-> IF i = 1 THEN Null ELSE s[i]]

LEMMA FromSecondGrows ==
    ASSUME NEW n \in Nat, NEW s, NEW t, Grows(s, t, n)
    PROVE  Grows(FromSecond(s, n + 1), FromSecond(t, n), n)
BY DEF Grows, FromSecond, Null

\* The windows of Hull's average are numbers.
LEMMA HullWindows == HullHalf \in Int /\ HullRoot \in Int
<1>1. Period \in Nat /\ Period >= 1  BY StudyBounds
<1>2. HullHalf \in Int
  <2>1. Period \div 2 \in Int  BY <1>1
  <2> QED  BY <2>1 DEF HullHalf
<1> DEFINE Above == {r \in 1 .. Period : Period <= r * r + r}
<1>3. Period \in Above
  <2>1. Period * Period >= 0  BY <1>1
  <2> QED  BY <1>1, <2>1
<1>4. PICK r \in Above : \A m \in Above : r <= m
  <2>1. Above \subseteq 1 .. Period  OBVIOUS
  <2> HIDE DEF Above
  <2>2. Above \in SUBSET Nat /\ Above # {}  BY <1>1, <1>3, <2>1
  <2> QED  BY <2>2, LeastNat
<1>5. r \in 1 .. Period /\ Period <= r * r + r /\ r * r - r < Period
  <2>1. CASE r = 1  BY <1>1, <2>1
  <2>2. CASE r # 1
    <3>1. r - 1 \in 1 .. Period /\ r - 1 \notin Above  BY <1>1, <1>4, <2>2
    <3>2. (r - 1) * (r - 1) + (r - 1) < Period
      <4>1. r - 1 \in Int /\ (r - 1) * (r - 1) \in Int  BY <1>1
      <4> QED  BY <1>1, <3>1, <4>1
    <3>3. (r - 1) * (r - 1) + (r - 1) = r * r - r  BY <1>1
    <3> QED  BY <1>4, <3>2, <3>3
  <2> QED  BY <2>1, <2>2
<1>6. HullRoot \in 1 .. Period
  <2>1. \E x \in 1 .. Period : x * x - x < Period /\ Period <= x * x + x  BY <1>5
  <2> QED  BY <2>1 DEF HullRoot
<1> QED  BY <1>1, <1>2, <1>6

\* Every indicator is made of those.
LEMMA BasesGrow ==
    ASSUME NEW n \in Nat
    PROVE  /\ Grows(TrueRange(n + 1), TrueRange(n), n)
           /\ \A k \in Nat : Grows(Spread(n + 1, k), Spread(n, k), n)
<1>1. Grows(Column(n + 1), Column(n), n)  BY ColumnGrows
<1>2. Grows(Shift(Column(n + 1), 1), Shift(Column(n), 1), n)  BY <1>1, ShiftGrows
<1>3. Grows(TrueRange(n + 1), TrueRange(n), n)  BY <1>1, <1>2, WithGrows DEF TrueRange
<1>4. \A k \in Nat : Grows(Spread(n + 1, k), Spread(n, k), n)  BY <1>1, RollingGrows DEF Spread
<1> QED  BY <1>3, <1>4

LEMMA RollingStudies ==
    ASSUME NEW n \in Nat
    PROVE  /\ Grows(Sma(n + 1), Sma(n), n) /\ Grows(Bbands(n + 1), Bbands(n), n)
           /\ Grows(Wma(n + 1), Wma(n), n) /\ Grows(Hma(n + 1), Hma(n), n)
           /\ Grows(Donchian(n + 1), Donchian(n), n) /\ Grows(Volume(n + 1), Volume(n), n)
           /\ Grows(Stoch(n + 1), Stoch(n), n) /\ Grows(Cci(n + 1), Cci(n), n)
           /\ Grows(WilliamsR(n + 1), WilliamsR(n), n) /\ Grows(Roc(n + 1, Period), Roc(n, Period), n)
           /\ Grows(StdDev(n + 1), StdDev(n), n) /\ Grows(PercentB(n + 1), PercentB(n), n)
           /\ Grows(BandWidth(n + 1), BandWidth(n), n) /\ Grows(Awesome(n + 1), Awesome(n), n)
           /\ Grows(ChaikinFlow(n + 1), ChaikinFlow(n), n)
           /\ Grows(Ichimoku(n + 1), Ichimoku(n), n)
<1>1. Grows(Column(n + 1), Column(n), n)  BY ColumnGrows
<1>2. Period \in Nat /\ Fast \in Nat /\ Slow \in Nat  BY StudyBounds
<1>3. \A k \in Nat : Grows(Spread(n + 1, k), Spread(n, k), n)  BY BasesGrow
<1>4. \A k \in Int : Grows(Rolling(Column(n + 1), k), Rolling(Column(n), k), n)
  BY <1>1, RollingGrows
<1>5. Grows(Bbands(n + 1), Bbands(n), n)  BY <1>2, <1>4 DEF Bbands, Sma
<1>6. Grows(Hma(n + 1), Hma(n), n)
  <2>1. Grows(With(Rolling(Column(n + 1), HullHalf), Rolling(Column(n + 1), Period)),
              With(Rolling(Column(n), HullHalf), Rolling(Column(n), Period)), n)
    <3>1. /\ Grows(Rolling(Column(n + 1), HullHalf), Rolling(Column(n), HullHalf), n)
          /\ Grows(Rolling(Column(n + 1), Period), Rolling(Column(n), Period), n)
      BY <1>2, <1>4, HullWindows
    <3> QED  BY <3>1, WithGrows
  <2> QED  BY <2>1, HullWindows, RollingGrows DEF Hma
<1>7. Grows(Stoch(n + 1), Stoch(n), n)
  <2> DEFINE k(m) == Rolling(With(Column(m), Spread(m, Slow)), Fast)
  <2>1. Grows(With(Column(n + 1), Spread(n + 1, Slow)), With(Column(n), Spread(n, Slow)), n)
    BY <1>1, <1>2, <1>3, WithGrows
  <2>2. Grows(k(n + 1), k(n), n)  BY <1>2, <2>1, RollingGrows
  <2>3. Stoch(n + 1) = With(k(n + 1), Rolling(k(n + 1), Fast)) /\ Stoch(n) = With(k(n), Rolling(k(n), Fast))
    BY DEF Stoch
  <2> HIDE DEF k
  <2>4. Grows(Rolling(k(n + 1), Fast), Rolling(k(n), Fast), n)  BY <1>2, <2>2, RollingGrows
  <2> QED  BY <2>2, <2>3, <2>4, WithGrows
<1>8. Grows(Cci(n + 1), Cci(n), n)
  <2> DEFINE d(m) == With(Column(m), Spread(m, Period))
  <2>1. Grows(d(n + 1), d(n), n)  BY <1>1, <1>2, <1>3, WithGrows
  <2>2. Cci(n + 1) = With(d(n + 1), Rolling(d(n + 1), Period)) /\ Cci(n) = With(d(n), Rolling(d(n), Period))
    BY DEF Cci
  <2> HIDE DEF d
  <2>3. Grows(Rolling(d(n + 1), Period), Rolling(d(n), Period), n)  BY <1>2, <2>1, RollingGrows
  <2> QED  BY <2>1, <2>2, <2>3, WithGrows
<1>9. Grows(WilliamsR(n + 1), WilliamsR(n), n)  BY <1>1, <1>2, <1>3, WithGrows DEF WilliamsR
<1>10. Grows(PercentB(n + 1), PercentB(n), n)  BY <1>1, <1>5, WithGrows DEF PercentB
<1>11. Grows(Awesome(n + 1), Awesome(n), n)
  <2>1. /\ Grows(Rolling(Column(n + 1), Fast), Rolling(Column(n), Fast), n)
        /\ Grows(Rolling(Column(n + 1), Slow), Rolling(Column(n), Slow), n)
    BY <1>2, <1>4
  <2> QED  BY <2>1, WithGrows DEF Awesome
<1>12. Grows(Ichimoku(n + 1), Ichimoku(n), n)
  <2>1. Grows(With(Spread(n + 1, Fast), Spread(n + 1, Period)), With(Spread(n, Fast), Spread(n, Period)), n)
    BY <1>2, <1>3, WithGrows
  <2> QED  BY <1>2, <1>3, <2>1, WithGrows DEF Ichimoku
<1>13. Grows(Roc(n + 1, Period), Roc(n, Period), n)  BY <1>1, <1>2, ChangeGrows DEF Roc
<1>14. /\ Grows(Sma(n + 1), Sma(n), n) /\ Grows(Wma(n + 1), Wma(n), n)
       /\ Grows(StdDev(n + 1), StdDev(n), n) /\ Grows(ChaikinFlow(n + 1), ChaikinFlow(n), n)
  BY <1>2, <1>4 DEF Sma, Wma, StdDev, ChaikinFlow
<1>15. Grows(Donchian(n + 1), Donchian(n), n) /\ Grows(Volume(n + 1), Volume(n), n)
  BY <1>1, <1>2, <1>3 DEF Donchian, Volume
<1>16. Grows(BandWidth(n + 1), BandWidth(n), n)  BY <1>5 DEF BandWidth
<1> QED  BY <1>5, <1>6, <1>7, <1>8, <1>9, <1>10, <1>11, <1>12, <1>13, <1>14, <1>15, <1>16

LEMMA CumulatedStudies ==
    ASSUME NEW n \in Nat
    PROVE  /\ Grows(Ema(n + 1), Ema(n), n) /\ Grows(Rsi(n + 1), Rsi(n), n)
           /\ Grows(Atr(n + 1), Atr(n), n) /\ Grows(Trix(n + 1), Trix(n), n)
           /\ Grows(Keltner(n + 1), Keltner(n), n) /\ Grows(Vwap(n + 1), Vwap(n), n)
           /\ Grows(MacdLine(n + 1), MacdLine(n), n) /\ Grows(Macd(n + 1), Macd(n), n)
           /\ Grows(StochRsi(n + 1), StochRsi(n), n) /\ Grows(Adx(n + 1), Adx(n), n)
           /\ Grows(Obv(n + 1), Obv(n), n)
           /\ Grows(ParabolicSar(n + 1), ParabolicSar(n), n)
           /\ Grows(Supertrend(n + 1), Supertrend(n), n)
<1>1. Grows(Column(n + 1), Column(n), n) /\ Grows(TrueRange(n + 1), TrueRange(n), n)
  BY ColumnGrows, BasesGrow
<1>2. Period \in Nat /\ Fast \in Nat /\ Slow \in Nat  BY StudyBounds
<1>3. Grows(Cumulated(Column(n + 1)), Cumulated(Column(n)), n)  BY <1>1, CumulatedGrows
<1>4. /\ Grows(Ema(n + 1), Ema(n), n) /\ Grows(Vwap(n + 1), Vwap(n), n)
      /\ Grows(MacdLine(n + 1), MacdLine(n), n)
  BY <1>3 DEF Ema, Vwap, MacdLine
<1>5. Grows(Atr(n + 1), Atr(n), n)  BY <1>1, CumulatedGrows DEF Atr
<1>6. Grows(Change(Column(n + 1), 1), Change(Column(n), 1), n)  BY <1>1, ChangeGrows
<1>7. Grows(Cumulated(OrZero(Change(Column(n + 1), 1))), Cumulated(OrZero(Change(Column(n), 1))), n)
  <2>1. Grows(OrZero(Change(Column(n + 1), 1)), OrZero(Change(Column(n), 1)), n)
    BY <1>6, OrZeroGrows
  <2> QED  BY <2>1, CumulatedGrows
<1>8. Grows(Rsi(n + 1), Rsi(n), n)
  <2> DEFINE s(m) == Cumulated(OrZero(Change(Column(m), 1)))
  <2>1. Grows(s(n + 1), s(n), n)  BY <1>7
  <2>2. Rsi(n + 1) = FromSecond(s(n + 1), n + 1) /\ Rsi(n) = FromSecond(s(n), n)
    BY DEF Rsi, FromSecond
  <2> HIDE DEF s
  <2> QED  BY <2>1, <2>2, FromSecondGrows
<1>9. Grows(Trix(n + 1), Trix(n), n)
  <2>1. Grows(Cumulated(Cumulated(Column(n + 1))), Cumulated(Cumulated(Column(n))), n)
    BY <1>3, CumulatedGrows
  <2>2. Grows(Cumulated(Cumulated(Cumulated(Column(n + 1)))), Cumulated(Cumulated(Cumulated(Column(n)))), n)
    BY <2>1, CumulatedGrows
  <2> QED  BY <2>2, ChangeGrows DEF Trix
<1>10. Grows(Keltner(n + 1), Keltner(n), n)  BY <1>4, <1>5, WithGrows DEF Keltner
<1>11. Grows(Macd(n + 1), Macd(n), n)
  <2>1. Grows(Cumulated(MacdLine(n + 1)), Cumulated(MacdLine(n)), n)  BY <1>4, CumulatedGrows
  <2> QED  BY <1>4, <2>1, WithGrows DEF Macd
<1>12. Grows(StochRsi(n + 1), StochRsi(n), n)
  <2>1. Grows(Rolling(Rsi(n + 1), Slow), Rolling(Rsi(n), Slow), n)  BY <1>2, <1>8, RollingGrows
  <2> QED  BY <1>8, <2>1, WithGrows DEF StochRsi
<1>13. Grows(Adx(n + 1), Adx(n), n)
  <2> DEFINE di(m) == With(Cumulated(OrZero(Change(Column(m), 1))), Atr(m))
  <2>1. Grows(di(n + 1), di(n), n)  BY <1>5, <1>7, WithGrows
  <2>2. Adx(n + 1) = Cumulated(FromSecond(di(n + 1), n + 1)) /\ Adx(n) = Cumulated(FromSecond(di(n), n))
    BY DEF Adx, FromSecond
  <2> HIDE DEF di
  <2>3. Grows(FromSecond(di(n + 1), n + 1), FromSecond(di(n), n), n)  BY <2>1, FromSecondGrows
  <2> QED  BY <2>2, <2>3, CumulatedGrows
<1>14. Grows(Obv(n + 1), Obv(n), n)  BY <1>6, CumulatedGrows DEF Obv
<1>15. Grows(ParabolicSar(n + 1), ParabolicSar(n), n)  BY DEF Grows, ParabolicSar, Null
<1>16. Grows(Supertrend(n + 1), Supertrend(n), n)
  <2> DEFINE p(m) == Supertrend(m)
  <2>1. \A i \in 1 .. n : Past(Atr(n + 1), i) = Past(Atr(n), i) /\ Past(Atr(n + 1), i) \subseteq 1 .. i
    BY <1>5, PastGrows
  <2>2. \A i \in 1 .. n : Atr(n + 1)[i] = Atr(n)[i]  BY <1>5 DEF Grows
  <2>3. /\ DOMAIN p(n + 1) = 1 .. n + 1 /\ DOMAIN p(n) = 1 .. n
        /\ \A i \in 1 .. n :
              /\ p(n + 1)[i] = IF i = 1 \/ Atr(n + 1)[i] = Null THEN Null ELSE Past(Atr(n + 1), i)
              /\ p(n)[i] = IF i = 1 \/ Atr(n)[i] = Null THEN Null ELSE Past(Atr(n), i)
    BY DEF Supertrend
  <2> HIDE DEF p
  <2>4. ASSUME NEW i \in 1 .. n PROVE p(n + 1)[i] = p(n)[i] /\ p(n + 1)[i] \subseteq 1 .. i
    <3>1. p(n + 1)[i] = p(n)[i]  BY <2>1, <2>2, <2>3
    <3>2. p(n + 1)[i] = {} \/ p(n + 1)[i] = Past(Atr(n + 1), i)  BY <2>3 DEF Null
    <3> QED  BY <2>1, <3>1, <3>2
  <2>5. Grows(p(n + 1), p(n), n)  BY <2>3, <2>4 DEF Grows
  <2> QED  BY <2>5 DEF p
<1> QED  BY <1>4, <1>5, <1>8, <1>9, <1>10, <1>11, <1>12, <1>13, <1>14, <1>15, <1>16

LEMMA FlowStudies ==
    ASSUME NEW n \in Nat
    PROVE  /\ Grows(MoneyFlow(n + 1), MoneyFlow(n), n) /\ Grows(Ultimate(n + 1), Ultimate(n), n)
           /\ Grows(Vortex(n + 1), Vortex(n), n) /\ Grows(Choppiness(n + 1), Choppiness(n), n)
<1>1. Grows(Column(n + 1), Column(n), n) /\ Grows(TrueRange(n + 1), TrueRange(n), n)
  BY ColumnGrows, BasesGrow
<1>2. Period \in Nat /\ Fast \in Nat /\ Slow \in Nat  BY StudyBounds
<1>3. Grows(Change(Column(n + 1), 1), Change(Column(n), 1), n)  BY <1>1, ChangeGrows
<1>4. \A k \in Nat : Grows(Rolling(TrueRange(n + 1), k), Rolling(TrueRange(n), k), n)
  BY <1>1, RollingGrows
<1>5. Grows(MoneyFlow(n + 1), MoneyFlow(n), n)
  <2>1. Grows(OrZero(Change(Column(n + 1), 1)), OrZero(Change(Column(n), 1)), n)
    BY <1>3, OrZeroGrows
  <2>2. Grows(With(Column(n + 1), OrZero(Change(Column(n + 1), 1))),
              With(Column(n), OrZero(Change(Column(n), 1))), n)
    BY <1>1, <2>1, WithGrows
  <2> QED  BY <1>2, <2>2, RollingGrows DEF MoneyFlow
<1>6. Grows(Ultimate(n + 1), Ultimate(n), n)
  <2> DEFINE b(m) == Either(Column(m), Shift(Column(m), 1))
             r(m, k) == With(Rolling(b(m), k), Rolling(TrueRange(m), k))
  <2>1. Grows(Shift(Column(n + 1), 1), Shift(Column(n), 1), n)  BY <1>1, ShiftGrows
  <2>2. Grows(b(n + 1), b(n), n)  BY <1>1, <2>1, WithGrows
  <2>3. /\ Ultimate(n + 1) = With(With(r(n + 1, Fast), r(n + 1, Period)), r(n + 1, Slow))
        /\ Ultimate(n) = With(With(r(n, Fast), r(n, Period)), r(n, Slow))
    BY DEF Ultimate
  <2> HIDE DEF b
  <2>4. \A k \in Nat : Grows(r(n + 1, k), r(n, k), n)
    <3> TAKE k \in Nat
    <3>1. Grows(Rolling(b(n + 1), k), Rolling(b(n), k), n)  BY <2>2, RollingGrows
    <3> QED  BY <1>4, <3>1, WithGrows
  <2> HIDE DEF r
  <2>5. Grows(With(r(n + 1, Fast), r(n + 1, Period)), With(r(n, Fast), r(n, Period)), n)
    BY <1>2, <2>4, WithGrows
  <2> QED  BY <1>2, <2>3, <2>4, <2>5, WithGrows
<1>7. Grows(Vortex(n + 1), Vortex(n), n)
  <2>1. Grows(Rolling(Change(Column(n + 1), 1), Period), Rolling(Change(Column(n), 1), Period), n)
    BY <1>2, <1>3, RollingGrows
  <2> QED  BY <1>2, <1>4, <2>1, WithGrows DEF Vortex
<1>8. Grows(Choppiness(n + 1), Choppiness(n), n)
  <2>1. Grows(Spread(n + 1, Period), Spread(n, Period), n)  BY <1>2, BasesGrow
  <2> QED  BY <1>2, <1>4, <2>1, WithGrows DEF Choppiness
<1> QED  BY <1>5, <1>6, <1>7, <1>8

\* Sessions follow each other, each as long as the one before it, and one that is over has
\* its bars already.
LEMMA SessionsFollow ==
    ASSUME NEW n \in Nat
    PROVE  /\ \A i, j \in 1 .. n + 1 :
                 SessionOf(i) \in Nat /\ (i <= j => SessionOf(i) <= SessionOf(j))
           /\ \A i \in 1 .. n + 1 :
                 SessionOf(i) >= 1 => /\ i - SessionBars \in 1 .. i - 1
                                      /\ SessionOf(i - SessionBars) = SessionOf(i) - 1
<1>1. SessionBars \in Nat \ {0}  BY StudyBounds
<1>2. ASSUME NEW i \in 1 .. n + 1, NEW j \in 1 .. n + 1
      PROVE  SessionOf(i) \in Nat /\ (i <= j => SessionOf(i) <= SessionOf(j))
  <2>1. i - 1 \in Nat /\ j - 1 \in Nat /\ (i <= j => i - 1 <= j - 1)  OBVIOUS
  <2>2. /\ (i - 1) \div SessionBars \in Nat
        /\ (i - 1 <= j - 1 => (i - 1) \div SessionBars <= (j - 1) \div SessionBars)
    BY <1>1, <2>1, QuotientsGrow
  <2> QED  BY <2>1, <2>2 DEF SessionOf
<1>3. ASSUME NEW i \in 1 .. n + 1, SessionOf(i) >= 1
      PROVE  /\ i - SessionBars \in 1 .. i - 1
             /\ SessionOf(i - SessionBars) = SessionOf(i) - 1
  <2> DEFINE D == SessionBars  m == i - 1  q == m \div D  r == m % D
  <2>1. D \in Nat /\ D > 0 /\ m \in Nat  BY <1>1
  <2>2. q \in Int /\ r \in 0 .. D - 1 /\ m = D * q + r  BY <2>1
  <2>3. q >= 1  BY <1>3 DEF SessionOf
  <2> DEFINE p == (m - D) \div D  o == (m - D) % D
  <2>4. p \in Int /\ o \in 0 .. D - 1 /\ m - D = D * p + o
    <3>1. m - D \in Int  BY <2>1
    <3> HIDE DEF m, D
    <3> QED  BY <2>1, <3>1
  <2>5. SessionOf(i - SessionBars) = p /\ SessionOf(i) = q  BY <1>1 DEF SessionOf
  <2>6. D \in Nat /\ D = SessionBars /\ m = i - 1  BY <1>1
  <2> HIDE DEF D, m, q, r, p, o
  <2>7. D * q >= D
    <3>1. D * q >= D * 1  BY <2>1, <2>2, <2>3
    <3> QED  BY <2>1, <3>1
  <2>8. i - SessionBars \in 1 .. i - 1  BY <1>1, <2>1, <2>2, <2>6, <2>7
  <2>9. D * (p + 1) = D * p + D  BY <2>1, <2>4
  <2>10. ~(p + 1 < q)
    <3>1. SUFFICES ASSUME p + 2 <= q PROVE FALSE  BY <2>2, <2>4
    <3>2. D * (p + 2) <= D * q  BY <2>1, <2>2, <2>4, <3>1
    <3>3. D * (p + 2) = D * p + D + D  BY <2>1, <2>4
    <3> QED  BY <2>1, <2>2, <2>4, <3>2, <3>3
  <2>11. ~(q < p + 1)
    <3>1. SUFFICES ASSUME q + 1 <= p + 1 PROVE FALSE  BY <2>2, <2>4
    <3>2. D * (q + 1) <= D * (p + 1)  BY <2>1, <2>2, <2>4, <3>1
    <3>3. D * (q + 1) = D * q + D  BY <2>1, <2>2
    <3> QED  BY <2>1, <2>2, <2>4, <2>9, <3>2, <3>3
  <2>12. p = q - 1  BY <2>2, <2>4, <2>10, <2>11
  <2> QED  BY <2>5, <2>8, <2>12
<1> QED  BY <1>2, <1>3

LEMMA ClosedSession ==
    ASSUME NEW n \in Nat, NEW k \in Int, NEW i \in 1 .. n + 1, k < SessionOf(i)
    PROVE  /\ BarsOf(k, n + 1) = BarsOf(k, n)
           /\ BarsOf(k, n + 1) \subseteq 1 .. i - 1
<1>1. ASSUME NEW j \in BarsOf(k, n + 1) PROVE j \in 1 .. n + 1 /\ j < i
  <2>1. j \in 1 .. n + 1 /\ SessionOf(j) = k  BY DEF BarsOf
  <2>2. i <= j => SessionOf(i) <= SessionOf(j)  BY <2>1, SessionsFollow
  <2>3. SessionOf(i) \in Nat  BY SessionsFollow
  <2> QED  BY <2>1, <2>2, <2>3
<1>2. BarsOf(k, n + 1) \subseteq 1 .. i - 1  BY <1>1
<1>3. 1 .. i - 1 \subseteq 1 .. n /\ 1 .. n \subseteq 1 .. n + 1  OBVIOUS
<1> QED  BY <1>2, <1>3 DEF BarsOf

\* Of a session of which bar n is, or the next one, the levels move; of any other they stay.
LEMMA PivotsMove ==
    ASSUME NEW n \in Nat \ {0}, NEW back \in Int, NEW i \in 1 .. n - 1
    PROVE  LET a == PivotsStandard(n + 1, back)[i]
               b == PivotsStandard(n, back)[i]
           IN  (a # b \/ a \cap n .. n + 1 # {}) <=> SessionOf(i) - back \in {SessionOf(n), SessionOf(n + 1)}
<1> DEFINE a == PivotsStandard(n + 1, back)[i]  b == PivotsStandard(n, back)[i]
           k == SessionOf(i) - back
<1>1. /\ i \in 1 .. n /\ i \in 1 .. n + 1 /\ n \in 1 .. n + 1 /\ n + 1 \in 1 .. n + 1 /\ n \in Nat
      /\ SessionOf(i) \in Nat /\ SessionOf(n) \in Nat /\ SessionOf(n + 1) \in Nat /\ k \in Int
  <2>1. i \in 1 .. n + 1 /\ n \in 1 .. n + 1 /\ n + 1 \in 1 .. n + 1  OBVIOUS
  <2> QED  BY <2>1, SessionsFollow
<1>2. /\ a = IF SessionOf(i) < back THEN Null ELSE BarsOf(k, n + 1)
      /\ b = IF SessionOf(i) < back THEN Null ELSE BarsOf(k, n)
  BY <1>1 DEF PivotsStandard, SessionColumns
<1>3. SessionOf(i) < back <=> ~(k \in Nat)  BY <1>1
<1>4. /\ BarsOf(k, n) \subseteq 1 .. n /\ BarsOf(k, n + 1) \subseteq 1 .. n + 1
      /\ \A j \in 1 .. n : j \in BarsOf(k, n + 1) <=> j \in BarsOf(k, n)
      /\ (n \in BarsOf(k, n + 1) <=> k = SessionOf(n))
      /\ (n + 1 \in BarsOf(k, n + 1) <=> k = SessionOf(n + 1))
  BY <1>1 DEF BarsOf
<1> HIDE DEF a, b, k
<1>5. CASE k \in {SessionOf(n), SessionOf(n + 1)}
  <2>1. a = BarsOf(k, n + 1)  BY <1>1, <1>2, <1>3, <1>5
  <2>2. n \in a \/ n + 1 \in a  BY <1>4, <1>5, <2>1
  <2>3. n \in n .. n + 1 /\ n + 1 \in n .. n + 1  OBVIOUS
  <2>4. a \cap n .. n + 1 # {}  BY <2>2, <2>3
  <2> QED  BY <1>5, <2>4 DEF a, b, k
<1>6. CASE k \notin {SessionOf(n), SessionOf(n + 1)}
  <2>1. n \notin BarsOf(k, n + 1) /\ n + 1 \notin BarsOf(k, n + 1)  BY <1>4, <1>6
  <2>2. 1 .. n + 1 = 1 .. n \cup {n + 1}  BY <1>1
  <2>3. BarsOf(k, n + 1) = BarsOf(k, n)  BY <1>4, <2>1, <2>2
  <2>4. a = b /\ (a = Null \/ a = BarsOf(k, n + 1))  BY <1>2, <2>3
  <2>5. n .. n + 1 = {n, n + 1}  BY <1>1
  <2>6. a \cap n .. n + 1 = {}  BY <2>1, <2>4, <2>5 DEF Null
  <2> QED  BY <1>6, <2>4, <2>6 DEF a, b, k
<1> QED  BY <1>5, <1>6

\* A change reads its own bar and the other one.
LEMMA RocMoves ==
    ASSUME NEW n \in Nat \ {0}, NEW lag \in Int, NEW i \in 1 .. n - 1
    PROVE  LET a == Roc(n + 1, lag)[i]
               b == Roc(n, lag)[i]
           IN  (a # b \/ a \cap n .. n + 1 # {}) <=> i - lag \in {n, n + 1}
<1> DEFINE a == Roc(n + 1, lag)[i]  b == Roc(n, lag)[i]
<1>1. i \in 1 .. n /\ i \in 1 .. n + 1 /\ i - lag \in Int  OBVIOUS
<1>2. /\ a = IF i - lag \in 1 .. n + 1 THEN {i, i - lag} ELSE Null
      /\ b = IF i - lag \in 1 .. n THEN {i, i - lag} ELSE Null
  <2>1. \A m \in {n, n + 1} : Roc(m, lag)[i] = IF i - lag \in 1 .. m THEN {i, i - lag} ELSE Null
    <3> TAKE m \in {n, n + 1}
    <3>1. i \in 1 .. m /\ m \in Nat  BY <1>1
    <3>2. Column(m)[i] = {i} /\ DOMAIN Column(m) = 1 .. m  BY <3>1 DEF Column
    <3>3. Shift(Column(m), lag)[i] = IF i - lag \in 1 .. m THEN {i - lag} ELSE Null
      BY <3>1, <3>2 DEF Shift, Column
    <3>4. Roc(m, lag)[i] = IF Column(m)[i] = Null \/ Shift(Column(m), lag)[i] = Null THEN Null
                           ELSE Column(m)[i] \cup Shift(Column(m), lag)[i]
      BY <3>1, <3>2 DEF Roc, Change, With
    <3> HIDE DEF Roc
    <3>5. CASE i - lag \in 1 .. m
      <4>1. Shift(Column(m), lag)[i] = {i - lag}  BY <3>3, <3>5
      <4> QED  BY <3>2, <3>4, <3>5, <4>1 DEF Null
    <3>6. CASE ~(i - lag \in 1 .. m)  BY <3>3, <3>4, <3>6
    <3> QED  BY <3>5, <3>6
  <2> QED  BY <2>1
<1> HIDE DEF a, b
<1>3. CASE i - lag \in {n, n + 1}
  <2>1. a = {i, i - lag}  BY <1>2, <1>3
  <2>2. i - lag \in n .. n + 1  BY <1>3
  <2> QED  BY <1>3, <2>1, <2>2 DEF a, b
<1>4. CASE i - lag \notin {n, n + 1}
  <2>1. i - lag \in 1 .. n + 1 <=> i - lag \in 1 .. n  BY <1>1, <1>4
  <2>2. a = b /\ a \subseteq {i, i - lag}  BY <1>2, <2>1 DEF Null
  <2>3. i \notin n .. n + 1 /\ i - lag \notin n .. n + 1  BY <1>1, <1>4
  <2>4. a \cap n .. n + 1 = {}  BY <2>2, <2>3
  <2> QED  BY <1>4, <2>2, <2>4 DEF a, b
<1> QED  BY <1>3, <1>4

LEMMA AvwapGrows ==
    ASSUME NEW n \in Nat
    PROVE  Grows(Avwap(n + 1, OddBars(n + 1)), Avwap(n, OddBars(n)), n)
<1> DEFINE a == Avwap(n + 1, OddBars(n + 1))  b == Avwap(n, OddBars(n))
<1>1. DOMAIN a = 1 .. n + 1 /\ DOMAIN b = 1 .. n  BY DEF Avwap
<1>2. ASSUME NEW i \in 1 .. n PROVE a[i] = b[i] /\ a[i] \subseteq 1 .. i
  <2>1. i \in OddBars(n + 1) <=> i \in OddBars(n)  BY DEF OddBars
  <2>2. OddBars(n + 1) \cap 1 .. i = OddBars(n) \cap 1 .. i  BY DEF OddBars
  <2>3. /\ a[i] = IF i \in OddBars(n + 1) THEN OddBars(n + 1) \cap 1 .. i ELSE Null
        /\ b[i] = IF i \in OddBars(n) THEN OddBars(n) \cap 1 .. i ELSE Null
    BY DEF Avwap
  <2> QED  BY <2>1, <2>2, <2>3 DEF Null
<1> HIDE DEF a, b
<1>3. Grows(a, b, n)  BY <1>1, <1>2 DEF Grows
<1> QED  BY <1>3 DEF a, b

\* The first bar of the session that bar n is in: there is one.
LEMMA RunningFrom ==
    ASSUME NEW n \in Nat \ {0}
    PROVE  LET first == CHOOSE i \in BarsOf(SessionOf(n), n) : \A j \in BarsOf(SessionOf(n), n) : i <= j
           IN  /\ first \in 1 .. n
               /\ \A i \in 1 .. first - 1 : SessionOf(i) < SessionOf(n)
<1> DEFINE bars == BarsOf(SessionOf(n), n)
           first == CHOOSE i \in bars : \A j \in bars : i <= j
<1>1. bars \subseteq 1 .. n /\ n \in bars  BY DEF BarsOf
<1> HIDE DEF bars
<1>2. bars \in SUBSET Nat /\ bars # {}  BY <1>1
<1>3. \E i \in bars : \A j \in bars : i <= j  BY <1>2, LeastNat
<1>4. first \in bars /\ \A j \in bars : first <= j  BY <1>3
<1> HIDE DEF first
<1>5. ASSUME NEW i \in 1 .. first - 1 PROVE SessionOf(i) < SessionOf(n)
  <2>1. first \in 1 .. n  BY <1>1, <1>4
  <2>2. i \in 1 .. n /\ i < first  BY <2>1
  <2>3. i \notin bars  BY <1>4, <2>1, <2>2
  <2>4. SessionOf(i) # SessionOf(n)  BY <2>2, <2>3 DEF bars, BarsOf
  <2>5. SessionOf(i) <= SessionOf(n) /\ SessionOf(i) \in Nat /\ SessionOf(n) \in Nat
    BY <2>2, SessionsFollow
  <2> QED  BY <2>4, <2>5
<1>6. first \in 1 .. n  BY <1>1, <1>4
<1> QED  BY <1>5, <1>6 DEF bars, first

\* A session that is over has its close, which one more bar leaves where it is.
LEMMA CloseStays ==
    ASSUME NEW n \in Nat \ {0}, NEW d \in Int, d < SessionOf(n),
           NEW i \in 1 .. n, SessionOf(i) = d
    PROVE  SessionClose(d, n + 1) = SessionClose(d, n) /\ SessionClose(d, n) \in 1 .. n - 1
<1>1. n \in 1 .. n + 1 /\ n \in Nat  OBVIOUS
<1>2. BarsOf(d, n + 1) = BarsOf(d, n) /\ BarsOf(d, n + 1) \subseteq 1 .. n - 1
  BY <1>1, ClosedSession
<1> DEFINE bars == BarsOf(d, n)  late == {n - j : j \in bars}
<1>3. i \in bars  BY DEF BarsOf
<1>4. bars \subseteq 1 .. n - 1  BY <1>2
<1>5. SessionClose(d, n + 1) = (CHOOSE k \in bars : \A j \in bars : j <= k)
      /\ SessionClose(d, n) = (CHOOSE k \in bars : \A j \in bars : j <= k)
  BY <1>2 DEF SessionClose
<1> HIDE DEF bars
<1>6. late \in SUBSET Nat /\ late # {}  BY <1>3, <1>4
<1>7. PICK m \in late : \A o \in late : m <= o
  <2> HIDE DEF late
  <2> QED  BY <1>6, LeastNat
<1>8. PICK k \in bars : m = n - k  BY <1>7
<1>9. \A j \in bars : j <= k
  <2> TAKE j \in bars
  <2>1. m <= n - j  BY <1>7
  <2> QED  BY <1>4, <1>8, <2>1
<1> DEFINE close == CHOOSE k1 \in bars : \A j \in bars : j <= k1
<1>10. close \in bars  BY <1>8, <1>9
<1> HIDE DEF close
<1>11. SessionClose(d, n + 1) = close /\ SessionClose(d, n) = close  BY <1>5 DEF close
<1> QED  BY <1>4, <1>10, <1>11

LEMMA BusinessDaysStay ==
    ASSUME NEW n \in Nat \ {0}, NEW i \in 1 .. n, SessionOf(i) < SessionOf(n)
    PROVE  /\ BusinessDays(n + 1, 2)[i] = BusinessDays(n, 2)[i]
           /\ BusinessDays(n + 1, 2)[i] \cap n .. n + 1 = {}
<1>1. i \in 1 .. n + 1 /\ SessionOf(i) \in Nat /\ n \in Nat /\ SessionOf(n) \in Nat
  BY SessionsFollow
<1> DEFINE days == SessionOf(i) - 2 + 1 .. SessionOf(i)
<1>2. /\ BusinessDays(n + 1, 2)[i] = IF SessionOf(i) + 1 < 2 THEN Null
                                     ELSE {SessionClose(d, n + 1) : d \in days}
      /\ BusinessDays(n, 2)[i] = IF SessionOf(i) + 1 < 2 THEN Null
                                 ELSE {SessionClose(d, n) : d \in days}
  BY <1>1 DEF BusinessDays
<1>3. CASE SessionOf(i) + 1 < 2  BY <1>2, <1>3 DEF Null
<1>4. CASE ~(SessionOf(i) + 1 < 2)
  <2>1. ASSUME NEW d \in days
        PROVE  SessionClose(d, n + 1) = SessionClose(d, n) /\ SessionClose(d, n) \in 1 .. n - 1
    <3>1. d \in Int /\ d < SessionOf(n) /\ (d = SessionOf(i) \/ d = SessionOf(i) - 1)  BY <1>1
    <3>2. CASE d = SessionOf(i)  BY <3>1, <3>2, CloseStays
    <3>3. CASE d = SessionOf(i) - 1
      <4>1. i - SessionBars \in 1 .. i - 1 /\ SessionOf(i - SessionBars) = d
        BY <1>1, <1>4, <3>3, SessionsFollow
      <4>2. i - SessionBars \in 1 .. n  BY <4>1
      <4> QED  BY <3>1, <4>1, <4>2, CloseStays
    <3> QED  BY <3>1, <3>2, <3>3
  <2>2. {SessionClose(d, n + 1) : d \in days} = {SessionClose(d, n) : d \in days}  BY <2>1
  <2>3. \A x \in {SessionClose(d, n + 1) : d \in days} : x \in 1 .. n - 1  BY <2>1
  <2> HIDE DEF days
  <2>4. {SessionClose(d, n + 1) : d \in days} \cap n .. n + 1 = {}  BY <2>3
  <2> QED  BY <1>2, <1>4, <2>2, <2>4
<1> QED  BY <1>3, <1>4

\* No indicator moves a closed row.
LEMMA StudiesGrow ==
    ASSUME NEW n \in Nat
    PROVE  /\ DOMAIN Compute(n + 1) = DOMAIN Compute(n)
           /\ \A name \in DOMAIN Compute(n + 1) : Grows(Compute(n + 1)[name], Compute(n)[name], n)
<1> DEFINE longer == Compute(n + 1)  shorter == Compute(n)
           names == {"sma", "ema", "rsi", "bbands", "atr", "wma", "hma", "trix", "keltner", "donchian",
                     "vwap", "volume", "macd", "macd_signal", "stoch", "stochrsi", "adx", "cci", "willr",
                     "roc", "obv", "stddev", "pct_b", "bandwidth", "sar", "supertrend", "ao", "mfi",
                     "cmf", "uo", "vortex", "chop", "ichimoku"}
<1>1. DOMAIN longer = names /\ DOMAIN shorter = names  BY DEF Compute
<1>2. /\ Grows(longer.sma, shorter.sma, n) /\ Grows(longer.bbands, shorter.bbands, n)
      /\ Grows(longer.wma, shorter.wma, n) /\ Grows(longer.hma, shorter.hma, n)
      /\ Grows(longer.donchian, shorter.donchian, n) /\ Grows(longer.volume, shorter.volume, n)
      /\ Grows(longer.stoch, shorter.stoch, n) /\ Grows(longer.cci, shorter.cci, n)
      /\ Grows(longer.willr, shorter.willr, n) /\ Grows(longer.roc, shorter.roc, n)
      /\ Grows(longer.stddev, shorter.stddev, n) /\ Grows(longer.pct_b, shorter.pct_b, n)
      /\ Grows(longer.bandwidth, shorter.bandwidth, n) /\ Grows(longer.ao, shorter.ao, n)
      /\ Grows(longer.cmf, shorter.cmf, n) /\ Grows(longer.ichimoku, shorter.ichimoku, n)
  BY RollingStudies DEF Compute
<1>3. /\ Grows(longer.ema, shorter.ema, n) /\ Grows(longer.rsi, shorter.rsi, n)
      /\ Grows(longer.atr, shorter.atr, n) /\ Grows(longer.trix, shorter.trix, n)
      /\ Grows(longer.keltner, shorter.keltner, n) /\ Grows(longer.vwap, shorter.vwap, n)
      /\ Grows(longer.macd, shorter.macd, n) /\ Grows(longer.macd_signal, shorter.macd_signal, n)
      /\ Grows(longer.stochrsi, shorter.stochrsi, n) /\ Grows(longer.adx, shorter.adx, n)
      /\ Grows(longer.obv, shorter.obv, n) /\ Grows(longer.sar, shorter.sar, n)
      /\ Grows(longer.supertrend, shorter.supertrend, n)
  BY CumulatedStudies DEF Compute
<1>4. /\ Grows(longer.mfi, shorter.mfi, n) /\ Grows(longer.uo, shorter.uo, n)
      /\ Grows(longer.vortex, shorter.vortex, n) /\ Grows(longer.chop, shorter.chop, n)
  BY FlowStudies DEF Compute
<1> HIDE DEF longer, shorter
<1>5. ASSUME NEW name \in names PROVE Grows(longer[name], shorter[name], n)
  BY <1>2, <1>3, <1>4
<1> HIDE DEF names
<1> QED  BY <1>1, <1>5 DEF longer, shorter

\* A bar more moves no row before the last, of any indicator over any number of bars, nor a
\* row of an earlier session where the window is one of business days: what a delta leaves
\* out was right when it was sent (payload.delta_start 258-304, exprs, iterative; what the
\* property NoClosedRowMoves asks).  Of pivots and rates of change that holds exactly when
\* their offset, which the request chooses, looks back (compute.py 48-54, registry.py 909).
THEOREM ClosedRowsNeverMove == \A n \in Nat \ {0}, offset \in Int : ClosedRowsStay(n, offset)
<1> TAKE n \in Nat \ {0}, offset \in Int
<1> DEFINE Stirred(s, t) == {i \in 1 .. n - 1 : s[i] # t[i] \/ s[i] \cap n .. n + 1 # {}}
           first == CHOOSE i \in BarsOf(SessionOf(n), n) : \A j \in BarsOf(SessionOf(n), n) : i <= j
           levels == {i \in 1 .. n - 1 : SessionOf(i) - offset \in {SessionOf(n), SessionOf(n + 1)}}
           ahead == {i \in 1 .. n - 1 : i - offset \in {n, n + 1}}
<1>1. ASSUME NEW s, NEW t, Grows(s, t, n) PROVE Stirred(s, t) = {}
  <2>1. ASSUME NEW i \in 1 .. n - 1 PROVE s[i] = t[i] /\ s[i] \cap n .. n + 1 = {}
    <3>1. i \in 1 .. n  OBVIOUS
    <3>2. s[i] = t[i] /\ s[i] \subseteq 1 .. i  BY <3>1, <1>1 DEF Grows
    <3>3. 1 .. i \cap n .. n + 1 = {}  OBVIOUS
    <3> QED  BY <3>2, <3>3
  <2> QED  BY <2>1
<1>2. first \in 1 .. n /\ \A i \in 1 .. first - 1 : SessionOf(i) < SessionOf(n)  BY RunningFrom
<1>3. Stirred(BusinessDays(n + 1, 2), BusinessDays(n, 2)) \subseteq first .. n
  <2> HIDE DEF first
  <2>1. ASSUME NEW i \in 1 .. n - 1, i < first
        PROVE  /\ BusinessDays(n + 1, 2)[i] = BusinessDays(n, 2)[i]
               /\ BusinessDays(n + 1, 2)[i] \cap n .. n + 1 = {}
    <3>1. i \in 1 .. n /\ i \in 1 .. first - 1  BY <1>2, <2>1
    <3> QED  BY <1>2, <3>1, BusinessDaysStay
  <2>2. \A i \in 1 .. n - 1 : i < first \/ i \in first .. n  BY <1>2
  <2> QED  BY <2>1, <2>2
<1>4. n \in Nat  OBVIOUS
<1>5. Stirred(PivotsStandard(n + 1, offset), PivotsStandard(n, offset)) =
         IF offset >= 1 THEN {} ELSE levels
  <2>1. Stirred(PivotsStandard(n + 1, offset), PivotsStandard(n, offset)) = levels
    <3>1. \A i \in 1 .. n - 1 :
             (\/ PivotsStandard(n + 1, offset)[i] # PivotsStandard(n, offset)[i]
              \/ PivotsStandard(n + 1, offset)[i] \cap n .. n + 1 # {})
             <=> SessionOf(i) - offset \in {SessionOf(n), SessionOf(n + 1)}
      BY PivotsMove
    <3> QED  BY <3>1
  <2>2. offset >= 1 => levels = {}
    <3> SUFFICES ASSUME offset >= 1, NEW i \in 1 .. n - 1
                 PROVE  SessionOf(i) - offset \notin {SessionOf(n), SessionOf(n + 1)}
      OBVIOUS
    <3>1. i \in 1 .. n + 1 /\ n \in 1 .. n + 1 /\ n + 1 \in 1 .. n + 1 /\ i <= n /\ i <= n + 1
      OBVIOUS
    <3>2. /\ SessionOf(i) \in Nat /\ SessionOf(n) \in Nat /\ SessionOf(n + 1) \in Nat
          /\ SessionOf(i) <= SessionOf(n) /\ SessionOf(i) <= SessionOf(n + 1)
      BY <1>4, <3>1, SessionsFollow
    <3> QED  BY <3>2
  <2> HIDE DEF Stirred, levels
  <2> QED  BY <2>1, <2>2
<1>6. Stirred(Roc(n + 1, offset), Roc(n, offset)) = IF offset >= 0 THEN {} ELSE ahead
  <2>1. Stirred(Roc(n + 1, offset), Roc(n, offset)) = ahead
    <3>1. \A i \in 1 .. n - 1 :
             (\/ Roc(n + 1, offset)[i] # Roc(n, offset)[i]
              \/ Roc(n + 1, offset)[i] \cap n .. n + 1 # {}) <=> i - offset \in {n, n + 1}
      BY RocMoves
    <3> QED  BY <3>1
  <2>2. offset >= 0 => ahead = {}  OBVIOUS
  <2> HIDE DEF Stirred, ahead
  <2> QED  BY <2>1, <2>2
<1>7. Stirred(Avwap(n + 1, OddBars(n + 1)), Avwap(n, OddBars(n))) = {}
  <2>1. Grows(Avwap(n + 1, OddBars(n + 1)), Avwap(n, OddBars(n)), n)  BY <1>4, AvwapGrows
  <2> QED  BY <1>1, <2>1
<1>8. \A name \in DOMAIN Compute(n + 1) : Stirred(Compute(n + 1)[name], Compute(n)[name]) = {}
  <2> TAKE name \in DOMAIN Compute(n + 1)
  <2>1. Grows(Compute(n + 1)[name], Compute(n)[name], n)  BY <1>4, StudiesGrow
  <2> QED  BY <1>1, <2>1
<1>9. ClosedRowsStay(n, offset) <=>
         /\ \A name \in DOMAIN Compute(n + 1) : Stirred(Compute(n + 1)[name], Compute(n)[name]) = {}
         /\ Stirred(Avwap(n + 1, OddBars(n + 1)), Avwap(n, OddBars(n))) = {}
         /\ Stirred(BusinessDays(n + 1, 2), BusinessDays(n, 2)) \subseteq first .. n
         /\ Stirred(PivotsStandard(n + 1, offset), PivotsStandard(n, offset)) =
               IF offset >= 1 THEN {} ELSE levels
         /\ Stirred(Roc(n + 1, offset), Roc(n, offset)) = IF offset >= 0 THEN {} ELSE ahead
  BY DEF ClosedRowsStay
<1> HIDE DEF Stirred, first, levels, ahead
<1> QED  BY <1>3, <1>5, <1>6, <1>7, <1>8, <1>9
=============================================================================
