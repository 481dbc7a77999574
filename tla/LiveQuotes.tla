------------------------------ MODULE LiveQuotes ------------------------------
(***************************************************************************)
(* A quote of the kdb provider (openbb_kdb/models/quote.py, leasing.py):   *)
(* the newest tick q holds, which a lease of the feed may still have to    *)
(* bring, with yesterday's close, or else live-grid's delayed snapshot     *)
(* (main.py, quotes.py).  The tick is read by a thread, which the quote    *)
(* stops waiting for at its deadline; the close is read by the cache, on   *)
(* the event loop itself, so while q keeps that call no timer fires and no *)
(* other quote moves.  One symbol.                                         *)
(***************************************************************************)
EXTENDS Integers

CONSTANTS
    Askers,        \* quotes under way
    MaxTurns       \* bound: changes of q

ASSUME QuoteBounds == MaxTurns \in Nat

VARIABLES
    qState,      \* q answers ("up"), refuses ("down") or does not come back ("wedged")
    recorded,    \* q holds a tick of the symbol
    feed,        \* the symbol is leased
    row,         \* live-grid's row has "no" price, a "tick"'s or a "snapshot"'s
    ask,         \* per quote: where it is, the tick it was given, its answer
    turns        \* spent bound

quoteVars == <<qState, recorded, feed, row, ask, turns>>
world == <<qState, recorded, feed, row, turns>>

QuoteInit ==
    /\ qState = "up" /\ recorded = FALSE /\ feed = FALSE /\ row = "no" /\ turns = 0
    /\ ask = [a \in Askers |-> [pc |-> "idle", tick |-> FALSE, answer |-> "none"]]

\* A step of the event loop, which no store call of the cache occupies.
OnLoop(a, pcs) ==
    /\ ask[a].pc \in pcs
    /\ \A b \in Askers : ask[b].pc \notin {"coverage", "storing"}
Goes(a, pc) == ask' = [ask EXCEPT ![a].pc = pc]

----------------------------------------------------------------------------
\* lease is best effort: it is granted, or live-grid does not answer in time.
TakeLease(a) ==
    /\ OnLoop(a, {"idle"}) /\ Goes(a, "poll")
    /\ feed' \in {feed, TRUE}
    /\ UNCHANGED <<qState, recorded, row, turns>>

\* _await_tick: latest_tick in a thread, as often as the deadline allows.
Poll(a) == OnLoop(a, {"poll"}) /\ Goes(a, "read") /\ UNCHANGED world

\* The thread: a tick, none yet, or an exception, which ends the wait.
LatestTick(a) ==
    /\ ask[a].pc = "read" /\ qState # "wedged"
    /\ ask' = [ask EXCEPT ![a].tick = qState = "up" /\ recorded,
                          ![a].pc = IF qState = "up" /\ ~recorded THEN "nothing" ELSE "told"]
    /\ UNCHANGED world

Told(a) ==
    /\ \/ OnLoop(a, {"nothing"}) /\ Goes(a, "poll")
       \/ OnLoop(a, {"told"}) /\ Goes(a, "close")
    /\ UNCHANGED world

\* Mutant of Deadline: every call is given the whole deadline.
DeadlinePerCall(a) ==
    /\ OnLoop(a, {"read"})
    /\ ask' = [ask EXCEPT ![a].pc = "close", ![a].tick = FALSE]
    /\ UNCHANGED world

\* wait_for: the thread is left to itself.
Deadline(a) ==
    /\ OnLoop(a, {"poll", "read", "nothing", "told"})
    /\ ask' = [ask EXCEPT ![a].pc = "close", ![a].tick = FALSE]
    /\ UNCHANGED world

----------------------------------------------------------------------------
\* _prev_close: a request to the read-through cache, one at a time for a key.  Its store
\* calls hold the loop until q's thread has come back; between them it awaits the fetch.
HasLock(b) == ask[b].pc = "fetch"
AfterClose(a) == Goes(a, IF ask[a].tick THEN "answer" ELSE "snapshot")

PrevClose(a) ==
    /\ OnLoop(a, {"close"}) /\ ~\E b \in Askers : HasLock(b)
    /\ Goes(a, "coverage") /\ UNCHANGED world

StoreReturns(a) ==
    /\ qState # "wedged"
    /\ \/ ask[a].pc = "coverage" /\ (Goes(a, "fetch") \/ AfterClose(a))
       \/ ask[a].pc = "storing" /\ AfterClose(a)
    /\ UNCHANGED world

CloseFetched(a) ==
    /\ OnLoop(a, {"fetch"}) /\ (Goes(a, "storing") \/ AfterClose(a))
    /\ UNCHANGED world

\* wait_for here can only end what awaits: the lock or the fetch.
CloseTimesOut(a) ==
    /\ OnLoop(a, {"close", "fetch"}) /\ \E b \in Askers : HasLock(b)
    /\ AfterClose(a) /\ UNCHANGED world

----------------------------------------------------------------------------
\* GET /snapshot: QuoteTable.seed puts the vendor's snapshot, a fresh one from q or none
\* into the row, and the row's price is the answer; or live-grid cannot be asked in time.
DelayedSnapshot(a) ==
    /\ OnLoop(a, {"snapshot"})
    /\ \/ row' = "snapshot" \/ UNCHANGED row
    /\ \E served \in {FALSE, row' # "no"} :
          ask' = [ask EXCEPT ![a].pc = "answer", ![a].answer = IF served THEN "delayed" ELSE "none"]
    /\ UNCHANGED <<qState, recorded, feed, turns>>

\* build_quote and build_quote_from_snapshot.
BuildQuote(a) ==
    /\ OnLoop(a, {"answer"})
    /\ ask' = [ask EXCEPT ![a].pc = "done", ![a].answer = IF ask[a].tick THEN "live" ELSE @]
    /\ UNCHANGED world

----------------------------------------------------------------------------
\* The rest of the world: a tick of the leased feed reaches live-grid's row, and q unless
\* the flush fails; q goes away and comes back, empty if it was replaced.
TickArrives ==
    /\ feed /\ row' = "tick"
    /\ recorded' \in {recorded, recorded \/ qState = "up"}
    /\ UNCHANGED <<qState, feed, ask, turns>>

QTurns ==
    /\ turns < MaxTurns /\ turns' = turns + 1
    /\ qState' \in {"up", "down", "wedged"} \ {qState}
    /\ recorded' \in {recorded, FALSE}
    /\ UNCHANGED <<feed, row, ask>>

QuoteSteps(a) ==
    \/ Poll(a) \/ LatestTick(a) \/ Told(a) \/ PrevClose(a) \/ StoreReturns(a) \/ CloseFetched(a)
    \/ CloseTimesOut(a) \/ DelayedSnapshot(a) \/ BuildQuote(a)

QuoteNext ==
    \/ \E a \in Askers : TakeLease(a) \/ QuoteSteps(a) \/ Deadline(a)
    \/ TickArrives \/ QTurns

----------------------------------------------------------------------------
Waiting == \E a \in Askers : ask[a].pc \notin {"idle", "done"}
QuoteIsAnswered == Waiting ~> ~Waiting

\* A quote that was asked for is answered, with a tick, delayed or with nothing, wherever q
\* fails and comes back on the way, unless q ends up taking calls and giving none back
\* (quote.py 106-121: the deadline is one for all polls; 154-161).
QuotesAnswer == <>[](qState # "wedged") => QuoteIsAnswered

\* quote.py 101-102: "a wedged q leaves that thread blocked indefinitely. That degrades to
\* \"this call always falls back\", never a hang".
QuoteNeverHangs == QuoteIsAnswered
=============================================================================
