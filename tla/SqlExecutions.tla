--------------------------- MODULE SqlExecutions ---------------------------
(***************************************************************************)
(* Guarded SQL of the security master (sql/executions.py, session.py,      *)
(* policy.py, and the routes of app/main.py).  Every request runs on its   *)
(* own thread; the only orders are those of the lock, the semaphore and    *)
(* the connection's interrupt.                                             *)
(***************************************************************************)
EXTENDS Integers, FiniteSets

CONSTANTS
    Queries,          \* executions, each started once
    Principals,
    PerPrincipal,     \* per_principal_queries
    ScanSlots,        \* scan_slots
    ResultRows, PageSize,   \* rows of a result after max_rows, rows of a page
    Cancels           \* bound: cancellations

ASSUME SqlBounds ==
    /\ IsFiniteSet(Queries) /\ "nobody" \notin Principals
    /\ PerPrincipal \in Nat /\ ScanSlots \in Nat

VARIABLES
    query,     \* per execution: pc of its thread, principal, session's flags, outcome
    listed,    \* _by_id
    counted,   \* _per_principal
    slots,     \* free permits of _scan
    canceller, \* per execution: where a cancel() of it is
    paged,     \* rows of an execution its client has read
    withdrawn, \* ghost: cancelled while the session could still notice
    cancels    \* spent bound

sqlVars == <<query, listed, counted, slots, canceller, paged, withdrawn, cancels>>

New == [pc |-> "new", by |-> "nobody", flag |-> FALSE, hit |-> FALSE, says |-> "nothing"]

SqlInit ==
    /\ query = [q \in Queries |-> New] /\ listed = {}
    /\ counted = [p \in Principals |-> 0] /\ slots = ScanSlots
    /\ canceller = [q \in Queries |-> "none"] /\ paged = [q \in Queries |-> 0]
    /\ withdrawn = {} /\ cancels = 0

----------------------------------------------------------------------------
\* The thread of an execution.
Moves(q, pc, says) == query' = [query EXCEPT ![q].pc = pc, ![q].says = says]
At(q, pc) == query[q].pc = pc
Elsewhere == UNCHANGED <<canceller, withdrawn, cancels>>

\* _expire: whatever is older than RESULT_TTL_S; no query runs for that long.
Expired(gone) == gone \subseteq {q \in listed : At(q, "done")} /\ listed' = listed \ gone

\* start, _acquire: the principal's count, then the wait for a permit.
StartQuery(q, p) ==
    /\ At(q, "new") /\ \E gone \in SUBSET listed : Expired(gone)
    /\ IF counted[p] >= PerPrincipal
       THEN Moves(q, "done", "budget") /\ UNCHANGED counted
       ELSE /\ query' = [query EXCEPT ![q].pc = "waiting", ![q].by = p]
            /\ counted' = [counted EXCEPT ![p] = @ + 1]
    /\ UNCHANGED <<slots, paged>> /\ Elsewhere

Permit(q) ==
    /\ At(q, "waiting") /\ slots > 0
    /\ slots' = slots - 1 /\ Moves(q, "opening", "nothing")
    /\ UNCHANGED <<listed, counted, paged>> /\ Elsewhere

Uncount(q) == counted' = [counted EXCEPT ![query[q].by] = @ - 1]

\* The wait ran out: _release without the semaphore.
GiveUpPermit(q) ==
    /\ At(q, "waiting") /\ slots = 0
    /\ Uncount(q) /\ Moves(q, "done", "budget")
    /\ UNCHANGED <<slots, listed, paged>> /\ Elsewhere

\* open_session, new_receipt, record_receipt: listed only when all of them worked.
OpenSession(q) ==
    /\ At(q, "opening")
    /\ \/ Moves(q, "listed", "nothing") /\ listed' = listed \cup {q}
       \/ Moves(q, "closing", "rejected") /\ UNCHANGED listed
    /\ UNCHANGED <<counted, slots, paged>> /\ Elsewhere

\* run, before execute: validate_sql, then a cancel that landed already.
Arm(q) ==
    /\ At(q, "listed")
    /\ \/ Moves(q, "closing", "rejected")
       \/ query[q].flag /\ Moves(q, "closing", "cancelled")
       \/ ~query[q].flag /\ Moves(q, "armed", "nothing")
    /\ UNCHANGED <<listed, counted, slots, paged>> /\ Elsewhere

Execute(q) ==
    /\ At(q, "armed") /\ Moves(q, "executing", "nothing")
    /\ UNCHANGED <<listed, counted, slots, paged>> /\ Elsewhere

\* The timer interrupts; an idle connection does not notice.
Timer(q) ==
    /\ At(q, "executing") /\ ~query[q].hit /\ query' = [query EXCEPT ![q].hit = TRUE]
    /\ UNCHANGED <<listed, counted, slots, paged>> /\ Elsewhere

\* execute returns, interrupted or not, or fails by itself.
Executed(q) ==
    /\ At(q, "executing")
    /\ \/ Moves(q, "returned", "nothing")
       \/ query[q].hit /\ Moves(q, "closing", IF query[q].flag THEN "cancelled" ELSE "budget")
       \/ \E error \in {"memory", "rejected"} : Moves(q, "closing", error)
    /\ UNCHANGED <<listed, counted, slots, paged>> /\ Elsewhere

\* Mutant of Returned: the flag is not looked at again.
ReturnedUnchecked(q) ==
    /\ At(q, "returned") /\ Moves(q, "closing", "page")
    /\ UNCHANGED <<listed, counted, slots, paged>> /\ Elsewhere

\* run, after execute: a cancel whose interrupt came too late still counts.
Returned(q) ==
    /\ At(q, "returned") /\ Moves(q, "closing", IF query[q].flag THEN "cancelled" ELSE "page")
    /\ UNCHANGED <<listed, counted, slots, paged>> /\ Elsewhere

\* Mutant of Finish: the budget is returned where the rows are.
FinishOnSuccess(q) ==
    /\ At(q, "closing") /\ Moves(q, "done", query[q].says)
    /\ IF query[q].says = "page" THEN Uncount(q) /\ slots' = slots + 1 ELSE UNCHANGED <<counted, slots>>
    /\ paged' = [paged EXCEPT ![q] = IF query[q].says # "page" THEN 0
                                     ELSE IF PageSize < ResultRows THEN PageSize ELSE ResultRows]
    /\ UNCHANGED listed /\ Elsewhere

\* start's finally: the session is closed, the entry lets go of it, the budget returns.
Finish(q) ==
    /\ At(q, "closing") /\ Moves(q, "done", query[q].says)
    /\ Uncount(q) /\ slots' = slots + 1
    /\ paged' = [paged EXCEPT ![q] = IF query[q].says # "page" THEN 0
                                     ELSE IF PageSize < ResultRows THEN PageSize ELSE ResultRows]
    /\ UNCHANGED listed /\ Elsewhere

\* page: the next one, for the principal who has the cursor and started the execution.
NextPage(q) ==
    /\ At(q, "done") /\ q \in listed /\ query[q].says = "page" /\ paged[q] < ResultRows
    /\ paged' = [paged EXCEPT ![q] = IF @ + PageSize < ResultRows THEN @ + PageSize ELSE ResultRows]
    /\ UNCHANGED <<query, listed, counted, slots>> /\ Elsewhere

----------------------------------------------------------------------------
\* cancel, in the three steps other threads can see.
Step(q, pc) == canceller' = [canceller EXCEPT ![q] = pc]
Connected(q) == query[q].pc \in {"listed", "armed", "executing", "returned", "closing"}

CancelFlag(q) ==
    /\ canceller[q] = "none" /\ q \in listed /\ cancels < Cancels /\ cancels' = cancels + 1
    /\ IF Connected(q)
       THEN query' = [query EXCEPT ![q].flag = TRUE] /\ Step(q, "flagged")
            /\ withdrawn' = IF At(q, "closing") THEN withdrawn ELSE withdrawn \cup {q}
       ELSE Step(q, "popping") /\ UNCHANGED <<query, withdrawn>>
    /\ UNCHANGED <<listed, counted, slots, paged>>

\* A session closed in between has no connection to interrupt: the canceller gets a 500.
CancelInterrupt(q) ==
    /\ canceller[q] = "flagged"
    /\ Step(q, IF Connected(q) THEN "popping" ELSE "error")
    /\ query' = [query EXCEPT ![q].hit = @ \/ At(q, "executing")]
    /\ UNCHANGED <<listed, counted, slots, paged, withdrawn, cancels>>

CancelPop(q) ==
    /\ canceller[q] = "popping" /\ Step(q, "true") /\ listed' = listed \ {q}
    /\ UNCHANGED <<query, counted, slots, paged, withdrawn, cancels>>

SqlNext ==
    \E q \in Queries :
        \/ \E p \in Principals : StartQuery(q, p)
        \/ Permit(q) \/ GiveUpPermit(q) \/ OpenSession(q) \/ Arm(q) \/ Execute(q) \/ Timer(q)
        \/ Executed(q) \/ Returned(q) \/ Finish(q) \/ NextPage(q)
        \/ CancelFlag(q) \/ CancelInterrupt(q) \/ CancelPop(q)

SqlSpec == SqlInit /\ [][SqlNext]_sqlVars

----------------------------------------------------------------------------
Running(q) == query[q].pc \notin {"new", "waiting", "done"}

Admitted(p) == {q \in Queries : query[q].by = p /\ (Running(q) \/ At(q, "waiting"))}

\* The counters are what the threads hold, whichever way a thread ends.
CountersTellTheThreads ==
    /\ slots + Cardinality({q \in Queries : Running(q)}) = ScanSlots
    /\ \A p \in Principals : counted[p] = Cardinality(Admitted(p))

\* The threads keep the budget, and keep nobody out without need: a wait that timed out
\* frees nothing, a session that failed to open gives everything back
\* (executions.py 70-88, 134-142).
Budget == INSTANCE ScanBudget WITH
    admitted <- [p \in Principals |-> Admitted(p)],
    scanning <- {q \in Queries : Running(q)},
    refused  <- {q \in Queries : At(q, "done") /\ query[q].by = "nobody"}
BudgetIsKept == Budget!BudgetSpec

\* A cancel that reached the session before its run was over is never answered with
\* rows or with somebody else's timeout, at whichever step of run it landed
\* (session.py 78-85, 97-105, 113-118).
CancelIsNotLost ==
    \A q \in withdrawn : query[q].says \in {"nothing", "cancelled", "rejected", "memory"}
============================================================================
