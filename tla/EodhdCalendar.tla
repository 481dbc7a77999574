--------------------------- MODULE EodhdCalendar ---------------------------
(***************************************************************************)
(* The economic calendar of the EODHD provider                             *)
(* (openbb_eodhd/models/calendar.py, _fetch_windowed): a walk back in time *)
(* through an endpoint that answers at most a page, newest day first.      *)
(***************************************************************************)
EXTENDS Integers, FiniteSets, FiniteSetsExt

CONSTANTS
    LastDay,       \* the range that is asked for is 1..LastDay
    PerDay,        \* bound: events of one day
    Page,          \* _PAGE_LIMIT
    MaxRequests    \* _MAX_REQUESTS

ASSUME CalendarBounds == LastDay \in Nat /\ PerDay \in Nat /\ Page \in Nat \ {0} /\ MaxRequests \in Nat

VARIABLES
    events,        \* events of each day the vendor has
    walk           \* cur_to, offset, paging_day (0: none), requests, whether it ended
                   \* and how often each event was collected

calVars == <<events, walk>>

Calendar == [1..LastDay -> 0..PerDay]
Rows == (1..LastDay) \X (1..PerDay)

CalInit ==
    /\ events \in Calendar
    /\ walk = [to |-> LastDay, offset |-> 0, paging |-> 0, requests |-> 0,
               pc |-> "walking", got |-> [r \in Rows |-> 0]]

\* /economic-events: of the events up to day `to`, newest day first, the `Page` after `offset`.
\* The order within a day is the vendor's own.
UpTo(to) == {r \in Rows : r[1] <= to /\ r[2] <= events[r[1]]}
Sooner(x, r) == x[1] > r[1] \/ (x[1] = r[1] /\ x[2] < r[2])
Reply(to, offset) ==
    {r \in UpTo(to) : Cardinality({x \in UpTo(to) : Sooner(x, r)}) \in offset .. offset + Page - 1}

\* The days of the last and of the first row of a page.
OldestDay(page) == Min({r[1] : r \in page})
NewestDay(page) == Max({r[1] : r \in page})

Collect(rows) == [r \in Rows |-> walk.got[r] + (IF r \in rows THEN 1 ELSE 0)]

\* One turn of the loop, by what the page looks like.
Ceiling ==
    /\ walk.pc = "walking" /\ walk.requests >= MaxRequests
    /\ walk' = [walk EXCEPT !.pc = "warned"] /\ UNCHANGED events

\* An empty page ends the walk; the first one is EmptyDataError.
EmptyPage(page) == page = {} /\ walk' = [walk EXCEPT !.pc = "done", !.requests = @ + 1]

\* A short page closes the window, or the day that was paged.
ShortPage(page) ==
    /\ page # {} /\ Cardinality(page) < Page
    /\ walk' = [walk EXCEPT !.got = Collect(page), !.requests = @ + 1, !.offset = 0,
                   !.paging = 0, !.to = IF walk.paging = 0 THEN @ ELSE walk.paging - 1,
                   !.pc = IF walk.paging = 0 THEN "done" ELSE "walking"]

\* A full page of one day is followed by the next one at an offset.
DayPage(page) ==
    /\ Cardinality(page) = Page /\ OldestDay(page) = NewestDay(page)
    /\ walk' = [walk EXCEPT !.got = Collect(page), !.requests = @ + 1,
                   !.offset = @ + Page, !.to = OldestDay(page), !.paging = OldestDay(page)]

\* Mutant of FullPage: the oldest day is taken from the page that may have cut it.
FullPageKeepsOldest(page) ==
    /\ Cardinality(page) = Page /\ OldestDay(page) # NewestDay(page)
    /\ walk' = [walk EXCEPT !.got = Collect(page), !.requests = @ + 1,
                   !.offset = 0, !.to = OldestDay(page), !.paging = 0]

\* Of any other full page the oldest day is asked for again, whole.
FullPage(page) ==
    /\ Cardinality(page) = Page /\ OldestDay(page) # NewestDay(page)
    /\ walk' = [walk EXCEPT !.got = Collect({r \in page : r[1] > OldestDay(page)}),
                   !.requests = @ + 1, !.offset = 0, !.to = OldestDay(page), !.paging = 0]

Turn ==
    LET page == Reply(walk.to, walk.offset) IN
    /\ walk.pc = "walking" /\ walk.requests < MaxRequests
    /\ EmptyPage(page) \/ ShortPage(page) \/ DayPage(page) \/ FullPage(page)
    /\ UNCHANGED events

CalNext == Turn \/ Ceiling
CalSpec == CalInit /\ [][CalNext]_calVars

----------------------------------------------------------------------------
Once == \A r \in Rows : walk.got[r] = IF r[2] <= events[r[1]] THEN 1 ELSE 0

\* As long as no day fills a page, a finished walk has every event of the range once:
\* the join of two windows neither loses nor repeats the day they share
\* (calendar.py 398-405, 469-474).
JoinIsExact ==
    (walk.pc = "done" /\ \A d \in 1..LastDay : events[d] < Page) => Once

\* calendar.py 403: the re-fetch "is what makes the join exact", and 407-411: a day of
\* more than a page "is paged by `offset` [...] until a short page closes it out".
WalkIsExact == walk.pc = "done" => Once
============================================================================
