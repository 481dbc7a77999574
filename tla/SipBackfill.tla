---------------------------- MODULE SipBackfill ----------------------------
(***************************************************************************)
(* The tick backfill (scripts/sip_backfill.py --loop): one scheduler that  *)
(* loads weeks of ticks, refreshes the last seven days every morning,      *)
(* settles young weeks, retries failures, and keeps its progress in files  *)
(* beside the tables.                                                      *)
(*                                                                         *)
(* A day is its number; day 0 is a Monday.  Time goes in four slots a day, *)
(* cut where the code's clocks differ: before 02:05 New York, until 08:00  *)
(* UTC, until midnight UTC, and the New York evening after that.           *)
(***************************************************************************)
EXTENDS Integers, FiniteSets, FiniteSetsExt

CONSTANTS
    Members,
    Tenure,       \* first and last day of a symbol's membership
    EndDated,         \* symbols whose membership has an end date at all
    Weeks,        \* numbers of the weeks from the floor of the backfill on
    Holidays,     \* weekdays without a session
    FirstSlot, FinalSlot,  \* bound: the first and the last slot
    RetryMax, BlacklistWeeks, SettleLag,
    MaxLate,      \* bound: days the vendor may be behind
    Overlooked,   \* bound: the days a fetch may pass over
    MaxFaults     \* bound: fetches that go wrong, passes cut short, crashes

SipDays == 7 * Min(Weeks) - 7 .. FinalSlot \div 4
ASSUME SipBounds ==
    /\ Weeks \subseteq Nat /\ Weeks # {} /\ IsFiniteSet(Weeks)
    /\ FirstSlot \in Nat /\ FinalSlot \in Nat /\ FirstSlot <= FinalSlot
    /\ RetryMax \in Nat /\ BlacklistWeeks \in Nat \ {0} /\ SettleLag \in Nat
    /\ MaxLate \in Nat /\ MaxFaults \in Nat

VARIABLES
    slot,          \* the slot
    servedTo,     \* the vendor has loaded every session up to this day
    table,        \* days in ticks_sip/<symbol>
    prog,         \* _progress/<monday>.json
    daily,        \* _progress/daily/<day>.json
    blacklist,    \* _progress/_blacklist.json: weeks a symbol was unservable in
    work,         \* the pass that is running
    skipped,      \* ghost: days a settle pass passed over though the vendor had them
    sipFaults

files == <<prog, daily, blacklist>>
sipVars == <<slot, servedTo, table, prog, daily, blacklist, work, skipped, sipFaults>>

----------------------------------------------------------------------------
\* Calendar.
Today == slot \div 4
UtcDay == IF slot % 4 = 3 THEN Today + 1 ELSE Today
Weekday(d) == d % 7
Monday(w) == 7 * w
WeekDays(w) == Monday(w) .. Monday(w) + 4
Trading(d) == Weekday(d) < 5 /\ d \notin Holidays

\* latest_complete_monday: complete from Saturday 08:00 UTC.
NewestWeek ==
    LET w == UtcDay \div 7
        early == \/ Weekday(UtcDay) < 5
                 \/ Weekday(UtcDay) = 5 /\ slot % 4 # 2
    IN  IF early THEN w - 1 ELSE w

----------------------------------------------------------------------------
\* Universe.
ForRange(first, last) ==
    {s \in Members : Tenure[s][1] <= last /\ (s \in EndDated => Tenure[s][2] >= first)}
ForWeek(w) == ForRange(Monday(w), Monday(w) + 4)
InTenure(s, w) ==
    /\ Tenure[s][1] <= Monday(w)
    /\ s \in EndDated => Tenure[s][2] - 14 >= Monday(w) + 4
Exists(s, d) == Trading(d) /\ Tenure[s][1] <= d /\ (s \in EndDated => d <= Tenure[s][2])

----------------------------------------------------------------------------
\* Blacklist.
Unserved(s) == Cardinality(blacklist[s]) >= BlacklistWeeks
BlockedFor(w) == {s \in Members : Unserved(s) /\ w <= Max(blacklist[s])}
BlockedDaily(d) == {s \in Members : Unserved(s) /\ Monday(Max(blacklist[s])) >= d - 21}
NoteWeek(w, failed) ==
    [s \in Members |-> IF failed[s] = "unservable" /\ InTenure(s, w)
                       THEN blacklist[s] \cup {w} ELSE blacklist[s]]

----------------------------------------------------------------------------
\* Progress.  `failed` holds the kind of the error.
Verdicts == {"none", "error", "unservable"}
Never == -4
Fresh == [done |-> {}, failed |-> [s \in Members |-> "none"], empty |-> {}, added |-> {},
          retries |-> [s \in Members |-> 0], started |-> "no", finished |-> FALSE,
          settled |-> "no", retried |-> Never]

Failed(p) == {s \in Members : p.failed[s] # "none"}
Pending(p, universe) == universe \ (p.done \cup p.empty)
Retryable(p) == {s \in Failed(p) : p.retries[s] < RetryMax}
DueForRetry(p) == p.finished /\ Retryable(p) # {} /\ p.retried <= slot - 4

\* Midnight UTC, SettleLag days after the week's Friday.
SettleAt(w) == 4 * (Monday(w) + 4 + SettleLag - 1) + 3
DueForSettle(w) ==
    /\ prog[w].finished /\ prog[w].settled = "no" /\ prog[w].started = "young"
    /\ SettleAt(w) <= slot
Begun(p, w) ==
    IF p.started # "no" THEN p.started
    ELSE IF slot < SettleAt(w) THEN "young" ELSE "old"

\* record: the result of one symbol, or its error.
RecordResult(p, s, got) ==
    LET q == [p EXCEPT !.failed[s] = "none"] IN
    CASE got \in {"error", "unservable"} ->
           [q EXCEPT !.failed[s] = got, !.retries[s] = IF @ < RetryMax THEN @ + 1 ELSE @]
      [] got = "added" -> [q EXCEPT !.added = @ \cup {s}]
      [] got = "empty" -> [q EXCEPT !.empty = @ \cup {s}]
      [] got = "rows"  -> [q EXCEPT !.done = @ \cup {s}]

----------------------------------------------------------------------------
\* The daily files.  `days` is NotDone, or the days a done symbol brought.
NotDone == {-1}
NoDaily == [days |-> [s \in Members |-> NotDone], failed |-> {}, finished |-> FALSE]
DailyDone(d) == {s \in Members : daily[d].days[s] # NotDone}

Idle == [kind |-> "idle", at |-> 0, todo |-> {}]

SipInit ==
    /\ slot = FirstSlot /\ servedTo = (FirstSlot \div 4) - 1
    /\ table = [s \in Members |-> {}]
    /\ prog = [w \in Weeks |-> Fresh]
    /\ daily = [d \in SipDays |-> NoDaily]
    /\ blacklist = [s \in Members |-> {}]
    /\ work = Idle /\ skipped = [s \in Members |-> {}] /\ sipFaults = 0

----------------------------------------------------------------------------
\* _cycle: one decision.  A load, a settle pass or a retry of week w:

\* Mutant of Todo: a settle pass is one more retry.
TodoSettlesFailed(w, mode) ==
    LET symbols == ForWeek(w) \ BlockedFor(w)
    IN  IF mode = "load" THEN Pending(prog[w], symbols) ELSE symbols \cap Retryable(prog[w])

Todo(w, mode) ==
    LET symbols == ForWeek(w) \ BlockedFor(w)
        p == prog[w]
    IN  CASE mode = "settle" -> {s \in symbols : s \in p.done \cup Retryable(p)}
          [] mode = "retry"  -> symbols \cap Retryable(p)
          [] mode = "load"   -> Pending(p, symbols)

BeginWeek(w, mode) ==
    /\ work' = [kind |-> mode, at |-> w, todo |-> Todo(w, mode)]
    /\ prog' = [prog EXCEPT ![w].started = Begun(prog[w], w),
                            ![w].retried = IF mode = "retry" THEN slot ELSE @]
    /\ UNCHANGED <<slot, servedTo, table, daily, blacklist, skipped>>

SessionLoaded(d) == Trading(d) => servedTo >= d
DailyDue == /\ slot % 4 >= 1 /\ Weekday(Today) \notin {0, 6}
            /\ ~daily[Today].finished /\ SessionLoaded(Today - 1)

BeginDaily ==
    /\ work' = [kind |-> "daily", at |-> Today,
                todo |-> (ForRange(Today - 7, Today - 1) \ BlockedDaily(Today)) \ DailyDone(Today)]
    /\ UNCHANGED <<slot, servedTo, table, prog, daily, blacklist, skipped>>

Known == {w \in Weeks : prog[w].started # "no"}
Loaded(w) == prog[w].finished
\* Mutant of Backlog: only weeks that have a file.
BacklogOfKnown == {w \in Known : w <= NewestWeek /\ ~Loaded(w)}
Backlog == {w \in Weeks : w <= NewestWeek /\ ~Loaded(w)}
SettleDue == {w \in Known : DueForSettle(w)}
RetryDue == {w \in Known : DueForRetry(prog[w])}

\* Something is running or due.  Caught up, the loop sleeps.
Busy == \/ work # Idle \/ DailyDue \/ ~Loaded(NewestWeek)
        \/ SettleDue \cup RetryDue \cup Backlog # {}

Decide(goesDaily) ==
    /\ work = Idle
    /\ IF goesDaily THEN BeginDaily
       ELSE IF ~Loaded(NewestWeek) THEN BeginWeek(NewestWeek, "load")
       ELSE IF SettleDue # {} THEN BeginWeek(Max(SettleDue), "settle")
       ELSE IF RetryDue # {} THEN BeginWeek(Max(RetryDue), "retry")
       ELSE Backlog # {} /\ BeginWeek(Max(Backlog), "load")

Cycle == Decide(DailyDue) /\ UNCHANGED sipFaults

\* _session_loaded: any error of the control request reads as not loaded yet.
Deferred ==
    /\ DailyDue /\ sipFaults < MaxFaults /\ sipFaults' = sipFaults + 1
    /\ Decide(FALSE)

----------------------------------------------------------------------------
\* load_symbol: fetch, write, read back; then the caller records.

PassWindow == IF work.kind = "daily" THEN work.at - 7 .. work.at - 1 ELSE WeekDays(work.at)
VendorServes(s) == {d \in PassWindow : Exists(s, d) /\ d <= servedTo}

\* replace_days writes the days that came and no other.
Stores(s, days) == table' = [table EXCEPT ![s] = @ \cup days]

Gone(s) == work' = [work EXCEPT !.todo = @ \ {s}]

RecordWeek(s, got) ==
    /\ prog' = [prog EXCEPT ![work.at] = RecordResult(@, s, got)]
    /\ UNCHANGED daily

RecordDaily(s, days) ==
    /\ daily' = [daily EXCEPT ![work.at].days[s] = days, ![work.at].failed = @ \ {s}]
    /\ UNCHANGED prog

\* fetch_span passes over a day whose own chunk came empty, or failed while the control on
\* SPY failed for that day too, and nobody is told.
Skips(s, days) ==
    /\ days # {} => sipFaults < MaxFaults
    /\ sipFaults' = IF days = {} THEN sipFaults ELSE sipFaults + 1
    /\ skipped' = IF work.kind = "settle" THEN [skipped EXCEPT ![s] = @ \cup days] ELSE skipped

\* Rows came, of all days but some.  In a settle pass a symbol that has a table is compared
\* with it.  A done symbol stays done; its size is all that a settle pass would change.
LoadRows(s, days) ==
    /\ s \in work.todo /\ days # {}
    /\ Skips(s, VendorServes(s) \ days) /\ Stores(s, days) /\ Gone(s)
    /\ CASE work.kind = "daily"                     -> RecordDaily(s, days)
         [] work.kind = "settle" /\ table[s] # {}   -> RecordWeek(s, "added")
         [] work.kind \in {"load", "retry"} \/ (work.kind = "settle" /\ table[s] = {})
                                                    -> RecordWeek(s, "rows")
    /\ UNCHANGED <<slot, servedTo, blacklist>>

\* Nothing came: the vendor has no rows for it, or has lost them for now.
LoadEmpty(s) ==
    /\ s \in work.todo
    /\ VendorServes(s) # {} => sipFaults < MaxFaults
    /\ sipFaults' = IF VendorServes(s) # {} THEN sipFaults + 1 ELSE sipFaults
    /\ Gone(s)
    /\ IF work.kind = "daily" THEN RecordDaily(s, {}) ELSE RecordWeek(s, "empty")
    /\ UNCHANGED <<slot, servedTo, table, blacklist, skipped>>

\* An error, after the write too: then the rows are there and not recorded.  A
\* symbol past its end is unservable without anybody's fault.
LoadFails(s, got) ==
    /\ s \in work.todo
    /\ LET expected == got = "unservable" /\ VendorServes(s) = {} IN
          /\ ~expected => sipFaults < MaxFaults
          /\ sipFaults' = IF expected THEN sipFaults ELSE sipFaults + 1
    /\ IF got = "error" THEN Stores(s, VendorServes(s)) \/ UNCHANGED table ELSE UNCHANGED table
    /\ Gone(s)
    /\ IF work.kind = "daily"
       THEN /\ daily' = [daily EXCEPT ![work.at].failed = @ \cup {s}]
            /\ UNCHANGED prog
       ELSE RecordWeek(s, got)
    /\ UNCHANGED <<slot, servedTo, blacklist, skipped>>

\* Fetches that are under way when the budget is spent still write, and are not recorded.
StillWrite(symbols) ==
    table' = [s \in Members |-> IF s \in symbols THEN table[s] \cup VendorServes(s) ELSE table[s]]

\* Mutant of CutShort: it goes on to the end of the pass, without the raise of 547.
CutShortFinishes ==
    /\ work.kind # "idle" /\ sipFaults < MaxFaults /\ sipFaults' = sipFaults + 1
    /\ work' = [work EXCEPT !.todo = {}]
    /\ \E symbols \in SUBSET work.todo : StillWrite(symbols)
    /\ UNCHANGED <<slot, servedTo, files, skipped>>

\* The budget is spent, or the process dies: the pass is over, its files are kept.
CutShort ==
    /\ work.kind # "idle" /\ sipFaults < MaxFaults /\ sipFaults' = sipFaults + 1
    /\ work' = Idle
    /\ \E symbols \in SUBSET work.todo : StillWrite(symbols)
    /\ UNCHANGED <<slot, servedTo, files, skipped>>

----------------------------------------------------------------------------
\* The end of a pass.

FinishWeek ==
    /\ work.kind \in {"load", "settle", "retry"} /\ work.todo = {}
    /\ prog' = [prog EXCEPT
          ![work.at].settled = IF work.kind = "settle" THEN "pass" ELSE @,
          ![work.at].finished = @ \/ work.kind = "load"]
    /\ blacklist' = IF work.kind = "load" THEN NoteWeek(work.at, prog[work.at].failed)
                    ELSE blacklist
    /\ work' = Idle
    /\ UNCHANGED <<slot, servedTo, table, daily, skipped, sipFaults>>

FinishDaily ==
    /\ work.kind = "daily" /\ work.todo = {}
    /\ daily' = [daily EXCEPT ![work.at].finished = TRUE]
    /\ work' = [work EXCEPT !.kind = "finalize"]
    /\ UNCHANGED <<slot, servedTo, table, prog, blacklist, skipped, sipFaults>>

\* finalize_weeks: the weeks the last daily files speak of.
Recent(today) == {d \in SipDays : today - 21 <= d /\ d <= today}
Brought(s, d, today) == \E e \in Recent(today) : d \in daily[e].days[s]
TradingSeen(w, today) ==
    {d \in WeekDays(w) : \E s \in ForWeek(w) : Brought(s, d, today)}
Has(s, w, today) == \A d \in TradingSeen(w, today) : Brought(s, d, today)

Finalized(w, today) ==
    LET p == prog[w]
        have == {s \in ForWeek(w) : Has(s, w, today)}
        lost == ForWeek(w) \ (have \cup p.done \cup p.empty)
    IN  [p EXCEPT
          !.done = @ \cup have,
          !.failed = [s \in Members |-> IF s \in have THEN "none"
                                        ELSE IF s \in lost /\ @[s] = "none" THEN "error"
                                        ELSE @[s]],
          !.started = Begun(p, w), !.finished = TRUE,
          !.settled = IF @ = "no" /\ Monday(w) + 11 <= today THEN "daily" ELSE @]

FinalizeWeeks ==
    LET today == work.at
        touched == {w \in Weeks : /\ w \in {today \div 7, today \div 7 - 1, today \div 7 - 2}
                                  /\ Monday(w) + 5 <= today
                                  /\ TradingSeen(w, today) # {}}
    IN  /\ work.kind = "finalize"
        /\ prog' = [w \in Weeks |-> IF w \in touched THEN Finalized(w, today) ELSE prog[w]]
        /\ work' = Idle
        /\ UNCHANGED <<slot, servedTo, table, daily, blacklist, skipped, sipFaults>>

----------------------------------------------------------------------------
\* The vendor loads a session some time after its day; the clock goes on.
VendorLoads ==
    /\ servedTo + 1 < Today
    /\ servedTo' = servedTo + 1
    /\ UNCHANGED <<slot, table, files, work, skipped, sipFaults>>

Later ==
    /\ slot < FinalSlot /\ slot' = slot + 1
    /\ servedTo >= slot' \div 4 - 1 - MaxLate
    /\ UNCHANGED <<servedTo, table, files, work, skipped>>

\* Bound: a pass that nothing disturbs fits in its slot, and what holds it up or
\* keeps the loop down for a slot is a fault.
Tick == ~Busy /\ Later /\ UNCHANGED sipFaults
Late == Busy /\ sipFaults < MaxFaults /\ sipFaults' = sipFaults + 1 /\ Later

Pass ==
    \/ \E s \in Members :
          \/ \E days \in SUBSET (VendorServes(s) \cap Overlooked) : LoadRows(s, VendorServes(s) \ days)
          \/ LoadEmpty(s)
          \/ \E got \in {"error", "unservable"} : LoadFails(s, got)
    \/ FinishWeek \/ FinishDaily \/ FinalizeWeeks

SipNext == Cycle \/ Deferred \/ Pass \/ CutShort \/ VendorLoads \/ Tick \/ Late

\* What fairness is of: the loop, the vendor or the clock goes on; faults need not happen.
Proceeds == Cycle \/ Pass \/ VendorLoads \/ Tick

----------------------------------------------------------------------------
Progress == [done : SUBSET Members, failed : [Members -> Verdicts], empty : SUBSET Members,
             added : SUBSET Members, retries : [Members -> 0..RetryMax],
             started : {"no", "young", "old"}, finished : BOOLEAN,
             settled : {"no", "pass", "daily"}, retried : {Never} \cup FirstSlot..FinalSlot]

\* Types; a pass works on members only.
SipTypeOK ==
    /\ slot \in FirstSlot..FinalSlot /\ servedTo \in Int /\ sipFaults \in 0..MaxFaults
    /\ table \in [Members -> SUBSET SipDays]
    /\ prog \in [Weeks -> Progress]
    /\ \A d \in SipDays : /\ daily[d].finished \in BOOLEAN /\ daily[d].failed \subseteq Members
                       /\ \A s \in Members : daily[d].days[s] \subseteq SipDays \cup NotDone
    /\ blacklist \in [Members -> SUBSET Weeks]
    /\ work.kind \in {"idle", "load", "settle", "retry", "daily", "finalize"}
    /\ work.todo \subseteq Members /\ skipped \in [Members -> SUBSET SipDays]

\* After the first pass over a week every member is on one of its lists, or is one
\* the blacklist keeps out: no interrupted pass, retry or settle pass, and no merge of
\* the daily records drops a symbol (Progress.record 299-312, finalize_weeks 696-702).
AccountedFor ==
    \A w \in Weeks : prog[w].finished =>
        \A s \in ForWeek(w) :
            \/ s \in prog[w].done \cup prog[w].empty \cup prog[w].added \cup Failed(prog[w])
            \/ s \in BlockedFor(w)

\* Days of a symbol's week that should be in its table.
Missing(s, w) == {d \in WeekDays(w) : Exists(s, d)} \ table[s]

\* A settle pass ends with no holes but those its lists admit, also when the vendor was
\* a day late, and whatever was cut short, recorded or passed over before (load_week
\* 511-512, 548-549, due_for_settle 327-335).  What it leaves is the days its own
\* requests passed over (fetch_span 356-374): of those nothing is noted anywhere.
SettlePassMakesWhole ==
    [][\A w \in Weeks : prog[w].settled = "no" /\ prog'[w].settled = "pass" =>
          \A s \in (prog[w].done \cup prog[w].added) \ (prog[w].empty \cup BlockedFor(w)) :
              prog[w].failed[s] # "none" \/ Missing(s, w) \subseteq skipped[s]]_sipVars

\* Daily passes, settle passes and retries come first, and still every week back to
\* the floor is loaded once it is over (_cycle 796-831).
Caught == \A w \in Weeks : w <= NewestWeek => Loaded(w)
BacklogIsWorkedOff == ~Caught ~> Caught
============================================================================
