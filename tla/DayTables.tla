------------------------------ MODULE DayTables ------------------------------
(***************************************************************************)
(* The day cycle of the ticks.  The q process keeps them in memory and in  *)
(* a log (kdb-ws/persist.q), live-grid prunes what is older than its       *)
(* window, eod_dump flushes each UTC day to one Delta table per symbol and *)
(* day, and the MCP tools read a symbol across its day tables, also as of  *)
(* an earlier moment (mcp_stores: daykeys, server; openbb_deltalake).      *)
(* Time is counted in slots.  Every symbol ticks once in every slot, and a *)
(* tick is named by its slot.                                              *)
(***************************************************************************)
EXTENDS Integers, Sequences, SequencesExt, FiniteSetsExt

CONSTANTS
    TickSymbols,      \* a sequence, in the order the dump writes them
    DaySlots,     \* slots of a UTC day
    Window,       \* slots live-grid keeps (LIVE_TICK_WINDOW_SECONDS)
    LastSlot,     \* bound on time
    Attempts,     \* tries of a flush (20 in the code)
    DayFaults,    \* bound on failures and restarts
    Windows,      \* <<start, end>> of the reads, in slots, or Unset
    Unset,         \* a bound, or an as_of, that was not given
    TailRows      \* rows a read returns at most

ASSUME DayBounds ==
    /\ DaySlots \in Nat \ {0} /\ Window \in Nat /\ LastSlot \in Nat /\ Attempts \in Nat \ {0}
    /\ TailRows \in Nat \ {0}
    /\ TickSymbols \in Seq(ToSet(TickSymbols))
    /\ Windows \subseteq ({Unset} \cup Nat) \X ({Unset} \cup Nat)

TableDays == 0 .. LastSlot \div DaySlots
DayOf(slot) == slot \div DaySlots

VARIABLES
    now,       \* the slot
    rdb,       \* rdb[s]: ticks in the memory of q
    tlog,      \* tlog[s]: ticks in its log
    tables,    \* tables[s][d]: the versions of a table, each [at, rows]
    dump,      \* the loop of eod_dump
    read,      \* a read by a client
    faults

dayVars == <<now, rdb, tlog, tables, dump, read, faults>>

SymbolSet == ToSet(TickSymbols)
Asleep(until) == [pc |-> "asleep", day |-> until, left |-> {}, rows |-> <<>>, tries |-> 0]
NoRead == [pc |-> "idle"]

DayInit ==
    /\ now = 0 /\ faults = 0
    /\ rdb = [s \in SymbolSet |-> {0}] /\ tlog = rdb
    /\ tables = [s \in SymbolSet |-> [d \in TableDays |-> <<>>]]
    /\ dump = Asleep(0)
    /\ read = NoRead

----------------------------------------------------------------------------
\* q and live-grid.
Advance ==
    /\ now < LastSlot
    /\ now' = now + 1
    /\ rdb' = [s \in SymbolSet |-> rdb[s] \cup {now + 1}]
    /\ tlog' = [s \in SymbolSet |-> tlog[s] \cup {now + 1}]
    /\ UNCHANGED <<tables, dump, read, faults>>

Prune ==
    /\ rdb' = [s \in SymbolSet |-> {t \in rdb[s] : t >= now - Window}]
    /\ UNCHANGED <<now, tlog, tables, dump, read, faults>>

\* The logs on disk are replayed when q starts, those of pruned ticks too.
RestartQ ==
    /\ faults < DayFaults /\ faults' = faults + 1
    /\ rdb' = tlog
    /\ UNCHANGED <<now, tlog, tables, dump, read>>

----------------------------------------------------------------------------
\* eod_dump --loop.  `day` is the day to flush next, or the one being flushed.
EndedDay == DayOf(now) - 1
NextFlush == Asleep(DayOf(now))

WakeDump ==
    /\ dump.pc = "asleep" /\ DayOf(now) > dump.day
    /\ dump' = [dump EXCEPT !.pc = "read", !.tries = 1]
    /\ UNCHANGED <<now, rdb, tlog, tables, read, faults>>

\* A container that starts flushes the day before once, whatever was flushed already.
Boot ==
    /\ faults < DayFaults /\ faults' = faults + 1
    /\ dump' = IF EndedDay < 0 THEN NextFlush
               ELSE [pc |-> "read", day |-> EndedDay, left |-> {}, rows |-> <<>>,
                     tries |-> Attempts]
    /\ UNCHANGED <<now, rdb, tlog, tables, read>>

TicksOf(s, d) == {t \in rdb[s] : DayOf(t) = d}

\* `left` are the places of the symbols still to write, the first of them next.
ReadDay ==
    /\ dump.pc = "read"
    /\ LET found == [s \in SymbolSet |-> TicksOf(s, dump.day)]
           left == {i \in DOMAIN TickSymbols : found[TickSymbols[i]] # {}}
       IN  dump' = IF left = {} THEN NextFlush
                   ELSE [dump EXCEPT !.pc = "write", !.left = left, !.rows = found]
    /\ UNCHANGED <<now, rdb, tlog, tables, read, faults>>

\* store.write: a new version, with the rows of this flush alone.
WriteTable ==
    /\ dump.pc = "write"
    /\ LET i == Min(dump.left) s == TickSymbols[i] IN
       /\ tables' = [tables EXCEPT ![s][dump.day] = Append(@, [at |-> now, rows |-> dump.rows[s]])]
       /\ dump' = IF dump.left = {i} THEN NextFlush
                  ELSE [dump EXCEPT !.left = @ \ {i}]
    /\ read' = IF read.pc = "idle" THEN read ELSE [read EXCEPT !.quiet = FALSE]
    /\ UNCHANGED <<now, rdb, tlog, faults>>

\* q or the store does not answer: another try an hour on, or the day is given up.
FlushFails ==
    /\ dump.pc \in {"read", "write"}
    /\ faults < DayFaults /\ faults' = faults + 1
    /\ dump' = IF dump.tries >= Attempts THEN NextFlush
               ELSE [dump EXCEPT !.pc = "wait", !.left = {}, !.rows = <<>>]
    /\ UNCHANGED <<now, rdb, tlog, tables, read>>

Retry ==
    /\ dump.pc = "wait"
    /\ dump' = [dump EXCEPT !.pc = "read", !.tries = @ + 1]
    /\ UNCHANGED <<now, rdb, tlog, tables, read, faults>>

----------------------------------------------------------------------------
\* The MCP tools, for one symbol.
DayKeys(s) == {d \in TableDays : tables[s][d] # <<>>}

\* delta-rs: as of a moment, the newest version not after it; before the first, the first.
VersionAt(versions, asOf) ==
    LET by == {v \in DOMAIN versions : versions[v].at <= asOf} IN
    IF asOf = Unset THEN versions[Len(versions)]
    ELSE IF by = {} THEN versions[1] ELSE versions[Max(by)]

\* Mutant of CommittedBy: a table is taken to have existed at every moment.
CommittedByAlways(s, d, asOf) == d \in DayKeys(s)

CommittedBy(s, d, asOf) ==
    asOf = Unset \/ \E v \in DOMAIN tables[s][d] : tables[s][d][v].at <= asOf

InWindow(s, start, end) ==
    LET days == DayKeys(s) IN
    IF start = Unset /\ end = Unset THEN {d \in days : \A e \in days : e <= d}
    ELSE {d \in days : /\ start = Unset \/ d >= DayOf(start)
                       /\ end = Unset \/ d <= DayOf(end)}

\* Without a window, the newest day that existed then.
KeysFor(s, start, end, asOf) ==
    IF start = Unset /\ end = Unset /\ asOf # Unset
    THEN LET then == {d \in DayKeys(s) : CommittedBy(s, d, asOf)} IN
         {d \in then : \A e \in then : e <= d}
    ELSE InWindow(s, start, end)

Inside(slots, start, end) ==
    {t \in slots : (start = Unset \/ t >= start) /\ (end = Unset \/ t <= end)}
NewestTicks(slots) == {t \in slots : Cardinality({u \in slots : u > t}) < TailRows}

\* What the store holds of a symbol at a moment: of a day, and in a window or on its newest
\* day.
HeldOf(s, d, asOf) ==
    LET by == {v \in DOMAIN tables[s][d] : asOf = Unset \/ tables[s][d][v].at <= asOf}
    IN  IF by = {} THEN {} ELSE tables[s][d][Max(by)].rows

Promise(s, start, end, asOf) ==
    LET held == {d \in TableDays : HeldOf(s, d, asOf) # {}}
        asked == IF start = Unset /\ end = Unset THEN {d \in held : \A e \in held : e <= d}
                 ELSE held
    IN  NewestTicks(Inside(UNION {HeldOf(s, d, asOf) : d \in asked}, start, end))

\* delta_read begins with the list of the library; its tables are read one by one, in order
\* of day.
BeginRead(s, start, end, asOf) ==
    /\ read.pc = "idle" /\ DayKeys(s) # {}
    /\ read' = [pc |-> "tables", symbol |-> s, start |-> start, end |-> end, asOf |-> asOf,
                left |-> KeysFor(s, start, end, asOf), rows |-> <<>>,
                quiet |-> TRUE, promise |-> Promise(s, start, end, asOf)]
    /\ UNCHANGED <<now, rdb, tlog, tables, dump, faults>>

\* read filters inside the table; read_trailing takes its newest rows.
ReadOne(s, d) ==
    LET rows == Inside(VersionAt(tables[s][d], read.asOf).rows, read.start, read.end) IN
    IF read.start = Unset /\ read.end = Unset THEN NewestTicks(rows) ELSE rows

\* The rows of a table, oldest first.
Ascending(slots) ==
    [i \in 1 .. Cardinality(slots) |->
        CHOOSE t \in slots : Cardinality({u \in slots : u < t}) = i - 1]

ReadTable ==
    /\ read.pc = "tables" /\ read.left # {}
    /\ LET d == Min(read.left) IN
       read' = [read EXCEPT
           !.left = @ \ {d},
           !.rows = IF CommittedBy(read.symbol, d, read.asOf)
                    THEN @ \o Ascending(ReadOne(read.symbol, d)) ELSE @]
    /\ UNCHANGED <<now, rdb, tlog, tables, dump, faults>>

LastRows(rows) == SubSeq(rows, Max({1, Len(rows) - TailRows + 1}), Len(rows))

EndRead ==
    /\ read.pc = "tables" /\ read.left = {}
    /\ read' = [read EXCEPT !.pc = "answered", !.rows = LastRows(read.rows)]
    /\ UNCHANGED <<now, rdb, tlog, tables, dump, faults>>

Answered ==
    /\ read.pc = "answered" /\ read' = NoRead
    /\ UNCHANGED <<now, rdb, tlog, tables, dump, faults>>

----------------------------------------------------------------------------
DayNext ==
    \/ Advance \/ Prune \/ RestartQ
    \/ WakeDump \/ Boot \/ ReadDay \/ WriteTable \/ FlushFails \/ Retry
    \/ \E s \in SymbolSet, w \in Windows, asOf \in (0 .. now - 1) \cup {Unset} :
           BeginRead(s, w[1], w[2], asOf)
    \/ ReadTable \/ EndRead \/ Answered

DaySpec == DayInit /\ [][DayNext]_dayVars

\* A read as of an earlier moment answers what the store held at that moment, in order and
\* once, whatever the flush commits while the tables of the symbol are read one after the
\* other (server.py 291-308: a table written after the chosen instant contributes nothing);
\* a read without one does if nothing was committed meanwhile.
ReadIsOneMoment ==
    read.pc = "answered" /\ (read.asOf # Unset \/ read.quiet) =>
        read.rows = Ascending(read.promise)

\* Flushing a day again loses nothing of it (eod_dump.py 196-197: "Idempotent, so
\* re-flushing a covered day is harmless").
RerunIsHarmless ==
    [][\A s \in SymbolSet, d \in TableDays :
           LET old == tables[s][d] new == tables'[s][d] IN
           Len(new) > Len(old) /\ old # <<>> => old[Len(old)].rows \subseteq new[Len(new)].rows]_dayVars
============================================================================
