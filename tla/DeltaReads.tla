------------------------------ MODULE DeltaReads ------------------------------
(***************************************************************************)
(* What is read from a Delta table that was written in one go and appended *)
(* to (openbb_deltalake: store, describe, models/historical): its newest   *)
(* rows, taken from as few of its files as the log allows, its             *)
(* description, and bars of any width made of its trades or of finer bars. *)
(*                                                                         *)
(* A file is the sequence of trades one write brought, a table the         *)
(* sequence of its files.  Times, prices and sizes are small integers.     *)
(***************************************************************************)
EXTENDS Integers, Sequences, SequencesExt, FiniteSetsExt, Functions

CONSTANT MidnightEvery      \* times a day has

ASSUME DeltaBounds == MidnightEvery \in Nat \ {0}

TimesOf(rows) == {rows[i].at : i \in DOMAIN rows}
Total(rows, Of(_)) == SumFunctionOnSet([i \in DOMAIN rows |-> Of(rows[i])], DOMAIN rows)

----------------------------------------------------------------------------
\* write replaces the files, append adds one; normalize_index has sorted its rows.
Written(rows) == <<rows>>
Appended(table, rows) == Append(table, rows)

\* read: the rows of all files, in order of time.
WholeTable(table) == SortSeq(FlattenSeq(table), LAMBDA r, s : r.at < s.at)
TailOf(rows, n) == SubSeq(rows, Max({1, Len(rows) - n + 1}), Len(rows))

\* Mutant of TrailingFiles: the oldest files first.
TrailingFilesOldest(table, n) ==
    LET k == Min({i \in DOMAIN table : Total(SubSeq(table, 1, i), Len) >= n} \cup {Len(table)})
    IN  SubSeq(table, 1, k)

\* trailing_fragment_paths: by descending max.date, until their rows are enough.
TrailingFiles(table, n) ==
    LET newest == SortSeq(table, LAMBDA f, g : Max(TimesOf(f)) > Max(TimesOf(g)))
        k == Min({i \in DOMAIN newest : Total(SubSeq(newest, 1, i), Len) >= n} \cup {Len(newest)})
    IN  SubSeq(newest, 1, k)

ReadTrailing(table, n) == TailOf(WholeTable(TrailingFiles(table, n)), n)

\* describe: what the log says of the files.
Described(table) ==
    [rows |-> Total(table, Len),
     from |-> Min({Min(TimesOf(f)) : f \in ToSet(table)}),
     to   |-> Max({Max(TimesOf(f)) : f \in ToSet(table)})]

----------------------------------------------------------------------------
\* _pandas_ohlcv.  A rule is a width and an origin: `epoch`, or the midnight before the
\* first row (pandas_anchor).
Anchor(rows, anchored) ==
    IF anchored /\ rows # <<>> THEN rows[1].at - (rows[1].at % MidnightEvery) ELSE 0
OpensAt(t, width, origin) == origin + ((t - origin) \div width) * width

Group(rows, at, width, origin) == SelectSeq(rows, LAMBDA r : OpensAt(r.at, width, origin) = at)
Resampled(rows, width, origin) ==
    LET opens == SetToSortSeq({OpensAt(t, width, origin) : t \in TimesOf(rows)}, <)
    IN  [i \in DOMAIN opens |-> [at |-> opens[i], rows |-> Group(rows, opens[i], width, origin)]]

\* A bar of trades.  Its vwap is a quotient, of 0 by 0 when nothing was traded.
OfTrades(group, at) ==
    [at |-> at, open |-> group[1].price, close |-> Last(group).price,
     high |-> Max({r.price : r \in ToSet(group)}), low |-> Min({r.price : r \in ToSet(group)}),
     volume |-> Total(group, LAMBDA r : r.size),
     vwap |-> <<Total(group, LAMBDA r : r.price * r.size), Total(group, LAMBDA r : r.size)>>]

\* vwap * volume of a bar; a bar without trades is left out of the sum.
Traded(bar) == IF bar.vwap[2] = 0 THEN 0 ELSE (bar.vwap[1] * bar.volume) \div bar.vwap[2]

\* A bar of finer bars.
OfBars(group, at) ==
    [at |-> at, open |-> group[1].open, close |-> Last(group).close,
     high |-> Max({b.high : b \in ToSet(group)}), low |-> Min({b.low : b \in ToSet(group)}),
     volume |-> Total(group, LAMBDA b : b.volume),
     vwap |-> <<Total(group, Traded), Total(group, LAMBDA b : b.volume)>>]

\* _extract_bars, for one symbol: the table is one of trades or one of bars.
ExtractBars(rows, ofBars, width, anchored) ==
    LET buckets == Resampled(rows, width, Anchor(rows, anchored))
        Bar(b) == IF ofBars THEN OfBars(b.rows, b.at) ELSE OfTrades(b.rows, b.at)
    IN  [i \in DOMAIN buckets |-> Bar(buckets[i])]

----------------------------------------------------------------------------
\* Of a table that grew in order of time, the tail read from a few files is the tail of the
\* whole table, and its description is of its rows (store.py 223-256, describe.py 81-106).
TailIsNewest(grown) ==
    LET whole == WholeTable(grown) IN
    /\ \A n \in 1 .. Len(whole) + 1 : ReadTrailing(grown, n) = TailOf(whole, n)
    /\ Described(grown) = [rows |-> Len(whole), from |-> whole[1].at, to |-> Last(whole).at]

\* Bars made of stored bars are the bars made of the trades those were made of, the price
\* of the volume included (historical.py 87-99: "algebraically the same trade sum"), on
\* either anchor, as long as the finer bars fit into the days and into the coarser ones.
BarsCompose(grown, fine, coarse) ==
    LET trades == WholeTable(grown)
        bars == ExtractBars(trades, FALSE, fine, FALSE)
    IN  (MidnightEvery % fine = 0 /\ coarse % fine = 0) =>
            \A anchored \in BOOLEAN :
                ExtractBars(bars, TRUE, coarse, anchored) = ExtractBars(trades, FALSE, coarse, anchored)
=============================================================================
