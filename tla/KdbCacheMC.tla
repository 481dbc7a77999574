---------------------------- MODULE KdbCacheMC -----------------------------
(***************************************************************************)
(* Constants for checking KdbCache: two keys with a table each.            *)
(***************************************************************************)
EXTENDS KdbCache, TLC

CONSTANTS X, Y, r1, r2, r3

OwnTables == [s \in Symbols |-> s]

ApartWindows == {<<0, 0>>, <<3, 4>>, <<0, 4>>}
TwoWindows == {<<0, 2>>, <<1, 3>>}
\* One window that the clock reaches into: a miss, then extensions of its tail.
OneWindow == {<<1, 3>>}
\* Requests are alike, and so are keys with a table each.  (An idle request's key
\* is never read, so which one Idle holds tells no two states apart.)
Interchangeable ==
    {p @@ t : p \in Permutations(Requests), t \in Permutations(Symbols)}

AllBars == 0..MaxTime
\* The provider has no bar on the first stamp.
HolidayFirst == 1..MaxTime
============================================================================
