-------------------------- MODULE KdbRangesLoops ---------------------------
(***************************************************************************)
(* The loops of kdb-store/kdb_store/ranges.py as written, run on a         *)
(* coverage list that grows the way `.cache.cov` does (record_coverage     *)
(* appends, nothing is merged at rest), and compared with the operators of *)
(* KdbRanges that the cache's model uses and with a reference definition   *)
(* over sets of timestamps.                                                *)
(***************************************************************************)
EXTENDS KdbRanges, Sequences, SequencesExt

CONSTANTS MaxTime,    \* timestamps are 0..MaxTime
          Steps,      \* bar widths to try
          MaxRanges   \* bound on the length of the coverage list

ASSUME LoopBounds == MaxTime \in Nat /\ Steps \subseteq Nat \ {0} /\ MaxRanges \in Nat

VARIABLE covered      \* the coverage list, in the order it was recorded

Times  == 0..MaxTime
Ranges == {r \in Times \X Times : r[1] <= r[2]}

Earlier(r, q) == r[1] < q[1] \/ (r[1] = q[1] /\ r[2] < q[2])

\* One turn of coalesce's loop: extend the last merged range or open a new one.
MergeNext(out, r, step) ==
    IF out # << >> /\ r[1] - step <= Last(out)[2]
    THEN Append(Front(out), <<Last(out)[1], Greater(Last(out)[2], r[2])>>)
    ELSE Append(out, r)

CoalesceLoop(list, step) ==
    FoldLeft(LAMBDA out, r : MergeNext(out, r, step), << >>, SortSeq(list, Earlier))

ScanNoAdvance(acc, c, req, step) ==
    IF acc.exit # "none" \/ c[2] < acc.cursor THEN acc
    ELSE IF c[1] > req[2] THEN [acc EXCEPT !.exit = "break"]
    ELSE LET gap == IF c[1] > acc.cursor
                    THEN <<<<acc.cursor, Lesser(c[1] - step, req[2])>>>> ELSE << >>
             next == Greater(acc.cursor, c[2])
         IN  [gaps |-> acc.gaps \o gap, cursor |-> next,
              exit |-> IF next > req[2] THEN "return" ELSE "none"]

\* One turn of subtract's loop, with its `continue`, `break` and early `return`.
Scan(acc, c, req, step) ==
    IF acc.exit # "none" \/ c[2] < acc.cursor THEN acc
    ELSE IF c[1] > req[2] THEN [acc EXCEPT !.exit = "break"]
    ELSE LET gap == IF c[1] > acc.cursor
                    THEN <<<<acc.cursor, Lesser(c[1] - step, req[2])>>>> ELSE << >>
             next == Greater(acc.cursor, c[2] + step)
         IN  [gaps |-> acc.gaps \o gap, cursor |-> next,
              exit |-> IF next > req[2] THEN "return" ELSE "none"]

SubtractLoop(req, list, step) ==
    LET last == FoldLeft(LAMBDA acc, c : Scan(acc, c, req, step),
                         [gaps |-> << >>, cursor |-> req[1], exit |-> "none"],
                         CoalesceLoop(list, step))
        tail == IF last.cursor <= req[2] THEN <<<<last.cursor, req[2]>>>> ELSE << >>
    IN  IF req[1] > req[2] THEN << >>
        ELSE IF last.exit = "return" THEN last.gaps
        ELSE SelectSeq(last.gaps \o tail, LAMBDA g : g[1] <= g[2])

----------------------------------------------------------------------------
LoopsInit == covered = << >>

\* KdbStore.record_coverage: one more range at the end of the list.
Record(r) ==
    /\ Len(covered) < MaxRanges
    /\ covered' = Append(covered, r)

LoopsNext == \E r \in Ranges : Record(r)

----------------------------------------------------------------------------
OnGrid(r, step) == r[1] % step = 0 /\ r[2] % step = 0
Stamps(R, step) == {t \in Times : t % step = 0 /\ CoversStamp(R, t)}

\* When every end is a bar timestamp, subtract returns exactly the bars of the
\* request that are not covered: none is asked for twice, none is forgotten.
SubtractExact ==
    \A step \in Steps, req \in Ranges :
        (OnGrid(req, step) /\ \A i \in DOMAIN covered : OnGrid(covered[i], step)) =>
            LET gaps == ToSet(SubtractLoop(req, covered, step))
            IN  /\ Stamps(gaps, step) = Stamps({req}, step) \ Stamps(ToSet(covered), step)
                /\ \A g \in gaps : g[1] <= g[2] /\ req[1] <= g[1] /\ g[2] <= req[2]

\* The set-based operators the cache's model uses return what the loops return,
\* on every list of ranges, off the grid of bar timestamps too.
LoopsAgree ==
    \A step \in Steps :
        /\ ToSet(CoalesceLoop(covered, step)) = Coalesce(ToSet(covered), step)
        /\ \A req \in Ranges :
              ToSet(SubtractLoop(req, covered, step)) = Subtract(req, ToSet(covered), step)
============================================================================
