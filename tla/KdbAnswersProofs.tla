------------------------- MODULE KdbAnswersProofs -------------------------
(***************************************************************************)
(* What the read-through cache answers, for any requests, keys, tables,    *)
(* windows, bars and bounds: every bar of the window that existed when it  *)
(* was asked for (ServedComplete), never a series of two adjustments that  *)
(* the backstop could have compared (BackstopCatchesRewrite), and no bar   *)
(* fetched twice when the store fails (BypassPaysOnce).                    *)
(*                                                                         *)
(* The argument is one of ranges: what is covered was fetched, and what is *)
(* not covered is in a gap.  The code keeps ranges as pairs of stamps and  *)
(* takes "one step later" for "the next bar", which is so where stamps,    *)
(* windows and days are multiples of the step: the hypothesis OnGrid.  A   *)
(* weekly window that starts between two bars loses one (README, Proofs).  *)
(* That two keys share no table is KdbCacheProofs' Unaliased.              *)
(*                                                                         *)
(* Two invariants, each proved one action at a time: ServeInv says of a    *)
(* call under way that each bar it is to answer with is stored, fetched or *)
(* in a gap still to be fetched; BackInv says of it which rows are of one  *)
(* adjustment.  A step of one request is shown to leave the others be      *)
(* (Beside, Bystanders), for each key is locked by the call under way.     *)
(***************************************************************************)
EXTENDS KdbCacheProofs

----------------------------------------------------------------------------
\* Ranges of whole steps: coalesce and subtract neither lose a bar nor cover one twice.

\* The stamps of an interval's bars.
Grid == {k * Step : k \in Int}

LEMMA GridArithmetic ==
    /\ Grid \subseteq Int /\ 0 \in Grid /\ Step \in Grid
    /\ \A a, b \in Grid : a + b \in Grid /\ a - b \in Grid
    /\ \A a, b \in Grid : a < b => a + Step <= b
<1>1. Step \in Nat /\ Step > 0
  BY CacheBounds
<1>2. Grid \subseteq Int
  BY <1>1 DEF Grid
<1>3. 0 \in Grid /\ Step \in Grid
  <2>1. 0 = 0 * Step /\ Step = 1 * Step
    BY <1>1
  <2> QED BY <2>1 DEF Grid
<1>4. ASSUME NEW a \in Grid, NEW b \in Grid
      PROVE  a + b \in Grid /\ a - b \in Grid /\ (a < b => a + Step <= b)
  <2>1. PICK k \in Int : a = k * Step
    BY DEF Grid
  <2>2. PICK m \in Int : b = m * Step
    BY DEF Grid
  <2>3. a + b = (k + m) * Step /\ a - b = (k - m) * Step
    BY <1>1, <2>1, <2>2
  <2>4. a < b => a + Step <= b
    <3> SUFFICES ASSUME a < b PROVE a + Step <= b
      OBVIOUS
    <3>1. k < m
      <4>1. k >= m => a >= b
        BY <1>1, <2>1, <2>2, SMT
      <4>2. a \in Int /\ b \in Int
        BY <1>2
      <4> QED BY <4>1, <4>2
    <3>2. (k + 1) * Step <= m * Step
      <4>1. k + 1 <= m
        BY <3>1
      <4> QED BY <1>1, <4>1, SMT
    <3> QED BY <1>1, <2>1, <2>2, <3>2
  <2>5. k + m \in Int /\ k - m \in Int
    OBVIOUS
  <2> QED BY <2>3, <2>4, <2>5 DEF Grid
<1> QED BY <1>2, <1>3, <1>4

LEMMA Smallest ==
    ASSUME NEW T \in SUBSET Nat, T # {}
    PROVE  \E n \in T : \A m \in T : n <= m
<1> DEFINE Less == {p \in Nat \X Nat : p[1] < p[2]}
<1>1. IsWellFoundedOn(Less, Nat)
  BY NatLessThanWellFounded, Zenon DEF OpToRel
<1>2. PICK n \in T : \A m \in T : ~(<<m, n>> \in Less)
  <2> HIDE DEF Less
  <2> QED BY <1>1, WFMin, Zenon
<1>3. \A m \in T : n <= m
  <2> TAKE m \in T
  <2>1. m \in Nat /\ n \in Nat
    OBVIOUS
  <2>2. m < n => <<m, n>> \in Less
    BY <2>1
  <2> QED BY <1>2, <2>1, <2>2
<1> QED BY <1>3

LEMMA Largest ==
    ASSUME NEW T \in SUBSET Int, T # {}, NEW top \in Int, \A m \in T : m <= top
    PROVE  \E n \in T : \A m \in T : m <= n
<1> DEFINE D == {top - m : m \in T}
<1>1. D \in SUBSET Nat /\ D # {}
  <2>1. \A m \in T : top - m \in Nat
    OBVIOUS
  <2>2. D # {}
    OBVIOUS
  <2> QED BY <2>1, <2>2
<1>2. PICK d \in D : \A e \in D : d <= e
  <2> HIDE DEF D
  <2> QED BY <1>1, Smallest
<1>3. PICK n \in T : d = top - n
  BY <1>2
<1>4. \A m \in T : m <= n
  <2> TAKE m \in T
  <2>1. top - m \in D /\ m \in Int /\ n \in Int
    OBVIOUS
  <2>2. d <= top - m
    BY <1>2, <2>1
  <2> HIDE DEF D
  <2> QED BY <1>3, <2>1, <2>2
<1> QED BY <1>4

Horizon == MaxTime + DayLen
GridRange == {r \in Grid \X Grid : 0 <= r[1] /\ r[1] <= r[2] /\ r[2] <= Horizon}

LEMMA GridRangeType ==
    ASSUME NEW r \in GridRange
    PROVE  /\ r[1] \in Grid /\ r[2] \in Grid /\ r[1] \in Nat /\ r[2] \in Nat
           /\ r[1] <= r[2] /\ r[2] <= Horizon /\ r = <<r[1], r[2]>>
<1>1. r[1] \in Int /\ r[2] \in Int
  BY GridArithmetic DEF GridRange
<1> QED BY <1>1 DEF GridRange

LEMMA Contained ==
    ASSUME NEW R \in SUBSET GridRange, NEW r \in R
    PROVE  \E m \in Coalesce(R, Step) : m[1] <= r[1] /\ r[2] <= m[2]
<1>1. Step \in Nat /\ Step > 0 /\ Horizon \in Int
  BY CacheBounds DEF Horizon
<1>2. \A x \in R : x[1] \in Nat /\ x[2] \in Nat /\ x[1] <= x[2] /\ x[2] <= Horizon
  BY GridRangeType
<1> DEFINE Open == {s \in Starts(R) : s <= r[1] /\ Opens(R, s, Step)}
<1>3. Open \in SUBSET Int /\ Open # {}
  <2>1. Starts(R) \in SUBSET Nat /\ Starts(R) # {}
    BY <1>2 DEF Starts
  <2>2. PICK s \in Starts(R) : \A u \in Starts(R) : s <= u
    BY <2>1, Smallest
  <2>3. s \in Int /\ s <= r[1] /\ r[1] \in Starts(R)
    BY <2>1, <2>2 DEF Starts
  <2>4. Opens(R, s, Step)
    <3>1. ASSUME NEW x \in R PROVE ~(x[1] < s)
      <4>1. x[1] \in Starts(R) /\ x[1] \in Int
        BY <1>2 DEF Starts
      <4> QED BY <2>2, <2>3, <4>1
    <3> QED BY <3>1 DEF Opens
  <2> QED BY <2>1, <2>3, <2>4
<1>4. PICK s \in Open : \A u \in Open : u <= s
  <2>1. r[1] \in Int /\ \A u \in Open : u <= r[1]
    BY <1>2
  <2> HIDE DEF Open
  <2> QED BY <1>3, <2>1, Largest
<1>5. s \in Nat /\ s \in Starts(R) /\ s <= r[1] /\ Opens(R, s, Step)
  BY <1>2 DEF Starts
<1>6. \A u \in Starts(R) : s < u /\ u <= r[1] => ~Opens(R, u, Step)
  <2> TAKE u \in Starts(R)
  <2>1. u \in Int /\ s \in Int
    BY <1>2 DEF Starts
  <2> QED BY <1>4, <2>1
<1> HIDE DEF Open
\* The ranges from s on that start before the next merged range opens.
<1> DEFINE Before(x) == \A u \in Starts(R) : s < u /\ u <= x[1] => ~Opens(R, u, Step)
           Cluster == {x \in R : s <= x[1] /\ Before(x)}
           Reach == {x[2] : x \in Cluster}
<1>7. r \in Cluster
  BY <1>5, <1>6
<1>8. PICK e \in Reach : \A f \in Reach : f <= e
  <2>1. Reach \in SUBSET Int /\ Reach # {} /\ \A f \in Reach : f <= Horizon
    BY <1>2, <1>7
  <2> HIDE DEF Reach
  <2> QED BY <1>1, <2>1, Largest
<1>9. PICK last \in Cluster : e = last[2]
  BY <1>8
<1>10. \A x \in Cluster : x[2] <= e
  BY <1>8
<1>11. e \in Ends(R) /\ e \in Nat /\ r[2] <= e /\ r[1] <= e /\ s <= e
  BY <1>2, <1>5, <1>7, <1>9, <1>10 DEF Ends
<1>12. ASSUME NEW x \in R, s <= x[1], x[1] <= e + Step, x \notin Cluster
       PROVE  FALSE
  <2>1. PICK u \in Starts(R) : s < u /\ u <= x[1] /\ Opens(R, u, Step)
    BY <1>12
  <2>2. u \in Nat /\ last[1] \in Nat /\ last \in R /\ s <= last[1]
    BY <1>2, <1>9 DEF Starts
  <2>3. last[1] < u
    <3>1. ~(u <= last[1])
      BY <1>9, <2>1
    <3> QED BY <2>2, <3>1
  <2>4. e < u - Step
    BY <1>9, <2>1, <2>2, <2>3 DEF Opens
  <2> QED BY <1>1, <1>2, <1>11, <1>12, <2>1, <2>2, <2>4
<1>13. \A x \in R : s <= x[1] /\ x[1] <= e + Step => x[2] <= e
  BY <1>10, <1>12
<1>14. \A u \in Starts(R) : s < u /\ u <= e => ~Opens(R, u, Step)
  <2> SUFFICES ASSUME NEW u \in Starts(R), s < u, u <= e, Opens(R, u, Step)
               PROVE  FALSE
    OBVIOUS
  <2>1. u \in Nat /\ last[1] \in Nat /\ last \in R /\ s <= last[1]
    BY <1>2, <1>9 DEF Starts
  <2>2. last[1] < u
    <3>1. ~(u <= last[1])
      BY <1>9
    <3> QED BY <2>1, <3>1
  <2>3. e < u - Step
    BY <1>9, <2>1, <2>2 DEF Opens
  <2> QED BY <1>1, <1>11, <2>1, <2>3
<1>15. <<s, e>> \in Coalesce(R, Step)
  BY <1>5, <1>11, <1>13, <1>14 DEF Coalesce
<1> QED BY <1>5, <1>11, <1>15

LEMMA CoalesceOnGrid ==
    ASSUME NEW R \in SUBSET GridRange
    PROVE  Coalesce(R, Step) \in SUBSET GridRange
<1>1. Starts(R) \subseteq Grid /\ Ends(R) \subseteq Grid
  BY GridRangeType DEF Starts, Ends
<1>2. \A s \in Starts(R) : 0 <= s
  BY GridRangeType DEF Starts
<1>3. \A e \in Ends(R) : e <= Horizon
  BY GridRangeType DEF Ends
<1> QED BY <1>1, <1>2, <1>3 DEF Coalesce, GridRange

LEMMA Separated ==
    ASSUME NEW R \in SUBSET GridRange,
           NEW c \in Coalesce(R, Step), NEW m \in Coalesce(R, Step), c # m
    PROVE  c[2] + Step < m[1] \/ m[2] + Step < c[1]
<1>1. Step \in Nat /\ Step > 0
  BY CacheBounds
<1>2. \A x \in R : x[1] \in Nat /\ x[2] \in Nat /\ x[1] <= x[2]
  BY GridRangeType
<1>3. \A x \in Coalesce(R, Step) :
          x[1] \in Nat /\ x[2] \in Nat /\ x[1] <= x[2] /\ x = <<x[1], x[2]>>
  BY CoalesceOnGrid, GridRangeType
\* A range that starts inside a merged one ends there, or starts past the step after it.
<1>4. ASSUME NEW d \in Coalesce(R, Step), NEW n \in Coalesce(R, Step), d[1] < n[1]
      PROVE  d[2] + Step < n[1]
  <2>1. n[1] \in Starts(R) /\ Opens(R, n[1], Step) /\ d[2] \in Ends(R)
    BY DEF Coalesce
  <2>2. ~(n[1] <= d[2])
    BY <1>4, <2>1 DEF Coalesce
  <2>3. PICK x \in R : x[2] = d[2]
    BY <2>1 DEF Ends
  <2>4. x[1] < n[1]
    BY <1>2, <1>3, <2>2, <2>3
  <2>5. d[2] < n[1] - Step
    BY <2>1, <2>3, <2>4 DEF Opens
  <2> QED BY <1>1, <1>3, <2>5
<1>5. ASSUME NEW d \in Coalesce(R, Step), NEW n \in Coalesce(R, Step),
             d[1] = n[1], d[2] < n[2]
      PROVE  FALSE
  <2>1. PICK x \in R : x[2] = n[2]
    BY DEF Coalesce, Ends
  <2>2. d[1] <= x[1]
    <3>1. Opens(R, n[1], Step)
      BY DEF Coalesce
    <3>2. x[1] < n[1] => x[2] < n[1] - Step
      BY <3>1 DEF Opens
    <3> QED BY <1>1, <1>2, <1>3, <1>5, <2>1, <3>2
  <2>3. d[2] + Step < x[1]
    <3>1. d[1] <= x[1] /\ x[1] <= d[2] + Step => x[2] <= d[2]
      BY DEF Coalesce
    <3> QED BY <1>1, <1>2, <1>3, <1>5, <2>1, <2>2, <3>1
  <2> DEFINE Later == {u \in Starts(R) : d[2] + Step < u}
  <2>4. PICK s \in Later : \A u \in Later : s <= u
    <3>1. Later \in SUBSET Nat /\ Later # {}
      BY <1>2, <2>3 DEF Starts
    <3> HIDE DEF Later
    <3> QED BY <3>1, Smallest
  <2>5. s \in Nat /\ s \in Starts(R) /\ d[2] + Step < s /\ s <= x[1]
    BY <1>2, <2>3, <2>4 DEF Starts
  <2>6. Opens(R, s, Step)
    <3> SUFFICES ASSUME NEW y \in R, y[1] < s PROVE y[2] < s - Step
      BY DEF Opens
    <3>1. y[1] \in Starts(R) /\ y[1] \in Nat /\ y[2] \in Nat
      BY <1>2 DEF Starts
    <3>2. y[1] <= d[2] + Step
      <4>1. ~(d[2] + Step < y[1])
        BY <2>4, <2>5, <3>1
      <4> QED BY <1>1, <1>3, <3>1, <4>1
    <3>3. CASE d[1] <= y[1]
      <4>1. y[2] <= d[2]
        BY <3>2, <3>3 DEF Coalesce
      <4> QED BY <1>1, <1>3, <2>5, <3>1, <4>1
    <3>4. CASE y[1] < d[1]
      <4>1. y[2] < d[1] - Step
        BY <3>4 DEF Coalesce, Opens
      <4> QED BY <1>1, <1>3, <2>5, <3>1, <4>1
    <3> QED BY <1>3, <3>1, <3>3, <3>4
  <2>7. n[1] < s /\ s <= n[2]
    BY <1>1, <1>2, <1>3, <1>5, <2>1, <2>5
  <2> QED BY <2>5, <2>6, <2>7 DEF Coalesce
<1> QED BY <1>3, <1>4, <1>5

\* On the grid, merging covers no bar that no range covers.
LEMMA CoalesceExact ==
    ASSUME NEW R \in SUBSET GridRange, NEW t \in Grid
    PROVE  CoversStamp(Coalesce(R, Step), t) <=> CoversStamp(R, t)
<1>1. Step \in Nat /\ Step > 0 /\ t \in Int
  BY CacheBounds, GridArithmetic
<1>2. \A x \in R : /\ x[1] \in Nat /\ x[2] \in Nat /\ x[1] <= x[2]
                   /\ x[1] \in Grid /\ x[2] \in Grid
  BY GridRangeType
<1>3. ASSUME CoversStamp(R, t) PROVE CoversStamp(Coalesce(R, Step), t)
  <2>1. PICK r \in R : r[1] <= t /\ t <= r[2]
    BY <1>3 DEF CoversStamp, Spanned
  <2>2. PICK m \in Coalesce(R, Step) : m[1] <= r[1] /\ r[2] <= m[2]
    BY Contained
  <2>3. m[1] \in Nat /\ m[2] \in Nat
    BY CoalesceOnGrid, GridRangeType
  <2>4. m[1] <= t /\ t <= m[2]
    BY <1>1, <1>2, <2>1, <2>2, <2>3
  <2> QED BY <2>4 DEF CoversStamp, Spanned
<1>4. ASSUME NEW m \in Coalesce(R, Step), m[1] <= t, t <= m[2], ~CoversStamp(R, t)
      PROVE  FALSE
  <2>1. m[1] \in Nat /\ m[2] \in Nat
    BY CoalesceOnGrid, GridRangeType
  <2>2. \A x \in R : x[1] <= t => x[2] + Step <= t
    <3> SUFFICES ASSUME NEW x \in R, x[1] <= t PROVE x[2] + Step <= t
      OBVIOUS
    <3>1. x[2] < t
      BY <1>1, <1>2, <1>4 DEF CoversStamp, Spanned
    <3> QED BY <1>2, <3>1, GridArithmetic
  <2>3. PICK x \in R : x[2] = m[2]
    BY DEF Coalesce, Ends
  <2>4. t < x[1] /\ x[1] <= m[2]
    BY <1>1, <1>2, <1>4, <2>1, <2>2, <2>3
  <2> DEFINE Later == {u \in Starts(R) : t < u}
  <2>5. PICK s \in Later : \A u \in Later : s <= u
    <3>1. Later \in SUBSET Nat /\ Later # {}
      BY <1>2, <2>4 DEF Starts
    <3> HIDE DEF Later
    <3> QED BY <3>1, Smallest
  <2>6. s \in Nat /\ s \in Grid /\ s \in Starts(R) /\ t < s /\ s <= x[1]
    BY <1>2, <2>4, <2>5 DEF Starts
  <2>7. t + Step <= s
    BY <2>6, GridArithmetic
  <2>8. Opens(R, s, Step)
    <3> SUFFICES ASSUME NEW y \in R, y[1] < s PROVE y[2] < s - Step
      BY DEF Opens
    <3>1. y[1] \in Starts(R)
      BY DEF Starts
    <3>2. y[1] <= t
      <4>1. ~(t < y[1])
        BY <1>2, <2>5, <2>6, <3>1
      <4> QED BY <1>1, <1>2, <4>1
    <3>3. y[2] + Step <= t
      BY <2>2, <3>2
    <3> QED BY <1>1, <1>2, <2>6, <2>7, <3>3
  <2>9. m[1] < s /\ s <= m[2]
    BY <1>1, <1>2, <1>4, <2>1, <2>4, <2>6
  <2> QED BY <2>6, <2>8, <2>9 DEF Coalesce
<1> QED BY <1>3, <1>4 DEF CoversStamp, Spanned

LEMMA SubtractOnGrid ==
    ASSUME NEW R \in SUBSET GridRange, NEW w \in GridRange,
           NEW g \in Subtract(w, R, Step)
    PROVE  g \in GridRange /\ w[1] <= g[1] /\ g[2] <= w[2]
<1> DEFINE C == Coalesce(R, Step)
           Meets == {c \in C : c[2] >= w[1] /\ c[1] <= w[2]}
           Cursors == {b \in {w[1]} : ~CoversStamp(C, b)} \cup {c[2] + Step : c \in Meets}
           Beyond(b) == {c \in Meets : c[1] > b}
<1>1. Step \in Nat /\ Step > 0
  BY CacheBounds
<1>2. /\ w[1] \in Grid /\ w[2] \in Grid /\ w[1] \in Nat /\ w[2] \in Nat
      /\ w[1] <= w[2] /\ w[2] <= Horizon /\ Horizon \in Int
  BY GridRangeType, CacheBounds DEF Horizon
<1>3. \A c \in C : /\ c[1] \in Grid /\ c[2] \in Grid /\ c[1] \in Nat /\ c[2] \in Nat
                   /\ c[1] <= c[2]
  BY CoalesceOnGrid, GridRangeType
<1>4. /\ g \in Cursors \X ({w[2]} \cup {Lesser(c[1] - Step, w[2]) : c \in Meets})
      /\ g[1] <= w[2]
      /\ \/ Beyond(g[1]) = {} /\ g[2] = w[2]
         \/ \E n \in Beyond(g[1]) : /\ \A m \in Beyond(g[1]) : n[1] <= m[1]
                                  /\ g[2] = Lesser(n[1] - Step, w[2])
  BY DEF Subtract
<1> HIDE DEF C
<1>5. g[1] \in Grid /\ w[1] <= g[1]
  <2>1. g[1] \in Cursors
    <3> HIDE DEF Cursors
    <3> QED BY <1>4
  <2>2. CASE g[1] = w[1]
    BY <1>2, <2>2
  <2>3. CASE \E c \in Meets : g[1] = c[2] + Step
    <3>1. PICK c \in Meets : g[1] = c[2] + Step
      BY <2>3
    <3>2. c[2] \in Grid /\ c[2] \in Nat /\ c[2] >= w[1] /\ Step \in Grid
      BY <1>3, GridArithmetic
    <3>3. c[2] + Step \in Grid
      BY <3>2, GridArithmetic
    <3> QED BY <1>1, <1>2, <3>1, <3>2, <3>3
  <2>4. g[1] = w[1] \/ \E c \in Meets : g[1] = c[2] + Step
    BY <2>1
  <2> QED BY <2>2, <2>3, <2>4
<1>6. g[1] \in Int
  BY <1>5, GridArithmetic
<1>7. CASE g[2] = w[2]
  <2>1. g = <<g[1], g[2]>>
    BY <1>4
  <2> QED BY <1>2, <1>4, <1>5, <1>6, <1>7, <2>1 DEF GridRange
<1>8. CASE \E n \in Beyond(g[1]) : g[2] = Lesser(n[1] - Step, w[2])
  <2>1. PICK n \in Beyond(g[1]) : g[2] = Lesser(n[1] - Step, w[2])
    BY <1>8
  <2>2. n[1] \in Grid /\ n[1] \in Nat /\ g[1] < n[1]
    BY <1>3, <2>1
  <2>3. g[1] + Step <= n[1] /\ n[1] - Step \in Grid
    BY <1>5, <2>2, GridArithmetic
  <2>4. g[2] \in Grid /\ g[1] <= g[2] /\ g[2] <= w[2]
    BY <1>1, <1>2, <1>4, <1>6, <2>1, <2>2, <2>3 DEF Lesser
  <2>5. g = <<g[1], g[2]>>
    BY <1>4
  <2>6. g[2] \in Int
    BY <2>4, GridArithmetic
  <2> QED BY <1>2, <1>5, <1>6, <2>4, <2>5, <2>6 DEF GridRange
<1> QED BY <1>4, <1>7, <1>8

\* A gap holds no stamp that is covered.
LEMMA GapsAreMissing ==
    ASSUME NEW R \in SUBSET GridRange, NEW w \in GridRange,
           NEW g \in Subtract(w, R, Step), NEW t \in Int, Spanned(g, t)
    PROVE  ~CoversStamp(R, t)
<1> DEFINE C == Coalesce(R, Step)
           Meets == {c \in C : c[2] >= w[1] /\ c[1] <= w[2]}
           Beyond(b) == {c \in Meets : c[1] > b}
<1>1. Step \in Nat /\ Step > 0
  BY CacheBounds
<1>2. w[1] \in Nat /\ w[2] \in Nat /\ g[1] \in Nat /\ g[2] \in Nat
      /\ w[1] <= g[1] /\ g[2] <= w[2] /\ g[1] <= t /\ t <= g[2]
  BY SubtractOnGrid, GridRangeType DEF Spanned
<1>3. \A c \in C : c[1] \in Nat /\ c[2] \in Nat /\ c[1] <= c[2]
  BY CoalesceOnGrid, GridRangeType
<1>4. /\ \/ g[1] = w[1] /\ ~CoversStamp(C, g[1])
         \/ \E c \in Meets : g[1] = c[2] + Step
      /\ \/ Beyond(g[1]) = {}
         \/ \E n \in Beyond(g[1]) : /\ \A m \in Beyond(g[1]) : n[1] <= m[1]
                                  /\ g[2] = Lesser(n[1] - Step, w[2])
  BY DEF Subtract
<1>5. SUFFICES ASSUME NEW r \in R, r[1] <= t, t <= r[2] PROVE FALSE
  BY DEF CoversStamp, Spanned
<1>6. r[1] \in Nat /\ r[2] \in Nat
  BY GridRangeType
<1>7. PICK m \in C : m[1] <= r[1] /\ r[2] <= m[2]
  BY Contained
<1>8. m[1] <= t /\ t <= m[2] /\ m \in Meets
  BY <1>2, <1>3, <1>5, <1>6, <1>7
<1>9. m[1] <= g[1]
  <2> SUFFICES ASSUME m \in Beyond(g[1]) PROVE FALSE
    BY <1>2, <1>3, <1>8
  <2>1. PICK n \in Beyond(g[1]) : /\ n[1] <= m[1]
                                /\ g[2] = Lesser(n[1] - Step, w[2])
    BY <1>4
  <2>2. g[2] <= n[1] - Step
    BY <1>1, <1>2, <1>3, <2>1 DEF Lesser
  <2> QED BY <1>1, <1>2, <1>3, <1>8, <2>1, <2>2
<1>10. CASE g[1] = w[1] /\ ~CoversStamp(C, g[1])
  <2>1. Spanned(m, g[1])
    BY <1>2, <1>3, <1>8, <1>9 DEF Spanned
  <2> QED BY <1>10, <2>1 DEF CoversStamp
<1>11. CASE \E c \in Meets : g[1] = c[2] + Step
  <2>1. PICK c \in Meets : g[1] = c[2] + Step
    BY <1>11
  <2>2. c = m \/ c[2] + Step < m[1] \/ m[2] + Step < c[1]
    BY Separated
  <2> QED BY <1>1, <1>2, <1>3, <1>8, <1>9, <2>1, <2>2
<1> QED BY <1>4, <1>10, <1>11

\* Two gaps share no stamp.
LEMMA GapsAreApart ==
    ASSUME NEW R \in SUBSET GridRange, NEW w \in GridRange,
           NEW g \in Subtract(w, R, Step), NEW h \in Subtract(w, R, Step),
           NEW t \in Int, Spanned(g, t), Spanned(h, t)
    PROVE  g = h
<1> DEFINE C == Coalesce(R, Step)
           Meets == {c \in C : c[2] >= w[1] /\ c[1] <= w[2]}
           Beyond(b) == {c \in Meets : c[1] > b}
           Cursor(k) == \/ k[1] = w[1] /\ ~CoversStamp(C, k[1])
                        \/ \E c \in Meets : k[1] = c[2] + Step
           End(k) == \/ Beyond(k[1]) = {} /\ k[2] = w[2]
                     \/ \E n \in Beyond(k[1]) : /\ \A m \in Beyond(k[1]) : n[1] <= m[1]
                                              /\ k[2] = Lesser(n[1] - Step, w[2])
<1>1. Step \in Nat /\ Step > 0 /\ w[1] \in Nat /\ w[2] \in Nat
  BY CacheBounds, GridRangeType
<1>2. \A k \in Subtract(w, R, Step) :
          /\ k[1] \in Nat /\ k[2] \in Nat /\ w[1] <= k[1] /\ k = <<k[1], k[2]>>
          /\ Cursor(k) /\ End(k)
  <2> TAKE k \in Subtract(w, R, Step)
  <2>1. Cursor(k) /\ End(k)
    BY DEF Subtract
  <2> QED BY <2>1, SubtractOnGrid, GridRangeType
<1>3. \A c \in C : c[1] \in Nat /\ c[2] \in Nat /\ c[1] <= c[2]
  BY CoalesceOnGrid, GridRangeType
<1>4. ASSUME NEW j \in Subtract(w, R, Step), NEW k \in Subtract(w, R, Step),
             j[1] < k[1], k[1] <= t, t <= j[2]
      PROVE  FALSE
  <2>1. PICK c \in Meets : k[1] = c[2] + Step
    BY <1>1, <1>2, <1>4
  <2>2. j[1] < c[1]
    <3>1. CASE j[1] = w[1] /\ ~CoversStamp(C, j[1])
      <4>1. ~(c[1] <= w[1] /\ w[1] <= c[2])
        BY <3>1 DEF CoversStamp, Spanned
      <4> QED BY <1>1, <1>3, <3>1, <4>1
    <3>2. CASE \E d \in Meets : j[1] = d[2] + Step
      <4>1. PICK d \in Meets : j[1] = d[2] + Step
        BY <3>2
      <4>2. c = d \/ c[2] + Step < d[1] \/ d[2] + Step < c[1]
        BY Separated
      <4> QED BY <1>1, <1>3, <1>4, <2>1, <4>1, <4>2
    <3> QED BY <1>2, <3>1, <3>2
  <2>3. PICK n \in Beyond(j[1]) : n[1] <= c[1] /\ j[2] = Lesser(n[1] - Step, w[2])
    BY <1>2, <2>2
  <2>4. j[2] <= n[1] - Step
    BY <1>1, <1>3, <2>3 DEF Lesser
  <2> QED BY <1>1, <1>2, <1>3, <1>4, <2>1, <2>3, <2>4
<1>5. g[1] = h[1]
  <2>1. ~(g[1] < h[1]) /\ ~(h[1] < g[1])
    BY <1>4 DEF Spanned
  <2> QED BY <1>2, <2>1
<1>6. g[2] = h[2]
  <2>1. End(g) /\ End(h)
    BY <1>2
  <2>2. CASE Beyond(g[1]) = {}
    BY <1>5, <2>1, <2>2
  <2>3. CASE Beyond(g[1]) # {}
    <3>1. PICK n \in Beyond(g[1]) : /\ \A m \in Beyond(g[1]) : n[1] <= m[1]
                                  /\ g[2] = Lesser(n[1] - Step, w[2])
      BY <2>1, <2>3
    <3>2. PICK k \in Beyond(g[1]) : /\ \A m \in Beyond(g[1]) : k[1] <= m[1]
                                  /\ h[2] = Lesser(k[1] - Step, w[2])
      BY <1>5, <2>1, <2>3
    <3>3. n[1] = k[1]
      <4>1. n[1] <= k[1] /\ k[1] <= n[1] /\ n[1] \in Int /\ k[1] \in Int
        BY <1>3, <3>1, <3>2
      <4> QED BY <4>1
    <3> QED BY <3>1, <3>2, <3>3
  <2> QED BY <2>2, <2>3
<1> QED BY <1>2, <1>5, <1>6

\* Every bar of the window is covered or lies in a gap.
LEMMA GapsAreEnough ==
    ASSUME NEW R \in SUBSET GridRange, NEW w \in GridRange, NEW t \in Grid,
           Spanned(w, t), ~CoversStamp(R, t)
    PROVE  \E g \in Subtract(w, R, Step) : Spanned(g, t)
<1> DEFINE C == Coalesce(R, Step)
           Meets == {c \in C : c[2] >= w[1] /\ c[1] <= w[2]}
           Cursors == {b \in {w[1]} : ~CoversStamp(C, b)} \cup {c[2] + Step : c \in Meets}
           Beyond(b) == {c \in Meets : c[1] > b}
           Early == \E c \in Meets : c[2] + Step > w[2]
           Reached == {b \in Cursors : b <= t}
<1>1. /\ Step \in Nat /\ Step > 0 /\ t \in Int /\ w[1] \in Nat /\ w[2] \in Nat
      /\ w[1] <= t /\ t <= w[2]
  BY CacheBounds, GridRangeType, GridArithmetic DEF Spanned
<1>2. \A c \in C : /\ c[1] \in Nat /\ c[2] \in Nat /\ c[1] <= c[2]
                   /\ c[1] \in Grid /\ c[2] \in Grid
  BY CoalesceOnGrid, GridRangeType
\* On the grid, what starts at or before the stamp ends a step before it.
<1>3. \A c \in C : c[1] <= t => c[2] + Step <= t
  <2> SUFFICES ASSUME NEW c \in C, c[1] <= t PROVE c[2] + Step <= t
    OBVIOUS
  <2>1. ~CoversStamp(C, t)
    BY CoalesceExact
  <2>2. c[2] < t
    BY <1>1, <1>2, <2>1 DEF CoversStamp, Spanned
  <2> QED BY <1>2, <2>2, GridArithmetic
<1> HIDE DEF C
<1>4. Reached \in SUBSET Int /\ Reached # {}
  <2>1. Cursors \in SUBSET Int
    BY <1>1, <1>2
  <2>2. CASE ~CoversStamp(C, w[1])
    <3>1. w[1] \in Reached
      BY <1>1, <2>2
    <3> QED BY <2>1, <3>1
  <2>3. CASE CoversStamp(C, w[1])
    <3>1. PICK c \in C : c[1] <= w[1] /\ w[1] <= c[2]
      BY <2>3 DEF CoversStamp, Spanned
    <3>2. c \in Meets /\ c[2] + Step <= t
      BY <1>1, <1>2, <1>3, <3>1
    <3>3. c[2] + Step \in Reached
      BY <3>2
    <3> QED BY <2>1, <3>3
  <2> QED BY <2>2, <2>3
<1>5. PICK b \in Reached : \A a \in Reached : a <= b
  <2>1. \A a \in Reached : a <= t
    OBVIOUS
  <2> HIDE DEF Reached
  <2> QED BY <1>1, <1>4, <2>1, Largest
<1>6. b \in Int /\ b \in Cursors /\ b <= t
  BY <1>4
<1>7. CASE Beyond(b) = {}
  <2>1. <<b, w[2]>> \in Subtract(w, R, Step)
    BY <1>1, <1>6, <1>7 DEF Subtract, C
  <2>2. Spanned(<<b, w[2]>>, t)
    BY <1>1, <1>6 DEF Spanned
  <2> QED BY <2>1, <2>2
<1>8. CASE Beyond(b) # {}
  <2>1. PICK n \in Beyond(b) : \A m \in Beyond(b) : n[1] <= m[1]
    <3> DEFINE T == {c[1] : c \in Beyond(b)}
    <3>1. T \in SUBSET Nat /\ T # {}
      BY <1>2, <1>8
    <3>2. PICK e \in T : \A f \in T : e <= f
      <4> HIDE DEF T
      <4> QED BY <3>1, Smallest
    <3>3. PICK n \in Beyond(b) : e = n[1]
      BY <3>2
    <3> QED BY <3>2, <3>3
  <2>2. n \in Meets /\ n[1] > b /\ n[1] \in Nat /\ n[2] \in Nat /\ n[1] \in Grid
        /\ n[1] <= n[2]
    BY <1>2
  <2>3. t < n[1]
    <3> SUFFICES ASSUME n[1] <= t PROVE FALSE
      BY <1>1, <2>2
    <3>1. n[2] + Step <= t /\ n[2] + Step \in Cursors
      BY <1>3, <2>2
    <3>2. n[2] + Step <= b
      BY <1>5, <3>1
    <3> QED BY <1>1, <1>6, <2>2, <3>2
  <2>4. t + Step <= n[1]
    BY <2>2, <2>3, GridArithmetic
  <2> DEFINE last == Lesser(n[1] - Step, w[2])
  <2>5. b <= last /\ t <= last /\ last \in Int
    BY <1>1, <1>6, <2>2, <2>4 DEF Lesser
  <2>6. <<b, last>> \in Subtract(w, R, Step)
    <3>1. last \in {Lesser(c[1] - Step, w[2]) : c \in Meets}
      BY <2>2
    <3>2. b <= w[2] /\ w[1] <= w[2]
      BY <1>1, <1>6
    <3> HIDE DEF last
    <3>3. last = Lesser(n[1] - Step, w[2])
      BY DEF last
    <3> QED BY <1>6, <2>1, <2>5, <3>1, <3>2, <3>3 DEF Subtract, C
  <2>7. Spanned(<<b, last>>, t)
    BY <1>6, <2>5 DEF Spanned
  <2> QED BY <2>6, <2>7
<1> QED BY <1>7, <1>8

----------------------------------------------------------------------------
\* What the cache does with ranges: the unfinished tail, the range on the wire.

\* Bars, windows and days are made of whole steps: so they are for daily bars,
\* and for intraday bars whose width divides the day.
OnGrid ==
    /\ BarTimes \subseteq Grid
    /\ \A w \in Windows : w[1] \in Grid /\ w[2] \in Grid
    /\ Step < DayLen => DayLen \in Grid

OnGridCall(x) ==
    /\ x.win \in GridRange /\ x.win[2] <= MaxTime
    /\ x.eff \in SUBSET GridRange
    /\ x.plan \in SUBSET {g \in GridRange : g[2] <= MaxTime}
    /\ x.logged \in SUBSET GridRange

LEMMA BoundaryOnGrid ==
    ASSUME NEW x \in ReqType
    PROVE  Boundary(x) \in Grid
<1>1. x.asked \in Int /\ Step \in Nat \ {0}
  BY CacheBounds DEF ReqType, Times
<1>2. x.asked \div Step \in Int
  BY <1>1, Quotient
<1>3. (x.asked \div Step) * Step \in Grid
  BY <1>2 DEF Grid
<1> QED BY <1>3, GridArithmetic DEF Boundary, LastCompleteBoundary

LEMMA TrimOnGrid ==
    ASSUME NEW r \in GridRange, NEW b \in Grid
    PROVE  TrimTail(r, b) \in SUBSET GridRange
<1>1. r[1] \in Grid /\ r[2] \in Grid /\ r[1] \in Nat /\ r[2] \in Nat
      /\ r[1] <= r[2] /\ r[2] <= Horizon /\ b \in Int /\ Horizon \in Int
  BY GridRangeType, GridArithmetic, CacheBounds DEF Horizon
<1>2. CASE r[1] > b
  BY <1>2 DEF TrimTail
<1>3. CASE r[1] <= b
  <2> DEFINE last == Lesser(r[2], b)
  <2>1. last \in Grid /\ r[1] <= last /\ last <= r[2] /\ last \in Int
    BY <1>1, <1>3 DEF Lesser
  <2>2. TrimTail(r, b) = {<<r[1], last>>}
    BY <1>1, <1>3 DEF TrimTail
  <2> HIDE DEF last
  <2> QED BY <1>1, <2>1, <2>2 DEF GridRange
<1> QED BY <1>1, <1>2, <1>3

\* A clipped range covers what the range does, up to the boundary.
LEMMA TrimCovers ==
    ASSUME NEW r \in GridRange, NEW b \in Int, NEW t \in Int
    PROVE  CoversStamp(TrimTail(r, b), t) <=> Spanned(r, t) /\ t <= b
<1>1. r[1] \in Nat /\ r[2] \in Nat
  BY GridRangeType
<1>2. CASE r[1] > b
  <2>1. TrimTail(r, b) = {}
    BY <1>2 DEF TrimTail
  <2> QED BY <1>1, <1>2, <2>1 DEF CoversStamp, Spanned
<1>3. CASE r[1] <= b
  <2> DEFINE c == <<r[1], Lesser(r[2], b)>>
  <2>1. TrimTail(r, b) = {c}
    BY <1>1, <1>3 DEF TrimTail
  <2>2. Spanned(c, t) <=> Spanned(r, t) /\ t <= b
    BY <1>1, <1>3 DEF Spanned, Lesser
  <2> HIDE DEF c
  <2> QED BY <2>1, <2>2 DEF CoversStamp
<1> QED BY <1>1, <1>2, <1>3

\* The start of a day is on the grid when days are made of whole steps.
LEMMA DayOnGrid ==
    ASSUME OnGrid, Step < DayLen, NEW a \in Grid, a >= 0
    PROVE  /\ DayStart(a, DayLen) \in Grid /\ DayStart(a, DayLen) \in Nat
           /\ DayStart(a, DayLen) <= a
           /\ DayStart(a, DayLen) + DayLen - Step \in Grid
           /\ a <= DayStart(a, DayLen) + DayLen - Step
<1>1. a \in Int /\ DayLen \in Nat \ {0} /\ Step \in Nat /\ DayLen \in Grid
  BY CacheBounds, GridArithmetic DEF OnGrid
<1>2. PICK k \in Int : DayLen = k * Step
  BY <1>1 DEF Grid
<1> DEFINE n == a \div DayLen
<1>3. n \in Int /\ n * DayLen \in Int /\ n * DayLen <= a /\ a < n * DayLen + DayLen
      /\ n * DayLen >= 0
  BY <1>1, Quotient
<1> HIDE DEF n
<1>4. n * DayLen = (n * k) * Step /\ n * k \in Int
  BY <1>1, <1>2, <1>3
<1>5. n * DayLen \in Grid
  BY <1>4 DEF Grid
<1>6. n * DayLen + DayLen \in Grid /\ n * DayLen + DayLen - Step \in Grid
  BY <1>1, <1>5, GridArithmetic
<1>7. a + Step <= n * DayLen + DayLen
  BY <1>3, <1>6, GridArithmetic
<1> QED BY <1>1, <1>3, <1>5, <1>6, <1>7 DEF DayStart, n

\* The range on the wire is on the grid and spans the gap.
LEMMA WireOnGrid ==
    ASSUME OnGrid, NEW x \in ReqType, OnGridCall(x), x.plan # {}
    PROVE  /\ Gap(x) \in x.plan /\ Gap(x) \in GridRange /\ Gap(x)[2] <= MaxTime
           /\ Wire(x) \in GridRange
           /\ Wire(x)[1] <= FetchStart(x) /\ FetchStart(x) <= Gap(x)[1]
           /\ Gap(x)[2] <= Wire(x)[2]
           /\ FetchStart(x) \in Grid /\ FetchStart(x) \in Nat
<1>1. Gap(x) \in x.plan /\ FetchStart(x) \in Nat /\ Wire(x) \in Range2
  BY WireType
<1>2. Gap(x) \in GridRange /\ Gap(x)[2] <= MaxTime
  BY <1>1 DEF OnGridCall
<1> DEFINE g == Gap(x)
           f == FetchStart(x)
<1>3. /\ g[1] \in Grid /\ g[2] \in Grid /\ g[1] \in Nat /\ g[2] \in Nat
      /\ g[1] <= g[2] /\ MaxTime \in Nat /\ DayLen \in Nat /\ Step \in Nat /\ Step > 0
  BY <1>2, GridRangeType, CacheBounds
<1>4. f \in Grid /\ f <= g[1]
  <2>1. CASE x.eff = {}
    BY <1>3, <2>1 DEF FetchStart
  <2>2. CASE x.eff # {}
    <3> DEFINE e == Earliest(x.eff)
               reach == g[1] - Step * OverlapBars
    <3>1. e \in GridRange
      BY <2>2, EarliestIsMember DEF OnGridCall, ReqType
    <3>2. e[1] \in Grid /\ e[1] \in Nat
      BY <3>1, GridRangeType
    <3>3. Step * OverlapBars \in Grid
      <4>1. Step * OverlapBars = OverlapBars * Step /\ OverlapBars \in Int
        BY CacheBounds
      <4> QED BY <4>1 DEF Grid
    <3>4. reach \in Grid /\ reach \in Int
      BY <1>3, <3>3, GridArithmetic
    <3>5. f = g[1] \/ (f = Greater(e[1], reach) /\ f < g[1])
      BY DEF FetchStart
    <3> HIDE DEF e, reach, f, g
    <3> QED BY <1>3, <3>2, <3>4, <3>5 DEF Greater
  <2> QED BY <2>1, <2>2
<1> HIDE DEF f, g
<1>5. CASE Step >= DayLen
  <2>1. Wire(x) = <<f, g[2]>>
    BY <1>5 DEF Wire, DayRange, f, g
  <2>2. f \in Nat /\ f <= g[2] /\ g[2] <= Horizon
    BY <1>1, <1>2, <1>3, <1>4 DEF Horizon, f, g
  <2>3. Wire(x) \in GridRange
    BY <1>3, <1>4, <2>1, <2>2 DEF GridRange
  <2> QED BY <1>1, <1>2, <1>3, <1>4, <2>1, <2>2, <2>3 DEF f, g
<1>6. CASE Step < DayLen
  <2> DEFINE lo == DayStart(f, DayLen)
             hi == DayStart(g[2], DayLen) + DayLen - Step
  <2>1. Wire(x) = <<lo, hi>>
    BY <1>3, <1>6 DEF Wire, DayRange, f, g
  <2>2. f \in Nat
    BY <1>1 DEF f
  <2>3. lo \in Grid /\ lo \in Nat /\ lo <= f
    BY <1>4, <1>6, <2>2, DayOnGrid
  <2>4. hi \in Grid /\ g[2] <= hi
    BY <1>3, <1>6, DayOnGrid
  <2>5. hi <= g[2] + DayLen - Step
    <3>1. DayStart(g[2], DayLen) <= g[2] /\ DayStart(g[2], DayLen) \in Nat
      BY <1>3, <1>6, DayOnGrid
    <3> QED BY <1>3, <3>1
  <2> HIDE DEF lo, hi
  <2>6. hi \in Int
    BY <2>4, GridArithmetic
  <2>7. lo <= hi /\ hi <= Horizon
    BY <1>2, <1>3, <1>4, <2>2, <2>3, <2>4, <2>5, <2>6 DEF Horizon, g
  <2>8. Wire(x) \in GridRange
    BY <2>1, <2>3, <2>4, <2>7 DEF GridRange
  <2> QED BY <1>1, <1>2, <1>4, <2>1, <2>2, <2>3, <2>4, <2>8 DEF f, g
<1> QED BY <1>3, <1>5, <1>6

\* The days on the wire hold the range they are computed from.
LEMMA WireReaches ==
    ASSUME NEW r \in Range2, NEW t \in Int, Spanned(r, t)
    PROVE  Spanned(WireBounds(r, DayLen), t)
<1>1. r[1] \in Int /\ r[2] \in Int /\ DayLen \in Nat \ {0}
  BY CacheBounds DEF Range2
<1> DEFINE lo == DayStart(r[1], DayLen)
           hi == DayStart(r[2], DayLen)
<1>2. lo \in Int /\ lo <= r[1] /\ hi \in Int /\ r[2] < hi + DayLen
  BY <1>1, Quotient DEF DayStart
<1>3. WireBounds(r, DayLen) = <<lo, hi + DayLen - 1>>
  BY DEF WireBounds
<1> HIDE DEF lo, hi
<1> QED BY <1>1, <1>2, <1>3 DEF Spanned

----------------------------------------------------------------------------
\* What one request's step does to another: nothing, its key is locked.

Stock(x) == bars[TableOf[x.sym]]

\* Two calls under way have different keys: each holds its key's lock.
OneHolder ==
    \A r, o \in Requests :
        req[r].pc \in Active /\ req[o].pc \in Active /\ req[r].sym = req[o].sym => r = o

SameCall(y, x) ==
    /\ y.pc = x.pc /\ y.sym = x.sym /\ y.win = x.win /\ y.asked = x.asked
    /\ y.backstop = x.backstop /\ y.eff = x.eff /\ y.plan = x.plan
    /\ y.batch = x.batch /\ y.overlap = x.overlap /\ y.got = x.got
    /\ y.logged = x.logged /\ y.served = x.served /\ y.via = x.via
    /\ y.extends = x.extends

\* What a step may do to a request that does not move in it.
Beside(o) ==
    /\ SameCall(req'[o], req[o])
    /\ req[o].disturbed => req'[o].disturbed
    /\ req'[o].steady => req[o].steady
    /\ clock <= clock'
    /\ req[o].pc \in Active =>
         /\ ~req'[o].disturbed => bars'[TableOf[req[o].sym]] = Stock(req[o])
         /\ req'[o].steady => rev'[req[o].sym] = rev[req[o].sym]

Moves(r) == Advance(r) \/ \E s \in Symbols, w \in Windows : Begin(r, s, w)

LEMMA Bystanders ==
    ASSUME Unaliased, TypeInv, TypeInv', OneHolder, NEW o \in Requests,
           Environment \/ \E r \in Requests \ {o} : Moves(r)
    PROVE  Beside(o)
<1>1. /\ req \in [Requests -> ReqType] /\ req[o] \in ReqType /\ req[o].sym \in Symbols
      /\ bars \in [Tables -> Series] /\ rev \in [Symbols -> 0..MaxRev]
      /\ clock \in Int /\ clock' \in Int
      /\ TableOf[req[o].sym] \in Tables
      /\ req[o].disturbed \in BOOLEAN /\ req[o].steady \in BOOLEAN
  BY CacheBounds DEF TypeInv, TypeOK, ReqType, Times
<1>2. CASE QDies
  <2>1. /\ req'[o] = [req[o] EXCEPT !.disturbed = @ \/ req[o].pc \in Active]
        /\ rev' = rev /\ clock' = clock
    BY <1>2 DEF QDies
  <2>2. SameCall(req'[o], req[o]) /\ req'[o].steady = req[o].steady
        /\ (req'[o].disturbed <=> req[o].disturbed \/ req[o].pc \in Active)
    BY <1>1, <2>1 DEF SameCall, ReqType
  <2> QED BY <1>1, <2>1, <2>2 DEF Beside
<1>3. CASE QReturns \/ Tick
  <2>1. bars' = bars /\ req' = req /\ rev' = rev /\ clock <= clock'
    BY <1>1, <1>3 DEF QReturns, Tick, store
  <2> QED BY <2>1 DEF Beside, SameCall, Stock
<1>4. ASSUME NEW s \in Symbols, CorporateAction(s) PROVE Beside(o)
  <2>1. /\ req'[o] = [req[o] EXCEPT !.steady = @ /\ ~(req[o].pc \in Active /\ req[o].sym = s)]
        /\ bars' = bars /\ clock' = clock
        /\ rev' = [rev EXCEPT ![s] = @ + 1]
    BY <1>4 DEF CorporateAction, store
  <2>2. SameCall(req'[o], req[o]) /\ req'[o].disturbed = req[o].disturbed
        /\ (req'[o].steady <=> req[o].steady /\ ~(req[o].pc \in Active /\ req[o].sym = s))
    BY <1>1, <2>1 DEF SameCall, ReqType
  <2>3. req[o].sym # s => rev'[req[o].sym] = rev[req[o].sym]
    BY <1>1, <2>1
  <2> QED BY <1>1, <2>1, <2>2, <2>3 DEF Beside, Stock
<1>5. ASSUME NEW r \in Requests \ {o}, Moves(r) PROVE Beside(o)
  <2>1. CASE \E ticks \in 0..MaxOther : Settle(r, ticks)
    <3>1. PICK evicted \in SUBSET Symbols :
            /\ Drop(evicted) /\ UNCHANGED world
            /\ req' = [p \in Requests |->
                     [req[p] EXCEPT
                        !.pc = IF p = r THEN "serve" ELSE @,
                        !.disturbed = @ \/ (req[p].pc \in Active /\
                                            TableOf[req[p].sym] \in {TableOf[k] : k \in evicted})]]
      BY <2>1 DEF Settle
    <3> DEFINE hit == TableOf[req[o].sym] \in {TableOf[k] : k \in evicted}
    <3>2. req'[o] = [req[o] EXCEPT !.pc = @,
                        !.disturbed = @ \/ (req[o].pc \in Active /\ hit)]
      BY <3>1
    <3>3. ~hit => bars'[TableOf[req[o].sym]] = bars[TableOf[req[o].sym]]
      BY <1>1, <3>1 DEF Drop
    <3> HIDE DEF hit
    <3>4. SameCall(req'[o], req[o]) /\ req'[o].steady = req[o].steady
          /\ (req'[o].disturbed <=> req[o].disturbed \/ (req[o].pc \in Active /\ hit))
      BY <1>1, <3>2 DEF SameCall, ReqType
    <3>5. rev' = rev /\ clock' = clock
      BY <3>1 DEF world
    <3> QED BY <1>1, <3>3, <3>4, <3>5 DEF Beside, Stock
  <2>2. CASE ~(\E ticks \in 0..MaxOther : Settle(r, ticks))
    <3>1. req'[o] = req[o] /\ rev' = rev /\ clock' = clock
      <4>1. req'[o] = req[o]
        <5>1. CASE ReadCoverage(r)
          BY <1>1, <5>1 DEF ReadCoverage
        <5>2. CASE FetchReturns(r)
          BY <1>1, <5>2 DEF FetchReturns
        <5>3. CASE RecordCoverage(r)
          <6>1. PICK y : req' = [req EXCEPT ![r] = y]
            BY <5>3 DEF RecordCoverage
          <6> QED BY <1>1, <6>1
        <5>4. CASE WriteBars(r) \/ Serve(r) \/ Degrade(r) \/ FetchFails(r)
          BY <1>1, <5>4 DEF WriteBars, Serve, Degrade, FetchFails
        <5>5. CASE BypassPlan(r) \/ BypassReturns(r) \/ BypassFails(r)
          BY <1>1, <5>5 DEF BypassPlan, BypassReturns, BypassFails
        <5>6. CASE \E s \in Symbols, w \in Windows : Begin(r, s, w)
          BY <1>1, <5>6 DEF Begin
        <5> QED BY <1>5, <2>2, <5>1, <5>2, <5>3, <5>4, <5>5, <5>6 DEF Moves, Advance
      <4>2. UNCHANGED world
        BY <1>5, <2>2 DEF Moves, Advance, Begin, Degrade, ReadCoverage, FetchReturns,
               FetchFails, WriteBars, RecordCoverage, Serve, BypassPlan, BypassReturns,
               BypassFails
      <4> QED BY <1>1, <4>1, <4>2 DEF world
    <3>2. req[o].pc \in Active => bars'[TableOf[req[o].sym]] = Stock(req[o])
      <4> SUFFICES ASSUME req[o].pc \in Active PROVE bars'[TableOf[req[o].sym]] = Stock(req[o])
        OBVIOUS
      <4>1. req[r].sym \in Symbols
        BY <1>1 DEF ReqType
      <4>2. req[r].pc \in Active => TableOf[req[r].sym] # TableOf[req[o].sym]
        BY <1>1, <4>1 DEF OneHolder, Unaliased
      <4>3. CASE WriteBars(r)
        <5>1. req[r].pc \in Active /\ bars' = [bars EXCEPT ![TableOf[req[r].sym]] = Upsert(@, req[r].batch)]
          BY <4>3 DEF WriteBars, Active, Sync
        <5> QED BY <1>1, <4>2, <5>1 DEF Stock
      <4>4. CASE RecordCoverage(r)
        <5>1. req[r].pc \in Active /\ (bars' = bars \/ Drop({req[r].sym}))
          BY <4>4 DEF RecordCoverage, Active, Sync
        <5> QED BY <1>1, <4>2, <5>1 DEF Stock, Drop
      <4>5. CASE ~WriteBars(r) /\ ~RecordCoverage(r)
        <5>1. bars' = bars
          BY <1>5, <2>2, <4>5 DEF Moves, Advance, Begin, Degrade, ReadCoverage, FetchReturns,
                 FetchFails, Serve, BypassPlan, BypassReturns, BypassFails, store
        <5> QED BY <5>1 DEF Stock
      <4> QED BY <4>3, <4>4, <4>5
    <3> QED BY <1>1, <3>1, <3>2 DEF Beside, SameCall
  <2> QED BY <2>1, <2>2
<1> QED BY <1>2, <1>3, <1>4, <1>5 DEF Environment

LEMMA SameGap ==
    ASSUME NEW x, NEW y, y.plan = x.plan, y.eff = x.eff, y.backstop = x.backstop
    PROVE  /\ Gap(y) = Gap(x) /\ (IsLastGap(y) <=> IsLastGap(x))
           /\ FetchStart(y) = FetchStart(x) /\ (Compares(y) <=> Compares(x))
<1>1. Gap(y) = Gap(x)
  BY DEF Gap
<1>2. FetchStart(y) = FetchStart(x)
  BY <1>1 DEF FetchStart, IsLastGap
<1> QED BY <1>1, <1>2 DEF Compares, IsLastGap

\* The step keeps every key's lock with its holder, or lets one more request in.
LEMMA LockKept ==
    ASSUME OneHolder, NEW r \in Requests,
           \A o \in Requests \ {r} : req'[o].pc = req[o].pc /\ req'[o].sym = req[o].sym,
           req'[r].pc \in Active => \/ req[r].pc \in Active /\ req'[r].sym = req[r].sym
                                    \/ ~Held(req'[r].sym)
    PROVE  OneHolder'
BY DEF OneHolder, Held

----------------------------------------------------------------------------
\* The invariant of answers: where each bar of the window is while the call goes on.

Looping == {"fetch", "write", "record", "settle", "serve"}

Wanted(x, t) == Spanned(x.win, t) /\ t <= x.asked

\* Out of the loop no gap is left, and no label says "bypass" before a bypass.
Stage(x) ==
    /\ x.pc \in {"settle", "serve"} => x.plan = {}
    /\ x.pc \in Looping \cup {"read"} => x.via # "bypass"

\* What was fetched is kept for the bypass.
Paid(x) ==
    x.pc \in Active =>
        \A t \in BarTimes : CoversStamp(x.logged, t) /\ t <= x.asked => x.got[t] # NoRow

\* The bypass fetches the rest of the window, each bar once.
Refetching(x) ==
    x.pc = "refetch" =>
        /\ \A t \in BarTimes :
              Wanted(x, t) => CoversStamp(x.logged, t) \/ CoversStamp(x.plan, t)
        /\ \A g \in x.plan, t \in BarTimes : Spanned(g, t) => ~CoversStamp(x.logged, t)
        /\ \A g, h \in x.plan, t \in BarTimes : Spanned(g, t) /\ Spanned(h, t) => g = h

Fetched(x) ==
    x.pc = "write" =>
        \A t \in BarTimes : Spanned(Gap(x), t) /\ t <= x.asked => x.batch[t] # NoRow

\* Each bar of the window is in the table or in a gap still to be fetched.
Stored(x, rows) ==
    ~x.disturbed =>
        /\ x.pc \in Looping => \A t \in BarTimes :
              Wanted(x, t) => rows[t] # NoRow \/ CoversStamp(x.plan, t)
        /\ x.pc = "record" => \A t \in BarTimes :
              Spanned(Gap(x), t) /\ t <= x.asked => rows[t] # NoRow

Answers(x) ==
    x.pc = "done" => Complete(x) \/ (x.disturbed /\ x.via # "bypass")

ServeCall(x) ==
    /\ Stage(x) /\ Paid(x) /\ Refetching(x) /\ Fetched(x) /\ Stored(x, Stock(x))
    /\ Answers(x)

GridInv ==
    /\ \A s \in Symbols : cov[s] \in SUBSET GridRange
    /\ \A r \in Requests : OnGridCall(req[r])

ServeInv ==
    /\ IInv /\ GridInv /\ OneHolder
    /\ \A r \in Requests : ServeCall(req[r])

LEMMA AfterStep ==
    ASSUME NEW o \in Requests, NEW y, y = req'[o], OnGridCall(y), Stage(y), Paid(y),
           Refetching(y), Fetched(y), Stored(y, bars'[TableOf[y.sym]]), Answers(y)
    PROVE  OnGridCall(req[o])' /\ ServeCall(req[o])'
BY DEF OnGridCall, ServeCall, Stage, Paid, Refetching, Fetched, Stored, Answers,
       Complete, Wanted, Gap, Stock

LEMMA BesideServes ==
    ASSUME NEW o \in Requests, Beside(o), TypeInv,
           OnGridCall(req[o]), ServeCall(req[o])
    PROVE  OnGridCall(req[o])' /\ ServeCall(req[o])'
<1> DEFINE x == req[o]
           y == req'[o]
<1>1. SameCall(y, x) /\ (x.disturbed => y.disturbed)
      /\ (x.pc \in Active /\ ~y.disturbed => bars'[TableOf[x.sym]] = bars[TableOf[x.sym]])
  BY DEF Beside, Stock
<1>2. Gap(y) = Gap(x)
  BY <1>1, SameGap DEF SameCall
<1>3. OnGridCall(x) /\ ServeCall(x)
  OBVIOUS
<1>4. Stock(x)' = bars'[TableOf[y.sym]]
  BY DEF Stock
<1>5. x.pc \in Looping => x.pc \in Active
  BY DEF Looping, Active, Sync, Await
<1>6. OnGridCall(y)
  <2> HIDE DEF x, y
  <2> QED BY <1>1, <1>3 DEF OnGridCall, SameCall
<1>7. Stage(y) /\ Paid(y) /\ Refetching(y)
  <2> HIDE DEF x, y
  <2> QED BY <1>1, <1>3 DEF ServeCall, SameCall, Stage, Paid, Refetching, Wanted
<1>8. Fetched(y)
  <2> HIDE DEF x, y
  <2> QED BY <1>1, <1>2, <1>3 DEF ServeCall, SameCall, Fetched
<1>9. Answers(y)
  <2> HIDE DEF x, y
  <2> QED BY <1>1, <1>3 DEF ServeCall, SameCall, Answers, Complete
<1>10. Stored(y, bars'[TableOf[y.sym]])
  <2> DEFINE old == bars[TableOf[x.sym]]
             new == bars'[TableOf[y.sym]]
  <2>1. ~y.disturbed /\ x.pc \in Looping => new = old
    BY <1>1, <1>5 DEF SameCall
  <2>2. Stored(x, old)
    BY <1>3 DEF ServeCall, Stock
  <2> HIDE DEF x, y, old, new
  <2> SUFFICES Stored(y, new)
    BY DEF new
  <2> QED BY <1>1, <1>2, <2>1, <2>2 DEF Stored, Wanted, Looping, SameCall
<1> HIDE DEF x
<1> QED BY <1>6, <1>7, <1>8, <1>9, <1>10, AfterStep

----------------------------------------------------------------------------
\* One lemma per action: the call it moves keeps the invariant.

\* What a request's own step must show: the call as the step leaves it, the
\* coverage on the grid, the lock with its holder.
Keeps(r) ==
    /\ OnGridCall(req[r])' /\ ServeCall(req[r])'
    /\ \A s \in Symbols : cov'[s] \in SUBSET GridRange
    /\ req'[r].pc \in Active => \/ req[r].pc \in Active /\ req'[r].sym = req[r].sym
                                \/ ~Held(req'[r].sym)

LEMMA CallFacts ==
    ASSUME ServeInv, NEW r \in Requests
    PROVE  /\ req[r] \in ReqType /\ OnGridCall(req[r]) /\ ServeCall(req[r])
           /\ HasGap(req[r]) /\ req[r].sym \in Symbols
           /\ req[r].asked \in Int /\ clock \in Int /\ req[r].asked <= clock
           /\ req \in [Requests -> ReqType] /\ TypeOK /\ TypeInv
           /\ TableOf[req[r].sym] \in Tables /\ Stock(req[r]) \in Series
           /\ \A s \in Symbols : cov[s] \in SUBSET GridRange
BY CacheBounds DEF ServeInv, GridInv, IInv, TypeInv, TypeOK, AskedInThePast, ReqType,
                   Times, Stock

LEMMA BarTimesType ==
    ASSUME OnGrid, NEW t \in BarTimes
    PROVE  t \in Times /\ t \in Grid /\ t \in Int /\ t \in Nat
BY CacheBounds DEF OnGrid, Times

LEMMA BeginServes ==
    ASSUME OnGrid, ServeInv, NEW r \in Requests, NEW s \in Symbols, NEW w \in Windows,
           Begin(r, s, w)
    PROVE  Keeps(r)
<1> DEFINE y == [Idle EXCEPT !.pc = "read", !.sym = s, !.win = w, !.asked = clock]
<1>1. y = req'[r] /\ cov' = cov /\ ~Held(s)
  BY CallFacts DEF Begin, store
<1>2. y.pc = "read" /\ y.plan = {} /\ y.eff = {} /\ y.logged = {} /\ y.win = w
      /\ y.via = "none" /\ y.sym = s
  BY DEF Idle
<1>3. w \in GridRange /\ w[2] <= MaxTime
  <2>1. w \in Times \X Times /\ w[1] <= w[2] /\ w[1] \in Grid /\ w[2] \in Grid
    BY CacheBounds DEF OnGrid
  <2>2. w[2] <= MaxTime /\ w[1] >= 0 /\ w[2] <= Horizon
    BY <2>1, CacheBounds DEF Times, Horizon
  <2> QED BY <2>1, <2>2 DEF GridRange
<1> HIDE DEF y
<1>4. OnGridCall(y)
  BY <1>2, <1>3 DEF OnGridCall
<1>5. Stage(y) /\ Paid(y) /\ Refetching(y) /\ Fetched(y) /\ Answers(y)
      /\ Stored(y, bars'[TableOf[y.sym]])
  BY <1>2 DEF Stage, Paid, Refetching, Fetched, Answers, Stored, Looping, CoversStamp
<1> QED BY <1>1, <1>2, <1>4, <1>5, AfterStep, CallFacts DEF Keeps

LEMMA DegradeServes ==
    ASSUME ServeInv, NEW r \in Requests, Degrade(r) \/ FetchFails(r)
    PROVE  Keeps(r)
<1> DEFINE x == req[r]
           y == [x EXCEPT !.pc = "bypass"]
<1>1. y = req'[r] /\ cov' = cov /\ x.pc \in Active
  BY CallFacts DEF Degrade, FetchFails, NeedsQ, store, Active, Sync, Await
<1>2. y.pc = "bypass" /\ y.plan = x.plan /\ y.eff = x.eff /\ y.logged = x.logged
      /\ y.win = x.win /\ y.got = x.got /\ y.asked = x.asked /\ y.sym = x.sym
  BY CallFacts DEF ReqType
<1>3. OnGridCall(x) /\ Paid(x)
  BY CallFacts DEF ServeCall
<1> HIDE DEF y, x
<1>4. OnGridCall(y)
  BY <1>2, <1>3 DEF OnGridCall
<1>5. Stage(y) /\ Paid(y) /\ Refetching(y) /\ Fetched(y) /\ Answers(y)
      /\ Stored(y, bars'[TableOf[y.sym]])
  BY <1>1, <1>2, <1>3 DEF Stage, Paid, Refetching, Fetched, Answers, Stored, Looping
<1> QED BY <1>1, <1>2, <1>4, <1>5, AfterStep, CallFacts DEF Keeps, x

\* The cached part of a request, as _pass finds it.
Found(x) == UNION {TrimTail(c, Boundary(x)) : c \in Coalesce(cov[x.sym], Step)}

LEMMA ReadCoverageCall ==
    ASSUME TypeInv, NEW r \in Requests, ReadCoverage(r)
    PROVE  LET x == req[r]
               y == req'[r]
               plan == Subtract(x.win, Found(x), Step)
           IN  /\ x.pc = "read" /\ y.pc = (IF plan = {} THEN "settle" ELSE "fetch")
               /\ y.eff = Found(x) /\ y.plan = plan
               /\ y.via \in {"hit", "partial", "miss"}
               /\ y.extends <=> IF x.backstop THEN PlainExtension(x, Found(x), plan)
                                ELSE x.extends
               /\ ~y.disturbed => ~x.disturbed /\ x.sym \notin torn
               /\ y.sym = x.sym /\ y.win = x.win /\ y.asked = x.asked
               /\ y.backstop = x.backstop /\ y.got = x.got /\ y.logged = x.logged
               /\ y.steady = x.steady /\ y.batch = x.batch /\ y.overlap = x.overlap
               /\ bars' = bars /\ cov' = cov /\ rev' = rev /\ clock' = clock
<1> DEFINE x == req[r]
           eff == Found(x)
           plan == Subtract(x.win, eff, Step)
           pc == IF plan = {} THEN "settle" ELSE "fetch"
           via == IF plan = {} THEN "hit" ELSE IF eff # {} THEN "partial" ELSE "miss"
           extends == IF x.backstop THEN PlainExtension(x, eff, plan) ELSE x.extends
           disturbed == x.disturbed \/ x.sym \in torn
           y == [x EXCEPT !.pc = pc, !.eff = eff, !.plan = plan, !.via = via,
                          !.extends = extends, !.disturbed = disturbed]
<1>1. x \in ReqType /\ req \in [Requests -> ReqType]
  BY DEF TypeInv, TypeOK
<1>2. req' = [req EXCEPT ![r] = y]
  BY <1>1, ZenonT(60) DEF ReadCoverage, Found
<1>3. x.pc = "read" /\ bars' = bars /\ cov' = cov /\ rev' = rev /\ clock' = clock
  BY DEF ReadCoverage, store, world
<1>4. via \in {"hit", "partial", "miss"}
  OBVIOUS
<1>5. y = req'[r]
  BY <1>1, <1>2
<1>6. ~disturbed => ~x.disturbed /\ x.sym \notin torn
  OBVIOUS
<1> HIDE DEF plan, eff, via, extends, disturbed, pc
<1>7. /\ y.pc = pc /\ y.eff = eff /\ y.plan = plan /\ y.via = via
      /\ y.extends = extends /\ y.disturbed = disturbed
      /\ y.sym = x.sym /\ y.win = x.win /\ y.asked = x.asked
      /\ y.backstop = x.backstop /\ y.got = x.got /\ y.logged = x.logged
      /\ y.steady = x.steady /\ y.batch = x.batch /\ y.overlap = x.overlap
  BY <1>1 DEF ReqType
<1>8. y.extends <=> IF x.backstop THEN PlainExtension(x, eff, plan) ELSE x.extends
  BY <1>7, Zenon DEF extends
<1> HIDE DEF y
<1> QED BY <1>3, <1>4, <1>5, <1>6, <1>7, <1>8 DEF plan, eff, pc

\* What the request finds cached is on the grid, and backed by rows.
LEMMA FoundIsStored ==
    ASSUME OnGrid, ServeInv, NEW r \in Requests
    PROVE  /\ Found(req[r]) \in SUBSET GridRange
           /\ \A e \in Found(req[r]) : e[2] <= Boundary(req[r])
           /\ req[r].sym \notin torn =>
                \A t \in BarTimes : CoversStamp(Found(req[r]), t)
                                      => Finished(Stock(req[r])[t])
<1> DEFINE x == req[r]
           R == cov[x.sym]
           C == Coalesce(R, Step)
           b == Boundary(x)
<1>1. R \in SUBSET GridRange /\ b \in Grid /\ b \in Int
  BY CallFacts, BoundaryOnGrid, GridArithmetic
<1>2. C \in SUBSET GridRange
  BY <1>1, CoalesceOnGrid
<1>3. Found(x) = UNION {TrimTail(c, b) : c \in C}
  BY DEF Found
<1> HIDE DEF x, b, C
<1>4. Found(x) \in SUBSET GridRange
  BY <1>1, <1>2, <1>3, TrimOnGrid
<1>5. \A e \in Found(x) : e[2] <= b
  <2> TAKE e \in Found(x)
  <2>1. PICK c \in C : e \in TrimTail(c, b)
    BY <1>3
  <2>2. e = <<c[1], Lesser(c[2], b)>> /\ c[2] \in Int
    BY <1>2, <2>1, GridRangeType DEF TrimTail
  <2> QED BY <1>1, <2>2 DEF Lesser
<1>6. ASSUME x.sym \notin torn, NEW t \in BarTimes, CoversStamp(Found(x), t)
      PROVE  Finished(Stock(x)[t])
  <2>1. t \in Grid /\ t \in Int
    BY BarTimesType
  <2>2. PICK c \in C : CoversStamp(TrimTail(c, b), t)
    BY <1>3, <1>6 DEF CoversStamp
  <2>3. Spanned(c, t)
    BY <1>1, <1>2, <2>1, <2>2, TrimCovers
  <2>4. CoversStamp(R, t)
    BY <1>1, <2>1, <2>3, CoalesceExact DEF CoversStamp, C
  <2>5. x.sym \in Symbols \ torn
    BY <1>6, CallFacts DEF x
  <2> QED BY <2>4, <2>5 DEF ServeInv, IInv, CoverageBacked, Stock
<1> QED BY <1>4, <1>5, <1>6 DEF x, b

LEMMA ReadCoverageServes ==
    ASSUME OnGrid, ServeInv, NEW r \in Requests, ReadCoverage(r)
    PROVE  Keeps(r)
<1> DEFINE x == req[r]
           y == req'[r]
           eff == Found(x)
           plan == Subtract(x.win, eff, Step)
           rows == bars[TableOf[x.sym]]
<1>1. /\ x.pc = "read" /\ y.pc = (IF plan = {} THEN "settle" ELSE "fetch")
      /\ y.eff = eff /\ y.plan = plan /\ y.via \in {"hit", "partial", "miss"}
      /\ ~y.disturbed => x.sym \notin torn
      /\ y.sym = x.sym /\ y.win = x.win /\ y.asked = x.asked
      /\ y.got = x.got /\ y.logged = x.logged
      /\ bars' = bars /\ cov' = cov
  BY CallFacts, ReadCoverageCall
<1>2. OnGridCall(x) /\ Paid(x) /\ x.win \in GridRange /\ x.win[2] <= MaxTime
  BY CallFacts DEF ServeCall, OnGridCall
<1>3. /\ eff \in SUBSET GridRange
      /\ x.sym \notin torn =>
            \A t \in BarTimes : CoversStamp(eff, t) => rows[t] # NoRow
  BY FoundIsStored DEF Stock, Finished
<1> HIDE DEF x, y, eff
<1>4. plan \in SUBSET {g \in GridRange : g[2] <= MaxTime}
  <2> SUFFICES ASSUME NEW g \in plan PROVE g \in GridRange /\ g[2] <= MaxTime
    OBVIOUS
  <2>1. g \in GridRange /\ g[2] <= x.win[2]
    BY <1>2, <1>3, SubtractOnGrid
  <2> QED BY <1>2, <2>1, GridRangeType, CacheBounds
<1>5. ASSUME x.sym \notin torn, NEW t \in BarTimes, Wanted(x, t)
      PROVE  rows[t] # NoRow \/ CoversStamp(plan, t)
  <2>1. CASE CoversStamp(eff, t)
    BY <1>3, <1>5, <2>1
  <2>2. CASE ~CoversStamp(eff, t)
    <3>1. \E g \in plan : Spanned(g, t)
      BY <1>2, <1>3, <1>5, <2>2, GapsAreEnough, BarTimesType DEF Wanted
    <3> QED BY <3>1 DEF CoversStamp
  <2> QED BY <2>1, <2>2
<1> HIDE DEF plan, rows
<1>6. OnGridCall(y)
  BY <1>1, <1>2, <1>3, <1>4 DEF OnGridCall
<1>7. Stage(y) /\ Refetching(y) /\ Fetched(y) /\ Answers(y)
  BY <1>1 DEF Stage, Refetching, Fetched, Answers, Looping
<1>8. Paid(y)
  BY <1>1, <1>2 DEF Paid, Active, Sync
<1>9. Stored(y, bars'[TableOf[y.sym]])
  BY <1>1, <1>5 DEF Stored, rows, Wanted
<1> QED BY <1>1, <1>6, <1>7, <1>8, <1>9, AfterStep, CallFacts DEF Keeps, x, y, Active, Sync

LEMMA FetchReturnsCall ==
    ASSUME TypeInv, NEW r \in Requests, FetchReturns(r)
    PROVE  LET x == req[r]
               y == req'[r]
               rows == Answer(x.sym, Wire(x))
           IN  /\ x.pc = "fetch"
               /\ y.pc = (IF Compares(x) /\ q = "down" THEN "bypass" ELSE "write")
               /\ y.batch = rows
               /\ Compares(x) /\ q = "up" =>
                    y.overlap = Within(Stock(x), FetchStart(x),
                                       Lesser(Gap(x)[1] - Step, Boundary(x)))
               /\ y.got = Upsert(x.got, rows) /\ y.logged = x.logged \cup {Wire(x)}
               /\ y.eff = x.eff /\ y.plan = x.plan /\ y.via = x.via
               /\ y.extends = x.extends /\ y.disturbed = x.disturbed
               /\ y.sym = x.sym /\ y.win = x.win /\ y.asked = x.asked
               /\ y.backstop = x.backstop /\ y.steady = x.steady
               /\ bars' = bars /\ cov' = cov /\ rev' = rev /\ clock' = clock
<1> DEFINE x == req[r]
           rows == Answer(x.sym, Wire(x))
           pc == IF Compares(x) /\ q = "down" THEN "bypass" ELSE "write"
           overlap == IF Compares(x) /\ q = "up"
                      THEN Within(bars[TableOf[x.sym]], FetchStart(x),
                                  Lesser(Gap(x)[1] - Step, Boundary(x)))
                      ELSE Empty
           got == Upsert(x.got, rows)
           logged == x.logged \cup {Wire(x)}
           y == [x EXCEPT !.pc = pc, !.batch = rows, !.overlap = overlap,
                          !.got = got, !.logged = logged]
<1>1. x \in ReqType /\ req \in [Requests -> ReqType]
  BY DEF TypeInv, TypeOK
<1>2. req' = [req EXCEPT ![r] = y]
  BY <1>1 DEF FetchReturns
<1>3. x.pc = "fetch" /\ bars' = bars /\ cov' = cov /\ rev' = rev /\ clock' = clock
  BY DEF FetchReturns, store, world
<1>4. y = req'[r]
  BY <1>1, <1>2
<1>5. Compares(x) /\ q = "up" =>
        overlap = Within(Stock(x), FetchStart(x), Lesser(Gap(x)[1] - Step, Boundary(x)))
  BY DEF Stock
<1> HIDE DEF rows, pc, overlap, got, logged
<1>6. /\ y.pc = pc /\ y.batch = rows /\ y.overlap = overlap /\ y.got = got
      /\ y.logged = logged /\ y.eff = x.eff /\ y.plan = x.plan /\ y.via = x.via
      /\ y.extends = x.extends /\ y.disturbed = x.disturbed
      /\ y.sym = x.sym /\ y.win = x.win /\ y.asked = x.asked
      /\ y.backstop = x.backstop /\ y.steady = x.steady
  BY <1>1 DEF ReqType
<1> HIDE DEF y
<1> QED BY <1>3, <1>4, <1>5, <1>6 DEF rows, pc, got, logged

\* The answer holds every bar of the range asked for that exists by now.
LEMMA AnswerHolds ==
    ASSUME OnGrid, TypeOK, NEW s \in Symbols, NEW w \in Range2,
           NEW t \in BarTimes, Spanned(w, t), t <= clock
    PROVE  Answer(s, w)[t] # NoRow
<1>1. t \in Times /\ t \in Int
  BY BarTimesType
<1>2. Spanned(WireBounds(w, DayLen), t)
  BY <1>1, WireReaches
<1> QED BY <1>1, <1>2, AnswerRows

LEMMA GridRangeIsRange ==
    ASSUME NEW g \in GridRange
    PROVE  g \in Range2
BY GridRangeType DEF Range2

LEMMA FetchReturnsServes ==
    ASSUME OnGrid, ServeInv, NEW r \in Requests, FetchReturns(r)
    PROVE  Keeps(r)
<1> DEFINE x == req[r]
           y == req'[r]
           wire == Wire(x)
           rows == Answer(x.sym, wire)
<1>1. /\ x.pc = "fetch" /\ y.pc \in {"bypass", "write"} /\ y.batch = rows
      /\ y.got = Upsert(x.got, rows) /\ y.logged = x.logged \cup {wire}
      /\ y.eff = x.eff /\ y.plan = x.plan /\ y.via = x.via
      /\ y.disturbed = x.disturbed /\ y.backstop = x.backstop
      /\ y.sym = x.sym /\ y.win = x.win /\ y.asked = x.asked
      /\ bars' = bars /\ cov' = cov
  BY CallFacts, FetchReturnsCall
<1>2. /\ OnGridCall(x) /\ Paid(x) /\ Stage(x) /\ Stored(x, Stock(x))
      /\ x.plan # {} /\ x.asked \in Int /\ clock \in Int /\ x.asked <= clock
      /\ x.sym \in Symbols /\ TypeOK /\ x.got \in Series
  BY <1>1, CallFacts DEF ServeCall, HasGap, AtGap, ReqType
<1>3. wire \in GridRange /\ wire \in Range2
      /\ \A t \in Int : Spanned(Gap(x), t) => Spanned(wire, t)
  <2>1. wire \in GridRange /\ wire[1] <= FetchStart(x) /\ FetchStart(x) <= Gap(x)[1]
        /\ Gap(x)[2] <= wire[2] /\ Gap(x) \in GridRange /\ FetchStart(x) \in Nat
    BY <1>2, CallFacts, WireOnGrid
  <2>2. wire[1] \in Nat /\ wire[2] \in Nat /\ Gap(x)[1] \in Nat /\ Gap(x)[2] \in Nat
    BY <2>1, GridRangeType
  <2> QED BY <2>1, <2>2, GridRangeIsRange DEF Spanned
<1>4. \A t \in BarTimes : Spanned(wire, t) /\ t <= x.asked => rows[t] # NoRow
  <2> SUFFICES ASSUME NEW t \in BarTimes, Spanned(wire, t), t <= x.asked
               PROVE  rows[t] # NoRow
    OBVIOUS
  <2>1. t <= clock
    BY <1>2, BarTimesType
  <2> HIDE DEF wire, x
  <2> QED BY <1>2, <1>3, <2>1, AnswerHolds
<1>5. Gap(y) = Gap(x)
  BY <1>1, SameGap
<1>6. \A t \in Times : Upsert(x.got, rows)[t] = IF rows[t] # NoRow THEN rows[t] ELSE x.got[t]
  BY DEF Upsert
<1> HIDE DEF x, y, wire, rows
<1>7. OnGridCall(y)
  BY <1>1, <1>2, <1>3 DEF OnGridCall
<1>8. Stage(y) /\ Refetching(y) /\ Answers(y)
  BY <1>1, <1>2 DEF Stage, Refetching, Answers, Looping
<1>9. Paid(y)
  <2> SUFFICES ASSUME NEW t \in BarTimes, CoversStamp(y.logged, t), t <= y.asked
               PROVE  y.got[t] # NoRow
    BY DEF Paid
  <2>1. CoversStamp(x.logged, t) \/ Spanned(wire, t)
    BY <1>1 DEF CoversStamp
  <2>2. CoversStamp(x.logged, t) => x.got[t] # NoRow
    BY <1>1, <1>2 DEF Paid, Active, Await
  <2>3. t \in Times
    BY BarTimesType
  <2> QED BY <1>1, <1>4, <1>6, <2>1, <2>2, <2>3
<1>10. Fetched(y)
  BY <1>1, <1>3, <1>4, <1>5, BarTimesType DEF Fetched
<1>11. Stored(y, bars'[TableOf[y.sym]])
  BY <1>1, <1>2 DEF Stored, Stock, Looping, Wanted
<1> QED BY <1>1, <1>7, <1>8, <1>9, <1>10, <1>11, AfterStep, CallFacts
        DEF Keeps, x, y, Active, Sync, Await

LEMMA WriteBarsServes ==
    ASSUME OnGrid, ServeInv, NEW r \in Requests, WriteBars(r)
    PROVE  Keeps(r)
<1> DEFINE x == req[r]
           y == req'[r]
           rows == bars[TableOf[x.sym]]
           new == bars'[TableOf[x.sym]]
<1>1. /\ x.pc = "write" /\ y.pc = "record" /\ y.batch = x.batch
      /\ y.got = x.got /\ y.logged = x.logged
      /\ y.eff = x.eff /\ y.plan = x.plan /\ y.via = x.via
      /\ y.disturbed = x.disturbed /\ y.backstop = x.backstop
      /\ y.sym = x.sym /\ y.win = x.win /\ y.asked = x.asked
      /\ cov' = cov
  BY CallFacts DEF WriteBars, ReqType
<1>2. /\ OnGridCall(x) /\ Paid(x) /\ Stage(x) /\ Stored(x, rows) /\ Fetched(x)
  BY CallFacts DEF ServeCall, Stock
<1>3. \A t \in Times : new[t] = IF x.batch[t] # NoRow THEN x.batch[t] ELSE rows[t]
  BY CallFacts DEF WriteBars, Upsert, TypeOK
<1>4. Gap(y) = Gap(x)
  BY <1>1, SameGap
<1> HIDE DEF x, y, rows, new
<1>5. OnGridCall(y)
  BY <1>1, <1>2 DEF OnGridCall
<1>6. Stage(y) /\ Refetching(y) /\ Answers(y) /\ Fetched(y)
  BY <1>1, <1>2 DEF Stage, Refetching, Answers, Fetched, Looping
<1>7. Paid(y)
  BY <1>1, <1>2 DEF Paid, Active, Sync
<1>8. Stored(y, new)
  <2>1. \A t \in BarTimes : t \in Times
    BY BarTimesType
  <2> QED BY <1>1, <1>2, <1>3, <1>4, <2>1 DEF Stored, Fetched, Looping, Wanted
<1>9. new = bars'[TableOf[y.sym]]
  BY <1>1 DEF new
<1> QED BY <1>1, <1>5, <1>6, <1>7, <1>8, <1>9, AfterStep, CallFacts
        DEF Keeps, x, y, Active, Sync, Await

\* How record_coverage leaves the call: in the second pass, the store empty of its
\* key, or past the gap with the coverage recorded.
LEMMA RecordCoverageCall ==
    ASSUME TypeInv, NEW r \in Requests, RecordCoverage(r)
    PROVE  LET x == req[r]
               y == req'[r]
               rest == x.plan \ {Gap(x)}
           IN  /\ x.pc = "record"
               /\ \/ /\ Compares(x) /\ HistoryChanged(x)
                     /\ y.pc = "read" /\ ~y.backstop /\ y.plan = {} /\ Drop({x.sym})
                  \/ /\ ~(Compares(x) /\ HistoryChanged(x))
                     /\ y.pc = (IF rest = {} THEN "settle" ELSE "fetch")
                     /\ y.backstop = x.backstop /\ y.plan = rest
                     /\ bars' = bars /\ cov' = [cov EXCEPT ![x.sym] = @ \cup Recorded(x)]
               /\ y.got = x.got /\ y.logged = x.logged /\ y.eff = x.eff /\ y.via = x.via
               /\ y.extends = x.extends /\ y.disturbed = x.disturbed
               /\ y.sym = x.sym /\ y.win = x.win /\ y.asked = x.asked
               /\ y.steady = x.steady /\ rev' = rev /\ clock' = clock
<1> DEFINE x == req[r]
           rest == x.plan \ {Gap(x)}
           changed == Compares(x) /\ HistoryChanged(x)
           again == [NextFetch(x, {}) EXCEPT !.pc = "read", !.backstop = FALSE]
           Kept(y) == /\ y.got = x.got /\ y.logged = x.logged /\ y.eff = x.eff
                      /\ y.via = x.via /\ y.extends = x.extends
                      /\ y.disturbed = x.disturbed /\ y.sym = x.sym /\ y.win = x.win
                      /\ y.asked = x.asked /\ y.steady = x.steady
<1>1. x \in ReqType /\ req \in [Requests -> ReqType]
  BY DEF TypeInv, TypeOK
<1>2. x.pc = "record" /\ rev' = rev /\ clock' = clock
  BY DEF RecordCoverage, world
<1> HIDE DEF x, rest
<1>3. Kept(NextFetch(x, rest)) /\ NextFetch(x, rest).plan = rest
      /\ NextFetch(x, rest).backstop = x.backstop
      /\ NextFetch(x, rest).pc = (IF rest = {} THEN "settle" ELSE "fetch")
  BY <1>1 DEF NextFetch, ReqType
<1>4. Kept(again) /\ again.pc = "read" /\ ~again.backstop /\ again.plan = {}
  BY <1>1 DEF NextFetch, ReqType
<1>5. CASE changed
  <2>1. req'[r] = again /\ Drop({x.sym})
    BY <1>1, <1>5 DEF RecordCoverage, x
  <2> HIDE DEF again
  <2> QED BY <1>2, <1>4, <1>5, <2>1 DEF x
<1>6. CASE ~changed
  <2>1. /\ req'[r] = NextFetch(x, rest) /\ bars' = bars
        /\ cov' = [cov EXCEPT ![x.sym] = @ \cup Recorded(x)]
    BY <1>1, <1>6 DEF RecordCoverage, x, rest
  <2> HIDE DEF again
  <2> QED BY <1>2, <1>3, <1>6, <2>1 DEF x, rest
<1> HIDE DEF changed
<1> QED BY <1>5, <1>6

LEMMA RecordCoverageServes ==
    ASSUME OnGrid, ServeInv, NEW r \in Requests, RecordCoverage(r)
    PROVE  Keeps(r)
<1> DEFINE x == req[r]
           y == req'[r]
           rows == bars[TableOf[x.sym]]
           rest == x.plan \ {Gap(x)}
           Again == y.pc = "read" /\ y.plan = {} /\ Drop({x.sym})
           Onward == /\ y.pc = (IF rest = {} THEN "settle" ELSE "fetch")
                     /\ y.plan = rest /\ bars' = bars
                     /\ cov' = [cov EXCEPT ![x.sym] = @ \cup Recorded(x)]
<1>1. /\ x.pc = "record" /\ (Again \/ Onward)
      /\ y.got = x.got /\ y.logged = x.logged /\ y.eff = x.eff /\ y.via = x.via
      /\ y.disturbed = x.disturbed
      /\ y.sym = x.sym /\ y.win = x.win /\ y.asked = x.asked
  BY CallFacts, RecordCoverageCall
<1>2. /\ OnGridCall(x) /\ Paid(x) /\ Stage(x) /\ Stored(x, rows) /\ x \in ReqType
      /\ x.plan # {} /\ cov \in [Symbols -> SUBSET GridRange] /\ x.sym \in Symbols
  <2>1. cov \in [Symbols -> SUBSET GridRange]
    BY CallFacts DEF TypeOK
  <2> QED BY <1>1, <2>1, CallFacts DEF ServeCall, Stock, HasGap, AtGap
<1>3. Recorded(x) \in SUBSET GridRange
  BY <1>2, WireOnGrid, BoundaryOnGrid, TrimOnGrid DEF Recorded
<1> HIDE DEF x, y, rows
<1>4. \A s \in Symbols : cov'[s] \in SUBSET GridRange
  <2>1. CASE Again
    BY <1>2, <2>1 DEF Drop
  <2>2. CASE Onward
    BY <1>2, <1>3, <2>2
  <2> QED BY <1>1, <2>1, <2>2
<1>5. OnGridCall(y)
  BY <1>1, <1>2 DEF OnGridCall
<1>6. Refetching(y) /\ Answers(y) /\ Fetched(y) /\ Stage(y)
  <2>1. y.via # "bypass"
    BY <1>1, <1>2 DEF Stage, Looping
  <2> QED BY <1>1, <2>1 DEF Stage, Refetching, Answers, Fetched
<1>7. Paid(y)
  BY <1>1, <1>2 DEF Paid, Active, Sync
<1>8. Stored(y, bars'[TableOf[y.sym]])
  <2>1. CASE Again
    BY <2>1 DEF Stored, Looping
  <2>2. CASE Onward
    <3>1. ASSUME ~x.disturbed, NEW t \in BarTimes, Wanted(x, t)
          PROVE  rows[t] # NoRow \/ CoversStamp(rest, t)
      <4>1. rows[t] # NoRow \/ CoversStamp(x.plan, t)
        BY <1>1, <1>2, <3>1 DEF Stored, Looping
      <4>2. Spanned(Gap(x), t) => rows[t] # NoRow
        BY <1>1, <1>2, <3>1 DEF Stored, Wanted
      <4> QED BY <4>1, <4>2 DEF CoversStamp
    <3>2. bars'[TableOf[y.sym]] = rows /\ y.pc # "record"
      BY <1>1, <2>2 DEF rows
    <3> HIDE DEF rest
    <3> QED BY <1>1, <2>2, <3>1, <3>2 DEF Stored, Wanted
  <2> QED BY <1>1, <2>1, <2>2
<1> QED BY <1>1, <1>4, <1>5, <1>6, <1>7, <1>8, AfterStep
        DEF Keeps, x, y, Active, Sync, Await

LEMMA SettleCall ==
    ASSUME TypeInv, NEW r \in Requests, NEW ticks, Settle(r, ticks)
    PROVE  LET x == req[r]
               y == req'[r]
           IN  /\ x.pc = "settle" /\ y.pc = "serve"
               /\ ~y.disturbed => ~x.disturbed /\ bars'[TableOf[x.sym]] = Stock(x)
               /\ y.got = x.got /\ y.logged = x.logged /\ y.eff = x.eff /\ y.via = x.via
               /\ y.extends = x.extends /\ y.plan = x.plan /\ y.backstop = x.backstop
               /\ y.sym = x.sym /\ y.win = x.win /\ y.asked = x.asked
               /\ y.steady = x.steady /\ rev' = rev /\ clock' = clock
               /\ \A s \in Symbols : cov'[s] \in {cov[s], {}}
               /\ \A b \in Tables : bars'[b] \in {bars[b], Empty}
<1>1. PICK evicted \in SUBSET Symbols :
        /\ Drop(evicted) /\ UNCHANGED world
        /\ req' = [o \in Requests |->
                     [req[o] EXCEPT
                        !.pc = IF o = r THEN "serve" ELSE @,
                        !.disturbed = @ \/ (req[o].pc \in Active /\
                                            TableOf[req[o].sym] \in {TableOf[k] : k \in evicted})]]
  BY DEF Settle
<1> DEFINE x == req[r]
           hit == TableOf[x.sym] \in {TableOf[k] : k \in evicted}
           disturbed == x.disturbed \/ (x.pc \in Active /\ hit)
           y == [x EXCEPT !.pc = "serve", !.disturbed = disturbed]
<1>2. y = req'[r]
  BY <1>1
<1>3. x.pc = "settle" /\ x.pc \in Active /\ x \in ReqType /\ TableOf[x.sym] \in Tables
  <2>1. x.pc = "settle" /\ x \in ReqType
    BY DEF Settle, TypeInv, TypeOK
  <2> QED BY <2>1, CacheBounds DEF Active, Sync, ReqType
<1>4. ~disturbed => ~x.disturbed /\ bars'[TableOf[x.sym]] = Stock(x)
  BY <1>1, <1>3 DEF Drop, Stock
<1>5. /\ \A s \in Symbols : cov'[s] \in {cov[s], {}}
      /\ \A b \in Tables : bars'[b] \in {bars[b], Empty}
  BY <1>1 DEF Drop
<1>6. rev' = rev /\ clock' = clock
  BY <1>1 DEF world
<1> HIDE DEF disturbed, hit
<1>7. /\ y.pc = "serve" /\ y.disturbed = disturbed
      /\ y.got = x.got /\ y.logged = x.logged /\ y.eff = x.eff /\ y.via = x.via
      /\ y.extends = x.extends /\ y.plan = x.plan /\ y.backstop = x.backstop
      /\ y.sym = x.sym /\ y.win = x.win /\ y.asked = x.asked
      /\ y.steady = x.steady
  BY <1>3 DEF ReqType
<1> HIDE DEF y
<1> QED BY <1>2, <1>3, <1>4, <1>5, <1>6, <1>7

LEMMA SettleServes ==
    ASSUME OnGrid, ServeInv, NEW r \in Requests, NEW ticks, Settle(r, ticks)
    PROVE  Keeps(r)
<1> DEFINE x == req[r]
           y == req'[r]
           rows == bars[TableOf[x.sym]]
<1>1. /\ x.pc = "settle" /\ y.pc = "serve"
      /\ ~y.disturbed => ~x.disturbed /\ bars'[TableOf[x.sym]] = rows
      /\ y.got = x.got /\ y.logged = x.logged /\ y.eff = x.eff /\ y.via = x.via
      /\ y.plan = x.plan /\ y.sym = x.sym /\ y.win = x.win /\ y.asked = x.asked
      /\ \A s \in Symbols : cov'[s] \in {cov[s], {}}
  BY CallFacts, SettleCall DEF Stock
<1>2. OnGridCall(x) /\ Paid(x) /\ Stage(x) /\ Stored(x, rows)
  BY CallFacts DEF ServeCall, Stock
<1>3. \A s \in Symbols : cov'[s] \in SUBSET GridRange
  BY <1>1, CallFacts
<1> HIDE DEF x, y, rows
<1>4. OnGridCall(y)
  BY <1>1, <1>2 DEF OnGridCall
<1>5. Refetching(y) /\ Answers(y) /\ Fetched(y) /\ Stage(y)
  BY <1>1, <1>2 DEF Stage, Refetching, Answers, Fetched, Looping
<1>6. Paid(y)
  BY <1>1, <1>2 DEF Paid, Active, Sync
<1>7. Stored(y, bars'[TableOf[y.sym]])
  BY <1>1, <1>2 DEF Stored, Looping, Wanted
<1> QED BY <1>1, <1>3, <1>4, <1>5, <1>6, <1>7, AfterStep DEF Keeps, x, y, Active, Sync

\* An answered call has no locals left, and is what it returns.
LEMMA AnsweredCall ==
    ASSUME NEW x \in ReqType, OnGridCall(x), NEW via, NEW rows,
           NEW y, y = Answered(x, via, rows) \/ y = [Answered(x, via, rows) EXCEPT !.pc = "failed"],
           y.pc = "done" => Answers(y)
    PROVE  /\ OnGridCall(y) /\ Stage(y) /\ Paid(y) /\ Refetching(y) /\ Fetched(y)
           /\ Answers(y) /\ \A series : Stored(y, series)
<1>1. y.pc \in {"done", "failed"} /\ y.plan = {} /\ y.eff = {} /\ y.logged = {}
      /\ y.win = x.win
  BY ZenonT(60) DEF Answered, ReqType
<1>2. OnGridCall(y)
  BY <1>1 DEF OnGridCall
<1> QED BY <1>1, <1>2 DEF Stage, Paid, Refetching, Fetched, Stored, Looping, Answers,
                          Active, Sync, Await

LEMMA AnsweredFields ==
    ASSUME NEW x \in ReqType, NEW via, NEW rows
    PROVE  LET y == Answered(x, via, rows)
           IN  /\ y.pc = "done" /\ y.served = rows /\ y.via = via
               /\ y.win = x.win /\ y.asked = x.asked /\ y.disturbed = x.disturbed
               /\ y.sym = x.sym /\ y.extends = x.extends /\ y.steady = x.steady
               /\ y.backstop = x.backstop
               /\ [y EXCEPT !.pc = "failed"].pc = "failed"
BY DEF Answered, ReqType

LEMMA ServeServes ==
    ASSUME OnGrid, ServeInv, NEW r \in Requests, Serve(r)
    PROVE  Keeps(r)
<1> DEFINE x == req[r]
           rows == bars[TableOf[x.sym]]
           served == Within(rows, x.win[1], x.win[2])
           y == Answered(x, x.via, served)
<1>1. y = req'[r] /\ x.pc = "serve" /\ cov' = cov /\ x \in ReqType
  BY CallFacts DEF Serve, store
<1>2. OnGridCall(x) /\ Stage(x) /\ Stored(x, rows) /\ x.via # "bypass" /\ x.plan = {}
  BY <1>1, CallFacts DEF ServeCall, Stock, Stage, Looping
<1>3. /\ y.pc = "done" /\ y.served = served /\ y.via = x.via /\ y.win = x.win
      /\ y.asked = x.asked /\ y.disturbed = x.disturbed
  BY <1>1, AnsweredFields
<1>4. Answers(y)
  <2> SUFFICES ASSUME ~x.disturbed, NEW t \in BarTimes, Wanted(x, t)
               PROVE  served[t] # NoRow
    BY <1>2, <1>3 DEF Answers, Complete, Wanted, Spanned
  <2>1. rows[t] # NoRow
    BY <1>1, <1>2 DEF Stored, Looping, CoversStamp
  <2>2. t \in Times
    BY BarTimesType
  <2> QED BY <2>1, <2>2 DEF Within, Wanted, Spanned
<1> HIDE DEF x, served
<1>5. OnGridCall(y) /\ Stage(y) /\ Paid(y) /\ Refetching(y) /\ Fetched(y)
      /\ Stored(y, bars'[TableOf[y.sym]])
  BY <1>1, <1>2, <1>4, AnsweredCall
<1> HIDE DEF y
<1>6. y.pc \notin Active
  BY <1>3 DEF Active, Sync, Await
<1> QED BY <1>1, <1>4, <1>5, <1>6, AfterStep, CallFacts DEF Keeps

LEMMA BypassPlanServes ==
    ASSUME OnGrid, ServeInv, NEW r \in Requests, BypassPlan(r)
    PROVE  Keeps(r)
<1> DEFINE x == req[r]
           left == Subtract(x.win, x.logged, Step)
           a == Answered(x, "bypass", x.got)
           b == [x EXCEPT !.pc = "refetch", !.plan = left]
           y == req'[r]
<1>1. /\ y = IF left = {} THEN a ELSE b
      /\ x.pc = "bypass" /\ x \in ReqType /\ cov' = cov
  BY CallFacts DEF BypassPlan, store
<1>2. /\ OnGridCall(x) /\ Paid(x) /\ x.win \in GridRange /\ x.win[2] <= MaxTime
      /\ x.logged \in SUBSET GridRange /\ x.pc \in Active
  BY <1>1, CallFacts DEF ServeCall, OnGridCall, Active, Sync
<1>3. ASSUME NEW t \in BarTimes, Wanted(x, t)
      PROVE  CoversStamp(x.logged, t) \/ CoversStamp(left, t)
  <2>1. ~CoversStamp(x.logged, t) => \E g \in left : Spanned(g, t)
    BY <1>2, <1>3, GapsAreEnough, BarTimesType DEF Wanted
  <2> QED BY <2>1 DEF CoversStamp
<1> HIDE DEF x
<1>4. CASE left = {}
  <2>1. y = a /\ a.pc = "done"
    BY <1>1, <1>4, AnsweredFields
  <2>2. Answers(a)
    <3> SUFFICES ASSUME NEW t \in BarTimes, Wanted(x, t) PROVE x.got[t] # NoRow
      BY <1>1, AnsweredFields DEF Answers, Complete, Wanted, Spanned
    <3>1. CoversStamp(x.logged, t)
      BY <1>3, <1>4 DEF CoversStamp
    <3> QED BY <1>2, <3>1 DEF Paid, Wanted
  <2>3. OnGridCall(a) /\ Stage(a) /\ Paid(a) /\ Refetching(a) /\ Fetched(a)
        /\ Stored(a, bars'[TableOf[a.sym]])
    BY <1>1, <1>2, <2>2, AnsweredCall
  <2> HIDE DEF a
  <2>4. a.pc \notin Active
    BY <2>1 DEF Active, Sync, Await
  <2> QED BY <1>1, <2>1, <2>2, <2>3, <2>4, AfterStep, CallFacts DEF Keeps
<1>5. CASE left # {}
  <2> HIDE DEF left
  <2>1. /\ y.pc = "refetch" /\ y.plan = left /\ y.logged = x.logged /\ y.got = x.got
        /\ y.win = x.win /\ y.asked = x.asked /\ y.eff = x.eff /\ y.sym = x.sym
    BY <1>1, <1>5 DEF ReqType
  <2> HIDE DEF y
  <2>2. left \in SUBSET {g \in GridRange : g[2] <= MaxTime}
    <3> SUFFICES ASSUME NEW g \in left PROVE g \in GridRange /\ g[2] <= MaxTime
      OBVIOUS
    <3>1. g \in GridRange /\ g[2] <= x.win[2]
      BY <1>2, SubtractOnGrid DEF left
    <3> QED BY <1>2, <3>1, GridRangeType, CacheBounds
  <2>3. OnGridCall(y)
    BY <1>2, <2>1, <2>2 DEF OnGridCall
  <2>4. Refetching(y)
    <3>1. \A g \in left, t \in BarTimes : Spanned(g, t) => ~CoversStamp(x.logged, t)
      BY <1>2, GapsAreMissing, BarTimesType DEF left
    <3>2. \A g, h \in left, t \in BarTimes : Spanned(g, t) /\ Spanned(h, t) => g = h
      BY <1>2, GapsAreApart, BarTimesType DEF left
    <3> QED BY <1>3, <2>1, <3>1, <3>2 DEF Refetching, Wanted
  <2>5. Paid(y)
    BY <1>2, <2>1 DEF Paid
  <2>6. Stage(y) /\ Fetched(y) /\ Answers(y) /\ Stored(y, bars'[TableOf[y.sym]])
    BY <2>1 DEF Stage, Fetched, Answers, Stored, Looping
  <2>7. OnGridCall(req[r])' /\ ServeCall(req[r])'
    BY <2>3, <2>4, <2>5, <2>6, AfterStep DEF y
  <2> QED BY <1>1, <1>2, <2>1, <2>7, CallFacts DEF Keeps, y, x
<1> QED BY <1>4, <1>5

LEMMA BypassReturnsServes ==
    ASSUME OnGrid, ServeInv, NEW r \in Requests, BypassReturns(r)
    PROVE  Keeps(r)
<1> DEFINE x == req[r]
           gap == Gap(x)
           rows == Answer(x.sym, gap)
           got == Upsert(x.got, rows)
           rest == x.plan \ {gap}
           a == Answered(x, "bypass", got)
           b == [x EXCEPT !.got = got, !.logged = @ \cup {gap}, !.plan = rest]
           y == req'[r]
<1>1. /\ y = IF rest = {} THEN a ELSE b
      /\ x.pc = "refetch" /\ x \in ReqType /\ cov' = cov
  BY CallFacts DEF BypassReturns, store
<1>2. /\ OnGridCall(x) /\ Paid(x) /\ Refetching(x) /\ x.plan # {} /\ x.pc \in Active
      /\ x.asked \in Int /\ clock \in Int /\ x.asked <= clock
      /\ x.sym \in Symbols /\ TypeOK
  BY <1>1, CallFacts DEF ServeCall, HasGap, AtGap, Active, Await
<1>3. gap \in x.plan /\ gap \in GridRange /\ gap[2] <= MaxTime
  BY <1>1, <1>2, WireOnGrid
<1>4. \A t \in BarTimes : Spanned(gap, t) /\ t <= x.asked => rows[t] # NoRow
  <2> SUFFICES ASSUME NEW t \in BarTimes, Spanned(gap, t), t <= x.asked
               PROVE  rows[t] # NoRow
    OBVIOUS
  <2>1. t <= clock
    BY <1>2, BarTimesType
  <2> HIDE DEF gap, x
  <2> QED BY <1>2, <1>3, <2>1, AnswerHolds, GridRangeIsRange
<1>5. \A t \in BarTimes : got[t] = IF rows[t] # NoRow THEN rows[t] ELSE x.got[t]
  BY BarTimesType DEF Upsert
<1> HIDE DEF x, gap, rows, got
<1>6. ASSUME NEW t \in BarTimes, t <= x.asked,
             CoversStamp(x.logged, t) \/ Spanned(gap, t)
      PROVE  got[t] # NoRow
  BY <1>2, <1>4, <1>5, <1>6 DEF Paid
<1>7. CASE rest = {}
  <2>1. y = a /\ a.pc = "done"
    BY <1>1, <1>7, AnsweredFields
  <2>2. Answers(a)
    <3> SUFFICES ASSUME NEW t \in BarTimes, Wanted(x, t) PROVE got[t] # NoRow
      BY <1>1, AnsweredFields DEF Answers, Complete, Wanted, Spanned
    <3>1. CoversStamp(x.logged, t) \/ CoversStamp(x.plan, t)
      BY <1>1, <1>2 DEF Refetching
    <3>2. CoversStamp(x.plan, t) => Spanned(gap, t)
      BY <1>3, <1>7 DEF CoversStamp
    <3> QED BY <1>6, <3>1, <3>2 DEF Wanted
  <2>3. OnGridCall(a) /\ Stage(a) /\ Paid(a) /\ Refetching(a) /\ Fetched(a)
        /\ Stored(a, bars'[TableOf[a.sym]])
    BY <1>1, <1>2, <2>2, AnsweredCall
  <2> HIDE DEF a
  <2>4. a.pc \notin Active
    BY <2>1 DEF Active, Sync, Await
  <2> QED BY <1>1, <2>1, <2>2, <2>3, <2>4, AfterStep, CallFacts DEF Keeps
<1>8. CASE rest # {}
  <2> HIDE DEF rest
  <2>1. /\ y.pc = "refetch" /\ y.plan = rest /\ y.logged = x.logged \cup {gap}
        /\ y.got = got /\ y.win = x.win /\ y.asked = x.asked /\ y.eff = x.eff
        /\ y.sym = x.sym
    BY <1>1, <1>8 DEF ReqType
  <2> HIDE DEF y
  <2>2. OnGridCall(y)
    BY <1>2, <1>3, <2>1 DEF OnGridCall, rest
  <2>3. Refetching(y)
    <3>1. ASSUME NEW t \in BarTimes, Wanted(x, t)
          PROVE  CoversStamp(y.logged, t) \/ CoversStamp(rest, t)
      <4>1. CoversStamp(x.logged, t) \/ CoversStamp(x.plan, t)
        BY <1>1, <1>2, <3>1 DEF Refetching
      <4> QED BY <2>1, <4>1 DEF CoversStamp, rest
    <3>2. ASSUME NEW g \in rest, NEW t \in BarTimes, Spanned(g, t)
          PROVE  ~CoversStamp(y.logged, t)
      <4>1. ~CoversStamp(x.logged, t)
        BY <1>1, <1>2, <3>2 DEF Refetching, rest
      <4>2. ~Spanned(gap, t)
        BY <1>1, <1>2, <1>3, <3>2 DEF Refetching, rest
      <4> QED BY <2>1, <4>1, <4>2 DEF CoversStamp
    <3>3. \A g, h \in rest, t \in BarTimes : Spanned(g, t) /\ Spanned(h, t) => g = h
      BY <1>1, <1>2 DEF Refetching, rest
    <3> QED BY <2>1, <3>1, <3>2, <3>3 DEF Refetching, Wanted
  <2>4. Paid(y)
    <3> SUFFICES ASSUME NEW t \in BarTimes, CoversStamp(y.logged, t), t <= y.asked
                 PROVE  y.got[t] # NoRow
      BY DEF Paid
    <3>1. CoversStamp(x.logged, t) \/ Spanned(gap, t)
      BY <2>1 DEF CoversStamp
    <3> QED BY <1>6, <2>1, <3>1
  <2>5. Stage(y) /\ Fetched(y) /\ Answers(y) /\ Stored(y, bars'[TableOf[y.sym]])
    BY <2>1 DEF Stage, Fetched, Answers, Stored, Looping
  <2>6. OnGridCall(req[r])' /\ ServeCall(req[r])'
    BY <2>2, <2>3, <2>4, <2>5, AfterStep DEF y
  <2> QED BY <1>1, <1>2, <2>1, <2>6, CallFacts DEF Keeps, y, x
<1> QED BY <1>7, <1>8

LEMMA BypassFailsServes ==
    ASSUME ServeInv, NEW r \in Requests, BypassFails(r)
    PROVE  Keeps(r)
<1> DEFINE x == req[r]
           y == [Answered(x, "bypass", Empty) EXCEPT !.pc = "failed"]
<1>1. y = req'[r] /\ cov' = cov /\ x \in ReqType /\ OnGridCall(x)
  BY CallFacts DEF BypassFails, store
<1>2. y.pc = "failed"
  BY <1>1, AnsweredFields
<1>3. Answers(y)
  BY <1>2 DEF Answers
<1> HIDE DEF x
<1>4. OnGridCall(y) /\ Stage(y) /\ Paid(y) /\ Refetching(y) /\ Fetched(y)
      /\ Stored(y, bars'[TableOf[y.sym]])
  BY <1>1, <1>3, AnsweredCall
<1> HIDE DEF y
<1>5. y.pc \notin Active
  BY <1>2 DEF Active, Sync, Await
<1> QED BY <1>1, <1>3, <1>4, <1>5, AfterStep, CallFacts DEF Keeps

LEMMA InitServes == OnGrid /\ Init => ServeInv
<1> SUFFICES ASSUME OnGrid, Init PROVE ServeInv
  OBVIOUS
<1>1. \A r \in Requests : req[r] = Idle
  BY DEF Init
<1>2. /\ Idle.pc = "idle" /\ Idle.plan = {} /\ Idle.eff = {} /\ Idle.logged = {}
      /\ Idle.win = <<0, 0>>
  BY DEF Idle
<1>3. OneHolder
  BY <1>1, <1>2 DEF OneHolder, Active, Sync, Await
<1>4. <<0, 0>> \in GridRange /\ 0 <= MaxTime
  BY GridArithmetic, CacheBounds, SMTT(30) DEF GridRange, Horizon
<1>5. OnGridCall(Idle)
  BY <1>2, <1>4 DEF OnGridCall
<1>6. ServeCall(Idle)
  BY <1>2 DEF ServeCall, Stage, Paid, Refetching, Fetched, Stored, Answers, Looping,
              Active, Sync, Await
<1>7. GridInv
  BY <1>1, <1>5 DEF GridInv, Init
<1>8. \A r \in Requests : ServeCall(req[r])
  BY <1>1, <1>6
<1> QED BY <1>3, <1>7, <1>8, InitBacked DEF ServeInv

LEMMA MoveServes ==
    ASSUME OnGrid, ServeInv, NEW r \in Requests, Moves(r)
    PROVE  Keeps(r)
BY BeginServes, DegradeServes, ReadCoverageServes, FetchReturnsServes, WriteBarsServes,
   RecordCoverageServes, SettleServes, ServeServes, BypassPlanServes,
   BypassReturnsServes, BypassFailsServes DEF Moves, Advance

LEMMA StepServes == OnGrid /\ Unaliased /\ ServeInv /\ [Next]_vars => ServeInv'
<1> SUFFICES ASSUME OnGrid, Unaliased, ServeInv, [Next]_vars PROVE ServeInv'
  OBVIOUS
<1>1. IInv' /\ TypeInv /\ TypeInv'
  BY StepBacked DEF ServeInv, IInv
<1>2. CASE Environment
  <2>1. \A o \in Requests : Beside(o)
    BY <1>1, <1>2, Bystanders DEF ServeInv
  <2>2. \A o \in Requests : OnGridCall(req[o])' /\ ServeCall(req[o])'
    BY <1>1, <2>1, BesideServes DEF ServeInv, GridInv
  <2>3. OneHolder'
    BY <2>1 DEF Beside, SameCall, ServeInv, OneHolder
  <2>4. \A s \in Symbols : cov'[s] \in SUBSET GridRange
    BY <1>2 DEF Environment, QDies, QReturns, Tick, CorporateAction, store, ServeInv, GridInv
  <2> QED BY <1>1, <2>2, <2>3, <2>4 DEF ServeInv, GridInv
<1>3. ASSUME NEW r \in Requests, Moves(r) PROVE ServeInv'
  <2>1. \A o \in Requests \ {r} : Beside(o)
    BY <1>1, <1>3, Bystanders DEF ServeInv
  <2>2. \A o \in Requests \ {r} : OnGridCall(req[o])' /\ ServeCall(req[o])'
    BY <1>1, <2>1, BesideServes DEF ServeInv, GridInv
  <2>3. Keeps(r)
    BY <1>3, MoveServes
  <2>4. \A o \in Requests \ {r} : req'[o].pc = req[o].pc /\ req'[o].sym = req[o].sym
    BY <2>1 DEF Beside, SameCall
  <2>5. OneHolder'
    BY <2>3, <2>4, LockKept DEF Keeps, ServeInv
  <2>6. \A o \in Requests : OnGridCall(req[o])' /\ ServeCall(req[o])'
    BY <2>2, <2>3 DEF Keeps
  <2> QED BY <1>1, <2>3, <2>5, <2>6 DEF ServeInv, GridInv, Keeps
<1>4. CASE UNCHANGED vars
  <2>1. \A o \in Requests : Beside(o)
    BY <1>1, <1>4 DEF vars, Beside, SameCall, Stock, TypeInv, TypeOK, Times
  <2>2. \A o \in Requests : OnGridCall(req[o])' /\ ServeCall(req[o])'
    BY <1>1, <2>1, BesideServes DEF ServeInv, GridInv
  <2>3. OneHolder' /\ \A s \in Symbols : cov'[s] \in SUBSET GridRange
    BY <1>4 DEF vars, ServeInv, GridInv, OneHolder
  <2> QED BY <1>1, <2>2, <2>3 DEF ServeInv, GridInv
<1> QED BY <1>2, <1>3, <1>4 DEF Next, Moves

\* Bars and windows on the grid: a request whose store fails pays the network for
\* each bar once, its gaps and what it has logged sharing none (_bypass).
THEOREM PaidOnce ==
    ASSUME OnGrid, Unaliased
    PROVE  Spec => []BypassPaysOnce
<1>1. ServeInv /\ [Next]_vars => ServeInv'
  BY StepServes
<1>2. Init => ServeInv
  BY InitServes
<1>3. ServeInv => BypassPaysOnce
  BY DEF ServeInv, ServeCall, Refetching, BypassPaysOnce
<1> QED BY <1>1, <1>2, <1>3, PTL DEF Spec

\* Bars and windows on the grid, a table for each key: an answer holds every bar of
\* its window that existed when it was asked for, whatever other requests, eviction,
\* dying q processes and failing fetches did meanwhile -- unless rows left the store
\* under it, and a bypass has no such excuse (ReadThroughCache.get).
THEOREM AnswersAreComplete ==
    ASSUME OnGrid, Unaliased
    PROVE  Spec => []ServedComplete
<1>1. ServeInv /\ [Next]_vars => ServeInv'
  BY StepServes
<1>2. Init => ServeInv
  BY InitServes
<1>3. ServeInv => ServedComplete
  BY DEF ServeInv, ServeCall, Answers, ServedComplete
<1> QED BY <1>1, <1>2, <1>3, PTL DEF Spec

----------------------------------------------------------------------------
\* The invariant of adjustments: what the backstop compares, and what follows from it.

\* Every row was a bar the provider had.
AreBars(rows) ==
    \A t \in Times : rows[t] # NoRow => t \in BarTimes /\ t <= clock

AllOf(rows, v) == \A t \in Times : rows[t] # NoRow => rows[t].rev = v

InWindow(x, rows) == Within(rows, x.win[1], x.win[2])

\* One covered stretch, of one adjustment, to be extended, with a finished bar
\* within the reach of the overlap.
Comparable(x, rows) ==
    \E e \in x.eff :
        /\ x.eff = {e} /\ x.plan = {<<e[2] + Step, x.win[2]>>}
        /\ e[2] <= Boundary(x)
        /\ OneSeries(Within(rows, 0, e[2]))
        /\ \E t \in BarTimes : /\ e[2] - Step * OverlapBars < t
                               /\ e[1] <= t /\ t <= e[2]
                               /\ Finished(rows[t])

\* First pass: the one fetch compares, and unless it finds the history changed the
\* table has one adjustment once the fetch is written.
FirstPass(x, rows) ==
    x.extends /\ x.backstop /\ ~x.disturbed =>
        /\ x.pc = "fetch" => Comparable(x, rows)
        /\ x.pc \in AtStore => Compares(x) /\ IsLastGap(x)
        /\ x.pc = "write" =>
              HistoryChanged(x) \/ OneSeries(InWindow(x, Upsert(rows, x.batch)))
        /\ x.pc = "record" => HistoryChanged(x) \/ OneSeries(InWindow(x, rows))
        /\ x.pc \in {"settle", "serve"} => OneSeries(InWindow(x, rows))

\* Second pass: the table was emptied, and all that is written is adjusted as of now.
SecondPass(x, rows, v) ==
    ~x.backstop /\ x.steady /\ ~x.disturbed =>
        /\ x.pc \in Looping \cup {"read"} => AllOf(rows, v)
        /\ x.pc = "write" => AllOf(x.batch, v)

Uniform(x) ==
    x.pc = "done" /\ x.extends /\ x.steady /\ ~x.disturbed /\ x.via # "bypass"
        => OneSeries(x.served)

BackCall(x) ==
    /\ FirstPass(x, Stock(x)) /\ SecondPass(x, Stock(x), rev[x.sym]) /\ Uniform(x)
    /\ x.pc = "write" => AreBars(x.batch)

BackInv ==
    /\ ServeInv
    /\ \A b \in Tables : AreBars(bars[b])
    /\ \A r \in Requests : BackCall(req[r])

LEMMA AfterBackStep ==
    ASSUME NEW o \in Requests, NEW y, y = req'[o],
           FirstPass(y, bars'[TableOf[y.sym]]),
           SecondPass(y, bars'[TableOf[y.sym]], rev'[y.sym]), Uniform(y),
           y.pc = "write" =>
              \A t \in Times : y.batch[t] # NoRow => t \in BarTimes /\ t <= clock'
    PROVE  BackCall(req[o])'
<1> DEFINE new == bars'[TableOf[y.sym]]
<1>1. FirstPass(req[o], bars[TableOf[req[o].sym]])' = FirstPass(y, new)
  <2> DEFINE x == req[o]
             old == bars[TableOf[req[o].sym]]
  <2>1. Comparable(x, old)' = Comparable(y, new)
    BY DEF Comparable, OneSeries, Within, Boundary
  <2>2. IsLastGap(x)' = IsLastGap(y)
    BY DEF IsLastGap, Gap
  <2>3. Compares(x)' = Compares(y)
    BY DEF Compares, FetchStart, IsLastGap, Gap
  <2>4. HistoryChanged(x)' = HistoryChanged(y)
    BY DEF HistoryChanged
  <2>5. OneSeries(InWindow(x, Upsert(old, x.batch)))' = OneSeries(InWindow(y, Upsert(new, y.batch)))
    BY DEF OneSeries, InWindow, Within, Upsert
  <2>6. OneSeries(InWindow(x, old))' = OneSeries(InWindow(y, new))
    BY DEF OneSeries, InWindow, Within
  <2> QED BY <2>1, <2>2, <2>3, <2>4, <2>5, <2>6 DEF FirstPass
<1>2. SecondPass(req[o], bars[TableOf[req[o].sym]], rev[req[o].sym])'
        = SecondPass(y, new, rev'[y.sym])
  BY DEF SecondPass, AllOf
<1>3. Uniform(req[o])' = Uniform(y)
  BY DEF Uniform, OneSeries
<1>4. (req[o].pc = "write" => AreBars(req[o].batch))'
        = (y.pc = "write" =>
              \A t \in Times : y.batch[t] # NoRow => t \in BarTimes /\ t <= clock')
  BY DEF AreBars
<1> HIDE DEF new
<1> QED BY <1>1, <1>2, <1>3, <1>4 DEF BackCall, Stock, new

LEMMA BesideBack ==
    ASSUME NEW o \in Requests, Beside(o), TypeInv, TypeInv', BackCall(req[o])
    PROVE  BackCall(req[o])'
<1> DEFINE x == req[o]
           y == req'[o]
           old == bars[TableOf[x.sym]]
           new == bars'[TableOf[y.sym]]
<1>1. /\ SameCall(y, x) /\ (x.disturbed => y.disturbed) /\ (y.steady => x.steady)
      /\ x.pc \in Active => /\ ~y.disturbed => new = old
                            /\ y.steady => rev'[y.sym] = rev[x.sym]
      /\ clock <= clock' /\ clock \in Int /\ clock' \in Int
  BY DEF Beside, Stock, SameCall, TypeInv, TypeOK, Times
<1>2. Gap(y) = Gap(x) /\ (IsLastGap(y) <=> IsLastGap(x)) /\ (Compares(y) <=> Compares(x))
  BY <1>1, SameGap DEF SameCall
<1>3. HistoryChanged(y) <=> HistoryChanged(x)
  BY <1>1 DEF HistoryChanged, SameCall
<1>4. x.pc \in Looping \cup {"read"} \cup AtStore => x.pc \in Active
  BY DEF Looping, AtStore, Active, Sync, Await
<1>5. FirstPass(x, old) /\ SecondPass(x, old, rev[x.sym]) /\ Uniform(x)
      /\ (x.pc = "write" => AreBars(x.batch))
  BY DEF BackCall, Stock
<1>6. \A rows : /\ InWindow(y, rows) = InWindow(x, rows)
                /\ Comparable(y, rows) <=> Comparable(x, rows)
  BY <1>1 DEF InWindow, Comparable, Boundary, SameCall
<1> HIDE DEF x, y, old, new
<1>7. FirstPass(y, new)
  BY <1>1, <1>2, <1>3, <1>4, <1>5, <1>6 DEF FirstPass, SameCall, Looping, AtStore
<1>8. SecondPass(y, new, rev'[y.sym])
  BY <1>1, <1>4, <1>5 DEF SecondPass, SameCall, Looping
<1>9. Uniform(y)
  BY <1>1, <1>5 DEF Uniform, SameCall
<1>10. y.pc = "write" =>
          \A t \in Times : y.batch[t] # NoRow => t \in BarTimes /\ t <= clock'
  <2>1. \A t \in Times : t \in Int
    BY DEF Times
  <2> QED BY <1>1, <1>5, <2>1 DEF AreBars, SameCall
<1> QED BY <1>7, <1>8, <1>9, <1>10, AfterBackStep DEF y, new

\* The provider's rows of one moment have that moment's adjustment.
LEMMA AnswerUniform ==
    ASSUME TypeOK, NEW s \in Symbols, NEW w
    PROVE  /\ AllOf(Answer(s, w), rev[s])
           /\ AreBars(Answer(s, w))
BY DEF Answer, AllOf, AreBars

\* The fetch that extends the stretch compares its overlap; if that agrees, the
\* stretch and the new rows are of one adjustment.
LEMMA ExtensionCompares ==
    ASSUME OnGrid, TypeOK, NEW x \in ReqType, OnGridCall(x), x.backstop,
           NEW rows \in Series, AreBars(rows), Comparable(x, rows),
           NEW batch, batch = Answer(x.sym, Wire(x)),
           NEW overlap,
           overlap = Within(rows, FetchStart(x), Lesser(Gap(x)[1] - Step, Boundary(x))),
           \A t \in Times : ~(/\ overlap[t] # NoRow /\ batch[t] # NoRow
                              /\ overlap[t] # batch[t])
    PROVE  OneSeries(InWindow(x, Upsert(rows, batch)))
<1>1. PICK e \in x.eff :
        /\ x.eff = {e} /\ x.plan = {<<e[2] + Step, x.win[2]>>}
        /\ e[2] <= Boundary(x)
        /\ OneSeries(Within(rows, 0, e[2]))
        /\ \E t \in BarTimes : /\ e[2] - Step * OverlapBars < t
                               /\ e[1] <= t /\ t <= e[2]
                               /\ Finished(rows[t])
  BY DEF Comparable
<1>2. PICK c \in BarTimes : /\ e[2] - Step * OverlapBars < c
                            /\ e[1] <= c /\ c <= e[2] /\ Finished(rows[c])
  BY <1>1
<1> DEFINE g == Gap(x)
           f == FetchStart(x)
           v == rev[x.sym]
<1>3. /\ g = <<e[2] + Step, x.win[2]>> /\ g \in GridRange /\ Wire(x) \in GridRange
      /\ Wire(x)[1] <= f /\ g[2] <= Wire(x)[2] /\ f \in Nat
  BY <1>1, WireOnGrid
<1>4. /\ e \in GridRange /\ e[1] \in Nat /\ e[2] \in Nat /\ e[2] \in Grid
      /\ c \in Times /\ c \in Nat /\ c \in Grid /\ Step \in Nat /\ Step > 0 /\ Step \in Grid
      /\ Boundary(x) \in Int /\ x.win[1] \in Nat /\ x.win[2] \in Nat /\ clock \in Int
      /\ Wire(x)[1] \in Nat /\ Wire(x)[2] \in Nat /\ g[2] \in Nat /\ x.sym \in Symbols
      /\ g[1] \in Nat /\ g[1] <= g[2]
  <2>1. e \in GridRange /\ x.win \in GridRange
    BY <1>1 DEF OnGridCall
  <2>2. x.sym \in Symbols /\ clock \in Int
    BY DEF TypeOK, ReqType, Times
  <2>3. /\ e[1] \in Nat /\ e[2] \in Nat /\ e[2] \in Grid
        /\ x.win[1] \in Nat /\ x.win[2] \in Nat
    BY <2>1, GridRangeType
  <2>4. /\ Wire(x)[1] \in Nat /\ Wire(x)[2] \in Nat
        /\ g[1] \in Nat /\ g[2] \in Nat /\ g[1] <= g[2]
    <3> HIDE DEF g
    <3> QED BY <1>3, GridRangeType
  <2>5. /\ c \in Times /\ c \in Nat /\ c \in Grid
        /\ Step \in Nat /\ Step > 0 /\ Step \in Grid /\ Boundary(x) \in Int
    BY BarTimesType, BoundaryType, CacheBounds, GridArithmetic
  <2> QED BY <2>1, <2>2, <2>3, <2>4, <2>5
<1>5. f <= c
  <2>1. Step * OverlapBars \in Grid /\ Step * OverlapBars \in Int
    <3>1. Step * OverlapBars = OverlapBars * Step /\ OverlapBars \in Int
      BY CacheBounds
    <3>2. Step * OverlapBars \in Grid
      BY <3>1 DEF Grid
    <3> QED BY <3>2, GridArithmetic
  <2> DEFINE reach == e[2] - Step * OverlapBars
  <2>2. reach \in Grid /\ reach \in Int /\ reach < c
    BY <1>2, <1>4, <2>1, GridArithmetic
  <2>3. reach + Step <= c
    BY <1>4, <2>2, GridArithmetic
  <2>4. Earliest(x.eff) = e /\ x.eff # {}
    <3>1. Earliest({e}) = e
      BY <1>4 DEF Earliest
    <3> QED BY <1>1, <3>1
  <2>5. IsLastGap(x)
    BY <1>1, <1>3 DEF IsLastGap
  <2>6. g[1] - Step * OverlapBars = reach + Step
    BY <1>3, <1>4, <2>1
  <2>7. Greater(e[1], g[1] - Step * OverlapBars) <= c
    BY <1>2, <1>4, <2>2, <2>3, <2>6 DEF Greater
  <2>8. c < g[1]
    BY <1>2, <1>3, <1>4
  <2> HIDE DEF reach
  <2>9. Greater(e[1], g[1] - Step * OverlapBars) < g[1]
    <3>1. Greater(e[1], g[1] - Step * OverlapBars) \in Int
      BY <1>4, <2>2, <2>6 DEF Greater
    <3> QED BY <1>4, <2>7, <2>8, <3>1
  <2>10. f = Greater(e[1], g[1] - Step * OverlapBars)
    BY <2>4, <2>5, <2>9 DEF FetchStart
  <2> QED BY <2>7, <2>10
<1>6. overlap[c] = rows[c]
  <2>1. c <= Lesser(g[1] - Step, Boundary(x))
    BY <1>1, <1>2, <1>3, <1>4 DEF Lesser
  <2> QED BY <1>4, <1>5, <2>1 DEF Within
<1>7. rows[c] # NoRow /\ c <= clock
  BY <1>2, <1>4 DEF Finished, AreBars
<1>8. batch[c] # NoRow
  <2>1. Spanned(Wire(x), c)
    BY <1>2, <1>3, <1>4, <1>5 DEF Spanned
  <2> QED BY <1>3, <1>4, <1>7, <2>1, AnswerHolds, GridRangeIsRange
<1>9. AllOf(batch, v)
  BY <1>4, AnswerUniform
<1>10. rows[c].rev = v
  BY <1>4, <1>6, <1>7, <1>8, <1>9 DEF AllOf
<1>11. ASSUME NEW t \in Times, x.win[1] <= t, t <= x.win[2],
              Upsert(rows, batch)[t] # NoRow
       PROVE  Upsert(rows, batch)[t].rev = v
  <2>1. CASE batch[t] # NoRow
    BY <1>9, <2>1 DEF Upsert, AllOf
  <2>2. CASE batch[t] = NoRow
    <3>1. rows[t] # NoRow /\ Upsert(rows, batch)[t] = rows[t]
      BY <1>11, <2>2 DEF Upsert
    <3>2. t \in BarTimes /\ t <= clock /\ t \in Nat /\ t \in Grid
      BY <3>1, BarTimesType DEF AreBars
    <3>3. t <= e[2]
      <4> SUFFICES ASSUME e[2] < t PROVE FALSE
        BY <1>4, <3>2
      <4>1. e[2] + Step <= t
        BY <1>4, <3>2, GridArithmetic
      <4>2. f <= t
        BY <1>2, <1>3, <1>4, <1>5, <3>2
      <4>3. Spanned(Wire(x), t)
        BY <1>3, <1>4, <1>11, <3>2, <4>2 DEF Spanned
      <4> QED BY <1>3, <1>4, <2>2, <3>2, <4>3, AnswerHolds, GridRangeIsRange
    <3>4. /\ Within(rows, 0, e[2])[t] = rows[t] /\ Within(rows, 0, e[2])[c] = rows[c]
      BY <1>2, <1>4, <3>2, <3>3 DEF Within
    <3>5. rows[t].rev = rows[c].rev
      BY <1>1, <1>4, <1>7, <3>1, <3>4 DEF OneSeries
    <3> QED BY <1>10, <3>1, <3>5
  <2> QED BY <2>1, <2>2
<1> HIDE DEF v
<1> DEFINE U == Upsert(rows, batch)
<1> HIDE DEF U
<1>12. \A t \in Times : Within(U, x.win[1], x.win[2])[t] # NoRow
          => Within(U, x.win[1], x.win[2])[t].rev = v
  BY <1>11 DEF Within, U
<1> QED BY <1>12 DEF OneSeries, InWindow, U

LEMMA ComparableCompares ==
    ASSUME OnGrid, NEW x \in ReqType, OnGridCall(x), x.backstop, NEW rows,
           Comparable(x, rows)
    PROVE  Compares(x) /\ IsLastGap(x)
<1>1. PICK e \in x.eff :
        /\ x.eff = {e} /\ x.plan = {<<e[2] + Step, x.win[2]>>}
        /\ \E t \in BarTimes : e[2] - Step * OverlapBars < t /\ t <= e[2]
  BY DEF Comparable
<1> DEFINE g == Gap(x)
<1>2. g = <<e[2] + Step, x.win[2]>> /\ e \in GridRange
  BY <1>1, WireOnGrid DEF OnGridCall
<1>3. e[1] \in Nat /\ e[2] \in Nat /\ e[1] <= e[2] /\ Step \in Nat /\ Step > 0
      /\ Step * OverlapBars \in Int
  BY <1>2, GridRangeType, CacheBounds
<1>4. Step * OverlapBars > 0
  <2>1. PICK t \in BarTimes : e[2] - Step * OverlapBars < t /\ t <= e[2]
    BY <1>1
  <2>2. t \in Int
    BY BarTimesType
  <2> QED BY <1>3, <2>1, <2>2
<1>5. IsLastGap(x)
  BY <1>1, <1>2 DEF IsLastGap
<1>6. Earliest(x.eff) = e /\ x.eff # {}
  <2>1. Earliest({e}) = e
    BY <1>3 DEF Earliest
  <2> QED BY <1>1, <2>1
<1>7. Greater(e[1], g[1] - Step * OverlapBars) < g[1]
  BY <1>2, <1>3, <1>4 DEF Greater
<1>8. FetchStart(x) = Greater(e[1], g[1] - Step * OverlapBars)
  BY <1>5, <1>6, <1>7 DEF FetchStart
<1> QED BY <1>5, <1>7, <1>8 DEF Compares

----------------------------------------------------------------------------
\* One lemma per action again.

\* What a request's own step must show about adjustments.
KeepsBack(r) ==
    /\ BackCall(req[r])'
    /\ \A b \in Tables, t \in Times :
          bars'[b][t] # NoRow => t \in BarTimes /\ t <= clock'

LEMMA BackFacts ==
    ASSUME BackInv, NEW r \in Requests
    PROVE  /\ ServeInv /\ TypeInv
           /\ FirstPass(req[r], bars[TableOf[req[r].sym]])
           /\ SecondPass(req[r], bars[TableOf[req[r].sym]], rev[req[r].sym])
           /\ Uniform(req[r])
           /\ req[r].pc = "write" => AreBars(req[r].batch)
           /\ \A b \in Tables, t \in Times :
                 bars[b][t] # NoRow => t \in BarTimes /\ t <= clock
BY CallFacts DEF BackInv, BackCall, Stock, AreBars

\* Steps that leave the request where neither pass says anything.
LEMMA IdleBack ==
    ASSUME BackInv, NEW r \in Requests, bars' = bars, clock' = clock,
           req'[r].pc \notin Looping \cup {"read"},
           req'[r].pc = "done" => req'[r].via = "bypass"
    PROVE  KeepsBack(r)
<1> DEFINE y == req'[r]
<1>1. /\ FirstPass(y, bars'[TableOf[y.sym]])
      /\ SecondPass(y, bars'[TableOf[y.sym]], rev'[y.sym]) /\ Uniform(y)
      /\ y.pc # "write"
  BY DEF FirstPass, SecondPass, Uniform, Looping, AtStore
<1> HIDE DEF y
<1>2. BackCall(req[r])'
  BY <1>1, AfterBackStep DEF y
<1> QED BY <1>2, BackFacts DEF KeepsBack

LEMMA QuietBack ==
    ASSUME BackInv, NEW r \in Requests,
           \/ Degrade(r) \/ FetchFails(r) \/ BypassPlan(r) \/ BypassReturns(r)
           \/ BypassFails(r)
    PROVE  KeepsBack(r)
<1> DEFINE x == req[r]
           y == req'[r]
<1>1. x \in ReqType /\ req \in [Requests -> ReqType]
  BY BackFacts, CallFacts
<1>2. bars' = bars /\ clock' = clock
  BY DEF Degrade, FetchFails, BypassPlan, BypassReturns, BypassFails, store, world
<1>3. y.pc \in {"bypass", "refetch", "failed"} \/ (y.pc = "done" /\ y.via = "bypass")
  <2>1. CASE Degrade(r) \/ FetchFails(r)
    BY <1>1, <2>1 DEF Degrade, FetchFails, ReqType
  <2>2. CASE BypassPlan(r)
    <3> DEFINE left == Subtract(x.win, x.logged, Step)
    <3>1. y = Answered(x, "bypass", x.got) \/ y = [x EXCEPT !.pc = "refetch", !.plan = left]
      BY <1>1, <2>2 DEF BypassPlan
    <3> HIDE DEF x, y, left
    <3>2. [x EXCEPT !.pc = "refetch", !.plan = left].pc = "refetch"
      BY <1>1 DEF ReqType
    <3>3. Answered(x, "bypass", x.got).pc = "done" /\ Answered(x, "bypass", x.got).via = "bypass"
      BY <1>1, AnsweredFields
    <3> QED BY <3>1, <3>2, <3>3
  <2>3. CASE BypassReturns(r)
    <3> DEFINE got == Upsert(x.got, Answer(x.sym, Gap(x)))
    <3> DEFINE rest == x.plan \ {Gap(x)}
               more == [x EXCEPT !.got = got, !.logged = @ \cup {Gap(x)}, !.plan = rest]
    <3>1. y = Answered(x, "bypass", got) \/ y = more
      BY <1>1, <2>3 DEF BypassReturns
    <3>2. x.pc = "refetch"
      BY <2>3 DEF BypassReturns
    <3> HIDE DEF x, y, got, rest
    <3>3. more.pc = "refetch"
      BY <1>1, <3>2 DEF ReqType
    <3>4. Answered(x, "bypass", got).pc = "done" /\ Answered(x, "bypass", got).via = "bypass"
      BY <1>1, AnsweredFields
    <3> HIDE DEF more
    <3> QED BY <3>1, <3>3, <3>4
  <2>4. CASE BypassFails(r)
    <3>1. y = [Answered(x, "bypass", Empty) EXCEPT !.pc = "failed"]
      BY <1>1, <2>4 DEF BypassFails
    <3> HIDE DEF x, y
    <3> QED BY <1>1, <3>1, AnsweredFields
  <2> QED BY <2>1, <2>2, <2>3, <2>4
<1> QED BY <1>2, <1>3, IdleBack DEF Looping

LEMMA BeginBack ==
    ASSUME BackInv, NEW r \in Requests, NEW s \in Symbols, NEW w \in Windows,
           Begin(r, s, w)
    PROVE  KeepsBack(r)
<1> DEFINE y == [Idle EXCEPT !.pc = "read", !.sym = s, !.win = w, !.asked = clock]
<1>1. y = req'[r] /\ bars' = bars /\ clock' = clock
  BY BackFacts, CallFacts DEF Begin, store, world
<1>2. y.pc = "read" /\ ~y.extends /\ y.backstop
  BY DEF Idle
<1> HIDE DEF y
<1>3. /\ FirstPass(y, bars'[TableOf[y.sym]])
      /\ SecondPass(y, bars'[TableOf[y.sym]], rev'[y.sym]) /\ Uniform(y)
  BY <1>2 DEF FirstPass, SecondPass, Uniform
<1> QED BY <1>1, <1>2, <1>3, AfterBackStep, BackFacts DEF KeepsBack

LEMMA ReadCoverageBack ==
    ASSUME OnGrid, BackInv, NEW r \in Requests, ReadCoverage(r)
    PROVE  KeepsBack(r)
<1> DEFINE x == req[r]
           y == req'[r]
           eff == Found(x)
           plan == Subtract(x.win, eff, Step)
           rows == bars[TableOf[x.sym]]
<1>1. /\ x.pc = "read" /\ y.pc = (IF plan = {} THEN "settle" ELSE "fetch")
      /\ y.eff = eff /\ y.plan = plan
      /\ y.extends <=> IF x.backstop THEN PlainExtension(x, eff, plan) ELSE x.extends
      /\ ~y.disturbed => ~x.disturbed /\ x.sym \notin torn
      /\ y.sym = x.sym /\ y.win = x.win /\ y.asked = x.asked
      /\ y.backstop = x.backstop /\ y.steady = x.steady
      /\ bars' = bars /\ rev' = rev /\ clock' = clock
  BY BackFacts, ReadCoverageCall
<1>2. SecondPass(x, rows, rev[x.sym])
  BY BackFacts
<1>3. /\ \A e \in eff : e[2] <= Boundary(x)
      /\ x.sym \notin torn =>
            \A t \in BarTimes : CoversStamp(eff, t) => Finished(rows[t])
  BY FoundIsStored, BackFacts DEF Stock
<1> HIDE DEF eff, plan
<1>4. FirstPass(y, rows)
  <2> SUFFICES ASSUME y.extends, y.backstop, ~y.disturbed
               PROVE  y.pc = "fetch" /\ Comparable(y, rows)
    BY DEF FirstPass, AtStore
  <2>1. PlainExtension(x, eff, plan)
    BY <1>1
  <2>2. PICK e \in eff : /\ eff = {e}
                         /\ plan = {<<e[2] + Step, x.win[2]>>}
                         /\ OneSeries(Within(rows, 0, e[2]))
                         /\ \E t \in BarTimes : /\ e[2] - Step * OverlapBars < t
                                                /\ e[1] <= t /\ t <= e[2]
    BY <2>1 DEF PlainExtension
  <2>3. PICK t \in BarTimes : /\ e[2] - Step * OverlapBars < t
                              /\ e[1] <= t /\ t <= e[2]
    BY <2>2
  <2>4. Finished(rows[t])
    BY <1>1, <1>3, <2>3 DEF CoversStamp, Spanned
  <2>5. Boundary(y) = Boundary(x)
    BY <1>1 DEF Boundary
  <2> HIDE DEF x, y, rows
  <2>6. Comparable(y, rows)
    BY <1>1, <1>3, <2>2, <2>3, <2>4, <2>5 DEF Comparable
  <2> QED BY <1>1, <2>2, <2>6
<1> HIDE DEF x, y, rows
<1>5. SecondPass(y, rows, rev[x.sym])
  BY <1>1, <1>2 DEF SecondPass, Looping
<1>6. Uniform(y) /\ y.pc # "write"
  BY <1>1 DEF Uniform
<1>7. BackCall(req[r])'
  BY <1>1, <1>4, <1>5, <1>6, AfterBackStep DEF x, y, rows
<1> QED BY <1>1, <1>7, BackFacts DEF KeepsBack

LEMMA FetchReturnsBack ==
    ASSUME OnGrid, BackInv, NEW r \in Requests, FetchReturns(r)
    PROVE  KeepsBack(r)
<1> DEFINE x == req[r]
           y == req'[r]
           rows == bars[TableOf[x.sym]]
           batch == Answer(x.sym, Wire(x))
           overlap == Within(rows, FetchStart(x), Lesser(Gap(x)[1] - Step, Boundary(x)))
           v == rev[x.sym]
<1>1. /\ x.pc = "fetch"
      /\ y.pc = (IF Compares(x) /\ q = "down" THEN "bypass" ELSE "write")
      /\ y.batch = batch /\ (Compares(x) /\ q = "up" => y.overlap = overlap)
      /\ y.eff = x.eff /\ y.plan = x.plan
      /\ y.extends = x.extends /\ y.disturbed = x.disturbed
      /\ y.sym = x.sym /\ y.win = x.win /\ y.asked = x.asked
      /\ y.backstop = x.backstop /\ y.steady = x.steady
      /\ bars' = bars /\ rev' = rev /\ clock' = clock
  BY BackFacts, FetchReturnsCall DEF Stock
<1>2. /\ FirstPass(x, rows) /\ SecondPass(x, rows, v)
      /\ OnGridCall(x) /\ x \in ReqType /\ rows \in Series /\ TypeOK /\ AreBars(rows)
      /\ x.sym \in Symbols /\ q \in {"up", "down"}
  BY BackFacts, CallFacts DEF Stock, BackInv, TypeOK
<1>3. AllOf(batch, v) /\ AreBars(batch)
  BY <1>2, AnswerUniform
<1>4. Gap(y) = Gap(x) /\ (IsLastGap(y) <=> IsLastGap(x)) /\ (Compares(y) <=> Compares(x))
  BY <1>1, SameGap
<1> HIDE DEF x, y, rows, batch, v
<1>5. FirstPass(y, rows)
  <2> SUFFICES ASSUME x.extends, x.backstop, ~x.disturbed, y.pc = "write"
               PROVE  /\ Compares(x) /\ IsLastGap(x)
                      /\ HistoryChanged(y) \/ OneSeries(InWindow(x, Upsert(rows, batch)))
    BY <1>1, <1>4 DEF FirstPass, AtStore, InWindow
  <2>1. Comparable(x, rows)
    BY <1>1, <1>2 DEF FirstPass
  <2>2. Compares(x) /\ IsLastGap(x)
    BY <1>2, <2>1, ComparableCompares
  <2>3. y.overlap = overlap
    BY <1>1, <1>2, <2>2
  <2>4. ASSUME ~HistoryChanged(y)
        PROVE  OneSeries(InWindow(x, Upsert(rows, batch)))
    <3> HIDE DEF overlap
    <3>1. \A t \in Times : ~(/\ overlap[t] # NoRow /\ batch[t] # NoRow
                             /\ overlap[t] # batch[t])
      BY <1>1, <2>3, <2>4 DEF HistoryChanged
    <3> QED BY <1>2, <2>1, <3>1, ExtensionCompares DEF overlap, batch
  <2> QED BY <2>2, <2>4
<1>6. SecondPass(y, rows, v)
  BY <1>1, <1>2, <1>3 DEF SecondPass, Looping
<1>7. Uniform(y)
  BY <1>1 DEF Uniform
<1>8. \A t \in Times : y.batch[t] # NoRow => t \in BarTimes /\ t <= clock'
  BY <1>1, <1>3 DEF AreBars
<1>9. BackCall(req[r])'
  BY <1>1, <1>5, <1>6, <1>7, <1>8, AfterBackStep DEF x, y, rows, v
<1> QED BY <1>1, <1>9, BackFacts DEF KeepsBack

LEMMA WriteBarsBack ==
    ASSUME BackInv, NEW r \in Requests, WriteBars(r)
    PROVE  KeepsBack(r)
<1> DEFINE x == req[r]
           y == req'[r]
           rows == bars[TableOf[x.sym]]
           new == bars'[TableOf[x.sym]]
           v == rev[x.sym]
<1>1. /\ x.pc = "write" /\ y.pc = "record" /\ y.batch = x.batch
      /\ y.overlap = x.overlap /\ y.eff = x.eff /\ y.plan = x.plan
      /\ y.extends = x.extends /\ y.disturbed = x.disturbed
      /\ y.backstop = x.backstop /\ y.steady = x.steady
      /\ y.sym = x.sym /\ y.win = x.win
      /\ rev' = rev /\ clock' = clock
  BY BackFacts, CallFacts DEF WriteBars, ReqType, world
<1>2. /\ FirstPass(x, rows) /\ SecondPass(x, rows, v) /\ AreBars(x.batch)
  BY <1>1, BackFacts
<1>3. new = Upsert(rows, x.batch)
      /\ \A b \in Tables : bars'[b] = bars[b] \/ bars'[b] = Upsert(bars[b], x.batch)
  BY BackFacts, CallFacts DEF WriteBars, TypeOK
<1>4. Gap(y) = Gap(x) /\ (IsLastGap(y) <=> IsLastGap(x)) /\ (Compares(y) <=> Compares(x))
  BY <1>1, SameGap
<1>5. HistoryChanged(y) <=> HistoryChanged(x)
  BY <1>1 DEF HistoryChanged
<1> HIDE DEF x, y, rows, new, v
<1>6. FirstPass(y, new)
  BY <1>1, <1>2, <1>3, <1>4, <1>5 DEF FirstPass, AtStore, InWindow
<1>7. SecondPass(y, new, v)
  BY <1>1, <1>2, <1>3 DEF SecondPass, AllOf, Upsert, Looping
<1>8. Uniform(y) /\ y.pc # "write"
  BY <1>1 DEF Uniform
<1>9. BackCall(req[r])'
  <2>1. new = bars'[TableOf[y.sym]] /\ v = rev'[y.sym]
    BY <1>1 DEF new, v
  <2> QED BY <1>6, <1>7, <1>8, <2>1, AfterBackStep DEF y
<1>10. ASSUME NEW b \in Tables, NEW t \in Times, bars'[b][t] # NoRow
       PROVE  t \in BarTimes /\ t <= clock'
  <2>1. bars[b][t] # NoRow \/ x.batch[t] # NoRow
    BY <1>3, <1>10 DEF Upsert
  <2> QED BY <1>1, <1>2, <2>1, BackFacts DEF AreBars
<1> QED BY <1>9, <1>10 DEF KeepsBack

LEMMA RecordCoverageBack ==
    ASSUME BackInv, NEW r \in Requests, RecordCoverage(r)
    PROVE  KeepsBack(r)
<1> DEFINE x == req[r]
           y == req'[r]
           rows == bars[TableOf[x.sym]]
           new == bars'[TableOf[x.sym]]
           v == rev[x.sym]
           rest == x.plan \ {Gap(x)}
           Again == y.pc = "read" /\ ~y.backstop /\ Drop({x.sym})
           Onward == /\ ~(Compares(x) /\ HistoryChanged(x))
                     /\ y.pc = (IF rest = {} THEN "settle" ELSE "fetch")
                     /\ y.backstop = x.backstop /\ bars' = bars
<1>1. /\ x.pc = "record" /\ (Again \/ Onward)
      /\ y.extends = x.extends /\ y.disturbed = x.disturbed /\ y.steady = x.steady
      /\ y.sym = x.sym /\ y.win = x.win
      /\ rev' = rev /\ clock' = clock
  BY BackFacts, RecordCoverageCall
<1>2. FirstPass(x, rows) /\ SecondPass(x, rows, v) /\ TableOf[x.sym] \in Tables
  BY <1>1, BackFacts, CallFacts
<1> HIDE DEF x, y
<1>3. \A b \in Tables : bars'[b] = bars[b] \/ bars'[b] = Empty
  <2>1. Again => \A b \in Tables : bars'[b] = bars[b] \/ bars'[b] = Empty
    BY DEF Drop
  <2> QED BY <1>1, <2>1
<1>4. Again => new = Empty
  BY <1>2 DEF Drop
<1>5. Onward => new = rows
  OBVIOUS
<1> HIDE DEF rows, new, v
<1>6. FirstPass(y, new)
  <2>1. CASE Again
    BY <2>1 DEF FirstPass
  <2>2. CASE Onward
    <3> SUFFICES ASSUME x.extends, x.backstop, ~x.disturbed
                 PROVE  y.pc = "settle" /\ OneSeries(InWindow(x, rows))
      BY <1>1, <1>5, <2>2 DEF FirstPass, AtStore, InWindow
    <3>1. Compares(x) /\ IsLastGap(x)
      BY <1>1, <1>2 DEF FirstPass, AtStore
    <3>2. rest = {}
      BY <3>1 DEF IsLastGap
    <3>3. OneSeries(InWindow(x, rows))
      BY <1>1, <1>2, <2>2, <3>1 DEF FirstPass
    <3> QED BY <2>2, <3>2, <3>3
  <2> QED BY <1>1, <2>1, <2>2
<1>7. SecondPass(y, new, v)
  <2>1. CASE Again
    BY <1>4, <2>1 DEF SecondPass, AllOf, Empty
  <2>2. CASE Onward
    <3>1. y.pc # "write"
      BY <2>2
    <3> QED BY <1>1, <1>2, <1>5, <2>2, <3>1 DEF SecondPass, Looping
  <2> QED BY <1>1, <2>1, <2>2
<1>8. Uniform(y) /\ y.pc # "write"
  BY <1>1 DEF Uniform
<1>9. BackCall(req[r])'
  <2>1. new = bars'[TableOf[y.sym]] /\ v = rev'[y.sym]
    BY <1>1 DEF new, v
  <2> QED BY <1>6, <1>7, <1>8, <2>1, AfterBackStep DEF y
<1>10. \A b \in Tables, t \in Times : bars'[b][t] # NoRow => t \in BarTimes /\ t <= clock'
  BY <1>1, <1>3, BackFacts DEF Empty
<1> QED BY <1>9, <1>10 DEF KeepsBack

LEMMA SettleBack ==
    ASSUME BackInv, NEW r \in Requests, NEW ticks, Settle(r, ticks)
    PROVE  KeepsBack(r)
<1> DEFINE x == req[r]
           y == req'[r]
           rows == bars[TableOf[x.sym]]
           new == bars'[TableOf[x.sym]]
           v == rev[x.sym]
<1>1. /\ x.pc = "settle" /\ y.pc = "serve"
      /\ ~y.disturbed => ~x.disturbed /\ new = rows
      /\ y.extends = x.extends /\ y.backstop = x.backstop /\ y.steady = x.steady
      /\ y.sym = x.sym /\ y.win = x.win /\ rev' = rev /\ clock' = clock
      /\ \A b \in Tables : bars'[b] \in {bars[b], Empty}
  BY BackFacts, SettleCall DEF Stock
<1>2. FirstPass(x, rows) /\ SecondPass(x, rows, v)
  BY BackFacts
<1> HIDE DEF x, y, rows, new, v
<1>3. FirstPass(y, new)
  BY <1>1, <1>2 DEF FirstPass, AtStore, InWindow
<1>4. SecondPass(y, new, v)
  BY <1>1, <1>2 DEF SecondPass, Looping
<1>5. Uniform(y) /\ y.pc # "write"
  BY <1>1 DEF Uniform
<1>6. BackCall(req[r])'
  <2>1. new = bars'[TableOf[y.sym]] /\ v = rev'[y.sym]
    BY <1>1 DEF new, v
  <2> QED BY <1>3, <1>4, <1>5, <2>1, AfterBackStep DEF y
<1>7. \A b \in Tables, t \in Times : bars'[b][t] # NoRow => t \in BarTimes /\ t <= clock'
  BY <1>1, BackFacts DEF Empty
<1> QED BY <1>6, <1>7 DEF KeepsBack

LEMMA ServeBack ==
    ASSUME BackInv, NEW r \in Requests, Serve(r)
    PROVE  KeepsBack(r)
<1> DEFINE x == req[r]
           rows == bars[TableOf[x.sym]]
           served == Within(rows, x.win[1], x.win[2])
           y == Answered(x, x.via, served)
           v == rev[x.sym]
<1>1. y = req'[r] /\ x.pc = "serve" /\ bars' = bars /\ clock' = clock /\ x \in ReqType
  BY BackFacts, CallFacts DEF Serve, store, world
<1>2. FirstPass(x, rows) /\ SecondPass(x, rows, v)
  BY BackFacts
<1>3. /\ y.pc = "done" /\ y.served = served /\ y.disturbed = x.disturbed
      /\ y.extends = x.extends /\ y.steady = x.steady
  BY <1>1, AnsweredFields
<1>4. served = InWindow(x, rows)
  BY DEF InWindow
<1> HIDE DEF x, y, rows, served
<1>5. Uniform(y)
  <2> SUFFICES ASSUME x.extends, x.steady, ~x.disturbed PROVE OneSeries(served)
    BY <1>3 DEF Uniform
  <2>1. CASE x.backstop
    BY <1>1, <1>2, <1>4, <2>1 DEF FirstPass
  <2>2. CASE ~x.backstop
    <3>1. AllOf(rows, v)
      BY <1>1, <1>2, <2>2 DEF SecondPass, Looping
    <3> QED BY <1>4, <3>1 DEF AllOf, OneSeries, InWindow, Within
  <2> QED BY <2>1, <2>2
<1>6. /\ FirstPass(y, bars'[TableOf[y.sym]])
      /\ SecondPass(y, bars'[TableOf[y.sym]], rev'[y.sym]) /\ y.pc # "write"
  BY <1>3 DEF FirstPass, SecondPass, Looping, AtStore
<1>7. BackCall(req[r])'
  BY <1>1, <1>5, <1>6, AfterBackStep
<1> QED BY <1>1, <1>7, BackFacts DEF KeepsBack

LEMMA InitBack == OnGrid /\ Init => BackInv
<1> SUFFICES ASSUME OnGrid, Init PROVE BackInv
  OBVIOUS
<1>1. Idle.pc = "idle" /\ ~Idle.extends /\ Idle.backstop
  BY DEF Idle
<1>2. /\ \A r \in Requests : req[r] = Idle
      /\ \A b \in Tables : bars[b] = Empty
  BY DEF Init
<1>3. \A r \in Requests : BackCall(req[r])
  BY <1>1, <1>2 DEF BackCall, FirstPass, SecondPass, Uniform
<1>4. \A b \in Tables : AreBars(bars[b])
  BY <1>2 DEF AreBars, Empty
<1> QED BY <1>3, <1>4, InitServes DEF BackInv

LEMMA MoveBack ==
    ASSUME OnGrid, BackInv, NEW r \in Requests, Moves(r)
    PROVE  KeepsBack(r)
BY BeginBack, QuietBack, ReadCoverageBack, FetchReturnsBack, WriteBarsBack,
   RecordCoverageBack, SettleBack, ServeBack DEF Moves, Advance

LEMMA StepBack == OnGrid /\ Unaliased /\ BackInv /\ [Next]_vars => BackInv'
<1> SUFFICES ASSUME OnGrid, Unaliased, BackInv, [Next]_vars PROVE BackInv'
  OBVIOUS
<1>1. ServeInv' /\ TypeInv /\ TypeInv' /\ OneHolder
  BY StepServes DEF BackInv, ServeInv, IInv
<1>2. CASE Environment
  <2>1. \A o \in Requests : Beside(o)
    BY <1>1, <1>2, Bystanders
  <2>2. \A o \in Requests : BackCall(req[o])'
    BY <1>1, <2>1, BesideBack DEF BackInv
  <2>3. clock \in Int /\ clock' \in Int /\ clock <= clock'
    BY <1>1, <1>2 DEF Environment, QDies, QReturns, Tick, CorporateAction, TypeInv, TypeOK, Times
  <2>4. \A b \in Tables : bars'[b] = bars[b] \/ bars'[b] = Empty
    BY <1>2 DEF Environment, QDies, QReturns, Tick, CorporateAction, store
  <2>5. \A b \in Tables : AreBars(bars[b])'
    <3>1. \A t \in Times : t \in Int
      BY DEF Times
    <3> QED BY <2>3, <2>4, <3>1 DEF BackInv, AreBars, Empty
  <2> QED BY <1>1, <2>2, <2>5 DEF BackInv
<1>3. ASSUME NEW r \in Requests, Moves(r) PROVE BackInv'
  <2>1. \A o \in Requests \ {r} : BackCall(req[o])'
    BY <1>1, <1>3, Bystanders, BesideBack DEF BackInv
  <2>2. KeepsBack(r)
    BY <1>3, MoveBack
  <2>3. \A b \in Tables : AreBars(bars[b])'
    BY <2>2 DEF KeepsBack, AreBars
  <2> QED BY <1>1, <2>1, <2>2, <2>3 DEF BackInv, KeepsBack
<1>4. CASE UNCHANGED vars
  <2>1. \A o \in Requests : Beside(o)
    BY <1>1, <1>4 DEF vars, Beside, SameCall, Stock, TypeInv, TypeOK, Times
  <2>2. \A o \in Requests : BackCall(req[o])'
    BY <1>1, <2>1, BesideBack DEF BackInv
  <2>3. \A b \in Tables : AreBars(bars[b])'
    BY <1>4 DEF vars, BackInv, AreBars
  <2> QED BY <1>1, <2>2, <2>3 DEF BackInv
<1> QED BY <1>2, <1>3, <1>4 DEF Next, Moves

\* Bars and windows on the grid, a table for each key: a request that extends one
\* uniformly adjusted stretch never returns a series adjusted two ways, a corporate
\* action before it notwithstanding -- it compares the overlap and, if that changed,
\* drops the key and fetches the window afresh (_pass, _adjusted_history_changed).
THEOREM RewritesAreCaught ==
    ASSUME OnGrid, Unaliased
    PROVE  Spec => []BackstopCatchesRewrite
<1>1. BackInv /\ [Next]_vars => BackInv'
  BY StepBack
<1>2. Init => BackInv
  BY InitBack
<1>3. BackInv => BackstopCatchesRewrite
  BY DEF BackInv, BackCall, Uniform, BackstopCatchesRewrite
<1> QED BY <1>1, <1>2, <1>3, PTL DEF Spec
============================================================================
