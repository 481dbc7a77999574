--------------------------- MODULE KdbCacheProofs ---------------------------
(***************************************************************************)
(* Theorems about KdbCache, for every value of its constants.              *)
(***************************************************************************)
EXTENDS KdbCache, WellFoundedInduction, TLAPS

----------------------------------------------------------------------------
\* Facts about the arithmetic of KdbRanges.

\* A quotient brackets its dividend: a day starts no later than its instants.
LEMMA Quotient ==
    ASSUME NEW a \in Int, NEW d \in Nat \ {0}
    PROVE  /\ (a \div d) \in Int
           /\ (a \div d) * d \in Int
           /\ (a \div d) * d <= a
           /\ a < (a \div d) * d + d
           /\ a >= 0 => (a \div d) * d >= 0
BY SMT

\* A nonempty set of ranges has an earliest one, so Earliest picks a member.
LEMMA EarliestIsMember ==
    ASSUME NEW R \in SUBSET Range2, R # {}
    PROVE  /\ Earliest(R) \in R
           /\ \A h \in R : Earliest(R)[1] <= h[1]
<1> DEFINE T == {g[1] : g \in R}
           Less == {p \in Nat \X Nat : p[1] < p[2]}
<1>1. T \subseteq Nat /\ T # {}
  BY DEF Range2
<1>2. IsWellFoundedOn(Less, Nat)
  BY NatLessThanWellFounded, Zenon DEF OpToRel
<1>3. PICK n \in T : \A m \in T : ~(<<m, n>> \in Less)
  <2> HIDE DEF T, Less
  <2> QED BY <1>1, <1>2, WFMin, Zenon
<1>4. \A m \in T : ~(m < n)
  <2> TAKE m \in T
  <2>1. m \in Nat /\ n \in Nat
    BY <1>1
  <2>2. m < n => <<m, n>> \in Less
    BY <2>1
  <2> QED BY <1>3, <2>2
<1>5. \A m \in T : n <= m
  <2> TAKE m \in T
  <2>1. m \in Int /\ n \in Int
    BY <1>1
  <2>2. ~(m < n)
    BY <1>4
  <2> HIDE DEF T
  <2> QED BY <2>1, <2>2
<1>6. PICK g \in R : g[1] = n
  BY <1>3
<1>7. \A h \in R : g[1] <= h[1]
  BY <1>5, <1>6
<1> QED BY <1>7 DEF Earliest

\* Merged ranges, gaps and clipped ranges start no earlier than the first stamp.
LEMMA CoalesceType ==
    ASSUME NEW R \in SUBSET Range2
    PROVE  Coalesce(R, Step) \in SUBSET Range2
BY DEF Coalesce, Starts, Ends, Range2

LEMMA SubtractType ==
    ASSUME NEW w \in Times \X Times, NEW R \in SUBSET Range2
    PROVE  Subtract(w, R, Step) \in SUBSET Range2
<1> DEFINE C == Coalesce(R, Step)
<1>1. C \subseteq {c \in Range2 : c[1] <= c[2]}
  <2>1. \A c \in C : c[1] <= c[2]
    BY DEF Coalesce
  <2> QED BY <2>1, CoalesceType
<1>2. SUFFICES ASSUME NEW g \in Subtract(w, R, Step)
               PROVE  g \in Range2
  OBVIOUS
<1>3. w[1] \in Nat /\ w[2] \in Int /\ Step \in Nat
  BY CacheBounds DEF Times
<1>4. \A c \in C : c[2] + Step \in Nat /\ Lesser(c[1] - Step, w[2]) \in Int
  BY <1>1, <1>3 DEF Range2, Lesser
<1>5. g \in ({w[1]} \cup {c[2] + Step : c \in C})
               \X ({w[2]} \cup {Lesser(c[1] - Step, w[2]) : c \in C})
  BY DEF Subtract
<1> HIDE DEF C
<1> QED BY <1>3, <1>4, <1>5 DEF Range2

LEMMA TrimTailType ==
    ASSUME NEW r \in Range2, NEW b \in Int
    PROVE  TrimTail(r, b) \in SUBSET Range2
BY DEF TrimTail, Range2, Lesser

LEMMA BoundaryType ==
    ASSUME NEW x \in ReqType
    PROVE  Boundary(x) \in Int
<1>1. x.asked \in Int /\ Step \in Nat \ {0}
  BY CacheBounds DEF ReqType, Times
<1> QED BY <1>1, Quotient DEF Boundary, LastCompleteBoundary

\* What goes on the wire for a request that has a gap left.
LEMMA WireType ==
    ASSUME NEW x \in ReqType, x.plan # {}
    PROVE  /\ Gap(x) \in x.plan /\ Gap(x) \in Range2
           /\ FetchStart(x) \in Nat
           /\ Wire(x) \in Range2
<1>1. Gap(x) \in x.plan /\ Gap(x) \in Range2
  BY EarliestIsMember DEF Gap, ReqType
<1>2. FetchStart(x) \in Nat
  <2>1. CASE x.eff = {}
    BY <1>1, <2>1 DEF FetchStart, Range2
  <2>2. CASE x.eff # {}
    <3>1. Earliest(x.eff)[1] \in Nat
      BY <2>2, EarliestIsMember DEF ReqType, Range2
    <3>2. Gap(x)[1] \in Nat /\ Step * OverlapBars \in Int
      BY <1>1, CacheBounds DEF Range2
    <3> QED BY <3>1, <3>2 DEF FetchStart, Greater
  <2> QED BY <2>1, <2>2
<1>3. Wire(x) \in Range2
  <2>1. Gap(x)[2] \in Int /\ DayLen \in Nat \ {0} /\ Step \in Nat
    BY <1>1, CacheBounds DEF Range2
  <2>2. DayStart(FetchStart(x), DayLen) \in Nat /\ DayStart(Gap(x)[2], DayLen) \in Int
    BY <1>2, <2>1, Quotient DEF DayStart
  <2> QED BY <1>2, <2>1, <2>2 DEF Wire, DayRange, Range2
<1> QED BY <1>1, <1>2, <1>3

\* The provider's answer, an upsert and a slice of a series are series.
LEMMA SeriesTypes ==
    /\ Empty \in Series
    /\ \A a, b \in Series : Upsert(a, b) \in Series
    /\ \A a \in Series : \A lo, hi : Within(a, lo, hi) \in Series
BY DEF Empty, Upsert, Within, Series

LEMMA AnswerType ==
    ASSUME TypeOK, NEW s \in Symbols, NEW w
    PROVE  Answer(s, w) \in Series
<1>1. rev[s] \in 0..MaxRev /\ clock \in Int /\ Step \in Int
  BY CacheBounds DEF TypeOK, Times
<1>2. \A t \in Times : [rev |-> rev[s], final |-> t + Step <= clock] \in Row
  <2> TAKE t \in Times
  <2>1. (t + Step <= clock) \in BOOLEAN
    OBVIOUS
  <2> QED BY <1>1, <2>1 DEF Row
<1> QED BY <1>2 DEF Answer, Series

LEMMA IdleType == Idle \in ReqType
<1>1. 0 \in Times /\ -1 <= 0 /\ 0 \in -1..MaxDeaths
  BY CacheBounds DEF Times
<1>2. (CHOOSE s \in Symbols : TRUE) \in Symbols
  BY CacheBounds
<1> QED BY <1>1, <1>2, SeriesTypes DEF Idle, ReqType, Active, Sync

----------------------------------------------------------------------------
(* Type correctness.  It needs one more fact: a request at a fetch, or at the
   store calls that follow it, has a gap left, so that Gap(x) is one. *)

AtGap == {"fetch", "write", "record", "refetch"}

HasGap(x) == x.pc \in AtGap => x.plan # {}

TypeInv == TypeOK /\ \A r \in Requests : HasGap(req[r])

LEMMA InitType == Init => TypeInv
<1> SUFFICES ASSUME Init PROVE TypeInv
  OBVIOUS
<1>1. bars \in [Tables -> Series] /\ cov \in [Symbols -> SUBSET Range2]
  BY SeriesTypes DEF Init
<1>2. rev \in [Symbols -> 0..MaxRev] /\ clock \in Times /\ epoch \in 0..MaxDeaths
  BY CacheBounds DEF Init
<1>3. req \in [Requests -> ReqType]
  BY IdleType DEF Init
<1>4. \A r \in Requests : HasGap(req[r])
  BY DEF Init, Idle, HasGap, AtGap
<1> QED BY <1>1, <1>2, <1>3, <1>4 DEF Init, TypeInv, TypeOK

\* A step that gives one request a new well-typed record keeps the array typed.
LEMMA OneRequest ==
    ASSUME TypeInv, NEW r \in Requests, NEW y \in ReqType, HasGap(y),
           req' = [req EXCEPT ![r] = y]
    PROVE  /\ req' \in [Requests -> ReqType]
           /\ \A o \in Requests : HasGap(req'[o])
BY DEF TypeInv, TypeOK

\* The call's answer carries no locals.
LEMMA AnsweredType ==
    ASSUME NEW x \in ReqType, NEW rows \in Series,
           NEW via \in {"none", "hit", "partial", "miss", "bypass"}
    PROVE  /\ Answered(x, via, rows) \in ReqType
           /\ Answered(x, via, rows).pc = "done"
           /\ [Answered(x, via, rows) EXCEPT !.pc = "failed"] \in ReqType
<1>1. 0 \in -1..MaxDeaths
  BY CacheBounds
<1> QED BY <1>1, SeriesTypes DEF Answered, ReqType, Final

LEMMA NextFetchType ==
    ASSUME NEW x \in ReqType, NEW rest \in SUBSET Range2
    PROVE  /\ NextFetch(x, rest) \in ReqType
           /\ HasGap(NextFetch(x, rest))
           /\ [NextFetch(x, rest) EXCEPT !.pc = "read", !.backstop = FALSE] \in ReqType
<1>1. 0 \in -1..MaxDeaths
  BY CacheBounds
<1> QED BY <1>1, SeriesTypes, ZenonT(60)
        DEF NextFetch, ReqType, Active, Sync, Await, HasGap, AtGap

LEMMA BeginType ==
    ASSUME TypeInv, NEW r \in Requests, NEW s \in Symbols, NEW w \in Windows,
           Begin(r, s, w)
    PROVE  TypeInv'
<1> DEFINE y == [Idle EXCEPT !.pc = "read", !.sym = s, !.win = w, !.asked = clock]
<1>1. w \in Times \X Times /\ clock \in Times
  BY CacheBounds DEF TypeInv, TypeOK
<1>2. y \in ReqType
  BY <1>1, IdleType DEF ReqType, Active, Sync
<1>3. y.pc = "read"
  BY IdleType DEF ReqType
<1>4. req' = [req EXCEPT ![r] = y]
  BY DEF Begin
<1>5. HasGap(y)
  BY <1>3 DEF HasGap, AtGap
<1> HIDE DEF y
<1> QED BY <1>2, <1>4, <1>5, OneRequest DEF Begin, TypeInv, TypeOK, store, world

LEMMA DegradeType ==
    ASSUME TypeInv, NEW r \in Requests,
           Degrade(r) \/ FetchFails(r)
    PROVE  TypeInv'
<1> DEFINE y == [req[r] EXCEPT !.pc = "bypass"]
<1>1. req[r] \in ReqType
  BY DEF TypeInv, TypeOK
<1>2. y \in ReqType /\ y.pc = "bypass"
  BY <1>1 DEF ReqType, Active, Sync
<1>3. req' = [req EXCEPT ![r] = y]
  BY DEF Degrade, FetchFails
<1>4. HasGap(y)
  BY <1>2 DEF HasGap, AtGap
<1> HIDE DEF y
<1> QED BY <1>2, <1>3, <1>4, OneRequest
        DEF Degrade, FetchFails, TypeInv, TypeOK, store, world

LEMMA ReadCoverageType ==
    ASSUME TypeInv, NEW r \in Requests, ReadCoverage(r)
    PROVE  TypeInv'
<1> DEFINE x == req[r]
           eff == UNION {TrimTail(c, Boundary(x)) : c \in Coalesce(cov[x.sym], Step)}
           plan == Subtract(x.win, eff, Step)
           pc == IF plan = {} THEN "settle" ELSE "fetch"
           via == IF plan = {} THEN "hit" ELSE IF eff # {} THEN "partial" ELSE "miss"
           extends == IF x.backstop THEN PlainExtension(x, eff, plan) ELSE x.extends
           disturbed == x.disturbed \/ x.sym \in torn
           y == [x EXCEPT !.pc = pc, !.eff = eff, !.plan = plan, !.via = via,
                          !.extends = extends, !.disturbed = disturbed]
<1>1. x \in ReqType /\ cov[x.sym] \in SUBSET Range2 /\ x.win \in Times \X Times
  BY DEF TypeInv, TypeOK, ReqType
<1>2. eff \in SUBSET Range2
  <2>1. Boundary(x) \in Int
    BY <1>1, BoundaryType
  <2>2. Coalesce(cov[x.sym], Step) \in SUBSET Range2
    BY <1>1, CoalesceType
  <2>3. \A c \in Coalesce(cov[x.sym], Step) : TrimTail(c, Boundary(x)) \in SUBSET Range2
    BY <2>1, <2>2, TrimTailType
  <2> QED BY <2>3
<1>3. plan \in SUBSET Range2
  BY <1>1, <1>2, SubtractType
<1>4. req' = [req EXCEPT ![r] = y]
  BY <1>1, ZenonT(60) DEF ReadCoverage, TypeInv, TypeOK
<1>5. extends \in BOOLEAN /\ disturbed \in BOOLEAN
  <2>1. x.extends \in BOOLEAN
    BY <1>1 DEF ReqType
  <2>2. PlainExtension(x, eff, plan) \in BOOLEAN
    BY DEF PlainExtension
  <2> QED BY <2>1, <2>2, Zenon
<1>6. pc \in {"settle", "fetch"} /\ via \in {"hit", "partial", "miss"}
      /\ (pc = "fetch" => plan # {})
  OBVIOUS
<1> HIDE DEF eff, plan, pc, via, extends, disturbed
<1>7. y \in ReqType
  BY <1>1, <1>2, <1>3, <1>5, <1>6, ZenonT(60) DEF ReqType, Active, Sync, Await
<1>8. HasGap(y)
  BY <1>1, <1>6 DEF HasGap, AtGap, ReqType
<1> HIDE DEF y, x
<1> QED BY <1>4, <1>7, <1>8, OneRequest
        DEF ReadCoverage, TypeInv, TypeOK, store, world

LEMMA FetchReturnsType ==
    ASSUME TypeInv, NEW r \in Requests, FetchReturns(r)
    PROVE  TypeInv'
<1> DEFINE x == req[r]
           rows == Answer(x.sym, Wire(x))
           overlap == IF Compares(x) /\ q = "up"
                      THEN Within(bars[TableOf[x.sym]], FetchStart(x),
                                  Lesser(Gap(x)[1] - Step, Boundary(x)))
                      ELSE Empty
           y == [x EXCEPT
                   !.pc = IF Compares(x) /\ q = "down" THEN "bypass" ELSE "write",
                   !.batch = rows, !.overlap = overlap,
                   !.got = Upsert(@, rows), !.logged = @ \cup {Wire(x)}]
<1>1. x \in ReqType /\ x.sym \in Symbols /\ x.pc = "fetch" /\ x.plan # {}
  BY DEF TypeInv, TypeOK, ReqType, FetchReturns, HasGap, AtGap
<1>2. rows \in Series
  BY <1>1, AnswerType DEF TypeInv
<1>3. overlap \in Series
  <2>1. bars[TableOf[x.sym]] \in Series
    BY <1>1, CacheBounds DEF TypeInv, TypeOK
  <2> QED BY <2>1, SeriesTypes
<1>4. Wire(x) \in Range2
  BY <1>1, WireType
<1>5. req' = [req EXCEPT ![r] = y]
  BY <1>1 DEF FetchReturns, TypeInv, TypeOK
<1> HIDE DEF rows, overlap
<1>6. x.got \in Series /\ Upsert(x.got, rows) \in Series
  BY <1>1, <1>2, SeriesTypes DEF ReqType
<1>7. y \in ReqType
  BY <1>1, <1>2, <1>3, <1>4, <1>6, ZenonT(60) DEF ReqType, Active, Sync, Await
<1>8. HasGap(y)
  BY <1>1 DEF HasGap, AtGap, ReqType
<1> HIDE DEF y, x
<1> QED BY <1>5, <1>7, <1>8, OneRequest
        DEF FetchReturns, TypeInv, TypeOK, store, world

LEMMA WriteBarsType ==
    ASSUME TypeInv, NEW r \in Requests, WriteBars(r)
    PROVE  TypeInv'
<1> DEFINE x == req[r]
           y == [x EXCEPT !.pc = "record", !.wroteIn = IF NeedsQ(r) THEN epoch ELSE -1]
<1>1. x \in ReqType /\ x.pc = "write" /\ x.plan # {}
  BY DEF TypeInv, TypeOK, WriteBars, HasGap, AtGap
<1>2. epoch \in -1..MaxDeaths /\ -1 \in -1..MaxDeaths
  BY CacheBounds DEF TypeInv, TypeOK
<1>3. y \in ReqType /\ HasGap(y)
  BY <1>1, <1>2 DEF ReqType, Active, Sync, HasGap
<1>4. req' = [req EXCEPT ![r] = y]
  BY DEF WriteBars
<1>5. bars' \in [Tables -> Series]
  <2>1. x.batch \in Series /\ bars \in [Tables -> Series]
    BY <1>1 DEF ReqType, TypeInv, TypeOK
  <2>2. \A b \in Tables : Upsert(bars[b], x.batch) \in Series
    BY <2>1, SeriesTypes
  <2> QED BY <2>1, <2>2 DEF WriteBars
<1> HIDE DEF y, x
<1> QED BY <1>3, <1>4, <1>5, OneRequest DEF WriteBars, TypeInv, TypeOK, world

\* Dropping keys empties tables and coverage.
LEMMA DropType ==
    ASSUME TypeInv, NEW keys, Drop(keys)
    PROVE  bars' \in [Tables -> Series] /\ cov' \in [Symbols -> SUBSET Range2]
BY SeriesTypes DEF Drop, TypeInv, TypeOK

LEMMA RecordCoverageType ==
    ASSUME TypeInv, NEW r \in Requests, RecordCoverage(r)
    PROVE  TypeInv'
<1> DEFINE x == req[r]
           rest == x.plan \ {Gap(x)}
           z == [NextFetch(x, {}) EXCEPT !.pc = "read", !.backstop = FALSE]
<1>1. x \in ReqType /\ x.sym \in Symbols /\ x.plan # {} /\ rest \in SUBSET Range2
  BY DEF TypeInv, TypeOK, ReqType, RecordCoverage, HasGap, AtGap
<1>2. NextFetch(x, rest) \in ReqType /\ HasGap(NextFetch(x, rest)) /\ z \in ReqType
  <2> HIDE DEF x, rest
  <2> QED BY <1>1, NextFetchType
<1>3. HasGap(z)
  <2>1. NextFetch(x, {}) \in ReqType
    BY <1>1, NextFetchType
  <2> QED BY <2>1 DEF HasGap, AtGap, ReqType
<1>4. UNCHANGED world
  BY DEF RecordCoverage
<1>5. CASE Compares(x) /\ HistoryChanged(x)
  <2>1. Drop({x.sym}) /\ req' = [req EXCEPT ![r] = z]
        /\ lru' \subseteq lru /\ torn' \subseteq torn
    BY <1>5 DEF RecordCoverage
  <2> HIDE DEF z, x
  <2> QED BY <1>2, <1>3, <1>4, <2>1, DropType, OneRequest DEF TypeInv, TypeOK, world
<1>6. CASE ~(Compares(x) /\ HistoryChanged(x))
  <2>1. Wire(x) \in Range2 /\ Boundary(x) \in Int
    BY <1>1, WireType, BoundaryType
  <2>2. Recorded(x) \in SUBSET Range2
    BY <2>1, TrimTailType DEF Recorded
  <2>3. /\ cov' = [cov EXCEPT ![x.sym] = @ \cup Recorded(x)]
        /\ torn' \subseteq torn \cup {x.sym}
        /\ req' = [req EXCEPT ![r] = NextFetch(x, rest)]
        /\ UNCHANGED <<bars, lru>>
    BY <1>6 DEF RecordCoverage
  <2> HIDE DEF z, x, rest
  <2>4. cov' \in [Symbols -> SUBSET Range2]
    BY <2>2, <2>3 DEF TypeInv, TypeOK
  <2> QED BY <1>1, <1>2, <1>4, <2>3, <2>4, OneRequest DEF TypeInv, TypeOK, world
<1> QED BY <1>5, <1>6

\* Eviction disturbs other requests' ghosts but none of their gaps.
LEMMA SettleType ==
    ASSUME TypeInv, NEW r \in Requests, NEW ticks, Settle(r, ticks)
    PROVE  TypeInv'
<1>1. PICK evicted \in SUBSET Symbols :
        /\ Drop(evicted)
        /\ lru' \subseteq Touched(req[r].sym)
        /\ torn' = torn \ evicted
        /\ req' = [o \in Requests |->
                     [req[o] EXCEPT
                        !.pc = IF o = r THEN "serve" ELSE @,
                        !.disturbed = @ \/ (req[o].pc \in Active /\
                                            TableOf[req[o].sym] \in {TableOf[k] : k \in evicted})]]
        /\ UNCHANGED world
  BY DEF Settle
<1>2. lru' \subseteq Symbols \X Symbols
  <2>1. req[r].sym \in Symbols /\ lru \subseteq Symbols \X Symbols
    BY DEF TypeInv, TypeOK, ReqType
  <2>2. {p[1] : p \in lru} \subseteq Symbols
    BY <2>1
  <2>3. {<<k, req[r].sym>> : k \in {p[1] : p \in lru} \cup {req[r].sym}}
          \subseteq Symbols \X Symbols
    BY <2>1, <2>2
  <2>4. Touched(req[r].sym) \subseteq Symbols \X Symbols
    BY <2>1, <2>3 DEF Touched
  <2> QED BY <1>1, <2>4
<1>3. \A o \in Requests : req'[o] \in ReqType /\ HasGap(req'[o])
  <2> TAKE o \in Requests
  <2> DEFINE pc == IF o = r THEN "serve" ELSE req[o].pc
             disturbed == req[o].disturbed \/ (req[o].pc \in Active /\
                            TableOf[req[o].sym] \in {TableOf[k] : k \in evicted})
  <2>1. req[o] \in ReqType /\ HasGap(req[o])
    BY DEF TypeInv, TypeOK
  <2>2. req'[o] = [req[o] EXCEPT !.pc = pc, !.disturbed = disturbed]
    BY <1>1
  <2>3. pc \in {"serve", req[o].pc} /\ disturbed \in BOOLEAN
    OBVIOUS
  <2> HIDE DEF pc, disturbed
  <2> QED BY <2>1, <2>2, <2>3, ZenonT(60) DEF ReqType, Active, Sync, HasGap, AtGap
<1>4. req' \in [Requests -> ReqType]
  BY <1>1, <1>3
<1> QED BY <1>1, <1>2, <1>3, <1>4, DropType DEF TypeInv, TypeOK, world

LEMMA ServeType ==
    ASSUME TypeInv, NEW r \in Requests, Serve(r)
    PROVE  TypeInv'
<1> DEFINE x == req[r]
           rows == Within(bars[TableOf[x.sym]], x.win[1], x.win[2])
<1>1. x \in ReqType /\ x.via \in {"none", "hit", "partial", "miss", "bypass"}
  BY DEF TypeInv, TypeOK, ReqType
<1>2. rows \in Series
  <2>1. bars[TableOf[x.sym]] \in Series
    BY <1>1, CacheBounds DEF TypeInv, TypeOK, ReqType
  <2> QED BY <2>1, SeriesTypes
<1>3. req' = [req EXCEPT ![r] = Answered(x, x.via, rows)]
  BY DEF Serve
<1> HIDE DEF x, rows
<1>4. Answered(x, x.via, rows) \in ReqType /\ HasGap(Answered(x, x.via, rows))
  BY <1>1, <1>2, AnsweredType DEF HasGap, AtGap
<1> QED BY <1>3, <1>4, OneRequest DEF Serve, TypeInv, TypeOK, store, world

LEMMA BypassPlanType ==
    ASSUME TypeInv, NEW r \in Requests, BypassPlan(r)
    PROVE  TypeInv'
<1> DEFINE x == req[r]
           left == Subtract(x.win, x.logged, Step)
           a == Answered(x, "bypass", x.got)
           b == [x EXCEPT !.pc = "refetch", !.plan = left]
<1>1. x \in ReqType /\ x.got \in Series /\ left \in SUBSET Range2
  BY SubtractType DEF TypeInv, TypeOK, ReqType
<1>2. a \in ReqType /\ HasGap(a)
  BY <1>1, AnsweredType DEF HasGap, AtGap
<1>3. left # {} => b \in ReqType /\ HasGap(b)
  <2> HIDE DEF left
  <2> QED BY <1>1 DEF ReqType, Active, Await, HasGap, AtGap
<1>4. req' = [req EXCEPT ![r] = IF left = {} THEN a ELSE b]
  BY DEF BypassPlan
<1> HIDE DEF a, b, left, x
<1> QED BY <1>2, <1>3, <1>4, OneRequest DEF BypassPlan, TypeInv, TypeOK, store, world

LEMMA BypassReturnsType ==
    ASSUME TypeInv, NEW r \in Requests, BypassReturns(r)
    PROVE  TypeInv'
<1> DEFINE x == req[r]
           got  == Upsert(x.got, Answer(x.sym, Gap(x)))
           rest == x.plan \ {Gap(x)}
           a == Answered(x, "bypass", got)
           b == [x EXCEPT !.got = got, !.logged = @ \cup {Gap(x)}, !.plan = rest]
<1>1. x \in ReqType /\ x.sym \in Symbols /\ x.plan # {} /\ x.pc = "refetch"
  BY DEF TypeInv, TypeOK, ReqType, BypassReturns, HasGap, AtGap
<1>2. got \in Series
  <2>1. Answer(x.sym, Gap(x)) \in Series /\ x.got \in Series
    BY <1>1, AnswerType DEF TypeInv, ReqType
  <2> QED BY <2>1, SeriesTypes
<1>3. Gap(x) \in Range2 /\ rest \in SUBSET Range2
  BY <1>1, WireType DEF ReqType
<1>4. req' = [req EXCEPT ![r] = IF rest = {} THEN a ELSE b]
  BY DEF BypassReturns
<1> HIDE DEF got, rest
<1>5. a \in ReqType /\ HasGap(a)
  <2> HIDE DEF x
  <2> QED BY <1>1, <1>2, AnsweredType DEF HasGap, AtGap
<1>6. rest # {} => b \in ReqType /\ HasGap(b)
  BY <1>1, <1>2, <1>3 DEF ReqType, HasGap, AtGap
<1> HIDE DEF a, b, x
<1> QED BY <1>4, <1>5, <1>6, OneRequest DEF BypassReturns, TypeInv, TypeOK, store, world

LEMMA BypassFailsType ==
    ASSUME TypeInv, NEW r \in Requests, BypassFails(r)
    PROVE  TypeInv'
<1> DEFINE y == [Answered(req[r], "bypass", Empty) EXCEPT !.pc = "failed"]
<1>1. req[r] \in ReqType
  BY DEF TypeInv, TypeOK
<1>2. y \in ReqType
  BY <1>1, SeriesTypes, AnsweredType
<1>3. HasGap(y)
  <2>1. y.pc = "failed"
    BY DEF Answered
  <2> QED BY <2>1 DEF HasGap, AtGap
<1>4. req' = [req EXCEPT ![r] = y]
  BY DEF BypassFails
<1> HIDE DEF y
<1> QED BY <1>2, <1>3, <1>4, OneRequest DEF BypassFails, TypeInv, TypeOK, store, world

\* A death of q and a corporate action change the ghosts of running requests.
LEMMA EnvironmentType ==
    ASSUME TypeInv, Environment
    PROVE  TypeInv'
<1>1. CASE QDies
  <2>1. \A o \in Requests : req'[o] \in ReqType /\ HasGap(req'[o])
    <3> TAKE o \in Requests
    <3> DEFINE d == req[o].disturbed \/ req[o].pc \in Active
    <3>1. req[o] \in ReqType /\ HasGap(req[o])
      BY DEF TypeInv, TypeOK
    <3>2. req'[o] = [req[o] EXCEPT !.disturbed = d] /\ d \in BOOLEAN
      BY <1>1 DEF QDies
    <3> HIDE DEF d
    <3> QED BY <3>1, <3>2 DEF ReqType, HasGap
  <2>2. req' \in [Requests -> ReqType]
    BY <1>1, <2>1 DEF QDies
  <2>3. bars' \in [Tables -> Series] /\ epoch' \in 0..MaxDeaths
    BY <1>1, SeriesTypes, CacheBounds DEF QDies, TypeInv, TypeOK
  <2> QED BY <1>1, <2>1, <2>2, <2>3 DEF QDies, TypeInv, TypeOK
<1>2. CASE QReturns
  BY <1>2 DEF QReturns, TypeInv, TypeOK, store
<1>3. CASE Tick
  BY <1>3, CacheBounds DEF Tick, TypeInv, TypeOK, store, Times
<1>4. ASSUME NEW s \in Symbols, CorporateAction(s) PROVE TypeInv'
  <2>1. \A o \in Requests : req'[o] \in ReqType /\ HasGap(req'[o])
    <3> TAKE o \in Requests
    <3> DEFINE d == req[o].steady /\ ~(req[o].pc \in Active /\ req[o].sym = s)
    <3>1. req[o] \in ReqType /\ HasGap(req[o])
      BY DEF TypeInv, TypeOK
    <3>2. req'[o] = [req[o] EXCEPT !.steady = d] /\ d \in BOOLEAN
      BY <1>4 DEF CorporateAction
    <3> HIDE DEF d
    <3> QED BY <3>1, <3>2 DEF ReqType, HasGap
  <2>2. req' \in [Requests -> ReqType]
    BY <1>4, <2>1 DEF CorporateAction
  <2>3. rev' \in [Symbols -> 0..MaxRev]
    BY <1>4, CacheBounds DEF CorporateAction, TypeInv, TypeOK
  <2> QED BY <1>4, <2>1, <2>2, <2>3 DEF CorporateAction, TypeInv, TypeOK, store
<1> QED BY <1>1, <1>2, <1>3, <1>4 DEF Environment

LEMMA StepType == TypeInv /\ [Next]_vars => TypeInv'
<1> SUFFICES ASSUME TypeInv, [Next]_vars PROVE TypeInv'
  OBVIOUS
<1>1. ASSUME NEW r \in Requests, NEW s \in Symbols, NEW w \in Windows, Begin(r, s, w)
      PROVE  TypeInv'
  BY <1>1, BeginType
<1>2. ASSUME NEW r \in Requests, Advance(r) PROVE TypeInv'
  BY <1>2, DegradeType, ReadCoverageType, FetchReturnsType, WriteBarsType,
     RecordCoverageType, SettleType, ServeType, BypassPlanType, BypassReturnsType,
     BypassFailsType DEF Advance
<1>3. CASE Environment
  BY <1>3, EnvironmentType
<1>4. CASE UNCHANGED vars
  BY <1>4 DEF vars, TypeInv, TypeOK
<1> QED BY <1>1, <1>2, <1>3, <1>4 DEF Next

\* Whatever requests, fetches, deaths of q and corporate actions do, every
\* variable of the cache holds what its declaration says.
THEOREM TypeCorrect == Spec => []TypeOK
<1>1. TypeInv => TypeOK
  BY DEF TypeInv
<1> QED BY InitType, StepType, <1>1, PTL DEF Spec

----------------------------------------------------------------------------
(* Coverage is backed by rows.  BRK-B and BRK.B share a table; the theorem is
   about keys that do not.

   Coverage is recorded two store calls after the fetch, so the invariant has to
   carry the answer along: what a request is about to record it holds finished
   rows for, before the write in its batch and after it in the table -- unless q
   died in between, which `wroteIn` tells.  No other request moves meanwhile. *)

Unaliased == \A s, t \in Symbols : TableOf[s] = TableOf[t] => s = t

OneRunning ==
    \A r, o \in Requests : req[r].pc \in Sync /\ req[o].pc \in Sync => r = o

AskedInThePast == \A r \in Requests : req[r].asked <= clock

FinishedBarsEnded ==
    \A b \in Tables, t \in Times : Finished(bars[b][t]) => t + Step <= clock

AtStore == {"write", "record"}

HoldsAnswer(x) ==
    /\ \A t \in Times : Finished(x.batch[t]) => t + Step <= clock
    /\ \A t \in BarTimes : CoversStamp(Recorded(x), t) => Finished(x.batch[t])

\* A finished bar is never overwritten by a half-formed one.
KeepsFinished(x) ==
    \A t \in Times : Finished(bars[TableOf[x.sym]][t]) /\ x.batch[t] # NoRow
                        => Finished(x.batch[t])

HasWritten(x) ==
    /\ x.wroteIn <= epoch
    /\ x.wroteIn = -1 => x.batch = Empty
    /\ x.wroteIn = epoch =>
          \A t \in BarTimes : CoversStamp(Recorded(x), t)
                                => Finished(bars[TableOf[x.sym]][t])

InFlight(x) ==
    /\ x.pc \in AtStore => HoldsAnswer(x)
    /\ x.pc = "write" => KeepsFinished(x)
    /\ x.pc = "record" => HasWritten(x)

IInv ==
    /\ TypeInv /\ OneRunning /\ AskedInThePast /\ FinishedBarsEnded
    /\ \A r \in Requests : InFlight(req[r])
    /\ CoverageBacked

\* What is recorded lies inside the days on the wire, and its bars have ended.
LEMMA RecordedIsFetched ==
    ASSUME NEW x \in ReqType, x.plan # {},
           NEW t \in Times, CoversStamp(Recorded(x), t)
    PROVE  /\ t + Step <= x.asked
           /\ Spanned(WireBounds(Wire(x), DayLen), t)
<1>1. Wire(x) \in Range2 /\ Boundary(x) \in Int
  BY WireType, BoundaryType
<1>2. t \in Int /\ x.asked \in Int /\ Step \in Nat \ {0} /\ DayLen \in Nat \ {0}
  BY CacheBounds DEF ReqType, Times
<1>3. Wire(x)[1] <= t /\ t <= Wire(x)[2] /\ t <= Boundary(x)
  BY <1>1, <1>2 DEF Recorded, TrimTail, CoversStamp, Spanned, Lesser, Range2
<1>4. t + Step <= x.asked
  <2> DEFINE grid == (x.asked \div Step) * Step
  <2>1. grid \in Int /\ grid <= x.asked
    BY <1>2, Quotient
  <2>2. t <= grid - Step
    BY <1>3 DEF Boundary, LastCompleteBoundary
  <2> HIDE DEF grid
  <2> QED BY <1>2, <2>1, <2>2
<1>5. Spanned(WireBounds(Wire(x), DayLen), t)
  <2> DEFINE lo == DayStart(Wire(x)[1], DayLen)
             hi == DayStart(Wire(x)[2], DayLen)
  <2>1. Wire(x)[1] \in Int /\ Wire(x)[2] \in Int
    BY <1>1 DEF Range2
  <2>2. lo \in Int /\ lo <= Wire(x)[1] /\ hi \in Int /\ Wire(x)[2] < hi + DayLen
    BY <1>2, <2>1, Quotient DEF DayStart
  <2>3. WireBounds(Wire(x), DayLen) = <<lo, hi + DayLen - 1>>
    BY DEF WireBounds
  <2> HIDE DEF lo, hi
  <2> QED BY <1>2, <1>3, <2>1, <2>2, <2>3 DEF Spanned
<1> QED BY <1>4, <1>5

\* Recorded depends on the gaps, the coverage found, the pass and the clock read.
LEMMA SameRecorded ==
    ASSUME NEW x, NEW y, y.plan = x.plan, y.eff = x.eff,
           y.backstop = x.backstop, y.asked = x.asked
    PROVE  Recorded(y) = Recorded(x) /\ Wire(y) = Wire(x)
<1>1. Gap(y) = Gap(x)
  BY DEF Gap
<1>2. FetchStart(y) = FetchStart(x)
  BY <1>1 DEF FetchStart, IsLastGap
<1>3. Wire(y) = Wire(x)
  BY <1>1, <1>2 DEF Wire
<1> QED BY <1>3 DEF Recorded, Boundary

\* While one request runs or returns from its await, no other one is at a store
\* call, before or after the step.
LEMMA OneMoves ==
    ASSUME IInv, TypeInv', NEW r \in Requests, req[r].pc \in Sync \/ LoopFree,
           \A o \in Requests \ {r} : req'[o].pc = req[o].pc /\ req'[o].asked = req[o].asked,
           req'[r].asked <= clock, clock' = clock
    PROVE  /\ OneRunning' /\ AskedInThePast'
           /\ \A o \in Requests \ {r} : req'[o].pc \notin Sync
<1>1. \A o \in Requests \ {r} : req[o].pc \notin Sync
  BY DEF IInv, OneRunning, LoopFree
<1>2. OneRunning'
  BY <1>1 DEF OneRunning
<1>3. AskedInThePast'
  BY DEF IInv, AskedInThePast
<1> QED BY <1>1, <1>2, <1>3

\* A step of a request that touches neither rows nor coverage nor the clock, and
\* leaves the request elsewhere than at a write or a record.
LEMMA QuietStep ==
    ASSUME IInv, TypeInv', NEW r \in Requests, req[r].pc \in Sync \/ LoopFree,
           \A o \in Requests \ {r} : req'[o] = req[o],
           req'[r].asked <= clock, req'[r].pc \notin AtStore,
           bars' = bars, cov' = cov, torn' = torn, clock' = clock
    PROVE  IInv'
<1>1. /\ OneRunning' /\ AskedInThePast'
      /\ \A o \in Requests \ {r} : req'[o].pc \notin Sync
  BY OneMoves
<1>2. \A o \in Requests : req'[o].pc \notin AtStore
  BY <1>1 DEF Sync, AtStore
<1>3. \A o \in Requests : InFlight(req[o])'
  BY <1>2 DEF InFlight, AtStore
<1>4. CoverageBacked' /\ FinishedBarsEnded'
  BY DEF IInv, CoverageBacked, FinishedBarsEnded
<1> QED BY <1>1, <1>3, <1>4 DEF IInv

\* The steps of that kind.
LEMMA QuietActions ==
    ASSUME IInv, TypeInv', NEW r \in Requests,
           \/ Degrade(r) \/ ReadCoverage(r) \/ FetchFails(r) \/ Serve(r)
           \/ BypassPlan(r) \/ BypassReturns(r) \/ BypassFails(r)
           \/ \E s \in Symbols, w \in Windows : Begin(r, s, w)
    PROVE  IInv'
<1>1. req \in [Requests -> ReqType] /\ req[r] \in ReqType /\ req[r].asked <= clock
      /\ clock \in Int
  BY DEF IInv, TypeInv, TypeOK, AskedInThePast, Times
<1>2. bars' = bars /\ cov' = cov /\ torn' = torn /\ clock' = clock
      /\ \A o \in Requests \ {r} : req'[o] = req[o]
  BY <1>1 DEF Degrade, ReadCoverage, FetchFails, Serve, BypassPlan, BypassReturns,
              BypassFails, Begin, store, world
<1>3. req[r].pc \in Sync \/ LoopFree
  <2>1. Degrade(r) => req[r].pc \in Sync
    BY DEF Degrade, NeedsQ, Sync
  <2> QED BY <2>1 DEF ReadCoverage, FetchFails, Serve, BypassPlan, BypassReturns,
              BypassFails, Begin, Sync
<1>4. req'[r].asked <= clock /\ req'[r].pc \notin AtStore
  <2>1. CASE Degrade(r) \/ FetchFails(r)
    BY <1>1, <2>1 DEF Degrade, FetchFails, AtStore, ReqType
  <2>2. CASE ReadCoverage(r)
    <3> DEFINE x == req[r]
               eff == UNION {TrimTail(c, Boundary(x)) : c \in Coalesce(cov[x.sym], Step)}
               plan == Subtract(x.win, eff, Step)
               extends == IF x.backstop THEN PlainExtension(x, eff, plan) ELSE x.extends
               disturbed == x.disturbed \/ x.sym \in torn
               pc == IF plan = {} THEN "settle" ELSE "fetch"
               via == IF plan = {} THEN "hit" ELSE IF eff # {} THEN "partial" ELSE "miss"
    <3>1. req' = [req EXCEPT ![r] = [x EXCEPT
                    !.pc = pc, !.eff = eff, !.plan = plan, !.via = via,
                    !.extends = extends, !.disturbed = disturbed]]
      BY <1>1, <2>2, ZenonT(60) DEF ReadCoverage
    <3>2. pc \in {"settle", "fetch"}
      OBVIOUS
    <3> HIDE DEF eff, plan, extends, disturbed, pc, via
    <3>3. req'[r].pc = pc /\ req'[r].asked = x.asked
      BY <1>1, <3>1 DEF ReqType
    <3> QED BY <1>1, <3>2, <3>3 DEF AtStore
  <2>3. CASE Serve(r) \/ BypassFails(r)
    <3>1. \A via, rows :
              /\ Answered(req[r], via, rows).pc = "done"
              /\ Answered(req[r], via, rows).asked = req[r].asked
              /\ [Answered(req[r], via, rows) EXCEPT !.pc = "failed"].pc = "failed"
              /\ [Answered(req[r], via, rows) EXCEPT !.pc = "failed"].asked = req[r].asked
      BY <1>1 DEF Answered, ReqType
    <3>2. CASE Serve(r)
      BY <1>1, <3>1, <3>2 DEF Serve, AtStore
    <3>3. CASE BypassFails(r)
      BY <1>1, <3>1, <3>3 DEF BypassFails, AtStore
    <3> QED BY <2>3, <3>2, <3>3
  <2>4. CASE BypassPlan(r)
    BY <1>1, <2>4 DEF BypassPlan, Answered, AtStore, ReqType
  <2>5. CASE BypassReturns(r)
    BY <1>1, <2>5 DEF BypassReturns, Answered, AtStore, ReqType
  <2>6. CASE \E s \in Symbols, w \in Windows : Begin(r, s, w)
    <3>1. PICK s \in Symbols, w \in Windows : Begin(r, s, w)
      BY <2>6
    <3>2. req'[r] = [Idle EXCEPT !.pc = "read", !.sym = s, !.win = w, !.asked = clock]
      BY <1>1, <3>1 DEF Begin
    <3>3. req'[r].pc = "read" /\ req'[r].asked = clock
      BY <3>2 DEF Idle
    <3> QED BY <1>1, <3>3 DEF AtStore
  <2> QED BY <2>1, <2>2, <2>3, <2>4, <2>5, <2>6
<1> QED BY <1>2, <1>3, <1>4, QuietStep

\* The provider's rows: a bar is final exactly when its period has ended.
LEMMA AnswerRows ==
    ASSUME TypeOK, NEW s \in Symbols, NEW w, NEW t \in Times
    PROVE  /\ Finished(Answer(s, w)[t]) => t + Step <= clock
           /\ Answer(s, w)[t] # NoRow /\ t + Step <= clock => Finished(Answer(s, w)[t])
           /\ t \in BarTimes /\ t <= clock /\ Spanned(WireBounds(w, DayLen), t)
                 => Answer(s, w)[t] # NoRow
<1> DEFINE ended == t + Step <= clock
           row == [rev |-> rev[s], final |-> ended]
<1>1. rev[s] \in 0..MaxRev /\ ended \in BOOLEAN
  BY DEF TypeOK
<1>2. row \in Row /\ row # NoRow
  <2> HIDE DEF ended
  <2>1. row \in Row
    BY <1>1 DEF Row
  <2> QED BY <2>1, CacheBounds
<1>3. Answer(s, w)[t] = IF t \in BarTimes /\ t <= clock /\ Spanned(WireBounds(w, DayLen), t)
                        THEN row ELSE NoRow
  BY DEF Answer
<1>4. row.final <=> t + Step <= clock
  OBVIOUS
<1> HIDE DEF row
<1> QED BY <1>2, <1>3, <1>4 DEF Finished

LEMMA FetchReturnsBacked ==
    ASSUME IInv, TypeInv', NEW r \in Requests, FetchReturns(r)
    PROVE  IInv'
<1> DEFINE x == req[r]
           y == req'[r]
           rows == Answer(x.sym, Wire(x))
<1>1. /\ x \in ReqType /\ x.sym \in Symbols /\ x.pc = "fetch" /\ x.plan # {}
      /\ x.asked <= clock /\ x.asked \in Int /\ clock \in Int /\ Step \in Nat
      /\ TypeOK
  <2>1. TypeOK /\ x \in ReqType /\ HasGap(x) /\ x.asked <= clock
    BY DEF IInv, TypeInv, TypeOK, AskedInThePast
  <2>2. x.pc = "fetch"
    BY DEF FetchReturns
  <2>3. x.sym \in Symbols /\ x.asked \in Int /\ clock \in Int /\ Step \in Nat
    BY <2>1, CacheBounds DEF TypeOK, ReqType, Times
  <2> QED BY <2>1, <2>2, <2>3 DEF HasGap, AtGap
<1>2. /\ y.batch = rows /\ y.sym = x.sym /\ y.asked = x.asked
      /\ y.plan = x.plan /\ y.eff = x.eff /\ y.backstop = x.backstop
      /\ y.pc \in {"bypass", "write"}
  BY <1>1 DEF FetchReturns, ReqType, TypeOK
<1>3. /\ LoopFree /\ bars' = bars /\ cov' = cov /\ torn' = torn /\ clock' = clock
      /\ \A o \in Requests \ {r} : req'[o] = req[o]
  BY <1>1 DEF FetchReturns, store, world, TypeOK
<1> HIDE DEF y
<1>4. /\ OneRunning' /\ AskedInThePast'
      /\ \A o \in Requests \ {r} : req'[o].pc \notin Sync
  BY <1>1, <1>2, <1>3, OneMoves DEF y
<1>5. HoldsAnswer(req[r])'
  <2>1. \A t \in Times : Finished(rows[t]) => t + Step <= clock
    BY <1>1, AnswerRows
  <2>2. ASSUME NEW t \in BarTimes, CoversStamp(Recorded(x), t) PROVE Finished(rows[t])
    <3>1. t \in Times /\ t \in Int
      BY CacheBounds DEF Times
    <3>2. t + Step <= x.asked /\ Spanned(WireBounds(Wire(x), DayLen), t)
      BY <1>1, <2>2, <3>1, RecordedIsFetched
    <3>3. t + Step <= clock /\ t <= clock
      BY <1>1, <3>1, <3>2
    <3> HIDE DEF x
    <3> QED BY <1>1, <3>1, <3>2, <3>3, AnswerRows
  <2>3. Recorded(y) = Recorded(x)
    BY <1>2, SameRecorded
  <2> HIDE DEF rows, x
  <2> QED BY <1>2, <1>3, <2>1, <2>2, <2>3 DEF HoldsAnswer, y
<1>6. KeepsFinished(req[r])'
  <2>1. TableOf[x.sym] \in Tables
    BY <1>1, CacheBounds
  <2>2. \A t \in Times : Finished(bars[TableOf[x.sym]][t]) => t + Step <= clock
    BY <2>1 DEF IInv, FinishedBarsEnded
  <2>3. \A t \in Times : t + Step <= clock /\ rows[t] # NoRow => Finished(rows[t])
    BY <1>1, AnswerRows
  <2> HIDE DEF rows, x
  <2> QED BY <1>2, <1>3, <2>2, <2>3 DEF KeepsFinished, y
<1>7. \A o \in Requests : InFlight(req[o])'
  <2>1. ASSUME NEW o \in Requests \ {r} PROVE InFlight(req[o])'
    BY <1>4, <2>1 DEF InFlight, Sync, AtStore
  <2>2. InFlight(req[r])'
    BY <1>2, <1>5, <1>6 DEF InFlight, AtStore, y
  <2> QED BY <2>1, <2>2
<1>8. CoverageBacked' /\ FinishedBarsEnded'
  BY <1>3 DEF IInv, CoverageBacked, FinishedBarsEnded
<1> QED BY <1>4, <1>7, <1>8 DEF IInv

LEMMA WriteBarsBacked ==
    ASSUME IInv, TypeInv', NEW r \in Requests, WriteBars(r)
    PROVE  IInv'
<1> DEFINE x == req[r]
           y == req'[r]
           b == TableOf[x.sym]
<1>1. /\ x \in ReqType /\ x.pc = "write" /\ req \in [Requests -> ReqType]
      /\ bars \in [Tables -> Series] /\ b \in Tables /\ epoch \in Nat
  BY CacheBounds DEF IInv, TypeInv, TypeOK, ReqType, WriteBars
<1>2. HoldsAnswer(x) /\ KeepsFinished(x) /\ x.asked <= clock
  BY <1>1 DEF IInv, InFlight, AtStore, AskedInThePast
<1>3. /\ y.batch = x.batch /\ y.sym = x.sym /\ y.asked = x.asked
      /\ y.plan = x.plan /\ y.eff = x.eff /\ y.backstop = x.backstop
      /\ y.pc = "record" /\ y.wroteIn = IF NeedsQ(r) THEN epoch ELSE -1
  BY <1>1 DEF WriteBars, ReqType
<1>4. /\ cov' = cov /\ torn' = torn /\ clock' = clock /\ epoch' = epoch
      /\ \A o \in Requests \ {r} : req'[o] = req[o]
  BY <1>1 DEF WriteBars, world
<1>5. \A d \in Tables, t \in Times :
        bars'[d][t] = IF d = b /\ x.batch[t] # NoRow THEN x.batch[t] ELSE bars[d][t]
  BY <1>1 DEF WriteBars, Upsert
<1>6. ~NeedsQ(r) => x.batch = Empty
  BY <1>1 DEF NeedsQ
<1> HIDE DEF x, y
<1>7. /\ OneRunning' /\ AskedInThePast'
      /\ \A o \in Requests \ {r} : req'[o].pc \notin Sync
  BY <1>1, <1>2, <1>3, <1>4, OneMoves DEF Sync, x, y
<1>8. Recorded(y) = Recorded(x)
  BY <1>3, SameRecorded
<1>9. HoldsAnswer(req[r])'
  BY <1>2, <1>3, <1>4, <1>8 DEF HoldsAnswer, y
<1>10. HasWritten(req[r])'
  <2>1. y.wroteIn <= epoch /\ (y.wroteIn = -1 => y.batch = Empty)
    BY <1>1, <1>3, <1>6
  <2>2. ASSUME NEW t \in BarTimes, CoversStamp(Recorded(x), t)
        PROVE  Finished(bars'[b][t])
    <3>1. t \in Times /\ Finished(x.batch[t])
      BY <1>2, <2>2, CacheBounds DEF HoldsAnswer
    <3> QED BY <1>1, <1>5, <3>1 DEF Finished
  <2> QED BY <1>3, <1>4, <1>8, <2>1, <2>2 DEF HasWritten, y
<1>11. \A o \in Requests : InFlight(req[o])'
  <2>1. ASSUME NEW o \in Requests \ {r} PROVE InFlight(req[o])'
    BY <1>7, <2>1 DEF InFlight, Sync, AtStore
  <2>2. InFlight(req[r])'
    BY <1>3, <1>9, <1>10 DEF InFlight, AtStore, y
  <2> QED BY <2>1, <2>2
<1>12. FinishedBarsEnded'
  <2> SUFFICES ASSUME NEW d \in Tables, NEW t \in Times, Finished(bars'[d][t])
               PROVE  t + Step <= clock
    BY <1>4 DEF FinishedBarsEnded
  <2> QED BY <1>2, <1>5 DEF IInv, FinishedBarsEnded, HoldsAnswer
<1>13. CoverageBacked'
  <2> SUFFICES ASSUME NEW s \in Symbols \ torn, NEW t \in BarTimes,
                      CoversStamp(cov[s], t)
               PROVE  Finished(bars'[TableOf[s]][t])
    BY <1>4 DEF CoverageBacked
  <2>1. Finished(bars[TableOf[s]][t]) /\ t \in Times /\ TableOf[s] \in Tables
    BY CacheBounds DEF IInv, CoverageBacked
  <2> QED BY <1>2, <1>5, <2>1 DEF KeepsFinished
<1> QED BY <1>7, <1>11, <1>12, <1>13 DEF IInv

\* A drop takes the coverage of its keys with their rows, and no other key's rows.
LEMMA DropBacked ==
    ASSUME Unaliased, IInv, NEW keys \in SUBSET Symbols, Drop(keys),
           torn' = torn \ keys, clock' = clock
    PROVE  CoverageBacked' /\ FinishedBarsEnded'
<1>1. FinishedBarsEnded'
  <2>1. \A b \in Tables, t \in Times : Finished(bars'[b][t]) => bars'[b] = bars[b]
    BY DEF Drop, Empty, Finished
  <2> QED BY <2>1 DEF IInv, FinishedBarsEnded
<1>2. CoverageBacked'
  <2> SUFFICES ASSUME NEW s \in Symbols \ torn', NEW t \in BarTimes,
                      CoversStamp(cov'[s], t)
               PROVE  Finished(bars'[TableOf[s]][t])
    BY DEF CoverageBacked
  <2>1. s \notin keys /\ cov'[s] = cov[s]
    BY DEF Drop, CoversStamp
  <2>2. bars'[TableOf[s]] = bars[TableOf[s]]
    BY <2>1, CacheBounds DEF Drop, Unaliased
  <2> QED BY <2>1, <2>2 DEF IInv, CoverageBacked
<1> QED BY <1>1, <1>2

LEMMA RecordCoverageBacked ==
    ASSUME Unaliased, IInv, TypeInv', NEW r \in Requests, RecordCoverage(r)
    PROVE  IInv'
<1> DEFINE x == req[r]
           changed == Compares(x) /\ HistoryChanged(x)
           rest == x.plan \ {Gap(x)}
<1>1. /\ x \in ReqType /\ x.sym \in Symbols /\ x.pc = "record"
      /\ req \in [Requests -> ReqType] /\ epoch \in Nat
      /\ x.wroteIn \in Int /\ x.wroteIn >= -1 /\ x.asked <= clock
  <2>1. TypeOK /\ x \in ReqType /\ x.asked <= clock
    BY DEF IInv, TypeInv, TypeOK, AskedInThePast
  <2>2. x.pc = "record"
    BY DEF RecordCoverage
  <2> QED BY <2>1, <2>2, CacheBounds DEF TypeOK, ReqType
<1>2. HoldsAnswer(x) /\ HasWritten(x)
  BY <1>1 DEF IInv, InFlight, AtStore
<1>3. clock' = clock /\ \A o \in Requests \ {r} : req'[o] = req[o]
  BY <1>1 DEF RecordCoverage, world
<1>4. req'[r].asked = x.asked /\ req'[r].pc \in {"settle", "fetch", "read"}
  <2>1. \A gaps : /\ NextFetch(x, gaps).asked = x.asked
                  /\ NextFetch(x, gaps).pc \in {"settle", "fetch"}
                  /\ [NextFetch(x, gaps) EXCEPT !.pc = "read", !.backstop = FALSE].pc = "read"
                  /\ [NextFetch(x, gaps) EXCEPT !.pc = "read", !.backstop = FALSE].asked = x.asked
    BY <1>1 DEF NextFetch, ReqType
  <2>2. \/ req'[r] = NextFetch(x, rest)
        \/ req'[r] = [NextFetch(x, {}) EXCEPT !.pc = "read", !.backstop = FALSE]
    BY <1>1 DEF RecordCoverage
  <2> HIDE DEF x, rest
  <2> QED BY <2>1, <2>2
<1>5. /\ OneRunning' /\ AskedInThePast'
      /\ \A o \in Requests \ {r} : req'[o].pc \notin Sync
  BY <1>1, <1>3, <1>4, OneMoves DEF Sync
<1>6. \A o \in Requests : InFlight(req[o])'
  BY <1>4, <1>5 DEF InFlight, Sync, AtStore
<1>7. CoverageBacked' /\ FinishedBarsEnded'
  <2>1. CASE changed
    <3>1. Drop({x.sym}) /\ torn' = torn \ {x.sym}
      BY <2>1 DEF RecordCoverage
    <3> QED BY <1>1, <1>3, <3>1, DropBacked
  <2>2. CASE ~changed
    <3>1. /\ bars' = bars /\ cov' = [cov EXCEPT ![x.sym] = @ \cup Recorded(x)]
          /\ torn' = IF Recorded(x) # {} /\ x.wroteIn \in 0..epoch - 1
                     THEN torn \cup {x.sym} ELSE torn
      BY <2>2 DEF RecordCoverage
    <3>2. FinishedBarsEnded'
      BY <1>3, <3>1 DEF IInv, FinishedBarsEnded
    <3>3. ASSUME NEW t \in BarTimes, CoversStamp(Recorded(x), t), x.sym \notin torn'
          PROVE  Finished(bars[TableOf[x.sym]][t])
      <4>1. x.wroteIn = -1 \/ x.wroteIn = epoch
        BY <1>1, <1>2, <3>1, <3>3 DEF CoversStamp, HasWritten
      <4>2. CASE x.wroteIn = -1
        <5>1. t \in Times /\ Finished(x.batch[t]) /\ x.batch = Empty
          BY <1>2, <3>3, <4>2, CacheBounds DEF HoldsAnswer, HasWritten
        <5> QED BY <5>1 DEF Empty, Finished
      <4>3. CASE x.wroteIn = epoch
        BY <1>2, <3>3, <4>3 DEF HasWritten
      <4> QED BY <4>1, <4>2, <4>3
    <3>4. CoverageBacked'
      <4> SUFFICES ASSUME NEW s \in Symbols \ torn', NEW t \in BarTimes,
                          CoversStamp(cov'[s], t)
                   PROVE  Finished(bars[TableOf[s]][t])
        BY <3>1 DEF CoverageBacked
      <4>1. s \notin torn
        BY <3>1
      <4>2. CASE CoversStamp(cov[s], t)
        BY <4>1, <4>2 DEF IInv, CoverageBacked
      <4>3. CASE ~CoversStamp(cov[s], t)
        <5>1. s = x.sym /\ CoversStamp(Recorded(x), t)
          BY <1>1, <3>1, <4>3 DEF CoversStamp, IInv, TypeInv, TypeOK
        <5> QED BY <3>3, <5>1
      <4> QED BY <4>2, <4>3
    <3> QED BY <3>2, <3>4
  <2> QED BY <2>1, <2>2
<1> QED BY <1>5, <1>6, <1>7 DEF IInv

LEMMA SettleBacked ==
    ASSUME Unaliased, IInv, TypeInv', NEW r \in Requests, NEW ticks, Settle(r, ticks)
    PROVE  IInv'
<1>1. PICK evicted \in SUBSET Symbols :
        /\ Drop(evicted) /\ torn' = torn \ evicted /\ UNCHANGED world
        /\ req' = [o \in Requests |->
                     [req[o] EXCEPT
                        !.pc = IF o = r THEN "serve" ELSE @,
                        !.disturbed = @ \/ (req[o].pc \in Active /\
                                            TableOf[req[o].sym] \in {TableOf[k] : k \in evicted})]]
  BY DEF Settle
<1>2. \A o \in Requests : req[o] \in ReqType /\ req[o].asked <= clock
  BY DEF IInv, TypeInv, TypeOK, AskedInThePast
<1>3. \A o \in Requests : /\ req'[o].asked = req[o].asked
                          /\ req'[o].pc = IF o = r THEN "serve" ELSE req[o].pc
  BY <1>1, <1>2 DEF ReqType
<1>4. req[r].pc \in Sync /\ clock' = clock
  BY <1>1 DEF Settle, Sync, world
<1>5. /\ OneRunning' /\ AskedInThePast'
      /\ \A o \in Requests \ {r} : req'[o].pc \notin Sync
  BY <1>2, <1>3, <1>4, OneMoves
<1>6. \A o \in Requests : InFlight(req[o])'
  BY <1>3, <1>5 DEF InFlight, Sync, AtStore
<1>7. CoverageBacked' /\ FinishedBarsEnded'
  BY <1>1, <1>4, DropBacked
<1> QED BY <1>5, <1>6, <1>7 DEF IInv

\* q's death empties the store and starts a new epoch, so that nothing a request
\* wrote before counts; the clock only moves forward.
LEMMA EnvironmentBacked ==
    ASSUME IInv, TypeInv', Environment
    PROVE  IInv'
<1>1. \A o \in Requests : req[o] \in ReqType
  BY DEF IInv, TypeInv, TypeOK
<1>2. /\ clock \in Int /\ clock' \in Int /\ clock <= clock'
      /\ \A o \in Requests : req[o].asked \in Int
  BY <1>1 DEF IInv, TypeInv, TypeOK, ReqType, Times, Environment, QDies, QReturns,
              CorporateAction, Tick
<1>3. \A o \in Requests :
        /\ req'[o].pc = req[o].pc /\ req'[o].asked = req[o].asked
        /\ req'[o].sym = req[o].sym /\ req'[o].batch = req[o].batch
        /\ req'[o].wroteIn = req[o].wroteIn
        /\ Recorded(req'[o]) = Recorded(req[o])
  <2> TAKE o \in Requests
  <2>1. /\ req'[o].pc = req[o].pc /\ req'[o].asked = req[o].asked
        /\ req'[o].sym = req[o].sym /\ req'[o].batch = req[o].batch
        /\ req'[o].wroteIn = req[o].wroteIn
        /\ req'[o].plan = req[o].plan /\ req'[o].eff = req[o].eff
        /\ req'[o].backstop = req[o].backstop
    BY <1>1 DEF ReqType, Environment, QDies, QReturns, CorporateAction, Tick
  <2> QED BY <2>1, SameRecorded
<1>4. OneRunning' /\ AskedInThePast'
  <2>1. OneRunning'
    BY <1>3 DEF IInv, OneRunning
  <2>2. AskedInThePast'
    BY <1>2, <1>3 DEF IInv, AskedInThePast
  <2> QED BY <2>1, <2>2
<1>5. \A t \in Times : t + Step <= clock => t + Step <= clock'
  BY <1>2, CacheBounds DEF Times
<1>6. \A o \in Requests : req[o].pc \in AtStore => HoldsAnswer(req[o])'
  BY <1>3, <1>5 DEF IInv, InFlight, HoldsAnswer
<1>7. CASE QDies
  <2>1. /\ bars' = [b \in Tables |-> Empty] /\ cov' = [s \in Symbols |-> {}]
        /\ epoch' = epoch + 1 /\ epoch \in Nat
    BY <1>7 DEF QDies, IInv, TypeInv, TypeOK
  <2>2. \A b \in Tables, t \in Times : ~Finished(bars'[b][t])
    BY <2>1 DEF Empty, Finished
  <2>3. \A o \in Requests : req[o].pc = "write" => KeepsFinished(req[o])'
    <3>1. \A o \in Requests : TableOf[req'[o].sym] \in Tables
      BY <1>1, <1>3, CacheBounds DEF ReqType
    <3> QED BY <2>2, <3>1 DEF KeepsFinished
  <2>4. ASSUME NEW o \in Requests, req[o].pc = "record" PROVE HasWritten(req[o])'
    <3>1. /\ req[o].wroteIn <= epoch /\ (req[o].wroteIn = -1 => req[o].batch = Empty)
          /\ req[o].wroteIn \in Int
      BY <1>1, <2>4 DEF IInv, InFlight, HasWritten, ReqType
    <3>2. req'[o].wroteIn <= epoch' /\ req'[o].wroteIn # epoch'
      BY <1>3, <2>1, <3>1
    <3> QED BY <1>3, <3>1, <3>2 DEF HasWritten
  <2>5. \A o \in Requests : InFlight(req[o])'
    BY <1>3, <1>6, <2>3, <2>4 DEF InFlight, AtStore
  <2>6. CoverageBacked' /\ FinishedBarsEnded'
    BY <2>1, <2>2 DEF CoverageBacked, FinishedBarsEnded, CoversStamp
  <2> QED BY <1>4, <2>5, <2>6 DEF IInv
<1>8. CASE ~QDies
  <2>1. bars' = bars /\ cov' = cov /\ torn' = torn /\ epoch' = epoch
    BY <1>8 DEF Environment, QReturns, CorporateAction, Tick, store
  <2>2. \A o \in Requests : req[o].pc = "write" => KeepsFinished(req[o])'
    BY <1>3, <2>1 DEF IInv, InFlight, KeepsFinished
  <2>3. \A o \in Requests : req[o].pc = "record" => HasWritten(req[o])'
    BY <1>3, <2>1 DEF IInv, InFlight, HasWritten
  <2>4. \A o \in Requests : InFlight(req[o])'
    BY <1>3, <1>6, <2>2, <2>3 DEF InFlight, AtStore
  <2>5. CoverageBacked' /\ FinishedBarsEnded'
    BY <1>5, <2>1 DEF IInv, CoverageBacked, FinishedBarsEnded
  <2> QED BY <1>4, <2>4, <2>5 DEF IInv
<1> QED BY <1>7, <1>8

LEMMA InitBacked == Init => IInv
<1> SUFFICES ASSUME Init PROVE IInv
  OBVIOUS
<1>1. \A o \in Requests : req[o].pc = "idle" /\ req[o].asked = 0
  BY DEF Init, Idle
<1>2. OneRunning /\ \A o \in Requests : InFlight(req[o])
  BY <1>1 DEF OneRunning, InFlight, Sync, AtStore
<1>3. AskedInThePast
  BY <1>1, CacheBounds DEF Init, AskedInThePast, Times
<1>4. CoverageBacked /\ FinishedBarsEnded
  BY DEF Init, CoverageBacked, FinishedBarsEnded, CoversStamp, Empty, Finished
<1> QED BY InitType, <1>2, <1>3, <1>4 DEF IInv

LEMMA StepBacked == Unaliased /\ IInv /\ [Next]_vars => IInv'
<1> SUFFICES ASSUME Unaliased, IInv, [Next]_vars PROVE IInv'
  OBVIOUS
<1>1. TypeInv'
  BY StepType DEF IInv
<1>2. CASE Environment
  BY <1>1, <1>2, EnvironmentBacked
<1>3. ASSUME NEW r \in Requests, Advance(r) PROVE IInv'
  BY <1>1, <1>3, QuietActions, FetchReturnsBacked, WriteBarsBacked,
     RecordCoverageBacked, SettleBacked DEF Advance
<1>4. ASSUME NEW r \in Requests, NEW s \in Symbols, NEW w \in Windows, Begin(r, s, w)
      PROVE  IInv'
  BY <1>1, <1>4, QuietActions
<1>5. CASE UNCHANGED vars
  <2>1. OneRunning' /\ AskedInThePast' /\ FinishedBarsEnded' /\ CoverageBacked'
    BY <1>5 DEF vars, IInv, OneRunning, AskedInThePast, FinishedBarsEnded, CoverageBacked
  <2>2. \A o \in Requests : InFlight(req[o])'
    BY <1>5 DEF vars, IInv, InFlight, HoldsAnswer, KeepsFinished, HasWritten
  <2> QED BY <1>1, <2>1, <2>2 DEF IInv
<1> QED BY <1>2, <1>3, <1>4, <1>5 DEF Next

\* Keys with a table each: what `.cache.cov` calls covered is in the table, every
\* finished bar of it, whatever was evicted, dropped or lost meanwhile -- unless
\* q died between write_bars and record_coverage (_pass, cache.py 312-320).
THEOREM CoverageIsBacked ==
    ASSUME Unaliased
    PROVE  Spec => []CoverageBacked
<1>1. IInv /\ [Next]_vars => IInv'
  BY StepBacked
<1>2. IInv => CoverageBacked
  BY DEF IInv
<1> QED BY InitBacked, <1>1, <1>2, PTL DEF Spec

=============================================================================
