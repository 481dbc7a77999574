---------------------------- MODULE IntegerSets ----------------------------
(***************************************************************************)
(* Least and greatest members of sets of integers: what the proofs need to *)
(* know of the Min and Max that the code's modules take over dates, stamps *)
(* and event numbers.                                                      *)
(* And the places of a finite set's members in an order: one at each.      *)
(***************************************************************************)
EXTENDS Integers, FiniteSetsExt, FiniteSetTheorems, NaturalsInduction, WellFoundedInduction, TLAPS

\* A nonempty set of naturals has a least member.
LEMMA LeastNat == ASSUME NEW T \in SUBSET Nat, T # {} PROVE \E n \in T : \A m \in T : n <= m
<1> DEFINE Less == {p \in Nat \X Nat : p[1] < p[2]}
<1>1. IsWellFoundedOn(Less, Nat)  BY NatLessThanWellFounded, Zenon DEF OpToRel
<1>2. PICK n \in T : \A m \in T : ~(<<m, n>> \in Less)
  <2> HIDE DEF Less
  <2> QED  BY <1>1, WFMin, Zenon
<1>3. \A m \in T : ~(m < n)
  <2> TAKE m \in T
  <2>1. m \in Nat /\ n \in Nat  OBVIOUS
  <2>2. m < n => <<m, n>> \in Less  BY <2>1
  <2> QED  BY <1>2, <2>2
<1>4. \A m \in T : n <= m  BY <1>3
<1> QED  BY <1>4

\* A finite nonempty set of integers has a greatest one, and FiniteSetsExt's Max names it: a
\* smallest subset without one would have a smaller one, without one of its members.
LEMMA MaxOfFinite ==
    ASSUME NEW S \in SUBSET Int, S # {}, IsFiniteSet(S)
    PROVE  Max(S) \in S /\ \A y \in S : Max(S) >= y
<1> DEFINE HasMax(T) == \E x \in T : \A y \in T : x >= y
           Worst == {T \in SUBSET S : T # {} /\ ~HasMax(T)}
           Sizes == {Cardinality(T) : T \in Worst}
<1>1. SUFFICES HasMax(S)  BY DEF Max
<1>2. SUFFICES ASSUME ~HasMax(S) PROVE FALSE  OBVIOUS
<1>3. \A T \in SUBSET S : IsFiniteSet(T) /\ Cardinality(T) \in Nat
  <2> TAKE T \in SUBSET S
  <2>1. IsFiniteSet(T)  BY FS_Subset
  <2> QED  BY <2>1, FS_CardinalityType
<1>4. PICK n \in Sizes : \A m \in Sizes : n <= m
  <2>1. S \in Worst  BY <1>2
  <2>2. Sizes \in SUBSET Nat /\ Sizes # {}  BY <1>3, <2>1
  <2> HIDE DEF Sizes
  <2> QED  BY <2>2, LeastNat
<1>5. PICK T \in Worst : n = Cardinality(T)  OBVIOUS
<1>6. PICK t \in T : TRUE  OBVIOUS
<1> DEFINE U == T \ {t}
<1>7. U \in SUBSET S /\ Cardinality(U) = n - 1 /\ n \in Nat
  <2>1. IsFiniteSet(T) /\ Cardinality(T) \in Nat  BY <1>3
  <2> QED  BY <1>5, <2>1, FS_RemoveElement
<1>8. U # {}
  <2>1. SUFFICES ASSUME U = {} PROVE FALSE  OBVIOUS
  <2>2. T = {t} /\ t \in Int  BY <1>5, <1>6, <2>1
  <2>3. t >= t  BY <2>2
  <2> QED  BY <1>5, <2>2, <2>3
<1>9. HasMax(U)
  <2>1. SUFFICES ASSUME ~HasMax(U) PROVE FALSE  OBVIOUS
  <2>2. U \in Worst  BY <1>7, <1>8, <2>1
  <2>3. n - 1 \in Sizes  BY <1>7, <2>2
  <2>4. n <= n - 1  BY <1>4, <2>3
  <2> QED  BY <1>7, <2>4
<1>10. PICK m \in U : \A y \in U : m >= y  BY <1>9
<1>11. m \in Int /\ t \in Int  BY <1>5, <1>6, <1>7
<1>12. CASE m >= t  BY <1>5, <1>10, <1>12
<1>13. CASE t >= m
  <2>1. \A y \in U : t >= y
    <3> TAKE y \in U
    <3>1. y \in Int /\ m >= y  BY <1>7, <1>10
    <3> QED  BY <1>11, <1>13, <3>1
  <2> QED  BY <1>5, <1>6, <1>11, <2>1
<1> QED  BY <1>11, <1>12, <1>13

\* The smaller of two, as FiniteSetsExt's Min names it.
LEMMA MinOfTwo ==
    ASSUME NEW a \in Int, NEW b \in Int
    PROVE  Min({a, b}) \in {a, b} /\ Min({a, b}) <= a /\ Min({a, b}) <= b
<1>1. CASE a <= b
  <2>1. a \in {a, b} /\ \A y \in {a, b} : a <= y  BY <1>1
  <2> QED  BY <2>1 DEF Min
<1>2. CASE b <= a
  <2>1. b \in {a, b} /\ \A y \in {a, b} : b <= y  BY <1>2
  <2> QED  BY <2>1 DEF Min
<1> QED  BY <1>1, <1>2

----------------------------------------------------------------------------
\* The place of a member of a set in an order: how many are ahead of it.
AheadOf(S, order, t) == {u \in S : <<u, t>> \in order}

\* In a finite set there is one member at each place.
LEMMA PlacesInOrder ==
    ASSUME NEW S, IsFiniteSet(S), NEW order,
           \A x \in S : <<x, x>> \notin order,
           \A x, y \in S : x # y => <<x, y>> \in order \/ <<y, x>> \in order,
           \A x, y, z \in S : <<x, y>> \in order /\ <<y, z>> \in order => <<x, z>> \in order
    PROVE  /\ Cardinality(S) \in Nat
           /\ \A t \in S : Cardinality(AheadOf(S, order, t)) \in 0 .. Cardinality(S) - 1
           /\ \A t, u \in S : <<t, u>> \in order =>
                  Cardinality(AheadOf(S, order, t)) < Cardinality(AheadOf(S, order, u))
           /\ \A k \in 0 .. Cardinality(S) - 1 :
                  \E t \in S : Cardinality(AheadOf(S, order, t)) = k
<1> DEFINE n == Cardinality(S)
           Ahead(t) == AheadOf(S, order, t)
           Place(t) == Cardinality(Ahead(t))
           f == [t \in S |-> Place(t)]
<1>1. n \in Nat  BY FS_CardinalityType
<1>2. \A t \in S : IsFiniteSet(Ahead(t)) /\ Place(t) \in Nat
  <2> TAKE t \in S
  <2>1. Ahead(t) \in SUBSET S  BY DEF AheadOf
  <2>2. IsFiniteSet(Ahead(t))  BY <2>1, FS_Subset
  <2> QED  BY <2>2, FS_CardinalityType
<1>3. ASSUME NEW t \in S, NEW U \in SUBSET S, Ahead(t) \subseteq U, t \in U
      PROVE  Place(t) < Cardinality(U)
  <2>1. IsFiniteSet(U) /\ Cardinality(U) \in Nat  BY FS_Subset, FS_CardinalityType
  <2>2. Ahead(t) \in SUBSET U /\ t \notin Ahead(t)  BY <1>3 DEF AheadOf
  <2>3. Place(t) <= Cardinality(U) /\ Place(t) # Cardinality(U)
    BY <1>3, <2>1, <2>2, FS_Subset
  <2> QED  BY <1>2, <2>1, <2>3
<1>4. \A t \in S : Place(t) \in 0 .. n - 1
  <2> TAKE t \in S
  <2>1. Place(t) < n  BY <1>3 DEF AheadOf
  <2> QED  BY <1>1, <1>2, <2>1
<1>5. \A t, u \in S : <<t, u>> \in order => Place(t) < Place(u)
  <2> SUFFICES ASSUME NEW t \in S, NEW u \in S, <<t, u>> \in order PROVE Place(t) < Place(u)
    OBVIOUS
  <2>1. Ahead(u) \in SUBSET S /\ Ahead(t) \subseteq Ahead(u) /\ t \in Ahead(u)
    BY DEF AheadOf
  <2> QED  BY <1>3, <2>1
<1>6. f \in Injection(S, 0 .. n - 1)
  <2>1. f \in [S -> 0 .. n - 1]  BY <1>4
  <2>2. \A t, u \in S : f[t] = f[u] => t = u
    <3> SUFFICES ASSUME NEW t \in S, NEW u \in S, t # u PROVE f[t] # f[u]  OBVIOUS
    <3>1. <<t, u>> \in order \/ <<u, t>> \in order  OBVIOUS
    <3>2. Place(t) < Place(u) \/ Place(u) < Place(t)  BY <1>5, <3>1
    <3>3. Place(t) \in Nat /\ Place(u) \in Nat  BY <1>2
    <3> HIDE DEF Place
    <3> QED  BY <3>2, <3>3
  <2> HIDE DEF f
  <2> QED  BY <2>1, <2>2 DEF Injection, IsInjective
<1>7. IsFiniteSet(0 .. n - 1) /\ Cardinality(0 .. n - 1) = n
  <2>1. 0 \in Int /\ n - 1 \in Int  BY <1>1
  <2>2. /\ IsFiniteSet(0 .. n - 1)
        /\ Cardinality(0 .. n - 1) = IF 0 > n - 1 THEN 0 ELSE n - 1 - 0 + 1
    <3> HIDE DEF n
    <3> QED  BY <2>1, FS_Interval
  <2> QED  BY <1>1, <2>2
<1>8. f \in Surjection(S, 0 .. n - 1)
  <2> HIDE DEF f
  <2> QED  BY <1>6, <1>7, FS_Injection
<1>9. \A k \in 0 .. n - 1 : \E t \in S : Place(t) = k
  <2>1. \A k \in 0 .. n - 1 : \E t \in S : f[t] = k
    <3> HIDE DEF f
    <3> QED  BY <1>8 DEF Surjection
  <2> QED  BY <2>1
<1> QED  BY <1>1, <1>4, <1>5, <1>9

\* So of the smaller ones in a set of integers.
Below(S, t) == {u \in S : u < t}

LEMMA PlacesAreTaken ==
    ASSUME NEW S \in SUBSET Int, IsFiniteSet(S)
    PROVE  /\ Cardinality(S) \in Nat
           /\ \A t \in S : Cardinality(Below(S, t)) \in 0 .. Cardinality(S) - 1
           /\ \A t, u \in S : t < u => Cardinality(Below(S, t)) < Cardinality(Below(S, u))
           /\ \A k \in 0 .. Cardinality(S) - 1 : \E t \in S : Cardinality(Below(S, t)) = k
<1> DEFINE order == {p \in S \X S : p[1] < p[2]}
<1>1. \A x, y \in S : <<x, y>> \in order <=> x < y  OBVIOUS
<1>2. \A t \in S : AheadOf(S, order, t) = Below(S, t)  BY <1>1 DEF AheadOf, Below
<1> HIDE DEF order
<1>3. \A x \in S : <<x, x>> \notin order  BY <1>1
<1>4. \A x, y \in S : x # y => <<x, y>> \in order \/ <<y, x>> \in order  BY <1>1
<1>5. \A x, y, z \in S : <<x, y>> \in order /\ <<y, z>> \in order => <<x, z>> \in order
  <2> TAKE x, y, z \in S
  <2>1. x \in Int /\ y \in Int /\ z \in Int  OBVIOUS
  <2> QED  BY <1>1, <2>1
<1>6. /\ Cardinality(S) \in Nat
      /\ \A t \in S : Cardinality(AheadOf(S, order, t)) \in 0 .. Cardinality(S) - 1
      /\ \A t, u \in S : <<t, u>> \in order =>
             Cardinality(AheadOf(S, order, t)) < Cardinality(AheadOf(S, order, u))
      /\ \A k \in 0 .. Cardinality(S) - 1 :
             \E t \in S : Cardinality(AheadOf(S, order, t)) = k
  BY <1>3, <1>4, <1>5, PlacesInOrder
<1> QED  BY <1>1, <1>2, <1>6

\* More has no fewer whole parts of a size: days of time, sessions of bars.
LEMMA QuotientsGrow ==
    ASSUME NEW D \in Nat \ {0}, NEW t \in Nat, NEW u \in Nat
    PROVE  t \div D \in Nat /\ (t <= u => t \div D <= u \div D)
<1>1. D \in Nat /\ D > 0  OBVIOUS
<1>2. /\ t \div D \in Int /\ t % D \in 0 .. D - 1 /\ t = D * (t \div D) + (t % D)
      /\ u \div D \in Int /\ u % D \in 0 .. D - 1 /\ u = D * (u \div D) + (u % D)
  BY <1>1
<1> DEFINE p == t \div D  q == u \div D
<1>3. p \in Int /\ q \in Int /\ D * p <= t /\ t < D * p + D /\ D * q <= u /\ u < D * q + D
  BY <1>1, <1>2
<1>4. p >= 0
  <2>1. SUFFICES ASSUME p <= -1 PROVE FALSE  BY <1>3
  <2> HIDE DEF p, q
  <2>2. D * p <= D * (-1)  BY <1>1, <1>3, <2>1
  <2> QED  BY <1>1, <1>3, <2>2
<1>5. ASSUME t <= u PROVE p <= q
  <2>1. SUFFICES ASSUME q + 1 <= p PROVE FALSE  BY <1>3
  <2> HIDE DEF p, q
  <2>2. D * (q + 1) <= D * p  BY <1>1, <1>3, <2>1
  <2>3. D * (q + 1) = D * q + D  BY <1>1, <1>3
  <2> QED  BY <1>1, <1>3, <1>5, <2>2, <2>3
<1> QED  BY <1>3, <1>4, <1>5

\* Multiples of a width that are less than it apart are the same.
LEMMA NextMultiple ==
    ASSUME NEW w \in Nat \ {0}, NEW p \in Int, NEW q \in Int, w * p < w * q + w
    PROVE  w * p <= w * q
<1>1. w * p \in Int /\ w * q \in Int  OBVIOUS
<1>2. p <= q
  <2>1. SUFFICES ASSUME q + 1 <= p PROVE FALSE  OBVIOUS
  <2>2. w * (q + 1) <= w * p  BY <2>1
  <2>3. w * (q + 1) = w * q + w  OBVIOUS
  <2> QED  BY <1>1, <2>2, <2>3
<1> QED  BY <1>2
=============================================================================
