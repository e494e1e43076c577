----------------------------- MODULE FiniteSums -----------------------------
(***************************************************************************)
(* Induction over data, and sums.  The least element of a set of numbers   *)
(* and a smallest counterexample among the subsets of a finite set stand   *)
(* for induction.  By them the sum of a function, which is a fold, equals  *)
(* the number of its units, and its laws follow from counting.             *)
(***************************************************************************)
EXTENDS Integers, Functions, FiniteSetTheorems, WellFoundedInduction, TLAPS

---------------------------------------------------------------------------
(* Induction over 0..N *)

\* A nonempty set of numbers up to N has a least element.
LEMMA LeastElement ==
  ASSUME NEW N \in Nat, NEW T \in SUBSET (0..N), T # {}
  PROVE  \E m \in T : \A k \in T : m <= k
<1> DEFINE U == {0..k : k \in T}
<1>1. IsFiniteSet(0..N)
  BY FS_Interval
<1>2. IsWellFoundedOn(StrictSubsetOrdering(0..N), SUBSET (0..N))
  <2>1. FiniteSubsetsOf(0..N) = SUBSET (0..N)
    BY <1>1, FS_FiniteSubsetsOfFinite
  <2> QED BY <2>1, FS_StrictSubsetOrderingWellFounded
<1>3. U \subseteq SUBSET (0..N)
  OBVIOUS
<1>4. U # {}
  OBVIOUS
<1>5. PICK x \in U : \A y \in U : <<y, x>> \notin StrictSubsetOrdering(0..N)
  BY <1>2, <1>3, <1>4, WFMin
<1>6. PICK m \in T : x = 0..m
  OBVIOUS
<1>7. ASSUME NEW k \in T, k < m PROVE FALSE
  <2>1. 0..k \in U /\ 0..k \subseteq 0..m /\ 0..k # 0..m
    BY <1>7
  <2>2. <<0..k, x>> \in StrictSubsetOrdering(0..N)
    BY <2>1, <1>3, <1>6 DEF StrictSubsetOrdering
  <2> QED BY <2>1, <2>2, <1>5
<1> QED BY <1>7

\* A set of numbers up to N that has 0 and is closed under successor is 0..N.
LEMMA IntervalInduction ==
  ASSUME NEW N \in Nat, NEW T \in SUBSET (0..N),
         0 \in T, \A k \in T : k < N => k + 1 \in T
  PROVE  T = 0..N
<1> SUFFICES ASSUME (0..N) \ T # {} PROVE FALSE
  OBVIOUS
<1>1. PICK m \in (0..N) \ T : \A k \in (0..N) \ T : m <= k
  BY LeastElement
<1>2. m - 1 \in T /\ m - 1 < N
  BY <1>1
<1> QED BY <1>1, <1>2

\* A set of subsets of a finite set that has each subset whose own proper
\* subsets it has is the set of all subsets.
LEMMA SubsetInduction ==
  ASSUME NEW S, IsFiniteSet(S), NEW T \in SUBSET SUBSET S,
         \A s \in SUBSET S : (\A r \in (SUBSET s) \ {s} : r \in T) => s \in T
  PROVE  T = SUBSET S
<1> DEFINE Bad == (SUBSET S) \ T
<1> SUFFICES ASSUME Bad # {} PROVE FALSE
  OBVIOUS
<1>1. IsWellFoundedOn(StrictSubsetOrdering(S), SUBSET S)
  <2>1. FiniteSubsetsOf(S) = SUBSET S
    BY FS_FiniteSubsetsOfFinite
  <2>2. IsWellFoundedOn(StrictSubsetOrdering(S), FiniteSubsetsOf(S))
    BY FS_StrictSubsetOrderingWellFounded
  <2> QED BY <2>1, <2>2
<1>2. Bad \subseteq SUBSET S
  OBVIOUS
<1>3. PICK s \in Bad : \A r \in Bad : <<r, s>> \notin StrictSubsetOrdering(S)
  <2> HIDE DEF Bad
  <2> QED BY <1>1, <1>2, WFMin
<1>4. ASSUME NEW r \in (SUBSET s) \ {s} PROVE r \in T
  <2>1. <<r, s>> \in StrictSubsetOrdering(S)
    BY <1>2 DEF StrictSubsetOrdering
  <2> QED BY <2>1, <1>3
<1> QED BY <1>4

---------------------------------------------------------------------------
(* Sums *)

\* The units of a function: as many pairs for an argument as its value
Units(f, S) == {x \in S \X Nat : 1 <= x[2] /\ x[2] <= f[x[1]]}

\* The units of one argument more
LEMMA UnitsSplit ==
  ASSUME NEW S, NEW f \in [S -> Nat], NEW s \in SUBSET S, NEW x \in s,
         IsFiniteSet(Units(f, s \ {x}))
  PROVE  /\ IsFiniteSet(Units(f, s))
         /\ Cardinality(Units(f, s)) = f[x] + Cardinality(Units(f, s \ {x}))
<1> DEFINE I == 1..f[x]
           A == {x} \X I
           R == Units(f, s \ {x})
<1>1. f[x] \in Nat /\ x \in S
  OBVIOUS
<1>2. IsFiniteSet(I) /\ Cardinality(I) = f[x]
  BY <1>1, FS_Interval
<1>3. IsFiniteSet({x}) /\ Cardinality({x}) = 1
  BY FS_Singleton
<1>4. IsFiniteSet(A) /\ Cardinality(A) = f[x]
  <2> HIDE DEF I
  <2>1. IsFiniteSet(A) /\ Cardinality(A) = 1 * f[x]
    BY <1>2, <1>3, FS_Product
  <2> QED BY <1>1, <2>1
<1>5. Units(f, s) = R \cup A
  BY <1>1 DEF Units
<1>6. R \cap A = {}
  BY DEF Units
<1>7. Cardinality(R \cap A) = 0 /\ Cardinality(R) \in Nat
  BY <1>6, FS_EmptySet, FS_CardinalityType
<1> HIDE DEF A, R
<1>8. IsFiniteSet(Units(f, s)) /\ Cardinality(Units(f, s)) = Cardinality(R) + f[x] - 0
  BY <1>4, <1>5, <1>7, FS_Union DEF R
<1> QED BY <1>1, <1>7, <1>8 DEF R

\* A function on a finite set has finitely many units.
LEMMA UnitsFinite ==
  ASSUME NEW S, IsFiniteSet(S), NEW f \in [S -> Nat], NEW s \in SUBSET S
  PROVE  IsFiniteSet(Units(f, s)) /\ Cardinality(Units(f, s)) \in Nat
<1> DEFINE T == {r \in SUBSET S : IsFiniteSet(Units(f, r))}
<1>1. ASSUME NEW r \in SUBSET S, \A q \in (SUBSET r) \ {r} : q \in T
      PROVE  r \in T
  <2>1. CASE r = {}
    <3>1. Units(f, r) = {}
      BY <2>1 DEF Units
    <3> QED BY <3>1, FS_EmptySet
  <2>2. CASE r # {}
    <3>1. PICK x : x \in r
      BY <2>2
    <3>2. r \ {x} \in T
      BY <1>1, <3>1
    <3> QED BY <3>1, <3>2, UnitsSplit
  <2> QED BY <2>1, <2>2
<1>2. T = SUBSET S
  <2> HIDE DEF T
  <2>1. T \in SUBSET SUBSET S
    BY DEF T
  <2> QED BY <1>1, <2>1, SubsetInduction
<1> QED BY <1>2, FS_CardinalityType

\* The recursion that defines the sum
Summed(h, f, S) ==
  h = [s \in SUBSET S |-> IF s = {} THEN 0
                          ELSE f[CHOOSE x \in s : TRUE] + h[s \ {CHOOSE x \in s : TRUE}]]

LEMMA SumIsSummed ==
  ASSUME NEW f
  PROVE  SumFunction(f) = (CHOOSE h : Summed(h, f, DOMAIN f))[DOMAIN f]
BY DEF SumFunction, SumFunctionOnSet, FoldFunctionOnSet, MapThenFoldSet, Summed

\* The sum of a function on a finite set is the number of its units.
LEMMA SumIsUnits ==
  ASSUME NEW S, IsFiniteSet(S), NEW f \in [S -> Nat]
  PROVE  SumFunction(f) = Cardinality(Units(f, S)) /\ SumFunction(f) \in Nat
<1> DEFINE g == [s \in SUBSET S |-> Cardinality(Units(f, s))]
           c(s) == CHOOSE x \in s : TRUE
           h == CHOOSE h : Summed(h, f, S)
<1>1. Units(f, {}) = {} /\ Cardinality({}) = 0
  BY FS_EmptySet DEF Units
<1>2. ASSUME NEW s \in SUBSET S, s # {}
      PROVE  /\ c(s) \in s /\ s \ {c(s)} \in SUBSET S
             /\ Cardinality(Units(f, s)) = f[c(s)] + Cardinality(Units(f, s \ {c(s)}))
  <2>1. c(s) \in s
    BY <1>2
  <2> HIDE DEF c
  <2>2. s \ {c(s)} \in SUBSET S
    OBVIOUS
  <2> QED BY <2>1, <2>2, UnitsFinite, UnitsSplit
<1>3. Summed(g, f, S)
  <2>1. ASSUME NEW s \in SUBSET S
        PROVE  g[s] = IF s = {} THEN 0 ELSE f[c(s)] + g[s \ {c(s)}]
    BY <1>1, <1>2
  <2> QED BY <2>1 DEF Summed
<1>4. Summed(h, f, S)
  BY <1>3
<1> HIDE DEF g, h
<1> DEFINE T == {s \in SUBSET S : h[s] = Cardinality(Units(f, s))}
<1>5. ASSUME NEW s \in SUBSET S, \A r \in (SUBSET s) \ {s} : r \in T
      PROVE  s \in T
  <2>1. h[s] = IF s = {} THEN 0 ELSE f[c(s)] + h[s \ {c(s)}]
    BY <1>4 DEF Summed
  <2>2. CASE s = {}
    BY <1>1, <2>1, <2>2
  <2>3. CASE s # {}
    <3>1. s \ {c(s)} \in T
      BY <1>2, <1>5, <2>3
    <3> QED BY <1>2, <2>1, <2>3, <3>1
  <2> QED BY <2>2, <2>3
<1>6. T = SUBSET S
  <2> HIDE DEF T
  <2>1. T \in SUBSET SUBSET S
    BY DEF T
  <2> QED BY <1>5, <2>1, SubsetInduction
<1>7. h[S] = Cardinality(Units(f, S))
  BY <1>6
<1>8. SumFunction(f) = h[S]
  <2>1. DOMAIN f = S
    OBVIOUS
  <2> QED BY <2>1, SumIsSummed DEF h
<1> QED BY <1>7, <1>8, UnitsFinite

\* One argument more adds its value.
LEMMA SumInsert ==
  ASSUME NEW S, IsFiniteSet(S), NEW f \in [S -> Nat], NEW T, NEW g \in [T -> Nat],
         NEW x \in T, x \notin S, S \subseteq T, \A y \in T : y \in S \/ y = x,
         \A i \in S : g[i] = f[i]
  PROVE  SumFunction(g) = SumFunction(f) + g[x]
<1>1. /\ T = S \cup {x} /\ T \ {x} = S
      /\ IsFiniteSet(T) /\ T \in SUBSET T
  <2>1. T = S \cup {x} /\ T \ {x} = S
    OBVIOUS
  <2> QED BY <2>1, FS_AddElement
<1>2. Units(g, S) = Units(f, S)
  BY DEF Units
<1>3. /\ SumFunction(f) = Cardinality(Units(f, S)) /\ SumFunction(f) \in Nat
      /\ IsFiniteSet(Units(f, S))
  BY SumIsUnits, UnitsFinite
<1>4. SumFunction(g) = Cardinality(Units(g, T))
  <2>1. IsFiniteSet(T)
    BY <1>1
  <2> QED BY <2>1, SumIsUnits
<1>5. Units(g, T \ {x}) = Units(f, S)
  BY <1>1, <1>2
<1>6. Cardinality(Units(g, T)) = g[x] + Cardinality(Units(g, T \ {x}))
  <2>1. T \in SUBSET T /\ IsFiniteSet(Units(g, T \ {x}))
    BY <1>1, <1>3, <1>5
  <2> QED BY <2>1, UnitsSplit
<1>7. SumFunction(g) = g[x] + SumFunction(f) /\ g[x] \in Nat
  BY <1>3, <1>4, <1>5, <1>6
<1> QED BY <1>3, <1>7

\* Nothing adds up to nothing.
LEMMA SumZero ==
  ASSUME NEW S, IsFiniteSet(S)
  PROVE  SumFunction([x \in S |-> 0]) = 0
<1>1. Units([x \in S |-> 0], S) = {}
  BY DEF Units
<1> QED BY <1>1, SumIsUnits, FS_EmptySet

\* Adding to one value adds as much to the sum.
LEMMA SumRaise ==
  ASSUME NEW S, IsFiniteSet(S), NEW f \in [S -> Nat], NEW x \in S, NEW d \in Nat,
         NEW g \in [S -> Nat], g[x] = f[x] + d, \A i \in S \ {x} : g[i] = f[i]
  PROVE  SumFunction(g) = SumFunction(f) + d
<1> DEFINE R == S \ {x}
           r == [i \in R |-> f[i]]
<1>1. IsFiniteSet(R) /\ x \notin R /\ R \cup {x} = S
  BY FS_RemoveElement
<1>2. /\ r \in [R -> Nat] /\ f[x] \in Nat
      /\ \A i \in R : r[i] = f[i] /\ g[i] = r[i]
  OBVIOUS
<1>3. SumFunction(r) \in Nat
  <2> HIDE DEF r, R
  <2> QED BY <1>1, <1>2, SumIsUnits
<1> HIDE DEF R, r
<1>4. SumFunction(f) = SumFunction(r) + f[x]
  BY <1>1, <1>2, SumInsert
<1>5. SumFunction(g) = SumFunction(r) + g[x]
  BY <1>1, <1>2, SumInsert
<1> QED BY <1>2, <1>3, <1>4, <1>5

\* One value more at the end of a list
LEMMA SumAtEnd ==
  ASSUME NEW n \in Nat, NEW f \in [1..n -> Nat], NEW g \in [1..n+1 -> Nat],
         \A i \in 1..n : g[i] = f[i]
  PROVE  SumFunction(g) = SumFunction(f) + g[n+1]
<1> DEFINE S == 1..n
           T == 1..n+1
           x == n + 1
<1>1. /\ x \in T /\ x \notin S /\ S \subseteq T /\ \A y \in T : y \in S \/ y = x
      /\ f \in [S -> Nat] /\ g \in [T -> Nat] /\ \A i \in S : g[i] = f[i]
  OBVIOUS
<1>2. IsFiniteSet(S)
  BY FS_Interval
<1> HIDE DEF S, T, x
<1>3. SumFunction(g) = SumFunction(f) + g[x]
  BY <1>1, <1>2, SumInsert
<1> QED BY <1>3 DEF x

\* Values that are smaller, one by one, have the smaller sum.
LEMMA SumMonotone ==
  ASSUME NEW S, IsFiniteSet(S), NEW f \in [S -> Nat], NEW g \in [S -> Nat],
         \A x \in S : f[x] <= g[x]
  PROVE  SumFunction(f) <= SumFunction(g)
<1>1. Units(f, S) \in SUBSET Units(g, S)
  BY DEF Units
<1>2. S \in SUBSET S
  OBVIOUS
<1>3. IsFiniteSet(Units(g, S))
  BY <1>2, UnitsFinite
<1> QED BY <1>1, <1>3, FS_Subset, SumIsUnits
=============================================================================
