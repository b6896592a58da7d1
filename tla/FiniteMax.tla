------------------------------ MODULE FiniteMax -----------------------------
(***************************************************************************)
(* That a finite set has an element that no other beats: the workers the  *)
(* controller decides on (MostFree, Highest, Lowest) and the revision of a *)
(* configuration (Rev) are chosen that way. The element with the fewest    *)
(* elements above it has none.                                             *)
(***************************************************************************)
EXTENDS FiniteSetsExt, Integers, FiniteSetTheorems, WellFoundedInduction, TLAPS

\* A set of natural numbers that is not empty has a least element.
LEMMA Least ==
  ASSUME NEW S \in SUBSET Nat, S # {}
  PROVE  \E x \in S : \A y \in S : x <= y
<1> DEFINE Less == OpToRel(<, Nat)
<1>1. \A x, y \in Nat : <<y, x>> \in Less <=> y < x
  BY DEF OpToRel
<1>2. IsWellFoundedOn(Less, Nat)
  BY NatLessThanWellFounded
<1> HIDE DEF Less
<1>3. PICK x \in S : \A y \in S : ~(<<y, x>> \in Less)
  BY <1>2, WFMin
<1>4. \A y \in S : y \in Nat /\ x \in Nat /\ ~(y < x)
  BY <1>1, <1>3, Zenon
<1> QED
  BY <1>4

\* A finite set that is not empty has an element that no other beats.
LEMMA Unbeaten ==
  ASSUME NEW S, IsFiniteSet(S), S # {}, NEW Beats,
         \A x \in S : <<x, x>> \notin Beats,
         \A x, y, z \in S : <<x, y>> \in Beats /\ <<y, z>> \in Beats => <<x, z>> \in Beats
  PROVE  \E x \in S : \A y \in S : <<y, x>> \notin Beats
<1> DEFINE Above(x) == {y \in S : <<y, x>> \in Beats}
           N == {Cardinality(Above(x)) : x \in S}
<1>1. \A x \in S : IsFiniteSet(Above(x)) /\ Cardinality(Above(x)) \in Nat
  <2> TAKE x \in S
  <2>1. Above(x) \in SUBSET S
    OBVIOUS
  <2>2. IsFiniteSet(Above(x))
    BY <2>1, FS_Subset
  <2> QED
    BY <2>2, FS_CardinalityType
<1>2. N \subseteq Nat /\ N # {}
  <2> HIDE DEF Above
  <2> QED BY <1>1
<1> HIDE DEF N
<1>3. PICK n \in N : \A m \in N : n <= m
  BY <1>2, Least
<1>4. PICK x \in S : n = Cardinality(Above(x))
  BY <1>3 DEF N
<1>5. ASSUME NEW y \in S, <<y, x>> \in Beats PROVE FALSE
  <2>1. Above(y) \in SUBSET Above(x) /\ y \in Above(x) /\ y \notin Above(y)
    BY <1>5
  <2>2. Cardinality(Above(y)) <= Cardinality(Above(x))
        /\ (Cardinality(Above(x)) = Cardinality(Above(y)) => Above(x) = Above(y))
    BY <1>1, <2>1, FS_Subset
  <2>3. Cardinality(Above(y)) < Cardinality(Above(x))
    <3> HIDE DEF Above
    <3> QED BY <1>1, <2>1, <2>2
  <2>4. Cardinality(Above(y)) \in N
    BY DEF N
  <2> HIDE DEF Above
  <2> QED
    BY <1>1, <1>2, <1>3, <1>4, <2>3, <2>4
<1> QED
  BY <1>5

\* A finite set that is not empty has an element of greatest measure.
LEMMA Greatest ==
  ASSUME NEW S, IsFiniteSet(S), S # {}, NEW f \in [S -> Int]
  PROVE  \E x \in S : \A y \in S : f[y] <= f[x]
<1> DEFINE Beats == {p \in S \X S : f[p[1]] > f[p[2]]}
<1>1. \A x, y \in S : <<x, y>> \in Beats <=> f[x] > f[y]
  OBVIOUS
<1> HIDE DEF Beats
<1>2. \E x \in S : \A y \in S : <<y, x>> \notin Beats
  <2>1. \A x \in S : <<x, x>> \notin Beats
    BY <1>1
  <2>2. \A x, y, z \in S : <<x, y>> \in Beats /\ <<y, z>> \in Beats => <<x, z>> \in Beats
    BY <1>1
  <2> QED
    BY <2>1, <2>2, Unbeaten
<1>3. PICK x \in S : \A y \in S : <<y, x>> \notin Beats
  BY <1>2
<1>4. \A y \in S : f[y] \in Int /\ f[x] \in Int /\ ~(f[y] > f[x])
  BY <1>1, <1>3
<1> QED
  BY <1>4

\* Min of a set of natural numbers that is not empty is one of them.
LEMMA MinIsElement ==
  ASSUME NEW S \in SUBSET Nat, S # {}
  PROVE  Min(S) \in S
BY Least DEF Min
=============================================================================
