----------------------------- MODULE ListLemmas -----------------------------
(***************************************************************************)
(* Lemmas about finite sets of positions and about lists, for the proofs   *)
(* of the other modules.                                                   *)
(***************************************************************************)
EXTENDS Integers, Sequences, FiniteSetTheorems, SequenceTheorems, WellFoundedInduction, TLAPS

-----------------------------------------------------------------------------
(* A finite set in an order R, a set of pairs.  What would be shown by      *)
(* induction on the size of the set is shown of a smallest counterexample.  *)

IsOrderOf(R, S) ==
    /\ \A x, y \in S : x # y => <<x, y>> \in R \/ <<y, x>> \in R
    /\ \A x, y, z \in S : <<x, y>> \in R /\ <<y, z>> \in R => <<x, z>> \in R

\* Among the sets of finite subsets that lack something, one is minimal.
LEMMA MinimalSubset ==
    ASSUME NEW S, IsFiniteSet(S), NEW Bad \in SUBSET (SUBSET S), Bad # {}
    PROVE  \E M \in Bad : \A T \in Bad : ~(T \subseteq M /\ T # M)
<1>1. FiniteSubsetsOf(S) = SUBSET S
    BY FS_FiniteSubsetsOfFinite
<1>2. IsWellFoundedOn(StrictSubsetOrdering(S), FiniteSubsetsOf(S))
    BY FS_StrictSubsetOrderingWellFounded
<1>3. PICK M \in Bad : \A T \in Bad : ~(<<T, M>> \in StrictSubsetOrdering(S))
    BY <1>1, <1>2, WFMin
<1> QED
    BY <1>3 DEF StrictSubsetOrdering

\* A finite set that is not empty has a last element.
LEMMA LastInOrder ==
    ASSUME NEW S, IsFiniteSet(S), S # {}, NEW R, IsOrderOf(R, S)
    PROVE  \E x \in S : \A y \in S : y # x => <<y, x>> \in R
<1> DEFINE HasLast(T) == \E x \in T : \A y \in T : y # x => <<y, x>> \in R
           Bad == {T \in SUBSET S : T # {} /\ ~HasLast(T)}
<1> SUFFICES ASSUME ~HasLast(S) PROVE FALSE
    OBVIOUS
<1>1. Bad \in SUBSET (SUBSET S) /\ Bad # {}
    OBVIOUS
<1> HIDE DEF Bad
<1>2. PICK M \in Bad : \A T \in Bad : ~(T \subseteq M /\ T # M)
    BY <1>1, MinimalSubset
<1> USE DEF Bad
<1>3. PICK x \in M : TRUE
    BY <1>2
<1> DEFINE M1 == M \ {x}
<1>4. M1 # {}
    BY <1>2, <1>3
<1>5. M1 \notin Bad
    BY <1>2, <1>3
<1>6. PICK y \in M1 : \A z \in M1 : z # y => <<z, y>> \in R
    BY <1>2, <1>4, <1>5
<1>7. x \in S /\ y \in S /\ x # y /\ M \subseteq S
    BY <1>2, <1>3, <1>6
<1>8. CASE <<x, y>> \in R
    BY <1>2, <1>6, <1>8
<1>9. CASE <<y, x>> \in R
  <2>1. \A z \in M : z # x => <<z, x>> \in R
      BY <1>6, <1>7, <1>9 DEF IsOrderOf
  <2> QED
      BY <1>2, <1>3, <2>1
<1> QED
    BY <1>7, <1>8, <1>9 DEF IsOrderOf

\* A finite set is the range of a list that goes through it in order.
LEMMA SortedListExists ==
    ASSUME NEW S, IsFiniteSet(S), NEW R, IsOrderOf(R, S)
    PROVE  \E s \in [1 .. Cardinality(S) -> S] :
              /\ \A x \in S : \E i \in 1 .. Cardinality(S) : s[i] = x
              /\ \A i, j \in 1 .. Cardinality(S) : i < j => <<s[i], s[j]>> \in R
<1> DEFINE Sorts(s, T) == /\ \A x \in T : \E i \in 1 .. Cardinality(T) : s[i] = x
                          /\ \A i, j \in 1 .. Cardinality(T) : i < j => <<s[i], s[j]>> \in R
           HasSorted(T) == \E s \in [1 .. Cardinality(T) -> T] : Sorts(s, T)
           Bad == {T \in SUBSET S : ~HasSorted(T)}
<1> SUFFICES ASSUME ~HasSorted(S) PROVE FALSE
    OBVIOUS
<1>1. Bad \in SUBSET (SUBSET S) /\ Bad # {}
  <2> HIDE DEF HasSorted
  <2> QED
      OBVIOUS
<1> HIDE DEF Bad
<1>2. PICK M \in Bad : \A T \in Bad : ~(T \subseteq M /\ T # M)
    BY <1>1, MinimalSubset
<1>3. M \subseteq S /\ ~HasSorted(M) /\ \A T \in SUBSET M : T # M => HasSorted(T)
  <2> HIDE DEF HasSorted
  <2> QED
      BY <1>2 DEF Bad
<1>4. IsFiniteSet(M) /\ Cardinality(M) \in Nat
    BY <1>3, FS_Subset, FS_CardinalityType
<1>5. CASE M = {}
  <2>1. Cardinality(M) = 0 /\ [i \in 1 .. 0 |-> 0] \in [1 .. 0 -> M]
      BY <1>5, FS_EmptySet
  <2>2. Sorts([i \in 1 .. 0 |-> 0], M)
      BY <1>5, <2>1
  <2> HIDE DEF Sorts
  <2> QED
      BY <1>3, <2>1, <2>2
<1>6. CASE M # {}
  <2>1. IsOrderOf(R, M)
      BY <1>3 DEF IsOrderOf
  <2>2. PICK x \in M : \A y \in M : y # x => <<y, x>> \in R
      BY <1>4, <1>6, <2>1, LastInOrder
  <2> DEFINE T == M \ {x}
             n == Cardinality(T)
  <2>3. n \in Nat /\ Cardinality(M) = n + 1
    <3>1. IsFiniteSet(T) /\ Cardinality(T) = Cardinality(M) - 1
        BY <1>4, <2>2, FS_RemoveElement
    <3>2. Cardinality(T) \in Nat
        BY <3>1, FS_CardinalityType
    <3> QED
        BY <1>4, <3>1, <3>2
  <2>4. HasSorted(T)
    <3> HIDE DEF HasSorted
    <3> QED
        BY <1>3
  <2>5. PICK t \in [1 .. n -> T] : Sorts(t, T)
      BY <2>4
  <2> DEFINE s == [i \in 1 .. n + 1 |-> IF i <= n THEN t[i] ELSE x]
  <2>6. /\ \A y \in T : \E i \in 1 .. n : t[i] = y
        /\ \A i, j \in 1 .. n : i < j => <<t[i], t[j]>> \in R
      BY <2>5
  <2> HIDE DEF n, T
  <2>7. \A i \in 1 .. n : s[i] = t[i] /\ t[i] \in T /\ i \in 1 .. n + 1
      BY <2>3
  <2>8. s[n + 1] = x /\ n + 1 \in 1 .. n + 1 /\ \A i \in 1 .. n + 1 : i = n + 1 \/ i \in 1 .. n
      BY <2>3
  <2>9. \A y : y \in M <=> y = x \/ y \in T
      BY DEF T
  <2>10. s \in [1 .. n + 1 -> M]
      BY <2>7, <2>8, <2>9
  <2> HIDE DEF s
  <2>11. \A y \in M : \E i \in 1 .. n + 1 : s[i] = y
      BY <2>6, <2>7, <2>8, <2>9
  <2>12. ASSUME NEW i \in 1 .. n + 1, NEW j \in 1 .. n + 1, i < j PROVE <<s[i], s[j]>> \in R
    <3>1. i \in 1 .. n
        BY <2>3, <2>12
    <3>2. CASE j \in 1 .. n
        BY <2>6, <2>7, <2>12, <3>1, <3>2
    <3>3. CASE j = n + 1
        BY <2>2, <2>7, <2>8, <2>9, <3>1, <3>3 DEF T
    <3> QED
        BY <2>8, <3>2, <3>3
  <2>13. Sorts(s, M)
      BY <2>3, <2>11, <2>12
  <2> HIDE DEF Sorts
  <2> QED
      BY <1>3, <2>3, <2>10, <2>13
<1> QED
    BY <1>5, <1>6

-----------------------------------------------------------------------------
(* Sets of positions.                                                       *)

\* A set of positions has a least one.
LEMMA LeastOf ==
    ASSUME NEW n \in Nat, NEW D \in SUBSET (1 .. n), D # {}
    PROVE  \E i \in D : \A j \in D : i <= j
<1> DEFINE R == {p \in D \X D : p[1] > p[2]}
<1>0. \A i \in D : i \in Int
    OBVIOUS
<1>1. IsFiniteSet(D)
  <2>1. IsFiniteSet(1 .. n)
      BY FS_Interval
  <2> QED
      BY <2>1, FS_Subset, Zenon
<1>2. \A i, j \in D : <<i, j>> \in R <=> i > j
    OBVIOUS
<1> HIDE DEF R
<1>3. IsOrderOf(R, D)
    BY <1>2 DEF IsOrderOf
<1>4. PICK i \in D : \A j \in D : j # i => <<j, i>> \in R
    BY <1>1, <1>3, LastInOrder
<1>5. ASSUME NEW j \in D PROVE i <= j
  <2>1. CASE j = i
      BY <1>0, <2>1
  <2>2. CASE j # i
    <3>1. <<j, i>> \in R
        BY <1>4, <2>2
    <3>2. j > i
        BY <1>2, <3>1
    <3> QED
        BY <1>0, <3>2
  <2> QED
      BY <2>1, <2>2
<1> QED
    BY <1>5

\* And a greatest one.
LEMMA GreatestOf ==
    ASSUME NEW n \in Nat, NEW D \in SUBSET (1 .. n), D # {}
    PROVE  \E i \in D : \A j \in D : j <= i
<1> DEFINE R == {p \in D \X D : p[1] < p[2]}
<1>0. \A i \in D : i \in Int
    OBVIOUS
<1>1. IsFiniteSet(D)
  <2>1. IsFiniteSet(1 .. n)
      BY FS_Interval
  <2> QED
      BY <2>1, FS_Subset, Zenon
<1>2. \A i, j \in D : <<i, j>> \in R <=> i < j
    OBVIOUS
<1> HIDE DEF R
<1>3. IsOrderOf(R, D)
    BY <1>2 DEF IsOrderOf
<1>4. PICK i \in D : \A j \in D : j # i => <<j, i>> \in R
    BY <1>1, <1>3, LastInOrder
<1>5. ASSUME NEW j \in D PROVE j <= i
  <2>1. CASE j = i
      BY <1>0, <2>1
  <2>2. CASE j # i
    <3>1. <<j, i>> \in R
        BY <1>4, <2>2
    <3>2. j < i
        BY <1>2, <3>1
    <3> QED
        BY <1>0, <3>2
  <2> QED
      BY <2>1, <2>2
<1> QED
    BY <1>5
=============================================================================
