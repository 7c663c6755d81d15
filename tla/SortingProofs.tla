--------------------------- MODULE SortingProofs ---------------------------
(***************************************************************************)
(* Lemmas about finite sets of numbers: their least and greatest elements, *)
(* the rank of a number in them, and their sorted sequence.                *)
(***************************************************************************)
EXTENDS Sorting, FiniteSetTheorems, WellFoundedInduction, TLAPS

\* A non-empty set of numbers has a least element.
LEMMA LeastExists ==
    ASSUME NEW S, S \subseteq Nat, S # {}
    PROVE  \E i \in S : \A j \in S : i <= j
<1>1. PICK x \in S : \A y \in S : ~ (<<y, x>> \in OpToRel(<, Nat))
  BY NatLessThanWellFounded, WFMin
<1>2. \A y \in S : ~ (y < x)
  BY <1>1 DEF OpToRel
<1>. QED BY <1>2

\* With a bound it has a greatest one.
LEMMA GreatestExists ==
    ASSUME NEW n \in Nat, NEW S, S \subseteq 0 .. n, S # {}
    PROVE  \E i \in S : \A j \in S : j <= i
<1> DEFINE T == {n - i : i \in S}
<1>1. \A i \in S : i \in Int /\ n - i \in Nat
  OBVIOUS
<1>2. T \subseteq Nat /\ T # {}
  BY <1>1
<1>3. PICK x \in T : \A y \in T : x <= y
  BY <1>2, LeastExists
<1>4. PICK i \in S : x = n - i
  OBVIOUS
<1>5. ASSUME NEW j \in S
      PROVE  j <= i
  <2>1. n - j \in T
    OBVIOUS
  <2>2. n - i <= n - j
    BY <1>3, <1>4, <2>1
  <2>3. i \in Int /\ j \in Int
    OBVIOUS
  <2>. HIDE DEF T
  <2>. QED BY <2>2, <2>3
<1>. QED BY <1>5

-----------------------------------------------------------------------------
(* Ranks: how many of a set of numbers come before one.                        *)

Rank(S, j) == Cardinality({k \in S : k < j})

LEMMA RankType ==
    ASSUME NEW S, IsFiniteSet(S), NEW j
    PROVE  IsFiniteSet({k \in S : k < j}) /\ Rank(S, j) \in Nat /\ Rank(S, j) <= Cardinality(S)
<1>1. {k \in S : k < j} \subseteq S
  OBVIOUS
<1>. QED BY <1>1, FS_Subset, FS_CardinalityType DEF Rank

LEMMA RankGrows ==
    ASSUME NEW S, IsFiniteSet(S), S \subseteq Nat, NEW i \in Nat, NEW j \in Nat, i <= j
    PROVE  Rank(S, i) <= Rank(S, j)
<1>1. \A k \in S : k \in Nat /\ (k < i => k < j)
  OBVIOUS
<1>2. {k \in S : k < i} \subseteq {k \in S : k < j}
  BY <1>1, Zenon
<1>. QED BY <1>2, RankType, FS_Subset DEF Rank

LEMMA RankNext ==
    ASSUME NEW S, IsFiniteSet(S), S \subseteq Nat, NEW i \in S, NEW j \in Nat, i < j
    PROVE  /\ Rank(S, i) + 1 <= Rank(S, j)
           /\ (\A k \in S : k < j => k <= i) => Rank(S, j) = Rank(S, i) + 1
<1> DEFINE I == {k \in S : k < i}
           J == {k \in S : k < j}
<1>1. IsFiniteSet(I) /\ IsFiniteSet(J) /\ Rank(S, i) \in Nat /\ Rank(S, j) \in Nat
  BY RankType
<1>2. i \notin I /\ I \cup {i} \subseteq J
  <2>1. i \in Nat /\ ~(i < i) /\ \A k \in S : k \in Nat /\ (k < i => k < j)
    OBVIOUS
  <2>. QED BY <2>1, Zenon
<1>3. (\A k \in S : k < j => k <= i) => J = I \cup {i}
  <2>1. \A k \in S : k <= i => k < i \/ k = i
    OBVIOUS
  <2>. SUFFICES ASSUME \A k \in S : k < j => k <= i PROVE J \subseteq I \cup {i}
    BY <1>2, Zenon
  <2>. QED BY <2>1, Zenon
<1>4. Rank(S, i) = Cardinality(I) /\ Rank(S, j) = Cardinality(J)
  BY DEF Rank
<1> HIDE DEF I, J
<1>5. Cardinality(I \cup {i}) = Cardinality(I) + 1
  BY <1>1, <1>2, FS_AddElement
<1>6. Cardinality(I \cup {i}) <= Cardinality(J)
  BY <1>1, <1>2, FS_Subset
<1>. QED BY <1>1, <1>3, <1>4, <1>5, <1>6

\* A finite set of numbers has a greatest element.
LEMMA FiniteGreatest ==
    ASSUME NEW S, IsFiniteSet(S), S \subseteq Nat, S # {}
    PROVE  \E m \in S : \A j \in S : j <= m
<1> DEFINE R == {Rank(S, j) : j \in S}
<1>1. Cardinality(S) \in Nat /\ R \subseteq 0 .. Cardinality(S)
  <2>1. Cardinality(S) \in Nat
    BY FS_CardinalityType
  <2>2. ASSUME NEW j \in S PROVE Rank(S, j) \in 0 .. Cardinality(S)
    <3>1. Rank(S, j) \in Nat /\ Rank(S, j) <= Cardinality(S)
      BY RankType
    <3>. QED BY <2>1, <3>1
  <2>. QED BY <2>1, <2>2
<1>2. R # {}
  OBVIOUS
<1>3. PICK r \in R : \A q \in R : q <= r
  BY <1>1, <1>2, GreatestExists
<1>4. PICK m \in S : r = Rank(S, m)
  BY <1>3
<1>5. ASSUME NEW j \in S, ~(j <= m)
      PROVE  FALSE
  <2>1. m \in Nat /\ j \in Nat /\ m < j
    BY <1>5
  <2>3. Rank(S, m) + 1 <= Rank(S, j)
    BY <2>1, RankNext
  <2>2. Rank(S, j) \in R /\ Rank(S, j) \in Nat /\ Rank(S, m) \in Nat
    BY RankType
  <2> HIDE DEF R
  <2>. QED BY <1>3, <1>4, <2>3, <2>2
<1>. QED BY <1>5

\* Every rank up to a rank in the set occurs.
LEMMA RankHit ==
    ASSUME NEW S, IsFiniteSet(S), S \subseteq Nat, NEW k \in Nat, NEW j \in S, Rank(S, j) >= k
    PROVE  \E m \in S : Rank(S, m) = k
<1> DEFINE T == {m \in S : Rank(S, m) >= k}
<1>1. j \in T /\ T \subseteq Nat
  OBVIOUS
<1>2. PICK m \in T : \A x \in T : m <= x
  BY <1>1, LeastExists
<1>3. m \in S /\ m \in Nat /\ Rank(S, m) \in Nat /\ Rank(S, m) >= k
  BY RankType
<1>4. CASE Rank(S, m) = k
  BY <1>3, <1>4
<1>5. CASE Rank(S, m) # k
  <2> DEFINE B == {x \in S : x < m}
  <2>0. \A x \in S : x \in Nat /\ (x < m => x \in 0 .. m)
    BY <1>3
  <2>1. Rank(S, m) = Cardinality(B) /\ IsFiniteSet(B) /\ B \subseteq 0 .. m
    BY <2>0, RankType DEF Rank
  <2>2. B # {}
    BY <1>3, <1>5, <2>1, FS_EmptySet
  <2>3. PICK z \in B : \A x \in B : x <= z
    BY <1>3, <2>1, <2>2, GreatestExists
  <2>4. Rank(S, m) = Rank(S, z) + 1
    BY <1>3, <2>3, RankNext
  <2>5. z \in S /\ z < m /\ z \in Nat /\ Rank(S, z) \in Nat
    BY RankType
  <2>6. Rank(S, z) >= k
    BY <1>3, <1>5, <2>4, <2>5
  <2>. QED BY <1>2, <1>3, <2>5, <2>6
<1>. QED BY <1>4, <1>5

-----------------------------------------------------------------------------
(* The sorted sequence.                                                    *)

\* The element of rank i - 1 at position i: there is such a sequence.
LEMMA SortedExists ==
    ASSUME NEW S, IsFiniteSet(S), S \subseteq Nat
    PROVE  \E seq \in [1 .. Cardinality(S) -> S] :
               \A i, j \in 1 .. Cardinality(S) : i < j => seq[i] < seq[j]
<1> DEFINE n == Cardinality(S)
           f == [i \in 1 .. n |-> CHOOSE x \in S : Rank(S, x) = i - 1]
<1>1. n \in Nat
  BY FS_CardinalityType
<1>2. ASSUME NEW i \in 1 .. n
      PROVE  \E x \in S : Rank(S, x) = i - 1
  <2>1. S # {}
    BY <1>1, <1>2, FS_EmptySet
  <2>2. PICK m \in S : \A x \in S : x <= m
    BY <2>1, FiniteGreatest
  <2>3. {x \in S : x < m} = S \ {m}
    <3>1. \A x \in S : x < m <=> x # m
      BY <2>2
    <3>. QED BY <3>1, Zenon
  <2>4. Rank(S, m) = n - 1
    BY <2>3, FS_RemoveElement DEF Rank
  <2>5. Rank(S, m) >= i - 1 /\ i - 1 \in Nat
    BY <1>1, <1>2, <2>4
  <2>. QED BY <2>5, RankHit
<1>3. ASSUME NEW i \in 1 .. n
      PROVE  f[i] \in S /\ Rank(S, f[i]) = i - 1
  BY <1>2, <1>3
<1>4. f \in [1 .. n -> S]
  BY <1>3
<1>5. ASSUME NEW i \in 1 .. n, NEW j \in 1 .. n, i < j
      PROVE  f[i] < f[j]
  <2>1. f[i] \in S /\ f[j] \in S /\ Rank(S, f[i]) = i - 1 /\ Rank(S, f[j]) = j - 1
    BY <1>3
  <2> HIDE DEF f
  <2>2. f[i] \in Nat /\ f[j] \in Nat
    BY <2>1
  <2>3. f[j] <= f[i] => Rank(S, f[j]) <= Rank(S, f[i])
    BY <2>2, RankGrows
  <2>4. ~(j - 1 <= i - 1)
    BY <1>1, <1>5
  <2>5. ~(f[j] <= f[i])
    BY <2>1, <2>3, <2>4
  <2>. QED BY <2>2, <2>5
<1> HIDE DEF f
<1>. QED BY <1>4, <1>5

\* Sorted(S) has the elements of S in order, each once.
LEMMA SortedProperties ==
    ASSUME NEW S, IsFiniteSet(S), S \subseteq Nat
    PROVE  /\ Cardinality(S) \in Nat
           /\ Sorted(S) \in [1 .. Cardinality(S) -> S]
           /\ \A i, j \in 1 .. Cardinality(S) : i < j => Sorted(S)[i] < Sorted(S)[j]
           /\ \A i, j \in 1 .. Cardinality(S) : i # j => Sorted(S)[i] # Sorted(S)[j]
           /\ \A x \in S : \E i \in 1 .. Cardinality(S) : Sorted(S)[i] = x
<1> DEFINE n == Cardinality(S)
           f == Sorted(S)
<1>1. n \in Nat
  BY FS_CardinalityType
<1>2. f \in [1 .. n -> S] /\ \A i, j \in 1 .. n : i < j => f[i] < f[j]
  BY SortedExists DEF Sorted
<1> HIDE DEF f
<1>3. ASSUME NEW i \in 1 .. n, NEW j \in 1 .. n, i # j
      PROVE  f[i] # f[j]
  <2>1. i < j \/ j < i
    BY <1>1, <1>3
  <2>2. f[i] \in Nat /\ f[j] \in Nat
    BY <1>2
  <2>. QED BY <1>2, <2>1, <2>2
<1>4. \A x \in S : \E i \in 1 .. n : f[i] = x
  <2>1. f \in Injection(1 .. n, S)
    BY <1>2, <1>3 DEF Injection, IsInjective
  <2>2. Cardinality(1 .. n) = n
    BY <1>1, FS_Interval
  <2>3. f \in Surjection(1 .. n, S)
    BY <2>1, <2>2, FS_Injection
  <2>. QED BY <2>3 DEF Surjection
<1>. QED BY <1>1, <1>2, <1>3, <1>4 DEF f
=============================================================================
