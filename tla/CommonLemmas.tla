---------------------------- MODULE CommonLemmas ----------------------------
(***************************************************************************)
(* Facts that the proofs about several components need: numbers and        *)
(* division into blocks; finite sets of numbers; and what is left of a     *)
(* sequence when a loop picks some of its elements (Places), for sequences *)
(* of every length.                                                        *)
(***************************************************************************)
EXTENDS Places, FiniteSetsExt, WellFoundedInduction, FiniteSetTheorems, SequenceTheorems, TLAPS

\* A relation that holds the order of the naturals and is well founded.
LEMMA OrderWellFounded ==
  \E R : /\ IsWellFoundedOn(R, Nat)
         /\ \A a, b \in Nat : a < b => <<a, b>> \in R
  <1>1. \A a, b \in Nat : a < b => <<a, b>> \in OpToRel(<, Nat)
    BY DEF OpToRel
  <1>2. IsWellFoundedOn(OpToRel(<, Nat), Nat)
    BY NatLessThanWellFounded
  <1> QED BY <1>1, <1>2, Zenon

\* A set of naturals that is not empty has a least element.
LEMMA LeastNatural ==
  ASSUME NEW T, T \subseteq Nat, T # {}
  PROVE  \E x \in T : \A y \in T : x <= y
  <1>1. PICK R : /\ IsWellFoundedOn(R, Nat)
                 /\ \A a, b \in Nat : a < b => <<a, b>> \in R
    BY OrderWellFounded
  <1>2. PICK x \in T : \A y \in T : ~(<<y, x>> \in R)
    <2>1. IsWellFoundedOn(R, Nat)
      BY <1>1
    <2> QED BY <2>1, WFMin, Zenon
  <1>3. ASSUME NEW y \in T PROVE x <= y
    <2>1. x \in Nat /\ y \in Nat /\ ~(y < x)
      BY <1>1, <1>2
    <2> QED BY <2>1
  <1> QED BY <1>3

\* Induction over the naturals, for a set of them.
LEMMA NaturalsInSet ==
  ASSUME NEW T, 0 \in T, \A k \in Nat : k \in T => k + 1 \in T
  PROVE  \A k \in Nat : k \in T
  <1> DEFINE U == {k \in Nat : k \notin T}
  <1>1. ASSUME U # {} PROVE FALSE
    <2>1. PICK m \in U : \A y \in U : m <= y
      BY <1>1, LeastNatural
    <2>2. m \in Nat /\ m # 0
      BY <2>1
    <2>3. m - 1 \in Nat /\ m - 1 \in T
      BY <2>1, <2>2
    <2>4. (m - 1) + 1 = m
      BY <2>2
    <2> QED BY <2>1, <2>3, <2>4
  <1> QED BY <1>1

LEMMA DivMod ==
  ASSUME NEW i \in Int, NEW n \in Nat, n > 0
  PROVE  /\ i \div n \in Int
         /\ i % n \in 0..n-1
         /\ i = n * (i \div n) + (i % n)
  OBVIOUS

LEMMA BlocksApart ==
  ASSUME NEW a \in Int, NEW b \in Int, NEW n \in Nat, a < b
  PROVE  a * n + n <= b * n
  <1>1. b * n = a * n + (b - a) * n
    OBVIOUS
  <1>2. (b - a) * n >= n
    OBVIOUS
  <1> QED BY <1>1, <1>2

\* Row p of block j lies in block j.
LEMMA DivUnique ==
  ASSUME NEW j \in Int, NEW n \in Nat, n > 0, NEW p \in 0..n-1
  PROVE  (j * n + p) \div n = j
  <1> DEFINE i == j * n + p
  <1>1. i \in Int
    OBVIOUS
  <1>2. PICK k \in Int, q \in 0..n-1 : i \div n = k /\ i = k * n + q
    <2> HIDE DEF i
    <2>1. n * (i \div n) = (i \div n) * n
      BY <1>1, DivMod
    <2> QED BY <1>1, <2>1, DivMod
  <1>3. ~(k < j)
    BY <1>2, BlocksApart
  <1>4. ~(j < k)
    BY <1>2, BlocksApart
  <1> QED BY <1>2, <1>3, <1>4

\* s blocks of n rows split exactly into n rows per block.
LEMMA ExactDiv ==
  ASSUME NEW s \in Nat, NEW n \in Nat, s > 0
  PROVE  (s * n) \div s = n
  <1>1. s * n = n * s + 0 /\ 0 \in 0..s-1
    OBVIOUS
  <1> QED BY <1>1, DivUnique

\* The block and the offset of a row of s blocks of n rows.
LEMMA BlockOfRow ==
  ASSUME NEW s \in Nat, NEW n \in Nat, n > 0, NEW i \in 0..(s * n - 1)
  PROVE  /\ i \div n \in 0..s-1
         /\ i - (i \div n) * n \in 0..n-1
  <1>1. PICK k \in Int, q \in 0..n-1 : i \div n = k /\ i = k * n + q
    <2>1. s * n \in Nat /\ i \in Int
      OBVIOUS
    <2>2. n * (i \div n) = (i \div n) * n
      BY <2>1, DivMod
    <2> QED BY <2>1, <2>2, DivMod
  <1>2. ~(k < 0)
    <2>1. k < 0 => k * n + n <= 0 * n
      BY BlocksApart
    <2> QED BY <1>1, <2>1
  <1>3. k < s
    <2>1. s < k => s * n + n <= k * n
      BY BlocksApart
    <2> QED BY <1>1, <2>1
  <1>4. i - k * n = q
    BY <1>1
  <1> QED BY <1>1, <1>2, <1>3, <1>4

\* Row p of block j is one of the rows of s blocks.
LEMMA RowOfBlock ==
  ASSUME NEW s \in Nat, NEW n \in Nat, NEW j \in 0..s-1, NEW p \in 0..n-1
  PROVE  j * n + p \in 0..(s * n - 1)
  <1>1. j * n + n <= s * n
    BY BlocksApart
  <1>2. j * n >= 0
    OBVIOUS
  <1>3. j * n \in Int /\ s * n \in Int
    OBVIOUS
  <1> QED BY <1>1, <1>2, <1>3

-----------------------------------------------------------------------------
\* A bounded set of naturals has a largest member.
LEMMA MaxType ==
  ASSUME NEW n \in Nat, NEW S \in SUBSET (0..n), S # {}
  PROVE  Max(S) \in S /\ \A y \in S : y <= Max(S)
  <1> DEFINE T == {n - y : y \in S}
  <1>1. T \subseteq Nat /\ T # {}
    <2>1. \A y \in S : y \in 0..n /\ n - y \in Nat
      OBVIOUS
    <2> QED BY <2>1
  <1>2. PICK x \in T : \A y \in T : x <= y
    BY <1>1, LeastNatural
  <1>3. PICK m \in S : x = n - m
    BY <1>2
  <1>4. ASSUME NEW y \in S PROVE m >= y
    <2>1. x <= n - y
      BY <1>2
    <2> QED BY <1>3, <2>1
  <1>5. Max(S) \in S /\ \A y \in S : Max(S) >= y
    BY <1>3, <1>4 DEF Max
  <1> QED BY <1>5

\* A set of naturals that is not empty has a least member.
LEMMA MinType ==
  ASSUME NEW S \in SUBSET Nat, S # {}
  PROVE  Min(S) \in S /\ \A y \in S : Min(S) <= y
  <1>1. \E x \in S : \A y \in S : x <= y
    BY LeastNatural
  <1> QED BY <1>1 DEF Min

\* A set of natural numbers has a place for each of its members.
LEMMA RankType ==
  ASSUME NEW S \in SUBSET Int, IsFiniteSet(S), NEW i \in S
  PROVE  Rank(S, i) \in 1..Cardinality(S)
  <1> DEFINE T == {j \in S : j <= i}
  <1>1. T \subseteq S /\ i \in T
    OBVIOUS
  <1>2. IsFiniteSet(T) /\ Cardinality(T) <= Cardinality(S)
    BY <1>1, FS_Subset
  <1>3. Cardinality(T) \in Nat /\ Cardinality(S) \in Nat
    BY <1>2, FS_CardinalityType
  <1>4. Cardinality(T) # 0
    BY <1>1, <1>2, FS_EmptySet
  <1> QED BY <1>2, <1>3, <1>4 DEF Rank

\* Larger members come later.
LEMMA RankMonotone ==
  ASSUME NEW S \in SUBSET Int, IsFiniteSet(S), NEW i \in Int, NEW j \in Int,
         i \in S, j \in S, i < j
  PROVE  Rank(S, i) < Rank(S, j)
  <1> DEFINE T == {k \in S : k <= i}
             U == {k \in S : k <= j}
  <1>1. T \subseteq U /\ j \in U /\ j \notin T
    <2>1. \A k \in S : k \in Int /\ (k <= i => k <= j)
      OBVIOUS
    <2>2. j <= j /\ ~(j <= i)
      OBVIOUS
    <2> QED BY <2>1, <2>2
  <1>2. IsFiniteSet(U)
    BY FS_Subset
  <1>3. Cardinality(T) <= Cardinality(U) /\ Cardinality(T) # Cardinality(U)
    BY <1>1, <1>2, FS_Subset, Zenon
  <1>4. IsFiniteSet(T)
    BY FS_Subset
  <1>5. Cardinality(T) \in Nat /\ Cardinality(U) \in Nat
    BY <1>2, <1>4, FS_CardinalityType
  <1> QED BY <1>3, <1>5 DEF Rank

\* Rank numbers the members of S from 1 to their number, and each number is used.
LEMMA RankOnto ==
  ASSUME NEW S \in SUBSET Int, IsFiniteSet(S), NEW p \in 1..Cardinality(S)
  PROVE  \E i \in S : Rank(S, i) = p
  <1> DEFINE n == Cardinality(S)
             f == [i \in S |-> Rank(S, i)]
  <1>1. n \in Nat
    BY FS_CardinalityType
  <1>2. IsFiniteSet(1..n) /\ Cardinality(1..n) = n
    BY <1>1, FS_Interval
  <1>3. f \in [S -> 1..n]
    BY RankType
  <1>4. ASSUME NEW a \in S, NEW b \in S, f[a] = f[b] PROVE a = b
    <2>1. Rank(S, a) = Rank(S, b)
      BY <1>4
    <2>2. /\ Rank(S, a) \in Nat /\ Rank(S, b) \in Nat
          /\ a \in Int /\ b \in Int
      <3>1. Rank(S, a) \in 1..n /\ Rank(S, b) \in 1..n
        BY RankType
      <3> QED BY <1>1, <3>1
    <2>3. ~(a < b)
      BY <2>1, <2>2, RankMonotone
    <2>4. ~(b < a)
      BY <2>1, <2>2, RankMonotone
    <2> QED BY <2>3, <2>4
  <1>5. f \in Injection(S, 1..n)
    BY <1>3, <1>4 DEF Injection, IsInjective
  <1>6. f \in Surjection(S, 1..n)
    BY <1>2, <1>5, FS_Injection, Zenon
  <1>7. \E i \in S : f[i] = p
    BY <1>6 DEF Surjection
  <1> QED BY <1>7

\* InOrder enumerates the set from the smallest member up.
LEMMA InOrderEnumerates ==
  ASSUME NEW S \in SUBSET Int, IsFiniteSet(S)
  PROVE  /\ Cardinality(S) \in Nat
         /\ InOrder(S) \in [1..Cardinality(S) -> S]
         /\ \A p \in 1..Cardinality(S) : Rank(S, InOrder(S)[p]) = p
         /\ \A i \in S : /\ Rank(S, i) \in 1..Cardinality(S)
                         /\ InOrder(S)[Rank(S, i)] = i
         /\ \A p, q \in 1..Cardinality(S) : p < q => InOrder(S)[p] < InOrder(S)[q]
  <1> DEFINE n == Cardinality(S)
  <1>1. n \in Nat
    BY FS_CardinalityType
  <1>2. \A p \in 1..n : InOrder(S)[p] \in S /\ Rank(S, InOrder(S)[p]) = p
    BY RankOnto DEF InOrder
  <1>3. InOrder(S) \in [1..n -> S]
    BY <1>2 DEF InOrder
  <1>4. \A i \in S : Rank(S, i) \in 1..n
    BY RankType
  <1>5. ASSUME NEW i \in S, NEW j \in S, Rank(S, i) = Rank(S, j) PROVE i = j
    <2>1. /\ Rank(S, i) \in Nat /\ Rank(S, j) \in Nat
          /\ i \in Int /\ j \in Int
      BY <1>1, <1>4
    <2>2. ~(i < j)
      BY <1>5, <2>1, RankMonotone
    <2>3. ~(j < i)
      BY <1>5, <2>1, RankMonotone
    <2> QED BY <2>2, <2>3
  <1>6. \A i \in S : InOrder(S)[Rank(S, i)] = i
    BY <1>2, <1>4, <1>5
  <1>7. ASSUME NEW p \in 1..n, NEW q \in 1..n, p < q
        PROVE  InOrder(S)[p] < InOrder(S)[q]
    <2> DEFINE i == InOrder(S)[p]
               j == InOrder(S)[q]
    <2>1. i \in S /\ j \in S /\ Rank(S, i) = p /\ Rank(S, j) = q
      BY <1>2
    <2> HIDE DEF i, j, n
    <2>2. i \in Int /\ j \in Int /\ p \in Int /\ q \in Int
      BY <1>1, <2>1
    <2>3. i # j
      BY <1>7, <2>1, <2>2
    <2>4. ~(j < i)
      <3>1. j < i => Rank(S, j) < Rank(S, i)
        BY <2>1, <2>2, RankMonotone
      <3> QED BY <1>7, <2>1, <2>2, <3>1
    <2>5. i < j
      BY <2>2, <2>3, <2>4
    <2> QED BY <2>5 DEF i, j
  <1> QED BY <1>1, <1>2, <1>3, <1>4, <1>6, <1>7

\* f gives the n members of S from the smallest up.
Enumerates(f, n, S) ==
  /\ f \in [1..n -> S]
  /\ \A i \in S : \E p \in 1..n : f[p] = i
  /\ \A p, q \in 1..n : p < q => f[p] < f[q]

\* There is only one such enumeration.
LEMMA InOrderUnique ==
  ASSUME NEW S \in SUBSET Int, NEW n \in Nat, NEW f, Enumerates(f, n, S)
  PROVE  IsFiniteSet(S) /\ Cardinality(S) = n /\ InOrder(S) = f
  <1> USE DEF Enumerates
  <1>1. ASSUME NEW p \in 1..n, NEW q \in 1..n, f[p] <= f[q] PROVE p <= q
    <2>1. q < p => f[q] < f[p]
      OBVIOUS
    <2>2. f[p] \in Int /\ f[q] \in Int
      OBVIOUS
    <2> QED BY <1>1, <2>1, <2>2
  <1>2. ASSUME NEW p \in 1..n, NEW q \in 1..n, f[p] = f[q] PROVE p = q
    <2>1. f[p] \in Int /\ f[q] \in Int
      OBVIOUS
    <2>2. f[p] <= f[q] /\ f[q] <= f[p]
      BY <1>2, <2>1
    <2> QED BY <1>1, <2>2
  <1>3. \A m \in 0..n : IsFiniteSet(1..m) /\ Cardinality(1..m) = m
    BY FS_Interval
  <1>4. IsFiniteSet(S) /\ Cardinality(S) = n
    <2>1. f \in Bijection(1..n, S)
      BY <1>2 DEF Bijection, Injection, Surjection, IsInjective
    <2>2. ExistsBijection(1..n, S)
      BY <2>1 DEF ExistsBijection
    <2>3. IsFiniteSet(1..n) /\ Cardinality(1..n) = n
      BY <1>3
    <2> QED BY <2>2, <2>3, FS_Bijection, Zenon
  <1>5. ASSUME NEW p \in 1..n PROVE Rank(S, f[p]) = p
    <2> DEFINE T == {j \in S : j <= f[p]}
               g == [q \in 1..p |-> f[q]]
    <2>1. \A q \in 1..p : f[q] \in T
      <3>1. \A q \in 1..p : q \in 1..n /\ (q < p \/ q = p)
        OBVIOUS
      <3>2. \A q \in 1..n : f[q] \in S /\ f[q] \in Int
        OBVIOUS
      <3>3. ASSUME NEW q \in 1..p PROVE f[q] <= f[p]
        <4>1. q = p \/ f[q] < f[p]
          BY <3>1
        <4>2. f[q] \in Int /\ f[p] \in Int
          BY <3>1, <3>2
        <4> QED BY <4>1, <4>2
      <3> QED BY <3>1, <3>2, <3>3
    <2>2. g \in [1..p -> T]
      BY <2>1
    <2>3. \A j \in T : \E q \in 1..p : g[q] = j
      BY <1>1
    <2>4. \A q, r \in 1..p : g[q] = g[r] => q = r
      BY <1>2
    <2>5. g \in Bijection(1..p, T)
      BY <2>2, <2>3, <2>4 DEF Bijection, Injection, Surjection, IsInjective
    <2>6. ExistsBijection(1..p, T)
      BY <2>5 DEF ExistsBijection
    <2>7. IsFiniteSet(1..p) /\ Cardinality(1..p) = p
      BY <1>3
    <2>8. Cardinality(T) = p
      BY <2>6, <2>7, FS_Bijection, Zenon
    <2> QED BY <2>8 DEF Rank
  <1>6. \A p \in 1..n : InOrder(S)[p] = f[p]
    BY <1>4, <1>5, InOrderEnumerates
  <1>7. InOrder(S) \in [1..n -> S]
    BY <1>4, InOrderEnumerates
  <1> QED BY <1>4, <1>6, <1>7

-----------------------------------------------------------------------------
\* A set of places of a sequence.
LEMMA PlacesFinite ==
  ASSUME NEW n \in Nat, NEW S \in SUBSET (1..n)
  PROVE  IsFiniteSet(S) /\ S \in SUBSET Int /\ Cardinality(S) \in 0..n
  <1>1. IsFiniteSet(1..n) /\ Cardinality(1..n) = n
    BY FS_Interval
  <1>2. IsFiniteSet(S) /\ Cardinality(S) <= n
    BY <1>1, FS_Subset, Zenon
  <1>3. Cardinality(S) \in Nat
    BY <1>2, FS_CardinalityType
  <1> QED BY <1>2, <1>3

\* Picking elements of a sequence gives a sequence.
LEMMA PickedType ==
  ASSUME NEW X, NEW seq \in Seq(X), NEW S \in SUBSET (1..Len(seq))
  PROVE  /\ Picked(seq, S) \in Seq(X)
         /\ Len(Picked(seq, S)) = Cardinality(S)
         /\ Cardinality(S) \in 0..Len(seq)
         /\ InOrder(S) \in [1..Cardinality(S) -> S]
         /\ \A p \in 1..Cardinality(S) : Picked(seq, S)[p] = seq[InOrder(S)[p]]
  <1> DEFINE n == Cardinality(S)
             e(p) == seq[InOrder(S)[p]]
  <1>1. Len(seq) \in Nat
    OBVIOUS
  <1>2. IsFiniteSet(S) /\ S \in SUBSET Int /\ n \in 0..Len(seq)
    BY <1>1, PlacesFinite
  <1>3. InOrder(S) \in [1..n -> S]
    BY <1>2, InOrderEnumerates
  <1>4. ASSUME NEW p \in 1..n PROVE e(p) \in X
    <2>1. InOrder(S)[p] \in 1..Len(seq)
      BY <1>3
    <2> QED BY <2>1, ElementOfSeq
  <1>5. n \in Nat
    BY <1>2
  <1>6. Picked(seq, S) = [p \in 1..n |-> e(p)]
    BY DEF Picked
  <1> HIDE DEF e, n
  <1>7. [p \in 1..n |-> e(p)] \in Seq(X) /\ Len([p \in 1..n |-> e(p)]) = n
    BY <1>4, <1>5
  <1> QED BY <1>2, <1>3, <1>6, <1>7 DEF e, n

\* The picked sequence is known from any enumeration of the places.
LEMMA PickedUnique ==
  ASSUME NEW X, NEW seq \in Seq(X), NEW S \in SUBSET (1..Len(seq)),
         NEW t \in Seq(X), NEW f, Enumerates(f, Len(t), S),
         \A p \in 1..Len(t) : t[p] = seq[f[p]]
  PROVE  InOrder(S) = f /\ Cardinality(S) = Len(t) /\ Picked(seq, S) = t
  <1>1. Len(t) \in Nat /\ Len(seq) \in Nat
    OBVIOUS
  <1>2. S \in SUBSET Int
    BY <1>1, PlacesFinite
  <1>3. Cardinality(S) = Len(t) /\ InOrder(S) = f
    BY <1>1, <1>2, InOrderUnique
  <1>4. Picked(seq, S) \in Seq(X) /\ Len(Picked(seq, S)) = Len(t)
    BY <1>3, PickedType
  <1>5. \A p \in 1..Len(t) : Picked(seq, S)[p] = t[p]
    BY <1>3 DEF Picked
  <1> QED BY <1>3, <1>4, <1>5, SeqEqual

\* Picking looks at the picked places only.
LEMMA PickedAgree ==
  ASSUME NEW X, NEW seq \in Seq(X), NEW t \in Seq(X), NEW S,
         S \subseteq 1..Len(seq), S \subseteq 1..Len(t), \A i \in S : seq[i] = t[i]
  PROVE  Picked(seq, S) = Picked(t, S)
  <1>1. InOrder(S) \in [1..Cardinality(S) -> S]
    BY PickedType
  <1>2. \A p \in 1..Cardinality(S) : seq[InOrder(S)[p]] = t[InOrder(S)[p]]
    BY <1>1
  <1> QED BY <1>2 DEF Picked

\* All places.
LEMMA PickedAll ==
  ASSUME NEW X, NEW seq \in Seq(X)
  PROVE  Picked(seq, 1..Len(seq)) = seq
  <1> DEFINE f == [p \in 1..Len(seq) |-> p]
  <1>1. f \in [1..Len(seq) -> 1..Len(seq)]
    OBVIOUS
  <1>2. \A i \in 1..Len(seq) : f[i] = i
    OBVIOUS
  <1> HIDE DEF f
  <1>3. Len(seq) \in Nat
    OBVIOUS
  <1>4. \A i \in 1..Len(seq) : \E p \in 1..Len(seq) : f[p] = i
    BY <1>2
  <1>5. \A p, q \in 1..Len(seq) : p < q => f[p] < f[q]
    BY <1>2, <1>3
  <1>6. \A p \in 1..Len(seq) : seq[p] = seq[f[p]]
    BY <1>2
  <1> DEFINE S == 1..Len(seq)
  <1>7. S \in SUBSET (1..Len(seq))
    OBVIOUS
  <1> HIDE DEF S
  <1>8. Enumerates(f, Len(seq), S)
    BY <1>1, <1>4, <1>5 DEF S, Enumerates
  <1>9. Picked(seq, S) = seq
    BY <1>6, <1>7, <1>8, PickedUnique
  <1> QED BY <1>9 DEF S

\* Places in two pieces of a sequence.
Joined(n, S, T) == S \cup {n + i : i \in T}

\* Places in a sequence of length n.
PlacesIn(S, n) == S \in SUBSET (1..n)

\* How many places two joined sets have.
LEMMA JoinedCardinality ==
  ASSUME NEW n \in Nat, NEW m \in Nat, NEW S, PlacesIn(S, n), NEW T, PlacesIn(T, m)
  PROVE  Cardinality(Joined(n, S, T)) = Cardinality(S) + Cardinality(T)
  <1> DEFINE U == {n + i : i \in T}
             f == [i \in T |-> n + i]
  <1>0. S \in SUBSET (1..n) /\ T \in SUBSET (1..m)
    BY DEF PlacesIn
  <1>1. IsFiniteSet(S) /\ IsFiniteSet(T)
    BY <1>0, PlacesFinite
  <1>2. /\ f \in [T -> U]
        /\ \A i, j \in T : f[i] = f[j] => i = j
        /\ \A u \in U : \E i \in T : f[i] = u
    <2>1. \A i \in T : i \in Nat
      BY <1>0
    <2> QED BY <2>1
  <1>3. f \in Bijection(T, U)
    BY <1>2 DEF Bijection, Injection, Surjection, IsInjective
  <1>4. IsFiniteSet(U) /\ Cardinality(U) = Cardinality(T)
    BY <1>1, <1>3, FS_Bijection, Zenon DEF ExistsBijection
  <1>5. S \cap U = {}
    BY <1>0
  <1> HIDE DEF U
  <1>6. Cardinality(S \cup U) = Cardinality(S) + Cardinality(U)
    <2>1. Cardinality(S \cup U) = Cardinality(S) + Cardinality(U) - Cardinality(S \cap U)
      BY <1>1, <1>4, FS_Union
    <2>2. Cardinality(S \cap U) = 0
      BY <1>5, FS_EmptySet
    <2>3. Cardinality(S) \in Nat /\ Cardinality(U) \in Nat
      BY <1>1, <1>4, FS_CardinalityType
    <2> QED BY <2>1, <2>2, <2>3
  <1> QED BY <1>4, <1>6 DEF U, Joined

\* Picking from two sequences laid end to end.
LEMMA PickedConcat ==
  ASSUME NEW X, NEW a \in Seq(X), NEW b \in Seq(X),
         NEW S \in SUBSET (1..Len(a)), NEW T \in SUBSET (1..Len(b))
  PROVE  /\ Joined(Len(a), S, T) \in SUBSET (1..Len(a \o b))
         /\ Picked(a \o b, Joined(Len(a), S, T)) = Picked(a, S) \o Picked(b, T)
  <1> DEFINE U == Joined(Len(a), S, T)
             n == Cardinality(S)
             m == Cardinality(T)
             f == [p \in 1..(n + m) |-> IF p <= n THEN InOrder(S)[p]
                                        ELSE Len(a) + InOrder(T)[p - n]]
             t == Picked(a, S) \o Picked(b, T)
             k == Len(a)
  <1>1. /\ k \in Nat /\ Len(b) \in Nat
        /\ a \o b \in Seq(X) /\ Len(a \o b) = k + Len(b)
        /\ \A i \in 1..(k + Len(b)) : (a \o b)[i] = IF i <= k THEN a[i] ELSE b[i - k]
    BY ConcatProperties
  <1>2. U \in SUBSET (1..Len(a \o b))
    <2>1. \A i \in 1..Len(b) : k + i \in 1..(k + Len(b))
      BY <1>1
    <2>2. \A i \in 1..k : i \in 1..(k + Len(b))
      BY <1>1
    <2> QED BY <1>1, <2>1, <2>2 DEF Joined
  <1>3. /\ Picked(a, S) \in Seq(X) /\ Len(Picked(a, S)) = n /\ n \in Nat
        /\ Picked(b, T) \in Seq(X) /\ Len(Picked(b, T)) = m /\ m \in Nat
        /\ \A p \in 1..n : Picked(a, S)[p] = a[InOrder(S)[p]]
        /\ \A p \in 1..m : Picked(b, T)[p] = b[InOrder(T)[p]]
    BY <1>1, PickedType
  <1>4. /\ InOrder(S) \in [1..n -> S] /\ InOrder(T) \in [1..m -> T]
        /\ \A i \in S : \E p \in 1..n : InOrder(S)[p] = i
        /\ \A i \in T : \E p \in 1..m : InOrder(T)[p] = i
        /\ \A p, q \in 1..n : p < q => InOrder(S)[p] < InOrder(S)[q]
        /\ \A p, q \in 1..m : p < q => InOrder(T)[p] < InOrder(T)[q]
    <2>1. IsFiniteSet(S) /\ S \in SUBSET Int /\ IsFiniteSet(T) /\ T \in SUBSET Int
      BY <1>1, PlacesFinite
    <2>2. /\ InOrder(S) \in [1..n -> S]
          /\ \A i \in S : \E p \in 1..n : InOrder(S)[p] = i
          /\ \A p, q \in 1..n : p < q => InOrder(S)[p] < InOrder(S)[q]
      BY <2>1, InOrderEnumerates
    <2>3. /\ InOrder(T) \in [1..m -> T]
          /\ \A i \in T : \E p \in 1..m : InOrder(T)[p] = i
          /\ \A p, q \in 1..m : p < q => InOrder(T)[p] < InOrder(T)[q]
      BY <2>1, InOrderEnumerates
    <2> QED BY <2>2, <2>3
  <1>5. /\ t \in Seq(X) /\ Len(t) = n + m
        /\ \A p \in 1..(n + m) : t[p] = IF p <= n THEN Picked(a, S)[p]
                                        ELSE Picked(b, T)[p - n]
    <2> DEFINE u == Picked(a, S)
               v == Picked(b, T)
    <2>1. u \in Seq(X) /\ v \in Seq(X) /\ Len(u) = n /\ Len(v) = m /\ t = u \o v
      BY <1>3
    <2> HIDE DEF u, v, t, n, m
    <2>2. /\ t \in Seq(X) /\ Len(t) = n + m
          /\ \A p \in 1..(n + m) : t[p] = IF p <= n THEN u[p] ELSE v[p - n]
      BY <2>1, ConcatProperties
    <2> QED BY <2>2 DEF u, v
  <1> HIDE DEF n, m, t, k
  <1>6. \A p \in 1..n : /\ p \in 1..(n + m) /\ f[p] = InOrder(S)[p]
                        /\ f[p] \in 1..k /\ f[p] \in U
    <2>1. \A p \in 1..n : p \in 1..(n + m) /\ p <= n
      BY <1>3
    <2>2. \A p \in 1..n : InOrder(S)[p] \in S /\ InOrder(S)[p] \in 1..k
      BY <1>4 DEF k
    <2> QED BY <2>1, <2>2 DEF Joined
  <1>7. \A p \in 1..(n + m) : ~(p <= n) =>
          /\ p - n \in 1..m /\ f[p] = k + InOrder(T)[p - n]
          /\ InOrder(T)[p - n] \in 1..Len(b) /\ f[p] \in U
    <2>1. \A p \in 1..(n + m) : ~(p <= n) => p - n \in 1..m
      BY <1>3
    <2>2. \A p \in 1..m : InOrder(T)[p] \in T /\ InOrder(T)[p] \in 1..Len(b)
      BY <1>4
    <2> QED BY <2>1, <2>2 DEF Joined, k
  <1>8. \A p \in 1..(n + m) : (p <= n => p \in 1..n)
    BY <1>3
  <1>9. f \in [1..(n + m) -> U]
    BY <1>6, <1>7, <1>8
  <1>10. ASSUME NEW i \in U PROVE \E p \in 1..(n + m) : f[p] = i
    <2>1. CASE i \in S
      BY <2>1, <1>4, <1>6
    <2>2. CASE i \notin S
      <3>1. PICK j \in T : i = k + j
        BY <2>2 DEF Joined, k
      <3>2. PICK q \in 1..m : InOrder(T)[q] = j
        BY <1>4
      <3>3. n + q \in 1..(n + m) /\ ~(n + q <= n) /\ (n + q) - n = q
        BY <1>3
      <3>4. f[n + q] = k + InOrder(T)[q]
        BY <1>7, <3>3
      <3> QED BY <3>1, <3>2, <3>3, <3>4
    <2> QED BY <2>1, <2>2
  <1>11. ASSUME NEW p \in 1..(n + m), NEW q \in 1..(n + m), p < q PROVE f[p] < f[q]
    <2>1. CASE q <= n
      <3>1. p \in 1..n /\ q \in 1..n
        BY <2>1, <1>3, <1>11
      <3> QED BY <3>1, <1>4, <1>6, <1>11
    <2>2. CASE ~(q <= n) /\ p <= n
      <3>1. f[p] \in 1..k
        BY <2>2, <1>6, <1>8
      <3>2. f[q] = k + InOrder(T)[q - n] /\ InOrder(T)[q - n] \in 1..Len(b)
        BY <2>2, <1>7
      <3> QED BY <1>1, <3>1, <3>2
    <2>3. CASE ~(q <= n) /\ ~(p <= n)
      <3>1. /\ f[q] = k + InOrder(T)[q - n] /\ InOrder(T)[q - n] \in 1..Len(b)
            /\ f[p] = k + InOrder(T)[p - n] /\ InOrder(T)[p - n] \in 1..Len(b)
            /\ q - n \in 1..m /\ p - n \in 1..m
        BY <2>3, <1>7
      <3>2. p - n < q - n
        BY <1>3, <1>11
      <3>3. InOrder(T)[p - n] < InOrder(T)[q - n]
        BY <1>4, <3>1, <3>2
      <3> QED BY <1>1, <3>1, <3>3
    <2> QED BY <2>1, <2>2, <2>3
  <1>12. ASSUME NEW p \in 1..(n + m) PROVE t[p] = (a \o b)[f[p]]
    <2>1. CASE p <= n
      <3>1. p \in 1..n /\ f[p] = InOrder(S)[p] /\ f[p] \in 1..k
        BY <2>1, <1>6, <1>8
      <3>2. f[p] \in 1..(k + Len(b)) /\ f[p] <= k
        BY <1>1, <3>1
      <3> QED BY <2>1, <1>1, <1>3, <1>5, <3>1, <3>2
    <2>2. CASE ~(p <= n)
      <3>1. /\ p - n \in 1..m /\ f[p] = k + InOrder(T)[p - n]
            /\ InOrder(T)[p - n] \in 1..Len(b)
        BY <2>2, <1>7
      <3>2. f[p] \in 1..(k + Len(b)) /\ ~(f[p] <= k) /\ f[p] - k = InOrder(T)[p - n]
        BY <1>1, <3>1
      <3> DEFINE x == f[p]
      <3>3. x \in 1..(k + Len(b)) /\ ~(x <= k)
        BY <3>2
      <3> HIDE DEF x
      <3>4. (a \o b)[x] = b[x - k]
        BY <1>1, <3>3
      <3>5. (a \o b)[f[p]] = b[InOrder(T)[p - n]]
        BY <3>2, <3>4 DEF x
      <3> QED BY <2>2, <1>3, <1>5, <3>1, <3>5
    <2> QED BY <2>1, <2>2
  <1> HIDE DEF f, U
  <1>13. /\ Enumerates(f, Len(t), U)
         /\ \A p \in 1..Len(t) : t[p] = (a \o b)[f[p]]
    BY <1>5, <1>9, <1>10, <1>11, <1>12 DEF Enumerates
  <1>14. a \o b \in Seq(X) /\ t \in Seq(X)
    BY <1>1, <1>5
  <1>15. Picked(a \o b, U) = t
    BY <1>2, <1>13, <1>14, PickedUnique
  <1> QED BY <1>2, <1>15 DEF U, t

\* Picking twice is picking once.
LEMMA PickedPicked ==
  ASSUME NEW X, NEW seq \in Seq(X), NEW S \in SUBSET (1..Len(seq)),
         NEW T \in SUBSET (1..Cardinality(S))
  PROVE  Picked(Picked(seq, S), T) = Picked(seq, {InOrder(S)[i] : i \in T})
  <1> DEFINE s == Picked(seq, S)
             n == Cardinality(S)
             m == Cardinality(T)
             U == {InOrder(S)[i] : i \in T}
             f == [p \in 1..m |-> InOrder(S)[InOrder(T)[p]]]
             t == Picked(s, T)
  <1>1. /\ s \in Seq(X) /\ Len(s) = n /\ n \in Nat /\ Len(seq) \in Nat
        /\ \A p \in 1..n : s[p] = seq[InOrder(S)[p]]
    BY PickedType
  <1>2. /\ t \in Seq(X) /\ Len(t) = m /\ m \in Nat
        /\ \A p \in 1..m : t[p] = s[InOrder(T)[p]]
    BY <1>1, PickedType
  <1>3. /\ InOrder(S) \in [1..n -> S]
        /\ \A p, q \in 1..n : p < q => InOrder(S)[p] < InOrder(S)[q]
    BY <1>1, PlacesFinite, InOrderEnumerates
  <1>4. /\ InOrder(T) \in [1..m -> T]
        /\ \A i \in T : \E p \in 1..m : InOrder(T)[p] = i
        /\ \A p, q \in 1..m : p < q => InOrder(T)[p] < InOrder(T)[q]
    BY <1>1, PlacesFinite, InOrderEnumerates
  <1>5. U \in SUBSET (1..Len(seq)) /\ f \in [1..m -> U]
    <2>1. \A i \in T : InOrder(S)[i] \in S
      BY <1>3
    <2>2. \A p \in 1..m : InOrder(T)[p] \in T
      BY <1>4
    <2> QED BY <2>1, <2>2
  <1>6. \A i \in U : \E p \in 1..m : f[p] = i
    BY <1>4
  <1>7. \A p, q \in 1..m : p < q => f[p] < f[q]
    <2>1. \A p \in 1..m : InOrder(T)[p] \in 1..n
      BY <1>4
    <2> QED BY <1>3, <1>4, <2>1
  <1>8. \A p \in 1..m : t[p] = seq[f[p]]
    <2>1. \A p \in 1..m : InOrder(T)[p] \in 1..n
      BY <1>4
    <2> QED BY <1>1, <1>2, <2>1
  <1> HIDE DEF f, U, t, m
  <1>9. /\ Enumerates(f, Len(t), U)
        /\ \A p \in 1..Len(t) : t[p] = seq[f[p]]
    BY <1>2, <1>5, <1>6, <1>7, <1>8 DEF Enumerates
  <1>10. U \in SUBSET (1..Len(seq)) /\ t \in Seq(X)
    BY <1>2, <1>5
  <1>11. Picked(seq, U) = t
    BY <1>9, <1>10, PickedUnique
  <1> QED BY <1>11 DEF t, U
=============================================================================
