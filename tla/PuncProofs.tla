----------------------------- MODULE PuncProofs -----------------------------
(***************************************************************************)
(* Proofs about PuncClient, for every number of rows, of sets, of their    *)
(* elements and of readers: pointers lead to sets with the element; hints  *)
(* follow the sets, through queries in flight that replace one set several *)
(* times; a read is wrong only where it used a hint that was lost; and a   *)
(* draw ends unless a set has one element.                                 *)
(***************************************************************************)
EXTENDS PuncClient, CommonLemmas

\* What a set may be.
Elems == [1..SetSize -> Rows]

-----------------------------------------------------------------------------
\* The facts about sets of numbers that the operators of the model choose by.
LEMMA MaxFrom ==
  ASSUME NEW n \in Nat, NEW S \in SUBSET (0..n)
  PROVE  Max({-1} \cup S) \in {-1} \cup S
  <1> DEFINE T == {-1} \cup S
  <1>1. \E x \in T : \A y \in T : x >= y
    <2>1. CASE S = {}
      BY <2>1
    <2>2. CASE S # {}
      <3>1. Max(S) \in S /\ \A y \in S : y <= Max(S)
        BY <2>2, MaxType
      <3> DEFINE x == Max(S)
      <3>4. x \in S /\ \A y \in S : y <= x
        BY <3>1
      <3> HIDE DEF x
      <3>5. \A y \in S : y \in Nat
        OBVIOUS
      <3>6. x \in Nat
        BY <3>4, <3>5
      <3>3. \A y \in T : x >= y
        BY <3>4, <3>5, <3>6
      <3> QED BY <3>1, <3>3 DEF x
    <2> QED BY <2>1, <2>2
  <1> HIDE DEF T
  <1>2. Max(T) \in T
    BY <1>1 DEF Max
  <1> QED BY <1>2 DEF T

\* Where an element first is in a set.
LEMMA FirstAtType ==
  ASSUME NEW elems \in Elems, NEW i \in Range(elems)
  PROVE  /\ FirstAt(elems, i) \in 1..SetSize
         /\ elems[FirstAt(elems, i)] = i
  <1> DEFINE S == {p \in 1..SetSize : elems[p] = i}
  <1>1. S \in SUBSET Nat /\ S # {}
    BY DEF Elems, Range
  <1>2. FirstAt(elems, i) = Min(S)
    BY DEF FirstAt
  <1>3. Min(S) \in S
    <2> HIDE DEF S
    <2> QED BY <1>1, MinType
  <1> QED BY <1>2, <1>3

-----------------------------------------------------------------------------
(***************************************************************************)
(* Parities.                                                               *)
(***************************************************************************)

\* Places of x.
At(elems, x) == {p \in DOMAIN elems : elems[p] = x}

\* An element not in a sequence is in it an even number of times.
LEMMA ParityIs ==
  ASSUME NEW elems, NEW x
  PROVE  x \in Parity(elems) <=> Cardinality(At(elems, x)) % 2 = 1
  <1>1. x \in Parity(elems) <=> x \in Range(elems) /\ Cardinality(At(elems, x)) % 2 = 1
    BY DEF Parity, At
  <1>2. ASSUME x \notin Range(elems) PROVE Cardinality(At(elems, x)) = 0
    <2>1. At(elems, x) = {}
      BY <1>2 DEF At, Range
    <2> QED BY <2>1, FS_EmptySet
  <1>3. 0 % 2 # 1
    OBVIOUS
  <1> QED BY <1>1, <1>2, <1>3

\* Punctured at i, a set has i once less and all others as often as before.
LEMMA PuncturedAt ==
  ASSUME PuncAssumption, NEW elems \in Elems, NEW i \in Range(elems), NEW x
  PROVE  /\ IsFiniteSet(At(elems, x))
         /\ Cardinality(At(Punc(elems, i), x)) = Cardinality(At(elems, x) \ {FirstAt(elems, i)})
  <1> DEFINE n == SetSize
             f == FirstAt(elems, i)
             g == [p \in 1..n - 1 |-> IF p < f THEN p ELSE p + 1]
             S == At(elems, x) \ {f}
             T == At(Punc(elems, i), x)
             h == [p \in T |-> g[p]]
  <1>1. n \in Nat /\ f \in 1..n /\ DOMAIN elems = 1..n
    BY FirstAtType DEF PuncAssumption, Elems
  <1>2. /\ Punc(elems, i) = [p \in 1..n - 1 |-> elems[g[p]]]
        /\ T = {p \in 1..n - 1 : elems[g[p]] = x}
    BY DEF Punc, At
  <1>12. \A p \in 1..n - 1 : g[p] = IF p < f THEN p ELSE p + 1
    OBVIOUS
  <1> HIDE DEF f, n, g, T
  <1>3. IsFiniteSet(At(elems, x)) /\ IsFiniteSet(T)
    <2>1. At(elems, x) \in SUBSET (1..n)
      BY <1>1 DEF At
    <2>2. T \in SUBSET (1..n)
      BY <1>1, <1>2
    <2> QED BY <1>1, <2>1, <2>2, PlacesFinite
  <1>4. \A p \in 1..n - 1 : g[p] \in (1..n) \ {f}
    BY <1>1, <1>12
  <1>5. \A p, q \in 1..n - 1 : g[p] = g[q] => p = q
    BY <1>1, <1>12
  <1>6. ASSUME NEW q \in (1..n) \ {f} PROVE \E p \in 1..n - 1 : g[p] = q
    <2>1. CASE q < f
      <3>1. q \in 1..n - 1
        BY <1>1, <2>1
      <3>2. g[q] = q
        BY <1>12, <2>1, <3>1
      <3> QED BY <3>1, <3>2
    <2>2. CASE ~(q < f)
      <3>1. q - 1 \in 1..n - 1 /\ ~(q - 1 < f) /\ (q - 1) + 1 = q
        BY <1>1, <2>2
      <3>2. g[q - 1] = q
        BY <1>12, <3>1
      <3> QED BY <3>1, <3>2
    <2> QED BY <2>1, <2>2
  <1>7. h \in [T -> S]
    BY <1>1, <1>2, <1>4 DEF At
  <1>8. \A p, q \in T : h[p] = h[q] => p = q
    BY <1>2, <1>5
  <1>9. \A q \in S : \E p \in T : h[p] = q
    BY <1>1, <1>2, <1>6 DEF At
  <1> HIDE DEF h, S, T
  <1>10. h \in Bijection(T, S)
    BY <1>7, <1>8, <1>9 DEF Bijection, Injection, Surjection, IsInjective
  <1>11. Cardinality(S) = Cardinality(T)
    BY <1>3, <1>10, FS_Bijection, Zenon DEF ExistsBijection
  <1> QED BY <1>3, <1>11 DEF S, T, f

\* What is missing from a punctured set is what it was punctured at.
LEMMA PuncturedParity ==
  ASSUME PuncAssumption, NEW elems \in Elems, NEW i \in Range(elems)
  PROVE  Parity(elems) = Xor(Parity(Punc(elems, i)), {i})
  <1> DEFINE f == FirstAt(elems, i)
             P == Parity(Punc(elems, i))
  <1>1. f \in DOMAIN elems /\ elems[f] = i
    BY FirstAtType DEF Elems
  <1>2. ASSUME NEW x, x # i PROVE x \in Parity(elems) <=> x \in P
    <2>1. At(elems, x) \ {f} = At(elems, x)
      BY <1>1, <1>2 DEF At
    <2> QED BY <2>1, PuncturedAt, ParityIs
  <1>3. i \in Parity(elems) <=> i \notin P
    <2> DEFINE A == At(elems, i)
               k == Cardinality(A)
    <2>1. f \in A
      BY <1>1 DEF At
    <2>2. IsFiniteSet(A) /\ Cardinality(At(Punc(elems, i), i)) = Cardinality(A \ {f})
      BY PuncturedAt
    <2> HIDE DEF A, f
    <2>3. Cardinality(A \ {f}) = k - 1 /\ k \in Nat
      BY <2>1, <2>2, FS_RemoveElement, FS_CardinalityType
    <2>4. (i \in Parity(elems) <=> k % 2 = 1) /\ (i \in P <=> (k - 1) % 2 = 1)
      BY <2>2, <2>3, ParityIs DEF A
    <2> HIDE DEF k
    <2>5. k % 2 = 1 <=> ~((k - 1) % 2 = 1)
      BY <2>3
    <2> QED BY <2>4, <2>5
  <1> HIDE DEF P
  <1> QED BY <1>2, <1>3 DEF Xor, P

-----------------------------------------------------------------------------
(***************************************************************************)
(* The sets a generator may give.                                          *)
(***************************************************************************)

\* There are rows.
LEMMA NRowsType ==
  ASSUME PuncAssumption
  PROVE  NRows \in Nat /\ NRows > 0 /\ SetSize \in Nat /\ NumHints \in Nat /\ NumHints > 0
  BY DEF PuncAssumption

\* A shifted set is a set.
LEMMA ShiftedType ==
  ASSUME PuncAssumption, NEW b \in BaseSets, NEW shift \in Int
  PROVE  Shifted(b, shift) \in Elems
  <1>1. b \in [1..SetSize -> 0..NRows - 1] /\ NRows \in Nat /\ NRows > 0
    BY NRowsType DEF PuncAssumption
  <1>2. ASSUME NEW p \in 1..SetSize PROVE (b[p] + shift) % NRows \in Rows
    <2> DEFINE x == b[p] + shift
    <2>1. b[p] \in 0..NRows - 1
      BY <1>1
    <2>2. x \in Int
      BY <2>1
    <2> HIDE DEF x
    <2>3. x % NRows \in 0..NRows - 1
      BY <1>1, <2>2, DivMod
    <2> QED BY <2>3 DEF x, Rows
  <1> QED BY <1>2 DEF Shifted, Elems

\* Gen gives sets.
LEMMA GenType ==
  ASSUME PuncAssumption, NEW elems \in Gen
  PROVE  elems \in Elems
  <1>1. PICK b \in BaseSets, shift \in 0..SetSize - 1 : elems = Shifted(b, shift)
    BY DEF Gen
  <1> QED BY <1>1, ShiftedType

\* GenWith gives sets with the element.
LEMMA GenWithType ==
  ASSUME PuncAssumption, NEW i \in Rows, NEW elems \in GenWith(i)
  PROVE  elems \in Elems /\ i \in Range(elems)
  <1>1. PICK b \in BaseSets, pos \in 1..SetSize : elems = Shifted(b, (i - b[pos]) % NRows)
    BY DEF GenWith
  <1> DEFINE n == NRows
             v == b[pos]
             w == (i - v) % n
             x == v + w
  <1>2. n \in Nat /\ n > 0 /\ v \in 0..n - 1 /\ i \in 0..n - 1
    BY NRowsType DEF PuncAssumption, Rows
  <1>9. elems = Shifted(b, w) /\ elems[pos] = x % n
    BY <1>1 DEF Shifted
  <1> HIDE DEF v, n
  <1>3. /\ (i - v) \div n \in Int /\ w \in 0..n - 1
        /\ i - v = n * ((i - v) \div n) + w
    BY <1>2, DivMod
  <1>4. x \in Int
    <2>1. w \in Int
      BY <1>2, <1>3
    <2> HIDE DEF w
    <2> QED BY <1>2, <2>1
  <1>5. x % n = i
    <2> DEFINE q == (i - v) \div n
               m == x \div n
    <2>1. m \in Int /\ x % n \in 0..n - 1 /\ x = n * m + (x % n)
      BY <1>2, <1>4, DivMod
    <2>2. q \in Int /\ x = i - n * q
      BY <1>2, <1>3
    <2> DEFINE r == x % n
    <2> HIDE DEF x, w, q, m, r
    <2>3. r \in 0..n - 1 /\ i - n * q = n * m + r
      BY <2>1, <2>2 DEF r
    <2>4. i - r = n * (m + q)
      BY <1>2, <2>1, <2>2, <2>3
    <2> DEFINE k == m + q
    <2>5. k \in Int
      BY <2>1, <2>2
    <2> HIDE DEF k
    <2>6. i - r = n * k /\ i - r < n /\ i - r > -n
      BY <1>2, <2>3, <2>4 DEF k
    <2>7. k >= 1 => n * k >= n
      BY <1>2, <2>5
    <2>8. k <= -1 => n * k <= -n
      BY <1>2, <2>5
    <2>9. k = 0
      BY <1>2, <2>3, <2>5, <2>6, <2>7, <2>8
    <2>10. i = r
      BY <1>2, <2>3, <2>6, <2>9
    <2> QED BY <2>10 DEF r
  <1>6. w \in Int
    BY <1>2, <1>3
  <1>7. elems[pos] = i
    BY <1>5, <1>9
  <1>8. elems \in Elems
    <2> HIDE DEF w
    <2> QED BY <1>6, <1>9, ShiftedType
  <1> QED BY <1>7, <1>8 DEF Elems, Range

-----------------------------------------------------------------------------
(***************************************************************************)
(* Pointers.                                                               *)
(***************************************************************************)

\* Pointers that lead to sets of s with the element.
Points(pointers, s) ==
  /\ pointers \in [Rows -> Index \cup {-1}]
  /\ \A v \in Rows : pointers[v] # -1 => v \in Range(s[pointers[v]])

\* Sets have the elements that pointers to them promise.
PointerInv == sets \in [Index -> Elems] /\ Points(idxToSetIdx, sets)

\* A scan leads to sets it has passed.
LEMMA findIndexRight ==
  ASSUME PuncAssumption, PointerInv, NEW i \in 0..NRows
  PROVE  LET f == findIndex(i)
         IN  /\ Points(f.pointers, sets)
             /\ f.setIdx \in Index \cup {-1}
             /\ f.setIdx # -1 => i \in Rows /\ i \in Range(sets[f.setIdx])
  <1> DEFINE P == idxToSetIdx
             J == {j \in Index : i \in Range(sets[j])}
             found == scannedIndex(i)
             Passed(v, j) == \E p \in 1..SetSize :
                               sets[j][p] = v /\ (j = found => p < FirstAt(sets[j], i))
             js(v) == {j \in Index : j <= found /\ Passed(v, j)}
             Q == [v \in Rows |-> IF js(v) = {} THEN P[v] ELSE Max(js(v))]
  <1>1. /\ sets \in [Index -> Elems] /\ P \in [Rows -> Index \cup {-1}]
        /\ \A v \in Rows : P[v] # -1 => v \in Range(sets[P[v]])
    BY DEF PointerInv, Points
  <1>2. NRows \in Nat /\ NumHints \in Nat /\ NumHints > 0
    BY NRowsType
  <1>3. CASE i >= NRows
    <2>1. findIndex(i) = [setIdx |-> -1, pointers |-> P]
      BY <1>3 DEF findIndex
    <2> QED BY <1>1, <2>1 DEF Points
  <1>4. CASE i < NRows /\ P[i] >= 0
    <2>1. findIndex(i) = [setIdx |-> P[i], pointers |-> P]
      BY <1>2, <1>4 DEF findIndex
    <2>2. i \in Rows
      BY <1>2, <1>4 DEF Rows
    <2>3. P[i] \in Index \cup {-1} /\ P[i] # -1
      BY <1>1, <1>4, <2>2
    <2>5. findIndex(i).setIdx = P[i] /\ findIndex(i).pointers = P
      BY <2>1
    <2> HIDE DEF P
    <2>4. Points(P, sets)
      BY <1>1 DEF Points
    <2>6. i \in Range(sets[P[i]])
      BY <1>1, <2>2, <2>3
    <2> QED BY <2>2, <2>3, <2>4, <2>5, <2>6
  <1>5. CASE i < NRows /\ ~(P[i] >= 0)
    <2>1. findIndex(i) = [setIdx |-> IF found = NumHints THEN -1 ELSE found, pointers |-> Q]
      <3>1. ~(i >= NRows) /\ ~(idxToSetIdx[i] >= 0)
        BY <1>2, <1>5
      <3> QED BY <3>1, Zenon DEF findIndex
    <2>2. i \in Rows
      BY <1>2, <1>5 DEF Rows
    <2>3. found = NumHints \/ found \in J
      <3> DEFINE S == {NumHints} \cup J
      <3>1. S \in SUBSET Nat /\ S # {}
        BY <1>2 DEF Index
      <3>2. found = Min(S)
        BY DEF scannedIndex
      <3> HIDE DEF S, found
      <3>3. found \in S
        BY <3>1, <3>2, MinType
      <3> QED BY <3>3 DEF S
    <2> HIDE DEF found
    <2>4. ASSUME NEW v \in Rows, js(v) # {}
          PROVE  Max(js(v)) \in Index /\ v \in Range(sets[Max(js(v))])
      <3> DEFINE S == js(v)
      <3>1. NumHints - 1 \in Nat /\ S \in SUBSET (0..NumHints - 1)
        BY <1>2 DEF Index
      <3>2. \A j \in S : j \in Index /\ \E p \in 1..SetSize : sets[j][p] = v
        OBVIOUS
      <3> HIDE DEF S, js
      <3>3. Max(S) \in S
        BY <2>4, <3>1, MaxType DEF S
      <3>4. PICK p \in 1..SetSize : sets[Max(S)][p] = v
        BY <3>2, <3>3
      <3>5. sets[Max(S)] \in Elems
        BY <1>1, <3>2, <3>3
      <3> QED BY <3>2, <3>3, <3>4, <3>5 DEF S, Elems, Range
    <2> HIDE DEF js, P
    <2>5. Points(Q, sets)
      BY <1>1, <2>4 DEF Points
    <2> HIDE DEF Q
    <2> QED BY <2>1, <2>2, <2>3, <2>5
  <1>6. i \in Nat
    OBVIOUS
  <1>7. i >= NRows \/ i < NRows
    BY <1>2, <1>6
  <1> QED BY <1>3, <1>4, <1>5, <1>7

\* Replacing a set redirects and removes the pointers to it.
LEMMA ReplacedRight ==
  ASSUME sets \in [Index -> Elems], NEW P, Points(P, sets), NEW at \in Index, NEW new \in Elems
  PROVE  Points(replacedPointers(P, at, new), [sets EXCEPT ![at] = new])
  <1> DEFINE R == replacedPointers(P, at, new)
             s == [sets EXCEPT ![at] = new]
  <1>1. P \in [Rows -> Index \cup {-1}] /\ \A v \in Rows : P[v] # -1 => v \in Range(sets[P[v]])
    BY DEF Points
  <1>2. ASSUME NEW v \in Rows
        PROVE  R[v] \in Index \cup {-1} /\ (R[v] # -1 => v \in Range(s[R[v]]))
    <2>1. R[v] = IF v \in Range(new) THEN at
                 ELSE IF v \in Range(sets[at]) /\ P[v] = at THEN -1 ELSE P[v]
      BY DEF replacedPointers
    <2>2. s[at] = new /\ \A j \in Index : j # at => s[j] = sets[j]
      OBVIOUS
    <2> HIDE DEF R, s
    <2>3. CASE v \in Range(new)
      BY <2>1, <2>2, <2>3
    <2>4. CASE v \notin Range(new) /\ v \in Range(sets[at]) /\ P[v] = at
      BY <2>1, <2>4
    <2>5. CASE v \notin Range(new) /\ ~(v \in Range(sets[at]) /\ P[v] = at)
      <3>1. R[v] = P[v] /\ P[v] \in Index \cup {-1}
        BY <1>1, <2>1, <2>5
      <3>2. ASSUME P[v] # -1 PROVE v \in Range(s[P[v]])
        <4>1. P[v] \in Index /\ v \in Range(sets[P[v]])
          BY <1>1, <3>2
        <4>2. P[v] # at
          BY <2>5, <4>1
        <4> QED BY <2>2, <4>1, <4>2
      <3> QED BY <3>1, <3>2
    <2> QED BY <2>3, <2>4, <2>5
  <1>3. R = [v \in Rows |-> R[v]]
    BY DEF replacedPointers
  <1> HIDE DEF R, s
  <1>4. R \in [Rows -> Index \cup {-1}]
    BY <1>2, <1>3
  <1>5. Points(R, s)
    BY <1>2, <1>4 DEF Points
  <1> QED BY <1>5 DEF R, s

-----------------------------------------------------------------------------
(***************************************************************************)
(* Requests.                                                               *)
(***************************************************************************)

\* The definitions in Requests.
Others(elems, idx) == IF membersExcept(elems, idx) = {} THEN {-1} ELSE membersExcept(elems, idx)
Request(elems, hole, extra) ==
  IF -1 \in {hole, extra} THEN Spin ELSE [punctured |-> Punc(elems, hole), extra |-> extra]

\* What a query says that is no Spin.
Proper(req, elems, hole, extra) ==
  req # Spin /\ req.punctured = Punc(elems, hole) /\ req.extra = extra

\* Requests that answer the query.
Fits(case, i, old, new, q) ==
  /\ case = 0 => q[1].punctured = Punc(new, i) /\ q[2].punctured = Punc(old, i)
  /\ case = 1 => \E x \in Range(new) : /\ q[1].punctured = Punc(new, x)
                                       /\ q[2].punctured = Punc(new, i) /\ q[2].extra = x
  /\ case = 2 => \E x \in Range(new) : /\ q[2].punctured = Punc(new, x)
                                       /\ q[1].punctured = Punc(new, i) /\ q[1].extra = x

LEMMA TwoOf ==
  ASSUME NEW a, NEW b
  PROVE  Range(<<a, b>>) = {a, b} /\ <<a, b>>[1] = a /\ <<a, b>>[2] = b
  BY DEF Range

\* A set has an element beside one of its own unless it has one only.
LEMMA OthersType ==
  ASSUME NEW elems \in Elems, NEW x \in Range(elems), NEW y \in Others(elems, x)
  PROVE  \/ y \in Range(elems) /\ y \in Rows /\ y # -1
         \/ y = -1 /\ Cardinality(Range(elems)) = 1
  <1>1. Range(elems) \subseteq Rows /\ -1 \notin Rows
    BY DEF Elems, Range, Rows
  <1>2. CASE membersExcept(elems, x) = {}
    <2>1. Range(elems) = {x}
      BY <1>2 DEF membersExcept
    <2>2. Cardinality(Range(elems)) = 1
      BY <2>1, FS_Singleton
    <2> QED BY <1>2, <2>2 DEF Others
  <1>3. CASE membersExcept(elems, x) # {}
    <2>1. y \in Range(elems)
      BY <1>3 DEF Others, membersExcept
    <2> QED BY <1>1, <2>1
  <1> QED BY <1>2, <1>3

\* A request is a Spin if there was nothing to draw.
LEMMA RequestIs ==
  ASSUME NEW elems, NEW hole \in Rows, NEW extra
  PROVE  /\ extra = -1 => Request(elems, hole, extra) = Spin
         /\ extra # -1 => Proper(Request(elems, hole, extra), elems, hole, extra)
  <1> DEFINE p == Punc(elems, hole)
  <1>1. hole # -1
    BY DEF Rows
  <1>2. ASSUME extra # -1
        PROVE  Request(elems, hole, extra) = [punctured |-> p, extra |-> extra]
    BY <1>1, <1>2 DEF Request
  <1> HIDE DEF p
  <1>3. extra # -1 => [punctured |-> p, extra |-> extra] # Spin
    BY DEF Spin
  <1>4. extra = -1 => Request(elems, hole, extra) = Spin
    BY DEF Request
  <1> QED BY <1>2, <1>3, <1>4 DEF Proper, p

\* Cases 1 and 2.
Near(i, new) ==
  UNION {{<<Request(new, x, y), Request(new, i, x)>> : y \in Others(new, x)} :
           x \in membersExcept(new, i)}

\* What Query sends either spins, because of a set of one element, or fits.
LEMMA RequestsFit ==
  ASSUME PuncAssumption, NEW i \in Rows, NEW old \in Elems, NEW new \in Elems,
         i \in Range(old), i \in Range(new),
         NEW case \in 0..2, NEW q \in Requests(case, i, old, new)
  PROVE  IF Spin \in Range(q)
         THEN Cardinality(Range(old)) = 1 \/ Cardinality(Range(new)) = 1
         ELSE Fits(case, i, old, new, q)
  <1> DEFINE Stuck == IF membersExcept(new, i) = {} THEN {<<Spin, Spin>>} ELSE {}
  <1>1. Range(new) \subseteq Rows
    BY DEF Elems, Range
  <1>2. CASE case = 0
    <2>1. q \in {<<Request(new, i, l), Request(old, i, r)>> : l \in Others(new, i), r \in Others(old, i)}
      BY <1>2 DEF Requests, Others, Request
    <2>2. PICK l \in Others(new, i), r \in Others(old, i) : q = <<Request(new, i, l), Request(old, i, r)>>
      BY <2>1
    <2> DEFINE a == Request(new, i, l)
               b == Request(old, i, r)
    <2>3. /\ l = -1 => a = Spin
          /\ l # -1 => Proper(a, new, i, l)
          /\ r = -1 => b = Spin
          /\ r # -1 => Proper(b, old, i, r)
      BY RequestIs
    <2>4. l = -1 => Cardinality(Range(new)) = 1
      BY OthersType
    <2>5. r = -1 => Cardinality(Range(old)) = 1
      BY OthersType
    <2> HIDE DEF a, b
    <2>6. Range(q) = {a, b} /\ q[1] = a /\ q[2] = b
      BY <2>2, TwoOf DEF a, b
    <2> QED BY <1>2, <2>3, <2>4, <2>5, <2>6 DEF Proper, Fits
  <1>3. ASSUME q \in Stuck
        PROVE  Spin \in Range(q) /\ Cardinality(Range(new)) = 1
    <2>1. membersExcept(new, i) = {} /\ q = <<Spin, Spin>>
      BY <1>3
    <2>2. -1 \in Others(new, i)
      BY <2>1 DEF Others
    <2>3. Cardinality(Range(new)) = 1
      BY <2>2, OthersType
    <2> QED BY <2>1, <2>3, TwoOf
  <1>4. ASSUME NEW p \in Near(i, new)
        PROVE  \E a, b : \E x \in Range(new) :
                 /\ p = <<a, b>> /\ Proper(b, new, i, x)
                 /\ \/ a = Spin /\ Cardinality(Range(new)) = 1
                    \/ \E y : Proper(a, new, x, y)
    <2>1. PICK x \in membersExcept(new, i) :
            p \in {<<Request(new, x, y), Request(new, i, x)>> : y \in Others(new, x)}
      BY <1>4 DEF Near
    <2>2. PICK y \in Others(new, x) : p = <<Request(new, x, y), Request(new, i, x)>>
      BY <2>1
    <2>3. x \in Range(new) /\ x \in Rows /\ x # -1
      BY <1>1 DEF membersExcept, Rows
    <2>4. Proper(Request(new, i, x), new, i, x)
      BY <2>3, RequestIs
    <2>5. /\ y = -1 => Request(new, x, y) = Spin
          /\ y # -1 => Proper(Request(new, x, y), new, x, y)
      BY <2>3, RequestIs
    <2>6. y = -1 => Cardinality(Range(new)) = 1
      BY <2>3, OthersType
    <2> QED BY <2>2, <2>3, <2>4, <2>5, <2>6
  <1>5. CASE case = 1
    <2>1. q \in Stuck \/ q \in Near(i, new)
      BY <1>5 DEF Requests, Others, Request, Near
    <2> HIDE DEF Stuck
    <2>2. CASE q \in Near(i, new)
      <3>1. PICK a, b : \E x \in Range(new) :
                   /\ q = <<a, b>> /\ Proper(b, new, i, x)
                   /\ \/ a = Spin /\ Cardinality(Range(new)) = 1
                      \/ \E y : Proper(a, new, x, y)
        BY <1>4, <2>2
      <3>2. Range(q) = {a, b} /\ q[1] = a /\ q[2] = b
        BY <3>1, TwoOf
      <3> QED BY <1>5, <3>1, <3>2 DEF Proper, Fits
    <2> QED BY <1>3, <2>1, <2>2
  <1>6. CASE case = 2
    <2>1. q \in Stuck \/ q \in {<<p[2], p[1]>> : p \in Near(i, new)}
      BY <1>6 DEF Requests, Others, Request, Near
    <2> HIDE DEF Stuck
    <2>2. CASE q \in {<<p[2], p[1]>> : p \in Near(i, new)}
      <3>1. PICK p \in Near(i, new) : q = <<p[2], p[1]>>
        BY <2>2
      <3>2. PICK a, b : \E x \in Range(new) :
                   /\ p = <<a, b>> /\ Proper(b, new, i, x)
                   /\ \/ a = Spin /\ Cardinality(Range(new)) = 1
                      \/ \E y : Proper(a, new, x, y)
        BY <1>4
      <3>3. q = <<b, a>>
        BY <3>1, <3>2, TwoOf
      <3>4. Range(q) = {a, b} /\ q[1] = b /\ q[2] = a
        BY <3>3, TwoOf
      <3> QED BY <1>6, <3>2, <3>4 DEF Proper, Fits
    <2> QED BY <1>3, <2>1, <2>2
  <1> QED BY <1>2, <1>5, <1>6

-----------------------------------------------------------------------------
(***************************************************************************)
(* The inductive invariant.                                                *)
(***************************************************************************)

Typed ==
  /\ PointerInv
  /\ DOMAIN hints = Index
  /\ DOMAIN rd = Readers
  /\ reads \in Nat

\* A query with what it has sent.
Fitting(d) ==
  /\ d.setIdx \in Index /\ d.i \in Rows /\ d.case \in 0..2 /\ d.no \in Nat
  /\ d.old \in Elems /\ d.new \in Elems
  /\ d.i \in Range(d.old) /\ d.i \in Range(d.new)
  /\ Fits(d.case, d.i, d.old, d.new, d.req)

Sent == \A r \in Readers : rd[r].pc = "sent" => Fitting(rd[r]) /\ rd[r].no < reads

\* Queries are numbered.
Numbered ==
  \A r, o \in Readers : rd[r].pc = "sent" /\ rd[o].pc = "sent" /\ r # o => rd[r].no # rd[o].no

\* The set that a query has put in place is the one that the next query for the same
\* index has found, or is still there.
ChainedAt(j) ==
  \A r \in Renewing(j) :
    \/ /\ \A o \in Renewing(j) : rd[o].no <= rd[r].no
       /\ sets[j] = rd[r].new
    \/ \E o \in Renewing(j) : /\ rd[r].no < rd[o].no
                              /\ \A p \in Renewing(j) : rd[p].no <= rd[r].no \/ rd[o].no <= rd[p].no
                              /\ rd[o].old = rd[r].new

\* A hint is right for the oldest of them, or for the set if there is none.
FollowedAt(j) ==
  /\ Renewing(j) = {} => hints[j] = Parity(sets[j])
  /\ \A r \in Renewing(j) : (\A o \in Renewing(j) : ~(rd[o].no < rd[r].no)) => hints[j] = Parity(rd[r].old)

Chained  == \A j \in Index \ lost : ChainedAt(j) /\ FollowedAt(j)

IInv == Typed /\ Sent /\ Numbered /\ Chained /\ WrongOnlyIfLost

\* A query that has been sent, and what it does to the sets.
Sending(d) ==
  /\ d.pc = "sent" /\ Fitting(d) /\ d.no = reads /\ d.old = sets[d.setIdx]
  /\ sets' = IF d.case = 0 THEN [sets EXCEPT ![d.setIdx] = d.new] ELSE sets

\* A query that draws for ever.
Spinning(d) ==
  /\ d.pc = "spins" /\ sets' = sets
  /\ Cardinality(Range(d.old)) = 1 \/ Cardinality(Range(d.new)) = 1

\* The invariant holds at first.
LEMMA InitTyped ==
  ASSUME PuncAssumption, Init
  PROVE  Typed
  <1>1. sets \in [Index -> Elems]
    BY GenType DEF Init
  <1>2. ASSUME NEW v \in Rows
        PROVE  idxToSetIdx[v] \in Index \cup {-1} /\ (idxToSetIdx[v] # -1 => v \in Range(sets[idxToSetIdx[v]]))
    <2> DEFINE S == {j \in Index : v \in Range(sets[j])}
    <2>1. NumHints - 1 \in Nat
      BY NRowsType
    <2>2. S \in SUBSET (0..NumHints - 1)
      BY DEF Index
    <2>3. idxToSetIdx[v] = Max({-1} \cup S)
      BY DEF Init
    <2>4. \A j \in S : j \in Index /\ v \in Range(sets[j])
      OBVIOUS
    <2> HIDE DEF S
    <2>5. Max({-1} \cup S) \in {-1} \cup S
      BY <2>1, <2>2, MaxFrom
    <2> QED BY <2>3, <2>4, <2>5
  <1>3. idxToSetIdx = [v \in Rows |-> idxToSetIdx[v]]
    BY DEF Init
  <1>4. idxToSetIdx \in [Rows -> Index \cup {-1}]
    BY <1>2, <1>3
  <1>5. PointerInv
    BY <1>1, <1>2, <1>4 DEF PointerInv, Points
  <1> QED BY <1>5 DEF Init, Typed

\* What a query does.
LEMMA QueryStep ==
  ASSUME PuncAssumption, Typed, NEW r \in Readers, NEW i \in 0..NRows, Query(r, i)
  PROVE  /\ rd[r] = Idle /\ hints' = hints /\ lost' = lost /\ reads' = reads + 1
         /\ Typed'
         /\ \E d : rd' = [rd EXCEPT ![r] = d] /\ (Sending(d) \/ Spinning(d))
  <1> DEFINE at == findIndex(i).setIdx
             P == findIndex(i).pointers
  <1>1. /\ rd[r] = Idle /\ hints' = hints /\ lost' = lost /\ reads' = reads + 1 /\ at >= 0
    BY DEF Query
  <1>2. PICK case \in Cases, new \in GenWith(i) : \E q \in Requests(case, i, sets[at], new) :
          LET spins == Spin \in Range(q)
              renews == case = 0 /\ ~spins
          IN  /\ rd' = [rd EXCEPT ![r] = [pc |-> IF spins THEN "spins" ELSE "sent", case |-> case, setIdx |-> at,
                                          i |-> i, req |-> q, old |-> sets[at], new |-> new, no |-> reads]]
              /\ sets' = IF renews THEN [sets EXCEPT ![at] = new] ELSE sets
              /\ idxToSetIdx' = IF renews THEN replacedPointers(P, at, new) ELSE P
    BY Zenon DEF Query
  <1> HIDE DEF at, P
  <1>3. PICK q \in Requests(case, i, sets[at], new) :
          LET spins == Spin \in Range(q)
              renews == case = 0 /\ ~spins
          IN  /\ rd' = [rd EXCEPT ![r] = [pc |-> IF spins THEN "spins" ELSE "sent", case |-> case, setIdx |-> at,
                                          i |-> i, req |-> q, old |-> sets[at], new |-> new, no |-> reads]]
              /\ sets' = IF renews THEN [sets EXCEPT ![at] = new] ELSE sets
              /\ idxToSetIdx' = IF renews THEN replacedPointers(P, at, new) ELSE P
    BY <1>2
  <1>4. Points(P, sets) /\ at \in Index /\ i \in Rows /\ i \in Range(sets[at])
    <2>1. at \in Index \cup {-1} /\ Points(P, sets) /\ (at # -1 => i \in Rows /\ i \in Range(sets[at]))
      BY findIndexRight DEF Typed, at, P
    <2> QED BY <1>1, <2>1
  <1>5. sets[at] \in Elems /\ new \in Elems /\ i \in Range(new) /\ case \in 0..2 /\ reads \in Nat
    BY <1>4, GenWithType DEF Typed, PointerInv, Cases
  <1>6. IF Spin \in Range(q)
        THEN Cardinality(Range(sets[at])) = 1 \/ Cardinality(Range(new)) = 1
        ELSE Fits(case, i, sets[at], new, q)
    BY <1>4, <1>5, RequestsFit
  <1>7. PointerInv'
    <2>1. CASE case = 0 /\ ~(Spin \in Range(q))
      <3>1. sets' = [sets EXCEPT ![at] = new] /\ idxToSetIdx' = replacedPointers(P, at, new)
        BY <1>3, <2>1
      <3>2. sets \in [Index -> Elems]
        BY DEF Typed, PointerInv
      <3>3. Points(replacedPointers(P, at, new), [sets EXCEPT ![at] = new])
        BY <1>4, <1>5, <3>2, ReplacedRight
      <3>4. sets' \in [Index -> Elems]
        BY <1>4, <1>5, <3>1, <3>2
      <3>5. Points(idxToSetIdx', sets')
        BY <3>1, <3>3
      <3> QED BY <3>4, <3>5 DEF PointerInv, Points
    <2>2. CASE ~(case = 0 /\ ~(Spin \in Range(q)))
      <3>1. sets' = sets /\ idxToSetIdx' = P
        BY <1>3, <2>2
      <3> QED BY <1>4, <3>1 DEF Typed, PointerInv, Points
    <2> QED BY <2>1, <2>2
  <1>8. Typed'
    <2>1. DOMAIN rd' = DOMAIN rd
      BY <1>3
    <2> QED BY <1>1, <1>7, <2>1 DEF Typed
  <1> DEFINE d == [pc |-> IF Spin \in Range(q) THEN "spins" ELSE "sent", case |-> case, setIdx |-> at,
                   i |-> i, req |-> q, old |-> sets[at], new |-> new, no |-> reads]
  <1>9. /\ d.pc = (IF Spin \in Range(q) THEN "spins" ELSE "sent") /\ d.case = case /\ d.setIdx = at
        /\ d.i = i /\ d.req = q /\ d.old = sets[at] /\ d.new = new /\ d.no = reads
    OBVIOUS
  <1>10. rd' = [rd EXCEPT ![r] = d]
    BY <1>3
  <1> HIDE DEF d
  <1>11. CASE Spin \in Range(q)
    BY <1>1, <1>3, <1>6, <1>8, <1>9, <1>10, <1>11 DEF Spinning
  <1>12. CASE Spin \notin Range(q)
    <2>1. Fitting(d)
      BY <1>4, <1>5, <1>6, <1>9, <1>12 DEF Fitting
    <2>2. Sending(d)
      BY <1>3, <1>9, <1>12, <2>1 DEF Sending
    <2> QED BY <1>1, <1>8, <1>10, <2>2
  <1> QED BY <1>11, <1>12

-----------------------------------------------------------------------------
(***************************************************************************)
(* Steps.                                                                  *)
(***************************************************************************)

\* What a query in flight has replaced.
LEMMA RenewingIs ==
  ASSUME NEW j, NEW r \in Renewing(j)
  PROVE  r \in Readers /\ rd[r].pc = "sent" /\ rd[r].case = 0 /\ rd[r].setIdx = j
  BY DEF Renewing

\* What goes on at other sets does not matter to a set.
LEMMA ElsewhereSame ==
  ASSUME NEW j, \A o : o \in Renewing(j)' <=> o \in Renewing(j),
         \A o \in Renewing(j) : rd'[o] = rd[o],
         sets'[j] = sets[j], hints'[j] = hints[j],
         ChainedAt(j), FollowedAt(j)
  PROVE  ChainedAt(j)' /\ FollowedAt(j)'
  <1>1. Renewing(j)' = Renewing(j)
    OBVIOUS
  <1> QED BY <1>1 DEF ChainedAt, FollowedAt

\* A query that replaces a set is the latest of the set, and was given what the one before
\* has put in place.
LEMMA RenewalChains ==
  ASSUME Typed, Sent, NEW r \in Readers, NEW d, rd[r] = Idle, hints' = hints,
         rd' = [rd EXCEPT ![r] = d], Sending(d), d.case = 0,
         ChainedAt(d.setIdx), FollowedAt(d.setIdx)
  PROVE  ChainedAt(d.setIdx)' /\ FollowedAt(d.setIdx)'
  <1> DEFINE j == d.setIdx
             R == Renewing(j)
  <1>1. /\ d.pc = "sent" /\ d.no = reads /\ d.old = sets[j] /\ j \in Index
        /\ sets' = [sets EXCEPT ![j] = d.new] /\ reads \in Nat
    BY DEF Sending, Fitting, Typed
  <1>2. sets'[j] = d.new
    BY <1>1 DEF Typed, PointerInv
  <1>3. r \notin R
    BY DEF Renewing, Idle
  <1>4. /\ rd'[r] = d
        /\ \A o \in R : rd'[o] = rd[o] /\ o # r
        /\ Renewing(j)' = R \cup {r}
    <2>1. R \subseteq Readers /\ Renewing(j)' \subseteq Readers
      BY DEF Renewing
    <2>2. /\ rd'[r] = d
          /\ \A o \in Readers \ {r} : rd'[o] = rd[o]
          /\ \A o \in Readers \ {r} : o \in Renewing(j)' <=> o \in R
          /\ r \in Renewing(j)'
      BY <1>1 DEF Typed, Renewing
    <2> HIDE DEF R, j
    <2> QED BY <1>3, <2>1, <2>2
  <1>5. \A o \in R : rd[o].no \in Nat /\ rd[o].no < reads
    BY RenewingIs DEF Sent, Fitting
  <1>6. ChainedAt(j) /\ FollowedAt(j)
    OBVIOUS
  <1> HIDE DEF j, R
  <1>7. ChainedAt(j)'
    <2>1. ASSUME NEW p \in R
          PROVE  \E o \in R \cup {r} : /\ rd'[p].no < rd'[o].no
                                       /\ \A q \in R \cup {r} : rd'[q].no <= rd'[p].no \/ rd'[o].no <= rd'[q].no
                                       /\ rd'[o].old = rd'[p].new
      <3>1. CASE (\A o \in R : rd[o].no <= rd[p].no) /\ sets[j] = rd[p].new
        BY <1>1, <1>4, <1>5, <3>1
      <3>2. CASE \E o \in R : /\ rd[p].no < rd[o].no
                              /\ \A q \in R : rd[q].no <= rd[p].no \/ rd[o].no <= rd[q].no
                              /\ rd[o].old = rd[p].new
        <4>1. PICK o \in R : /\ rd[p].no < rd[o].no
                             /\ \A q \in R : rd[q].no <= rd[p].no \/ rd[o].no <= rd[q].no
                             /\ rd[o].old = rd[p].new
          BY <3>2
        <4>2. rd'[o] = rd[o] /\ rd'[p] = rd[p] /\ rd[o].no <= rd'[r].no
          BY <1>1, <1>4, <1>5
        <4>3. \A q \in R \cup {r} : rd'[q].no <= rd'[p].no \/ rd'[o].no <= rd'[q].no
          BY <1>4, <4>1, <4>2
        <4> QED BY <4>1, <4>2, <4>3
      <3> QED BY <1>6, <3>1, <3>2 DEF ChainedAt, R
    <2>2. (\A o \in R \cup {r} : rd'[o].no <= rd'[r].no) /\ sets'[j] = rd'[r].new
      BY <1>1, <1>2, <1>4, <1>5
    <2> QED BY <1>4, <2>1, <2>2 DEF ChainedAt
  <1>8. FollowedAt(j)'
    <2>1. ASSUME NEW p \in R, \A o \in R \cup {r} : ~(rd'[o].no < rd'[p].no)
          PROVE  hints'[j] = Parity(rd'[p].old)
      <3>1. \A o \in R : ~(rd[o].no < rd[p].no)
        BY <1>4, <2>1
      <3> QED BY <1>4, <1>6, <3>1 DEF FollowedAt, R
    <2>2. ASSUME \A o \in R \cup {r} : ~(rd'[o].no < rd'[r].no)
          PROVE  hints'[j] = Parity(rd'[r].old)
      <3>1. R = {}
        BY <1>1, <1>4, <1>5, <2>2
      <3> QED BY <1>1, <1>4, <1>6, <3>1 DEF FollowedAt, R
    <2> QED BY <1>4, <2>1, <2>2 DEF FollowedAt
  <1> QED BY <1>7, <1>8 DEF j

\* A query preserves the invariant.
LEMMA QueryKeeps ==
  ASSUME PuncAssumption, IInv, NEW r \in Readers, NEW i \in 0..NRows, Query(r, i)
  PROVE  IInv'
  <1>1. /\ rd[r] = Idle /\ hints' = hints /\ lost' = lost /\ reads' = reads + 1
        /\ Typed'
        /\ \E d : rd' = [rd EXCEPT ![r] = d] /\ (Sending(d) \/ Spinning(d))
    BY QueryStep DEF IInv
  <1>2. PICK d : rd' = [rd EXCEPT ![r] = d] /\ (Sending(d) \/ Spinning(d))
    BY <1>1
  <1>3. Typed /\ Sent /\ Numbered /\ Chained /\ WrongOnlyIfLost /\ reads \in Nat /\ DOMAIN rd = Readers
    BY DEF IInv, Typed
  <1>4. /\ rd'[r] = d /\ DOMAIN rd' = Readers
        /\ \A o \in Readers \ {r} : rd'[o] = rd[o]
        /\ \A j : \A o \in Readers \ {r} : o \in Renewing(j)' <=> o \in Renewing(j)
        /\ \A j : r \in Renewing(j)' <=> d.pc = "sent" /\ d.case = 0 /\ d.setIdx = j
    BY <1>2, <1>3 DEF Renewing
  <1>5. d.pc = "sent" => Sending(d)
    BY <1>2 DEF Spinning
  <1>6. d.pc # "read"
    BY <1>2 DEF Spinning, Sending
  <1>7. Sent'
    <2> SUFFICES ASSUME NEW o \in Readers, rd'[o].pc = "sent"
                 PROVE  Fitting(rd'[o]) /\ rd'[o].no < reads'
      BY DEF Sent, Fitting, Fits, Elems, Proper
    <2>1. CASE o = r
      BY <1>1, <1>3, <1>4, <1>5, <2>1 DEF Sending
    <2>2. CASE o # r
      <3>1. Fitting(rd[o]) /\ rd[o].no < reads /\ rd'[o] = rd[o]
        BY <1>3, <1>4, <2>2 DEF Sent
      <3>2. rd[o].no \in Nat
        BY <3>1 DEF Fitting
      <3> QED BY <1>1, <1>3, <3>1, <3>2
    <2> QED BY <2>1, <2>2
  <1>8. Numbered'
    <2> SUFFICES ASSUME NEW o \in Readers, NEW p \in Readers, o # p, rd'[o].pc = "sent", rd'[p].pc = "sent"
                 PROVE  rd'[o].no # rd'[p].no
      BY DEF Numbered
    <2>1. ASSUME NEW q \in Readers, q # r, rd'[q].pc = "sent" PROVE rd'[q].no \in Nat /\ rd'[q].no < reads
      BY <1>3, <1>4, <2>1 DEF Sent, Fitting
    <2>2. d.pc = "sent" => d.no = reads
      BY <1>5 DEF Sending
    <2>3. CASE o = r
      BY <1>3, <1>4, <2>1, <2>2, <2>3
    <2>4. CASE p = r
      BY <1>3, <1>4, <2>1, <2>2, <2>4
    <2>5. CASE o # r /\ p # r
      BY <1>3, <1>4, <2>5 DEF Numbered
    <2> QED BY <2>3, <2>4, <2>5
  <1>9. Chained'
    <2> SUFFICES ASSUME NEW j \in Index \ lost
                 PROVE  ChainedAt(j)' /\ FollowedAt(j)'
      BY <1>1 DEF Chained
    <2>1. ChainedAt(j) /\ FollowedAt(j)
      BY <1>3 DEF Chained
    <2>2. CASE d.pc = "sent" /\ d.case = 0 /\ d.setIdx = j
      BY <1>1, <1>2, <1>3, <1>5, <2>1, <2>2, RenewalChains
    <2>3. CASE ~(d.pc = "sent" /\ d.case = 0 /\ d.setIdx = j)
      <3>1. r \notin Renewing(j)
        BY <1>1 DEF Renewing, Idle
      <3>2. Renewing(j)' \subseteq Readers /\ Renewing(j) \subseteq Readers
        BY DEF Renewing
      <3>3. \A o : o \in Renewing(j)' <=> o \in Renewing(j)
        BY <1>4, <2>3, <3>1, <3>2
      <3>4. \A o \in Renewing(j) : rd'[o] = rd[o]
        BY <1>4, <3>1, <3>2
      <3>5. sets'[j] = sets[j]
        BY <1>2, <1>3, <2>3 DEF Sending, Spinning, Typed, PointerInv, Fitting
      <3> QED BY <1>1, <2>1, <3>3, <3>4, <3>5, ElsewhereSame
    <2> QED BY <2>2, <2>3
  <1>10. WrongOnlyIfLost'
    BY <1>1, <1>3, <1>4, <1>6 DEF WrongOnlyIfLost
  <1> QED BY <1>1, <1>7, <1>8, <1>9, <1>10 DEF IInv

\* What reconstruct makes of the answers and the hint.
Out(d, hint) ==
  CASE d.case = 0 -> Xor(hint, Answer(d.req[2]).answer)
    [] d.case = 1 -> Xor(Xor(Answer(d.req[1]).answer, Answer(d.req[2]).answer), Answer(d.req[2]).extra)
    [] d.case = 2 -> Xor(Xor(Answer(d.req[1]).answer, Answer(d.req[2]).answer), Answer(d.req[1]).extra)

\* It is the row read, from a right hint or from none.
LEMMA OutRight ==
  ASSUME PuncAssumption, NEW d, Fitting(d), NEW hint
  PROVE  /\ d.case # 0 => Out(d, hint) = {d.i}
         /\ d.case = 0 /\ hint = Parity(d.old) =>
              /\ Out(d, hint) = {d.i}
              /\ renewedHint(Answer(d.req[1]).answer, Out(d, hint)) = Parity(d.new)
  <1> DEFINE i == d.i
             old == d.old
             new == d.new
             q == d.req
  <1>1. /\ d.case \in 0..2 /\ old \in Elems /\ new \in Elems /\ i \in Range(old) /\ i \in Range(new)
        /\ Fits(d.case, i, old, new, q)
    BY DEF Fitting
  <1>2. /\ Answer(q[1]).answer = Parity(q[1].punctured) /\ Answer(q[1]).extra = {q[1].extra}
        /\ Answer(q[2]).answer = Parity(q[2].punctured) /\ Answer(q[2]).extra = {q[2].extra}
    BY DEF Answer
  <1>3. /\ d.case = 0 => Out(d, hint) = Xor(hint, Answer(q[2]).answer)
        /\ d.case = 1 => Out(d, hint) = Xor(Xor(Answer(q[1]).answer, Answer(q[2]).answer), Answer(q[2]).extra)
        /\ d.case = 2 => Out(d, hint) = Xor(Xor(Answer(q[1]).answer, Answer(q[2]).answer), Answer(q[1]).extra)
    BY DEF Out
  <1> HIDE DEF i, old, new, q
  <1>4. \A x \in Range(new) : Parity(new) = Xor(Parity(Punc(new, x)), {x})
    BY <1>1, PuncturedParity
  <1>5. Parity(old) = Xor(Parity(Punc(old, i)), {i})
    BY <1>1, PuncturedParity
  <1>6. CASE d.case = 0
    <2>1. q[1].punctured = Punc(new, i) /\ q[2].punctured = Punc(old, i)
      BY <1>1, <1>6 DEF Fits
    <2> DEFINE b == Answer(q[2]).answer
               p == Parity(old)
    <2>4. p = Xor(b, {i}) /\ Out(d, hint) = Xor(hint, b)
      BY <1>2, <1>3, <1>5, <1>6, <2>1
    <2> HIDE DEF b, p
    <2>5. ASSUME hint = p PROVE Out(d, hint) = {i}
      BY <2>4, <2>5 DEF Xor
    <2>2. ASSUME hint = Parity(old) PROVE Out(d, hint) = {i}
      BY <2>2, <2>5 DEF p
    <2>3. Parity(new) = Xor(Answer(q[1]).answer, {i})
      BY <1>1, <1>2, <1>4, <2>1
    <2> QED BY <1>6, <2>2, <2>3 DEF renewedHint, i, old, new, q
  <1>7. CASE d.case = 1
    <2>1. PICK x \in Range(new) : /\ q[1].punctured = Punc(new, x)
                                  /\ q[2].punctured = Punc(new, i) /\ q[2].extra = x
      BY <1>1, <1>7 DEF Fits
    <2>2. /\ Parity(new) = Xor(Answer(q[1]).answer, {x})
          /\ Parity(new) = Xor(Answer(q[2]).answer, {i})
      BY <1>1, <1>2, <1>4, <2>1
    <2>3. Out(d, hint) = Xor(Xor(Answer(q[1]).answer, Answer(q[2]).answer), {x})
      BY <1>2, <1>3, <1>7, <2>1
    <2> DEFINE a == Answer(q[1]).answer
               b == Answer(q[2]).answer
               p == Parity(new)
    <2> HIDE DEF a, b, p
    <2>4. p = Xor(a, {x}) /\ p = Xor(b, {i}) /\ Out(d, hint) = Xor(Xor(a, b), {x})
      BY <2>2, <2>3 DEF a, b, p
    <2>5. Out(d, hint) = {i}
      BY <2>4 DEF Xor
    <2> QED BY <1>7, <2>5 DEF i
  <1>8. CASE d.case = 2
    <2>1. PICK x \in Range(new) : /\ q[2].punctured = Punc(new, x)
                                  /\ q[1].punctured = Punc(new, i) /\ q[1].extra = x
      BY <1>1, <1>8 DEF Fits
    <2>2. /\ Parity(new) = Xor(Answer(q[2]).answer, {x})
          /\ Parity(new) = Xor(Answer(q[1]).answer, {i})
      BY <1>1, <1>2, <1>4, <2>1
    <2>3. Out(d, hint) = Xor(Xor(Answer(q[1]).answer, Answer(q[2]).answer), {x})
      BY <1>2, <1>3, <1>8, <2>1
    <2> DEFINE a == Answer(q[1]).answer
               b == Answer(q[2]).answer
               p == Parity(new)
    <2> HIDE DEF a, b, p
    <2>4. p = Xor(a, {i}) /\ p = Xor(b, {x}) /\ Out(d, hint) = Xor(Xor(a, b), {x})
      BY <2>2, <2>3 DEF a, b, p
    <2>5. Out(d, hint) = {i}
      BY <2>4 DEF Xor
    <2> QED BY <1>8, <2>5 DEF i
  <1> QED BY <1>1, <1>6, <1>7, <1>8

\* A reader that waits no more leaves the others and their numbers.
LEMMA LeavingKeeps ==
  ASSUME Sent, Numbered, DOMAIN rd = Readers, reads' = reads,
         NEW r \in Readers, NEW d, rd' = [rd EXCEPT ![r] = d], d.pc # "sent"
  PROVE  Sent' /\ Numbered'
  <1>1. rd'[r] = d /\ \A o \in Readers \ {r} : rd'[o] = rd[o]
    OBVIOUS
  <1>2. \A o \in Readers : rd'[o].pc = "sent" => o # r /\ rd'[o] = rd[o]
    BY <1>1
  <1>3. Sent'
    <2> SUFFICES ASSUME NEW o \in Readers, rd'[o].pc = "sent"
                 PROVE  Fitting(rd'[o]) /\ rd'[o].no < reads'
      BY DEF Sent, Fitting, Fits, Elems
    <2> QED BY <1>2 DEF Sent
  <1>4. Numbered'
    BY <1>2 DEF Numbered
  <1> QED BY <1>3, <1>4

\* To a set that its query did not replace, a reader that waits no more does nothing.
LEMMA LeavingElsewhere ==
  ASSUME DOMAIN rd = Readers,
         NEW r \in Readers, NEW d, rd' = [rd EXCEPT ![r] = d], d.pc # "sent",
         NEW j, r \notin Renewing(j), sets'[j] = sets[j], hints'[j] = hints[j],
         ChainedAt(j), FollowedAt(j)
  PROVE  ChainedAt(j)' /\ FollowedAt(j)'
  <1>1. rd'[r] = d /\ \A o \in Readers \ {r} : rd'[o] = rd[o]
    OBVIOUS
  <1>2. \A o \in Readers : rd'[o].pc = "sent" => o # r /\ rd'[o] = rd[o]
    BY <1>1
  <1>3. \A o : o \in Renewing(j)' <=> o \in Renewing(j)
    BY <1>1, <1>2 DEF Renewing
  <1>4. \A o \in Renewing(j) : rd'[o] = rd[o]
    BY <1>1 DEF Renewing
  <1> QED BY <1>3, <1>4, ElsewhereSame

\* Where its query replaced the set, the hint moves to what the query put in place: the next
\* query has found that, or it is there still.
LEMMA RenewalEnds ==
  ASSUME Sent, Numbered, DOMAIN rd = Readers,
         NEW r \in Readers, NEW d, rd' = [rd EXCEPT ![r] = d], d.pc # "sent",
         NEW j, r \in Renewing(j), ~Overtakes(r), sets'[j] = sets[j],
         hints'[j] = Parity(rd[r].new), ChainedAt(j)
  PROVE  ChainedAt(j)' /\ FollowedAt(j)'
  <1> DEFINE R == Renewing(j)
  <1>1. /\ R \subseteq Readers /\ r \in R
        /\ \A o \in R : rd[o].pc = "sent" /\ rd[o].no \in Nat
    BY RenewingIs DEF Sent, Fitting
  <1>2. Renewing(j)' = R \ {r} /\ \A o \in R \ {r} : rd'[o] = rd[o]
    <2>1. rd'[r] = d /\ \A o \in Readers \ {r} : rd'[o] = rd[o]
      OBVIOUS
    <2> QED BY <2>1 DEF Renewing
  <1>3. \A o \in R : ~(rd[o].no < rd[r].no)
    BY RenewingIs DEF Overtakes
  <1>4. \A o, p \in R : o # p => rd[o].no # rd[p].no
    BY <1>1 DEF Numbered
  <1>5. ASSUME NEW p \in R
        PROVE  \/ (\A o \in R : rd[o].no <= rd[p].no) /\ sets[j] = rd[p].new
               \/ \E o \in R : /\ rd[p].no < rd[o].no
                               /\ \A q \in R : rd[q].no <= rd[p].no \/ rd[o].no <= rd[q].no
                               /\ rd[o].old = rd[p].new
    BY DEF ChainedAt
  <1> HIDE DEF R
  <1>6. ChainedAt(j)'
    <2> SUFFICES ASSUME NEW p \in R \ {r}
                 PROVE  \/ (\A o \in R \ {r} : rd'[o].no <= rd'[p].no) /\ sets'[j] = rd'[p].new
                        \/ \E o \in R \ {r} : /\ rd'[p].no < rd'[o].no
                                              /\ \A q \in R \ {r} : rd'[q].no <= rd'[p].no \/ rd'[o].no <= rd'[q].no
                                              /\ rd'[o].old = rd'[p].new
      BY <1>2 DEF ChainedAt
    <2>1. CASE (\A o \in R : rd[o].no <= rd[p].no) /\ sets[j] = rd[p].new
      BY <1>2, <2>1
    <2>2. CASE \E o \in R : /\ rd[p].no < rd[o].no
                            /\ \A q \in R : rd[q].no <= rd[p].no \/ rd[o].no <= rd[q].no
                            /\ rd[o].old = rd[p].new
      <3>1. PICK o \in R : /\ rd[p].no < rd[o].no
                           /\ \A q \in R : rd[q].no <= rd[p].no \/ rd[o].no <= rd[q].no
                           /\ rd[o].old = rd[p].new
        BY <2>2
      <3>2. o # r
        BY <1>3, <3>1
      <3> QED BY <1>2, <3>1, <3>2
    <2> QED BY <1>5, <2>1, <2>2
  <1>7. ASSUME R \ {r} = {} PROVE hints'[j] = Parity(sets'[j])
    <2>1. ~ \E o \in R : rd[r].no < rd[o].no
      BY <1>1, <1>7
    <2> QED BY <1>1, <1>5, <2>1
  <1>8. ASSUME NEW p \in R \ {r}, \A o \in R \ {r} : ~(rd[o].no < rd[p].no)
        PROVE  hints'[j] = Parity(rd[p].old)
    <2>1. rd[r].no < rd[p].no
      BY <1>1, <1>3, <1>4
    <2>2. ~ \A o \in R : rd[o].no <= rd[r].no
      BY <1>1, <2>1
    <2>3. PICK o \in R : /\ rd[r].no < rd[o].no
                         /\ \A q \in R : rd[q].no <= rd[r].no \/ rd[o].no <= rd[q].no
                         /\ rd[o].old = rd[r].new
      BY <1>1, <1>5, <2>2
    <2>4. rd[o].no <= rd[p].no /\ o # r
      BY <1>1, <2>1, <2>3
    <2>5. rd[o].no = rd[p].no
      BY <1>1, <1>8, <2>4
    <2>6. o = p
      BY <1>4, <2>5
    <2> QED BY <2>3, <2>6
  <1>9. FollowedAt(j)'
    BY <1>2, <1>7, <1>8 DEF FollowedAt
  <1> QED BY <1>6, <1>9

\* reconstruct preserves the invariant.
LEMMA reconstructKeeps ==
  ASSUME PuncAssumption, IInv, NEW r \in Readers, reconstruct(r)
  PROVE  IInv'
  <1> DEFINE d == rd[r]
             k == d.setIdx
             out == Out(d, hints[k])
             e == [pc |-> "read", i |-> d.i, out |-> out, case |-> d.case, setIdx |-> k]
             new == renewedHint(Answer(d.req[1]).answer, out)
  <1>1. /\ d.pc = "sent"
        /\ sets' = sets /\ idxToSetIdx' = idxToSetIdx /\ reads' = reads
        /\ hints' = IF d.case = 0 THEN [hints EXCEPT ![k] = new] ELSE hints
        /\ lost' = IF d.case = 0 /\ Overtakes(r) THEN lost \cup {k} ELSE lost
        /\ rd' = [rd EXCEPT ![r] = e]
    BY Zenon DEF reconstruct, Out
  <1>2. e.pc = "read" /\ e.i = d.i /\ e.out = out /\ e.case = d.case /\ e.setIdx = k
    OBVIOUS
  <1>3. Typed /\ Sent /\ Numbered /\ Chained /\ WrongOnlyIfLost /\ DOMAIN rd = Readers /\ DOMAIN hints = Index
    BY DEF IInv, Typed
  <1>4. Fitting(d) /\ k \in Index
    BY <1>1, <1>3 DEF Sent, Fitting
  <1>5. /\ d.case # 0 => out = {d.i}
        /\ d.case = 0 /\ hints[k] = Parity(d.old) => out = {d.i} /\ new = Parity(d.new)
    <2> HIDE DEF d, k
    <2> QED BY <1>4, OutRight
  <1>6. d.case = 0 => r \in Renewing(k)
    BY <1>1 DEF Renewing
  <1>7. \A j : r \in Renewing(j) => d.case = 0 /\ j = k
    BY DEF Renewing
  <1>8. ASSUME d.case = 0, k \notin lost, ~Overtakes(r)
        PROVE  hints[k] = Parity(d.old)
    <2>1. FollowedAt(k)
      BY <1>3, <1>4, <1>8 DEF Chained
    <2>2. \A o \in Renewing(k) : ~(rd[o].no < rd[r].no)
      BY <1>8 DEF Overtakes
    <2> QED BY <1>6, <1>8, <2>1, <2>2 DEF FollowedAt
  <1>9. d.old = rd[r].old /\ d.new = rd[r].new
    OBVIOUS
  <1> HIDE DEF d, k, out, e, new
  <1>10. Typed'
    <2>1. DOMAIN hints' = DOMAIN hints /\ DOMAIN rd' = DOMAIN rd
      BY <1>1
    <2> QED BY <1>1, <1>3, <2>1 DEF Typed, PointerInv, Points
  <1>11. Sent' /\ Numbered'
    BY <1>1, <1>2, <1>3, LeavingKeeps
  <1>12. Chained'
    <2> SUFFICES ASSUME NEW j \in Index \ lost'
                 PROVE  ChainedAt(j)' /\ FollowedAt(j)'
      BY DEF Chained
    <2>1. j \notin lost /\ j \in Index
      BY <1>1
    <2>2. ChainedAt(j) /\ FollowedAt(j)
      BY <1>3, <2>1 DEF Chained
    <2>3. CASE r \notin Renewing(j)
      <3>1. hints'[j] = hints[j]
        BY <1>1, <1>3, <1>6, <2>1, <2>3
      <3> QED BY <1>1, <1>2, <1>3, <2>2, <2>3, <3>1, LeavingElsewhere
    <2>4. CASE r \in Renewing(j)
      <3>1. d.case = 0 /\ j = k /\ ~Overtakes(r)
        BY <1>1, <1>7, <2>4
      <3>2. new = Parity(rd[r].new)
        BY <1>5, <1>8, <1>9, <2>1, <3>1
      <3>3. hints'[j] = new
        BY <1>1, <1>3, <1>4, <3>1
      <3> QED BY <1>1, <1>2, <1>3, <2>2, <2>4, <3>1, <3>2, <3>3, RenewalEnds
    <2> QED BY <2>3, <2>4
  <1>13. WrongOnlyIfLost'
    <2> SUFFICES ASSUME NEW o \in Readers, rd'[o].pc = "read"
                 PROVE  rd'[o].out = {rd'[o].i} \/ (rd'[o].case = 0 /\ rd'[o].setIdx \in lost')
      BY DEF WrongOnlyIfLost
    <2>1. lost \subseteq lost'
      BY <1>1
    <2>2. CASE o # r
      BY <1>1, <1>3, <2>1, <2>2 DEF WrongOnlyIfLost
    <2>3. CASE o = r
      <3>1. rd'[o] = e
        BY <1>1, <1>3, <2>3
      <3>2. d.case = 0 /\ Overtakes(r) => k \in lost'
        BY <1>1
      <3>3. out = {d.i} \/ (d.case = 0 /\ k \in lost')
        BY <1>5, <1>8, <2>1, <3>2
      <3> QED BY <1>2, <3>1, <3>3
    <2> QED BY <2>2, <2>3
  <1> QED BY <1>10, <1>11, <1>12, <1>13 DEF IInv

\* A reader that gives up preserves the invariant: its hint is lost.
LEMMA AnswerFailsKeeps ==
  ASSUME IInv, NEW r \in Readers, AnswerFails(r)
  PROVE  IInv'
  <1>1. /\ rd' = [rd EXCEPT ![r] = Idle]
        /\ lost' = IF rd[r].case = 0 THEN lost \cup {rd[r].setIdx} ELSE lost
        /\ sets' = sets /\ hints' = hints /\ idxToSetIdx' = idxToSetIdx /\ reads' = reads
    BY DEF AnswerFails
  <1>2. Typed /\ Sent /\ Numbered /\ Chained /\ WrongOnlyIfLost /\ DOMAIN rd = Readers
    BY DEF IInv, Typed
  <1>3. Idle.pc = "idle"
    BY DEF Idle
  <1>4. Typed'
    <2>1. DOMAIN rd' = DOMAIN rd
      BY <1>1
    <2> QED BY <1>1, <1>2, <2>1 DEF Typed, PointerInv, Points
  <1>5. Sent' /\ Numbered'
    BY <1>1, <1>2, <1>3, LeavingKeeps
  <1>6. Chained'
    <2> SUFFICES ASSUME NEW j \in Index \ lost'
                 PROVE  ChainedAt(j)' /\ FollowedAt(j)'
      BY DEF Chained
    <2>1. ChainedAt(j) /\ FollowedAt(j)
      BY <1>1, <1>2 DEF Chained
    <2>2. r \notin Renewing(j)
      BY <1>1 DEF Renewing
    <2> QED BY <1>1, <1>2, <1>3, <2>1, <2>2, LeavingElsewhere
  <1>7. WrongOnlyIfLost'
    <2>1. lost \subseteq lost'
      BY <1>1
    <2>2. \A o \in Readers : rd'[o].pc = "read" => rd'[o] = rd[o]
      BY <1>1, <1>2, <1>3
    <2> QED BY <1>2, <2>1, <2>2 DEF WrongOnlyIfLost
  <1> QED BY <1>4, <1>5, <1>6, <1>7 DEF IInv

\* A reader that has its row preserves the invariant.
LEMMA ReturnKeeps ==
  ASSUME IInv, NEW r \in Readers, Return(r)
  PROVE  IInv'
  <1>1. /\ rd[r].pc = "read" /\ rd' = [rd EXCEPT ![r] = Idle]
        /\ sets' = sets /\ hints' = hints /\ idxToSetIdx' = idxToSetIdx /\ lost' = lost /\ reads' = reads
    BY DEF Return
  <1>2. Typed /\ Sent /\ Numbered /\ Chained /\ WrongOnlyIfLost /\ DOMAIN rd = Readers
    BY DEF IInv, Typed
  <1>3. Idle.pc = "idle"
    BY DEF Idle
  <1>4. Typed'
    <2>1. DOMAIN rd' = DOMAIN rd
      BY <1>1
    <2> QED BY <1>1, <1>2, <2>1 DEF Typed, PointerInv, Points
  <1>5. Sent' /\ Numbered'
    BY <1>1, <1>2, <1>3, LeavingKeeps
  <1>6. Chained'
    <2> SUFFICES ASSUME NEW j \in Index \ lost'
                 PROVE  ChainedAt(j)' /\ FollowedAt(j)'
      BY DEF Chained
    <2>1. ChainedAt(j) /\ FollowedAt(j)
      BY <1>1, <1>2 DEF Chained
    <2>2. r \notin Renewing(j)
      BY <1>1 DEF Renewing
    <2> QED BY <1>1, <1>2, <1>3, <2>1, <2>2, LeavingElsewhere
  <1>7. WrongOnlyIfLost'
    <2>1. \A o \in Readers : rd'[o].pc = "read" => rd'[o] = rd[o]
      BY <1>1, <1>2, <1>3
    <2> QED BY <1>1, <1>2, <2>1 DEF WrongOnlyIfLost
  <1> QED BY <1>4, <1>5, <1>6, <1>7 DEF IInv

\* A query that finds no set preserves the invariant.
LEMMA QueryFailsKeeps ==
  ASSUME PuncAssumption, IInv, NEW r \in Readers, NEW i \in 0..NRows, QueryFails(r, i)
  PROVE  IInv'
  <1>1. /\ idxToSetIdx' = findIndex(i).pointers /\ reads' = reads + 1
        /\ sets' = sets /\ hints' = hints /\ rd' = rd /\ lost' = lost
    BY DEF QueryFails
  <1>2. Typed /\ Sent /\ Numbered /\ Chained /\ WrongOnlyIfLost /\ reads \in Nat
    BY DEF IInv, Typed
  <1>3. Points(findIndex(i).pointers, sets)
    BY <1>2, findIndexRight DEF Typed
  <1>4. Typed'
    BY <1>1, <1>2, <1>3 DEF Typed, PointerInv, Points
  <1>5. Sent'
    <2> SUFFICES ASSUME NEW o \in Readers, rd[o].pc = "sent"
                 PROVE  Fitting(rd[o]) /\ rd[o].no < reads + 1
      BY <1>1 DEF Sent, Fitting, Fits, Elems
    <2>1. Fitting(rd[o]) /\ rd[o].no < reads
      BY <1>2 DEF Sent
    <2>2. rd[o].no \in Nat
      BY <2>1 DEF Fitting
    <2> QED BY <1>2, <2>1, <2>2
  <1>6. Numbered' /\ Chained' /\ WrongOnlyIfLost'
    BY <1>1, <1>2 DEF Numbered, Chained, ChainedAt, FollowedAt, Renewing, WrongOnlyIfLost
  <1> QED BY <1>4, <1>5, <1>6 DEF IInv

-----------------------------------------------------------------------------
(***************************************************************************)
(* Theorems.                                                               *)
(***************************************************************************)

LEMMA InitInv ==
  ASSUME PuncAssumption, Init
  PROVE  IInv
  <1>1. Typed
    BY InitTyped
  <1>2. \A r \in Readers : rd[r].pc = "idle"
    BY DEF Init, Idle
  <1>3. \A j : Renewing(j) = {}
    BY <1>2 DEF Renewing
  <1>4. \A j \in Index : hints[j] = Parity(sets[j])
    BY DEF Init
  <1>5. Chained
    BY <1>3, <1>4 DEF Chained, ChainedAt, FollowedAt
  <1>6. Sent /\ Numbered /\ WrongOnlyIfLost
    BY <1>2 DEF Sent, Numbered, WrongOnlyIfLost
  <1> QED BY <1>1, <1>5, <1>6 DEF IInv

\* Nothing happens.
LEMMA StutterKeeps ==
  ASSUME IInv, UNCHANGED vars
  PROVE  IInv'
  <1>1. /\ sets' = sets /\ hints' = hints /\ idxToSetIdx' = idxToSetIdx
        /\ rd' = rd /\ lost' = lost /\ reads' = reads
    BY DEF vars
  <1> QED BY <1>1 DEF IInv, Typed, PointerInv, Points, Sent, Fitting, Fits, Elems, Numbered,
                      Chained, ChainedAt, FollowedAt, Renewing, WrongOnlyIfLost

\* Every action preserves IInv.
LEMMA StepKeeps ==
  ASSUME PuncAssumption, IInv, Next
  PROVE  IInv'
  <1>1. PICK r \in Readers :
          \/ \E i \in 0..NRows : QueryFails(r, i) \/ Query(r, i)
          \/ reconstruct(r) \/ AnswerFails(r) \/ Return(r)
    BY DEF Next
  <1>2. CASE \E i \in 0..NRows : QueryFails(r, i) \/ Query(r, i)
    BY <1>2, QueryFailsKeeps, QueryKeeps
  <1>3. CASE reconstruct(r)
    BY <1>3, reconstructKeeps
  <1>4. CASE AnswerFails(r)
    BY <1>4, AnswerFailsKeeps
  <1>5. CASE Return(r)
    BY <1>5, ReturnKeeps
  <1> QED BY <1>1, <1>2, <1>3, <1>4, <1>5

\* IInv is inductive.
LEMMA Inductive ==
  ASSUME PuncAssumption
  PROVE  Spec => []IInv
  <1>1. Init => IInv
    BY InitInv
  <1>2. IInv /\ [Next]_vars => IInv'
    BY StepKeeps, StutterKeeps
  <1> QED BY <1>1, <1>2, PTL DEF Spec

LEMMA PointersLead == IInv => PointersRight
  BY DEF IInv, Typed, PointerInv, Points, PointersRight

\* Pointers lead to sets with the element, through all scans of findIndex and all
\* replacements of replaceSet, by any number of readers.
THEOREM PointersRightAlways ==
  ASSUME PuncAssumption
  PROVE  Spec => []PointersRight
  BY PointersLead, Inductive, PTL

\* One of the queries that replaced a set is the oldest.
LEMMA OldestWaits ==
  ASSUME Sent, NEW j, Renewing(j) # {}
  PROVE  \E r \in Renewing(j) : ~Overtakes(r)
  <1> DEFINE S == {rd[o].no : o \in Renewing(j)}
  <1>1. S \in SUBSET Nat
    BY RenewingIs DEF Sent, Fitting
  <1>2. S # {}
    OBVIOUS
  <1> HIDE DEF S
  <1>3. Min(S) \in S /\ \A x \in S : Min(S) <= x
    BY <1>1, <1>2, MinType
  <1>4. PICK r \in Renewing(j) : rd[r].no = Min(S)
    BY <1>3 DEF S
  <1>5. \A o \in Renewing(j) : Min(S) <= rd[o].no /\ rd[o].no \in Nat
    BY <1>1, <1>3 DEF S
  <1>6. \A o \in Renewing(j) : ~(rd[o].no < rd[r].no)
    BY <1>4, <1>5
  <1> QED BY <1>6, RenewingIs DEF Overtakes

LEMMA HintsAreOfOldest == IInv => ReadsRight
  <1> SUFFICES ASSUME IInv PROVE HintsFollow
    BY DEF IInv, ReadsRight
  <1> SUFFICES ASSUME NEW j \in Index \ lost
               PROVE  hints[j] = Parity(IF Renewing(j) = {} THEN sets[j]
                                        ELSE rd[CHOOSE r \in Renewing(j) : ~Overtakes(r)].old)
    BY DEF HintsFollow
  <1>1. FollowedAt(j) /\ Sent
    BY DEF IInv, Chained
  <1>2. CASE Renewing(j) = {}
    BY <1>1, <1>2 DEF FollowedAt
  <1>3. CASE Renewing(j) # {}
    <2> DEFINE c == CHOOSE r \in Renewing(j) : ~Overtakes(r)
    <2>1. c \in Renewing(j) /\ ~Overtakes(c)
      BY <1>1, <1>3, OldestWaits
    <2> HIDE DEF c
    <2>2. hints[j] = Parity(rd[c].old)
      BY <1>1, <2>1, RenewingIs DEF FollowedAt, Overtakes
    <2> QED BY <1>3, <2>2 DEF c
  <1> QED BY <1>2, <1>3

\* Hints follow the sets, whatever queries are in flight, in whatever order the answers
\* come; and a row read is the right one, unless its hint was lost.
THEOREM ReadsRightAlways ==
  ASSUME PuncAssumption
  PROVE  Spec => []ReadsRight
  BY HintsAreOfOldest, Inductive, PTL

LEMMA SpinsInit ==
  ASSUME Init
  PROVE  SpinsOnOneElement
  BY DEF Init, Idle, SpinsOnOneElement

LEMMA SpinsKept ==
  ASSUME PuncAssumption, IInv, SpinsOnOneElement, [Next]_vars
  PROVE  SpinsOnOneElement'
  <1>1. Typed /\ DOMAIN rd = Readers
    BY DEF IInv, Typed
  <1>2. ASSUME NEW r \in Readers, NEW d, rd' = [rd EXCEPT ![r] = d],
               d.pc = "spins" => Cardinality(Range(d.old)) = 1 \/ Cardinality(Range(d.new)) = 1
        PROVE  SpinsOnOneElement'
    <2>1. rd'[r] = d /\ \A o \in Readers \ {r} : rd'[o] = rd[o]
      BY <1>1, <1>2
    <2>2. ASSUME NEW o \in Readers, rd'[o].pc = "spins"
          PROVE  Cardinality(Range(rd'[o].old)) = 1 \/ Cardinality(Range(rd'[o].new)) = 1
      BY <1>2, <2>1, <2>2 DEF SpinsOnOneElement
    <2> QED BY <2>2 DEF SpinsOnOneElement
  <1>3. ASSUME rd' = rd PROVE SpinsOnOneElement'
    BY <1>3 DEF SpinsOnOneElement
  <1>4. ASSUME NEW r \in Readers, NEW i \in 0..NRows, Query(r, i) PROVE SpinsOnOneElement'
    <2>1. PICK d : rd' = [rd EXCEPT ![r] = d] /\ (Sending(d) \/ Spinning(d))
      BY <1>1, <1>4, QueryStep
    <2>2. d.pc = "spins" => Cardinality(Range(d.old)) = 1 \/ Cardinality(Range(d.new)) = 1
      BY <2>1 DEF Sending, Spinning
    <2> QED BY <1>2, <2>1, <2>2
  <1>5. ASSUME NEW r \in Readers, reconstruct(r) PROVE SpinsOnOneElement'
    <2> DEFINE e == [pc |-> "read", i |-> rd[r].i, out |-> Out(rd[r], hints[rd[r].setIdx]),
                     case |-> rd[r].case, setIdx |-> rd[r].setIdx]
    <2>1. rd' = [rd EXCEPT ![r] = e]
      BY <1>5, Zenon DEF reconstruct, Out
    <2>2. e.pc # "spins"
      OBVIOUS
    <2> HIDE DEF e
    <2> QED BY <1>2, <2>1, <2>2
  <1>6. ASSUME NEW r \in Readers, AnswerFails(r) \/ Return(r) PROVE SpinsOnOneElement'
    <2>1. rd' = [rd EXCEPT ![r] = Idle] /\ Idle.pc # "spins"
      BY <1>6 DEF AnswerFails, Return, Idle
    <2> HIDE DEF Idle
    <2> QED BY <1>2, <2>1
  <1>7. CASE UNCHANGED vars
    BY <1>3, <1>7 DEF vars
  <1>8. CASE Next
    <2>1. PICK r \in Readers :
            \/ \E i \in 0..NRows : QueryFails(r, i) \/ Query(r, i)
            \/ reconstruct(r) \/ AnswerFails(r) \/ Return(r)
      BY <1>8 DEF Next
    <2>2. CASE \E i \in 0..NRows : QueryFails(r, i) \/ Query(r, i)
      <3>1. PICK i \in 0..NRows : QueryFails(r, i) \/ Query(r, i)
        BY <2>2
      <3>2. QueryFails(r, i) => rd' = rd
        BY DEF QueryFails
      <3> QED BY <1>3, <1>4, <3>1, <3>2
    <2>3. CASE reconstruct(r)
      BY <1>5, <2>3
    <2>4. CASE AnswerFails(r) \/ Return(r)
      BY <1>6, <2>4
    <2> QED BY <2>1, <2>2, <2>3, <2>4
  <1> QED BY <1>7, <1>8

\* Of all draws of randomMemberExcept, only those from sets of one element never end.
THEOREM SpinsOnOneElementAlways ==
  ASSUME PuncAssumption
  PROVE  Spec => []SpinsOnOneElement
  <1>1. IInv /\ SpinsOnOneElement /\ [Next]_vars => SpinsOnOneElement'
    BY SpinsKept
  <1> QED BY <1>1, SpinsInit, Inductive, PTL DEF Spec
=============================================================================
