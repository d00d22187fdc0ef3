--------------------------- MODULE UpdatableProofs ---------------------------
(***************************************************************************)
(* What holds of Updatable, in three parts.                                *)
(*                                                                         *)
(* 1. What the operations of a server do to logs of every length:          *)
(*    replaying, sorting, storing rows, and above all defragmenting.       *)
(* 2. The layers of a waterfall, however many there are: they cut the rows *)
(*    into consecutive pieces, and the requests of a read fit them.        *)
(* 3. The invariants: the types, the servers' logs and timestamps, and     *)
(*    that a client which follows a server, whatever the interleaving of   *)
(*    its calls with writes and however many defragmentations it misses,   *)
(*    knows the server's keys and positions of its last update.            *)
(***************************************************************************)
EXTENDS Updatable, CommonLemmas, TLAPS

-----------------------------------------------------------------------------
\* The operation at place i is the last on its key among the first n.
IsLast(ops, n, i) ==
  /\ i \in 1..n
  /\ \A j \in 1..n : i < j => ops[j].Key # ops[i].Key

LEMMA LastOnDef ==
  ASSUME NEW n \in Nat, NEW ops, NEW k
  PROVE  LET l == LastOn(ops, n, k)
         IN  /\ l \in 0..n
             /\ l = 0 <=> \A i \in 1..n : ops[i].Key # k
             /\ l # 0 => IsLast(ops, n, l) /\ ops[l].Key = k
  <1> DEFINE S == {0} \cup {i \in 1..n : ops[i].Key = k}
             l == LastOn(ops, n, k)
  <1>1. S \in SUBSET (0..n) /\ S # {}
    OBVIOUS
  <1>2. l = Max(S)
    BY DEF LastOn
  <1>3. l \in S /\ \A y \in S : y <= l
    BY <1>1, <1>2, MaxType
  <1>4. l \in 0..n
    BY <1>1, <1>3
  <1>5. \A i \in 1..n : ops[i].Key = k => i <= l
    BY <1>3
  <1>6. l # 0 => l \in 1..n /\ ops[l].Key = k
    BY <1>3
  <1>7. \A i \in 1..n : l < i => ops[i].Key # k
    BY <1>4, <1>5
  <1> HIDE DEF l
  <1>8. l = 0 <=> \A i \in 1..n : ops[i].Key # k
    BY <1>4, <1>6, <1>7
  <1>9. l # 0 => IsLast(ops, n, l)
    BY <1>6, <1>7 DEF IsLast
  <1> QED BY <1>4, <1>6, <1>8, <1>9 DEF l

LEMMA LastOnUnique ==
  ASSUME NEW n \in Nat, NEW ops, NEW i, IsLast(ops, n, i)
  PROVE  LastOn(ops, n, ops[i].Key) = i
  <1> DEFINE l == LastOn(ops, n, ops[i].Key)
  <1>1. /\ l \in 0..n
        /\ l = 0 <=> \A j \in 1..n : ops[j].Key # ops[i].Key
        /\ l # 0 => IsLast(ops, n, l) /\ ops[l].Key = ops[i].Key
    BY LastOnDef
  <1> HIDE DEF l
  <1>2. i \in 1..n /\ l # 0
    BY <1>1 DEF IsLast
  <1>3. ~(i < l)
    BY <1>1, <1>2 DEF IsLast
  <1>4. ~(l < i)
    BY <1>1, <1>2 DEF IsLast
  <1>5. l = i
    BY <1>1, <1>2, <1>3, <1>4
  <1> QED BY <1>5 DEF l

\* Each key that is touched has a last operation.
LEMMA LastExists ==
  ASSUME NEW n \in Nat, NEW ops, NEW i \in 1..n
  PROVE  \E l \in 1..n : IsLast(ops, n, l) /\ ops[l].Key = ops[i].Key
  <1> DEFINE l == LastOn(ops, n, ops[i].Key)
  <1>1. /\ l \in 0..n
        /\ l = 0 <=> \A j \in 1..n : ops[j].Key # ops[i].Key
        /\ l # 0 => IsLast(ops, n, l) /\ ops[l].Key = ops[i].Key
    BY LastOnDef
  <1> HIDE DEF l
  <1>2. l # 0
    BY <1>1
  <1>3. l \in 1..n
    BY <1>1, <1>2
  <1> QED BY <1>1, <1>2, <1>3

\* What counts in the first half of a log.
LEMMA CountsDef ==
  ASSUME NEW e \in Nat, NEW ops, NEW i \in 1..e
  PROVE  Counts(ops, e, i) <=> ~ops[i].Delete /\ IsLast(ops, e, i)
  <1>1. IsLast(ops, e, i) => LastOn(ops, e, ops[i].Key) = i
    BY LastOnUnique
  <1>2. LastOn(ops, e, ops[i].Key) = i => IsLast(ops, e, i)
    <2> DEFINE l == LastOn(ops, e, ops[i].Key)
    <2>1. l # 0 => IsLast(ops, e, l)
      BY LastOnDef
    <2> QED BY <2>1
  <1> QED BY <1>1, <1>2 DEF Counts

-----------------------------------------------------------------------------
\* r is the map kv after the operations ops: the last one on a key decides.
MapAfter(r, kv, ops) ==
  LET n == Len(ops)
  IN  /\ r = [k \in DOMAIN r |-> r[k]]
      /\ \A i \in 1..n : IsLast(ops, n, i) =>
           /\ ops[i].Key \in DOMAIN r <=> ~ops[i].Delete
           /\ ~ops[i].Delete => r[ops[i].Key] = ops[i].data
      /\ \A k : (\A i \in 1..n : ops[i].Key # k) =>
           /\ k \in DOMAIN r <=> k \in DOMAIN kv
           /\ k \in DOMAIN kv => r[k] = kv[k]

LEMMA ReplayedDef ==
  ASSUME NEW kv, NEW ops, Len(ops) \in Nat
  PROVE  MapAfter(Replayed(kv, ops), kv, ops)
  <1> DEFINE n == Len(ops)
             r == Replayed(kv, ops)
             touched == {ops[i].Key : i \in 1..n}
             last(k) == ops[LastOn(ops, n, k)]
             D == (DOMAIN kv \ touched) \cup {t \in touched : ~last(t).Delete}
  <1>1. r = [k \in D |-> IF k \in touched THEN last(k).data ELSE kv[k]]
    BY DEF Replayed
  <1>2. DOMAIN r = D
    BY <1>1
  <1>3. r = [k \in DOMAIN r |-> r[k]]
    BY <1>1
  <1>4. ASSUME NEW i \in 1..n, IsLast(ops, n, i)
        PROVE  /\ ops[i].Key \in DOMAIN r <=> ~ops[i].Delete
               /\ ~ops[i].Delete => r[ops[i].Key] = ops[i].data
    <2>1. last(ops[i].Key) = ops[i]
      BY <1>4, LastOnUnique
    <2>2. ops[i].Key \in touched
      OBVIOUS
    <2> HIDE DEF last, touched
    <2> QED BY <1>1, <1>2, <2>1, <2>2
  <1>5. ASSUME NEW k, \A i \in 1..n : ops[i].Key # k
        PROVE  /\ k \in DOMAIN r <=> k \in DOMAIN kv
               /\ k \in DOMAIN kv => r[k] = kv[k]
    <2>1. k \notin touched
      BY <1>5
    <2> HIDE DEF last, touched
    <2> QED BY <1>1, <1>2, <2>1
  <1> QED BY <1>3, <1>4, <1>5 DEF MapAfter

LEMMA MapAfterUnique ==
  ASSUME NEW kv, NEW ops, Len(ops) \in Nat, NEW r, NEW s,
         MapAfter(r, kv, ops), MapAfter(s, kv, ops)
  PROVE  r = s
  <1> DEFINE n == Len(ops)
  <1>1. ASSUME NEW k
        PROVE  /\ k \in DOMAIN r <=> k \in DOMAIN s
               /\ k \in DOMAIN r => r[k] = s[k]
    <2>1. CASE \A i \in 1..n : ops[i].Key # k
      BY <2>1 DEF MapAfter
    <2>2. CASE \E i \in 1..n : ops[i].Key = k
      <3>1. PICK j \in 1..n : ops[j].Key = k
        BY <2>2
      <3>2. n \in Nat
        OBVIOUS
      <3> HIDE DEF n
      <3>3. PICK i \in 1..n : IsLast(ops, n, i) /\ ops[i].Key = ops[j].Key
        BY <3>2, LastExists
      <3> QED BY <3>1, <3>3 DEF MapAfter, n
    <2> QED BY <2>1, <2>2
  <1>2. r = [k \in DOMAIN r |-> r[k]] /\ s = [k \in DOMAIN s |-> s[k]]
    BY DEF MapAfter
  <1>3. DOMAIN r = DOMAIN s
    BY <1>1
  <1> QED BY <1>1, <1>2, <1>3

\* Replaying in two pieces.
LEMMA ReplayedConcat ==
  ASSUME NEW X, NEW a \in Seq(X), NEW b \in Seq(X), NEW kv
  PROVE  Replayed(Replayed(kv, a), b) = Replayed(kv, a \o b)
  <1> DEFINE c == a \o b
             n == Len(a)
             m == Len(b)
             q == Replayed(kv, a)
             r == Replayed(q, b)
  <1>1. /\ n \in Nat /\ m \in Nat /\ Len(c) = n + m
        /\ \A i \in 1..(n + m) : c[i] = IF i <= n THEN a[i] ELSE b[i - n]
    BY ConcatProperties
  <1>2. MapAfter(q, kv, a) /\ MapAfter(r, q, b)
    BY <1>1, ReplayedDef
  <1> HIDE DEF c, n, m, q, r
  <1>3. /\ \A i \in 1..n : i \in 1..(n + m) /\ c[i] = a[i]
        /\ \A i \in 1..m : n + i \in 1..(n + m) /\ c[n + i] = b[i]
    <2>1. \A i \in 1..n : i \in 1..(n + m) /\ i <= n
      BY <1>1
    <2>2. \A i \in 1..m : n + i \in 1..(n + m) /\ ~(n + i <= n) /\ (n + i) - n = i
      BY <1>1
    <2> QED BY <1>1, <2>1, <2>2
  <1>4. r = [k \in DOMAIN r |-> r[k]]
    BY <1>2 DEF MapAfter
  <1>5. ASSUME NEW i \in 1..(n + m), IsLast(c, n + m, i)
        PROVE  /\ c[i].Key \in DOMAIN r <=> ~c[i].Delete
               /\ ~c[i].Delete => r[c[i].Key] = c[i].data
    <2>1. CASE i <= n
      <3>1. i \in 1..n /\ c[i] = a[i]
        BY <2>1, <1>1
      <3>2. \A j \in 1..m : b[j].Key # a[i].Key
        BY <1>1, <1>3, <1>5, <3>1 DEF IsLast
      <3>3. IsLast(a, n, i)
        BY <1>3, <1>5, <3>1 DEF IsLast
      <3>4. /\ a[i].Key \in DOMAIN q <=> ~a[i].Delete
            /\ ~a[i].Delete => q[a[i].Key] = a[i].data
        BY <1>2, <3>1, <3>3 DEF MapAfter, n
      <3>5. /\ a[i].Key \in DOMAIN r <=> a[i].Key \in DOMAIN q
            /\ a[i].Key \in DOMAIN q => r[a[i].Key] = q[a[i].Key]
        BY <1>2, <3>2 DEF MapAfter, m
      <3> QED BY <3>1, <3>4, <3>5
    <2>2. CASE ~(i <= n)
      <3> DEFINE j == i - n
      <3>1. j \in 1..m /\ c[i] = b[j] /\ i = n + j
        BY <2>2, <1>1
      <3> HIDE DEF j
      <3>2. IsLast(b, m, j)
        <4>1. ASSUME NEW l \in 1..m, j < l PROVE b[l].Key # b[j].Key
          <5>1. n + l \in 1..(n + m) /\ i < n + l /\ c[n + l] = b[l]
            BY <1>1, <1>3, <3>1, <4>1
          <5> QED BY <1>5, <3>1, <5>1 DEF IsLast
        <4> QED BY <3>1, <4>1 DEF IsLast
      <3> QED BY <1>2, <3>1, <3>2 DEF MapAfter, m
    <2> QED BY <2>1, <2>2
  <1>6. ASSUME NEW k, \A i \in 1..(n + m) : c[i].Key # k
        PROVE  /\ k \in DOMAIN r <=> k \in DOMAIN kv
               /\ k \in DOMAIN kv => r[k] = kv[k]
    <2>1. (\A i \in 1..n : a[i].Key # k) /\ (\A i \in 1..m : b[i].Key # k)
      BY <1>3, <1>6
    <2>2. /\ k \in DOMAIN q <=> k \in DOMAIN kv
          /\ k \in DOMAIN kv => q[k] = kv[k]
      BY <1>2, <2>1 DEF MapAfter, n
    <2>3. /\ k \in DOMAIN r <=> k \in DOMAIN q
          /\ k \in DOMAIN q => r[k] = q[k]
      BY <1>2, <2>1 DEF MapAfter, m
    <2> QED BY <2>2, <2>3
  <1>7. MapAfter(r, kv, c)
    BY <1>1, <1>4, <1>5, <1>6 DEF MapAfter
  <1>8. MapAfter(Replayed(kv, c), kv, c)
    BY <1>1, ReplayedDef
  <1>9. r = Replayed(kv, c)
    BY <1>1, <1>7, <1>8, MapAfterUnique
  <1> QED BY <1>9 DEF r, q, c

\* Nothing to replay.
LEMMA ReplayedNothing ==
  ASSUME NEW kv, kv = [k \in DOMAIN kv |-> kv[k]]
  PROVE  Replayed(kv, <<>>) = kv
  <1>1. Len(<<>>) = 0 /\ \A i \in 1..0 : FALSE
    OBVIOUS
  <1>2. MapAfter(kv, kv, <<>>)
    BY <1>1 DEF MapAfter
  <1>3. MapAfter(Replayed(kv, <<>>), kv, <<>>)
    BY <1>1, ReplayedDef
  <1> QED BY <1>1, <1>2, <1>3, MapAfterUnique

-----------------------------------------------------------------------------
\* The places of a log's additions.
Adds(ops) == {i \in 1..Len(ops) : ~ops[i].Delete}

\* The rows of a log.
LEMMA RowsType ==
  ASSUME NEW X, NEW D, \A op \in X : op.data \in D, NEW ops \in Seq(X)
  PROVE  /\ opsToRows(ops) \in Seq(D)
         /\ Len(opsToRows(ops)) = Cardinality(Adds(ops))
         /\ Cardinality(Adds(ops)) \in 0..Len(ops)
         /\ \A i \in Adds(ops) : /\ Rank(Adds(ops), i) \in 1..Cardinality(Adds(ops))
                                 /\ opsToRows(ops)[Rank(Adds(ops), i)] = ops[i].data
  <1> DEFINE S == Adds(ops)
             a == Picked(ops, S)
             n == Cardinality(S)
             e(p) == a[p].data
  <1>1. S \in SUBSET (1..Len(ops)) /\ Len(ops) \in Nat
    BY DEF Adds
  <1> HIDE DEF S
  <1>2. /\ a \in Seq(X) /\ Len(a) = n /\ n \in 0..Len(ops)
        /\ \A p \in 1..n : a[p] = ops[InOrder(S)[p]]
    BY <1>1, PickedType
  <1>3. opsToRows(ops) = [p \in 1..n |-> e(p)]
    BY <1>2 DEF opsToRows, Adds, S
  <1>4. n \in Nat /\ \A p \in 1..n : e(p) \in D
    BY <1>1, <1>2, ElementOfSeq
  <1>5. IsFiniteSet(S) /\ S \in SUBSET Int
    BY <1>1, PlacesFinite
  <1>6. \A i \in S : Rank(S, i) \in 1..n /\ InOrder(S)[Rank(S, i)] = i
    BY <1>5, InOrderEnumerates
  <1>7. \A i \in S : opsToRows(ops)[Rank(S, i)] = ops[i].data
    BY <1>2, <1>3, <1>6
  <1> HIDE DEF n, e
  <1>8. opsToRows(ops) \in Seq(D) /\ Len(opsToRows(ops)) = n
    BY <1>3, <1>4
  <1> QED BY <1>2, <1>6, <1>7, <1>8 DEF S, n

\* The additions of a log in two pieces.
LEMMA AddsConcat ==
  ASSUME NEW X, NEW a \in Seq(X), NEW b \in Seq(X)
  PROVE  Adds(a \o b) = Joined(Len(a), Adds(a), Adds(b))
  <1> DEFINE n == Len(a)
             m == Len(b)
             c == a \o b
  <1>1. /\ n \in Nat /\ m \in Nat /\ Len(c) = n + m
        /\ \A i \in 1..(n + m) : c[i] = IF i <= n THEN a[i] ELSE b[i - n]
    BY ConcatProperties
  <1> HIDE DEF c, n, m
  <1>2. ASSUME NEW i \in Adds(c) PROVE i \in Joined(n, Adds(a), Adds(b))
    <2>1. i \in 1..(n + m) /\ ~c[i].Delete
      BY <1>1 DEF Adds
    <2>2. CASE i <= n
      <3>1. i \in 1..n /\ c[i] = a[i]
        BY <1>1, <2>1, <2>2
      <3> QED BY <2>1, <3>1 DEF Adds, Joined, n
    <2>3. CASE ~(i <= n)
      <3>1. i - n \in 1..m /\ c[i] = b[i - n] /\ i = n + (i - n)
        BY <1>1, <2>1, <2>3
      <3> QED BY <2>1, <3>1 DEF Adds, Joined, m
    <2> QED BY <2>2, <2>3
  <1>3. ASSUME NEW i \in Adds(a) PROVE i \in Adds(c)
    <2>1. i \in 1..n /\ ~a[i].Delete
      BY DEF Adds, n
    <2>2. i \in 1..(n + m) /\ i <= n
      BY <1>1, <2>1
    <2> QED BY <1>1, <2>1, <2>2 DEF Adds
  <1>4. ASSUME NEW j \in Adds(b) PROVE n + j \in Adds(c)
    <2>1. j \in 1..m /\ ~b[j].Delete
      BY DEF Adds, m
    <2>2. n + j \in 1..(n + m) /\ ~(n + j <= n) /\ (n + j) - n = j
      BY <1>1, <2>1
    <2> QED BY <1>1, <2>1, <2>2 DEF Adds
  <1>5. Adds(c) = Joined(n, Adds(a), Adds(b))
    BY <1>2, <1>3, <1>4 DEF Joined
  <1> QED BY <1>5 DEF c, n

\* The rows of a log in two pieces.
LEMMA RowsConcat ==
  ASSUME NEW X, NEW D, \A op \in X : op.data \in D,
         NEW a \in Seq(X), NEW b \in Seq(X)
  PROVE  opsToRows(a \o b) = opsToRows(a) \o opsToRows(b)
  <1> DEFINE p == Picked(a, Adds(a))
             q == Picked(b, Adds(b))
             c == a \o b
             n == Len(p)
             m == Len(q)
  <1>1. /\ Adds(a) \in SUBSET (1..Len(a)) /\ Adds(b) \in SUBSET (1..Len(b))
    BY DEF Adds
  <1>2. c \in Seq(X) /\ Picked(c, Adds(c)) = p \o q
    BY <1>1, AddsConcat, PickedConcat
  <1>3. p \in Seq(X) /\ q \in Seq(X)
    BY <1>1, PickedType
  <1> HIDE DEF p, q, c
  <1>4. /\ n \in Nat /\ m \in Nat /\ Len(p \o q) = n + m
        /\ \A i \in 1..(n + m) : (p \o q)[i] = IF i <= n THEN p[i] ELSE q[i - n]
    BY <1>3, ConcatProperties
  <1>5. /\ opsToRows(a) = [i \in 1..n |-> p[i].data]
        /\ opsToRows(b) = [i \in 1..m |-> q[i].data]
        /\ opsToRows(c) = [i \in 1..(n + m) |-> (p \o q)[i].data]
    BY <1>2, <1>4 DEF opsToRows, Adds, p, q, c
  <1>6. /\ opsToRows(a) \in Seq(D) /\ opsToRows(b) \in Seq(D) /\ opsToRows(c) \in Seq(D)
    BY <1>2, RowsType
  <1>7. Len(opsToRows(a)) = n /\ Len(opsToRows(b)) = m /\ Len(opsToRows(c)) = n + m
    BY <1>4, <1>5
  <1> DEFINE ra == opsToRows(a)
             rb == opsToRows(b)
             rc == opsToRows(c)
  <1>8. /\ \A i \in 1..n : ra[i] = p[i].data
        /\ \A i \in 1..m : rb[i] = q[i].data
        /\ \A i \in 1..(n + m) : rc[i] = (p \o q)[i].data
    BY <1>5
  <1> HIDE DEF ra, rb, rc, n, m
  <1>9. /\ ra \o rb \in Seq(D) /\ Len(ra \o rb) = n + m
        /\ \A i \in 1..(n + m) : (ra \o rb)[i] = IF i <= n THEN ra[i] ELSE rb[i - n]
    BY <1>4, <1>6, <1>7, ConcatProperties DEF ra, rb
  <1>10. ASSUME NEW i \in 1..(n + m) PROVE rc[i] = (ra \o rb)[i]
    <2>1. CASE i <= n
      <3>1. i \in 1..n
        BY <1>4, <2>1
      <3> QED BY <1>4, <1>8, <1>9, <2>1, <3>1
    <2>2. CASE ~(i <= n)
      <3>1. i - n \in 1..m
        BY <1>4, <2>2
      <3> QED BY <1>4, <1>8, <1>9, <2>2, <3>1
    <2> QED BY <2>1, <2>2
  <1>11. rc \in Seq(D) /\ Len(rc) = Len(ra \o rb)
    BY <1>6, <1>7, <1>9 DEF rc
  <1>12. \A i \in 1..Len(rc) : rc[i] = (ra \o rb)[i]
    BY <1>9, <1>10, <1>11
  <1>13. rc = ra \o rb
    BY <1>9, <1>11, <1>12, SeqEqual
  <1> QED BY <1>13 DEF ra, rb, rc, c

\* Deletions have no rows.
LEMMA RowsOfDeletions ==
  ASSUME NEW ops, \A i \in 1..Len(ops) : ops[i].Delete
  PROVE  opsToRows(ops) = <<>>
  <1>1. Adds(ops) = {}
    BY DEF Adds
  <1>2. Cardinality(Adds(ops)) = 0
    BY <1>1, FS_EmptySet
  <1> DEFINE a == Picked(ops, Adds(ops))
  <1>3. a = [p \in 1..0 |-> ops[InOrder(Adds(ops))[p]]]
    BY <1>2 DEF Picked
  <1>4. Len(a) = 0
    BY <1>3
  <1>5. opsToRows(ops) = [p \in 1..Len(a) |-> a[p].data]
    BY DEF opsToRows, Adds
  <1> HIDE DEF a
  <1> QED BY <1>4, <1>5

-----------------------------------------------------------------------------
\* The first loop of defrag: places that follow an addition of their key, and
\* additions that are followed by an operation on their key.
Follows(ops, e)  == {i \in 1..e : LET l == LastOn(ops, i - 1, ops[i].Key)
                                  IN  l # 0 /\ ~ops[l].Delete}
Followed(ops, e) == {i \in 1..e : ~ops[i].Delete /\ ~Counts(ops, e, i)}
Counted(ops, e)  == {i \in 1..e : Counts(ops, e, i)}
Dels(ops, e)     == {i \in 1..e : ops[i].Delete}

\* There are as many of the ones as of the others.
LEMMA FollowsCount ==
  ASSUME NEW e \in Nat, NEW ops
  PROVE  Cardinality(Follows(ops, e)) = Cardinality(Followed(ops, e))
  <1> DEFINE P == Follows(ops, e)
             Q == Followed(ops, e)
             f == [i \in P |-> LastOn(ops, i - 1, ops[i].Key)]
  <1>1. ASSUME NEW i \in 1..e
        PROVE  LET l == LastOn(ops, i - 1, ops[i].Key)
               IN  /\ l \in 0..(i - 1)
                   /\ l # 0 => /\ ops[l].Key = ops[i].Key
                               /\ \A j \in 1..(i - 1) : l < j => ops[j].Key # ops[i].Key
    <2>1. i - 1 \in Nat
      OBVIOUS
    <2> DEFINE l == LastOn(ops, i - 1, ops[i].Key)
    <2>2. l \in 0..(i - 1) /\ (l # 0 => IsLast(ops, i - 1, l) /\ ops[l].Key = ops[i].Key)
      BY <2>1, LastOnDef
    <2> HIDE DEF l
    <2>3. l # 0 => \A j \in 1..(i - 1) : l < j => ops[j].Key # ops[i].Key
      BY <2>2 DEF IsLast
    <2> QED BY <2>2, <2>3 DEF l
  <1>2. ASSUME NEW i \in P
        PROVE  /\ i \in 1..e /\ f[i] \in 1..(i - 1) /\ ~ops[f[i]].Delete
               /\ ops[f[i]].Key = ops[i].Key
               /\ \A j \in 1..(i - 1) : f[i] < j => ops[j].Key # ops[i].Key
    <2> DEFINE l == LastOn(ops, i - 1, ops[i].Key)
    <2>1. f[i] = l /\ i \in 1..e /\ l # 0 /\ ~ops[l].Delete
      BY DEF Follows
    <2>2. /\ l \in 0..(i - 1)
          /\ l # 0 => /\ ops[l].Key = ops[i].Key
                      /\ \A j \in 1..(i - 1) : l < j => ops[j].Key # ops[i].Key
      BY <1>1, <2>1
    <2> HIDE DEF l, f
    <2> QED BY <2>1, <2>2
  <1> HIDE DEF f
  <1>3. ASSUME NEW i \in P PROVE f[i] \in Q
    <2>1. f[i] \in 1..e /\ i \in 1..e /\ f[i] < i
      BY <1>2
    <2>2. ~IsLast(ops, e, f[i])
      BY <1>2, <2>1 DEF IsLast
    <2>3. ~Counts(ops, e, f[i])
      BY <2>1, <2>2, CountsDef
    <2> QED BY <1>2, <2>1, <2>3 DEF Followed
  <1>4. f \in [P -> Q]
    BY <1>3 DEF f
  <1>5. ASSUME NEW i \in P, NEW j \in P, f[i] = f[j] PROVE i = j
    <2>1. /\ i \in 1..e /\ j \in 1..e /\ f[i] \in 1..(i - 1) /\ f[j] \in 1..(j - 1)
          /\ ops[i].Key = ops[j].Key
      BY <1>2, <1>5
    <2>2. ~(i < j)
      <3>1. i < j => i \in 1..(j - 1) /\ f[j] < i
        BY <1>5, <2>1
      <3> QED BY <1>2, <2>1, <3>1
    <2>3. ~(j < i)
      <3>1. j < i => j \in 1..(i - 1) /\ f[i] < j
        BY <1>5, <2>1
      <3> QED BY <1>2, <2>1, <3>1
    <2> QED BY <2>1, <2>2, <2>3
  <1>6. ASSUME NEW l \in Q PROVE \E i \in P : f[i] = l
    <2>1. l \in 1..e /\ ~ops[l].Delete /\ ~IsLast(ops, e, l)
      BY CountsDef DEF Followed
    <2> DEFINE T == {i \in 1..e : l < i /\ ops[i].Key = ops[l].Key}
    <2>2. T # {} /\ T \subseteq Nat
      BY <2>1 DEF IsLast
    <2>3. PICK i \in T : \A j \in T : i <= j
      BY <2>2, LeastNatural
    <2>4. i \in 1..e /\ l < i /\ ops[i].Key = ops[l].Key
      BY <2>3
    <2> DEFINE m == LastOn(ops, i - 1, ops[i].Key)
    <2>5. /\ m \in 0..(i - 1)
          /\ m # 0 => /\ ops[m].Key = ops[i].Key
                      /\ \A j \in 1..(i - 1) : m < j => ops[j].Key # ops[i].Key
      BY <1>1, <2>4
    <2>6. m # 0
      <3>1. m = 0 <=> \A j \in 1..(i - 1) : ops[j].Key # ops[i].Key
        <4>1. i - 1 \in Nat
          BY <2>4
        <4> QED BY <4>1, LastOnDef
      <3>2. l \in 1..(i - 1)
        BY <2>1, <2>4
      <3> QED BY <2>4, <3>1, <3>2
    <2>7. m = l
      <3> HIDE DEF m
      <3>1. ~(m < l)
        <4>1. l \in 1..(i - 1)
          BY <2>1, <2>4
        <4> QED BY <2>4, <2>5, <2>6, <4>1
      <3>2. ~(l < m)
        <4>1. l < m => m \in T /\ m < i
          BY <2>1, <2>4, <2>5, <2>6
        <4>2. m \in T => i <= m
          BY <2>3
        <4> QED BY <2>4, <2>5, <4>1, <4>2
      <3> QED BY <2>1, <2>5, <3>1, <3>2
    <2>8. i \in P /\ f[i] = m
      BY <2>1, <2>4, <2>6, <2>7 DEF Follows, f
    <2> QED BY <2>7, <2>8
  <1>7. f \in Bijection(P, Q)
    BY <1>4, <1>5, <1>6 DEF Bijection, Injection, Surjection, IsInjective
  <1>8. ExistsBijection(P, Q)
    BY <1>7 DEF ExistsBijection
  <1>9. IsFiniteSet(P)
    <2>1. P \in SUBSET (1..e)
      BY DEF Follows
    <2> QED BY <2>1, PlacesFinite
  <1> QED BY <1>8, <1>9, FS_Bijection, Zenon

\* The places up to e: deletions, additions that are followed and additions
\* that count.
LEMMA FreedCount ==
  ASSUME NEW e \in Nat, NEW ops
  PROVE  /\ Cardinality(Follows(ops, e)) + Cardinality(Dels(ops, e))
              = e - Cardinality(Counted(ops, e))
         /\ Cardinality(Counted(ops, e)) \in 0..e
  <1> DEFINE Q == Followed(ops, e)
             C == Counted(ops, e)
             D == Dels(ops, e)
  <1>1. /\ IsFiniteSet(Q) /\ IsFiniteSet(C) /\ IsFiniteSet(D)
        /\ Cardinality(C) \in 0..e
    <2>1. Q \in SUBSET (1..e) /\ C \in SUBSET (1..e) /\ D \in SUBSET (1..e)
      BY DEF Followed, Counted, Dels
    <2> QED BY <2>1, PlacesFinite
  <1>2. D \cup (Q \cup C) = 1..e /\ Q \cap C = {} /\ D \cap (Q \cup C) = {}
    BY DEF Followed, Counted, Dels, Counts
  <1>3. Cardinality(1..e) = e /\ Cardinality({}) = 0
    BY FS_Interval, FS_EmptySet
  <1>4. /\ Cardinality(Q) \in Nat /\ Cardinality(C) \in Nat /\ Cardinality(D) \in Nat
    BY <1>1, FS_CardinalityType
  <1> HIDE DEF Q, C, D
  <1>5. /\ IsFiniteSet(Q \cup C)
        /\ Cardinality(Q \cup C) = Cardinality(Q) + Cardinality(C) - Cardinality(Q \cap C)
    BY <1>1, FS_Union
  <1>6. Cardinality(D \cup (Q \cup C))
          = Cardinality(D) + Cardinality(Q \cup C) - Cardinality(D \cap (Q \cup C))
    BY <1>1, <1>5, FS_Union
  <1>7. e = Cardinality(D) + Cardinality(Q) + Cardinality(C)
    <2>1. Cardinality(Q \cap C) = 0 /\ Cardinality(D \cap (Q \cup C)) = 0
      BY <1>2, <1>3
    <2>2. Cardinality(D \cup (Q \cup C)) = e
      BY <1>2, <1>3
    <2> DEFINE q == Cardinality(Q)
               c == Cardinality(C)
               d == Cardinality(D)
               u == Cardinality(Q \cup C)
    <2>3. u = q + c - 0 /\ e = d + u - 0 /\ q \in Nat /\ c \in Nat /\ d \in Nat
      BY <1>4, <1>5, <1>6, <2>1, <2>2
    <2> HIDE DEF q, c, d, u
    <2>4. e = d + q + c
      BY <2>3
    <2> QED BY <2>4 DEF q, c, d
  <1>8. Cardinality(Follows(ops, e)) = Cardinality(Q)
    BY FollowsCount DEF Q
  <1>9. Cardinality(Follows(ops, e)) + Cardinality(D) = e - Cardinality(C)
    BY <1>4, <1>7, <1>8
  <1> QED BY <1>1, <1>9 DEF D, C

\* The places that stay when the first e operations are defragmented.
Kept(ops, e) == Counted(ops, e) \cup (e + 1)..Len(ops)

\* defrag leaves the additions that count and what comes after place e.
LEMMA DefragDef ==
  ASSUME NEW X, NEW ops \in Seq(X), NEW e \in 0..Len(ops)
  PROVE  /\ Kept(ops, e) \in SUBSET (1..Len(ops))
         /\ Cardinality(Kept(ops, e)) = Cardinality(Counted(ops, e)) + (Len(ops) - e)
         /\ Cardinality(Counted(ops, e)) \in 0..e
         /\ Defrag(ops, e) = Picked(ops, Kept(ops, e))
  <1> DEFINE n == Len(ops)
             C == Counted(ops, e)
             a == SubSeq(ops, 1, e)
             b == SubSeq(ops, e + 1, n)
             K == Kept(ops, e)
             freed == Cardinality(Follows(ops, e)) + Cardinality(Dels(ops, e))
             pushed == Picked(ops, C) \o b
  <1>1. n \in Nat /\ e \in Nat /\ e <= n
    OBVIOUS
  <1>2. C \in SUBSET (1..e) /\ C \in SUBSET (1..n) /\ Cardinality(C) \in 0..e
    <2>1. Cardinality(C) \in 0..e
      BY <1>1, FreedCount
    <2>2. \A i \in 1..e : i \in 1..n
      BY <1>1
    <2>3. C \in SUBSET (1..e)
      BY DEF Counted
    <2> HIDE DEF C
    <2> QED BY <2>1, <2>2, <2>3
  <1>3. /\ a \in Seq(X) /\ Len(a) = e /\ \A i \in 1..e : a[i] = ops[i]
    <2>1. \A i \in 1..e : ops[i] \in X
      <3>1. \A i \in 1..n : ops[i] \in X
        BY ElementOfSeq
      <3>2. \A i \in 1..e : i \in 1..n
        BY <1>1
      <3> QED BY <3>1, <3>2
    <2> QED BY <1>1, <2>1, SubSeqProperties
  <1>4. /\ b \in Seq(X) /\ Len(b) = n - e /\ \A i \in 1..(n - e) : b[i] = ops[e + i]
    <2>1. \A i \in (e + 1)..n : ops[i] \in X
      <3>1. \A i \in 1..n : ops[i] \in X
        BY ElementOfSeq
      <3>2. \A i \in (e + 1)..n : i \in 1..n
        BY <1>1
      <3> QED BY <3>1, <3>2
    <2>2. /\ b \in Seq(X)
          /\ Len(b) = IF e + 1 <= n THEN n - (e + 1) + 1 ELSE 0
          /\ \A i \in 1..(n - (e + 1) + 1) : b[i] = ops[e + 1 + i - 1]
      BY <1>1, <2>1, SubSeqProperties
    <2>3. n - (e + 1) + 1 = n - e /\ \A i \in 1..(n - e) : e + 1 + i - 1 = e + i
      BY <1>1
    <2>4. Len(b) = n - e
      BY <1>1, <2>2
    <2> QED BY <2>2, <2>3, <2>4
  <1>5. a \o b = ops
    <2> HIDE DEF a, b, n
    <2> DEFINE c == a \o b
    <2>1. /\ c \in Seq(X) /\ Len(c) = Len(a) + Len(b)
          /\ \A i \in 1..(Len(a) + Len(b)) : c[i] = IF i <= Len(a) THEN a[i] ELSE b[i - Len(a)]
      BY <1>3, <1>4, ConcatProperties
    <2> HIDE DEF c
    <2>2. Len(a) + Len(b) = n
      BY <1>1, <1>3, <1>4
    <2>3. Len(c) = n /\ \A i \in 1..n : c[i] = IF i <= e THEN a[i] ELSE b[i - e]
      BY <1>3, <2>1, <2>2
    <2>4. ASSUME NEW i \in 1..n PROVE c[i] = ops[i]
      <3>1. CASE i <= e
        BY <1>1, <1>3, <2>3, <3>1
      <3>2. CASE ~(i <= e)
        <4>1. i - e \in 1..(n - e) /\ e + (i - e) = i
          BY <1>1, <3>2
        <4> QED BY <1>4, <2>3, <3>2, <4>1
      <3> QED BY <3>1, <3>2
    <2>5. c = ops
      BY <2>1, <2>3, <2>4, SeqEqual DEF n
    <2> QED BY <2>5 DEF c
  <1>6. Joined(e, C, 1..(n - e)) = K
    <2>1. \A i \in 1..(n - e) : e + i \in (e + 1)..n
      BY <1>1
    <2>2. \A i \in (e + 1)..n : i - e \in 1..(n - e) /\ i = e + (i - e)
      BY <1>1
    <2> QED BY <2>1, <2>2 DEF Joined, Kept
  <1> HIDE DEF C, K
  <1>7. Picked(b, 1..(n - e)) = b
    BY <1>4, PickedAll
  <1>8. Picked(ops, C) = Picked(a, C)
    BY <1>2, <1>3, PickedAgree
  <1>9. /\ K \in SUBSET (1..n) /\ Picked(ops, K) = Picked(a, C) \o b
    <2>1. C \in SUBSET (1..Len(a)) /\ 1..(n - e) \in SUBSET (1..Len(b))
      BY <1>2, <1>3, <1>4
    <2> DEFINE T == 1..(n - e)
    <2> HIDE DEF a, b, T, n
    <2>2. /\ Joined(Len(a), C, T) \in SUBSET (1..Len(a \o b))
          /\ Picked(a \o b, Joined(Len(a), C, T)) = Picked(a, C) \o Picked(b, T)
      <3>1. C \in SUBSET (1..Len(a)) /\ T \in SUBSET (1..Len(b))
        BY <2>1 DEF T
      <3>2. a \in Seq(X) /\ b \in Seq(X)
        BY <1>3, <1>4
      <3> HIDE <1>3, <1>4
      <3> QED BY <3>1, <3>2, PickedConcat
    <2>3. Len(a) = e /\ Joined(e, C, T) = K /\ Picked(b, T) = b
      BY <1>3, <1>6, <1>7 DEF T
    <2> QED BY <1>5, <2>2, <2>3 DEF n
  <1>10. pushed = Picked(ops, K)
    BY <1>8, <1>9
  <1>11. /\ Picked(ops, C) \in Seq(X) /\ Len(Picked(ops, C)) = Cardinality(C)
    BY <1>2, PickedType
  <1>12. pushed \in Seq(X) /\ Len(pushed) = Cardinality(C) + (n - e)
    BY <1>4, <1>11, ConcatProperties
  <1>13. Cardinality(K) = Len(pushed)
    BY <1>9, <1>10, PickedType
  <1>14. n - freed = Len(pushed)
    <2>1. freed = e - Cardinality(C)
      BY <1>1, FreedCount DEF C
    <2> QED BY <1>1, <1>2, <1>12, <2>1
  <1>15. Defrag(ops, e) = SubSeq(pushed, 1, n - freed)
    BY DEF Defrag, Follows, Dels, C, Counted
  <1> HIDE DEF pushed
  <1>16. Defrag(ops, e) = pushed
    BY <1>12, <1>14, <1>15, SubSeqFull
  <1> QED BY <1>2, <1>9, <1>10, <1>12, <1>13, <1>16 DEF K, C

\* f says where in ops the operations of its defragmentation d come from: the
\* first m are those up to e that count, the others are the ones after e.
ComeFrom(f, d, ops, e, m) ==
  /\ m \in 0..e
  /\ Len(d) = m + (Len(ops) - e)
  /\ f \in [1..Len(d) -> 1..Len(ops)]
  /\ \A t \in 1..Len(d) : d[t] = ops[f[t]]
  /\ \A t \in 1..m : f[t] \in 1..e /\ ~ops[f[t]].Delete /\ IsLast(ops, e, f[t])
  /\ \A t \in (m + 1)..Len(d) : f[t] = t + (e - m)
  /\ \A i \in 1..e : ~ops[i].Delete /\ IsLast(ops, e, i) => \E t \in 1..m : f[t] = i
  /\ \A t, u \in 1..Len(d) : t < u => f[t] < f[u]

LEMMA DefragPlaces ==
  ASSUME NEW X, NEW ops \in Seq(X), NEW e \in 0..Len(ops)
  PROVE  /\ Defrag(ops, e) \in Seq(X)
         /\ ComeFrom(InOrder(Kept(ops, e)), Defrag(ops, e), ops, e,
                     Cardinality(Counted(ops, e)))
  <1> DEFINE n == Len(ops)
             C == Counted(ops, e)
             K == Kept(ops, e)
             m == Cardinality(C)
             f == InOrder(K)
             d == Defrag(ops, e)
  <1>1. n \in Nat /\ e \in Nat /\ e <= n
    OBVIOUS
  <1>2. K \in SUBSET (1..n) /\ Cardinality(K) = m + (n - e) /\ m \in 0..e /\ d = Picked(ops, K)
    BY DefragDef
  <1>3. C \in SUBSET (1..e) /\ K = C \cup (e + 1)..n
    BY DEF Kept, Counted
  <1>4. \A i \in 1..e : i \in C <=> ~ops[i].Delete /\ IsLast(ops, e, i)
    BY <1>1, CountsDef DEF Counted
  <1> HIDE DEF K, C
  <1>5. IsFiniteSet(K) /\ K \in SUBSET Int /\ IsFiniteSet(C)
    <2>1. IsFiniteSet(K) /\ K \in SUBSET Int
      BY <1>1, <1>2, PlacesFinite
    <2>2. IsFiniteSet(C)
      BY <1>1, <1>3, PlacesFinite
    <2> QED BY <2>1, <2>2
  <1>6. /\ d \in Seq(X) /\ Len(d) = m + (n - e)
        /\ \A p \in 1..(m + (n - e)) : d[p] = ops[f[p]]
    BY <1>2, PickedType
  <1>7. /\ f \in [1..Len(d) -> K]
        /\ \A p \in 1..Len(d) : Rank(K, f[p]) = p
        /\ \A i \in K : Rank(K, i) \in 1..Len(d) /\ f[Rank(K, i)] = i
        /\ \A p, q \in 1..Len(d) : p < q => f[p] < f[q]
    BY <1>2, <1>5, <1>6, InOrderEnumerates
  <1> HIDE DEF f, d, n
  <1>8. ASSUME NEW j \in (e + 1)..n PROVE Rank(K, j) = m + (j - e)
    <2> DEFINE R == (e + 1)..j
               T == {i \in K : i <= j}
    <2>1. IsFiniteSet(R) /\ Cardinality(R) = j - e
      <3>1. e + 1 \in Int /\ j \in Int /\ ~(e + 1 > j) /\ j - (e + 1) + 1 = j - e
        BY <1>1
      <3> QED BY <3>1, FS_Interval
    <2>2. T = C \cup R /\ C \cap R = {}
      <3>1. \A i \in C : i \in Int /\ i <= j /\ i \notin R
        BY <1>1, <1>3
      <3>2. \A i \in R : i \in (e + 1)..n /\ i <= j
        BY <1>1
      <3>3. \A i \in (e + 1)..n : i <= j => i \in R
        BY <1>1
      <3> HIDE DEF R
      <3> QED BY <1>3, <3>1, <3>2, <3>3
    <2> HIDE DEF T, R
    <2>3. Cardinality(T) = Cardinality(C) + Cardinality(R) - Cardinality(C \cap R)
      BY <1>5, <2>1, <2>2, FS_Union
    <2>4. Cardinality(C \cap R) = 0
      BY <2>2, FS_EmptySet
    <2>5. Cardinality(T) = m + (j - e)
      BY <1>1, <1>2, <2>1, <2>3, <2>4
    <2> QED BY <2>5 DEF Rank, T
  <1>9. ASSUME NEW i \in C PROVE Rank(K, i) \in 1..m
    <2>1. i \in 1..e /\ i \in K
      BY <1>3
    <2>2. {j \in K : j <= i} \in SUBSET C
      BY <1>1, <1>3, <2>1
    <2>3. Rank(K, i) <= m
      BY <1>5, <2>2, FS_Subset DEF Rank
    <2> QED BY <1>2, <1>7, <2>1, <2>3
  <1>10. \A t \in 1..Len(d) : f[t] \in K /\ f[t] \in 1..n
    <2> HIDE DEF m
    <2> QED BY <1>2, <1>7
  <1>11. ASSUME NEW t \in 1..m PROVE t \in 1..Len(d) /\ f[t] \in C
    <2>1. t \in 1..Len(d)
      BY <1>1, <1>2, <1>6
    <2>2. f[t] \in K /\ Rank(K, f[t]) = t
      BY <1>7, <2>1
    <2>3. f[t] \notin (e + 1)..n
      BY <1>1, <1>2, <1>8, <2>2
    <2> QED BY <1>3, <2>1, <2>2, <2>3
  <1>12. ASSUME NEW t \in (m + 1)..Len(d) PROVE f[t] = t + (e - m)
    <2>1. t \in 1..Len(d) /\ ~(t <= m)
      BY <1>1, <1>2
    <2>2. f[t] \in K /\ Rank(K, f[t]) = t
      BY <1>7, <2>1
    <2>3. f[t] \notin C
      BY <1>9, <2>1, <2>2
    <2>4. f[t] \in (e + 1)..n
      BY <1>3, <2>2, <2>3
    <2>5. t = m + (f[t] - e)
      BY <1>8, <2>2, <2>4
    <2> QED BY <1>1, <1>2, <2>4, <2>5
  <1>13. \A i \in C : \E t \in 1..m : f[t] = i
    BY <1>3, <1>7, <1>9
  <1>14. \A t \in 1..Len(d) : d[t] = ops[f[t]]
    BY <1>6
  <1>15. \A t \in 1..m : f[t] \in 1..e /\ ~ops[f[t]].Delete /\ IsLast(ops, e, f[t])
    BY <1>3, <1>4, <1>11
  <1>16. \A i \in 1..e : ~ops[i].Delete /\ IsLast(ops, e, i) => \E t \in 1..m : f[t] = i
    BY <1>4, <1>13
  <1>17. f \in [1..Len(d) -> 1..n]
    BY <1>2, <1>7
  <1>18. ComeFrom(f, d, ops, e, m)
    BY <1>2, <1>6, <1>7, <1>12, <1>14, <1>15, <1>16, <1>17 DEF ComeFrom, n
  <1> QED BY <1>6, <1>18 DEF f, d, K, C

\* The additions that the defragmentation pushed up count in the new log.
LEMMA DefragCounts ==
  ASSUME NEW X, NEW ops \in Seq(X), NEW e \in 0..Len(ops)
  PROVE  LET m == Cardinality(Counted(ops, e))
         IN  \A t \in 1..m : Counts(Defrag(ops, e), m, t)
  <1> DEFINE m == Cardinality(Counted(ops, e))
             d == Defrag(ops, e)
             f == InOrder(Kept(ops, e))
  <1>1. ComeFrom(f, d, ops, e, m)
    BY DefragPlaces
  <1> HIDE DEF m, d, f
  <1>2. m \in Nat /\ e \in Nat /\ Len(ops) \in Nat /\ e <= Len(ops)
    BY <1>1 DEF ComeFrom
  <1>3. \A t \in 1..m : t \in 1..Len(d)
    BY <1>1, <1>2 DEF ComeFrom
  <1>4. ASSUME NEW t \in 1..m PROVE Counts(d, m, t)
    <2>1. ASSUME NEW u \in 1..m, t < u PROVE d[u].Key # d[t].Key
      <3>1. d[u] = ops[f[u]] /\ d[t] = ops[f[t]] /\ f[t] < f[u]
        BY <1>1, <1>3, <2>1 DEF ComeFrom
      <3>2. f[u] \in 1..e /\ IsLast(ops, e, f[t])
        BY <1>1 DEF ComeFrom
      <3> QED BY <3>1, <3>2 DEF IsLast
    <2>2. ~d[t].Delete
      BY <1>1, <1>3 DEF ComeFrom
    <2>3. IsLast(d, m, t)
      BY <2>1 DEF IsLast
    <2> QED BY <1>2, <2>2, <2>3, CountsDef
  <1> QED BY <1>4 DEF m, d

\* A log whose first e operations count stays as it is.
LEMMA DefragCompact ==
  ASSUME NEW X, NEW ops \in Seq(X), NEW e \in 0..Len(ops),
         \A i \in 1..e : Counts(ops, e, i)
  PROVE  Defrag(ops, e) = ops
  <1>1. Defrag(ops, e) = Picked(ops, Kept(ops, e))
    BY DefragDef
  <1>2. Counted(ops, e) = 1..e
    BY DEF Counted
  <1>3. Len(ops) \in Nat /\ e \in Nat /\ e <= Len(ops)
    OBVIOUS
  <1>4. Kept(ops, e) = 1..Len(ops)
    BY <1>2, <1>3 DEF Kept
  <1> QED BY <1>1, <1>4, PickedAll

\* A log says the same of every key before and after defrag, wherever it ends.
THEOREM DefragReplays ==
  ASSUME NEW X, NEW ops \in Seq(X), NEW e \in 0..Len(ops)
  PROVE  Replayed(EmptyMap, Defrag(ops, e)) = Replayed(EmptyMap, ops)
  <1> DEFINE m == Cardinality(Counted(ops, e))
             d == Defrag(ops, e)
             f == InOrder(Kept(ops, e))
             r == Replayed(EmptyMap, d)
             n == Len(ops)
             l == Len(d)
  <1>1. ComeFrom(f, d, ops, e, m) /\ d \in Seq(X)
    BY DefragPlaces
  <1>2. n \in Nat /\ l \in Nat
    BY <1>1
  <1>3. MapAfter(r, EmptyMap, d)
    BY <1>2, ReplayedDef
  <1> HIDE DEF m, d, f, r, n, l
  <1>4. /\ m \in Nat /\ e \in Nat /\ e <= n /\ m <= e /\ l = m + (n - e)
        /\ \A t \in 1..m : t \in 1..l
    BY <1>1, <1>2 DEF ComeFrom, n, l
  <1>5. \A t \in 1..l : f[t] \in 1..n /\ d[t] = ops[f[t]]
    BY <1>1 DEF ComeFrom, n, l
  <1>6. \A t, u \in 1..l : t < u => f[t] < f[u]
    BY <1>1 DEF ComeFrom, l
  <1>7. ASSUME NEW i \in 1..n
        PROVE  \/ \E t \in 1..l : f[t] = i
               \/ i \in 1..e /\ ~(~ops[i].Delete /\ IsLast(ops, e, i))
    <2>1. CASE i <= e
      <3>1. i \in 1..e
        BY <1>4, <2>1
      <3> QED BY <1>1, <1>4, <3>1 DEF ComeFrom
    <2>2. CASE ~(i <= e)
      <3>1. i - (e - m) \in (m + 1)..l /\ i - (e - m) + (e - m) = i
        BY <1>2, <1>4, <2>2
      <3>2. i - (e - m) \in 1..l
        BY <1>2, <1>4, <2>2
      <3> QED BY <1>1, <3>1, <3>2 DEF ComeFrom, l
    <2> QED BY <2>1, <2>2
  <1>8. ASSUME NEW i \in 1..n, IsLast(ops, n, i)
        PROVE  /\ ops[i].Key \in DOMAIN r <=> ~ops[i].Delete
               /\ ~ops[i].Delete => r[ops[i].Key] = ops[i].data
    <2>1. CASE \E t \in 1..l : f[t] = i
      <3>1. PICK t \in 1..l : f[t] = i
        BY <2>1
      <3>2. ASSUME NEW u \in 1..l, t < u PROVE d[u].Key # d[t].Key
        BY <1>5, <1>6, <1>8, <3>1, <3>2 DEF IsLast
      <3>3. IsLast(d, l, t) /\ d[t] = ops[i]
        BY <1>5, <3>1, <3>2 DEF IsLast
      <3> QED BY <1>3, <3>3 DEF MapAfter, l
    <2>2. CASE \A t \in 1..l : f[t] # i
      <3>1. i \in 1..e /\ ~(~ops[i].Delete /\ IsLast(ops, e, i))
        BY <1>7, <2>2
      <3>2. IsLast(ops, e, i)
        <4>1. \A j \in 1..e : j \in 1..n
          BY <1>2, <1>4
        <4> QED BY <1>8, <3>1, <4>1 DEF IsLast
      <3>3. ops[i].Delete
        BY <3>1, <3>2
      <3>4. ASSUME NEW t \in 1..l PROVE d[t].Key # ops[i].Key
        <4>1. f[t] \in 1..n /\ f[t] # i /\ d[t] = ops[f[t]]
          BY <1>5, <2>2
        <4>2. CASE i < f[t]
          BY <1>8, <4>1, <4>2 DEF IsLast
        <4>3. CASE f[t] < i
          <5>1. t \in 1..m
            <6>1. t \in (m + 1)..l => f[t] = t + (e - m)
              BY <1>1 DEF ComeFrom, l
            <6> QED BY <1>2, <1>4, <3>1, <4>1, <4>3, <6>1
          <5>2. IsLast(ops, e, f[t])
            BY <1>1, <5>1 DEF ComeFrom
          <5> QED BY <3>1, <4>1, <4>3, <5>2 DEF IsLast
        <4>4. f[t] \in Int /\ i \in Int
          BY <1>2, <4>1
        <4> QED BY <4>1, <4>2, <4>3, <4>4
      <3>5. ops[i].Key \notin DOMAIN r
        BY <1>3, <3>4 DEF MapAfter, l, EmptyMap
      <3> QED BY <3>3, <3>5
    <2> QED BY <2>1, <2>2
  <1>9. ASSUME NEW k, \A i \in 1..n : ops[i].Key # k
        PROVE  k \in DOMAIN r <=> k \in DOMAIN EmptyMap
    <2>1. \A t \in 1..l : d[t].Key # k
      BY <1>5, <1>9
    <2> QED BY <1>3, <2>1 DEF MapAfter, l
  <1>10. \A k : k \notin DOMAIN EmptyMap
    BY DEF EmptyMap
  <1>11. MapAfter(r, EmptyMap, ops)
    BY <1>3, <1>8, <1>9, <1>10 DEF MapAfter, n
  <1>12. MapAfter(Replayed(EmptyMap, ops), EmptyMap, ops)
    BY <1>2, ReplayedDef DEF n
  <1>13. r = Replayed(EmptyMap, ops)
    BY <1>2, <1>11, <1>12, MapAfterUnique DEF n
  <1> QED BY <1>13 DEF r, d

-----------------------------------------------------------------------------
\* The log with what goes over the wire of each operation.
Keyed(ops) == [i \in 1..Len(ops) |-> KeyOf(ops[i])]

LEMMA KeyedType ==
  ASSUME NEW X, NEW ops \in Seq(X)
  PROVE  /\ Keyed(ops) \in Seq({KeyOf(x) : x \in X}) /\ Len(Keyed(ops)) = Len(ops)
         /\ \A i \in 1..Len(ops) : /\ Keyed(ops)[i] = KeyOf(ops[i])
                                   /\ Keyed(ops)[i].Key = ops[i].Key
                                   /\ Keyed(ops)[i].Delete = ops[i].Delete
  <1>1. Len(ops) \in Nat /\ \A i \in 1..Len(ops) : ops[i] \in X
    BY ElementOfSeq
  <1> DEFINE n == Len(ops)
             k == Keyed(ops)
             Y == {KeyOf(x) : x \in X}
  <1>2. k = [i \in 1..n |-> KeyOf(ops[i])]
    BY DEF Keyed
  <1>3. \A i \in 1..n : KeyOf(ops[i]) \in Y
    BY <1>1
  <1> HIDE DEF k, n, Y
  <1>4. k \in [1..n -> Y] /\ \A i \in 1..n : k[i] = KeyOf(ops[i])
    BY <1>2, <1>3
  <1>5. k \in Seq(Y) /\ Len(k) = n
    BY <1>1, <1>4 DEF n
  <1>6. \A i \in 1..n : k[i].Key = ops[i].Key /\ k[i].Delete = ops[i].Delete
    BY <1>4 DEF KeyOf
  <1> QED BY <1>4, <1>5, <1>6 DEF k, n, Y

\* Logs that agree on the first e operations in what counts.
LEMMA CountedAgree ==
  ASSUME NEW e \in Nat, NEW a, NEW b,
         \A i \in 1..e : a[i].Key = b[i].Key /\ a[i].Delete = b[i].Delete
  PROVE  /\ Counted(a, e) = Counted(b, e)
         /\ \A i \in 1..e : Counts(a, e, i) <=> Counts(b, e, i)
  <1>1. ASSUME NEW i \in 1..e PROVE Counts(a, e, i) <=> Counts(b, e, i)
    <2>1. IsLast(a, e, i) <=> IsLast(b, e, i)
      BY DEF IsLast
    <2> QED BY <2>1, CountsDef
  <1> QED BY <1>1 DEF Counted

\* Keying and defragmenting commute.
LEMMA DefragKeyed ==
  ASSUME NEW X, NEW ops \in Seq(X), NEW e \in 0..Len(ops)
  PROVE  Defrag(Keyed(ops), e) = Keyed(Defrag(ops, e))
  <1> DEFINE k == Keyed(ops)
             Y == {KeyOf(x) : x \in X}
             K == Kept(ops, e)
             n == Cardinality(K)
             d == Picked(ops, K)
             h == Picked(k, K)
  <1>1. /\ k \in Seq(Y) /\ Len(k) = Len(ops)
        /\ \A i \in 1..Len(ops) : /\ k[i] = KeyOf(ops[i])
                                  /\ k[i].Key = ops[i].Key /\ k[i].Delete = ops[i].Delete
    BY KeyedType
  <1>2. /\ K \in SUBSET (1..Len(ops)) /\ Defrag(ops, e) = d
    BY DefragDef
  <1>3. e \in Nat /\ Len(ops) \in Nat /\ e <= Len(ops)
    OBVIOUS
  <1> HIDE DEF k, Y
  <1>4. Kept(k, e) = K
    <2>1. \A i \in 1..e : i \in 1..Len(ops)
      BY <1>3
    <2>2. Counted(k, e) = Counted(ops, e)
      BY <1>1, <1>3, <2>1, CountedAgree
    <2> QED BY <1>1, <2>2 DEF Kept
  <1>5. Defrag(k, e) = Picked(k, Kept(k, e))
    <2>1. e \in 0..Len(k)
      BY <1>1, <1>3
    <2> QED BY <1>1, <2>1, DefragDef
  <1> HIDE DEF K
  <1>6. /\ d \in Seq(X) /\ Len(d) = n /\ InOrder(K) \in [1..n -> K]
        /\ \A p \in 1..n : d[p] = ops[InOrder(K)[p]]
    BY <1>2, PickedType
  <1>7. /\ h \in Seq(Y) /\ Len(h) = n
        /\ \A p \in 1..n : h[p] = k[InOrder(K)[p]]
    BY <1>1, <1>2, PickedType
  <1>8. Len(Keyed(d)) = n /\ \A p \in 1..n : Keyed(d)[p] = KeyOf(d[p])
    BY <1>6, KeyedType
  <1>9. Keyed(d) \in Seq(Y)
    BY <1>6, KeyedType DEF Y
  <1> HIDE DEF d, h, n
  <1>10. \A p \in 1..n : InOrder(K)[p] \in 1..Len(ops)
    BY <1>2, <1>6
  <1>11. \A p \in 1..Len(h) : h[p] = Keyed(d)[p]
    BY <1>1, <1>6, <1>7, <1>8, <1>10
  <1>12. h = Keyed(d)
    BY <1>7, <1>8, <1>9, <1>11, SeqEqual
  <1> QED BY <1>2, <1>4, <1>5, <1>12 DEF h, k

\* Operations that come later do not matter.
LEMMA DefragConcat ==
  ASSUME NEW X, NEW a \in Seq(X), NEW b \in Seq(X), NEW e \in 0..Len(a)
  PROVE  Defrag(a \o b, e) = Defrag(a, e) \o b
  <1> DEFINE c == a \o b
             n == Len(a)
             m == Len(b)
             K == Kept(a, e)
             T == 1..m
  <1>1. /\ n \in Nat /\ m \in Nat /\ c \in Seq(X) /\ Len(c) = n + m
        /\ \A i \in 1..(n + m) : c[i] = IF i <= n THEN a[i] ELSE b[i - n]
    BY ConcatProperties
  <1>2. e \in Nat /\ e <= n
    OBVIOUS
  <1>3. K \in SUBSET (1..n) /\ Defrag(a, e) = Picked(a, K)
    BY DefragDef
  <1>4. Picked(b, T) = b /\ T \in SUBSET (1..m)
    BY PickedAll
  <1>5. Picked(c, Joined(n, K, T)) = Picked(a, K) \o Picked(b, T)
    <2> HIDE DEF K, T
    <2> QED BY <1>3, <1>4, PickedConcat
  <1> HIDE DEF c, n, m
  <1>6. Counted(c, e) = Counted(a, e)
    <2>1. \A i \in 1..e : i \in 1..(n + m) /\ i <= n
      BY <1>1, <1>2
    <2>2. \A i \in 1..e : c[i] = a[i]
      BY <1>1, <2>1
    <2> QED BY <1>2, <2>2, CountedAgree
  <1>7. Kept(c, e) = Joined(n, K, T)
    <2>1. \A i \in (e + 1)..(n + m) : i \in (e + 1)..n \/ (i - n \in T /\ i = n + (i - n))
      BY <1>1, <1>2
    <2>2. \A i \in (e + 1)..n : i \in (e + 1)..(n + m)
      BY <1>1, <1>2
    <2>3. \A i \in T : n + i \in (e + 1)..(n + m)
      BY <1>1, <1>2
    <2>4. Kept(c, e) = Counted(a, e) \cup (e + 1)..(n + m)
      BY <1>1, <1>6 DEF Kept
    <2>5. K = Counted(a, e) \cup (e + 1)..n
      BY DEF Kept, n
    <2> HIDE DEF K, T
    <2> QED BY <2>1, <2>2, <2>3, <2>4, <2>5 DEF Joined
  <1>8. Defrag(c, e) = Picked(c, Kept(c, e))
    <2>1. e \in 0..Len(c)
      BY <1>1, <1>2
    <2> QED BY <1>1, <2>1, DefragDef
  <1> QED BY <1>3, <1>4, <1>5, <1>7, <1>8 DEF c

\* Two defragmentations, of the first a operations and then up to place b of
\* the old log, leave what the second alone would: a client that has missed
\* some needs the latest only.
THEOREM DefragTwice ==
  ASSUME NEW X, NEW ops \in Seq(X), NEW a \in Nat, NEW b \in Nat,
         a <= b, b <= Len(ops)
  PROVE  LET freed == Len(ops) - Len(Defrag(ops, a))
         IN  /\ freed \in 0..a
             /\ b - freed \in 0..Len(Defrag(ops, a))
             /\ Defrag(Defrag(ops, a), b - freed) = Defrag(ops, b)
  <1> DEFINE n == Len(ops)
             d == Defrag(ops, a)
             K == Kept(ops, a)
             m == Cardinality(Counted(ops, a))
             f == InOrder(K)
             l == Len(d)
             freed == n - l
             c == b - freed
             T == Kept(d, c)
             U == {f[t] : t \in T}
  <1>1. n \in Nat /\ a \in 0..n /\ b \in 0..n
    OBVIOUS
  <1>2. d \in Seq(X) /\ ComeFrom(f, d, ops, a, m)
    BY <1>1, DefragPlaces
  <1>3. K \in SUBSET (1..n) /\ d = Picked(ops, K) /\ l = Cardinality(K)
    <2>1. K \in SUBSET (1..n) /\ d = Picked(ops, K)
      BY <1>1, DefragDef
    <2> HIDE DEF K, d
    <2> QED BY <2>1, PickedType
  <1> HIDE DEF d, K, m, f, l, n
  <1>4. m \in 0..a /\ l = m + (n - a)
    BY <1>2 DEF ComeFrom, n, l
  <1>5. freed = a - m /\ freed \in 0..a /\ c \in m..l /\ c \in 0..l /\ l \in Nat
        /\ m \in Nat /\ m <= l /\ c = b - (a - m)
    BY <1>1, <1>4
  <1> HIDE DEF freed, c
  <1>6. \A t \in 1..l : f[t] \in 1..n /\ d[t] = ops[f[t]]
    BY <1>2 DEF ComeFrom, n, l
  <1>7. \A t, u \in 1..l : t < u => f[t] < f[u]
    BY <1>2 DEF ComeFrom, l
  <1>8. \A t \in 1..m : /\ f[t] \in 1..a /\ ~ops[f[t]].Delete /\ IsLast(ops, a, f[t])
                        /\ t \in 1..l
    BY <1>2, <1>5 DEF ComeFrom
  <1>9. \A t \in 1..l : m < t => f[t] = t + (a - m)
    <2>1. \A t \in 1..l : m < t => t \in (m + 1)..l
      BY <1>5
    <2> QED BY <1>2, <2>1 DEF ComeFrom, l
  <1>10. \A i \in 1..a : ~ops[i].Delete /\ IsLast(ops, a, i) => \E t \in 1..m : f[t] = i
    BY <1>2 DEF ComeFrom
  <1>11. ASSUME NEW i \in (a + 1)..n
         PROVE  i - (a - m) \in 1..l /\ m < i - (a - m) /\ f[i - (a - m)] = i
    <2>1. i - (a - m) \in 1..l /\ m < i - (a - m) /\ i - (a - m) + (a - m) = i
      BY <1>1, <1>4, <1>5
    <2> QED BY <1>9, <2>1
  <1>12. ASSUME NEW t \in 1..l PROVE (t <= c => f[t] <= b) /\ (c < t => b < f[t])
    <2>1. CASE m < t
      <3>1. f[t] = t + (a - m)
        BY <1>9, <2>1
      <3> QED BY <1>1, <1>4, <1>5, <3>1
    <2>2. CASE ~(m < t)
      <3>1. t \in 1..m
        BY <1>5, <2>2
      <3>2. f[t] \in 1..a
        BY <1>8, <3>1
      <3> QED BY <1>1, <1>5, <3>1, <3>2
    <2> QED BY <2>1, <2>2
  <1>13. ASSUME NEW t \in 1..c PROVE Counts(d, c, t) <=> Counts(ops, b, f[t])
    <2>1. t \in 1..l /\ f[t] \in 1..b /\ d[t] = ops[f[t]]
      <3>1. t \in 1..l /\ t <= c
        BY <1>5
      <3>2. f[t] \in 1..n /\ f[t] <= b
        BY <1>6, <1>12, <3>1
      <3> QED BY <1>1, <1>6, <3>1, <3>2
    <2>2. ASSUME IsLast(ops, b, f[t]) PROVE IsLast(d, c, t)
      <3>1. ASSUME NEW u \in 1..c, t < u PROVE d[u].Key # d[t].Key
        <4>1. u \in 1..l /\ u <= c
          BY <1>5
        <4>2. f[u] \in 1..n /\ f[u] <= b /\ f[t] < f[u] /\ d[u] = ops[f[u]]
          BY <1>6, <1>7, <1>12, <2>1, <3>1, <4>1
        <4>3. f[u] \in 1..b
          BY <1>1, <4>2
        <4> QED BY <2>1, <2>2, <4>2, <4>3 DEF IsLast
      <3> QED BY <3>1 DEF IsLast
    <2>3. ASSUME ~d[t].Delete, IsLast(d, c, t) PROVE IsLast(ops, b, f[t])
      <3>1. ASSUME NEW x \in 1..b, f[t] < x, ops[x].Key = ops[f[t]].Key PROVE FALSE
        <4>1. CASE x <= a
          <5>1. x \in 1..a /\ f[t] < x /\ f[t] \in Int
            BY <1>1, <2>1, <3>1, <4>1
          <5>2. m < t => FALSE
            <6>1. m < t => f[t] = t + (a - m)
              BY <1>9, <2>1
            <6> QED BY <1>1, <1>5, <4>1, <5>1, <6>1
          <5>3. t \in 1..m
            BY <1>5, <5>2
          <5>4. IsLast(ops, a, f[t])
            BY <1>8, <5>3
          <5> QED BY <3>1, <5>1, <5>4 DEF IsLast
        <4>2. CASE ~(x <= a)
          <5> DEFINE u == x - (a - m)
          <5>1. x \in (a + 1)..n
            BY <1>1, <4>2
          <5>2. u \in 1..l /\ f[u] = x
            BY <1>11, <5>1
          <5>3. u \in 1..c
            BY <1>1, <1>5, <5>1, <5>2
          <5> HIDE DEF u
          <5>4. ~(u < t) /\ u # t
            <6>1. u < t => f[u] < f[t]
              BY <1>7, <2>1, <5>2
            <6>2. f[t] \in Int /\ x \in Int
              BY <1>1, <2>1
            <6> QED BY <3>1, <5>2, <6>1, <6>2
          <5>5. t < u
            BY <1>5, <5>3, <5>4
          <5>6. d[u] = ops[x]
            BY <1>6, <5>2
          <5> QED BY <2>1, <2>3, <3>1, <5>3, <5>5, <5>6 DEF IsLast
        <4> QED BY <4>1, <4>2
      <3> QED BY <2>1, <3>1 DEF IsLast
    <2>4. /\ Counts(d, c, t) <=> ~d[t].Delete /\ IsLast(d, c, t)
          /\ Counts(ops, b, f[t]) <=> ~ops[f[t]].Delete /\ IsLast(ops, b, f[t])
      <3>1. c \in Nat
        BY <1>5
      <3> QED BY <2>1, <3>1, CountsDef
    <2> QED BY <2>1, <2>2, <2>3, <2>4
  <1>14. T = Counted(d, c) \cup (c + 1)..l /\ Kept(ops, b) = Counted(ops, b) \cup (b + 1)..n
    BY DEF Kept, l, n
  <1> HIDE DEF T, U
  <1>15. ASSUME NEW t \in T PROVE t \in 1..l /\ f[t] \in Kept(ops, b)
    <2>1. CASE t \in Counted(d, c)
      <3>1. t \in 1..c /\ Counts(d, c, t)
        BY <2>1 DEF Counted
      <3>2. Counts(ops, b, f[t]) /\ t \in 1..l /\ t <= c
        BY <1>5, <1>13, <3>1
      <3>3. f[t] \in 1..b
        BY <1>1, <1>6, <1>12, <3>2
      <3> QED BY <1>14, <3>2, <3>3 DEF Counted
    <2>2. CASE t \in (c + 1)..l
      <3>1. t \in 1..l /\ c < t
        BY <1>5, <2>2
      <3>2. f[t] \in 1..n /\ b < f[t]
        BY <1>6, <1>12, <3>1
      <3>3. f[t] \in (b + 1)..n
        BY <1>1, <3>2
      <3> QED BY <1>14, <3>1, <3>3
    <2> QED BY <1>14, <2>1, <2>2
  <1>16. ASSUME NEW i \in Kept(ops, b) PROVE \E t \in T : f[t] = i
    <2>1. CASE i \in (b + 1)..n
      <3> DEFINE t == i - (a - m)
      <3>1. i \in (a + 1)..n
        BY <1>1, <2>1
      <3>2. t \in 1..l /\ f[t] = i
        BY <1>11, <3>1
      <3>3. t \in (c + 1)..l
        BY <1>1, <1>5, <2>1, <3>2
      <3> QED BY <1>14, <3>2, <3>3
    <2>2. CASE i \in Counted(ops, b)
      <3>1. i \in 1..b /\ Counts(ops, b, i)
        BY <2>2 DEF Counted
      <3>2. ~ops[i].Delete /\ IsLast(ops, b, i)
        BY <1>1, <3>1, CountsDef
      <3>3. \E t \in 1..c : f[t] = i
        <4>1. CASE i <= a
          <5>1. i \in 1..a
            BY <1>1, <3>1, <4>1
          <5>2. \A j \in 1..a : j \in 1..b
            BY <1>1
          <5>3. IsLast(ops, a, i)
            BY <3>2, <5>1, <5>2 DEF IsLast
          <5>4. PICK t \in 1..m : f[t] = i
            BY <1>10, <3>2, <5>1, <5>3
          <5>5. t \in 1..c
            BY <1>5
          <5> QED BY <5>4, <5>5
        <4>2. CASE ~(i <= a)
          <5>1. i \in (a + 1)..n
            BY <1>1, <3>1, <4>2
          <5>2. i - (a - m) \in 1..c
            BY <1>1, <1>5, <3>1, <5>1
          <5> QED BY <1>11, <5>1, <5>2
        <4> QED BY <4>1, <4>2
      <3>4. PICK t \in 1..c : f[t] = i
        BY <3>3
      <3>5. Counts(d, c, t)
        BY <1>13, <3>1, <3>4
      <3> QED BY <1>14, <3>4, <3>5 DEF Counted
    <2> QED BY <1>14, <2>1, <2>2
  <1>17. U = Kept(ops, b)
    BY <1>15, <1>16 DEF U
  <1>18. T \in SUBSET (1..l)
    BY <1>15
  <1>19. Defrag(d, c) = Picked(d, T)
    <2>1. c \in 0..Len(d)
      BY <1>5 DEF l
    <2> QED BY <1>2, <2>1, DefragDef DEF T
  <1>20. Picked(d, T) = Picked(ops, U)
    BY <1>3, <1>18, PickedPicked DEF U, f, n
  <1>21. Defrag(ops, b) = Picked(ops, Kept(ops, b))
    BY <1>1, DefragDef DEF n
  <1> QED BY <1>5, <1>17, <1>19, <1>20, <1>21 DEF freed, c, d, l, n

-----------------------------------------------------------------------------
\* Sorting a batch loses no operation and makes none up.
LEMMA SortedType ==
  ASSUME NEW X, \A op \in X : op.Key \in Nat, NEW ops \in Seq(X)
  PROVE  /\ SortedByKey(ops) \in Seq(X) /\ Len(SortedByKey(ops)) = Len(ops)
         /\ \A p \in 1..Len(ops) : \E i \in 1..Len(ops) : SortedByKey(ops)[p] = ops[i]
  <1> DEFINE n == Len(ops)
             B(i) == {j \in 1..n : \/ ops[j].Key < ops[i].Key
                                   \/ ops[j].Key = ops[i].Key /\ j <= i}
             place == [i \in 1..n |-> Cardinality(B(i))]
             s == SortedByKey(ops)
             g(p) == CHOOSE i \in 1..n : place[i] = p
  <1>1. n \in Nat /\ \A i \in 1..n : ops[i] \in X /\ ops[i].Key \in Nat
    BY ElementOfSeq
  <1>2. s = [p \in 1..n |-> ops[g(p)]]
    BY DEF SortedByKey
  <1> HIDE DEF n, s
  <1>3. ASSUME NEW i \in 1..n
        PROVE  IsFiniteSet(B(i)) /\ Cardinality(B(i)) \in 1..n
    <2>1. B(i) \in SUBSET (1..n) /\ i \in B(i)
      BY <1>1
    <2>2. IsFiniteSet(B(i)) /\ Cardinality(B(i)) \in 0..n
      BY <1>1, <2>1, PlacesFinite
    <2>3. Cardinality(B(i)) # 0
      BY <2>1, <2>2, FS_EmptySet
    <2> HIDE DEF B
    <2> QED BY <1>1, <2>2, <2>3
  <1>4. ASSUME NEW i \in 1..n, NEW j \in 1..n,
               ops[i].Key < ops[j].Key \/ (ops[i].Key = ops[j].Key /\ i < j)
        PROVE  Cardinality(B(i)) # Cardinality(B(j))
    <2>1. B(i) \in SUBSET B(j)
      <3>1. ASSUME NEW k \in B(i) PROVE k \in B(j)
        <4>1. k \in 1..n /\ (ops[k].Key < ops[i].Key \/ (ops[k].Key = ops[i].Key /\ k <= i))
          OBVIOUS
        <4>2. ops[k].Key \in Nat /\ ops[i].Key \in Nat /\ ops[j].Key \in Nat
          BY <1>1, <4>1
        <4>3. ops[k].Key < ops[j].Key \/ (ops[k].Key = ops[j].Key /\ k <= j)
          BY <1>1, <1>4, <4>1, <4>2
        <4> QED BY <4>1, <4>3
      <3> HIDE DEF B
      <3> QED BY <3>1
    <2>2. j \in B(j) /\ j \notin B(i)
      <3>1. ops[i].Key \in Nat /\ ops[j].Key \in Nat
        BY <1>1
      <3> QED BY <1>1, <1>4, <3>1
    <2>3. IsFiniteSet(B(j))
      BY <1>3
    <2> HIDE DEF B
    <2>4. B(i) # B(j)
      BY <2>2
    <2> QED BY <2>1, <2>3, <2>4, FS_Subset
  <1>5. \A i \in 1..n : place[i] = Cardinality(B(i))
    OBVIOUS
  <1> HIDE DEF B
  <1>6. place \in [1..n -> 1..n]
    BY <1>3
  <1> HIDE DEF place
  <1>7. ASSUME NEW i \in 1..n, NEW j \in 1..n, place[i] = place[j] PROVE i = j
    <2>1. ops[i].Key \in Nat /\ ops[j].Key \in Nat /\ i \in Int /\ j \in Int
      BY <1>1
    <2>2. ~(ops[i].Key < ops[j].Key \/ (ops[i].Key = ops[j].Key /\ i < j))
      BY <1>4, <1>5, <1>7
    <2>3. ~(ops[j].Key < ops[i].Key \/ (ops[j].Key = ops[i].Key /\ j < i))
      BY <1>4, <1>5, <1>7
    <2> QED BY <2>1, <2>2, <2>3
  <1>8. place \in Injection(1..n, 1..n)
    BY <1>6, <1>7 DEF Injection, IsInjective
  <1>9. IsFiniteSet(1..n)
    BY <1>1, FS_Interval
  <1>10. place \in Surjection(1..n, 1..n)
    BY <1>8, <1>9, FS_Injection, Zenon
  <1>11. \A p \in 1..n : \E i \in 1..n : place[i] = p
    BY <1>10 DEF Surjection
  <1>12. \A p \in 1..n : g(p) \in 1..n
    BY <1>11
  <1> HIDE DEF g
  <1>13. \A p \in 1..n : s[p] = ops[g(p)] /\ ops[g(p)] \in X
    BY <1>1, <1>2, <1>12
  <1>14. s \in Seq(X) /\ Len(s) = n
    BY <1>1, <1>2, <1>13
  <1> QED BY <1>12, <1>13, <1>14 DEF s, n

-----------------------------------------------------------------------------
\* How many operations of the log are left from before its last
\* defragmentation.
Compacted(s) == s.defragTimestamp - s.initialTimestamp

\* The invariant of a server.  The operations that are left from before the
\* last defragmentation all count, and are at most half of the log, so that
\* the next defragmentation reaches at least as far.
ServerOK(s, D) ==
  /\ s \in Servers(D)
  /\ s.kv = Replayed(EmptyMap, s.ops)
  /\ s.flatDb = opsToRows(s.ops)
  /\ Compacted(s) \in Nat
  /\ 2 * Compacted(s) <= Len(s.ops)
  /\ \A i \in 1..Compacted(s) : Counts(s.ops, Compacted(s), i)

LEMMA ReplayedType ==
  ASSUME NEW D, NEW kv \in Maps(D), NEW ops \in Seq(Op(D))
  PROVE  Replayed(kv, ops) \in Maps(D)
  <1> DEFINE n == Len(ops)
             touched == {ops[i].Key : i \in 1..n}
             last(k) == ops[LastOn(ops, n, k)]
             S == (DOMAIN kv \ touched) \cup {t \in touched : ~last(t).Delete}
             e(k) == IF k \in touched THEN last(k).data ELSE kv[k]
  <1>1. n \in Nat /\ \A i \in 1..n : ops[i] \in Op(D)
    BY ElementOfSeq
  <1>2. PICK K \in SUBSET Keys : kv \in [K -> D]
    BY DEF Maps
  <1>3. Replayed(kv, ops) = [k \in S |-> e(k)]
    BY DEF Replayed
  <1>4. \A i \in 1..n : ops[i].Key \in Keys /\ ops[i].data \in D
    BY <1>1 DEF Op
  <1>5. \A t \in touched : t \in Keys /\ last(t) \in Op(D)
    <2>1. ASSUME NEW t \in touched PROVE t \in Keys /\ LastOn(ops, n, t) \in 1..n
      <3>1. PICK i \in 1..n : t = ops[i].Key
        OBVIOUS
      <3>2. PICK l \in 1..n : IsLast(ops, n, l) /\ ops[l].Key = ops[i].Key
        BY <1>1, LastExists
      <3>3. LastOn(ops, n, t) = l
        BY <1>1, <3>1, <3>2, LastOnUnique
      <3> QED BY <1>4, <3>1, <3>2, <3>3
    <2> QED BY <1>1, <2>1
  <1> HIDE DEF n, touched, last
  <1>6. S \in SUBSET Keys
    BY <1>2, <1>5
  <1>7. \A k \in S : e(k) \in D
    BY <1>2, <1>5 DEF Op
  <1> HIDE DEF S, e
  <1>8. [k \in S |-> e(k)] \in [S -> D]
    BY <1>7
  <1> QED BY <1>3, <1>6, <1>8 DEF Maps

\* The new server has d's operations, after a defragmentation or not.
Grows(s, t, more) ==
  LET all == s.ops \o more
      e   == Len(all) \div 2
  IN  \/ /\ t.ops = all
         /\ t.initialTimestamp = s.initialTimestamp
         /\ t.defragTimestamp = s.defragTimestamp
      \/ /\ t.ops = Defrag(all, e)
         /\ t.initialTimestamp = s.initialTimestamp + (Len(all) - Len(t.ops))
         /\ t.defragTimestamp = s.initialTimestamp + e

\* What counts in a log counts when operations are appended.
LEMMA LogGrown ==
  ASSUME NEW X, NEW a \in Seq(X), NEW b \in Seq(X), NEW c \in Nat, c <= Len(a),
         \A i \in 1..c : Counts(a, c, i)
  PROVE  /\ a \o b \in Seq(X) /\ Len(a \o b) = Len(a) + Len(b)
         /\ \A i \in 1..c : Counts(a \o b, c, i)
  <1> DEFINE all == a \o b
  <1>1. /\ all \in Seq(X) /\ Len(a) \in Nat /\ Len(b) \in Nat /\ Len(all) = Len(a) + Len(b)
        /\ \A i \in 1..(Len(a) + Len(b)) : all[i] = IF i <= Len(a) THEN a[i] ELSE b[i - Len(a)]
    BY ConcatProperties
  <1> HIDE DEF all
  <1>2. \A i \in 1..c : i \in 1..(Len(a) + Len(b)) /\ i <= Len(a)
    BY <1>1
  <1>3. \A i \in 1..c : all[i] = a[i]
    BY <1>1, <1>2
  <1>4. \A i \in 1..c : Counts(all, c, i)
    BY <1>3, CountedAgree
  <1> QED BY <1>1, <1>4 DEF all

LEMMA AddRowsOK ==
  ASSUME NEW D, NEW s, ServerOK(s, D), NEW batch \in Seq(Op(D))
  PROVE  /\ ServerOK(AddRows(s, batch), D)
         /\ SortedByKey(batch) \in Seq(Op(D))
         /\ Len(SortedByKey(batch)) = Len(batch)
         /\ Grows(s, AddRows(s, batch), SortedByKey(batch))
  <1> DEFINE new == SortedByKey(batch)
             t == AddRows(s, batch)
             c == Compacted(s)
             all == s.ops \o new
  <1>1. /\ s \in Servers(D) /\ s.kv = Replayed(EmptyMap, s.ops)
        /\ s.flatDb = opsToRows(s.ops)
        /\ c \in Nat /\ 2 * c <= Len(s.ops) /\ \A i \in 1..c : Counts(s.ops, c, i)
    BY DEF ServerOK
  <1>2. new \in Seq(Op(D)) /\ Len(new) = Len(batch)
    <2>1. \A op \in Op(D) : op.Key \in Nat
      BY UpdatableServerAssumption DEF Op
    <2> QED BY <2>1, SortedType
  <1>3. t = [s EXCEPT !.ops    = s.ops \o new,
                      !.kv     = Replayed(s.kv, new),
                      !.flatDb = s.flatDb \o opsToRows(new)]
    BY DEF AddRows
  <1> HIDE DEF new, t
  <1>4. s.ops \in Seq(Op(D)) /\ s.kv \in Maps(D) /\ s.flatDb \in Seq(D)
    BY <1>1 DEF Servers
  <1>5. \A op \in Op(D) : op.data \in D
    BY DEF Op
  <1>6. all \in Seq(Op(D)) /\ Replayed(s.kv, new) \in Maps(D)
        /\ s.flatDb \o opsToRows(new) \in Seq(D)
    <2>1. all \in Seq(Op(D))
      BY <1>2, <1>4, ConcatProperties
    <2>2. Replayed(s.kv, new) \in Maps(D)
      BY <1>2, <1>4, ReplayedType
    <2>3. opsToRows(new) \in Seq(D)
      BY <1>2, <1>5, RowsType
    <2>4. s.flatDb \o opsToRows(new) \in Seq(D)
      BY <1>4, <2>3, ConcatProperties
    <2> QED BY <2>1, <2>2, <2>4
  <1>7. Replayed(s.kv, new) = Replayed(EmptyMap, all)
    BY <1>1, <1>2, <1>4, ReplayedConcat
  <1>8. s.flatDb \o opsToRows(new) = opsToRows(all)
    BY <1>1, <1>2, <1>4, <1>5, RowsConcat
  <1>9. Len(s.ops) \in Nat /\ Len(new) \in Nat /\ c <= Len(s.ops)
    <2> HIDE DEF c
    <2> QED BY <1>1, <1>2, <1>4
  <1>10. Len(all) = Len(s.ops) + Len(new)
    BY <1>1, <1>2, <1>4, <1>9, LogGrown
  <1>11. \A i \in 1..c : Counts(all, c, i)
    BY <1>1, <1>2, <1>4, <1>9, LogGrown
  <1> HIDE DEF all
  <1>12. /\ t \in Servers(D) /\ t.ops = all
         /\ t.kv = Replayed(s.kv, new) /\ t.flatDb = s.flatDb \o opsToRows(new)
         /\ t.initialTimestamp = s.initialTimestamp /\ t.defragTimestamp = s.defragTimestamp
    BY <1>1, <1>3, <1>6 DEF Servers, all
  <1>13. Compacted(t) = c
    BY <1>12 DEF Compacted
  <1>14. 2 * c <= Len(all)
    <2> HIDE DEF c
    <2> QED BY <1>1, <1>9, <1>10
  <1> HIDE DEF c
  <1>15. ServerOK(t, D)
    BY <1>1, <1>7, <1>8, <1>11, <1>12, <1>13, <1>14 DEF ServerOK
  <1>16. Grows(s, t, new)
    BY <1>12 DEF Grows, all
  <1> QED BY <1>2, <1>15, <1>16 DEF new, t

LEMMA DeleteRowsOK ==
  ASSUME NEW D, NoRow \in D, NEW s, ServerOK(s, D), NEW keys \in Seq(Keys)
  PROVE  /\ ServerOK(DeleteRows(s, keys), D)
         /\ \E more \in Seq(Op(D)) : /\ Len(more) = Len(keys)
                                     /\ \A i \in 1..Len(more) : more[i].Delete
                                     /\ Grows(s, DeleteRows(s, keys), more)
  <1> DEFINE n == Len(keys)
             new == [i \in 1..n |-> DelOp(keys[i])]
             old == s.ops
             all == old \o new
             t == [s EXCEPT !.ops = all, !.kv = Replayed(s.kv, new)]
             c == Compacted(s)
             m == Len(all)
             e == m \div 2
             d == Defrag(all, e)
             u == DefraggedServer(t)
             k == Cardinality(Counted(all, e))
  <1>1. /\ s \in Servers(D) /\ s.kv = Replayed(EmptyMap, old)
        /\ s.flatDb = opsToRows(old)
        /\ c \in Nat /\ 2 * c <= Len(old) /\ \A i \in 1..c : Counts(old, c, i)
    BY DEF ServerOK
  <1>2. old \in Seq(Op(D)) /\ s.kv \in Maps(D) /\ s.flatDb \in Seq(D)
        /\ s.initialTimestamp \in Nat /\ s.defragTimestamp \in Nat
    BY <1>1 DEF Servers
  <1>3. new \in Seq(Op(D)) /\ Len(new) = n /\ \A i \in 1..n : new[i].Delete
    <2>1. n \in Nat /\ \A i \in 1..n : keys[i] \in Keys
      BY ElementOfSeq
    <2>2. \A i \in 1..n : DelOp(keys[i]) \in Op(D) /\ DelOp(keys[i]).Delete
      BY <2>1 DEF DelOp, Op
    <2> HIDE DEF n
    <2> QED BY <2>1, <2>2
  <1>4. DeleteRows(s, keys) = IF Len(t.ops) > DefragRatio * Cardinality(DOMAIN t.kv)
                              THEN u ELSE t
    BY DEF DeleteRows
  <1> HIDE DEF new
  <1> HIDE DEF c, old
  <1>5. /\ Len(old) \in Nat /\ Len(new) \in Nat /\ m = Len(old) + Len(new)
        /\ all \in Seq(Op(D)) /\ \A i \in 1..c : Counts(all, c, i)
    <2>1. Len(old) \in Nat /\ Len(new) \in Nat
      BY <1>2, <1>3
    <2>2. c <= Len(old)
      BY <1>1, <2>1
    <2> QED BY <1>1, <1>2, <1>3, <2>1, <2>2, LogGrown
  <1>6. Replayed(s.kv, new) \in Maps(D)
    BY <1>2, <1>3, ReplayedType
  <1>7. Replayed(s.kv, new) = Replayed(EmptyMap, all)
    BY <1>1, <1>2, <1>3, ReplayedConcat
  <1>8. s.flatDb = opsToRows(all)
    <2>1. \A op \in Op(D) : op.data \in D
      BY DEF Op
    <2>2. opsToRows(all) = opsToRows(old) \o opsToRows(new)
      BY <1>2, <1>3, <2>1, RowsConcat
    <2>3. opsToRows(new) = <<>>
      BY <1>3, RowsOfDeletions
    <2>4. s.flatDb \o <<>> = s.flatDb
      BY <1>2
    <2> QED BY <1>1, <2>2, <2>3, <2>4
  <1> HIDE DEF all
  <1>9. /\ t \in Servers(D) /\ t.ops = all /\ t.kv = Replayed(EmptyMap, all)
        /\ t.flatDb = opsToRows(all)
        /\ t.initialTimestamp = s.initialTimestamp /\ t.defragTimestamp = s.defragTimestamp
    BY <1>1, <1>5, <1>6, <1>7, <1>8 DEF Servers
  <1> HIDE DEF t
  <1>11. 2 * c <= m
    <2> HIDE DEF m
    <2> QED BY <1>1, <1>5
  <1>12. Compacted(t) = c
    BY <1>9 DEF Compacted, c
  <1>13. ServerOK(t, D)
    BY <1>1, <1>5, <1>9, <1>11, <1>12 DEF ServerOK
  <1>14. e \in 0..m /\ 2 * e <= m /\ m \in Nat
    <2> HIDE DEF m
    <2>1. m \in Nat
      BY <1>5
    <2> QED BY <2>1
  <1>15. u = [t EXCEPT !.defragTimestamp  = t.initialTimestamp + e,
                       !.initialTimestamp = t.initialTimestamp + (m - Len(d)),
                       !.ops = d, !.flatDb = opsToRows(d)]
    BY <1>9 DEF DefraggedServer
  <1>16. d \in Seq(Op(D)) /\ k \in 0..e /\ Len(d) = k + (m - e)
    BY <1>5, <1>14, DefragPlaces DEF ComeFrom
  <1>17. \A i \in 1..k : Counts(d, k, i)
    BY <1>5, <1>14, DefragCounts
  <1>18. Replayed(EmptyMap, d) = Replayed(EmptyMap, all)
    BY <1>5, <1>14, DefragReplays
  <1>19. opsToRows(d) \in Seq(D)
    <2>1. \A op \in Op(D) : op.data \in D
      BY DEF Op
    <2> QED BY <1>16, <2>1, RowsType
  <1> HIDE DEF u, d, e, m, k
  <1>20. m - Len(d) = e - k /\ e - k \in Nat /\ e \in Nat /\ k \in Nat /\ 2 * k <= Len(d)
    BY <1>14, <1>16
  <1>21. /\ u \in Servers(D) /\ u.ops = d /\ u.flatDb = opsToRows(d) /\ u.kv = t.kv
         /\ u.initialTimestamp = s.initialTimestamp + (m - Len(d))
         /\ u.defragTimestamp = s.initialTimestamp + e
    <2>1. s.initialTimestamp + e \in Nat /\ s.initialTimestamp + (m - Len(d)) \in Nat
      BY <1>2, <1>20
    <2> QED BY <1>9, <1>15, <1>16, <1>19, <2>1 DEF Servers
  <1>22. Compacted(u) = k
    BY <1>2, <1>20, <1>21 DEF Compacted
  <1>23. ServerOK(u, D)
    BY <1>9, <1>17, <1>18, <1>20, <1>21, <1>22 DEF ServerOK
  <1>24. Grows(s, t, new)
    BY <1>9 DEF Grows, all, old
  <1>25. Grows(s, u, new)
    BY <1>21 DEF Grows, all, old, d, e, m
  <1>26. \A i \in 1..Len(new) : new[i].Delete
    BY <1>3
  <1>27. DeleteRows(s, keys) \in {t, u}
    BY <1>4
  <1> QED BY <1>3, <1>13, <1>23, <1>24, <1>25, <1>26, <1>27

\* What a write does to a log, defragmented or not: every operation takes a
\* timestamp, and while the time of the last defragmentation stays the same
\* the log only grows.
LEMMA GrowsOK ==
  ASSUME NEW D, NEW s, NEW t, ServerOK(s, D), ServerOK(t, D),
         NEW more \in Seq(Op(D)), Grows(s, t, more)
  PROVE  /\ ServerTimestamp(t) = ServerTimestamp(s) + Len(more)
         /\ t.defragTimestamp >= s.defragTimestamp
         /\ t.defragTimestamp = s.defragTimestamp =>
              t.ops = s.ops \o more /\ t.initialTimestamp = s.initialTimestamp
  <1> DEFINE old == s.ops
             all == old \o more
             m == Len(all)
             e == m \div 2
             c == Compacted(s)
  <1>1. /\ c \in Nat /\ 2 * c <= Len(old) /\ \A i \in 1..c : Counts(old, c, i)
        /\ old \in Seq(Op(D)) /\ Len(old) \in Nat /\ Len(more) \in Nat
    BY DEF ServerOK, Servers
  <1>2. s.initialTimestamp \in Nat /\ s.defragTimestamp \in Nat
        /\ t.initialTimestamp \in Nat /\ t.defragTimestamp \in Nat
    BY DEF ServerOK, Servers
  <1>3. t.ops \in Seq(Op(D)) /\ Len(t.ops) \in Nat
    BY DEF ServerOK, Servers
  <1> HIDE DEF old, c
  <1>4. c <= Len(old)
    BY <1>1
  <1>5. all \in Seq(Op(D)) /\ m = Len(old) + Len(more) /\ \A i \in 1..c : Counts(all, c, i)
    BY <1>1, <1>4, LogGrown
  <1> HIDE DEF all
  <1>6. m \in Nat /\ e \in 0..m /\ c <= e
    <2> HIDE DEF m
    <2>1. m \in Nat /\ 2 * c <= m
      BY <1>1, <1>5
    <2> QED BY <1>1, <2>1
  <1>7. CASE /\ t.ops = all
             /\ t.initialTimestamp = s.initialTimestamp
             /\ t.defragTimestamp = s.defragTimestamp
    BY <1>1, <1>2, <1>5, <1>7 DEF ServerTimestamp, all, old
  <1>8. CASE /\ t.ops = Defrag(all, e)
             /\ t.initialTimestamp = s.initialTimestamp + (m - Len(t.ops))
             /\ t.defragTimestamp = s.initialTimestamp + e
    <2>1. s.defragTimestamp = s.initialTimestamp + c
      BY <1>2 DEF c, Compacted
    <2>2. ServerTimestamp(t) = s.initialTimestamp + m
      <3> DEFINE i == s.initialTimestamp
                 l == Len(t.ops)
      <3>1. i \in Nat /\ l \in Nat /\ m \in Nat /\ t.initialTimestamp = i + (m - l)
        BY <1>2, <1>3, <1>6, <1>8
      <3>2. ServerTimestamp(t) = t.initialTimestamp + l
        BY DEF ServerTimestamp
      <3> HIDE DEF m, i, l
      <3>3. ServerTimestamp(t) = i + m
        BY <3>1, <3>2
      <3> QED BY <3>3 DEF i
    <2>3. s.initialTimestamp + m = ServerTimestamp(s) + Len(more)
      <3>1. m = Len(s.ops) + Len(more) /\ Len(s.ops) \in Nat
        BY <1>1, <1>5 DEF old
      <3> HIDE DEF m
      <3> QED BY <1>1, <1>2, <3>1 DEF ServerTimestamp
    <2>4. t.defragTimestamp >= s.defragTimestamp
      <3> HIDE DEF m, e
      <3> QED BY <1>1, <1>2, <1>6, <1>8, <2>1
    <2>5. t.defragTimestamp = s.defragTimestamp =>
            t.ops = all /\ t.initialTimestamp = s.initialTimestamp
      <3>1. SUFFICES ASSUME t.defragTimestamp = s.defragTimestamp
                     PROVE  t.ops = all /\ t.initialTimestamp = s.initialTimestamp
        OBVIOUS
      <3> HIDE DEF e, m
      <3>2. e = c
        BY <1>1, <1>2, <1>6, <1>8, <2>1, <3>1
      <3>3. c \in 0..Len(all)
        BY <1>6, <3>2 DEF m
      <3>4. Defrag(all, c) = all
        BY <1>5, <3>3, DefragCompact
      <3>5. t.ops = all
        BY <1>8, <3>2, <3>4
      <3>6. m - Len(t.ops) = 0
        BY <1>6, <3>5 DEF m
      <3> QED BY <1>2, <1>8, <3>5, <3>6
    <2> QED BY <2>2, <2>3, <2>4, <2>5 DEF all, old
  <1> QED BY <1>7, <1>8 DEF Grows, all, old, e, m

-----------------------------------------------------------------------------
\* The layers at places from..to have numbers of rows.
Rowed(layers, from, to) == \A i \in from..to : layers[i].numRows \in Nat

\* The rows in them.
RowSet(layers, from, to) == UNION {{i} \X (1..layers[i].numRows) : i \in from..to}

\* One layer more.
LEMMA RowSetStep ==
  ASSUME NEW layers, NEW from \in Int, NEW to \in Int, from <= to + 1
  PROVE  LET P == {to + 1} \X (1..layers[to + 1].numRows)
         IN  /\ RowSet(layers, from, from - 1) = {}
             /\ RowSet(layers, from, to + 1) = RowSet(layers, from, to) \cup P
             /\ RowSet(layers, from, to) \cap P = {}
  <1> DEFINE P(i) == {i} \X (1..layers[i].numRows)
             U(t) == UNION {P(i) : i \in from..t}
  <1>1. from..(from - 1) = {}
    OBVIOUS
  <1>2. from..(to + 1) = (from..to) \cup {to + 1} /\ to + 1 \notin from..to
    OBVIOUS
  <1>3. \A i : \A x \in P(i) : x[1] = i
    OBVIOUS
  <1> HIDE DEF P
  <1>4. U(from - 1) = {}
    BY <1>1
  <1>5. U(to + 1) = U(to) \cup P(to + 1)
    BY <1>2
  <1>6. U(to) \cap P(to + 1) = {}
    <2>1. ASSUME NEW x \in U(to), x \in P(to + 1) PROVE FALSE
      <3>1. PICK i \in from..to : x \in P(i)
        OBVIOUS
      <3>2. x[1] = i /\ x[1] = to + 1
        BY <1>3, <2>1, <3>1
      <3> QED BY <1>2, <3>2
    <2> QED BY <2>1
  <1> QED BY <1>4, <1>5, <1>6 DEF P, RowSet

\* One layer's rows.
LEMMA LayerRows ==
  ASSUME NEW i, NEW n \in Nat
  PROVE  IsFiniteSet({i} \X (1..n)) /\ Cardinality({i} \X (1..n)) = n
  <1>1. IsFiniteSet({i}) /\ Cardinality({i}) = 1
    BY FS_Singleton
  <1>2. IsFiniteSet(1..n) /\ Cardinality(1..n) = n
    BY FS_Interval
  <1>3. IsFiniteSet({i} \X (1..n)) /\ Cardinality({i} \X (1..n)) = Cardinality({i}) * Cardinality(1..n)
    BY <1>1, <1>2, FS_Product
  <1>4. 1 * n = n
    OBVIOUS
  <1> QED BY <1>1, <1>2, <1>3, <1>4

LEMMA RowSetFinite ==
  ASSUME NEW layers, NEW from \in Int, NEW to \in Int, from <= to + 1,
         Rowed(layers, from, to)
  PROVE  IsFiniteSet(RowSet(layers, from, to))
  <1> DEFINE F(t) == IsFiniteSet(RowSet(layers, from, t))
             T == {k \in Nat : from + k - 1 <= to => F(from + k - 1)}
  <1>1. 0 \in T
    <2>1. from + 0 - 1 = from - 1 /\ from - 1 \in Int /\ from <= (from - 1) + 1
      OBVIOUS
    <2>2. RowSet(layers, from, from - 1) = {}
      BY RowSetStep
    <2>3. F(from - 1)
      BY <2>2, FS_EmptySet
    <2> HIDE DEF F
    <2>4. F(from + 0 - 1)
      BY <2>1, <2>3
    <2>5. 0 \in Nat
      OBVIOUS
    <2> QED BY <2>4, <2>5
  <1>2. ASSUME NEW k \in Nat, k \in T PROVE k + 1 \in T
    <2> DEFINE t == from + k - 1
    <2>1. SUFFICES ASSUME from + (k + 1) - 1 <= to PROVE F(from + (k + 1) - 1)
      OBVIOUS
    <2>2. /\ from + (k + 1) - 1 = t + 1 /\ t \in Int /\ from <= t + 1 /\ t <= to
          /\ t + 1 \in from..to
      BY <2>1
    <2>3. F(t)
      BY <1>2, <2>2
    <2> HIDE DEF t
    <2>4. IsFiniteSet({t + 1} \X (1..layers[t + 1].numRows))
      BY <2>2, LayerRows DEF Rowed
    <2>5. RowSet(layers, from, t + 1)
            = RowSet(layers, from, t) \cup ({t + 1} \X (1..layers[t + 1].numRows))
      BY <2>2, RowSetStep
    <2>6. F(t + 1)
      <3> DEFINE R == RowSet(layers, from, t)
                 P == {t + 1} \X (1..layers[t + 1].numRows)
      <3>1. IsFiniteSet(R) /\ IsFiniteSet(P)
        BY <2>3, <2>4
      <3>2. RowSet(layers, from, t + 1) = R \cup P
        BY <2>5
      <3> HIDE DEF R, P
      <3>3. IsFiniteSet(R \cup P)
        BY <3>1, FS_Union
      <3> QED BY <3>2, <3>3
    <2> QED BY <2>2, <2>6
  <1>3. \A k \in Nat : k \in T
    <2> HIDE DEF T
    <2> QED BY <1>1, <1>2, NaturalsInSet
  <1>4. to - from + 1 \in Nat /\ from + (to - from + 1) - 1 = to /\ to <= to
    OBVIOUS
  <1>5. F(to)
    BY <1>3, <1>4
  <1> QED BY <1>5

\* The sum that RowsIn stands for.
LEMMA RowsInSum ==
  ASSUME NEW layers, NEW from \in Int, NEW to \in Int, from <= to + 1,
         Rowed(layers, from, to)
  PROVE  /\ RowsIn(layers, from, to) \in Nat
         /\ RowsIn(layers, from, from - 1) = 0
         /\ layers[to + 1].numRows \in Nat =>
              RowsIn(layers, from, to + 1) = RowsIn(layers, from, to) + layers[to + 1].numRows
  <1> DEFINE n == layers[to + 1].numRows
             P == {to + 1} \X (1..n)
             R == RowSet(layers, from, to)
  <1>1. IsFiniteSet(R) /\ Cardinality(R) \in Nat
    BY RowSetFinite, FS_CardinalityType
  <1>2. /\ RowSet(layers, from, from - 1) = {}
        /\ RowSet(layers, from, to + 1) = R \cup P /\ R \cap P = {}
    BY RowSetStep
  <1>3. ASSUME n \in Nat
        PROVE  Cardinality(R \cup P) = Cardinality(R) + n
    <2>1. IsFiniteSet(P) /\ Cardinality(P) = n
      BY <1>3, LayerRows
    <2> HIDE DEF P, R
    <2>2. Cardinality(R \cup P) = Cardinality(R) + Cardinality(P) - Cardinality(R \cap P)
      BY <1>1, <2>1, FS_Union
    <2>3. Cardinality(R \cap P) = 0
      BY <1>2, FS_EmptySet
    <2> HIDE DEF n
    <2> QED BY <1>1, <1>3, <2>1, <2>2, <2>3
  <1>4. Cardinality({}) = 0
    BY FS_EmptySet
  <1> QED BY <1>1, <1>2, <1>3, <1>4 DEF RowsIn, RowSet

\* Two runs of layers, one after the other.
LEMMA RowsInSplit ==
  ASSUME NEW layers, NEW from \in Int, NEW mid \in Int, NEW to \in Int,
         from <= mid + 1, mid <= to, Rowed(layers, from, to)
  PROVE  RowsIn(layers, from, to) = RowsIn(layers, from, mid) + RowsIn(layers, mid + 1, to)
  <1> DEFINE P(i) == {i} \X (1..layers[i].numRows)
             A == UNION {P(i) : i \in from..mid}
             B == UNION {P(i) : i \in (mid + 1)..to}
             C == UNION {P(i) : i \in from..to}
  <1>1. from..to = (from..mid) \cup ((mid + 1)..to) /\ (from..mid) \cap ((mid + 1)..to) = {}
    OBVIOUS
  <1>2. \A i : \A x \in P(i) : x[1] = i
    OBVIOUS
  <1>3. Rowed(layers, from, mid) /\ Rowed(layers, mid + 1, to)
    BY <1>1 DEF Rowed
  <1>4. IsFiniteSet(A) /\ IsFiniteSet(B)
    <2>1. mid + 1 \in Int /\ mid + 1 <= to + 1
      OBVIOUS
    <2> QED BY <1>3, <2>1, RowSetFinite DEF RowSet
  <1> HIDE DEF P
  <1>5. C = A \cup B
    BY <1>1
  <1>6. A \cap B = {}
    <2>1. ASSUME NEW x \in A, x \in B PROVE FALSE
      <3>1. PICK i \in from..mid : x \in P(i)
        OBVIOUS
      <3>2. PICK j \in (mid + 1)..to : x \in P(j)
        BY <2>1
      <3>3. i = j
        BY <1>2, <3>1, <3>2
      <3> QED BY <1>1, <3>3
    <2> QED BY <2>1
  <1>7. Cardinality(A) \in Nat /\ Cardinality(B) \in Nat
    BY <1>4, FS_CardinalityType
  <1> HIDE DEF A, B, C
  <1>8. Cardinality(A \cup B) = Cardinality(A) + Cardinality(B) - Cardinality(A \cap B)
    BY <1>4, FS_Union
  <1>9. Cardinality(A \cap B) = 0
    BY <1>6, FS_EmptySet
  <1>10. Cardinality(C) = Cardinality(A) + Cardinality(B)
    BY <1>5, <1>7, <1>8, <1>9
  <1> QED BY <1>10 DEF RowsIn, A, B, C, P

LEMMA RowsInAgree ==
  ASSUME NEW a, NEW b, NEW from, NEW to,
         \A i \in from..to : a[i].numRows = b[i].numRows
  PROVE  RowsIn(a, from, to) = RowsIn(b, from, to)
  <1>1. {{i} \X (1..a[i].numRows) : i \in from..to} = {{i} \X (1..b[i].numRows) : i \in from..to}
    OBVIOUS
  <1> QED BY <1>1 DEF RowsIn

LEMMA RowsInNone ==
  ASSUME NEW layers, NEW from, NEW to, \A i \in from..to : layers[i].numRows = 0
  PROVE  RowsIn(layers, from, to) = 0
  <1> DEFINE P(i) == {i} \X (1..layers[i].numRows)
  <1>1. \A i \in from..to : P(i) = {}
    <2>1. 1..0 = {}
      OBVIOUS
    <2> QED BY <2>1
  <1> HIDE DEF P
  <1>2. UNION {P(i) : i \in from..to} = {}
    BY <1>1
  <1> QED BY <1>2, FS_EmptySet DEF RowsIn, P

\* A run's rows are among those of a longer one.
LEMMA RowsInWithin ==
  ASSUME NEW layers, NEW n \in Nat, Rowed(layers, 1, n), NEW i \in 1..n
  PROVE  /\ RowsIn(layers, 1, i - 1) \in Nat
         /\ RowsIn(layers, 1, i) = RowsIn(layers, 1, i - 1) + layers[i].numRows
         /\ RowsIn(layers, 1, n) = RowsIn(layers, 1, i) + RowsIn(layers, i + 1, n)
         /\ RowsIn(layers, 1, n) = RowsIn(layers, 1, i - 1) + RowsIn(layers, i, n)
         /\ RowsIn(layers, i + 1, n) \in Nat /\ RowsIn(layers, i, n) \in Nat
         /\ layers[i].numRows \in Nat
  <1>1. i \in Int /\ i - 1 \in Int /\ 1 <= (i - 1) + 1 /\ 1 <= i + 1 /\ i - 1 <= n /\ i <= n
        /\ (i - 1) + 1 = i /\ i + 1 <= n + 1 /\ i <= n + 1
    OBVIOUS
  <1>2. Rowed(layers, 1, i - 1) /\ Rowed(layers, i, n) /\ Rowed(layers, i + 1, n)
        /\ layers[i].numRows \in Nat
    BY <1>1 DEF Rowed
  <1>3. /\ RowsIn(layers, 1, i - 1) \in Nat
        /\ RowsIn(layers, 1, (i - 1) + 1) = RowsIn(layers, 1, i - 1) + layers[(i - 1) + 1].numRows
    <2>1. layers[(i - 1) + 1].numRows \in Nat
      BY <1>1, <1>2
    <2> QED BY <1>1, <1>2, <2>1, RowsInSum
  <1>4. RowsIn(layers, 1, n) = RowsIn(layers, 1, i) + RowsIn(layers, i + 1, n)
    BY <1>1, RowsInSplit
  <1>5. RowsIn(layers, 1, n) = RowsIn(layers, 1, i - 1) + RowsIn(layers, (i - 1) + 1, n)
    BY <1>1, RowsInSplit
  <1>6. RowsIn(layers, i + 1, n) \in Nat /\ RowsIn(layers, i, n) \in Nat
    BY <1>1, <1>2, RowsInSum
  <1> QED BY <1>1, <1>2, <1>3, <1>4, <1>5, <1>6

-----------------------------------------------------------------------------
\* Halving often enough leaves nothing: the sizes of the layers end.
LEMMA PowerOfTwo ==
  ASSUME NEW k \in Nat
  PROVE  2^k \in Nat /\ k < 2^k
  <1> DEFINE S == SUBSET (1..k)
             f == [i \in 0..k |-> IF i = 0 THEN {} ELSE {i}]
  <1>1. IsFiniteSet(1..k) /\ Cardinality(1..k) = k
    BY FS_Interval
  <1>2. IsFiniteSet(S) /\ Cardinality(S) = 2^k
    BY <1>1, FS_SUBSET
  <1>3. Cardinality(S) \in Nat
    BY <1>2, FS_CardinalityType
  <1>4. \A i \in 0..k : f[i] \in S
    <2>1. \A i \in 0..k : i # 0 => i \in 1..k
      OBVIOUS
    <2> QED BY <2>1
  <1>5. \A i, j \in 0..k : f[i] = f[j] => i = j
    OBVIOUS
  <1> HIDE DEF f, S
  <1>6. f \in Injection(0..k, S)
    <2>1. f = [i \in 0..k |-> f[i]]
      BY DEF f
    <2> QED BY <1>4, <1>5, <2>1 DEF Injection, IsInjective
  <1>7. Cardinality(0..k) <= Cardinality(S)
    BY <1>2, <1>6, FS_Injection, Zenon
  <1>8. Cardinality(0..k) = k + 1
    <2>1. ~(0 > k) /\ k - 0 + 1 = k + 1 /\ 0 \in Int /\ k \in Int
      OBVIOUS
    <2> QED BY <2>1, FS_Interval
  <1> DEFINE c == Cardinality(S)
  <1>9. c \in Nat /\ k + 1 <= c /\ 2^k = c
    BY <1>2, <1>3, <1>7, <1>8
  <1> HIDE DEF c
  <1>10. c \in Nat /\ k < c
    BY <1>9
  <1> QED BY <1>9, <1>10

\* There is a layer, and the first may take all rows.
LEMMA MaxSizes ==
  ASSUME NEW nRows \in Nat
  PROVE  LET sizes == LayersMaxSize(nRows)
         IN  /\ sizes \in Seq(Nat) /\ Len(sizes) # 0
             /\ sizes[1] = nRows
  <1>1. CASE PirType \notin HintSchemes
    BY <1>1 DEF LayersMaxSize
  <1>2. CASE PirType \in HintSchemes
    <2> DEFINE H == {k \in 0..nRows : nRows \div 2^k <= SmallestLayerSize}
               h == Min(H)
               e(i) == nRows \div 2^(i - 1)
    <2>1. nRows \div 2^nRows = 0
      <3> DEFINE p == 2^nRows
      <3>1. p \in Nat /\ nRows < p
        BY PowerOfTwo
      <3> HIDE DEF p
      <3>2. (0 * p + nRows) \div p = 0
        BY <3>1, DivUnique
      <3>3. 0 * p + nRows = nRows
        BY <3>1
      <3> QED BY <3>2, <3>3 DEF p
    <2>2. nRows \in H
      BY <2>1, WaterfallAssumption
    <2>3. H \in SUBSET Nat /\ H # {}
      BY <2>2
    <2> HIDE DEF H
    <2>4. h \in H
      BY <2>3, MinType
    <2>5. h \in Nat
      BY <2>3, <2>4
    <2> HIDE DEF h
    <2>6. LayersMaxSize(nRows) = [i \in 1..(h + 1) |-> e(i)]
      BY <1>2 DEF LayersMaxSize, h, H
    <2>7. \A i \in 1..(h + 1) : e(i) \in Nat
      <3>1. ASSUME NEW i \in 1..(h + 1) PROVE e(i) \in Nat
        <4> DEFINE p == 2^(i - 1)
        <4>1. i - 1 \in Nat
          BY <2>5
        <4>2. p \in Nat /\ p > 0
          BY <4>1, PowerOfTwo
        <4> HIDE DEF p
        <4>3. nRows \div p \in Nat
          BY <4>2
        <4> QED BY <4>3 DEF p
      <3> QED BY <3>1
    <2>8. e(1) = nRows
      <3>1. 1 - 1 = 0 /\ 2^0 = 1 /\ nRows \div 1 = nRows
        OBVIOUS
      <3> QED BY <3>1
    <2> HIDE DEF e
    <2>9. 1 \in 1..(h + 1) /\ h + 1 \in Nat /\ h + 1 # 0
      BY <2>5
    <2> QED BY <2>6, <2>7, <2>8, <2>9
  <1> QED BY <1>1, <1>2

-----------------------------------------------------------------------------
\* The invariant of a waterfall: the filled layers cut its rows into
\* consecutive pieces, none above its layer's size, and only filled layers
\* have clients.
Tiled(w, D) ==
  /\ w \in [numRows : Nat, layers : Seq(Layer(D))]
  /\ w.numRows = RowsIn(w.layers, 1, Len(w.layers))
  /\ \A i \in 1..Len(w.layers) : LET l == w.layers[i] IN
       /\ l.numRows # 0 => l.numRows <= l.maxSize /\ l.firstRow = RowsIn(w.layers, 1, i - 1)
       /\ l.pir => l.numRows # 0

LEMMA LayersTyped ==
  ASSUME NEW D, NEW layers \in Seq(Layer(D))
  PROVE  /\ Len(layers) \in Nat /\ Rowed(layers, 1, Len(layers))
         /\ \A i \in 1..Len(layers) : layers[i] \in Layer(D)
  <1>1. Len(layers) \in Nat /\ \A i \in 1..Len(layers) : layers[i] \in Layer(D)
    BY ElementOfSeq
  <1> QED BY <1>1 DEF Rowed, Layer

LEMMA NewTiled ==
  ASSUME NEW D
  PROVE  Tiled(NewWaterfallClient, D)
  <1>1. 0 \in Int /\ 1 \in Int /\ 1 <= 0 + 1 /\ 1 - 1 = 0 /\ Rowed(<<>>, 1, 0)
    BY DEF Rowed
  <1>2. RowsIn(<<>>, 1, 0) = 0
    BY <1>1, RowsInSum
  <1> QED BY <1>2 DEF Tiled, NewWaterfallClient

\* The layer new fits at place i of base for n new rows: above it are the
\* layers of w, nothing is below it.
FitsAt(new, i, base, w, n, D) ==
  /\ base \in Seq(Layer(D)) /\ i \in 1..Len(base) /\ new \in Layer(D)
  /\ \A j \in 1..(i - 1) : j \in 1..Len(w.layers) /\ base[j] = w.layers[j]
  /\ \A j \in (i + 1)..Len(base) : base[j].numRows = 0 /\ ~base[j].pir
  /\ new.numRows # 0 /\ new.numRows <= new.maxSize
  /\ new.firstRow = RowsIn(w.layers, 1, i - 1)
  /\ new.firstRow + new.numRows = w.numRows + n

WithLayer(new, i, base, w, n) ==
  [numRows |-> w.numRows + n, layers |-> [base EXCEPT ![i] = new]]

LEMMA TiledWith ==
  ASSUME NEW D, NEW w, Tiled(w, D), NEW n \in Nat, n # 0,
         NEW base, NEW i, NEW new, FitsAt(new, i, base, w, n, D)
  PROVE  LET u == WithLayer(new, i, base, w, n)
         IN  /\ Tiled(u, D)
             /\ LastFilled(u.layers) = i /\ Len(u.layers) = Len(base) /\ u.layers[i] = new
             /\ \A j \in 1..Len(base) : j # i => u.layers[j] = base[j]
  <1>0. /\ base \in Seq(Layer(D)) /\ i \in 1..Len(base) /\ new \in Layer(D)
        /\ \A j \in 1..(i - 1) : j \in 1..Len(w.layers) /\ base[j] = w.layers[j]
        /\ \A j \in (i + 1)..Len(base) : base[j].numRows = 0 /\ ~base[j].pir
        /\ new.numRows # 0 /\ new.numRows <= new.maxSize
        /\ new.firstRow = RowsIn(w.layers, 1, i - 1)
        /\ new.firstRow + new.numRows = w.numRows + n
    BY DEF FitsAt
  <1> DEFINE L == [base EXCEPT ![i] = new]
             m == Len(base)
             u == [numRows |-> w.numRows + n, layers |-> L]
  <1>1. m \in Nat /\ L \in Seq(Layer(D)) /\ Len(L) = m /\ L[i] = new
        /\ \A j \in 1..m : j # i => L[j] = base[j]
    BY <1>0
  <1> HIDE DEF L, m
  <1>2. i \in 1..m /\ i \in Int
    BY <1>0, <1>1 DEF m
  <1>3. w.layers \in Seq(Layer(D)) /\ w.numRows \in Nat
    BY DEF Tiled
  <1>4. Rowed(L, 1, m) /\ \A j \in 1..m : L[j] \in Layer(D)
    BY <1>1, LayersTyped
  <1>5. /\ RowsIn(L, 1, i - 1) \in Nat
        /\ RowsIn(L, 1, i) = RowsIn(L, 1, i - 1) + new.numRows
        /\ RowsIn(L, 1, m) = RowsIn(L, 1, i) + RowsIn(L, i + 1, m)
    BY <1>1, <1>2, <1>4, RowsInWithin
  <1>6. \A j \in 1..(i - 1) : L[j] = w.layers[j] /\ j \in 1..m /\ j \in 1..Len(w.layers)
    <2>1. \A j \in 1..(i - 1) : j \in 1..m /\ j # i
      BY <1>1, <1>2
    <2> QED BY <1>0, <1>1, <2>1
  <1>7. ASSUME NEW j \in 1..i PROVE RowsIn(L, 1, j - 1) = RowsIn(w.layers, 1, j - 1)
    <2>1. \A k \in 1..(j - 1) : k \in 1..(i - 1)
      BY <1>2
    <2>2. \A k \in 1..(j - 1) : L[k].numRows = w.layers[k].numRows
      BY <1>6, <2>1
    <2> QED BY <2>2, RowsInAgree
  <1>8. \A j \in (i + 1)..m : L[j] = base[j] /\ L[j].numRows = 0 /\ ~L[j].pir
    <2>1. \A j \in (i + 1)..m : j \in 1..m /\ j # i
      BY <1>1, <1>2
    <2> QED BY <1>0, <1>1, <2>1 DEF m
  <1>9. RowsIn(L, i + 1, m) = 0
    BY <1>8, RowsInNone
  <1>10. new.numRows \in Nat /\ new.firstRow \in Nat
    BY <1>0 DEF Layer
  <1>11. RowsIn(L, 1, i - 1) = new.firstRow
    <2>1. i \in 1..i
      BY <1>2
    <2> QED BY <1>0, <1>7, <2>1
  <1>12. RowsIn(L, 1, m) = w.numRows + n
    BY <1>0, <1>3, <1>5, <1>9, <1>10, <1>11
  <1>13. ASSUME NEW j \in 1..m
         PROVE  /\ L[j].numRows # 0 => L[j].numRows <= L[j].maxSize
                                       /\ L[j].firstRow = RowsIn(L, 1, j - 1)
                /\ L[j].pir => L[j].numRows # 0
    <2>1. CASE j = i
      BY <1>0, <1>1, <1>11, <2>1
    <2>2. CASE j \in 1..(i - 1)
      <3>1. j \in 1..i /\ j \in 1..Len(w.layers) /\ L[j] = w.layers[j]
        BY <1>2, <1>6, <2>2
      <3>2. RowsIn(L, 1, j - 1) = RowsIn(w.layers, 1, j - 1)
        BY <1>7, <3>1
      <3> QED BY <3>1, <3>2 DEF Tiled
    <2>3. CASE j \in (i + 1)..m
      BY <1>8, <2>3
    <2>4. j = i \/ j \in 1..(i - 1) \/ j \in (i + 1)..m
      BY <1>1, <1>2
    <2> QED BY <2>1, <2>2, <2>3, <2>4
  <1>14. Tiled(u, D)
    <2>1. w.numRows + n \in Nat
      BY <1>3
    <2> QED BY <1>1, <1>12, <1>13, <2>1 DEF Tiled
  <1>15. LastFilled(L) = i
    <2> DEFINE S == {0} \cup {j \in 1..Len(L) : L[j].numRows # 0}
    <2>1. S \in SUBSET (0..m) /\ i \in S
      BY <1>0, <1>1, <1>2
    <2>2. Max(S) \in S /\ \A y \in S : y <= Max(S)
      BY <1>1, <2>1, MaxType
    <2>3. \A y \in S : y <= i
      <3>1. ASSUME NEW y \in S PROVE ~(y > i)
        <4>1. y > i => y \in (i + 1)..m
          BY <1>1, <1>2, <2>1
        <4> QED BY <1>1, <1>2, <1>8, <4>1
      <3>2. \A y \in S : y \in Int
        BY <1>1, <2>1
      <3> QED BY <1>2, <3>1, <3>2
    <2>4. Max(S) \in Int
      BY <1>1, <2>1, <2>2
    <2> DEFINE x == Max(S)
    <2>5. x <= i /\ i <= x /\ x \in Int
      BY <2>1, <2>2, <2>3, <2>4
    <2> HIDE DEF x
    <2>6. x = i
      BY <1>2, <2>5
    <2> QED BY <2>6 DEF LastFilled, x
  <1> QED BY <1>1, <1>14, <1>15 DEF L, m, WithLayer

LEMMA EmptyLayerType ==
  ASSUME NEW D, NEW size \in Nat
  PROVE  /\ EmptyLayer(size) \in Layer(D) /\ EmptyLayer(size).maxSize = size
         /\ EmptyLayer(size).numRows = 0 /\ ~EmptyLayer(size).pir
  BY DEF EmptyLayer, Layer, Schemes

\* A layer as updateLayers fills it.
Filled(max, first, rows, type, free) ==
  [maxSize |-> max, firstRow |-> first, numRows |-> rows, pirType |-> type,
   pir |-> free, hint |-> <<>>]

LEMMA FilledType ==
  ASSUME NEW D, NEW max \in Nat, NEW first \in Nat, NEW rows \in Nat,
         NEW type \in Schemes, NEW free \in BOOLEAN
  PROVE  LET l == Filled(max, first, rows, type, free)
         IN  /\ l \in Layer(D) /\ l.maxSize = max /\ l.firstRow = first /\ l.numRows = rows
             /\ l.pirType = type /\ l.pir = free
  BY DEF Filled, Layer

\* New rows fill one layer, which has a client at once only if its scheme
\* works without hints; the other filled layers are left alone.
LEMMA UpdateLayersOK ==
  ASSUME NEW D, NEW w, Tiled(w, D), NEW n \in Nat, n # 0
  PROVE  LET u == updateLayers(w, n)
             i == LastFilled(u.layers)
         IN  /\ Tiled(u, D) /\ u.numRows = w.numRows + n
             /\ i \in 1..Len(u.layers)
             /\ u.layers[i].numRows # 0
             /\ u.layers[i].pir <=> u.layers[i].pirType \notin HintSchemes
             /\ \A j \in 1..Len(u.layers) : j # i /\ u.layers[j].numRows # 0 =>
                  j \in 1..Len(w.layers) /\ u.layers[j] = w.layers[j]
  <1> DEFINE L == w.layers
             m == Len(L)
             at == LayerFor(L, n)
             i == IF at = 0 THEN 1 ELSE at
             rows == TakenRows(L, i, n)
             base == IF at = 0 THEN freshLayers(rows)
                     ELSE [j \in 1..m |-> IF j > at THEN EmptyLayer(L[j].maxSize) ELSE L[j]]
             type == IF i = Len(base) /\ PirType \in HintSchemes THEN "DPF" ELSE PirType
             free == type \notin HintSchemes
             new == Filled(base[i].maxSize, w.numRows + n - rows, rows, type, free)
             u == updateLayers(w, n)
  <1>1. u = [numRows |-> w.numRows + n, layers |-> [base EXCEPT ![i] = new]]
    BY DEF updateLayers, Filled
  <1>2. /\ L \in Seq(Layer(D)) /\ w.numRows \in Nat /\ w.numRows = RowsIn(L, 1, m)
        /\ m \in Nat /\ Rowed(L, 1, m) /\ \A j \in 1..m : L[j] \in Layer(D)
    <2>1. L \in Seq(Layer(D)) /\ w.numRows \in Nat /\ w.numRows = RowsIn(L, 1, m)
      BY DEF Tiled
    <2> QED BY <2>1, LayersTyped
  <1> HIDE DEF u, type, L
  <1>3. at = 0 \/ (at \in 2..m /\ TakenRows(L, at, n) <= L[at].maxSize)
    <2> DEFINE S == {0} \cup {j \in 2..m : TakenRows(L, j, n) <= L[j].maxSize}
    <2>1. S \in SUBSET (0..m) /\ S # {}
      <3>1. \A j \in 2..m : j \in 0..m
        BY <1>2
      <3>2. 0 \in 0..m
        BY <1>2
      <3> QED BY <3>1, <3>2
    <2>2. at = Max(S)
      BY DEF LayerFor
    <2> HIDE DEF S, at
    <2>3. at \in S
      BY <1>2, <2>1, <2>2, MaxType
    <2> QED BY <2>3 DEF S
  <1>4. type \in Schemes /\ free \in BOOLEAN /\ (free <=> type \notin HintSchemes)
    BY DEF type, Schemes
  <1> HIDE DEF at, m, free
  <1>5. CASE at = 0
    <2>1. i = 1 /\ rows = n + RowsIn(L, 1, m) /\ base = freshLayers(rows)
      BY <1>5 DEF TakenRows, m
    <2>2. rows = w.numRows + n /\ rows \in Nat /\ rows # 0
      BY <1>2, <2>1
    <2> DEFINE sizes == LayersMaxSize(rows)
               b == freshLayers(rows)
    <2> HIDE DEF rows
    <2>3. sizes \in Seq(Nat) /\ Len(sizes) # 0 /\ sizes[1] = rows
      BY <2>2, MaxSizes
    <2>4. b = [j \in 1..Len(sizes) |-> EmptyLayer(sizes[j])]
      BY DEF freshLayers
    <2> HIDE DEF sizes, b
    <2>5. Len(sizes) \in Nat /\ \A j \in 1..Len(sizes) : sizes[j] \in Nat
      BY <2>3, ElementOfSeq
    <2>6. \A j \in 1..Len(sizes) : EmptyLayer(sizes[j]) \in Layer(D)
      BY <2>5, EmptyLayerType
    <2>7. b \in Seq(Layer(D)) /\ Len(b) = Len(sizes) /\ 1 \in 1..Len(b)
          /\ \A j \in 1..Len(b) : b[j] = EmptyLayer(sizes[j]) /\ sizes[j] \in Nat
      BY <2>3, <2>4, <2>5, <2>6
    <2>8. b[1].maxSize = rows /\ \A j \in 1..Len(b) : b[j].numRows = 0 /\ ~b[j].pir
      BY <2>3, <2>7, EmptyLayerType
    <2>9. base = b
      BY <2>1 DEF b
    <2>10. new = Filled(rows, 0, rows, type, free)
      <3>1. w.numRows + n - rows = 0 /\ base[i].maxSize = rows
        BY <1>2, <2>1, <2>2, <2>8, <2>9
      <3> QED BY <3>1
    <2>11. /\ new \in Layer(D) /\ new.maxSize = rows /\ new.firstRow = 0 /\ new.numRows = rows
           /\ new.pirType = type /\ new.pir = free
      BY <1>4, <2>2, <2>10, FilledType
    <2>12. RowsIn(L, 1, 0) = 0
      <3>1. 1 \in Int /\ m \in Int /\ 1 <= m + 1 /\ 1 - 1 = 0
        BY <1>2
      <3>2. RowsIn(L, 1, 1 - 1) = 0
        BY <1>2, <3>1, RowsInSum
      <3> QED BY <3>1, <3>2
    <2> HIDE DEF new, base, i
    <2>13. /\ new.numRows # 0 /\ new.numRows <= new.maxSize /\ new.firstRow = RowsIn(w.layers, 1, 1 - 1)
           /\ new.firstRow + new.numRows = w.numRows + n
           /\ new.pir <=> new.pirType \notin HintSchemes
      <3>1. 0 + rows = w.numRows + n /\ 1 - 1 = 0 /\ rows <= rows
        BY <2>2
      <3> QED BY <1>4, <2>2, <2>11, <2>12, <3>1 DEF L
    <2>14. \A j \in 1..(1 - 1) : j \in 1..Len(w.layers) /\ b[j] = w.layers[j]
      OBVIOUS
    <2>15. \A j \in (1 + 1)..Len(b) : b[j].numRows = 0 /\ ~b[j].pir
      <3>1. \A j \in (1 + 1)..Len(b) : j \in 1..Len(b)
        OBVIOUS
      <3> QED BY <2>8, <3>1
    <2>16. u = [numRows |-> w.numRows + n, layers |-> [b EXCEPT ![1] = new]]
      BY <1>1, <2>1, <2>9
    <2>17. /\ Tiled(u, D) /\ LastFilled(u.layers) = 1 /\ Len(u.layers) = Len(b)
           /\ u.layers[1] = new /\ \A j \in 1..Len(b) : j # 1 => u.layers[j] = b[j]
      <3>1. FitsAt(new, 1, b, w, n, D)
        BY <2>7, <2>11, <2>13, <2>14, <2>15 DEF FitsAt
      <3>2. u = WithLayer(new, 1, b, w, n)
        BY <2>16 DEF WithLayer
      <3> QED BY <3>1, <3>2, TiledWith
    <2>18. u.numRows = w.numRows + n
      BY <2>16
    <2> QED BY <2>7, <2>8, <2>13, <2>17, <2>18 DEF u
  <1>6. CASE at # 0
    <2>1. /\ i = at /\ at \in 2..m /\ rows <= L[at].maxSize
          /\ base = [j \in 1..m |-> IF j > at THEN EmptyLayer(L[j].maxSize) ELSE L[j]]
      BY <1>3, <1>6
    <2>2. at \in 1..m /\ at \in Int
      BY <1>2, <2>1
    <2>3. /\ RowsIn(L, 1, m) = RowsIn(L, 1, at - 1) + RowsIn(L, at, m)
          /\ RowsIn(L, 1, at - 1) \in Nat /\ RowsIn(L, at, m) \in Nat
      BY <1>2, <2>2, RowsInWithin
    <2>4. rows = n + RowsIn(L, at, m)
      BY <2>1 DEF TakenRows, m
    <2> HIDE DEF rows
    <2>5. rows \in Nat /\ rows # 0 /\ w.numRows + n - rows = RowsIn(L, 1, at - 1)
      <3> DEFINE x == RowsIn(L, 1, at - 1)
                 y == RowsIn(L, at, m)
      <3>1. x \in Nat /\ y \in Nat /\ w.numRows = x + y /\ rows = n + y
        BY <1>2, <2>3, <2>4
      <3> HIDE DEF x, y
      <3>2. rows \in Nat /\ rows # 0 /\ w.numRows + n - rows = x
        BY <3>1
      <3> QED BY <3>2 DEF x
    <2> DEFINE b == [j \in 1..m |-> IF j > at THEN EmptyLayer(L[j].maxSize) ELSE L[j]]
    <2>6. \A j \in 1..m : EmptyLayer(L[j].maxSize) \in Layer(D) /\ L[j].maxSize \in Nat
      <3>1. \A j \in 1..m : L[j].maxSize \in Nat
        BY <1>2 DEF Layer
      <3> QED BY <3>1, EmptyLayerType
    <2>7. b \in Seq(Layer(D)) /\ Len(b) = m
          /\ \A j \in 1..m : b[j] = IF j > at THEN EmptyLayer(L[j].maxSize) ELSE L[j]
      BY <1>2, <2>6
    <2>8. base = b
      BY <2>1
    <2> HIDE DEF b
    <2>9. b[at].maxSize = L[at].maxSize /\ L[at].maxSize \in Nat
      <3>1. b[at] = L[at]
        BY <2>2, <2>7
      <3> QED BY <2>2, <2>6, <3>1
    <2>10. new = Filled(L[at].maxSize, RowsIn(L, 1, at - 1), rows, type, free)
      <3>1. base[i].maxSize = L[at].maxSize
        BY <2>1, <2>8, <2>9
      <3>2. w.numRows + n - rows = RowsIn(L, 1, at - 1)
        BY <2>5
      <3> DEFINE max == base[i].maxSize
                 first == w.numRows + n - rows
      <3>3. new = Filled(max, first, rows, type, free)
        OBVIOUS
      <3> HIDE DEF max, first, new
      <3>4. max = L[at].maxSize /\ first = RowsIn(L, 1, at - 1)
        BY <3>1, <3>2 DEF max, first
      <3> QED BY <3>3, <3>4
    <2> HIDE DEF new, base, i
    <2>11. /\ new \in Layer(D) /\ new.maxSize = L[at].maxSize
           /\ new.firstRow = RowsIn(L, 1, at - 1) /\ new.numRows = rows
           /\ new.pirType = type /\ new.pir = free
      <3> DEFINE max == L[at].maxSize
                 first == RowsIn(L, 1, at - 1)
      <3>1. /\ max \in Nat /\ first \in Nat /\ rows \in Nat
            /\ type \in Schemes /\ free \in BOOLEAN
        BY <1>4, <2>3, <2>5, <2>9
      <3>2. new = Filled(max, first, rows, type, free)
        BY <2>10
      <3> HIDE DEF max, first
      <3>3. /\ new \in Layer(D) /\ new.maxSize = max /\ new.firstRow = first
            /\ new.numRows = rows /\ new.pirType = type /\ new.pir = free
        BY <3>1, <3>2, FilledType
      <3> QED BY <3>3 DEF max, first
    <2>12. /\ new.numRows # 0 /\ new.numRows <= new.maxSize
           /\ new.firstRow = RowsIn(w.layers, 1, at - 1)
           /\ new.firstRow + new.numRows = w.numRows + n
           /\ new.pir <=> new.pirType \notin HintSchemes
      <3>1. RowsIn(L, 1, at - 1) + rows = w.numRows + n
        <4> DEFINE x == RowsIn(L, 1, at - 1)
        <4>1. x \in Nat /\ w.numRows + n - rows = x
          BY <2>3, <2>5
        <4> HIDE DEF x
        <4>2. x + rows = w.numRows + n
          BY <1>2, <2>5, <4>1
        <4> QED BY <4>2 DEF x
      <3> QED BY <1>4, <2>1, <2>5, <2>11, <3>1 DEF L
    <2>13. \A j \in 1..(at - 1) : j \in 1..Len(w.layers) /\ b[j] = w.layers[j]
      <3>1. \A j \in 1..(at - 1) : j \in 1..m /\ ~(j > at)
        BY <1>2, <2>2
      <3> QED BY <2>7, <3>1 DEF L, m
    <2>14. \A j \in (at + 1)..Len(b) : b[j].numRows = 0 /\ ~b[j].pir
      <3>1. \A j \in (at + 1)..m : j \in 1..m /\ j > at
        BY <1>2, <2>2
      <3> QED BY <2>6, <2>7, <3>1, EmptyLayerType
    <2>15. u = [numRows |-> w.numRows + n, layers |-> [b EXCEPT ![at] = new]]
      BY <1>1, <2>1, <2>8
    <2>16. /\ Tiled(u, D) /\ LastFilled(u.layers) = at /\ Len(u.layers) = Len(b)
           /\ u.layers[at] = new /\ \A j \in 1..Len(b) : j # at => u.layers[j] = b[j]
      <3>1. at \in 1..Len(b)
        BY <2>2, <2>7
      <3>2. FitsAt(new, at, b, w, n, D)
        BY <2>7, <2>11, <2>12, <2>13, <2>14, <3>1 DEF FitsAt
      <3>3. u = WithLayer(new, at, b, w, n)
        BY <2>15 DEF WithLayer
      <3> QED BY <3>2, <3>3, TiledWith
    <2>17. ASSUME NEW j \in 1..Len(u.layers), j # at, u.layers[j].numRows # 0
           PROVE  j \in 1..Len(w.layers) /\ u.layers[j] = w.layers[j]
      <3>1. j \in 1..m /\ u.layers[j] = b[j] /\ b[j].numRows # 0
        BY <2>7, <2>16, <2>17
      <3>2. ~(j > at)
        BY <2>6, <2>7, <3>1, EmptyLayerType
      <3> QED BY <2>7, <3>1, <3>2 DEF L, m
    <2>18. u.numRows = w.numRows + n /\ at \in 1..Len(u.layers)
      BY <2>2, <2>7, <2>15, <2>16
    <2> QED BY <2>12, <2>16, <2>17, <2>18 DEF u
  <1> QED BY <1>5, <1>6

\* InitHint changes one layer, which keeps its place and its size.
LEMMA InitHintOK ==
  ASSUME NEW D, NEW w, Tiled(w, D), NEW rows \in Seq(D),
         LastFilled(w.layers) \in 1..Len(w.layers),
         w.layers[LastFilled(w.layers)].numRows # 0
  PROVE  LET u == InitHint(w, rows)
             i == LastFilled(w.layers)
         IN  /\ Tiled(u, D) /\ u.numRows = w.numRows /\ Len(u.layers) = Len(w.layers)
             /\ \A j \in 1..Len(w.layers) : j # i => u.layers[j] = w.layers[j]
             /\ u.layers[i].hint = rows
             /\ u.layers[i].firstRow = w.layers[i].firstRow
             /\ u.layers[i].numRows = w.layers[i].numRows
  <1> DEFINE i == LastFilled(w.layers)
             L == w.layers
             m == Len(L)
             l == [L[i] EXCEPT !.pir = TRUE, !.hint = rows]
             u == InitHint(w, rows)
  <1>1. L \in Seq(Layer(D)) /\ m \in Nat /\ i \in 1..m /\ L[i] \in Layer(D)
        /\ w \in [numRows : Nat, layers : Seq(Layer(D))] /\ w.numRows = RowsIn(L, 1, m)
    BY LayersTyped DEF Tiled
  <1>2. u = [w EXCEPT !.layers = [L EXCEPT ![i] = l]]
    BY <1>1 DEF InitHint, Layer
  <1>3. /\ l \in Layer(D) /\ l.pir /\ l.hint = rows /\ l.maxSize = L[i].maxSize
        /\ l.firstRow = L[i].firstRow /\ l.numRows = L[i].numRows
    BY <1>1 DEF Layer
  <1> HIDE DEF l, u, i
  <1>4. /\ u \in [numRows : Nat, layers : Seq(Layer(D))] /\ u.numRows = w.numRows
        /\ Len(u.layers) = m /\ u.layers[i] = l
        /\ \A j \in 1..m : j # i => u.layers[j] = L[j]
    <2> DEFINE M == [L EXCEPT ![i] = l]
    <2>1. M \in Seq(Layer(D)) /\ Len(M) = m /\ M[i] = l
          /\ \A j \in 1..m : j # i => M[j] = L[j]
      BY <1>1, <1>3
    <2> HIDE DEF M, L, m
    <2>2. u.layers = M /\ u.numRows = w.numRows
          /\ u \in [numRows : Nat, layers : Seq(Layer(D))]
      BY <1>1, <1>2, <2>1 DEF M
    <2> QED BY <2>1, <2>2
  <1>5. \A j \in 1..m : /\ u.layers[j].numRows = L[j].numRows
                       /\ u.layers[j].firstRow = L[j].firstRow
                       /\ u.layers[j].maxSize = L[j].maxSize
    BY <1>3, <1>4
  <1>6. RowsIn(u.layers, 1, m) = RowsIn(L, 1, m)
    BY <1>5, RowsInAgree
  <1>7. ASSUME NEW j \in 1..m
        PROVE  RowsIn(u.layers, 1, j - 1) = RowsIn(L, 1, j - 1)
    <2>1. \A k \in 1..(j - 1) : k \in 1..m
      BY <1>1
    <2> QED BY <1>5, <2>1, RowsInAgree
  <1>8. \A j \in 1..m :
          /\ (L[j].numRows # 0) => (L[j].numRows <= L[j].maxSize /\ L[j].firstRow = RowsIn(L, 1, j - 1))
          /\ L[j].pir => L[j].numRows # 0
    BY DEF Tiled
  <1>9. L[i].numRows # 0
    BY DEF i
  <1>10. ASSUME NEW j \in 1..m
         PROVE  /\ u.layers[j].numRows # 0 =>
                     /\ u.layers[j].numRows <= u.layers[j].maxSize
                     /\ u.layers[j].firstRow = RowsIn(u.layers, 1, j - 1)
                /\ u.layers[j].pir => u.layers[j].numRows # 0
    <2>1. u.layers[j].numRows # 0 => /\ u.layers[j].numRows <= u.layers[j].maxSize
                                     /\ u.layers[j].firstRow = RowsIn(u.layers, 1, j - 1)
      <3>1. /\ u.layers[j].numRows = L[j].numRows
            /\ u.layers[j].firstRow = L[j].firstRow
            /\ u.layers[j].maxSize = L[j].maxSize
        BY <1>5
      <3>2. RowsIn(u.layers, 1, j - 1) = RowsIn(L, 1, j - 1)
        BY <1>7
      <3>3. (L[j].numRows # 0) => (L[j].numRows <= L[j].maxSize /\ L[j].firstRow = RowsIn(L, 1, j - 1))
        BY <1>8
      <3> HIDE DEF L, m
      <3> QED BY <3>1, <3>2, <3>3
    <2>2. u.layers[j].pir => u.layers[j].numRows # 0
      BY <1>4, <1>5, <1>8, <1>9
    <2> QED BY <2>1, <2>2
  <1>11. Tiled(u, D)
    BY <1>1, <1>4, <1>6, <1>10 DEF Tiled
  <1> QED BY <1>3, <1>4, <1>11 DEF u, i

-----------------------------------------------------------------------------
\* The layers that have a client.
Active(w) == {i \in 1..Len(w.layers) : w.layers[i].pir}

\* No filled layer is without one.
AllActive(w) == \A i \in 1..Len(w.layers) : w.layers[i].numRows # 0 => w.layers[i].pir

\* When every filled layer has its client, the layers with clients, taken by
\* themselves, cut the rows at the same places.
LEMMA ActiveRows ==
  ASSUME NEW D, NEW w, Tiled(w, D), AllActive(w)
  PROVE  LET a == Picked(w.layers, Active(w))
             f == InOrder(Active(w))
         IN  /\ a \in Seq(Layer(D)) /\ Len(a) \in Nat
             /\ \A m \in 1..Len(a) : /\ f[m] \in 1..Len(w.layers) /\ a[m] = w.layers[f[m]]
                                     /\ a[m].pir /\ a[m].firstRow = RowsIn(a, 1, m - 1)
             /\ RowsIn(a, 1, Len(a)) = w.numRows
  <1> DEFINE L == w.layers
             n == Len(L)
             S == Active(w)
             a == Picked(L, S)
             k == Len(a)
             f == InOrder(S)
             g(m) == IF m = 0 THEN 0 ELSE IF m = k + 1 THEN n + 1 ELSE f[m]
  <1>1. /\ L \in Seq(Layer(D)) /\ w.numRows = RowsIn(L, 1, n)
        /\ n \in Nat /\ Rowed(L, 1, n) /\ \A i \in 1..n : L[i] \in Layer(D)
    <2>1. L \in Seq(Layer(D)) /\ w.numRows = RowsIn(L, 1, n)
      BY DEF Tiled
    <2> QED BY <2>1, LayersTyped
  <1>2. \A i \in 1..n : /\ L[i].numRows # 0 => L[i].firstRow = RowsIn(L, 1, i - 1)
                        /\ i \in S <=> L[i].pir
                        /\ L[i].pir <=> L[i].numRows # 0
    BY DEF Tiled, AllActive, Active
  <1>3. S \in SUBSET (1..n)
    BY DEF Active
  <1> HIDE DEF S, L
  <1>4. /\ a \in Seq(Layer(D)) /\ k \in Nat /\ k = Cardinality(S) /\ f \in [1..k -> S]
        /\ \A m \in 1..k : a[m] = L[f[m]]
    <2>1. /\ a \in Seq(Layer(D)) /\ Len(a) = Cardinality(S)
          /\ f \in [1..Cardinality(S) -> S]
          /\ \A m \in 1..Cardinality(S) : a[m] = L[f[m]]
      BY <1>1, <1>3, PickedType
    <2> HIDE DEF a, f
    <2> QED BY <2>1
  <1>5. /\ \A p, q \in 1..k : p < q => f[p] < f[q]
        /\ \A i \in S : \E t \in 1..k : f[t] = i
    <2>1. IsFiniteSet(S) /\ S \in SUBSET Int
      BY <1>1, <1>3, PlacesFinite
    <2>2. k = Cardinality(S)
      BY <1>4
    <2>3. /\ \A p, q \in 1..Cardinality(S) : p < q => InOrder(S)[p] < InOrder(S)[q]
          /\ \A i \in S : \E t \in 1..Cardinality(S) : InOrder(S)[t] = i
      BY <2>1, InOrderEnumerates
    <2> HIDE DEF k
    <2> QED BY <2>2, <2>3 DEF f
  <1> HIDE DEF a, f, k, n
  <1>6. \A m \in 1..k : f[m] \in S /\ f[m] \in 1..n
    BY <1>3, <1>4
  <1>7. ASSUME NEW m \in 0..k
        PROVE  /\ g(m) \in 0..n /\ g(m + 1) \in 1..(n + 1) /\ g(m) < g(m + 1)
               /\ m < k => g(m + 1) = f[m + 1]
               /\ m > 0 => g(m) = f[m]
    <2>1. /\ m + 1 # 0 /\ m # k + 1 /\ m \in Int
          /\ m > 0 => m \in 1..k /\ m # 0
          /\ m < k => m + 1 \in 1..k /\ m + 1 # k + 1
          /\ ~(m > 0) => m = 0
          /\ ~(m < k) => m = k
      BY <1>4
    <2>2. /\ m > 0 => g(m) = f[m] /\ f[m] \in 1..n
          /\ ~(m > 0) => g(m) = 0
          /\ m < k => g(m + 1) = f[m + 1] /\ f[m + 1] \in 1..n
          /\ ~(m < k) => g(m + 1) = n + 1
      BY <1>6, <2>1
    <2>3. m > 0 /\ m < k => f[m] < f[m + 1]
      BY <1>5, <2>1
    <2> HIDE DEF g
    <2>4. g(m) \in 0..n /\ g(m + 1) \in 1..(n + 1)
      BY <1>1, <2>2
    <2>5. g(m) < g(m + 1)
      BY <1>1, <2>2, <2>3
    <2> QED BY <2>2, <2>4, <2>5
  <1> HIDE DEF g
  <1>8. ASSUME NEW m \in 0..k, NEW i \in (g(m) + 1)..(g(m + 1) - 1)
        PROVE  i \in 1..n /\ L[i].numRows = 0
    <2>1. i \in 1..n /\ g(m) < i /\ i < g(m + 1)
      BY <1>1, <1>7
    <2>2. i \notin S
      <3>1. SUFFICES ASSUME NEW t \in 1..k, f[t] = i PROVE FALSE
        BY <1>5
      <3>2. t <= m \/ m + 1 <= t
        BY <1>4
      <3>3. CASE t <= m
        <4>1. m > 0 /\ g(m) = f[m] /\ m \in 1..k
          BY <1>4, <1>7, <3>3
        <4>2. t < m => f[t] < f[m]
          BY <1>5, <4>1
        <4>3. t = m \/ t < m
          BY <1>4, <3>3
        <4>4. f[m] \in 1..n
          BY <1>6, <4>1
        <4> QED BY <1>1, <2>1, <3>1, <4>1, <4>2, <4>3, <4>4
      <3>4. CASE m + 1 <= t
        <4>1. m < k /\ g(m + 1) = f[m + 1] /\ m + 1 \in 1..k
          BY <1>4, <1>7, <3>4
        <4>2. m + 1 < t => f[m + 1] < f[t]
          BY <1>5, <4>1
        <4>3. t = m + 1 \/ m + 1 < t
          BY <1>4, <3>4
        <4>4. f[m + 1] \in 1..n
          BY <1>6, <4>1
        <4> QED BY <1>1, <2>1, <3>1, <4>1, <4>2, <4>3, <4>4
      <3> QED BY <3>2, <3>3, <3>4
    <2> QED BY <1>2, <2>1, <2>2
  <1>9. ASSUME NEW m \in 0..k
        PROVE  RowsIn(L, 1, g(m + 1) - 1) = RowsIn(L, 1, g(m)) /\ RowsIn(L, 1, g(m)) \in Nat
    <2> DEFINE x == g(m)
               y == g(m + 1) - 1
    <2>1. x \in Int /\ y \in Int /\ 1 <= x + 1 /\ x <= y /\ y <= n
      BY <1>1, <1>7
    <2>2. \A i \in (x + 1)..y : L[i].numRows = 0
      BY <1>8
    <2> HIDE DEF x, y
    <2>3. Rowed(L, 1, y) /\ Rowed(L, 1, x)
      <3>1. (\A i \in 1..y : i \in 1..n) /\ (\A i \in 1..x : i \in 1..n)
        BY <1>1, <2>1
      <3> QED BY <1>1, <3>1 DEF Rowed
    <2>4. RowsIn(L, 1, y) = RowsIn(L, 1, x) + RowsIn(L, x + 1, y)
      BY <2>1, <2>3, RowsInSplit
    <2>5. RowsIn(L, x + 1, y) = 0
      BY <2>2, RowsInNone
    <2>6. RowsIn(L, 1, x) \in Nat
      BY <2>1, <2>3, RowsInSum
    <2>7. RowsIn(L, 1, y) = RowsIn(L, 1, x)
      BY <2>4, <2>5, <2>6
    <2> QED BY <2>6, <2>7 DEF x, y
  <1>10. Rowed(a, 1, k) /\ \A m \in 1..k : a[m] \in Layer(D)
    BY <1>4, LayersTyped DEF k
  <1> DEFINE C(m) == RowsIn(a, 1, m) = RowsIn(L, 1, g(m))
             T == {m \in Nat : m <= k => C(m)}
  <1>11. 0 \in T
    <2>1. 1 \in Int /\ 0 \in Int /\ 1 <= 0 + 1 /\ 1 - 1 = 0 /\ \A x : Rowed(x, 1, 0)
      BY DEF Rowed
    <2>2. RowsIn(a, 1, 0) = 0 /\ RowsIn(L, 1, 0) = 0
      BY <2>1, RowsInSum
    <2>3. g(0) = 0
      BY DEF g
    <2> QED BY <2>2, <2>3
  <1>12. ASSUME NEW m \in Nat, m \in T PROVE m + 1 \in T
    <2>1. SUFFICES ASSUME m + 1 <= k PROVE C(m + 1)
      OBVIOUS
    <2>2. m \in 0..k /\ m < k /\ m + 1 \in 1..k /\ C(m) /\ (m + 1) - 1 = m
      BY <1>4, <1>12, <2>1
    <2>3. g(m + 1) = f[m + 1] /\ f[m + 1] \in 1..n
      BY <1>6, <1>7, <2>2
    <2>4. RowsIn(a, 1, m + 1) = RowsIn(a, 1, (m + 1) - 1) + a[m + 1].numRows
      BY <1>4, <1>10, <2>2, RowsInWithin
    <2>5. RowsIn(L, 1, f[m + 1]) = RowsIn(L, 1, f[m + 1] - 1) + L[f[m + 1]].numRows
      BY <1>1, <2>3, RowsInWithin
    <2>6. RowsIn(L, 1, f[m + 1] - 1) = RowsIn(L, 1, g(m))
      BY <1>9, <2>2, <2>3
    <2>7. a[m + 1] = L[f[m + 1]]
      BY <1>4, <2>2
    <2> QED BY <2>2, <2>3, <2>4, <2>5, <2>6, <2>7
  <1>13. \A m \in 0..k : C(m)
    <2>1. \A m \in Nat : m \in T
      <3> HIDE DEF T
      <3> QED BY <1>11, <1>12, NaturalsInSet
    <2>2. \A m \in 0..k : m \in Nat /\ m <= k
      BY <1>4
    <2> QED BY <2>1, <2>2
  <1> HIDE DEF C, T
  <1>14. RowsIn(a, 1, k) = w.numRows
    <2>1. k \in 0..k
      BY <1>4
    <2>2. g(k + 1) - 1 = n
      BY <1>1, <1>4 DEF g
    <2>3. RowsIn(L, 1, n) = RowsIn(L, 1, g(k))
      BY <1>9, <2>1, <2>2
    <2> QED BY <1>1, <1>13, <2>1, <2>3 DEF C
  <1>15. ASSUME NEW m \in 1..k
         PROVE  /\ f[m] \in 1..n /\ a[m] = L[f[m]]
                /\ a[m].pir /\ a[m].firstRow = RowsIn(a, 1, m - 1)
    <2>1. m - 1 \in 0..k /\ m - 1 < k /\ (m - 1) + 1 = m
      BY <1>4
    <2>2. f[m] \in S /\ f[m] \in 1..n /\ a[m] = L[f[m]]
      BY <1>4, <1>6
    <2>3. L[f[m]].pir /\ L[f[m]].firstRow = RowsIn(L, 1, f[m] - 1)
      BY <1>2, <2>2
    <2>4. g(m) = f[m]
      BY <1>7, <2>1
    <2>5. RowsIn(L, 1, f[m] - 1) = RowsIn(L, 1, g(m - 1))
      BY <1>9, <2>1, <2>4
    <2> QED BY <1>13, <2>1, <2>2, <2>3, <2>5 DEF C
  <1> QED BY <1>4, <1>14, <1>15 DEF a, f, k, L, S, n

\* The request part is for the rows of the layer l, and for row pos if that
\* is one of them.
PartOf(part, l, pos) ==
  /\ l.pir /\ part.pirType = l.pirType /\ part.hint = l.hint
  /\ part.first = l.firstRow /\ part.numRows = l.numRows
  /\ part.last = l.firstRow + l.numRows
  /\ part.idx # -1 => part.idx \in 0..(l.numRows - 1) /\ l.firstRow + part.idx = pos

\* A read has one request per layer.
LEMMA QueryType ==
  ASSUME NEW D, NEW w, Tiled(w, D), NEW pos
  PROVE  Len(WaterfallQuery(w, pos)) \in Nat
  <1> DEFINE S == {i \in 1..Len(w.layers) : w.layers[i].pir}
             a == Picked(w.layers, S)
             k == Len(a)
  <1>1. k \in Nat
    <2>1. w.layers \in Seq(Layer(D)) /\ S \in SUBSET (1..Len(w.layers))
      BY DEF Tiled
    <2> HIDE DEF S
    <2> QED BY <2>1, PickedType
  <1>2. \E q : WaterfallQuery(w, pos) = [m \in 1..k |-> q[m]]
    <2> DEFINE e(m) == [first   |-> a[m].firstRow,
                        last    |-> IF m = Len(a) THEN LayerEnd(a, m + 1) ELSE a[m + 1].firstRow,
                        pirType |-> a[m].pirType, numRows |-> a[m].numRows,
                        hint    |-> a[m].hint,
                        idx     |-> IF /\ LayerEnd(a, m) <= pos
                                       /\ pos < LayerEnd(a, m) + a[m].numRows
                                    THEN pos - LayerEnd(a, m) ELSE -1]
               q == [m \in 1..k |-> e(m)]
    <2>1. WaterfallQuery(w, pos) = [m \in 1..k |-> e(m)]
      BY DEF WaterfallQuery
    <2> HIDE DEF e, k
    <2>2. [m \in 1..k |-> e(m)] = [m \in 1..k |-> q[m]]
      OBVIOUS
    <2> QED BY <2>1, <2>2
  <1> HIDE DEF k
  <1> QED BY <1>1, <1>2

\* When every filled layer has its client, each request is for the rows of a
\* layer, and a row that is there is asked for in one of them.
LEMMA QueryFits ==
  ASSUME NEW D, NEW w, Tiled(w, D), AllActive(w), NEW pos \in Int
  PROVE  LET p == WaterfallQuery(w, pos)
         IN  /\ \A m \in 1..Len(p) : \E i \in 1..Len(w.layers) : PartOf(p[m], w.layers[i], pos)
             /\ pos \in 0..(w.numRows - 1) => \E m \in 1..Len(p) : p[m].idx # -1
  <1> DEFINE L == w.layers
             a == Picked(L, Active(w))
             f == InOrder(Active(w))
             k == Len(a)
             e(m) == [first   |-> a[m].firstRow,
                      last    |-> IF m = Len(a) THEN LayerEnd(a, m + 1) ELSE a[m + 1].firstRow,
                      pirType |-> a[m].pirType, numRows |-> a[m].numRows,
                      hint    |-> a[m].hint,
                      idx     |-> IF /\ LayerEnd(a, m) <= pos
                                     /\ pos < LayerEnd(a, m) + a[m].numRows
                                  THEN pos - LayerEnd(a, m) ELSE -1]
             p == WaterfallQuery(w, pos)
  <1>1. /\ a \in Seq(Layer(D)) /\ k \in Nat
        /\ \A m \in 1..k : /\ f[m] \in 1..Len(L) /\ a[m] = L[f[m]]
                           /\ a[m].pir /\ a[m].firstRow = RowsIn(a, 1, m - 1)
        /\ RowsIn(a, 1, k) = w.numRows
    BY ActiveRows
  <1>2. p = [m \in 1..k |-> e(m)]
    BY DEF WaterfallQuery, Active
  <1> HIDE DEF p, a, f, L
  <1>3. Rowed(a, 1, k)
    BY <1>1, LayersTyped DEF k
  <1> HIDE DEF k, e
  <1>4. Len(p) = k /\ \A m \in 1..k : p[m] = e(m)
    BY <1>1, <1>2
  <1>5. ASSUME NEW m \in 1..k
        PROVE  /\ LayerEnd(a, m) = a[m].firstRow /\ a[m].firstRow \in Nat
               /\ a[m].numRows \in Nat
               /\ RowsIn(a, 1, m) = a[m].firstRow + a[m].numRows
               /\ e(m).last = a[m].firstRow + a[m].numRows
    <2>1. /\ RowsIn(a, 1, m - 1) \in Nat /\ a[m].numRows \in Nat
          /\ RowsIn(a, 1, m) = RowsIn(a, 1, m - 1) + a[m].numRows
      BY <1>1, <1>3, RowsInWithin
    <2>2. a[m].firstRow = RowsIn(a, 1, m - 1)
      BY <1>1
    <2>3. e(m).last = IF m = k THEN RowsIn(a, 1, (m + 1) - 1) ELSE a[m + 1].firstRow
      BY DEF e, k, LayerEnd
    <2>4. (m + 1) - 1 = m
      OBVIOUS
    <2>5. m # k => a[m + 1].firstRow = RowsIn(a, 1, (m + 1) - 1)
      <3>1. m # k => m + 1 \in 1..k
        BY <1>1
      <3> QED BY <1>1, <3>1
    <2> QED BY <2>1, <2>2, <2>3, <2>4, <2>5 DEF LayerEnd
  <1>6. ASSUME NEW m \in 1..k PROVE PartOf(p[m], L[f[m]], pos)
    <2> DEFINE first == a[m].firstRow
               rows == a[m].numRows
    <2>1. /\ e(m).first = first /\ e(m).numRows = rows /\ e(m).pirType = a[m].pirType
          /\ e(m).hint = a[m].hint
          /\ e(m).idx = IF LayerEnd(a, m) <= pos /\ pos < LayerEnd(a, m) + rows
                        THEN pos - LayerEnd(a, m) ELSE -1
      BY DEF e
    <2>2. LayerEnd(a, m) = first /\ first \in Nat /\ rows \in Nat /\ e(m).last = first + rows
      BY <1>5
    <2> HIDE DEF first, rows
    <2>3. e(m).idx # -1 => e(m).idx \in 0..(rows - 1) /\ first + e(m).idx = pos
      BY <2>1, <2>2
    <2>4. p[m] = e(m) /\ a[m] = L[f[m]] /\ a[m].pir
      BY <1>1, <1>4
    <2>5. PartOf(e(m), a[m], pos)
      BY <2>1, <2>2, <2>3, <2>4 DEF PartOf, first, rows
    <2> QED BY <2>4, <2>5
  <1>7. ASSUME pos \in 0..(w.numRows - 1) PROVE \E m \in 1..k : p[m].idx # -1
    <2> DEFINE T == {m \in 0..k : pos < RowsIn(a, 1, m)}
    <2>1. w.numRows \in Nat
      BY DEF Tiled
    <2>2. T # {} /\ T \subseteq Nat
      <3>1. k \in 0..k /\ pos < w.numRows
        BY <1>1, <1>7, <2>1
      <3>2. pos < RowsIn(a, 1, k)
        BY <1>1, <3>1
      <3>3. k \in T
        BY <3>1, <3>2
      <3>4. T \subseteq Nat
        OBVIOUS
      <3> QED BY <3>3, <3>4, Zenon
    <2>3. PICK m \in T : \A y \in T : m <= y
      BY <2>2, LeastNatural
    <2>4. m # 0
      <3>1. 1 \in Int /\ 0 \in Int /\ 1 <= 0 + 1 /\ 1 - 1 = 0 /\ Rowed(a, 1, 0)
        BY DEF Rowed
      <3>2. RowsIn(a, 1, 0) = 0
        BY <3>1, RowsInSum
      <3> QED BY <1>7, <2>3, <3>2
    <2>5. m \in 1..k /\ m - 1 \in 0..k /\ pos < RowsIn(a, 1, m)
      BY <1>1, <2>3, <2>4
    <2>6. ~(pos < RowsIn(a, 1, m - 1))
      BY <2>3, <2>5
    <2> DEFINE first == a[m].firstRow
               rows == a[m].numRows
    <2>7. LayerEnd(a, m) = first /\ first \in Nat /\ rows \in Nat /\ RowsIn(a, 1, m) = first + rows
      BY <1>5, <2>5
    <2>8. RowsIn(a, 1, m - 1) = first
      BY <1>1, <2>5
    <2>9. e(m).idx = IF LayerEnd(a, m) <= pos /\ pos < LayerEnd(a, m) + rows
                     THEN pos - LayerEnd(a, m) ELSE -1
      BY DEF e
    <2> HIDE DEF first, rows
    <2>10. first <= pos /\ pos < first + rows
      BY <2>5, <2>6, <2>7, <2>8
    <2>11. e(m).idx = pos - first /\ pos - first # -1
      BY <2>7, <2>9, <2>10
    <2> QED BY <1>4, <2>5, <2>11
  <1>8. \A m \in 1..Len(p) : \E i \in 1..Len(L) : PartOf(p[m], L[i], pos)
    BY <1>1, <1>4, <1>6
  <1> QED BY <1>4, <1>7, <1>8 DEF p, L

-----------------------------------------------------------------------------
(***************************************************************************)
(* The servers.  The inductive invariant: each is a server (ServerOK), and *)
(* the left one is the right one or has had one write more.                *)
(***************************************************************************)
ServersOK ==
  /\ srv \in [Sides -> Servers(Data)]
  /\ \A s \in Sides : ServerOK(srv[s], Data)
  /\ ServerTimestamp(srv["Left"]) <= MaxTime

\* The right server is as far as the left one, but for a write still on its way.
TodoOK ==
  /\ todo \in [add : {TRUE}, rows : Seq(Op(Data)), pending : BOOLEAN]
               \cup [add : {FALSE}, rows : Seq(Keys), pending : BOOLEAN]
  /\ IF todo.pending THEN srv["Left"] = Applied(srv["Right"], todo)
                     ELSE srv["Left"] = srv["Right"]

\* The invariant of the two servers.
ServersInv == ServersOK /\ TodoOK

\* A write a server may be given.
IsWrite(write) ==
  \/ write.add /\ write.rows \in Seq(Op(Data))
  \/ ~write.add /\ write.rows \in Seq(Keys)

\* A write leaves a server a server, adds one operation of the log for each
\* of its rows, and never takes the log or the rows of the server back unless
\* it defragments (AddRows, DeleteRows).
Extends(s, t) ==
  /\ t.defragTimestamp >= s.defragTimestamp
  /\ t.defragTimestamp = s.defragTimestamp =>
       /\ t.initialTimestamp = s.initialTimestamp
       /\ \E more \in Seq(Op(Data)) : t.ops = s.ops \o more
       /\ \E more \in Seq(Data) : t.flatDb = s.flatDb \o more

LEMMA AppliedOK ==
  ASSUME NEW s, ServerOK(s, Data), NEW write, IsWrite(write)
  PROVE  /\ ServerOK(Applied(s, write), Data)
         /\ \E more \in Seq(Op(Data)) : Grows(s, Applied(s, write), more)
         /\ ServerTimestamp(Applied(s, write)) = ServerTimestamp(s) + Len(write.rows)
         /\ Extends(s, Applied(s, write))
  <1> DEFINE t == Applied(s, write)
  <1>1. /\ ServerOK(t, Data)
        /\ \E more \in Seq(Op(Data)) : Len(more) = Len(write.rows) /\ Grows(s, t, more)
    <2>1. CASE write.add /\ write.rows \in Seq(Op(Data))
      <3>1. t = AddRows(s, write.rows)
        BY <2>1 DEF Applied
      <3> QED BY <2>1, <3>1, AddRowsOK
    <2>2. CASE ~write.add /\ write.rows \in Seq(Keys)
      <3>1. t = DeleteRows(s, write.rows)
        BY <2>2 DEF Applied
      <3>2. NoRow \in Data
        BY DEF Data
      <3>3. /\ ServerOK(DeleteRows(s, write.rows), Data)
            /\ \E more \in Seq(Op(Data)) : /\ Len(more) = Len(write.rows)
                                           /\ \A i \in 1..Len(more) : more[i].Delete
                                           /\ Grows(s, DeleteRows(s, write.rows), more)
        BY <2>2, <3>2, DeleteRowsOK
      <3> QED BY <3>1, <3>3
    <2> QED BY <2>1, <2>2 DEF IsWrite
  <1> HIDE DEF t
  <1>2. PICK more \in Seq(Op(Data)) : Len(more) = Len(write.rows) /\ Grows(s, t, more)
    BY <1>1
  <1>3. /\ ServerTimestamp(t) = ServerTimestamp(s) + Len(more)
        /\ t.defragTimestamp >= s.defragTimestamp
        /\ t.defragTimestamp = s.defragTimestamp =>
             t.ops = s.ops \o more /\ t.initialTimestamp = s.initialTimestamp
    BY <1>1, <1>2, GrowsOK
  <1>4. ASSUME t.ops = s.ops \o more
        PROVE  \E m \in Seq(Data) : t.flatDb = s.flatDb \o m
    <2>1. \A op \in Op(Data) : op.data \in Data
      BY DEF Op
    <2>2. s.ops \in Seq(Op(Data)) /\ s.flatDb = opsToRows(s.ops) /\ t.flatDb = opsToRows(t.ops)
      BY <1>1 DEF ServerOK, Servers
    <2>3. opsToRows(s.ops \o more) = opsToRows(s.ops) \o opsToRows(more)
      BY <1>2, <2>1, <2>2, RowsConcat
    <2>4. opsToRows(more) \in Seq(Data)
      BY <1>2, <2>1, RowsType
    <2> QED BY <1>4, <2>2, <2>3, <2>4
  <1>5. Extends(s, t)
    BY <1>2, <1>3, <1>4 DEF Extends
  <1> QED BY <1>1, <1>2, <1>3, <1>5 DEF t

\* The servers at the beginning hold nothing.
LEMMA NewServerOK == ServerOK(NewUpdatableServer, Data)
  <1> DEFINE s == NewUpdatableServer
  <1>1. /\ s.ops = <<>> /\ s.kv = EmptyMap /\ s.flatDb = <<>>
        /\ s.initialTimestamp = 0 /\ s.defragTimestamp = 0
        /\ s = [ops |-> <<>>, kv |-> EmptyMap, flatDb |-> <<>>,
                initialTimestamp |-> 0, defragTimestamp |-> 0]
    BY DEF NewUpdatableServer
  <1>2. EmptyMap \in Maps(Data) /\ EmptyMap = [k \in DOMAIN EmptyMap |-> EmptyMap[k]]
    <2>1. EmptyMap \in [{} -> Data]
      BY DEF EmptyMap
    <2>2. {} \in SUBSET Keys
      OBVIOUS
    <2> QED BY <2>1, <2>2 DEF Maps
  <1>3. Replayed(EmptyMap, <<>>) = EmptyMap
    BY <1>2, ReplayedNothing
  <1>4. opsToRows(<<>>) = <<>>
    <2>1. \A i \in 1..Len(<<>>) : <<>>[i].Delete
      OBVIOUS
    <2> QED BY <2>1, RowsOfDeletions
  <1>5. s \in Servers(Data)
    BY <1>1, <1>2 DEF Servers
  <1>6. Compacted(s) = 0
    BY <1>1 DEF Compacted
  <1> HIDE DEF s
  <1>7. 0 \in Nat /\ 2 * 0 <= Len(<<>>) /\ \A i \in 1..0 : Counts(<<>>, 0, i)
    OBVIOUS
  <1> QED BY <1>1, <1>3, <1>4, <1>5, <1>6, <1>7 DEF ServerOK, s

\* The invariant holds at the start and is kept by every step.
LEMMA ServersInit == Init => ServersInv
  <1> SUFFICES ASSUME Init PROVE ServersInv
    OBVIOUS
  <1>1. srv = [s \in Sides |-> NewUpdatableServer] /\ todo = NoWrite
    BY DEF Init
  <1>2. "Left" \in Sides /\ "Right" \in Sides
    BY DEF Sides
  <1>3. ServerOK(NewUpdatableServer, Data) /\ NewUpdatableServer \in Servers(Data)
    BY NewServerOK DEF ServerOK
  <1>4. ServerTimestamp(NewUpdatableServer) <= MaxTime
    BY UpdatableAssumption DEF ServerTimestamp, NewUpdatableServer
  <1>5. ServersOK
    BY <1>1, <1>2, <1>3, <1>4 DEF ServersOK
  <1>6. NoWrite \in [add : {FALSE}, rows : Seq(Keys), pending : BOOLEAN] /\ ~NoWrite.pending
    BY DEF NoWrite
  <1>7. TodoOK
    BY <1>1, <1>2, <1>6 DEF TodoOK
  <1> QED BY <1>5, <1>7 DEF ServersInv

\* What a step does to a server's part: nothing, or one write.
Written(s, t, n) ==
  /\ \E more \in Seq(Op(Data)) : Grows(s, t, more)
  /\ ServerTimestamp(t) = ServerTimestamp(s) + n
  /\ Extends(s, t)

\* How many operations the write of this step has.
Size(side) == IF side = "Left" THEN Len(todo'.rows) ELSE Len(todo.rows)

\* What a step may do to a server: nothing, or the write of the step.
ServersNext ==
  \A s \in Sides : srv'[s] = srv[s] \/ Written(srv[s], srv'[s], Size(s))

\* A write at the left server, then the same write at the right one.
LEMMA WriteLeftOK ==
  ASSUME ServersInv, NEW write, WriteLeft(write), IsWrite(write),
         write.pending,
         write \in [add : {TRUE}, rows : Seq(Op(Data)), pending : BOOLEAN]
                     \cup [add : {FALSE}, rows : Seq(Keys), pending : BOOLEAN],
         ServerTimestamp(srv["Left"]) + Len(write.rows) <= MaxTime
  PROVE  ServersInv' /\ ServersNext
  <1> DEFINE s == srv["Left"]
             t == Applied(s, write)
  <1>1. /\ ~todo.pending /\ srv' = [srv EXCEPT !["Left"] = t] /\ todo' = write
    BY DEF WriteLeft
  <1>2. /\ srv \in [Sides -> Servers(Data)] /\ "Left" \in Sides /\ "Right" \in Sides
        /\ \A x \in Sides : ServerOK(srv[x], Data)
        /\ srv["Right"] = s
    BY <1>1 DEF ServersInv, ServersOK, TodoOK, Sides
  <1>3. /\ ServerOK(t, Data) /\ Written(s, t, Len(write.rows))
    BY <1>2, AppliedOK DEF Written
  <1>4. t \in Servers(Data)
    BY <1>3 DEF ServerOK
  <1>5. ServerTimestamp(t) <= MaxTime
    BY <1>3 DEF Written
  <1> HIDE DEF t
  <1>6. srv'["Left"] = t /\ srv'["Right"] = s /\ srv' \in [Sides -> Servers(Data)]
        /\ \A x \in Sides : x = "Left" \/ (x = "Right" /\ srv'[x] = srv[x])
    BY <1>1, <1>2, <1>4 DEF Sides
  <1>7. ServersOK'
    BY <1>2, <1>3, <1>5, <1>6 DEF ServersOK
  <1>8. TodoOK'
    BY <1>1, <1>6 DEF TodoOK, t
  <1>9. ServersNext
    BY <1>1, <1>3, <1>6 DEF ServersNext, Size
  <1> QED BY <1>7, <1>8, <1>9 DEF ServersInv

LEMMA AddLeftOK ==
  ASSUME ServersInv, AddLeft
  PROVE  ServersInv' /\ ServersNext
  <1>0. PICK n \in AddSizes : \E keys \in [1..n -> Keys] :
          LET t == ServerTimestamp(srv["Left"])
          IN  /\ t + n <= MaxTime
              /\ WriteLeft([add |-> TRUE, pending |-> TRUE,
                            rows |-> [i \in 1..n |-> AddOp(keys[i], RowAdded[t + i - 1])]])
    BY DEF AddLeft
  <1>1. PICK keys \in [1..n -> Keys] :
          LET t == ServerTimestamp(srv["Left"])
          IN  /\ t + n <= MaxTime
              /\ WriteLeft([add |-> TRUE, pending |-> TRUE,
                            rows |-> [i \in 1..n |-> AddOp(keys[i], RowAdded[t + i - 1])]])
    BY <1>0
  <1> DEFINE t == ServerTimestamp(srv["Left"])
             e(i) == AddOp(keys[i], RowAdded[t + i - 1])
             rows == [i \in 1..n |-> e(i)]
             write == [add |-> TRUE, pending |-> TRUE, rows |-> rows]
  <1>2. n \in Nat
    BY UpdatableAssumption
  <1>3. t \in Nat /\ t + n <= MaxTime
    <2>1. srv["Left"] \in Servers(Data)
      BY DEF ServersInv, ServersOK, Sides
    <2>2. srv["Left"].initialTimestamp \in Nat /\ Len(srv["Left"].ops) \in Nat
      BY <2>1 DEF Servers
    <2> QED BY <1>1, <2>2 DEF ServerTimestamp
  <1>4. \A i \in 1..n : e(i) \in Op(Data)
    <2>1. ASSUME NEW i \in 1..n PROVE RowAdded[t + i - 1] \in Data
      <3> HIDE DEF t
      <3>1. t + i - 1 \in 0..(MaxTime - 1)
        BY <1>2, <1>3, UpdatableAssumption
      <3> QED BY <3>1 DEF Data
    <2> QED BY <2>1 DEF AddOp, Op
  <1> HIDE DEF e, t
  <1>5. rows \in Seq(Op(Data)) /\ Len(rows) = n
    BY <1>2, <1>4
  <1>6. WriteLeft(write)
    BY <1>1 DEF e, t
  <1> HIDE DEF rows
  <1>7. /\ write.add /\ write.pending /\ write.rows = rows
        /\ write \in [add : {TRUE}, rows : Seq(Op(Data)), pending : BOOLEAN]
    BY <1>5
  <1> HIDE DEF write
  <1>8. ServerTimestamp(srv["Left"]) + Len(write.rows) <= MaxTime
    BY <1>3, <1>5, <1>7 DEF t
  <1>9. IsWrite(write)
    BY <1>5, <1>7 DEF IsWrite
  <1> QED BY <1>6, <1>7, <1>8, <1>9, WriteLeftOK

LEMMA DeleteLeftOK ==
  ASSUME ServersInv, DeleteLeft
  PROVE  ServersInv' /\ ServersNext
  <1>0. PICK n \in DeleteSizes : \E keys \in [1..n -> Keys] :
          /\ ServerTimestamp(srv["Left"]) + n <= MaxTime
          /\ WriteLeft([add |-> FALSE, pending |-> TRUE, rows |-> keys])
    BY DEF DeleteLeft
  <1>1. PICK keys \in [1..n -> Keys] :
          /\ ServerTimestamp(srv["Left"]) + n <= MaxTime
          /\ WriteLeft([add |-> FALSE, pending |-> TRUE, rows |-> keys])
    BY <1>0
  <1> DEFINE write == [add |-> FALSE, pending |-> TRUE, rows |-> keys]
  <1>2. n \in Nat
    BY UpdatableAssumption
  <1>3. keys \in Seq(Keys) /\ Len(keys) = n
    BY <1>2
  <1>4. /\ ~write.add /\ write.pending /\ write.rows = keys
        /\ write \in [add : {FALSE}, rows : Seq(Keys), pending : BOOLEAN]
    BY <1>3
  <1>5. WriteLeft(write)
    BY <1>1
  <1> HIDE DEF write
  <1>6. IsWrite(write)
    BY <1>3, <1>4 DEF IsWrite
  <1> QED BY <1>1, <1>3, <1>4, <1>5, <1>6, WriteLeftOK

LEMMA WriteRightOK ==
  ASSUME ServersInv, WriteRight
  PROVE  ServersInv' /\ ServersNext /\ srv'["Left"] = srv["Left"]
  <1> DEFINE s == srv["Right"]
             t == Applied(s, todo)
  <1>1. /\ todo.pending /\ srv' = [srv EXCEPT !["Right"] = t] /\ todo' = NoWrite
    BY DEF WriteRight
  <1>2. /\ srv \in [Sides -> Servers(Data)] /\ "Left" \in Sides /\ "Right" \in Sides
        /\ \A x \in Sides : ServerOK(srv[x], Data)
        /\ srv["Left"] = t /\ ServerTimestamp(srv["Left"]) <= MaxTime
        /\ IsWrite(todo)
    BY <1>1 DEF ServersInv, ServersOK, TodoOK, Sides, IsWrite
  <1>3. ServerOK(t, Data) /\ Written(s, t, Len(todo.rows))
    BY <1>2, AppliedOK DEF Written
  <1>4. t \in Servers(Data)
    BY <1>3 DEF ServerOK
  <1> HIDE DEF t
  <1>5. srv'["Left"] = t /\ srv'["Right"] = t /\ srv' \in [Sides -> Servers(Data)]
        /\ \A x \in Sides : x = "Right" \/ (x = "Left" /\ srv'[x] = srv[x])
    BY <1>1, <1>2, <1>4 DEF Sides
  <1>6. ServersOK'
    BY <1>2, <1>3, <1>5 DEF ServersOK
  <1>7. TodoOK'
    <2>1. NoWrite \in [add : {FALSE}, rows : Seq(Keys), pending : BOOLEAN] /\ ~NoWrite.pending
      BY DEF NoWrite
    <2> QED BY <1>1, <1>5, <2>1 DEF TodoOK
  <1>8. ServersNext
    BY <1>3, <1>5 DEF ServersNext, Size
  <1> QED BY <1>2, <1>5, <1>6, <1>7, <1>8 DEF ServersInv

\* No other action changes a server.
LEMMA CallsLeaveServers == Updates \/ Reads => srv' = srv /\ todo' = todo
  <1>1. UpdateKeys \/ Hint \/ HintPanics \/ HintFails => srv' = srv /\ todo' = todo
    BY DEF UpdateKeys, Hint, HintPanics, HintFails, Panic
  <1>2. ASSUME NEW key, Read(key) PROVE srv' = srv /\ todo' = todo
    BY <1>2 DEF Read
  <1>3. ASSUME NEW side, Answer(side) \/ AnswerPanics(side) \/ AnswerFails(side)
        PROVE  srv' = srv /\ todo' = todo
    BY <1>3 DEF Answer, AnswerPanics, AnswerFails, Panic
  <1>4. ReadReturns \/ ReconstructPanics => srv' = srv /\ todo' = todo
    BY DEF ReadReturns, ReconstructPanics, Panic
  <1> QED BY <1>1, <1>2, <1>3, <1>4 DEF Updates, Reads

LEMMA ServersUnchanged ==
  ASSUME ServersInv, srv' = srv, todo' = todo
  PROVE  ServersInv' /\ ServersNext
  BY DEF ServersInv, ServersOK, TodoOK, ServersNext

LEMMA ServersStep ==
  ASSUME ServersInv, [Next]_vars
  PROVE  ServersInv' /\ ServersNext
  <1>1. CASE AddLeft
    BY <1>1, AddLeftOK
  <1>2. CASE DeleteLeft
    BY <1>2, DeleteLeftOK
  <1>3. CASE WriteRight
    BY <1>3, WriteRightOK
  <1>4. CASE Updates \/ Reads
    BY <1>4, CallsLeaveServers, ServersUnchanged
  <1>5. CASE UNCHANGED vars
    BY <1>5, ServersUnchanged DEF vars
  <1> QED BY <1>1, <1>2, <1>3, <1>4, <1>5 DEF Next, Writes

LEMMA ServersAlways == Spec => []ServersInv
  <1>1. ServersInv /\ [Next]_vars => ServersInv'
    BY ServersStep
  <1> QED BY ServersInit, <1>1, PTL DEF Spec

\* However often a server has defragmented, its log says what its map says,
\* and its flat database holds the rows of its log (AddRows, DeleteRows,
\* defrag), for all keys, batches and defragmentation ratios.
THEOREM LogSaysTheMapAlways == Spec => []LogSaysTheMap
  <1>1. ServersInv => LogSaysTheMap
    BY DEF ServersInv, ServersOK, ServerOK, LogSaysTheMap
  <1> QED BY ServersAlways, <1>1, PTL

\* A write takes one timestamp for each of its operations, defragmentation or
\* not, and defragTimestamp never goes back (AddRows, DeleteRows).
THEOREM TimestampsAdvanceAlways == Spec => TimestampsAdvance
  <1> DEFINE A == \A s \in Sides :
                    /\ \/ srv'[s] = srv[s]
                       \/ ServerTimestamp(srv'[s])
                            = ServerTimestamp(srv[s])
                                + IF s = "Left" THEN Len(todo'.rows) ELSE Len(todo.rows)
                    /\ srv'[s].defragTimestamp >= srv[s].defragTimestamp
  <1>1. ServersInv /\ [Next]_vars => [A]_srv
    <2> SUFFICES ASSUME ServersInv, [Next]_vars PROVE A
      OBVIOUS
    <2>1. ServersInv' /\ ServersNext
      BY ServersStep
    <2>2. ASSUME NEW s \in Sides
          PROVE  /\ \/ srv'[s] = srv[s]
                    \/ ServerTimestamp(srv'[s])
                         = ServerTimestamp(srv[s])
                             + IF s = "Left" THEN Len(todo'.rows) ELSE Len(todo.rows)
                 /\ srv'[s].defragTimestamp >= srv[s].defragTimestamp
      <3>1. CASE srv'[s] = srv[s]
        <4>1. srv[s].defragTimestamp \in Nat
          BY DEF ServersInv, ServersOK, Servers
        <4> QED BY <3>1, <4>1
      <3>2. CASE Written(srv[s], srv'[s], Size(s))
        <4>1. ServerTimestamp(srv'[s]) = ServerTimestamp(srv[s]) + Size(s)
          BY <3>2 DEF Written
        <4>2. srv'[s].defragTimestamp >= srv[s].defragTimestamp
          BY <3>2 DEF Written, Extends
        <4> QED BY <4>1, <4>2 DEF Size
      <3> QED BY <2>1, <3>1, <3>2 DEF ServersNext
    <2> QED BY <2>2
  <1>2. TimestampsAdvance <=> [][A]_srv
    BY DEF TimestampsAdvance
  <1> QED BY ServersAlways, <1>1, <1>2, PTL DEF Spec

-----------------------------------------------------------------------------
(***************************************************************************)
(* Logs that begin one another.                                            *)
(***************************************************************************)
\* The client's log is what a client was told of the first operations of ops.
Begins(log, ops) ==
  /\ Len(log) <= Len(ops)
  /\ \A i \in 1..Len(log) : log[i] = KeyOf(ops[i])

LEMMA Cut ==
  ASSUME NEW X, NEW all \in Seq(X), NEW n \in 0..Len(all)
  PROVE  LET old == SubSeq(all, 1, n)
             new == SubSeq(all, n + 1, Len(all))
         IN  /\ old \in Seq(X) /\ new \in Seq(X) /\ Len(old) = n /\ Len(new) = Len(all) - n
             /\ old \o new = all
             /\ \A i \in 1..n : old[i] = all[i]
             /\ \A i \in 1..(Len(all) - n) : new[i] = all[n + i]
  <1> DEFINE old == SubSeq(all, 1, n)
             new == SubSeq(all, n + 1, Len(all))
             l == Len(all)
  <1>1. l \in Nat /\ n \in Nat /\ n <= l /\ \A i \in 1..l : all[i] \in X
    BY ElementOfSeq
  <1>2. old \in Seq(X) /\ Len(old) = n /\ \A i \in 1..n : old[i] = all[i]
    <2>1. 1 \in Int /\ n \in Int /\ \A i \in 1..n : all[i] \in X
      BY <1>1
    <2>2. /\ old \in Seq(X)
          /\ Len(old) = IF 1 <= n THEN n - 1 + 1 ELSE 0
          /\ \A i \in 1..(n - 1 + 1) : old[i] = all[1 + i - 1]
      BY <2>1, SubSeqProperties
    <2> HIDE DEF old, l
    <2>3. n - 1 + 1 = n /\ (~(1 <= n) => n = 0) /\ \A i \in 1..n : 1 + i - 1 = i
      BY <1>1
    <2>4. \A i \in 1..n : old[i] = all[i]
      BY <2>2, <2>3
    <2>5. Len(old) = n
      BY <1>1, <2>2, <2>3
    <2> QED BY <2>2, <2>4, <2>5
  <1>3. /\ new \in Seq(X) /\ Len(new) = l - n
        /\ \A i \in 1..(l - n) : new[i] = all[n + i]
    <2>1. n + 1 \in Int /\ l \in Int /\ \A i \in (n + 1)..l : all[i] \in X
      <3>1. \A i \in (n + 1)..l : i \in 1..l
        BY <1>1
      <3> QED BY <1>1, <3>1
    <2> HIDE DEF l
    <2>2. /\ new \in Seq(X)
          /\ Len(new) = IF n + 1 <= l THEN l - (n + 1) + 1 ELSE 0
          /\ \A i \in 1..(l - (n + 1) + 1) : new[i] = all[(n + 1) + i - 1]
      BY <2>1, SubSeqProperties DEF l
    <2> HIDE DEF new
    <2>3. /\ l - (n + 1) + 1 = l - n /\ (~(n + 1 <= l) => l - n = 0)
          /\ \A i \in 1..(l - n) : (n + 1) + i - 1 = n + i
      BY <1>1
    <2>4. \A i \in 1..(l - n) : new[i] = all[n + i]
      BY <2>2, <2>3 DEF l
    <2>5. Len(new) = l - n
      BY <1>1, <2>2, <2>3 DEF l
    <2> QED BY <2>2, <2>4, <2>5 DEF l
  <1> HIDE DEF old, new, l
  <1>4. /\ old \o new \in Seq(X) /\ Len(old \o new) = l
        /\ \A i \in 1..l : (old \o new)[i] = IF i <= n THEN old[i] ELSE new[i - n]
    <2>1. /\ old \o new \in Seq(X) /\ Len(old \o new) = Len(old) + Len(new)
          /\ \A i \in 1..(Len(old) + Len(new)) :
               (old \o new)[i] = IF i <= Len(old) THEN old[i] ELSE new[i - Len(old)]
      BY <1>2, <1>3, ConcatProperties
    <2>2. Len(old) + Len(new) = l
      BY <1>1, <1>2, <1>3
    <2> QED BY <1>2, <2>1, <2>2
  <1>5. ASSUME NEW i \in 1..l PROVE (old \o new)[i] = all[i]
    <2>1. CASE i <= n
      <3>1. i \in 1..n
        BY <1>1, <2>1
      <3> QED BY <1>2, <1>4, <2>1, <3>1
    <2>2. CASE ~(i <= n)
      <3>1. i - n \in 1..(l - n) /\ n + (i - n) = i
        BY <1>1, <2>2
      <3> QED BY <1>3, <1>4, <2>2, <3>1
    <2> QED BY <2>1, <2>2
  <1>6. old \o new = all
    <2>1. Len(old \o new) = Len(all) /\ \A i \in 1..Len(old \o new) : (old \o new)[i] = all[i]
      BY <1>4, <1>5 DEF l
    <2> QED BY <1>4, <2>1, SeqEqual
  <1> QED BY <1>2, <1>3, <1>6 DEF old, new, l

\* The operations all are those of the log and then new ones.
Splits(old, new, log, all) ==
  /\ Len(old) = Len(log) /\ old = SubSeq(all, 1, Len(log))
  /\ all = old \o new /\ log = Keyed(old)

LEMMA BeginsSplit ==
  ASSUME NEW X, NEW Y, NEW all \in Seq(X), NEW log \in Seq(Y), Begins(log, all)
  PROVE  \E old \in Seq(X) : \E new \in Seq(X) : Splits(old, new, log, all)
  <1> DEFINE n == Len(log)
             old == SubSeq(all, 1, n)
             new == SubSeq(all, n + 1, Len(all))
  <1>1. n \in 0..Len(all) /\ log = [i \in 1..n |-> log[i]]
    BY DEF Begins
  <1> HIDE DEF n
  <1>2. /\ old \in Seq(X) /\ new \in Seq(X) /\ Len(old) = n
        /\ old \o new = all /\ \A i \in 1..n : old[i] = all[i]
    BY <1>1, Cut
  <1> HIDE DEF old, new
  <1>3. \A i \in 1..n : log[i] = KeyOf(old[i])
    BY <1>2 DEF Begins, n
  <1>4. log = Keyed(old)
    BY <1>1, <1>2, <1>3 DEF Keyed
  <1>5. Splits(old, new, log, all)
    BY <1>2, <1>4 DEF Splits, old, n
  <1> QED BY <1>2, <1>5

LEMMA BeginsConcat ==
  ASSUME NEW X, NEW old \in Seq(X), NEW new \in Seq(X)
  PROVE  /\ old \o new \in Seq(X) /\ Len(old \o new) = Len(old) + Len(new)
         /\ Begins(Keyed(old), old \o new)
         /\ SubSeq(old \o new, 1, Len(old)) = old
         /\ Keyed(old \o new) = Keyed(old) \o Keyed(new)
  <1> DEFINE all == old \o new
             n == Len(old)
             m == Len(new)
  <1>1. /\ all \in Seq(X) /\ Len(all) = n + m /\ n \in Nat /\ m \in Nat
        /\ \A i \in 1..(n + m) : all[i] = IF i <= n THEN old[i] ELSE new[i - n]
    BY ConcatProperties
  <1>2. /\ Keyed(old) \in Seq({KeyOf(x) : x \in X}) /\ Len(Keyed(old)) = n
        /\ \A i \in 1..n : Keyed(old)[i] = KeyOf(old[i])
        /\ Keyed(new) \in Seq({KeyOf(x) : x \in X}) /\ Len(Keyed(new)) = m
        /\ \A i \in 1..m : Keyed(new)[i] = KeyOf(new[i])
        /\ Keyed(all) \in Seq({KeyOf(x) : x \in X}) /\ Len(Keyed(all)) = n + m
        /\ \A i \in 1..(n + m) : Keyed(all)[i] = KeyOf(all[i])
    BY <1>1, KeyedType
  <1> HIDE DEF all, n, m
  <1>3. \A i \in 1..n : i \in 1..(n + m) /\ i <= n /\ all[i] = old[i]
    <2>1. \A i \in 1..n : i \in 1..(n + m) /\ i <= n
      BY <1>1
    <2> QED BY <1>1, <2>1
  <1>4. Begins(Keyed(old), all)
    <2>1. n <= n + m
      BY <1>1
    <2> QED BY <1>1, <1>2, <1>3, <2>1 DEF Begins
  <1>5. SubSeq(all, 1, n) = old
    <2>1. n \in 0..Len(all)
      BY <1>1
    <2> DEFINE s == SubSeq(all, 1, n)
    <2>2. s \in Seq(X) /\ Len(s) = n /\ \A i \in 1..n : s[i] = all[i]
      BY <1>1, <2>1, Cut
    <2> HIDE DEF s
    <2>3. Len(s) = Len(old) /\ \A i \in 1..Len(s) : s[i] = old[i]
      BY <1>3, <2>2 DEF n
    <2>4. s = old
      BY <2>2, <2>3, SeqEqual
    <2> QED BY <2>4 DEF s
  <1>6. Keyed(all) = Keyed(old) \o Keyed(new)
    <2> DEFINE K == {KeyOf(x) : x \in X}
               a == Keyed(old)
               b == Keyed(new)
               c == Keyed(all)
    <2>1. /\ a \in Seq(K) /\ b \in Seq(K) /\ c \in Seq(K) /\ Len(a) = n /\ Len(b) = m
          /\ Len(c) = n + m
      BY <1>2
    <2>2. /\ \A i \in 1..n : a[i] = KeyOf(old[i])
          /\ \A i \in 1..m : b[i] = KeyOf(new[i])
          /\ \A i \in 1..(n + m) : c[i] = KeyOf(all[i])
      BY <1>2
    <2> HIDE DEF K, a, b, c
    <2>3. /\ a \o b \in Seq(K) /\ Len(a \o b) = n + m
          /\ \A i \in 1..(n + m) : (a \o b)[i] = IF i <= n THEN a[i] ELSE b[i - n]
      BY <2>1, ConcatProperties
    <2>4. ASSUME NEW i \in 1..(n + m) PROVE c[i] = (a \o b)[i]
      <3>1. CASE i <= n
        <4>1. i \in 1..n
          BY <1>1, <3>1
        <4> QED BY <1>1, <2>2, <2>3, <3>1, <4>1
      <3>2. CASE ~(i <= n)
        <4>1. i - n \in 1..m
          BY <1>1, <3>2
        <4> QED BY <1>1, <2>2, <2>3, <3>2, <4>1
      <3> QED BY <3>1, <3>2
    <2>5. Len(c) = Len(a \o b) /\ \A i \in 1..Len(c) : c[i] = (a \o b)[i]
      BY <2>1, <2>3, <2>4
    <2>6. c = a \o b
      BY <2>1, <2>3, <2>5, SeqEqual
    <2> QED BY <2>6 DEF a, b, c
  <1> QED BY <1>1, <1>4, <1>5, <1>6 DEF all, n, m

-----------------------------------------------------------------------------
(***************************************************************************)
(* The client's log against the left server's.                             *)
(***************************************************************************)
Clients == [initialTimestamp : Nat, defragTimestamp : Nat, numRows : Nat,
            ops : Seq(KeyOps), keyToPos : Maps(Nat)]

\* nextTimestamp of the client c.
NextOf(c) == c.initialTimestamp + Len(c.ops)

\* What processKeyUpdate makes of the log of c before it adds to it.
LogAt(c, s) ==
  IF s.defragTimestamp > c.defragTimestamp
  THEN Defrag(c.ops, s.defragTimestamp - c.initialTimestamp) ELSE c.ops

\* A client with nothing to delete has the beginning of the server's log.
Fits(c, s) ==
  /\ c.initialTimestamp <= c.defragTimestamp
  /\ c.defragTimestamp <= s.defragTimestamp
  /\ NextOf(c) >= s.defragTimestamp =>
       /\ Len(LogAt(c, s)) = NextOf(c) - s.initialTimestamp
       /\ Begins(LogAt(c, s), s.ops)

\* While the server has not defragmented, the first operations of its log are
\* those that made the map kv, which it had at the client's last update.
Snapshot(c, s, kv) ==
  s.defragTimestamp = c.defragTimestamp =>
    /\ Begins(c.ops, s.ops)
    /\ kv = Replayed(EmptyMap, SubSeq(s.ops, 1, Len(c.ops)))

\* The numbers in a client and a server.
LEMMA Stamps ==
  ASSUME NEW c \in Clients, NEW s, ServerOK(s, Data)
  PROVE  /\ c.initialTimestamp \in Nat /\ c.defragTimestamp \in Nat
         /\ c.ops \in Seq(KeyOps) /\ Len(c.ops) \in Nat /\ c.numRows \in Nat
         /\ s.initialTimestamp \in Nat /\ s.defragTimestamp \in Nat
         /\ s.ops \in Seq(Op(Data)) /\ Len(s.ops) \in Nat
         /\ s.initialTimestamp <= s.defragTimestamp
         /\ s.defragTimestamp <= s.initialTimestamp + Len(s.ops)
  <1>1. /\ c.initialTimestamp \in Nat /\ c.defragTimestamp \in Nat
        /\ c.ops \in Seq(KeyOps) /\ Len(c.ops) \in Nat /\ c.numRows \in Nat
    BY DEF Clients
  <1>2. /\ s.initialTimestamp \in Nat /\ s.defragTimestamp \in Nat
        /\ s.ops \in Seq(Op(Data)) /\ Len(s.ops) \in Nat
        /\ Compacted(s) \in Nat /\ 2 * Compacted(s) <= Len(s.ops)
    BY DEF ServerOK, Servers
  <1>3. /\ s.initialTimestamp <= s.defragTimestamp
        /\ s.defragTimestamp <= s.initialTimestamp + Len(s.ops)
    <2> DEFINE a == s.initialTimestamp
               b == s.defragTimestamp
               n == Len(s.ops)
    <2>1. a \in Nat /\ b \in Nat /\ n \in Nat /\ b - a \in Nat /\ 2 * (b - a) <= n
      BY <1>2 DEF Compacted
    <2> HIDE DEF a, b, n
    <2>2. a <= b /\ b <= a + n
      BY <2>1
    <2> QED BY <2>2 DEF a, b, n
  <1> QED BY <1>1, <1>2, <1>3

\* What processKeyUpdate would make of the client's log is a log.
LEMMA LogAtType ==
  ASSUME NEW c \in Clients, NEW s, ServerOK(s, Data), Fits(c, s),
         NextOf(c) >= s.defragTimestamp
  PROVE  /\ LogAt(c, s) \in Seq(KeyOps)
         /\ s.defragTimestamp - c.initialTimestamp \in 0..Len(c.ops)
         /\ Len(LogAt(c, s)) \in Nat
  <1>1. s.defragTimestamp - c.initialTimestamp \in 0..Len(c.ops)
    <2> DEFINE n == Len(c.ops)
    <2>1. n \in Nat
      BY Stamps
    <2>2. s.defragTimestamp <= c.initialTimestamp + n
      BY Stamps DEF NextOf
    <2> HIDE DEF n
    <2>3. s.defragTimestamp - c.initialTimestamp \in 0..n
      BY <2>1, <2>2, Stamps DEF Fits
    <2> QED BY <2>3 DEF n
  <1>2. c.ops \in Seq(KeyOps)
    BY Stamps
  <1>3. LogAt(c, s) \in Seq(KeyOps)
    <2> DEFINE e == s.defragTimestamp - c.initialTimestamp
    <2>1. Defrag(c.ops, e) \in Seq(KeyOps)
      BY <1>1, <1>2, DefragPlaces
    <2> QED BY <1>2, <2>1 DEF LogAt
  <1> QED BY <1>1, <1>3

\* A client that fits a server fits it after the next write, defragmentation
\* or not: defragmenting the client's log once, up to the later timestamp, is
\* as good as doing it after each of the server's.
LEMMA FitsFollows ==
  ASSUME NEW c \in Clients, NEW s, ServerOK(s, Data), NEW t, ServerOK(t, Data),
         NEW more \in Seq(Op(Data)), Grows(s, t, more), Fits(c, s)
  PROVE  Fits(c, t)
  <1> DEFINE all == s.ops \o more
             e == Len(all) \div 2
             log == LogAt(c, s)
  <1>1. /\ ServerTimestamp(t) = ServerTimestamp(s) + Len(more)
        /\ t.defragTimestamp >= s.defragTimestamp
        /\ t.defragTimestamp = s.defragTimestamp =>
             t.ops = all /\ t.initialTimestamp = s.initialTimestamp
    BY GrowsOK
  <1>2. /\ c.initialTimestamp \in Nat /\ c.defragTimestamp \in Nat
        /\ c.ops \in Seq(KeyOps) /\ Len(c.ops) \in Nat
        /\ s.initialTimestamp \in Nat /\ s.defragTimestamp \in Nat
        /\ s.ops \in Seq(Op(Data)) /\ Len(s.ops) \in Nat
        /\ s.initialTimestamp <= s.defragTimestamp
    BY Stamps
  <1>3. /\ t.initialTimestamp \in Nat /\ t.defragTimestamp \in Nat
        /\ t.ops \in Seq(Op(Data)) /\ Len(t.ops) \in Nat
        /\ t.initialTimestamp <= t.defragTimestamp
    BY Stamps
  <1>4. /\ c.initialTimestamp <= c.defragTimestamp
        /\ c.defragTimestamp <= s.defragTimestamp /\ c.defragTimestamp <= t.defragTimestamp
    BY <1>1, <1>2, <1>3 DEF Fits
  <1>5. SUFFICES ASSUME NextOf(c) >= t.defragTimestamp
                 PROVE  /\ Len(LogAt(c, t)) = NextOf(c) - t.initialTimestamp
                        /\ Begins(LogAt(c, t), t.ops)
    BY <1>4 DEF Fits
  <1>6. NextOf(c) \in Nat /\ NextOf(c) >= s.defragTimestamp
    <2> DEFINE x == NextOf(c)
               u == t.defragTimestamp
               v == s.defragTimestamp
    <2>1. x \in Nat
      BY <1>2 DEF NextOf
    <2>2. u \in Nat /\ v \in Nat /\ v <= u /\ x >= u
      BY <1>1, <1>2, <1>3, <1>5
    <2> HIDE DEF x, u, v
    <2>3. x >= v
      BY <2>1, <2>2
    <2> QED BY <2>1, <2>3 DEF x, v
  <1>7. /\ log \in Seq(KeyOps) /\ Len(log) \in Nat
        /\ Len(log) = NextOf(c) - s.initialTimestamp /\ Begins(log, s.ops)
    BY <1>6, LogAtType DEF Fits
  <1> HIDE DEF log
  <1>8. PICK old \in Seq(Op(Data)), new \in Seq(Op(Data)) :
          Len(old) = Len(log) /\ s.ops = old \o new /\ log = Keyed(old)
    <2> DEFINE so == s.ops
               X == Op(Data)
    <2>1. so \in Seq(X) /\ log \in Seq(KeyOps) /\ Begins(log, so)
      BY <1>2, <1>7
    <2> HIDE DEF so, X
    <2>2. \E old \in Seq(X) : \E new \in Seq(X) : Splits(old, new, log, so)
      BY <2>1, BeginsSplit
    <2> QED BY <2>2 DEF so, X, Splits
  <1> DEFINE rest == new \o more
  <1>9. rest \in Seq(Op(Data)) /\ all = old \o rest
    <2>1. rest \in Seq(Op(Data))
      BY <1>8, ConcatProperties
    <2>2. all = old \o rest
      BY <1>8, ConcatAssociative
    <2> QED BY <2>1, <2>2
  <1> HIDE DEF rest, all
  <1>10. CASE t.defragTimestamp = s.defragTimestamp
    <2>1. LogAt(c, t) = log /\ t.ops = old \o rest /\ t.initialTimestamp = s.initialTimestamp
      BY <1>1, <1>9, <1>10 DEF LogAt, log, all
    <2> QED BY <1>7, <1>8, <1>9, <2>1, BeginsConcat
  <1>11. CASE t.defragTimestamp # s.defragTimestamp
    <2>1. /\ t.ops = Defrag(all, e)
          /\ t.initialTimestamp = s.initialTimestamp + (Len(all) - Len(t.ops))
          /\ t.defragTimestamp = s.initialTimestamp + e
      BY <1>11 DEF Grows, all
    <2> DEFINE d == Defrag(old, e)
               k == Len(log)
               f == s.defragTimestamp - c.initialTimestamp
               g == t.defragTimestamp - c.initialTimestamp
    <2>2. e \in Nat /\ e <= k
      <3>1. Len(all) \in Nat
        BY <1>8, <1>9, ConcatProperties
      <3>2. e \in Nat
        BY <3>1
      <3> DEFINE x == NextOf(c)
                 i == s.initialTimestamp
                 u == t.defragTimestamp
      <3>3. x \in Nat /\ i \in Nat /\ x >= u
        BY <1>2, <1>5, <1>6
      <3>4. k = x - i /\ u = i + e
        BY <1>7, <2>1
      <3> HIDE DEF e, x, i, u, k
      <3>5. e <= k
        BY <3>2, <3>3, <3>4
      <3> QED BY <3>2, <3>5
    <2> HIDE DEF e
    <2>3. e \in 0..Len(old)
      BY <1>7, <1>8, <2>2
    <2>4. d \in Seq(Op(Data)) /\ Defrag(all, e) = d \o rest
      BY <1>8, <1>9, <2>3, DefragConcat, DefragPlaces
    <2>5. Defrag(log, e) = Keyed(d)
      BY <1>8, <2>3, DefragKeyed
    <2>6. LogAt(c, t) = Keyed(d)
      <3>1. t.defragTimestamp > c.defragTimestamp /\ t.defragTimestamp > s.defragTimestamp
        BY <1>1, <1>2, <1>3, <1>4, <1>11
      <3>2. LogAt(c, t) = Defrag(c.ops, g)
        BY <3>1 DEF LogAt
      <3>3. CASE s.defragTimestamp > c.defragTimestamp
        <4>1. log = Defrag(c.ops, f)
          BY <3>3 DEF log, LogAt
        <4>2. f \in Nat /\ g \in Nat /\ f <= g /\ g <= Len(c.ops)
          <5> DEFINE n == Len(c.ops)
                     i == c.initialTimestamp
                     u == t.defragTimestamp
                     v == s.defragTimestamp
          <5>1. /\ n \in Nat /\ i \in Nat /\ u \in Nat /\ v \in Nat
                /\ i <= v /\ v < u /\ u <= i + n /\ f = v - i /\ g = u - i
            BY <1>2, <1>3, <1>4, <1>5, <3>1 DEF NextOf
          <5> HIDE DEF n, i, u, v, f, g
          <5>2. f \in Nat /\ g \in Nat /\ f <= g /\ g <= n
            BY <5>1
          <5> QED BY <5>2 DEF n
        <4> DEFINE freed == Len(c.ops) - Len(Defrag(c.ops, f))
        <4>3. Defrag(Defrag(c.ops, f), g - freed) = Defrag(c.ops, g)
          <5> DEFINE o == c.ops
          <5>1. o \in Seq(KeyOps) /\ f \in Nat /\ g \in Nat /\ f <= g /\ g <= Len(o)
            BY <1>2, <4>2
          <5> HIDE DEF f, g, o
          <5>2. Defrag(Defrag(o, f), g - (Len(o) - Len(Defrag(o, f)))) = Defrag(o, g)
            BY <5>1, DefragTwice
          <5> QED BY <5>2 DEF o
        <4>4. g - freed = e
          <5> DEFINE n == Len(c.ops)
                     i == c.initialTimestamp
                     j == s.initialTimestamp
                     u == t.defragTimestamp
          <5>1. freed = n - k /\ k = (i + n) - j /\ u = j + e
            BY <1>7, <2>1, <4>1 DEF NextOf
          <5>2. n \in Nat /\ i \in Nat /\ j \in Nat /\ k \in Nat /\ g = u - i
            BY <1>2, <1>7
          <5> HIDE DEF n, i, j, u, freed, k, g
          <5> QED BY <2>2, <5>1, <5>2
        <4> QED BY <2>5, <3>2, <4>1, <4>3, <4>4
      <3>4. CASE ~(s.defragTimestamp > c.defragTimestamp)
        <4>1. log = c.ops
          BY <3>4 DEF log, LogAt
        <4>2. s.initialTimestamp = c.initialTimestamp
          BY <1>2, <1>7, <4>1 DEF NextOf
        <4>3. g = e
          BY <1>2, <2>1, <2>2, <4>2
        <4> QED BY <2>5, <3>2, <4>1, <4>3
      <3> QED BY <3>3, <3>4
    <2> HIDE DEF d
    <2>7. /\ Begins(Keyed(d), d \o rest) /\ Len(d \o rest) = Len(d) + Len(rest)
          /\ Len(Keyed(d)) = Len(d)
      BY <1>9, <2>4, BeginsConcat, KeyedType
    <2>8. Len(all) = k + Len(rest) /\ Len(rest) \in Nat /\ Len(d) \in Nat
      <3>1. Len(all) = Len(old) + Len(rest)
        BY <1>8, <1>9, ConcatProperties
      <3> QED BY <1>8, <1>9, <2>4, <3>1
    <2>9. Len(t.ops) = Len(d) + Len(rest)
      BY <2>1, <2>4, <2>7
    <2>10. Len(d) = NextOf(c) - t.initialTimestamp
      <3> DEFINE m == Len(all)
                 r == Len(rest)
                 h == Len(d)
                 j == s.initialTimestamp
                 n == NextOf(c)
                 u == t.initialTimestamp
      <3>1. /\ k = n - j /\ u = j + (m - (h + r)) /\ m = k + r
            /\ k \in Nat /\ n \in Nat /\ j \in Nat /\ r \in Nat /\ h \in Nat
        BY <1>2, <1>6, <1>7, <2>1, <2>8, <2>9
      <3> HIDE DEF m, r, h, j, n, u, k
      <3>2. h = n - u
        BY <3>1
      <3> QED BY <3>2 DEF h, n, u
    <2> QED BY <2>1, <2>4, <2>6, <2>7, <2>10
  <1> QED BY <1>10, <1>11

\* With more operations the log begins all of them, at the same ones.
BeginsAlso(log, all, more) ==
  /\ Begins(log, all \o more)
  /\ SubSeq(all \o more, 1, Len(log)) = SubSeq(all, 1, Len(log))

LEMMA BeginsGrows ==
  ASSUME NEW X, NEW Y, NEW all \in Seq(X), NEW more \in Seq(X), NEW log \in Seq(Y),
         Begins(log, all)
  PROVE  BeginsAlso(log, all, more)
  <1>1. PICK old \in Seq(X), new \in Seq(X) : Splits(old, new, log, all)
    BY BeginsSplit
  <1>2. /\ Len(old) = Len(log) /\ old = SubSeq(all, 1, Len(log))
        /\ all = old \o new /\ log = Keyed(old)
    BY <1>1 DEF Splits
  <1>3. new \o more \in Seq(X) /\ all \o more = old \o (new \o more)
    <2>1. new \o more \in Seq(X)
      BY ConcatProperties
    <2>2. (old \o new) \o more = old \o (new \o more)
      BY ConcatAssociative
    <2>3. all = old \o new
      BY <1>2
    <2> QED BY <2>1, <2>2, <2>3, Zenon
  <1>4. /\ Begins(Keyed(old), old \o (new \o more))
        /\ SubSeq(old \o (new \o more), 1, Len(old)) = old
    BY <1>3, BeginsConcat
  <1> QED BY <1>2, <1>3, <1>4 DEF BeginsAlso

\* What the client knows of its last update stays what it was.
LEMMA SnapshotFollows ==
  ASSUME NEW c \in Clients, NEW s, ServerOK(s, Data), NEW t, ServerOK(t, Data),
         Extends(s, t), c.defragTimestamp <= s.defragTimestamp,
         NEW kv, Snapshot(c, s, kv)
  PROVE  Snapshot(c, t, kv)
  <1> SUFFICES ASSUME t.defragTimestamp = c.defragTimestamp
               PROVE  /\ Begins(c.ops, t.ops)
                      /\ kv = Replayed(EmptyMap, SubSeq(t.ops, 1, Len(c.ops)))
    BY DEF Snapshot
  <1>1. c.ops \in Seq(KeyOps) /\ s.ops \in Seq(Op(Data))
    BY Stamps
  <1>2. t.defragTimestamp = s.defragTimestamp /\ s.defragTimestamp = c.defragTimestamp
    <2>1. /\ c.defragTimestamp \in Nat /\ s.defragTimestamp \in Nat
          /\ t.defragTimestamp \in Nat
      BY Stamps
    <2>2. t.defragTimestamp >= s.defragTimestamp
      BY DEF Extends
    <2> QED BY <2>1, <2>2
  <1>3. PICK more \in Seq(Op(Data)) : t.ops = s.ops \o more
    BY <1>2 DEF Extends
  <1>4. /\ Begins(c.ops, s.ops)
        /\ kv = Replayed(EmptyMap, SubSeq(s.ops, 1, Len(c.ops)))
    BY <1>2 DEF Snapshot
  <1>5. /\ Begins(c.ops, s.ops \o more)
        /\ SubSeq(s.ops \o more, 1, Len(c.ops)) = SubSeq(s.ops, 1, Len(c.ops))
    <2> DEFINE X == Op(Data)
               all == s.ops
               log == c.ops
    <2>1. all \in Seq(X) /\ log \in Seq(KeyOps) /\ more \in Seq(X) /\ Begins(log, all)
      BY <1>1, <1>4
    <2> HIDE DEF X, all, log
    <2>2. BeginsAlso(log, all, more)
      BY <2>1, BeginsGrows
    <2> QED BY <2>2 DEF BeginsAlso, all, log
  <1> QED BY <1>3, <1>4, <1>5

-----------------------------------------------------------------------------
(***************************************************************************)
(* Positions.                                                              *)
(***************************************************************************)
\* The operations ops with the positions of the rows they add, after base
\* rows, as their data.
Positioned(base, ops) ==
  [i \in 1..Len(ops) |->
     [Key |-> ops[i].Key, Delete |-> ops[i].Delete,
      data |-> base + Cardinality({j \in 1..i-1 : ~ops[j].Delete})]]

\* The positions of the additions before the i-th operation.
AddsBefore(ops, i) == {j \in 1..i-1 : ~ops[j].Delete}

LEMMA AddsBeforeType ==
  ASSUME NEW ops, Len(ops) \in Nat, NEW i \in 1..Len(ops) + 1
  PROVE  /\ AddsBefore(ops, i) \in SUBSET (1..(i - 1)) /\ i - 1 \in 0..Len(ops)
         /\ IsFiniteSet(AddsBefore(ops, i)) /\ Cardinality(AddsBefore(ops, i)) \in Nat
         /\ AddsBefore(ops, Len(ops) + 1) = Adds(ops)
  <1>1. i - 1 \in Nat /\ i - 1 \in 0..Len(ops) /\ (Len(ops) + 1) - 1 = Len(ops)
    OBVIOUS
  <1>2. AddsBefore(ops, i) \in SUBSET (1..(i - 1))
    BY DEF AddsBefore
  <1>3. /\ IsFiniteSet(AddsBefore(ops, i))
        /\ Cardinality(AddsBefore(ops, i)) \in 0..(i - 1)
    BY <1>1, <1>2, PlacesFinite
  <1>4. AddsBefore(ops, Len(ops) + 1) = Adds(ops)
    BY <1>1 DEF AddsBefore, Adds
  <1>5. Cardinality(AddsBefore(ops, i)) \in Nat
    BY <1>1, <1>3
  <1> QED BY <1>1, <1>2, <1>3, <1>4, <1>5

LEMMA PositionedType ==
  ASSUME NEW ops \in Seq(KeyOps), NEW base \in Nat
  PROVE  /\ Positioned(base, ops) \in Seq(Op(Nat)) /\ Len(Positioned(base, ops)) = Len(ops)
         /\ \A i \in 1..Len(ops) :
              /\ Positioned(base, ops)[i].Key = ops[i].Key
              /\ Positioned(base, ops)[i].Delete = ops[i].Delete
              /\ Positioned(base, ops)[i].data = base + Cardinality(AddsBefore(ops, i))
  <1> DEFINE n == Len(ops)
             e(i) == [Key |-> ops[i].Key, Delete |-> ops[i].Delete,
                      data |-> base + Cardinality(AddsBefore(ops, i))]
  <1>1. n \in Nat /\ \A i \in 1..n : ops[i] \in KeyOps
    BY ElementOfSeq
  <1>2. ASSUME NEW i \in 1..n PROVE e(i) \in Op(Nat)
    <2>1. Cardinality(AddsBefore(ops, i)) \in Nat
      BY <1>1, AddsBeforeType
    <2> QED BY <1>1, <2>1 DEF Op, KeyOps
  <1>3. Positioned(base, ops) = [i \in 1..n |-> e(i)]
    BY DEF Positioned, AddsBefore
  <1>4. \A i \in 1..n : /\ e(i).Key = ops[i].Key /\ e(i).Delete = ops[i].Delete
                        /\ e(i).data = base + Cardinality(AddsBefore(ops, i))
    OBVIOUS
  <1> HIDE DEF e, n
  <1>5. [i \in 1..n |-> e(i)] \in Seq(Op(Nat)) /\ Len([i \in 1..n |-> e(i)]) = n
    BY <1>1, <1>2
  <1>6. \A i \in 1..n : Positioned(base, ops)[i] = e(i)
    BY <1>3
  <1> QED BY <1>3, <1>4, <1>5, <1>6 DEF n

\* Positions are assigned in the order of the log, batch after batch.
LEMMA PositionedConcat ==
  ASSUME NEW a \in Seq(KeyOps), NEW b \in Seq(KeyOps)
  PROVE  /\ Positioned(0, a \o b) = Positioned(0, a) \o Positioned(Cardinality(Adds(a)), b)
         /\ Cardinality(Adds(a \o b)) = Cardinality(Adds(a)) + Cardinality(Adds(b))
         /\ Cardinality(Adds(a)) \in Nat /\ Cardinality(Adds(b)) \in Nat
  <1> DEFINE c == a \o b
             n == Len(a)
             m == Len(b)
             k == Cardinality(Adds(a))
             p == Positioned(0, a)
             q == Positioned(k, b)
             r == Positioned(0, c)
  <1>1. /\ c \in Seq(KeyOps) /\ Len(c) = n + m /\ n \in Nat /\ m \in Nat
        /\ \A i \in 1..(n + m) : c[i] = IF i <= n THEN a[i] ELSE b[i - n]
    BY ConcatProperties
  <1>2. Adds(a) \in SUBSET (1..n) /\ Adds(b) \in SUBSET (1..m) /\ Adds(c) = Joined(n, Adds(a), Adds(b))
    BY AddsConcat DEF Adds
  <1>3. Cardinality(Adds(c)) = k + Cardinality(Adds(b))
    <2>1. PlacesIn(Adds(a), n) /\ PlacesIn(Adds(b), m)
      BY <1>2 DEF PlacesIn
    <2> HIDE DEF n, m, c
    <2> QED BY <1>1, <1>2, <2>1, JoinedCardinality
  <1>4. k \in Nat /\ Cardinality(Adds(b)) \in Nat
    BY <1>1, <1>2, PlacesFinite
  <1> HIDE DEF c, k, n, m
  <1>5. /\ p \in Seq(Op(Nat)) /\ Len(p) = n
        /\ \A i \in 1..n : /\ p[i].Key = a[i].Key /\ p[i].Delete = a[i].Delete
                           /\ p[i].data = 0 + Cardinality(AddsBefore(a, i))
    BY PositionedType DEF n
  <1>6. /\ q \in Seq(Op(Nat)) /\ Len(q) = m
        /\ \A i \in 1..m : /\ q[i].Key = b[i].Key /\ q[i].Delete = b[i].Delete
                           /\ q[i].data = k + Cardinality(AddsBefore(b, i))
    BY <1>4, PositionedType DEF m
  <1>7. /\ r \in Seq(Op(Nat)) /\ Len(r) = n + m
        /\ \A i \in 1..(n + m) :
             /\ r[i].Key = c[i].Key /\ r[i].Delete = c[i].Delete
             /\ r[i].data = 0 + Cardinality(AddsBefore(c, i))
    BY <1>1, PositionedType
  <1> HIDE DEF p, q, r
  <1>8. /\ p \o q \in Seq(Op(Nat)) /\ Len(p \o q) = n + m
        /\ \A i \in 1..(n + m) : (p \o q)[i] = IF i <= n THEN p[i] ELSE q[i - n]
    <2>1. /\ p \in Seq(Op(Nat)) /\ Len(p) = n
          /\ q \in Seq(Op(Nat)) /\ Len(q) = m
      BY <1>5, <1>6
    <2>2. /\ p \o q \in Seq(Op(Nat)) /\ Len(p \o q) = Len(p) + Len(q)
          /\ \A i \in 1..(Len(p) + Len(q)) :
               (p \o q)[i] = IF i <= Len(p) THEN p[i] ELSE q[i - Len(p)]
      BY <2>1, ConcatProperties
    <2> QED BY <2>1, <2>2
  <1>9. ASSUME NEW i \in 1..(n + m) PROVE r[i] = (p \o q)[i]
    <2>0. i \in Int
      BY <1>1
    <2>1. CASE i <= n
      <3>1. i \in 1..n /\ \A j \in 1..(i - 1) : j \in 1..(n + m) /\ j <= n
        BY <1>1, <2>0, <2>1
      <3>2. \A j \in 1..(i - 1) : c[j] = a[j]
        BY <1>1, <3>1
      <3>3. AddsBefore(c, i) = AddsBefore(a, i)
        BY <3>2 DEF AddsBefore
      <3>4. r[i] \in Op(Nat) /\ p[i] \in Op(Nat)
        BY <1>5, <1>7, <3>1, ElementOfSeq
      <3>5. r[i].Key = p[i].Key /\ r[i].Delete = p[i].Delete /\ r[i].data = p[i].data
        <4>1. c[i] = a[i]
          BY <1>1, <2>1
        <4>2. /\ p[i].Key = a[i].Key /\ p[i].Delete = a[i].Delete
              /\ p[i].data = 0 + Cardinality(AddsBefore(a, i))
          BY <1>5, <3>1
        <4>3. /\ r[i].Key = c[i].Key /\ r[i].Delete = c[i].Delete
              /\ r[i].data = 0 + Cardinality(AddsBefore(c, i))
          BY <1>7
        <4> QED BY <3>3, <4>1, <4>2, <4>3
      <3>6. r[i] = p[i]
        BY <3>4, <3>5 DEF Op
      <3> QED BY <1>8, <2>1, <3>6
    <2>2. CASE ~(i <= n)
      <3> DEFINE j == i - n
      <3>1. j \in 1..m /\ i = n + j /\ j \in Int
        BY <1>1, <2>0, <2>2
      <3> HIDE DEF j
      <3>2. AddsBefore(b, j) \in SUBSET (1..m)
        <4>1. AddsBefore(b, j) \in SUBSET (1..(j - 1)) /\ j - 1 \in 0..m
          BY <1>1, <3>1, AddsBeforeType DEF m
        <4>2. \A x \in 1..(j - 1) : x \in 1..m
          BY <1>1, <4>1
        <4> QED BY <4>1, <4>2
      <3>3. AddsBefore(c, i) = Joined(n, Adds(a), AddsBefore(b, j))
        <4>1. ASSUME NEW x \in AddsBefore(c, i) PROVE x \in Joined(n, Adds(a), AddsBefore(b, j))
          <5>1. x \in 1..(n + m) /\ x \in 1..(i - 1) /\ ~c[x].Delete /\ x \in Int
            BY <1>1, <2>0 DEF AddsBefore
          <5>2. CASE x <= n
            <6>1. x \in 1..n
              BY <1>1, <5>1, <5>2
            <6> QED BY <1>1, <5>1, <5>2, <6>1 DEF Joined, Adds, n
          <5>3. CASE ~(x <= n)
            <6>1. x - n \in 1..(j - 1) /\ x = n + (x - n)
              BY <1>1, <3>1, <5>1, <5>3
            <6>2. c[x] = b[x - n]
              BY <1>1, <5>1, <5>3
            <6> QED BY <5>1, <6>1, <6>2 DEF Joined, AddsBefore
          <5> QED BY <5>2, <5>3
        <4>2. ASSUME NEW x \in Adds(a) PROVE x \in AddsBefore(c, i)
          <5>1. x \in 1..n /\ ~a[x].Delete
            BY DEF Adds, n
          <5>2. x \in 1..(n + m) /\ x <= n /\ x \in 1..(i - 1)
            BY <1>1, <3>1, <5>1
          <5> QED BY <1>1, <5>1, <5>2 DEF AddsBefore
        <4>3. ASSUME NEW x \in AddsBefore(b, j) PROVE n + x \in AddsBefore(c, i)
          <5>1. x \in 1..(j - 1) /\ ~b[x].Delete /\ x \in Int
            BY <3>1 DEF AddsBefore
          <5>2. n + x \in 1..(n + m) /\ ~(n + x <= n) /\ (n + x) - n = x /\ n + x \in 1..(i - 1)
            BY <1>1, <3>1, <5>1
          <5> QED BY <1>1, <5>1, <5>2 DEF AddsBefore
        <4> QED BY <4>1, <4>2, <4>3 DEF Joined
      <3>4. Cardinality(AddsBefore(c, i)) = k + Cardinality(AddsBefore(b, j))
        <4> DEFINE S == Adds(a)
                   T == AddsBefore(b, j)
        <4>1. PlacesIn(S, n) /\ PlacesIn(T, m)
          BY <1>2, <3>2 DEF PlacesIn
        <4> HIDE DEF S, T
        <4>2. Cardinality(Joined(n, S, T)) = Cardinality(S) + Cardinality(T)
          BY <1>1, <4>1, JoinedCardinality
        <4> QED BY <3>3, <4>2 DEF S, T, k, n
      <3>5. r[i] \in Op(Nat) /\ q[j] \in Op(Nat)
        BY <1>6, <1>7, <3>1, ElementOfSeq
      <3>6. r[i].Key = q[j].Key /\ r[i].Delete = q[j].Delete /\ r[i].data = q[j].data
        <4> DEFINE x == Cardinality(AddsBefore(b, j))
        <4>1. x \in Nat
          BY <1>1, <3>1, AddsBeforeType DEF m
        <4>2. c[i] = b[j]
          BY <1>1, <2>2 DEF j
        <4>3. r[i].data = 0 + (k + x) /\ q[j].data = k + x
          BY <1>6, <1>7, <3>1, <3>4
        <4> HIDE DEF x
        <4>4. 0 + (k + x) = k + x
          BY <1>4, <4>1
        <4> QED BY <1>6, <1>7, <3>1, <4>2, <4>3, <4>4
      <3>7. r[i] = q[j]
        BY <3>5, <3>6 DEF Op
      <3> QED BY <1>8, <2>2, <3>7 DEF j
    <2> QED BY <2>1, <2>2
  <1>10. Len(r) = Len(p \o q) /\ \A i \in 1..Len(r) : r[i] = (p \o q)[i]
    BY <1>7, <1>8, <1>9
  <1>11. r = p \o q
    BY <1>7, <1>8, <1>10, SeqEqual
  <1> QED BY <1>3, <1>4, <1>11 DEF r, p, q, c, k

\* updatePositionMap replays the operations with their positions.
LEMMA PositionMapOK ==
  ASSUME NEW c \in Clients, NEW new \in Seq(KeyOps)
  PROVE  LET u == updatePositionMap(c, new)
         IN  /\ u \in Clients /\ u.ops = c.ops
             /\ u.initialTimestamp = c.initialTimestamp /\ u.defragTimestamp = c.defragTimestamp
             /\ u.numRows = c.numRows + Cardinality(Adds(new))
             /\ u.keyToPos = Replayed(c.keyToPos, Positioned(c.numRows, new))
  <1> DEFINE n == Len(new)
             p == Positioned(c.numRows, new)
             touched == {new[i].Key : i \in 1..n}
             last(k) == LastOn(new, n, k)
             row(i) == c.numRows + Cardinality(AddsBefore(new, i))
             kv == c.keyToPos
             S == (DOMAIN kv \ touched) \cup {t \in touched : ~new[last(t)].Delete}
             u == updatePositionMap(c, new)
  <1>1. /\ c.numRows \in Nat /\ kv \in Maps(Nat) /\ n \in Nat
    BY DEF Clients
  <1>2. /\ p \in Seq(Op(Nat)) /\ Len(p) = n
        /\ \A i \in 1..n : p[i].Key = new[i].Key /\ p[i].Delete = new[i].Delete /\ p[i].data = row(i)
    BY <1>1, PositionedType
  <1>3. u = [c EXCEPT !.numRows = row(n + 1),
                      !.keyToPos = [k \in S |-> IF k \in touched THEN row(last(k)) ELSE kv[k]]]
    BY DEF updatePositionMap, AddsBefore
  <1>4. row(n + 1) = c.numRows + Cardinality(Adds(new)) /\ row(n + 1) \in Nat
    <2>1. n + 1 \in 1..(n + 1)
      BY <1>1
    <2>2. AddsBefore(new, n + 1) = Adds(new) /\ Cardinality(AddsBefore(new, n + 1)) \in Nat
      BY <1>1, <2>1, AddsBeforeType
    <2> DEFINE x == Cardinality(AddsBefore(new, n + 1))
    <2>3. x \in Nat
      BY <2>2
    <2> HIDE DEF x
    <2>4. c.numRows + x \in Nat
      BY <1>1, <2>3
    <2> QED BY <2>2, <2>4 DEF x
  <1>5. {p[i].Key : i \in 1..n} = touched
    BY <1>2
  <1>6. \A k : LastOn(p, n, k) = last(k)
    BY <1>2 DEF LastOn
  <1>7. \A k \in touched : last(k) \in 1..n
    <2>1. ASSUME NEW k \in touched PROVE last(k) \in 1..n
      <3>1. PICK i \in 1..n : k = new[i].Key
        OBVIOUS
      <3>2. PICK l \in 1..n : IsLast(new, n, l) /\ new[l].Key = new[i].Key
        BY <1>1, LastExists
      <3>3. last(new[l].Key) = l
        BY <1>1, <3>2, LastOnUnique
      <3> QED BY <3>1, <3>2, <3>3
    <2> QED BY <2>1
  <1> HIDE DEF touched, last, row, p
  <1>8. Replayed(kv, p)
          = [k \in (DOMAIN kv \ touched) \cup {t \in touched : ~p[last(t)].Delete} |->
               IF k \in touched THEN p[last(k)].data ELSE kv[k]]
    BY <1>2, <1>5, <1>6 DEF Replayed
  <1>9. {t \in touched : ~p[last(t)].Delete} = {t \in touched : ~new[last(t)].Delete}
    BY <1>2, <1>7
  <1>10. \A k \in touched : p[last(k)].data = row(last(k))
    BY <1>2, <1>7
  <1>11. Replayed(kv, p) = [k \in S |-> IF k \in touched THEN row(last(k)) ELSE kv[k]]
    BY <1>8, <1>9, <1>10
  <1>12. Replayed(kv, p) \in Maps(Nat)
    BY <1>1, <1>2, ReplayedType
  <1> HIDE DEF u, S, kv
  <1>13. u = [c EXCEPT !.numRows = row(n + 1), !.keyToPos = Replayed(kv, p)]
    BY <1>3, <1>11
  <1>14. /\ u \in Clients /\ u.ops = c.ops
         /\ u.initialTimestamp = c.initialTimestamp /\ u.defragTimestamp = c.defragTimestamp
         /\ u.numRows = row(n + 1) /\ u.keyToPos = Replayed(kv, p)
    BY <1>4, <1>12, <1>13 DEF Clients
  <1> QED BY <1>4, <1>14 DEF u, kv, p

\* The row of an addition lies behind those of the additions before it.
LEMMA RankOfAdd ==
  ASSUME NEW X, NEW ops \in Seq(X), NEW i \in Adds(ops)
  PROVE  /\ Rank(Adds(ops), i) = Cardinality(AddsBefore(ops, i)) + 1
         /\ Cardinality(AddsBefore(ops, i)) \in 0..(Cardinality(Adds(ops)) - 1)
  <1> DEFINE A == AddsBefore(ops, i)
             B == {j \in Adds(ops) : j <= i}
  <1>1. Len(ops) \in Nat /\ i \in 1..Len(ops) /\ i \in Int
    BY DEF Adds
  <1>2. IsFiniteSet(A)
    <2>1. i \in 1..Len(ops) + 1
      BY <1>1
    <2> QED BY <1>1, <2>1, AddsBeforeType
  <1>3. B = A \cup {i} /\ i \notin A
    <2>1. \A j \in 1..Len(ops) : j <= i <=> (j \in 1..(i - 1) \/ j = i)
      BY <1>1
    <2>2. \A j \in 1..(i - 1) : j \in 1..Len(ops)
      BY <1>1
    <2>3. i \notin 1..(i - 1)
      BY <1>1
    <2> QED BY <2>1, <2>2, <2>3 DEF Adds, AddsBefore
  <1> HIDE DEF A, B
  <1>4. Cardinality(A \cup {i}) = Cardinality(A) + 1 /\ Cardinality(A) \in Nat
    BY <1>2, <1>3, FS_AddElement, FS_CardinalityType
  <1>5. Rank(Adds(ops), i) = Cardinality(A) + 1
    BY <1>3, <1>4 DEF Rank, B
  <1>6. Rank(Adds(ops), i) \in 1..Cardinality(Adds(ops)) /\ Cardinality(Adds(ops)) \in Nat
    <2>1. Adds(ops) \in SUBSET (1..Len(ops))
      BY DEF Adds
    <2>2. /\ IsFiniteSet(Adds(ops)) /\ Adds(ops) \in SUBSET Int
          /\ Cardinality(Adds(ops)) \in 0..Len(ops)
      BY <1>1, <2>1, PlacesFinite
    <2>3. Rank(Adds(ops), i) \in 1..Cardinality(Adds(ops))
      BY <2>2, RankType
    <2> QED BY <1>1, <2>2, <2>3
  <1>7. Cardinality(A) \in 0..(Cardinality(Adds(ops)) - 1)
    <2> DEFINE x == Cardinality(A)
               y == Cardinality(Adds(ops))
    <2>1. x \in Nat /\ y \in Nat /\ x + 1 \in 1..y
      BY <1>4, <1>5, <1>6
    <2> HIDE DEF x, y
    <2>2. x \in 0..(y - 1)
      BY <2>1
    <2> QED BY <2>2 DEF x, y
  <1> QED BY <1>5, <1>7 DEF A

\* A client that has replayed the beginning of a log knows the keys it leaves,
\* and where their rows are among the rows of the whole log.
LEMMA PositionsMatch ==
  ASSUME NEW old \in Seq(Op(Data)), NEW new \in Seq(Op(Data))
  PROVE  LET pos == Replayed(EmptyMap, Positioned(0, Keyed(old)))
             kv  == Replayed(EmptyMap, old)
             n   == Cardinality(Adds(old))
         IN  /\ DOMAIN pos = DOMAIN kv
             /\ \A k \in DOMAIN pos : /\ pos[k] \in 0..(n - 1)
                                      /\ opsToRows(old \o new)[pos[k] + 1] = kv[k]
  <1> DEFINE p == Positioned(0, Keyed(old))
             pos == Replayed(EmptyMap, p)
             kv == Replayed(EmptyMap, old)
             n == Len(old)
             all == old \o new
  <1>1. n \in Nat /\ \A i \in 1..n : old[i] \in Op(Data)
    BY ElementOfSeq
  <1>2. /\ Keyed(old) \in Seq(KeyOps) /\ Len(Keyed(old)) = n
        /\ \A i \in 1..n : /\ Keyed(old)[i].Key = old[i].Key
                           /\ Keyed(old)[i].Delete = old[i].Delete
    <2>1. {KeyOf(x) : x \in Op(Data)} \subseteq KeyOps
      BY DEF KeyOf, Op, KeyOps
    <2>2. /\ Keyed(old) \in Seq({KeyOf(x) : x \in Op(Data)}) /\ Len(Keyed(old)) = n
          /\ \A i \in 1..n : /\ Keyed(old)[i].Key = old[i].Key
                             /\ Keyed(old)[i].Delete = old[i].Delete
      BY KeyedType
    <2>3. Keyed(old) \in Seq(KeyOps)
      BY <2>1, <2>2, SeqMonotonic
    <2> QED BY <2>2, <2>3
  <1>3. /\ p \in Seq(Op(Nat)) /\ Len(p) = n
        /\ \A i \in 1..n : /\ p[i].Key = Keyed(old)[i].Key /\ p[i].Delete = Keyed(old)[i].Delete
                           /\ p[i].data = 0 + Cardinality(AddsBefore(Keyed(old), i))
    BY <1>2, PositionedType
  <1>4. \A i \in 1..n : AddsBefore(Keyed(old), i) = AddsBefore(old, i)
    <2>1. ASSUME NEW i \in 1..n PROVE AddsBefore(Keyed(old), i) = AddsBefore(old, i)
      <3>1. \A j \in 1..(i - 1) : j \in 1..n
        BY <1>1
      <3> QED BY <1>2, <3>1 DEF AddsBefore
    <2> QED BY <2>1
  <1>5. \A i \in 1..n : /\ p[i].Key = old[i].Key /\ p[i].Delete = old[i].Delete
                        /\ p[i].data = 0 + Cardinality(AddsBefore(old, i))
    BY <1>2, <1>3, <1>4
  <1>6. MapAfter(pos, EmptyMap, p) /\ MapAfter(kv, EmptyMap, old)
    BY <1>1, <1>3, ReplayedDef
  <1>7. \A i : IsLast(p, n, i) <=> IsLast(old, n, i)
    BY <1>5 DEF IsLast
  <1>8. /\ all \in Seq(Op(Data)) /\ Len(all) = n + Len(new) /\ Len(new) \in Nat
        /\ \A i \in 1..(n + Len(new)) : all[i] = IF i <= n THEN old[i] ELSE new[i - n]
    BY ConcatProperties
  <1> HIDE DEF p, pos, kv, n, all
  <1>9. \A k : k \notin DOMAIN EmptyMap
    BY DEF EmptyMap
  <1>10. ASSUME NEW k
         PROVE  \/ k \notin DOMAIN pos /\ k \notin DOMAIN kv
                \/ \E i \in 1..n :
                     /\ IsLast(old, n, i) /\ old[i].Key = k
                     /\ k \in DOMAIN pos <=> ~old[i].Delete
                     /\ k \in DOMAIN kv <=> ~old[i].Delete
                     /\ ~old[i].Delete => pos[k] = p[i].data /\ kv[k] = old[i].data
    <2>1. CASE \A i \in 1..n : old[i].Key # k
      <3>1. \A i \in 1..n : p[i].Key # k
        BY <1>5, <2>1
      <3>2. k \notin DOMAIN pos
        BY <1>3, <1>6, <1>9, <3>1 DEF MapAfter
      <3>3. k \notin DOMAIN kv
        BY <1>6, <1>9, <2>1 DEF MapAfter, n
      <3> QED BY <3>2, <3>3
    <2>2. CASE \E i \in 1..n : old[i].Key = k
      <3>0. PICK j \in 1..n : old[j].Key = k
        BY <2>2
      <3>1. PICK i \in 1..n : IsLast(old, n, i) /\ old[i].Key = k
        <4>1. \E l \in 1..n : IsLast(old, n, l) /\ old[l].Key = old[j].Key
          BY <1>1, <3>0, LastExists
        <4> QED BY <3>0, <4>1
      <3>2. IsLast(p, n, i) /\ p[i].Key = k /\ p[i].Delete = old[i].Delete
        BY <1>5, <1>7, <3>1
      <3>3. /\ k \in DOMAIN pos <=> ~old[i].Delete
            /\ ~old[i].Delete => pos[k] = p[i].data
        BY <1>3, <1>6, <3>2 DEF MapAfter
      <3>4. /\ k \in DOMAIN kv <=> ~old[i].Delete
            /\ ~old[i].Delete => kv[k] = old[i].data
        BY <1>6, <3>1 DEF MapAfter, n
      <3> QED BY <3>1, <3>3, <3>4
    <2> QED BY <2>1, <2>2
  <1>11. DOMAIN pos = DOMAIN kv
    BY <1>10
  <1>12. ASSUME NEW k \in DOMAIN pos
         PROVE  /\ pos[k] \in 0..(Cardinality(Adds(old)) - 1)
                /\ opsToRows(all)[pos[k] + 1] = kv[k]
    <2>1. PICK i \in 1..n : ~old[i].Delete /\ pos[k] = p[i].data /\ kv[k] = old[i].data
      BY <1>10
    <2> DEFINE x == Cardinality(AddsBefore(old, i))
    <2>2. i \in Adds(old)
      BY <2>1 DEF Adds, n
    <2>3. x \in 0..(Cardinality(Adds(old)) - 1)
      BY <2>2, RankOfAdd
    <2>4. pos[k] = 0 + x
      BY <1>5, <2>1
    <2>5. \A j \in 1..i : j \in 1..(n + Len(new)) /\ j <= n
      BY <1>1, <1>8
    <2>6. i \in 1..i
      BY <1>1
    <2>7. \A j \in 1..i : all[j] = old[j]
      BY <1>8, <2>5
    <2>8. AddsBefore(all, i) = AddsBefore(old, i)
      <3>1. \A j \in 1..(i - 1) : j \in 1..i
        BY <1>1
      <3> QED BY <2>7, <3>1 DEF AddsBefore
    <2>9. i \in Adds(all) /\ all[i] = old[i]
      BY <1>8, <2>1, <2>5, <2>6, <2>7 DEF Adds
    <2>10. Rank(Adds(all), i) = x + 1
      BY <1>8, <2>8, <2>9, RankOfAdd
    <2>11. \A op \in Op(Data) : op.data \in Data
      BY DEF Op
    <2>12. opsToRows(all)[Rank(Adds(all), i)] = all[i].data
      BY <1>8, <2>9, <2>11, RowsType
    <2>13. x \in Int
      <3> HIDE DEF x
      <3> QED BY <2>3
    <2> HIDE DEF x
    <2>14. 0 + x = x
      BY <2>13
    <2> QED BY <2>1, <2>3, <2>4, <2>9, <2>10, <2>12, <2>14
  <1> QED BY <1>11, <1>12 DEF pos, kv, p, all

-----------------------------------------------------------------------------
(***************************************************************************)
(* processKeyUpdate.                                                       *)
(***************************************************************************)
\* A client's positions are those its log gives.
ClientOK(c) ==
  /\ c \in Clients
  /\ c.numRows = Cardinality(Adds(c.ops))
  /\ c.keyToPos = Replayed(EmptyMap, Positioned(0, c.ops))

\* u is the client after the operations new, with the log ops.
Took(u, c, ops, new) ==
  /\ ClientOK(u) /\ u.ops = ops
  /\ u.initialTimestamp = c.initialTimestamp /\ u.defragTimestamp = c.defragTimestamp
  /\ u.numRows = c.numRows + Cardinality(Adds(new))
  /\ Cardinality(Adds(new)) \in Nat

\* A client that starts afresh.
LEMMA TakesAll ==
  ASSUME NEW c \in Clients, c.numRows = 0, c.keyToPos = EmptyMap, NEW ops \in Seq(KeyOps)
  PROVE  Took(updatePositionMap([c EXCEPT !.ops = ops], ops), c, ops, ops)
  <1> DEFINE d == [c EXCEPT !.ops = ops]
             u == updatePositionMap(d, ops)
  <1>1. /\ d \in Clients /\ d.ops = ops /\ d.numRows = 0 /\ d.keyToPos = EmptyMap
        /\ d.initialTimestamp = c.initialTimestamp /\ d.defragTimestamp = c.defragTimestamp
    BY DEF Clients
  <1> HIDE DEF d
  <1>2. /\ u \in Clients /\ u.ops = d.ops
        /\ u.initialTimestamp = d.initialTimestamp /\ u.defragTimestamp = d.defragTimestamp
        /\ u.numRows = d.numRows + Cardinality(Adds(ops))
        /\ u.keyToPos = Replayed(d.keyToPos, Positioned(d.numRows, ops))
    BY <1>1, PositionMapOK
  <1>3. Cardinality(Adds(ops)) \in Nat
    <2>1. Len(ops) \in Nat /\ Adds(ops) \in SUBSET (1..Len(ops))
      BY DEF Adds
    <2>2. Cardinality(Adds(ops)) \in 0..Len(ops)
      BY <2>1, PlacesFinite
    <2> QED BY <2>1, <2>2
  <1> HIDE DEF u
  <1>4. 0 + Cardinality(Adds(ops)) = Cardinality(Adds(ops))
    BY <1>3
  <1>5. ClientOK(u)
    BY <1>1, <1>2, <1>4 DEF ClientOK
  <1> QED BY <1>1, <1>2, <1>3, <1>5 DEF Took, u, d

\* A client that goes on.
LEMMA TakesMore ==
  ASSUME NEW c, ClientOK(c), NEW new \in Seq(KeyOps)
  PROVE  Took(updatePositionMap([c EXCEPT !.ops = c.ops \o new], new), c, c.ops \o new, new)
  <1> DEFINE old == c.ops
             ops == old \o new
             d == [c EXCEPT !.ops = ops]
             u == updatePositionMap(d, new)
             k == Cardinality(Adds(old))
  <1>1. /\ c \in Clients /\ old \in Seq(KeyOps) /\ c.numRows = k
        /\ c.keyToPos = Replayed(EmptyMap, Positioned(0, old))
    BY DEF ClientOK, Clients
  <1> HIDE DEF old
  <1>2. ops \in Seq(KeyOps)
    BY <1>1, ConcatProperties
  <1> HIDE DEF ops
  <1>3. /\ d \in Clients /\ d.ops = ops /\ d.numRows = k /\ d.keyToPos = c.keyToPos
        /\ d.initialTimestamp = c.initialTimestamp /\ d.defragTimestamp = c.defragTimestamp
    BY <1>1, <1>2 DEF Clients
  <1> HIDE DEF d
  <1>4. /\ u \in Clients /\ u.ops = d.ops
        /\ u.initialTimestamp = d.initialTimestamp /\ u.defragTimestamp = d.defragTimestamp
        /\ u.numRows = d.numRows + Cardinality(Adds(new))
        /\ u.keyToPos = Replayed(d.keyToPos, Positioned(d.numRows, new))
    BY <1>3, PositionMapOK
  <1> HIDE DEF u
  <1>5. /\ Positioned(0, ops) = Positioned(0, old) \o Positioned(k, new)
        /\ Cardinality(Adds(ops)) = k + Cardinality(Adds(new))
        /\ k \in Nat /\ Cardinality(Adds(new)) \in Nat
    BY <1>1, PositionedConcat DEF ops
  <1> HIDE DEF k
  <1>6. Positioned(0, old) \in Seq(Op(Nat)) /\ Positioned(k, new) \in Seq(Op(Nat))
    BY <1>1, <1>5, PositionedType
  <1>7. Replayed(Replayed(EmptyMap, Positioned(0, old)), Positioned(k, new))
          = Replayed(EmptyMap, Positioned(0, old) \o Positioned(k, new))
    BY <1>6, ReplayedConcat
  <1>8. ClientOK(u)
    BY <1>1, <1>3, <1>4, <1>5, <1>7 DEF ClientOK
  <1> QED BY <1>1, <1>3, <1>4, <1>5, <1>8 DEF Took, u, d, ops, old

\* The operations in an answer of KeyUpdates.
LEMMA Sent ==
  ASSUME NEW s, ServerOK(s, Data), NEW f \in 0..Len(s.ops)
  PROVE  [i \in 1..(Len(s.ops) - f) |-> KeyOf(s.ops[f + i])]
           = Keyed(SubSeq(s.ops, f + 1, Len(s.ops)))
  <1> DEFINE ops == s.ops
             new == SubSeq(ops, f + 1, Len(ops))
  <1>1. ops \in Seq(Op(Data))
    BY DEF ServerOK, Servers
  <1> HIDE DEF ops
  <1>2. f \in 0..Len(ops)
    BY DEF ops
  <1>3. Len(new) = Len(ops) - f /\ \A i \in 1..(Len(ops) - f) : new[i] = ops[f + i]
    BY <1>1, <1>2, Cut
  <1> HIDE DEF new
  <1>4. [i \in 1..(Len(ops) - f) |-> KeyOf(ops[f + i])] = Keyed(new)
    BY <1>3 DEF Keyed
  <1> QED BY <1>4 DEF new, ops

\* The client after an update: it has the server's log, and its positions.
Updated(new, c, s) ==
  /\ ClientOK(new.cli) /\ new.cli.ops = Keyed(s.ops)
  /\ new.cli.defragTimestamp = s.defragTimestamp
  /\ \/ new.cli.initialTimestamp = s.initialTimestamp
     \/ new.cli.initialTimestamp = 0 /\ s.ops = <<>> /\ s.defragTimestamp > 0
  /\ new.newRows \in Nat /\ new.reset \in BOOLEAN
  /\ new.reset => new.newRows = new.cli.numRows
  /\ ~new.reset => /\ c.defragTimestamp = s.defragTimestamp
                   /\ new.cli.numRows = c.numRows + new.newRows

\* Updated, of a client that took all it knows from a.
LEMMA UpdatedFrom ==
  ASSUME NEW new, NEW c, NEW s, NEW a, NEW more,
         Took(new.cli, a, Keyed(s.ops), more), new.newRows = Cardinality(Adds(more)),
         a.defragTimestamp = s.defragTimestamp,
         \/ a.initialTimestamp = s.initialTimestamp
         \/ a.initialTimestamp = 0 /\ s.ops = <<>> /\ s.defragTimestamp > 0,
         \/ new.reset = TRUE /\ a.numRows = 0
         \/ new.reset = FALSE /\ a = c
  PROVE  Updated(new, c, s)
  <1>1. /\ ClientOK(new.cli) /\ new.cli.ops = Keyed(s.ops)
        /\ new.cli.defragTimestamp = s.defragTimestamp
        /\ \/ new.cli.initialTimestamp = s.initialTimestamp
           \/ new.cli.initialTimestamp = 0 /\ s.ops = <<>> /\ s.defragTimestamp > 0
        /\ new.newRows \in Nat
    BY DEF Took
  <1>2. new.cli.numRows = a.numRows + new.newRows
    BY DEF Took
  <1>3. CASE new.reset = TRUE /\ a.numRows = 0
    <2>1. new.cli.numRows = new.newRows
      BY <1>1, <1>2, <1>3
    <2> QED BY <1>1, <1>3, <2>1 DEF Updated
  <1>4. CASE new.reset = FALSE /\ a = c
    <2>1. new.cli.numRows = c.numRows + new.newRows /\ c.defragTimestamp = s.defragTimestamp
      BY <1>2, <1>4
    <2> QED BY <1>1, <1>4, <2>1 DEF Updated
  <1> QED BY <1>3, <1>4

\* What processKeyUpdate gives, by whether it deletes the client's history and
\* whether it defragments the client's log.
Processed(new, c1, ops, recent, old, d) ==
  /\ new.cli = updatePositionMap([c1 EXCEPT !.ops = ops], recent)
  /\ new.newRows = Cardinality(Adds(recent))
  /\ new.reset \in BOOLEAN /\ (new.reset <=> old \/ d)

LEMMA ProcessCases ==
  ASSUME NEW c, NEW resp, NEW old \in BOOLEAN, resp.ShouldDeleteHistory = old,
         NEW c0, c0 = IF old THEN Forgetful(resp) ELSE c,
         NEW d \in BOOLEAN, d <=> resp.DefragTimestamp > c0.defragTimestamp,
         NEW c1, c1 = IF d THEN DefraggedClient(c0, resp) ELSE c0,
         NEW ops, ops = c1.ops \o resp.ops,
         NEW recent, recent = IF d THEN ops ELSE resp.ops
  PROVE  Processed(processKeyUpdate(c, resp), c1, ops, recent, old, d)
  <1> DEFINE r == resp.ShouldDeleteHistory \/ resp.DefragTimestamp > c0.defragTimestamp
             new == processKeyUpdate(c, resp)
  <1>1. c0 = IF resp.ShouldDeleteHistory THEN Forgetful(resp) ELSE c
    OBVIOUS
  <1>2. c1 = IF resp.DefragTimestamp > c0.defragTimestamp THEN DefraggedClient(c0, resp) ELSE c0
    OBVIOUS
  <1>3. recent = IF resp.DefragTimestamp > c0.defragTimestamp THEN ops ELSE resp.ops
    OBVIOUS
  <1>4. new = [cli     |-> updatePositionMap([c1 EXCEPT !.ops = ops], recent),
               newRows |-> Cardinality({i \in 1..Len(recent) : ~recent[i].Delete}),
               reset   |-> r]
    BY <1>1, <1>2, <1>3, Zenon DEF processKeyUpdate
  <1>5. r \in BOOLEAN /\ (r <=> old \/ d)
    OBVIOUS
  <1> HIDE DEF r, new
  <1>6. /\ new.cli = updatePositionMap([c1 EXCEPT !.ops = ops], recent)
        /\ new.newRows = Cardinality({i \in 1..Len(recent) : ~recent[i].Delete})
        /\ new.reset = r
    BY <1>4
  <1>7. Processed(new, c1, ops, recent, old, d)
    BY <1>5, <1>6 DEF Adds, Processed
  <1> QED BY <1>7 DEF new

LEMMA AnswerDef ==
  ASSUME NEW s, ServerOK(s, Data), NEW r \in Nat,
         r <= s.initialTimestamp + Len(s.ops)
  PROVE  LET resp == KeyUpdates(s, r)
             f == r - s.initialTimestamp
         IN  /\ resp.ShouldDeleteHistory = (r < s.defragTimestamp)
             /\ resp.DefragTimestamp = s.defragTimestamp
             /\ r < s.defragTimestamp =>
                  /\ resp.ops = Keyed(s.ops)
                  /\ resp.InitialTimestamp = IF s.ops = <<>> THEN 0 ELSE s.initialTimestamp
             /\ ~(r < s.defragTimestamp) =>
                  /\ f \in 0..Len(s.ops)
                  /\ resp.ops = Keyed(SubSeq(s.ops, f + 1, Len(s.ops)))
  <1> DEFINE resp == KeyUpdates(s, r)
             old == r < s.defragTimestamp
             i == s.initialTimestamp
             n == Len(s.ops)
             next == IF old THEN i ELSE r
             firstPos == IF next >= i THEN next - i ELSE 0
             count == n - firstPos
  <1>1. /\ i \in Nat /\ n \in Nat /\ s.ops \in Seq(Op(Data)) /\ s.defragTimestamp \in Nat
        /\ i <= s.defragTimestamp
    <2>1. s.ops \in Seq(Op(Data)) /\ i \in Nat /\ s.defragTimestamp \in Nat
          /\ s.defragTimestamp - i \in Nat
      BY DEF ServerOK, Servers, Compacted
    <2> QED BY <2>1
  <1>2. resp = [ShouldDeleteHistory |-> old, DefragTimestamp |-> s.defragTimestamp,
                InitialTimestamp |-> IF count = 0 THEN 0 ELSE i + firstPos,
                ops |-> [j \in 1..count |-> KeyOf(s.ops[firstPos + j])]]
    BY DEF KeyUpdates
  <1>3. old => firstPos = 0
    BY <1>1
  <1>4. ~old => firstPos = r - i /\ firstPos \in 0..n
    BY <1>1
  <1> HIDE DEF firstPos, resp
  <1>5. firstPos \in 0..n => resp.ops = Keyed(SubSeq(s.ops, firstPos + 1, n))
    BY <1>2, Sent
  <1>6. resp.ShouldDeleteHistory = old /\ resp.DefragTimestamp = s.defragTimestamp
        /\ resp.InitialTimestamp = IF count = 0 THEN 0 ELSE i + firstPos
    BY <1>2
  <1>7. ASSUME old
        PROVE  /\ resp.ops = Keyed(s.ops)
               /\ resp.InitialTimestamp = IF s.ops = <<>> THEN 0 ELSE i
    <2>1. firstPos = 0 /\ firstPos \in 0..n /\ 0 + 1 = 1
      BY <1>1, <1>3, <1>7
    <2>2. SubSeq(s.ops, 1, n) = s.ops
      BY <1>1, SubSeqFull
    <2>3. count = 0 <=> s.ops = <<>>
      <3>1. count = n
        BY <1>1, <2>1
      <3>2. n = 0 <=> s.ops = <<>>
        BY <1>1
      <3> QED BY <3>1, <3>2
    <2>4. i + firstPos = i
      BY <1>1, <2>1
    <2> QED BY <1>5, <1>6, <2>1, <2>2, <2>3, <2>4
  <1> QED BY <1>4, <1>5, <1>6, <1>7 DEF resp

\* An update brings the client level with the server it asks.
LEMMA KeyUpdateOK ==
  ASSUME NEW c, ClientOK(c), NEW s, ServerOK(s, Data), Fits(c, s),
         NextOf(c) <= s.initialTimestamp + Len(s.ops)
  PROVE  Updated(processKeyUpdate(c, KeyUpdates(s, NextOf(c))), c, s)
  <1> DEFINE r == NextOf(c)
             resp == KeyUpdates(s, r)
             old == r < s.defragTimestamp
             c0 == IF old THEN Forgetful(resp) ELSE c
             d == resp.DefragTimestamp > c0.defragTimestamp
             c1 == IF d THEN DefraggedClient(c0, resp) ELSE c0
             ops == c1.ops \o resp.ops
             recent == IF d THEN ops ELSE resp.ops
             new == processKeyUpdate(c, resp)
             f == r - s.initialTimestamp
             rest == SubSeq(s.ops, f + 1, Len(s.ops))
  <1> SUFFICES Updated(new, c, s)
    OBVIOUS
  <1>1. /\ c \in Clients /\ c.initialTimestamp \in Nat /\ c.defragTimestamp \in Nat
        /\ c.ops \in Seq(KeyOps) /\ Len(c.ops) \in Nat /\ r \in Nat
        /\ s.initialTimestamp \in Nat /\ s.defragTimestamp \in Nat
        /\ s.ops \in Seq(Op(Data)) /\ Len(s.ops) \in Nat
        /\ s.initialTimestamp <= s.defragTimestamp
    <2>1. c \in Clients
      BY DEF ClientOK
    <2> QED BY <2>1, Stamps DEF NextOf
  <1>2. Keyed(s.ops) \in Seq(KeyOps)
    <2>1. {KeyOf(x) : x \in Op(Data)} \subseteq KeyOps
      BY DEF KeyOf, Op, KeyOps
    <2>2. Keyed(s.ops) \in Seq({KeyOf(x) : x \in Op(Data)})
      BY <1>1, KeyedType
    <2> QED BY <2>1, <2>2, SeqMonotonic
  <1> HIDE DEF r
  <1>3. /\ resp.ShouldDeleteHistory = old
        /\ resp.DefragTimestamp = s.defragTimestamp
        /\ old => /\ resp.ops = Keyed(s.ops)
                  /\ resp.InitialTimestamp = IF s.ops = <<>> THEN 0 ELSE s.initialTimestamp
        /\ ~old => f \in 0..Len(s.ops) /\ resp.ops = Keyed(rest)
    BY <1>1, AnswerDef DEF r
  <1> HIDE DEF resp
  <1>4. old \in BOOLEAN /\ d \in BOOLEAN
    OBVIOUS
  <1>5. /\ new.cli = updatePositionMap([c1 EXCEPT !.ops = ops], recent)
        /\ new.newRows = Cardinality(Adds(recent))
        /\ new.reset \in BOOLEAN /\ (new.reset <=> old \/ d)
    <2> HIDE DEF new
    <2> DEFINE x == old
               y == d
               z0 == c0
               z1 == c1
               o == ops
               n == recent
    <2>1. /\ x \in BOOLEAN /\ resp.ShouldDeleteHistory = x
          /\ z0 = IF x THEN Forgetful(resp) ELSE c
          /\ y \in BOOLEAN /\ (y <=> resp.DefragTimestamp > z0.defragTimestamp)
          /\ z1 = IF y THEN DefraggedClient(z0, resp) ELSE z0
          /\ o = z1.ops \o resp.ops /\ n = IF y THEN o ELSE resp.ops
      BY <1>3, <1>4
    <2> HIDE DEF x, y, z0, z1, o, n
    <2>2. Processed(processKeyUpdate(c, resp), z1, o, n, x, y)
      BY <2>1, ProcessCases
    <2>3. Processed(new, z1, o, n, x, y)
      BY <2>2 DEF new
    <2>4. /\ new.cli = updatePositionMap([z1 EXCEPT !.ops = o], n)
          /\ new.newRows = Cardinality(Adds(n))
          /\ new.reset \in BOOLEAN /\ (new.reset <=> x \/ y)
      BY <2>3 DEF Processed
    <2> QED BY <2>4 DEF x, y, z1, o, n
  <1> HIDE DEF new
  <1>6. CASE old
    <2> DEFINE a == Forgetful(resp)
    <2>1. /\ a \in Clients /\ a.numRows = 0 /\ a.keyToPos = EmptyMap /\ a.ops = <<>>
          /\ a.defragTimestamp = s.defragTimestamp
          /\ a.initialTimestamp = IF s.ops = <<>> THEN 0 ELSE s.initialTimestamp
      <3>1. EmptyMap \in Maps(Nat)
        <4>1. EmptyMap \in [{} -> Nat] /\ {} \in SUBSET Keys
          BY DEF EmptyMap
        <4> QED BY <4>1 DEF Maps
      <3> DEFINE i == resp.InitialTimestamp
                 t == resp.DefragTimestamp
      <3>2. i \in Nat /\ t \in Nat /\ t = s.defragTimestamp
            /\ i = IF s.ops = <<>> THEN 0 ELSE s.initialTimestamp
        <4>1. t = s.defragTimestamp
          BY <1>3
        <4>2. i = IF s.ops = <<>> THEN 0 ELSE s.initialTimestamp
          BY <1>3, <1>6
        <4> HIDE DEF i, t
        <4>3. i \in Nat
          BY <1>1, <4>2
        <4> QED BY <1>1, <4>1, <4>2, <4>3
      <3>3. a = [initialTimestamp |-> i, defragTimestamp |-> t, numRows |-> 0,
                 ops |-> <<>>, keyToPos |-> EmptyMap]
        <4>1. a = [NewClient EXCEPT !.initialTimestamp = i, !.defragTimestamp = t]
          BY DEF Forgetful
        <4> HIDE DEF a, i, t
        <4> QED BY <4>1 DEF NewClient
      <3>4. <<>> \in Seq(KeyOps)
        OBVIOUS
      <3> HIDE DEF a, i, t
      <3> QED BY <3>1, <3>2, <3>3, <3>4 DEF Clients
    <2> HIDE DEF a
    <2>2. c0 = a
      BY <1>6 DEF a
    <2> HIDE DEF c0
    <2>3. ~d
      BY <1>1, <1>3, <2>1, <2>2
    <2>4. c1 = a /\ recent = resp.ops
      BY <2>2, <2>3
    <2> HIDE DEF c1, recent, d
    <2>5. ops = Keyed(s.ops) /\ resp.ops = Keyed(s.ops)
      BY <1>2, <1>3, <1>6, <2>1, <2>4, ConcatEmptySeq
    <2> HIDE DEF ops
    <2>6. Took(new.cli, a, Keyed(s.ops), Keyed(s.ops))
      BY <1>2, <1>5, <2>1, <2>4, <2>5, TakesAll
    <2>7. new.newRows = Cardinality(Adds(Keyed(s.ops))) /\ new.reset
      BY <1>5, <1>6, <2>4, <2>5
    <2>8. 0 <= r /\ r < s.defragTimestamp
      BY <1>1, <1>6
    <2>9. s.defragTimestamp > 0
      BY <1>1, <2>8
    <2>10. new.reset = TRUE
      BY <1>5, <2>7
    <2> QED BY <2>1, <2>6, <2>7, <2>9, <2>10, UpdatedFrom
  <1>7. CASE ~old
    <2>1. c0 = c /\ r >= s.defragTimestamp
      BY <1>1, <1>7
    <2>2. /\ Len(LogAt(c, s)) = f /\ Begins(LogAt(c, s), s.ops)
          /\ LogAt(c, s) \in Seq(KeyOps) /\ f \in 0..Len(s.ops)
      BY <1>1, <1>3, <1>7, <2>1, LogAtType DEF Fits, r
    <2> DEFINE log == LogAt(c, s)
    <2>3. Keyed(s.ops) = log \o resp.ops /\ resp.ops \in Seq(KeyOps)
      <3> DEFINE all == s.ops
                 X == Op(Data)
      <3>1. all \in Seq(X) /\ log \in Seq(KeyOps) /\ Begins(log, all) /\ f \in 0..Len(all)
        BY <1>1, <2>2
      <3> HIDE DEF all, X, log
      <3>2. PICK o \in Seq(X), n \in Seq(X) : Splits(o, n, log, all)
        BY <3>1, BeginsSplit
      <3> HIDE DEF f
      <3>3. Len(o) = f /\ o = SubSeq(all, 1, f) /\ all = o \o n /\ log = Keyed(o)
        BY <2>2, <3>2 DEF Splits, log
      <3>4. /\ SubSeq(all, 1, f) \in Seq(X) /\ SubSeq(all, f + 1, Len(all)) \in Seq(X)
            /\ SubSeq(all, 1, f) \o SubSeq(all, f + 1, Len(all)) = all
        BY <3>1, Cut
      <3> DEFINE m == SubSeq(all, f + 1, Len(all))
      <3>5. m \in Seq(X) /\ all = o \o m
        BY <3>3, <3>4
      <3>6. rest = m
        BY DEF all
      <3> HIDE DEF m, rest
      <3>7. Keyed(all) = Keyed(o) \o Keyed(m)
        BY <3>5, BeginsConcat
      <3>8. Keyed(m) \in Seq(KeyOps)
        <4>1. {KeyOf(x) : x \in X} \subseteq KeyOps
          BY DEF KeyOf, Op, KeyOps, X
        <4>2. Keyed(m) \in Seq({KeyOf(x) : x \in X})
          BY <3>5, KeyedType
        <4> QED BY <4>1, <4>2, SeqMonotonic
      <3>9. resp.ops = Keyed(m)
        BY <1>3, <1>7, <3>6
      <3> QED BY <3>3, <3>7, <3>8, <3>9 DEF all
    <2> HIDE DEF rest
    <2>4. d <=> s.defragTimestamp > c.defragTimestamp
      BY <1>3, <2>1
    <2>5. s.initialTimestamp = r - Len(log)
      <3> DEFINE n == Len(log)
                 i == s.initialTimestamp
      <3>1. n = r - i /\ r \in Nat /\ i \in Nat
        BY <1>1, <2>2
      <3> HIDE DEF n, i
      <3>2. i = r - n
        BY <3>1
      <3> QED BY <3>2 DEF n, i
    <2>6. CASE d
      <3> DEFINE a == DefraggedClient(c, resp)
      <3>1. log = Defrag(c.ops, resp.DefragTimestamp - c.initialTimestamp)
        BY <1>3, <2>4, <2>6 DEF LogAt
      <3>2. /\ a = [NewClient EXCEPT !.initialTimestamp = c.initialTimestamp + (Len(c.ops) - Len(log)),
                                     !.defragTimestamp = s.defragTimestamp, !.ops = log]
        BY <1>3, <3>1 DEF DefraggedClient
      <3>3. c.initialTimestamp + (Len(c.ops) - Len(log)) = s.initialTimestamp
        <4> DEFINE n == Len(c.ops)
                   l == Len(log)
                   i == c.initialTimestamp
        <4>1. n \in Nat /\ i \in Nat /\ r = i + n /\ l \in Nat
          BY <1>1, <2>2 DEF r, NextOf
        <4>2. s.initialTimestamp = r - l
          BY <2>5
        <4> HIDE DEF n, l, i
        <4> QED BY <4>1, <4>2 DEF n, l, i
      <3>4. /\ a \in Clients /\ a.numRows = 0 /\ a.keyToPos = EmptyMap /\ a.ops = log
            /\ a.defragTimestamp = s.defragTimestamp
            /\ a.initialTimestamp = s.initialTimestamp
        <4>1. EmptyMap \in Maps(Nat)
          <5>1. EmptyMap \in [{} -> Nat] /\ {} \in SUBSET Keys
            BY DEF EmptyMap
          <5> QED BY <5>1 DEF Maps
        <4> DEFINE i == s.initialTimestamp
                   t == s.defragTimestamp
        <4>2. i \in Nat /\ t \in Nat /\ log \in Seq(KeyOps)
          BY <1>1, <2>2
        <4>3. a = [NewClient EXCEPT !.initialTimestamp = i, !.defragTimestamp = t, !.ops = log]
          BY <3>2, <3>3
        <4> HIDE DEF log, a, i, t
        <4>4. a = [initialTimestamp |-> i, defragTimestamp |-> t, numRows |-> 0,
                   ops |-> log, keyToPos |-> EmptyMap]
          BY <4>3 DEF NewClient
        <4>5. /\ a \in Clients /\ a.numRows = 0 /\ a.keyToPos = EmptyMap /\ a.ops = log
              /\ a.defragTimestamp = t /\ a.initialTimestamp = i
          BY <4>1, <4>2, <4>4 DEF Clients
        <4> QED BY <4>5 DEF i, t
      <3>5. c1 = a /\ recent = ops
        BY <2>1, <2>6
      <3> HIDE DEF a, c1, recent, log
      <3>6. ops = Keyed(s.ops) /\ recent = Keyed(s.ops)
        BY <2>3, <3>4, <3>5
      <3> HIDE DEF ops, d
      <3>7. Took(new.cli, a, Keyed(s.ops), Keyed(s.ops))
        BY <1>2, <1>5, <3>4, <3>5, <3>6, TakesAll
      <3>8. new.newRows = Cardinality(Adds(Keyed(s.ops))) /\ new.reset
        BY <1>5, <2>6, <3>6
      <3>9. new.reset = TRUE
        BY <1>5, <3>8
      <3> QED BY <3>4, <3>7, <3>8, <3>9, UpdatedFrom
    <2>7. CASE ~d
      <3>1. c1 = c /\ recent = resp.ops
        BY <2>1, <2>7
      <3>2. log = c.ops
        BY <2>4, <2>7 DEF LogAt
      <3>3. c.defragTimestamp = s.defragTimestamp
        BY <1>1, <2>4, <2>7 DEF Fits
      <3>4. c.initialTimestamp = s.initialTimestamp
        <4> DEFINE n == Len(c.ops)
                   i == c.initialTimestamp
        <4>1. n \in Nat /\ i \in Nat /\ r = i + n /\ s.initialTimestamp = r - n
          BY <1>1, <2>5, <3>2 DEF r, NextOf
        <4> HIDE DEF n, i
        <4> QED BY <4>1 DEF n, i
      <3> HIDE DEF c1, recent, log
      <3>5. ops = c.ops \o resp.ops /\ ops = Keyed(s.ops)
        BY <2>3, <3>1, <3>2
      <3> HIDE DEF ops, d
      <3>6. Took(new.cli, c, Keyed(s.ops), resp.ops)
        BY <1>5, <2>3, <3>1, <3>5, TakesMore
      <3>7. new.newRows = Cardinality(Adds(resp.ops)) /\ ~new.reset
        BY <1>5, <1>7, <2>7, <3>1
      <3>8. new.reset = FALSE
        BY <1>5, <3>7
      <3> QED BY <3>3, <3>4, <3>6, <3>7, <3>8, UpdatedFrom
    <2> QED BY <2>6, <2>7
  <1> QED BY <1>6, <1>7

-----------------------------------------------------------------------------
(***************************************************************************)
(* The client against the left server.  The inductive invariant: the       *)
(* client's positions are those of the log it has (ClientOK), its log is   *)
(* the beginning of the left server's up to a defragmentation of its own   *)
(* (Fits), and synced is the map after that beginning (Snapshot).          *)
(***************************************************************************)
ClientInv ==
  /\ ClientOK(cli)
  /\ Fits(cli, srv["Left"])
  /\ Snapshot(cli, srv["Left"], synced)

\* The next operation a client is sent is at most the server's next.
LEMMA NextWithin ==
  ASSUME NEW c \in Clients, NEW s, ServerOK(s, Data), Fits(c, s)
  PROVE  NextOf(c) <= s.initialTimestamp + Len(s.ops)
  <1> DEFINE r == NextOf(c)
             i == s.initialTimestamp
             n == Len(s.ops)
             d == s.defragTimestamp
             l == Len(LogAt(c, s))
  <1>1. /\ r \in Nat /\ i \in Nat /\ n \in Nat /\ d \in Nat /\ d <= i + n
    BY Stamps DEF NextOf
  <1>2. r >= d => l = r - i /\ l <= n
    BY DEF Fits, Begins
  <1> HIDE DEF r, i, n, d, l
  <1>3. r <= i + n
    BY <1>1, <1>2
  <1> QED BY <1>3 DEF r, i, n

\* A client that has just been brought level with a server follows it.
LEMMA UpdatedFollows ==
  ASSUME NEW new, NEW c, NEW s, ServerOK(s, Data), Updated(new, c, s)
  PROVE  Fits(new.cli, s) /\ Snapshot(new.cli, s, s.kv)
  <1> DEFINE u == new.cli
             log == Keyed(s.ops)
             n == Len(s.ops)
  <1>1. /\ u \in Clients /\ u.ops = log /\ u.defragTimestamp = s.defragTimestamp
        /\ \/ u.initialTimestamp = s.initialTimestamp
           \/ u.initialTimestamp = 0 /\ s.ops = <<>> /\ s.defragTimestamp > 0
    BY DEF Updated, ClientOK
  <1>2. /\ u.initialTimestamp \in Nat /\ s.initialTimestamp \in Nat
        /\ s.defragTimestamp \in Nat /\ n \in Nat /\ s.ops \in Seq(Op(Data))
        /\ s.initialTimestamp <= s.defragTimestamp
    BY <1>1, Stamps
  <1>3. Len(log) = n /\ Begins(log, s.ops)
    <2>1. Len(log) = n /\ \A j \in 1..n : log[j] = KeyOf(s.ops[j])
      BY <1>2, KeyedType
    <2> QED BY <1>2, <2>1 DEF Begins
  <1> HIDE DEF u, log
  <1>4. LogAt(u, s) = log
    BY <1>1, <1>2 DEF LogAt
  <1>5. Fits(u, s)
    <2> DEFINE i == s.initialTimestamp
               d == s.defragTimestamp
               j == u.initialTimestamp
    <2>1. NextOf(u) = j + n
      BY <1>1, <1>3 DEF NextOf
    <2>2. CASE j = i
      <3>1. j + n - i = n
        BY <1>2, <2>2
      <3> QED BY <1>1, <1>2, <1>3, <1>4, <2>1, <2>2, <3>1 DEF Fits
    <2>3. CASE j = 0 /\ s.ops = <<>> /\ d > 0
      <3>1. n = 0
        BY <2>3
      <3>2. ~(j + n >= d) /\ j <= d
        BY <1>2, <2>3, <3>1
      <3> QED BY <1>1, <1>2, <2>1, <3>2 DEF Fits
    <2> QED BY <1>1, <2>2, <2>3
  <1>6. Snapshot(u, s, s.kv)
    <2>1. SubSeq(s.ops, 1, Len(u.ops)) = s.ops
      BY <1>1, <1>2, <1>3, SubSeqFull
    <2>2. s.kv = Replayed(EmptyMap, s.ops)
      BY DEF ServerOK
    <2> QED BY <1>1, <1>3, <2>1, <2>2 DEF Snapshot
  <1> QED BY <1>5, <1>6 DEF u

LEMMA ClientInit == Init => ClientInv
  <1> SUFFICES ASSUME Init PROVE ClientInv
    OBVIOUS
  <1> DEFINE c == NewClient
             s == srv["Left"]
  <1>1. s = NewUpdatableServer /\ cli = c /\ synced = EmptyMap
    BY DEF Init, Sides
  <1>2. /\ s.ops = <<>> /\ s.initialTimestamp = 0 /\ s.defragTimestamp = 0
        /\ c.ops = <<>> /\ c.initialTimestamp = 0 /\ c.defragTimestamp = 0
        /\ c.keyToPos = EmptyMap /\ c.numRows = 0
    BY <1>1 DEF NewUpdatableServer, NewClient
  <1>3. c \in Clients
    <2>1. EmptyMap \in [{} -> Nat] /\ {} \in SUBSET Keys
      BY DEF EmptyMap
    <2>2. EmptyMap \in Maps(Nat)
      BY <2>1 DEF Maps
    <2> QED BY <2>2 DEF NewClient, Clients
  <1>4. EmptyMap = Replayed(EmptyMap, <<>>)
    <2>1. EmptyMap = [k \in DOMAIN EmptyMap |-> EmptyMap[k]]
      BY DEF EmptyMap
    <2> QED BY <2>1, ReplayedNothing
  <1>5. Positioned(0, <<>>) = <<>>
    BY DEF Positioned
  <1>6. Cardinality(Adds(<<>>)) = 0
    BY FS_EmptySet DEF Adds
  <1> HIDE DEF c, s
  <1>7. ClientOK(c)
    BY <1>2, <1>3, <1>4, <1>5, <1>6 DEF ClientOK
  <1>8. Begins(<<>>, <<>>) /\ SubSeq(<<>>, 1, 0) = <<>> /\ Len(<<>>) = 0
    BY DEF Begins
  <1>9. NextOf(c) = 0 /\ LogAt(c, s) = <<>>
    BY <1>2 DEF NextOf, LogAt
  <1>10. Fits(c, s)
    BY <1>2, <1>8, <1>9 DEF Fits
  <1>11. Snapshot(c, s, EmptyMap)
    BY <1>2, <1>4, <1>8 DEF Snapshot
  <1> QED BY <1>1, <1>7, <1>10, <1>11 DEF ClientInv, s

\* A write does not disturb a client that follows the server.
LEMMA ClientFollows ==
  ASSUME ServersInv, ServersInv', ServersNext, ClientInv,
         cli' = cli, synced' = synced
  PROVE  ClientInv'
  <1> DEFINE s == srv["Left"]
             t == srv'["Left"]
  <1>1. "Left" \in Sides
    BY DEF Sides
  <1>2. ServerOK(s, Data) /\ ServerOK(t, Data) /\ (t = s \/ Written(s, t, Size("Left")))
    BY <1>1 DEF ServersInv, ServersOK, ServersNext
  <1>3. cli \in Clients /\ ClientOK(cli) /\ Fits(cli, s) /\ Snapshot(cli, s, synced)
    BY DEF ClientInv, ClientOK
  <1> HIDE DEF s, t
  <1>4. CASE Written(s, t, Size("Left"))
    <2>1. PICK more \in Seq(Op(Data)) : Grows(s, t, more)
      BY <1>4 DEF Written
    <2>2. Fits(cli, t)
      BY <1>2, <1>3, <2>1, FitsFollows
    <2>3. Extends(s, t) /\ cli.defragTimestamp <= s.defragTimestamp
      BY <1>3, <1>4 DEF Written, Fits
    <2>4. Snapshot(cli, t, synced)
      BY <1>2, <1>3, <2>3, SnapshotFollows
    <2> QED BY <1>3, <2>2, <2>4 DEF ClientInv, t
  <1>5. CASE t = s
    BY <1>3, <1>5 DEF ClientInv, t
  <1> QED BY <1>2, <1>4, <1>5

\* What KeyUpdates brings.
LEMMA UpdateKeysOK ==
  ASSUME ServersInv, ClientInv, UpdateKeys
  PROVE  /\ ClientInv'
         /\ \E new : /\ Updated(new, cli, srv["Left"]) /\ cli' = new.cli
                     /\ wf' = IF new.newRows = 0 THEN WaterfallAfter(new.reset)
                              ELSE updateLayers(WaterfallAfter(new.reset), new.newRows)
                     /\ phase' = "hinting" => new.newRows # 0
  <1> DEFINE s == srv["Left"]
             new == processKeyUpdate(cli, KeyUpdates(s, nextTimestamp))
  <1>1. /\ cli' = new.cli /\ synced' = s.kv /\ srv' = srv
        /\ wf' = IF new.newRows = 0 THEN WaterfallAfter(new.reset)
                 ELSE updateLayers(WaterfallAfter(new.reset), new.newRows)
        /\ phase' = "hinting" => new.newRows # 0
    BY DEF UpdateKeys
  <1>2. ServerOK(s, Data) /\ ClientOK(cli) /\ cli \in Clients /\ Fits(cli, s)
    BY DEF ServersInv, ServersOK, ClientInv, ClientOK, Sides
  <1>3. nextTimestamp = NextOf(cli)
    BY DEF nextTimestamp, NextOf
  <1>4. NextOf(cli) <= s.initialTimestamp + Len(s.ops)
    BY <1>2, NextWithin
  <1> HIDE DEF s
  <1>5. Updated(new, cli, s)
    BY <1>2, <1>3, <1>4, KeyUpdateOK
  <1> HIDE DEF new
  <1>6. Fits(new.cli, s) /\ Snapshot(new.cli, s, s.kv) /\ ClientOK(new.cli)
    BY <1>2, <1>5, UpdatedFollows DEF Updated
  <1>7. srv'["Left"] = s
    BY <1>1 DEF s
  <1>8. ClientInv'
    BY <1>1, <1>6, <1>7 DEF ClientInv
  <1> QED BY <1>1, <1>5, <1>8 DEF s

\* The client's log changes in UpdateKeys only.
LEMMA ClientKept ==
  ASSUME [Next]_vars, ~UpdateKeys
  PROVE  cli' = cli /\ synced' = synced
  <1>1. ASSUME NEW write, WriteLeft(write) PROVE cli' = cli /\ synced' = synced
    BY <1>1 DEF WriteLeft, cliVars
  <1>2. AddLeft \/ DeleteLeft => cli' = cli /\ synced' = synced
    BY <1>1 DEF AddLeft, DeleteLeft
  <1>3. WriteRight => cli' = cli /\ synced' = synced
    BY DEF WriteRight, cliVars
  <1>4. Hint \/ HintPanics \/ HintFails => cli' = cli /\ synced' = synced
    BY DEF Hint, HintPanics, HintFails, Panic, cliVars
  <1>5. ASSUME NEW key, Read(key) PROVE cli' = cli /\ synced' = synced
    BY <1>5 DEF Read, cliVars
  <1>6. ASSUME NEW side, Answer(side) \/ AnswerPanics(side) \/ AnswerFails(side)
        PROVE  cli' = cli /\ synced' = synced
    BY <1>6 DEF Answer, AnswerPanics, AnswerFails, Panic, cliVars
  <1>7. ReadReturns \/ ReconstructPanics => cli' = cli /\ synced' = synced
    BY DEF ReadReturns, ReconstructPanics, Panic, cliVars
  <1>8. UNCHANGED vars => cli' = cli /\ synced' = synced
    BY DEF vars, cliVars
  <1> QED BY <1>2, <1>3, <1>4, <1>5, <1>6, <1>7, <1>8 DEF Next, Writes, Updates, Reads

\* The servers with a client that follows them.
Following == ServersInv /\ ClientInv

\* It is inductive.
LEMMA FollowingStep ==
  ASSUME Following, [Next]_vars
  PROVE  Following' /\ ServersNext
  <1>1. ServersInv' /\ ServersNext
    BY ServersStep DEF Following
  <1>2. CASE UpdateKeys
    BY <1>1, <1>2, UpdateKeysOK DEF Following
  <1>3. CASE ~UpdateKeys
    BY <1>1, <1>3, ClientKept, ClientFollows DEF Following
  <1> QED BY <1>1, <1>2, <1>3

LEMMA FollowingAlways == Spec => []Following
  <1>1. Init => Following
    BY ServersInit, ClientInit DEF Following
  <1>2. Following /\ [Next]_vars => Following'
    BY FollowingStep
  <1> QED BY <1>1, <1>2, PTL DEF Spec

\* One defragmentation of the client's log gives the beginning of the server's,
\* however many it has missed (KeyUpdates, processKeyUpdate).
THEOREM ClientLogIsPrefixAlways == Spec => []ClientLogIsPrefix
  <1>1. Following => ClientLogIsPrefix
    <2> SUFFICES ASSUME Following PROVE ClientLogIsPrefix
      OBVIOUS
    <2>1. Fits(cli, Left)
      BY DEF Following, ClientInv, Left
    <2>2. NextOf(cli) = nextTimestamp
      BY DEF NextOf, nextTimestamp
    <2> QED BY <2>1, <2>2 DEF ClientLogIsPrefix, Fits, LogAt, Begins
  <1> QED BY FollowingAlways, <1>1, PTL

\* The client's positions point at the rows its keys had at its last update,
\* as long as the left server has not defragmented since (updatePositionMap).
LEMMA PositionsAre ==
  ASSUME Following, srv["Left"].defragTimestamp = cli.defragTimestamp
  PROVE  /\ DOMAIN cli.keyToPos = DOMAIN synced
         /\ \A k \in DOMAIN synced :
              /\ cli.keyToPos[k] \in 0..(cli.numRows - 1)
              /\ srv["Left"].flatDb[cli.keyToPos[k] + 1] = synced[k]
  <1> DEFINE s == srv["Left"]
             all == s.ops
             log == cli.ops
             X == Op(Data)
  <1>1. /\ ServerOK(s, Data) /\ cli \in Clients
        /\ cli.keyToPos = Replayed(EmptyMap, Positioned(0, log))
        /\ cli.numRows = Cardinality(Adds(log))
        /\ Begins(log, all) /\ synced = Replayed(EmptyMap, SubSeq(all, 1, Len(log)))
    BY DEF Following, ServersInv, ServersOK, ClientInv, ClientOK, Snapshot, Sides
  <1>2. log \in Seq(KeyOps) /\ all \in Seq(X) /\ s.flatDb = opsToRows(all)
    BY <1>1, Stamps DEF ServerOK
  <1> HIDE DEF s, all, log, X
  <1>3. PICK old \in Seq(X), new \in Seq(X) : Splits(old, new, log, all)
    BY <1>1, <1>2, BeginsSplit
  <1>4. log = Keyed(old) /\ all = old \o new /\ synced = Replayed(EmptyMap, old)
    BY <1>1, <1>3 DEF Splits
  <1> DEFINE pos == Replayed(EmptyMap, Positioned(0, Keyed(old)))
             kv == Replayed(EmptyMap, old)
             n == Cardinality(Adds(old))
  <1>5. /\ DOMAIN pos = DOMAIN kv
        /\ \A k \in DOMAIN pos : /\ pos[k] \in 0..(n - 1)
                                 /\ opsToRows(old \o new)[pos[k] + 1] = kv[k]
    BY PositionsMatch DEF X
  <1>6. Cardinality(Adds(log)) = n
    <2>1. Len(log) = Len(old) /\ \A i \in 1..Len(old) : log[i].Delete = old[i].Delete
      BY <1>4, KeyedType
    <2>2. Adds(log) = Adds(old)
      BY <2>1 DEF Adds
    <2> QED BY <2>2
  <1> QED BY <1>1, <1>2, <1>4, <1>5, <1>6 DEF s

\* For all keys, writes and defragmentations.
THEOREM PositionsRightAlways == Spec => []PositionsRight
  <1>1. Following => PositionsRight
    BY PositionsAre DEF PositionsRight, Left
  <1> QED BY FollowingAlways, <1>1, PTL

\* A position is one of a row, whatever the servers have done since.
LEMMA PositionsInRange ==
  ASSUME NEW c, ClientOK(c), NEW k \in DOMAIN c.keyToPos
  PROVE  c.keyToPos[k] \in 0..(c.numRows - 1)
  <1> DEFINE log == c.ops
             old == [i \in 1..Len(log) |-> [Key |-> log[i].Key, Delete |-> log[i].Delete,
                                            data |-> NoRow]]
             X == Op(Data)
  <1>1. /\ c \in Clients /\ c.keyToPos = Replayed(EmptyMap, Positioned(0, log))
        /\ c.numRows = Cardinality(Adds(log)) /\ log \in Seq(KeyOps)
    BY DEF ClientOK, Clients
  <1> HIDE DEF log
  <1>2. Len(log) \in Nat /\ \A i \in 1..Len(log) : log[i] \in KeyOps
    BY <1>1, ElementOfSeq
  <1>3. \A i \in 1..Len(log) : old[i] \in X /\ log[i] = KeyOf(old[i])
                                /\ old[i].Delete = log[i].Delete
    BY <1>2 DEF KeyOps, Op, KeyOf, Data
  <1>4. old \in Seq(X) /\ Len(old) = Len(log)
    BY <1>2, <1>3
  <1> HIDE DEF old, X
  <1>5. log = Keyed(old)
    <2>1. log = [i \in 1..Len(log) |-> log[i]]
      BY <1>1
    <2> QED BY <1>3, <1>4, <2>1 DEF Keyed
  <1>6. Adds(log) = Adds(old)
    BY <1>3, <1>4 DEF Adds
  <1>7. \A i \in DOMAIN Replayed(EmptyMap, Positioned(0, Keyed(old))) :
          Replayed(EmptyMap, Positioned(0, Keyed(old)))[i] \in 0..(Cardinality(Adds(old)) - 1)
    BY <1>4, PositionsMatch DEF X
  <1> QED BY <1>1, <1>5, <1>6, <1>7

-----------------------------------------------------------------------------
\* Where the client may be, and that it has no result while it is in a call.
CallTyped ==
  /\ phase \in {"idle", "hinting", "reading", "panicked"}
  /\ updated \in BOOLEAN
  /\ phase # "idle" => result.key = -1

LEMMA CallTypedInit == Init => CallTyped
  BY DEF Init, CallTyped

LEMMA CallTypedStep ==
  ASSUME CallTyped, [Next]_vars
  PROVE  CallTyped'
  <1>1. ASSUME NEW write, WriteLeft(write) PROVE CallTyped'
    BY <1>1 DEF WriteLeft, cliVars, readVars, CallTyped
  <1>2. AddLeft \/ DeleteLeft => CallTyped'
    BY <1>1 DEF AddLeft, DeleteLeft
  <1>3. WriteRight => CallTyped'
    BY DEF WriteRight, cliVars, readVars, CallTyped
  <1>4. UpdateKeys => CallTyped'
    BY DEF UpdateKeys, NoResult, CallTyped
  <1>5. Hint => CallTyped'
    BY DEF Hint, readVars, CallTyped
  <1>6. HintFails => CallTyped'
    BY DEF HintFails, readVars, cliVars, CallTyped
  <1>7. ASSUME phase # "idle", Panic PROVE CallTyped'
    BY <1>7 DEF Panic, readVars, cliVars, CallTyped
  <1>8. HintPanics => CallTyped'
    BY <1>7 DEF HintPanics
  <1>9. ASSUME NEW key, Read(key) PROVE CallTyped'
    BY <1>9 DEF Read, cliVars, NoResult, CallTyped
  <1>10. ASSUME NEW side, Answer(side) \/ AnswerFails(side) PROVE CallTyped'
    BY <1>10 DEF Answer, AnswerFails, cliVars, CallTyped
  <1>11. ASSUME NEW side, AnswerPanics(side) PROVE CallTyped'
    BY <1>7, <1>11 DEF AnswerPanics, Awaits
  <1>12. ReadReturns => CallTyped'
    BY DEF ReadReturns, cliVars, CallTyped
  <1>13. ReconstructPanics => CallTyped'
    BY <1>7 DEF ReconstructPanics, Answered
  <1>14. UNCHANGED vars => CallTyped'
    BY DEF vars, readVars, cliVars, CallTyped
  <1>15. Writes => CallTyped'
    BY <1>2, <1>3 DEF Writes
  <1>16. Updates => CallTyped'
    BY <1>4, <1>5, <1>6, <1>8 DEF Updates
  <1>17. Reads => CallTyped'
    BY <1>9, <1>10, <1>11, <1>12, <1>13 DEF Reads
  <1> QED BY <1>14, <1>15, <1>16, <1>17 DEF Next

\* The right server is never ahead of the left one.
LEMMA TimesWithin ==
  ASSUME ServersInv, NEW s \in Sides
  PROVE  /\ srv[s].initialTimestamp \in 0..MaxTime /\ srv[s].defragTimestamp \in 0..MaxTime
  <1> DEFINE l == srv["Left"]
             r == srv["Right"]
  <1>1. /\ ServerOK(l, Data) /\ ServerOK(r, Data) /\ ServerTimestamp(l) <= MaxTime
        /\ MaxTime \in Nat /\ (s = "Left" \/ s = "Right")
    BY UpdatableAssumption DEF ServersInv, ServersOK, Sides
  <1>2. ServerTimestamp(r) <= ServerTimestamp(l) /\ ServerTimestamp(r) \in Nat
    <2>1. ServerTimestamp(r) \in Nat
      <3>1. r.initialTimestamp \in Nat /\ Len(r.ops) \in Nat
        BY <1>1 DEF ServerOK, Servers
      <3> QED BY <3>1 DEF ServerTimestamp
    <2>2. CASE todo.pending
      <3>1. l = Applied(r, todo)
            /\ todo \in [add : {TRUE}, rows : Seq(Op(Data)), pending : BOOLEAN]
                          \cup [add : {FALSE}, rows : Seq(Keys), pending : BOOLEAN]
        BY <2>2 DEF ServersInv, TodoOK
      <3>3. IsWrite(todo)
        BY <3>1 DEF IsWrite
      <3>4. Len(todo.rows) \in Nat
        BY <3>3 DEF IsWrite
      <3>2. ServerTimestamp(l) = ServerTimestamp(r) + Len(todo.rows)
        BY <1>1, <3>1, <3>3, AppliedOK
      <3> QED BY <2>1, <3>2, <3>4
    <2>3. CASE ~todo.pending
      <3>1. l = r
        BY <2>3 DEF ServersInv, TodoOK
      <3> QED BY <2>1, <3>1
    <2> QED BY <2>2, <2>3
  <1>3. ASSUME NEW t, ServerOK(t, Data), ServerTimestamp(t) <= MaxTime
        PROVE  t.initialTimestamp \in 0..MaxTime /\ t.defragTimestamp \in 0..MaxTime
    <2> DEFINE i == t.initialTimestamp
               d == t.defragTimestamp
               n == Len(t.ops)
    <2>1. NewClient \in Clients
      <3>1. EmptyMap \in [{} -> Nat] /\ {} \in SUBSET Keys
        BY DEF EmptyMap
      <3>2. EmptyMap \in Maps(Nat)
        BY <3>1 DEF Maps
      <3> QED BY <3>2 DEF NewClient, Clients
    <2>2. i \in Nat /\ d \in Nat /\ n \in Nat /\ i <= d /\ d <= i + n
      BY <1>3, <2>1, Stamps
    <2>3. i + n <= MaxTime
      BY <1>3 DEF ServerTimestamp
    <2> HIDE DEF i, d, n
    <2>4. i \in 0..MaxTime /\ d \in 0..MaxTime
      BY <1>1, <2>2, <2>3
    <2> QED BY <2>4 DEF i, d
  <1> HIDE DEF l, r
  <1>4. ServerTimestamp(r) <= MaxTime
    <2>1. ServerTimestamp(l) \in Int
      <3>1. l.initialTimestamp \in Nat /\ Len(l.ops) \in Nat
        BY <1>1 DEF ServerOK, Servers
      <3> QED BY <3>1 DEF ServerTimestamp
    <2> QED BY <1>1, <1>2, <2>1
  <1>5. l.initialTimestamp \in 0..MaxTime /\ l.defragTimestamp \in 0..MaxTime
        /\ r.initialTimestamp \in 0..MaxTime /\ r.defragTimestamp \in 0..MaxTime
    BY <1>1, <1>3, <1>4
  <1> QED BY <1>1, <1>5 DEF l, r

-----------------------------------------------------------------------------
(***************************************************************************)
(* The waterfall against the left server's rows.  The inductive invariant: *)
(* the filled layers tile the client's rows (Tiled), their hints are about *)
(* those rows (HintsFit), and a hint is awaited by a layer with rows.      *)
(***************************************************************************)
AwaitsHint(w) ==
  LET i == LastFilled(w.layers)
  IN  i \in 1..Len(w.layers) /\ w.layers[i].numRows # 0

\* The layers tile the rows the client knows, and their hints fit.
WaterInv ==
  /\ Tiled(wf, Stored)
  /\ wf.numRows = cli.numRows
  /\ HintsFit
  /\ phase = "hinting" => AwaitsHint(wf)

\* HintsFit of a waterfall and the server with its rows.
HintsOf(w, s) ==
  \A i \in 1..Len(w.layers) : LET l == w.layers[i] IN
    l.pir /\ l.pirType \in HintSchemes =>
      l.hint = Slice(s, l.firstRow, l.firstRow + l.numRows)

LEMMA SliceType ==
  ASSUME NEW s, s.flatDb \in Seq(Data), NEW first \in Nat, NEW n \in Nat
  PROVE  /\ Slice(s, first, first + n) \in Seq(Stored)
         /\ Len(Slice(s, first, first + n)) = n
  <1> DEFINE db == s.flatDb
             e(i) == IF first + i <= Len(db) THEN db[first + i] ELSE Garbage
  <1>1. first + n - first = n
    OBVIOUS
  <1>2. Slice(s, first, first + n) = [i \in 1..n |-> e(i)]
    BY <1>1 DEF Slice
  <1>3. ASSUME NEW i \in 1..n PROVE e(i) \in Stored
    <2> HIDE DEF db
    <2>1. db \in Seq(Data) /\ Len(db) \in Nat
      BY DEF db
    <2>2. ASSUME first + i <= Len(db) PROVE db[first + i] \in Data
      <3>1. first + i \in 1..Len(db)
        BY <2>1, <2>2
      <3> QED BY <2>1, <3>1, ElementOfSeq
    <2> QED BY <2>2 DEF Stored
  <1> HIDE DEF e
  <1>4. [i \in 1..n |-> e(i)] \in Seq(Stored) /\ Len([i \in 1..n |-> e(i)]) = n
    BY <1>3
  <1> QED BY <1>2, <1>4

\* The rows of s are the first of t.
HasRows(t, s) ==
  s.flatDb \in Seq(Data) /\ \E more \in Seq(Data) : t.flatDb = s.flatDb \o more

\* Rows that are there stay where they are while a server does not
\* defragment.
LEMMA SliceStays ==
  ASSUME NEW s, NEW t, HasRows(t, s),
         NEW first \in Nat, NEW last \in Nat, last <= Len(s.flatDb)
  PROVE  Slice(t, first, last) = Slice(s, first, last)
  <1> PICK more \in Seq(Data) : s.flatDb \in Seq(Data) /\ t.flatDb = s.flatDb \o more
    BY DEF HasRows
  <1> DEFINE a == s.flatDb
             b == t.flatDb
  <1>1. a \in Seq(Data) /\ Len(a) \in Nat /\ Len(more) \in Nat
    OBVIOUS
  <1>2. /\ Len(a \o more) = Len(a) + Len(more)
        /\ \A i \in 1..(Len(a) + Len(more)) :
             (a \o more)[i] = IF i <= Len(a) THEN a[i] ELSE more[i - Len(a)]
    BY <1>1, ConcatProperties
  <1>3. b = a \o more
    OBVIOUS
  <1> HIDE DEF a, b
  <1>4. Len(b) = Len(a) + Len(more) /\ \A i \in 1..Len(a) : b[i] = a[i]
    <2>1. \A i \in 1..Len(a) : i \in 1..(Len(a) + Len(more)) /\ i <= Len(a)
      BY <1>1
    <2> QED BY <1>2, <1>3, <2>1
  <1>5. last <= Len(a)
    BY DEF a
  <1>6. \A i \in 1..(last - first) : /\ first + i \in 1..Len(a)
                                     /\ first + i <= Len(a) /\ first + i <= Len(b)
    BY <1>1, <1>4, <1>5
  <1>7. \A i \in 1..(last - first) :
          (IF first + i <= Len(b) THEN b[first + i] ELSE Garbage)
            = (IF first + i <= Len(a) THEN a[first + i] ELSE Garbage)
    BY <1>4, <1>6
  <1> QED BY <1>7 DEF Slice, a, b

\* A filled layer lies within the rows of the waterfall.
LEMMA LayerWithin ==
  ASSUME NEW w, Tiled(w, Stored), NEW i \in 1..Len(w.layers), w.layers[i].numRows # 0
  PROVE  LET l == w.layers[i]
         IN  /\ l.firstRow \in Nat /\ l.numRows \in Nat /\ w.numRows \in Nat
             /\ l.firstRow + l.numRows <= w.numRows
  <1> DEFINE l == w.layers[i]
             first == l.firstRow
             n == l.numRows
             len == Len(w.layers)
             before == RowsIn(w.layers, 1, i - 1)
             upto == RowsIn(w.layers, 1, i)
             after == RowsIn(w.layers, i + 1, len)
             all == w.numRows
  <1>1. /\ w.layers \in Seq(Layer(Stored)) /\ all \in Nat
        /\ all = RowsIn(w.layers, 1, len) /\ first = before
    BY DEF Tiled
  <1>2. len \in Nat /\ Rowed(w.layers, 1, len) /\ l \in Layer(Stored)
    BY <1>1, LayersTyped
  <1>3. /\ before \in Nat /\ upto = before + n /\ RowsIn(w.layers, 1, len) = upto + after
        /\ after \in Nat /\ n \in Nat
    <2> HIDE DEF len
    <2> QED BY <1>2, RowsInWithin DEF len
  <1> HIDE DEF first, n, before, upto, after, all
  <1>4. first \in Nat /\ n \in Nat /\ all \in Nat /\ first + n <= all
    BY <1>1, <1>3
  <1> QED BY <1>4 DEF first, n, all

\* The left server still has the rows a client knows of, unless it has
\* defragmented since.
LEMMA RowsThere ==
  ASSUME Following, srv["Left"].defragTimestamp = cli.defragTimestamp
  PROVE  cli.numRows <= Len(srv["Left"].flatDb)
  <1> DEFINE s == srv["Left"]
             all == s.ops
             log == cli.ops
             X == Op(Data)
  <1>1. /\ ServerOK(s, Data) /\ cli \in Clients
        /\ cli.numRows = Cardinality(Adds(log)) /\ Begins(log, all)
    BY DEF Following, ServersInv, ServersOK, ClientInv, ClientOK, Snapshot, Sides
  <1>2. log \in Seq(KeyOps) /\ all \in Seq(X) /\ s.flatDb = opsToRows(all)
    BY <1>1, Stamps DEF ServerOK
  <1> HIDE DEF s, all, log
  <1>3. PICK old \in Seq(X), new \in Seq(X) : Splits(old, new, log, all)
    BY <1>1, <1>2, BeginsSplit
  <1>4. log = Keyed(old) /\ all = old \o new
    BY <1>3 DEF Splits
  <1>5. Adds(log) = Adds(old)
    <2>1. Len(log) = Len(old) /\ \A i \in 1..Len(old) : log[i].Delete = old[i].Delete
      BY <1>4, KeyedType
    <2> QED BY <2>1 DEF Adds
  <1>6. \A op \in X : op.data \in Data
    BY DEF Op, X
  <1> HIDE DEF X
  <1> DEFINE a == opsToRows(old)
             b == opsToRows(new)
             n == Cardinality(Adds(old))
  <1>7. a \in Seq(Data) /\ b \in Seq(Data) /\ Len(a) = n
    BY <1>6, RowsType
  <1>8. opsToRows(all) = a \o b
    BY <1>4, <1>6, RowsConcat
  <1> HIDE DEF a, b, n
  <1>9. Len(a \o b) = Len(a) + Len(b) /\ Len(a) \in Nat /\ Len(b) \in Nat
    <2>1. Len(a \o b) = Len(a) + Len(b)
      BY <1>7, ConcatProperties
    <2> QED BY <1>7, <2>1
  <1>10. n <= Len(a \o b)
    BY <1>7, <1>9
  <1> QED BY <1>1, <1>2, <1>5, <1>8, <1>10 DEF n, s

\* The hints stay right while the server only appends.
LEMMA HintsStay ==
  ASSUME NEW w, Tiled(w, Stored), NEW s, s.flatDb \in Seq(Data), NEW t,
         NEW more \in Seq(Data), t.flatDb = s.flatDb \o more,
         w.numRows <= Len(s.flatDb), HintsOf(w, s)
  PROVE  HintsOf(w, t)
  <1> SUFFICES ASSUME NEW i \in 1..Len(w.layers), w.layers[i].pir,
                      w.layers[i].pirType \in HintSchemes
               PROVE  w.layers[i].hint
                        = Slice(t, w.layers[i].firstRow,
                                w.layers[i].firstRow + w.layers[i].numRows)
    BY DEF HintsOf
  <1> DEFINE first == w.layers[i].firstRow
             n == w.layers[i].numRows
  <1>1. w.layers[i].numRows # 0
    BY DEF Tiled
  <1>2. first \in Nat /\ n \in Nat /\ w.numRows \in Nat /\ first + n <= w.numRows
    BY <1>1, LayerWithin
  <1>3. w.layers[i].hint = Slice(s, first, first + n)
    BY DEF HintsOf
  <1> HIDE DEF first, n
  <1>4. first + n \in Nat /\ first + n <= Len(s.flatDb)
    <2>1. Len(s.flatDb) \in Nat
      OBVIOUS
    <2> QED BY <1>2, <2>1
  <1>5. Slice(t, first, first + n) = Slice(s, first, first + n)
    <2> DEFINE last == first + n
    <2>0. HasRows(t, s)
      BY DEF HasRows
    <2>1. last \in Nat /\ last <= Len(s.flatDb) /\ first \in Nat
      BY <1>2, <1>4
    <2> HIDE DEF last
    <2>2. Slice(t, first, last) = Slice(s, first, last)
      BY <2>0, <2>1, SliceStays
    <2> QED BY <2>2 DEF last
  <1> QED BY <1>3, <1>5 DEF first, n

\* The hints of the client's waterfall after a step that leaves the client
\* alone.
LEMMA HintsFollow ==
  ASSUME Following, Following', ServersNext, WaterInv, cli' = cli, wf' = wf
  PROVE  HintsFit'
  <1> DEFINE s == srv["Left"]
             t == srv'["Left"]
  <1> SUFFICES ASSUME t.defragTimestamp = cli.defragTimestamp PROVE HintsOf(wf, t)
    BY DEF HintsFit, HintsOf, Left
  <1>1. /\ "Left" \in Sides /\ ServerOK(s, Data) /\ ServerOK(t, Data)
        /\ (t = s \/ Written(s, t, Size("Left")))
        /\ Fits(cli, s) /\ cli \in Clients
        /\ Tiled(wf, Stored) /\ wf.numRows = cli.numRows
    BY DEF Sides, Following, ServersInv, ServersOK, ServersNext, ClientInv, ClientOK, WaterInv
  <1>2. s.defragTimestamp = cli.defragTimestamp
    <2>1. s.defragTimestamp \in Nat /\ cli.defragTimestamp \in Nat
      BY <1>1, Stamps
    <2>2. cli.defragTimestamp <= s.defragTimestamp
      BY <1>1 DEF Fits
    <2>3. t = s \/ t.defragTimestamp >= s.defragTimestamp
      BY <1>1 DEF Written, Extends
    <2> QED BY <2>1, <2>2, <2>3
  <1>3. HintsOf(wf, s)
    BY <1>2 DEF WaterInv, HintsFit, HintsOf, Left
  <1>4. CASE Written(s, t, Size("Left"))
    <2> HIDE DEF s, t
    <2>1. t.defragTimestamp = s.defragTimestamp
      BY <1>2 DEF t
    <2>2. PICK more \in Seq(Data) : t.flatDb = s.flatDb \o more
      BY <1>4, <2>1 DEF Written, Extends
    <2>3. s.flatDb \in Seq(Data)
      BY <1>1 DEF ServerOK, Servers
    <2>4. wf.numRows <= Len(s.flatDb)
      BY <1>1, <1>2, RowsThere DEF s
    <2> QED BY <1>1, <1>3, <2>2, <2>3, <2>4, HintsStay
  <1> QED BY <1>1, <1>3, <1>4

\* The layers after KeyUpdates: the new one has no hint yet, the others keep
\* theirs, or all of them begin again.
LEMMA WaterKeysOK ==
  ASSUME Following, Following', WaterInv, UpdateKeys
  PROVE  WaterInv'
  <1> DEFINE s == srv["Left"]
  <1>0. /\ ServersInv /\ ClientInv
    BY DEF Following
  <1>1. PICK new : /\ Updated(new, cli, s) /\ cli' = new.cli
                   /\ wf' = IF new.newRows = 0 THEN WaterfallAfter(new.reset)
                            ELSE updateLayers(WaterfallAfter(new.reset), new.newRows)
                   /\ phase' = "hinting" => new.newRows # 0
    BY <1>0, UpdateKeysOK
  <1> DEFINE w == WaterfallAfter(new.reset)
             n == new.newRows
  <1>2. /\ Tiled(wf, Stored) /\ wf.numRows = cli.numRows /\ cli.numRows \in Nat
    BY <1>0 DEF WaterInv, ClientInv, ClientOK, Clients
  <1>3. srv' = srv
    BY DEF UpdateKeys
  <1>4. /\ n \in Nat /\ new.reset \in BOOLEAN
        /\ new.cli.defragTimestamp = s.defragTimestamp /\ new.cli.numRows \in Nat
        /\ new.reset => n = new.cli.numRows
        /\ ~new.reset => cli.defragTimestamp = s.defragTimestamp
                         /\ new.cli.numRows = cli.numRows + n
    BY <1>1 DEF Updated, ClientOK, Clients
  <1>5. new.reset => w = NewWaterfallClient
    BY DEF WaterfallAfter
  <1>6. ~new.reset => w = wf
    BY DEF WaterfallAfter
  <1> HIDE DEF w
  <1>7. Tiled(w, Stored) /\ w.numRows + n = new.cli.numRows
    <2>1. CASE new.reset
      <3>1. NewWaterfallClient.numRows = 0
        BY DEF NewWaterfallClient
      <3> QED BY <1>4, <1>5, <2>1, <3>1, NewTiled
    <2>2. CASE ~new.reset
      BY <1>2, <1>4, <1>6, <2>2
    <2> QED BY <1>4, <2>1, <2>2
  <1>8. HintsOf(w, s)
    <2>1. CASE new.reset
      <3>1. Len(NewWaterfallClient.layers) = 0
        BY DEF NewWaterfallClient
      <3> QED BY <1>5, <2>1, <3>1 DEF HintsOf
    <2>2. CASE ~new.reset
      BY <1>4, <1>6, <2>2 DEF WaterInv, HintsFit, HintsOf, Left
    <2> QED BY <1>4, <2>1, <2>2
  <1>9. CASE n = 0
    <2>1. wf' = w /\ phase' # "hinting"
      BY <1>1, <1>9 DEF w
    <2>2. w.numRows = new.cli.numRows
      <3>1. w.numRows \in Nat
        BY <1>7 DEF Tiled
      <3> QED BY <1>4, <1>7, <1>9, <3>1
    <2> QED BY <1>1, <1>3, <1>7, <1>8, <2>1, <2>2 DEF WaterInv, HintsFit, HintsOf, Left
  <1>10. CASE n # 0
    <2> DEFINE u == updateLayers(w, n)
               i == LastFilled(u.layers)
    <2>1. wf' = u
      BY <1>1, <1>10 DEF w
    <2> HIDE DEF n
    <2>2. /\ Tiled(u, Stored) /\ u.numRows = w.numRows + n
          /\ i \in 1..Len(u.layers) /\ u.layers[i].numRows # 0
          /\ u.layers[i].pir <=> u.layers[i].pirType \notin HintSchemes
          /\ \A j \in 1..Len(u.layers) : j # i /\ u.layers[j].numRows # 0 =>
               j \in 1..Len(w.layers) /\ u.layers[j] = w.layers[j]
      BY <1>4, <1>7, <1>10, UpdateLayersOK
    <2>3. AwaitsHint(u)
      BY <2>2 DEF AwaitsHint
    <2> HIDE DEF u, i
    <2>4. HintsOf(u, s)
      <3> SUFFICES ASSUME NEW j \in 1..Len(u.layers), u.layers[j].pir,
                          u.layers[j].pirType \in HintSchemes
                   PROVE  u.layers[j].hint
                            = Slice(s, u.layers[j].firstRow,
                                    u.layers[j].firstRow + u.layers[j].numRows)
        BY DEF HintsOf
      <3>1. u.layers[j].numRows # 0
        BY <2>2 DEF Tiled
      <3>2. j # i
        BY <2>2
      <3>3. j \in 1..Len(w.layers) /\ u.layers[j] = w.layers[j]
        BY <2>2, <3>1, <3>2
      <3> QED BY <1>8, <3>3 DEF HintsOf
    <2> QED BY <1>1, <1>3, <1>7, <2>1, <2>2, <2>3, <2>4 DEF WaterInv, HintsFit, HintsOf, Left
  <1> QED BY <1>9, <1>10

\* The hint comes to the layer it was asked for and is about its rows.
LEMMA WaterHintOK ==
  ASSUME Following, WaterInv, Hint
  PROVE  WaterInv'
  <1> DEFINE s == srv["Left"]
             i == LastFilled(wf.layers)
             l == wf.layers[i]
             rows == Slice(s, l.firstRow, l.firstRow + l.numRows)
             u == InitHint(wf, rows)
  <1>1. phase = "hinting" /\ phase' = "idle" /\ wf' = u /\ srv' = srv /\ cli' = cli
    BY DEF Hint
  <1>2. /\ Tiled(wf, Stored) /\ wf.numRows = cli.numRows /\ s.flatDb \in Seq(Data)
        /\ i \in 1..Len(wf.layers) /\ wf.layers[i].numRows # 0
    BY <1>1 DEF WaterInv, AwaitsHint, Following, ServersInv, ServersOK, Servers, Sides
  <1>3. l.firstRow \in Nat /\ l.numRows \in Nat
    BY <1>2, LayerWithin
  <1>4. rows \in Seq(Stored)
    BY <1>2, <1>3, SliceType
  <1>5. /\ Tiled(u, Stored) /\ u.numRows = wf.numRows /\ Len(u.layers) = Len(wf.layers)
        /\ \A j \in 1..Len(wf.layers) : j # i => u.layers[j] = wf.layers[j]
        /\ u.layers[i].hint = rows
        /\ u.layers[i].firstRow = wf.layers[i].firstRow
        /\ u.layers[i].numRows = wf.layers[i].numRows
    <2> HIDE DEF rows
    <2> QED BY <1>2, <1>4, InitHintOK
  <1> HIDE DEF u, i
  <1>6. HintsOf(wf, s) => HintsOf(u, s)
    <2> SUFFICES ASSUME HintsOf(wf, s),
                        NEW j \in 1..Len(u.layers), u.layers[j].pir,
                        u.layers[j].pirType \in HintSchemes
                 PROVE  u.layers[j].hint
                          = Slice(s, u.layers[j].firstRow,
                                  u.layers[j].firstRow + u.layers[j].numRows)
      BY DEF HintsOf
    <2>1. CASE j = i
      BY <1>5, <2>1
    <2>2. CASE j # i
      <3>1. j \in 1..Len(wf.layers) /\ u.layers[j] = wf.layers[j]
        BY <1>5, <2>2
      <3> QED BY <3>1 DEF HintsOf
    <2> QED BY <2>1, <2>2
  <1>7. HintsFit'
    <2>1. HintsFit => HintsFit'
      BY <1>1, <1>6 DEF HintsFit, HintsOf, Left
    <2> QED BY <2>1 DEF WaterInv
  <1> QED BY <1>1, <1>2, <1>5, <1>7 DEF WaterInv

\* The waterfall changes in UpdateKeys and Hint only.
LEMMA WaterKept ==
  ASSUME [Next]_vars, ~UpdateKeys, ~Hint
  PROVE  wf' = wf /\ (phase' = "hinting" => phase = "hinting")
  <1> DEFINE K == wf' = wf /\ (phase' = "hinting" => phase = "hinting")
  <1>1. ASSUME NEW write, WriteLeft(write) PROVE K
    BY <1>1 DEF WriteLeft, cliVars
  <1>2. AddLeft \/ DeleteLeft => K
    BY <1>1 DEF AddLeft, DeleteLeft
  <1>3. WriteRight => K
    BY DEF WriteRight, cliVars
  <1>4. HintPanics \/ HintFails => K
    BY DEF HintPanics, HintFails, Panic, cliVars
  <1>5. ASSUME NEW key, Read(key) PROVE K
    BY <1>5 DEF Read, cliVars
  <1>6. ASSUME NEW side, Answer(side) \/ AnswerPanics(side) \/ AnswerFails(side)
        PROVE  K
    BY <1>6 DEF Answer, AnswerPanics, AnswerFails, Panic, cliVars
  <1>7. ReadReturns \/ ReconstructPanics => K
    BY DEF ReadReturns, ReconstructPanics, Panic, cliVars
  <1>8. UNCHANGED vars => K
    BY DEF vars, cliVars
  <1> QED BY <1>2, <1>3, <1>4, <1>5, <1>6, <1>7, <1>8 DEF Next, Writes, Updates, Reads

LEMMA WaterInit == Init => WaterInv
  <1> SUFFICES ASSUME Init PROVE WaterInv
    OBVIOUS
  <1>1. wf = NewWaterfallClient /\ cli.numRows = 0 /\ phase = "idle"
    BY DEF Init, NewClient
  <1>2. wf.numRows = 0 /\ Len(wf.layers) = 0
    BY <1>1 DEF NewWaterfallClient
  <1>3. Tiled(wf, Stored)
    BY <1>1, NewTiled
  <1> QED BY <1>1, <1>2, <1>3 DEF WaterInv, HintsFit

LEMMA WaterStep ==
  ASSUME Following, WaterInv, [Next]_vars
  PROVE  WaterInv'
  <1>1. Following' /\ ServersNext
    BY FollowingStep
  <1>2. CASE UpdateKeys
    BY <1>1, <1>2, WaterKeysOK
  <1>3. CASE Hint
    BY <1>3, WaterHintOK
  <1>4. CASE ~UpdateKeys /\ ~Hint
    <2>1. wf' = wf /\ (phase' = "hinting" => phase = "hinting")
      BY <1>4, WaterKept
    <2>2. cli' = cli
      BY <1>4, ClientKept
    <2>3. HintsFit'
      BY <1>1, <2>1, <2>2, HintsFollow
    <2> QED BY <2>1, <2>2, <2>3 DEF WaterInv
  <1> QED BY <1>2, <1>3, <1>4

\* All but the read in progress.
Watered == Following /\ WaterInv

LEMMA WateredAlways == Spec => []Watered
  <1>1. Init => Watered
    BY ServersInit, ClientInit, WaterInit DEF Following, Watered
  <1>2. Watered /\ [Next]_vars => Watered'
    BY FollowingStep, WaterStep DEF Watered
  <1> QED BY <1>1, <1>2, PTL DEF Spec

\* The filled layers cut the client's rows into consecutive pieces
\* (updateLayers), whatever the sizes of the database and of the updates.
THEOREM LayersTileAlways == Spec => []LayersTile
  <1>1. Watered => LayersTile
    BY DEF Watered, WaterInv, Tiled, LayersTile
  <1> QED BY WateredAlways, <1>1, PTL

\* A layer's hint is about the rows the layer stands for, also when writes
\* came between KeyUpdates and Hint (Update, InitHint).
THEOREM HintsFitAlways == Spec => []HintsFit
  <1>1. Watered => HintsFit
    BY DEF Watered, WaterInv
  <1> QED BY WateredAlways, <1>1, PTL

-----------------------------------------------------------------------------
(***************************************************************************)
(* Reads.  The inductive invariant, while a read goes on: its requests are *)
(* those for the position of its key, no server was behind the client when *)
(* it began, both have the client's rows and have answered from them       *)
(* unless they have defragmented since, or a hint was lost.                *)
(***************************************************************************)
\* Matching, of any requests.
MatchingOf(parts) == Max({0} \cup {m \in 1..Len(parts) : parts[m].idx # -1})

\* An answer of a server that has not defragmented since the client's update
\* has the rows of the layer asked about; such a server has all the client's.
AnswerOK(a, s, c, w, parts) ==
  /\ a.st \in {"none", "ok", "failed"}
  /\ s.defragTimestamp = c.defragTimestamp => c.numRows <= Len(s.flatDb)
  /\ a.st = "ok" /\ s.defragTimestamp = c.defragTimestamp /\ AllActive(w) =>
       a.rows = Slice(s, parts[MatchingOf(parts)].first, parts[MatchingOf(parts)].last)

\* The read in progress asked what Query gives, and was answered as above.
ReadOK ==
  phase = "reading" =>
    /\ query.key \in DOMAIN cli.keyToPos
    /\ query.parts = WaterfallQuery(wf, cli.keyToPos[query.key])
    /\ DOMAIN answer = Sides
    /\ \A s \in Sides : AnswerOK(answer[s], srv[s], cli, wf, query.parts)

\* No server is behind a client that reads.
NotBehind ==
  phase = "reading" \/ result.key # -1 =>
    \A s \in Sides : cli.defragTimestamp <= srv[s].defragTimestamp

\* A request of a query lies within the rows of the waterfall.
LEMMA PartWithin ==
  ASSUME NEW w, Tiled(w, Stored), NEW i \in 1..Len(w.layers), NEW part, NEW pos,
         PartOf(part, w.layers[i], pos)
  PROVE  /\ part.first \in Nat /\ part.numRows \in Nat /\ part.last \in Nat
         /\ part.last = part.first + part.numRows
         /\ part.first <= part.last /\ part.last <= w.numRows
         /\ part.pirType \in Schemes
  <1> DEFINE first == w.layers[i].firstRow
             n == w.layers[i].numRows
             all == w.numRows
  <1>1. n # 0 /\ part.first = first /\ part.numRows = n /\ part.last = first + n
    BY DEF PartOf, Tiled
  <1>2. first \in Nat /\ n \in Nat /\ all \in Nat /\ first + n <= all
    BY <1>1, LayerWithin
  <1>3. part.pirType \in Schemes
    <2>1. w.layers[i] \in Layer(Stored)
      BY LayersTyped DEF Tiled
    <2> QED BY <2>1 DEF PartOf, Layer
  <1> HIDE DEF first, n, all
  <1>4. first + n \in Nat /\ first <= first + n
    BY <1>2
  <1> QED BY <1>1, <1>2, <1>3, <1>4 DEF all

\* With a client in every filled layer, one request is for the row.
LEMMA QueryMatches ==
  ASSUME NEW w, Tiled(w, Stored), AllActive(w), NEW pos \in 0..(w.numRows - 1),
         NEW parts, parts = WaterfallQuery(w, pos)
  PROVE  LET m == MatchingOf(parts)
         IN  /\ m \in 1..Len(parts) /\ parts[m].idx # -1
             /\ \E i \in 1..Len(w.layers) : PartOf(parts[m], w.layers[i], pos)
  <1> DEFINE S == {m \in 1..Len(parts) : parts[m].idx # -1}
             T == {0} \cup S
             m == MatchingOf(parts)
             n == Len(parts)
  <1>1. pos \in Int
    BY DEF Tiled
  <1>2. /\ \A p \in 1..Len(parts) : \E i \in 1..Len(w.layers) : PartOf(parts[p], w.layers[i], pos)
        /\ \E p \in 1..Len(parts) : parts[p].idx # -1
    <2> DEFINE q == WaterfallQuery(w, pos)
    <2>1. /\ \A p \in 1..Len(q) : \E i \in 1..Len(w.layers) : PartOf(q[p], w.layers[i], pos)
          /\ pos \in 0..(w.numRows - 1) => \E p \in 1..Len(q) : q[p].idx # -1
      BY <1>1, QueryFits
    <2> HIDE DEF q
    <2> QED BY <2>1 DEF q
  <1>3. n \in Nat
    BY QueryType
  <1>4. T \in SUBSET (0..n) /\ T # {}
    BY <1>3
  <1>5. m = Max(T)
    BY DEF MatchingOf
  <1> HIDE DEF m
  <1>6. m \in T /\ \A y \in T : y <= m
    <2> HIDE DEF T
    <2> QED BY <1>3, <1>4, <1>5, MaxType
  <1>7. m # 0
    <2>1. PICK p \in 1..n : parts[p].idx # -1
      BY <1>2
    <2>2. p \in T /\ p > 0 /\ p \in Nat
      BY <1>3, <2>1
    <2>3. p <= m
      BY <1>6, <2>2
    <2> QED BY <2>2, <2>3
  <1>8. m \in S
    BY <1>6, <1>7
  <1> QED BY <1>2, <1>8 DEF m

\* Whatever a server has answered stays what it would answer, until it
\* defragments.
LEMMA AnswerStays ==
  ASSUME NEW w, Tiled(w, Stored), NEW c \in Clients, w.numRows = c.numRows,
         NEW pos \in 0..(w.numRows - 1), NEW parts, parts = WaterfallQuery(w, pos),
         NEW s, ServerOK(s, Data), NEW t, ServerOK(t, Data), Extends(s, t),
         c.defragTimestamp <= s.defragTimestamp,
         NEW a, AnswerOK(a, s, c, w, parts)
  PROVE  AnswerOK(a, t, c, w, parts)
  <1> SUFFICES ASSUME t.defragTimestamp = c.defragTimestamp
               PROVE  /\ c.numRows <= Len(t.flatDb)
                      /\ a.st = "ok" /\ AllActive(w) =>
                           a.rows = Slice(t, parts[MatchingOf(parts)].first,
                                             parts[MatchingOf(parts)].last)
    BY DEF AnswerOK
  <1>1. s.defragTimestamp = c.defragTimestamp /\ t.defragTimestamp = s.defragTimestamp
    <2>1. s.defragTimestamp \in Nat /\ c.defragTimestamp \in Nat
      BY Stamps
    <2>2. t.defragTimestamp >= s.defragTimestamp
      BY DEF Extends
    <2> QED BY <2>1, <2>2
  <1>2. PICK more \in Seq(Data) : t.flatDb = s.flatDb \o more
    BY <1>1 DEF Extends
  <1>3. s.flatDb \in Seq(Data) /\ c.numRows <= Len(s.flatDb) /\ c.numRows \in Nat
    BY <1>1, Stamps DEF ServerOK, Servers, AnswerOK
  <1>4. c.numRows <= Len(t.flatDb)
    <2>1. Len(t.flatDb) = Len(s.flatDb) + Len(more) /\ Len(s.flatDb) \in Nat /\ Len(more) \in Nat
      BY <1>2, <1>3, ConcatProperties
    <2> QED BY <1>3, <2>1
  <1>5. ASSUME a.st = "ok", AllActive(w)
        PROVE  a.rows = Slice(t, parts[MatchingOf(parts)].first, parts[MatchingOf(parts)].last)
    <2> DEFINE part == parts[MatchingOf(parts)]
    <2>1. PICK i \in 1..Len(w.layers) : PartOf(part, w.layers[i], pos)
      BY <1>5, QueryMatches
    <2>2. a.rows = Slice(s, part.first, part.last)
      BY <1>1, <1>5 DEF AnswerOK
    <2> HIDE DEF part
    <2>3. part.first \in Nat /\ part.last \in Nat /\ part.last <= c.numRows
      BY <2>1, PartWithin
    <2>4. part.last <= Len(s.flatDb)
      <3>1. Len(s.flatDb) \in Nat
        BY <1>3
      <3> QED BY <1>3, <2>3, <3>1
    <2>5. Slice(t, part.first, part.last) = Slice(s, part.first, part.last)
      <3>1. HasRows(t, s)
        BY <1>2, <1>3 DEF HasRows
      <3> QED BY <2>3, <2>4, <3>1, SliceStays
    <2> QED BY <2>2, <2>5 DEF part
  <1> QED BY <1>4, <1>5

\* Both servers hold the client's rows in the same places.
LEMMA SidesAgree ==
  ASSUME ServersInv, NEW first \in Nat, NEW last \in Nat,
         srv["Left"].defragTimestamp = srv["Right"].defragTimestamp,
         last <= Len(srv["Right"].flatDb)
  PROVE  Slice(srv["Left"], first, last) = Slice(srv["Right"], first, last)
  <1> DEFINE l == srv["Left"]
             r == srv["Right"]
  <1>1. ServerOK(r, Data) /\ r.flatDb \in Seq(Data)
    BY DEF ServersInv, ServersOK, ServerOK, Servers, Sides
  <1>2. CASE todo.pending
    <2>1. l = Applied(r, todo) /\ IsWrite(todo)
      BY <1>2 DEF ServersInv, TodoOK, IsWrite
    <2>2. Extends(r, l)
      BY <1>1, <2>1, AppliedOK
    <2>3. HasRows(l, r)
      BY <1>1, <2>2 DEF Extends, HasRows
    <2> HIDE DEF l, r
    <2>4. last <= Len(r.flatDb)
      BY DEF r
    <2>5. Slice(l, first, last) = Slice(r, first, last)
      BY <2>3, <2>4, SliceStays
    <2> QED BY <2>5 DEF l, r
  <1>3. CASE ~todo.pending
    <2>1. l = r
      BY <1>3 DEF ServersInv, TodoOK
    <2> QED BY <2>1
  <1> QED BY <1>2, <1>3

LEMMA ExtendsSelf ==
  ASSUME NEW s, ServerOK(s, Data)
  PROVE  Extends(s, s)
  <1>1. s.ops \in Seq(Op(Data)) /\ s.flatDb \in Seq(Data) /\ s.defragTimestamp \in Nat
    BY DEF ServerOK, Servers
  <1> DEFINE a == s.ops
             b == s.flatDb
  <1>2. a \in Seq(Op(Data)) /\ b \in Seq(Data)
    BY <1>1
  <1> HIDE DEF a, b
  <1>3. a \o <<>> = a /\ b \o <<>> = b /\ <<>> \in Seq(Op(Data)) /\ <<>> \in Seq(Data)
    BY <1>2, ConcatEmptySeq
  <1>4. (\E more \in Seq(Op(Data)) : a = a \o more) /\ (\E more \in Seq(Data) : b = b \o more)
    BY <1>3
  <1>5. s.defragTimestamp >= s.defragTimestamp
    BY <1>1
  <1>6. /\ \E more \in Seq(Op(Data)) : s.ops = s.ops \o more
        /\ \E more \in Seq(Data) : s.flatDb = s.flatDb \o more
    BY <1>4 DEF a, b
  <1> QED BY <1>5, <1>6, Zenon DEF Extends

LEMMA SidesExtend ==
  ASSUME ServersInv, ServersInv', ServersNext, NEW s \in Sides
  PROVE  /\ ServerOK(srv[s], Data) /\ ServerOK(srv'[s], Data)
         /\ Extends(srv[s], srv'[s])
  <1>1. ServerOK(srv[s], Data) /\ ServerOK(srv'[s], Data)
    BY DEF ServersInv, ServersOK
  <1>2. CASE srv'[s] = srv[s]
    BY <1>1, <1>2, ExtendsSelf
  <1>3. CASE Written(srv[s], srv'[s], Size(s))
    BY <1>1, <1>3 DEF Written
  <1> QED BY <1>1, <1>2, <1>3 DEF ServersNext

\* What a read reconstructs from two answers that no defragmentation and no
\* lost hint has spoilt.
LEMMA ReconstructedOK ==
  ASSUME Watered, ReadOK, phase = "reading", SameDefrag, AllActive(wf),
         \A s \in Sides : answer[s].st = "ok"
  PROVE  /\ Matching # 0
         /\ Reconstructed = synced[query.key]
  <1> DEFINE parts == query.parts
             m == MatchingOf(parts)
             part == parts[m]
             key == query.key
             pos == cli.keyToPos[key]
             left == srv["Left"]
             right == srv["Right"]
             first == part.first
             n == part.numRows
  <1>1. /\ "Left" \in Sides /\ "Right" \in Sides
        /\ ServersInv /\ ClientOK(cli) /\ cli \in Clients /\ Following
        /\ Tiled(wf, Stored) /\ wf.numRows = cli.numRows /\ HintsFit
        /\ left.defragTimestamp = cli.defragTimestamp
        /\ right.defragTimestamp = cli.defragTimestamp
    BY DEF Sides, Watered, WaterInv, Following, ClientInv, ClientOK, SameDefrag
  <1>2. /\ key \in DOMAIN cli.keyToPos /\ parts = WaterfallQuery(wf, pos)
        /\ AnswerOK(answer["Left"], left, cli, wf, parts)
        /\ AnswerOK(answer["Right"], right, cli, wf, parts)
    BY <1>1 DEF ReadOK
  <1>3. pos \in 0..(wf.numRows - 1)
    BY <1>1, <1>2, PositionsInRange
  <1>4. m = Matching
    BY DEF MatchingOf, Matching
  <1>5. key \in DOMAIN synced /\ left.flatDb[pos + 1] = synced[key]
    <2>1. /\ DOMAIN cli.keyToPos = DOMAIN synced
          /\ \A k \in DOMAIN synced : left.flatDb[cli.keyToPos[k] + 1] = synced[k]
      BY <1>1, PositionsAre
    <2> QED BY <1>2, <2>1
  <1>6. /\ answer["Left"].rows = Slice(left, part.first, part.last)
        /\ answer["Right"].rows = Slice(right, part.first, part.last)
        /\ cli.numRows <= Len(left.flatDb) /\ cli.numRows <= Len(right.flatDb)
    BY <1>1, <1>2 DEF AnswerOK
  <1> HIDE DEF parts, m, pos, key, left, right
  <1>7. m \in 1..Len(parts) /\ part.idx # -1
        /\ \E i \in 1..Len(wf.layers) : PartOf(part, wf.layers[i], pos)
    BY <1>1, <1>2, <1>3, QueryMatches DEF m
  <1>8. PICK i \in 1..Len(wf.layers) : PartOf(part, wf.layers[i], pos)
    BY <1>7
  <1> HIDE DEF part
  <1>9. /\ first \in Nat /\ n \in Nat /\ part.last \in Nat
        /\ part.last = first + n /\ part.last <= wf.numRows
    BY <1>1, <1>8, PartWithin
  <1>10. /\ part.idx \in 0..(n - 1) /\ first + part.idx = pos
         /\ part.pirType \in HintSchemes => part.hint = Slice(left, first, first + n)
    <2> DEFINE l == wf.layers[i]
    <2>1. /\ l.pir /\ part.pirType = l.pirType /\ part.hint = l.hint
          /\ first = l.firstRow /\ n = l.numRows
          /\ part.idx \in 0..(l.numRows - 1) /\ l.firstRow + part.idx = pos
      BY <1>7, <1>8 DEF PartOf
    <2>2. l.pir /\ l.pirType \in HintSchemes => l.hint = Slice(left, l.firstRow, l.firstRow + l.numRows)
      BY <1>1 DEF HintsFit, Left, left
    <2> QED BY <2>1, <2>2
  <1>11. Slice(left, first, part.last) = Slice(right, first, part.last)
    <2>1. part.last <= Len(right.flatDb)
      <3>1. right.flatDb \in Seq(Data) /\ cli.numRows \in Nat
        BY <1>1 DEF ServersInv, ServersOK, Servers, Clients, right
      <3>2. Len(right.flatDb) \in Nat
        BY <3>1
      <3> QED BY <1>1, <1>6, <1>9, <3>1, <3>2
    <2> QED BY <1>1, <1>9, <2>1, SidesAgree DEF left, right
  <1> DEFINE rows == answer["Left"].rows
  <1>12. rows = answer["Right"].rows /\ rows = Slice(left, first, first + n)
    BY <1>6, <1>9, <1>11
  <1>13. Len(rows) = n
    <2>1. left.flatDb \in Seq(Data)
      BY <1>1 DEF ServersInv, ServersOK, Servers, left
    <2> HIDE DEF rows, first, n
    <2>2. Len(Slice(left, first, first + n)) = n
      BY <1>9, <2>1, SliceType
    <2> QED BY <1>12, <2>2
  <1>14. rows[part.idx + 1] = left.flatDb[pos + 1]
    <2> DEFINE j == part.idx + 1
    <2>1. j \in 1..n /\ first + j = pos + 1 /\ first + n - first = n
      BY <1>9, <1>10
    <2>2. first + j <= Len(left.flatDb)
      <3>1. left.flatDb \in Seq(Data) /\ cli.numRows \in Nat
        BY <1>1 DEF ServersInv, ServersOK, Servers, Clients, left
      <3>2. Len(left.flatDb) \in Nat
        BY <3>1
      <3>3. pos <= cli.numRows - 1 /\ pos \in Nat
        BY <1>1, <1>3, <3>1
      <3> HIDE DEF j
      <3> QED BY <1>6, <2>1, <3>1, <3>2, <3>3
    <2> HIDE DEF j, rows
    <2>3. Slice(left, first, first + n)[j] = left.flatDb[first + j]
      <3> DEFINE last == first + n
      <3>1. j \in 1..(last - first)
        BY <1>9, <2>1
      <3> HIDE DEF last, first
      <3>2. Slice(left, first, last)[j] = left.flatDb[first + j]
        BY <2>2, <3>1 DEF Slice
      <3> QED BY <3>2 DEF last, first
    <2> QED BY <1>12, <2>1, <2>3 DEF j
  <1>15. Reconstructed = rows[part.idx + 1]
    BY <1>4, <1>10, <1>12, <1>13 DEF Reconstructed, part, parts
  <1>16. Matching # 0
    BY <1>4, <1>7
  <1> QED BY <1>5, <1>14, <1>15, <1>16 DEF key

\* The invariant of reads.
Reading == CallTyped /\ NotBehind /\ ReadOK /\ ReadsSnapshot

\* Between calls of Read there is nothing to say.
LEMMA NotReading ==
  ASSUME phase' # "reading", result'.key = -1
  PROVE  NotBehind' /\ ReadOK' /\ ReadsSnapshot'
  BY DEF NotBehind, ReadOK, ReadsSnapshot

\* Writes during a read, and steps that leave the call alone.
LEMMA ReadingWrites ==
  ASSUME Reading, Watered, Watered', ServersNext, cli' = cli, wf' = wf, synced' = synced,
         phase' = phase, query' = query, answer' = answer, result' = result
  PROVE  NotBehind' /\ ReadOK' /\ ReadsSnapshot'
  <1>1. ASSUME NEW s \in Sides
        PROVE  /\ ServerOK(srv[s], Data) /\ ServerOK(srv'[s], Data)
               /\ Extends(srv[s], srv'[s])
    BY SidesExtend DEF Watered, Following
  <1>2. cli \in Clients /\ ClientOK(cli) /\ Tiled(wf, Stored) /\ wf.numRows = cli.numRows
    BY DEF Watered, WaterInv, Following, ClientInv, ClientOK
  <1>3. \A s \in Sides : /\ srv[s].defragTimestamp \in Nat /\ srv'[s].defragTimestamp \in Nat
                         /\ srv'[s].defragTimestamp >= srv[s].defragTimestamp
                         /\ cli.defragTimestamp \in Nat
    BY <1>1, <1>2, Stamps DEF Extends
  <1>4. NotBehind'
    BY <1>3 DEF NotBehind, Reading
  <1>5. ReadOK'
    <2> SUFFICES ASSUME phase = "reading" PROVE ReadOK'
      BY DEF ReadOK
    <2>1. /\ query.key \in DOMAIN cli.keyToPos
          /\ query.parts = WaterfallQuery(wf, cli.keyToPos[query.key])
          /\ DOMAIN answer = Sides
          /\ \A s \in Sides : AnswerOK(answer[s], srv[s], cli, wf, query.parts)
          /\ \A s \in Sides : cli.defragTimestamp <= srv[s].defragTimestamp
      BY DEF Reading, ReadOK, NotBehind
    <2>2. cli.keyToPos[query.key] \in 0..(wf.numRows - 1)
      BY <1>2, <2>1, PositionsInRange
    <2>3. ASSUME NEW s \in Sides
          PROVE  AnswerOK(answer[s], srv'[s], cli, wf, query.parts)
      <3> DEFINE pos == cli.keyToPos[query.key]
                 parts == query.parts
                 a == answer[s]
                 x == srv[s]
                 y == srv'[s]
      <3>1. /\ pos \in 0..(wf.numRows - 1) /\ parts = WaterfallQuery(wf, pos)
            /\ ServerOK(x, Data) /\ ServerOK(y, Data) /\ Extends(x, y)
            /\ cli.defragTimestamp <= x.defragTimestamp
            /\ AnswerOK(a, x, cli, wf, parts)
        BY <1>1, <2>1, <2>2
      <3> HIDE DEF pos, parts, a, x, y
      <3>2. AnswerOK(a, y, cli, wf, parts)
        BY <1>2, <3>1, AnswerStays
      <3> QED BY <3>2 DEF a, y, parts
    <2> QED BY <2>1, <2>3 DEF ReadOK
  <1>6. ReadsSnapshot'
    <2> SUFFICES ASSUME result.key # -1, SameDefrag', ~HintLost' PROVE SameDefrag /\ ~HintLost
      BY DEF ReadsSnapshot, Reading
    <2>1. \A s \in Sides : cli.defragTimestamp <= srv[s].defragTimestamp
      BY DEF Reading, NotBehind
    <2>2. \A s \in Sides : srv'[s].defragTimestamp = cli.defragTimestamp
      BY DEF SameDefrag
    <2>3. SameDefrag
      BY <1>3, <2>1, <2>2 DEF SameDefrag
    <2>4. ~HintLost
      BY DEF HintLost
    <2> QED BY <2>3, <2>4
  <1> QED BY <1>4, <1>5, <1>6

LEMMA ReadOKRead ==
  ASSUME Watered, NEW key, Read(key)
  PROVE  NotBehind' /\ ReadOK' /\ ReadsSnapshot'
  <1>1. /\ ~todo.pending /\ key \in DOMAIN cli.keyToPos /\ phase' = "reading"
        /\ query' = [key |-> key, parts |-> WaterfallQuery(wf, cli.keyToPos[key])]
        /\ answer' = NoAnswers /\ result' = NoResult
        /\ srv' = srv /\ cli' = cli /\ wf' = wf
    BY DEF Read, cliVars
  <1>2. query'.key = key /\ query'.parts = WaterfallQuery(wf, cli.keyToPos[key])
    BY <1>1
  <1>3. /\ srv["Left"] = srv["Right"] /\ \A s \in Sides : srv[s] = srv["Left"]
        /\ Fits(cli, srv["Left"])
    BY <1>1 DEF Watered, Following, ServersInv, TodoOK, ClientInv, Sides
  <1>4. ASSUME NEW s \in Sides
        PROVE  AnswerOK(NoAnswer, srv[s], cli, wf, query'.parts)
    <2>1. srv[s].defragTimestamp = cli.defragTimestamp => cli.numRows <= Len(srv[s].flatDb)
      BY <1>3, RowsThere DEF Watered
    <2>2. NoAnswer.st = "none"
      BY DEF NoAnswer
    <2> QED BY <2>1, <2>2 DEF AnswerOK
  <1>5. DOMAIN answer' = Sides /\ \A s \in Sides : answer'[s] = NoAnswer
    BY <1>1 DEF NoAnswers
  <1>6. ReadOK'
    BY <1>1, <1>2, <1>4, <1>5 DEF ReadOK
  <1>7. NotBehind'
    BY <1>1, <1>3 DEF NotBehind, Fits
  <1>8. ReadsSnapshot'
    BY <1>1 DEF ReadsSnapshot, NoResult
  <1> QED BY <1>6, <1>7, <1>8

\* An answer comes from the rows the server has at the time.
LEMMA ReadOKAnswer ==
  ASSUME Reading, Watered, NEW side \in Sides, Answer(side) \/ AnswerFails(side)
  PROVE  NotBehind' /\ ReadOK' /\ ReadsSnapshot'
  <1> DEFINE part == query.parts[Matching]
             given == IF Matching = 0 THEN <<>> ELSE Slice(srv[side], part.first, part.last)
             ok == [st |-> "ok", rows |-> given]
             failed == [st |-> "failed", rows |-> <<>>]
  <1>1. /\ phase = "reading" /\ phase' = phase /\ query' = query /\ result' = result
        /\ srv' = srv /\ cli' = cli /\ wf' = wf /\ synced' = synced
        /\ \/ answer' = [answer EXCEPT ![side] = ok]
           \/ answer' = [answer EXCEPT ![side] = failed]
    BY DEF Answer, AnswerFails, Awaits, cliVars
  <1> HIDE DEF ok, failed
  <1>2. /\ cli \in Clients /\ ClientOK(cli) /\ Tiled(wf, Stored) /\ wf.numRows = cli.numRows
        /\ query.key \in DOMAIN cli.keyToPos
        /\ query.parts = WaterfallQuery(wf, cli.keyToPos[query.key])
        /\ DOMAIN answer = Sides
        /\ \A s \in Sides : AnswerOK(answer[s], srv[s], cli, wf, query.parts)
    BY <1>1 DEF Watered, WaterInv, Following, ClientInv, ClientOK, Reading, ReadOK
  <1>3. Matching = MatchingOf(query.parts)
    BY DEF Matching, MatchingOf
  <1>4. AllActive(wf) => Matching # 0
    <2> DEFINE pos == cli.keyToPos[query.key]
               parts == query.parts
    <2>1. pos \in 0..(wf.numRows - 1) /\ parts = WaterfallQuery(wf, pos)
      BY <1>2, PositionsInRange
    <2> HIDE DEF pos, parts
    <2>2. AllActive(wf) => MatchingOf(parts) \in 1..Len(parts)
      BY <1>2, <2>1, QueryMatches
    <2> QED BY <1>3, <2>2 DEF parts
  <1>5. AnswerOK(ok, srv[side], cli, wf, query.parts)
    <2>1. ok.st = "ok" /\ ok.rows = given
      BY DEF ok
    <2>2. AllActive(wf) => given = Slice(srv[side], query.parts[MatchingOf(query.parts)].first,
                                         query.parts[MatchingOf(query.parts)].last)
      BY <1>3, <1>4
    <2> HIDE DEF given
    <2> QED BY <1>2, <2>1, <2>2 DEF AnswerOK
  <1>6. AnswerOK(failed, srv[side], cli, wf, query.parts)
    <2>1. failed.st = "failed"
      BY DEF failed
    <2> QED BY <1>2, <2>1 DEF AnswerOK
  <1>7. ASSUME NEW s \in Sides PROVE AnswerOK(answer'[s], srv[s], cli, wf, query.parts)
    <2>1. CASE s = side
      <3>1. answer'[s] = ok \/ answer'[s] = failed
        BY <1>1, <1>2, <2>1
      <3> QED BY <1>2, <1>5, <1>6, <2>1, <3>1
    <2>2. CASE s # side
      <3>1. answer'[s] = answer[s]
        BY <1>1, <1>2, <2>2
      <3> QED BY <1>2, <3>1
    <2> QED BY <2>1, <2>2
  <1>8. ReadOK'
    <2>1. DOMAIN answer' = Sides
      BY <1>1, <1>2
    <2> QED BY <1>1, <1>2, <1>7, <2>1 DEF ReadOK
  <1>9. NotBehind'
    BY <1>1 DEF NotBehind, Reading
  <1>10. ReadsSnapshot'
    <2>1. result.key = -1
      BY <1>1 DEF Reading, CallTyped
    <2> QED BY <1>1, <2>1 DEF ReadsSnapshot
  <1> QED BY <1>8, <1>9, <1>10

LEMMA ReadOKReturns ==
  ASSUME Reading, Watered, ReadReturns
  PROVE  NotBehind' /\ ReadOK' /\ ReadsSnapshot'
  <1> DEFINE failed == \E s \in Sides : answer[s].st = "failed"
  <1>1. /\ phase = "reading" /\ phase' = "idle" /\ srv' = srv /\ cli' = cli /\ wf' = wf
        /\ synced' = synced /\ \A s \in Sides : answer[s].st # "none"
        /\ result' = [key |-> query.key, row |-> IF failed THEN NoRow ELSE Reconstructed,
                      err |-> answer["Left"].st = "failed"]
    BY DEF ReadReturns, Answered, cliVars
  <1>2. NotBehind'
    BY <1>1 DEF NotBehind, Reading
  <1>3. ReadOK'
    BY <1>1 DEF ReadOK
  <1>4. ReadsSnapshot'
    <2> SUFFICES ASSUME result'.row # NoRow, SameDefrag', ~HintLost'
                 PROVE  result'.row = synced[result'.key]
      BY <1>1 DEF ReadsSnapshot
    <2>1. ~failed
      BY <1>1
    <2>2. SameDefrag
      BY <1>1 DEF SameDefrag
    <2>3. AllActive(wf)
      BY <1>1 DEF HintLost, AllActive
    <2>4. ReadOK
      BY DEF Reading
    <2>5. \A s \in Sides : answer[s].st = "ok"
      BY <1>1, <2>1, <2>4 DEF ReadOK, AnswerOK
    <2>6. Reconstructed = synced[query.key]
      BY <1>1, <2>2, <2>3, <2>4, <2>5, ReconstructedOK
    <2>7. result'.row = Reconstructed /\ result'.key = query.key
      BY <1>1, <2>1
    <2> QED BY <2>6, <2>7
  <1> QED BY <1>2, <1>3, <1>4

\* Outside Updatable's own calls nothing else touches a read.
LEMMA ReadStep ==
  ASSUME Reading, Watered, [Next]_vars
  PROVE  Reading'
  <1>1. Watered' /\ ServersNext /\ CallTyped'
    BY FollowingStep, WaterStep, CallTypedStep DEF Watered, Reading
  <1> DEFINE K == NotBehind' /\ ReadOK' /\ ReadsSnapshot'
             Same == /\ cli' = cli /\ wf' = wf /\ synced' = synced
                     /\ phase' = phase /\ query' = query /\ answer' = answer /\ result' = result
  <1>2. Same => K
    BY <1>1, ReadingWrites
  <1>3. ASSUME NEW write, WriteLeft(write) PROVE Same
    BY <1>3 DEF WriteLeft, cliVars, readVars
  <1>4. AddLeft \/ DeleteLeft => Same
    <2> HIDE DEF Same
    <2> QED BY <1>3 DEF AddLeft, DeleteLeft
  <1>5. WriteRight => Same
    BY DEF WriteRight, cliVars, readVars
  <1>6. UNCHANGED vars => Same
    BY DEF vars, cliVars, readVars
  <1>7. phase # "idle" => result.key = -1
    BY DEF Reading, CallTyped
  <1>8. phase' # "reading" /\ result'.key = -1 => K
    BY NotReading
  <1>9. UpdateKeys => phase' # "reading" /\ result'.key = -1
    BY DEF UpdateKeys, NoResult
  <1>10. Hint \/ HintFails => phase' # "reading" /\ result'.key = -1
    BY <1>7 DEF Hint, HintFails, readVars
  <1>11. phase # "idle" /\ Panic => phase' # "reading" /\ result'.key = -1
    BY <1>7 DEF Panic, readVars
  <1>12. HintPanics \/ ReconstructPanics => phase # "idle" /\ Panic
    BY DEF HintPanics, ReconstructPanics, Answered
  <1>13. ASSUME NEW side \in Sides, AnswerPanics(side) PROVE phase # "idle" /\ Panic
    BY <1>13 DEF AnswerPanics, Awaits
  <1>14. ASSUME NEW key \in ReadKeys, Read(key) PROVE K
    BY <1>14, ReadOKRead
  <1>15. ASSUME NEW side \in Sides, Answer(side) \/ AnswerFails(side) PROVE K
    BY <1>15, ReadOKAnswer
  <1>16. ReadReturns => K
    BY ReadOKReturns
  <1>17. K
    <2> HIDE DEF K, Same
    <2> QED BY <1>2, <1>4, <1>5, <1>6, <1>8, <1>9, <1>10, <1>11, <1>12, <1>13, <1>14, <1>15, <1>16
            DEF Next, Writes, Updates, Reads
  <1> QED BY <1>1, <1>17 DEF Reading

LEMMA ReadingInit == Init => Reading
  <1> SUFFICES ASSUME Init PROVE Reading
    OBVIOUS
  <1>1. phase = "idle" /\ result.key = -1
    BY DEF Init, NoResult
  <1> QED BY <1>1, CallTypedInit DEF Reading, NotBehind, ReadOK, ReadsSnapshot

LEMMA ReadingAlways == Spec => [](Watered /\ Reading)
  <1>1. Watered /\ Reading /\ [Next]_vars => Reading'
    BY ReadStep
  <1> QED BY WateredAlways, ReadingInit, <1>1, PTL DEF Spec

\* A read that is answered returns the row its key had at the client's last
\* update, unless a server has defragmented since or a hint was lost (Read,
\* Query), whatever is written while the calls are on their way.
THEOREM ReadsSnapshotAlways == Spec => []ReadsSnapshot
  <1>1. Reading => ReadsSnapshot
    BY DEF Reading
  <1> QED BY ReadingAlways, <1>1, PTL

-----------------------------------------------------------------------------
(***************************************************************************)
(* The types of the variables.  Those of the servers, the client and its   *)
(* layers follow from the invariants above, also when a hint was lost; the *)
(* types of what is asked, answered and returned are inductive with them.  *)
(***************************************************************************)
CallData ==
  /\ query \in [key : Keys \cup {-1}, parts : Seq(Request)]
  /\ answer \in [Sides -> [st : {"none", "ok", "failed"}, rows : Seq(Stored)]]
  /\ result \in [key : Keys \cup {-1}, row : Stored, err : BOOLEAN]
  /\ synced \in Maps(Data)

\* The rows of a request, which may end before it begins.
LEMMA RowsAskedType ==
  ASSUME NEW s, s.flatDb \in Seq(Data), NEW first \in Nat, NEW last \in Nat
  PROVE  Slice(s, first, last) \in Seq(Stored)
  <1>1. CASE first <= last
    <2>1. last - first \in Nat /\ first + (last - first) = last
      BY <1>1
    <2>2. Slice(s, first, first + (last - first)) \in Seq(Stored)
      BY <2>1, SliceType
    <2> QED BY <2>1, <2>2
  <1>2. CASE last < first
    <2>1. 1..(last - first) = {}
      BY <1>2
    <2>2. Slice(s, first, last) = <<>>
      BY <2>1 DEF Slice
    <2> QED BY <2>2
  <1> QED BY <1>1, <1>2

\* Every read asks requests, whichever layers have clients.
LEMMA RequestsType ==
  ASSUME NEW w, Tiled(w, Stored), NEW pos \in Int
  PROVE  WaterfallQuery(w, pos) \in Seq(Request)
  <1> DEFINE S == {i \in 1..Len(w.layers) : w.layers[i].pir}
             a == Picked(w.layers, S)
             k == Len(a)
             e(m) == [first   |-> a[m].firstRow,
                      last    |-> IF m = Len(a) THEN LayerEnd(a, m + 1) ELSE a[m + 1].firstRow,
                      pirType |-> a[m].pirType, numRows |-> a[m].numRows,
                      hint    |-> a[m].hint,
                      idx     |-> IF /\ LayerEnd(a, m) <= pos
                                     /\ pos < LayerEnd(a, m) + a[m].numRows
                                  THEN pos - LayerEnd(a, m) ELSE -1]
  <1>1. a \in Seq(Layer(Stored))
    <2>1. w.layers \in Seq(Layer(Stored)) /\ S \in SUBSET (1..Len(w.layers))
      BY DEF Tiled
    <2> HIDE DEF S
    <2> QED BY <2>1, PickedType
  <1>2. WaterfallQuery(w, pos) = [m \in 1..k |-> e(m)]
    BY DEF WaterfallQuery
  <1> HIDE DEF a
  <1>3. k \in Nat /\ Rowed(a, 1, k) /\ \A m \in 1..k : a[m] \in Layer(Stored)
    BY <1>1, LayersTyped
  <1> HIDE DEF k
  <1>4. ASSUME NEW m \in 1..k PROVE e(m) \in Request
    <2> DEFINE l == a[m]
               end == LayerEnd(a, m)
               last == IF m = k THEN LayerEnd(a, m + 1) ELSE a[m + 1].firstRow
               idx == IF end <= pos /\ pos < end + l.numRows THEN pos - end ELSE -1
    <2>1. end \in Nat /\ RowsIn(a, 1, m) \in Nat
      <3>1. /\ RowsIn(a, 1, m - 1) \in Nat /\ l.numRows \in Nat
            /\ RowsIn(a, 1, m) = RowsIn(a, 1, m - 1) + l.numRows
        BY <1>3, RowsInWithin
      <3> QED BY <3>1 DEF LayerEnd
    <2>2. last \in Nat
      <3>1. CASE m = k
        <4>1. (m + 1) - 1 = m
          OBVIOUS
        <4> QED BY <2>1, <3>1, <4>1 DEF LayerEnd
      <3>2. CASE m # k
        <4>1. m + 1 \in 1..k
          BY <1>3, <3>2
        <4> QED BY <1>3, <3>2, <4>1 DEF Layer
      <3> QED BY <3>1, <3>2
    <2>3. /\ l.firstRow \in Nat /\ l.numRows \in Nat /\ l.pirType \in Schemes
          /\ l.hint \in Seq(Stored)
      BY <1>3 DEF Layer
    <2>4. e(m) = [first |-> l.firstRow, last |-> last, pirType |-> l.pirType,
                  numRows |-> l.numRows, hint |-> l.hint, idx |-> idx]
      BY DEF k
    <2> HIDE DEF end, l, last
    <2>5. idx \in Nat \cup {-1} /\ idx < l.numRows
      BY <2>1, <2>3
    <2> HIDE DEF e, idx
    <2> QED BY <2>2, <2>3, <2>4, <2>5 DEF Request
  <1> HIDE DEF e
  <1> QED BY <1>2, <1>3, <1>4

\* The request a read looks at is for a row.
LEMMA MatchingType ==
  ASSUME query.parts \in Seq(Request)
  PROVE  /\ Matching \in 0..Len(query.parts)
         /\ Matching # 0 => LET part == query.parts[Matching]
                            IN  /\ part.first \in Nat /\ part.last \in Nat
                                /\ part.idx \in Nat /\ part.idx < part.numRows
  <1> DEFINE p == query.parts
             n == Len(p)
             T == {0} \cup {m \in 1..n : p[m].idx # -1}
             i == Matching
  <1>1. n \in Nat /\ T \in SUBSET (0..n) /\ T # {}
    OBVIOUS
  <1>2. i = Max(T)
    BY DEF Matching
  <1> HIDE DEF i
  <1>3. i \in T
    <2> HIDE DEF T
    <2> QED BY <1>1, <1>2, MaxType
  <1>4. i # 0 => i \in 1..n /\ p[i].idx # -1
    BY <1>3
  <1>5. i # 0 => p[i] \in Request
    <2> HIDE DEF p
    <2> QED BY <1>4, ElementOfSeq DEF p, n
  <1>6. i # 0 => /\ p[i].first \in Nat /\ p[i].last \in Nat
                 /\ p[i].idx \in Nat /\ p[i].idx < p[i].numRows
    BY <1>4, <1>5 DEF Request
  <1> QED BY <1>1, <1>3, <1>6 DEF i

LEMMA CallDataInit == Init => CallData
  <1> SUFFICES ASSUME Init PROVE CallData
    OBVIOUS
  <1>1. NoRow \in Stored
    BY DEF Stored, Data
  <1>2. EmptyMap \in Maps(Data)
    <2>1. EmptyMap \in [{} -> Data] /\ {} \in SUBSET Keys
      BY DEF EmptyMap
    <2> QED BY <2>1 DEF Maps
  <1>3. /\ query = NoQuery /\ answer = NoAnswers /\ result = NoResult /\ synced = EmptyMap
    BY DEF Init
  <1>4. NoAnswer \in [st : {"none", "ok", "failed"}, rows : Seq(Stored)]
    BY DEF NoAnswer
  <1> QED BY <1>1, <1>2, <1>3, <1>4 DEF CallData, NoQuery, NoAnswers, NoResult

LEMMA CallDataRead ==
  ASSUME CallData, Watered, NEW key \in ReadKeys, Read(key)
  PROVE  CallData'
  <1>1. /\ key \in DOMAIN cli.keyToPos
        /\ query' = [key |-> key, parts |-> WaterfallQuery(wf, cli.keyToPos[key])]
        /\ answer' = NoAnswers /\ result' = NoResult /\ synced' = synced
    BY DEF Read, cliVars
  <1>2. key \in Keys
    BY UpdatableAssumption
  <1>3. ClientOK(cli) /\ cli \in Clients /\ Tiled(wf, Stored)
    BY DEF Watered, WaterInv, Following, ClientInv, ClientOK
  <1>4. cli.keyToPos[key] \in Int
    <2>1. cli.keyToPos[key] \in 0..(cli.numRows - 1)
      BY <1>1, <1>3, PositionsInRange
    <2> QED BY <2>1
  <1>5. WaterfallQuery(wf, cli.keyToPos[key]) \in Seq(Request)
    BY <1>3, <1>4, RequestsType
  <1>6. NoAnswer \in [st : {"none", "ok", "failed"}, rows : Seq(Stored)]
    BY DEF NoAnswer
  <1>7. NoRow \in Stored
    BY DEF Stored, Data
  <1> QED BY <1>1, <1>2, <1>5, <1>6, <1>7 DEF CallData, NoAnswers, NoResult

LEMMA CallDataAnswer ==
  ASSUME CallData, Watered, NEW side \in Sides, Answer(side) \/ AnswerFails(side)
  PROVE  CallData'
  <1> DEFINE part == query.parts[Matching]
             given == IF Matching = 0 THEN <<>> ELSE Slice(srv[side], part.first, part.last)
  <1>1. /\ query' = query /\ result' = result /\ synced' = synced
        /\ \/ answer' = [answer EXCEPT ![side] = [st |-> "ok", rows |-> given]]
           \/ answer' = [answer EXCEPT ![side] = [st |-> "failed", rows |-> <<>>]]
    BY DEF Answer, AnswerFails, cliVars
  <1>2. given \in Seq(Stored)
    <2>1. CASE Matching # 0
      <3>1. srv[side].flatDb \in Seq(Data)
        BY DEF Watered, Following, ServersInv, ServersOK, Servers
      <3>2. part.first \in Nat /\ part.last \in Nat
        BY <2>1, MatchingType DEF CallData
      <3> HIDE DEF part
      <3>3. Slice(srv[side], part.first, part.last) \in Seq(Stored)
        BY <3>1, <3>2, RowsAskedType
      <3> QED BY <2>1, <3>3
    <2>2. CASE Matching = 0
      BY <2>2
    <2> QED BY <2>1, <2>2
  <1> HIDE DEF given
  <1>3. answer' \in [Sides -> [st : {"none", "ok", "failed"}, rows : Seq(Stored)]]
    <2> DEFINE A == [st : {"none", "ok", "failed"}, rows : Seq(Stored)]
    <2>1. [st |-> "ok", rows |-> given] \in A /\ [st |-> "failed", rows |-> <<>>] \in A
      BY <1>2
    <2>2. answer \in [Sides -> A]
      BY DEF CallData
    <2> HIDE DEF A
    <2>3. answer' \in [Sides -> A]
      BY <1>1, <2>1, <2>2
    <2> QED BY <2>3 DEF A
  <1> QED BY <1>1, <1>3 DEF CallData

LEMMA CallDataReturns ==
  ASSUME CallData, ReadReturns
  PROVE  CallData'
  <1> DEFINE failed == \E s \in Sides : answer[s].st = "failed"
             part == query.parts[Matching]
             rows == answer["Left"].rows
  <1>1. /\ failed \/ Matching # 0
        /\ result' = [key |-> query.key, row |-> IF failed THEN NoRow ELSE Reconstructed,
                      err |-> answer["Left"].st = "failed"]
        /\ query' = NoQuery /\ answer' = NoAnswers /\ synced' = synced
    BY DEF ReadReturns, cliVars
  <1>2. NoRow \in Stored /\ Garbage \in Stored
    BY DEF Stored, Data
  <1>3. Matching # 0 => Reconstructed \in Stored
    <2> SUFFICES ASSUME Matching # 0, Len(rows) = part.numRows PROVE rows[part.idx + 1] \in Stored
      BY <1>2 DEF Reconstructed
    <2>1. part.idx \in Nat /\ part.idx < part.numRows
      BY MatchingType DEF CallData
    <2>2. rows \in Seq(Stored)
      BY DEF CallData, Sides
    <2> HIDE DEF part, rows
    <2>3. part.idx + 1 \in 1..Len(rows)
      BY <2>1, <2>2
    <2> QED BY <2>2, <2>3, ElementOfSeq
  <1> HIDE DEF failed
  <1>4. (IF failed THEN NoRow ELSE Reconstructed) \in Stored
    BY <1>1, <1>2, <1>3
  <1>5. NoAnswer \in [st : {"none", "ok", "failed"}, rows : Seq(Stored)]
    BY DEF NoAnswer
  <1> QED BY <1>1, <1>4, <1>5 DEF CallData, NoQuery, NoAnswers

LEMMA CallDataStep ==
  ASSUME CallData, Watered, [Next]_vars
  PROVE  CallData'
  <1> DEFINE Same == query' = query /\ answer' = answer /\ result' = result /\ synced' = synced
  <1>1. Same => CallData'
    BY DEF CallData
  <1>2. ASSUME NEW write, WriteLeft(write) PROVE Same
    BY <1>2 DEF WriteLeft, cliVars, readVars
  <1>3. AddLeft \/ DeleteLeft => Same
    <2> HIDE DEF Same
    <2> QED BY <1>2 DEF AddLeft, DeleteLeft
  <1>4. WriteRight \/ UNCHANGED vars => Same
    BY DEF WriteRight, vars, cliVars, readVars
  <1>5. Hint \/ HintFails => Same
    BY DEF Hint, HintFails, cliVars, readVars
  <1>6. Panic => Same
    BY DEF Panic, cliVars, readVars
  <1>7. HintPanics \/ ReconstructPanics => Panic
    BY DEF HintPanics, ReconstructPanics
  <1>8. ASSUME NEW side \in Sides, AnswerPanics(side) PROVE Panic
    BY <1>8 DEF AnswerPanics
  <1>9. UpdateKeys => CallData'
    <2> SUFFICES ASSUME UpdateKeys PROVE CallData'
      OBVIOUS
    <2>1. /\ query' = query /\ answer' = answer /\ result' = NoResult
          /\ synced' = srv["Left"].kv
      BY DEF UpdateKeys
    <2>2. srv["Left"].kv \in Maps(Data)
      BY DEF Watered, Following, ServersInv, ServersOK, Servers, Sides
    <2>3. NoRow \in Stored
      BY DEF Stored, Data
    <2> QED BY <2>1, <2>2, <2>3 DEF CallData, NoResult
  <1>10. ASSUME NEW key \in ReadKeys, Read(key) PROVE CallData'
    BY <1>10, CallDataRead
  <1>11. ASSUME NEW side \in Sides, Answer(side) \/ AnswerFails(side) PROVE CallData'
    BY <1>11, CallDataAnswer
  <1>12. ReadReturns => CallData'
    BY CallDataReturns
  <1> HIDE DEF Same
  <1> QED BY <1>1, <1>3, <1>4, <1>5, <1>6, <1>7, <1>8, <1>9, <1>10, <1>11, <1>12
          DEF Next, Writes, Updates, Reads

LEMMA CallDataAlways == Spec => [](Watered /\ CallTyped /\ CallData)
  <1>1. Watered /\ CallData /\ [Next]_vars => CallData'
    BY CallDataStep
  <1>2. CallTyped /\ [Next]_vars => CallTyped'
    BY CallTypedStep
  <1> QED BY WateredAlways, CallDataInit, CallTypedInit, <1>1, <1>2, PTL DEF Spec

\* What the client counts is within the bound on the left server's timestamps.
LEMMA ClientTimes ==
  ASSUME Following
  PROVE  /\ cli.initialTimestamp \in Timestamps /\ cli.defragTimestamp \in Timestamps
         /\ cli.numRows \in Timestamps
  <1> DEFINE s == srv["Left"]
             n == Len(cli.ops)
             i == cli.initialTimestamp
             d == cli.defragTimestamp
             A == Adds(cli.ops)
  <1>1. /\ ServerOK(s, Data) /\ ServerTimestamp(s) <= MaxTime /\ MaxTime \in Nat
        /\ ClientOK(cli) /\ cli \in Clients /\ Fits(cli, s)
    BY UpdatableAssumption
       DEF Following, ServersInv, ServersOK, ClientInv, ClientOK, Sides
  <1>2. /\ i \in Nat /\ d \in Nat /\ n \in Nat /\ cli.numRows \in Nat /\ i <= d
        /\ cli.numRows = Cardinality(A)
    BY <1>1 DEF Clients, ClientOK, Fits
  <1>3. d <= s.defragTimestamp /\ s.defragTimestamp \in 0..MaxTime
    BY <1>1, TimesWithin DEF Following, Fits, Sides
  <1>4. i + n <= MaxTime
    <2>1. i + n <= s.initialTimestamp + Len(s.ops)
      BY <1>1, NextWithin DEF NextOf
    <2>2. s.initialTimestamp + Len(s.ops) <= MaxTime
      BY <1>1 DEF ServerTimestamp
    <2>3. s.initialTimestamp \in Nat /\ Len(s.ops) \in Nat
      BY <1>1, Stamps
    <2> HIDE DEF i, n, s
    <2> QED BY <1>1, <1>2, <2>1, <2>2, <2>3
  <1>5. cli.numRows <= n
    <2>1. IsFiniteSet(1..n) /\ Cardinality(1..n) = n
      <3>1. n \in Nat
        BY <1>2
      <3> HIDE DEF n
      <3> QED BY <3>1, FS_Interval
    <2>2. A \subseteq 1..n
      BY DEF Adds
    <2>3. Cardinality(A) <= Cardinality(1..n)
      BY <2>1, <2>2, FS_Subset
    <2> QED BY <1>2, <2>1, <2>3
  <1> HIDE DEF s, n, i, d, A
  <1>6. i \in 0..MaxTime /\ d \in 0..MaxTime /\ cli.numRows \in 0..MaxTime
    BY <1>1, <1>2, <1>3, <1>4, <1>5
  <1> QED BY <1>6 DEF i, d, Timestamps

\* The types of all variables, for every value of the constants: the servers
\* and the write between them, the client, its layers, and what is asked,
\* answered and returned.
THEOREM UpdatableTypeOK == Spec => []TypeOK
  <1>1. ASSUME Watered, CallTyped, CallData PROVE TypeOK
    <2>1. /\ srv \in [Sides -> Servers(Data)]
          /\ todo \in [add : {TRUE}, rows : Seq(Op(Data)), pending : BOOLEAN]
                       \cup [add : {FALSE}, rows : Seq(Keys), pending : BOOLEAN]
      BY <1>1 DEF Watered, Following, ServersInv, ServersOK, TodoOK
    <2>2. \A s \in Sides : /\ srv[s].initialTimestamp \in Timestamps
                           /\ srv[s].defragTimestamp \in Timestamps
      BY <1>1, TimesWithin DEF Watered, Following, Timestamps
    <2>3. ClientOK(cli) /\ cli \in Clients /\ ServersInv
      BY <1>1 DEF Watered, Following, ClientInv, ClientOK
    <2>4. /\ cli.initialTimestamp \in Timestamps /\ cli.defragTimestamp \in Timestamps
          /\ cli.numRows \in Timestamps
      BY <1>1, ClientTimes DEF Watered
    <2>5. \A k \in DOMAIN cli.keyToPos : cli.keyToPos[k] \in 0..(cli.numRows - 1)
      BY <2>3, PositionsInRange
    <2>6. \A k \in DOMAIN cli.keyToPos :
            cli.keyToPos[k] < cli.numRows /\ cli.keyToPos[k] \in Timestamps
      <3>1. ASSUME NEW x \in 0..(cli.numRows - 1) PROVE x < cli.numRows /\ x \in 0..MaxTime
        <4>1. cli.numRows \in 0..MaxTime /\ MaxTime \in Nat
          BY <2>4, UpdatableAssumption DEF Timestamps
        <4> QED BY <4>1
      <3> QED BY <2>5, <3>1 DEF Timestamps
    <2>7. cli.keyToPos \in Maps(Timestamps)
      <3>1. PICK K \in SUBSET Keys : cli.keyToPos \in [K -> Nat]
        BY <2>3 DEF Clients, Maps
      <3>2. cli.keyToPos \in [K -> Timestamps]
        BY <2>6, <3>1
      <3> QED BY <3>2 DEF Maps
    <2>8. cli \in [initialTimestamp : Timestamps, defragTimestamp : Timestamps,
                   numRows : Timestamps, ops : Seq(KeyOps), keyToPos : Maps(Timestamps)]
      BY <2>3, <2>4, <2>7 DEF Clients
    <2>9. wf \in [numRows : Nat, layers : Seq(Layer(Stored))]
      BY <1>1 DEF Watered, WaterInv, Tiled
    <2> QED BY <1>1, <2>1, <2>2, <2>6, <2>8, <2>9 DEF TypeOK, CallTyped, CallData
  <1> QED BY CallDataAlways, <1>1, PTL

-----------------------------------------------------------------------------
(***************************************************************************)
(* Panics.  A SinglePass client's dummy request divides by zero at the     *)
(* server (DummyQuery of the findings), so the theorem is about the other  *)
(* schemes.                                                                *)
(***************************************************************************)
Stale == \E s \in Sides : srv[s].defragTimestamp > cli.defragTimestamp

\* A call panics only where OnlyStaleCallsPanic allows.
PanicOK == phase = "panicked" => HintLost \/ Stale

LEMMA HintPanicsOK ==
  ASSUME Watered, HintPanics
  PROVE  Stale
  <1> DEFINE s == srv["Left"]
             i == LastFilled(wf.layers)
             first == wf.layers[i].firstRow
             n == wf.layers[i].numRows
  <1>1. phase = "hinting" /\ first + n > Len(s.flatDb)
    BY DEF HintPanics, Overruns
  <1>2. /\ Tiled(wf, Stored) /\ wf.numRows = cli.numRows /\ i \in 1..Len(wf.layers) /\ n # 0
        /\ cli \in Clients /\ ServerOK(s, Data) /\ Fits(cli, s) /\ Following /\ "Left" \in Sides
    BY <1>1 DEF Watered, WaterInv, AwaitsHint, Following, ServersInv, ServersOK,
                ClientInv, ClientOK, Sides
  <1> HIDE DEF i
  <1>3. first \in Nat /\ n \in Nat /\ first + n <= cli.numRows /\ cli.numRows \in Nat
    BY <1>2, LayerWithin
  <1>4. s.defragTimestamp \in Nat /\ cli.defragTimestamp \in Nat /\ Len(s.flatDb) \in Nat
        /\ cli.defragTimestamp <= s.defragTimestamp
    BY <1>2, Stamps DEF Fits, ServerOK, Servers
  <1>5. s.defragTimestamp = cli.defragTimestamp => cli.numRows <= Len(s.flatDb)
    BY <1>2, RowsThere
  <1> HIDE DEF s, first, n
  <1>6. s.defragTimestamp > cli.defragTimestamp
    BY <1>1, <1>3, <1>4, <1>5
  <1> QED BY <1>2, <1>6 DEF Stale, s

LEMMA ReadPanicsOK ==
  ASSUME PirType # "SinglePass", Watered, Reading, phase = "reading", AllActive(wf),
         NEW side \in Sides, NEW m \in 1..Len(query.parts),
         Poisonous(query.parts[m]) \/ Overruns(srv[side], query.parts[m].last)
  PROVE  Stale
  <1> DEFINE s == srv[side]
             part == query.parts[m]
             pos == cli.keyToPos[query.key]
  <1>1. /\ Tiled(wf, Stored) /\ wf.numRows = cli.numRows
        /\ cli \in Clients /\ ClientOK(cli) /\ ServerOK(s, Data)
        /\ query.key \in DOMAIN cli.keyToPos
        /\ query.parts = WaterfallQuery(wf, pos)
        /\ AnswerOK(answer[side], s, cli, wf, query.parts)
        /\ cli.defragTimestamp <= s.defragTimestamp
    BY DEF Watered, WaterInv, Following, ServersInv, ServersOK, ClientInv, ClientOK,
           Reading, ReadOK, NotBehind
  <1>2. pos \in 0..(wf.numRows - 1) /\ wf.numRows \in Nat
    BY <1>1, PositionsInRange DEF Tiled
  <1>3. PICK i \in 1..Len(wf.layers) : PartOf(part, wf.layers[i], pos)
    <2> DEFINE q == WaterfallQuery(wf, pos)
    <2>1. pos \in Int
      BY <1>2
    <2> HIDE DEF pos
    <2>2. \A p \in 1..Len(q) : \E j \in 1..Len(wf.layers) : PartOf(q[p], wf.layers[j], pos)
      BY <1>1, <2>1, QueryFits
    <2> HIDE DEF q
    <2> QED BY <1>1, <2>2 DEF q
  <1> HIDE DEF part, pos
  <1>4. /\ part.first \in Nat /\ part.last \in Nat /\ part.first <= part.last
        /\ part.last <= cli.numRows /\ part.pirType \in Schemes
    BY <1>1, <1>3, PartWithin
  <1>5. ~Poisonous(part)
    <2>1. part.pirType # "SinglePass"
      BY <1>4 DEF Schemes
    <2>2. ~(part.last < part.first)
      BY <1>4
    <2> QED BY <2>1, <2>2 DEF Poisonous
  <1>6. part.last > Len(s.flatDb)
    BY <1>5 DEF Overruns, part
  <1>7. /\ s.defragTimestamp \in Nat /\ cli.defragTimestamp \in Nat /\ Len(s.flatDb) \in Nat
        /\ cli.numRows \in Nat
        /\ s.defragTimestamp = cli.defragTimestamp => cli.numRows <= Len(s.flatDb)
    BY <1>1, Stamps DEF ServerOK, Servers, AnswerOK
  <1>8. s.defragTimestamp > cli.defragTimestamp
    BY <1>1, <1>4, <1>6, <1>7
  <1> QED BY <1>8 DEF Stale, s

LEMMA PanicStep ==
  ASSUME PirType # "SinglePass", Watered, Reading, PanicOK, [Next]_vars
  PROVE  PanicOK'
  <1>1. Watered' /\ ServersNext
    BY FollowingStep, WaterStep DEF Watered
  <1>2. ASSUME Panic, phase # "hinting", phase # "panicked", Stale \/ ~AllActive(wf)
        PROVE  PanicOK'
    <2>1. phase' = "panicked" /\ srv' = srv /\ cli' = cli /\ wf' = wf
      BY <1>2 DEF Panic, cliVars
    <2> QED BY <1>2, <2>1 DEF PanicOK, Stale, HintLost, AllActive
  <1>3. HintPanics => PanicOK'
    <2> SUFFICES ASSUME HintPanics PROVE PanicOK'
      OBVIOUS
    <2>1. Stale
      BY HintPanicsOK
    <2>2. srv' = srv /\ cli' = cli
      BY DEF HintPanics, Panic, cliVars
    <2> QED BY <2>1, <2>2 DEF PanicOK, Stale
  <1>4. ASSUME NEW side \in Sides, AnswerPanics(side) PROVE PanicOK'
    <2>1. /\ phase = "reading" /\ Panic
          /\ \E m \in 1..Len(query.parts) :
               Poisonous(query.parts[m]) \/ Overruns(srv[side], query.parts[m].last)
      BY <1>4 DEF AnswerPanics, Awaits
    <2>2. PICK m \in 1..Len(query.parts) :
            Poisonous(query.parts[m]) \/ Overruns(srv[side], query.parts[m].last)
      BY <2>1
    <2>3. AllActive(wf) => Stale
      BY <2>1, <2>2, ReadPanicsOK
    <2> QED BY <1>2, <2>1, <2>3
  <1>5. ReconstructPanics => PanicOK'
    <2> SUFFICES ASSUME ReconstructPanics PROVE PanicOK'
      OBVIOUS
    <2>1. /\ phase = "reading" /\ Panic /\ Matching = 0
          /\ \A s \in Sides : answer[s].st = "ok"
      BY DEF ReconstructPanics, Answered
    <2>2. ASSUME AllActive(wf) PROVE Stale
      <3>1. ~SameDefrag
        BY <2>1, <2>2, ReconstructedOK DEF Reading
      <3>2. PICK s \in Sides : srv[s].defragTimestamp # cli.defragTimestamp
        BY <3>1 DEF SameDefrag
      <3>3. /\ cli \in Clients /\ ServerOK(srv[s], Data)
            /\ cli.defragTimestamp <= srv[s].defragTimestamp
        BY <2>1 DEF Watered, Following, ServersInv, ServersOK, ClientInv, ClientOK,
                    Reading, NotBehind
      <3>4. srv[s].defragTimestamp \in Nat /\ cli.defragTimestamp \in Nat
        BY <3>3, Stamps
      <3>5. srv[s].defragTimestamp > cli.defragTimestamp
        BY <3>2, <3>3, <3>4
      <3> QED BY <3>5 DEF Stale
    <2> QED BY <1>2, <2>1, <2>2
  <1>6. ASSUME cli' = cli, wf' = wf, phase' = phase PROVE PanicOK'
    <2> SUFFICES ASSUME phase = "panicked" PROVE HintLost' \/ Stale'
      BY <1>6 DEF PanicOK
    <2>1. HintLost => HintLost'
      BY <1>6 DEF HintLost
    <2>2. ASSUME Stale PROVE Stale'
      <3>1. PICK s \in Sides : srv[s].defragTimestamp > cli.defragTimestamp
        BY <2>2 DEF Stale
      <3>2. ServerOK(srv[s], Data) /\ ServerOK(srv'[s], Data) /\ Extends(srv[s], srv'[s])
        BY <1>1, SidesExtend DEF Watered, Following
      <3>3. cli \in Clients
        BY DEF Watered, Following, ClientInv, ClientOK
      <3>4. /\ srv[s].defragTimestamp \in Nat /\ cli.defragTimestamp \in Nat
            /\ srv'[s].defragTimestamp \in Nat
            /\ srv'[s].defragTimestamp >= srv[s].defragTimestamp
        BY <3>2, <3>3, Stamps DEF Extends
      <3>5. srv'[s].defragTimestamp > cli.defragTimestamp
        BY <3>1, <3>4
      <3> QED BY <1>6, <3>5 DEF Stale
    <2> QED BY <2>1, <2>2 DEF PanicOK
  <1> DEFINE Same == cli' = cli /\ wf' = wf /\ phase' = phase
  <1>7. ASSUME NEW write, WriteLeft(write) PROVE Same
    BY <1>7 DEF WriteLeft, cliVars
  <1>8. AddLeft \/ DeleteLeft => Same
    <2> HIDE DEF Same
    <2> QED BY <1>7 DEF AddLeft, DeleteLeft
  <1>9. WriteRight \/ UNCHANGED vars => Same
    BY DEF WriteRight, cliVars, vars
  <1>10. phase' # "panicked" => PanicOK'
    BY DEF PanicOK
  <1>11. UpdateKeys \/ Hint \/ HintFails \/ ReadReturns => phase' # "panicked"
    BY DEF UpdateKeys, Hint, HintFails, ReadReturns
  <1>12. ASSUME NEW key, Read(key) PROVE phase' # "panicked"
    BY <1>12 DEF Read
  <1>13. ASSUME NEW side, Answer(side) \/ AnswerFails(side) PROVE phase' # "panicked"
    BY <1>13 DEF Answer, AnswerFails, Awaits
  <1>14. Same => PanicOK'
    BY <1>6
  <1> HIDE DEF Same
  <1> QED BY <1>3, <1>4, <1>5, <1>8, <1>9, <1>10, <1>11, <1>12, <1>13, <1>14
          DEF Next, Writes, Updates, Reads

\* Unless the layers are SinglePass ones, neither client nor server panics
\* before a server has defragmented or a hint was lost (Update, Read,
\* UpdatableQueryReq.Process).
THEOREM OnlyStaleCallsPanicAlways ==
  ASSUME PirType # "SinglePass"
  PROVE  Spec => []OnlyStaleCallsPanic
  <1>1. Init => PanicOK
    BY DEF Init, PanicOK
  <1>2. Watered /\ Reading /\ PanicOK /\ [Next]_vars => PanicOK'
    BY PanicStep
  <1>3. Watered /\ PanicOK => OnlyStaleCallsPanic
    <2> SUFFICES ASSUME Watered, Stale PROVE ~SameDefrag
      BY DEF PanicOK, OnlyStaleCallsPanic
    <2>1. PICK s \in Sides : srv[s].defragTimestamp > cli.defragTimestamp
      BY DEF Stale
    <2>2. ServerOK(srv[s], Data) /\ cli \in Clients
      BY DEF Watered, Following, ServersInv, ServersOK, ClientInv, ClientOK
    <2>3. srv[s].defragTimestamp \in Nat /\ cli.defragTimestamp \in Nat
      BY <2>2, Stamps
    <2>4. srv[s].defragTimestamp # cli.defragTimestamp
      BY <2>1, <2>3
    <2> QED BY <2>4 DEF SameDefrag
  <1> QED BY ReadingAlways, <1>1, <1>2, <1>3, PTL DEF Spec
=============================================================================
