------------------------------ MODULE GgmProofs ------------------------------
(***************************************************************************)
(* Proofs about the puncturable sets (module GgmSet), for every size of    *)
(* set and of universe, every seed and every word of the leaves.           *)
(***************************************************************************)
EXTENDS GgmSet, CommonLemmas

-----------------------------------------------------------------------------
\* Powers of two, as far as words have bits.
LEMMA PowerStep ==
  ASSUME NEW k \in 0..31
  PROVE  2^k \in Nat /\ 2^k > 0 /\ 2^(k + 1) = 2 * 2^k
  <1>0. ASSUME k = 0 PROVE 2^k = 1 /\ 2^(k + 1) = 2
    <2>1. k + 1 = 1
      BY <1>0
    <2>2. 2^k = 2^0 /\ 2^(k + 1) = 2^1
      BY <1>0, <2>1, Zenon
    <2>. QED BY <2>2
  <1>1. ASSUME k = 1 PROVE 2^k = 2 /\ 2^(k + 1) = 4
    <2>1. k + 1 = 2
      BY <1>1
    <2>2. 2^k = 2^1 /\ 2^(k + 1) = 2^2
      BY <1>1, <2>1, Zenon
    <2>. QED BY <2>2
  <1>2. ASSUME k = 2 PROVE 2^k = 4 /\ 2^(k + 1) = 8
    <2>1. k + 1 = 3
      BY <1>2
    <2>2. 2^k = 2^2 /\ 2^(k + 1) = 2^3
      BY <1>2, <2>1, Zenon
    <2>. QED BY <2>2
  <1>3. ASSUME k = 3 PROVE 2^k = 8 /\ 2^(k + 1) = 16
    <2>1. k + 1 = 4
      BY <1>3
    <2>2. 2^k = 2^3 /\ 2^(k + 1) = 2^4
      BY <1>3, <2>1, Zenon
    <2>. QED BY <2>2
  <1>4. ASSUME k = 4 PROVE 2^k = 16 /\ 2^(k + 1) = 32
    <2>1. k + 1 = 5
      BY <1>4
    <2>2. 2^k = 2^4 /\ 2^(k + 1) = 2^5
      BY <1>4, <2>1, Zenon
    <2>. QED BY <2>2
  <1>5. ASSUME k = 5 PROVE 2^k = 32 /\ 2^(k + 1) = 64
    <2>1. k + 1 = 6
      BY <1>5
    <2>2. 2^k = 2^5 /\ 2^(k + 1) = 2^6
      BY <1>5, <2>1, Zenon
    <2>. QED BY <2>2
  <1>6. ASSUME k = 6 PROVE 2^k = 64 /\ 2^(k + 1) = 128
    <2>1. k + 1 = 7
      BY <1>6
    <2>2. 2^k = 2^6 /\ 2^(k + 1) = 2^7
      BY <1>6, <2>1, Zenon
    <2>. QED BY <2>2
  <1>7. ASSUME k = 7 PROVE 2^k = 128 /\ 2^(k + 1) = 256
    <2>1. k + 1 = 8
      BY <1>7
    <2>2. 2^k = 2^7 /\ 2^(k + 1) = 2^8
      BY <1>7, <2>1, Zenon
    <2>. QED BY <2>2
  <1>8. ASSUME k = 8 PROVE 2^k = 256 /\ 2^(k + 1) = 512
    <2>1. k + 1 = 9
      BY <1>8
    <2>2. 2^k = 2^8 /\ 2^(k + 1) = 2^9
      BY <1>8, <2>1, Zenon
    <2>. QED BY <2>2
  <1>9. ASSUME k = 9 PROVE 2^k = 512 /\ 2^(k + 1) = 1024
    <2>1. k + 1 = 10
      BY <1>9
    <2>2. 2^k = 2^9 /\ 2^(k + 1) = 2^10
      BY <1>9, <2>1, Zenon
    <2>. QED BY <2>2
  <1>10. ASSUME k = 10 PROVE 2^k = 1024 /\ 2^(k + 1) = 2048
    <2>1. k + 1 = 11
      BY <1>10
    <2>2. 2^k = 2^10 /\ 2^(k + 1) = 2^11
      BY <1>10, <2>1, Zenon
    <2>. QED BY <2>2
  <1>11. ASSUME k = 11 PROVE 2^k = 2048 /\ 2^(k + 1) = 4096
    <2>1. k + 1 = 12
      BY <1>11
    <2>2. 2^k = 2^11 /\ 2^(k + 1) = 2^12
      BY <1>11, <2>1, Zenon
    <2>. QED BY <2>2
  <1>12. ASSUME k = 12 PROVE 2^k = 4096 /\ 2^(k + 1) = 8192
    <2>1. k + 1 = 13
      BY <1>12
    <2>2. 2^k = 2^12 /\ 2^(k + 1) = 2^13
      BY <1>12, <2>1, Zenon
    <2>. QED BY <2>2
  <1>13. ASSUME k = 13 PROVE 2^k = 8192 /\ 2^(k + 1) = 16384
    <2>1. k + 1 = 14
      BY <1>13
    <2>2. 2^k = 2^13 /\ 2^(k + 1) = 2^14
      BY <1>13, <2>1, Zenon
    <2>. QED BY <2>2
  <1>14. ASSUME k = 14 PROVE 2^k = 16384 /\ 2^(k + 1) = 32768
    <2>1. k + 1 = 15
      BY <1>14
    <2>2. 2^k = 2^14 /\ 2^(k + 1) = 2^15
      BY <1>14, <2>1, Zenon
    <2>. QED BY <2>2
  <1>15. ASSUME k = 15 PROVE 2^k = 32768 /\ 2^(k + 1) = 65536
    <2>1. k + 1 = 16
      BY <1>15
    <2>2. 2^k = 2^15 /\ 2^(k + 1) = 2^16
      BY <1>15, <2>1, Zenon
    <2>. QED BY <2>2
  <1>16. ASSUME k = 16 PROVE 2^k = 65536 /\ 2^(k + 1) = 131072
    <2>1. k + 1 = 17
      BY <1>16
    <2>2. 2^k = 2^16 /\ 2^(k + 1) = 2^17
      BY <1>16, <2>1, Zenon
    <2>. QED BY <2>2
  <1>17. ASSUME k = 17 PROVE 2^k = 131072 /\ 2^(k + 1) = 262144
    <2>1. k + 1 = 18
      BY <1>17
    <2>2. 2^k = 2^17 /\ 2^(k + 1) = 2^18
      BY <1>17, <2>1, Zenon
    <2>. QED BY <2>2
  <1>18. ASSUME k = 18 PROVE 2^k = 262144 /\ 2^(k + 1) = 524288
    <2>1. k + 1 = 19
      BY <1>18
    <2>2. 2^k = 2^18 /\ 2^(k + 1) = 2^19
      BY <1>18, <2>1, Zenon
    <2>. QED BY <2>2
  <1>19. ASSUME k = 19 PROVE 2^k = 524288 /\ 2^(k + 1) = 1048576
    <2>1. k + 1 = 20
      BY <1>19
    <2>2. 2^k = 2^19 /\ 2^(k + 1) = 2^20
      BY <1>19, <2>1, Zenon
    <2>. QED BY <2>2
  <1>20. ASSUME k = 20 PROVE 2^k = 1048576 /\ 2^(k + 1) = 2097152
    <2>1. k + 1 = 21
      BY <1>20
    <2>2. 2^k = 2^20 /\ 2^(k + 1) = 2^21
      BY <1>20, <2>1, Zenon
    <2>. QED BY <2>2
  <1>21. ASSUME k = 21 PROVE 2^k = 2097152 /\ 2^(k + 1) = 4194304
    <2>1. k + 1 = 22
      BY <1>21
    <2>2. 2^k = 2^21 /\ 2^(k + 1) = 2^22
      BY <1>21, <2>1, Zenon
    <2>. QED BY <2>2
  <1>22. ASSUME k = 22 PROVE 2^k = 4194304 /\ 2^(k + 1) = 8388608
    <2>1. k + 1 = 23
      BY <1>22
    <2>2. 2^k = 2^22 /\ 2^(k + 1) = 2^23
      BY <1>22, <2>1, Zenon
    <2>. QED BY <2>2
  <1>23. ASSUME k = 23 PROVE 2^k = 8388608 /\ 2^(k + 1) = 16777216
    <2>1. k + 1 = 24
      BY <1>23
    <2>2. 2^k = 2^23 /\ 2^(k + 1) = 2^24
      BY <1>23, <2>1, Zenon
    <2>. QED BY <2>2
  <1>24. ASSUME k = 24 PROVE 2^k = 16777216 /\ 2^(k + 1) = 33554432
    <2>1. k + 1 = 25
      BY <1>24
    <2>2. 2^k = 2^24 /\ 2^(k + 1) = 2^25
      BY <1>24, <2>1, Zenon
    <2>. QED BY <2>2
  <1>25. ASSUME k = 25 PROVE 2^k = 33554432 /\ 2^(k + 1) = 67108864
    <2>1. k + 1 = 26
      BY <1>25
    <2>2. 2^k = 2^25 /\ 2^(k + 1) = 2^26
      BY <1>25, <2>1, Zenon
    <2>. QED BY <2>2
  <1>26. ASSUME k = 26 PROVE 2^k = 67108864 /\ 2^(k + 1) = 134217728
    <2>1. k + 1 = 27
      BY <1>26
    <2>2. 2^k = 2^26 /\ 2^(k + 1) = 2^27
      BY <1>26, <2>1, Zenon
    <2>. QED BY <2>2
  <1>27. ASSUME k = 27 PROVE 2^k = 134217728 /\ 2^(k + 1) = 268435456
    <2>1. k + 1 = 28
      BY <1>27
    <2>2. 2^k = 2^27 /\ 2^(k + 1) = 2^28
      BY <1>27, <2>1, Zenon
    <2>. QED BY <2>2
  <1>28. ASSUME k = 28 PROVE 2^k = 268435456 /\ 2^(k + 1) = 536870912
    <2>1. k + 1 = 29
      BY <1>28
    <2>2. 2^k = 2^28 /\ 2^(k + 1) = 2^29
      BY <1>28, <2>1, Zenon
    <2>. QED BY <2>2
  <1>29. ASSUME k = 29 PROVE 2^k = 536870912 /\ 2^(k + 1) = 1073741824
    <2>1. k + 1 = 30
      BY <1>29
    <2>2. 2^k = 2^29 /\ 2^(k + 1) = 2^30
      BY <1>29, <2>1, Zenon
    <2>. QED BY <2>2
  <1>30. ASSUME k = 30 PROVE 2^k = 1073741824 /\ 2^(k + 1) = 2147483648
    <2>1. k + 1 = 31
      BY <1>30
    <2>2. 2^k = 2^30 /\ 2^(k + 1) = 2^31
      BY <1>30, <2>1, Zenon
    <2>. QED BY <2>2
  <1>31. ASSUME k = 31 PROVE 2^k = 2147483648 /\ 2^(k + 1) = 4294967296
    <2>1. k + 1 = 32
      BY <1>31
    <2>2. 2^k = 2^31 /\ 2^(k + 1) = 2^32
      BY <1>31, <2>1, Zenon
    <2>. QED BY <2>2
  <1>. DEFINE a == 2^k
              b == 2^(k + 1)
  <1>32. a \in Nat /\ a > 0 /\ b = 2 * a
    <2>. HIDE DEF a, b
    <2>. QED
      BY <1>0, <1>1, <1>2, <1>3, <1>4, <1>5, <1>6, <1>7, <1>8, <1>9, <1>10, <1>11, <1>12, <1>13, <1>14, <1>15, <1>16, <1>17, <1>18, <1>19, <1>20, <1>21, <1>22, <1>23, <1>24, <1>25, <1>26, <1>27, <1>28, <1>29, <1>30, <1>31 DEF a, b
  <1>. QED
    BY <1>32

LEMMA PowersSmall == 2^0 = 1 /\ 2^1 = 2 /\ 2^2 = 4
  OBVIOUS

LEMMA PowersGrow ==
  ASSUME NEW k \in 0..32, NEW j \in 0..k
  PROVE  2^k \in Nat /\ 2^k > 0 /\ 2^j <= 2^k
  <1>. DEFINE T == {n \in Nat : n \in 0..32 =>
                      2^n \in Nat /\ 2^n > 0 /\ \A m \in 0..n : 2^m <= 2^n}
  <1>1. 0 \in T
    <2>1. \A m \in 0..0 : m = 0
      OBVIOUS
    <2>2. 2^0 \in Nat /\ 2^0 > 0 /\ 2^0 <= 2^0
      BY PowersSmall
    <2>3. \A m \in 0..0 : 2^m <= 2^0
      BY <2>1, <2>2, Zenon
    <2>. QED BY <2>2, <2>3
  <1>2. ASSUME NEW n \in Nat, n \in T PROVE n + 1 \in T
    <2>1. SUFFICES ASSUME n + 1 \in 0..32
                   PROVE  2^(n + 1) \in Nat /\ 2^(n + 1) > 0 /\ \A m \in 0..n + 1 : 2^m <= 2^(n + 1)
      OBVIOUS
    <2>2. n \in 0..31 /\ n \in 0..32
      BY <2>1
    <2>. DEFINE p == 2^n
                q == 2^(n + 1)
    <2>3. p \in Nat /\ p > 0 /\ q = 2 * p
      BY <2>2, PowerStep
    <2>4. \A m \in 0..n : 2^m <= p
      BY <1>2, <2>2
    <2>. HIDE DEF p, q
    <2>5. q \in Nat /\ q > 0
      BY <2>3
    <2>6. ASSUME NEW m \in 0..n + 1 PROVE 2^m <= q
      <3>1. CASE m = n + 1
        <4>1. 2^m = q
          BY <3>1, Zenon DEF q
        <4>. QED BY <4>1, <2>5
      <3>2. CASE m \in 0..n
        <4>. DEFINE x == 2^m
        <4>1. x <= p
          BY <3>2, <2>4
        <4>2. x \in Nat
          <5>1. m \in 0..31
            BY <3>2, <2>2
          <5>. QED BY <5>1, PowerStep
        <4>. HIDE DEF x
        <4>3. x <= q
          BY <4>1, <4>2, <2>3
        <4>. QED BY <4>3 DEF x
      <3>. QED BY <3>1, <3>2
    <2>. QED BY <2>5, <2>6 DEF q
  <1>3. \A n \in Nat : n \in T
    <2>. HIDE DEF T
    <2>. QED BY <1>1, <1>2, NaturalsInSet
  <1>4. k \in T
    BY <1>3
  <1>. QED
    BY <1>4

\* Dividing twice.
LEMMA DivDiv ==
  ASSUME NEW i \in Nat, NEW a \in Nat, NEW b \in Nat, a > 0, b > 0
  PROVE  (i \div a) \div b = i \div (a * b)
  <1>. DEFINE q == i \div a
              r == i % a
              t == q \div b
              s == q % b
              ab == a * b
              tb == t * b
              sa == a * s
  <1>1. q \in Int /\ r \in 0..a - 1 /\ i = a * q + r
    BY DivMod
  <1>2. t \in Int /\ s \in 0..b - 1 /\ q = b * t + s
    <2>. HIDE DEF q
    <2>. QED BY <1>1, DivMod DEF t, s
  <1>3. a * q = t * ab + sa
    <2>. HIDE DEF q, t, s, r
    <2>1. q = tb + s
      BY <1>2
    <2>2. a * (tb + s) = a * tb + sa
      BY <1>2
    <2>3. a * tb = t * ab
      BY <1>2
    <2>. HIDE DEF tb, sa, ab
    <2>. QED BY <2>1, <2>2, <2>3
  <1>4. sa + r \in 0..ab - 1 /\ ab > 0 /\ ab \in Nat /\ sa \in Nat
    <2>. HIDE DEF q, t, s, r
    <2>1. ab \in Nat /\ sa \in Nat
      BY <1>2
    <2>0. r \in 0..a - 1
      BY <1>1
    <2>2. s * a + a <= b * a
      BY <1>2, BlocksApart
    <2>3. s * a = sa /\ b * a = ab
      BY <1>2
    <2>. HIDE DEF sa, ab
    <2>4. sa + a <= ab
      BY <2>1, <2>2, <2>3
    <2>5. r \in Int /\ 0 <= r /\ r < a
      BY <2>0
    <2>6. sa + r \in Int /\ 0 <= sa + r /\ sa + r <= ab - 1
      BY <2>1, <2>4, <2>5
    <2>7. ab > 0
      BY <2>1, <2>4
    <2>. QED BY <2>1, <2>6, <2>7
  <1>5. i = t * ab + (sa + r)
    <2>. HIDE DEF q, t, s, r, sa
    <2>. DEFINE aq == a * q
                u == t * ab
    <2>1. aq \in Int /\ u \in Int
      BY <1>1, <1>2, <1>4
    <2>2. i = aq + r /\ aq = u + sa
      BY <1>1, <1>3
    <2>0. r \in 0..a - 1 /\ sa \in Nat
      BY <1>1, <1>4
    <2>. HIDE DEF aq, u, ab
    <2>3. i = u + (sa + r)
      BY <2>0, <2>1, <2>2
    <2>. QED BY <2>3 DEF u
  <1>. DEFINE p == sa + r
  <1>. HIDE DEF p, ab, t
  <1>6. (t * ab + p) \div ab = t
    <2>1. p \in 0..ab - 1
      BY <1>4 DEF p
    <2>. QED BY <1>2, <1>4, <2>1, DivUnique
  <1>. QED
    BY <1>5, <1>6 DEF p, t, ab

LEMMA DivNat ==
  ASSUME NEW i \in Nat, NEW a \in Nat, a > 0
  PROVE  i \div a \in Nat /\ (i < a => i \div a = 0)
  <1>. DEFINE q == i \div a
              r == i % a
  <1>1. q \in Int /\ r \in 0..a - 1 /\ i = a * q + r
    BY DivMod
  <1>. DEFINE b == q * a
  <1>2. b \in Int /\ a * q = b
    BY <1>1
  <1>3. (q < 0 => b + a <= 0) /\ (0 < q => a <= b)
    <2>1. q < 0 => q * a + a <= 0 * a
      BY <1>1, BlocksApart
    <2>2. 0 < q => 0 * a + a <= q * a
      BY <1>1, BlocksApart
    <2>. QED BY <2>1, <2>2
  <1>. HIDE DEF q, r, b
  <1>4. i = b + r
    BY <1>1, <1>2
  <1>5. ~(q < 0) /\ (i < a => ~(0 < q))
    BY <1>1, <1>2, <1>3, <1>4
  <1>. QED
    BY <1>1, <1>5 DEF q

\* Half of a number, and what powers of two have to do with it.
LEMMA Halves ==
  ASSUME NEW i \in Nat, NEW k \in 0..31
  PROVE  /\ (i \div 2) \div 2^k = i \div 2^(k + 1)
         /\ (i \div 2^k) \div 2 = i \div 2^(k + 1)
  <1>. DEFINE p == 2^k
  <1>1. p \in Nat /\ p > 0 /\ 2^(k + 1) = 2 * p
    BY PowerStep
  <1>. HIDE DEF p
  <1>2. (i \div 2) \div p = i \div (2 * p)
    BY <1>1, DivDiv
  <1>3. (i \div p) \div 2 = i \div (p * 2)
    BY <1>1, DivDiv
  <1>4. p * 2 = 2 * p
    BY <1>1
  <1>. QED
    BY <1>1, <1>2, <1>3, <1>4 DEF p

LEMMA HalfOf ==
  ASSUME NEW i \in Nat
  PROVE  /\ i \div 2 \in Nat /\ i % 2 \in {0, 1} /\ i = 2 * (i \div 2) + (i % 2)
         /\ i \div 4 \in Nat /\ i % 4 \in 0..3 /\ i = 4 * (i \div 4) + (i % 4)
  <1>1. 2 \in Nat /\ 2 > 0 /\ 4 \in Nat /\ 4 > 0 /\ i \in Int
    OBVIOUS
  <1>2. i \div 2 \in Nat /\ i \div 4 \in Nat
    BY <1>1, DivNat
  <1>3. i % 2 \in 0..2 - 1 /\ i = 2 * (i \div 2) + (i % 2)
    BY <1>1, DivMod
  <1>4. i % 4 \in 0..4 - 1 /\ i = 4 * (i \div 4) + (i % 4)
    BY <1>1, DivMod
  <1>. QED
    BY <1>2, <1>3, <1>4

-----------------------------------------------------------------------------
\* The height of a set's tree, the layers it has and where they end.
LEMMA HeightSpec ==
  ASSUME NEW v \in 1..2^26
  PROVE  get_height(v) \in 1..26 /\ v <= 2^get_height(v)
  <1>. DEFINE u == v - 1
              P(r) == u \div 2^(r + 1) = 0 /\ (r = 0 \/ u \div 2^r # 0)
              N == 2^26
  <1>1. u \in Nat /\ u < N /\ N \in Nat
    <2>1. N \in Nat
      BY PowersGrow
    <2>. HIDE DEF N
    <2>2. v \in 1..N
      BY DEF N
    <2>. QED BY <2>1, <2>2
  <1>. HIDE DEF u, N
  <1>2. ASSUME NEW r \in 0..31, u < 2^r PROVE u \div 2^r = 0
    <2>. DEFINE p == 2^r
    <2>1. p \in Nat /\ p > 0
      BY PowerStep
    <2>. HIDE DEF p
    <2>2. u < p
      BY <1>2 DEF p
    <2>3. u \div p = 0
      BY <1>1, <2>1, <2>2, DivNat
    <2>. QED BY <2>3 DEF p
  <1>3. \E r \in 0..31 : P(r)
    <2>. DEFINE T == {r \in Nat : u \div 2^(r + 1) = 0}
    <2>1. 25 \in T
      <3>1. u \div 2^26 = 0
        BY <1>1, <1>2 DEF N
      <3>. QED BY <3>1
    <2>2. PICK r \in T : \A y \in T : r <= y
      <3>. HIDE DEF T
      <3>1. T \subseteq Nat
        BY DEF T
      <3>. QED BY <2>1, <3>1, LeastNatural
    <2>3. r \in Nat /\ r <= 25 /\ u \div 2^(r + 1) = 0
      BY <2>1, <2>2
    <2>4. r # 0 => u \div 2^r # 0
      <3>1. SUFFICES ASSUME r # 0, u \div 2^r = 0 PROVE FALSE
        OBVIOUS
      <3>2. r - 1 \in Nat /\ (r - 1) + 1 = r
        BY <2>3, <3>1
      <3>. DEFINE s == r - 1
      <3>3. s \in Nat /\ s + 1 = r
        BY <3>2
      <3>. HIDE DEF s
      <3>4. u \div 2^(s + 1) = 0
        BY <3>1, <3>3
      <3>5. s \in T
        BY <3>3, <3>4
      <3>6. r <= s
        BY <2>2, <3>5
      <3>. QED BY <3>3, <3>6, <2>3
    <2>5. r \in 0..31
      BY <2>3
    <2>. QED BY <2>3, <2>4, <2>5
  <1>4. PICK r \in 0..31 : get_height(v) = 1 + r /\ P(r)
    <2>. DEFINE h == CHOOSE r \in 0..31 : P(r)
    <2>1. h \in 0..31 /\ P(h)
      <3>. HIDE DEF P
      <3>. QED BY <1>3
    <2>2. get_height(v) = 1 + h
      BY Zenon DEF get_height, u
    <2>. HIDE DEF h, P
    <2>. QED BY <2>1, <2>2
  <1>5. r <= 25
    <2>1. SUFFICES ASSUME r > 25 PROVE FALSE
      BY <1>4
    <2>2. r \in 26..31 /\ r # 0
      BY <2>1, <1>4
    <2>3. u \div 2^r # 0
      BY <1>4, <2>2
    <2>4. 2^26 <= 2^r
      <3>1. r \in 0..32 /\ 26 \in 0..r
        BY <2>2
      <3>. QED BY <3>1, PowersGrow
    <2>. DEFINE p == 2^r
    <2>5. p \in Nat
      BY PowerStep
    <2>6. u < p
      <3>1. N <= p
        BY <2>4 DEF N
      <3>. HIDE DEF p
      <3>. QED BY <1>1, <2>5, <3>1
    <2>7. u \div 2^r = 0
      BY <1>2, <2>6
    <2>. QED BY <2>3, <2>7
  <1>6. u < 2^(r + 1)
    <2>. DEFINE p == 2^(r + 1)
                q == u \div p
                m == u % p
    <2>1. p \in Nat /\ p > 0
      <3>1. r + 1 \in 0..31
        BY <1>5, <1>4
      <3>. QED BY <3>1, PowerStep
    <2>2. q = 0
      BY <1>4
    <2>3. m \in 0..p - 1 /\ u = p * q + m
      <3>. HIDE DEF p
      <3>. QED BY <1>1, <2>1, DivMod
    <2>. HIDE DEF p, q, m
    <2>4. u = m
      BY <2>1, <2>2, <2>3
    <2>5. u < p
      BY <2>1, <2>3, <2>4
    <2>. QED BY <2>5 DEF p
  <1>7. v <= 2^(1 + r)
    <2>. DEFINE p == 2^(1 + r)
    <2>1. 1 + r = r + 1 /\ r + 1 \in 0..31
      BY <1>4, <1>5
    <2>2. p = 2^(r + 1)
      BY <2>1, Zenon
    <2>3. p \in Nat
      <3>1. 2^(r + 1) \in Nat
        BY <2>1, PowerStep
      <3>. QED BY <2>2, <3>1
    <2>4. u < p
      BY <1>6, <2>2
    <2>. HIDE DEF p
    <2>5. v <= p
      BY <1>1, <2>3, <2>4 DEF u
    <2>. QED BY <2>5 DEF p
  <1>8. 1 + r \in 1..26
    BY <1>4, <1>5
  <1>. QED
    BY <1>4, <1>7, <1>8, Zenon

\* The least that the rest needs to know of a generator's set size.
SizeOk == setSize \in 1..2^26

LEMMA Shape ==
  ASSUME SizeOk
  PROVE  /\ height \in 1..26 /\ Half \in Nat /\ Half >= 2
         /\ setSize \in Nat /\ 1 <= setSize /\ setSize <= Half
         /\ Layers \in 0..24 /\ Layers < height
         /\ height > 2 => Layers = height - 2
         /\ ~(height > 2) => Layers = 0
  <1>1. height \in 1..26 /\ setSize <= Half
    BY HeightSpec, Zenon DEF SizeOk, height, Half
  <1>2. Half \in Nat /\ 2^1 <= Half
    <2>. DEFINE h == height
    <2>1. h \in 0..32 /\ 1 \in 0..h
      <3>. HIDE DEF h
      <3>1. h \in 1..26
        BY <1>1 DEF h
      <3>. QED BY <3>1
    <2>2. 2^h \in Nat /\ 2^1 <= 2^h
      <3>. HIDE DEF h
      <3>. QED BY <2>1, PowersGrow
    <2>. QED BY <2>2, Zenon DEF Half
  <1>3. setSize \in Nat /\ 1 <= setSize
    <2>. DEFINE N == 2^26
    <2>1. N \in Nat
      BY PowerStep
    <2>2. setSize \in 1..N
      BY Zenon DEF SizeOk
    <2>. HIDE DEF N
    <2>. QED BY <2>1, <2>2
  <1>4. Half >= 2
    BY <1>2, PowersSmall
  <1>. DEFINE h == height
  <1>5. Layers = IF h > 2 THEN h - 2 ELSE 0
    BY Zenon DEF Layers
  <1>6. h \in 1..26
    BY <1>1
  <1>. HIDE DEF h
  <1>7. /\ Layers \in 0..24 /\ Layers < h
        /\ h > 2 => Layers = h - 2
        /\ ~(h > 2) => Layers = 0
    BY <1>5, <1>6
  <1>. QED
    BY <1>1, <1>2, <1>3, <1>4, <1>7 DEF h

LEMMA LayerPowers ==
  ASSUME SizeOk, NEW d \in 0..Layers
  PROVE  /\ d \in 0..31 /\ 2^d \in Nat /\ 2^d > 0 /\ 2^d <= Half
         /\ d < Layers => d + 1 \in 0..Layers /\ 2^(d + 1) = 2 * 2^d
  <1>. DEFINE h == height
              l == Layers
  <1>1. h \in 1..26 /\ l \in 0..24 /\ l < h
    BY Shape
  <1>2. Half = 2^h
    BY Zenon DEF Half
  <1>3. d \in 0..l
    OBVIOUS
  <1>. HIDE DEF h, l
  <1>4. d \in 0..31 /\ h \in 0..32 /\ d \in 0..h /\ (d < l => d + 1 \in 0..l)
    BY <1>1, <1>3
  <1>5. 2^d \in Nat /\ 2^d > 0 /\ 2^(d + 1) = 2 * 2^d
    BY <1>4, PowerStep
  <1>6. 2^d <= 2^h
    BY <1>4, PowersGrow
  <1>. QED
    BY <1>2, <1>4, <1>5, <1>6 DEF l

-----------------------------------------------------------------------------
\* The node above leaf pos, in the layer of a depth.
NodeOn(pos, d) == pos \div 2^(height - d)

Sibling(n) == IF n % 2 = 0 THEN n + 1 ELSE n - 1

\* What is below a node, and what is beside it.
LEMMA NodeBelow ==
  ASSUME SizeOk, NEW pos \in Nat, NEW d \in 0..Layers, d < Layers
  PROVE  /\ NodeOn(pos, d + 1) \div 2 = NodeOn(pos, d)
         /\ BitAt(pos, d) = NodeOn(pos, d + 1) % 2
         /\ Beside(pos, d) = Sibling(NodeOn(pos, d + 1))
  <1>. DEFINE h == height
              l == Layers
              k == h - (d + 1)
  <1>1. h \in 1..26 /\ l \in 0..24 /\ l < h /\ d \in 0..l /\ d < l
    BY Shape
  <1>2. k \in 0..31 /\ k + 1 = h - d /\ h - 1 - d = k
    <2>. HIDE DEF h, l
    <2>. QED BY <1>1
  <1>3. (pos \div 2^k) \div 2 = pos \div 2^(h - d)
    <2>. HIDE DEF h, k
    <2>1. (pos \div 2^k) \div 2 = pos \div 2^(k + 1)
      BY <1>2, Halves
    <2>. QED BY <1>2, <2>1
  <1>4. /\ NodeOn(pos, d + 1) = pos \div 2^k
        /\ NodeOn(pos, d) = pos \div 2^(h - d)
    BY Zenon DEF NodeOn
  <1>5. /\ BitAt(pos, d) = (pos \div 2^k) % 2
        /\ Beside(pos, d) = Sibling(pos \div 2^k)
    <2>1. /\ BitAt(pos, d) = (pos \div 2^(h - 1 - d)) % 2
          /\ Beside(pos, d) = Sibling(pos \div 2^(h - 1 - d))
      BY Zenon DEF BitAt, Beside, Sibling
    <2>. HIDE DEF h, k
    <2>. QED BY <1>2, <2>1
  <1>. HIDE DEF h, k
  <1>. QED
    BY <1>3, <1>4, <1>5

LEMMA SiblingOf ==
  ASSUME NEW n \in Nat
  PROVE  /\ Sibling(n) \in Nat /\ Sibling(n) # n
         /\ Sibling(n) \div 2 = n \div 2 /\ Sibling(n) % 2 = 1 - (n % 2)
         /\ \A m \in Nat : m \div 2 = n \div 2 => m = n \/ m = Sibling(n)
  <1>. DEFINE s == Sibling(n)
              q == n \div 2
              r == n % 2
  <1>1. q \in Nat /\ r \in {0, 1} /\ n = 2 * q + r
    BY HalfOf
  <1>2. s = IF r = 0 THEN n + 1 ELSE n - 1
    BY Zenon DEF Sibling
  <1>. HIDE DEF s, q, r
  <1>3. s \in Nat /\ s # n
    BY <1>1, <1>2
  <1>4. s \div 2 \in Nat /\ s % 2 \in {0, 1} /\ s = 2 * (s \div 2) + (s % 2)
    BY <1>3, HalfOf
  <1>5. s = 2 * q + (1 - r)
    BY <1>1, <1>2
  <1>6. s \div 2 = q /\ s % 2 = 1 - r
    BY <1>1, <1>4, <1>5
  <1>7. ASSUME NEW m \in Nat, m \div 2 = q PROVE m = n \/ m = s
    <2>1. m % 2 \in {0, 1} /\ m = 2 * q + (m % 2)
      BY <1>7, HalfOf
    <2>. QED BY <1>1, <1>5, <2>1
  <1>. QED
    BY <1>3, <1>6, <1>7 DEF s, q, r

LEMMA NodeInLayer ==
  ASSUME SizeOk, NEW pos \in 0..Half - 1
  PROVE  /\ \A d \in 0..Layers : NodeOn(pos, d) \in 0..2^d - 1
         /\ NodeOn(pos, 0) = 0
         /\ NodeOn(pos, Layers) = pos \div 4
  <1>. DEFINE h == height
              l == Layers
              H == Half
              z == pos \div H
  <1>1. h \in 1..26 /\ l \in 0..24 /\ l < h /\ H \in Nat /\ H >= 2
        /\ (h > 2 => l = h - 2) /\ (~(h > 2) => l = 0)
    BY Shape
  <1>2. pos \in Nat /\ pos < H
    <2>. HIDE DEF H
    <2>1. pos \in 0..H - 1
      BY DEF H
    <2>. QED BY <1>1, <2>1
  <1>3. z = 0
    <2>. HIDE DEF H
    <2>. QED BY <1>1, <1>2, DivNat
  <1>4. NodeOn(pos, 0) = 0
    <2>1. NodeOn(pos, 0) = pos \div 2^(h - 0) /\ z = pos \div 2^h
      BY Zenon DEF NodeOn, Half
    <2>. HIDE DEF h, z
    <2>2. h - 0 = h
      BY <1>1
    <2>. QED BY <1>3, <2>1, <2>2
  <1>5. NodeOn(pos, l) = pos \div 4
    <2>1. NodeOn(pos, l) = pos \div 2^(h - l)
      BY Zenon DEF NodeOn
    <2>2. CASE h > 2
      <3>. HIDE DEF h, l
      <3>1. h - l = 2
        BY <1>1, <2>2
      <3>2. NodeOn(pos, l) = pos \div 2^2
        BY <2>1, <3>1
      <3>. QED BY <3>2, PowersSmall
    <2>3. CASE ~(h > 2)
      <3>1. l = 0
        BY <1>1, <2>3
      <3>2. H <= 4
        <4>1. h = 1 \/ h = 2
          <5>. HIDE DEF h
          <5>. QED BY <1>1, <2>3
        <4>2. H = 2^h
          BY Zenon DEF Half
        <4>. HIDE DEF h, H
        <4>3. H = 2^1 \/ H = 2^2
          BY <4>1, <4>2
        <4>. QED BY <4>3, PowersSmall
      <3>3. pos < 4
        <4>. HIDE DEF H
        <4>. QED BY <1>1, <1>2, <3>2
      <3>4. pos \div 4 = 0
        BY <1>2, <3>3, DivNat
      <3>5. NodeOn(pos, l) = 0
        BY <1>4, <3>1
      <3>. QED BY <3>4, <3>5
    <2>. QED BY <2>2, <2>3
  <1>6. \A d \in 0..l : NodeOn(pos, d) \in 0..2^d - 1
    <2>. DEFINE T == {d \in Nat : d \in 0..l => NodeOn(pos, d) \in 0..2^d - 1}
    <2>1. 0 \in T
      BY <1>4, PowersSmall
    <2>2. ASSUME NEW d \in Nat, d \in T PROVE d + 1 \in T
      <3>1. SUFFICES ASSUME d + 1 \in 0..l PROVE NodeOn(pos, d + 1) \in 0..2^(d + 1) - 1
        OBVIOUS
      <3>2. d \in 0..l /\ d < l
        <4>. HIDE DEF l
        <4>. QED BY <1>1, <3>1
      <3>. DEFINE p == 2^d
                  n == NodeOn(pos, d)
                  m == NodeOn(pos, d + 1)
                  s == h - (d + 1)
      <3>3. p \in Nat /\ 2^(d + 1) = 2 * p
        BY <3>2, LayerPowers
      <3>4. n \in 0..p - 1
        BY <2>2, <3>2
      <3>5. m \div 2 = n
        BY <1>2, <3>2, NodeBelow
      <3>6. m \in Nat
        <4>1. m = pos \div 2^s
          BY Zenon DEF NodeOn
        <4>. HIDE DEF h, l, m
        <4>2. s \in 0..31
          BY <1>1, <3>2
        <4>. DEFINE q == 2^s
        <4>3. q \in Nat /\ q > 0
          <5>. HIDE DEF s
          <5>. QED BY <4>2, PowerStep
        <4>4. pos \div q \in Nat
          <5>. HIDE DEF q
          <5>. QED BY <1>2, <4>3, DivNat
        <4>. QED BY <4>1, <4>4
      <3>. HIDE DEF m, n, p
      <3>7. m % 2 \in {0, 1} /\ m = 2 * n + (m % 2)
        BY <3>5, <3>6, HalfOf
      <3>8. m \in 0..2 * p - 1
        BY <3>3, <3>4, <3>6, <3>7
      <3>. QED BY <3>3, <3>8 DEF m
    <2>3. \A d \in Nat : d \in T
      <3>. HIDE DEF T
      <3>. QED BY <2>1, <2>2, NaturalsInSet
    <2>4. \A d \in 0..l : d \in T
      <3>1. \A d \in 0..l : d \in Nat
        <4>. HIDE DEF l
        <4>. QED BY <1>1
      <3>. HIDE DEF T
      <3>. QED BY <2>3, <3>1
    <2>. QED BY <2>4
  <1>. QED
    BY <1>4, <1>5, <1>6

-----------------------------------------------------------------------------
\* Appending to a function over 1..m.
LEMMA AppendIs ==
  ASSUME NEW m \in Nat, NEW s, s = [i \in 1..m |-> s[i]], NEW e
  PROVE  /\ Append(s, e) = [i \in 1..m + 1 |-> IF i <= m THEN s[i] ELSE e]
         /\ Len(s) = m /\ Len(Append(s, e)) = m + 1
  <1>. DEFINE S == {s[i] : i \in 1..m} \cup {e}
              t == [i \in 1..m + 1 |-> IF i <= m THEN s[i] ELSE e]
              a == Append(s, e)
  <1>1. s \in [1..m -> S] /\ DOMAIN s = 1..m
    BY Zenon
  <1>2. s \in Seq(S)
    <2>. HIDE DEF S
    <2>. QED BY <1>1
  <1>3. Len(s) = m
    <2>. HIDE DEF S
    <2>1. Len(s) \in Nat /\ DOMAIN s = 1..Len(s)
      BY <1>2, LenProperties, Zenon
    <2>. QED BY <1>1, <2>1
  <1>4. e \in S
    OBVIOUS
  <1>5. /\ a \in Seq(S) /\ Len(a) = m + 1 /\ a[m + 1] = e
        /\ \A i \in 1..m : a[i] = s[i]
    <2>. HIDE DEF S
    <2>1. /\ a \in Seq(S) /\ Len(a) = Len(s) + 1 /\ a[Len(s) + 1] = e
          /\ \A i \in 1..Len(s) : a[i] = s[i]
      BY <1>2, <1>4, AppendProperties
    <2>. HIDE DEF a
    <2>. QED BY <1>3, <2>1
  <1>6. a = [i \in 1..m + 1 |-> a[i]]
    <2>. HIDE DEF S
    <2>1. a \in [1..Len(a) -> S]
      <3>. HIDE DEF a
      <3>. QED BY <1>5, LenProperties, Zenon
    <2>. HIDE DEF a
    <2>2. a \in [1..m + 1 -> S]
      BY <1>5, <2>1, Zenon
    <2>. QED BY <2>2, Zenon
  <1>7. ASSUME NEW i \in 1..m + 1 PROVE a[i] = t[i]
    <2>1. t[i] = IF i <= m THEN s[i] ELSE e
      BY Zenon
    <2>. HIDE DEF a, t
    <2>2. CASE i <= m
      <3>1. i \in 1..m
        BY <2>2
      <3>. QED BY <3>1, <2>2, <2>1, <1>5, Zenon
    <2>3. CASE ~(i <= m)
      <3>1. i = m + 1
        BY <2>3
      <3>. QED BY <3>1, <2>3, <2>1, <1>5, Zenon
    <2>. QED BY <2>2, <2>3, Zenon
  <1>8. a = t
    <2>1. t = [i \in 1..m + 1 |-> t[i]]
      BY Zenon
    <2>. HIDE DEF a, t
    <2>. QED BY <1>6, <1>7, <2>1, Zenon
  <1>. QED
    BY <1>3, <1>5, <1>8, Zenon

-----------------------------------------------------------------------------
\* The path to the n-th node of the layer at a depth.
NodePath(seed, n, d) ==
  [k \in 1..d + 1 |-> IF k = 1 THEN seed ELSE (n \div 2^(d - k + 1)) % 2]

LEMMA PathGrows ==
  ASSUME NEW seed, NEW n \in Nat, NEW d \in 0..24
  PROVE  Append(NodePath(seed, n \div 2, d), n % 2) = NodePath(seed, n, d + 1)
  <1>. DEFINE s == NodePath(seed, n \div 2, d)
              t == NodePath(seed, n, d + 1)
              m == d + 1
  <1>1. s = [k \in 1..m |-> IF k = 1 THEN seed ELSE ((n \div 2) \div 2^(d - k + 1)) % 2]
    BY Zenon DEF NodePath
  <1>2. t = [k \in 1..m + 1 |-> IF k = 1 THEN seed ELSE (n \div 2^(m - k + 1)) % 2]
    BY Zenon DEF NodePath
  <1>3. m \in Nat /\ m >= 1
    OBVIOUS
  <1>4. s = [k \in 1..m |-> s[k]]
    <2>. HIDE DEF m, s
    <2>. QED BY <1>1, Zenon
  <1>. DEFINE b == n % 2
  <1>5. Append(s, b) = [k \in 1..m + 1 |-> IF k <= m THEN s[k] ELSE b]
    <2>. HIDE DEF m, s, b
    <2>. QED BY <1>3, <1>4, AppendIs
  <1>6. ASSUME NEW k \in 1..m + 1
        PROVE  (IF k <= m THEN s[k] ELSE b)
               = IF k = 1 THEN seed ELSE (n \div 2^(m - k + 1)) % 2
    <2>1. CASE k = 1
      <3>1. 1 \in 1..m /\ k <= m
        BY <2>1, <1>3
      <3>2. s[1] = seed
        <4>. HIDE DEF s, m
        <4>. QED BY <1>1, <3>1, Zenon
      <3>. HIDE DEF s, m, b
      <3>. QED BY <2>1, <3>1, <3>2, Zenon
    <2>2. CASE k # 1 /\ k <= m
      <3>. DEFINE j == d - k + 1
      <3>1. k \in 1..m /\ j \in 0..31 /\ j + 1 = m - k + 1
        BY <2>2
      <3>2. s[k] = ((n \div 2) \div 2^j) % 2
        <4>. HIDE DEF s, m
        <4>. QED BY <1>1, <2>2, <3>1, Zenon
      <3>. HIDE DEF j, m, s, b
      <3>3. (n \div 2) \div 2^j = n \div 2^(j + 1)
        BY <3>1, Halves
      <3>4. s[k] = (n \div 2^(m - k + 1)) % 2
        BY <3>1, <3>2, <3>3, Zenon
      <3>. QED BY <2>2, <3>4, Zenon
    <2>3. CASE ~(k <= m)
      <3>1. k = m + 1 /\ m - k + 1 = 0 /\ k # 1
        BY <2>3, <1>3
      <3>2. n \div 2^0 = n
        <4>1. n \div 1 = n
          OBVIOUS
        <4>. QED BY <4>1, PowersSmall
      <3>. HIDE DEF m, s
      <3>3. (n \div 2^(m - k + 1)) % 2 = b
        BY <3>1, <3>2, Zenon
      <3>. HIDE DEF b
      <3>. QED BY <2>3, <3>1, <3>3, Zenon
    <2>. QED BY <2>1, <2>2, <2>3, Zenon
  <1>. HIDE DEF s, t, m, b
  <1>7. Append(s, b) = t
    BY <1>2, <1>5, <1>6, Zenon
  <1>. QED
    BY <1>7 DEF s, t, b

LEMMA PathTop ==
  ASSUME NEW seed
  PROVE  <<seed>> = NodePath(seed, 0, 0)
  <1>1. NodePath(seed, 0, 0) = [k \in 1..1 |-> seed]
    <2>1. \A k \in 1..0 + 1 : k = 1
      OBVIOUS
    <2>2. 0 + 1 = 1
      OBVIOUS
    <2>. QED BY <2>1, <2>2, Zenon DEF NodePath
  <1>2. <<seed>> = [k \in 1..1 |-> seed]
    OBVIOUS
  <1>. QED
    BY <1>1, <1>2

\* The path to a leaf is that to the node of the last layer it is in.
LEMMA PathOfLeaf ==
  ASSUME SizeOk, NEW seed, NEW i \in Nat
  PROVE  PathTo(seed, i) = NodePath(seed, i \div 4, Layers)
  <1>. DEFINE h == height
              l == Layers
              n == i \div 4
  <1>1. h \in 1..26 /\ l \in 0..24 /\ (h > 2 => l = h - 2) /\ (~(h > 2) => l = 0)
    BY Shape
  <1>2. /\ PathTo(seed, i) = [d \in 1..l + 1 |-> IF d = 1 THEN seed ELSE (i \div 2^(h - d + 1)) % 2]
        /\ NodePath(seed, n, l) = [k \in 1..l + 1 |-> IF k = 1 THEN seed ELSE (n \div 2^(l - k + 1)) % 2]
    BY Zenon DEF PathTo, NodePath
  <1>3. ASSUME NEW k \in 1..l + 1, k # 1
        PROVE  i \div 2^(h - k + 1) = n \div 2^(l - k + 1)
    <2>. DEFINE j == l - k + 1
    <2>1. l > 0 /\ l = h - 2
      <3>. HIDE DEF h, l
      <3>. QED BY <1>1, <1>3
    <2>2. j \in 0..24 /\ h - k + 1 = j + 2
      <3>. HIDE DEF h, l
      <3>. QED BY <1>1, <1>3, <2>1
    <2>. DEFINE p == 2^j
    <2>3. p \in Nat /\ p > 0 /\ 2^(j + 1) = 2 * p
      <3>. HIDE DEF j
      <3>1. j \in 0..31
        BY <2>2
      <3>. QED BY <3>1, PowerStep
    <2>4. 2^(j + 2) = 4 * p
      <3>. HIDE DEF j
      <3>1. j + 1 \in 0..31 /\ (j + 1) + 1 = j + 2
        BY <2>2
      <3>2. 2^((j + 1) + 1) = 2 * 2^(j + 1)
        BY <3>1, PowerStep
      <3>3. 2^(j + 2) = 2 * (2 * p)
        BY <3>1, <3>2, <2>3, Zenon
      <3>. HIDE DEF p
      <3>. QED BY <2>3, <3>3
    <2>5. (i \div 4) \div p = i \div (4 * p)
      <3>. HIDE DEF p
      <3>. QED BY <2>3, DivDiv
    <2>6. i \div 2^(h - k + 1) = (i \div 4) \div p
      <3>. HIDE DEF p, j, h, l
      <3>. QED BY <2>2, <2>4, <2>5, Zenon
    <2>. QED BY <2>6, Zenon
  <1>. HIDE DEF h, l, n
  <1>. QED
    BY <1>2, <1>3, Zenon DEF n, l

-----------------------------------------------------------------------------
\* The n-th block of the layer at a depth.
Tree(seed, n, d) == Block(NodePath(seed, n, d))

LEMMA TreeFields ==
  ASSUME NEW seed, NEW n, NEW d
  PROVE  /\ Tree(seed, n, d) = [path |-> NodePath(seed, n, d), hole |-> 4]
         /\ Tree(seed, n, d).path = NodePath(seed, n, d) /\ Tree(seed, n, d).hole = 4
         /\ Tree(seed, n, d) # Garbage /\ Whole(Tree(seed, n, d))
  <1>1. Tree(seed, n, d) = [path |-> NodePath(seed, n, d), hole |-> 4]
    BY Zenon DEF Tree, Block
  <1>2. Tree(seed, n, d).path = NodePath(seed, n, d) /\ Tree(seed, n, d).hole = 4
    BY <1>1
  <1>3. Garbage.hole = 5
    BY Zenon DEF Garbage
  <1>4. Tree(seed, n, d) # Garbage
    <2>1. 4 # 5
      OBVIOUS
    <2>. QED BY <1>2, <1>3, <2>1, Zenon
  <1>. QED
    BY <1>1, <1>2, <1>4, Zenon DEF Whole

LEMMA ChildOfTree ==
  ASSUME NEW seed, NEW n \in Nat, NEW d \in 0..24
  PROVE  Child(Tree(seed, n \div 2, d), n % 2) = Tree(seed, n, d + 1)
  <1>. DEFINE b == Tree(seed, n \div 2, d)
  <1>1. Whole(b) /\ b.path = NodePath(seed, n \div 2, d)
    BY TreeFields
  <1>2. Child(b, n % 2) = Block(Append(b.path, n % 2))
    <2>. HIDE DEF b
    <2>. QED BY <1>1, Zenon DEF Child
  <1>3. Append(b.path, n % 2) = NodePath(seed, n, d + 1)
    <2>1. Append(NodePath(seed, n \div 2, d), n % 2) = NodePath(seed, n, d + 1)
      BY PathGrows
    <2>. HIDE DEF b
    <2>. QED BY <1>1, <2>1, Zenon
  <1>. HIDE DEF b
  <1>4. Child(b, n % 2) = Tree(seed, n, d + 1)
    BY <1>2, <1>3, Zenon DEF Tree
  <1>. QED BY <1>4 DEF b

\* A workspace that fills its arrays.
IsWorkspace(w) == w = [x \in 0..2 * Half - 1 |-> w[x]]

LEMMA ExpandedTo ==
  ASSUME SizeOk, NEW w, IsWorkspace(w), NEW d \in 0..Layers, d < Layers
  PROVE  /\ IsWorkspace(Expanded(w, d))
         /\ \A n \in 0..2^(d + 1) - 1 :
              /\ n \in Nat /\ n \in 0..2 * Half - 1 /\ n \div 2 \in 0..2^d - 1
              /\ Expanded(w, d)[n] = Child(w[n \div 2], n % 2)
         /\ 2^(d + 1) <= Half
  <1>. DEFINE e == Expanded(w, d)
              D == 0..2 * Half - 1
              p == 2^d
              q == 2^(d + 1)
              H == Half
              A(n) == Child(w[n \div 2], n % 2)
              B(n) == LET m == n - Half
                      IN  IF m % 2 = 0 THEN w[m \div 2] ELSE XorOne(w[m \div 2])
  <1>1. DOMAIN w = D
    <2>. HIDE DEF D
    <2>1. w = [x \in D |-> w[x]]
      BY Zenon DEF IsWorkspace, D
    <2>. QED BY <2>1, Zenon
  <1>2. e = [n \in D |-> IF n < q THEN A(n)
                         ELSE IF n \in H..(H + q - 1) THEN B(n) ELSE w[n]]
    <2>. HIDE DEF D
    <2>. QED BY <1>1, Zenon DEF Expanded
  <1>3. p \in Nat /\ q = 2 * p /\ q <= H /\ H \in Nat
    <2>1. d + 1 \in 0..Layers /\ p \in Nat /\ q = 2 * p
      BY LayerPowers
    <2>2. q <= H
      BY <2>1, LayerPowers
    <2>. QED BY <2>1, <2>2, Shape
  <1>4. e = [x \in D |-> e[x]]
    <2>. HIDE DEF e, D, A, B, H, q
    <2>. QED BY <1>2, Zenon
  <1>5. ASSUME NEW n \in 0..q - 1
        PROVE  n \in Nat /\ n \in D /\ n \div 2 \in 0..p - 1 /\ e[n] = A(n)
    <2>1. n \in Nat /\ n < q /\ n \in 0..2 * H - 1
      <3>. HIDE DEF q, p, H
      <3>. QED BY <1>3
    <2>2. n \div 2 \in Nat /\ n % 2 \in {0, 1} /\ n = 2 * (n \div 2) + (n % 2)
      BY <2>1, HalfOf
    <2>. DEFINE k == n \div 2
                r == n % 2
    <2>3. k \in 0..p - 1
      <3>. HIDE DEF k, r, p, q, H
      <3>1. k \in Nat /\ r \in {0, 1} /\ n = 2 * k + r
        BY <2>2 DEF k, r
      <3>. QED BY <1>3, <2>1, <3>1
    <2>4. n \in D
      BY <2>1
    <2>5. e[n] = A(n)
      <3>. HIDE DEF e, D, A, B, H, q
      <3>. QED BY <1>2, <2>1, <2>4, Zenon
    <2>. QED BY <2>1, <2>3, <2>4, <2>5
  <1>. QED
    BY <1>3, <1>4, <1>5, Zenon DEF IsWorkspace

\* What the leaves of a block of the tree are, also with another leaf's word gone.
LEMMA ElemOfTree ==
  ASSUME SizeOk, NEW seed, NEW i \in Nat, NEW w, NEW hole, hole # i % 4, hole # 5,
         w[i \div 4] = [Tree(seed, i \div 4, Layers) EXCEPT !.hole = hole]
  PROVE  ElemAt(w, i) = LeafElem(seed, i)
  <1>. DEFINE t == Tree(seed, i \div 4, Layers)
              b == w[i \div 4]
  <1>1. t = [path |-> NodePath(seed, i \div 4, Layers), hole |-> 4]
    BY TreeFields
  <1>2. b = [path |-> NodePath(seed, i \div 4, Layers), hole |-> hole]
    <2>1. b = [t EXCEPT !.hole = hole]
      BY Zenon
    <2>. HIDE DEF b, t
    <2>. QED BY <1>1, <2>1
  <1>3. b.path = PathTo(seed, i) /\ b.hole = hole
    <2>1. PathTo(seed, i) = NodePath(seed, i \div 4, Layers)
      BY PathOfLeaf
    <2>. HIDE DEF b
    <2>. QED BY <1>2, <2>1, Zenon
  <1>4. b # Garbage
    <2>1. Garbage.hole = 5
      BY Zenon DEF Garbage
    <2>. HIDE DEF b
    <2>. QED BY <1>3, <2>1, Zenon
  <1>5. ElemAt(w, i) = IF b = Garbage THEN GarbageElem
                       ELSE IF b.hole = i % 4 THEN Reduced(0) ELSE Reduced(Word(b.path, i % 4))
    BY Zenon DEF ElemAt
  <1>. HIDE DEF b
  <1>. QED
    BY <1>3, <1>4, <1>5, Zenon DEF LeafElem

LEMMA ElemOfWhole ==
  ASSUME SizeOk, NEW seed, NEW i \in Nat, NEW w,
         w[i \div 4] = Tree(seed, i \div 4, Layers)
  PROVE  ElemAt(w, i) = LeafElem(seed, i)
  <1>. DEFINE t == Tree(seed, i \div 4, Layers)
  <1>1. t = [path |-> NodePath(seed, i \div 4, Layers), hole |-> 4]
    BY TreeFields
  <1>2. t = [t EXCEPT !.hole = 4]
    <2>. HIDE DEF t
    <2>. QED BY <1>1
  <1>3. 4 # i % 4 /\ 4 # 5
    <2>1. i % 4 \in 0..3
      BY HalfOf
    <2>. QED BY <2>1
  <1>4. w[i \div 4] = [t EXCEPT !.hole = 4]
    <2>1. w[i \div 4] = t
      OBVIOUS
    <2>. HIDE DEF t
    <2>. QED BY <2>1, <1>2, Zenon
  <1>. QED
    BY <1>3, <1>4, ElemOfTree

-----------------------------------------------------------------------------
\* The keys of a punctured set: that beside the path in each layer, and the
\* last one on it, without the word at the position.
KeyAt(seed, pos, j)   == Tree(seed, Sibling(NodeOn(pos, j)), j)
KeysTo(seed, pos, d)  == [j \in 1..d |-> KeyAt(seed, pos, j)]
LastKey(seed, pos)    == [Tree(seed, NodeOn(pos, Layers), Layers) EXCEPT !.hole = pos % 4]
AllKeys(seed, pos)    ==
  [j \in 1..Layers + 1 |-> IF j <= Layers THEN KeyAt(seed, pos, j) ELSE LastKey(seed, pos)]

LEMMA KeysGrow ==
  ASSUME NEW seed, NEW pos, NEW d \in Nat
  PROVE  /\ Append(KeysTo(seed, pos, d), KeyAt(seed, pos, d + 1)) = KeysTo(seed, pos, d + 1)
         /\ KeysTo(seed, pos, 0) = <<>>
  <1>. DEFINE s == KeysTo(seed, pos, d)
              e == KeyAt(seed, pos, d + 1)
  <1>1. s = [j \in 1..d |-> KeyAt(seed, pos, j)]
    BY Zenon DEF KeysTo
  <1>2. s = [j \in 1..d |-> s[j]]
    <2>. HIDE DEF s
    <2>. QED BY <1>1, Zenon
  <1>3. Append(s, e) = [j \in 1..d + 1 |-> IF j <= d THEN s[j] ELSE e]
    <2>. HIDE DEF s, e
    <2>. QED BY <1>2, AppendIs
  <1>4. ASSUME NEW j \in 1..d + 1 PROVE (IF j <= d THEN s[j] ELSE e) = KeyAt(seed, pos, j)
    <2>1. CASE j <= d
      <3>1. j \in 1..d
        BY <2>1
      <3>2. s[j] = KeyAt(seed, pos, j)
        <4>. HIDE DEF s
        <4>. QED BY <1>1, <3>1, Zenon
      <3>. HIDE DEF s, e
      <3>. QED BY <2>1, <3>2, Zenon
    <2>2. CASE ~(j <= d)
      <3>1. j = d + 1
        BY <2>2
      <3>2. e = KeyAt(seed, pos, j)
        BY <3>1, Zenon
      <3>. HIDE DEF s, e
      <3>. QED BY <2>2, <3>2, Zenon
    <2>. QED BY <2>1, <2>2
  <1>5. Append(s, e) = KeysTo(seed, pos, d + 1)
    <2>. HIDE DEF s, e
    <2>. QED BY <1>3, <1>4, Zenon DEF KeysTo
  <1>6. KeysTo(seed, pos, 0) = <<>>
    <2>1. KeysTo(seed, pos, 0) = [j \in 1..0 |-> KeyAt(seed, pos, j)]
      BY Zenon DEF KeysTo
    <2>2. KeysTo(seed, pos, 0) \in [1..0 -> {}]
      <3>1. \A j \in 1..0 : FALSE
        OBVIOUS
      <3>. QED BY <2>1, <3>1, Zenon
    <2>. HIDE DEF KeysTo
    <2>3. KeysTo(seed, pos, 0) \in Seq({}) /\ Len(KeysTo(seed, pos, 0)) = 0
      <3>1. KeysTo(seed, pos, 0) \in Seq({})
        BY <2>2
      <3>2. DOMAIN KeysTo(seed, pos, 0) = 1..0 /\ 0 \in Nat
        BY <2>2
      <3>. QED BY <3>1, <3>2
    <2>. QED BY <2>3, EmptySeq
  <1>. QED
    BY <1>5, <1>6

LEMMA KeysEnd ==
  ASSUME SizeOk, NEW seed, NEW pos
  PROVE  /\ Append(KeysTo(seed, pos, Layers), LastKey(seed, pos)) = AllKeys(seed, pos)
         /\ Len(AllKeys(seed, pos)) = Layers + 1
  <1>. DEFINE d == Layers
              s == KeysTo(seed, pos, d)
              e == LastKey(seed, pos)
  <1>0. d \in Nat
    BY Shape
  <1>. HIDE DEF d
  <1>1. s = [j \in 1..d |-> KeyAt(seed, pos, j)]
    BY Zenon DEF KeysTo
  <1>2. s = [j \in 1..d |-> s[j]]
    <2>. HIDE DEF s
    <2>. QED BY <1>1, Zenon
  <1>3. /\ Append(s, e) = [j \in 1..d + 1 |-> IF j <= d THEN s[j] ELSE e]
        /\ Len(Append(s, e)) = d + 1
    <2>. HIDE DEF s, e
    <2>. QED BY <1>0, <1>2, AppendIs
  <1>4. ASSUME NEW j \in 1..d + 1
        PROVE  (IF j <= d THEN s[j] ELSE e) = IF j <= d THEN KeyAt(seed, pos, j) ELSE e
    <2>1. CASE j <= d
      <3>1. j \in 1..d
        BY <2>1, <1>0
      <3>2. s[j] = KeyAt(seed, pos, j)
        <4>. HIDE DEF s
        <4>. QED BY <1>1, <3>1, Zenon
      <3>. HIDE DEF s, e
      <3>. QED BY <2>1, <3>2, Zenon
    <2>2. CASE ~(j <= d)
      BY <2>2, Zenon
    <2>. QED BY <2>1, <2>2
  <1>5. Append(s, e) = AllKeys(seed, pos)
    <2>. HIDE DEF s, e
    <2>1. Append(s, e) = [j \in 1..d + 1 |-> IF j <= d THEN KeyAt(seed, pos, j) ELSE e]
      BY <1>3, <1>4, Zenon
    <2>2. AllKeys(seed, pos) = [j \in 1..d + 1 |-> IF j <= d THEN KeyAt(seed, pos, j) ELSE e]
      BY Zenon DEF AllKeys, d, e
    <2>. QED BY <2>1, <2>2, Zenon
  <1>. QED
    BY <1>3, <1>5 DEF d

\* No key but the last is above the leaf.
LEMMA KeyHides ==
  ASSUME SizeOk, NEW seed, NEW pos \in Nat, NEW j \in 1..Layers,
         NodeOn(pos, j) \in Nat
  PROVE  KeyAt(seed, pos, j).path # SubSeq(PathTo(seed, pos), 1, Len(KeyAt(seed, pos, j).path))
  <1>. DEFINE l == Layers
              n == NodeOn(pos, j)
              m == Sibling(n)
              s == NodePath(seed, m, j)
              p == PathTo(seed, pos)
              h == height
  <1>1. l \in 0..24 /\ j \in 1..l /\ h \in 1..26
    BY Shape
  <1>2. KeyAt(seed, pos, j).path = s
    BY TreeFields DEF KeyAt
  <1>3. m \in Nat /\ m % 2 = 1 - (n % 2) /\ n % 2 \in {0, 1}
    <2>. HIDE DEF n
    <2>1. n \in Nat
      BY DEF n
    <2>. QED BY <2>1, SiblingOf, HalfOf
  <1>. DEFINE k == j + 1
  <1>4. k \in 1..k /\ k \in 1..l + 1 /\ k # 1 /\ j - k + 1 = 0 /\ h - k + 1 = h - j /\ k \in Nat
    <2>. HIDE DEF l, h
    <2>. QED BY <1>1
  <1>5. s = [x \in 1..k |-> IF x = 1 THEN seed ELSE (m \div 2^(j - x + 1)) % 2]
    <2>. HIDE DEF m
    <2>. QED BY Zenon DEF NodePath
  <1>6. s[k] = m % 2
    <2>. HIDE DEF m, s, k
    <2>1. s[k] = (m \div 2^0) % 2
      BY <1>4, <1>5, Zenon
    <2>2. m \div 2^0 = m
      <3>1. m \div 1 = m
        BY <1>3
      <3>. QED BY <3>1, PowersSmall
    <2>. QED BY <2>1, <2>2, Zenon
  <1>7. Len(s) = k
    <2>. HIDE DEF k
    <2>1. s = [x \in 1..k |-> s[x]]
      <3>. HIDE DEF s
      <3>. QED BY <1>5, Zenon
    <2>. HIDE DEF s
    <2>. QED BY <1>4, <2>1, AppendIs
  <1>8. p = [x \in 1..l + 1 |-> IF x = 1 THEN seed ELSE (pos \div 2^(h - x + 1)) % 2]
    BY Zenon DEF PathTo
  <1>9. p[k] = n % 2
    <2>1. n = pos \div 2^(h - j)
      BY Zenon DEF NodeOn
    <2>. HIDE DEF p, n, h, l, k
    <2>. QED BY <1>4, <1>8, <2>1, Zenon
  <1>10. SubSeq(p, 1, k)[k] = p[k]
    <2>. DEFINE S == {p[x] : x \in 1..k}
    <2>1. \A x \in 1..k : p[x] \in S
      BY Zenon
    <2>. HIDE DEF S, p
    <2>2. \A x \in 1..k - 1 + 1 : SubSeq(p, 1, k)[x] = p[1 + x - 1]
      <3>. HIDE DEF k
      <3>1. 1 \in Int /\ k \in Int
        BY <1>4
      <3>. QED BY <2>1, <3>1, SubSeqProperties
    <2>3. k \in 1..k - 1 + 1 /\ 1 + k - 1 = k
      BY <1>4
    <2>. HIDE DEF k
    <2>. QED BY <2>2, <2>3, Zenon
  <1>11. s # SubSeq(p, 1, k)
    <2>1. m % 2 # n % 2
      <3>. HIDE DEF m, n
      <3>. QED BY <1>3
    <2>. HIDE DEF m, n, s, p, k
    <2>. QED BY <1>6, <1>9, <1>10, <2>1, Zenon
  <1>. HIDE DEF s, p, k
  <1>. QED
    BY <1>2, <1>7, <1>11, Zenon DEF p

-----------------------------------------------------------------------------
\* What holds between steps.  In a layer of the tree every block is known once
\* the walk has reached it, but for the one on the path to the hole.
WalkInv ==
  /\ SizeOk
  /\ call.op \in {"none", "eval", "punc", "evalpunc"}
  /\ call.depth \in 0..Layers
  /\ call = [op |-> call.op, seed |-> call.seed, pos |-> call.pos,
             depth |-> call.depth, key |-> call.key]
  /\ IsWorkspace(ws)
  /\ wild = FALSE

KeysInv ==
  pset.op = "punc" =>
    /\ pset = [op |-> "punc", seed |-> pset.seed, pos |-> pset.pos, keys |-> pset.keys]
    /\ pset.pos \in 0..setSize - 1
    /\ call.op = "punc" => pset.keys = KeysTo(pset.seed, pset.pos, call.depth)
    /\ call.op # "punc" => pset.keys = AllKeys(pset.seed, pset.pos)

EvalInv ==
  call.op = "eval" =>
    \A n \in 0..2^call.depth - 1 : ws[n] = Tree(call.seed, n, call.depth)

OfSet == pset.op = "punc" /\ call.seed = pset.seed /\ call.pos = pset.pos

PuncInv ==
  call.op = "punc" =>
    OfSet /\ call.key = Tree(call.seed, NodeOn(call.pos, call.depth), call.depth)

EvalPuncInv ==
  call.op = "evalpunc" =>
    /\ OfSet
    /\ \A n \in 0..2^call.depth - 1 :
         n # NodeOn(call.pos, call.depth) => ws[n] = Tree(call.seed, n, call.depth)

GgmInv == WalkInv /\ KeysInv /\ EvalInv /\ PuncInv /\ EvalPuncInv /\ EvalIsTree /\ EvalPuncIsRest

LEMMA SizeStays ==
  ASSUME setSize' = setSize
  PROVE  /\ height' = height /\ Layers' = Layers /\ Half' = Half /\ SizeOk' = SizeOk
         /\ \A pos, d : NodeOn(pos, d)' = NodeOn(pos, d)
         /\ \A seed, pos, d : KeysTo(seed, pos, d)' = KeysTo(seed, pos, d)
         /\ \A seed, pos : AllKeys(seed, pos)' = AllKeys(seed, pos)
         /\ \A w : IsWorkspace(w)' = IsWorkspace(w)
         /\ \A seed, i : LeafElem(seed, i)' = LeafElem(seed, i)
  <1>1. height' = height
    BY Zenon DEF height
  <1>2. Layers' = Layers /\ Half' = Half
    BY <1>1, Zenon DEF Layers, Half
  <1>3. SizeOk' = SizeOk
    BY Zenon DEF SizeOk
  <1>4. \A pos, d : NodeOn(pos, d)' = NodeOn(pos, d)
    BY <1>1, Zenon DEF NodeOn
  <1>5. \A seed, pos, j : KeyAt(seed, pos, j)' = KeyAt(seed, pos, j)
    BY <1>4, Zenon DEF KeyAt
  <1>6. \A seed, pos, d : KeysTo(seed, pos, d)' = KeysTo(seed, pos, d)
    BY <1>5, Zenon DEF KeysTo
  <1>7. \A seed, pos : LastKey(seed, pos)' = LastKey(seed, pos)
    BY <1>2, <1>4, Zenon DEF LastKey
  <1>8. \A seed, pos : AllKeys(seed, pos)' = AllKeys(seed, pos)
    BY <1>2, <1>5, <1>7, Zenon DEF AllKeys
  <1>9. \A w : IsWorkspace(w)' = IsWorkspace(w)
    BY <1>2, Zenon DEF IsWorkspace
  <1>10. \A seed, i : PathTo(seed, i)' = PathTo(seed, i)
    BY <1>1, <1>2, Zenon DEF PathTo
  <1>11. \A seed, i : LeafElem(seed, i)' = LeafElem(seed, i)
    BY <1>10, Zenon DEF LeafElem
  <1>. QED
    BY <1>1, <1>2, <1>3, <1>4, <1>6, <1>8, <1>9, <1>11, Zenon

LEMMA NewWalk ==
  ASSUME SizeOk, setSize' = setSize, IsWorkspace(ws'), wild' = FALSE,
         call'.op \in {"none", "eval", "punc", "evalpunc"}, call'.depth \in 0..Layers,
         call' = [op |-> call'.op, seed |-> call'.seed, pos |-> call'.pos,
                  depth |-> call'.depth, key |-> call'.key]
  PROVE  WalkInv'
  <1>1. SizeOk' /\ IsWorkspace(ws)' /\ Layers' = Layers
    BY SizeStays, Zenon
  <1>. QED
    BY <1>1, Zenon DEF WalkInv

LEMMA RecordFields ==
  ASSUME NEW o, NEW s, NEW p, NEW d, NEW k, NEW r,
         r = [op |-> o, seed |-> s, pos |-> p, depth |-> d, key |-> k]
  PROVE  /\ r.op = o /\ r.seed = s /\ r.pos = p /\ r.depth = d /\ r.key = k
         /\ r = [op |-> r.op, seed |-> r.seed, pos |-> r.pos, depth |-> r.depth, key |-> r.key]
  OBVIOUS

LEMMA KeysKept ==
  ASSUME setSize' = setSize, pset' = pset, KeysInv, call.op # "punc", call'.op # "punc"
  PROVE  KeysInv'
  BY SizeStays, Zenon DEF KeysInv

LEMMA ElemsKept ==
  ASSUME setSize' = setSize, elems' = elems, EvalIsTree, EvalPuncIsRest
  PROVE  EvalIsTree' /\ EvalPuncIsRest'
  BY SizeStays, Zenon DEF EvalIsTree, EvalPuncIsRest

\* A workspace with one block replaced.
IsWith(e, w, a, v) == e = [w EXCEPT ![a] = v]

LEMMA WorkspaceWith ==
  ASSUME SizeOk, NEW w, NEW a, NEW v, NEW e, IsWorkspace(w), IsWith(e, w, a, v)
  PROVE  /\ IsWorkspace(e)
         /\ a \in 0..2 * Half - 1 => e[a] = v
         /\ \A x \in 0..2 * Half - 1 : x # a => e[x] = w[x]
  <1>0. e = [w EXCEPT ![a] = v]
    BY Zenon DEF IsWith
  <1>. DEFINE D == 0..2 * Half - 1
  <1>1. w = [x \in D |-> w[x]]
    BY Zenon DEF IsWorkspace
  <1>. HIDE DEF D
  <1>2. DOMAIN w = D
    BY <1>1, Zenon
  <1>3. e = [x \in D |-> IF x = a THEN v ELSE w[x]]
    BY <1>0, <1>2, Zenon
  <1>4. \A x \in D : e[x] = IF x = a THEN v ELSE w[x]
    BY <1>3, Zenon
  <1>5. e = [x \in D |-> e[x]]
    BY <1>3, Zenon
  <1>6. IsWorkspace(e)
    BY <1>5, Zenon DEF IsWorkspace, D
  <1>. QED
    BY <1>4, <1>6, Zenon DEF D

LEMMA RecordIs ==
  ASSUME WalkInv
  PROVE  /\ [call EXCEPT !.depth = @ + 1] =
              [op |-> call.op, seed |-> call.seed, pos |-> call.pos,
               depth |-> call.depth + 1, key |-> call.key]
         /\ \A k : [call EXCEPT !.key = k, !.depth = @ + 1] =
              [op |-> call.op, seed |-> call.seed, pos |-> call.pos,
               depth |-> call.depth + 1, key |-> k]
         /\ Idle = [op |-> "none", seed |-> 0, pos |-> 0, depth |-> 0, key |-> Garbage]
         /\ \A o, s, p : [Idle EXCEPT !.op = o, !.seed = s, !.pos = p] =
              [op |-> o, seed |-> s, pos |-> p, depth |-> 0, key |-> Garbage]
         /\ \A o, s : [Idle EXCEPT !.op = o, !.seed = s] =
              [op |-> o, seed |-> s, pos |-> 0, depth |-> 0, key |-> Garbage]
         /\ \A o, s, p, k : [Idle EXCEPT !.op = o, !.seed = s, !.pos = p, !.key = k] =
              [op |-> o, seed |-> s, pos |-> p, depth |-> 0, key |-> k]
  <1>1. call = [op |-> call.op, seed |-> call.seed, pos |-> call.pos,
                depth |-> call.depth, key |-> call.key]
    BY Zenon DEF WalkInv
  <1>. DEFINE g == Garbage
              F == {"op", "seed", "pos", "depth", "key"}
  <1>2. Idle = [op |-> "none", seed |-> 0, pos |-> 0, depth |-> 0, key |-> g]
    BY Zenon DEF Idle
  <1>3. ASSUME NEW r, NEW o, NEW s, NEW p, NEW d, NEW k,
               r = [op |-> o, seed |-> s, pos |-> p, depth |-> d, key |-> k]
        PROVE  /\ DOMAIN r = F /\ r.op = o /\ r.seed = s /\ r.pos = p /\ r.depth = d /\ r.key = k
               /\ r = [f \in F |-> r[f]]
    BY <1>3
  <1>4. ASSUME NEW r, NEW o, NEW s, NEW p, NEW d, NEW k,
               DOMAIN r = F, r = [f \in F |-> r[f]],
               r.op = o, r.seed = s, r.pos = p, r.depth = d, r.key = k
        PROVE  r = [op |-> o, seed |-> s, pos |-> p, depth |-> d, key |-> k]
    BY <1>4
  <1>5. [call EXCEPT !.depth = @ + 1] =
              [op |-> call.op, seed |-> call.seed, pos |-> call.pos,
               depth |-> call.depth + 1, key |-> call.key]
    BY <1>1
  <1>6. ASSUME NEW k
        PROVE [call EXCEPT !.key = k, !.depth = @ + 1] =
              [op |-> call.op, seed |-> call.seed, pos |-> call.pos,
               depth |-> call.depth + 1, key |-> k]
    <2>. DEFINE e == [call EXCEPT !.key = k, !.depth = @ + 1]
    <2>1. DOMAIN call = F
      BY <1>1, <1>3
    <2>2. DOMAIN e = F /\ e = [f \in F |-> e[f]]
      <3>. HIDE DEF F
      <3>. QED BY <2>1, Zenon
    <2>3. /\ "op" \in F /\ "seed" \in F /\ "pos" \in F /\ "depth" \in F /\ "key" \in F
          /\ "op" # "key" /\ "op" # "depth" /\ "seed" # "key" /\ "seed" # "depth"
          /\ "pos" # "key" /\ "pos" # "depth" /\ "key" # "depth"
      OBVIOUS
    <2>4. e.op = call.op /\ e.seed = call.seed /\ e.pos = call.pos
          /\ e.depth = call.depth + 1 /\ e.key = k
      <3>. HIDE DEF F
      <3>. QED BY <2>1, <2>3, Zenon
    <2>. HIDE DEF e
    <2>5. e = [op |-> call.op, seed |-> call.seed, pos |-> call.pos,
               depth |-> call.depth + 1, key |-> k]
      BY <1>4, <2>2, <2>4
    <2>. QED BY <2>5 DEF e
  <1>7. ASSUME NEW o, NEW s, NEW p
        PROVE  [Idle EXCEPT !.op = o, !.seed = s, !.pos = p] =
               [op |-> o, seed |-> s, pos |-> p, depth |-> 0, key |-> g]
    <2>. DEFINE e == [Idle EXCEPT !.op = o, !.seed = s, !.pos = p]
    <2>1. DOMAIN Idle = F
      <3>. HIDE DEF g
      <3>. QED BY <1>2, <1>3
    <2>2. DOMAIN e = F /\ e = [f \in F |-> e[f]]
      <3>. HIDE DEF F
      <3>. QED BY <2>1, Zenon
    <2>3. /\ "op" \in F /\ "seed" \in F /\ "pos" \in F /\ "depth" \in F /\ "key" \in F
          /\ "op" # "seed" /\ "op" # "pos" /\ "op" # "depth" /\ "op" # "key"
          /\ "seed" # "pos" /\ "seed" # "depth" /\ "seed" # "key" /\ "pos" # "depth"
          /\ "pos" # "key"
      OBVIOUS
    <2>4. /\ Idle.op = "none" /\ Idle.seed = 0 /\ Idle.pos = 0 /\ Idle.depth = 0
          /\ Idle.key = g
      <3>. HIDE DEF g
      <3>. QED BY <1>2
    <2>5. e.op = o /\ e.seed = s /\ e.pos = p /\ e.depth = 0 /\ e.key = g
      <3>. HIDE DEF F
      <3>. QED BY <2>1, <2>3, <2>4, Zenon
    <2>. HIDE DEF e, g
    <2>6. e = [op |-> o, seed |-> s, pos |-> p, depth |-> 0, key |-> g]
      BY <1>4, <2>2, <2>5
    <2>. QED BY <2>6 DEF e
  <1>8. ASSUME NEW o, NEW s
        PROVE  [Idle EXCEPT !.op = o, !.seed = s] =
               [op |-> o, seed |-> s, pos |-> 0, depth |-> 0, key |-> g]
    <2>. DEFINE e == [Idle EXCEPT !.op = o, !.seed = s]
    <2>1. DOMAIN Idle = F
      <3>. HIDE DEF g
      <3>. QED BY <1>2, <1>3
    <2>2. DOMAIN e = F /\ e = [f \in F |-> e[f]]
      <3>. HIDE DEF F
      <3>. QED BY <2>1, Zenon
    <2>3. /\ "op" \in F /\ "seed" \in F /\ "pos" \in F /\ "depth" \in F /\ "key" \in F
          /\ "op" # "seed" /\ "op" # "pos" /\ "op" # "depth" /\ "op" # "key"
          /\ "seed" # "pos" /\ "seed" # "depth" /\ "seed" # "key"
      OBVIOUS
    <2>4. /\ Idle.op = "none" /\ Idle.seed = 0 /\ Idle.pos = 0 /\ Idle.depth = 0
          /\ Idle.key = g
      <3>. HIDE DEF g
      <3>. QED BY <1>2
    <2>5. e.op = o /\ e.seed = s /\ e.pos = 0 /\ e.depth = 0 /\ e.key = g
      <3>. HIDE DEF F
      <3>. QED BY <2>1, <2>3, <2>4, Zenon
    <2>. HIDE DEF e, g
    <2>6. e = [op |-> o, seed |-> s, pos |-> 0, depth |-> 0, key |-> g]
      BY <1>4, <2>2, <2>5
    <2>. QED BY <2>6 DEF e
  <1>9. ASSUME NEW o, NEW s, NEW p, NEW k
        PROVE  [Idle EXCEPT !.op = o, !.seed = s, !.pos = p, !.key = k] =
               [op |-> o, seed |-> s, pos |-> p, depth |-> 0, key |-> k]
    <2>. DEFINE e == [Idle EXCEPT !.op = o, !.seed = s, !.pos = p, !.key = k]
    <2>1. DOMAIN Idle = F
      <3>. HIDE DEF g
      <3>. QED BY <1>2, <1>3
    <2>2. DOMAIN e = F /\ e = [f \in F |-> e[f]]
      <3>. HIDE DEF F
      <3>. QED BY <2>1, Zenon
    <2>3. /\ "op" \in F /\ "seed" \in F /\ "pos" \in F /\ "depth" \in F /\ "key" \in F
          /\ "op" # "seed" /\ "op" # "pos" /\ "op" # "depth" /\ "op" # "key"
          /\ "seed" # "pos" /\ "seed" # "depth" /\ "seed" # "key" /\ "pos" # "depth"
          /\ "pos" # "key" /\ "depth" # "key"
      OBVIOUS
    <2>4. /\ Idle.op = "none" /\ Idle.seed = 0 /\ Idle.pos = 0 /\ Idle.depth = 0
          /\ Idle.key = g
      <3>. HIDE DEF g
      <3>. QED BY <1>2
    <2>5. e.op = o /\ e.seed = s /\ e.pos = p /\ e.depth = 0 /\ e.key = k
      <3>. HIDE DEF F
      <3>. QED BY <2>1, <2>3, <2>4, Zenon
    <2>. HIDE DEF e, g
    <2>6. e = [op |-> o, seed |-> s, pos |-> p, depth |-> 0, key |-> k]
      BY <1>4, <2>2, <2>5
    <2>. QED BY <2>6 DEF e
  <1>. QED
    BY <1>2, <1>5, <1>6, <1>7, <1>8, <1>9, Zenon

-----------------------------------------------------------------------------
LEMMA InvParts ==
  ASSUME GgmInv
  PROVE  /\ SizeOk /\ call.depth \in 0..Layers /\ IsWorkspace(ws) /\ wild = FALSE
         /\ WalkInv /\ KeysInv /\ EvalIsTree /\ EvalPuncIsRest
         /\ call = Idle => call.op = "none"
  <1>1. WalkInv /\ KeysInv /\ EvalIsTree /\ EvalPuncIsRest
    BY Zenon DEF GgmInv
  <1>2. SizeOk /\ call.depth \in 0..Layers /\ IsWorkspace(ws) /\ wild = FALSE
    BY <1>1, Zenon DEF WalkInv
  <1>. DEFINE g == Garbage
  <1>3. Idle.op = "none"
    <2>1. Idle = [op |-> "none", seed |-> 0, pos |-> 0, depth |-> 0, key |-> g]
      BY Zenon DEF Idle
    <2>. HIDE DEF g
    <2>. QED BY <2>1
  <1>. QED
    BY <1>1, <1>2, <1>3, Zenon

LEMMA NoneOrAll ==
  ASSUME SizeOk
  PROVE  0 \in 0..Layers /\ 2^0 - 1 = 0 /\ (\A n \in 0..2^0 - 1 : n = 0)
         /\ 0 \in 0..2 * Half - 1
  <1>1. Layers \in Nat /\ Half \in Nat /\ Half >= 2
    BY Shape
  <1>2. 0 \in 0..Layers /\ 0 \in 0..2 * Half - 1
    BY <1>1
  <1>. QED
    BY <1>2, PowersSmall

LEMMA EvalStarts ==
  ASSUME GgmInv, NEW s, pset_ggm_eval(s)
  PROVE  GgmInv'
  <1>1. /\ call = Idle /\ call' = [Idle EXCEPT !.op = "eval", !.seed = s]
        /\ ws' = [ws EXCEPT ![0] = Block(<<s>>)]
        /\ setSize' = setSize /\ pset' = pset /\ elems' = elems /\ wild' = wild
    BY Zenon DEF pset_ggm_eval
  <1>2. /\ SizeOk /\ IsWorkspace(ws) /\ wild = FALSE /\ call.op = "none"
        /\ WalkInv /\ KeysInv /\ EvalIsTree /\ EvalPuncIsRest
    BY <1>1, InvParts, Zenon
  <1>3. call' = [op |-> "eval", seed |-> s, pos |-> 0, depth |-> 0, key |-> Garbage]
    <2>1. \A o, u : [Idle EXCEPT !.op = o, !.seed = u] =
                      [op |-> o, seed |-> u, pos |-> 0, depth |-> 0, key |-> Garbage]
      BY <1>2, RecordIs, Zenon
    <2>2. [Idle EXCEPT !.op = "eval", !.seed = s] =
            [op |-> "eval", seed |-> s, pos |-> 0, depth |-> 0, key |-> Garbage]
      BY <2>1, Zenon
    <2>. QED BY <1>1, <2>2, Zenon
  <1>4. IsWorkspace(ws') /\ ws'[0] = Block(<<s>>)
    <2>. DEFINE b == Block(<<s>>)
    <2>0. IsWith(ws', ws, 0, b)
      BY <1>1, Zenon DEF IsWith
    <2>1. IsWorkspace(ws') /\ (0 \in 0..2 * Half - 1 => ws'[0] = b)
      <3>. HIDE DEF b
      <3>. QED BY <1>2, <2>0, WorkspaceWith
    <2>2. 0 \in 0..2 * Half - 1
      BY <1>2, NoneOrAll
    <2>. QED BY <1>1, <2>1, <2>2, Zenon
  <1>5. WalkInv' /\ call'.op = "eval" /\ call'.seed = s /\ call'.depth = 0
    <2>1. "eval" \in {"none", "eval", "punc", "evalpunc"} /\ 0 \in 0..Layers
      BY <1>2, NoneOrAll
    <2>. DEFINE r == call'
                g == Garbage
    <2>2. /\ r.op = "eval" /\ r.seed = s /\ r.depth = 0
          /\ r = [op |-> r.op, seed |-> r.seed, pos |-> r.pos, depth |-> r.depth, key |-> r.key]
      <3>1. r = [op |-> "eval", seed |-> s, pos |-> 0, depth |-> 0, key |-> g]
        BY <1>3, Zenon
      <3>. HIDE DEF r, g
      <3>. QED BY <3>1, RecordFields
    <2>3. WalkInv'
      BY <1>1, <1>2, <1>4, <2>1, <2>2, NewWalk, Zenon
    <2>. QED BY <2>2, <2>3, Zenon
  <1>6. "eval" # "punc" /\ "eval" # "evalpunc" /\ "none" # "punc"
    OBVIOUS
  <1>7. KeysInv' /\ EvalIsTree' /\ EvalPuncIsRest'
    BY <1>1, <1>2, <1>5, <1>6, KeysKept, ElemsKept, Zenon
  <1>8. \A n \in 0..2^call'.depth - 1 : ws'[n] = Tree(call'.seed, n, call'.depth)
    <2>1. Block(<<s>>) = Tree(s, 0, 0)
      BY PathTop, Zenon DEF Tree
    <2>. QED BY <1>2, <1>4, <1>5, <2>1, NoneOrAll, Zenon
  <1>9. EvalInv' /\ PuncInv' /\ EvalPuncInv'
    BY <1>5, <1>6, <1>8, Zenon DEF EvalInv, PuncInv, EvalPuncInv
  <1>. QED
    BY <1>5, <1>7, <1>9, Zenon DEF GgmInv

LEMMA EvalDescends ==
  ASSUME GgmInv, EvalLayer
  PROVE  GgmInv'
  <1>. DEFINE d == call.depth
              c == d + 1
              s == call.seed
  <1>1. /\ call.op = "eval" /\ d < Layers /\ ws' = Expanded(ws, d)
        /\ call' = [call EXCEPT !.depth = @ + 1]
        /\ wild' = (wild \/ 2^c > Half)
        /\ setSize' = setSize /\ pset' = pset /\ elems' = elems
    BY Zenon DEF EvalLayer, LayerLeft
  <1>2. /\ SizeOk /\ IsWorkspace(ws) /\ wild = FALSE /\ d \in 0..Layers
        /\ WalkInv /\ KeysInv /\ EvalIsTree /\ EvalPuncIsRest
    BY InvParts, Zenon
  <1>3. call' = [op |-> "eval", seed |-> s, pos |-> call.pos, depth |-> c, key |-> call.key]
    BY <1>1, <1>2, RecordIs, Zenon
  <1>4. /\ IsWorkspace(ws')
        /\ \A n \in 0..2^c - 1 :
             /\ n \in Nat /\ n \div 2 \in 0..2^d - 1
             /\ ws'[n] = Child(ws[n \div 2], n % 2)
        /\ 2^c <= Half
    BY <1>1, <1>2, ExpandedTo, Zenon
  <1>5. c \in 0..Layers /\ d \in 0..24
    <2>1. Layers \in 0..24
      BY <1>2, Shape
    <2>. HIDE DEF d
    <2>. QED BY <1>1, <1>2, <2>1
  <1>6. wild' = FALSE
    <2>1. Half \in Nat /\ 2^c \in Nat
      BY <1>2, <1>5, Shape, LayerPowers
    <2>. DEFINE q == 2^c
    <2>2. ~(q > Half)
      <3>1. q <= Half /\ q \in Nat
        BY <1>4, <2>1
      <3>. HIDE DEF q
      <3>. QED BY <2>1, <3>1
    <2>. QED BY <1>1, <1>2, <2>2, Zenon
  <1>7. WalkInv' /\ call'.op = "eval" /\ call'.seed = s /\ call'.depth = c
    <2>1. "eval" \in {"none", "eval", "punc", "evalpunc"}
      OBVIOUS
    <2>. DEFINE r == call'
                g == call.key
                p == call.pos
    <2>2. /\ r.op = "eval" /\ r.seed = s /\ r.depth = c
          /\ r = [op |-> r.op, seed |-> r.seed, pos |-> r.pos, depth |-> r.depth, key |-> r.key]
      <3>1. r = [op |-> "eval", seed |-> s, pos |-> p, depth |-> c, key |-> g]
        BY <1>3, Zenon
      <3>. HIDE DEF r, g, s, c, p
      <3>. QED BY <3>1, RecordFields
    <2>3. WalkInv'
      <3>. HIDE DEF c, s
      <3>. QED BY <1>1, <1>2, <1>4, <1>5, <1>6, <2>1, <2>2, NewWalk, Zenon
    <2>. QED BY <2>2, <2>3, Zenon
  <1>8. "eval" # "punc" /\ "eval" # "evalpunc"
    OBVIOUS
  <1>9. KeysInv' /\ EvalIsTree' /\ EvalPuncIsRest'
    BY <1>1, <1>2, <1>7, <1>8, KeysKept, ElemsKept, Zenon
  <1>10. ASSUME NEW n \in 0..2^c - 1 PROVE ws'[n] = Tree(s, n, c)
    <2>1. ws[n \div 2] = Tree(s, n \div 2, d)
      <3>1. \A m \in 0..2^d - 1 : ws[m] = Tree(s, m, d)
        BY <1>1, Zenon DEF GgmInv, EvalInv
      <3>. QED BY <1>4, <3>1, Zenon
    <2>2. Child(Tree(s, n \div 2, d), n % 2) = Tree(s, n, c)
      BY <1>4, <1>5, ChildOfTree, Zenon
    <2>. QED BY <1>4, <2>1, <2>2, Zenon
  <1>11. EvalInv' /\ PuncInv' /\ EvalPuncInv'
    <2>. HIDE DEF c, s
    <2>. QED BY <1>7, <1>8, <1>10, Zenon DEF EvalInv, PuncInv, EvalPuncInv
  <1>. QED
    BY <1>7, <1>9, <1>11, Zenon DEF GgmInv

LEMMA IdleIs ==
  /\ Idle.op = "none" /\ Idle.depth = 0
  /\ Idle = [op |-> Idle.op, seed |-> Idle.seed, pos |-> Idle.pos,
             depth |-> Idle.depth, key |-> Idle.key]
  <1>. DEFINE g == Garbage
              r == Idle
  <1>1. r = [op |-> "none", seed |-> 0, pos |-> 0, depth |-> 0, key |-> g]
    BY Zenon DEF Idle
  <1>. HIDE DEF g, r
  <1>2. /\ r.op = "none" /\ r.depth = 0
        /\ r = [op |-> r.op, seed |-> r.seed, pos |-> r.pos, depth |-> r.depth, key |-> r.key]
    BY <1>1, RecordFields
  <1>. QED
    BY <1>2 DEF r

LEMMA BackToIdle ==
  ASSUME SizeOk, setSize' = setSize, IsWorkspace(ws'), wild' = FALSE, call' = Idle
  PROVE  WalkInv' /\ call'.op = "none"
  <1>1. "none" \in {"none", "eval", "punc", "evalpunc"} /\ 0 \in 0..Layers
    BY NoneOrAll
  <1>. QED
    BY <1>1, IdleIs, NewWalk, Zenon

\* The block a leaf is in.
LEMMA LeafInLayer ==
  ASSUME SizeOk, NEW i \in 0..setSize - 1
  PROVE  /\ i \in Nat /\ i \in 0..Half - 1 /\ NodeOn(i, Layers) = i \div 4
         /\ i \div 4 \in 0..2^Layers - 1 /\ i \div 4 \in 0..2 * Half - 1
         /\ i \div 4 \in Nat /\ i \div 4 < Half
  <1>. DEFINE H == Half
              q == i \div 4
              l == Layers
              p == 2^l
  <1>1. setSize \in Nat /\ setSize <= H /\ H \in Nat /\ l \in Nat
    BY Shape
  <1>2. i \in Nat /\ i \in 0..H - 1
    <2>. HIDE DEF H
    <2>. QED BY <1>1
  <1>3. NodeOn(i, l) = q /\ NodeOn(i, l) \in 0..p - 1
    <2>1. l \in 0..l
      <3>. HIDE DEF l
      <3>. QED BY <1>1
    <2>. HIDE DEF q
    <2>. QED BY <1>2, <2>1, NodeInLayer DEF q
  <1>4. p \in Nat /\ p <= H
    <2>1. l \in 0..Layers
      <3>. HIDE DEF l
      <3>1. l \in 0..l
        BY <1>1
      <3>. QED BY <3>1 DEF l
    <2>. QED BY <2>1, LayerPowers
  <1>5. q \in 0..p - 1
    BY <1>3
  <1>6. q \in 0..2 * H - 1 /\ q \in Nat /\ q < H
    <2>. HIDE DEF q, p, H
    <2>. QED BY <1>1, <1>4, <1>5
  <1>. QED
    BY <1>2, <1>3, <1>5, <1>6

LEMMA EvalEnds ==
  ASSUME GgmInv, EvalReturns
  PROVE  GgmInv'
  <1>. DEFINE s == call.seed
              o == [i \in 0..setSize - 1 |-> ElemAt(ws, i)]
  <1>1. /\ call.op = "eval" /\ ~(call.depth < Layers)
        /\ elems' = [op |-> "eval", seed |-> s, pos |-> 0, out |-> o]
        /\ wild' = (wild \/ (setSize - 1) \div 4 >= Half)
        /\ call' = Idle /\ setSize' = setSize /\ ws' = ws /\ pset' = pset
    BY Zenon DEF EvalReturns, LayerLeft
  <1>2. /\ SizeOk /\ IsWorkspace(ws) /\ wild = FALSE /\ call.depth \in 0..Layers
        /\ WalkInv /\ KeysInv
    BY InvParts, Zenon
  <1>3. call.depth = Layers
    <2>. DEFINE l == Layers
                d == call.depth
    <2>0. l \in Nat
      BY <1>2, Shape
    <2>1. l \in Nat /\ d \in 0..l /\ ~(d < l)
      BY <1>1, <1>2, <2>0, Zenon
    <2>. HIDE DEF l, d
    <2>2. d = l
      BY <2>1
    <2>. QED BY <2>2 DEF d, l
  <1>4. wild' = FALSE
    <2>. DEFINE q == (setSize - 1) \div 4
    <2>1. setSize \in Nat /\ 1 <= setSize /\ Half \in Nat
      BY <1>2, Shape
    <2>2. setSize - 1 \in 0..setSize - 1
      BY <2>1
    <2>3. q \in Nat /\ q < Half
      <3>. DEFINE i == setSize - 1
      <3>1. i \in 0..setSize - 1
        BY <2>2
      <3>. HIDE DEF i
      <3>2. i \div 4 \in Nat /\ i \div 4 < Half
        BY <1>2, <3>1, LeafInLayer
      <3>. QED BY <3>2 DEF i
    <2>. HIDE DEF q
    <2>4. ~(q >= Half)
      BY <2>1, <2>3
    <2>. QED BY <1>1, <1>2, <2>4, Zenon DEF q
  <1>5. WalkInv' /\ call'.op = "none"
    BY <1>1, <1>2, <1>4, BackToIdle, Zenon
  <1>6. "eval" # "punc" /\ "none" # "punc" /\ "none" # "eval" /\ "none" # "evalpunc"
        /\ "eval" # "evalpunc"
    OBVIOUS
  <1>7. KeysInv'
    BY <1>1, <1>2, <1>5, <1>6, KeysKept, Zenon
  <1>8. elems'.op = "eval" /\ elems'.seed = s /\ elems'.out = o
    <2>. HIDE DEF s, o
    <2>. QED BY <1>1
  <1>9. ASSUME NEW i \in 0..setSize - 1 PROVE o[i] = LeafElem(s, i)
    <2>1. o[i] = ElemAt(ws, i)
      BY Zenon
    <2>2. i \in Nat /\ i \div 4 \in 0..2^Layers - 1
      BY <1>2, LeafInLayer
    <2>3. ws[i \div 4] = Tree(s, i \div 4, Layers)
      <3>1. \A n \in 0..2^call.depth - 1 : ws[n] = Tree(s, n, call.depth)
        BY <1>1, Zenon DEF GgmInv, EvalInv
      <3>. QED BY <1>3, <2>2, <3>1, Zenon
    <2>4. ElemAt(ws, i) = LeafElem(s, i)
      <3>. HIDE DEF s
      <3>. QED BY <1>2, <2>2, <2>3, ElemOfWhole, Zenon
    <2>. QED BY <2>1, <2>4, Zenon
  <1>10. EvalIsTree'
    <2>. HIDE DEF s, o
    <2>. QED BY <1>1, <1>8, <1>9, SizeStays, Zenon DEF EvalIsTree
  <1>11. EvalPuncIsRest' /\ EvalInv' /\ PuncInv' /\ EvalPuncInv'
    BY <1>5, <1>6, <1>8, Zenon DEF EvalPuncIsRest, EvalInv, PuncInv, EvalPuncInv
  <1>. QED
    BY <1>5, <1>7, <1>10, <1>11, Zenon DEF GgmInv

-----------------------------------------------------------------------------
LEMMA PsetFields ==
  ASSUME NEW o, NEW s, NEW p, NEW k, NEW r,
         r = [op |-> o, seed |-> s, pos |-> p, keys |-> k]
  PROVE  /\ r.op = o /\ r.seed = s /\ r.pos = p /\ r.keys = k
         /\ r = [op |-> r.op, seed |-> r.seed, pos |-> r.pos, keys |-> r.keys]
         /\ \A e : [r EXCEPT !.keys = Append(@, e)] =
                     [op |-> o, seed |-> s, pos |-> p, keys |-> Append(k, e)]
  <1>1. /\ r.op = o /\ r.seed = s /\ r.pos = p /\ r.keys = k
        /\ r = [op |-> r.op, seed |-> r.seed, pos |-> r.pos, keys |-> r.keys]
    OBVIOUS
  <1>2. ASSUME NEW e PROVE [r EXCEPT !.keys = Append(@, e)] =
                     [op |-> o, seed |-> s, pos |-> p, keys |-> Append(k, e)]
    <2>. DEFINE a == Append(k, e)
    <2>1. [r EXCEPT !.keys = Append(@, e)] = [r EXCEPT !.keys = a]
      BY <1>1, Zenon
    <2>2. [r EXCEPT !.keys = a] = [op |-> o, seed |-> s, pos |-> p, keys |-> a]
      <3>. HIDE DEF a
      <3>. QED OBVIOUS
    <2>. QED BY <2>1, <2>2, Zenon
  <1>. QED
    BY <1>1, <1>2, Zenon

LEMMA PsetAppend ==
  ASSUME NEW o, NEW s, NEW p, NEW k, NEW r, NEW e, NEW q,
         r = [op |-> o, seed |-> s, pos |-> p, keys |-> k],
         q = [r EXCEPT !.keys = Append(@, e)]
  PROVE  q = [op |-> o, seed |-> s, pos |-> p, keys |-> Append(k, e)]
  BY PsetFields

LEMMA KeysGrown ==
  ASSUME setSize' = setSize, call'.op = "punc", pset'.op = "punc",
         pset' = [op |-> pset'.op, seed |-> pset'.seed, pos |-> pset'.pos, keys |-> pset'.keys],
         pset'.pos \in 0..setSize - 1,
         pset'.keys = KeysTo(pset'.seed, pset'.pos, call'.depth)
  PROVE  KeysInv'
  BY SizeStays, Zenon DEF KeysInv

LEMMA KeysDone ==
  ASSUME setSize' = setSize, call'.op # "punc", pset'.op = "punc",
         pset' = [op |-> pset'.op, seed |-> pset'.seed, pos |-> pset'.pos, keys |-> pset'.keys],
         pset'.pos \in 0..setSize - 1,
         pset'.keys = AllKeys(pset'.seed, pset'.pos)
  PROVE  KeysInv'
  BY SizeStays, Zenon DEF KeysInv

LEMMA PuncStarts ==
  ASSUME GgmInv, NEW s, NEW p \in 0..setSize - 1, pset_ggm_punc(s, p)
  PROVE  GgmInv'
  <1>. DEFINE b == Block(<<s>>)
  <1>1. /\ call = Idle
        /\ call' = [Idle EXCEPT !.op = "punc", !.seed = s, !.pos = p, !.key = b]
        /\ pset' = [op |-> "punc", seed |-> s, pos |-> p, keys |-> <<>>]
        /\ setSize' = setSize /\ ws' = ws /\ elems' = elems /\ wild' = wild
    BY Zenon DEF pset_ggm_punc
  <1>2. /\ SizeOk /\ IsWorkspace(ws) /\ wild = FALSE
        /\ WalkInv /\ EvalIsTree /\ EvalPuncIsRest
    BY <1>1, InvParts, Zenon
  <1>3. call' = [op |-> "punc", seed |-> s, pos |-> p, depth |-> 0, key |-> b]
    <2>. HIDE DEF b
    <2>. QED BY <1>1, <1>2, RecordIs, Zenon
  <1>4. /\ call'.op = "punc" /\ call'.seed = s /\ call'.pos = p /\ call'.depth = 0 /\ call'.key = b
        /\ WalkInv'
    <2>1. "punc" \in {"none", "eval", "punc", "evalpunc"} /\ 0 \in 0..Layers
      BY <1>2, NoneOrAll
    <2>. DEFINE r == call'
    <2>2. /\ r.op = "punc" /\ r.seed = s /\ r.pos = p /\ r.depth = 0 /\ r.key = b
          /\ r = [op |-> r.op, seed |-> r.seed, pos |-> r.pos, depth |-> r.depth, key |-> r.key]
      <3>1. r = [op |-> "punc", seed |-> s, pos |-> p, depth |-> 0, key |-> b]
        BY <1>3, Zenon
      <3>. HIDE DEF r, b
      <3>. QED BY <3>1, RecordFields
    <2>3. WalkInv'
      BY <1>1, <1>2, <2>1, <2>2, NewWalk, Zenon
    <2>. QED BY <2>2, <2>3, Zenon
  <1>5. /\ pset'.op = "punc" /\ pset'.seed = s /\ pset'.pos = p /\ pset'.keys = <<>>
        /\ pset' = [op |-> pset'.op, seed |-> pset'.seed, pos |-> pset'.pos, keys |-> pset'.keys]
    BY <1>1, PsetFields
  <1>6. <<>> = KeysTo(s, p, 0)
    BY KeysGrow
  <1>7. KeysInv'
    BY <1>1, <1>4, <1>5, <1>6, KeysGrown, Zenon
  <1>8. b = Tree(s, NodeOn(p, 0), 0)
    <2>1. NodeOn(p, 0) = 0
      <3>1. p \in 0..Half - 1
        BY <1>2, LeafInLayer
      <3>. QED BY <1>2, <3>1, NodeInLayer, Zenon
    <2>. QED BY <2>1, PathTop, Zenon DEF Tree
  <1>9. OfSet'
    BY <1>4, <1>5, Zenon DEF OfSet
  <1>10. PuncInv'
    <2>. HIDE DEF b
    <2>. QED BY <1>1, <1>4, <1>8, <1>9, SizeStays, Zenon DEF PuncInv
  <1>11. "punc" # "eval" /\ "punc" # "evalpunc"
    OBVIOUS
  <1>12. EvalInv' /\ EvalPuncInv'
    BY <1>4, <1>11, Zenon DEF EvalInv, EvalPuncInv
  <1>13. EvalIsTree' /\ EvalPuncIsRest'
    BY <1>1, <1>2, ElemsKept, Zenon
  <1>. QED
    BY <1>4, <1>7, <1>10, <1>12, <1>13, Zenon DEF GgmInv

LEMMA PuncFacts ==
  ASSUME GgmInv, call.op = "punc"
  PROVE  /\ pset.op = "punc" /\ call.seed = pset.seed /\ call.pos = pset.pos
         /\ pset = [op |-> "punc", seed |-> pset.seed, pos |-> pset.pos, keys |-> pset.keys]
         /\ pset.pos \in 0..setSize - 1
         /\ pset.keys = KeysTo(pset.seed, pset.pos, call.depth)
         /\ call.key = Tree(call.seed, NodeOn(call.pos, call.depth), call.depth)
  <1>1. PuncInv /\ KeysInv
    BY Zenon DEF GgmInv
  <1>2. pset.op = "punc" /\ call.seed = pset.seed /\ call.pos = pset.pos
        /\ call.key = Tree(call.seed, NodeOn(call.pos, call.depth), call.depth)
    BY <1>1, Zenon DEF PuncInv, OfSet
  <1>. QED
    BY <1>1, <1>2, Zenon DEF KeysInv

LEMMA PuncDescends ==
  ASSUME GgmInv, PuncLayer
  PROVE  GgmInv'
  <1>. DEFINE d == call.depth
              c == d + 1
              s == call.seed
              p == call.pos
              bit == BitAt(p, d)
              k == call.key
              child == [b \in 0..1 |-> Child(k, b)]
              n == NodeOn(p, c)
              m == Sibling(n)
  <1>1. /\ call.op = "punc" /\ d < Layers
        /\ ws' = [ws EXCEPT ![0] = child[0], ![1] = child[1], ![Half] = k, ![Half + 1] = XorOne(k)]
        /\ pset' = [pset EXCEPT !.keys = Append(@, child[1 - bit])]
        /\ call' = [call EXCEPT !.key = child[bit], !.depth = @ + 1]
        /\ setSize' = setSize /\ elems' = elems /\ wild' = wild
    BY Zenon DEF PuncLayer, LayerLeft
  <1>2. /\ SizeOk /\ IsWorkspace(ws) /\ wild = FALSE /\ d \in 0..Layers
        /\ WalkInv /\ KeysInv /\ EvalIsTree /\ EvalPuncIsRest
    BY InvParts, Zenon
  <1>3. /\ pset = [op |-> "punc", seed |-> s, pos |-> p, keys |-> pset.keys]
        /\ p \in 0..setSize - 1 /\ pset.keys = KeysTo(s, p, d)
        /\ k = Tree(s, NodeOn(p, d), d)
    BY <1>1, PuncFacts, Zenon
  <1>4. p \in Nat /\ p \in 0..Half - 1
    BY <1>2, <1>3, LeafInLayer, Zenon
  <1>5. c \in 0..Layers /\ d \in 0..24
    <2>1. Layers \in 0..24
      BY <1>2, Shape
    <2>2. d < Layers /\ d \in 0..Layers
      BY <1>1, <1>2, Zenon
    <2>. HIDE DEF d
    <2>. QED BY <2>1, <2>2
  <1>6. n \in Nat
    <2>1. n \in 0..2^c - 1
      <3>. HIDE DEF c, p
      <3>. QED BY <1>2, <1>4, <1>5, NodeInLayer, Zenon
    <2>. HIDE DEF n
    <2>. QED BY <2>1
  <1>7. n \div 2 = NodeOn(p, d) /\ bit = n % 2
    <2>. HIDE DEF p, d
    <2>. QED BY <1>1, <1>2, <1>4, NodeBelow
  <1>8. /\ m \in Nat /\ m \div 2 = n \div 2 /\ m % 2 = 1 - bit /\ bit \in {0, 1}
    <2>1. m \in Nat /\ m \div 2 = n \div 2 /\ m % 2 = 1 - (n % 2) /\ n % 2 \in {0, 1}
      <3>. HIDE DEF n
      <3>. QED BY <1>6, SiblingOf, HalfOf
    <2>. QED BY <1>7, <2>1, Zenon
  <1>9. child[bit] = Tree(s, n, c) /\ child[1 - bit] = Tree(s, m, c)
    <2>1. bit \in 0..1 /\ 1 - bit \in 0..1
      <3>. HIDE DEF bit
      <3>. QED BY <1>8
    <2>2. child[bit] = Child(k, bit) /\ child[1 - bit] = Child(k, 1 - bit)
      <3>. HIDE DEF bit, k
      <3>. QED BY <2>1, Zenon
    <2>3. Child(Tree(s, n \div 2, d), n % 2) = Tree(s, n, c)
      <3>. HIDE DEF n
      <3>. QED BY <1>5, <1>6, ChildOfTree
    <2>4. Child(Tree(s, m \div 2, d), m % 2) = Tree(s, m, c)
      <3>. HIDE DEF m
      <3>. QED BY <1>5, <1>8, ChildOfTree
    <2>. HIDE DEF n, m, child, bit, k
    <2>. QED BY <1>3, <1>7, <1>8, <2>2, <2>3, <2>4, Zenon
  <1>10. IsWorkspace(ws')
    <2>. DEFINE D == 0..2 * Half - 1
                w == ws'
                x0 == child[0]
                x1 == child[1]
                x2 == XorOne(k)
    <2>1. DOMAIN ws = D
      <3>1. ws = [x \in D |-> ws[x]]
        BY <1>2, Zenon DEF IsWorkspace
      <3>. HIDE DEF D
      <3>. QED BY <3>1, Zenon
    <2>2. w = [ws EXCEPT ![0] = x0, ![1] = x1, ![Half] = k, ![Half + 1] = x2]
      BY <1>1, Zenon
    <2>. HIDE DEF D, w, x0, x1, x2, k
    <2>3. w = [x \in D |-> w[x]]
      BY <2>1, <2>2, Zenon
    <2>. QED BY <2>3, Zenon DEF IsWorkspace, D, w
  <1>. DEFINE nk == child[bit]
              ok == child[1 - bit]
  <1>11. call' = [op |-> "punc", seed |-> s, pos |-> p, depth |-> c, key |-> nk]
    <2>1. call' = [call EXCEPT !.key = nk, !.depth = @ + 1]
      BY <1>1, Zenon
    <2>. HIDE DEF nk
    <2>. QED BY <1>1, <1>2, <2>1, RecordIs, Zenon
  <1>12. /\ call'.op = "punc" /\ call'.seed = s /\ call'.pos = p /\ call'.depth = c /\ call'.key = nk
         /\ WalkInv'
    <2>1. "punc" \in {"none", "eval", "punc", "evalpunc"}
      OBVIOUS
    <2>. DEFINE r == call'
    <2>2. /\ r.op = "punc" /\ r.seed = s /\ r.pos = p /\ r.depth = c /\ r.key = nk
          /\ r = [op |-> r.op, seed |-> r.seed, pos |-> r.pos, depth |-> r.depth, key |-> r.key]
      <3>1. r = [op |-> "punc", seed |-> s, pos |-> p, depth |-> c, key |-> nk]
        BY <1>11, Zenon
      <3>. HIDE DEF r, s, p, c, nk
      <3>. QED BY <3>1, RecordFields
    <2>3. WalkInv'
      <3>. HIDE DEF c, s, p, nk
      <3>. QED BY <1>1, <1>2, <1>5, <1>10, <2>1, <2>2, NewWalk, Zenon
    <2>. QED BY <2>2, <2>3, Zenon
  <1>13. /\ pset'.op = "punc" /\ pset'.seed = s /\ pset'.pos = p /\ pset'.keys = KeysTo(s, p, c)
         /\ pset' = [op |-> pset'.op, seed |-> pset'.seed, pos |-> pset'.pos, keys |-> pset'.keys]
    <2>. DEFINE r == pset
                q == pset'
                ks == pset.keys
                a == Append(ks, ok)
    <2>1. q = [op |-> "punc", seed |-> s, pos |-> p, keys |-> a]
      <3>1. r = [op |-> "punc", seed |-> s, pos |-> p, keys |-> ks]
        BY <1>3, Zenon
      <3>2. q = [r EXCEPT !.keys = Append(@, ok)]
        BY <1>1, Zenon
      <3>. HIDE DEF r, q, ks, ok, s, p
      <3>. QED BY <3>1, <3>2, PsetAppend
    <2>2. a = KeysTo(s, p, c)
      <3>1. ok = KeyAt(s, p, c)
        <4>. HIDE DEF child, bit
        <4>. QED BY <1>9, Zenon DEF KeyAt
      <3>2. Append(KeysTo(s, p, d), KeyAt(s, p, c)) = KeysTo(s, p, c)
        <4>1. d \in Nat
          <5>. HIDE DEF d
          <5>. QED BY <1>5
        <4>. HIDE DEF s, p, d
        <4>. QED BY <4>1, KeysGrow
      <3>. HIDE DEF s, p, c, ok, d
      <3>. QED BY <1>3, <3>1, <3>2, Zenon
    <2>3. q.op = "punc" /\ q.seed = s /\ q.pos = p /\ q.keys = a
          /\ q = [op |-> q.op, seed |-> q.seed, pos |-> q.pos, keys |-> q.keys]
      <3>. HIDE DEF q, s, p, a
      <3>. QED BY <2>1, PsetFields, Zenon
    <2>. HIDE DEF a, s, p
    <2>. QED BY <2>2, <2>3, Zenon
  <1>14. KeysInv'
    <2>. HIDE DEF s, p, c, nk
    <2>. QED BY <1>1, <1>3, <1>12, <1>13, KeysGrown, Zenon
  <1>15. OfSet'
    BY <1>12, <1>13, Zenon DEF OfSet
  <1>16. PuncInv'
    <2>1. nk = Tree(s, NodeOn(p, c), c)
      BY <1>9, Zenon
    <2>. HIDE DEF s, p, c, nk
    <2>. QED BY <1>1, <1>12, <1>15, <2>1, SizeStays, Zenon DEF PuncInv
  <1>17. "punc" # "eval" /\ "punc" # "evalpunc"
    OBVIOUS
  <1>18. EvalInv' /\ EvalPuncInv'
    BY <1>12, <1>17, Zenon DEF EvalInv, EvalPuncInv
  <1>19. EvalIsTree' /\ EvalPuncIsRest'
    BY <1>1, <1>2, ElemsKept, Zenon
  <1>. QED
    BY <1>12, <1>14, <1>16, <1>18, <1>19, Zenon DEF GgmInv

LEMMA AtLast ==
  ASSUME SizeOk, call.depth \in 0..Layers, ~(call.depth < Layers)
  PROVE  call.depth = Layers
  <1>. DEFINE l == Layers
              d == call.depth
  <1>1. l \in Nat
    BY Shape
  <1>2. d \in 0..l /\ ~(d < l)
    OBVIOUS
  <1>. HIDE DEF l, d
  <1>3. d = l
    BY <1>1, <1>2
  <1>. QED BY <1>3 DEF d, l

LEMMA PuncEnds ==
  ASSUME GgmInv, PuncReturns
  PROVE  GgmInv'
  <1>. DEFINE s == pset.seed
              p == pset.pos
              e == [call.key EXCEPT !.hole = call.pos % 4]
              ks == pset.keys
              q == pset'
              r == pset
  <1>1. /\ call.op = "punc" /\ ~(call.depth < Layers)
        /\ q = [r EXCEPT !.keys = Append(@, e)]
        /\ wild' = (wild \/ Len(pset'.keys) > pset_buffer_size)
        /\ call' = Idle /\ setSize' = setSize /\ ws' = ws /\ elems' = elems
    BY Zenon DEF PuncReturns, LayerLeft
  <1>2. /\ SizeOk /\ IsWorkspace(ws) /\ wild = FALSE /\ call.depth \in 0..Layers
        /\ WalkInv /\ EvalIsTree /\ EvalPuncIsRest
    BY InvParts, Zenon
  <1>3. call.depth = Layers
    BY <1>1, <1>2, AtLast, Zenon
  <1>4. /\ call.seed = s /\ call.pos = p /\ p \in 0..setSize - 1
        /\ r = [op |-> "punc", seed |-> s, pos |-> p, keys |-> ks]
        /\ ks = KeysTo(s, p, Layers)
        /\ call.key = Tree(s, NodeOn(p, Layers), Layers)
    BY <1>1, <1>3, PuncFacts, Zenon
  <1>5. e = LastKey(s, p)
    BY <1>4, Zenon DEF LastKey
  <1>6. q = [op |-> "punc", seed |-> s, pos |-> p, keys |-> Append(ks, e)]
    <2>. HIDE DEF s, p, e, ks, q, r
    <2>. QED BY <1>1, <1>4, PsetAppend
  <1>7. Append(ks, e) = AllKeys(s, p) /\ Len(Append(ks, e)) = Layers + 1
    <2>1. /\ Append(KeysTo(s, p, Layers), LastKey(s, p)) = AllKeys(s, p)
          /\ Len(AllKeys(s, p)) = Layers + 1
      <3>. HIDE DEF s, p
      <3>. QED BY <1>2, KeysEnd
    <2>. HIDE DEF s, p, e, ks
    <2>. QED BY <1>4, <1>5, <2>1, Zenon
  <1>8. /\ q.op = "punc" /\ q.seed = s /\ q.pos = p /\ q.keys = AllKeys(s, p)
        /\ q = [op |-> q.op, seed |-> q.seed, pos |-> q.pos, keys |-> q.keys]
    <2>. DEFINE a == Append(ks, e)
    <2>1. q = [op |-> "punc", seed |-> s, pos |-> p, keys |-> a]
      BY <1>6
    <2>2. a = AllKeys(s, p)
      BY <1>7
    <2>. HIDE DEF s, p, q, a
    <2>3. /\ q.op = "punc" /\ q.seed = s /\ q.pos = p /\ q.keys = a
          /\ q = [op |-> q.op, seed |-> q.seed, pos |-> q.pos, keys |-> q.keys]
      BY <2>1, PsetFields, Zenon
    <2>. QED BY <2>2, <2>3, Zenon
  <1>9. wild' = FALSE
    <2>. DEFINE l == Layers
                h == height
                b == pset_buffer_size
                n == Len(pset'.keys)
    <2>1. n = l + 1
      BY <1>7, <1>8, Zenon
    <2>2. /\ h \in 1..26 /\ l \in 0..24 /\ (h > 2 => l = h - 2) /\ (~(h > 2) => l = 0)
      BY <1>2, Shape
    <2>3. b = IF h < 2 THEN 1 ELSE h - 1
      BY Zenon DEF pset_buffer_size
    <2>. HIDE DEF l, h, b, n
    <2>4. ~(n > b)
      BY <2>1, <2>2, <2>3
    <2>. QED BY <1>1, <1>2, <2>4, Zenon DEF n, b
  <1>10. WalkInv' /\ call'.op = "none"
    BY <1>1, <1>2, <1>9, BackToIdle, Zenon
  <1>11. "none" # "punc" /\ "none" # "eval" /\ "none" # "evalpunc"
    OBVIOUS
  <1>12. KeysInv'
    <2>. QED BY <1>1, <1>4, <1>8, <1>10, <1>11, KeysDone, Zenon
  <1>13. EvalInv' /\ PuncInv' /\ EvalPuncInv'
    BY <1>10, <1>11, Zenon DEF EvalInv, PuncInv, EvalPuncInv
  <1>14. EvalIsTree' /\ EvalPuncIsRest'
    BY <1>1, <1>2, ElemsKept, Zenon
  <1>. QED
    BY <1>10, <1>12, <1>13, <1>14, Zenon DEF GgmInv

-----------------------------------------------------------------------------
LEMMA NodesKnown ==
  ASSUME setSize' = setSize, OfSet',
         \A n \in 0..2^call'.depth - 1 :
           n # NodeOn(call'.pos, call'.depth) => ws'[n] = Tree(call'.seed, n, call'.depth)
  PROVE  EvalPuncInv'
  BY SizeStays, Zenon DEF EvalPuncInv

LEMMA EvalPuncStarts ==
  ASSUME GgmInv, pset_ggm_eval_punc
  PROVE  GgmInv'
  <1>. DEFINE s == pset.seed
              p == pset.pos
              g == Garbage
              r == call'
  <1>1. /\ call = Idle /\ pset.op = "punc"
        /\ call' = [Idle EXCEPT !.op = "evalpunc", !.seed = s, !.pos = p]
        /\ setSize' = setSize /\ ws' = ws /\ pset' = pset /\ elems' = elems /\ wild' = wild
    BY Zenon DEF pset_ggm_eval_punc
  <1>2. /\ SizeOk /\ IsWorkspace(ws) /\ wild = FALSE /\ call.op = "none"
        /\ WalkInv /\ KeysInv /\ EvalIsTree /\ EvalPuncIsRest
    BY <1>1, InvParts, Zenon
  <1>3. r = [op |-> "evalpunc", seed |-> s, pos |-> p, depth |-> 0, key |-> g]
    <2>. HIDE DEF s, p
    <2>. QED BY <1>1, <1>2, RecordIs, Zenon
  <1>4. /\ r.op = "evalpunc" /\ r.seed = s /\ r.pos = p /\ r.depth = 0
        /\ r = [op |-> r.op, seed |-> r.seed, pos |-> r.pos, depth |-> r.depth, key |-> r.key]
    <2>. HIDE DEF r, s, p, g
    <2>. QED BY <1>3, RecordFields
  <1>5. WalkInv'
    <2>1. "evalpunc" \in {"none", "eval", "punc", "evalpunc"} /\ 0 \in 0..Layers
      BY <1>2, NoneOrAll
    <2>. QED BY <1>1, <1>2, <1>4, <2>1, NewWalk, Zenon
  <1>6. "evalpunc" # "punc" /\ "evalpunc" # "eval" /\ "none" # "punc"
    OBVIOUS
  <1>7. KeysInv'
    BY <1>1, <1>2, <1>4, <1>6, KeysKept, Zenon
  <1>8. p \in 0..Half - 1
    <2>1. p \in 0..setSize - 1
      BY <1>1, <1>2, Zenon DEF KeysInv
    <2>. HIDE DEF p
    <2>. QED BY <1>2, <2>1, LeafInLayer
  <1>9. NodeOn(p, 0) = 0
    BY <1>2, <1>8, NodeInLayer, Zenon
  <1>10. OfSet'
    BY <1>1, <1>4, Zenon DEF OfSet
  <1>11. \A n \in 0..2^0 - 1 : n = NodeOn(p, 0)
    BY <1>2, <1>9, NoneOrAll, Zenon
  <1>12. EvalPuncInv'
    <2>1. ASSUME NEW n \in 0..2^call'.depth - 1, n # NodeOn(call'.pos, call'.depth)
          PROVE  ws'[n] = Tree(call'.seed, n, call'.depth)
      <3>. HIDE DEF p
      <3>. QED BY <1>4, <1>11, <2>1, Zenon
    <2>. QED BY <1>1, <1>10, <2>1, NodesKnown, Zenon
  <1>13. EvalInv' /\ PuncInv'
    BY <1>4, <1>6, Zenon DEF EvalInv, PuncInv
  <1>14. EvalIsTree' /\ EvalPuncIsRest'
    BY <1>1, <1>2, ElemsKept, Zenon
  <1>. QED
    BY <1>5, <1>7, <1>12, <1>13, <1>14, Zenon DEF GgmInv

LEMMA EvalPuncFacts ==
  ASSUME GgmInv, call.op = "evalpunc"
  PROVE  /\ pset.op = "punc" /\ call.seed = pset.seed /\ call.pos = pset.pos
         /\ call.pos \in 0..setSize - 1
         /\ pset.keys = AllKeys(call.seed, call.pos)
         /\ \A n \in 0..2^call.depth - 1 :
              n # NodeOn(call.pos, call.depth) => ws[n] = Tree(call.seed, n, call.depth)
  <1>1. EvalPuncInv /\ KeysInv
    BY Zenon DEF GgmInv
  <1>2. /\ pset.op = "punc" /\ call.seed = pset.seed /\ call.pos = pset.pos
        /\ \A n \in 0..2^call.depth - 1 :
             n # NodeOn(call.pos, call.depth) => ws[n] = Tree(call.seed, n, call.depth)
    BY <1>1, Zenon DEF EvalPuncInv, OfSet
  <1>3. call.op # "punc"
    <2>1. "evalpunc" # "punc"
      OBVIOUS
    <2>. QED BY <2>1, Zenon
  <1>. QED
    BY <1>1, <1>2, <1>3, Zenon DEF KeysInv

LEMMA EvalPuncDescends ==
  ASSUME GgmInv, EvalPuncLayer
  PROVE  GgmInv'
  <1>. DEFINE d == call.depth
              c == d + 1
              s == call.seed
              p == call.pos
              at == Beside(p, d)
              n0 == NodeOn(p, c)
              w == Expanded(ws, d)
              key == pset.keys[c]
              r == call'
  <1>1. /\ call.op = "evalpunc" /\ d < Layers
        /\ ws' = [w EXCEPT ![at] = key]
        /\ wild' = (wild \/ 2^c > Half \/ at >= Half)
        /\ call' = [call EXCEPT !.depth = @ + 1]
        /\ setSize' = setSize /\ pset' = pset /\ elems' = elems
    BY Zenon DEF EvalPuncLayer, LayerLeft
  <1>2. /\ SizeOk /\ IsWorkspace(ws) /\ wild = FALSE /\ d \in 0..Layers
        /\ WalkInv /\ KeysInv /\ EvalIsTree /\ EvalPuncIsRest
    BY InvParts, Zenon
  <1>3. /\ pset.op = "punc" /\ s = pset.seed /\ p = pset.pos
        /\ p \in 0..setSize - 1 /\ pset.keys = AllKeys(s, p)
        /\ \A n \in 0..2^d - 1 : n # NodeOn(p, d) => ws[n] = Tree(s, n, d)
    BY <1>1, EvalPuncFacts, Zenon
  <1>4. p \in Nat /\ p \in 0..Half - 1
    BY <1>2, <1>3, LeafInLayer, Zenon
  <1>5. c \in 0..Layers /\ d \in 0..24 /\ c \in 1..Layers /\ c \in 1..Layers + 1 /\ c <= Layers
    <2>1. Layers \in 0..24
      BY <1>2, Shape
    <2>2. d < Layers /\ d \in 0..Layers
      BY <1>1, <1>2, Zenon
    <2>. HIDE DEF d
    <2>. QED BY <2>1, <2>2
  <1>6. n0 \in 0..2^c - 1 /\ n0 \in Nat
    <2>1. n0 \in 0..2^c - 1
      <3>. HIDE DEF c, p
      <3>. QED BY <1>2, <1>4, <1>5, NodeInLayer, Zenon
    <2>. HIDE DEF n0
    <2>. QED BY <2>1
  <1>7. n0 \div 2 = NodeOn(p, d) /\ at = Sibling(n0)
    <2>. HIDE DEF p, d
    <2>. QED BY <1>1, <1>2, <1>4, NodeBelow
  <1>8. /\ at \in Nat /\ at # n0 /\ at \div 2 = n0 \div 2
        /\ \A m \in Nat : m \div 2 = n0 \div 2 => m = n0 \/ m = at
    <2>. HIDE DEF n0, at
    <2>. QED BY <1>6, <1>7, SiblingOf, Zenon
  <1>9. /\ IsWorkspace(w)
        /\ \A n \in 0..2^c - 1 :
             /\ n \in Nat /\ n \in 0..2 * Half - 1 /\ n \div 2 \in 0..2^d - 1
             /\ w[n] = Child(ws[n \div 2], n % 2)
        /\ 2^c <= Half
    BY <1>1, <1>2, ExpandedTo, Zenon
  <1>10. Half \in Nat /\ 2^c \in Nat /\ 2^c = 2 * 2^d /\ 2^d \in Nat
    <2>1. Half \in Nat
      BY <1>2, Shape
    <2>2. 2^c \in Nat
      <3>. HIDE DEF c
      <3>. QED BY <1>2, <1>5, LayerPowers
    <2>3. 2^d \in Nat /\ 2^c = 2 * 2^d
      <3>1. d \in 0..Layers /\ d < Layers
        BY <1>1, <1>2, Zenon
      <3>. QED BY <1>2, <3>1, LayerPowers
    <2>. QED BY <2>1, <2>2, <2>3
  <1>11. at \in 0..2^c - 1 /\ at < Half
    <2>. DEFINE q == 2^c
                b == 2^d
                H == Half
    <2>1. n0 \div 2 \in 0..b - 1
      BY <1>6, <1>9, Zenon
    <2>2. at \div 2 \in 0..b - 1
      BY <1>8, <2>1, Zenon
    <2>. HIDE DEF at
    <2>3. at \div 2 \in Nat /\ at % 2 \in {0, 1} /\ at = 2 * (at \div 2) + (at % 2)
      BY <1>8, HalfOf
    <2>4. q = 2 * b /\ b \in Nat /\ q \in Nat /\ H \in Nat /\ q <= H
      BY <1>9, <1>10, Zenon
    <2>. HIDE DEF q, b, H
    <2>5. at \in 0..q - 1 /\ at < H
      BY <1>8, <2>2, <2>3, <2>4
    <2>. QED BY <2>5 DEF q, H
  <1>12. wild' = FALSE
    <2>. DEFINE q == 2^c
                H == Half
    <2>1. q <= H /\ q \in Nat /\ H \in Nat /\ at < H /\ at \in Nat
      BY <1>8, <1>9, <1>10, <1>11, Zenon
    <2>. HIDE DEF q, H, at
    <2>2. ~(q > H) /\ ~(at >= H)
      BY <2>1
    <2>. QED BY <1>1, <1>2, <2>2, Zenon DEF q, H
  <1>13. /\ IsWorkspace(ws') /\ ws'[at] = key
         /\ \A n \in 0..2^c - 1 : n # at => ws'[n] = w[n]
    <2>1. IsWith(ws', w, at, key)
      BY <1>1, Zenon DEF IsWith
    <2>2. at \in 0..2 * Half - 1
      BY <1>9, <1>11, Zenon
    <2>3. /\ IsWorkspace(ws') /\ (at \in 0..2 * Half - 1 => ws'[at] = key)
          /\ \A x \in 0..2 * Half - 1 : x # at => ws'[x] = w[x]
      <3>. HIDE DEF w, at, key
      <3>. QED BY <1>2, <1>9, <2>1, WorkspaceWith
    <2>. HIDE DEF w, at, key
    <2>. QED BY <1>9, <2>2, <2>3, Zenon
  <1>14. r = [op |-> "evalpunc", seed |-> s, pos |-> p, depth |-> c, key |-> call.key]
    BY <1>1, <1>2, RecordIs, Zenon
  <1>15. /\ r.op = "evalpunc" /\ r.seed = s /\ r.pos = p /\ r.depth = c
         /\ r = [op |-> r.op, seed |-> r.seed, pos |-> r.pos, depth |-> r.depth, key |-> r.key]
    <2>. DEFINE g == call.key
    <2>1. r = [op |-> "evalpunc", seed |-> s, pos |-> p, depth |-> c, key |-> g]
      BY <1>14
    <2>. HIDE DEF r, s, p, c, g
    <2>. QED BY <2>1, RecordFields
  <1>16. WalkInv'
    <2>1. "evalpunc" \in {"none", "eval", "punc", "evalpunc"}
      OBVIOUS
    <2>. HIDE DEF c
    <2>. QED BY <1>1, <1>2, <1>5, <1>12, <1>13, <1>15, <2>1, NewWalk, Zenon
  <1>17. "evalpunc" # "punc" /\ "evalpunc" # "eval"
    OBVIOUS
  <1>18. KeysInv' /\ EvalIsTree' /\ EvalPuncIsRest'
    BY <1>1, <1>2, <1>15, <1>17, KeysKept, ElemsKept, Zenon
  <1>19. OfSet'
    <2>. HIDE DEF s, p
    <2>. QED BY <1>1, <1>3, <1>15, Zenon DEF OfSet, r
  <1>20. key = Tree(s, at, c)
    <2>1. key = AllKeys(s, p)[c]
      BY <1>3, Zenon
    <2>2. AllKeys(s, p) = [j \in 1..Layers + 1 |-> IF j <= Layers THEN KeyAt(s, p, j) ELSE LastKey(s, p)]
      BY Zenon DEF AllKeys
    <2>3. key = KeyAt(s, p, c)
      <3>. HIDE DEF s, p, c, key
      <3>. QED BY <1>5, <2>1, <2>2, Zenon
    <2>4. KeyAt(s, p, c) = Tree(s, Sibling(n0), c)
      BY Zenon DEF KeyAt
    <2>. HIDE DEF key, s, p, c, at, n0
    <2>. QED BY <1>7, <2>3, <2>4, Zenon
  <1>21. ASSUME NEW n \in 0..2^c - 1, n # n0 PROVE ws'[n] = Tree(s, n, c)
    <2>1. CASE n = at
      <3>. HIDE DEF key, s, p, c, at, n0
      <3>. QED BY <1>13, <1>20, <2>1, Zenon
    <2>2. CASE n # at
      <3>1. n \in Nat /\ n \div 2 \in 0..2^d - 1 /\ w[n] = Child(ws[n \div 2], n % 2)
        BY <1>9, Zenon
      <3>2. n \div 2 # NodeOn(p, d)
        BY <1>7, <1>8, <1>21, <2>2, <3>1, Zenon
      <3>3. ws[n \div 2] = Tree(s, n \div 2, d)
        BY <1>3, <3>1, <3>2, Zenon
      <3>4. Child(Tree(s, n \div 2, d), n % 2) = Tree(s, n, c)
        BY <1>5, <3>1, ChildOfTree, Zenon
      <3>5. ws'[n] = w[n]
        BY <1>13, <2>2, Zenon
      <3>. QED BY <3>1, <3>3, <3>4, <3>5, Zenon
    <2>. QED BY <2>1, <2>2, Zenon
  <1>22. EvalPuncInv'
    <2>1. ASSUME NEW n \in 0..2^call'.depth - 1, n # NodeOn(call'.pos, call'.depth)
          PROVE  ws'[n] = Tree(call'.seed, n, call'.depth)
      <3>. HIDE DEF s, p, c
      <3>. QED BY <1>15, <1>21, <2>1, Zenon DEF n0, r
    <2>. QED BY <1>1, <1>19, <2>1, NodesKnown, Zenon
  <1>23. EvalInv' /\ PuncInv'
    BY <1>15, <1>17, Zenon DEF EvalInv, PuncInv
  <1>. QED
    BY <1>16, <1>18, <1>22, <1>23, Zenon DEF GgmInv

LEMMA EvalPuncEnds ==
  ASSUME GgmInv, EvalPuncReturns
  PROVE  GgmInv'
  <1>. DEFINE s == call.seed
              p == call.pos
              l == Layers
              at == p \div 2^(height - call.depth)
              key == pset.keys[call.depth + 1]
              leaves == ws'
              o == [i \in 0..setSize - 2 |-> ElemAt(leaves, Skip(p, i))]
  <1>1. /\ call.op = "evalpunc" /\ ~(call.depth < l)
        /\ ws' = [ws EXCEPT ![at] = key]
        /\ elems' = [op |-> "evalpunc", seed |-> s, pos |-> p, out |-> o]
        /\ wild' = (wild \/ at >= Half)
        /\ call' = Idle /\ setSize' = setSize /\ pset' = pset
    BY Zenon DEF EvalPuncReturns, LayerLeft
  <1>2. /\ SizeOk /\ IsWorkspace(ws) /\ wild = FALSE /\ call.depth \in 0..l
        /\ WalkInv /\ KeysInv
    BY InvParts, Zenon
  <1>3. call.depth = l
    BY <1>1, <1>2, AtLast, Zenon
  <1>4. /\ p \in 0..setSize - 1 /\ pset.keys = AllKeys(s, p)
        /\ \A n \in 0..2^l - 1 : n # NodeOn(p, l) => ws[n] = Tree(s, n, l)
    BY <1>1, <1>3, EvalPuncFacts, Zenon
  <1>5. /\ p \in Nat /\ NodeOn(p, l) = p \div 4 /\ p \div 4 \in 0..2 * Half - 1
        /\ p \div 4 \in Nat /\ p \div 4 < Half
    BY <1>2, <1>4, LeafInLayer, Zenon
  <1>6. at = p \div 4
    BY <1>3, <1>5, Zenon DEF NodeOn
  <1>7. wild' = FALSE
    <2>. DEFINE q == p \div 4
                H == Half
    <2>1. q \in Nat /\ q < H /\ H \in Nat
      BY <1>2, <1>5, Shape
    <2>2. at = q
      BY <1>6
    <2>. HIDE DEF q, H, at
    <2>3. ~(at >= H)
      BY <2>1, <2>2
    <2>. QED BY <1>1, <1>2, <2>3, Zenon DEF H
  <1>8. key = LastKey(s, p)
    <2>1. key = AllKeys(s, p)[l + 1]
      BY <1>3, <1>4, Zenon
    <2>2. AllKeys(s, p) = [j \in 1..l + 1 |-> IF j <= l THEN KeyAt(s, p, j) ELSE LastKey(s, p)]
      BY Zenon DEF AllKeys
    <2>3. l + 1 \in 1..l + 1 /\ ~(l + 1 <= l)
      <3>1. l \in Nat
        BY <1>2, Shape
      <3>. HIDE DEF l
      <3>. QED BY <3>1
    <2>. HIDE DEF s, p, l, key
    <2>. QED BY <2>1, <2>2, <2>3, Zenon
  <1>9. /\ IsWorkspace(ws') /\ leaves[p \div 4] = key
        /\ \A n \in 0..2 * Half - 1 : n # p \div 4 => leaves[n] = ws[n]
    <2>1. IsWith(ws', ws, at, key)
      BY <1>1, Zenon DEF IsWith
    <2>2. /\ IsWorkspace(ws') /\ (at \in 0..2 * Half - 1 => ws'[at] = key)
          /\ \A x \in 0..2 * Half - 1 : x # at => ws'[x] = ws[x]
      <3>. HIDE DEF at, key
      <3>. QED BY <1>2, <2>1, WorkspaceWith
    <2>. HIDE DEF at, key
    <2>. QED BY <1>5, <1>6, <2>2, Zenon
  <1>10. ASSUME NEW i \in 0..setSize - 1, i # p PROVE ElemAt(leaves, i) = LeafElem(s, i)
    <2>1. /\ i \in Nat /\ i \div 4 \in 0..2^l - 1 /\ i \div 4 \in 0..2 * Half - 1
      BY <1>2, LeafInLayer, Zenon
    <2>2. CASE i \div 4 # p \div 4
      <3>1. leaves[i \div 4] = Tree(s, i \div 4, Layers)
        BY <1>4, <1>5, <1>9, <2>1, <2>2, Zenon
      <3>. HIDE DEF leaves, s, l
      <3>. QED BY <1>2, <2>1, <3>1, ElemOfWhole, Zenon
    <2>3. CASE i \div 4 = p \div 4
      <3>. DEFINE h == p % 4
      <3>1. h # i % 4 /\ h # 5
        <4>1. i = 4 * (i \div 4) + (i % 4) /\ i % 4 \in 0..3
          BY <2>1, HalfOf
        <4>2. p = 4 * (p \div 4) + h /\ h \in 0..3 /\ p \div 4 \in Nat
          <5>. HIDE DEF p
          <5>. QED BY <1>5, HalfOf
        <4>. DEFINE x == i \div 4
                    y == i % 4
        <4>3. i = 4 * x + y /\ p = 4 * x + h /\ x \in Nat /\ y \in 0..3 /\ h \in 0..3 /\ i # p
          BY <4>1, <4>2, <2>3, <1>10
        <4>. HIDE DEF x, y, h, p
        <4>4. h # y /\ h # 5
          BY <4>3
        <4>. QED BY <4>4 DEF y
      <3>2. leaves[i \div 4] = [Tree(s, i \div 4, Layers) EXCEPT !.hole = h]
        <4>1. key = [Tree(s, NodeOn(p, l), l) EXCEPT !.hole = h]
          BY <1>8, Zenon DEF LastKey
        <4>2. NodeOn(p, l) = i \div 4
          BY <1>5, <2>3, Zenon
        <4>. HIDE DEF leaves, s, h, key, p
        <4>. QED BY <1>9, <2>3, <4>1, <4>2, Zenon
      <3>. HIDE DEF leaves, s, l, h
      <3>. QED BY <1>2, <2>1, <3>1, <3>2, ElemOfTree
    <2>. QED BY <2>2, <2>3
  <1>11. ASSUME NEW i \in 0..setSize - 2
         PROVE  o[i] = LeafElem(s, IF i < p THEN i ELSE i + 1)
    <2>. DEFINE x == Skip(p, i)
                y == IF i < p THEN i ELSE i + 1
    <2>1. o[i] = ElemAt(leaves, x)
      BY Zenon
    <2>2. x = y /\ x \in 0..setSize - 1 /\ x # p
      <3>1. x = IF i >= p THEN i + 1 ELSE i
        BY Zenon DEF Skip
      <3>2. setSize \in Nat
        BY <1>2, Shape
      <3>3. p \in Nat
        BY <1>5
      <3>. HIDE DEF x, p
      <3>. QED BY <3>1, <3>2, <3>3
    <2>3. ElemAt(leaves, x) = LeafElem(s, x)
      <3>. HIDE DEF x, p, leaves, s
      <3>. QED BY <1>10, <2>2, Zenon
    <2>. HIDE DEF x, y, o, s, leaves
    <2>4. o[i] = LeafElem(s, y)
      BY <2>1, <2>2, <2>3, Zenon
    <2>. QED BY <2>4, Zenon DEF y
  <1>12. /\ elems'.op = "evalpunc" /\ elems'.seed = s /\ elems'.pos = p /\ elems'.out = o
    <2>. HIDE DEF s, p, o
    <2>. QED BY <1>1
  <1>13. WalkInv' /\ call'.op = "none"
    BY <1>1, <1>2, <1>7, <1>9, BackToIdle, Zenon
  <1>14. "evalpunc" # "punc" /\ "none" # "punc" /\ "none" # "eval" /\ "none" # "evalpunc"
         /\ "evalpunc" # "eval"
    OBVIOUS
  <1>15. KeysInv'
    BY <1>1, <1>2, <1>13, <1>14, KeysKept, Zenon
  <1>16. EvalPuncIsRest'
    <2>. HIDE DEF s, p, o
    <2>. QED BY <1>1, <1>11, <1>12, SizeStays, Zenon DEF EvalPuncIsRest
  <1>17. EvalIsTree' /\ EvalInv' /\ PuncInv' /\ EvalPuncInv'
    BY <1>12, <1>13, <1>14, Zenon DEF EvalIsTree, EvalInv, PuncInv, EvalPuncInv
  <1>. QED
    BY <1>13, <1>15, <1>16, <1>17, Zenon DEF GgmInv

-----------------------------------------------------------------------------
LEMMA GgmInit ==
  ASSUME GgmAssumption, Init
  PROVE  GgmInv
  <1>1. /\ setSize \in SetSizes /\ ws = [i \in 0..2 * 2^get_height(setSize) - 1 |-> Garbage]
        /\ call = Idle /\ pset = [op |-> "none"] /\ elems = [op |-> "none"] /\ wild = FALSE
    BY Zenon DEF Init
  <1>2. SizeOk
    BY <1>1, Zenon DEF SizeOk, GgmAssumption
  <1>3. pset.op = "none" /\ elems.op = "none"
    BY <1>1
  <1>4. call.op = "none" /\ call.depth \in 0..Layers /\ "none" \in {"none", "eval", "punc", "evalpunc"}
        /\ call = [op |-> call.op, seed |-> call.seed, pos |-> call.pos,
                   depth |-> call.depth, key |-> call.key]
    <2>1. call.op = "none" /\ call.depth = 0 /\ 0 \in 0..Layers
          /\ call = [op |-> call.op, seed |-> call.seed, pos |-> call.pos,
                     depth |-> call.depth, key |-> call.key]
      BY <1>1, <1>2, IdleIs, NoneOrAll, Zenon
    <2>2. "none" \in {"none", "eval", "punc", "evalpunc"}
      OBVIOUS
    <2>. QED BY <2>1, <2>2, Zenon
  <1>5. IsWorkspace(ws)
    <2>1. ws = [i \in 0..2 * Half - 1 |-> Garbage]
      BY <1>1, Zenon DEF Half, height
    <2>2. ws = [i \in 0..2 * Half - 1 |-> ws[i]]
      <3>. DEFINE D == 0..2 * Half - 1
                  g == Garbage
      <3>1. ws = [i \in D |-> g]
        BY <2>1
      <3>. HIDE DEF D, g
      <3>2. ws = [i \in D |-> ws[i]]
        BY <3>1, Zenon
      <3>. QED BY <3>2 DEF D
    <2>. QED BY <2>2, Zenon DEF IsWorkspace
  <1>6. WalkInv
    BY <1>1, <1>2, <1>4, <1>5, Zenon DEF WalkInv
  <1>7. "none" # "punc" /\ "none" # "eval" /\ "none" # "evalpunc"
    OBVIOUS
  <1>. QED
    BY <1>3, <1>4, <1>6, <1>7, Zenon
      DEF GgmInv, KeysInv, EvalInv, PuncInv, EvalPuncInv, EvalIsTree, EvalPuncIsRest

LEMMA GgmStep ==
  ASSUME GgmInv, Next
  PROVE  GgmInv'
  <1>1. \/ \E s \in Seeds : pset_ggm_eval(s)
        \/ EvalLayer
        \/ EvalReturns
        \/ \E s \in Seeds, p \in 0..setSize - 1 : pset_ggm_punc(s, p)
        \/ PuncLayer
        \/ PuncReturns
        \/ pset_ggm_eval_punc
        \/ EvalPuncLayer
        \/ EvalPuncReturns
    BY Zenon DEF Next, Eval, Punc, EvalPunc
  <1>2. ASSUME NEW s \in Seeds, pset_ggm_eval(s) PROVE GgmInv'
    BY <1>2, EvalStarts, Zenon
  <1>3. ASSUME NEW s \in Seeds, NEW p \in 0..setSize - 1, pset_ggm_punc(s, p) PROVE GgmInv'
    BY <1>3, PuncStarts, Zenon
  <1>. QED
    BY <1>1, <1>2, <1>3, EvalDescends, EvalEnds, PuncDescends, PuncEnds,
       EvalPuncStarts, EvalPuncDescends, EvalPuncEnds, Zenon

LEMMA GgmStutter ==
  ASSUME GgmInv, UNCHANGED vars
  PROVE  GgmInv'
  <1>1. setSize' = setSize /\ ws' = ws /\ call' = call /\ pset' = pset /\ elems' = elems /\ wild' = wild
    BY Zenon DEF vars
  <1>2. WalkInv /\ KeysInv /\ EvalInv /\ PuncInv /\ EvalPuncInv /\ EvalIsTree /\ EvalPuncIsRest
    BY Zenon DEF GgmInv
  <1>3. WalkInv'
    BY <1>1, <1>2, SizeStays, Zenon DEF WalkInv
  <1>4. KeysInv'
    BY <1>1, <1>2, SizeStays, Zenon DEF KeysInv
  <1>5. EvalInv'
    BY <1>1, <1>2, Zenon DEF EvalInv
  <1>6. PuncInv'
    BY <1>1, <1>2, SizeStays, Zenon DEF PuncInv, OfSet
  <1>7. EvalPuncInv'
    BY <1>1, <1>2, SizeStays, Zenon DEF EvalPuncInv, OfSet
  <1>8. EvalIsTree' /\ EvalPuncIsRest'
    BY <1>1, <1>2, ElemsKept, Zenon
  <1>. QED
    BY <1>3, <1>4, <1>5, <1>6, <1>7, <1>8, Zenon DEF GgmInv

\* No key that a punctured set holds, so far, is above the leaf at its position
\* but the last, whose word is gone.
LEMMA KeysHide ==
  ASSUME GgmInv
  PROVE  HoleHidden
  <1>1. SUFFICES ASSUME pset.op = "punc", NEW k \in DOMAIN pset.keys
                 PROVE  /\ pset.keys[k] # Garbage
                        /\ pset.keys[k].path = SubSeq(PathTo(pset.seed, pset.pos), 1, Len(pset.keys[k].path))
                             => /\ pset.keys[k].path = PathTo(pset.seed, pset.pos)
                                /\ pset.keys[k].hole = pset.pos % 4
    BY Zenon DEF HoleHidden
  <1>. DEFINE s == pset.seed
              p == pset.pos
              b == pset.keys[k]
              path == PathTo(s, p)
              l == Layers
              d == call.depth
  <1>2. /\ SizeOk /\ d \in 0..l
    BY InvParts, Zenon
  <1>3. /\ p \in 0..setSize - 1
        /\ pset.keys = KeysTo(s, p, d) \/ pset.keys = AllKeys(s, p)
    <2>1. KeysInv
      BY Zenon DEF GgmInv
    <2>. QED BY <1>1, <2>1, Zenon DEF KeysInv
  <1>4. p \in Nat /\ p \in 0..Half - 1 /\ NodeOn(p, l) = p \div 4
    BY <1>2, <1>3, LeafInLayer, Zenon
  <1>5. (k \in 1..l /\ b = KeyAt(s, p, k)) \/ b = LastKey(s, p)
    <2>1. l \in Nat
      BY <1>2, Shape
    <2>2. CASE pset.keys = KeysTo(s, p, d)
      <3>1. pset.keys = [j \in 1..d |-> KeyAt(s, p, j)]
        BY <2>2, Zenon DEF KeysTo
      <3>2. k \in 1..d /\ b = KeyAt(s, p, k)
        <4>. HIDE DEF d, s, p
        <4>. QED BY <1>1, <3>1, Zenon
      <3>3. k \in 1..l
        <4>. HIDE DEF d, l
        <4>. QED BY <1>2, <2>1, <3>2
      <3>. QED BY <3>2, <3>3, Zenon
    <2>3. CASE pset.keys = AllKeys(s, p)
      <3>1. pset.keys = [j \in 1..l + 1 |-> IF j <= l THEN KeyAt(s, p, j) ELSE LastKey(s, p)]
        BY <2>3, Zenon DEF AllKeys
      <3>2. k \in 1..l + 1 /\ b = IF k <= l THEN KeyAt(s, p, k) ELSE LastKey(s, p)
        <4>. HIDE DEF l, s, p
        <4>. QED BY <1>1, <3>1, Zenon
      <3>3. k <= l => k \in 1..l
        <4>. HIDE DEF l
        <4>. QED BY <2>1, <3>2
      <3>. HIDE DEF l, b, s, p
      <3>. QED BY <3>2, <3>3, Zenon
    <2>. QED BY <1>3, <2>2, <2>3
  <1>6. CASE k \in 1..l /\ b = KeyAt(s, p, k)
    <2>1. NodeOn(p, k) \in Nat
      <3>1. k \in 0..l
        <4>. HIDE DEF l
        <4>1. l \in Nat
          BY <1>2, Shape DEF l
        <4>. QED BY <1>6, <4>1
      <3>2. NodeOn(p, k) \in 0..2^k - 1
        <4>. HIDE DEF p
        <4>. QED BY <1>2, <1>4, <3>1, NodeInLayer, Zenon
      <3>. QED BY <3>2
    <2>2. b.path # SubSeq(path, 1, Len(b.path))
      <3>1. KeyAt(s, p, k).path # SubSeq(PathTo(s, p), 1, Len(KeyAt(s, p, k).path))
        <4>. HIDE DEF s, p
        <4>. QED BY <1>2, <1>4, <1>6, <2>1, KeyHides
      <3>. HIDE DEF b, s, p
      <3>. QED BY <1>6, <3>1, Zenon
    <2>3. b # Garbage
      <3>. HIDE DEF b, s, p
      <3>. QED BY <1>6, TreeFields, Zenon DEF KeyAt
    <2>. QED BY <2>2, <2>3, Zenon
  <1>7. CASE b = LastKey(s, p)
    <2>. DEFINE h == p % 4
                t == Tree(s, p \div 4, l)
    <2>1. b = [t EXCEPT !.hole = h]
      BY <1>4, <1>7, Zenon DEF LastKey
    <2>2. t = [path |-> NodePath(s, p \div 4, l), hole |-> 4]
      BY TreeFields
    <2>3. b.path = NodePath(s, p \div 4, l) /\ b.hole = h
      <3>. DEFINE np == NodePath(s, p \div 4, l)
      <3>1. t = [path |-> np, hole |-> 4]
        BY <2>2
      <3>. HIDE DEF b, t, h, np
      <3>2. b.path = np /\ b.hole = h
        BY <2>1, <3>1
      <3>. QED BY <3>2 DEF np
    <2>4. path = NodePath(s, p \div 4, l)
      <3>. HIDE DEF s, p
      <3>. QED BY <1>2, <1>4, PathOfLeaf
    <2>5. b # Garbage
      <3>1. Garbage.hole = 5
        BY Zenon DEF Garbage
      <3>2. h # 5
        <4>1. h \in 0..3
          <5>. HIDE DEF p
          <5>. QED BY <1>4, HalfOf
        <4>. HIDE DEF h
        <4>. QED BY <4>1
      <3>. HIDE DEF b, h
      <3>. QED BY <2>3, <3>1, <3>2, Zenon
    <2>. QED BY <2>3, <2>4, <2>5, Zenon
  <1>. QED BY <1>5, <1>6, <1>7, Zenon

LEMMA ArraysFit ==
  ASSUME GgmInv
  PROVE  InBounds
  <1>1. SizeOk /\ wild = FALSE
    BY InvParts, Zenon
  <1>. DEFINE H == Half
  <1>2. H \in Nat
    BY <1>1, Shape
  <1>3. workspace_size = 24 + 2 * H * 16 + 32
    BY Zenon DEF workspace_size, GeneratorBytes, BlockBytes, Half
  <1>4. ASSUME NEW a \in 0..BlockBytes - 1
        PROVE  keysAddress(a) + 2 * H * BlockBytes <= a + workspace_size
    <2>1. a \in Nat
      BY DEF BlockBytes
    <2>. DEFINE q == (a + 24 - 1) \div 16
                n == 2 * H * 16
    <2>2. keysAddress(a) = (q + 1) * 16
      BY Zenon DEF keysAddress, GeneratorBytes, BlockBytes
    <2>3. n \in Nat
      <3>. HIDE DEF H
      <3>. QED BY <1>2
    <2>4. q \in Int /\ 16 * q <= a + 23
      BY <2>1
    <2>. HIDE DEF q, n
    <2>5. (q + 1) * 16 + n <= a + (24 + n + 32)
      BY <2>1, <2>3, <2>4
    <2>. QED BY <1>3, <2>2, <2>5, Zenon DEF n, BlockBytes
  <1>. QED
    BY <1>1, <1>4, Zenon DEF InBounds

LEMMA GgmRight ==
  ASSUME GgmInv
  PROVE  EvalIsTree /\ EvalPuncIsRest /\ HoleHidden /\ InBounds
  BY InvParts, KeysHide, ArraysFit, Zenon
=============================================================================
