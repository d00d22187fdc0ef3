------------------------------- MODULE SseBits -------------------------------
(***************************************************************************)
(* Instructions of sse2neon.h that are built from others bit by bit: the   *)
(* carry-less product of two 64-bit words out of products of bytes, the    *)
(* CRC of a word, the collection of sign bits by shifts and adds, and the  *)
(* comparisons of 128-bit blocks that Defines.h uses.  A word is the set   *)
(* of the numbers of its one bits, so that exclusive or is symmetric       *)
(* difference, and a vector is the sequence of its lanes from the lowest.  *)
(* Product and CRC are linear in each operand: words of one bit decide     *)
(* them, and some dense words are added.                                   *)
(***************************************************************************)
EXTENDS Integers, Sequences, FiniteSets, FiniteSetsExt

CONSTANT DenseBelow   \* numbers below this also stand for a dense word

SseBitsAssumption == DenseBelow \in 0..64

VARIABLES i, j   \* the bits of the two operands

vars == <<i, j>>

Xor(u, v)         == (u \ v) \union (v \ u)
Shl(u, n, w)      == {b + n : b \in u} \intersect (0..(w - 1))
Shr(u, n)         == {b - n : b \in u} \intersect Nat
Eor(u, v)         == [k \in DOMAIN u |-> Xor(u[k], v[k])]
Low(v)            == SubSeq(v, 1, Len(v) \div 2)
High(v)           == SubSeq(v, Len(v) \div 2 + 1, Len(v))
Ext(u, v, n)      == SubSeq(u \o v, n + 1, n + Len(u))

\* The vector seen in lanes of m bits instead of n, and its bits as one word.
Bits(v, n)        == UNION {{(k - 1) * n + b : b \in v[k]} : k \in DOMAIN v}
Lanes(u, m, w)    == [k \in 1..(w \div m) |-> {b - (k - 1) * m : b \in u \intersect (((k - 1) * m)..(k * m - 1))}]

-----------------------------------------------------------------------------
\* Carry-less products.

Product(u, v) == {e \in {b + c : b \in u, c \in v} : Cardinality({b \in u : e - b \in v}) % 2 = 1}

\* Eight products of bytes, each of 16 bits, as 16 bytes.
mull_p8(a, b) ==
  [k \in 1..16 |->
     LET p == Product(a[(k + 1) \div 2], b[(k + 1) \div 2])
     IN  IF k % 2 = 1 THEN p \intersect (0..7) ELSE Shr(p, 8)]

\* A mask that keeps the first n bytes of eight.
Kept(v, n) == [k \in 1..8 |-> IF k <= n THEN v[k] ELSE {}]

\* Mutant: the mask for the products of bytes two apart keeps as much as for one apart.
k48_32_same(p1) == Kept(Low(p1), 6) \o Kept(High(p1), 6)

k48_32(p1) == Kept(Low(p1), 6) \o Kept(High(p1), 4)
k16_00(p1) == Kept(Low(p1), 2) \o Kept(High(p1), 0)

\* The products of the bytes at distances 0 to 4, then those at a distance folded: the ones that
\* wrapped around go to the upper half, and all are rotated by the distance.
vmull_p64(u, v) ==
  LET a    == Lanes(u, 8, 64)
      b    == Lanes(v, 8, 64)
      Right(n) == mull_p8(a, Ext(b, b, n))
      Left(n)  == mull_p8(Ext(a, a, n), b)
      d    == mull_p8(a, b)
      l    == Eor(Right(1), Left(1))
      m    == Eor(Right(2), Left(2))
      n    == Eor(Right(3), Left(3))
      k    == Right(4)
      lm_p0 == Low(l) \o Low(m)
      lm_p1 == High(l) \o High(m)
      nk_p0 == Low(n) \o Low(k)
      nk_p1 == High(n) \o High(k)
      t01h == k48_32(lm_p1)
      t01l == Eor(Eor(lm_p0, lm_p1), t01h)
      t23h == k16_00(nk_p1)
      t23l == Eor(Eor(nk_p0, nk_p1), t23h)
      Rot(t, r) == Ext(t, t, r)
      cross1 == Eor(Rot(Low(t01l) \o Low(t01h), 15), Rot(High(t01l) \o High(t01h), 14))
      cross2 == Eor(Rot(Low(t23l) \o Low(t23h), 13), Rot(High(t23l) \o High(t23h), 12))
  IN  Bits(Eor(Eor(d, cross1), cross2), 8)

\* imm & 0x11 selects a half of each operand; a and b are pairs of words.
clmulepi64_si128(a, b, imm) ==
  vmull_p64(a[1 + (imm % 2)], b[1 + ((imm \div 16) % 2)])

-----------------------------------------------------------------------------
\* CRC, lowest bit first.

\* 0x82f63b78.
CrcConstant == {3, 4, 5, 6, 8, 9, 11, 12, 13, 17, 18, 20, 21, 22, 23, 25, 31}

crc32_u8(crc, v) ==
  LET R[n \in 0..8] ==
        IF n = 0 THEN Xor(crc, v)
        ELSE LET c == R[n - 1] IN IF 0 \in c THEN Xor(Shr(c, 1), CrcConstant) ELSE Shr(c, 1)
  IN  R[8]

crc32_u16(crc, v) == crc32_u8(crc32_u8(crc, v \intersect (0..7)), Shr(v, 8))
crc32_u32(crc, v) == crc32_u16(crc32_u16(crc, v \intersect (0..15)), Shr(v, 16))
crc32_u64(crc, v) == crc32_u32(crc32_u32(crc, v \intersect (0..31)), Shr(v, 32))

-----------------------------------------------------------------------------
\* Sign bits to a mask.

\* The sum of two words of w bits, with its carries.
Sum(u, v, w) ==
  LET Carry[b \in 0..w] ==
        b > 0 /\ LET c == Carry[b - 1]
                 IN  \/ (b - 1) \in u \intersect v
                     \/ c /\ (b - 1) \in u \union v
  IN  {b \in 0..(w - 1) : (b \in Xor(u, v)) # Carry[b]}

\* Shift right and accumulate, in lanes of w bits.
sra_n(u, n, w) == Sum(u, Shr(u, n), w)
Each(Op(_), v) == [k \in DOMAIN v |-> Op(v[k])]

\* Lanes of bytes to the lanes that the three widening steps see, for 8 bytes at a time.
Paired(bytes) ==
  LET high   == Lanes(Bits(Each(LAMBDA b : Shr(b, 7), bytes), 8), 16, 64)
      p16    == Lanes(Bits(Each(LAMBDA u : sra_n(u, 7, 16), high), 16), 32, 64)
      p32    == Bits(Each(LAMBDA u : sra_n(u, 14, 32), p16), 32)
  IN  sra_n(p32, 28, 64) \intersect (0..7)

movemask_epi8(a) == Paired(Low(a)) \union Shl(Paired(High(a)), 8, 16)

\* Of 8 bytes: two steps and two extracts, or one shift per lane and a sum.
movemask_pi8(a) ==
  LET high == Lanes(Bits(Each(LAMBDA b : Shr(b, 7), a), 8), 16, 64)
      p16  == Lanes(Bits(Each(LAMBDA u : sra_n(u, 7, 16), high), 16), 32, 64)
      p32  == Lanes(Bits(Each(LAMBDA u : sra_n(u, 14, 32), p16), 32), 8, 64)
  IN  p32[1] \union Shl(p32[5], 4, 32)

movemask_pi8_shifted(a) == UNION {Shl(Shr(a[k], 7), k - 1, 8) : k \in 1..8}

movemask_ps(a) ==
  LET high == Lanes(Bits(Each(LAMBDA u : Shr(u, 31), a), 32), 64, 128)
      p    == Lanes(Bits(Each(LAMBDA u : sra_n(u, 31, 64), high), 64), 8, 128)
  IN  p[1] \union Shl(p[9], 2, 32)

movemask_pd(a) == Shr(a[1], 63) \union Shl(Shr(a[2], 63), 1, 32)

-----------------------------------------------------------------------------
\* Logic of whole vectors and tests of blocks of two 64-bit lanes.

Ones == 0..63

and_si128(a, b)    == [k \in DOMAIN a |-> a[k] \intersect b[k]]
xor_si128(a, b)    == Eor(a, b)
or_si128(a, b)     == [k \in DOMAIN a |-> a[k] \union b[k]]
\* vbic clears in its first operand the bits of its second.
bic(u, v)          == [k \in DOMAIN u |-> u[k] \ v[k]]
andnot_si128(a, b) == bic(b, a)

test_all_ones(a)        == a[1] \intersect a[2] = Ones
test_all_zeros(a, mask) == LET r == and_si128(a, mask) IN r[1] \union r[2] = {}
testc_si128(a, b)       == LET r == and_si128([k \in 1..2 |-> Ones \ a[k]], b) IN r[1] \union r[2] = {}
testz_si128(a, b)       == LET r == and_si128(a, b) IN r[1] \union r[2] = {}

toBlock(low, high) == <<low, high>>
ZeroBlock   == toBlock({}, {})
AllOneBlock == toBlock(Ones, Ones)
eq(lhs, rhs)  == LET n == xor_si128(lhs, rhs) IN test_all_zeros(n, n)
neq(lhs, rhs) == LET n == xor_si128(lhs, rhs) IN ~test_all_zeros(n, n)
is_zero(b)    == test_all_zeros(b, b)

\* 64-bit lanes compared by their 32-bit halves: each half's mask is anded with the other's.
cmpeq_epi64(a, b) ==
  [k \in 1..2 |->
     LET cmp == [h \in 1..2 |-> IF Lanes(a[k], 32, 64)[h] = Lanes(b[k], 32, 64)[h] THEN 0..31 ELSE {}]
     IN  Bits([h \in 1..2 |-> cmp[h] \intersect cmp[3 - h]], 32)]

-----------------------------------------------------------------------------
Init == i \in 0..63 /\ j \in 0..63
Next == UNCHANGED vars
Spec == Init /\ [][Next]_vars

-----------------------------------------------------------------------------
Dense(k) == {b \in 0..63 : (b * (2 * k + 3)) % 7 < 3}

\* The ARMv7 polyfill of the carry-less product, with masks and rotations for each distance, is
\* the product of the polynomials, for all pairs of one-bit words (which decide it) and for
\* pairs of dense ones; the control selects the halves.
ProductRight ==
  /\ vmull_p64({i}, {j}) = {i + j}
  /\ i < DenseBelow /\ j < DenseBelow =>
       \A imm \in {0, 1, 16, 17} :
         clmulepi64_si128(<<Dense(i), {i}>>, <<Dense(j), {j}>>, imm) =
           Product(IF imm % 2 = 0 THEN Dense(i) ELSE {i}, IF imm < 16 THEN Dense(j) ELSE {j})

\* The remainder of a polynomial over the Castagnoli polynomial, by long division.
Castagnoli == {32, 28, 27, 26, 25, 23, 22, 20, 19, 18, 14, 13, 11, 10, 9, 8, 6, 0}
Remainder[u \in SUBSET (0..127)] ==
  IF u \subseteq 0..31 THEN u
  ELSE Remainder[Xor(u, {b + Max(u) - 32 : b \in Castagnoli})]
Mirrored(u, w) == {w - 1 - b : b \in u}

\* Accumulating 8, 16, 32 or 64 bits gives the remainder of the register's polynomial, moved up
\* by the bits fed, plus the fed bits' moved up by 32: highest power in the lowest bit.
CrcIsRemainder ==
  LET Right(crc, v, n) ==
        Mirrored(Remainder[Xor({b + n : b \in Mirrored(crc, 32)}, {b + 32 : b \in Mirrored(v, n)})], 32)
      crc == {i % 32}
  IN  i = 0 \/ j % 16 = 0 =>
      /\ crc32_u8(crc, {j % 8}) = Right(crc, {j % 8}, 8)
      /\ crc32_u16(crc, {j % 16}) = Right(crc, {j % 16}, 16)
      /\ crc32_u32(crc, {j % 32}) = Right(crc, {j % 32}, 32)
      /\ crc32_u64(crc, {j}) = Right(crc, {j}, 64)

\* Bytes whose sign bits are the bits of a number and whose other bits are all ones or not.
Signed(n) == [k \in 1..8 |-> (IF (n \div 2^(k - 1)) % 2 = 1 THEN {7} ELSE {}) \union
                             (IF (n + k) % 3 = 0 THEN 0..6 ELSE {})]
SignBits(a, w) == {k - 1 : k \in {l \in DOMAIN a : w - 1 \in a[l]}}

\* The masks of sign bits hold bit k exactly if lane k is negative: the sums in the widening
\* steps neither lose a bit nor carry into one, for every pattern of eight bytes.
MasksCollectSigns ==
  j < 4 =>
    LET n == i + 64 * j
        a == Signed(n) \o Signed((37 * n + 11) % 256)
    IN  /\ movemask_epi8(a) = SignBits(a, 8)
        /\ movemask_pi8(Signed(n)) = SignBits(Signed(n), 8)
        /\ movemask_pi8_shifted(Signed(n)) = SignBits(Signed(n), 8)
        /\ LET v == Lanes(Bits(a, 8), 32, 128) IN movemask_ps(v) = SignBits(v, 32)
        /\ LET v == Lanes(Bits(a, 8), 64, 128) IN movemask_pd(v) = SignBits(v, 64)

\* Blocks that differ in one bit, in either half, or not at all: the tests of Defines.h and the
\* ones they are made of tell exactly these apart, and so does the comparison by halves.
BlocksCompared ==
  LET u      == toBlock({i}, {j})
      others == {u, toBlock({i}, {}), toBlock({}, {j}), toBlock({j}, {i}), ZeroBlock, AllOneBlock,
                 toBlock(Ones, Ones \ {i}), toBlock(Ones \ {j}, Ones)}
  IN  \A v \in others :
        /\ eq(u, v) = (u = v)
        /\ neq(u, v) = (u # v)
        /\ is_zero(v) = (v = ZeroBlock)
        /\ test_all_ones(v) = (v = AllOneBlock)
        /\ testz_si128(u, v) = (i \notin v[1] /\ j \notin v[2])
        /\ testc_si128(v, u) = (i \in v[1] /\ j \in v[2])
        /\ testc_si128(v, u) = is_zero(andnot_si128(v, u))
        /\ or_si128(and_si128(u, v), andnot_si128(v, u)) = u
        /\ cmpeq_epi64(u, v) = [k \in 1..2 |-> IF u[k] = v[k] THEN Ones ELSE {}]
=============================================================================
