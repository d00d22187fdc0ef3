------------------------------ MODULE SseLanes -------------------------------
(***************************************************************************)
(* The instructions of sse2neon.h that move the lanes of a vector: what    *)
(* the NEON build of the AES code runs in place of SSE.  A vector is the   *)
(* sequence of its lanes from the lowest, a lane is a symbol, and since no *)
(* instruction looks inside one, the two vectors of distinct symbols below *)
(* stand for every pair of operands.  The control byte is chosen first.    *)
(* The header has up to three bodies for an instruction (with compiler     *)
(* builtins, for aarch64, for the rest), all of them here.                 *)
(***************************************************************************)
EXTENDS Integers, Sequences, SequencesExt

VARIABLE imm   \* the control byte

Zero     == <<"0", 0>>
Zeros(n) == [i \in 1..n |-> Zero]

\* The operands, in n lanes.
Va(n) == [i \in 1..n |-> <<"a", i - 1>>]
Vb(n) == [i \in 1..n |-> <<"b", i - 1>>]

-----------------------------------------------------------------------------
\* NEON's instructions on lanes, numbered from 0.

get_lane(v, i)     == v[i + 1]
set_lane(x, v, i)  == [v EXCEPT ![i + 1] = x]
get_low(v)         == SubSeq(v, 1, Len(v) \div 2)
get_high(v)        == SubSeq(v, Len(v) \div 2 + 1, Len(v))
combine(u, v)      == u \o v
rev64(v)           == Reverse(v)
ext(u, v, n)       == SubSeq(u \o v, n + 1, n + Len(u))
dup_n(n, x)        == [i \in 1..n |-> x]
dup_lane(v, i)     == dup_n(Len(v), get_lane(v, i))
shufflevector(u, v, is) == [k \in DOMAIN is |-> get_lane(u \o v, is[k])]
zip(u, v)          == [i \in 1..(2 * Len(u)) |-> IF i % 2 = 1 THEN u[(i + 1) \div 2] ELSE v[i \div 2]]
zip1(u, v)         == get_low(zip(u, v))
zip2(u, v)         == get_high(zip(u, v))
trn(k, u, v)       == [i \in DOMAIN u |-> IF i % 2 = 1 THEN u[i + k] ELSE v[i - 1 + k]]
tbl(v, is)         == [k \in DOMAIN is |-> IF is[k] < Len(v) THEN get_lane(v, is[k]) ELSE Zero]
bsl(mask, u, v)    == [i \in DOMAIN u |-> IF mask[i] = 1 THEN u[i] ELSE v[i]]

-----------------------------------------------------------------------------
\* Moves and the shuffles of two vectors of four lanes.

movedup_pd(a)    == dup_lane(a, 0)
movehdup_ps(a)   == shufflevector(a, a, <<1, 1, 3, 3>>)
moveldup_ps(a)   == shufflevector(a, a, <<0, 0, 2, 2>>)
movehl_ps(a, b)  == combine(get_high(b), get_high(a))
movelh_ps(a, b)  == combine(get_low(a), get_low(b))

ps_1032(a, b) == combine(get_high(a), get_low(b))
ps_2301(a, b) == combine(rev64(get_low(a)), rev64(get_high(b)))
ps_0321(a, b) == combine(get_high(ext(a, a, 3)), get_low(ext(b, b, 3)))
\* Mutant: the rotation goes the other way.
ps_2103_left(a, b) == combine(get_low(ext(a, a, 1)), get_high(ext(b, b, 1)))
ps_2103(a, b) == combine(get_low(ext(a, a, 3)), get_high(ext(b, b, 3)))
ps_1001(a, b) == combine(rev64(get_low(a)), get_low(b))
ps_0101(a, b) == combine(rev64(get_low(a)), rev64(get_low(b)))
ps_3210(a, b) == combine(get_low(a), get_high(b))
ps_0011(a, b) == combine(dup_lane(get_low(a), 1), dup_lane(get_low(b), 0))
ps_0022(a, b) == combine(dup_lane(get_high(a), 0), dup_lane(get_low(b), 0))
ps_2200(a, b) == combine(dup_lane(get_low(a), 0), dup_lane(get_high(b), 0))
ps_3202(a, b) == combine(set_lane(get_lane(a, 0), dup_lane(get_high(a), 0), 1), get_high(b))
ps_1133(a, b) == combine(dup_lane(get_high(a), 1), dup_lane(get_low(b), 1))
ps_2010(a, b) == combine(get_low(a), set_lane(get_lane(b, 2), dup_lane(get_low(b), 0), 1))
ps_2001(a, b) == combine(rev64(get_low(a)), set_lane(get_lane(b, 2), dup_lane(get_low(b), 0), 1))
ps_2032(a, b) == combine(get_high(a), set_lane(get_lane(b, 2), dup_lane(get_low(b), 0), 1))

\* The control's field k of two bits, and the control with fields z, y, x, w from the highest.
Field(c, k)            == (c \div 4^k) % 4
MM_SHUFFLE(z, y, x, w) == z * 64 + y * 16 + x * 4 + w

shuffle_ps_default(a, b, c) ==
  <<get_lane(a, Field(c, 0)), get_lane(a, Field(c, 1)), get_lane(b, Field(c, 2)), get_lane(b, Field(c, 3))>>

shuffle_ps_builtin(a, b, c) ==
  shufflevector(a, b, <<Field(c, 0), Field(c, 1), Field(c, 2) + 4, Field(c, 3) + 4>>)

shuffle_ps(a, b, c) ==
  CASE c = MM_SHUFFLE(1, 0, 3, 2) -> ps_1032(a, b)
    [] c = MM_SHUFFLE(2, 3, 0, 1) -> ps_2301(a, b)
    [] c = MM_SHUFFLE(0, 3, 2, 1) -> ps_0321(a, b)
    [] c = MM_SHUFFLE(2, 1, 0, 3) -> ps_2103(a, b)
    [] c = MM_SHUFFLE(1, 0, 1, 0) -> movelh_ps(a, b)
    [] c = MM_SHUFFLE(1, 0, 0, 1) -> ps_1001(a, b)
    [] c = MM_SHUFFLE(0, 1, 0, 1) -> ps_0101(a, b)
    [] c = MM_SHUFFLE(3, 2, 1, 0) -> ps_3210(a, b)
    [] c = MM_SHUFFLE(0, 0, 1, 1) -> ps_0011(a, b)
    [] c = MM_SHUFFLE(0, 0, 2, 2) -> ps_0022(a, b)
    [] c = MM_SHUFFLE(2, 2, 0, 0) -> ps_2200(a, b)
    [] c = MM_SHUFFLE(3, 2, 0, 2) -> ps_3202(a, b)
    [] c = MM_SHUFFLE(3, 2, 3, 2) -> movehl_ps(b, a)
    [] c = MM_SHUFFLE(1, 1, 3, 3) -> ps_1133(a, b)
    [] c = MM_SHUFFLE(2, 0, 1, 0) -> ps_2010(a, b)
    [] c = MM_SHUFFLE(2, 0, 0, 1) -> ps_2001(a, b)
    [] c = MM_SHUFFLE(2, 0, 3, 2) -> ps_2032(a, b)
    [] OTHER -> shuffle_ps_default(a, b, c)

-----------------------------------------------------------------------------
\* The shuffles of one vector of four lanes.

epi_1032(a) == combine(get_high(a), get_low(a))
epi_2301(a) == combine(rev64(get_low(a)), rev64(get_high(a)))
epi_0321(a) == ext(a, a, 1)
epi_2103(a) == ext(a, a, 3)
epi_1010(a) == combine(get_low(a), get_low(a))
epi_1001(a) == combine(rev64(get_low(a)), get_low(a))
epi_0101(a) == combine(rev64(get_low(a)), rev64(get_low(a)))
epi_2211(a) == combine(dup_lane(get_low(a), 1), dup_lane(get_high(a), 0))
epi_0122(a) == combine(dup_lane(get_high(a), 0), rev64(get_low(a)))
epi_3332(a) == combine(get_high(a), dup_lane(get_high(a), 1))

shuffle_epi32_default(a, c) == [k \in 1..4 |-> get_lane(a, Field(c, k - 1))]
shuffle_epi32_splat(a, i)   == dup_lane(a, i)

shuffle_epi32_builtin(a, c) ==
  shufflevector(a, a, <<Field(c, 0), Field(c, 1), Field(c, 2), Field(c, 3)>>)

shuffle_epi32(a, c) ==
  CASE c = MM_SHUFFLE(1, 0, 3, 2) -> epi_1032(a)
    [] c = MM_SHUFFLE(2, 3, 0, 1) -> epi_2301(a)
    [] c = MM_SHUFFLE(0, 3, 2, 1) -> epi_0321(a)
    [] c = MM_SHUFFLE(2, 1, 0, 3) -> epi_2103(a)
    [] c = MM_SHUFFLE(1, 0, 1, 0) -> epi_1010(a)
    [] c = MM_SHUFFLE(1, 0, 0, 1) -> epi_1001(a)
    [] c = MM_SHUFFLE(0, 1, 0, 1) -> epi_0101(a)
    [] c = MM_SHUFFLE(2, 2, 1, 1) -> epi_2211(a)
    [] c = MM_SHUFFLE(0, 1, 2, 2) -> epi_0122(a)
    [] c = MM_SHUFFLE(3, 3, 3, 2) -> epi_3332(a)
    [] c = MM_SHUFFLE(0, 0, 0, 0) -> shuffle_epi32_splat(a, 0)
    [] c = MM_SHUFFLE(1, 1, 1, 1) -> shuffle_epi32_splat(a, 1)
    [] c = MM_SHUFFLE(2, 2, 2, 2) -> shuffle_epi32_splat(a, 2)
    [] c = MM_SHUFFLE(3, 3, 3, 3) -> shuffle_epi32_splat(a, 3)
    [] OTHER -> shuffle_epi32_default(a, c)

-----------------------------------------------------------------------------
\* Half vectors of 16-bit lanes, vectors of two lanes, bytes by index.

shufflelo_epi16_function(a, c) ==
  LET low == get_low(a)
      R[k \in 0..4] == IF k = 0 THEN a ELSE set_lane(get_lane(low, Field(c, k - 1)), R[k - 1], k - 1)
  IN  R[4]

shufflelo_epi16(a, c) ==
  shufflevector(a, a, <<Field(c, 0), Field(c, 1), Field(c, 2), Field(c, 3), 4, 5, 6, 7>>)

shufflehi_epi16_function(a, c) ==
  LET high == get_high(a)
      R[k \in 0..4] == IF k = 0 THEN a ELSE set_lane(get_lane(high, Field(c, k - 1)), R[k - 1], k + 3)
  IN  R[4]

shufflehi_epi16(a, c) ==
  shufflevector(a, a,
    <<0, 1, 2, 3, Field(c, 0) + 4, Field(c, 1) + 4, Field(c, 2) + 4, Field(c, 3) + 4>>)

set_epi64x(hi, lo) == <<lo, hi>>

shuffle_pd_builtin(a, b, c) == shufflevector(a, b, <<c % 2, ((c \div 2) % 2) + 2>>)
shuffle_pd(a, b, c)         == set_epi64x(get_lane(b, (c \div 2) % 2), get_lane(a, c % 2))

\* b is a vector of indices: and with 0x8F, then a table lookup that gives 0 past the table.
Masked8F(x) == (x \div 128) * 128 + (x % 16)

shuffle_epi8(a, b) == tbl(a, [i \in DOMAIN b |-> Masked8F(b[i])])

\* Concatenation shifted right by c lanes, of 16 bytes and of 8.
alignr(a, b, c) ==
  LET n == Len(a)
  IN  IF c >= 2 * n THEN Zeros(n)
      ELSE IF c >= n THEN ext(a, Zeros(n), c - n) ELSE ext(b, a, c)

srli_si128(a, c) == IF c > 15 THEN Zeros(16) ELSE ext(a, Zeros(16), c)
\* For immediates from 1 on: with 0 the code has vextq start at byte 16, past the last one it
\* can start at.
slli_si128(a, c) == IF c > 15 THEN Zeros(16) ELSE ext(Zeros(16), a, 16 - c)

-----------------------------------------------------------------------------
\* Blends, by the control's bits or by the sign bits of a third vector.

Bit(c, k) == (c \div 2^k) % 2

blend_epi16(a, b, c) == bsl([i \in 1..8 |-> Bit(c, i - 1)], b, a)
blend_pd(a, b, c)    == bsl([i \in 1..2 |-> Bit(c, i - 1)], b, a)

\* A signed shift right by 7 makes a byte all ones or all zeros.
blendv_epi8(a, b, mask) == bsl([i \in 1..16 |-> mask[i] \div 128], b, a)

\* The lanes with a sign bit are written over the memory's.
maskmoveu_si128(a, mask, mem) == bsl([i \in 1..16 |-> mask[i] \div 128], a, mem)

-----------------------------------------------------------------------------
\* Interleaving, with zip1 and zip2 or by halves, for lanes of any width, and the transpose.

Joined(u, v) == LET z == zip(u, v) IN combine(get_low(z), get_high(z))

unpacklo_zip1(a, b) == zip1(a, b)
unpacklo(a, b)      == Joined(get_low(a), get_low(b))

unpacklo_epi64(a, b) == combine(get_low(a), get_low(b))

unpackhi_zip2(a, b) == zip2(a, b)
unpackhi(a, b)      == Joined(get_high(a), get_high(b))

unpackhi_epi64(a, b) == combine(get_high(a), get_high(b))

\* The rows' pairs are transposed two and two, then halves are put together.
TRANSPOSE4_PS(rows) ==
  LET p(k) == trn(k, rows[1], rows[2])
      q(k) == trn(k, rows[3], rows[4])
  IN  <<combine(get_low(p(0)), get_low(q(0))),   combine(get_low(p(1)), get_low(q(1))),
        combine(get_high(p(0)), get_high(q(0))), combine(get_high(p(1)), get_high(q(1)))>>

-----------------------------------------------------------------------------
Init == imm \in 0..255
Next == UNCHANGED imm
Spec == Init /\ [][Next]_imm

-----------------------------------------------------------------------------
\* Lane k of the low half comes from a, of the high half from b, each selected by its field.
Selected(a, b, c) == [k \in 1..4 |-> IF k <= 2 THEN a[Field(c, k - 1) + 1] ELSE b[Field(c, k - 1) + 1]]

\* For every control, the header's special cases, its default and the builtin version of
\* _mm_shuffle_ps (and _mm_shuffle_pd) select the same lanes: two bits of the control for
\* each lane, the lower half of the lanes from a and the upper from b.
ShufflePairsAgree ==
  /\ shuffle_ps(Va(4), Vb(4), imm) = Selected(Va(4), Vb(4), imm)
  /\ shuffle_ps_builtin(Va(4), Vb(4), imm) = Selected(Va(4), Vb(4), imm)
  /\ shuffle_pd(Va(2), Vb(2), imm) = <<Va(2)[Bit(imm, 0) + 1], Vb(2)[Bit(imm, 1) + 1]>>
  /\ shuffle_pd_builtin(Va(2), Vb(2), imm) = shuffle_pd(Va(2), Vb(2), imm)

\* _mm_shuffle_epi32 with its special cases selects the lanes of one vector as the builtin
\* does, and the shuffle that duplicates lanes by a move is the one with that control.
ShuffleOneAgrees ==
  /\ shuffle_epi32(Va(4), imm) = Selected(Va(4), Va(4), imm)
  /\ shuffle_epi32_builtin(Va(4), imm) = Selected(Va(4), Va(4), imm)
  /\ movehdup_ps(Va(4)) = Selected(Va(4), Va(4), MM_SHUFFLE(3, 3, 1, 1))
  /\ moveldup_ps(Va(4)) = Selected(Va(4), Va(4), MM_SHUFFLE(2, 2, 0, 0))
  /\ movedup_pd(Va(2)) = unpacklo(Va(2), Va(2))

\* The half shuffles of 16-bit lanes, which set lane after lane in place, read the lanes as
\* they were, leave the other half alone, and agree with the builtin.
HalvesSelect ==
  LET lo == [k \in 1..8 |-> IF k <= 4 THEN Va(8)[Field(imm, k - 1) + 1] ELSE Va(8)[k]]
      hi == [k \in 1..8 |-> IF k <= 4 THEN Va(8)[k] ELSE Va(8)[Field(imm, k - 5) + 5]]
  IN  /\ shufflelo_epi16_function(Va(8), imm) = lo /\ shufflelo_epi16(Va(8), imm) = lo
      /\ shufflehi_epi16_function(Va(8), imm) = hi /\ shufflehi_epi16(Va(8), imm) = hi

\* Index bytes with the control in one place and other values around it.
Indices == [i \in 1..16 |-> (imm + 37 * i) % 256]

\* _mm_shuffle_epi8 takes the byte that the index's low four bits name, or zero if its
\* highest bit is set, whatever the bits between say.
BytesByIndex ==
  shuffle_epi8(Va(16), Indices) =
    [i \in 1..16 |-> IF Indices[i] >= 128 THEN Zero ELSE Va(16)[(Indices[i] % 16) + 1]]

\* The 32 bytes of a and b shifted right by the control's number of bytes, for every control
\* (0, past one operand, past both); the same for 8 bytes; and the shifts of one vector, which
\* are the two alignments with zeros, the one to the left by at least one byte.
AlignsConcatenation ==
  LET Shifted(n) == [i \in 1..n |-> IF i + imm <= 2 * n THEN (Vb(n) \o Va(n))[i + imm] ELSE Zero]
  IN  /\ alignr(Va(16), Vb(16), imm) = Shifted(16)
      /\ alignr(Va(8), Vb(8), imm) = Shifted(8)
      /\ srli_si128(Va(16), imm) = alignr(Zeros(16), Va(16), imm)
      /\ imm # 0 =>
           slli_si128(Va(16), imm) = [i \in 1..16 |-> IF i > imm THEN Va(16)[i - imm] ELSE Zero]

\* Each lane of a blend is b's exactly where the control's bit, or the mask's sign bit, is set,
\* and a masked store leaves the memory's other bytes as they were.
BlendsChoose ==
  /\ blend_epi16(Va(8), Vb(8), imm) = [i \in 1..8 |-> IF Bit(imm, i - 1) = 1 THEN Vb(8)[i] ELSE Va(8)[i]]
  /\ blend_pd(Va(2), Vb(2), imm) = [i \in 1..2 |-> IF Bit(imm, i - 1) = 1 THEN Vb(2)[i] ELSE Va(2)[i]]
  /\ blendv_epi8(Va(16), Vb(16), Indices) =
       [i \in 1..16 |-> IF Indices[i] >= 128 THEN Vb(16)[i] ELSE Va(16)[i]]
  /\ maskmoveu_si128(Vb(16), Indices, Va(16)) = blendv_epi8(Va(16), Vb(16), Indices)

\* Unpacking a and b, low and high, puts together every lane once, alternately from a and b and
\* in order, for 16, 8, 4 and 2 lanes and in both bodies; the macro that transposes four rows
\* puts element j of row i in element i of row j.
UnpacksInterleave ==
  /\ \A n \in {2, 4, 8, 16} :
       LET a == [k \in 1..n |-> Va(n)[((k + imm) % n) + 1]]   \* rotated by the control
           b == Vb(n)
       IN  /\ unpacklo(a, b) \o unpackhi(a, b) =
                [i \in 1..(2 * n) |-> IF i % 2 = 1 THEN a[(i + 1) \div 2] ELSE b[i \div 2]]
           /\ unpacklo_zip1(a, b) = unpacklo(a, b)
           /\ unpackhi_zip2(a, b) = unpackhi(a, b)
  /\ unpacklo_epi64(Va(2), Vb(2)) = unpacklo(Va(2), Vb(2))
  /\ unpackhi_epi64(Va(2), Vb(2)) = unpackhi(Va(2), Vb(2))
  /\ LET rows == [i \in 1..4 |-> [j \in 1..4 |-> <<i, j>>]]
     IN  TRANSPOSE4_PS(rows) = [i \in 1..4 |-> [j \in 1..4 |-> <<j, i>>]]
=============================================================================
