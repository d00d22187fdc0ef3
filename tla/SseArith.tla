------------------------------ MODULE SseArith -------------------------------
(***************************************************************************)
(* The integer arithmetic of sse2neon.h: sums, differences, products,      *)
(* comparisons and conversions that are put together from NEON             *)
(* instructions.  A vector has its real number of lanes, but a byte has    *)
(* ByteBits bits instead of 8 (and a "16-bit" lane twice as many, and so   *)
(* on), so that every pair of 16-bit lanes can be tried; a shift by 8, 16, *)
(* 15 or 32 in the code is written in terms of it.  A lane is its value as *)
(* an unsigned number; Signed says when the code reads it as signed.       *)
(***************************************************************************)
EXTENDS Integers, Sequences, FiniteSetsExt, SequencesExt

CONSTANT ByteBits

\* Eight differences of bytes fit a 16-bit lane, as they do with eight bits.
SseArithAssumption == ByteBits \in Nat /\ ByteBits >= 3

VARIABLES A16, B16   \* two vectors of eight 16-bit lanes

vars == <<A16, B16>>

W8  == ByteBits
W16 == 2 * ByteBits
W32 == 4 * ByteBits
W64 == 8 * ByteBits

Signed(u, w) == IF u >= 2^(w - 1) THEN u - 2^w ELSE u
Wrap(n, w)   == n % 2^w
Clamp(n, lo, hi) == IF n < lo THEN lo ELSE IF n > hi THEN hi ELSE n

\* A vector in lanes of half or twice the width.
Narrow(v, w) == [i \in 1..(2 * Len(v)) |->
                   IF i % 2 = 1 THEN Wrap(v[(i + 1) \div 2], w \div 2) ELSE v[i \div 2] \div 2^(w \div 2)]
Wide(v, w)   == [i \in 1..(Len(v) \div 2) |-> v[2 * i - 1] + v[2 * i] * 2^w]
Lane(Op(_, _), u, v) == [i \in DOMAIN u |-> Op(u[i], v[i])]
Map(Op(_), u)        == [i \in DOMAIN u |-> Op(u[i])]
Low(v)  == SubSeq(v, 1, Len(v) \div 2)
High(v) == SubSeq(v, Len(v) \div 2 + 1, Len(v))

-----------------------------------------------------------------------------
\* NEON's instructions, on lanes of w bits.

vqadd_s(u, v, w)  == Wrap(Clamp(Signed(u, w) + Signed(v, w), -(2^(w - 1)), 2^(w - 1) - 1), w)
vqadd_u(u, v, w)  == Clamp(u + v, 0, 2^w - 1)
vqsub_s(u, v, w)  == Wrap(Clamp(Signed(u, w) - Signed(v, w), -(2^(w - 1)), 2^(w - 1) - 1), w)
vqsub_u(u, v, w)  == Clamp(u - v, 0, 2^w - 1)
vneg(u, w)        == Wrap(-u, w)
vabs(u, w)        == IF Signed(u, w) < 0 THEN vneg(u, w) ELSE u
vrhadd(u, v)      == (u + v + 1) \div 2
vmull_s(u, v, w)  == Wrap(Signed(u, w) * Signed(v, w), 2 * w)
vmul(u, v, w)     == Wrap(u * v, w)
vshr_s(u, n, w)   == Wrap(Signed(u, w) \div 2^n, w)
vrshrn(u, n, w)   == Wrap((Signed(u, w) + 2^(n - 1)) \div 2^n, w \div 2)
vshrn(u, n, w)    == Wrap(u \div 2^n, w \div 2)
vmovn(u, w)       == Wrap(u, w \div 2)
vmovl_s(u, w)     == Wrap(Signed(u, w), 2 * w)
vmovl_u(u)        == u
vqmovn(u, w)      == Wrap(Clamp(Signed(u, w), -(2^(w \div 2 - 1)), 2^(w \div 2 - 1) - 1), w \div 2)
vqmovun(u, w)     == Clamp(Signed(u, w), 0, 2^(w \div 2) - 1)
vuzp1(u, v)       == [i \in DOMAIN u |-> (u \o v)[2 * i - 1]]
vuzp2(u, v)       == [i \in DOMAIN u |-> (u \o v)[2 * i]]
vpadd(u, v, w)    == [i \in DOMAIN u |-> Wrap((u \o v)[2 * i - 1] + (u \o v)[2 * i], w)]
vabd(u, v)        == IF u < v THEN v - u ELSE u - v
vpaddl(u)         == [i \in 1..(Len(u) \div 2) |-> u[2 * i - 1] + u[2 * i]]
Ones(w)           == 2^w - 1

-----------------------------------------------------------------------------
\* Lane by lane.

\* Negated where b is negative, cleared where it is zero: masks, a selection and a bit clear.
sign(w, a, b) ==
  LET ltMask   == vshr_s(b, w - 1, w)
      zeroMask == IF b = 0 THEN Ones(w) ELSE 0
      masked   == IF ltMask = Ones(w) THEN vneg(a, w) ELSE a
  IN  IF zeroMask = 0 THEN masked ELSE 0

abs(w, a)     == vabs(a, w)
avg(a, b)     == vrhadd(a, b)
subs_epi(w, a, b) == vqsub_s(a, b, w)
adds_epi(w, a, b) == vqadd_s(a, b, w)
subs_epu(w, a, b) == vqsub_u(a, b, w)

\* a > b exactly if b - a, saturated, is negative: its sign fills the lane.
\* Mutant: the difference wraps around.
cmpgt_epi64_wrapped(a, b) == vshr_s(Wrap(b - a, W64), W64 - 1, W64)

cmpgt_epi64(a, b) == vshr_s(vqsub_s(b, a, W64), W64 - 1, W64)

-----------------------------------------------------------------------------
\* Products.

\* The low halves of 64-bit lanes, multiplied to 64 bits.
mul_epu32(a, b) == [i \in 1..2 |-> Wrap(vmovn(a[i], W64) * vmovn(b[i], W64), W64)]
mul_epi32(a, b) == [i \in 1..2 |-> vmull_s(vmovn(a[i], W64), vmovn(b[i], W64), W32)]

mull16(a, b) == Lane(LAMBDA u, v : vmull_s(u, v, W16), a, b)

madd_epi16(a, b) ==
  LET low  == mull16(Low(a), Low(b))
      high == mull16(High(a), High(b))
  IN  vpadd(Low(low), High(low), W32) \o vpadd(Low(high), High(high), W32)

mulhrs_epi16(a, b) ==
  Map(LAMBDA p : vrshrn(p, W16 - 1, W32), mull16(Low(a), Low(b))) \o
  Map(LAMBDA p : vrshrn(p, W16 - 1, W32), mull16(High(a), High(b)))

\* The upper halves: the odd 16-bit lanes of the products.
mulhi_epi16(a, b) ==
  vuzp2(Narrow(mull16(Low(a), Low(b)), W32), Narrow(mull16(High(a), High(b)), W32))

mulhi_epu16(a, b) ==
  LET P(u, v) == Narrow(Lane(LAMBDA p, q : p * q, u, v), W32)
  IN  vuzp2(P(Low(a), Low(b)), P(High(a), High(b)))

\* Unsigned bytes of a times signed bytes of b, neighbours added with saturation: by widening,
\* and by shifting in 16-bit lanes.
maddubs_epi16(a, b) ==
  LET T(u, v) == Lane(LAMBDA p, q : vmul(vmovl_u(p), vmovl_s(q, W8), W16), u, v)
      tl == T(Low(a), Low(b))
      th == T(High(a), High(b))
  IN  Lane(LAMBDA p, q : vqadd_s(p, q, W16), vuzp1(tl, th), vuzp2(tl, th))

maddubs_epi16_v7(a, b) ==
  Lane(LAMBDA u, v :
         LET a_odd  == u \div 2^W8
             a_even == Wrap(u, W8)
             b_even == vshr_s(Wrap(v * 2^W8, W16), W8, W16)
             b_odd  == vshr_s(v, W8, W16)
         IN  vqadd_s(vmul(a_even, b_even, W16), vmul(a_odd, b_odd, W16), W16),
       Wide(a, W8), Wide(b, W8))

-----------------------------------------------------------------------------
\* Across lanes.

\* Sums of absolute differences, of eight bytes each, in lanes 0 and 4.
sad_epu8(a, b) ==
  LET t  == vpaddl(Lane(vabd, a, b))
      r0 == Wrap(t[1] + t[2] + t[3] + t[4], W16)
      r4 == Wrap(t[5] + t[6] + t[7] + t[8], W16)
  IN  [[i \in 1..8 |-> 0] EXCEPT ![1] = r0, ![5] = r4]

sad_pu8(a, b) ==
  LET t == vpaddl(Lane(vabd, a, b))
  IN  [[i \in 1..4 |-> 0] EXCEPT ![1] = Wrap(t[1] + t[2] + t[3] + t[4], W16)]

hadd_epi16(a, b) == vpadd(Low(a), High(a), W16) \o vpadd(Low(b), High(b), W16)
hadd_epi32(a, b) == vpadd(Low(a), High(a), W32) \o vpadd(Low(b), High(b), W32)

\* The even and the odd 16-bit lanes, by narrowing 32-bit lanes.
Evens(a, b, w) == Map(LAMBDA u : vmovn(u, 2 * w), Wide(a, w)) \o Map(LAMBDA u : vmovn(u, 2 * w), Wide(b, w))
Odds(a, b, w)  == Map(LAMBDA u : vshrn(u, w, 2 * w), Wide(a, w)) \o Map(LAMBDA u : vshrn(u, w, 2 * w), Wide(b, w))

hsub_epi16(a, b) == Lane(LAMBDA u, v : Wrap(u - v, W16), Evens(a, b, W16), Odds(a, b, W16))
hsub_epi32(a, b) == Lane(LAMBDA u, v : Wrap(u - v, W32), Evens(a, b, W32), Odds(a, b, W32))

hadds_epi16(a, b) == Lane(LAMBDA u, v : vqadd_s(u, v, W16), vuzp1(a, b), vuzp2(a, b))
hsubs_epi16(a, b) == Lane(LAMBDA u, v : vqsub_s(u, v, W16), Evens(a, b, W16), Odds(a, b, W16))

packs(w, a, b)  == Map(LAMBDA u : vqmovn(u, w), a) \o Map(LAMBDA u : vqmovn(u, w), b)
packus(w, a, b) == Map(LAMBDA u : vqmovun(u, w), a) \o Map(LAMBDA u : vqmovun(u, w), b)

\* Widening by steps, each of the low half: bytes to 16, 32 and 64 bits, and so on.
widen_s(v, w, steps) ==
  LET R[n \in 0..steps] ==
        IF n = 0 THEN v ELSE Map(LAMBDA u : vmovl_s(u, w * 2^(n - 1)), Low(R[n - 1]))
  IN  R[steps]
widen_u(v, steps) ==
  LET R[n \in 0..steps] == IF n = 0 THEN v ELSE Map(vmovl_u, Low(R[n - 1]))
  IN  R[steps]

\* The minimum by halving; its first place by shifting the vector until the lowest lane is it.
minpos_epu16(a) ==
  LET t1  == [i \in 1..4 |-> Min({Low(a)[i], High(a)[i]})]
      PMin(t) == [i \in 1..4 |-> Min({(t \o t)[2 * i - 1], (t \o t)[2 * i]})]
      min == PMin(PMin(t1))[1]
      idx == CHOOSE i \in 0..7 : a[i + 1] = min /\ \A h \in 0..(i - 1) : a[h + 1] # min
  IN  [[i \in 1..8 |-> 0] EXCEPT ![1] = min, ![2] = idx]

-----------------------------------------------------------------------------
\* Every pair of values meets in the lowest lanes; the others are spread.
Init ==
  \E m, n \in 0..(2^W16 - 1) :
    /\ A16 = [i \in 1..8 |-> Wrap(m + 21 * (i - 1), W16)]
    /\ B16 = [i \in 1..8 |-> Wrap(n + 37 * (i - 1), W16)]
Next == UNCHANGED vars
Spec == Init /\ [][Next]_vars

-----------------------------------------------------------------------------
A8  == Narrow(A16, W16)
B8  == Narrow(B16, W16)
A32 == Wide(A16, W16)
B32 == Wide(B16, W16)
A64 == Wide(A32, W32)
B64 == Wide(B32, W32)

S8(u)  == Signed(u, W8)
S16(u) == Signed(u, W16)
S32(u) == Signed(u, W32)
Sat16(n) == Wrap(Clamp(n, -(2^(W16 - 1)), 2^(W16 - 1) - 1), W16)

\* sign_* multiplies by the sign of b, modulo the width; abs_* gives the magnitude as an unsigned
\* number (also of the least number); averages round up and do not overflow; differences and
\* sums saturate to the nearest number of the type.
LanesRight ==
  /\ \A w \in {W8, W16} :
       LET u == Wrap(A16[1], w)  v == Wrap(B16[1], w)
           s == Signed(u, w)  t == Signed(v, w)
       IN  /\ sign(w, u, v) = Wrap(IF t < 0 THEN -s ELSE IF t = 0 THEN 0 ELSE s, w)
           /\ abs(w, u) = IF s < 0 THEN -s ELSE s
           /\ 2 * avg(u, v) \in {u + v, u + v + 1} /\ avg(u, v) <= Ones(w)
           /\ \A z \in {subs_epi(w, u, v)} :
                \A n \in (-(2^(w - 1)))..(2^(w - 1) - 1) : vabd(Signed(z, w), s - t) <= vabd(n, s - t)
           /\ adds_epi(w, u, v) = subs_epi(w, u, vneg(v, w)) \/ t = -(2^(w - 1))
           /\ subs_epu(w, u, v) + v = Max({u, v})

\* The comparison of 64-bit lanes by a saturated difference is the comparison, at the ends of the
\* range too: for lanes that are small, large, and extreme.
ComparesSigned ==
  LET lanes == {A64[1], B64[1], A64[2], 2^(W64 - 1), 2^(W64 - 1) - 1, Ones(W64), 0}
  IN  \A u \in lanes, v \in lanes :
        cmpgt_epi64(u, v) = IF Signed(u, W64) > Signed(v, W64) THEN Ones(W64) ELSE 0

\* Products of 16- and 32-bit lanes: the halves, the sums of pairs and the rounded products are
\* those of the exact products of the lanes at the same places.
ProductsRight ==
  LET p(i) == S16(A16[i]) * S16(B16[i])
  IN  /\ \A i \in 1..8 : mulhi_epi16(A16, B16)[i] = Wrap(p(i) \div 2^W16, W16)
      /\ \A i \in 1..8 : mulhi_epu16(A16, B16)[i] = (A16[i] * B16[i]) \div 2^W16
      /\ \A i \in 1..8 : mulhrs_epi16(A16, B16)[i] = Wrap((p(i) \div 2^(W16 - 2) + 1) \div 2, W16)
      /\ \A i \in 1..4 : madd_epi16(A16, B16)[i] = Wrap(p(2 * i - 1) + p(2 * i), W32)
      /\ \A i \in 1..2 : mul_epu32(A64, B64)[i] = A32[2 * i - 1] * B32[2 * i - 1]
      /\ \A i \in 1..2 : Signed(mul_epi32(A64, B64)[i], W64) = S32(A32[2 * i - 1]) * S32(B32[2 * i - 1])

\* Both bodies of maddubs multiply unsigned bytes by signed ones without losing a bit, and
\* saturate only the sum of the two products.
MixedProducts ==
  LET q(i) == A8[i] * S8(B8[i])
  IN  \A i \in 1..8 :
        /\ maddubs_epi16(A8, B8)[i] = Sat16(q(2 * i - 1) + q(2 * i))
        /\ maddubs_epi16_v7(A8, B8)[i] = Sat16(q(2 * i - 1) + q(2 * i))

\* Horizontal sums and differences take neighbours of a, then of b, in order; sums of absolute
\* differences are those of each eight bytes.
NeighboursRight ==
  LET ab == A16 \o B16
      cd == A32 \o B32
      D(i) == vabd(A8[i], B8[i])
  IN  /\ hadd_epi16(A16, B16) = [i \in 1..8 |-> Wrap(ab[2 * i - 1] + ab[2 * i], W16)]
      /\ hadd_epi32(A32, B32) = [i \in 1..4 |-> Wrap(cd[2 * i - 1] + cd[2 * i], W32)]
      /\ hsub_epi16(A16, B16) = [i \in 1..8 |-> Wrap(ab[2 * i - 1] - ab[2 * i], W16)]
      /\ hsub_epi32(A32, B32) = [i \in 1..4 |-> Wrap(cd[2 * i - 1] - cd[2 * i], W32)]
      /\ hadds_epi16(A16, B16) = [i \in 1..8 |-> Sat16(S16(ab[2 * i - 1]) + S16(ab[2 * i]))]
      /\ hsubs_epi16(A16, B16) = [i \in 1..8 |-> Sat16(S16(ab[2 * i - 1]) - S16(ab[2 * i]))]
      /\ sad_epu8(A8, B8)[1] = D(1) + D(2) + D(3) + D(4) + D(5) + D(6) + D(7) + D(8)
      /\ sad_epu8(A8, B8)[5] = sad_pu8(High(A8), High(B8))[1]

\* Widening keeps a lane's value, signed or not, over one to three steps, and packing what was
\* widened gives it back; packing clamps what does not fit.
ConversionsKeep ==
  /\ \A n \in 1..3 :
       LET s == widen_s(A8, W8, n)
       IN  /\ \A i \in DOMAIN s : Signed(s[i], W8 * 2^n) = S8(A8[i])
           /\ widen_u(A8, n) = SubSeq(A8, 1, 16 \div 2^n)
           /\ n < 3 => packs(W8 * 2^n, s, s) = LET h == widen_s(A8, W8, n - 1) IN Low(h) \o Low(h)
  /\ packus(W16, A16, B16) = Map(LAMBDA u : Clamp(S16(u), 0, Ones(W8)), A16 \o B16)
  /\ packs(W32, A32, B32) = Map(LAMBDA u : Sat16(S32(u)), A32 \o B32)

\* minpos gives the least of the eight lanes and the first place that has it, zeros elsewhere,
\* also when it occurs more than once.
MinimumFound ==
  LET a == [A16 EXCEPT ![3] = B16[1], ![7] = B16[1]]
      r == minpos_epu16(a)
  IN  /\ r[1] = a[r[2] + 1]
      /\ \A i \in 1..8 : r[1] <= a[i] /\ (a[i] = r[1] => r[2] < i)
      /\ \A i \in 3..8 : r[i] = 0
=============================================================================
