------------------------------ MODULE SseShifts ------------------------------
(***************************************************************************)
(* The shifts of sse2neon.h.  An SSE shift takes any count and shifts      *)
(* everything out when the count is large; NEON's takes a signed count     *)
(* from the lowest byte of a lane, negative for right.  The guards between *)
(* the two are the code modelled here.  A word is the set of its one bits, *)
(* a lane of w bits stands for the vector (all lanes do the same), and a   *)
(* shift is linear, so words of one bit decide it.                         *)
(***************************************************************************)
EXTENDS Integers, FiniteSets, FiniteSetsExt

CONSTANTS
  Numbers,   \* counts up to this
  TopBit     \* and the powers of two up to this one

SseShiftsAssumption == Numbers \in 0..255 /\ TopBit \in 0..63

VARIABLES k, count   \* the shifted bit, and a count of 64 bits

vars == <<k, count>>

BitsOf(n)  == {b \in 0..7 : (n \div 2^b) % 2 = 1}
Number(u)  == SumSet({2^b : b \in u})
LowByte(u) == Number(u \intersect (0..7))
Counts     == {BitsOf(n) : n \in 0..Numbers} \union {{b} : b \in 0..TopBit} \union {{b, 0} : b \in 1..TopBit}

-----------------------------------------------------------------------------
\* NEON: shift a lane of w bits by the signed number in the low byte c of the count.
ByteSigned(c)    == IF c % 256 >= 128 THEN (c % 256) - 256 ELSE c % 256
vshl_u(u, c, w)  == {b + ByteSigned(c) : b \in u} \intersect (0..(w - 1))
vshl_s(u, c, w)  ==
  LET s == ByteSigned(c)
  IN  IF s >= 0 THEN vshl_u(u, c, w)
      ELSE {b \in 0..(w - 1) : (IF b - s < w THEN b - s ELSE w - 1) \in u}

-----------------------------------------------------------------------------
\* Counts in the instruction.

slli_epi16(a, imm) == IF imm > 15 THEN {} ELSE vshl_u(a, imm, 16)
slli(w, a, imm)    == IF imm <= 0 THEN a ELSE IF imm > w - 1 THEN {} ELSE vshl_u(a, imm, w)

srli(w, a, imm) == IF imm = 0 THEN a ELSE IF imm < w THEN vshl_u(a, -imm, w) ELSE {}

\* imm & ~15 is not zero above 15.
srai_epi16(a, imm) == vshl_s(a, -(IF imm > 15 THEN 15 ELSE imm), 16)
srai_epi32(a, imm) ==
  IF imm = 0 THEN a ELSE IF imm < 32 THEN vshl_s(a, -imm, 32) ELSE vshl_s(a, -31, 32)

-----------------------------------------------------------------------------
\* Counts in the low 64 bits of a vector; w - 1 is a power of two less one, so that an unsigned
\* count exceeds it exactly if a higher bit is set.
Exceeds(c, w) == \E b \in c : 2^Min({b, 8}) >= w

\* Mutant: only the count's low 16 bits are compared.
sll_short(w, a, c) ==
  IF Exceeds(c \intersect (0..15), w) THEN {} ELSE vshl_u(a, LowByte(c), w)

sll(w, a, c) == IF Exceeds(c, w) THEN {} ELSE vshl_u(a, LowByte(c), w)
srl(w, a, c) == IF Exceeds(c, w) THEN {} ELSE vshl_u(a, -LowByte(c), w)

Sign(w, a) == IF w - 1 \in a THEN 0..(w - 1) ELSE {}

\* The count is a signed number here: with bit 63 it is not greater.
sra(w, a, c) == IF 63 \notin c /\ Exceeds(c, w) THEN Sign(w, a) ELSE vshl_s(a, -LowByte(c), w)

-----------------------------------------------------------------------------
Init == k \in 0..63 /\ count \in Counts
Next == UNCHANGED vars
Spec == Init /\ [][Next]_vars

-----------------------------------------------------------------------------
\* The documented results, for a count n of any size: bits move by n, those that leave the lane
\* are lost, and zeros or copies of the sign bit come in.
Left(u, n, w)       == {b + n : b \in u} \intersect (0..(w - 1))
Right(u, n)         == {b - n : b \in u} \intersect Nat
Arithmetic(u, n, w) == {b \in 0..(w - 1) : Min({b + n, w - 1}) \in u}

\* A count as a number, counts above 2^20 being as good as that.
Size(c) == IF \E b \in c : b > 20 THEN 2^20 ELSE Number(c)

\* Every immediate count shifts as documented: the guards of each width send the counts that
\* NEON would take modulo 256, or as negative, to zeros or to the sign.
ImmediateShifts ==
  count \subseteq 0..7 =>
    LET imm  == Number(count)
        u(w) == {k % w}
    IN  /\ slli_epi16(u(16), imm) = Left(u(16), imm, 16)
        /\ \A w \in {32, 64} : slli(w, u(w), imm) = Left(u(w), imm, w)
        /\ \A w \in {16, 32, 64} : srli(w, u(w), imm) = Right(u(w), imm)
        /\ srai_epi16(u(16), imm) = Arithmetic(u(16), imm, 16)
        /\ srai_epi32(u(32), imm) = Arithmetic(u(32), imm, 32)

\* Shifts by the count in a vector look at all of its 64 bits.
CountedShifts ==
  \A w \in {16, 32, 64} :
    /\ sll(w, {k % w}, count) = Left({k % w}, Size(count), w)
    /\ srl(w, {k % w}, count) = Right({k % w}, Size(count))

\* Arithmetic shifts by the count in a vector move to the right and shift in the sign bit.
SignShiftedIn ==
  \A w \in {16, 32} : sra(w, {k % w}, count) = Arithmetic({k % w}, Size(count), w)
=============================================================================
