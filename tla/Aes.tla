--------------------------------- MODULE Aes ---------------------------------
(***************************************************************************)
(* The block cipher under the GGM trees: psetggm/AES.cpp over the AES      *)
(* instructions, which on ARM are sse2neon.h's.  There are three versions  *)
(* of those: over the ARM crypto instructions, over table lookups on       *)
(* AArch64, and over word tables on ARMv7.  A seed is expanded by one      *)
(* party and punctured sets by another, so all must compute one function.  *)
(*                                                                         *)
(* A block is its sixteen bytes, lowest first.  A step is one round key or *)
(* one round.                                                              *)
(***************************************************************************)
EXTENDS Integers, Sequences, Bitwise

CONSTANTS
  Versions,   \* of the instructions: "crypto", "aarch64", "armv7"
  Keys,       \* keys, as sequences of sixteen bytes
  Plaintexts  \* blocks to encrypt, likewise

AesAssumption == Versions \subseteq {"crypto", "aarch64", "armv7"}

VARIABLES version, roundKeys, plaintext, ciphertext, round

vars == <<version, roundKeys, plaintext, ciphertext, round>>

Byte  == 0..255
Index == 0..15

\* The block of sixteen bytes in memory.
toBlock(in) == [i \in Index |-> in[i + 1]]

Xor4(a, b, c, d) == (a ^^ b) ^^ (c ^^ d)

_mm_xor_si128(a, b) == [i \in Index |-> a[i] ^^ b[i]]

-----------------------------------------------------------------------------
SSE2NEON_sbox ==
  <<
    99, 124, 119, 123, 242, 107, 111, 197, 48, 1, 103, 43, 254, 215, 171, 118,
    202, 130, 201, 125, 250, 89, 71, 240, 173, 212, 162, 175, 156, 164, 114, 192,
    183, 253, 147, 38, 54, 63, 247, 204, 52, 165, 229, 241, 113, 216, 49, 21,
    4, 199, 35, 195, 24, 150, 5, 154, 7, 18, 128, 226, 235, 39, 178, 117,
    9, 131, 44, 26, 27, 110, 90, 160, 82, 59, 214, 179, 41, 227, 47, 132,
    83, 209, 0, 237, 32, 252, 177, 91, 106, 203, 190, 57, 74, 76, 88, 207,
    208, 239, 170, 251, 67, 77, 51, 133, 69, 249, 2, 127, 80, 60, 159, 168,
    81, 163, 64, 143, 146, 157, 56, 245, 188, 182, 218, 33, 16, 255, 243, 210,
    205, 12, 19, 236, 95, 151, 68, 23, 196, 167, 126, 61, 100, 93, 25, 115,
    96, 129, 79, 220, 34, 42, 144, 136, 70, 238, 184, 20, 222, 94, 11, 219,
    224, 50, 58, 10, 73, 6, 36, 92, 194, 211, 172, 98, 145, 149, 228, 121,
    231, 200, 55, 109, 141, 213, 78, 169, 108, 86, 244, 234, 101, 122, 174, 8,
    186, 120, 37, 46, 28, 166, 180, 198, 232, 221, 116, 31, 75, 189, 139, 138,
    112, 62, 181, 102, 72, 3, 246, 14, 97, 53, 87, 185, 134, 193, 29, 158,
    225, 248, 152, 17, 105, 217, 142, 148, 155, 30, 135, 233, 206, 85, 40, 223,
    140, 161, 137, 13, 191, 230, 66, 104, 65, 153, 45, 15, 176, 84, 187, 22
  >>

sbox(x) == SSE2NEON_sbox[x + 1]

\* Index of the byte that shift_rows moves to i.
shift_rows(i) == (5 * i) % 16

\* The product with two in the field of AES.
SSE2NEON_AES_F2(x) == ((2 * x) % 256) ^^ (IF x >= 128 THEN 27 ELSE 0)

SSE2NEON_AES_F3(x) == SSE2NEON_AES_F2(x) ^^ x

\* External: the ARM instructions, AESE with a zero key and AESMC.
vaeseq(a) == [i \in Index |-> sbox(a[shift_rows(i)])]
vaesmcq(a) ==
  [i \in Index |->
     LET At(k) == a[4 * (i \div 4) + ((i + k) % 4)]
     IN  Xor4(SSE2NEON_AES_F2(At(0)), SSE2NEON_AES_F3(At(1)), At(2), At(3))]

\* Four lookups in a quarter of the table each: one out of range gives 0 the first
\* time and leaves the byte as it is after that.
SubQuarters(w) ==
  LET Look(v, from) ==
        [i \in Index |-> LET x == (w[i] - from) % 256 IN IF x < 64 THEN sbox(from + x) ELSE v[i]]
  IN  Look(Look(Look(Look([i \in Index |-> 0], 0), 64), 128), 192)

\* Columns mixed with the bytes of a word swapped in pairs, then rotated.
MixByRotation(v) ==
  LET Near(b, i, k) == b[4 * (i \div 4) + ((i + k) % 4)]
      w1 == [i \in Index |-> SSE2NEON_AES_F2(v[i]) ^^ Near(v, i, 2)]
      vw == [i \in Index |-> v[i] ^^ w1[i]]
  IN  [i \in Index |-> w1[i] ^^ Near(vw, i, 1)]

\* Mutant: the second table has its bytes in the order of the first.
aes_table_unrotated(t, p) == <<SSE2NEON_AES_F2(p), p, p, SSE2NEON_AES_F3(p)>>

\* Word table t of ARMv7, as the four bytes of its entry for p.
aes_table(t, p) ==
  CASE t = 0 -> <<SSE2NEON_AES_F2(p), p, p, SSE2NEON_AES_F3(p)>>
    [] t = 1 -> <<SSE2NEON_AES_F3(p), SSE2NEON_AES_F2(p), p, p>>
    [] t = 2 -> <<p, SSE2NEON_AES_F3(p), SSE2NEON_AES_F2(p), p>>
    [] t = 3 -> <<p, p, SSE2NEON_AES_F3(p), SSE2NEON_AES_F2(p)>>

\* A column from four tables, each indexed by the byte of another word.
RoundByTables(a) ==
  [i \in Index |->
     LET c == i \div 4
         T(t) == aes_table(t, sbox(a[4 * ((c + t) % 4) + t]))[(i % 4) + 1]
     IN  Xor4(T(0), T(1), T(2), T(3))]

_mm_aesenc_si128(v, a, roundKey) ==
  _mm_xor_si128(roundKey,
    CASE v = "crypto"  -> vaesmcq(vaeseq(a))
      [] v = "aarch64" -> MixByRotation(SubQuarters([i \in Index |-> a[shift_rows(i)]]))
      [] v = "armv7"   -> RoundByTables(a))

_mm_aesenclast_si128(a, roundKey) == _mm_xor_si128(vaeseq(a), roundKey)

\* Words 1 and 3 substituted, then rotated with the round constant: in place, or
\* picked out of what AESE returns.
_mm_aeskeygenassist_si128(v, key, rcon) ==
  LET Word(i)  == IF i < 8 THEN 1 ELSE 3
      Place(i) == 4 * Word(i) + (IF (i \div 4) % 2 = 0 THEN i % 4 ELSE (i + 1) % 4)
      Picked   == <<4, 1, 14, 11, 1, 14, 11, 4, 12, 9, 6, 3, 9, 6, 3, 12>>
      sub      == [i \in Index |-> IF v = "crypto" THEN vaeseq(key)[Picked[i + 1]]
                                   ELSE sbox(key[Place(i)])]
  IN  [i \in Index |-> sub[i] ^^ (IF i \in {4, 12} THEN rcon ELSE 0)]

-----------------------------------------------------------------------------
\* Each word XORed into the next three times, and the assisted word 3 into all.
keyGenHelper(key, keyRcon) ==
  LET Slid(k)   == [i \in Index |-> IF i < 4 THEN k[i] ELSE k[i] ^^ k[i - 4]]
      \* _mm_shuffle_epi32(keyRcon, _MM_SHUFFLE(3, 3, 3, 3))
      splat     == [i \in Index |-> keyRcon[12 + (i % 4)]]
  IN  _mm_xor_si128(Slid(Slid(Slid(key))), splat)

Rcons == <<1, 2, 4, 8, 16, 32, 64, 128, 27, 54>>

NoBlock == <<>>

Init ==
  /\ version \in Versions
  /\ \E key \in Keys : roundKeys = <<toBlock(key)>>
  /\ plaintext = NoBlock /\ ciphertext = NoBlock /\ round = 0

\* One round key of AES::setKey.
setKey ==
  /\ Len(roundKeys) <= 10
  /\ LET n == Len(roundKeys)
     IN  roundKeys' = Append(roundKeys,
           keyGenHelper(roundKeys[n], _mm_aeskeygenassist_si128(version, roundKeys[n], Rcons[n])))
  /\ UNCHANGED <<version, plaintext, ciphertext, round>>

encryptECB(p) ==
  /\ Len(roundKeys) = 11 /\ round \in {0, 11}
  /\ plaintext' = toBlock(p)
  /\ ciphertext' = _mm_xor_si128(toBlock(p), roundKeys[1])
  /\ round' = 1
  /\ UNCHANGED <<version, roundKeys>>

EncryptRound ==
  /\ round \in 1..10
  /\ ciphertext' = IF round < 10
                   THEN _mm_aesenc_si128(version, ciphertext, roundKeys[round + 1])
                   ELSE _mm_aesenclast_si128(ciphertext, roundKeys[11])
  /\ round' = round + 1
  /\ UNCHANGED <<version, roundKeys, plaintext>>

Next == setKey \/ (\E p \in Plaintexts : encryptECB(p)) \/ EncryptRound

Spec == Init /\ [][Next]_vars

-----------------------------------------------------------------------------
\* The example of FIPS-197, appendix B.
ExampleKey == <<43, 126, 21, 22, 40, 174, 210, 166, 171, 247, 21, 136, 9, 207, 79, 60>>
ExamplePlaintext == <<50, 67, 246, 168, 136, 90, 48, 141, 49, 49, 152, 162, 224, 55, 7, 52>>

\* The cipher as FIPS-197 defines it.  A product in GF(2^8), by bits of b:
Times(a, b) ==
  LET P[n \in 0..8] ==   \* of bits n..7
        IF n = 8 THEN 0
        ELSE LET rest == P[n + 1]
                 twice == ((2 * rest) % 256) ^^ (IF rest >= 128 THEN 27 ELSE 0)
             IN  twice ^^ (IF (b \div 2^n) % 2 = 1 THEN a ELSE 0)
  IN  P[0]

Bit(x, n) == (x \div 2^(n % 8)) % 2

\* The byte whose affine transformation is s.
AffineInverse(s) ==
  LET S[n \in 0..8] ==
        IF n = 8 THEN 0
        ELSE ((Bit(s, n + 2) + Bit(s, n + 5) + Bit(s, n + 7) + Bit(5, n)) % 2) * 2^n + S[n + 1]
  IN  S[0]

\* The inverse in the field, 0 for 0, and the affine transformation.
IsSub(x, s) == IF x = 0 THEN AffineInverse(s) = 0 ELSE Times(x, AffineInverse(s)) = 1

\* ShiftRows, SubBytes and, but for the last round, the matrix of MixColumns.
FipsRound(a, last) ==
  [i \in Index |->
     LET At(k) == sbox(a[(4 * (i \div 4) + 5 * ((i + k) % 4)) % 16])
     IN  IF last THEN At(0) ELSE Xor4(Times(At(0), 2), Times(At(1), 3), At(2), At(3))]

\* Round key n of the key expansion is next after k: a word is the word before it,
\* in the first case rotated, substituted and with the round constant, XORed with the
\* word a key before.
IsNextKey(k, next, n) ==
  LET Rcon[r \in 1..10] == IF r = 1 THEN 1 ELSE Times(Rcon[r - 1], 2)
  IN  \A i \in Index :
        next[i] = k[i] ^^ (IF i >= 4 THEN next[i - 4]
                           ELSE sbox(k[12 + ((i + 1) % 4)]) ^^ (IF i = 0 THEN Rcon[n] ELSE 0))

\* Every round key is the standard's, whichever instructions assist (setKey,
\* keyGenHelper, _mm_aeskeygenassist_si128).
RoundKeysRight ==
  \A n \in 1..Len(roundKeys) - 1 : IsNextKey(roundKeys[n], roundKeys[n + 1], n)

\* Every round is the standard's, in all three versions of the instructions
\* (encryptECB, _mm_aesenc_si128, _mm_aesenclast_si128).
RoundRight ==
  round \in 1..10 =>
    ciphertext' = _mm_xor_si128(FipsRound(ciphertext, round = 10), roundKeys[round + 1])

\* The cipher gives the standard's example its ciphertext (AES::setKey and
\* AES::encryptECB from end to end).
ExampleRight ==
  /\ round = 11
  /\ roundKeys[1] = toBlock(ExampleKey) /\ plaintext = toBlock(ExamplePlaintext)
  => ciphertext = toBlock(<<57, 37, 132, 29, 2, 220, 9, 251, 220, 17, 133, 151, 25, 106, 11, 50>>)

\* The table holds the substitution of every byte (SSE2NEON_sbox).
TableIsSubstitution == round = 11 => \A x \in Byte : IsSub(x, sbox(x))
=============================================================================
