------------------------------ MODULE AesBlocks ------------------------------
(***************************************************************************)
(* The loops of psetggm/AES.cpp over many blocks: encryptECBBlocks, which  *)
(* expands a level of a GGM tree, encryptECB_MMO_Blocks and encryptCTR.    *)
(* Each takes eight blocks at a time through the rounds and the remainder  *)
(* one by one.  Module Aes is about the rounds; here the cipher is an      *)
(* opaque function, and a block is the set of terms it is the XOR of, so   *)
(* two blocks are equal only if they are for every key and plaintext.      *)
(*                                                                         *)
(* The caller's memory holds n plaintexts and room for n ciphertexts, in   *)
(* place or behind them, and one cell more.                                *)
(***************************************************************************)
EXTENDS Integers

CONSTANTS
  MaxBlocks,  \* bound on blockLength
  Width,      \* number of values of a counter (2^64 in the code)
  Bases       \* first counters of encryptCTR

AesBlocksAssumption ==
  MaxBlocks \in Nat /\ Width \in Nat \ {0} /\ Bases \subseteq 0..Width - 1

VARIABLES op, blockLength, inPlace, baseIdx, idx, mem

vars == <<op, blockLength, inPlace, baseIdx, idx, mem>>

step == 8

\* XOR of blocks.
Xor(a, b) == (a \ b) \cup (b \ a)

\* The cipher: aesenc with each round key and aesenclast.
Encrypt(b) == {<<"encrypted", b>>}

\* _mm_set1_epi64x of a counter.
Counter(c) == {<<"counter", c % Width>>}

Original(i) == {<<"plaintext", i>>}
Outside     == {<<"outside", 0>>}
Unwritten   == {<<"unwritten", 0>>}

\* Cells of plaintexts[i] and ciphertexts[i].
Plain(i)  == i
Cipher(i) == IF inPlace THEN i ELSE blockLength + i

Cells == 0..2 * MaxBlocks

length == blockLength - (blockLength % step)

Init ==
  /\ op \in {"ECB", "MMO", "CTR"}
  /\ blockLength \in 0..MaxBlocks
  /\ inPlace \in IF op = "CTR" THEN {TRUE} ELSE BOOLEAN
  /\ baseIdx \in IF op = "CTR" THEN Bases ELSE {0}
  /\ idx = 0
  /\ mem = [c \in Cells |-> IF c < blockLength THEN Original(c)
                            ELSE IF c < 2 * blockLength /\ ~inPlace THEN Unwritten ELSE Outside]

\* The memory after the batch at idx stores block value[k] as its k-th; the blocks are
\* all read before the first is stored.
Stored8(value) ==
  [c \in Cells |-> IF \E k \in 0..step - 1 : c = Cipher(idx + k)
                   THEN value[CHOOSE k \in 0..step - 1 : c = Cipher(idx + k)]
                   ELSE mem[c]]

\* Block k of the batch, as it was read.
Plaintext(k) == mem[Plain(idx + k)]

\* Counter of block k of the batch.
Input(k) == Counter(baseIdx + k)

\* Mutant: one mask serves all blocks.
MaskOfFirst(k) == mem[Plain(0)]

\* What the MMO batches mask block k with: of the first batch, whatever idx is.
Mask(k) == mem[Plain(k)]

Advance(by) == idx' = idx + by /\ UNCHANGED <<op, blockLength, inPlace>>

EcbBatch ==
  /\ op = "ECB" /\ idx < length
  /\ mem' = Stored8([k \in 0..step - 1 |-> Encrypt(Plaintext(k))])
  /\ Advance(step) /\ UNCHANGED baseIdx

MmoBatch ==
  /\ op = "MMO" /\ idx < length
  /\ mem' = Stored8([k \in 0..step - 1 |-> Xor(Encrypt(Plaintext(k)), Mask(k))])
  /\ Advance(step) /\ UNCHANGED baseIdx

CtrBatch ==
  /\ op = "CTR" /\ idx < length
  /\ mem' = Stored8([k \in 0..step - 1 |-> Encrypt(Input(k))])
  /\ Advance(step) /\ baseIdx' = baseIdx + step

EcbSingle ==
  /\ op = "ECB" /\ idx >= length /\ idx < blockLength
  /\ mem' = [mem EXCEPT ![Cipher(idx)] = Encrypt(mem[Plain(idx)])]
  /\ Advance(1) /\ UNCHANGED baseIdx

\* The block is encrypted where it is stored, and its plaintext read again after that.
encryptECB_MMO(plaintext, ciphertext) ==
  LET stored == [mem EXCEPT ![ciphertext] = Encrypt(mem[plaintext])]
  IN  [stored EXCEPT ![ciphertext] = Xor(@, stored[plaintext])]

MmoSingle ==
  /\ op = "MMO" /\ idx >= length /\ idx < blockLength
  /\ mem' = encryptECB_MMO(Plain(idx), Cipher(idx))
  /\ Advance(1) /\ UNCHANGED baseIdx

CtrSingle ==
  /\ op = "CTR" /\ idx >= length /\ idx < blockLength
  /\ mem' = [mem EXCEPT ![Cipher(idx)] = Encrypt(Counter(baseIdx))]
  /\ Advance(1) /\ baseIdx' = baseIdx + 1

Loops == EcbBatch \/ MmoBatch \/ CtrBatch \/ EcbSingle \/ MmoSingle \/ CtrSingle

Done == idx >= blockLength /\ UNCHANGED vars

Next == Loops \/ Done

\* A call runs until it returns.
Spec == Init /\ [][Next]_vars /\ WF_vars(Loops)

-----------------------------------------------------------------------------
\* Every call returns, having stored each block once (the loops over idx).
CallReturns == <>(idx = blockLength)

\* Each block stored so far is the encryption of its own plaintext, in place or not
\* and whatever the remainder (encryptECBBlocks): the two loops meet exactly.
EcbExact ==
  op = "ECB" => \A i \in 0..idx - 1 : mem[Cipher(i)] = Encrypt(Original(i))

\* Block i of the stream is the encryption of the i-th counter after the first, past
\* the largest counter too (encryptCTR).
CtrExact ==
  op = "CTR" => \A i \in 0..idx - 1 : mem[Cipher(i)] = Encrypt(Counter(baseIdx - idx + i))

\* Which blocks encryptECB_MMO_Blocks gives their own plaintext for a mask, with
\* separate buffers: the first batch and the remainder.
MmoExact ==
  op = "MMO" /\ ~inPlace =>
    \A i \in 0..idx - 1 :
      mem[Cipher(i)] = Xor(Encrypt(Original(i)), Original(i)) <=> i < step \/ i >= length

\* In place the MMO remainder masks a block with itself, so the block is zero.
MmoInPlace ==
  op = "MMO" /\ inPlace =>
    \A i \in 0..idx - 1 :
      mem[Cipher(i)] = IF i >= length THEN {}
                       ELSE IF i < step THEN Xor(Encrypt(Original(i)), Original(i))
                       ELSE Xor(Encrypt(Original(i)), mem[Cipher(i % step)])

\* No call writes behind its ciphertexts, or to plaintexts kept apart.
NoStrayWrites ==
  /\ mem[2 * MaxBlocks] = Outside
  /\ \A c \in Cells : c >= blockLength /\ c >= Cipher(blockLength) => mem[c] = Outside
  /\ ~inPlace => \A i \in 0..blockLength - 1 : mem[Plain(i)] = Original(i)
=============================================================================
