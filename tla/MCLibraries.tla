---------------------------- MODULE MCLibraries ----------------------------
(***************************************************************************)
(* The two libraries psetggm/ brings along, flat_hash_map.hpp and          *)
(* sse2neon.h, and the cipher of AES.cpp over its AES instructions, one    *)
(* component after the other: unit says which of them a behaviour is       *)
(* about, and v1 to v5 are its variables.                                  *)
(***************************************************************************)
EXTENDS Integers, Sequences, SequencesExt

VARIABLES unit, v1, v2, v3, v4, v5

vars == <<unit, v1, v2, v3, v4, v5>>

Unused == v3 = 0 /\ v4 = 0 /\ v5 = 0

-----------------------------------------------------------------------------
\* A table of words of seven bits, in which keys are known by where their hashes fall:
\* the multiplier is 2^7 divided by the golden ratio, as the code's is 2^64.
Multiplier == 79
KeysOf(hashes) == {k \in 0..127 : (Multiplier * k) % 128 \in hashes}

\* Of sixteen slots three keys want the first, three the second and two the last; of
\* eight, six want the first.
Crowded == KeysOf({0, 1, 2, 8, 9, 10, 126, 127})

\* All keys at once, in two orders and one of them twice over.
ListsOf(keys) ==
  LET up == SelectSeq([i \in 1..128 |-> i - 1], LAMBDA k : k \in keys)
  IN  {<<>>, up, Reverse(up) \o up}

Table == INSTANCE FlatHashSet WITH
  Names <- {"a"}, Keys <- Crowded, Width <- 7, Policy <- "fibonacci", LoadFactors <- {1, 2},
  Reserves <- {0, 3}, Lists <- ListsOf(Crowded), table <- v1

\* Two tables, for the operations that take another one.
Pair == INSTANCE FlatHashSet WITH
  Names <- {"a", "b"}, Keys <- {0, 15, 31}, Width <- 7, Policy <- "power_of_two",
  LoadFactors <- {1, 2}, Reserves <- {0, 1, 5}, Lists <- ListsOf({0, 15, 31}), table <- v1

Policies == INSTANCE HashPolicies WITH Bits <- 0..63, Around <- {0, 1}, input <- v1

Lanes  == INSTANCE SseLanes WITH imm <- v1
Words  == INSTANCE SseBits WITH DenseBelow <- 4, i <- v1, j <- v2
\* Counts up to 255 and the powers of two below 2^63.
Shifts == INSTANCE SseShifts WITH Numbers <- 255, TopBit <- 62, k <- v1, count <- v2
Arith  == INSTANCE SseArith WITH ByteBits <- 3, A16 <- v1, B16 <- v2

\* The two fixed keys of AES.cpp, the zero key and the key of the standard's example;
\* blocks that differ in every byte.
MCKeys ==
  {<<36, 156, 50, 234, 92, 230, 49, 9, 174, 170, 205, 160, 98, 236, 29, 243>>,
   <<209, 12, 199, 173, 29, 74, 44, 128, 194, 224, 14, 44, 2, 201, 110, 28>>,
   [i \in 1..16 |-> 0],
   <<43, 126, 21, 22, 40, 174, 210, 166, 171, 247, 21, 136, 9, 207, 79, 60>>}
MCPlaintexts ==
  {<<50, 67, 246, 168, 136, 90, 48, 141, 49, 49, 152, 162, 224, 55, 7, 52>>,
   [i \in 1..16 |-> (17 * i) % 256],
   [i \in 1..16 |-> 255 - i]}

Cipher == INSTANCE Aes WITH
  Versions <- {"crypto", "aarch64", "armv7"}, Keys <- MCKeys, Plaintexts <- MCPlaintexts,
  version <- v1, roundKeys <- v2, plaintext <- v3, ciphertext <- v4, round <- v5

ASSUME LibrariesAssumption ==
  /\ Table!FlatHashSetAssumption /\ Pair!FlatHashSetAssumption /\ Policies!HashPoliciesAssumption
  /\ Words!SseBitsAssumption /\ Shifts!SseShiftsAssumption /\ Arith!SseArithAssumption
  /\ Cipher!AesAssumption

-----------------------------------------------------------------------------
Init ==
  \/ unit = "table" /\ Table!Init /\ v2 = 0 /\ Unused
  \/ unit = "pair" /\ Pair!Init /\ v2 = 0 /\ Unused
  \/ unit = "policies" /\ Policies!Init /\ v2 = 0 /\ Unused
  \/ unit = "lanes" /\ Lanes!Init /\ v2 = 0 /\ Unused
  \/ unit = "words" /\ Words!Init /\ Unused
  \/ unit = "shifts" /\ Shifts!Init /\ Unused
  \/ unit = "arith" /\ Arith!Init /\ Unused
  \/ unit = "aes" /\ Cipher!Init

\* A table goes through its operations and the cipher through its rounds; everything else is a function of its input.
Next ==
  /\ UNCHANGED unit
  /\ \/ unit = "table" /\ Table!Next /\ UNCHANGED <<v2, v3, v4, v5>>
     \/ unit = "pair" /\ Pair!Next /\ UNCHANGED <<v2, v3, v4, v5>>
     \/ unit = "aes" /\ Cipher!Next
     \/ unit \notin {"table", "pair", "aes"} /\ UNCHANGED <<v1, v2, v3, v4, v5>>

Spec == Init /\ [][Next]_vars

-----------------------------------------------------------------------------
\* After any operations every entry is where a search for its key passes, and an
\* insertion adds its key alone, through any chain of moves and growth (emplace).
InsertsRight ==
  /\ unit = "table" => Table!EntriesPlaced /\ Table!InsertAddsKey
  /\ unit = "pair" => Pair!EntriesPlaced /\ Pair!InsertAddsKey

\* Erasing an element or a range takes what it names alone and returns what comes next
\* (erase).
ErasuresRight ==
  /\ unit = "table" => Table!EraseReturnsNext /\ Table!RangeErased
  /\ unit = "pair" => Pair!EraseReturnsNext /\ Pair!RangeErased

\* Rehashing, copying and assigning keep the contents, and tables are equal exactly if
\* their contents are (rehash, operator=, operator==).
ContentsKept == unit = "pair" => Pair!ContentsKept /\ Pair!EqualIffSame

\* Sizes and indices of the policies: the logarithm and the next power of two of every
\* word, and primes of the recipe, each with its own modulus
\* (prime_number_hash_policy, power_of_two_hash_policy).
PoliciesRight ==
  unit = "policies" =>
    /\ Policies!Log2Right /\ Policies!NextPowerRight
    /\ Policies!PrimeSizeRight /\ Policies!SizesFollowRecipe

\* For every immediate the NEON instructions chosen move the lanes that the SSE
\* instruction would; carry-less products, checksums, sign masks and comparisons of
\* blocks are those of the instructions; so are shifts by every count, also beyond the
\* width of a lane (shuffles, alignr, blends, unpacks; _mm_clmulepi64_si128,
\* _mm_crc32_u8, _mm_movemask_epi8, Defines.h; the _mm_sll, _mm_srl and _mm_sra families).
BitsRight ==
  /\ unit = "lanes" =>
       /\ Lanes!ShufflePairsAgree /\ Lanes!ShuffleOneAgrees /\ Lanes!HalvesSelect
       /\ Lanes!BytesByIndex /\ Lanes!AlignsConcatenation /\ Lanes!BlendsChoose
       /\ Lanes!UnpacksInterleave
  /\ unit = "words" =>
       /\ Words!ProductRight /\ Words!CrcIsRemainder
       /\ Words!MasksCollectSigns /\ Words!BlocksCompared
  /\ unit = "shifts" => Shifts!ImmediateShifts /\ Shifts!CountedShifts /\ Shifts!SignShiftedIn

\* Arithmetic that NEON lacks: comparison by saturation, mixed signs, sums of
\* neighbours, conversions and the minimum with its place.
ArithmeticRight ==
  unit = "arith" =>
    /\ Arith!LanesRight /\ Arith!ComparesSigned /\ Arith!ProductsRight /\ Arith!MixedProducts
    /\ Arith!NeighboursRight /\ Arith!ConversionsKeep /\ Arith!MinimumFound

\* The cipher is AES with each of the three versions of the instructions: its table, its
\* round keys, every round and the standard's example (AES.cpp, sse2neon.h).
CipherIsAes ==
  /\ [](unit = "aes" => Cipher!RoundKeysRight /\ Cipher!ExampleRight /\ Cipher!TableIsSubstitution)
  /\ [][unit = "aes" => Cipher!RoundRight]_vars
=============================================================================
