---------------------------- MODULE HashPolicies -----------------------------
(***************************************************************************)
(* The sizes that flat_hash_map.hpp gives its tables: log2 by a table of   *)
(* windows of a constant, next_power_of_two by smearing bits, and the list *)
(* of primes with the functions that divide by them.  A word of 64 bits is *)
(* a function from the bits' numbers; a prime is an integer, so the lists  *)
(* stop at the last one below 2^31.  The input is chosen first and stays.  *)
(***************************************************************************)
EXTENDS Integers, Sequences, Functions

CONSTANTS
  Bits,     \* numbers of the highest bit of a word
  Around    \* distances from a prime of the sizes asked for

HashPoliciesAssumption == Bits \subseteq 0..63 /\ Around \subseteq Nat

VARIABLE input   \* a word, or a size next to a prime

Bit  == 0..63
Zero == [i \in Bit |-> 0]

\* Words with highest bit k: alone, with all lower bits, with every second one, with the
\* lowest.
Words(k) ==
  {[i \in Bit |-> IF i = k THEN 1 ELSE IF i > k THEN 0 ELSE low[i]] :
     low \in {Zero, [i \in Bit |-> 1], [i \in Bit |-> i % 2], [Zero EXCEPT ![0] = 1]}}

-----------------------------------------------------------------------------
ShiftedRight(v, n) == [i \in Bit |-> IF i + n \in Bit THEN v[i + n] ELSE 0]
Or(v, w)           == [i \in Bit |-> IF v[i] = 1 \/ w[i] = 1 THEN 1 ELSE 0]

\* value |= value >> 1, then by 2, 4, 8, 16 and 32.
Smeared(v) ==
  LET After[n \in 0..6] ==
        IF n = 0 THEN v ELSE LET w == After[n - 1] IN Or(w, ShiftedRight(w, 2^(n - 1)))
  IN  After[6]

\* 0x07EDD5E59A4E28C2, highest digit first.
Digits == <<0, 7, 14, 13, 13, 5, 14, 5, 9, 10, 4, 14, 2, 8, 12, 2>>

\* Mutant: a digit of the constant is wrong.
ConstantBitMistyped(i) ==
  IF i < 0 THEN 0 ELSE ([Digits EXCEPT ![9] = 8][16 - (i \div 4)] \div 2^(i % 4)) % 2

ConstantBit(i) == IF i < 0 THEN 0 ELSE (Digits[16 - (i \div 4)] \div 2^(i % 4)) % 2

log2Table ==
  <<63, 0, 58, 1, 59, 47, 53, 2, 60, 39, 48, 27, 54, 33, 42, 3, 61, 51, 37, 40,
    49, 18, 28, 20, 55, 30, 34, 11, 43, 14, 22, 4, 62, 57, 46, 52, 38, 26, 32,
    41, 50, 36, 17, 19, 29, 10, 13, 21, 56, 45, 25, 31, 35, 16, 9, 12, 44, 24,
    15, 8, 23, 7, 6, 5>>

\* The six highest bits of the constant times the word's highest power of two.
log2(v) ==
  LET s    == Smeared(v)
      top  == [i \in Bit |-> s[i] - ShiftedRight(s, 1)[i]]
      k    == CHOOSE i \in Bit : top[i] = 1
      B(j) == ConstantBit(58 + j - k) * 2^j
  IN  log2Table[1 + B(0) + B(1) + B(2) + B(3) + B(4) + B(5)]

\* One less and one more, modulo 2^64.
Decremented(v) == [i \in Bit |-> IF \A j \in 0..i - 1 : v[j] = 0 THEN 1 - v[i] ELSE v[i]]
Incremented(v) == [i \in Bit |-> IF \A j \in 0..i - 1 : v[j] = 1 THEN 1 - v[i] ELSE v[i]]

next_power_of_two(v) == Incremented(Smeared(Decremented(v)))

-----------------------------------------------------------------------------
prime_list ==
  <<2, 3, 5, 7, 11, 13, 17, 23, 29, 37, 47, 59, 73, 97, 127, 151, 197, 251, 313,
    397, 499, 631, 797, 1009, 1259, 1597, 2011, 2539, 3203, 4027, 5087, 6421,
    8089, 10193, 12853, 16193, 20399, 25717, 32401, 40823, 51437, 64811, 81649,
    102877, 129607, 163307, 205759, 259229, 326617, 411527, 518509, 653267,
    823117, 1037059, 1306601, 1646237, 2074129, 2613229, 3292489, 4148279,
    5226491, 6584983, 8296553, 10453007, 13169977, 16593127, 20906033, 26339969,
    33186281, 41812097, 52679969, 66372617, 83624237, 105359939, 132745199,
    167248483, 210719881, 265490441, 334496971, 421439783, 530980861, 668993977,
    842879579, 1061961721, 1337987929, 1685759167, 2123923447>>

\* What each function of mod_functions divides by, 0 for mod0.
mod_functions ==
  <<0, 2, 3, 5, 7, 11, 13, 17, 23, 29, 37, 47, 59, 73, 97, 127, 151, 197, 251,
    313, 397, 499, 631, 797, 1009, 1259, 1597, 2011, 2539, 3203, 4027, 5087,
    6421, 8089, 10193, 12853, 16193, 20399, 25717, 32401, 40823, 51437, 64811,
    81649, 102877, 129607, 163307, 205759, 259229, 326617, 411527, 518509,
    653267, 823117, 1037059, 1306601, 1646237, 2074129, 2613229, 3292489,
    4148279, 5226491, 6584983, 8296553, 10453007, 13169977, 16593127, 20906033,
    26339969, 33186281, 41812097, 52679969, 66372617, 83624237, 105359939,
    132745199, 167248483, 210719881, 265490441, 334496971, 421439783, 530980861,
    668993977, 842879579, 1061961721, 1337987929, 1685759167, 2123923447>>

\* lower_bound: the first prime that is not less.
Found(size) ==
  CHOOSE i \in DOMAIN prime_list : prime_list[i] >= size /\ \A j \in 1..i - 1 : prime_list[j] < size

mod_function(found) == mod_functions[1 + found]

\* The new size and the function that goes with it.
next_size_over(size) == [size |-> prime_list[Found(size)], modulus |-> mod_function(Found(size))]

-----------------------------------------------------------------------------
Sizes ==
  {n \in UNION {{p + d, p - d} : p \in Range(prime_list), d \in Around} :
     1 <= n /\ n <= prime_list[Len(prime_list)]}

Init ==
  \/ \E k \in Bits : \E w \in Words(k) : input = [word |-> w, top |-> k]
  \/ \E n \in Sizes : input = [size |-> n]

Next == UNCHANGED input

Spec == Init /\ [][Next]_input

IsWord == "word" \in DOMAIN input

\* The number of the highest bit, for every word (detailv3::log2): the windows of the
\* constant are all different and the table inverts them.
Log2Right == IsWord => log2(input.word) = input.top

\* The least power of two that is not less than a word, and 0 where that is 2^64.
NextPowerRight ==
  IsWord =>
    LET alone == \A i \in 0..input.top - 1 : input.word[i] = 0
        e     == IF alone THEN input.top ELSE input.top + 1
    IN  next_power_of_two(input.word) = [i \in Bit |-> IF i = e THEN 1 ELSE 0]

\* Trial division.
IsPrime(n) ==
  LET roots == {2^k : k \in 1..15} \cup {46340}
      root  == CHOOSE r \in roots : (r * r > n \/ r = 46340) /\ \A q \in roots : q < r => q * q <= n
  IN  n >= 2 /\ \A d \in 2..root : d >= n \/ n % d # 0

\* The function returned divides by the size returned, so every index is in the table,
\* and the size is prime (prime_number_hash_policy::next_size_over).
PrimeSizeRight ==
  ~IsWord => LET r == next_size_over(input.size)
             IN  r.modulus = r.size /\ r.size >= input.size /\ IsPrime(r.size)

\* The comment's recipe: a prime, the next one after its double, and two between them
\* near the cube roots from 11 on, so that no size asked for grows by much more than a quarter.
SizesFollowRecipe ==
  ~IsWord =>
    LET size == next_size_over(input.size).size
        i    == Found(size)
    IN  /\ i > 7 /\ i % 3 = 2 =>
             /\ size > 2 * prime_list[i - 3]
             /\ \A n \in 2 * prime_list[i - 3] + 1..size - 1 : ~IsPrime(n)
        /\ input.size > 100 => (size \div 100) * 76 <= input.size
=============================================================================
