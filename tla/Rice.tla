-------------------------------- MODULE Rice --------------------------------
(***************************************************************************)
(* The Golomb-Rice coder of updatable/rice.go, by which a server sends the *)
(* keys of a run of operations that is sorted: EncodeRiceIntegers value by *)
(* value, then DecodeRiceIntegers.  Words have Width bits instead of 32.   *)
(* A key may come several times, when operations are on the same key.      *)
(***************************************************************************)
EXTENDS Integers, Sequences, SequencesExt, FiniteSetsExt

CONSTANTS
  Width,      \* bits of a word
  Lengths     \* numbers of keys

RiceAssumption == Width \in Nat \ {0} /\ Lengths \subseteq Nat \ {0}

VARIABLES
  keys,   \* values given to EncodeRiceIntegers
  buf,    \* bitWriter.buf, then bitReader.buf from its mask on, as bits
  out,    \* values of DecodeRiceIntegers
  pc      \* what is done next

vars == <<keys, buf, out, pc>>

Words    == 0..2^Width - 1
ByteBits == 8

\* 2^e of a word, 0 if that is outside it.
Pow(e) == IF e < Width THEN 2^e ELSE 0

\* A negative word wraps around.
Wrap(n) == n % 2^Width

-----------------------------------------------------------------------------
\* The logarithm of a quotient, truncated toward zero.
Log2(a, b) ==
  IF a >= b THEN Max({e \in 0..Width : 2^e * b <= a})
  ELSE -Max({e \in 0..Width : 2^e * a <= b})

\* The field of the message, which stays 0 for one value.
RiceParameter(values) ==
  LET valRange == Last(values) - values[1]
  IN  IF Len(values) = 1 THEN 0
      ELSE IF valRange = 0 THEN 1 ELSE Log2(valRange, Len(values))

\* The parameter as the encoder has it.
K(values) == Wrap(RiceParameter(values))

Quotient(v, k) == IF k < Width THEN v \div 2^k ELSE 0

\* Bits that Write adds, the least significant first.
Written(v, n) == [i \in 1..n |-> IF i <= Width THEN (v \div 2^(i - 1)) % 2 ELSE 0]

\* Mutant: no bit ends the quotient.
CodeOfUnended(v, k) ==
  LET q == Quotient(v, k) IN Written(Wrap(Pow(q) - 1), q) \o Written(v - q * Pow(k), k)

\* WriteValue: the quotient in ones that a zero ends, then the remainder.
CodeOf(v, k) ==
  LET q == Quotient(v, k)
      r == IF k < Width THEN v % 2^k ELSE v
  IN  Written(Wrap(Pow(q) - 1), q + 1) \o Written(r, k)

\* Bytes are added whole.
Padded(bits) == bits \o [i \in 1..((-Len(bits)) % ByteBits) |-> 0]

-----------------------------------------------------------------------------
Init ==
  /\ keys \in UNION {{s \in [1..n -> Words] : \A i \in 1..n - 1 : s[i] <= s[i + 1]} : n \in Lengths}
  /\ buf = <<>>
  /\ out = <<>>
  /\ pc = [at |-> "write", i |-> 1]

WriteValue ==
  /\ pc.at = "write" /\ pc.i < Len(keys)
  /\ buf' = buf \o CodeOf(keys[pc.i + 1] - keys[pc.i], K(keys))
  /\ pc' = [pc EXCEPT !.i = @ + 1]
  /\ UNCHANGED <<keys, out>>

\* The message arrives at the client.
DecodeRiceIntegers ==
  /\ pc.at = "write" /\ pc.i = Len(keys)
  /\ IF RiceParameter(keys) \in 0..Width
     THEN pc' = [at |-> "read", i |-> 1] /\ buf' = Padded(buf) /\ out' = <<keys[1]>>
     ELSE pc' = [at |-> "rejected", i |-> 0] /\ UNCHANGED <<buf, out>>
  /\ UNCHANGED keys

\* The number in the first n bits.
ReadBits(bits, n) == FoldLeftDomain(LAMBDA v, i : v + bits[i] * 2^(i - 1), 0, SubSeq(bits, 1, n))

ReadValue ==
  LET k == RiceParameter(keys)
      zeros == {p \in 1..Len(buf) : buf[p] = 0}
      q == Min(zeros) - 1
  IN
  /\ pc.at = "read" /\ pc.i < Len(keys)
  /\ IF zeros = {} \/ q + 1 + k > Len(buf)
     THEN pc' = [at |-> "rejected", i |-> 0] /\ UNCHANGED <<buf, out>>
     ELSE LET delta == Wrap(q * Pow(k) + ReadBits(SubSeq(buf, q + 2, Len(buf)), k))
          IN  /\ out' = Append(out, Wrap(Last(out) + delta))
              /\ buf' = SubSeq(buf, q + 2 + k, Len(buf))
              /\ pc' = [pc EXCEPT !.i = @ + 1]
  /\ UNCHANGED keys

Finish ==
  /\ pc.at = "read" /\ pc.i = Len(keys)
  /\ pc' = [at |-> IF Len(buf) >= ByteBits THEN "rejected" ELSE "decoded", i |-> 0]
  /\ UNCHANGED <<keys, buf, out>>

Next == WriteValue \/ DecodeRiceIntegers \/ ReadValue \/ Finish

Spec == Init /\ [][Next]_vars

-----------------------------------------------------------------------------
\* The client has the keys again exactly if the parameter is not negative, that is if
\* the range is more than half the number of keys, and no quotient is longer than a
\* word: the encoder checks neither (EncodeRiceIntegers, DecodeRiceIntegers).
RoundTrips ==
  LET Fits == \A i \in 1..Len(keys) - 1 : Quotient(keys[i + 1] - keys[i], K(keys)) <= Width
  IN  pc.at \in {"decoded", "rejected"} =>
        ((pc.at = "decoded" /\ out = keys) <=> (RiceParameter(keys) >= 0 /\ Fits))

\* Until a quotient is longer than a word, a client that has not rejected the message has
\* read a prefix of the keys (ReadValue).
ReadsPrefix ==
  (/\ pc.at \in {"read", "decoded"}
   /\ \A i \in 1..Len(out) - 1 : Quotient(keys[i + 1] - keys[i], K(keys)) <= Width) => IsPrefix(out, keys)
=============================================================================
