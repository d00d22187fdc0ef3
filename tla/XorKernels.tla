---------------------------- MODULE XorKernels ----------------------------
(***************************************************************************)
(* The vector kernels of psetggm/xor.cpp, in the build with 32-byte        *)
(* vectors and in the one with 16-byte vectors: which bytes they XOR into  *)
(* which, when the length of a row is no multiple of a vector.             *)
(*                                                                         *)
(* A byte of the database is known by its address; a byte of the output is *)
(* the set of addresses whose bytes are XORed in it, so that one run       *)
(* stands for every content.  What an output held before the call is known *)
(* by a negative number.  A step is one row.                               *)
(***************************************************************************)
EXTENDS Integers, Sequences, FiniteSets

CONSTANTS
  VecSizes,   \* bytes of a vector register in the builds looked at
  RowLens,    \* row lengths
  NumRows,    \* rows of the database
  MaxElems,   \* bound: rows named in one call
  HashRows,   \* numbers of rows for the bit-vector kernel
  BitBytes    \* bytes of a bit vector, each as the set of its one bits

KernelAssumption ==
  /\ VecSizes \subseteq {16, 32}
  /\ RowLens \subseteq Nat \ {0}
  /\ NumRows \in Nat \ {0}
  /\ MaxElems \in Nat
  /\ HashRows \subseteq Nat

VARIABLES
  w,      \* bytes of a vector
  len,    \* block_len, elem_size
  call,   \* the call in progress: kernel, arguments, phase and loop index
  out,    \* bytes of the output
  acc,    \* bytes of the accumulators out128, out64, out32, out16 and out8
  wild    \* TRUE once a byte outside the caller's arrays was read or written

vars == <<w, len, call, out, acc, wild>>

-----------------------------------------------------------------------------
Xor(a, b) == (a \ b) \cup (b \ a)

db_len == NumRows * len

\* out[k] ^= block[k] for k in S, with out at byte to of o and block at the address at.
Xored(o, to, S, at) ==
  [k \in DOMAIN o |-> IF k - to \in S THEN Xor(o[k], {at + (k - to)}) ELSE o[k]]

\* Does a loop over the bytes S of a row leave the database, or the output?
ReadsOutside(S, at)  == \E k \in S : at + k \notin 0..db_len - 1
WritesOutside(S, to) == \E k \in S : to + k \notin DOMAIN out

Zeroed(n) == [k \in 0..n - 1 |-> {}]
Held(n)   == [k \in 0..n - 1 |-> {-1 - k}]

\* Mutant: what is left of a row is taken as a vector as well.
VectorsRoundedUp == (len + w - 1) \div w

\* Iterations of the vector loop of a row, and the bytes they access.
Vectors     == len \div w
VectorBytes == UNION {b * w..b * w + w - 1 : b \in 0..Vectors - 1}

\* The bytes xor_tail_bytes accesses.
vec_bytes == (len \div w) * w
RestBytes == vec_bytes..len - 1

\* The row at an address into byte to of o: vectors, then xor_tail_bytes.
RowInto(o, to, at) == Xored(Xored(o, to, VectorBytes, at), to, RestBytes, at)

RowOutside(to, at) ==
  LET S == VectorBytes \cup RestBytes IN ReadsOutside(S, at) \/ WritesOutside(S, to)

-----------------------------------------------------------------------------
Idle == [kernel |-> "none", args |-> <<>>, phase |-> "none", i |-> 0]

Init ==
  /\ w \in VecSizes
  /\ len \in RowLens
  /\ call = Idle
  /\ out = <<>> /\ acc = <<>>
  /\ wild = FALSE

Start(kernel, args, phase, o) ==
  /\ call = Idle
  /\ call' = [kernel |-> kernel, args |-> args, phase |-> phase, i |-> 0]
  /\ out' = o
  /\ UNCHANGED <<w, len, acc, wild>>

\* The caller takes the output.
Return ==
  /\ call.phase = "done"
  /\ call' = Idle /\ out' = <<>> /\ acc' = <<>>
  /\ UNCHANGED <<w, len, wild>>

Stepped(last) == [call EXCEPT !.i = @ + 1, !.phase = IF call.i + 1 = last THEN "done" ELSE @]

xor_into(row) == Start("into", <<row * len>>, "row", Held(len))

xor_all_rows == Start("all", [k \in 1..NumRows |-> (k - 1) * len], "row", Zeroed(len))

\* The row loop of both kernels.
RowStep ==
  /\ call.phase = "row"
  /\ out' = RowInto(out, 0, call.args[call.i + 1])
  /\ wild' = (wild \/ RowOutside(0, call.args[call.i + 1]))
  /\ call' = Stepped(Len(call.args))
  /\ UNCHANGED <<w, len, acc>>

-----------------------------------------------------------------------------
xor_rows(rows) == Start("rows", [k \in DOMAIN rows |-> rows[k] * len], "vector", Zeroed(len))

\* The row of an element of a shifted set.
Shifted(elem, shift) == (elem + shift) % NumRows

\* FastAnswer: the elements of a punctured set, shifted within the universe.
answer(elems, shift) ==
  Start("rows", [k \in DOMAIN elems |-> Shifted(elems[k], shift) * len], "vector", Zeroed(len))

\* The guard of the vector loop.
Skips(at) == at > db_len - len

Elem == call.args[call.i + 1]

RowsVector ==
  /\ call.phase = "vector"
  /\ out' = IF Skips(Elem) THEN out ELSE Xored(out, 0, VectorBytes, Elem)
  /\ wild' = \/ wild
             \/ ~Skips(Elem) /\ (ReadsOutside(VectorBytes, Elem) \/ WritesOutside(VectorBytes, 0))
  /\ IF call.i + 1 < Len(call.args)
     THEN call' = Stepped(0) /\ acc' = acc
     ELSE IF len % w = 0
     THEN call' = [call EXCEPT !.phase = "done"] /\ acc' = acc
     ELSE /\ call' = [call EXCEPT !.phase = "tail", !.i = 0]
          /\ acc' = Zeroed(len)
  /\ UNCHANGED <<w, len>>

\* Bytes of the accumulators, and which of them a length needs.
Pieces  == {p \in {16, 8, 4, 2, 1} : p < w}
Used(p) == len % (2 * p) >= p

\* Mutant: the pieces are laid from the end.
OffFromEnd(p) == len - p

Off(p) == len - (len % (2 * p))

\* Bytes of a row that an accumulator takes.
TailBytes == UNION {Off(p)..Off(p) + p - 1 : p \in {q \in Pieces : Used(q)}}

\* The tail loop has a guard of its own.
RowsTail ==
  /\ call.phase = "tail"
  /\ LET skips == Elem > db_len
     IN  /\ acc' = IF skips THEN acc
                   ELSE [k \in DOMAIN acc |-> IF k \in TailBytes THEN Xor(acc[k], {Elem + k}) ELSE acc[k]]
         /\ wild' = (wild \/ (~skips /\ ReadsOutside(TailBytes, Elem)))
  /\ call' = IF call.i + 1 < Len(call.args) THEN Stepped(0) ELSE [call EXCEPT !.phase = "flush"]
  /\ UNCHANGED <<w, len, out>>

RowsFlush ==
  /\ call.phase = "flush"
  /\ out' = [k \in DOMAIN out |-> IF k \in TailBytes THEN acc[k] ELSE out[k]]
  /\ wild' = (wild \/ WritesOutside(TailBytes, 0))
  /\ call' = [call EXCEPT !.phase = "done"]
  /\ UNCHANGED <<w, len, acc>>

-----------------------------------------------------------------------------
\* parities holds one row for each position of a permutation.
xor_single_pass(inverse_perm) == Start("pass", inverse_perm, "pass", Held(NumRows * len))

Target(inverse_perm, i) == inverse_perm[i + 1]

PassStep ==
  /\ call.phase = "pass"
  /\ LET to == Target(call.args, call.i) * len
         at == call.i * len
     IN  /\ out' = RowInto(out, to, at)
         /\ wild' = (wild \/ RowOutside(to, at))
  /\ call' = Stepped(NumRows)
  /\ UNCHANGED <<w, len, acc>>

-----------------------------------------------------------------------------
\* Rows of 32 bytes picked by a bit vector, in eight pairs of accumulators: the
\* second of a pair is what counts, the first takes what a zero bit discards.  An
\* accumulator is the set of rows in it; both halves of a row go the same way.
xor_hashes_by_bit_vector(n, indexing) ==
  /\ call = Idle /\ len = 32
  /\ call' = [kernel |-> "hash", args |-> [n |-> n, bits |-> indexing], phase |-> "batch", i |-> 0]
  /\ acc' = [k \in 0..7 |-> [b \in 0..1 |-> {}]]
  /\ out' = <<>>
  /\ UNCHANGED <<w, len, wild>>

\* The bit of row i, as an index of the pair.
BitOf(i) == IF i % 8 \in call.args.bits[i \div 8 + 1] THEN 1 ELSE 0

Accumulated(a, i) == [a EXCEPT ![i % 8][BitOf(i)] = Xor(a[i % 8][1], {i})]

\* The registers of a row, one or two, and the bytes they are loaded from.
Registers(i)    == (32 \div w) * i..(32 \div w) * i + (32 \div w) - 1
RegisterBytes(i) == UNION {v * w..v * w + w - 1 : v \in Registers(i)}

\* Does the statement for row i leave the rows, or the bit vector?
HashOutside(i) ==
  \/ \E k \in RegisterBytes(i) : k \notin 0..32 * call.args.n - 1
  \/ i \div 8 + 1 \notin DOMAIN call.args.bits

\* Rows in whole groups of eight.
len_full_bytes == (call.args.n \div 8) * 8

\* The statements for the eight rows of a group are independent.
HashBatch ==
  /\ call.phase = "batch"
  /\ IF call.i < len_full_bytes
     THEN /\ acc' = [k \in 0..7 |-> Accumulated(acc, call.i + k)[k]]
          /\ wild' = (wild \/ \E k \in 0..7 : HashOutside(call.i + k))
          /\ call' = [call EXCEPT !.i = @ + 8]
     ELSE call' = [call EXCEPT !.phase = "rest"] /\ UNCHANGED <<acc, wild>>
  /\ UNCHANGED <<w, len, out>>

HashRest ==
  /\ call.phase = "rest"
  /\ IF call.i < call.args.n
     THEN /\ acc' = Accumulated(acc, call.i)
          /\ wild' = (wild \/ HashOutside(call.i))
          /\ call' = [call EXCEPT !.i = @ + 1]
          /\ out' = out
     ELSE /\ out' = UNION {acc[k][1] : k \in 0..7}
          /\ call' = [call EXCEPT !.phase = "done"]
          /\ UNCHANGED <<acc, wild>>
  /\ UNCHANGED <<w, len>>

-----------------------------------------------------------------------------
Rows  == 0..NumRows - 1
Perms == {p \in [1..NumRows -> Rows] : \A a, b \in 1..NumRows : p[a] = p[b] => a = b}

Next ==
  \/ \E r \in Rows : xor_into(r)
  \/ xor_all_rows
  \/ RowStep
  \/ \E n \in 1..MaxElems : \E rows \in [1..n -> Rows] : xor_rows(rows)
  \/ \E n \in 1..MaxElems : \E es \in [1..n -> Rows] : \E s \in Rows : answer(es, s)
  \/ RowsVector \/ RowsTail \/ RowsFlush
  \/ \E p \in Perms : xor_single_pass(p)
  \/ PassStep
  \/ \E n \in HashRows : \E v \in [1..(n + 7) \div 8 -> BitBytes] : xor_hashes_by_bit_vector(n, v)
  \/ HashBatch \/ HashRest
  \/ Return

Spec == Init /\ [][Next]_vars

-----------------------------------------------------------------------------
Done(kernel) == call.kernel = kernel /\ call.phase = "done"

\* Byte k of the rows named an odd number of times in the arguments.
XorOfRows(k) ==
  {a * len + k : a \in {r \in Rows : Cardinality({j \in DOMAIN call.args : call.args[j] = r * len}) % 2 = 1}}

\* Every byte of the result is the XOR of that byte of the rows asked for, each as
\* often as it is named, for every row length: the vector loop and the
\* accumulators cover each byte exactly once (xor_rows, answer).
RowsExact == Done("rows") => \A k \in 0..len - 1 : out[k] = XorOfRows(k)

\* A row XORed into an output changes every byte of it and keeps what was there; all
\* rows together give the parity of the database (xor_into, xor_all_rows).
WholeRowsExact ==
  /\ Done("into") => \A k \in 0..len - 1 : out[k] = {-1 - k, call.args[1] + k}
  /\ Done("all") => \A k \in 0..len - 1 : out[k] = {r * len + k : r \in Rows}

\* Parity j takes exactly the row that the permutation has at j, and a pass leaves no
\* byte of a parity out (xor_single_pass).
PassExact ==
  Done("pass") =>
    \A i \in Rows : \A k \in 0..len - 1 :
      LET at == call.args[i + 1] * len + k IN out[at] = {-1 - at, i * len + k}

\* The bit-vector kernel returns the XOR of exactly the rows whose bit is set, also
\* those after the last whole group of eight (xor_hashes_by_bit_vector).
HashExact == Done("hash") => out = {r \in 0..call.args.n - 1 : BitOf(r) = 1}

\* For offsets of rows, no vector, piece of a tail or single byte that a kernel loads or
\* stores lies outside the database, the bit vector, the output or the parities,
\* although each kernel computes its offsets for itself and the two loops of xor_rows
\* have different guards (xor_into to xor_hashes_by_bit_vector).
RowsInside == ~wild
=============================================================================
