------------------------------ MODULE XorRows ------------------------------
(***************************************************************************)
(* Rows and their XOR.                                                     *)
(*                                                                         *)
(* A row of the database, and a hint, is a byte string of one fixed length *)
(* (pir/static_db.go RowLen).  It is modelled exactly, as the set of the   *)
(* positions of its one bits: XOR is then symmetric difference, the zero   *)
(* row is {} and the XOR of a family of rows holds the bits that an odd    *)
(* number of them hold.                                                    *)
(***************************************************************************)
EXTENDS Integers, FiniteSets

CONSTANT Bits  \* the bit positions of a row, RowLen * 8 of them

Row == SUBSET Bits

\* The row make([]byte, RowLen) and ExtendDb create.
ZeroRow == {}

\* xor_into / FastXorInto / xorInto: a ^= b.
Xor(a, b) == (a \ b) \cup (b \ a)

Odd(S) == Cardinality(S) % 2 = 1

\* xor_all_rows / XorBlocksTogether: the XOR of the rows f[j], j \in J.
XorAll(J, f) == {b \in Bits : Odd({j \in J : b \in f[j]})}
=============================================================================
