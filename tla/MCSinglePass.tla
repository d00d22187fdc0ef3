---------------------------- MODULE MCSinglePass ----------------------------
(***************************************************************************)
(* SinglePass for TLC.  Every first row is a bit of its own, and the one   *)
(* row a caller writes is another bit.  A wrong family of rows then has    *)
(* another XOR than the right one, unless the two differ only in rows that *)
(* hold the written row, an even number of them, or the zeros of a         *)
(* reserve.                                                                *)
(***************************************************************************)
EXTENDS SinglePass

MCFirstRows == [i \in 0..N-1 |-> {i}]
OneNewRow   == {{N}}
=============================================================================
