------------------------------ MODULE PIRStore ------------------------------
(***************************************************************************)
(* What a PIR reader promises its caller: an array of rows that can be     *)
(* read, rewritten and extended with zero rows.  A read asks for an index  *)
(* and either delivers the row that is in the array, or is abandoned and   *)
(* leaves no trace.  The rows do not change under a read.                  *)
(***************************************************************************)
EXTENDS Integers

CONSTANTS N, Row, ZeroRow

VARIABLES
  rows,   \* the array
  asked,  \* the index being read, -1 if none
  result  \* the row delivered, until the next call

vars == <<rows, asked, result>>

NotAsked == -1

NoResult == [idx |-> NotAsked, row |-> ZeroRow]

Init ==
  /\ rows \in [0..N-1 -> Row]
  /\ asked = NotAsked
  /\ result = NoResult

WriteRow ==
  /\ asked = NotAsked
  /\ \E i \in DOMAIN rows : \E r \in Row : rows' = [rows EXCEPT ![i] = r]
  /\ result' = NoResult
  /\ UNCHANGED asked

Extend ==
  /\ asked = NotAsked
  /\ DOMAIN rows \subseteq DOMAIN rows'
  /\ \A i \in DOMAIN rows' :
       rows'[i] = IF i \in DOMAIN rows THEN rows[i] ELSE ZeroRow
  /\ result' = NoResult
  /\ UNCHANGED asked

Ask ==
  /\ asked = NotAsked
  /\ asked' \in DOMAIN rows
  /\ result' = NoResult
  /\ UNCHANGED rows

Deliver ==
  /\ asked # NotAsked
  /\ result' = [idx |-> asked, row |-> rows[asked]]
  /\ asked' = NotAsked
  /\ UNCHANGED rows

Abandon ==
  /\ asked # NotAsked
  /\ asked' = NotAsked
  /\ UNCHANGED <<rows, result>>

\* A call that neither reads nor writes a row begins.
Forget ==
  /\ asked = NotAsked
  /\ result' = NoResult
  /\ UNCHANGED <<rows, asked>>

Next == WriteRow \/ Extend \/ Ask \/ Deliver \/ Abandon \/ Forget

Spec == Init /\ [][Next]_vars
=============================================================================
