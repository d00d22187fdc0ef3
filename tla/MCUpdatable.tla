---------------------------- MODULE MCUpdatable -----------------------------
(***************************************************************************)
(* Updatable for TLC.  The row added at a timestamp is the timestamp, so   *)
(* that no two rows are alike and a wrong row never looks right.           *)
(***************************************************************************)
EXTENDS Updatable

MCRowAdded == [t \in 0..(MaxTime - 1) |-> t]
=============================================================================
