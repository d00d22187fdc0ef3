------------------------------- MODULE Places -------------------------------
(***************************************************************************)
(* Subsequences: what a loop over a sequence leaves that appends the       *)
(* elements it wants to a new one.                                         *)
(***************************************************************************)
EXTENDS Integers, Sequences, FiniteSets

\* How many of the numbers in S are up to i.
Rank(S, i) == Cardinality({j \in S : j <= i})

\* The numbers in S, from the smallest up.
InOrder(S) == [p \in 1..Cardinality(S) |-> CHOOSE i \in S : Rank(S, i) = p]

\* The elements of seq at the places in S, in their order.
Picked(seq, S) == [p \in 1..Cardinality(S) |-> seq[InOrder(S)[p]]]
=============================================================================
