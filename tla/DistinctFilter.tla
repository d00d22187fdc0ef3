--------------------------- MODULE DistinctFilter ---------------------------
(***************************************************************************)
(* The test of psetggm/pset_ggm.cpp that a generated set has no element    *)
(* twice: a hash table with open addressing in the scratch half of the     *)
(* generator's workspace, one step per probe.  SetGenerator.gen of pset.go *)
(* draws seeds until the test passes.                                      *)
(***************************************************************************)
EXTENDS Integers, Sequences

CONSTANTS
  Universe,  \* elements a set is made of, some of them with equal hashes
  Sizes      \* numbers of elements

\* The size of the table is an int.
DistinctAssumption == Universe \subseteq Nat /\ Sizes \subseteq 1..2^28

VARIABLES
  elems,  \* argument of the call
  table,  \* the hash table; 0 marks a free slot
  i,      \* elements stored so far
  ptr,    \* slot looked at
  out     \* "run" during a call, then what it returns

vars == <<elems, table, i, ptr, out>>

num_elems == Len(elems)

-----------------------------------------------------------------------------
\* Smallest power of two that is at least v.
round_to_power_of_2(v) ==
  CHOOSE p \in {2^k : k \in 0..30} : v <= p /\ p < 2 * v

\* Mutant: no room for more elements than the table has slots.
TableSizeTight(n) == IF n < 3 THEN 4 ELSE 2

TableSize(n) == round_to_power_of_2(n * 4)

\* Words of the scratch half: four for each of the 2^get_height(n) blocks.
TmpWords(n) == 4 * (IF n = 1 THEN 2 ELSE round_to_power_of_2(n))

fasthash(elem, range) == elem % range

Cleared(n) == [s \in 0..TableSize(n) - 1 |-> 0]

-----------------------------------------------------------------------------
Init ==
  /\ elems = <<>> /\ table = <<>> /\ i = 0 /\ ptr = 0
  /\ out = "none"

distinct(es) ==
  /\ out # "run"
  /\ elems' = es
  /\ table' = Cleared(Len(es))
  /\ i' = 0
  /\ ptr' = fasthash(es[1], TableSize(Len(es)))
  /\ out' = "run"

val == table[ptr]
e   == elems[i + 1]

\* A slot that holds nothing, or the element 0.
Free == val = 0

Store ==
  /\ out = "run" /\ Free
  /\ table' = [table EXCEPT ![ptr] = e]
  /\ i' = i + 1
  /\ IF i' = num_elems
     THEN out' = "distinct" /\ ptr' = ptr
     ELSE ptr' = fasthash(elems[i' + 1], TableSize(num_elems)) /\ out' = out
  /\ UNCHANGED elems

Same == val = e

Found ==
  /\ out = "run" /\ ~Free /\ Same
  /\ out' = "repeated"
  /\ UNCHANGED <<elems, table, i, ptr>>

\* Mutant: the walk does not go round the end of the table.
AfterUnwrapped(p) == p + 1

\* The slot after p, the first one after the last.
After(p) == IF p + 1 >= TableSize(num_elems) THEN 0 ELSE p + 1

Collide ==
  /\ out = "run" /\ ~Free /\ ~Same
  /\ ptr' = After(ptr)
  /\ UNCHANGED <<elems, table, i, out>>

Walk == Store \/ Found \/ Collide

Next == Walk \/ \E n \in Sizes : \E es \in [1..n -> Universe] : distinct(es)

\* A call runs until it returns; nothing makes a caller call again.
Spec == Init /\ [][Next]_vars /\ WF_vars(Walk)

-----------------------------------------------------------------------------
Twice(x) == \E a, b \in 1..num_elems : a # b /\ elems[a] = x /\ elems[b] = x

\* A set of different elements is never rejected (distinct).
NoFalseAlarm == out = "repeated" => \E x \in Universe : Twice(x)

\* A set that passes has no element twice, except perhaps 0, whatever slots the
\* elements share (distinct).
PassedIsDistinct == out = "distinct" => \A x \in Universe \ {0} : ~Twice(x)

\* Slots a walk from the hash of x visits before slot s.
Before(x, s) ==
  LET size == TableSize(num_elems)
      h    == fasthash(x, size)
  IN  {(h + k) % size : k \in 0..(s - h) % size} \ {s}

\* Every element stored so far is found again by a walk from its hash, over slots
\* that hold something; and the table lies in the scratch half of the workspace
\* (distinct).
WalksReach ==
  out # "none" =>
    /\ ptr \in DOMAIN table
    /\ TableSize(num_elems) <= TmpWords(num_elems)
    /\ \A k \in 1..i : elems[k] # 0 =>
         \E s \in DOMAIN table :
           table[s] = elems[k] /\ \A t \in Before(elems[k], s) : table[t] # 0

\* Every call returns: the table keeps a free slot for the walk to end at
\* (distinct).
CallReturns == (out = "run") ~> (out # "run")

\* What test_distinct.cpp counts disagreements with: the test fails exactly when
\* an element occurs twice (distinct_lin_space).
AgreesWithLinearSpace ==
  out \in {"distinct", "repeated"} => (out = "repeated" <=> \E x \in Universe : Twice(x))
=============================================================================
