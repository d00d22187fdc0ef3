-------------------------- MODULE SinglePassAnswer --------------------------
(***************************************************************************)
(* The server side of a SinglePass hint, psetggm/answer.cpp over           *)
(* permute.cpp: for every block of the database a Fisher-Yates             *)
(* permutation, its inverse, and the rows of the block XORed into the      *)
(* parities where the permutation puts them.                               *)
(*                                                                         *)
(* net/rpc serves hint requests on several threads.  Their arrays are      *)
(* their own; the bytes a draw is made of go through one global buffer.    *)
(***************************************************************************)
EXTENDS Integers, Sequences, FiniteSets

CONSTANTS
  Threads,   \* threads with a hint request
  NumRows,   \* db_num_elems
  SetSize,   \* set_num_elems: number of blocks
  DrawValues \* values a draw can have, 2^32 in the code

AnswerAssumption ==
  /\ SetSize \in Nat \ {0} /\ NumRows \in Nat /\ NumRows >= SetSize
  /\ DrawValues \in Nat \ {0}
  /\ NumRows \div SetSize <= DrawValues   \* a size is a number like a draw

VARIABLES
  buf,  \* the global buffer, as the number its bytes stand for
  th    \* state of each thread

vars == <<buf, th>>

perm_size == NumRows \div SetSize
Cells     == 0..perm_size - 1
Blocks    == 0..SetSize - 1
Draws     == 0..DrawValues - 1

-----------------------------------------------------------------------------
\* A draw reduced below N.
fastMod(x, N) == (x * N) \div DrawValues

Xor(a, b) == (a \ b) \cup (b \ a)

Identity == [c \in Cells |-> c]

Swapped(a, x, y) == [a EXCEPT ![x] = a[y], ![y] = a[x]]

-----------------------------------------------------------------------------
\* A request before its first block.  A parity is the set of rows in it; js is the
\* history of the draws of a block.
Fresh ==
  [pc |-> "permute", blk |-> 0, i |-> 0, js |-> <<>>,
   perm |-> [b \in Blocks |-> Identity], inv |-> [b \in Blocks |-> Identity],
   par |-> [c \in Cells |-> {}]]

Init == buf \in Draws /\ th = [t \in Threads |-> Fresh]

\* Where a loop over the permutation goes on: with a draw or with the inverse.
LoopAt(i) == IF i > 0 THEN "draw" ELSE "invert"

permute(t) ==
  /\ th[t].pc = "permute"
  /\ th' = [th EXCEPT ![t].perm[th[t].blk] = Identity,
                      ![t].i = perm_size - 1,
                      ![t].js = <<>>,
                      ![t].pc = LoopAt(perm_size - 1)]
  /\ UNCHANGED buf

\* RAND_bytes writes the buffer, or fails and leaves it: its result is not looked at.
RandBytes(t) ==
  /\ th[t].pc = "draw"
  /\ buf' \in Draws
  /\ th' = [th EXCEPT ![t].pc = "swap"]

\* Mutant: a cell is swapped with any other, fixed or not.
BoundWhole(i) == perm_size

\* Values a draw for cell i is taken from.
Bound(i) == i + 1

\* The draw is read back from the buffer, whoever wrote it last.
Swap(t) ==
  /\ th[t].pc = "swap"
  /\ LET i == th[t].i
         j == fastMod(buf, Bound(i))
     IN  th' = [th EXCEPT ![t].perm[th[t].blk] = Swapped(@, i, j),
                          ![t].js = Append(@, j),
                          ![t].i = i - 1,
                          ![t].pc = LoopAt(i - 1)]
  /\ UNCHANGED buf

\* inv_array[perm_array[i]] = i
invert_permutation(t) ==
  /\ th[t].pc = "invert"
  /\ LET p == th[t].perm[th[t].blk]
     IN  th' = [th EXCEPT ![t].inv[th[t].blk] = [c \in Cells |-> CHOOSE i \in Cells : p[i] = c],
                          ![t].pc = "xor"]
  /\ UNCHANGED buf

\* Mutant: every block is read from the start of the database.
RowAtStart(blk, c) == c

\* Row c of a block of the database.
RowAt(blk, c) == blk * perm_size + c

\* Row i of the block goes into the parity inverse[i]; then the next block.
xor_single_pass(t) ==
  /\ th[t].pc = "xor"
  /\ LET s == th[t]
     IN  th' = [th EXCEPT
           ![t].par = [c \in Cells |->
              Xor(s.par[c], {RowAt(s.blk, i) : i \in {r \in Cells : s.inv[s.blk][r] = c}})],
           ![t].blk = s.blk + 1,
           ![t].pc = IF s.blk + 1 = SetSize THEN "done" ELSE "permute"]
  /\ UNCHANGED buf

\* The response is sent and the thread takes the next request.
Answered(t) ==
  /\ th[t].pc = "done"
  /\ th' = [th EXCEPT ![t] = Fresh]
  /\ UNCHANGED buf

Step(t) ==
  \/ permute(t) \/ RandBytes(t) \/ Swap(t) \/ invert_permutation(t)
  \/ xor_single_pass(t) \/ Answered(t)

Next == \E t \in Threads : Step(t)

Spec == Init /\ [][Next]_vars

-----------------------------------------------------------------------------
Bijective(p) == {p[c] : c \in Cells} = Cells

\* Whatever bytes a draw is made of, another thread's included, every array is a
\* permutation after every swap, and the inverse of a finished block undoes it
\* (permute, invert_permutation).
ArraysArePermutations ==
  \A t \in Threads : \A b \in Blocks :
    LET s == th[t] IN
      /\ Bijective(s.perm[b])
      /\ b < s.blk => \A c \in Cells : s.inv[b][s.perm[b][c]] = c

\* The draws that make the permutation p: what a cell ends with tells where it was
\* taken from.
DrawsOf(p) ==
  LET Before[i \in Cells] ==   \* the array before the swap of cell i
        IF i = perm_size - 1 THEN Identity
        ELSE Swapped(Before[i + 1], i + 1, CHOOSE c \in Cells : Before[i + 1][c] = p[i + 1])
  IN  [k \in 1..perm_size - 1 |->
         LET i == perm_size - k IN CHOOSE c \in Cells : Before[i][c] = p[i]]

\* A permutation comes from one sequence of draws only, so that uniform draws make
\* it uniform; and every draw is one of the cells not yet fixed (permute).
OneWayToEach ==
  \A t \in Threads : th[t].pc = "invert" =>
    /\ th[t].js = DrawsOf(th[t].perm[th[t].blk])
    /\ \A k \in DOMAIN th[t].js : th[t].js[k] \in 0..perm_size - k

\* A draw is one of the cells not yet fixed, and each of them is drawn as often as
\* the others up to one draw in DrawValues (fastMod, getRandIntModN).
DrawsAreFair ==
  \A t \in Threads : th[t].pc = "swap" =>
    LET i     == th[t].i
        Of(j) == Cardinality({x \in Draws : fastMod(x, Bound(i)) = j})
    IN  /\ \A j, k \in 0..i : Of(j) > 0 /\ Of(j) - Of(k) \in -1..1
        /\ \A x \in Draws : fastMod(x, Bound(i)) \in 0..i

\* When the request is answered, parity c is the XOR of the row that the permutation
\* of each block has at c, which is what the client takes the hints to be
\* (answer_single_pass).
HintsAreParities ==
  \A t \in Threads : th[t].pc = "done" =>
    \A c \in Cells : th[t].par[c] = {b * perm_size + th[t].perm[b][c] : b \in Blocks}
=============================================================================
