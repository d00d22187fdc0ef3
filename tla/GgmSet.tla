------------------------------- MODULE GgmSet -------------------------------
(***************************************************************************)
(* The puncturable sets of psetggm/pset_ggm.cpp: a set is the leaves of a  *)
(* GGM tree under a seed; punctured at a position, it is the keys beside   *)
(* the path to that leaf, from which every other leaf can be derived.      *)
(*                                                                         *)
(* The three functions that walk the tree share the workspace of their     *)
(* generator.  It starts uninitialised, and each call finds what the last  *)
(* one left there.  A step of the model is one layer of the tree.          *)
(*                                                                         *)
(* Keys are symbolic: a block is known by its place in the tree under its  *)
(* seed.  What the code derives from an uninitialised or a punctured block *)
(* is Garbage.                                                             *)
(***************************************************************************)
EXTENDS Integers, Sequences, FiniteSets

CONSTANTS
  SetSizes,    \* set sizes a generator may be made for
  Seeds,       \* seeds given to pset_ggm_eval and pset_ggm_punc
  UnivSize,    \* univ_size
  Width,       \* bits of a word, 32 in the code
  Word(_, _)   \* Word(path, j): the j-th word of the block at path

\* The bytes of a workspace are counted in a word of 32 bits.
GgmAssumption ==
  /\ SetSizes \subseteq 1..2^26
  /\ UnivSize \in Nat \ {0}
  /\ Width \in Nat

VARIABLES
  setSize,  \* gen->set_size
  ws,       \* blocks of the workspace, gen->keys first, then gen->tmp
  call,     \* the call in progress
  pset,     \* the last punctured set: blocks written by pset_ggm_punc
  elems,    \* output of the last evaluation
  wild      \* TRUE once a block outside the arrays was accessed

vars == <<setSize, ws, call, pset, elems, wild>>

-----------------------------------------------------------------------------
\* Bits above the lowest in v - 1, and one more: 2^get_height(v) >= v.
get_height(v) ==
  1 + (CHOOSE r \in 0..31 : /\ (v - 1) \div 2^(r + 1) = 0
                            /\ r = 0 \/ (v - 1) \div 2^r # 0)

height == get_height(setSize)
Half   == 2^height          \* gen->tmp - gen->keys, in blocks

\* Sizes in bytes: of a block, of struct generator, and what workspace_size
\* adds for the alignment.
BlockBytes     == 16
GeneratorBytes == 24
workspace_size == GeneratorBytes + 2 * 2^height * BlockBytes + 32

\* Mutant: a buffer for the keys of the layers only.
pset_buffer_size_no_last == IF height < 2 THEN 1 ELSE height - 2

\* In blocks.
pset_buffer_size == IF height < 2 THEN 1 ELSE height - 1

\* Where pset_ggm_init puts gen->keys in a workspace at an address.
keysAddress(workspace) ==
  ((workspace + GeneratorBytes - 1) \div BlockBytes + 1) * BlockBytes

-----------------------------------------------------------------------------
\* A block: its place in the tree and the word pset_ggm_punc has zeroed (4: none).
Block(path) == [path |-> path, hole |-> 4]

\* A block, and an element, that depends on unset memory.
Garbage     == [path |-> <<>>, hole |-> 5]
GarbageElem == -1

\* Whether the code may expand the block to what the tree has below it.
Whole(b) == b.hole = 4

\* AES of the block, or of the block xor one, xor the input.
Child(b, bit) == IF Whole(b) THEN Block(Append(b.path, bit)) ELSE Garbage

\* The input of the right child.
XorOne(b) == IF Whole(b) THEN Block(Append(b.path, 2)) ELSE Garbage

\* The multiplication that takes a word into the universe.
Reduced(w) == (w * UnivSize) \div 2^Width

\* Element i of the leaves in blocks.
ElemAt(blocks, i) ==
  LET b == blocks[i \div 4] IN
    IF b = Garbage THEN GarbageElem
    ELSE IF b.hole = i % 4 THEN Reduced(0) ELSE Reduced(Word(b.path, i % 4))

\* The workspace after one layer: keys 0..2^depth-1 are copied to tmp, as
\* inputs of their children, and replaced by the children.
Expanded(blocks, depth) ==
  [i \in DOMAIN blocks |->
     IF i < 2^(depth + 1) THEN Child(blocks[i \div 2], i % 2)
     ELSE IF i \in Half..(Half + 2^(depth + 1) - 1)
          THEN LET n == i - Half
               IN  IF n % 2 = 0 THEN blocks[n \div 2] ELSE XorOne(blocks[n \div 2])
          ELSE blocks[i]]

-----------------------------------------------------------------------------
Idle == [op |-> "none", seed |-> 0, pos |-> 0, depth |-> 0, key |-> Garbage]

Init ==
  /\ setSize \in SetSizes
  /\ ws = [i \in 0..2 * 2^get_height(setSize) - 1 |-> Garbage]
  /\ call = Idle
  /\ pset = [op |-> "none"]
  /\ elems = [op |-> "none"]
  /\ wild = FALSE

\* Whether a layer is left: the last two of the height are the words of a block.
Layers    == IF height > 2 THEN height - 2 ELSE 0
LayerLeft == call.depth < Layers

pset_ggm_eval(seed) ==
  /\ call = Idle
  /\ call' = [Idle EXCEPT !.op = "eval", !.seed = seed]
  /\ ws' = [ws EXCEPT ![0] = Block(<<seed>>)]
  /\ UNCHANGED <<setSize, pset, elems, wild>>

EvalLayer ==
  /\ call.op = "eval" /\ LayerLeft
  /\ ws' = Expanded(ws, call.depth)
  /\ wild' = (wild \/ 2^(call.depth + 1) > Half)
  /\ call' = [call EXCEPT !.depth = @ + 1]
  /\ UNCHANGED <<setSize, pset, elems>>

EvalReturns ==
  /\ call.op = "eval" /\ ~LayerLeft
  /\ elems' = [op |-> "eval", seed |-> call.seed, pos |-> 0,
               out |-> [i \in 0..setSize - 1 |-> ElemAt(ws, i)]]
  /\ wild' = (wild \/ (setSize - 1) \div 4 >= Half)
  /\ call' = Idle
  /\ UNCHANGED <<setSize, ws, pset>>

-----------------------------------------------------------------------------
pset_ggm_punc(seed, pos) ==
  /\ call = Idle /\ pos < setSize
  /\ call' = [Idle EXCEPT !.op = "punc", !.seed = seed, !.pos = pos,
                          !.key = Block(<<seed>>)]
  /\ pset' = [op |-> "punc", seed |-> seed, pos |-> pos, keys |-> <<>>]
  /\ UNCHANGED <<setSize, ws, elems, wild>>

\* Mutant: the bits of the position are taken from the lowest.
BitAtFromBelow(pos, depth) == (pos \div 2^depth) % 2

\* The bit of pos that decides at a depth.
BitAt(pos, depth) == (pos \div 2^(height - 1 - depth)) % 2

PuncLayer ==
  /\ call.op = "punc" /\ LayerLeft
  /\ LET bit   == BitAt(call.pos, call.depth)
         child == [b \in 0..1 |-> Child(call.key, b)]
     IN  /\ ws' = [ws EXCEPT ![0] = child[0], ![1] = child[1],
                             ![Half] = call.key, ![Half + 1] = XorOne(call.key)]
         /\ pset' = [pset EXCEPT !.keys = Append(@, child[1 - bit])]
         /\ call' = [call EXCEPT !.key = child[bit], !.depth = @ + 1]
  /\ UNCHANGED <<setSize, elems, wild>>

\* The last key, less the word at the position.
PuncReturns ==
  /\ call.op = "punc" /\ ~LayerLeft
  /\ pset' = [pset EXCEPT !.keys = Append(@, [call.key EXCEPT !.hole = call.pos % 4])]
  /\ wild' = (wild \/ Len(pset'.keys) > pset_buffer_size)
  /\ call' = Idle
  /\ UNCHANGED <<setSize, ws, elems>>

-----------------------------------------------------------------------------
\* Evaluates the last punctured set; gen->keys is not initialised first.
pset_ggm_eval_punc ==
  /\ call = Idle /\ pset.op = "punc"
  /\ call' = [Idle EXCEPT !.op = "evalpunc", !.seed = pset.seed, !.pos = pset.pos]
  /\ UNCHANGED <<setSize, ws, pset, elems, wild>>

\* The sibling of the node on the path, one layer below depth.
Beside(pos, depth) ==
  LET node == pos \div 2^(height - 1 - depth)
  IN  IF node % 2 = 0 THEN node + 1 ELSE node - 1

\* One layer for every node, the one on the path included; then the key
\* beside the path replaces what was derived there.
EvalPuncLayer ==
  /\ call.op = "evalpunc" /\ LayerLeft
  /\ LET at == Beside(call.pos, call.depth)
     IN  /\ ws' = [Expanded(ws, call.depth) EXCEPT ![at] = pset.keys[call.depth + 1]]
         /\ wild' = (wild \/ 2^(call.depth + 1) > Half \/ at >= Half)
  /\ call' = [call EXCEPT !.depth = @ + 1]
  /\ UNCHANGED <<setSize, pset, elems>>

\* Position of the i-th output: the hole is left out.
Skip(pos, i) == IF i >= pos THEN i + 1 ELSE i

EvalPuncReturns ==
  /\ call.op = "evalpunc" /\ ~LayerLeft
  /\ LET at     == call.pos \div 2^(height - call.depth)
         leaves == [ws EXCEPT ![at] = pset.keys[call.depth + 1]]
     IN  /\ ws' = leaves
         /\ elems' = [op |-> "evalpunc", seed |-> call.seed, pos |-> call.pos,
                      out |-> [i \in 0..setSize - 2 |-> ElemAt(leaves, Skip(call.pos, i))]]
         /\ wild' = (wild \/ at >= Half)
  /\ call' = Idle
  /\ UNCHANGED <<setSize, pset>>

-----------------------------------------------------------------------------
Eval     == (\E s \in Seeds : pset_ggm_eval(s)) \/ EvalLayer \/ EvalReturns
Punc     == \/ \E s \in Seeds, p \in 0..setSize - 1 : pset_ggm_punc(s, p)
            \/ PuncLayer \/ PuncReturns
EvalPunc == pset_ggm_eval_punc \/ EvalPuncLayer \/ EvalPuncReturns

Next == Eval \/ Punc \/ EvalPunc

Spec == Init /\ [][Next]_vars

-----------------------------------------------------------------------------
\* Path to the block of leaf i: the bits of i, highest first, but the last two.
PathTo(seed, i) ==
  [d \in 1..Layers + 1 |-> IF d = 1 THEN seed ELSE (i \div 2^(height - d + 1)) % 2]

\* What the tree under seed has at leaf i.
LeafElem(seed, i) == Reduced(Word(PathTo(seed, i), i % 4))

\* An evaluation returns the leaves of the tree in order, whatever earlier
\* calls have left in the workspace (tree_eval_all2).
EvalIsTree ==
  elems.op = "eval" => \A i \in 0..setSize - 1 : elems.out[i] = LeafElem(elems.seed, i)

\* A punctured set evaluates to the set without the element at its position,
\* although the walk starts from whatever is in gen->keys (pset_ggm_eval_punc).
EvalPuncIsRest ==
  elems.op = "evalpunc" =>
    \A i \in 0..setSize - 2 :
      elems.out[i] = LeafElem(elems.seed, IF i < elems.pos THEN i ELSE i + 1)

\* Nothing a punctured set holds derives the leaf it was punctured at: no key is
\* above that leaf but the last, whose word is gone (pset_ggm_punc).
HoleHidden ==
  pset.op = "punc" =>
    \A k \in DOMAIN pset.keys :
      LET b == pset.keys[k]
          p == PathTo(pset.seed, pset.pos)
      IN  /\ b # Garbage
          /\ b.path = SubSeq(p, 1, Len(b.path)) => b.path = p /\ b.hole = pset.pos % 4

\* No call leaves its arrays: neither the halves of the workspace, which lie in
\* the bytes workspace_size asks for wherever the allocator puts them, nor the
\* buffer of a punctured set (pset_ggm_init, pset_buffer_size).
InBounds ==
  /\ ~wild
  /\ \A workspace \in 0..BlockBytes - 1 :
       keysAddress(workspace) + 2 * Half * BlockBytes <= workspace + workspace_size
=============================================================================
