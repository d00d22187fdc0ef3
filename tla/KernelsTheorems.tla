--------------------------- MODULE KernelsTheorems ---------------------------
(***************************************************************************)
(* What the kernels (module Kernels) keep, for every value of their        *)
(* constants.  GGM trees and hint requests have proofs of their own        *)
(* (GgmProofs, AnswerProofs), cited here for their place among the         *)
(* kernels; the filter, the block loops of AES and the row kernels are     *)
(* proved here.                                                            *)
(***************************************************************************)
EXTENDS Kernels, CommonLemmas, TLAPS

Trees == INSTANCE GgmProofs WITH
  setSize <- v1, ws <- v2, call <- v3, pset <- v4, elems <- v5, wild <- v6

PassOne == INSTANCE AnswerProofs WITH
  Threads <- {"t1"}, NumRows <- PassRows, SetSize <- PassSetSize, DrawValues <- PassDraws,
  buf <- v1, th <- v2

PassMany == INSTANCE AnswerProofs WITH
  Threads <- RaceThreads, NumRows <- RaceRows, SetSize <- RaceSetSize, DrawValues <- RaceDraws,
  buf <- v1, th <- v2

-----------------------------------------------------------------------------
LEMMA SameGgm ==
  /\ Ggm!Init <=> Trees!Init
  /\ Ggm!Next <=> Trees!Next
  /\ UNCHANGED Ggm!vars <=> UNCHANGED Trees!vars
  /\ Ggm!GgmAssumption <=> Trees!GgmAssumption
  /\ Ggm!EvalIsTree <=> Trees!EvalIsTree
  /\ Ggm!EvalPuncIsRest <=> Trees!EvalPuncIsRest
  /\ Ggm!HoleHidden <=> Trees!HoleHidden
  /\ Ggm!InBounds <=> Trees!InBounds
  <1>1. Ggm!Init <=> Trees!Init
    BY Zenon DEF
      Ggm!Init, Ggm!get_height, Ggm!Garbage, Ggm!Idle, Trees!Init, Trees!get_height,
      Trees!Garbage, Trees!Idle
  <1>2. Ggm!Next <=> Trees!Next
    BY Zenon DEF
      Ggm!Next, Ggm!Eval, Ggm!pset_ggm_eval, Ggm!Idle, Ggm!Garbage, Ggm!Block,
      Ggm!EvalLayer, Ggm!LayerLeft, Ggm!Layers, Ggm!height, Ggm!get_height,
      Ggm!Expanded, Ggm!Child, Ggm!Whole, Ggm!Half, Ggm!XorOne, Ggm!EvalReturns,
      Ggm!ElemAt, Ggm!GarbageElem, Ggm!Reduced, Ggm!Punc, Ggm!pset_ggm_punc,
      Ggm!PuncLayer, Ggm!BitAt, Ggm!PuncReturns, Ggm!pset_buffer_size, Ggm!EvalPunc,
      Ggm!pset_ggm_eval_punc, Ggm!EvalPuncLayer, Ggm!Beside, Ggm!EvalPuncReturns,
      Ggm!Skip, Trees!Next, Trees!Eval, Trees!pset_ggm_eval, Trees!Idle,
      Trees!Garbage, Trees!Block, Trees!EvalLayer, Trees!LayerLeft, Trees!Layers,
      Trees!height, Trees!get_height, Trees!Expanded, Trees!Child, Trees!Whole,
      Trees!Half, Trees!XorOne, Trees!EvalReturns, Trees!ElemAt, Trees!GarbageElem,
      Trees!Reduced, Trees!Punc, Trees!pset_ggm_punc, Trees!PuncLayer, Trees!BitAt,
      Trees!PuncReturns, Trees!pset_buffer_size, Trees!EvalPunc,
      Trees!pset_ggm_eval_punc, Trees!EvalPuncLayer, Trees!Beside,
      Trees!EvalPuncReturns, Trees!Skip
  <1>3. UNCHANGED Ggm!vars <=> UNCHANGED Trees!vars
    BY Zenon DEF
      Ggm!vars, Trees!vars
  <1>4. Ggm!GgmAssumption <=> Trees!GgmAssumption
    BY Zenon DEF
      Ggm!GgmAssumption, Trees!GgmAssumption
  <1>5. Ggm!EvalIsTree <=> Trees!EvalIsTree
    BY Zenon DEF
      Ggm!EvalIsTree, Ggm!LeafElem, Ggm!Reduced, Ggm!PathTo, Ggm!Layers, Ggm!height,
      Ggm!get_height, Trees!EvalIsTree, Trees!LeafElem, Trees!Reduced, Trees!PathTo,
      Trees!Layers, Trees!height, Trees!get_height
  <1>6. Ggm!EvalPuncIsRest <=> Trees!EvalPuncIsRest
    BY Zenon DEF
      Ggm!EvalPuncIsRest, Ggm!LeafElem, Ggm!Reduced, Ggm!PathTo, Ggm!Layers,
      Ggm!height, Ggm!get_height, Trees!EvalPuncIsRest, Trees!LeafElem, Trees!Reduced,
      Trees!PathTo, Trees!Layers, Trees!height, Trees!get_height
  <1>7. Ggm!HoleHidden <=> Trees!HoleHidden
    BY Zenon DEF
      Ggm!HoleHidden, Ggm!PathTo, Ggm!Layers, Ggm!height, Ggm!get_height, Ggm!Garbage,
      Trees!HoleHidden, Trees!PathTo, Trees!Layers, Trees!height, Trees!get_height,
      Trees!Garbage
  <1>8. Ggm!InBounds <=> Trees!InBounds
    BY Zenon DEF
      Ggm!InBounds, Ggm!BlockBytes, Ggm!keysAddress, Ggm!GeneratorBytes, Ggm!Half,
      Ggm!height, Ggm!get_height, Ggm!workspace_size, Trees!InBounds,
      Trees!BlockBytes, Trees!keysAddress, Trees!GeneratorBytes, Trees!Half,
      Trees!height, Trees!get_height, Trees!workspace_size
  <1>. QED
    BY <1>1, <1>2, <1>3, <1>4, <1>5, <1>6, <1>7, <1>8

LEMMA SamePass ==
  /\ Pass!Init <=> PassOne!Init
  /\ Pass!Next <=> PassOne!Next
  /\ UNCHANGED Pass!vars <=> UNCHANGED PassOne!vars
  /\ Pass!AnswerAssumption <=> PassOne!AnswerAssumption
  /\ Pass!ArraysArePermutations <=> PassOne!ArraysArePermutations
  /\ Pass!HintsAreParities <=> PassOne!HintsAreParities
  /\ Pass!OneWayToEach <=> PassOne!OneWayToEach
  /\ Pass!DrawsAreFair <=> PassOne!DrawsAreFair
  <1>1. Pass!Init <=> PassOne!Init
    BY Zenon DEF
      Pass!Init, Pass!Draws, Pass!Fresh, Pass!permute, Pass!Identity, Pass!Cells,
      Pass!perm_size, Pass!LoopAt, Pass!Blocks, PassOne!Init, PassOne!Draws,
      PassOne!Fresh, PassOne!permute, PassOne!Identity, PassOne!Cells,
      PassOne!perm_size, PassOne!LoopAt, PassOne!Blocks
  <1>2. Pass!Next <=> PassOne!Next
    BY Zenon DEF
      Pass!Next, Pass!Step, Pass!permute, Pass!Identity, Pass!Cells, Pass!perm_size,
      Pass!LoopAt, Pass!RandBytes, Pass!Draws, Pass!Swap, Pass!fastMod, Pass!Bound,
      Pass!Swapped, Pass!invert_permutation, Pass!xor_single_pass, Pass!Xor,
      Pass!RowAt, Pass!Answered, Pass!Fresh, Pass!Blocks, PassOne!Next, PassOne!Step,
      PassOne!permute, PassOne!Identity, PassOne!Cells, PassOne!perm_size,
      PassOne!LoopAt, PassOne!RandBytes, PassOne!Draws, PassOne!Swap, PassOne!fastMod,
      PassOne!Bound, PassOne!Swapped, PassOne!invert_permutation,
      PassOne!xor_single_pass, PassOne!Xor, PassOne!RowAt, PassOne!Answered,
      PassOne!Fresh, PassOne!Blocks
  <1>3. UNCHANGED Pass!vars <=> UNCHANGED PassOne!vars
    BY Zenon DEF
      Pass!vars, PassOne!vars
  <1>4. Pass!AnswerAssumption <=> PassOne!AnswerAssumption
    BY Zenon DEF
      Pass!AnswerAssumption, PassOne!AnswerAssumption
  <1>5. Pass!ArraysArePermutations <=> PassOne!ArraysArePermutations
    BY Zenon DEF
      Pass!ArraysArePermutations, Pass!Blocks, Pass!Bijective, Pass!Cells,
      Pass!perm_size, PassOne!ArraysArePermutations, PassOne!Blocks,
      PassOne!Bijective, PassOne!Cells, PassOne!perm_size
  <1>6. Pass!HintsAreParities <=> PassOne!HintsAreParities
    BY Zenon DEF
      Pass!HintsAreParities, Pass!Cells, Pass!perm_size, Pass!Blocks,
      PassOne!HintsAreParities, PassOne!Cells, PassOne!perm_size, PassOne!Blocks
  <1>7. Pass!OneWayToEach <=> PassOne!OneWayToEach
    BY Zenon DEF
      Pass!OneWayToEach, Pass!DrawsOf, Pass!Cells, Pass!perm_size, Pass!Identity,
      Pass!Swapped, PassOne!OneWayToEach, PassOne!DrawsOf, PassOne!Cells,
      PassOne!perm_size, PassOne!Identity, PassOne!Swapped
  <1>8. Pass!DrawsAreFair <=> PassOne!DrawsAreFair
    BY Zenon DEF
      Pass!DrawsAreFair, Pass!Draws, Pass!fastMod, Pass!Bound, PassOne!DrawsAreFair,
      PassOne!Draws, PassOne!fastMod, PassOne!Bound,
      Pass!Cardinality, PassOne!Cardinality, Pass!IsFiniteSet, PassOne!IsFiniteSet
  <1>. QED
    BY <1>1, <1>2, <1>3, <1>4, <1>5, <1>6, <1>7, <1>8

LEMMA SameRace ==
  /\ Race!Init <=> PassMany!Init
  /\ Race!Next <=> PassMany!Next
  /\ UNCHANGED Race!vars <=> UNCHANGED PassMany!vars
  /\ Race!AnswerAssumption <=> PassMany!AnswerAssumption
  /\ Race!ArraysArePermutations <=> PassMany!ArraysArePermutations
  /\ Race!HintsAreParities <=> PassMany!HintsAreParities
  <1>1. Race!Init <=> PassMany!Init
    BY Zenon DEF
      Race!Init, Race!Draws, Race!Fresh, Race!permute, Race!Identity, Race!Cells,
      Race!perm_size, Race!LoopAt, Race!Blocks, PassMany!Init, PassMany!Draws,
      PassMany!Fresh, PassMany!permute, PassMany!Identity, PassMany!Cells,
      PassMany!perm_size, PassMany!LoopAt, PassMany!Blocks
  <1>2. Race!Next <=> PassMany!Next
    BY Zenon DEF
      Race!Next, Race!Step, Race!permute, Race!Identity, Race!Cells, Race!perm_size,
      Race!LoopAt, Race!RandBytes, Race!Draws, Race!Swap, Race!fastMod, Race!Bound,
      Race!Swapped, Race!invert_permutation, Race!xor_single_pass, Race!Xor,
      Race!RowAt, Race!Answered, Race!Fresh, Race!Blocks, PassMany!Next,
      PassMany!Step, PassMany!permute, PassMany!Identity, PassMany!Cells,
      PassMany!perm_size, PassMany!LoopAt, PassMany!RandBytes, PassMany!Draws,
      PassMany!Swap, PassMany!fastMod, PassMany!Bound, PassMany!Swapped,
      PassMany!invert_permutation, PassMany!xor_single_pass, PassMany!Xor,
      PassMany!RowAt, PassMany!Answered, PassMany!Fresh, PassMany!Blocks
  <1>3. UNCHANGED Race!vars <=> UNCHANGED PassMany!vars
    BY Zenon DEF
      Race!vars, PassMany!vars
  <1>4. Race!AnswerAssumption <=> PassMany!AnswerAssumption
    BY Zenon DEF
      Race!AnswerAssumption, PassMany!AnswerAssumption
  <1>5. Race!ArraysArePermutations <=> PassMany!ArraysArePermutations
    BY Zenon DEF
      Race!ArraysArePermutations, Race!Blocks, Race!Bijective, Race!Cells,
      Race!perm_size, PassMany!ArraysArePermutations, PassMany!Blocks,
      PassMany!Bijective, PassMany!Cells, PassMany!perm_size
  <1>6. Race!HintsAreParities <=> PassMany!HintsAreParities
    BY Zenon DEF
      Race!HintsAreParities, Race!Cells, Race!perm_size, Race!Blocks,
      PassMany!HintsAreParities, PassMany!Cells, PassMany!perm_size, PassMany!Blocks
  <1>. QED
    BY <1>1, <1>2, <1>3, <1>4, <1>5, <1>6

-----------------------------------------------------------------------------
(***************************************************************************)
(* The test for repeated elements (module DistinctFilter), for every set   *)
(* of words and every number of elements a table can be made for: open     *)
(* addressing that goes round the end of the table.  v1 to v5 are elems,   *)
(* table, i, ptr and out.                                                  *)
(***************************************************************************)
\* The powers of two round_to_power_of_2 chooses from.
Powers == {2^k : k \in 0..30}

LiteralPowers == {1, 2, 4, 8, 16, 32, 64, 128, 256, 512, 1024, 2048, 4096, 8192, 16384, 32768,
               65536, 131072, 262144, 524288, 1048576, 2097152, 4194304, 8388608,
               16777216, 33554432, 67108864, 134217728, 268435456, 536870912, 1073741824}

LEMMA PowersAre == Powers = LiteralPowers
  <1>1. ASSUME NEW k \in 0..30 PROVE 2^k \in LiteralPowers
    <2>1. k = 0 => 2^k = 2^0
      BY Zenon
    <2>2. k = 1 => 2^k = 2^1
      BY Zenon
    <2>3. k = 2 => 2^k = 2^2
      BY Zenon
    <2>4. k = 3 => 2^k = 2^3
      BY Zenon
    <2>5. k = 4 => 2^k = 2^4
      BY Zenon
    <2>6. k = 5 => 2^k = 2^5
      BY Zenon
    <2>7. k = 6 => 2^k = 2^6
      BY Zenon
    <2>8. k = 7 => 2^k = 2^7
      BY Zenon
    <2>9. k = 8 => 2^k = 2^8
      BY Zenon
    <2>10. k = 9 => 2^k = 2^9
      BY Zenon
    <2>11. k = 10 => 2^k = 2^10
      BY Zenon
    <2>12. k = 11 => 2^k = 2^11
      BY Zenon
    <2>13. k = 12 => 2^k = 2^12
      BY Zenon
    <2>14. k = 13 => 2^k = 2^13
      BY Zenon
    <2>15. k = 14 => 2^k = 2^14
      BY Zenon
    <2>16. k = 15 => 2^k = 2^15
      BY Zenon
    <2>17. k = 16 => 2^k = 2^16
      BY Zenon
    <2>18. k = 17 => 2^k = 2^17
      BY Zenon
    <2>19. k = 18 => 2^k = 2^18
      BY Zenon
    <2>20. k = 19 => 2^k = 2^19
      BY Zenon
    <2>21. k = 20 => 2^k = 2^20
      BY Zenon
    <2>22. k = 21 => 2^k = 2^21
      BY Zenon
    <2>23. k = 22 => 2^k = 2^22
      BY Zenon
    <2>24. k = 23 => 2^k = 2^23
      BY Zenon
    <2>25. k = 24 => 2^k = 2^24
      BY Zenon
    <2>26. k = 25 => 2^k = 2^25
      BY Zenon
    <2>27. k = 26 => 2^k = 2^26
      BY Zenon
    <2>28. k = 27 => 2^k = 2^27
      BY Zenon
    <2>29. k = 28 => 2^k = 2^28
      BY Zenon
    <2>30. k = 29 => 2^k = 2^29
      BY Zenon
    <2>31. k = 30 => 2^k = 2^30
      BY Zenon
    <2>. QED
      BY <2>1, <2>2, <2>3, <2>4, <2>5, <2>6, <2>7, <2>8, <2>9, <2>10, <2>11, <2>12,
         <2>13, <2>14, <2>15, <2>16, <2>17, <2>18, <2>19, <2>20, <2>21, <2>22, <2>23,
         <2>24, <2>25, <2>26, <2>27, <2>28, <2>29, <2>30, <2>31 DEF LiteralPowers
  <1>2. \A k \in 0..30 : 2^k \in Powers
    BY Zenon DEF Powers
  <1>3. 2^0 \in Powers
    <2>1. 0 \in 0..30
      OBVIOUS
    <2>. QED BY <2>1, <1>2, Zenon
  <1>4. 2^1 \in Powers
    <2>1. 1 \in 0..30
      OBVIOUS
    <2>. QED BY <2>1, <1>2, Zenon
  <1>5. 2^2 \in Powers
    <2>1. 2 \in 0..30
      OBVIOUS
    <2>. QED BY <2>1, <1>2, Zenon
  <1>6. 2^3 \in Powers
    <2>1. 3 \in 0..30
      OBVIOUS
    <2>. QED BY <2>1, <1>2, Zenon
  <1>7. 2^4 \in Powers
    <2>1. 4 \in 0..30
      OBVIOUS
    <2>. QED BY <2>1, <1>2, Zenon
  <1>8. 2^5 \in Powers
    <2>1. 5 \in 0..30
      OBVIOUS
    <2>. QED BY <2>1, <1>2, Zenon
  <1>9. 2^6 \in Powers
    <2>1. 6 \in 0..30
      OBVIOUS
    <2>. QED BY <2>1, <1>2, Zenon
  <1>10. 2^7 \in Powers
    <2>1. 7 \in 0..30
      OBVIOUS
    <2>. QED BY <2>1, <1>2, Zenon
  <1>11. 2^8 \in Powers
    <2>1. 8 \in 0..30
      OBVIOUS
    <2>. QED BY <2>1, <1>2, Zenon
  <1>12. 2^9 \in Powers
    <2>1. 9 \in 0..30
      OBVIOUS
    <2>. QED BY <2>1, <1>2, Zenon
  <1>13. 2^10 \in Powers
    <2>1. 10 \in 0..30
      OBVIOUS
    <2>. QED BY <2>1, <1>2, Zenon
  <1>14. 2^11 \in Powers
    <2>1. 11 \in 0..30
      OBVIOUS
    <2>. QED BY <2>1, <1>2, Zenon
  <1>15. 2^12 \in Powers
    <2>1. 12 \in 0..30
      OBVIOUS
    <2>. QED BY <2>1, <1>2, Zenon
  <1>16. 2^13 \in Powers
    <2>1. 13 \in 0..30
      OBVIOUS
    <2>. QED BY <2>1, <1>2, Zenon
  <1>17. 2^14 \in Powers
    <2>1. 14 \in 0..30
      OBVIOUS
    <2>. QED BY <2>1, <1>2, Zenon
  <1>18. 2^15 \in Powers
    <2>1. 15 \in 0..30
      OBVIOUS
    <2>. QED BY <2>1, <1>2, Zenon
  <1>19. 2^16 \in Powers
    <2>1. 16 \in 0..30
      OBVIOUS
    <2>. QED BY <2>1, <1>2, Zenon
  <1>20. 2^17 \in Powers
    <2>1. 17 \in 0..30
      OBVIOUS
    <2>. QED BY <2>1, <1>2, Zenon
  <1>21. 2^18 \in Powers
    <2>1. 18 \in 0..30
      OBVIOUS
    <2>. QED BY <2>1, <1>2, Zenon
  <1>22. 2^19 \in Powers
    <2>1. 19 \in 0..30
      OBVIOUS
    <2>. QED BY <2>1, <1>2, Zenon
  <1>23. 2^20 \in Powers
    <2>1. 20 \in 0..30
      OBVIOUS
    <2>. QED BY <2>1, <1>2, Zenon
  <1>24. 2^21 \in Powers
    <2>1. 21 \in 0..30
      OBVIOUS
    <2>. QED BY <2>1, <1>2, Zenon
  <1>25. 2^22 \in Powers
    <2>1. 22 \in 0..30
      OBVIOUS
    <2>. QED BY <2>1, <1>2, Zenon
  <1>26. 2^23 \in Powers
    <2>1. 23 \in 0..30
      OBVIOUS
    <2>. QED BY <2>1, <1>2, Zenon
  <1>27. 2^24 \in Powers
    <2>1. 24 \in 0..30
      OBVIOUS
    <2>. QED BY <2>1, <1>2, Zenon
  <1>28. 2^25 \in Powers
    <2>1. 25 \in 0..30
      OBVIOUS
    <2>. QED BY <2>1, <1>2, Zenon
  <1>29. 2^26 \in Powers
    <2>1. 26 \in 0..30
      OBVIOUS
    <2>. QED BY <2>1, <1>2, Zenon
  <1>30. 2^27 \in Powers
    <2>1. 27 \in 0..30
      OBVIOUS
    <2>. QED BY <2>1, <1>2, Zenon
  <1>31. 2^28 \in Powers
    <2>1. 28 \in 0..30
      OBVIOUS
    <2>. QED BY <2>1, <1>2, Zenon
  <1>32. 2^29 \in Powers
    <2>1. 29 \in 0..30
      OBVIOUS
    <2>. QED BY <2>1, <1>2, Zenon
  <1>33. 2^30 \in Powers
    <2>1. 30 \in 0..30
      OBVIOUS
    <2>. QED BY <2>1, <1>2, Zenon
  <1>. QED
    BY <1>1, <1>3, <1>4, <1>5, <1>6, <1>7, <1>8, <1>9, <1>10, <1>11, <1>12, <1>13, <1>14,
       <1>15, <1>16, <1>17, <1>18, <1>19, <1>20, <1>21, <1>22, <1>23, <1>24, <1>25,
       <1>26, <1>27, <1>28, <1>29, <1>30, <1>31, <1>32, <1>33 DEF Powers, LiteralPowers

\* Every number is within a factor of two of one power, and of one only.
LEMMA PowerFound ==
  ASSUME NEW v \in 1..2^30
  PROVE  \E p \in LiteralPowers : v <= p /\ p < 2 * v
  <1>1. \/ v <= 1 /\ 1 < 2 * v
        \/ v <= 2 /\ 2 < 2 * v
        \/ v <= 4 /\ 4 < 2 * v
        \/ v <= 8 /\ 8 < 2 * v
        \/ v <= 16 /\ 16 < 2 * v
        \/ v <= 32 /\ 32 < 2 * v
        \/ v <= 64 /\ 64 < 2 * v
        \/ v <= 128 /\ 128 < 2 * v
        \/ v <= 256 /\ 256 < 2 * v
        \/ v <= 512 /\ 512 < 2 * v
        \/ v <= 1024 /\ 1024 < 2 * v
        \/ v <= 2048 /\ 2048 < 2 * v
        \/ v <= 4096 /\ 4096 < 2 * v
        \/ v <= 8192 /\ 8192 < 2 * v
        \/ v <= 16384 /\ 16384 < 2 * v
        \/ v <= 32768 /\ 32768 < 2 * v
        \/ v <= 65536 /\ 65536 < 2 * v
        \/ v <= 131072 /\ 131072 < 2 * v
        \/ v <= 262144 /\ 262144 < 2 * v
        \/ v <= 524288 /\ 524288 < 2 * v
        \/ v <= 1048576 /\ 1048576 < 2 * v
        \/ v <= 2097152 /\ 2097152 < 2 * v
        \/ v <= 4194304 /\ 4194304 < 2 * v
        \/ v <= 8388608 /\ 8388608 < 2 * v
        \/ v <= 16777216 /\ 16777216 < 2 * v
        \/ v <= 33554432 /\ 33554432 < 2 * v
        \/ v <= 67108864 /\ 67108864 < 2 * v
        \/ v <= 134217728 /\ 134217728 < 2 * v
        \/ v <= 268435456 /\ 268435456 < 2 * v
        \/ v <= 536870912 /\ 536870912 < 2 * v
        \/ v <= 1073741824 /\ 1073741824 < 2 * v
    OBVIOUS
  <1>. QED
    BY <1>1 DEF LiteralPowers

LEMMA PowersApart ==
  ASSUME NEW p \in LiteralPowers, NEW q \in LiteralPowers, p < q
  PROVE  2 * p <= q
  BY DEF LiteralPowers

LEMMA PowerTimesFour ==
  ASSUME NEW p \in LiteralPowers, p < 2^29
  PROVE  4 * p \in LiteralPowers
  BY DEF LiteralPowers

LEMMA Rounded ==
  ASSUME NEW v \in 1..2^30
  PROVE  LET p == Filter!round_to_power_of_2(v) IN
         /\ p \in LiteralPowers /\ p \in Nat /\ v <= p /\ p < 2 * v
         /\ \A q \in LiteralPowers : v <= q /\ q < 2 * v => q = p
  <1>. DEFINE p == Filter!round_to_power_of_2(v)
  <1>1. \E q \in Powers : v <= q /\ q < 2 * v
    BY PowerFound, PowersAre
  <1>2. p \in Powers /\ v <= p /\ p < 2 * v
    BY <1>1, Zenon DEF Filter!round_to_power_of_2, Powers
  <1>3. p \in LiteralPowers /\ p \in Nat
    <2>1. p \in LiteralPowers
      BY <1>2, PowersAre
    <2>. HIDE DEF p
    <2>. QED BY <2>1 DEF LiteralPowers
  <1>4. ASSUME NEW q \in LiteralPowers, v <= q, q < 2 * v PROVE q = p
    <2>. HIDE DEF p
    <2>1. q \in Nat
      BY DEF LiteralPowers
    <2>. QED BY <2>1, <1>2, <1>3, <1>4, PowersApart
  <1>. QED
    BY <1>2, <1>3, <1>4

\* The table has four slots and more for each element, and lies in the scratch half.
LEMMA TableFits ==
  ASSUME NEW n \in 1..2^28
  PROVE  /\ Filter!TableSize(n) \in Nat /\ 4 * n <= Filter!TableSize(n)
         /\ Filter!TableSize(n) <= Filter!TmpWords(n)
  <1>. DEFINE size == Filter!TableSize(n)
  <1>1. size \in LiteralPowers /\ size \in Nat /\ 4 * n <= size /\ size < 2 * (4 * n)
        /\ \A q \in LiteralPowers : 4 * n <= q /\ q < 2 * (4 * n) => q = size
    <2>1. n * 4 \in 1..2^30 /\ n * 4 = 4 * n
      OBVIOUS
    <2>. DEFINE v == n * 4
    <2>. HIDE DEF v
    <2>2. LET p == Filter!round_to_power_of_2(v) IN
         /\ p \in LiteralPowers /\ p \in Nat /\ v <= p /\ p < 2 * v
         /\ \A q \in LiteralPowers : v <= q /\ q < 2 * v => q = p
      BY <2>1, Rounded DEF v
    <2>3. size = Filter!round_to_power_of_2(v)
      BY DEF Filter!TableSize, v
    <2>4. v = 4 * n
      BY <2>1 DEF v
    <2>. HIDE DEF size
    <2>. QED BY <2>2, <2>3, <2>4
  <1>. HIDE DEF size
  <1>2. CASE n = 1
    <2>1. Filter!TmpWords(n) = 8
      <3>1. Filter!TmpWords(n) = 4 * 2
        BY <1>2, Zenon DEF Filter!TmpWords
      <3>. QED BY <3>1
    <2>2. 4 \in LiteralPowers
      BY DEF LiteralPowers
    <2>3. size = 4
      BY <1>1, <1>2, <2>2
    <2>4. size <= Filter!TmpWords(n)
      BY <2>1, <2>3
    <2>5. size \in Nat /\ 4 * n <= size
      BY <1>1
    <2>. QED BY <2>4, <2>5, Zenon DEF size
  <1>3. CASE n # 1
    <2>. DEFINE p == Filter!round_to_power_of_2(n)
    <2>1. p \in LiteralPowers /\ p \in Nat /\ n <= p /\ p < 2 * n
      <3>1. n \in 1..2^30
        OBVIOUS
      <3>. QED BY <3>1, Rounded, Zenon
    <2>2. Filter!TmpWords(n) = 4 * p
      BY <1>3 DEF Filter!TmpWords
    <2>. HIDE DEF p
    <2>3. 4 * p \in LiteralPowers
      BY <2>1, PowerTimesFour
    <2>4. 4 * p = size
      BY <1>1, <2>1, <2>3
    <2>. QED BY <1>1, <2>2, <2>4 DEF size
  <1>. QED
    BY <1>2, <1>3

-----------------------------------------------------------------------------
\* Slots a walk from h makes to reach s, in a table of size slots.
Steps(h, s, size) == IF s >= h THEN s - h ELSE s - h + size

LEMMA ModBelow ==
  ASSUME NEW size \in Nat, size > 0, NEW a \in -size..2 * size - 1
  PROVE  a % size = IF a < 0 THEN a + size ELSE IF a < size THEN a ELSE a - size
  <1>. DEFINE q == a \div size
              r == a % size
              b == q * size
  <1>1. q \in Int /\ r \in 0..size - 1 /\ a = size * q + r
    BY DivMod
  <1>2. size * q = b /\ b \in Int
    BY <1>1
  <1>. HIDE DEF q, r
  <1>3. /\ q < 0 => b + size <= 0
        /\ 0 < q => size <= b
        /\ q = 0 => b = 0 /\ (q = 1 => b = size)
        /\ q = -1 => b = -size
        /\ 1 < q => size + size <= b
        /\ q < -1 => b + size <= -size
    <2>1. q < 0 => q * size + size <= 0 * size
      BY <1>1, BlocksApart
    <2>2. 0 < q => 0 * size + size <= q * size
      BY <1>1, BlocksApart
    <2>3. 1 < q => 1 * size + size <= q * size
      BY <1>1, BlocksApart
    <2>4. q < -1 => q * size + size <= (-1) * size
      BY <1>1, BlocksApart
    <2>. QED BY <2>1, <2>2, <2>3, <2>4
  <1>4. q = 1 => b = size
    OBVIOUS
  <1>. HIDE DEF b
  <1>5. a = b + r
    BY <1>1, <1>2
  <1>6. CASE q = 0
    BY <1>1, <1>2, <1>3, <1>5, <1>6 DEF r
  <1>7. CASE q = 1
    BY <1>1, <1>2, <1>4, <1>5, <1>7 DEF r
  <1>8. CASE q = -1
    BY <1>1, <1>2, <1>3, <1>5, <1>8 DEF r
  <1>9. CASE q < -1 \/ 1 < q
    BY <1>1, <1>2, <1>3, <1>5, <1>9 DEF r
  <1>. QED
    BY <1>1, <1>6, <1>7, <1>8, <1>9

LEMMA Before1 ==
  ASSUME NEW size \in Nat, size > 0, NEW h \in 0..size - 1, NEW s \in 0..size - 1
  PROVE  {(h + k) % size : k \in 0..(s - h) % size} \ {s}
           = {t \in 0..size - 1 : Steps(h, t, size) < Steps(h, s, size)}
  <1>1. (s - h) % size = Steps(h, s, size) /\ Steps(h, s, size) \in 0..size - 1
    <2>1. s - h \in -size..2 * size - 1
      OBVIOUS
    <2>. QED BY <2>1, ModBelow DEF Steps
  <1>2. ASSUME NEW k \in 0..size - 1
        PROVE  (h + k) % size \in 0..size - 1 /\ Steps(h, (h + k) % size, size) = k
    <2>1. h + k \in -size..2 * size - 1
      OBVIOUS
    <2>2. (h + k) % size =
            IF h + k < 0 THEN h + k + size ELSE IF h + k < size THEN h + k ELSE h + k - size
      BY <2>1, ModBelow
    <2>. DEFINE t == (h + k) % size
    <2>3. t = IF h + k < size THEN h + k ELSE h + k - size
      BY <2>2
    <2>. HIDE DEF t
    <2>4. t \in 0..size - 1 /\ Steps(h, t, size) = k
      BY <2>3 DEF Steps
    <2>. QED BY <2>4 DEF t
  <1>3. ASSUME NEW t \in 0..size - 1
        PROVE  /\ Steps(h, t, size) \in 0..size - 1
               /\ (h + Steps(h, t, size)) % size = t
    <2>1. Steps(h, t, size) \in 0..size - 1
      BY DEF Steps
    <2>. DEFINE k == Steps(h, t, size)
    <2>2. k \in 0..size - 1
      BY <2>1
    <2>3. h + k = IF t >= h THEN t ELSE t + size
      BY DEF Steps
    <2>. HIDE DEF k
    <2>4. h + k \in -size..2 * size - 1
      BY <2>2
    <2>. DEFINE a == h + k
    <2>5. a \in -size..2 * size - 1 /\ a = IF t >= h THEN t ELSE t + size
      BY <2>3, <2>4
    <2>. HIDE DEF a
    <2>6. a % size = IF a < 0 THEN a + size ELSE IF a < size THEN a ELSE a - size
      BY <2>5, ModBelow
    <2>7. a % size = t
      BY <2>5, <2>6
    <2>. QED BY <2>1, <2>7 DEF k, a
  <1>. DEFINE B == {(h + k) % size : k \in 0..(s - h) % size} \ {s}
              d == Steps(h, s, size)
  <1>4. ASSUME NEW t \in B PROVE t \in 0..size - 1 /\ Steps(h, t, size) < d
    <2>1. PICK k \in 0..d : t = (h + k) % size
      BY <1>1
    <2>2. k \in 0..size - 1
      BY <1>1, <2>1
    <2>3. t \in 0..size - 1 /\ Steps(h, t, size) = k
      BY <1>2, <2>1, <2>2
    <2>4. k # d
      BY <2>1, <1>3, <1>4
    <2>. QED BY <2>1, <2>3, <2>4, <1>1
  <1>5. ASSUME NEW t \in 0..size - 1, Steps(h, t, size) < d PROVE t \in B
    <2>1. Steps(h, t, size) \in 0..(s - h) % size
      BY <1>1, <1>3, <1>5
    <2>2. t = (h + Steps(h, t, size)) % size
      BY <1>3
    <2>3. t # s
      BY <1>5, <1>1
    <2>. QED BY <2>1, <2>2, <2>3
  <1>. HIDE DEF B
  <1>6. B = {t \in 0..size - 1 : Steps(h, t, size) < d}
    BY <1>4, <1>5
  <1>. QED BY <1>6 DEF B

-----------------------------------------------------------------------------
\* What the table tb says of the first n of the elements es.

\* A slot that is not free holds one of them.
SlotsStored(es, tb, n, size) ==
  \A s \in 0..size - 1 : tb[s] # 0 => \E k \in 1..n : tb[s] = es[k]

\* Slots from the hash of x up to, and without, slot s all hold something.
Walked(x, tb, s, size) ==
  \A t \in 0..size - 1 :
    Steps(x % size, t, size) < Steps(x % size, s, size) => tb[t] # 0

\* Each of them that is not 0 is found by the walk from its hash.
Reached(es, tb, n, size) ==
  \A k \in 1..n : es[k] # 0 =>
    \E s \in 0..size - 1 : tb[s] = es[k] /\ Walked(es[k], tb, s, size)

\* None of them that is not 0 occurs again among them.
Apart(es, n) == \A a, b \in 1..n : a # b /\ es[a] # 0 => es[a] # es[b]

\* The walk from the hash of x to slot p has not met x.
NotMet(x, tb, p, size) ==
  \A t \in 0..size - 1 :
    Steps(x % size, t, size) < Steps(x % size, p, size) => tb[t] # x

LEMMA StepsApart ==
  ASSUME NEW size \in Nat, NEW h \in 0..size - 1, NEW s \in 0..size - 1, NEW t \in 0..size - 1
  PROVE  /\ Steps(h, s, size) \in 0..size - 1
         /\ Steps(h, s, size) = Steps(h, t, size) => s = t
         /\ Steps(h, h, size) = 0
  BY DEF Steps

LEMMA HomeInTable ==
  ASSUME NEW size \in Nat, size > 0, NEW x \in Nat
  PROVE  x % size \in 0..size - 1
  BY DivMod

\* The element just stored was not stored before.
LEMMA StoredIsNew ==
  ASSUME NEW size \in Nat, size > 0, NEW es, NEW tb, NEW n \in Nat, NEW x \in Nat,
         NEW p \in 0..size - 1, tb[p] = 0, x # 0,
         \A k \in 1..n : es[k] \in Nat,
         Reached(es, tb, n, size), NotMet(x, tb, p, size)
  PROVE  \A k \in 1..n : es[k] # x
  <1>1. SUFFICES ASSUME NEW k \in 1..n, es[k] = x PROVE FALSE
    OBVIOUS
  <1>2. PICK s \in 0..size - 1 : tb[s] = x /\ Walked(x, tb, s, size)
    BY <1>1, Zenon DEF Reached
  <1>. DEFINE h == x % size
  <1>3. h \in 0..size - 1
    BY HomeInTable
  <1>. HIDE DEF h
  <1>4. /\ Steps(h, s, size) \in 0..size - 1
        /\ Steps(h, p, size) \in 0..size - 1
        /\ Steps(h, s, size) = Steps(h, p, size) => s = p
    BY <1>3, StepsApart
  <1>5. ~(Steps(h, s, size) < Steps(h, p, size))
    BY <1>2, Zenon DEF NotMet, h
  <1>6. ~(Steps(h, p, size) < Steps(h, s, size))
    BY <1>2, Zenon DEF Walked, h
  <1>7. s = p
    BY <1>4, <1>5, <1>6
  <1>. QED
    BY <1>2, <1>7

\* Storing an element at the free slot where its walk ends.
LEMMA StoreKeeps ==
  ASSUME NEW size \in Nat, size > 0, NEW m \in Nat, NEW es \in [1..m -> Nat],
         NEW tb \in [0..size - 1 -> Nat], NEW n \in Nat, n < m,
         NEW p \in 0..size - 1, tb[p] = 0,
         SlotsStored(es, tb, n, size), Reached(es, tb, n, size), Apart(es, n),
         Walked(es[n + 1], tb, p, size), NotMet(es[n + 1], tb, p, size),
         NEW tb2, tb2 = [tb EXCEPT ![p] = es[n + 1]]
  PROVE  /\ tb2 \in [0..size - 1 -> Nat]
         /\ SlotsStored(es, tb2, n + 1, size)
         /\ Reached(es, tb2, n + 1, size)
         /\ Apart(es, n + 1)
  <1>. DEFINE q == n + 1
              x == es[q]
  <1>1. q \in 1..m /\ x \in Nat /\ q \in Nat /\ \A k \in 1..q : k \in 1..n \/ k = q
    OBVIOUS
  <1>2. \A k \in 1..n : k \in 1..q /\ k # q /\ es[k] \in Nat
    OBVIOUS
  <1>3. /\ tb2 \in [0..size - 1 -> Nat]
        /\ tb2[p] = x
        /\ \A s \in 0..size - 1 : s # p => tb2[s] = tb[s]
    BY <1>1
  <1>4. Walked(x, tb, p, size) /\ NotMet(x, tb, p, size)
    OBVIOUS
  <1>. HIDE DEF q, x
  <1>5. x # 0 => \A k \in 1..n : es[k] # x
    <2>1. SUFFICES ASSUME x # 0 PROVE \A k \in 1..n : es[k] # x
      OBVIOUS
    <2>2. \A k \in 1..n : es[k] \in Nat
      BY <1>2
    <2>. QED BY <1>1, <1>4, <2>1, <2>2, StoredIsNew
  <1>. USE DEF x
  <1>6. SlotsStored(es, tb2, q, size)
    <2>1. SUFFICES ASSUME NEW s \in 0..size - 1, tb2[s] # 0
                   PROVE  \E k \in 1..q : tb2[s] = es[k]
      BY Zenon DEF SlotsStored
    <2>2. CASE s = p
      <3>1. q \in 1..q
        BY <1>1
      <3>. QED BY <1>3, <2>2, <3>1
    <2>3. CASE s # p
      <3>1. tb[s] # 0 /\ tb2[s] = tb[s]
        BY <1>3, <2>1, <2>3
      <3>2. PICK k \in 1..n : tb[s] = es[k]
        BY <3>1, Zenon DEF SlotsStored
      <3>. QED BY <1>2, <3>1, <3>2
    <2>. QED BY <2>2, <2>3
  <1>7. Reached(es, tb2, q, size)
    <2>1. SUFFICES ASSUME NEW k \in 1..q, es[k] # 0
                   PROVE  \E s \in 0..size - 1 : tb2[s] = es[k] /\ Walked(es[k], tb2, s, size)
      BY Zenon DEF Reached
    <2>2. ASSUME NEW y, NEW s \in 0..size - 1, Walked(y, tb, s, size), x # 0
          PROVE  Walked(y, tb2, s, size)
      <3>1. SUFFICES ASSUME NEW t \in 0..size - 1,
                            Steps(y % size, t, size) < Steps(y % size, s, size)
                     PROVE  tb2[t] # 0
        BY Zenon DEF Walked
      <3>2. tb[t] # 0
        BY <2>2, <3>1, Zenon DEF Walked
      <3>. QED BY <1>3, <2>2, <3>2
    <2>3. x = 0 => \A s \in 0..size - 1 : tb2[s] = tb[s]
      BY <1>3
    <2>4. ASSUME NEW y, NEW s \in 0..size - 1, Walked(y, tb, s, size)
          PROVE  Walked(y, tb2, s, size)
      <3>1. CASE x # 0
        BY <2>2, <2>4, <3>1
      <3>2. CASE x = 0
        BY <2>3, <2>4, <3>2, Zenon DEF Walked
      <3>. QED BY <3>1, <3>2
    <2>5. CASE k = q
      <3>1. Walked(x, tb2, p, size)
        BY <1>4, <2>4
      <3>. QED BY <1>3, <2>5, <3>1
    <2>6. CASE k \in 1..n
      <3>1. PICK s \in 0..size - 1 : tb[s] = es[k] /\ Walked(es[k], tb, s, size)
        BY <2>1, <2>6, Zenon DEF Reached
      <3>2. Walked(es[k], tb2, s, size)
        BY <2>4, <3>1
      <3>3. s # p
        BY <2>1, <3>1
      <3>4. tb2[s] = es[k]
        BY <1>3, <3>1, <3>3
      <3>. QED BY <3>2, <3>4
    <2>. QED BY <1>1, <2>5, <2>6
  <1>8. Apart(es, q)
    <2>1. SUFFICES ASSUME NEW a \in 1..q, NEW b \in 1..q, a # b, es[a] # 0
                   PROVE  es[a] # es[b]
      BY Zenon DEF Apart
    <2>2. CASE a \in 1..n /\ b \in 1..n
      BY <2>1, <2>2, Zenon DEF Apart
    <2>3. CASE a = q /\ b \in 1..n
      BY <1>5, <2>1, <2>3
    <2>4. CASE a \in 1..n /\ b = q
      BY <1>5, <2>1, <2>4
    <2>. QED BY <1>1, <2>1, <2>2, <2>3, <2>4
  <1>. QED
    BY <1>3, <1>6, <1>7, <1>8 DEF q

\* Going on to the next slot.
LEMMA CollideKeeps ==
  ASSUME NEW size \in Nat, size > 0, NEW x \in Nat, NEW tb,
         NEW p \in 0..size - 1, tb[p] # 0, tb[p] # x,
         Walked(x, tb, p, size), NotMet(x, tb, p, size),
         NEW p2, p2 = IF p + 1 >= size THEN 0 ELSE p + 1
  PROVE  /\ p2 \in 0..size - 1
         /\ Walked(x, tb, p2, size)
         /\ NotMet(x, tb, p2, size)
  <1>. DEFINE h == x % size
  <1>1. h \in 0..size - 1
    BY HomeInTable
  <1>. HIDE DEF h
  <1>2. p2 \in 0..size - 1
    OBVIOUS
  <1>3. ASSUME NEW t \in 0..size - 1, Steps(h, t, size) < Steps(h, p2, size)
        PROVE  t = p \/ Steps(h, t, size) < Steps(h, p, size)
    BY <1>1, <1>3 DEF Steps
  <1>4. Walked(x, tb, p2, size)
    <2>1. SUFFICES ASSUME NEW t \in 0..size - 1, Steps(h, t, size) < Steps(h, p2, size)
                   PROVE  tb[t] # 0
      BY Zenon DEF Walked, h
    <2>2. t = p \/ Steps(h, t, size) < Steps(h, p, size)
      BY <1>3, <2>1
    <2>. QED BY <2>2, Zenon DEF Walked, h
  <1>5. NotMet(x, tb, p2, size)
    <2>1. SUFFICES ASSUME NEW t \in 0..size - 1, Steps(h, t, size) < Steps(h, p2, size)
                   PROVE  tb[t] # x
      BY Zenon DEF NotMet, h
    <2>2. t = p \/ Steps(h, t, size) < Steps(h, p, size)
      BY <1>3, <2>1
    <2>. QED BY <2>2, Zenon DEF NotMet, h
  <1>. QED
    BY <1>2, <1>4, <1>5

LEMMA HomeIsWalked ==
  ASSUME NEW size \in Nat, size > 0, NEW x \in Nat, NEW tb
  PROVE  Walked(x, tb, x % size, size) /\ NotMet(x, tb, x % size, size)
  <1>. DEFINE h == x % size
  <1>1. h \in 0..size - 1
    BY HomeInTable
  <1>. HIDE DEF h
  <1>2. \A t \in 0..size - 1 : ~(Steps(h, t, size) < Steps(h, h, size))
    BY <1>1 DEF Steps
  <1>3. Walked(x, tb, h, size)
    BY <1>2, Zenon DEF Walked, h
  <1>4. NotMet(x, tb, h, size)
    BY <1>2, Zenon DEF NotMet, h
  <1>. QED
    BY <1>3, <1>4 DEF h

-----------------------------------------------------------------------------
\* The invariant of a call.
Slots == Filter!TableSize(Filter!num_elems)

CallInv ==
  /\ Filter!num_elems \in Sizes
  /\ v1 \in [1..Filter!num_elems -> Universe]
  /\ v2 \in [0..Slots - 1 -> Nat]
  /\ v3 \in 0..Filter!num_elems
  /\ v4 \in 0..Slots - 1
  /\ SlotsStored(v1, v2, v3, Slots)
  /\ Reached(v1, v2, v3, Slots)
  /\ Apart(v1, v3)

WalkInv ==
  v5 = "run" =>
    /\ v3 < Filter!num_elems
    /\ Walked(Filter!e, v2, v4, Slots)
    /\ NotMet(Filter!e, v2, v4, Slots)

EndInv ==
  /\ v5 = "distinct" => v3 = Filter!num_elems
  /\ v5 = "repeated" => \E x \in Universe : Filter!Twice(x)

DistinctInv ==
  /\ v5 \in {"none", "run", "distinct", "repeated"}
  /\ v5 # "none" => CallInv /\ WalkInv /\ EndInv

LEMMA UniverseNat ==
  ASSUME Filter!DistinctAssumption
  PROVE  Universe \subseteq Nat /\ \A n \in Sizes : n \in Nat /\ n \in 1..2^28
  <1>1. Universe \subseteq Nat /\ Sizes \subseteq 1..2^28
    BY Zenon DEF Filter!DistinctAssumption
  <1>. DEFINE c == 2^28
  <1>2. c \in Int
    OBVIOUS
  <1>3. Sizes \subseteq 1..c
    BY <1>1
  <1>. HIDE DEF c
  <1>4. \A n \in Sizes : n \in Nat /\ n \in 1..c
    BY <1>2, <1>3
  <1>. QED
    BY <1>1, <1>4, Zenon DEF c

LEMMA SlotsFit ==
  ASSUME Filter!DistinctAssumption, CallInv
  PROVE  /\ Filter!num_elems \in Nat /\ Filter!num_elems > 0
         /\ Slots \in Nat /\ Slots > 0 /\ Slots <= Filter!TmpWords(Filter!num_elems)
         /\ v1 \in [1..Filter!num_elems -> Nat]
  <1>. DEFINE n == Filter!num_elems
  <1>1. n \in Sizes
    BY Zenon DEF CallInv
  <1>. HIDE DEF n
  <1>2. n \in 1..2^28
    BY <1>1, UniverseNat
  <1>3. Filter!TableSize(n) \in Nat /\ 4 * n <= Filter!TableSize(n)
          /\ Filter!TableSize(n) <= Filter!TmpWords(n)
    BY <1>2, TableFits
  <1>4. n \in Nat /\ n > 0
    BY <1>2
  <1>5. Filter!TableSize(n) > 0
    BY <1>3, <1>4
  <1>6. v1 \in [1..n -> Universe] /\ Universe \subseteq Nat
    BY UniverseNat, Zenon DEF CallInv, n
  <1>7. v1 \in [1..n -> Nat]
    BY <1>6
  <1>. QED
    BY <1>3, <1>4, <1>5, <1>7, Zenon DEF Slots, n

LEMMA DistinctInit ==
  ASSUME Filter!Init
  PROVE  DistinctInv
  BY DEF Filter!Init, DistinctInv

LEMMA CallStarts ==
  ASSUME Filter!DistinctAssumption, NEW n \in Sizes, NEW es \in [1..n -> Universe],
         Filter!distinct(es)
  PROVE  DistinctInv'
  <1>1. n \in Nat /\ n \in 1..2^28 /\ n > 0 /\ Universe \subseteq Nat
    BY UniverseNat
  <1>2. Len(es) = n
    BY <1>1
  <1>. DEFINE sz == Filter!TableSize(n)
  <1>3. sz \in Nat /\ sz > 0
    <2>1. Filter!TableSize(n) \in Nat /\ 4 * n <= Filter!TableSize(n)
      BY <1>1, TableFits
    <2>. QED BY <1>1, <2>1
  <1>4. v1' = es /\ v2' = Filter!Cleared(n) /\ v3' = 0 /\ v4' = es[1] % sz /\ v5' = "run"
    BY <1>2, Zenon DEF Filter!distinct, Filter!fasthash
  <1>5. Filter!num_elems' = n
    BY <1>2, <1>4 DEF Filter!num_elems
  <1>6. Slots' = sz
    BY <1>5, Zenon DEF Slots
  <1>7. v2' = [s \in 0..sz - 1 |-> 0]
    BY <1>4, Zenon DEF Filter!Cleared
  <1>. HIDE DEF sz
  <1>8. v2' \in [0..sz - 1 -> Nat] /\ \A s \in 0..sz - 1 : v2'[s] = 0
    BY <1>7
  <1>9. es[1] \in Nat
    <2>1. 1 \in 1..n
      BY <1>1
    <2>. QED BY <1>1, <2>1, Zenon
  <1>10. v4' \in 0..sz - 1
    BY <1>3, <1>4, <1>9, HomeInTable
  <1>11. SlotsStored(es, v2', 0, sz)
    BY <1>8, Zenon DEF SlotsStored
  <1>12. 1..0 = {}
    OBVIOUS
  <1>13. Reached(es, v2', 0, sz)
    BY <1>12, Zenon DEF Reached
  <1>14. Apart(es, 0)
    BY <1>12, Zenon DEF Apart
  <1>15. CallInv'
    <2>1. 0 \in 0..n
      BY <1>1
    <2>. QED
      BY <1>4, <1>5, <1>6, <1>8, <1>10, <1>11, <1>13, <1>14, <2>1, Zenon DEF CallInv
  <1>16. Filter!e' = es[1]
    <2>1. 0 + 1 = 1
      OBVIOUS
    <2>. QED BY <1>4, <2>1, Zenon DEF Filter!e
  <1>17. Walked(es[1], v2', v4', sz) /\ NotMet(es[1], v2', v4', sz)
    <2>. DEFINE x == es[1]
                tb == v2'
    <2>1. x \in Nat /\ v4' = x % sz
      BY <1>4, <1>9
    <2>. HIDE DEF x, tb
    <2>2. Walked(x, tb, x % sz, sz) /\ NotMet(x, tb, x % sz, sz)
      BY <1>3, <2>1, HomeIsWalked
    <2>. QED BY <2>1, <2>2, Zenon DEF x, tb
  <1>18. WalkInv'
    BY <1>1, <1>4, <1>5, <1>6, <1>16, <1>17 DEF WalkInv
  <1>19. EndInv'
    BY <1>4, Zenon DEF EndInv
  <1>. QED
    BY <1>4, <1>15, <1>18, <1>19 DEF DistinctInv

LEMMA StoreStep ==
  ASSUME Filter!DistinctAssumption, DistinctInv, Filter!Store
  PROVE  DistinctInv'
  <1>1. CallInv /\ WalkInv /\ v5 = "run" /\ v2[v4] = 0
    BY DEF DistinctInv, Filter!Store, Filter!Free, Filter!val
  <1>. DEFINE n == Filter!num_elems
              sz == Slots
              x == v1[v3 + 1]
              q == v3 + 1
              tb2 == v2'
  <1>2. /\ n \in Nat /\ sz \in Nat /\ sz > 0
        /\ v1 \in [1..n -> Nat]
    BY <1>1, SlotsFit
  <1>3. /\ v3 \in 0..n /\ v4 \in 0..sz - 1 /\ v2 \in [0..sz - 1 -> Nat]
        /\ v1 \in [1..n -> Universe] /\ n \in Sizes
        /\ SlotsStored(v1, v2, v3, sz)
        /\ Reached(v1, v2, v3, sz)
        /\ Apart(v1, v3)
    BY <1>1, Zenon DEF CallInv
  <1>4. v3 < n /\ Walked(x, v2, v4, sz) /\ NotMet(x, v2, v4, sz)
    BY <1>1, Zenon DEF WalkInv, Filter!e
  <1>5. /\ v2' = [v2 EXCEPT ![v4] = x] /\ v3' = q /\ v1' = v1
        /\ IF v3' = n
           THEN v5' = "distinct" /\ v4' = v4
           ELSE v4' = v1[v3' + 1] % sz /\ v5' = v5
    BY Zenon DEF Filter!Store, Filter!e, Filter!fasthash, Slots
  <1>6. Filter!num_elems' = n /\ Slots' = sz
    BY <1>5, Zenon DEF Filter!num_elems, Slots
  <1>. HIDE DEF n, sz
  <1>7. q \in Nat /\ q \in 0..n /\ v3 \in Nat
    BY <1>2, <1>3, <1>4
  <1>8. /\ tb2 \in [0..sz - 1 -> Nat]
        /\ SlotsStored(v1, tb2, q, sz)
        /\ Reached(v1, tb2, q, sz)
        /\ Apart(v1, q)
    <2>1. tb2 = [v2 EXCEPT ![v4] = v1[v3 + 1]]
      BY <1>5, Zenon
    <2>. HIDE DEF tb2
    <2>. QED BY <1>1, <1>2, <1>3, <1>4, <1>7, <2>1, StoreKeeps
  <1>. HIDE DEF q, tb2
  <1>9. CASE q = n
    <2>1. v5' = "distinct" /\ v4' = v4
      BY <1>5, <1>9, Zenon
    <2>2. CallInv'
      BY <1>3, <1>5, <1>6, <1>7, <1>8, <2>1, Zenon DEF CallInv, tb2
    <2>3. WalkInv' /\ EndInv'
      BY <1>5, <1>6, <1>9, <2>1 DEF WalkInv, EndInv
    <2>. QED BY <2>1, <2>2, <2>3 DEF DistinctInv
  <1>10. CASE q # n
    <2>. DEFINE y == v1[q + 1]
    <2>1. v5' = "run" /\ v4' = y % sz
      BY <1>1, <1>5, <1>10, Zenon
    <2>2. y \in Nat /\ q < n
      BY <1>2, <1>7, <1>10
    <2>3. Filter!e' = y
      BY <1>5, Zenon DEF Filter!e
    <2>. HIDE DEF y
    <2>4. v4' \in 0..sz - 1
      BY <1>2, <2>1, <2>2, HomeInTable
    <2>5. CallInv'
      BY <1>3, <1>5, <1>6, <1>7, <1>8, <2>4, Zenon DEF CallInv, tb2
    <2>6. Walked(y, tb2, y % sz, sz) /\ NotMet(y, tb2, y % sz, sz)
      BY <1>2, <2>2, HomeIsWalked
    <2>7. WalkInv'
      BY <1>5, <1>6, <2>1, <2>2, <2>3, <2>6 DEF WalkInv, tb2
    <2>8. EndInv'
      BY <2>1, Zenon DEF EndInv
    <2>. QED BY <2>1, <2>5, <2>7, <2>8 DEF DistinctInv
  <1>. QED
    BY <1>9, <1>10

LEMMA FoundStep ==
  ASSUME Filter!DistinctAssumption, DistinctInv, Filter!Found
  PROVE  DistinctInv'
  <1>1. CallInv /\ WalkInv /\ v5 = "run" /\ v2[v4] # 0 /\ v2[v4] = v1[v3 + 1]
    BY DEF DistinctInv, Filter!Found, Filter!Free, Filter!Same, Filter!val, Filter!e
  <1>2. v5' = "repeated" /\ v1' = v1 /\ v2' = v2 /\ v3' = v3 /\ v4' = v4
    BY Zenon DEF Filter!Found
  <1>3. Filter!num_elems' = Filter!num_elems /\ Slots' = Slots
    BY <1>2, Zenon DEF Filter!num_elems, Slots
  <1>4. CallInv'
    BY <1>1, <1>2, <1>3, Zenon DEF CallInv
  <1>5. PICK k \in 1..v3 : v2[v4] = v1[k]
    BY <1>1, Zenon DEF CallInv, SlotsStored
  <1>. DEFINE n == Filter!num_elems
              q == v3 + 1
  <1>6. n \in Nat /\ v3 \in 0..n /\ v3 < n /\ v1 \in [1..n -> Universe]
    BY <1>1, SlotsFit, Zenon DEF CallInv, WalkInv
  <1>. HIDE DEF n
  <1>7. q \in 1..n /\ k \in 1..n /\ k # q /\ v1[q] \in Universe /\ v1[k] = v1[q]
    BY <1>1, <1>5, <1>6
  <1>8. \E x \in Universe : Filter!Twice(x)
    BY <1>7, Zenon DEF Filter!Twice, n
  <1>9. (\E x \in Universe : Filter!Twice(x))'
    BY <1>2, <1>3, <1>8, Zenon DEF Filter!Twice
  <1>10. EndInv' /\ WalkInv'
    BY <1>2, <1>9 DEF EndInv, WalkInv
  <1>. QED
    BY <1>2, <1>4, <1>10 DEF DistinctInv

LEMMA CollideStep ==
  ASSUME Filter!DistinctAssumption, DistinctInv, Filter!Collide
  PROVE  DistinctInv'
  <1>1. /\ CallInv /\ WalkInv /\ EndInv /\ v5 = "run"
        /\ v2[v4] # 0 /\ v2[v4] # v1[v3 + 1]
    BY DEF DistinctInv, Filter!Collide, Filter!Free, Filter!Same, Filter!val, Filter!e
  <1>2. v5' = v5 /\ v1' = v1 /\ v2' = v2 /\ v3' = v3 /\ v4' = Filter!After(v4)
    BY Zenon DEF Filter!Collide
  <1>3. Filter!num_elems' = Filter!num_elems /\ Slots' = Slots /\ Filter!e' = Filter!e
    BY <1>2, Zenon DEF Filter!num_elems, Slots, Filter!e
  <1>. DEFINE sz == Slots
              x == v1[v3 + 1]
  <1>4. sz \in Nat /\ sz > 0 /\ x \in Nat /\ v4 \in 0..sz - 1
    <2>. DEFINE n == Filter!num_elems
    <2>1. /\ n \in Nat /\ v3 \in 0..n /\ v3 < n /\ v1 \in [1..n -> Nat]
          /\ sz \in Nat /\ sz > 0 /\ v4 \in 0..sz - 1
      BY <1>1, SlotsFit, Zenon DEF CallInv, WalkInv
    <2>. HIDE DEF n, sz
    <2>. QED BY <2>1
  <1>5. Walked(x, v2, v4, sz) /\ NotMet(x, v2, v4, sz)
    BY <1>1, Zenon DEF WalkInv, Filter!e
  <1>6. v4' = IF v4 + 1 >= sz THEN 0 ELSE v4 + 1
    BY <1>2, Zenon DEF Filter!After, Slots
  <1>7. v2[v4] # 0 /\ v2[v4] # x
    BY <1>1
  <1>. HIDE DEF sz, x
  <1>8. /\ v4' \in 0..sz - 1
        /\ Walked(x, v2, v4', sz)
        /\ NotMet(x, v2, v4', sz)
    <2>. DEFINE p == v4
                p2 == v4'
                tb == v2
    <2>1. p2 = IF p + 1 >= sz THEN 0 ELSE p + 1
      BY <1>6
    <2>. HIDE DEF p2
    <2>2. /\ p2 \in 0..sz - 1
          /\ Walked(x, tb, p2, sz)
          /\ NotMet(x, tb, p2, sz)
      BY <1>4, <1>5, <1>7, <2>1, CollideKeeps
    <2>. QED BY <2>2 DEF p2
  <1>9. CallInv'
    BY <1>1, <1>2, <1>3, <1>8, Zenon DEF CallInv, sz
  <1>10. WalkInv'
    <2>1. v3 < Filter!num_elems
      BY <1>1, Zenon DEF WalkInv
    <2>. QED BY <1>2, <1>3, <1>8, <2>1, Zenon DEF WalkInv, sz, x, Filter!e
  <1>11. EndInv'
    BY <1>1, <1>2, Zenon DEF EndInv
  <1>. QED
    BY <1>1, <1>2, <1>9, <1>10, <1>11 DEF DistinctInv

LEMMA DistinctStep ==
  ASSUME Filter!DistinctAssumption, DistinctInv, Filter!Next
  PROVE  DistinctInv'
  BY StoreStep, FoundStep, CollideStep, CallStarts, Zenon DEF Filter!Next, Filter!Walk

LEMMA DistinctStutter ==
  ASSUME DistinctInv, UNCHANGED Filter!vars
  PROVE  DistinctInv'
  <1>1. v1' = v1 /\ v2' = v2 /\ v3' = v3 /\ v4' = v4 /\ v5' = v5
    BY Zenon DEF Filter!vars
  <1>2. Filter!num_elems' = Filter!num_elems /\ Slots' = Slots /\ Filter!e' = Filter!e
    BY <1>1, Zenon DEF Filter!num_elems, Slots, Filter!e
  <1>3. CallInv => CallInv'
    BY <1>1, <1>2, Zenon DEF CallInv
  <1>4. WalkInv => WalkInv'
    BY <1>1, <1>2, Zenon DEF WalkInv
  <1>5. (\E x \in Universe : Filter!Twice(x)) => (\E x \in Universe : Filter!Twice(x))'
    BY <1>1, <1>2, Zenon DEF Filter!Twice
  <1>6. EndInv => EndInv'
    BY <1>1, <1>2, <1>5, Zenon DEF EndInv
  <1>. QED
    BY <1>1, <1>3, <1>4, <1>6 DEF DistinctInv

-----------------------------------------------------------------------------
\* The slots a walk visits before s, counted from the hash.
LEMMA BeforeIsWalked ==
  ASSUME Filter!DistinctAssumption, CallInv, NEW x \in Nat, NEW s \in 0..Slots - 1,
         Walked(x, v2, s, Slots)
  PROVE  \A t \in Filter!Before(x, s) : v2[t] # 0
  <1>. DEFINE sz == Slots
              h == x % sz
  <1>1. sz \in Nat /\ sz > 0
    BY SlotsFit
  <1>2. Filter!Before(x, s) = {(h + k) % sz : k \in 0..(s - h) % sz} \ {s}
    BY Zenon DEF Filter!Before, Filter!fasthash, Slots
  <1>. HIDE DEF sz
  <1>3. h \in 0..sz - 1 /\ s \in 0..sz - 1
    BY <1>1, HomeInTable DEF sz
  <1>4. \A t \in 0..sz - 1 : Steps(h, t, sz) < Steps(h, s, sz) => v2[t] # 0
    BY Zenon DEF Walked, sz
  <1>. HIDE DEF h
  <1>5. {(h + k) % sz : k \in 0..(s - h) % sz} \ {s}
          = {t \in 0..sz - 1 : Steps(h, t, sz) < Steps(h, s, sz)}
    BY <1>1, <1>3, Before1
  <1>. QED
    BY <1>2, <1>4, <1>5, Zenon

LEMMA DistinctRight ==
  ASSUME Filter!DistinctAssumption, DistinctInv
  PROVE  Filter!NoFalseAlarm /\ Filter!PassedIsDistinct /\ Filter!WalksReach
  <1>1. Filter!NoFalseAlarm
    <2>1. v5 = "repeated" => v5 # "none"
      OBVIOUS
    <2>. QED BY <2>1, Zenon DEF DistinctInv, EndInv, Filter!NoFalseAlarm
  <1>2. Filter!PassedIsDistinct
    <2>1. SUFFICES ASSUME v5 = "distinct", NEW x \in Universe \ {0}, Filter!Twice(x)
                   PROVE  FALSE
      BY Zenon DEF Filter!PassedIsDistinct
    <2>2. v5 # "none"
      BY <2>1
    <2>3. v3 = Filter!num_elems /\ Apart(v1, v3)
      BY <2>1, <2>2, Zenon DEF DistinctInv, CallInv, EndInv
    <2>4. PICK a, b \in 1..Filter!num_elems : a # b /\ v1[a] = x /\ v1[b] = x
      BY <2>1, Zenon DEF Filter!Twice
    <2>5. v1[a] # 0
      BY <2>1, <2>4
    <2>6. v1[a] # v1[b]
      BY <2>3, <2>4, <2>5, Zenon DEF Apart
    <2>. QED BY <2>4, <2>6
  <1>3. Filter!WalksReach
    <2>1. SUFFICES ASSUME v5 # "none"
                   PROVE  /\ v4 \in DOMAIN v2
                          /\ Filter!TableSize(Filter!num_elems) <= Filter!TmpWords(Filter!num_elems)
                          /\ \A k \in 1..v3 : v1[k] # 0 =>
                               \E s \in DOMAIN v2 :
                                 v2[s] = v1[k] /\ \A t \in Filter!Before(v1[k], s) : v2[t] # 0
      BY Zenon DEF Filter!WalksReach
    <2>2. CallInv
      BY <2>1, Zenon DEF DistinctInv
    <2>3. /\ v2 \in [0..Slots - 1 -> Nat] /\ v4 \in 0..Slots - 1
          /\ Reached(v1, v2, v3, Slots) /\ v3 \in 0..Filter!num_elems
      BY <2>2, Zenon DEF CallInv
    <2>4. DOMAIN v2 = 0..Slots - 1
      BY <2>3, Zenon
    <2>5. Filter!TableSize(Filter!num_elems) <= Filter!TmpWords(Filter!num_elems)
      BY <2>2, SlotsFit, Zenon DEF Slots
    <2>6. ASSUME NEW k \in 1..v3, v1[k] # 0
          PROVE  \E s \in DOMAIN v2 :
                   v2[s] = v1[k] /\ \A t \in Filter!Before(v1[k], s) : v2[t] # 0
      <3>1. PICK s \in 0..Slots - 1 :
              v2[s] = v1[k] /\ Walked(v1[k], v2, s, Slots)
        BY <2>3, <2>6, Zenon DEF Reached
      <3>. DEFINE n == Filter!num_elems
                  x == v1[k]
      <3>2. n \in Nat /\ v1 \in [1..n -> Nat] /\ v3 \in 0..n
        BY <2>2, <2>3, SlotsFit
      <3>. HIDE DEF n
      <3>3. x \in Nat
        BY <3>2
      <3>. HIDE DEF x
      <3>4. Walked(x, v2, s, Slots)
        BY <3>1 DEF x
      <3>5. \A t \in Filter!Before(x, s) : v2[t] # 0
        BY <2>2, <3>3, <3>4, BeforeIsWalked
      <3>. QED BY <2>4, <3>1, <3>5, Zenon DEF x
    <2>. QED BY <2>3, <2>4, <2>5, <2>6, Zenon
  <1>. QED
    BY <1>1, <1>2, <1>3

-----------------------------------------------------------------------------
(***************************************************************************)
(* The loops over blocks of AES.cpp (module AesBlocks): what the batches   *)
(* of eight and the remainder store together, for every number of blocks   *)
(* and every first counter.  v1 to v6 are op, blockLength, inPlace,        *)
(* baseIdx, idx and mem.                                                   *)
(***************************************************************************)
\* What the variables are during a call: up to length the index is a whole number
\* of batches.
BlocksTyped ==
  /\ v1 \in {"ECB", "MMO", "CTR"}
  /\ v2 \in 0..MaxBlocks
  /\ v3 \in BOOLEAN
  /\ v1 = "CTR" => v3
  /\ v4 \in Nat
  /\ v5 \in 0..v2
  /\ v5 <= Blocks!length => v5 % Blocks!step = 0
  /\ v6 = [c \in Blocks!Cells |-> v6[c]]

\* The plaintexts that are still to be read are as the caller left them.
Unread == \A i \in v5..v2 - 1 : v6[Blocks!Plain(i)] = Blocks!Original(i)

\* The mask of block i with separate buffers.
MaskIndex(i) == IF i >= Blocks!length THEN i ELSE i % Blocks!step

MmoMasked ==
  v1 = "MMO" /\ ~v3 =>
    \A i \in 0..v5 - 1 : v6[Blocks!Cipher(i)] =
                           Blocks!Xor(Blocks!Encrypt(Blocks!Original(i)),
                             Blocks!Original(MaskIndex(i)))

LoopsInv ==
  /\ BlocksTyped /\ Unread
  /\ Blocks!EcbExact /\ Blocks!CtrExact /\ MmoMasked /\ Blocks!MmoInPlace /\ Blocks!NoStrayWrites

-----------------------------------------------------------------------------
\* Arithmetic of batches.
LEMMA Batches ==
  ASSUME NEW n \in Nat, NEW x \in Nat, x % 8 = 0
  PROVE  LET l == n - (n % 8) IN
         /\ l \in 0..n
         /\ l % 8 = 0
         /\ x < l => x + 8 <= l
         /\ (x + 8) % 8 = 0
         /\ \A k \in 0..7 : (x + k) % 8 = k
         /\ \A i \in Nat : i % 8 = i <=> i < 8
         /\ x < 8 => x = 0
  OBVIOUS

LEMMA LengthFacts ==
  ASSUME BlocksTyped, Blocks!AesBlocksAssumption
  PROVE  /\ Blocks!length \in 0..v2
         /\ Blocks!length \in Int
         /\ v5 < Blocks!length => v5 + 8 <= Blocks!length /\ v5 % 8 = 0 /\ (v5 + 8) % 8 = 0
         /\ v5 >= Blocks!length /\ v5 < v2 => ~(v5 + 1 <= Blocks!length)
  BY DEF BlocksTyped, Blocks!length, Blocks!step, Blocks!AesBlocksAssumption

\* Cells of ciphertexts are apart from one another, and from plaintexts to come.
LEMMA CipherCells ==
  ASSUME BlocksTyped, Blocks!AesBlocksAssumption
  PROVE  /\ \A i \in 0..v2 - 1 :
              /\ Blocks!Cipher(i) \in Blocks!Cells /\ Blocks!Cipher(i) \in Int
              /\ Blocks!Plain(i) \in Blocks!Cells
              /\ Blocks!Cipher(i) # 2 * MaxBlocks
              /\ Blocks!Cipher(i) < v2 \/ Blocks!Cipher(i) < Blocks!Cipher(v2)
              /\ v3 => Blocks!Cipher(i) = i
              /\ ~v3 => Blocks!Cipher(i) \notin 0..v2 - 1
         /\ \A i, j \in 0..v2 - 1 : Blocks!Cipher(i) = Blocks!Cipher(j) => i = j
         /\ \A i, j \in 0..v2 - 1 : Blocks!Cipher(i) = Blocks!Plain(j) => v3 /\ i = j
  BY DEF BlocksTyped, Blocks!AesBlocksAssumption, Blocks!Cipher, Blocks!Plain, Blocks!Cells

\* What a batch leaves in a cell.
LEMMA BatchCells ==
  ASSUME BlocksTyped, Blocks!AesBlocksAssumption, v5 < Blocks!length, NEW value
  PROVE  /\ \A k \in 0..Blocks!step - 1 : Blocks!Stored8(value)[Blocks!Cipher(v5 + k)] = value[k]
         /\ \A c \in Blocks!Cells : (\A k \in 0..Blocks!step - 1 : c # Blocks!Cipher(v5 + k))
                               => Blocks!Stored8(value)[c] = v6[c]
         /\ Blocks!Stored8(value) = [c \in Blocks!Cells |-> Blocks!Stored8(value)[c]]
  <1>1. \A k \in 0..7 : v5 + k \in 0..v2 - 1
    BY LengthFacts DEF BlocksTyped
  <1>2. ASSUME NEW k \in 0..Blocks!step - 1
        PROVE  Blocks!Stored8(value)[Blocks!Cipher(v5 + k)] = value[k]
    <2>1. Blocks!Cipher(v5 + k) \in Blocks!Cells
      BY <1>1, CipherCells DEF Blocks!step
    <2>2. \A j \in 0..Blocks!step - 1 : Blocks!Cipher(v5 + k) = Blocks!Cipher(v5 + j) => j = k
      BY <1>1, CipherCells DEF Blocks!step, BlocksTyped
    <2>. DEFINE j == CHOOSE j \in 0..Blocks!step - 1 : Blocks!Cipher(v5 + k) = Blocks!Cipher(v5 + j)
    <2>3. j \in 0..Blocks!step - 1 /\ Blocks!Cipher(v5 + k) = Blocks!Cipher(v5 + j)
      OBVIOUS
    <2>4. j = k
      BY <2>2, <2>3
    <2>. QED
      BY <2>1, <2>4, Zenon DEF Blocks!Stored8
  <1>3. ASSUME NEW c \in Blocks!Cells, \A k \in 0..Blocks!step - 1 : c # Blocks!Cipher(v5 + k)
        PROVE  Blocks!Stored8(value)[c] = v6[c]
    BY <1>3, Zenon DEF Blocks!Stored8
  <1>4. Blocks!Stored8(value) = [c \in Blocks!Cells |-> Blocks!Stored8(value)[c]]
    BY Zenon DEF Blocks!Stored8
  <1>. QED
    BY <1>2, <1>3, <1>4

-----------------------------------------------------------------------------
\* The blocks a mask can be told from.
LEMMA MaskTold ==
  ASSUME NEW i \in Int, NEW j \in Int
  PROVE  Blocks!Xor(Blocks!Encrypt(Blocks!Original(i)), Blocks!Original(j)) =
         Blocks!Xor(Blocks!Encrypt(Blocks!Original(i)), Blocks!Original(i))
           <=> i = j
  <1>1. <<"plaintext", i>> \in Blocks!Xor(Blocks!Encrypt(Blocks!Original(i)), Blocks!Original(i))
    BY DEF Blocks!Xor, Blocks!Encrypt, Blocks!Original
  <1>2. <<"plaintext", i>> \in Blocks!Xor(Blocks!Encrypt(Blocks!Original(i)),
          Blocks!Original(j)) => i = j
    BY DEF Blocks!Xor, Blocks!Encrypt, Blocks!Original
  <1>. QED
    BY <1>1, <1>2

LEMMA MaskedIsExact ==
  ASSUME BlocksTyped, Blocks!AesBlocksAssumption, MmoMasked
  PROVE  Blocks!MmoExact
  <1>. SUFFICES ASSUME v1 = "MMO" /\ ~v3, NEW i \in 0..v5 - 1
                PROVE  v6[Blocks!Cipher(i)] =
                         Blocks!Xor(Blocks!Encrypt(Blocks!Original(i)), Blocks!Original(i))
                           <=> i < Blocks!step \/ i >= Blocks!length
    BY DEF Blocks!MmoExact
  <1>1. MaskIndex(i) \in Int /\ i \in Int
    BY DEF MaskIndex, BlocksTyped, Blocks!step
  <1>2. i = MaskIndex(i) <=> i < Blocks!step \/ i >= Blocks!length
    BY LengthFacts DEF MaskIndex, Blocks!step, BlocksTyped
  <1>3. v6[Blocks!Cipher(i)] =
          Blocks!Xor(Blocks!Encrypt(Blocks!Original(i)), Blocks!Original(MaskIndex(i)))
    BY DEF MmoMasked
  <1>. QED
    BY <1>1, <1>2, <1>3, MaskTold

-----------------------------------------------------------------------------
LEMMA BlocksInit ==
  ASSUME Blocks!Init, Blocks!AesBlocksAssumption
  PROVE  LoopsInv
  <1>1. BlocksTyped
    <2>1. v6 = [c \in Blocks!Cells |-> v6[c]]
      BY Zenon DEF Blocks!Init
    <2>2. v4 \in Nat
      <3>1. CASE v1 = "CTR"
        BY <3>1 DEF Blocks!Init, Blocks!AesBlocksAssumption
      <3>2. CASE v1 # "CTR"
        BY <3>2 DEF Blocks!Init
      <3>. QED BY <3>1, <3>2
    <2>3. v3 \in BOOLEAN /\ (v1 = "CTR" => v3)
      BY Zenon DEF Blocks!Init
    <2>. QED
      BY <2>1, <2>2, <2>3
           DEF Blocks!Init, BlocksTyped, Blocks!AesBlocksAssumption, Blocks!length, Blocks!step
  <1>2. \A c \in Blocks!Cells : v6[c] = IF c < v2 THEN Blocks!Original(c)
                            ELSE IF c < 2 * v2 /\ ~v3 THEN Blocks!Unwritten ELSE Blocks!Outside
    BY Zenon DEF Blocks!Init
  <1>3. Unread
    BY <1>1, <1>2, CipherCells DEF Unread, Blocks!Plain, BlocksTyped, Blocks!Init
  <1>4. Blocks!NoStrayWrites
    <2>1. v6[2 * MaxBlocks] = Blocks!Outside
      <3>1. 2 * MaxBlocks \in Blocks!Cells /\ ~(2 * MaxBlocks < v2) /\ ~(2 * MaxBlocks < 2 * v2)
        BY <1>1 DEF BlocksTyped, Blocks!Cells, Blocks!AesBlocksAssumption
      <3>. QED BY <3>1, <1>2
    <2>2. ASSUME NEW c \in Blocks!Cells, c >= v2, c >= Blocks!Cipher(v2)
          PROVE  v6[c] = Blocks!Outside
      <3>1. ~(c < v2) /\ ~(c < 2 * v2 /\ ~v3)
        BY <1>1, <2>2 DEF BlocksTyped, Blocks!Cells, Blocks!Cipher, Blocks!AesBlocksAssumption
      <3>. QED BY <3>1, <1>2
    <2>3. ASSUME NEW i \in 0..v2 - 1 PROVE v6[Blocks!Plain(i)] = Blocks!Original(i)
      BY <1>1, <1>2, CipherCells DEF BlocksTyped, Blocks!Plain
    <2>. QED BY <2>1, <2>2, <2>3 DEF Blocks!NoStrayWrites
  <1>5. v5 = 0
    BY DEF Blocks!Init
  <1>. QED
    BY <1>1, <1>3, <1>4, <1>5
         DEF LoopsInv, Blocks!EcbExact, Blocks!CtrExact, MmoMasked, Blocks!MmoInPlace

-----------------------------------------------------------------------------
\* The next by blocks are stored, and nothing else is written.
StoresOnly(by) ==
  /\ UNCHANGED <<v1, v2, v3>>
  /\ v5' = v5 + by
  /\ v6' = [c \in Blocks!Cells |-> v6'[c]]
  /\ \A c \in Blocks!Cells : (\A i \in v5..v5 + by - 1 : c # Blocks!Cipher(i)) => v6'[c] = v6[c]

LEMMA Frame ==
  ASSUME BlocksTyped, Unread, Blocks!NoStrayWrites, Blocks!AesBlocksAssumption,
         NEW by \in Nat, v5 + by <= v2, StoresOnly(by),
         v4' \in Nat, v5 + by <= Blocks!length => (v5 + by) % Blocks!step = 0
  PROVE  /\ BlocksTyped' /\ Unread' /\ Blocks!NoStrayWrites'
         /\ \A i \in 0..v5 - 1 : v6'[Blocks!Cipher(i)] = v6[Blocks!Cipher(i)]
         /\ \A i \in 0..v2 - 1 : Blocks!Cipher(i)' = Blocks!Cipher(i)
         /\ Blocks!length' = Blocks!length
         /\ v3 => \A i \in 0..v5 - 1 : v6'[i] = v6[i]
  <1>1. Blocks!length' = Blocks!length /\ Blocks!Cells' = Blocks!Cells
    BY DEF StoresOnly, Blocks!length, Blocks!step, Blocks!Cells
  <1>2. BlocksTyped'
    BY <1>1 DEF StoresOnly, BlocksTyped, Blocks!step
  <1>3. ASSUME NEW i \in 0..v5 - 1
        PROVE  v6'[Blocks!Cipher(i)] = v6[Blocks!Cipher(i)] /\ (v3 => v6'[i] = v6[i])
    <2>1. \A j \in v5..v5 + by - 1 : Blocks!Cipher(i) # Blocks!Cipher(j)
      BY CipherCells DEF BlocksTyped
    <2>2. Blocks!Cipher(i) \in Blocks!Cells /\ (v3 => Blocks!Cipher(i) = i)
      BY CipherCells DEF BlocksTyped
    <2>. QED
      BY <2>1, <2>2 DEF StoresOnly
  <1>4. ASSUME NEW i \in 0..v2 - 1 PROVE Blocks!Cipher(i)' = Blocks!Cipher(i)
    BY DEF Blocks!Cipher, StoresOnly
  <1>5. Unread'
    <2>. SUFFICES ASSUME NEW i \in v5 + by..v2 - 1 PROVE v6'[Blocks!Plain(i)] = Blocks!Original(i)
      BY DEF Unread, StoresOnly, Blocks!Plain
    <2>1. i \in 0..v2 - 1 /\ i \in v5..v2 - 1
      BY DEF BlocksTyped
    <2>2. \A j \in v5..v5 + by - 1 : j \in 0..v2 - 1 /\ j # i
      BY DEF BlocksTyped
    <2>3. \A j \in v5..v5 + by - 1 : Blocks!Plain(i) # Blocks!Cipher(j)
      BY <2>1, <2>2, CipherCells
    <2>4. v6'[Blocks!Plain(i)] = v6[Blocks!Plain(i)]
      BY <2>1, <2>3, CipherCells DEF StoresOnly
    <2>. QED
      BY <2>1, <2>4 DEF Unread
  <1>6. Blocks!NoStrayWrites'
    <2>1. \A j \in v5..v5 + by - 1 : j \in 0..v2 - 1
      BY DEF BlocksTyped
    <2>2. v6'[2 * MaxBlocks] = Blocks!Outside
      <3>1. 2 * MaxBlocks \in Blocks!Cells
        BY DEF Blocks!Cells, Blocks!AesBlocksAssumption
      <3>2. \A j \in v5..v5 + by - 1 : 2 * MaxBlocks # Blocks!Cipher(j)
        BY <2>1, CipherCells
      <3>. QED BY <3>1, <3>2 DEF StoresOnly, Blocks!NoStrayWrites
    <2>3. ASSUME NEW c \in Blocks!Cells, c >= v2, c >= Blocks!Cipher(v2)
          PROVE  v6'[c] = Blocks!Outside
      <3>1. \A j \in v5..v5 + by - 1 : c # Blocks!Cipher(j)
        <4>. SUFFICES ASSUME NEW j \in v5..v5 + by - 1, c = Blocks!Cipher(j) PROVE FALSE
          OBVIOUS
        <4>1. Blocks!Cipher(j) < v2 \/ Blocks!Cipher(j) < Blocks!Cipher(v2)
          BY <2>1, CipherCells
        <4>. QED BY <4>1, <2>3 DEF Blocks!Cipher, BlocksTyped, Blocks!Cells
      <3>. QED BY <3>1, <2>3 DEF StoresOnly, Blocks!NoStrayWrites
    <2>4. ASSUME ~v3, NEW i \in 0..v2 - 1 PROVE v6'[Blocks!Plain(i)] = Blocks!Original(i)
      <3>1. \A j \in v5..v5 + by - 1 : Blocks!Plain(i) # Blocks!Cipher(j)
        BY <2>1, <2>4, CipherCells
      <3>2. Blocks!Plain(i) \in Blocks!Cells
        BY CipherCells
      <3>. QED BY <3>1, <3>2, <2>4 DEF StoresOnly, Blocks!NoStrayWrites
    <2>5. Blocks!Cipher(v2)' = Blocks!Cipher(v2)
      BY DEF Blocks!Cipher, StoresOnly
    <2>. QED
      BY <2>2, <2>3, <2>4, <2>5, <1>1 DEF Blocks!NoStrayWrites, StoresOnly, Blocks!Plain
  <1>. QED
    BY <1>1, <1>2, <1>3, <1>4, <1>5, <1>6

\* A batch stores the eight blocks at the index, and each from what was read there.
LEMMA BatchStores ==
  ASSUME BlocksTyped, Unread, Blocks!AesBlocksAssumption, v5 < Blocks!length, NEW value,
         v6' = Blocks!Stored8(value), Blocks!Advance(Blocks!step)
  PROVE  /\ StoresOnly(Blocks!step)
         /\ v5 + Blocks!step <= v2
         /\ v5 + Blocks!step <= Blocks!length => (v5 + Blocks!step) % Blocks!step = 0
         /\ \A k \in 0..Blocks!step - 1 : v6'[Blocks!Cipher(v5 + k)] = value[k]
         /\ \A k \in 0..Blocks!step - 1 : Blocks!Plaintext(k) = Blocks!Original(v5 + k)
  <1>1. v5 + 8 <= Blocks!length /\ (v5 + 8) % 8 = 0 /\ Blocks!length <= v2 /\ v5 + 8 <= v2
    BY LengthFacts DEF BlocksTyped
  <1>2. StoresOnly(Blocks!step)
    <2>1. ASSUME NEW c \in Blocks!Cells, \A i \in v5..v5 + Blocks!step - 1 : c # Blocks!Cipher(i)
          PROVE  v6'[c] = v6[c]
      <3>1. \A k \in 0..Blocks!step - 1 : c # Blocks!Cipher(v5 + k)
        <4>. SUFFICES ASSUME NEW k \in 0..Blocks!step - 1 PROVE c # Blocks!Cipher(v5 + k)
          OBVIOUS
        <4>1. v5 + k \in v5..v5 + Blocks!step - 1
          BY DEF Blocks!step, BlocksTyped
        <4>. QED BY <4>1, <2>1
      <3>. QED BY <3>1, BatchCells
    <2>2. v6' = [c \in Blocks!Cells |-> v6'[c]]
      BY BatchCells
    <2>. QED BY <2>1, <2>2 DEF StoresOnly, Blocks!Advance
  <1>3. ASSUME NEW k \in 0..Blocks!step - 1 PROVE Blocks!Plaintext(k) = Blocks!Original(v5 + k)
    <2>1. v5 + k \in v5..v2 - 1
      BY <1>1 DEF BlocksTyped, Blocks!step
    <2>. QED BY <2>1 DEF Blocks!Plaintext, Unread
  <1>4. \A k \in 0..Blocks!step - 1 : v6'[Blocks!Cipher(v5 + k)] = value[k]
    BY BatchCells
  <1>. QED
    BY <1>1, <1>2, <1>3, <1>4 DEF Blocks!step

\* The remainder stores one block, whatever it is.
LEMMA SingleStores ==
  ASSUME BlocksTyped, Unread, Blocks!AesBlocksAssumption, v5 >= Blocks!length, v5 < v2, NEW value,
         v6' = [v6 EXCEPT ![Blocks!Cipher(v5)] = value], Blocks!Advance(1)
  PROVE  /\ StoresOnly(1)
         /\ v5 + 1 <= v2
         /\ v5 + 1 <= Blocks!length => (v5 + 1) % Blocks!step = 0
         /\ v6'[Blocks!Cipher(v5)] = value
         /\ v6[Blocks!Plain(v5)] = Blocks!Original(v5)
  <1>1. v5 \in 0..v2 - 1 /\ v5 + 1 <= v2 /\ ~(v5 + 1 <= Blocks!length)
    BY LengthFacts DEF BlocksTyped
  <1>2. Blocks!Cipher(v5) \in Blocks!Cells
    BY <1>1, CipherCells
  <1>3. v6' = [c \in Blocks!Cells |-> v6'[c]] /\ v6'[Blocks!Cipher(v5)] = value
    BY <1>2, Zenon DEF BlocksTyped
  <1>4. \A c \in Blocks!Cells : c # Blocks!Cipher(v5) => v6'[c] = v6[c]
    BY Zenon DEF BlocksTyped
  <1>5. v5 \in v5..v5 + 1 - 1
    BY DEF BlocksTyped
  <1>6. v6[Blocks!Plain(v5)] = Blocks!Original(v5)
    BY <1>1 DEF Unread, BlocksTyped
  <1>. QED
    BY <1>1, <1>3, <1>4, <1>5, <1>6 DEF StoresOnly, Blocks!Advance

\* Indices up to the next one: those stored before, and those of the batch.
LEMMA OldOrBatch ==
  ASSUME BlocksTyped, NEW i \in 0..v5 + Blocks!step - 1
  PROVE  i \in 0..v5 - 1 \/ \E k \in 0..Blocks!step - 1 : i = v5 + k
  <1>. SUFFICES ASSUME i \notin 0..v5 - 1 PROVE i - v5 \in 0..Blocks!step - 1 /\ i = v5 + (i - v5)
    BY Zenon
  <1>. QED
    BY DEF BlocksTyped, Blocks!step

LEMMA OtherOperation ==
  ASSUME NEW other \in {"ECB", "MMO", "CTR"}, v1 = other, v1' = v1
  PROVE  /\ other # "ECB" => Blocks!EcbExact'
         /\ other # "CTR" => Blocks!CtrExact'
         /\ other # "MMO" => MmoMasked' /\ Blocks!MmoInPlace'
  BY DEF Blocks!EcbExact, Blocks!CtrExact, MmoMasked, Blocks!MmoInPlace

LEMMA EcbBatchKeeps ==
  ASSUME LoopsInv, Blocks!AesBlocksAssumption, Blocks!EcbBatch
  PROVE  LoopsInv'
  <1>. DEFINE value == [k \in 0..Blocks!step - 1 |-> Blocks!Encrypt(Blocks!Plaintext(k))]
  <1>1. v6' = Blocks!Stored8(value) /\ Blocks!Advance(Blocks!step) /\ v5 < Blocks!length
          /\ v1 = "ECB" /\ v4' = v4
    BY DEF Blocks!EcbBatch
  <1>2. \A k \in 0..Blocks!step - 1 : value[k] = Blocks!Encrypt(Blocks!Plaintext(k))
    OBVIOUS
  <1>. HIDE DEF value
  <1>3. /\ StoresOnly(Blocks!step) /\ v5 + Blocks!step <= v2
        /\ v5 + Blocks!step <= Blocks!length => (v5 + Blocks!step) % Blocks!step = 0
        /\ \A k \in 0..Blocks!step - 1 : v6'[Blocks!Cipher(v5 + k)] = value[k]
        /\ \A k \in 0..Blocks!step - 1 : Blocks!Plaintext(k) = Blocks!Original(v5 + k)
    BY <1>1, BatchStores DEF LoopsInv
  <1>4. /\ BlocksTyped' /\ Unread' /\ Blocks!NoStrayWrites'
        /\ \A i \in 0..v5 - 1 : v6'[Blocks!Cipher(i)] = v6[Blocks!Cipher(i)]
        /\ \A i \in 0..v2 - 1 : Blocks!Cipher(i)' = Blocks!Cipher(i)
    BY <1>1, <1>3, Frame DEF LoopsInv, BlocksTyped, Blocks!step
  <1>5. Blocks!EcbExact'
    <2>. SUFFICES ASSUME NEW i \in 0..v5' - 1
                  PROVE  v6'[Blocks!Cipher(i)'] = Blocks!Encrypt(Blocks!Original(i))
      BY Zenon DEF Blocks!EcbExact
    <2>a. i \in 0..v5 + Blocks!step - 1
      BY <1>1 DEF Blocks!Advance, LoopsInv, BlocksTyped, Blocks!step
    <2>0. i \in 0..v2 - 1
      BY <2>a, <1>3 DEF LoopsInv, BlocksTyped, Blocks!step
    <2>1. Blocks!Cipher(i)' = Blocks!Cipher(i)
      BY <2>0, <1>4
    <2>2. CASE i \in 0..v5 - 1
      BY <2>1, <2>2, <1>1, <1>4 DEF LoopsInv, Blocks!EcbExact
    <2>3. ASSUME NEW k \in 0..Blocks!step - 1, i = v5 + k
          PROVE  v6'[Blocks!Cipher(i)] = Blocks!Encrypt(Blocks!Original(i))
      BY <2>3, <1>2, <1>3
    <2>. QED
      BY <2>1, <2>2, <2>3, <2>a, OldOrBatch DEF LoopsInv
  <1>6. v1' = v1
    BY <1>1 DEF Blocks!Advance
  <1>. QED
    BY <1>1, <1>4, <1>5, <1>6, OtherOperation DEF LoopsInv

LEMMA CtrBatchKeeps ==
  ASSUME LoopsInv, Blocks!AesBlocksAssumption, Blocks!CtrBatch
  PROVE  LoopsInv'
  <1>. DEFINE value == [k \in 0..Blocks!step - 1 |-> Blocks!Encrypt(Blocks!Input(k))]
  <1>1. v6' = Blocks!Stored8(value) /\ Blocks!Advance(Blocks!step) /\ v5 < Blocks!length
          /\ v1 = "CTR" /\ v4' = v4 + Blocks!step
    BY DEF Blocks!CtrBatch
  <1>2. \A k \in 0..Blocks!step - 1 : value[k] = Blocks!Encrypt(Blocks!Counter(v4 + k))
    BY DEF Blocks!Input
  <1>. HIDE DEF value
  <1>3. /\ StoresOnly(Blocks!step) /\ v5 + Blocks!step <= v2
        /\ v5 + Blocks!step <= Blocks!length => (v5 + Blocks!step) % Blocks!step = 0
        /\ \A k \in 0..Blocks!step - 1 : v6'[Blocks!Cipher(v5 + k)] = value[k]
    BY <1>1, BatchStores DEF LoopsInv
  <1>4. /\ BlocksTyped' /\ Unread' /\ Blocks!NoStrayWrites'
        /\ \A i \in 0..v5 - 1 : v6'[Blocks!Cipher(i)] = v6[Blocks!Cipher(i)]
        /\ \A i \in 0..v2 - 1 : Blocks!Cipher(i)' = Blocks!Cipher(i)
    <2>1. v4' \in Nat /\ Blocks!step \in Nat
      BY <1>1 DEF LoopsInv, BlocksTyped, Blocks!step
    <2>. QED BY <1>3, <2>1, Frame DEF LoopsInv
  <1>5. Blocks!CtrExact'
    <2>. SUFFICES ASSUME NEW i \in 0..v5' - 1
                  PROVE  v6'[Blocks!Cipher(i)'] = Blocks!Encrypt(Blocks!Counter(v4' - v5' + i))
      BY Zenon DEF Blocks!CtrExact
    <2>a. i \in 0..v5 + Blocks!step - 1 /\ v5' = v5 + Blocks!step /\ v4' = v4 + Blocks!step
      BY <1>1 DEF Blocks!Advance, LoopsInv, BlocksTyped, Blocks!step
    <2>0. i \in 0..v2 - 1
      BY <2>a, <1>3 DEF LoopsInv, BlocksTyped, Blocks!step
    <2>1. Blocks!Cipher(i)' = Blocks!Cipher(i)
      BY <2>0, <1>4
    <2>2. (v4 + Blocks!step) - (v5 + Blocks!step) + i = v4 - v5 + i
      BY DEF LoopsInv, BlocksTyped, Blocks!step
    <2>3. CASE i \in 0..v5 - 1
      <3>1. v6[Blocks!Cipher(i)] = Blocks!Encrypt(Blocks!Counter(v4 - v5 + i))
        BY <2>3, <1>1 DEF LoopsInv, Blocks!CtrExact
      <3>2. v4' - v5' + i = v4 - v5 + i
        BY <2>a, <2>2
      <3>. QED BY <2>1, <2>3, <3>1, <3>2, <1>4
    <2>4. ASSUME NEW k \in 0..Blocks!step - 1, i = v5 + k
          PROVE  v6'[Blocks!Cipher(i)] = Blocks!Encrypt(Blocks!Counter(v4 - v5 + i))
      <3>1. v4 - v5 + i = v4 + k
        BY <2>4 DEF LoopsInv, BlocksTyped, Blocks!step
      <3>. QED BY <2>4, <3>1, <1>2, <1>3
    <2>. QED
      BY <2>1, <2>2, <2>3, <2>4, <2>a, OldOrBatch DEF LoopsInv
  <1>6. v1' = v1
    BY <1>1 DEF Blocks!Advance
  <1>. QED
    BY <1>1, <1>4, <1>5, <1>6, OtherOperation DEF LoopsInv

LEMMA MmoBatchKeeps ==
  ASSUME LoopsInv, Blocks!AesBlocksAssumption, Blocks!MmoBatch
  PROVE  LoopsInv'
  <1>. DEFINE value == [k \in 0..Blocks!step - 1 |->
                           Blocks!Xor(Blocks!Encrypt(Blocks!Plaintext(k)), Blocks!Mask(k))]
  <1>1. v6' = Blocks!Stored8(value) /\ Blocks!Advance(Blocks!step) /\ v5 < Blocks!length
          /\ v1 = "MMO" /\ v4' = v4
    BY DEF Blocks!MmoBatch
  <1>2. \A k \in 0..Blocks!step - 1 : value[k] =
                                        Blocks!Xor(Blocks!Encrypt(Blocks!Plaintext(k)),
                                          Blocks!Mask(k))
    OBVIOUS
  <1>. HIDE DEF value
  <1>3. /\ StoresOnly(Blocks!step) /\ v5 + Blocks!step <= v2
        /\ v5 + Blocks!step <= Blocks!length => (v5 + Blocks!step) % Blocks!step = 0
        /\ \A k \in 0..Blocks!step - 1 : v6'[Blocks!Cipher(v5 + k)] = value[k]
        /\ \A k \in 0..Blocks!step - 1 : Blocks!Plaintext(k) = Blocks!Original(v5 + k)
    BY <1>1, BatchStores DEF LoopsInv
  <1>4. /\ BlocksTyped' /\ Unread' /\ Blocks!NoStrayWrites'
        /\ \A i \in 0..v5 - 1 : v6'[Blocks!Cipher(i)] = v6[Blocks!Cipher(i)]
        /\ \A i \in 0..v2 - 1 : Blocks!Cipher(i)' = Blocks!Cipher(i)
        /\ Blocks!length' = Blocks!length
        /\ v3 => \A i \in 0..v5 - 1 : v6'[i] = v6[i]
    BY <1>1, <1>3, Frame DEF LoopsInv, BlocksTyped, Blocks!step
  <1>5. /\ v1' = v1 /\ v3' = v3 /\ v5' = v5 + Blocks!step
        /\ v5 \in Nat /\ v5 % Blocks!step = 0 /\ v5 + Blocks!step <= Blocks!length
             /\ Blocks!length \in Int
    BY <1>1, LengthFacts DEF Blocks!Advance, LoopsInv, BlocksTyped, Blocks!step
  \* Block k of the batch is masked with what is in cell k now.
  <1>6. \A k \in 0..Blocks!step - 1 : v6'[Blocks!Cipher(v5 + k)] =
                                        Blocks!Xor(Blocks!Encrypt(Blocks!Original(v5 + k)), v6[k])
    BY <1>2, <1>3 DEF Blocks!Mask, Blocks!Plain
  <1>7. \A k \in 0..Blocks!step - 1 : /\ (v5 + k) % Blocks!step = k
                               /\ ~(v5 + k >= Blocks!length) /\ v5 + k \in 0..v2 - 1
                               /\ k \in 0..v2 - 1
    <2>. DEFINE l == Blocks!length
    <2>1. l \in 0..v2 /\ v2 \in Nat /\ v5 + Blocks!step <= l
      BY <1>5, LengthFacts DEF LoopsInv, BlocksTyped
    <2>. SUFFICES ASSUME NEW k \in 0..7
                  PROVE  /\ (v5 + k) % 8 = k
                         /\ ~(v5 + k >= l) /\ v5 + k \in 0..v2 - 1
                         /\ k \in 0..v2 - 1
      BY DEF Blocks!step
    <2>. HIDE DEF l
    <2>2. v5 \in Nat /\ v5 % 8 = 0 /\ v5 + 8 <= l
      BY <1>5, <2>1 DEF Blocks!step
    <2>. QED BY <2>1, <2>2
  <1>8. MmoMasked'
    <2>. SUFFICES ASSUME ~v3, NEW i \in 0..v5' - 1
                  PROVE  v6'[Blocks!Cipher(i)'] =
                           Blocks!Xor(Blocks!Encrypt(Blocks!Original(i)),
                             Blocks!Original(MaskIndex(i)'))
      BY <1>5, Zenon DEF MmoMasked
    <2>1. i \in 0..v5 + Blocks!step - 1
      BY <1>5 DEF Blocks!step
    <2>2. i \in 0..v2 - 1
      BY <2>1, <1>3, <1>5 DEF Blocks!step, LoopsInv, BlocksTyped
    <2>3. Blocks!Cipher(i)' = Blocks!Cipher(i) /\ MaskIndex(i)' = MaskIndex(i)
      BY <2>2, <1>4 DEF MaskIndex
    <2>4. CASE i \in 0..v5 - 1
      BY <2>3, <2>4, <1>1, <1>4 DEF LoopsInv, MmoMasked
    <2>5. ASSUME NEW k \in 0..Blocks!step - 1, i = v5 + k
          PROVE  v6'[Blocks!Cipher(i)] =
                   Blocks!Xor(Blocks!Encrypt(Blocks!Original(i)), Blocks!Original(MaskIndex(i)))
      <3>1. MaskIndex(i) = k
        BY <2>5, <1>7 DEF MaskIndex
      <3>2. v6[k] = Blocks!Original(k)
        BY <1>7 DEF LoopsInv, Blocks!NoStrayWrites, Blocks!Plain
      <3>. QED BY <2>5, <3>1, <3>2, <1>6
    <2>. QED
      BY <2>1, <2>3, <2>4, <2>5, OldOrBatch DEF LoopsInv
  <1>9. Blocks!MmoInPlace'
    <2>. SUFFICES ASSUME v3, NEW i \in 0..v5' - 1
                  PROVE  v6'[Blocks!Cipher(i)'] =
                           IF i >= Blocks!length' THEN {}
                           ELSE IF i < Blocks!step
                           THEN Blocks!Xor(Blocks!Encrypt(Blocks!Original(i)), Blocks!Original(i))
                           ELSE Blocks!Xor(Blocks!Encrypt(Blocks!Original(i)),
                             v6'[Blocks!Cipher(i % Blocks!step)'])
      BY <1>5, Zenon DEF Blocks!MmoInPlace
    <2>1. i \in 0..v5 + Blocks!step - 1
      BY <1>5 DEF Blocks!step
    <2>2. i \in 0..v2 - 1 /\ i % Blocks!step \in 0..v2 - 1
            /\ (i >= Blocks!step => i % Blocks!step \in 0..i - 1)
      <3>1. i \in Nat /\ i <= v2 - 1 /\ v2 \in Nat
        BY <2>1, <1>3, <1>5 DEF Blocks!step, LoopsInv, BlocksTyped
      <3>. QED BY <3>1 DEF Blocks!step
    <2>3. /\ Blocks!Cipher(i)' = i /\ Blocks!Cipher(i) = i
          /\ Blocks!Cipher(i % Blocks!step)' = i % Blocks!step
               /\ Blocks!Cipher(i % Blocks!step) = i % Blocks!step
      BY <2>2, <1>4, CipherCells DEF LoopsInv
    <2>4. CASE i \in 0..v5 - 1
      <3>1. v6[i] = IF i >= Blocks!length THEN {}
                     ELSE IF i < Blocks!step
                     THEN Blocks!Xor(Blocks!Encrypt(Blocks!Original(i)), Blocks!Original(i))
                     ELSE Blocks!Xor(Blocks!Encrypt(Blocks!Original(i)), v6[i % Blocks!step])
        BY <2>3, <2>4, <1>1 DEF LoopsInv, Blocks!MmoInPlace
      <3>2. i >= Blocks!step => i % Blocks!step \in 0..v5 - 1
        BY <2>2, <2>4, <1>5
      <3>3. v6'[i] = v6[i] /\ (i >= Blocks!step => v6'[i % Blocks!step] = v6[i % Blocks!step])
        BY <2>4, <3>2, <1>4
      <3>4. i >= Blocks!step \/ i < Blocks!step
        BY <2>4, <1>5 DEF Blocks!step
      <3>. QED BY <2>3, <3>1, <3>3, <3>4, <1>4
    <2>5. ASSUME NEW k \in 0..Blocks!step - 1, i = v5 + k
          PROVE  v6'[i] = IF i >= Blocks!length THEN {}
                           ELSE IF i < Blocks!step
                           THEN Blocks!Xor(Blocks!Encrypt(Blocks!Original(i)), Blocks!Original(i))
                           ELSE Blocks!Xor(Blocks!Encrypt(Blocks!Original(i)), v6'[i % Blocks!step])
      <3>1. v6'[i] =
              Blocks!Xor(Blocks!Encrypt(Blocks!Original(i)), v6[k]) /\ i % Blocks!step = k
                /\ ~(i >= Blocks!length)
        BY <2>3, <2>5, <1>6, <1>7
      <3>2. CASE v5 = 0
        <4>1. i = k /\ i < Blocks!step
          BY <3>2, <2>5 DEF Blocks!step
        <4>2. v6[k] = Blocks!Original(k)
          BY <1>7, <3>2, <2>5 DEF LoopsInv, Unread, Blocks!Plain
        <4>. QED BY <3>1, <4>1, <4>2
      <3>3. CASE v5 # 0
        <4>1. ~(i < Blocks!step) /\ k \in 0..v5 - 1
          BY <3>3, <2>5, <1>5 DEF Blocks!step
        <4>2. v6'[k] = v6[k]
          BY <4>1, <1>4
        <4>. QED BY <3>1, <4>1, <4>2
      <3>. QED BY <3>2, <3>3
    <2>. QED
      BY <2>1, <2>3, <2>4, <2>5, <1>4, OldOrBatch DEF LoopsInv
  <1>. QED
    BY <1>1, <1>4, <1>5, <1>8, <1>9, OtherOperation DEF LoopsInv

LEMMA EcbSingleKeeps ==
  ASSUME LoopsInv, Blocks!AesBlocksAssumption, Blocks!EcbSingle
  PROVE  LoopsInv'
  <1>. DEFINE value == Blocks!Encrypt(v6[Blocks!Plain(v5)])
  <1>1. /\ v6' = [v6 EXCEPT ![Blocks!Cipher(v5)] = value] /\ Blocks!Advance(1)
        /\ v5 >= Blocks!length /\ v5 < v2 /\ v1 = "ECB" /\ v4' = v4
    BY DEF Blocks!EcbSingle
  <1>. HIDE DEF value
  <1>2. /\ StoresOnly(1) /\ v5 + 1 <= v2
        /\ v5 + 1 <= Blocks!length => (v5 + 1) % Blocks!step = 0
        /\ v6'[Blocks!Cipher(v5)] = value /\ v6[Blocks!Plain(v5)] = Blocks!Original(v5)
    BY <1>1, SingleStores DEF LoopsInv
  <1>3. /\ BlocksTyped' /\ Unread' /\ Blocks!NoStrayWrites'
        /\ \A i \in 0..v5 - 1 : v6'[Blocks!Cipher(i)] = v6[Blocks!Cipher(i)]
        /\ \A i \in 0..v2 - 1 : Blocks!Cipher(i)' = Blocks!Cipher(i)
    BY <1>1, <1>2, Frame DEF LoopsInv, BlocksTyped
  <1>4. v1' = v1 /\ v5' = v5 + 1 /\ v5 \in Nat
    BY <1>1 DEF Blocks!Advance, LoopsInv, BlocksTyped
  <1>5. Blocks!EcbExact'
    <2>. SUFFICES ASSUME NEW i \in 0..v5' - 1
                  PROVE  v6'[Blocks!Cipher(i)'] = Blocks!Encrypt(Blocks!Original(i))
      BY Zenon DEF Blocks!EcbExact
    <2>1. i \in 0..v2 - 1 /\ (i \in 0..v5 - 1 \/ i = v5)
      BY <1>2, <1>4 DEF LoopsInv, BlocksTyped
    <2>2. CASE i \in 0..v5 - 1
      BY <2>1, <2>2, <1>1, <1>3 DEF LoopsInv, Blocks!EcbExact
    <2>3. CASE i = v5
      BY <2>1, <2>3, <1>2, <1>3 DEF value
    <2>. QED
      BY <2>1, <2>2, <2>3
  <1>. QED
    BY <1>1, <1>3, <1>4, <1>5, OtherOperation DEF LoopsInv

LEMMA CtrSingleKeeps ==
  ASSUME LoopsInv, Blocks!AesBlocksAssumption, Blocks!CtrSingle
  PROVE  LoopsInv'
  <1>. DEFINE value == Blocks!Encrypt(Blocks!Counter(v4))
  <1>1. /\ v6' = [v6 EXCEPT ![Blocks!Cipher(v5)] = value] /\ Blocks!Advance(1)
        /\ v5 >= Blocks!length /\ v5 < v2 /\ v1 = "CTR" /\ v4' = v4 + 1
    BY DEF Blocks!CtrSingle
  <1>. HIDE DEF value
  <1>2. /\ StoresOnly(1) /\ v5 + 1 <= v2
        /\ v5 + 1 <= Blocks!length => (v5 + 1) % Blocks!step = 0
        /\ v6'[Blocks!Cipher(v5)] = value
    BY <1>1, SingleStores DEF LoopsInv
  <1>3. /\ BlocksTyped' /\ Unread' /\ Blocks!NoStrayWrites'
        /\ \A i \in 0..v5 - 1 : v6'[Blocks!Cipher(i)] = v6[Blocks!Cipher(i)]
        /\ \A i \in 0..v2 - 1 : Blocks!Cipher(i)' = Blocks!Cipher(i)
    <2>1. v4' \in Nat
      BY <1>1 DEF LoopsInv, BlocksTyped
    <2>. QED BY <1>2, <2>1, Frame DEF LoopsInv
  <1>4. v1' = v1 /\ v5' = v5 + 1 /\ v5 \in Nat /\ v4 \in Nat
    BY <1>1 DEF Blocks!Advance, LoopsInv, BlocksTyped
  <1>5. Blocks!CtrExact'
    <2>. SUFFICES ASSUME NEW i \in 0..v5' - 1
                  PROVE  v6'[Blocks!Cipher(i)'] = Blocks!Encrypt(Blocks!Counter(v4' - v5' + i))
      BY Zenon DEF Blocks!CtrExact
    <2>1. i \in 0..v2 - 1 /\ (i \in 0..v5 - 1 \/ i = v5)
      BY <1>2, <1>4 DEF LoopsInv, BlocksTyped
    <2>2. v4' - v5' + i = v4 - v5 + i
      BY <1>1, <1>4
    <2>3. CASE i \in 0..v5 - 1
      <3>1. v6[Blocks!Cipher(i)] = Blocks!Encrypt(Blocks!Counter(v4 - v5 + i))
        BY <2>3, <1>1 DEF LoopsInv, Blocks!CtrExact
      <3>. QED BY <2>1, <2>2, <2>3, <3>1, <1>3
    <2>4. CASE i = v5
      <3>1. v4' - v5' + i = v4
        BY <2>4, <1>1, <1>4
      <3>. QED BY <2>1, <2>4, <3>1, <1>2, <1>3 DEF value
    <2>. QED
      BY <2>1, <2>3, <2>4
  <1>. QED
    BY <1>1, <1>3, <1>4, <1>5, OtherOperation DEF LoopsInv

LEMMA MmoSingleKeeps ==
  ASSUME LoopsInv, Blocks!AesBlocksAssumption, Blocks!MmoSingle
  PROVE  LoopsInv'
  <1>. DEFINE stored == [v6 EXCEPT ![Blocks!Cipher(v5)] = Blocks!Encrypt(v6[Blocks!Plain(v5)])]
              value  == Blocks!Xor(stored[Blocks!Cipher(v5)], stored[Blocks!Plain(v5)])
  <1>1. /\ v6' = [stored EXCEPT ![Blocks!Cipher(v5)] = value] /\ Blocks!Advance(1)
        /\ v5 >= Blocks!length /\ v5 < v2 /\ v1 = "MMO" /\ v4' = v4
    BY Zenon DEF Blocks!MmoSingle, Blocks!encryptECB_MMO
  <1>2. v6' = [v6 EXCEPT ![Blocks!Cipher(v5)] = value]
    <2>1. stored = [c \in Blocks!Cells |->
            IF c = Blocks!Cipher(v5) THEN Blocks!Encrypt(v6[Blocks!Plain(v5)]) ELSE v6[c]]
      BY Zenon DEF LoopsInv, BlocksTyped
    <2>2. v6 = [c \in Blocks!Cells |-> v6[c]]
      BY DEF LoopsInv, BlocksTyped
    <2>. HIDE DEF stored, value
    <2>. QED BY <1>1, <2>1, <2>2
  <1>3. v5 \in 0..v2 - 1 /\ Blocks!Cipher(v5) \in Blocks!Cells /\ Blocks!Plain(v5) \in Blocks!Cells
    BY <1>1, CipherCells DEF LoopsInv, BlocksTyped
  <1>4. /\ stored[Blocks!Cipher(v5)] = Blocks!Encrypt(v6[Blocks!Plain(v5)])
        /\ Blocks!Plain(v5) # Blocks!Cipher(v5) => stored[Blocks!Plain(v5)] = v6[Blocks!Plain(v5)]
    BY <1>3, Zenon DEF LoopsInv, BlocksTyped
  <1>. HIDE DEF stored, value
  <1>5. /\ StoresOnly(1) /\ v5 + 1 <= v2
        /\ v5 + 1 <= Blocks!length => (v5 + 1) % Blocks!step = 0
        /\ v6'[Blocks!Cipher(v5)] = value /\ v6[Blocks!Plain(v5)] = Blocks!Original(v5)
    BY <1>1, <1>2, SingleStores DEF LoopsInv
  <1>6. /\ BlocksTyped' /\ Unread' /\ Blocks!NoStrayWrites'
        /\ \A i \in 0..v5 - 1 : v6'[Blocks!Cipher(i)] = v6[Blocks!Cipher(i)]
        /\ \A i \in 0..v2 - 1 : Blocks!Cipher(i)' = Blocks!Cipher(i)
        /\ Blocks!length' = Blocks!length
        /\ v3 => \A i \in 0..v5 - 1 : v6'[i] = v6[i]
    BY <1>1, <1>5, Frame DEF LoopsInv, BlocksTyped
  <1>7. v1' = v1 /\ v3' = v3 /\ v5' = v5 + 1 /\ v5 \in Nat
    BY <1>1 DEF Blocks!Advance, LoopsInv, BlocksTyped
  <1>8. MmoMasked'
    <2>. SUFFICES ASSUME ~v3, NEW i \in 0..v5' - 1
                  PROVE  v6'[Blocks!Cipher(i)'] =
                           Blocks!Xor(Blocks!Encrypt(Blocks!Original(i)),
                             Blocks!Original(MaskIndex(i)'))
      BY <1>7, Zenon DEF MmoMasked
    <2>1. i \in 0..v2 - 1 /\ (i \in 0..v5 - 1 \/ i = v5)
      BY <1>5, <1>7 DEF LoopsInv, BlocksTyped
    <2>2. Blocks!Cipher(i)' = Blocks!Cipher(i) /\ MaskIndex(i)' = MaskIndex(i)
      BY <2>1, <1>6 DEF MaskIndex
    <2>3. CASE i \in 0..v5 - 1
      BY <2>2, <2>3, <1>1, <1>6 DEF LoopsInv, MmoMasked
    <2>4. CASE i = v5
      <3>1. MaskIndex(i) = v5
        BY <2>4, <1>1 DEF MaskIndex
      <3>2. Blocks!Plain(v5) # Blocks!Cipher(v5)
        BY <1>3, CipherCells DEF LoopsInv
      <3>. QED BY <2>2, <2>4, <3>1, <3>2, <1>4, <1>5 DEF value
    <2>. QED
      BY <2>1, <2>3, <2>4
  <1>9. Blocks!MmoInPlace'
    <2>. SUFFICES ASSUME v3, NEW i \in 0..v5' - 1
                  PROVE  v6'[Blocks!Cipher(i)'] =
                           IF i >= Blocks!length' THEN {}
                           ELSE IF i < Blocks!step
                           THEN Blocks!Xor(Blocks!Encrypt(Blocks!Original(i)), Blocks!Original(i))
                           ELSE Blocks!Xor(Blocks!Encrypt(Blocks!Original(i)),
                             v6'[Blocks!Cipher(i % Blocks!step)'])
      BY <1>7, Zenon DEF Blocks!MmoInPlace
    <2>1. i \in 0..v2 - 1 /\ (i \in 0..v5 - 1 \/ i = v5) /\ i \in Nat
      BY <1>5, <1>7 DEF LoopsInv, BlocksTyped
    <2>2. i % Blocks!step \in 0..v2 - 1 /\ (i >= Blocks!step => i % Blocks!step \in 0..i - 1)
      <3>1. v2 \in Nat
        BY DEF LoopsInv, BlocksTyped
      <3>. QED BY <2>1, <3>1 DEF Blocks!step
    <2>3. /\ Blocks!Cipher(i)' = i /\ Blocks!Cipher(i) = i
          /\ Blocks!Cipher(i % Blocks!step)' = i % Blocks!step
               /\ Blocks!Cipher(i % Blocks!step) = i % Blocks!step
      BY <2>1, <2>2, <1>6, CipherCells DEF LoopsInv
    <2>4. CASE i \in 0..v5 - 1
      <3>1. v6[i] = IF i >= Blocks!length THEN {}
                     ELSE IF i < Blocks!step
                     THEN Blocks!Xor(Blocks!Encrypt(Blocks!Original(i)), Blocks!Original(i))
                     ELSE Blocks!Xor(Blocks!Encrypt(Blocks!Original(i)), v6[i % Blocks!step])
        BY <2>3, <2>4, <1>1 DEF LoopsInv, Blocks!MmoInPlace
      <3>2. i >= Blocks!step => i % Blocks!step \in 0..v5 - 1
        BY <2>2, <2>4, <1>7
      <3>3. v6'[i] = v6[i] /\ (i >= Blocks!step => v6'[i % Blocks!step] = v6[i % Blocks!step])
        BY <2>4, <3>2, <1>6
      <3>4. i >= Blocks!step \/ i < Blocks!step
        BY <2>1 DEF Blocks!step
      <3>. QED BY <2>3, <3>1, <3>3, <3>4, <1>6
    <2>5. CASE i = v5
      <3>1. Blocks!Plain(v5) = Blocks!Cipher(v5)
        BY <2>3, <2>5 DEF Blocks!Plain
      <3>2. value = {}
        BY <3>1, Zenon DEF value, Blocks!Xor
      <3>. QED BY <2>3, <2>5, <3>2, <1>1, <1>5, <1>6
    <2>. QED
      BY <2>1, <2>4, <2>5
  <1>. QED
    BY <1>1, <1>6, <1>7, <1>8, <1>9, OtherOperation DEF LoopsInv

-----------------------------------------------------------------------------
LEMMA BlocksStutter ==
  ASSUME LoopsInv, UNCHANGED Blocks!vars
  PROVE  LoopsInv'
  <1>1. BlocksTyped'
    BY DEF LoopsInv, BlocksTyped, Blocks!vars, Blocks!length, Blocks!Cells
  <1>2. \A i : Blocks!Cipher(i)' = Blocks!Cipher(i)
    BY DEF Blocks!Cipher, Blocks!vars
  <1>3. Blocks!EcbExact' /\ Blocks!CtrExact' /\ Unread'
    BY <1>2 DEF LoopsInv, Blocks!EcbExact, Blocks!CtrExact, Unread, Blocks!vars, Blocks!Plain
  <1>4. \A i : MaskIndex(i)' = MaskIndex(i)
    BY DEF MaskIndex, Blocks!length, Blocks!vars
  <1>5. Blocks!length' = Blocks!length
    BY DEF Blocks!length, Blocks!vars
  <1>6. MmoMasked'
    BY <1>2, <1>4 DEF LoopsInv, MmoMasked, Blocks!vars
  <1>7. Blocks!MmoInPlace'
    BY <1>2, <1>5 DEF LoopsInv, Blocks!MmoInPlace, Blocks!vars
  <1>8. Blocks!NoStrayWrites'
    BY <1>2 DEF LoopsInv, Blocks!NoStrayWrites, Blocks!vars, Blocks!Plain, Blocks!Cells
  <1>. QED
    BY <1>1, <1>3, <1>6, <1>7, <1>8 DEF LoopsInv

LEMMA BlocksKept ==
  ASSUME LoopsInv, Blocks!AesBlocksAssumption, Blocks!Next
  PROVE  LoopsInv'
  <1>1. CASE Blocks!EcbBatch
    BY <1>1, EcbBatchKeeps
  <1>2. CASE Blocks!MmoBatch
    BY <1>2, MmoBatchKeeps
  <1>3. CASE Blocks!CtrBatch
    BY <1>3, CtrBatchKeeps
  <1>4. CASE Blocks!EcbSingle
    BY <1>4, EcbSingleKeeps
  <1>5. CASE Blocks!MmoSingle
    BY <1>5, MmoSingleKeeps
  <1>6. CASE Blocks!CtrSingle
    BY <1>6, CtrSingleKeeps
  <1>7. CASE UNCHANGED Blocks!vars
    BY <1>7, BlocksStutter
  <1>. QED
    BY <1>1, <1>2, <1>3, <1>4, <1>5, <1>6, <1>7 DEF Blocks!Next, Blocks!Loops, Blocks!Done

\* Every block stored so far is the one its mode asks for, for every number of blocks,
\* in place or not, with the masks the MMO batches really use (encryptECBBlocks,
\* encryptCTR, encryptECB_MMO_Blocks).
LEMMA BlocksRight ==
  ASSUME LoopsInv, Blocks!AesBlocksAssumption
  PROVE  Blocks!EcbExact /\ Blocks!CtrExact /\ Blocks!MmoExact /\ Blocks!MmoInPlace
           /\ Blocks!NoStrayWrites
  BY MaskedIsExact DEF LoopsInv

-----------------------------------------------------------------------------
(***************************************************************************)
(* The vector kernels of xor.cpp (module XorKernels): for every row        *)
(* length, both vector sizes, any number of rows and any rows named, which *)
(* bytes of which rows are in each byte of the result.  v1 to v6 are w,    *)
(* len, call, out, acc and wild.                                           *)
(***************************************************************************)
IsCall(c) == c = [kernel |-> c.kernel, args |-> c.args, phase |-> c.phase, i |-> c.i]

\* Which kernel is at which of its loops.
AtLoop ==
  \/ v3 = Xors!Idle
  \/ v3.kernel \in {"into", "all"} /\ v3.phase \in {"row", "done"}
  \/ v3.kernel = "rows" /\ v3.phase \in {"vector", "tail", "flush", "done"}
  \/ v3.kernel = "pass" /\ v3.phase \in {"pass", "done"}
  \/ v3.kernel = "hash" /\ v3.phase \in {"batch", "rest", "done"}

RowKernelsTyped ==
  /\ v1 \in {16, 32} /\ v2 \in Nat \ {0}
  /\ XorRows \in Nat \ {0}
  /\ IsCall(v3) /\ AtLoop
  /\ ~v6

\* A row XORed into an output that held something.
IntoInv ==
  v3.kernel = "into" =>
    /\ \E r \in Xors!Rows : v3.args = <<r * v2>>
    /\ v3.phase = "row" => v3.i = 0 /\ v4 = Xors!Held(v2)
    /\ v3.phase = "done" => \A k \in 0..v2 - 1 : v4[k] = {-1 - k, v3.args[1] + k}

\* The parity of the rows so far.
AllRows     == [k \in 1..XorRows |-> (k - 1) * v2]
RowsUpTo(n) == [k \in 0..v2 - 1 |-> {r * v2 + k : r \in 0..n - 1}]

AllInv ==
  v3.kernel = "all" =>
    /\ v3.args = AllRows
    /\ v3.phase = "row" => v3.i \in 0..XorRows - 1 /\ v4 = RowsUpTo(v3.i)
    /\ v3.phase = "done" => v4 = RowsUpTo(XorRows)

\* The rows that the first n arguments name an odd number of times, and their bytes k.
Named(r, n) == {j \in 1..n : v3.args[j] = r * v2}
OddRows(n)  == {r \in Xors!Rows : Cardinality(Named(r, n)) % 2 = 1}
OddBytes(k, n) == {a * v2 + k : a \in OddRows(n)}

\* The vector loop has the bytes up to vec_bytes of the first n arguments, the
\* accumulators those behind.
VectorsDone(n)  == [k \in 0..v2 - 1 |-> IF k < Xors!vec_bytes THEN OddBytes(k, n) ELSE {}]
Accumulators(n) == [k \in 0..v2 - 1 |-> IF k \in Xors!TailBytes THEN OddBytes(k, n) ELSE {}]

RowsInv ==
  v3.kernel = "rows" =>
    /\ Len(v3.args) \in Nat \ {0}
    /\ \A j \in 1..Len(v3.args) : \E r \in Xors!Rows : v3.args[j] = r * v2
    /\ DOMAIN v3.args = 1..Len(v3.args)
    /\ v3.phase \in {"vector", "tail"} => v3.i \in 0..Len(v3.args) - 1
    /\ v3.phase = "vector" => v4 = VectorsDone(v3.i)
    /\ v3.phase \in {"tail", "flush"} => v4 = VectorsDone(Len(v3.args))
    /\ v3.phase = "tail" => v5 = Accumulators(v3.i)
    /\ v3.phase = "flush" => v5 = Accumulators(Len(v3.args))
    /\ v3.phase = "done" => \A k \in 0..v2 - 1 : v4[k] = OddBytes(k, Len(v3.args))

\* Of the first n rows, each is in the parity the permutation has for it; the other
\* parities are still to get one.
Untouched(r, k) == v4[r * v2 + k] = {-1 - (r * v2 + k)}
HasRow(r, k, j) == v4[r * v2 + k] = {-1 - (r * v2 + k), j * v2 + k}

Passed(n) ==
  \A r \in Xors!Rows, k \in 0..v2 - 1 :
    /\ \A j \in 0..n - 1 : v3.args[j + 1] = r => HasRow(r, k, j)
    /\ (\A j \in 0..n - 1 : v3.args[j + 1] # r) => Untouched(r, k)

ParityInv ==
  v3.kernel = "pass" =>
    /\ v3.args \in Xors!Perms
    /\ v4 = [at \in 0..XorRows * v2 - 1 |-> v4[at]]
    /\ v3.phase = "pass" => v3.i \in 0..XorRows - 1 /\ Passed(v3.i)
    /\ v3.phase = "done" => Passed(XorRows)

\* Rows picked of the first n, that go to pair k.
PickedRows(k, n) == {r \in 0..n - 1 : r % 8 = k /\ Xors!BitOf(r) = 1}

HashInv ==
  v3.kernel = "hash" =>
    /\ v3.args = [n |-> v3.args.n, bits |-> v3.args.bits]
    /\ v3.args.n \in Nat
    /\ DOMAIN v3.args.bits = 1..(v3.args.n + 7) \div 8
    /\ v3.phase \in {"batch", "rest"} =>
         /\ v5 = [k \in 0..7 |-> [b \in 0..1 |-> v5[k][b]]]
         /\ v3.i \in 0..v3.args.n
         /\ \A k \in 0..7 : v5[k][1] = PickedRows(k, v3.i)
    /\ v3.phase = "batch" => v3.i % 8 = 0 /\ v3.i <= Xors!len_full_bytes
    /\ v3.phase = "done" => Xors!HashExact

RowKernelsInv == RowKernelsTyped /\ IntoInv /\ AllInv /\ RowsInv /\ ParityInv /\ HashInv

-----------------------------------------------------------------------------

\* Arithmetic of vectors and rows.
LEMMA VecFacts ==
  ASSUME RowKernelsTyped
  PROVE  /\ Xors!vec_bytes \in 0..v2
         /\ Xors!vec_bytes = v2 - (v2 % v1)
         /\ v2 % v1 = 0 <=> Xors!vec_bytes = v2
  <1>1. CASE v1 = 16
    <2>1. (v2 \div 16) * 16 = v2 - (v2 % 16) /\ v2 % 16 \in 0..v2
      BY DEF RowKernelsTyped
    <2>. QED BY <1>1, <2>1 DEF Xors!vec_bytes, RowKernelsTyped
  <1>2. CASE v1 = 32
    <2>1. (v2 \div 32) * 32 = v2 - (v2 % 32) /\ v2 % 32 \in 0..v2
      BY DEF RowKernelsTyped
    <2>. QED BY <1>2, <2>1 DEF Xors!vec_bytes, RowKernelsTyped
  <1>. QED
    BY <1>1, <1>2 DEF RowKernelsTyped

\* The vectors end where the single bytes begin, and neither leaves the row.
LEMMA RowBytes ==
  ASSUME RowKernelsTyped
  PROVE  /\ Xors!VectorBytes = 0..Xors!vec_bytes - 1
         /\ Xors!VectorBytes \subseteq 0..v2 - 1
         /\ Xors!RestBytes \subseteq 0..v2 - 1
  <1>1. Xors!VectorBytes = 0..Xors!vec_bytes - 1
    <2>1. \A k : k \in Xors!VectorBytes <=>
                 \E b \in 0..Xors!Vectors - 1 : k \in b * v1..b * v1 + v1 - 1
      BY Zenon DEF Xors!VectorBytes
    <2>2. ASSUME NEW size \in {16, 32}, v1 = size PROVE Xors!VectorBytes = 0..Xors!vec_bytes - 1
      <3>. DEFINE q == v2 \div size
      <3>1. Xors!Vectors = q /\ Xors!vec_bytes = q * size
        BY <2>2 DEF Xors!Vectors, Xors!vec_bytes
      <3>2. q \in Nat
        BY <2>2 DEF RowKernelsTyped
      <3>. HIDE DEF q
      <3>3. ASSUME NEW k \in 0..q * size - 1
            PROVE  \E b \in 0..q - 1 : k \in b * size..b * size + size - 1
        <4>1. k \div size \in 0..q - 1
          BY <2>2, <3>2, <3>3
        <4>2. k \in (k \div size) * size..(k \div size) * size + size - 1
          BY <2>2, <3>2, <3>3
        <4>. QED BY <4>1, <4>2
      <3>4. ASSUME NEW b \in 0..q - 1, NEW k \in b * size..b * size + size - 1
            PROVE  k \in 0..q * size - 1
        BY <2>2, <3>2, <3>4
      <3>5. \A k : k \in Xors!VectorBytes <=> k \in 0..q * size - 1
        BY <2>1, <2>2, <3>1, <3>3, <3>4, Zenon
      <3>. QED BY <3>1, <3>5, Zenon
    <2>. QED BY <2>2 DEF RowKernelsTyped
  <1>2. v2 \in Nat
    BY DEF RowKernelsTyped
  <1>. QED
    BY <1>1, <1>2, VecFacts DEF Xors!RestBytes

\* The accumulators take exactly the bytes the vectors leave: each piece begins where
\* the one twice its length ends.
LEMMA TailCovers ==
  ASSUME RowKernelsTyped
  PROVE  \A k \in 0..v2 - 1 : k \in Xors!TailBytes <=> k >= Xors!vec_bytes
  <1>1. SUFFICES ASSUME NEW k \in 0..v2 - 1 PROVE k \in Xors!TailBytes <=> k >= v2 - (v2 % v1)
    BY VecFacts
  <1>. DEFINE In(p) == p \in Xors!Pieces /\ Xors!Used(p) /\ k \in Xors!Off(p)..Xors!Off(p) + p - 1
  <1>2. k \in Xors!TailBytes <=> \E p \in {16, 8, 4, 2, 1} : In(p)
    BY Zenon DEF Xors!TailBytes, Xors!Pieces
  <1>3. /\ In(1) <=> v2 - (v2 % 2) <= k
        /\ In(2) <=> v2 - (v2 % 4) <= k /\ k < v2 - (v2 % 2)
        /\ In(4) <=> v2 - (v2 % 8) <= k /\ k < v2 - (v2 % 4)
        /\ In(8) <=> v2 - (v2 % 16) <= k /\ k < v2 - (v2 % 8)
        /\ In(16) <=> v1 = 32 /\ v2 - (v2 % 32) <= k /\ k < v2 - (v2 % 16)
    <2>1. v2 \in Nat /\ k \in Nat /\ k < v2 /\ v1 \in {16, 32}
      BY DEF RowKernelsTyped
    <2>2. /\ v2 % 4 = v2 % 2 \/ v2 % 4 = (v2 % 2) + 2
          /\ v2 % 8 = v2 % 4 \/ v2 % 8 = (v2 % 4) + 4
          /\ v2 % 16 = v2 % 8 \/ v2 % 16 = (v2 % 8) + 8
          /\ v2 % 32 = v2 % 16 \/ v2 % 32 = (v2 % 16) + 16
          /\ v2 % 2 \in 0..1 /\ v2 % 4 \in 0..3 /\ v2 % 8 \in 0..7
          /\ v2 % 16 \in 0..15 /\ v2 % 32 \in 0..31
      BY <2>1
    <2>. DEFINE a == v2 % 2  b == v2 % 4  c == v2 % 8  d == v2 % 16  e == v2 % 32
    <2>3. /\ In(1) <=> a >= 1 /\ k \in (v2 - a)..(v2 - a)
          /\ In(2) <=> b >= 2 /\ k \in (v2 - b)..(v2 - b + 1)
          /\ In(4) <=> c >= 4 /\ k \in (v2 - c)..(v2 - c + 3)
          /\ In(8) <=> d >= 8 /\ k \in (v2 - d)..(v2 - d + 7)
          /\ In(16) <=> v1 = 32 /\ e >= 16 /\ k \in (v2 - e)..(v2 - e + 15)
      BY <2>1 DEF Xors!Pieces, Xors!Used, Xors!Off
    <2>. HIDE DEF In, a, b, c, d, e
    <2>4. /\ b = a \/ b = a + 2
          /\ c = b \/ c = b + 4
          /\ d = c \/ d = c + 8
          /\ e = d \/ e = d + 16
          /\ a \in 0..1 /\ b \in 0..3 /\ c \in 0..7 /\ d \in 0..15 /\ e \in 0..31
      BY <2>2 DEF a, b, c, d, e
    <2>5. /\ In(1) <=> v2 - a <= k
          /\ In(2) <=> v2 - b <= k /\ k < v2 - a
          /\ In(4) <=> v2 - c <= k /\ k < v2 - b
          /\ In(8) <=> v2 - d <= k /\ k < v2 - c
          /\ In(16) <=> v1 = 32 /\ v2 - e <= k /\ k < v2 - d
      BY <2>1, <2>3, <2>4
    <2>. QED BY <2>5 DEF a, b, c, d, e
  <1>. HIDE DEF In
  <1>4. v2 \in Nat /\ k \in Nat /\ k < v2
    BY DEF RowKernelsTyped
  <1>5. v2 % 2 <= v2 % 4 /\ v2 % 4 <= v2 % 8 /\ v2 % 8 <= v2 % 16 /\ v2 % 16 <= v2 % 32
    BY <1>4
  <1>6. CASE v1 = 16
    BY <1>2, <1>3, <1>4, <1>5, <1>6
  <1>7. CASE v1 = 32
    BY <1>2, <1>3, <1>4, <1>5, <1>7
  <1>. QED
    BY <1>6, <1>7 DEF RowKernelsTyped

LEMMA TailInside ==
  ASSUME RowKernelsTyped
  PROVE  Xors!TailBytes \subseteq 0..v2 - 1
  <1>1. SUFFICES ASSUME NEW p \in {16, 8, 4, 2, 1}, Xors!Used(p),
                        NEW k \in Xors!Off(p)..Xors!Off(p) + p - 1
                 PROVE  k \in 0..v2 - 1
    BY Zenon DEF Xors!TailBytes, Xors!Pieces
  <1>2. v2 \in Nat
    BY DEF RowKernelsTyped
  <1>3. CASE p = 16
    BY <1>1, <1>2, <1>3 DEF Xors!Used, Xors!Off
  <1>4. CASE p = 8
    BY <1>1, <1>2, <1>4 DEF Xors!Used, Xors!Off
  <1>5. CASE p = 4
    BY <1>1, <1>2, <1>5 DEF Xors!Used, Xors!Off
  <1>6. CASE p = 2
    BY <1>1, <1>2, <1>6 DEF Xors!Used, Xors!Off
  <1>7. CASE p = 1
    BY <1>1, <1>2, <1>7 DEF Xors!Used, Xors!Off
  <1>. QED
    BY <1>3, <1>4, <1>5, <1>6, <1>7

\* A row is XORed whole, into a larger output or one of its own length.
RowPut(o, to, at) ==
  [k \in DOMAIN o |-> IF k - to \in 0..v2 - 1 THEN Xors!Xor(o[k], {at + (k - to)}) ELSE o[k]]

RowXored(o, at) == [k \in 0..v2 - 1 |-> Xors!Xor(o[k], {at + k})]

LEMMA RowIntoIs ==
  ASSUME RowKernelsTyped, NEW o, NEW to, NEW at
  PROVE  Xors!RowInto(o, to, at) = RowPut(o, to, at)
  <1>. DEFINE V == Xors!VectorBytes
              R == Xors!RestBytes
              p == Xors!Xored(o, to, V, at)
  <1>1. p = [k \in DOMAIN o |-> IF k - to \in V THEN Xors!Xor(o[k], {at + (k - to)}) ELSE o[k]]
    BY Zenon DEF Xors!Xored
  <1>2. Xors!RowInto(o, to, at) =
          [k \in DOMAIN p |-> IF k - to \in R THEN Xors!Xor(p[k], {at + (k - to)}) ELSE p[k]]
    BY Zenon DEF Xors!RowInto, Xors!Xored
  <1>3. \A j : /\ j \in 0..v2 - 1 <=> j \in V \/ j \in R
               /\ ~(j \in V /\ j \in R)
    BY RowBytes, VecFacts DEF Xors!RestBytes, RowKernelsTyped
  <1>. HIDE DEF p, V, R
  <1>4. ASSUME NEW k \in DOMAIN o
        PROVE  (IF k - to \in R THEN Xors!Xor(p[k], {at + (k - to)}) ELSE p[k])
                  = IF k - to \in 0..v2 - 1 THEN Xors!Xor(o[k], {at + (k - to)}) ELSE o[k]
    <2>1. p[k] = IF k - to \in V THEN Xors!Xor(o[k], {at + (k - to)}) ELSE o[k]
      BY <1>1, Zenon
    <2>. QED BY <1>3, <2>1, Zenon
  <1>5. DOMAIN p = DOMAIN o
    BY <1>1, Zenon
  <1>. QED
    BY <1>2, <1>4, <1>5, Zenon DEF RowPut

\* An output of one row is XORed whole.
LEMMA RowIntoRow ==
  ASSUME RowKernelsTyped, NEW o, DOMAIN o = 0..v2 - 1, NEW at
  PROVE  Xors!RowInto(o, 0, at) = RowXored(o, at)
  <1>1. \A k \in 0..v2 - 1 : k - 0 = k
    BY DEF RowKernelsTyped
  <1>2. Xors!RowInto(o, 0, at) = RowPut(o, 0, at)
    BY RowIntoIs
  <1>3. \A k \in 0..v2 - 1 :
          (IF k - 0 \in 0..v2 - 1 THEN Xors!Xor(o[k], {at + (k - 0)}) ELSE o[k])
             = Xors!Xor(o[k], {at + k})
    BY <1>1, Zenon
  <1>. QED
    BY <1>2, <1>3, Zenon DEF RowXored, RowPut

\* Offsets of rows: all inside, none in two rows.
LEMMA Offsets ==
  ASSUME RowKernelsTyped
  PROVE  /\ \A r \in Xors!Rows : r * v2 \in Nat /\ r * v2 + v2 <= Xors!db_len
         /\ \A r \in Xors!Rows, s \in Xors!Rows, k \in 0..v2 - 1, j \in 0..v2 - 1 :
              r * v2 + k = s * v2 + j => r = s /\ k = j
  <1>. USE DEF RowKernelsTyped
  <1>1. ASSUME NEW r \in Xors!Rows PROVE r * v2 \in Nat /\ r * v2 + v2 <= Xors!db_len
    <2>1. r \in Int /\ XorRows \in Int /\ r < XorRows /\ r >= 0
      BY DEF Xors!Rows
    <2>2. r * v2 + v2 <= XorRows * v2
      BY <2>1, BlocksApart
    <2>3. r * v2 \in Nat
      BY <2>1
    <2>. QED BY <2>2, <2>3 DEF Xors!db_len
  <1>2. ASSUME NEW r \in Xors!Rows, NEW s \in Xors!Rows, NEW k \in 0..v2 - 1, NEW j \in 0..v2 - 1,
               r * v2 + k = s * v2 + j
        PROVE  r = s /\ k = j
    <2>1. r \in Int /\ s \in Int
      BY DEF Xors!Rows
    <2>2. (r * v2 + k) \div v2 = r /\ (s * v2 + j) \div v2 = s
      BY <2>1, DivUnique
    <2>3. r = s
      BY <1>2, <2>2
    <2>4. r * v2 \in Int
      BY <2>1
    <2>. QED BY <1>2, <2>3, <2>4
  <1>. QED
    BY <1>1, <1>2

\* Bytes of a row of the database lie in it, and bytes of a row that fits into the
\* output are stored in it.
LEMMA RowInside ==
  ASSUME RowKernelsTyped, NEW r \in Xors!Rows, NEW S, S \subseteq 0..v2 - 1
  PROVE  ~Xors!ReadsOutside(S, r * v2)
  <1>1. r * v2 \in Nat /\ r * v2 + v2 <= Xors!db_len /\ v2 \in Nat /\ Xors!db_len \in Int
    BY Offsets DEF RowKernelsTyped, Xors!db_len
  <1>. DEFINE at == r * v2
  <1>. HIDE DEF at
  <1>2. \A k \in S : at + k \in 0..Xors!db_len - 1
    BY <1>1 DEF at
  <1>. QED
    BY <1>2, Zenon DEF at, Xors!ReadsOutside

LEMMA OutputInside ==
  ASSUME RowKernelsTyped, NEW S, S \subseteq 0..v2 - 1,
         NEW m \in Nat, DOMAIN v4 = 0..m - 1, NEW to \in Nat, to + v2 <= m
  PROVE  ~Xors!WritesOutside(S, to)
  <1>1. \A k \in S : to + k \in 0..m - 1
    BY DEF RowKernelsTyped
  <1>. QED
    BY <1>1, Zenon DEF Xors!WritesOutside

LEMMA NothingOutside ==
  ASSUME RowKernelsTyped, NEW r \in Xors!Rows,
         NEW m \in Nat, DOMAIN v4 = 0..m - 1, NEW to \in Nat, to + v2 <= m
  PROVE  ~Xors!RowOutside(to, r * v2)
  <1>. DEFINE S == Xors!VectorBytes \cup Xors!RestBytes
  <1>1. S \subseteq 0..v2 - 1
    BY RowBytes, Zenon
  <1>. HIDE DEF S
  <1>2. ~Xors!ReadsOutside(S, r * v2) /\ ~Xors!WritesOutside(S, to)
    BY <1>1, RowInside, OutputInside
  <1>. QED
    BY <1>2, Zenon DEF S, Xors!RowOutside

-----------------------------------------------------------------------------
\* A byte of a row has another address than what the output held, and is XORed in
\* once more or once less.
LEMMA XorAdds ==
  ASSUME NEW S, NEW x, x \notin S
  PROVE  Xors!Xor(S, {x}) = S \cup {x}
  BY Zenon DEF Xors!Xor

\* One more row named makes its parity the other one.
LEMMA OddStep ==
  ASSUME RowKernelsTyped, NEW n \in Nat, NEW s \in Xors!Rows, v3.args[n + 1] = s * v2,
         NEW k \in 0..v2 - 1
  PROVE  Xors!Xor(OddBytes(k, n), {v3.args[n + 1] + k}) = OddBytes(k, n + 1)
  <1>1. ASSUME NEW r \in Xors!Rows
        PROVE  r \in OddRows(n + 1) <=> IF r = s THEN r \notin OddRows(n) ELSE r \in OddRows(n)
    <2>1. IsFiniteSet(Named(r, n)) /\ Cardinality(Named(r, n)) \in Nat
      <3>1. IsFiniteSet(1..n)
        BY FS_Interval
      <3>2. Named(r, n) \subseteq 1..n
        BY DEF Named
      <3>. QED BY <3>1, <3>2, FS_Subset, FS_CardinalityType
    <2>2. CASE r = s
      <3>1. Named(r, n + 1) = Named(r, n) \cup {n + 1}
        BY <2>2 DEF Named
      <3>2. n + 1 \notin Named(r, n)
        BY DEF Named
      <3>3. Cardinality(Named(r, n + 1)) = Cardinality(Named(r, n)) + 1
        BY <2>1, <3>1, <3>2, FS_AddElement
      <3>. QED BY <2>1, <2>2, <3>3 DEF OddRows
    <2>3. CASE r # s
      <3>1. 0 \in 0..v2 - 1
        BY DEF RowKernelsTyped
      <3>2. r * v2 + 0 # s * v2 + 0
        BY <2>3, <3>1, Offsets
      <3>3. r * v2 # s * v2
        BY <3>2, Zenon
      <3>4. n + 1 \notin Named(r, n + 1)
        BY <3>3, Zenon DEF Named
      <3>5. Named(r, n + 1) = Named(r, n)
        BY <3>4 DEF Named
      <3>. QED BY <2>3, <3>5, Zenon DEF OddRows
    <2>. QED BY <2>2, <2>3
  <1>. DEFINE x == s * v2 + k
  <1>2. \A r \in Xors!Rows : r * v2 + k = x => r = s
    BY Offsets, Zenon
  <1>3. \A m \in {n, n + 1} : x \in OddBytes(k, m) <=> s \in OddRows(m)
    <2>1. \A m : OddRows(m) \subseteq Xors!Rows
      BY DEF OddRows
    <2>. QED BY <1>2, <2>1, Zenon DEF OddBytes
  <1>4. ASSUME NEW y, y # x PROVE y \in OddBytes(k, n) <=> y \in OddBytes(k, n + 1)
    <2>1. \A m : OddRows(m) \subseteq Xors!Rows
      BY DEF OddRows
    <2>2. \A r \in Xors!Rows : y = r * v2 + k => r # s
      BY <1>4, Zenon
    <2>. QED BY <1>1, <2>1, <2>2, Zenon DEF OddBytes
  <1>5. s \in OddRows(n + 1) <=> s \notin OddRows(n)
    BY <1>1, Zenon
  <1>. HIDE DEF x
  <1>6. Xors!Xor(OddBytes(k, n), {x}) = OddBytes(k, n + 1)
    BY <1>3, <1>4, <1>5, Zenon DEF Xors!Xor
  <1>. QED
    BY <1>6, Zenon DEF x

LEMMA OddNone ==
  ASSUME NEW k
  PROVE  OddBytes(k, 0) = {} /\ OddBytes(k, 0)' = {}
  <1>1. \A r : Named(r, 0) = {} /\ Named(r, 0)' = {}
    BY DEF Named
  <1>2. Cardinality({}) % 2 # 1
    <2>1. Cardinality({}) = 0
      BY FS_EmptySet
    <2>. QED BY <2>1
  <1>3. OddRows(0) = {} /\ OddRows(0)' = {}
    BY <1>1, <1>2, Zenon DEF OddRows
  <1>. QED
    BY <1>3, Zenon DEF OddBytes

-----------------------------------------------------------------------------
LEMMA SteppedIs ==
  ASSUME IsCall(v3), NEW last
  PROVE  /\ Xors!Stepped(last).kernel = v3.kernel
         /\ Xors!Stepped(last).args = v3.args
         /\ Xors!Stepped(last).i = v3.i + 1
         /\ Xors!Stepped(last).phase = IF v3.i + 1 = last THEN "done" ELSE v3.phase
         /\ IsCall(Xors!Stepped(last))
  <1>. DEFINE c == [v3 EXCEPT !.i = v3.i + 1]
              p == IF v3.i + 1 = last THEN "done" ELSE v3.phase
  <1>1. Xors!Stepped(last) = [c EXCEPT !.phase = p]
    BY Zenon DEF Xors!Stepped
  <1>2. c = [kernel |-> v3.kernel, args |-> v3.args, phase |-> v3.phase, i |-> v3.i + 1]
    BY DEF IsCall
  <1>. HIDE DEF c, p
  <1>3. Xors!Stepped(last) = [kernel |-> v3.kernel, args |-> v3.args, phase |-> p, i |-> v3.i + 1]
    BY <1>1, <1>2
  <1>. QED
    BY <1>3 DEF IsCall, p

LEMMA PhaseIs ==
  ASSUME IsCall(v3), NEW phase
  PROVE  LET c == [v3 EXCEPT !.phase = phase, !.i = 0] IN
         /\ c.kernel = v3.kernel /\ c.args = v3.args /\ c.phase = phase /\ c.i = 0
         /\ IsCall(c)
  <1>. DEFINE b == [v3 EXCEPT !.phase = phase]
              c == [v3 EXCEPT !.phase = phase, !.i = 0]
  <1>1. c = [b EXCEPT !.i = 0]
    BY Zenon
  <1>2. b = [kernel |-> v3.kernel, args |-> v3.args, phase |-> phase, i |-> v3.i]
    BY DEF IsCall
  <1>. HIDE DEF b, c
  <1>3. c = [kernel |-> v3.kernel, args |-> v3.args, phase |-> phase, i |-> 0]
    BY <1>1, <1>2
  <1>4. c.kernel = v3.kernel /\ c.args = v3.args /\ c.phase = phase /\ c.i = 0 /\ IsCall(c)
    BY <1>3 DEF IsCall
  <1>. QED
    BY <1>4 DEF c

\* What of a call is told apart by its kernel.
LEMMA OtherKernel ==
  /\ v3.kernel # "into" => IntoInv
  /\ v3.kernel # "all"  => AllInv
  /\ v3.kernel # "rows" => RowsInv
  /\ v3.kernel # "pass" => ParityInv
  /\ v3.kernel # "hash" => HashInv
  BY DEF IntoInv, AllInv, RowsInv, ParityInv, HashInv

LEMMA OtherKernelNext ==
  /\ v3'.kernel # "into" => IntoInv'
  /\ v3'.kernel # "all"  => AllInv'
  /\ v3'.kernel # "rows" => RowsInv'
  /\ v3'.kernel # "pass" => ParityInv'
  /\ v3'.kernel # "hash" => HashInv'
  BY DEF IntoInv, AllInv, RowsInv, ParityInv, HashInv

LEMMA RowKernelsInit ==
  ASSUME Xors!Init, Xors!KernelAssumption
  PROVE  RowKernelsInv
  <1>1. v3 = Xors!Idle /\ v3.kernel = "none"
    BY DEF Xors!Init, Xors!Idle
  <1>2. RowKernelsTyped
    <2>1. v1 \in {16, 32} /\ v2 \in Nat \ {0} /\ XorRows \in Nat \ {0} /\ ~v6
      BY DEF Xors!Init, Xors!KernelAssumption
    <2>2. IsCall(v3)
      BY <1>1 DEF IsCall, Xors!Idle
    <2>. QED BY <1>1, <2>1, <2>2 DEF RowKernelsTyped, AtLoop
  <1>. QED
    BY <1>1, <1>2, OtherKernel DEF RowKernelsInv

-----------------------------------------------------------------------------
\* What stands still while the arguments do.
LEMMA ArgsStay ==
  ASSUME UNCHANGED <<v1, v2>>, v3'.args = v3.args
  PROVE  /\ Xors!vec_bytes' = Xors!vec_bytes /\ Xors!TailBytes' = Xors!TailBytes
              /\ Xors!db_len' = Xors!db_len
         /\ \A k, n : OddBytes(k, n)' = OddBytes(k, n)
         /\ \A n : VectorsDone(n)' = VectorsDone(n) /\ Accumulators(n)' = Accumulators(n)
         /\ \A r : Xors!BitOf(r)' = Xors!BitOf(r)
         /\ \A k, n : PickedRows(k, n)' = PickedRows(k, n)
         /\ Xors!len_full_bytes' = Xors!len_full_bytes
  <1>1. Xors!vec_bytes' = Xors!vec_bytes /\ Xors!db_len' = Xors!db_len
          /\ Xors!len_full_bytes' = Xors!len_full_bytes
    BY Zenon DEF Xors!vec_bytes, Xors!db_len, Xors!len_full_bytes
  <1>2. Xors!TailBytes' = Xors!TailBytes
    BY Zenon DEF Xors!TailBytes, Xors!Pieces, Xors!Used, Xors!Off
  <1>3. \A r, n : Named(r, n)' = Named(r, n)
    BY Zenon DEF Named
  <1>4. \A n : OddRows(n)' = OddRows(n)
    BY <1>3, Zenon DEF OddRows, Xors!Rows
  <1>5. \A k, n : OddBytes(k, n)' = OddBytes(k, n)
    BY <1>4, Zenon DEF OddBytes
  <1>6. \A r : Xors!BitOf(r)' = Xors!BitOf(r)
    BY Zenon DEF Xors!BitOf
  <1>7. \A k, n : PickedRows(k, n)' = PickedRows(k, n)
    BY <1>6, Zenon DEF PickedRows
  <1>8. \A n : VectorsDone(n)' = VectorsDone(n)
    BY <1>1, <1>5, Zenon DEF VectorsDone
  <1>9. \A n : Accumulators(n)' = Accumulators(n)
    BY <1>2, <1>5, Zenon DEF Accumulators
  <1>. QED
    BY <1>1, <1>2, <1>5, <1>6, <1>7, <1>8, <1>9

LEMMA RowKernelsStutter ==
  ASSUME RowKernelsInv, UNCHANGED Xors!vars
  PROVE  RowKernelsInv'
  <1>1. UNCHANGED <<v1, v2, v3, v4, v5, v6>>
    BY DEF Xors!vars
  <1>2. /\ \A k, n : OddBytes(k, n)' = OddBytes(k, n)
        /\ \A n : VectorsDone(n)' = VectorsDone(n) /\ Accumulators(n)' = Accumulators(n)
        /\ \A r : Xors!BitOf(r)' = Xors!BitOf(r)
        /\ \A k, n : PickedRows(k, n)' = PickedRows(k, n)
        /\ Xors!len_full_bytes' = Xors!len_full_bytes
    BY <1>1, ArgsStay
  <1>3. RowKernelsTyped'
    BY <1>1 DEF RowKernelsInv, RowKernelsTyped, IsCall, AtLoop, Xors!Idle
  <1>4. IntoInv' /\ AllInv'
    BY <1>1 DEF RowKernelsInv, IntoInv, AllInv, Xors!Rows, Xors!Held, RowsUpTo, AllRows
  <1>5. RowsInv'
    BY <1>1, <1>2, Zenon DEF RowKernelsInv, RowsInv, Xors!Rows
  <1>6. ParityInv'
    <2>1. \A r, k, j : (Untouched(r, k)' <=> Untouched(r, k))
                         /\ (HasRow(r, k, j)' <=> HasRow(r, k, j))
      BY <1>1, Zenon DEF Untouched, HasRow
    <2>2. \A n : Passed(n)' <=> Passed(n)
      BY <1>1, <2>1, Zenon DEF Passed, Xors!Rows
    <2>. QED BY <1>1, <2>2, Zenon DEF RowKernelsInv, ParityInv, Xors!Rows, Xors!Perms
  <1>7. HashInv'
    BY <1>1, <1>2, Zenon DEF RowKernelsInv, HashInv, Xors!HashExact, Xors!Done
  <1>. QED
    BY <1>3, <1>4, <1>5, <1>6, <1>7 DEF RowKernelsInv

\* A step that leaves the call with its kernel and arguments.
LEMMA TypedStep ==
  ASSUME RowKernelsTyped, UNCHANGED <<v1, v2>>, IsCall(v3'), AtLoop', ~v6'
  PROVE  RowKernelsTyped'
  BY DEF RowKernelsTyped, IsCall

\* The start of a call.
LEMMA StartIs ==
  ASSUME RowKernelsInv, NEW kernel, NEW args, NEW phase, NEW o, Xors!Start(kernel, args, phase, o)
  PROVE  /\ v3'.kernel = kernel /\ v3'.args = args /\ v3'.phase = phase /\ v3'.i = 0
         /\ IsCall(v3') /\ v4' = o
         /\ UNCHANGED <<v1, v2, v5, v6>>
  BY DEF Xors!Start, IsCall

LEMMA StartTyped ==
  ASSUME RowKernelsInv, NEW kernel, NEW args, NEW phase, NEW o, Xors!Start(kernel, args, phase, o),
         \/ kernel \in {"into", "all"} /\ phase = "row"
         \/ kernel = "rows" /\ phase = "vector"
         \/ kernel = "pass" /\ phase = "pass"
  PROVE  RowKernelsTyped'
  BY StartIs, TypedStep DEF RowKernelsInv, RowKernelsTyped, AtLoop

LEMMA IntoStarts ==
  ASSUME RowKernelsInv, NEW r \in Xors!Rows, Xors!xor_into(r)
  PROVE  RowKernelsInv'
  <1>1. Xors!Start("into", <<r * v2>>, "row", Xors!Held(v2))
    BY DEF Xors!xor_into
  <1>2. /\ v3'.kernel = "into" /\ v3'.args = <<r * v2>> /\ v3'.phase = "row" /\ v3'.i = 0
        /\ v4' = Xors!Held(v2) /\ UNCHANGED <<v1, v2, v5, v6>>
    BY <1>1, StartIs, Zenon
  <1>3. RowKernelsTyped'
    BY <1>1, StartTyped
  <1>4. IntoInv'
    BY <1>2 DEF IntoInv, Xors!Held, Xors!Rows
  <1>. QED
    BY <1>2, <1>3, <1>4, OtherKernelNext DEF RowKernelsInv

LEMMA AllStarts ==
  ASSUME RowKernelsInv, Xors!xor_all_rows
  PROVE  RowKernelsInv'
  <1>1. Xors!Start("all", AllRows, "row", Xors!Zeroed(v2))
    BY Zenon DEF Xors!xor_all_rows, AllRows
  <1>2. /\ v3'.kernel = "all" /\ v3'.args = AllRows /\ v3'.phase = "row" /\ v3'.i = 0
        /\ v4' = Xors!Zeroed(v2) /\ UNCHANGED <<v1, v2, v5, v6>>
    BY <1>1, StartIs, Zenon
  <1>3. RowKernelsTyped'
    BY <1>1, StartTyped
  <1>4. Xors!Zeroed(v2) = RowsUpTo(0) /\ RowsUpTo(0)' = RowsUpTo(0) /\ AllRows' = AllRows
    BY <1>2 DEF Xors!Zeroed, RowsUpTo, AllRows
  <1>5. 0 \in 0..XorRows - 1
    BY DEF RowKernelsInv, RowKernelsTyped
  <1>6. AllInv'
    BY <1>2, <1>4, <1>5 DEF AllInv
  <1>. QED
    BY <1>2, <1>3, <1>6, OtherKernelNext DEF RowKernelsInv

\* Both callers of xor_rows name rows of the database.
LEMMA RowsStart ==
  ASSUME RowKernelsInv, NEW n \in Nat \ {0}, NEW rows \in [1..n -> Xors!Rows],
         Xors!Start("rows", [k \in DOMAIN rows |-> rows[k] * v2], "vector", Xors!Zeroed(v2))
  PROVE  RowKernelsInv'
  <1>. DEFINE args == [k \in DOMAIN rows |-> rows[k] * v2]
  <1>1. args = [k \in 1..n |-> rows[k] * v2] /\ Len(args) = n /\ DOMAIN args = 1..n
    OBVIOUS
  <1>2. \A j \in 1..n : \E r \in Xors!Rows : args[j] = r * v2
    BY <1>1
  <1>3. Xors!Start("rows", args, "vector", Xors!Zeroed(v2))
    OBVIOUS
  <1>. HIDE DEF args
  <1>4. /\ v3'.kernel = "rows" /\ v3'.args = args /\ v3'.phase = "vector" /\ v3'.i = 0
        /\ v4' = Xors!Zeroed(v2) /\ UNCHANGED <<v1, v2, v5, v6>>
    BY <1>3, StartIs, Zenon
  <1>5. RowKernelsTyped'
    BY <1>3, StartTyped
  <1>6. \A k : OddBytes(k, 0)' = {}
    BY OddNone, Zenon
  <1>7. v4' = VectorsDone(0)'
    BY <1>4, <1>6, Zenon DEF Xors!Zeroed, VectorsDone
  <1>8. 0 \in 0..n - 1
    OBVIOUS
  <1>9. RowsInv'
    BY <1>1, <1>2, <1>4, <1>7, <1>8 DEF RowsInv, Xors!Rows
  <1>. QED
    BY <1>4, <1>5, <1>9, OtherKernelNext DEF RowKernelsInv

LEMMA PassStarts ==
  ASSUME RowKernelsInv, NEW p \in Xors!Perms, Xors!xor_single_pass(p)
  PROVE  RowKernelsInv'
  <1>1. Xors!Start("pass", p, "pass", Xors!Held(XorRows * v2))
    BY DEF Xors!xor_single_pass
  <1>2. /\ v3'.kernel = "pass" /\ v3'.args = p /\ v3'.phase = "pass" /\ v3'.i = 0
        /\ v4' = Xors!Held(XorRows * v2) /\ UNCHANGED <<v1, v2, v5, v6>>
    BY <1>1, StartIs, Zenon
  <1>3. RowKernelsTyped'
    BY <1>1, StartTyped
  <1>4. v4' = [at \in 0..XorRows * v2 - 1 |-> {-1 - at}]
    BY <1>2, Zenon DEF Xors!Held
  <1>5. \A r \in Xors!Rows, k \in 0..v2 - 1 : r * v2 + k \in 0..XorRows * v2 - 1
    BY RowOfBlock DEF RowKernelsInv, RowKernelsTyped, Xors!Rows
  <1>6. \A r \in Xors!Rows, k \in 0..v2 - 1 : v4'[r * v2 + k] = {-1 - (r * v2 + k)}
    BY <1>4, <1>5, Zenon
  <1>7. \A j \in 0..0 - 1 : FALSE
    OBVIOUS
  <1>8. 0 \in 0..XorRows - 1
    BY DEF RowKernelsInv, RowKernelsTyped
  <1>9. v3'.args \in Xors!Perms /\ v3'.i \in 0..XorRows - 1
    BY <1>2, <1>8
  <1>10. v4' = [at \in 0..XorRows * v2' - 1 |-> v4'[at]]
    BY <1>2, <1>4, Zenon
  <1>11. Passed(0)'
    BY <1>2, <1>6, <1>7, Zenon DEF Passed, Untouched, Xors!Rows
  <1>12. ParityInv'
    BY <1>2, <1>9, <1>10, <1>11 DEF ParityInv, Xors!Rows, Xors!Perms
  <1>. QED
    BY <1>2, <1>3, <1>12, OtherKernelNext DEF RowKernelsInv

LEMMA HashStarts ==
  ASSUME RowKernelsInv, NEW n \in Nat, NEW v, DOMAIN v = 1..(n + 7) \div 8,
         Xors!xor_hashes_by_bit_vector(n, v)
  PROVE  RowKernelsInv'
  <1>1. /\ v3'.kernel = "hash" /\ v3'.args = [n |-> n, bits |-> v]
        /\ v3'.phase = "batch" /\ v3'.i = 0 /\ IsCall(v3')
        /\ v5' = [k \in 0..7 |-> [b \in 0..1 |-> {}]]
        /\ UNCHANGED <<v1, v2, v6>>
    BY DEF Xors!xor_hashes_by_bit_vector, IsCall
  <1>2. RowKernelsTyped'
    BY <1>1, TypedStep DEF RowKernelsInv, RowKernelsTyped, AtLoop
  <1>3. \A k \in 0..7 : PickedRows(k, 0)' = {}
    <2>1. 0..0 - 1 = {}
      OBVIOUS
    <2>. QED BY <2>1, Zenon DEF PickedRows
  <1>4. /\ v5' = [k \in 0..7 |-> [b \in 0..1 |-> v5'[k][b]]]
        /\ \A k \in 0..7 : v5'[k][1] = {}
    <2>1. 1 \in 0..1
      OBVIOUS
    <2>. QED BY <1>1, <2>1, Zenon
  <1>5. /\ v3'.args.n = n /\ 0 \in 0..n /\ 0 % 8 = 0 /\ 0 <= (n \div 8) * 8
        /\ v3'.args.bits = v
    BY <1>1
  <1>6. HashInv'
    BY <1>1, <1>3, <1>4, <1>5 DEF HashInv, Xors!len_full_bytes
  <1>. QED
    BY <1>1, <1>2, <1>6, OtherKernelNext DEF RowKernelsInv

LEMMA Returns ==
  ASSUME RowKernelsInv, Xors!Return
  PROVE  RowKernelsInv'
  <1>1. v3' = Xors!Idle /\ v3'.kernel = "none" /\ IsCall(v3') /\ UNCHANGED <<v1, v2, v6>>
    BY DEF Xors!Return, Xors!Idle, IsCall
  <1>2. RowKernelsTyped'
    BY <1>1, TypedStep DEF RowKernelsInv, RowKernelsTyped, AtLoop, Xors!Idle
  <1>. QED
    BY <1>1, <1>2, OtherKernelNext DEF RowKernelsInv

-----------------------------------------------------------------------------
LEMMA RowSteps ==
  ASSUME RowKernelsInv, Xors!RowStep
  PROVE  RowKernelsInv'
  <1>. DEFINE c == Xors!Stepped(Len(v3.args))
              at == v3.args[v3.i + 1]
  <1>1. /\ v3.phase = "row" /\ v3' = c /\ UNCHANGED <<v1, v2, v5>>
        /\ v4' = Xors!RowInto(v4, 0, at)
        /\ v6' = (v6 \/ Xors!RowOutside(0, at))
    BY Zenon DEF Xors!RowStep
  <1>2. IsCall(v3) /\ RowKernelsTyped
    BY DEF RowKernelsInv, RowKernelsTyped
  <1>3. /\ v3'.kernel = v3.kernel /\ v3'.args = v3.args /\ v3'.i = v3.i + 1
        /\ v3'.phase = IF v3.i + 1 = Len(v3.args) THEN "done" ELSE "row"
        /\ IsCall(v3')
    BY <1>1, <1>2, SteppedIs, Zenon
  <1>. HIDE DEF c, at
  <1>4. v3.kernel \in {"into", "all"}
    BY <1>1, <1>2 DEF RowKernelsTyped, AtLoop, Xors!Idle
  <1>5. ASSUME NEW r \in Xors!Rows, at = r * v2, DOMAIN v4 = 0..v2 - 1 PROVE RowKernelsTyped'
    <2>1. ~v6'
      <3>1. v2 \in Nat /\ 0 + v2 <= v2
        BY <1>2 DEF RowKernelsTyped
      <3>2. ~Xors!RowOutside(0, at)
        BY <1>2, <1>5, <3>1, NothingOutside
      <3>. QED BY <1>1, <1>2, <3>2, Zenon DEF RowKernelsTyped
    <2>. QED BY <1>1, <1>2, <1>3, <1>4, <2>1, TypedStep DEF AtLoop
  <1>6. CASE v3.kernel = "into"
    <2>1. PICK r \in Xors!Rows : v3.args = <<r * v2>>
      BY <1>6 DEF RowKernelsInv, IntoInv
    <2>2. v3.i = 0 /\ v4 = Xors!Held(v2)
      BY <1>1, <1>6 DEF RowKernelsInv, IntoInv
    <2>3. at = r * v2 /\ Len(v3.args) = 1 /\ v3'.phase = "done"
      BY <2>1, <2>2, <1>3 DEF at
    <2>4. v4' = [k \in 0..v2 - 1 |-> Xors!Xor({-1 - k}, {at + k})] /\ DOMAIN v4 = 0..v2 - 1
      <3>1. DOMAIN Xors!Held(v2) = 0..v2 - 1 /\ \A k \in 0..v2 - 1 : Xors!Held(v2)[k] = {-1 - k}
        BY DEF Xors!Held
      <3>2. Xors!RowInto(v4, 0, at) = RowXored(v4, at)
        BY <1>2, <2>2, <3>1, RowIntoRow
      <3>. QED BY <1>1, <2>2, <3>1, <3>2 DEF RowXored
    <2>5. ASSUME NEW k \in 0..v2 - 1 PROVE v4'[k] = {-1 - k, at + k}
      <3>1. at + k # -1 - k
        BY <2>3, <1>2, Offsets DEF RowKernelsTyped
      <3>2. v4'[k] = Xors!Xor({-1 - k}, {at + k})
        BY <2>4
      <3>. QED BY <3>1, <3>2, Zenon DEF Xors!Xor
    <2>6. v3'.args[1] = at
      BY <1>3, <2>2 DEF at
    <2>7. IntoInv'
      BY <1>1, <1>3, <2>1, <2>3, <2>5, <2>6 DEF IntoInv, Xors!Rows
    <2>. QED BY <1>3, <1>5, <1>6, <2>3, <2>4, <2>7, OtherKernelNext DEF RowKernelsInv
  <1>7. CASE v3.kernel = "all"
    <2>1. v3.args = AllRows /\ v3.i \in 0..XorRows - 1 /\ v4 = RowsUpTo(v3.i)
      BY <1>1, <1>7 DEF RowKernelsInv, AllInv
    <2>2. XorRows \in Nat /\ v2 \in Nat
      BY <1>2 DEF RowKernelsTyped
    <2>3. Len(v3.args) = XorRows /\ v3.i \in Xors!Rows /\ at = v3.i * v2
      BY <2>1, <2>2 DEF at, Xors!Rows, AllRows
    <2>4. DOMAIN v4 = 0..v2 - 1 /\ \A k \in 0..v2 - 1 : v4[k] = {r * v2 + k : r \in 0..v3.i - 1}
      BY <2>1, Zenon DEF RowsUpTo
    <2>5. Xors!RowInto(v4, 0, at) = RowXored(v4, at)
      BY <1>2, <2>4, RowIntoRow
    <2>6. ASSUME NEW k \in 0..v2 - 1
          PROVE  Xors!Xor(v4[k], {at + k}) = {r * v2 + k : r \in 0..v3.i}
      <3>1. v4[k] = {r * v2 + k : r \in 0..v3.i - 1}
        BY <2>4
      <3>2. 0..v3.i = (0..v3.i - 1) \cup {v3.i} /\ (0..v3.i - 1) \subseteq Xors!Rows
        BY <2>1, <2>2 DEF Xors!Rows
      <3>3. \A r \in 0..v3.i - 1 : r # v3.i
        BY <2>1
      <3>4. at + k \notin v4[k]
        BY <1>2, <2>3, <3>1, <3>2, <3>3, Offsets
      <3>5. Xors!Xor(v4[k], {at + k}) = v4[k] \cup {at + k}
        BY <3>4, XorAdds
      <3>. QED BY <3>1, <3>2, <3>5, <2>3, Zenon
    <2>7. v3'.i - 1 = v3.i /\ v3'.i \in 1..XorRows
      BY <1>3, <2>1, <2>2
    <2>8. v4' = RowsUpTo(v3'.i)
      BY <1>1, <2>5, <2>6, <2>7, Zenon DEF RowsUpTo, RowXored
    <2>9. v3'.args = AllRows
      BY <1>3, <2>1
    <2>10. \A n : RowsUpTo(n)' = RowsUpTo(n)
      BY <1>1, Zenon DEF RowsUpTo
    <2>11. AllRows' = AllRows
      BY <1>1, Zenon DEF AllRows
    <2>12. ASSUME v3.i + 1 = XorRows PROVE AllInv'
      <3>1. v3'.i = XorRows /\ v3'.phase = "done"
        BY <1>3, <2>3, <2>12
      <3>2. v3'.phase # "row"
        BY <3>1
      <3>. QED BY <3>1, <3>2, <2>8, <2>9, <2>10, <2>11, Zenon DEF AllInv
    <2>13. ASSUME v3.i + 1 # XorRows PROVE AllInv'
      <3>1. v3'.i \in 0..XorRows - 1
        BY <2>1, <2>2, <2>7, <2>13
      <3>2. v3'.phase = "row"
        BY <1>3, <2>3, <2>13
      <3>3. v3'.phase # "done"
        BY <3>2
      <3>. QED BY <3>1, <3>3, <2>8, <2>9, <2>10, <2>11, Zenon DEF AllInv
    <2>14. AllInv'
      BY <2>12, <2>13
    <2>. QED BY <1>3, <1>5, <1>7, <2>3, <2>4, <2>14, OtherKernelNext DEF RowKernelsInv
  <1>. QED
    BY <1>4, <1>6, <1>7

-----------------------------------------------------------------------------
\* An argument of xor_rows is the offset of a row: both guards let it pass, and
\* neither loop reads past the database.
LEMMA ElemInside ==
  ASSUME RowKernelsInv, v3.kernel = "rows", v3.phase \in {"vector", "tail"}
  PROVE  /\ ~Xors!Skips(Xors!Elem) /\ ~(Xors!Elem > Xors!db_len)
         /\ ~Xors!ReadsOutside(Xors!VectorBytes, Xors!Elem)
         /\ ~Xors!ReadsOutside(Xors!TailBytes, Xors!Elem)
         /\ v3.i \in 0..Len(v3.args) - 1
         /\ \E s \in Xors!Rows : Xors!Elem = s * v2
  <1>1. v3.i \in 0..Len(v3.args) - 1 /\ Len(v3.args) \in Nat
    BY DEF RowKernelsInv, RowsInv
  <1>2. v3.i + 1 \in 1..Len(v3.args)
    BY <1>1
  <1>3. PICK s \in Xors!Rows : Xors!Elem = s * v2
    BY <1>2 DEF RowKernelsInv, RowsInv, Xors!Elem
  <1>4. RowKernelsTyped
    BY DEF RowKernelsInv
  <1>5. Xors!Elem \in Nat /\ Xors!Elem + v2 <= Xors!db_len /\ v2 \in Nat /\ Xors!db_len \in Int
    BY <1>3, <1>4, Offsets DEF RowKernelsTyped, Xors!db_len
  <1>6. /\ ~Xors!ReadsOutside(Xors!VectorBytes, Xors!Elem)
        /\ ~Xors!ReadsOutside(Xors!TailBytes, Xors!Elem)
    BY <1>3, <1>4, RowInside, RowBytes, TailInside
  <1>. QED
    BY <1>1, <1>3, <1>5, <1>6 DEF Xors!Skips

LEMMA RowsVectorKeeps ==
  ASSUME RowKernelsInv, Xors!RowsVector
  PROVE  RowKernelsInv'
  <1>1. v3.phase = "vector" /\ UNCHANGED <<v1, v2>>
    BY DEF Xors!RowsVector
  <1>2. IsCall(v3) /\ RowKernelsTyped /\ v3.kernel = "rows"
    BY <1>1 DEF RowKernelsInv, RowKernelsTyped, AtLoop, Xors!Idle
  <1>3. /\ ~Xors!Skips(Xors!Elem) /\ ~Xors!ReadsOutside(Xors!VectorBytes, Xors!Elem)
        /\ v3.i \in 0..Len(v3.args) - 1
    BY <1>1, <1>2, ElemInside
  <1>4. PICK s \in Xors!Rows : Xors!Elem = s * v2
    BY <1>1, <1>2, ElemInside
  <1>. DEFINE n == v3.i  m == Len(v3.args)
  <1>5. n \in Nat /\ m \in Nat \ {0} /\ n + 1 <= m
    BY <1>2, <1>3 DEF RowKernelsInv, RowsInv
  <1>6. ~v6'
    <2>1. v4 = VectorsDone(n) /\ v2 \in Nat /\ 0 + v2 <= v2
      BY <1>1, <1>2 DEF RowKernelsInv, RowsInv, RowKernelsTyped
    <2>2. DOMAIN v4 = 0..v2 - 1
      BY <2>1, Zenon DEF VectorsDone
    <2>3. ~Xors!WritesOutside(Xors!VectorBytes, 0)
      BY <1>2, <2>1, <2>2, RowBytes, OutputInside
    <2>. QED BY <1>2, <1>3, <2>3, Zenon DEF Xors!RowsVector, RowKernelsTyped
  <1>7. v4' = VectorsDone(n + 1)
    <2>1. v4' = Xors!Xored(v4, 0, Xors!VectorBytes, Xors!Elem)
      BY <1>3, Zenon DEF Xors!RowsVector
    <2>2. v4 = VectorsDone(n)
      BY <1>1, <1>2 DEF RowKernelsInv, RowsInv
    <2>3. DOMAIN v4 = 0..v2 - 1 /\ \A k \in 0..v2 - 1 : v4[k] =
            IF k < Xors!vec_bytes THEN OddBytes(k, n) ELSE {}
      BY <2>2, Zenon DEF VectorsDone
    <2>4. \A k \in 0..v2 - 1 : Xors!Xor(OddBytes(k, n), {Xors!Elem + k}) = OddBytes(k, n + 1)
      BY <1>2, <1>4, <1>5, OddStep DEF Xors!Elem
    <2>5. \A k \in 0..v2 - 1 : (k \in Xors!VectorBytes <=> k < Xors!vec_bytes) /\ k - 0 = k
      BY <1>2, VecFacts, RowBytes DEF RowKernelsTyped
    <2>. HIDE DEF n
    <2>. QED BY <2>1, <2>3, <2>4, <2>5, Zenon DEF Xors!Xored, VectorsDone
  <1>8. \A j \in 1..m : \E r \in Xors!Rows : v3.args[j] = r * v2
    BY <1>2 DEF RowKernelsInv, RowsInv
  <1>9. DOMAIN v3.args = 1..m
    BY <1>2 DEF RowKernelsInv, RowsInv
  <1>10. CASE n + 1 < m
    <2>1. v3' = Xors!Stepped(0) /\ v3.i + 1 # 0
      BY <1>5, <1>10 DEF Xors!RowsVector
    <2>2. /\ v3'.kernel = "rows" /\ v3'.args = v3.args /\ v3'.i = n + 1
          /\ v3'.phase = "vector" /\ IsCall(v3')
      BY <1>1, <1>2, <2>1, SteppedIs
    <2>3. n + 1 \in 0..m - 1
      BY <1>5, <1>10
    <2>4. \A k : VectorsDone(k)' = VectorsDone(k)
      BY <1>1, <2>2, ArgsStay, Zenon
    <2>. HIDE DEF n, m
    <2>5. RowsInv'
      <3>1. v3'.phase \notin {"tail", "flush", "done"}
        BY <2>2
      <3>2. v4' = VectorsDone(v3'.i)
        BY <1>7, <2>2
      <3>3. /\ Len(v3'.args) = m /\ m \in Nat \ {0}
            /\ \A j \in 1..m : \E r \in Xors!Rows : v3'.args[j] = r * v2'
            /\ DOMAIN v3'.args = 1..m /\ v3'.i \in 0..m - 1
        BY <1>1, <1>5, <1>8, <1>9, <2>2, <2>3 DEF m
      <3>. QED BY <2>4, <3>1, <3>2, <3>3, Zenon DEF RowsInv, Xors!Rows
    <2>6. RowKernelsTyped'
      BY <1>1, <1>2, <1>6, <2>2, TypedStep DEF AtLoop
    <2>. QED BY <2>2, <2>5, <2>6, OtherKernelNext DEF RowKernelsInv
  <1>11. CASE n + 1 = m /\ v2 % v1 = 0
    <2>1. v3' = [v3 EXCEPT !.phase = "done"]
      BY <1>5, <1>11 DEF Xors!RowsVector
    <2>2. v3'.kernel = "rows" /\ v3'.args = v3.args /\ v3'.phase = "done" /\ IsCall(v3')
      BY <1>2, <2>1 DEF IsCall
    <2>3. \A k \in 0..v2 - 1 : v4'[k] = OddBytes(k, m)
      <3>1. Xors!vec_bytes = v2
        BY <1>2, <1>11, VecFacts
      <3>2. \A k \in 0..v2 - 1 : k < Xors!vec_bytes
        BY <1>2, <3>1 DEF RowKernelsTyped
      <3>. QED BY <1>7, <1>11, <3>2, Zenon DEF VectorsDone
    <2>4. \A k : OddBytes(k, m)' = OddBytes(k, m)
      BY <1>1, <2>2, ArgsStay, Zenon
    <2>. HIDE DEF n, m
    <2>5. RowsInv'
      BY <1>1, <1>5, <1>8, <1>9, <2>2, <2>3, <2>4 DEF RowsInv, Xors!Rows, m
    <2>6. RowKernelsTyped'
      BY <1>1, <1>2, <1>6, <2>2, TypedStep DEF AtLoop
    <2>. QED BY <2>2, <2>5, <2>6, OtherKernelNext DEF RowKernelsInv
  <1>12. CASE n + 1 = m /\ v2 % v1 # 0
    <2>1. /\ v3' = [v3 EXCEPT !.phase = "tail", !.i = 0]
          /\ v5' = Xors!Zeroed(v2)
      BY <1>5, <1>12 DEF Xors!RowsVector
    <2>2. /\ v3'.kernel = "rows" /\ v3'.args = v3.args /\ v3'.phase = "tail"
          /\ v3'.i = 0 /\ IsCall(v3')
      BY <1>2, <2>1, PhaseIs
    <2>3. \A k : VectorsDone(k)' = VectorsDone(k) /\ Accumulators(k)' = Accumulators(k)
      BY <1>1, <2>2, ArgsStay, Zenon
    <2>4. v5' = Accumulators(0)
      <3>1. \A k : OddBytes(k, 0) = {}
        BY OddNone, Zenon
      <3>. QED BY <2>1, <3>1, Zenon DEF Accumulators, Xors!Zeroed
    <2>5. 0 \in 0..m - 1
      BY <1>5
    <2>6. v4' = VectorsDone(m)
      BY <1>7, <1>12
    <2>. HIDE DEF n, m
    <2>7. RowsInv'
      BY <1>1, <1>5, <1>8, <1>9, <2>2, <2>3, <2>4, <2>5, <2>6 DEF RowsInv, Xors!Rows, m
    <2>8. RowKernelsTyped'
      BY <1>1, <1>2, <1>6, <2>2, TypedStep DEF AtLoop
    <2>. QED BY <2>2, <2>7, <2>8, OtherKernelNext DEF RowKernelsInv
  <1>. QED
    BY <1>5, <1>10, <1>11, <1>12

LEMMA RowsTailKeeps ==
  ASSUME RowKernelsInv, Xors!RowsTail
  PROVE  RowKernelsInv'
  <1>1. v3.phase = "tail" /\ UNCHANGED <<v1, v2, v4>>
    BY DEF Xors!RowsTail
  <1>2. IsCall(v3) /\ RowKernelsTyped /\ v3.kernel = "rows"
    BY <1>1 DEF RowKernelsInv, RowKernelsTyped, AtLoop, Xors!Idle
  <1>3. /\ ~(Xors!Elem > Xors!db_len) /\ ~Xors!ReadsOutside(Xors!TailBytes, Xors!Elem)
        /\ v3.i \in 0..Len(v3.args) - 1
    BY <1>1, <1>2, ElemInside
  <1>4. PICK s \in Xors!Rows : Xors!Elem = s * v2
    BY <1>1, <1>2, ElemInside
  <1>. DEFINE n == v3.i  m == Len(v3.args)
  <1>5. n \in Nat /\ m \in Nat \ {0} /\ n + 1 <= m
    BY <1>2, <1>3 DEF RowKernelsInv, RowsInv
  <1>6. ~v6'
    BY <1>2, <1>3, Zenon DEF Xors!RowsTail, RowKernelsTyped
  <1>7. v5' = Accumulators(n + 1)
    <2>1. v5' = [k \in DOMAIN v5 |->
            IF k \in Xors!TailBytes THEN Xors!Xor(v5[k], {Xors!Elem + k}) ELSE v5[k]]
      BY <1>3, Zenon DEF Xors!RowsTail
    <2>2. v5 = Accumulators(n)
      BY <1>1, <1>2 DEF RowKernelsInv, RowsInv
    <2>3. /\ DOMAIN v5 = 0..v2 - 1
          /\ \A k \in 0..v2 - 1 : v5[k] = IF k \in Xors!TailBytes THEN OddBytes(k, n) ELSE {}
      BY <2>2, Zenon DEF Accumulators
    <2>4. \A k \in 0..v2 - 1 : Xors!Xor(OddBytes(k, n), {Xors!Elem + k}) = OddBytes(k, n + 1)
      BY <1>2, <1>4, <1>5, OddStep DEF Xors!Elem
    <2>. HIDE DEF n
    <2>. QED BY <2>1, <2>3, <2>4, Zenon DEF Accumulators
  <1>8. /\ \A j \in 1..m : \E r \in Xors!Rows : v3.args[j] = r * v2
        /\ DOMAIN v3.args = 1..m
        /\ v4 = VectorsDone(m)
    BY <1>1, <1>2 DEF RowKernelsInv, RowsInv
  <1>9. CASE n + 1 < m
    <2>1. v3' = Xors!Stepped(0) /\ v3.i + 1 # 0
      BY <1>5, <1>9 DEF Xors!RowsTail
    <2>2. /\ v3'.kernel = "rows" /\ v3'.args = v3.args /\ v3'.i = n + 1
          /\ v3'.phase = "tail" /\ IsCall(v3')
      BY <1>1, <1>2, <2>1, SteppedIs
    <2>3. n + 1 \in 0..m - 1
      BY <1>5, <1>9
    <2>4. \A k : VectorsDone(k)' = VectorsDone(k) /\ Accumulators(k)' = Accumulators(k)
      BY <1>1, <2>2, ArgsStay, Zenon
    <2>. HIDE DEF n, m
    <2>5. RowsInv'
      <3>1. v3'.phase \notin {"vector", "flush", "done"}
        BY <2>2
      <3>2. v5' = Accumulators(v3'.i) /\ v4' = VectorsDone(m)
        BY <1>1, <1>7, <1>8, <2>2
      <3>3. /\ Len(v3'.args) = m /\ m \in Nat \ {0}
            /\ \A j \in 1..m : \E r \in Xors!Rows : v3'.args[j] = r * v2'
            /\ DOMAIN v3'.args = 1..m /\ v3'.i \in 0..m - 1
        BY <1>1, <1>5, <1>8, <2>2, <2>3 DEF m
      <3>. QED BY <2>4, <3>1, <3>2, <3>3, Zenon DEF RowsInv, Xors!Rows
    <2>6. RowKernelsTyped'
      BY <1>1, <1>2, <1>6, <2>2, TypedStep DEF AtLoop
    <2>. QED BY <2>2, <2>5, <2>6, OtherKernelNext DEF RowKernelsInv
  <1>10. CASE n + 1 = m
    <2>1. v3' = [v3 EXCEPT !.phase = "flush"]
      BY <1>5, <1>10 DEF Xors!RowsTail
    <2>2. v3'.kernel = "rows" /\ v3'.args = v3.args /\ v3'.phase = "flush" /\ IsCall(v3')
      BY <1>2, <2>1 DEF IsCall
    <2>3. \A k : VectorsDone(k)' = VectorsDone(k) /\ Accumulators(k)' = Accumulators(k)
      BY <1>1, <2>2, ArgsStay, Zenon
    <2>4. v5' = Accumulators(m) /\ v4' = VectorsDone(m)
      BY <1>1, <1>7, <1>8, <1>10
    <2>. HIDE DEF n, m
    <2>5. RowsInv'
      <3>1. v3'.phase \notin {"vector", "tail", "done"}
        BY <2>2
      <3>2. /\ Len(v3'.args) = m /\ m \in Nat \ {0}
            /\ \A j \in 1..m : \E r \in Xors!Rows : v3'.args[j] = r * v2'
            /\ DOMAIN v3'.args = 1..m
        BY <1>1, <1>5, <1>8, <2>2 DEF m
      <3>. QED BY <2>3, <2>4, <3>1, <3>2, Zenon DEF RowsInv, Xors!Rows
    <2>6. RowKernelsTyped'
      BY <1>1, <1>2, <1>6, <2>2, TypedStep DEF AtLoop
    <2>. QED BY <2>2, <2>5, <2>6, OtherKernelNext DEF RowKernelsInv
  <1>. QED
    BY <1>5, <1>9, <1>10

LEMMA RowsFlushKeeps ==
  ASSUME RowKernelsInv, Xors!RowsFlush
  PROVE  RowKernelsInv'
  <1>1. /\ v3.phase = "flush" /\ UNCHANGED <<v1, v2, v5>>
        /\ v6' = (v6 \/ Xors!WritesOutside(Xors!TailBytes, 0))
        /\ v3' = [v3 EXCEPT !.phase = "done"]
        /\ v4' = [k \in DOMAIN v4 |-> IF k \in Xors!TailBytes THEN v5[k] ELSE v4[k]]
    BY DEF Xors!RowsFlush
  <1>2. IsCall(v3) /\ RowKernelsTyped /\ v3.kernel = "rows"
    BY <1>1 DEF RowKernelsInv, RowKernelsTyped, AtLoop, Xors!Idle
  <1>3. v3'.kernel = "rows" /\ v3'.args = v3.args /\ v3'.phase = "done" /\ IsCall(v3')
    BY <1>1, <1>2 DEF IsCall
  <1>. DEFINE m == Len(v3.args)
  <1>4. /\ \A j \in 1..m : \E r \in Xors!Rows : v3.args[j] = r * v2
        /\ DOMAIN v3.args = 1..m /\ m \in Nat \ {0}
        /\ v4 = VectorsDone(m) /\ v5 = Accumulators(m)
    BY <1>1, <1>2 DEF RowKernelsInv, RowsInv
  <1>5. ASSUME NEW k \in 0..v2 - 1 PROVE v4'[k] = OddBytes(k, m)
    <2>. HIDE DEF m
    <2>1. DOMAIN v4 = 0..v2 - 1 /\ v4[k] = IF k < Xors!vec_bytes THEN OddBytes(k, m) ELSE {}
      BY <1>4, Zenon DEF VectorsDone
    <2>2. v5[k] = IF k \in Xors!TailBytes THEN OddBytes(k, m) ELSE {}
      BY <1>4, Zenon DEF Accumulators
    <2>3. k \in Xors!TailBytes \/ k < Xors!vec_bytes
      BY <1>2, TailCovers, VecFacts DEF RowKernelsTyped
    <2>4. v4'[k] = IF k \in Xors!TailBytes THEN v5[k] ELSE v4[k]
      BY <1>1, <2>1, Zenon
    <2>. QED BY <2>1, <2>2, <2>3, <2>4
  <1>6. \A k : OddBytes(k, m)' = OddBytes(k, m)
    BY <1>1, <1>3, ArgsStay, Zenon
  <1>. HIDE DEF m
  <1>7. RowsInv'
    BY <1>1, <1>3, <1>4, <1>5, <1>6 DEF RowsInv, Xors!Rows, m
  <1>8. ~v6'
    <2>1. DOMAIN v4 = 0..v2 - 1
      BY <1>4, Zenon DEF VectorsDone
    <2>2. v2 \in Nat /\ 0 + v2 <= v2 /\ ~v6
      BY <1>2 DEF RowKernelsTyped
    <2>3. ~Xors!WritesOutside(Xors!TailBytes, 0)
      BY <1>2, <2>1, <2>2, TailInside, OutputInside
    <2>. QED BY <1>1, <2>2, <2>3, Zenon
  <1>9. RowKernelsTyped'
    BY <1>1, <1>2, <1>3, <1>8, TypedStep DEF AtLoop, RowKernelsTyped
  <1>. QED
    BY <1>3, <1>7, <1>9, OtherKernelNext DEF RowKernelsInv

-----------------------------------------------------------------------------
LEMMA PassKeeps ==
  ASSUME RowKernelsInv, Xors!PassStep
  PROVE  RowKernelsInv'
  <1>. DEFINE to == Xors!Target(v3.args, v3.i) * v2
              at == v3.i * v2
              s == v3.args[v3.i + 1]
  <1>1. /\ v3.phase = "pass" /\ UNCHANGED <<v1, v2, v5>> /\ v3' = Xors!Stepped(XorRows)
        /\ v4' = Xors!RowInto(v4, to, at)
        /\ v6' = (v6 \/ Xors!RowOutside(to, at))
    BY Zenon DEF Xors!PassStep
  <1>2. IsCall(v3) /\ RowKernelsTyped /\ v3.kernel = "pass"
    BY <1>1 DEF RowKernelsInv, RowKernelsTyped, AtLoop, Xors!Idle
  <1>3. /\ v3'.kernel = "pass" /\ v3'.args = v3.args /\ v3'.i = v3.i + 1
        /\ v3'.phase = IF v3.i + 1 = XorRows THEN "done" ELSE "pass"
        /\ IsCall(v3')
    BY <1>1, <1>2, SteppedIs
  <1>4. /\ v3.args \in Xors!Perms /\ v3.i \in 0..XorRows - 1
        /\ v4 = [b \in 0..XorRows * v2 - 1 |-> v4[b]]
    BY <1>1, <1>2 DEF RowKernelsInv, ParityInv
  <1>5. /\ v2 \in Nat \ {0} /\ XorRows \in Nat \ {0} /\ v3.i \in Xors!Rows /\ s \in Xors!Rows
        /\ to = s * v2
    <2>1. v2 \in Nat \ {0} /\ XorRows \in Nat \ {0} /\ v3.i \in Xors!Rows
      BY <1>2, <1>4 DEF RowKernelsTyped, Xors!Rows
    <2>2. v3.i + 1 \in 1..XorRows
      BY <1>4, <2>1
    <2>3. v3.args \in [1..XorRows -> Xors!Rows]
      BY <1>4, Zenon DEF Xors!Perms
    <2>. QED BY <2>1, <2>2, <2>3 DEF Xors!Target
  <1>6. \A j \in 0..XorRows - 1 : v3.args[j + 1] = s => j = v3.i
    <2>1. \A a, b \in 1..XorRows : v3.args[a] = v3.args[b] => a = b
      BY <1>4, Zenon DEF Xors!Perms
    <2>2. ASSUME NEW j \in 0..XorRows - 1, v3.args[j + 1] = s PROVE j = v3.i
      <3>1. j + 1 \in 1..XorRows /\ v3.i + 1 \in 1..XorRows
        BY <1>4, <1>5
      <3>2. j + 1 = v3.i + 1
        BY <2>1, <2>2, <3>1, Zenon
      <3>. QED BY <1>4, <3>2
    <2>. QED BY <2>2
  <1>7. ~v6'
    <2>1. DOMAIN v4 = 0..XorRows * v2 - 1
      BY <1>4, Zenon
    <2>2. s * v2 \in Nat /\ s * v2 + v2 <= XorRows * v2 /\ XorRows * v2 \in Nat
      BY <1>2, <1>5, Offsets DEF Xors!db_len
    <2>. HIDE DEF to, s
    <2>3. to \in Nat /\ to + v2 <= XorRows * v2
      BY <1>5, <2>2
    <2>4. ~Xors!RowOutside(to, at)
      BY <1>2, <1>5, <2>1, <2>2, <2>3, NothingOutside
    <2>. QED BY <1>1, <1>2, <2>4, Zenon DEF RowKernelsTyped
  <1>8. ASSUME NEW r \in Xors!Rows, NEW k \in 0..v2 - 1
        PROVE  v4'[r * v2 + k] =
                  IF r = s THEN Xors!Xor(v4[r * v2 + k], {at + k}) ELSE v4[r * v2 + k]
    <2>. DEFINE x == r * v2 + k
    <2>1. x \in 0..XorRows * v2 - 1
      BY <1>5, RowOfBlock DEF Xors!Rows
    <2>2. x - to \in 0..v2 - 1 => r = s
      <3>. HIDE DEF to, s
      <3>1. SUFFICES ASSUME r * v2 + k - s * v2 \in 0..v2 - 1 PROVE r = s
        BY <1>5 DEF Xors!Rows
      <3>. DEFINE j == r * v2 + k - s * v2
      <3>2. r * v2 + k = s * v2 + j
        BY <1>5 DEF Xors!Rows
      <3>. QED BY <1>2, <1>5, <3>1, <3>2, Offsets
    <2>3. r = s => x - to = k
      BY <1>5 DEF Xors!Rows
    <2>. HIDE DEF to, at, s
    <2>4. DOMAIN v4 = 0..XorRows * v2 - 1
      BY <1>4, Zenon
    <2>5. v4'[x] = IF x - to \in 0..v2 - 1 THEN Xors!Xor(v4[x], {at + (x - to)}) ELSE v4[x]
      <3>1. x \in DOMAIN v4
        BY <2>1, <2>4, Zenon
      <3>. HIDE DEF x
      <3>2. v4' = RowPut(v4, to, at)
        BY <1>1, <1>2, RowIntoIs
      <3>. QED BY <3>1, <3>2, Zenon DEF RowPut
    <2>. HIDE DEF x
    <2>6. CASE r = s
      BY <2>3, <2>5, <2>6, Zenon DEF x
    <2>7. CASE r # s
      BY <2>2, <2>5, <2>7, Zenon DEF x
    <2>. QED BY <2>6, <2>7
  <1>9. ASSUME NEW r \in Xors!Rows, NEW k \in 0..v2 - 1
        PROVE  /\ \A j \in 0..v3.i : v3.args[j + 1] = r => HasRow(r, k, j)'
               /\ (\A j \in 0..v3.i : v3.args[j + 1] # r) => Untouched(r, k)'
    <2>. DEFINE b == r * v2 + k
    <2>. SUFFICES /\ \A j \in 0..v3.i : v3.args[j + 1] = r => v4'[b] = {-1 - b, j * v2 + k}
                  /\ (\A j \in 0..v3.i : v3.args[j + 1] # r) => v4'[b] = {-1 - b}
      BY <1>1, Zenon DEF HasRow, Untouched
    <2>1. /\ \A j \in 0..v3.i - 1 : v3.args[j + 1] = r => v4[b] = {-1 - b, j * v2 + k}
          /\ (\A j \in 0..v3.i - 1 : v3.args[j + 1] # r) => v4[b] = {-1 - b}
      <3>1. Passed(v3.i)
        BY <1>1, <1>2 DEF RowKernelsInv, ParityInv
      <3>. QED BY <3>1, Zenon DEF Passed, HasRow, Untouched
    <2>2. v4'[b] = IF r = s THEN Xors!Xor(v4[b], {at + k}) ELSE v4[b]
      BY <1>8
    <2>3. 0..v3.i = (0..v3.i - 1) \cup {v3.i} /\ v3.i \in Nat
            /\ (0..v3.i - 1) \subseteq 0..XorRows - 1
      BY <1>4, <1>5
    <2>4. \A j \in 0..v3.i - 1 : j # v3.i
      BY <2>3
    <2>5. b \in Nat /\ at + k \in Nat
      BY <1>2, <1>5, Offsets
    <2>6. at + k # -1 - b
      BY <2>5
    <2>7. CASE r = s
      <3>1. \A j \in 0..v3.i - 1 : v3.args[j + 1] # r
        BY <1>6, <2>3, <2>4, <2>7
      <3>2. v4'[b] = Xors!Xor({-1 - b}, {at + k})
        BY <2>1, <2>2, <2>7, <3>1
      <3>3. v4'[b] = {-1 - b, at + k}
        BY <2>6, <3>2, Zenon DEF Xors!Xor
      <3>4. \A j \in 0..v3.i : v3.args[j + 1] = r => j = v3.i
        BY <2>3, <3>1, Zenon
      <3>5. v3.i \in 0..v3.i /\ v3.args[v3.i + 1] = r
        BY <2>3, <2>7
      <3>6. v4'[b] = {-1 - b, v3.i * v2 + k}
        BY <3>3, Zenon DEF at
      <3>. QED BY <3>4, <3>5, <3>6, Zenon
    <2>8. CASE r # s
      <3>1. \A j \in 0..v3.i : v3.args[j + 1] = r => j \in 0..v3.i - 1
        BY <2>3, <2>8, Zenon
      <3>2. v4'[b] = v4[b]
        BY <2>2, <2>8
      <3>3. \A j \in 0..v3.i - 1 : j \in 0..v3.i
        BY <2>3
      <3>. HIDE DEF at
      <3>. QED BY <2>1, <3>1, <3>2, <3>3, Zenon
    <2>. QED BY <2>7, <2>8
  <1>. HIDE DEF to, at, s
  <1>10. ParityInv'
    <2>1. v4' = [b \in 0..XorRows * v2' - 1 |-> v4'[b]]
      <3>1. DOMAIN v4 = 0..XorRows * v2 - 1
        BY <1>4, Zenon
      <3>2. v4' = RowPut(v4, to, at)
        BY <1>1, <1>2, RowIntoIs
      <3>. QED BY <1>1, <3>1, <3>2, Zenon DEF RowPut
    <2>2. PICK n \in Nat : n = v3.i + 1
      BY <1>4
    <2>3. n - 1 = v3.i
      BY <1>4, <2>2
    <2>4. Passed(n)'
      <3>1. \A j : j \in 0..n - 1 => j \in 0..v3.i
        BY <2>3
      <3>2. \A j : j \in 0..v3.i => j \in 0..n - 1
        BY <2>3
      <3>. QED BY <1>1, <1>3, <1>9, <3>1, <3>2, Zenon DEF Passed, Xors!Rows
    <2>5. v3'.args \in Xors!Perms /\ Xors!Perms' = Xors!Perms /\ v3'.i = n
      BY <1>3, <1>4, <2>2 DEF Xors!Perms, Xors!Rows
    <2>6. ASSUME n = XorRows PROVE ParityInv'
      <3>1. v3'.phase # "pass"
        BY <1>3, <2>2, <2>6
      <3>. QED BY <2>1, <2>4, <2>5, <2>6, <3>1, Zenon DEF ParityInv
    <2>7. ASSUME n # XorRows PROVE ParityInv'
      <3>1. v3'.phase # "done" /\ n \in 0..XorRows - 1
        BY <1>3, <1>4, <1>5, <2>2, <2>7
      <3>. QED BY <2>1, <2>4, <2>5, <3>1, Zenon DEF ParityInv
    <2>. QED BY <2>6, <2>7
  <1>11. RowKernelsTyped'
    BY <1>1, <1>2, <1>3, <1>7, TypedStep DEF AtLoop, RowKernelsTyped
  <1>. QED
    BY <1>3, <1>10, <1>11, OtherKernelNext DEF RowKernelsInv

-----------------------------------------------------------------------------
\* The pairs of accumulators, and the one that a row goes to.
IsPairs(a) == a = [k \in 0..7 |-> [b \in 0..1 |-> a[k][b]]]

LEMMA AccumulatedIs ==
  ASSUME NEW a, IsPairs(a), NEW r \in Nat
  PROVE  /\ IsPairs(Xors!Accumulated(a, r))
         /\ \A k \in 0..7 \ {r % 8} : Xors!Accumulated(a, r)[k][1] = a[k][1]
         /\ Xors!Accumulated(a, r)[r % 8][1] =
              IF Xors!BitOf(r) = 1 THEN Xors!Xor(a[r % 8][1], {r}) ELSE a[r % 8][1]
  <1>. DEFINE k == r % 8
              bit == Xors!BitOf(r)
              pair == [a[k] EXCEPT ![bit] = Xors!Xor(a[k][1], {r})]
              new == Xors!Accumulated(a, r)
  <1>1. k \in 0..7 /\ bit \in 0..1
    BY DEF Xors!BitOf
  <1>2. new = [a EXCEPT ![k] = pair]
    BY Zenon DEF Xors!Accumulated
  <1>. HIDE DEF k, bit, new
  <1>3. /\ DOMAIN a = 0..7
        /\ a = [j \in 0..7 |-> a[j]]
        /\ \A j \in 0..7 : a[j] = [b \in 0..1 |-> a[j][b]]
    BY Zenon DEF IsPairs
  <1>4. a[k] = [b \in 0..1 |-> a[k][b]]
    BY <1>1, <1>3
  <1>5. /\ pair = [b \in 0..1 |-> IF b = bit THEN Xors!Xor(a[k][1], {r}) ELSE a[k][b]]
        /\ pair[1] = IF bit = 1 THEN Xors!Xor(a[k][1], {r}) ELSE a[k][1]
    BY <1>1, <1>4
  <1>6. pair = [b \in 0..1 |-> pair[b]]
    BY <1>5
  <1>. HIDE DEF pair
  <1>7. new = [j \in 0..7 |-> IF j = k THEN pair ELSE a[j]]
    BY <1>2, <1>3, Zenon
  <1>8. new[k] = pair /\ \A j \in 0..7 \ {k} : new[j] = a[j]
    BY <1>1, <1>7
  <1>9. \A j \in 0..7 : new[j] = [b \in 0..1 |-> new[j][b]]
    BY <1>1, <1>3, <1>6, <1>8, Zenon
  <1>10. new = [j \in 0..7 |-> [b \in 0..1 |-> new[j][b]]]
    BY <1>7, <1>9, Zenon
  <1>11. IsPairs(new)
    BY <1>10, Zenon DEF IsPairs
  <1>. QED
    BY <1>5, <1>8, <1>11 DEF new, k, bit

\* A group of eight rows has one for each pair.
LEMMA PickedGroup ==
  ASSUME NEW i \in Nat, i % 8 = 0, NEW k \in 0..7
  PROVE  /\ (i + k) % 8 = k
         /\ PickedRows(k, i + 8) = IF Xors!BitOf(i + k) = 1 THEN Xors!Xor(PickedRows(k, i), {i + k})
                                   ELSE PickedRows(k, i)
  <1>1. (i + k) % 8 = k
    OBVIOUS
  <1>2. \A r \in Nat : r \in 0..i + 8 - 1 /\ r % 8 = k <=>
          (r \in 0..i - 1 /\ r % 8 = k) \/ r = i + k
    OBVIOUS
  <1>3. \A r : r \in 0..i + 8 - 1 \/ r \in 0..i - 1 \/ r = i + k => r \in Nat
    OBVIOUS
  <1>4. i + k \notin 0..i - 1
    OBVIOUS
  <1>5. \A r : r \in PickedRows(k, i + 8) <=>
          r \in PickedRows(k, i) \/ (r = i + k /\ Xors!BitOf(r) = 1)
    BY <1>2, <1>3 DEF PickedRows
  <1>6. i + k \notin PickedRows(k, i)
    BY <1>4, Zenon DEF PickedRows
  <1>7. CASE Xors!BitOf(i + k) = 1
    BY <1>1, <1>5, <1>6, <1>7 DEF Xors!Xor
  <1>8. CASE Xors!BitOf(i + k) # 1
    BY <1>1, <1>5, <1>8
  <1>. QED
    BY <1>7, <1>8

LEMMA PickedOne ==
  ASSUME NEW i \in Nat
  PROVE  /\ \A k \in 0..7 \ {i % 8} : PickedRows(k, i + 1) = PickedRows(k, i)
         /\ PickedRows(i % 8, i + 1) = IF Xors!BitOf(i) = 1 THEN Xors!Xor(PickedRows(i % 8, i), {i})
                                       ELSE PickedRows(i % 8, i)
  <1>1. \A r : r \in 0..i + 1 - 1 <=> r \in 0..i - 1 \/ r = i
    OBVIOUS
  <1>2. i \notin 0..i - 1
    OBVIOUS
  <1>3. \A k, r : r \in PickedRows(k, i + 1) <=>
          r \in PickedRows(k, i) \/ (r = i /\ k = i % 8 /\ Xors!BitOf(i) = 1)
    BY <1>1 DEF PickedRows
  <1>4. \A k : i \notin PickedRows(k, i)
    BY <1>2, Zenon DEF PickedRows
  <1>5. \A k \in 0..7 \ {i % 8} : PickedRows(k, i + 1) = PickedRows(k, i)
    BY <1>3
  <1>6. CASE Xors!BitOf(i) = 1
    BY <1>3, <1>4, <1>5, <1>6 DEF Xors!Xor
  <1>7. CASE Xors!BitOf(i) # 1
    BY <1>3, <1>5, <1>7
  <1>. QED
    BY <1>6, <1>7

\* The registers of a row that is there lie in the rows, and its byte of the bit vector
\* in the vector, in both builds.
LEMMA HashInside ==
  ASSUME v1 \in {16, 32}, NEW n \in Nat, v3.args.n = n, DOMAIN v3.args.bits = 1..(n + 7) \div 8,
         NEW i \in 0..n - 1
  PROVE  ~Xors!HashOutside(i)
  <1>1. i \div 8 + 1 \in 1..(n + 7) \div 8
    OBVIOUS
  <1>2. ASSUME NEW k \in Xors!RegisterBytes(i) PROVE k \in 0..32 * n - 1
    <2>1. PICK v \in Xors!Registers(i) : k \in v * v1..v * v1 + v1 - 1
      BY Zenon DEF Xors!RegisterBytes
    <2>2. CASE v1 = 16
      BY <2>1, <2>2 DEF Xors!Registers
    <2>3. CASE v1 = 32
      BY <2>1, <2>3 DEF Xors!Registers
    <2>. QED BY <2>2, <2>3
  <1>. QED
    BY <1>1, <1>2, Zenon DEF Xors!HashOutside

LEMMA HashBatchKeeps ==
  ASSUME RowKernelsInv, Xors!HashBatch
  PROVE  RowKernelsInv'
  <1>1. v3.phase = "batch" /\ UNCHANGED <<v1, v2, v4>>
    BY DEF Xors!HashBatch
  <1>2. IsCall(v3) /\ RowKernelsTyped /\ v3.kernel = "hash"
    BY <1>1 DEF RowKernelsInv, RowKernelsTyped, AtLoop, Xors!Idle
  <1>. DEFINE i == v3.i  n == v3.args.n
  <1>3. /\ v3.args = [n |-> v3.args.n, bits |-> v3.args.bits]
        /\ n \in Nat /\ IsPairs(v5) /\ i \in 0..n
        /\ \A k \in 0..7 : v5[k][1] = PickedRows(k, i)
        /\ i % 8 = 0 /\ i <= Xors!len_full_bytes
    BY <1>1, <1>2 DEF RowKernelsInv, HashInv, IsPairs
  <1>7. DOMAIN v3.args.bits = 1..(n + 7) \div 8
    BY <1>2 DEF RowKernelsInv, HashInv
  <1>4. ASSUME v3'.args = v3.args
        PROVE  /\ \A k, m : PickedRows(k, m)' = PickedRows(k, m)
               /\ Xors!len_full_bytes' = Xors!len_full_bytes
    BY <1>1, <1>4, ArgsStay, Zenon
  <1>5. CASE i < Xors!len_full_bytes
    <2>1. /\ v5' = [k \in 0..7 |-> Xors!Accumulated(v5, i + k)[k]]
          /\ v3' = [v3 EXCEPT !.i = i + 8]
          /\ v6' = (v6 \/ \E k \in 0..7 : Xors!HashOutside(i + k))
      BY <1>5 DEF Xors!HashBatch
    <2>2. /\ v3'.kernel = "hash" /\ v3'.args = v3.args /\ v3'.phase = "batch"
          /\ v3'.i = i + 8 /\ IsCall(v3')
      BY <1>1, <1>2, <2>1 DEF IsCall
    <2>3. i + 8 \in 0..n /\ (i + 8) % 8 = 0 /\ i + 8 <= Xors!len_full_bytes
      BY <1>3, <1>5 DEF Xors!len_full_bytes
    <2>10. ~v6'
      <3>1. \A k \in 0..7 : i + k \in 0..n - 1
        <4>1. i \in Nat /\ n \in Nat /\ i + 8 <= n
          BY <1>3, <2>3
        <4>. HIDE DEF i, n
        <4>. QED BY <4>1
      <3>2. v1 \in {16, 32} /\ ~v6
        BY <1>2 DEF RowKernelsTyped
      <3>3. \A k \in 0..7 : ~Xors!HashOutside(i + k)
        BY <1>3, <1>7, <3>1, <3>2, HashInside
      <3>. QED BY <2>1, <3>2, <3>3, Zenon
    <2>. HIDE DEF i, n
    <2>4. ASSUME NEW k \in 0..7
          PROVE  /\ Xors!Accumulated(v5, i + k)[k] =
                      [b \in 0..1 |-> Xors!Accumulated(v5, i + k)[k][b]]
                 /\ Xors!Accumulated(v5, i + k)[k][1] = PickedRows(k, i + 8)
      <3>1. i \in Nat /\ i + k \in Nat
        BY <1>3
      <3>2. (i + k) % 8 = k
        BY <1>3, <3>1, PickedGroup
      <3>. DEFINE r == i + k
      <3>3. r \in Nat /\ r % 8 = k
        BY <3>1, <3>2
      <3>4. PickedRows(k, i + 8) = IF Xors!BitOf(r) = 1 THEN Xors!Xor(v5[k][1], {r}) ELSE v5[k][1]
        BY <1>3, <3>1, PickedGroup
      <3>. HIDE DEF r
      <3>5. /\ IsPairs(Xors!Accumulated(v5, r))
            /\ Xors!Accumulated(v5, r)[r % 8][1] =
                 IF Xors!BitOf(r) = 1 THEN Xors!Xor(v5[r % 8][1], {r}) ELSE v5[r % 8][1]
        BY <1>3, <3>3, AccumulatedIs
      <3>6. Xors!Accumulated(v5, r)[k] = [b \in 0..1 |-> Xors!Accumulated(v5, r)[k][b]]
        BY <3>5, Zenon DEF IsPairs
      <3>7. Xors!Accumulated(v5, r)[k][1] = PickedRows(k, i + 8)
        BY <3>3, <3>4, <3>5
      <3>. QED BY <3>6, <3>7, Zenon DEF r
    <2>5. \A k \in 0..7 : v5'[k] = Xors!Accumulated(v5, i + k)[k]
      BY <2>1, Zenon
    <2>6. IsPairs(v5')
      BY <2>1, <2>4, <2>5, Zenon DEF IsPairs
    <2>7. \A k \in 0..7 : v5'[k][1] = PickedRows(k, v3'.i)
      BY <2>2, <2>4, <2>5, Zenon
    <2>8. HashInv'
      <3>1. v3'.phase # "done" /\ v3'.phase = "batch" /\ v3'.args.n = n /\ n \in Nat
        BY <1>3, <2>2 DEF n
      <3>2. \A k, m : PickedRows(k, m)' = PickedRows(k, m)
        BY <1>4, <2>2, Zenon
      <3>3. Xors!len_full_bytes' = Xors!len_full_bytes
        BY <1>4, <2>2, Zenon
      <3>4. v3'.i \in 0..n /\ v3'.i % 8 = 0 /\ v3'.i <= Xors!len_full_bytes
        BY <2>2, <2>3
      <3>. QED BY <1>3, <1>7, <2>2, <2>6, <2>7, <3>1, <3>2, <3>3, <3>4, Zenon DEF HashInv, IsPairs
    <2>9. RowKernelsTyped'
      BY <1>1, <1>2, <2>2, <2>10, TypedStep DEF AtLoop, RowKernelsTyped
    <2>. QED BY <2>2, <2>8, <2>9, OtherKernelNext DEF RowKernelsInv
  <1>6. CASE ~(i < Xors!len_full_bytes)
    <2>1. v5' = v5 /\ v6' = v6 /\ v3' = [v3 EXCEPT !.phase = "rest"]
      BY <1>6 DEF Xors!HashBatch
    <2>2. /\ v3'.kernel = "hash" /\ v3'.args = v3.args /\ v3'.phase = "rest"
          /\ v3'.i = i /\ IsCall(v3')
      BY <1>1, <1>2, <2>1 DEF IsCall
    <2>. HIDE DEF i, n
    <2>3. HashInv'
      <3>1. v3'.phase \notin {"batch", "done"} /\ v3'.args.n = n /\ n \in Nat
        BY <1>3, <2>2 DEF n
      <3>2. \A k, m : PickedRows(k, m)' = PickedRows(k, m)
        BY <1>4, <2>2, Zenon
      <3>. QED BY <1>3, <1>7, <2>1, <2>2, <3>1, <3>2, Zenon DEF HashInv, IsPairs
    <2>4. RowKernelsTyped'
      BY <1>1, <1>2, <2>1, <2>2, TypedStep DEF AtLoop, RowKernelsTyped
    <2>. QED BY <2>2, <2>3, <2>4, OtherKernelNext DEF RowKernelsInv
  <1>. QED
    BY <1>5, <1>6

LEMMA HashRestKeeps ==
  ASSUME RowKernelsInv, Xors!HashRest
  PROVE  RowKernelsInv'
  <1>1. v3.phase = "rest" /\ UNCHANGED <<v1, v2>>
    BY DEF Xors!HashRest
  <1>2. IsCall(v3) /\ RowKernelsTyped /\ v3.kernel = "hash"
    BY <1>1 DEF RowKernelsInv, RowKernelsTyped, AtLoop, Xors!Idle
  <1>. DEFINE i == v3.i  n == v3.args.n
  <1>3. /\ v3.args = [n |-> v3.args.n, bits |-> v3.args.bits]
        /\ n \in Nat /\ IsPairs(v5) /\ i \in 0..n
        /\ DOMAIN v3.args.bits = 1..(n + 7) \div 8
        /\ \A k \in 0..7 : v5[k][1] = PickedRows(k, i)
    BY <1>1, <1>2 DEF RowKernelsInv, HashInv, IsPairs
  <1>4. CASE i < n
    <2>1. /\ v5' = Xors!Accumulated(v5, i)
          /\ v3' = [v3 EXCEPT !.i = i + 1]
          /\ v6' = (v6 \/ Xors!HashOutside(i))
      BY <1>4 DEF Xors!HashRest
    <2>2. /\ v3'.kernel = "hash" /\ v3'.args = v3.args /\ v3'.phase = "rest"
          /\ v3'.i = i + 1 /\ IsCall(v3')
      BY <1>1, <1>2, <2>1 DEF IsCall
    <2>3. \A k, m : PickedRows(k, m)' = PickedRows(k, m)
      BY <1>1, <2>2, ArgsStay, Zenon
    <2>9. ~v6'
      <3>1. i \in 0..n - 1
        BY <1>3, <1>4
      <3>2. v1 \in {16, 32} /\ ~v6
        BY <1>2 DEF RowKernelsTyped
      <3>3. ~Xors!HashOutside(i)
        BY <1>3, <3>1, <3>2, HashInside
      <3>. QED BY <2>1, <3>2, <3>3, Zenon
    <2>. HIDE DEF i, n
    <2>4. i \in Nat /\ i + 1 \in 0..n /\ i % 8 \in 0..7
      BY <1>3, <1>4
    <2>5. /\ IsPairs(v5')
          /\ \A k \in 0..7 \ {i % 8} : v5'[k][1] = v5[k][1]
          /\ v5'[i % 8][1] = IF Xors!BitOf(i) = 1 THEN Xors!Xor(v5[i % 8][1], {i}) ELSE v5[i % 8][1]
      BY <1>3, <2>1, <2>4, AccumulatedIs
    <2>6. ASSUME NEW k \in 0..7 PROVE v5'[k][1] = PickedRows(k, i + 1)
      <3>1. CASE k = i % 8
        BY <1>3, <2>4, <2>5, <3>1, PickedOne
      <3>2. CASE k # i % 8
        BY <1>3, <2>4, <2>5, <3>2, PickedOne
      <3>. QED BY <3>1, <3>2
    <2>7. HashInv'
      <3>1. v3'.phase \notin {"batch", "done"} /\ v3'.args.n = n /\ n \in Nat
        BY <1>3, <2>2 DEF n
      <3>2. v3'.i \in 0..n
        BY <2>2, <2>4
      <3>. QED BY <1>3, <2>2, <2>3, <2>5, <2>6, <3>1, <3>2, Zenon DEF HashInv, IsPairs
    <2>8. RowKernelsTyped'
      BY <1>1, <1>2, <2>2, <2>9, TypedStep DEF AtLoop, RowKernelsTyped
    <2>. QED BY <2>2, <2>7, <2>8, OtherKernelNext DEF RowKernelsInv
  <1>5. CASE ~(i < n)
    <2>1. /\ v4' = UNION {v5[k][1] : k \in 0..7} /\ v6' = v6
          /\ v3' = [v3 EXCEPT !.phase = "done"]
      BY <1>5 DEF Xors!HashRest
    <2>2. /\ v3'.kernel = "hash" /\ v3'.args = v3.args /\ v3'.phase = "done"
          /\ IsCall(v3')
      BY <1>1, <1>2, <2>1 DEF IsCall
    <2>3. \A r : Xors!BitOf(r)' = Xors!BitOf(r)
      BY <1>1, <2>2, ArgsStay, Zenon
    <2>4. i = n
      BY <1>3, <1>5
    <2>. HIDE DEF i, n
    <2>5. v4' = {r \in 0..n - 1 : Xors!BitOf(r) = 1}
      <3>1. \A r \in 0..n - 1 : r % 8 \in 0..7
        BY <1>3
      <3>2. \A k \in 0..7 : v5[k][1] = PickedRows(k, n)
        BY <1>3, <2>4
      <3>3. \A r : r \in v4' <=> \E k \in 0..7 : r \in PickedRows(k, n)
        BY <2>1, <3>2, Zenon
      <3>4. \A r : r \in v4' <=> r \in 0..n - 1 /\ Xors!BitOf(r) = 1
        BY <3>1, <3>3, Zenon DEF PickedRows
      <3>. QED BY <3>4, Zenon
    <2>6. HashInv'
      <3>1. v3'.phase \notin {"batch", "rest"} /\ v3'.args.n = n /\ n \in Nat
        BY <1>3, <2>2 DEF n
      <3>2. Xors!HashExact'
        BY <2>3, <2>5, <3>1, Zenon DEF Xors!HashExact
      <3>. QED BY <1>3, <2>2, <3>1, <3>2, Zenon DEF HashInv
    <2>7. RowKernelsTyped'
      BY <1>1, <1>2, <2>1, <2>2, TypedStep DEF AtLoop, RowKernelsTyped
    <2>. QED BY <2>2, <2>6, <2>7, OtherKernelNext DEF RowKernelsInv
  <1>. QED
    BY <1>4, <1>5

-----------------------------------------------------------------------------
LEMMA RowKernelsStep ==
  ASSUME RowKernelsInv, Xors!KernelAssumption, Xors!Next
  PROVE  RowKernelsInv'
  <1>1. ASSUME NEW r \in Xors!Rows, Xors!xor_into(r) PROVE RowKernelsInv'
    BY <1>1, IntoStarts
  <1>2. CASE Xors!xor_all_rows
    BY <1>2, AllStarts
  <1>3. CASE Xors!RowStep
    BY <1>3, RowSteps
  <1>4. ASSUME NEW n \in 1..MaxElems, NEW rows \in [1..n -> Xors!Rows], Xors!xor_rows(rows)
        PROVE  RowKernelsInv'
    <2>1. n \in Nat \ {0}
      BY DEF Xors!KernelAssumption
    <2>. QED BY <1>4, <2>1, RowsStart DEF Xors!xor_rows
  <1>5. ASSUME NEW n \in 1..MaxElems, NEW es \in [1..n -> Xors!Rows], NEW s \in Xors!Rows,
               Xors!answer(es, s)
        PROVE  RowKernelsInv'
    <2>1. n \in Nat \ {0} /\ XorRows \in Nat \ {0}
      BY DEF Xors!KernelAssumption
    <2>. DEFINE rows == [k \in 1..n |-> Xors!Shifted(es[k], s)]
    <2>2. rows \in [1..n -> Xors!Rows]
      <3>1. \A e \in Xors!Rows : Xors!Shifted(e, s) \in Xors!Rows
        <4>1. \A e \in Xors!Rows : e + s \in Int
          BY DEF Xors!Rows
        <4>. QED BY <2>1, <4>1, DivMod DEF Xors!Shifted, Xors!Rows
      <3>. QED BY <3>1
    <2>3. DOMAIN rows = 1..n /\ DOMAIN es = 1..n /\ \A k \in 1..n : rows[k] = Xors!Shifted(es[k], s)
      OBVIOUS
    <2>. HIDE DEF rows
    <2>4. [k \in DOMAIN rows |-> rows[k] * v2] = [k \in DOMAIN es |-> Xors!Shifted(es[k], s) * v2]
      BY <2>3
    <2>5. Xors!Start("rows", [k \in DOMAIN rows |-> rows[k] * v2], "vector", Xors!Zeroed(v2))
      BY <1>5, <2>4, Zenon DEF Xors!answer
    <2>. QED BY <2>1, <2>2, <2>5, RowsStart
  <1>6. CASE Xors!RowsVector
    BY <1>6, RowsVectorKeeps
  <1>7. CASE Xors!RowsTail
    BY <1>7, RowsTailKeeps
  <1>8. CASE Xors!RowsFlush
    BY <1>8, RowsFlushKeeps
  <1>9. ASSUME NEW p \in Xors!Perms, Xors!xor_single_pass(p) PROVE RowKernelsInv'
    BY <1>9, PassStarts
  <1>10. CASE Xors!PassStep
    BY <1>10, PassKeeps
  <1>11. ASSUME NEW n \in HashRows, NEW v \in [1..(n + 7) \div 8 -> BitBytes],
                Xors!xor_hashes_by_bit_vector(n, v)
         PROVE  RowKernelsInv'
    BY <1>11, HashStarts DEF Xors!KernelAssumption
  <1>12. CASE Xors!HashBatch
    BY <1>12, HashBatchKeeps
  <1>13. CASE Xors!HashRest
    BY <1>13, HashRestKeeps
  <1>14. CASE Xors!Return
    BY <1>14, Returns
  <1>. QED
    BY <1>1, <1>2, <1>3, <1>4, <1>5, <1>6, <1>7, <1>8, <1>9, <1>10, <1>11, <1>12, <1>13, <1>14,
       Zenon DEF Xors!Next

LEMMA SameCardinality == \A S : Xors!Cardinality(S) = Cardinality(S)
  BY Zenon DEF Xors!Cardinality, Cardinality

LEMMA RowKernelsRight ==
  ASSUME RowKernelsInv
  PROVE  Xors!RowsExact /\ Xors!WholeRowsExact /\ Xors!PassExact /\ Xors!HashExact
           /\ Xors!RowsInside
  <1>1. Xors!RowsExact
    <2>. SUFFICES ASSUME Xors!Done("rows"), NEW k \in 0..v2 - 1 PROVE v4[k] = Xors!XorOfRows(k)
      BY DEF Xors!RowsExact
    <2>1. v4[k] = OddBytes(k, Len(v3.args)) /\ DOMAIN v3.args = 1..Len(v3.args)
      BY DEF RowKernelsInv, RowsInv, Xors!Done
    <2>2. \A r : Named(r, Len(v3.args)) = {j \in DOMAIN v3.args : v3.args[j] = r * v2}
      BY <2>1, Zenon DEF Named
    <2>3. OddRows(Len(v3.args)) =
            {r \in Xors!Rows : Cardinality({j \in DOMAIN v3.args : v3.args[j] = r * v2}) % 2 = 1}
      BY <2>2, Zenon DEF OddRows
    <2>. QED BY <2>1, <2>3, SameCardinality, Zenon DEF OddBytes, Xors!XorOfRows
  <1>2. Xors!WholeRowsExact
    <2>1. ASSUME Xors!Done("into"), NEW k \in 0..v2 - 1 PROVE v4[k] = {-1 - k, v3.args[1] + k}
      BY <2>1 DEF RowKernelsInv, IntoInv, Xors!Done
    <2>2. ASSUME Xors!Done("all"), NEW k \in 0..v2 - 1 PROVE v4[k] = {r * v2 + k : r \in Xors!Rows}
      BY <2>2, Zenon DEF RowKernelsInv, AllInv, Xors!Done, RowsUpTo, Xors!Rows
    <2>. QED BY <2>1, <2>2 DEF Xors!WholeRowsExact
  <1>3. Xors!PassExact
    <2>. SUFFICES ASSUME Xors!Done("pass"), NEW i \in Xors!Rows, NEW k \in 0..v2 - 1
                  PROVE  v4[v3.args[i + 1] * v2 + k] =
                           {-1 - (v3.args[i + 1] * v2 + k), i * v2 + k}
      BY Zenon DEF Xors!PassExact
    <2>1. Passed(XorRows) /\ v3.args \in [1..XorRows -> Xors!Rows] /\ XorRows \in Nat
      BY DEF RowKernelsInv, RowKernelsTyped, ParityInv, Xors!Done, Xors!Perms
    <2>2. v3.args[i + 1] \in Xors!Rows /\ i \in 0..XorRows - 1
      BY <2>1 DEF Xors!Rows
    <2>. QED BY <2>1, <2>2, Zenon DEF Passed, HasRow
  <1>4. Xors!HashExact
    BY DEF RowKernelsInv, HashInv, Xors!HashExact, Xors!Done
  <1>5. Xors!RowsInside
    BY DEF RowKernelsInv, RowKernelsTyped, Xors!RowsInside
  <1>. QED
    BY <1>1, <1>2, <1>3, <1>4, <1>5

-----------------------------------------------------------------------------
\* The invariant of the component a behaviour is about.
GgmInv    == unit = "ggm" => Trees!GgmInv
FilterInv == unit = "filter" => DistinctInv
PassInv   == unit = "pass" => PassOne!AnswerInv /\ PassOne!DrawsInv
XorsInv   == unit = "xors" => RowKernelsInv
RaceInv   == unit = "race" => PassMany!AnswerInv /\ PassMany!DrawsInv
BlocksInv == unit = "blocks" => LoopsInv

\* A behaviour stays with its component.
LEMMA StepOf ==
  ASSUME [Next]_vars
  PROVE  /\ unit' = unit
         /\ unit = "ggm" => Ggm!Next \/ UNCHANGED Ggm!vars
         /\ unit = "filter" => Filter!Next \/ UNCHANGED Filter!vars
         /\ unit = "xors" => Xors!Next \/ UNCHANGED Xors!vars
         /\ unit = "pass" => Pass!Next \/ UNCHANGED Pass!vars
         /\ unit = "race" => Race!Next \/ UNCHANGED Race!vars
         /\ unit = "blocks" => Blocks!Next \/ UNCHANGED Blocks!vars
  <1>1. CASE Next
    BY <1>1 DEF Next
  <1>2. CASE UNCHANGED vars
    BY <1>2, Zenon DEF
      vars, Ggm!vars, Filter!vars, Xors!vars, Pass!vars, Race!vars, Blocks!vars
  <1>. QED
    BY <1>1, <1>2

LEMMA GgmStays == GgmInv /\ [Next]_vars => GgmInv'
  <1>1. SUFFICES ASSUME GgmInv, [Next]_vars, unit' = "ggm"
                 PROVE  Trees!GgmInv'
    BY Zenon DEF GgmInv
  <1>2. Trees!GgmInv /\ (Trees!Next \/ UNCHANGED Trees!vars)
    <2>1. unit = "ggm" /\ (Ggm!Next \/ UNCHANGED Ggm!vars)
      BY <1>1, StepOf
    <2>. QED BY <1>1, <2>1, SameGgm DEF GgmInv
  <1>3. Trees!GgmAssumption
    BY KernelsAssumption, SameGgm
  <1>. QED
    BY <1>2, <1>3, Trees!GgmStep, Trees!GgmStutter

LEMMA FilterStays == FilterInv /\ [Next]_vars => FilterInv'
  <1>1. SUFFICES ASSUME FilterInv, [Next]_vars, unit' = "filter"
                 PROVE  DistinctInv'
    BY Zenon DEF FilterInv
  <1>2. DistinctInv /\ (Filter!Next \/ UNCHANGED Filter!vars)
    <2>1. unit = "filter" /\ (Filter!Next \/ UNCHANGED Filter!vars)
      BY <1>1, StepOf
    <2>. QED BY <1>1, <2>1 DEF FilterInv
  <1>. QED
    BY <1>2, KernelsAssumption, DistinctStep, DistinctStutter

LEMMA XorsStay == XorsInv /\ [Next]_vars => XorsInv'
  <1>1. SUFFICES ASSUME XorsInv, [Next]_vars, unit' = "xors"
                 PROVE  RowKernelsInv'
    BY Zenon DEF XorsInv
  <1>2. RowKernelsInv /\ (Xors!Next \/ UNCHANGED Xors!vars)
    <2>1. unit = "xors" /\ (Xors!Next \/ UNCHANGED Xors!vars)
      BY <1>1, StepOf
    <2>. QED BY <1>1, <2>1 DEF XorsInv
  <1>. QED
    BY <1>2, KernelsAssumption, RowKernelsStep, RowKernelsStutter

LEMMA PassStays == PassInv /\ [Next]_vars => PassInv'
  <1>1. SUFFICES ASSUME PassInv, [Next]_vars, unit' = "pass"
                 PROVE  PassOne!AnswerInv' /\ PassOne!DrawsInv'
    BY Zenon DEF PassInv
  <1>2. PassOne!AnswerInv /\ PassOne!DrawsInv /\ (PassOne!Next \/ UNCHANGED PassOne!vars)
    <2>1. unit = "pass" /\ (Pass!Next \/ UNCHANGED Pass!vars)
      BY <1>1, StepOf
    <2>. QED BY <1>1, <2>1, SamePass DEF PassInv
  <1>3. PassOne!AnswerAssumption
    BY KernelsAssumption, SamePass
  <1>. QED
    BY <1>2, <1>3, PassOne!AnswerStep, PassOne!AnswerStutter

LEMMA RaceStays == RaceInv /\ [Next]_vars => RaceInv'
  <1>1. SUFFICES ASSUME RaceInv, [Next]_vars, unit' = "race"
                 PROVE  PassMany!AnswerInv' /\ PassMany!DrawsInv'
    BY Zenon DEF RaceInv
  <1>2. PassMany!AnswerInv /\ PassMany!DrawsInv /\ (PassMany!Next \/ UNCHANGED PassMany!vars)
    <2>1. unit = "race" /\ (Race!Next \/ UNCHANGED Race!vars)
      BY <1>1, StepOf
    <2>. QED BY <1>1, <2>1, SameRace DEF RaceInv
  <1>3. PassMany!AnswerAssumption
    BY KernelsAssumption, SameRace
  <1>. QED
    BY <1>2, <1>3, PassMany!AnswerStep, PassMany!AnswerStutter

LEMMA BlocksStay == BlocksInv /\ [Next]_vars => BlocksInv'
  <1>1. SUFFICES ASSUME BlocksInv, [Next]_vars, unit' = "blocks"
                 PROVE  LoopsInv'
    BY Zenon DEF BlocksInv
  <1>2. LoopsInv /\ (Blocks!Next \/ UNCHANGED Blocks!vars)
    <2>1. unit = "blocks" /\ (Blocks!Next \/ UNCHANGED Blocks!vars)
      BY <1>1, StepOf
    <2>. QED BY <1>1, <2>1 DEF BlocksInv
  <1>. QED
    BY <1>2, KernelsAssumption, BlocksKept, BlocksStutter

-----------------------------------------------------------------------------
\* For every set size, seed and position: a set evaluates to the leaves of its tree, a
\* punctured one to the same leaves without the hole, and no key it holds is above the
\* hole, although both walk a workspace that holds what earlier calls left there
\* (pset_ggm_eval, pset_ggm_punc, pset_ggm_eval_punc).
THEOREM PuncturedIsRestAlways == Spec => []PuncturedIsRest
  <1>1. Init => GgmInv
    <2>1. SUFFICES ASSUME Init, unit = "ggm" PROVE Trees!GgmInv
      BY Zenon DEF GgmInv
    <2>2. Trees!GgmAssumption /\ Trees!Init
      BY <2>1, KernelsAssumption, SameGgm DEF Init
    <2>. QED BY <2>2, Trees!GgmInit
  <1>2. GgmInv => PuncturedIsRest
    <2>1. SUFFICES ASSUME GgmInv, unit = "ggm"
                   PROVE  Ggm!EvalIsTree /\ Ggm!EvalPuncIsRest /\ Ggm!HoleHidden
      BY Zenon DEF PuncturedIsRest
    <2>2. Trees!GgmInv
      BY <2>1, Zenon DEF GgmInv
    <2>. QED BY <2>2, Trees!GgmRight, SameGgm
  <1>. QED
    BY <1>1, <1>2, GgmStays, PTL DEF Spec

\* The test for repeated elements: for every universe of words and every number of
\* elements, a set with an element twice never passes (but for 0), one without never
\* fails, and every element stored is where a walk from its hash finds it, also when
\* the walk goes round the end of the table (distinct).
THEOREM FilterRightAlways == Spec => []FilterRight
  <1>1. Init => FilterInv
    BY DistinctInit DEF Init, FilterInv
  <1>2. FilterInv => FilterRight
    <2>1. SUFFICES ASSUME FilterInv, unit = "filter"
                   PROVE  Filter!NoFalseAlarm /\ Filter!PassedIsDistinct /\ Filter!WalksReach
      BY Zenon DEF FilterRight
    <2>2. DistinctInv /\ Filter!DistinctAssumption
      BY <2>1, KernelsAssumption, Zenon DEF FilterInv
    <2>. QED BY <2>2, DistinctRight
  <1>. QED
    BY <1>1, <1>2, FilterStays, PTL DEF Spec

\* Every byte of what a kernel returns is the XOR of that byte of exactly the rows it
\* was asked for: for both vector sizes, every row length, rows named more than once,
\* and numbers of rows that are no multiple of eight (xor_into, xor_rows,
\* xor_all_rows, xor_single_pass, xor_hashes_by_bit_vector, answer).
THEOREM XorsExactAlways == Spec => []XorsExact
  <1>1. Init => XorsInv
    BY KernelsAssumption, RowKernelsInit DEF Init, XorsInv
  <1>2. XorsInv => XorsExact
    <2>1. SUFFICES ASSUME XorsInv, unit = "xors"
                   PROVE  /\ Xors!RowsExact /\ Xors!WholeRowsExact
                          /\ Xors!PassExact /\ Xors!HashExact
      BY Zenon DEF XorsExact
    <2>. QED BY <2>1, RowKernelsRight DEF XorsInv
  <1>. QED
    BY <1>1, <1>2, XorsStay, PTL DEF Spec

\* No kernel leaves its arrays: the trees stay in their workspace and their lists, the
\* vector loops and the accumulators in the database, the loops over blocks in the
\* blocks they were given (pset_ggm.cpp, xor.cpp, AES.cpp).
THEOREM AccessesInsideAlways == Spec => []AccessesInside
  <1>1. Init => GgmInv /\ XorsInv /\ BlocksInv
    <2>1. SUFFICES ASSUME Init PROVE GgmInv /\ XorsInv /\ BlocksInv
      OBVIOUS
    <2>2. Trees!GgmAssumption /\ (unit = "ggm" => Trees!Init)
      BY <2>1, KernelsAssumption, SameGgm DEF Init
    <2>3. GgmInv
      BY <2>2, Trees!GgmInit DEF GgmInv
    <2>4. XorsInv
      BY <2>1, KernelsAssumption, RowKernelsInit DEF Init, XorsInv
    <2>5. BlocksInv
      BY <2>1, KernelsAssumption, BlocksInit DEF Init, BlocksInv
    <2>. QED BY <2>3, <2>4, <2>5
  <1>2. GgmInv /\ XorsInv /\ BlocksInv => AccessesInside
    <2>1. SUFFICES ASSUME GgmInv, XorsInv, BlocksInv PROVE AccessesInside
      OBVIOUS
    <2>2. unit = "ggm" => Ggm!InBounds
      BY <2>1, Trees!GgmRight, SameGgm DEF GgmInv
    <2>3. unit = "xors" => Xors!RowsInside
      BY <2>1, RowKernelsRight DEF XorsInv
    <2>4. unit = "blocks" => Blocks!NoStrayWrites
      BY <2>1, KernelsAssumption, BlocksRight DEF BlocksInv
    <2>. QED BY <2>2, <2>3, <2>4 DEF AccessesInside
  <1>3. (GgmInv /\ XorsInv /\ BlocksInv) /\ [Next]_vars => (GgmInv /\ XorsInv /\ BlocksInv)'
    BY GgmStays, XorsStay, BlocksStay
  <1>. QED
    BY <1>1, <1>2, <1>3, PTL DEF Spec

\* A hint request, whatever other requests do to the buffer it draws from, ends with
\* permutations of its blocks, their inverses, and the parities of exactly those
\* permutations; for any number of threads, rows, blocks and values of a draw
\* (answer_single_pass, permute, invert_permutation).
THEOREM HintsAreParitiesAlways == Spec => []HintsAreParities
  <1>1. Init => PassInv /\ RaceInv
    <2>1. SUFFICES ASSUME Init PROVE PassInv /\ RaceInv
      OBVIOUS
    <2>2. PassOne!AnswerAssumption /\ PassMany!AnswerAssumption
      BY KernelsAssumption, SamePass, SameRace
    <2>3. (unit = "pass" => PassOne!Init) /\ (unit = "race" => PassMany!Init)
      BY <2>1, SamePass, SameRace DEF Init
    <2>. QED
      BY <2>2, <2>3, PassOne!AnswerInit, PassMany!AnswerInit DEF PassInv, RaceInv
  <1>2. PassInv /\ RaceInv => HintsAreParities
    <2>1. SUFFICES ASSUME PassInv, RaceInv PROVE HintsAreParities
      OBVIOUS
    <2>2. PassOne!AnswerAssumption /\ PassMany!AnswerAssumption
      BY KernelsAssumption, SamePass, SameRace
    <2>3. unit = "pass" => Pass!ArraysArePermutations /\ Pass!HintsAreParities
      BY <2>1, <2>2, PassOne!AnswerRight, SamePass, Zenon DEF PassInv
    <2>4. unit = "race" => Race!ArraysArePermutations /\ Race!HintsAreParities
      BY <2>1, <2>2, PassMany!AnswerRight, SameRace, Zenon DEF RaceInv
    <2>. QED BY <2>3, <2>4 DEF HintsAreParities
  <1>3. (PassInv /\ RaceInv) /\ [Next]_vars => (PassInv /\ RaceInv)'
    BY PassStays, RaceStays
  <1>. QED
    BY <1>1, <1>2, <1>3, PTL DEF Spec

\* A permutation comes from one sequence of draws only, and of the values of a draw
\* every cell not yet fixed gets as many as any other, up to one: all permutations of
\* a block are as likely as the draws allow (permute, fastMod).
THEOREM DrawsAreFairAlways == Spec => []DrawsAreFair
  <1>1. Init => PassInv
    <2>1. SUFFICES ASSUME Init, unit = "pass"
                   PROVE  PassOne!AnswerInv /\ PassOne!DrawsInv
      BY Zenon DEF PassInv
    <2>2. PassOne!AnswerAssumption /\ PassOne!Init
      BY <2>1, KernelsAssumption, SamePass DEF Init
    <2>. QED BY <2>2, PassOne!AnswerInit
  <1>2. PassInv => DrawsAreFair
    <2>1. SUFFICES ASSUME PassInv, unit = "pass"
                   PROVE  Pass!OneWayToEach /\ Pass!DrawsAreFair
      BY Zenon DEF DrawsAreFair
    <2>2. PassOne!AnswerAssumption /\ PassOne!AnswerInv /\ PassOne!DrawsInv
      BY <2>1, KernelsAssumption, SamePass, Zenon DEF PassInv
    <2>3. PassOne!OneWayToEach
      BY <2>2, PassOne!OneWay
    <2>4. PassOne!DrawsAreFair
      BY <2>2, PassOne!FairDraws
    <2>. QED BY <2>3, <2>4, SamePass
  <1>. QED
    BY <1>1, <1>2, PassStays, PTL DEF Spec

\* The loops over blocks, in groups of eight and one by one: each block of the output
\* is the cipher of its own input or counter, with the mask that the code applies to
\* it, in place or not, for every number of blocks and every first counter
\* (encryptECBBlocks, encryptCTR, encryptECB_MMO_Blocks).
THEOREM BlocksExactAlways == Spec => []BlocksExact
  <1>1. Init => BlocksInv
    <2>1. SUFFICES ASSUME Init, unit = "blocks" PROVE LoopsInv
      BY Zenon DEF BlocksInv
    <2>2. Blocks!AesBlocksAssumption /\ Blocks!Init
      BY <2>1, KernelsAssumption DEF Init
    <2>. QED BY <2>2, BlocksInit
  <1>2. BlocksInv => BlocksExact
    <2>1. SUFFICES ASSUME BlocksInv, unit = "blocks"
                   PROVE  /\ Blocks!EcbExact /\ Blocks!CtrExact
                          /\ Blocks!MmoExact /\ Blocks!MmoInPlace
      BY Zenon DEF BlocksExact
    <2>2. Blocks!AesBlocksAssumption /\ LoopsInv
      BY <2>1, KernelsAssumption, Zenon DEF BlocksInv
    <2>. QED BY <2>2, BlocksRight
  <1>. QED
    BY <1>1, <1>2, BlocksStay, PTL DEF Spec
=============================================================================
