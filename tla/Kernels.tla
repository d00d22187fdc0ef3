------------------------------ MODULE Kernels ------------------------------
(***************************************************************************)
(* The C++ code of psetggm/, one component after the other: unit says      *)
(* which of them a behaviour is about, and v1 to v6 are its variables.     *)
(* The components have no state in common, so nothing is lost by not       *)
(* interleaving them.                                                      *)
(***************************************************************************)
EXTENDS Integers, Sequences

CONSTANTS
  SetSizes, Seeds, UnivSize, Width, Word(_, _),          \* of GgmSet
  Universe, Sizes,                                        \* of DistinctFilter
  VecSizes, RowLens, XorRows, MaxElems, HashRows, BitBytes,  \* of XorKernels
  PassRows, PassSetSize, PassDraws,                       \* of SinglePassAnswer, one request
  RaceThreads, RaceRows, RaceSetSize, RaceDraws,          \* and requests at a time
  MaxBlocks, IndexWidth, Bases                            \* of AesBlocks

VARIABLES unit, v1, v2, v3, v4, v5, v6

vars == <<unit, v1, v2, v3, v4, v5, v6>>

Unused == v3 = 0 /\ v4 = 0 /\ v5 = 0 /\ v6 = 0

-----------------------------------------------------------------------------
Ggm == INSTANCE GgmSet WITH
  setSize <- v1, ws <- v2, call <- v3, pset <- v4, elems <- v5, wild <- v6

Filter == INSTANCE DistinctFilter WITH
  elems <- v1, table <- v2, i <- v3, ptr <- v4, out <- v5

Xors == INSTANCE XorKernels WITH
  NumRows <- XorRows,
  w <- v1, len <- v2, call <- v3, out <- v4, acc <- v5, wild <- v6

\* One request, and several that share the random buffer.
Pass == INSTANCE SinglePassAnswer WITH
  Threads <- {"t1"}, NumRows <- PassRows, SetSize <- PassSetSize, DrawValues <- PassDraws,
  buf <- v1, th <- v2
Race == INSTANCE SinglePassAnswer WITH
  Threads <- RaceThreads, NumRows <- RaceRows, SetSize <- RaceSetSize, DrawValues <- RaceDraws,
  buf <- v1, th <- v2

Blocks == INSTANCE AesBlocks WITH
  Width <- IndexWidth,
  op <- v1, blockLength <- v2, inPlace <- v3, baseIdx <- v4, idx <- v5, mem <- v6

ASSUME KernelsAssumption ==
  /\ Ggm!GgmAssumption /\ Filter!DistinctAssumption /\ Xors!KernelAssumption
  /\ Pass!AnswerAssumption /\ Race!AnswerAssumption
  /\ Blocks!AesBlocksAssumption

-----------------------------------------------------------------------------
Init ==
  \/ unit = "ggm" /\ Ggm!Init
  \/ unit = "filter" /\ Filter!Init /\ v6 = 0
  \/ unit = "xors" /\ Xors!Init
  \/ unit = "pass" /\ Pass!Init /\ Unused
  \/ unit = "race" /\ Race!Init /\ Unused
  \/ unit = "blocks" /\ Blocks!Init

Next ==
  /\ UNCHANGED unit
  /\ \/ unit = "ggm" /\ Ggm!Next
     \/ unit = "filter" /\ Filter!Next /\ UNCHANGED v6
     \/ unit = "xors" /\ Xors!Next
     \/ unit = "pass" /\ Pass!Next /\ UNCHANGED <<v3, v4, v5, v6>>
     \/ unit = "race" /\ Race!Next /\ UNCHANGED <<v3, v4, v5, v6>>
     \/ unit = "blocks" /\ Blocks!Next

\* A call runs until it returns.
Spec ==
  /\ Init /\ [][Next]_vars
  /\ WF_vars(unit = "filter" /\ Filter!Walk /\ UNCHANGED <<unit, v6>>)
  /\ WF_vars(unit = "blocks" /\ Blocks!Loops /\ UNCHANGED unit)

-----------------------------------------------------------------------------
\* A set evaluates to the leaves of its tree and a punctured one to all of them but the
\* hole, which nothing it holds tells, whatever earlier calls left in the workspace
\* they share (pset_ggm_eval, pset_ggm_punc, pset_ggm_eval_punc).
PuncturedIsRest ==
  unit = "ggm" => Ggm!EvalIsTree /\ Ggm!EvalPuncIsRest /\ Ggm!HoleHidden

\* The filter rejects no set without a repetition and passes none with one, but of 0;
\* every element stored can be found again (distinct).
FilterRight ==
  unit = "filter" => Filter!NoFalseAlarm /\ Filter!PassedIsDistinct /\ Filter!WalksReach

\* Each kernel gives every byte of its result the XOR of exactly the rows it is asked
\* for, for all row lengths and vector sizes (xor.cpp, answer.cpp).
XorsExact ==
  unit = "xors" => Xors!RowsExact /\ Xors!WholeRowsExact /\ Xors!PassExact /\ Xors!HashExact

\* No access of the tree kernels to the workspace and the keys of a punctured set, none
\* of the row kernels to the database, the bit vector, the output and the parities, and
\* no write of the block loops lies outside the array (pset_ggm.cpp, xor.cpp, AES.cpp).
AccessesInside ==
  /\ unit = "ggm" => Ggm!InBounds
  /\ unit = "xors" => Xors!RowsInside
  /\ unit = "blocks" => Blocks!NoStrayWrites

\* The parities of a hint request are those of the permutations it drew, also when two
\* requests share the random buffer (answer_single_pass, permute).
HintsAreParities ==
  /\ unit = "pass" => Pass!ArraysArePermutations /\ Pass!HintsAreParities
  /\ unit = "race" => Race!ArraysArePermutations /\ Race!HintsAreParities

\* Permutations are as likely as the draws can make them (permute, fastMod).
DrawsAreFair == unit = "pass" => Pass!OneWayToEach /\ Pass!DrawsAreFair

\* The loops over blocks encrypt each block once, with its own input and mask as far as
\* the code does (encryptECBBlocks, encryptCTR, encryptECB_MMO_Blocks).
BlocksExact ==
  unit = "blocks" => Blocks!EcbExact /\ Blocks!CtrExact /\ Blocks!MmoExact /\ Blocks!MmoInPlace

\* Every call of the filter and of the block loops returns (distinct, AES.cpp).
CallsReturn ==
  /\ (unit = "filter" /\ v5 = "run") ~> (unit = "filter" /\ v5 # "run")
  /\ (unit = "blocks") ~> (unit = "blocks" /\ v5 = v2)
=============================================================================
