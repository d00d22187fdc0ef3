----------------------------- MODULE MCKernels -----------------------------
(***************************************************************************)
(* Instances of the kernels (module Kernels) for TLC.                      *)
(***************************************************************************)
EXTENDS Kernels, SequencesExt

MCSetSizes == {1, 2, 3, 4, 5, 7, 8, 9, 13, 15, 16, 17}

\* Words of eight bits that differ for every leaf of two trees of up to sixteen
\* leaves, so that a leaf taken from the wrong place shows.
MCWord(path, j) == (FoldSeq(LAMBDA b, a : 2 * a + b, 0, path) * 4 + j) * 2 + 1

\* 0, 16 and 15, 31 have equal hashes in tables of eight and sixteen slots.
MCUniverse == {0, 1, 15, 16, 31}
MCSizes    == 1..4

\* Rows of less than a vector, of one and two, and with each of the tails.
MCRowLens  == {1, 7, 16, 23, 31, 32, 33, 46, 63}
MCBitBytes == {{}, {0, 2, 7}, {1, 2}, 0..7}

\* Three batches of eight and a remainder; counters that wrap around.
MCBases == {0, 5, 30}
=============================================================================
