----------------------------- MODULE MCBlobRuntime -----------------------------
(* Model of BlobRuntime for TLC: two tasks, three ids, and sizes on both      *)
(* sides of every limit (1 and 2 fit in memory, 3 does not; 2+2 exceeds the   *)
(* global budget).                                                            *)
EXTENDS BlobRuntime, TLC

CONSTANTS p1, p2

MCProcs == {p1, p2}
MCSizes == {1, 2, 3}
MCChunkSizes == {1, 2}
Symmetry == Permutations(MCProcs)
================================================================================
