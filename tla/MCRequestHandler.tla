---------------------------- MODULE MCRequestHandler ----------------------------
(* RequestHandler for TLC: three requests over three keys and a cache of two, *)
(* with enough time for an entry to expire.                                   *)
EXTENDS RequestHandler, TLC

CONSTANTS r1, r2, r3, k1, k2, k3

MCRequests == {r1, r2, r3}
MCKeys == {k1, k2, k3}
Symmetry == Permutations(MCRequests) \cup Permutations(MCKeys)
================================================================================
