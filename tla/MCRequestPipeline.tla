--------------------------- MODULE MCRequestPipeline ---------------------------
(* RequestPipeline for TLC.  Image a fits in memory, image b does not; a body *)
(* fits when it carries no image or one small one.                            *)
EXTENDS RequestPipeline, TLC

CONSTANTS r1, r2, a, b

MCRequests == {r1, r2}
MCUrls == {a, b}
MCImageSize == (a :> 2) @@ (b :> 8)
Symmetry == Permutations(MCRequests)
================================================================================
