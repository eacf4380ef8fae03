----------------------------- MODULE MCFetchService -----------------------------
(* FetchService for TLC: three calls over two URLs and room for one entry in  *)
(* the map, so that calls share a fetch, follow one another and find it full. *)
EXTENDS FetchService, TLC

CONSTANTS c1, c2, c3, u1, u2

MCCalls == {c1, c2, c3}
TwoCalls == {c1, c2}
MCUrls == {u1, u2}
OneUrl == {u1}

\* The response side alone, and both.
ResponseSide == {FALSE}
BothSides == BOOLEAN

AnyDropped == [b \in BOOLEAN |-> MCCalls]
\* On the response side nobody hangs up.
DroppedOnRequestSide == [b \in BOOLEAN |-> IF b THEN TwoCalls ELSE {}]
FirstDropped == [b \in ResponseSide |-> {c1}]

Symmetry == Permutations(MCCalls) \cup Permutations(MCUrls)
================================================================================
