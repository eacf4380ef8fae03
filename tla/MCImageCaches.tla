------------------------------ MODULE MCImageCaches ------------------------------
(* ImageCaches for TLC: two calls on the request side and one on the response *)
(* side, a short and a long image, and limits that hold one long image with   *)
(* one short one, or three short ones.  Two URLs are asked for; a third,      *)
(* whose image is in the memory of the request side with that of one of them, *)
(* competes with it for the room that the other needs.                        *)
EXTENDS ImageCaches, TLC

CONSTANTS request, response, q1, q2, p1, u1, u2, u3, png, webp

MCServices == {request, response}
MCCalls == {q1, q2, p1}
MCServiceOf == (q1 :> request) @@ (q2 :> request) @@ (p1 :> response)
MCUrls == {u1, u2, u3}
MCAsked == {u1, u2}
MCImages == {png, webp}
MCSize == (webp :> 1) @@ (png :> 2)
\* The request side remembers nothing, and there may be files of u, or it
\* remembers u and u3, and has used u3 since.
Nothing == [u \in {} |-> NoCopy]
Start(held, order, filed) ==
    [mem |-> (request :> held) @@ (response :> Nothing),
     used |-> (request :> order) @@ (response :> {}), filed |-> filed]
MCStarts ==
    {Start(Nothing, {}, {u}) : u \in MCAsked}
    \cup {Start([v \in {u, u3} |-> CopyOf(webp)], {<<u, u3>>}, {}) : u \in MCAsked}
Symmetry == Permutations(MCAsked) \cup Permutations({q1, q2})
================================================================================
