------------------------ MODULE MCNonMaxSuppression ------------------------
(* A chain of boxes of which only neighbours overlap, one inside another,  *)
(* one apart from all and one turned inside out.                           *)
EXTENDS NonMaxSuppression

Box(x, y, w, h) == [x |-> x, y |-> y, width |-> w, height |-> h]

SomeBoxes ==
    {Box(0, 0, 2, 2), Box(1, 0, 2, 2), Box(2, 0, 2, 2), Box(0, 0, 2, 1),
     Box(4, 3, 1, 2), Box(1, 1, -1, 2)}
=============================================================================
