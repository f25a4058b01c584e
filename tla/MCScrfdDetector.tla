-------------------------- MODULE MCScrfdDetector --------------------------
(***************************************************************************)
(* Wide, tall and odd-sized images, one smaller than the input, one so     *)
(* thin that its short side rounds to nothing, one that is not BGR and the *)
(* empty one that cv::imread returns for a file it cannot read.            *)
(***************************************************************************)
EXTENDS ScrfdDetector

Bgr(w, h) == [cols |-> w, rows |-> h, type |-> "bgr"]

MCImages ==
    {Bgr(96, 40), Bgr(35, 71), Bgr(9, 9), Bgr(200, 3), Bgr(0, 0),
     [Bgr(32, 32) EXCEPT !.type = "gray"]}
=============================================================================
