---------------------------- MODULE MCProbeChain ----------------------------
(* ProbeChain for TLC.  With a threshold of 1 and a margin of 2 these are  *)
(* the similarities on both sides of each: inner products may be negative. *)
EXTENDS ProbeChain

Similarities == {-2, 0, 1, 3}
=============================================================================
