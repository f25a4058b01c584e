-------------------------- MODULE MCFaissSearcher ---------------------------
(* FaissSearcher for TLC: people are interchangeable.                      *)
EXTENDS FaissSearcher, TLC

Symmetry == Permutations(People)
=============================================================================
