------------------------------ MODULE MCQueue ------------------------------
(* Model-checking instances of Queue.                                      *)
EXTENDS Queue, TLC

ItemSymmetry == Permutations(Items)
=============================================================================
