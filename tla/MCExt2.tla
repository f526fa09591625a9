------------------------------- MODULE MCExt2 -------------------------------
(* Model-checking instances of Ext2. *)
EXTENDS Ext2, TLC

FileSymmetry == Permutations(Files)
=============================================================================
