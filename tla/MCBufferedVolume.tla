--------------------------- MODULE MCBufferedVolume ---------------------------
(* Model-checking instances of BufferedVolume.                             *)
EXTENDS BufferedVolume, TLC

ValueSymmetry == Permutations(Values)
=============================================================================
