------------------------------ MODULE MCMutex ------------------------------
(* Model-checking instances of Mutex.                                      *)
EXTENDS Mutex, TLC

WorkerSymmetry == Permutations(Threads \ {Main})
=============================================================================
