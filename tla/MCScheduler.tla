---------------------------- MODULE MCScheduler ----------------------------
(* Model-checking instances of Scheduler.                                  *)
EXTENDS Scheduler, TLC

Workers == Threads \ {Main}
WorkerSymmetry == Permutations(Workers)
=============================================================================
