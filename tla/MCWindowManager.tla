-------------------------- MODULE MCWindowManager --------------------------
(* Model-checking instances of WindowManager. *)
EXTENDS WindowManager, TLC

\* The programs are alike; no liveness is checked.
Symmetry == Permutations(Users)

\* A bound: the last event is a key.  Alt+tab and the mouse come first, one after the
\* other or the same twice, and what they leave is there when the key arrives.
LastIsKey == \A i \in DOMAIN ring :
  ring[i].number = MaxEvents => ring[i].kind = "key"

=============================================================================
