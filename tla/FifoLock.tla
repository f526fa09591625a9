------------------------------ MODULE FifoLock ------------------------------
(***************************************************************************)
(* What a kernel mutex promises: a lock with a line.  Whoever finds it     *)
(* free takes it; the others line up, and a release passes the lock        *)
(* straight to the head of the line, so nobody overtakes.  A thread may    *)
(* give up its place in the line.                                          *)
(***************************************************************************)
EXTENDS Naturals, Sequences

CONSTANTS Threads, Nobody   \* Nobody is not a thread

VARIABLES holder, line

vars == <<holder, line>>

Init == holder = Nobody /\ line = <<>>

Take(t) == holder = Nobody /\ line = <<>> /\ holder' = t /\ UNCHANGED line

LineUp(t) ==
  /\ holder # Nobody
  /\ \A i \in DOMAIN line : line[i] # t
  /\ line' = Append(line, t)
  /\ UNCHANGED holder

Pass ==
  /\ holder # Nobody
  /\ holder' = IF line = <<>> THEN Nobody ELSE Head(line)
  /\ line' = IF line = <<>> THEN <<>> ELSE Tail(line)

GiveUp(i) ==
  /\ line' = SubSeq(line, 1, i - 1) \o SubSeq(line, i + 1, Len(line))
  /\ UNCHANGED holder

Next ==
  \/ \E t \in Threads : Take(t) \/ LineUp(t)
  \/ Pass
  \/ \E i \in DOMAIN line : GiveUp(i)

Spec == Init /\ [][Next]_vars

=============================================================================
