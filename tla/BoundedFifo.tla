---------------------------- MODULE BoundedFifo ----------------------------
(***************************************************************************)
(* What the kernel's Queue<T> promises: a first-in first-out line of at    *)
(* most Capacity items, out of which items can also be removed or in which *)
(* they can be replaced.  The semaphores, mutexes and event queues of the  *)
(* other modules keep such a sequence.                                     *)
(***************************************************************************)
EXTENDS Integers, Sequences

CONSTANTS Items, Capacity, Nothing

VARIABLES
  line,     \* the items, oldest first
  answer,   \* what the last operation returned
  call      \* the last operation and its arguments

vars == <<line, answer, call>>

Init == line = <<>> /\ answer = 0 /\ call = <<>>

\* full: nothing is written and 0 (false) returned
Write(v) ==
  /\ line' = IF Len(line) = Capacity THEN line ELSE Append(line, v)
  /\ answer' = IF Len(line) = Capacity THEN 0 ELSE 1

Read ==
  /\ line' = IF line = <<>> THEN line ELSE Tail(line)
  /\ answer' = IF line = <<>> THEN Nothing ELSE line[1]

\* the item at index n is taken out, counting from 0
Remove(n) ==
  /\ line' = IF n < Len(line)
             THEN [i \in 1..(Len(line) - 1) |-> IF i <= n THEN line[i] ELSE line[i + 1]]
             ELSE line
  /\ answer' = IF n < Len(line) THEN 1 ELSE 0

\* the oldest v is taken out
RemoveFirst(v) ==
  \/ \E n \in 0..(Capacity - 1) :
       /\ n < Len(line) /\ line[n + 1] = v
       /\ \A i \in 1..n : line[i] # v
       /\ Remove(n)
  \/ /\ \A i \in 1..Len(line) : line[i] # v
     /\ line' = line /\ answer' = 0

\* The places a replacement looks at: all of them, but none when the queue is
\* full.
Searched == IF Len(line) = Capacity THEN {} ELSE 1..Len(line)

ReplaceAll(v, w) ==
  line' = [i \in 1..Len(line) |-> IF i \in Searched /\ line[i] = v THEN w ELSE line[i]]

\* the oldest v that is looked at becomes w
ReplaceFirst(v, w) ==
  \/ \E n \in Searched :
       /\ line[n] = v /\ \A i \in 1..(n - 1) : line[i] # v
       /\ line' = [line EXCEPT ![n] = w] /\ answer' = 1
  \/ /\ \A i \in Searched : line[i] # v
     /\ line' = line /\ answer' = 0

Clear == line' = <<>> /\ UNCHANGED answer

Next ==
  \/ \E v \in Items :
       \/ Write(v) /\ call' = <<"Write", v>>
       \/ RemoveFirst(v) /\ call' = <<"RemoveFirst", v>>
  \/ Read /\ call' = <<"Read">>
  \/ \E n \in 0..Capacity : Remove(n) /\ call' = <<"Remove", n>>
  \/ \E v, w \in Items :
       \/ ReplaceAll(v, w) /\ call' = <<"ReplaceAll", v, w>> /\ answer' = answer
       \/ ReplaceFirst(v, w) /\ call' = <<"ReplaceFirst", v, w>>
  \/ Clear /\ call' = <<"Clear">>

Spec == Init /\ [][Next]_vars

=============================================================================
