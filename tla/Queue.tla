------------------------------- MODULE Queue -------------------------------
(***************************************************************************)
(* The ring buffer behind Queue<T> (src/include/queue.h): an array with a  *)
(* write index, a read index, and a flag that tells a full buffer from an  *)
(* empty one when the two are equal.  Each method is one step: the         *)
(* semaphores, the mutexes and the input devices call them with interrupts *)
(* disabled.  (MessageQueue calls them with interrupts enabled: that is    *)
(* another matter.)                                                        *)
(***************************************************************************)
EXTENDS Integers, Sequences

CONSTANTS
  Items,      \* the values stored
  Capacity,   \* the constructor's capacity
  Nothing     \* the default-constructed T that comes with ok = false

ASSUME QueueAssumption ==
  /\ Capacity \in Nat \ {0}
  /\ Nothing \notin Items \cup {0, 1}

VARIABLES
  data,     \* Data
  head,     \* Head, the slot to be written next
  tail,     \* Tail, the slot to be read next
  full,     \* Full
  answer,   \* what the last operation returned: a value read, Nothing, or
            \* whether (how many) items were written or removed
  call      \* history: the last operation and its arguments

queueVars == <<data, head, tail, full, answer, call>>

Slots == 0..(Capacity - 1)

QueueTypeOK ==
  /\ data \in [Slots -> Items]
  /\ head \in Slots
  /\ tail \in Slots
  /\ full \in BOOLEAN
  /\ answer \in Items \cup {Nothing, 0, 1}

\* new T[capacity] leaves the slots as they are in memory
QueueInit ==
  /\ data \in [Slots -> Items]
  /\ head = 0 /\ tail = 0 /\ full = FALSE
  /\ answer = 0
  /\ call = <<>>

-----------------------------------------------------------------------------
IsEmpty == head = tail /\ ~full

Count ==
  IF IsEmpty THEN 0
  ELSE IF head > tail THEN head - tail ELSE Capacity - tail + head

\* getIndex
Index(i) == (tail + i) % Capacity

\* Mutant of After: the index runs out of the array.
AfterUnwrapped(slot) == slot + 1

After(slot) == (slot + 1) % Capacity

Write(v) ==
  \/ /\ full /\ answer' = 0
     /\ UNCHANGED <<data, head, tail, full>>
  \/ /\ ~full /\ answer' = 1
     /\ data' = [data EXCEPT ![head] = v]
     /\ head' = After(head)
     /\ full' = (After(head) = tail)
     /\ UNCHANGED tail

Read ==
  \/ /\ IsEmpty /\ answer' = Nothing
     /\ UNCHANGED <<data, head, tail, full>>
  \/ /\ ~IsEmpty /\ answer' = data[tail]
     /\ tail' = After(tail)
     /\ full' = FALSE
     /\ UNCHANGED <<data, head>>

\* Mutant of Shifted: the shift stops one item short.
ShiftedShort(n) ==
  [s \in Slots |->
     IF \E i \in 1..(n - 1) : s = Index(i) THEN data[(s + Capacity - 1) % Capacity]
                                           ELSE data[s]]

\* The oldest n items move up by one slot.
Shifted(n) ==
  [s \in Slots |->
     IF \E i \in 1..n : s = Index(i) THEN data[(s + Capacity - 1) % Capacity]
                                     ELSE data[s]]

Remove(n) ==
  \/ /\ n >= Count /\ answer' = 0
     /\ UNCHANGED <<data, head, tail, full>>
  \/ /\ n < Count /\ answer' = 1
     /\ full' = FALSE
     /\ \/ /\ n = 0
           /\ tail' = After(tail)
           /\ UNCHANGED <<data, head>>
        \/ /\ n # 0 /\ n = Count - 1
           /\ head' = IF head > 0 THEN head - 1 ELSE Capacity - 1
           /\ UNCHANGED <<data, tail>>
        \/ /\ n # 0 /\ n # Count - 1
           /\ data' = Shifted(n)
           /\ tail' = After(tail)
           /\ UNCHANGED head

RemoveFirst(v) ==
  \/ \E n \in Slots :
       /\ n < Count /\ data[Index(n)] = v
       /\ \A i \in 0..(n - 1) : data[Index(i)] # v
       /\ Remove(n)
  \/ /\ \A n \in 0..(Count - 1) : data[Index(n)] # v
     /\ answer' = 0
     /\ UNCHANGED <<data, head, tail, full>>

\* A replacement's loop goes from Tail to Head, so not at all in a full buffer.
Visited == {Index(i) : i \in 0..((IF full THEN 0 ELSE Count) - 1)}

ReplaceAll(v, w) ==
  /\ data' = [s \in Slots |-> IF s \in Visited /\ data[s] = v THEN w ELSE data[s]]
  /\ UNCHANGED <<head, tail, full>>

ReplaceFirst(v, w) ==
  \/ \E n \in Slots :
       /\ n < Count /\ ~full /\ data[Index(n)] = v
       /\ \A i \in 0..(n - 1) : data[Index(i)] # v
       /\ data' = [data EXCEPT ![Index(n)] = w] /\ answer' = 1
       /\ UNCHANGED <<head, tail, full>>
  \/ /\ \A s \in Visited : data[s] # v
     /\ answer' = 0
     /\ UNCHANGED <<data, head, tail, full>>

\* Read until nothing is left
Clear ==
  /\ tail' = head
  /\ full' = FALSE
  /\ UNCHANGED <<data, head, answer>>

\* The number that ReplaceAll returns is used nowhere.
QueueNext ==
  \/ \E v \in Items :
       \/ Write(v) /\ call' = <<"Write", v>>
       \/ RemoveFirst(v) /\ call' = <<"RemoveFirst", v>>
  \/ Read /\ call' = <<"Read">>
  \/ \E n \in 0..Capacity : Remove(n) /\ call' = <<"Remove", n>>
  \/ \E v, w \in Items :
       \/ ReplaceAll(v, w) /\ call' = <<"ReplaceAll", v, w>> /\ answer' = answer
       \/ ReplaceFirst(v, w) /\ call' = <<"ReplaceFirst", v, w>>
  \/ Clear /\ call' = <<"Clear">>

QueueSpec == QueueInit /\ [][QueueNext]_queueVars

-----------------------------------------------------------------------------
(* Properties.                                                             *)

\* The flag is only ever set when the indices meet.
FullWhenMet == full => head = tail

\* The ring buffer is a bounded first-in first-out line: every operation does
\* to the items between Tail and Head, wherever they wrap, what the same
\* operation does to the line, and returns the same.
Line == [i \in 1..Count |-> data[Index(i - 1)]]

Fifo == INSTANCE BoundedFifo WITH line <- Line

ImplementsBoundedFifo == Fifo!Spec

=============================================================================
