---------------------------- MODULE MessageQueue ----------------------------
(***************************************************************************)
(* MessageQueue<T> (src/include/messagequeue.h) as operators on a record:  *)
(* a ring buffer (Queue) between two semaphores, msgs for what can be read *)
(* and slts for the room that is left.  Unlike everywhere else, the ring   *)
(* is used with interrupts enabled, so Put and Get are taken apart here at *)
(* the points where another thread may come in between.                    *)
(***************************************************************************)
EXTENDS Integers, Sequences, Functions

CONSTANT Places   \* the capacity of the ring

ASSUME MessageQueueAssumption == Places \in Nat \ {0}

Fresh ==
  [items   |-> <<>>,       \* the ring, oldest item first
   full    |-> FALSE,      \* its flag Full
   msgs    |-> 0,          \* count of the semaphore msgs
   slts    |-> Places,   \* count of the semaphore slts
   waiters |-> <<>>]       \* threads blocked in msgs.Wait

\* Queue::IsEmpty: the flag decides when the indices are equal.  A ring that was
\* just filled is empty, too, as long as its flag is not stored.
RingIsEmpty(q) == Len(q.items) \in {0, Places} /\ ~q.full

\* Whether Queue::Read finds an item that nobody has read yet: when the ring is not
\* empty, and in a ring that was just filled also if it looked before that.
Finds(q) ==
  {q.items # <<>> /\ ~RingIsEmpty(q)}
    \cup (IF Len(q.items) = Places /\ Places > 1 THEN {TRUE} ELSE {})

\* The lists of threads and windows: where x is, and the list without x, which
\* is on it once at most
Position(s, x) == CHOOSE i \in DOMAIN s : s[i] = x

Without(s, x) ==
  LET i == Position(s, x)
  IN  IF x \in Range(s) THEN SubSeq(s, 1, i - 1) \o SubSeq(s, i + 1, Len(s)) ELSE s

-----------------------------------------------------------------------------
(* Put(m, 0, true), in two parts.  Write stores the item and compares the  *)
(* indices; the flag is stored after that, and the semaphore signalled.    *)

CanPut(q) == q.slts > 0

\* A write into a ring whose flag says full is refused; the slot is taken and
\* the semaphore is signalled all the same.
WriteItem(q, m) ==
  [q EXCEPT !.slts = @ - 1, !.items = IF q.full THEN @ ELSE Append(@, m)]

\* what Write is going to store into the flag
FlagAfter(q, m) ==
  IF q.full THEN "same" ELSE IF Len(q.items) + 1 = Places THEN "full" ELSE "room"

\* Mutant of FinishPut: the signal wakes nobody.
FinishPutSilent(q, flag) ==
  [q EXCEPT !.full = IF flag = "same" THEN @ ELSE flag = "full", !.msgs = @ + 1]

\* The flag is stored; Signal takes the first waiter off its list.
FinishPut(q, flag) ==
  [q EXCEPT !.full = IF flag = "same" THEN @ ELSE flag = "full",
            !.msgs = @ + 1,
            !.waiters = IF @ = <<>> THEN @ ELSE Tail(@)]

-----------------------------------------------------------------------------
(* Get(0, ok), in two parts: the Wait, and the Read with the Signal of slts.*)

CanTake(q) == q.msgs > 0

TakeCount(q) == [q EXCEPT !.msgs = @ - 1]

Enqueue(q, t) == [q EXCEPT !.waiters = Append(@, t)]

Dequeue(q, t) == [q EXCEPT !.waiters = Without(@, t)]

\* Mutant of ReadItem: the room is not given back.
ReadKeepsRoom(q, found) ==
  IF found THEN [q EXCEPT !.items = Tail(@), !.full = FALSE] ELSE q

\* Mutant of ReadItem: the flag is left as it was.
ReadKeepsFull(q, found) ==
  LET r == [q EXCEPT !.slts = @ + 1]
  IN  IF found THEN [r EXCEPT !.items = Tail(@)] ELSE r

\* Mutant of ReadItem: the item stays in the ring.
ReadLeaves(q, found) == [q EXCEPT !.slts = @ + 1, !.full = FALSE]

\* Read and the Signal of slts, in one step: that is right for a thread that reads
\* alone and has a message for its count, because its place is free for the next Put
\* only after the Signal, and the flag is what Put left when Read looked at it.  What
\* others do to a Read is said where the threads are.
ReadItem(q, found) ==
  LET r == [q EXCEPT !.slts = @ + 1]
  IN  IF found THEN [r EXCEPT !.items = Tail(@), !.full = FALSE] ELSE r

=============================================================================
