------------------------ MODULE WindowManager_proofs ------------------------
(***************************************************************************)
(* Two proofs about queues.  The ring buffer of src/include/queue.h        *)
(* implements a bounded first-in first-out line, for every capacity and    *)
(* every set of items.  And what is said of the window manager             *)
(* (src/kernel/kwm.cpp), of the message queues of the windows and of the   *)
(* order in which their events are read holds for every number of threads, *)
(* windows and events and every capacity.                                  *)
(*                                                                         *)
(* The second part follows from an inductive invariant, WInv: types; the   *)
(* stack of windows; the focus; that Put keeps its window; who may be at   *)
(* which window; for each queue, the list of waiters, the flag of the ring *)
(* and the account of its places; and the order of the numbers of events.  *)
(***************************************************************************)
EXTENDS WindowManager, Queue, SequenceTheorems, FiniteSetTheorems, TLAPS

-----------------------------------------------------------------------------
(* The ring buffer of src/include/queue.h, for every capacity.             *)

\* The type of the variables and what Full means: the inductive invariant.
RingInv == QueueTypeOK /\ FullWhenMet

-----------------------------------------------------------------------------
(* Arithmetic of the indices.                                              *)

\* Reducing an index modulo Capacity wraps it at most once.
LEMMA ModOnce ==
  ASSUME NEW i \in 0..(2 * Capacity - 1)
  PROVE  i % Capacity = IF i < Capacity THEN i ELSE i - Capacity
<1>1. ASSUME NEW C \in Nat \ {0}, NEW x \in 0..(C - 1) PROVE x % C = x
  BY Z3
<1>2. ASSUME NEW C \in Nat \ {0}, NEW x \in C..(2 * C - 1) PROVE x % C = x - C
  BY Z3
<1>3. Capacity \in Nat \ {0}
  BY QueueAssumption
<1>4. CASE i < Capacity
  <2>1. i \in 0..(Capacity - 1)
    BY <1>3, <1>4
  <2> QED
    BY <1>1, <1>3, <1>4, <2>1
<1>5. CASE ~(i < Capacity)
  <2>1. i \in Capacity..(2 * Capacity - 1)
    BY <1>3, <1>5
  <2> QED
    BY <1>2, <1>3, <1>5, <2>1
<1> QED
  BY <1>4, <1>5

\* The slot after a slot is a slot.
LEMMA AfterSlot ==
  ASSUME NEW s \in Slots
  PROVE  /\ After(s) \in Slots
         /\ After(s) = IF s = Capacity - 1 THEN 0 ELSE s + 1
<1>1. s + 1 \in 0..(2 * Capacity - 1)
  BY QueueAssumption DEF Slots
<1>2. After(s) = IF s + 1 < Capacity THEN s + 1 ELSE s + 1 - Capacity
  <2> DEFINE i == s + 1
  <2>1. i \in 0..(2 * Capacity - 1)
    BY <1>1
  <2> HIDE DEF i
  <2>2. i % Capacity = IF i < Capacity THEN i ELSE i - Capacity
    BY <2>1, ModOnce
  <2> QED
    BY <2>2, QueueAssumption DEF i, After, Slots
<1>3. s + 1 < Capacity \/ s = Capacity - 1
  BY QueueAssumption DEF Slots
<1> QED
  BY <1>1, <1>2, <1>3, QueueAssumption DEF Slots

-----------------------------------------------------------------------------
(* The type invariant.                                                     *)

\* The ring is empty at first, and says so.
LEMMA RingInit == QueueInit => RingInv
<1> SUFFICES ASSUME QueueInit PROVE RingInv
  OBVIOUS
<1>1. head \in Slots /\ tail \in Slots
  BY QueueAssumption DEF QueueInit, Slots
<1>2. full \in BOOLEAN /\ (full => head = tail)
  BY Zenon DEF QueueInit
<1>3. data \in [Slots -> Items] /\ answer \in Items \cup {Nothing, 0, 1}
  BY DEF QueueInit
<1> QED
  BY <1>1, <1>2, <1>3, Zenon DEF RingInv, QueueTypeOK, FullWhenMet

\* Every method keeps the indices inside the array and sets Full only when they
\* meet.
LEMMA RingStep == RingInv /\ [QueueNext]_queueVars => RingInv'
<1> SUFFICES ASSUME RingInv, [QueueNext]_queueVars PROVE RingInv'
  OBVIOUS
<1> USE QueueAssumption DEF RingInv, QueueTypeOK, FullWhenMet
<1>1. ASSUME NEW v \in Items, Write(v) PROVE RingInv'
  BY <1>1, AfterSlot DEF Write
<1>2. CASE Read
  BY <1>2, AfterSlot DEF Read, IsEmpty
<1>3. ASSUME NEW n \in Nat, Remove(n) PROVE RingInv'
  <2>1. data' \in [Slots -> Items]
    <3>1. ASSUME NEW s \in Slots PROVE (s + Capacity - 1) % Capacity \in Slots
      BY ModOnce DEF Slots
    <3>2. Shifted(n) \in [Slots -> Items]
      BY <3>1 DEF Shifted
    <3> QED
      BY <1>3, <3>2 DEF Remove
  <2>2. head' \in Slots /\ tail' \in Slots
    <3>1. /\ head' \in {head, IF head > 0 THEN head - 1 ELSE Capacity - 1}
          /\ tail' \in {tail, After(tail)}
      BY <1>3 DEF Remove
    <3>2. After(tail) \in Slots
      BY AfterSlot
    <3>3. (IF head > 0 THEN head - 1 ELSE Capacity - 1) \in Slots
      BY DEF Slots
    <3> QED
      BY <3>1, <3>2, <3>3
  <2>3. full' \in BOOLEAN /\ (full' => head' = tail')
    <3>1. full' = FALSE \/ UNCHANGED <<head, tail, full>>
      BY <1>3, Zenon DEF Remove
    <3>2. CASE full' = FALSE
      BY <3>2, Zenon
    <3>3. CASE UNCHANGED <<head, tail, full>>
      <4>1. full' = full /\ head' = head /\ tail' = tail
        BY <3>3
      <4> QED
        BY <4>1, Zenon
    <3> QED
      BY <3>1, <3>2, <3>3, Zenon
  <2>4. answer' \in Items \cup {Nothing, 0, 1}
    BY <1>3 DEF Remove
  <2> QED
    BY <2>1, <2>2, <2>3, <2>4
<1>4. ASSUME NEW v \in Items, RemoveFirst(v) PROVE RingInv'
  BY <1>3, <1>4 DEF RemoveFirst, Slots
<1>5. ASSUME NEW v \in Items, NEW w \in Items, ReplaceAll(v, w), answer' = answer
      PROVE  RingInv'
  BY <1>5 DEF ReplaceAll
<1>6. CASE Clear
  BY <1>6 DEF Clear
<1>7. CASE UNCHANGED queueVars
  BY <1>7 DEF queueVars
<1>8. ASSUME NEW v \in Items, NEW w \in Items, ReplaceFirst(v, w) PROVE RingInv'
  BY <1>8 DEF ReplaceFirst
<1> QED
  BY <1>1, <1>2, <1>3, <1>4, <1>5, <1>6, <1>7, <1>8 DEF QueueNext

\* The indices of the ring buffer stay inside its array and the slots hold
\* items: queue.h never reads or writes past Data.
THEOREM RingTypeCorrect == QueueSpec => []QueueTypeOK
<1>1. RingInv => QueueTypeOK
  BY DEF RingInv
<1> QED
  BY <1>1, RingInit, RingStep, PTL DEF QueueSpec

-----------------------------------------------------------------------------
(* The line that a ring buffer holds.                                      *)

\* Index without the division
At(t, i) == IF t + i < Capacity THEN t + i ELSE t + i - Capacity

\* The index that % gives is the one that wraps once.
LEMMA IndexIsAt ==
  ASSUME NEW t \in Slots, NEW i \in 0..Capacity
  PROVE  /\ (t + i) % Capacity = At(t, i)
         /\ At(t, i) \in Slots
<1> DEFINE j == t + i
<1>1. j \in 0..(2 * Capacity - 1)
  BY QueueAssumption DEF Slots
<1> HIDE DEF j
<1>2. j % Capacity = IF j < Capacity THEN j ELSE j - Capacity
  BY <1>1, ModOnce
<1>3. (t + i) % Capacity = At(t, i)
  BY <1>2, QueueAssumption DEF j, At, Slots
<1> QED
  BY <1>3, QueueAssumption DEF At, Slots

-----------------------------------------------------------------------------
(* How far apart the indices are.                                          *)

\* The number of slots from read index t up to write index h
Apart(h, t) == IF h >= t THEN h - t ELSE Capacity - t + h

\* The distance between two indices
LEMMA ApartBounds ==
  ASSUME NEW h \in Slots, NEW t \in Slots
  PROVE  /\ Apart(h, t) \in 0..(Capacity - 1)
         /\ Apart(h, t) = 0 <=> h = t
         /\ At(t, Apart(h, t)) = h
BY QueueAssumption DEF Apart, At, Slots

\* Moving the read index forward drops the oldest place.
LEMMA ReadMoves ==
  ASSUME NEW h \in Slots, NEW t \in Slots
  PROVE  /\ h # t => Apart(h, After(t)) = Apart(h, t) - 1
         /\ h = t => Apart(h, After(t)) = Capacity - 1
         /\ \A i \in 0..(Capacity - 1) : At(After(t), i) = At(t, i + 1)
<1>1. After(t) = IF t = Capacity - 1 THEN 0 ELSE t + 1
  BY AfterSlot
<1> QED
  BY <1>1, QueueAssumption DEF Apart, At, Slots

\* Moving the write index forward adds a place.
LEMMA WriteMoves ==
  ASSUME NEW h \in Slots, NEW t \in Slots
  PROVE  /\ After(h) # t => Apart(After(h), t) = Apart(h, t) + 1
         /\ After(h) = t => Apart(h, t) = Capacity - 1
<1>1. After(h) = IF h = Capacity - 1 THEN 0 ELSE h + 1
  BY AfterSlot
<1> QED
  BY <1>1, QueueAssumption DEF Apart, Slots

\* Moving the write index back drops the youngest place.
Before(s) == IF s > 0 THEN s - 1 ELSE Capacity - 1

\* Write moves the head one slot on, or back to the start.
LEMMA WriteMovesBack ==
  ASSUME NEW h \in Slots, NEW t \in Slots
  PROVE  /\ h # t => Apart(Before(h), t) = Apart(h, t) - 1
         /\ h = t => Apart(Before(h), t) = Capacity - 1
BY QueueAssumption DEF Apart, Before, Slots

\* The places of the line are different slots, and the slot before a place is
\* the place before it.
LEMMA PlacesDiffer ==
  ASSUME NEW t \in Slots, NEW i \in 0..(Capacity - 1)
  PROVE  /\ \A j \in 0..(Capacity - 1) : At(t, i) = At(t, j) => i = j
         /\ i > 0 => (At(t, i) + Capacity - 1) % Capacity = At(t, i - 1)
<1>1. \A j \in 0..(Capacity - 1) : At(t, i) = At(t, j) => i = j
  BY QueueAssumption DEF At, Slots
<1>2. ASSUME i > 0 PROVE (At(t, i) + Capacity - 1) % Capacity = At(t, i - 1)
  <2> DEFINE j == At(t, i) + Capacity - 1
  <2>1. j \in 0..(2 * Capacity - 1)
    BY QueueAssumption DEF At, Slots
  <2>2. At(t, i - 1) = IF j < Capacity THEN j ELSE j - Capacity
    BY <1>2, QueueAssumption DEF At, Slots
  <2> HIDE DEF j
  <2>3. j % Capacity = IF j < Capacity THEN j ELSE j - Capacity
    BY <2>1, ModOnce
  <2> QED
    BY <2>2, <2>3 DEF j
<1> QED
  BY <1>1, <1>2

-----------------------------------------------------------------------------
(* The line that a ring buffer holds.                                      *)

\* Count: all the slots when Full is set, else those between the indices
CountOf(h, t, f) == IF f = TRUE THEN Capacity ELSE Apart(h, t)

\* The number of items is what the indices and the flag say.
LEMMA CountIs ==
  ASSUME NEW h \in Slots, NEW t \in Slots, NEW f \in BOOLEAN, f => h = t
  PROVE  CountOf(h, t, f) =
           IF h = t /\ ~f THEN 0 ELSE IF h > t THEN h - t ELSE Capacity - t + h
<1>1. CASE f
  <2>1. h = t /\ CountOf(h, t, f) = Capacity
    BY <1>1, Zenon DEF CountOf
  <2>2. Capacity = IF h > t THEN h - t ELSE Capacity - t + h
    BY <2>1, QueueAssumption DEF Slots
  <2> QED
    BY <1>1, <2>1, <2>2, Zenon
<1>2. CASE ~f
  <2>1. CountOf(h, t, f) = Apart(h, t)
    BY <1>2, Zenon DEF CountOf
  <2>2. Apart(h, t) = IF h = t THEN 0 ELSE IF h > t THEN h - t ELSE Capacity - t + h
    BY QueueAssumption DEF Apart, Slots
  <2> QED
    BY <1>2, <2>1, <2>2, Zenon
<1> QED
  BY <1>1, <1>2

\* The n items of array d from index t on
LineOf(d, t, n) == [i \in 1..n |-> d[(t + (i - 1)) % Capacity]]

\* The length and the items of a line
LEMMA LineOfFacts ==
  ASSUME NEW d \in [Slots -> Items], NEW t \in Slots, NEW n \in 0..Capacity
  PROVE  /\ LineOf(d, t, n) \in Seq(Items)
         /\ Len(LineOf(d, t, n)) = n
         /\ \A i \in 1..n : LineOf(d, t, n)[i] = d[At(t, i - 1)]
<1>1. n \in Nat
  BY QueueAssumption
<1>2. ASSUME NEW i \in 1..n
      PROVE  /\ (t + (i - 1)) % Capacity = At(t, i - 1)
             /\ At(t, i - 1) \in Slots
  <2>1. i - 1 \in 0..Capacity
    BY QueueAssumption
  <2> QED
    BY <2>1, IndexIsAt
<1>3. \A i \in 1..n : LineOf(d, t, n)[i] = d[At(t, i - 1)]
  BY <1>2 DEF LineOf
<1>4. LineOf(d, t, n) \in [1..n -> Items]
  BY <1>2 DEF LineOf
<1>5. LineOf(d, t, n) \in Seq(Items)
  BY <1>1, <1>4, SeqDef
<1>6. Len(LineOf(d, t, n)) = n
  BY <1>1, <1>4, <1>5, LenProperties
<1> QED
  BY <1>3, <1>5, <1>6

\* The line that the ring stands for
LEMMA LineIs ==
  ASSUME RingInv, RingInv'
  PROVE  /\ Count = CountOf(head, tail, full) /\ Count \in 0..Capacity
         /\ Count' = CountOf(head', tail', full') /\ Count' \in 0..Capacity
         /\ Line \in Seq(Items) /\ Len(Line) = Count
         /\ Line' \in Seq(Items) /\ Len(Line') = Count'
         /\ \A i \in 1..Count : Line[i] = data[At(tail, i - 1)]
         /\ \A i \in 1..Count' : Line'[i] = data'[At(tail', i - 1)]
<1>1. ASSUME NEW h \in Slots, NEW t \in Slots, NEW f \in BOOLEAN
      PROVE  CountOf(h, t, f) \in 0..Capacity
  BY ApartBounds, QueueAssumption DEF CountOf
<1>2. Count = CountOf(head, tail, full)
  BY CountIs, Zenon DEF Count, IsEmpty, RingInv, QueueTypeOK, FullWhenMet
<1>3. Count' = CountOf(head', tail', full')
  BY CountIs, Zenon DEF Count, IsEmpty, RingInv, QueueTypeOK, FullWhenMet
<1>4. Line = LineOf(data, tail, Count) /\ Line' = LineOf(data', tail', Count')
  BY Zenon DEF Line, Index, LineOf
<1>5. Count \in 0..Capacity /\ Count' \in 0..Capacity
  BY <1>1, <1>2, <1>3, Zenon DEF RingInv, QueueTypeOK
<1>6. /\ Line \in Seq(Items) /\ Len(Line) = Count
      /\ \A i \in 1..Count : Line[i] = data[At(tail, i - 1)]
  BY <1>4, <1>5, LineOfFacts, Zenon DEF RingInv, QueueTypeOK
<1>7. /\ Line' \in Seq(Items) /\ Len(Line') = Count'
      /\ \A i \in 1..Count' : Line'[i] = data'[At(tail', i - 1)]
  BY <1>4, <1>5, LineOfFacts, Zenon DEF RingInv, QueueTypeOK
<1> QED
  BY <1>2, <1>3, <1>5, <1>6, <1>7

-----------------------------------------------------------------------------
(* Each method does to the line what BoundedFifo says.                     *)

\* Write adds an item at the end of the line.
LEMMA WriteRefines ==
  ASSUME RingInv, RingInv', NEW v \in Items, Write(v)
  PROVE  Fifo!Write(v)
<1> USE DEF RingInv, QueueTypeOK
<1>1. /\ Count \in 0..Capacity /\ Count' \in 0..Capacity
      /\ Line' \in Seq(Items) /\ Len(Line') = Count'
  BY LineIs
<1>2. Line \in Seq(Items) /\ Len(Line) = Count
  BY LineIs
<1>3. CASE full
  <2>1. Count = Capacity /\ answer' = 0 /\ Line' = Line
    <3>1. Count = Capacity
      BY <1>3, LineIs, Zenon DEF CountOf
    <3>2. UNCHANGED <<data, head, tail, full>> /\ answer' = 0
      BY <1>3, Zenon DEF Write
    <3> QED
      BY <3>1, <3>2 DEF Line, Count, IsEmpty, Index
  <2> QED
    BY <1>2, <2>1 DEF Fifo!Write
<1>4. CASE ~full
  <2>1. /\ answer' = 1 /\ data' = [data EXCEPT ![head] = v]
        /\ head' = After(head) /\ tail' = tail
    BY <1>4, Zenon DEF Write
  <2>2. Count = Apart(head, tail)
    BY <1>4, LineIs, Zenon DEF CountOf
  <2>3. Count' = Count + 1
    <3>1. CASE After(head) = tail
      <4>1. full' = TRUE
        BY <1>4, <3>1, Zenon DEF Write
      <4>2. Count' = Capacity
        BY <4>1, LineIs, Zenon DEF CountOf
      <4> QED
        BY <2>2, <3>1, <4>2, WriteMoves, QueueAssumption
    <3>2. CASE After(head) # tail
      <4>1. full' = FALSE
        BY <1>4, <3>2, Zenon DEF Write
      <4>2. Count' = Apart(head', tail')
        BY <4>1, LineIs, Zenon DEF CountOf
      <4> QED
        BY <2>1, <2>2, <3>2, <4>2, WriteMoves
    <3> QED
      BY <3>1, <3>2
  <2>4. Line' \in Seq(Items) /\ Len(Line') = Count + 1
    BY <1>1, <2>3
  <2>5. Append(Line, v) \in Seq(Items) /\ Len(Append(Line, v)) = Count + 1
    BY <1>2, AppendProperties
  <2>6. ASSUME NEW i \in 1..(Count + 1) PROVE Line'[i] = Append(Line, v)[i]
    <3>1. Line'[i] = data'[At(tail, i - 1)]
      BY <2>1, <2>3, LineIs
    <3>2. CASE i = Count + 1
      <4>1. At(tail, i - 1) = head
        BY <1>1, <2>2, <3>2, ApartBounds
      <4>2. Append(Line, v)[i] = v
        BY <1>2, <3>2, AppendProperties
      <4> QED
        BY <2>1, <3>1, <4>1, <4>2
    <3>3. CASE i # Count + 1
      <4>1. i \in 1..Count /\ i - 1 \in 0..(Capacity - 1) /\ Count \in 0..(Capacity - 1)
        BY <1>1, <2>3, <3>3, QueueAssumption
      <4>2. At(tail, i - 1) # At(tail, Count)
        BY <4>1, PlacesDiffer
      <4>3. At(tail, Count) = head
        BY <2>2, ApartBounds
      <4>4. At(tail, i - 1) \in Slots
        BY <4>1, IndexIsAt, QueueAssumption
      <4>5. Line'[i] = data[At(tail, i - 1)]
        BY <2>1, <3>1, <4>2, <4>3, <4>4
      <4>6. Line[i] = data[At(tail, i - 1)]
        BY <4>1, LineIs
      <4>7. Append(Line, v)[i] = Line[i]
        BY <1>2, <4>1, AppendProperties
      <4> QED
        BY <4>5, <4>6, <4>7
    <3> QED
      BY <3>2, <3>3
  <2>7. Line' = Append(Line, v)
    BY <2>4, <2>5, <2>6, SeqEqual
  <2>8. Len(Line) # Capacity
    BY <1>1, <1>2, <2>3
  <2> QED
    BY <2>1, <2>7, <2>8 DEF Fifo!Write
<1> QED
  BY <1>3, <1>4

\* The read index moves and Full is cleared: Read, and Remove of the first item.
LEMMA FirstGoes ==
  ASSUME RingInv, RingInv', Count # 0, tail' = After(tail), full' = FALSE, head' = head
  PROVE  /\ Count' = Count - 1
         /\ \A i \in 1..Count' : Line'[i] = data'[At(tail, i)]
<1> USE DEF RingInv, QueueTypeOK, FullWhenMet
<1>1. Count' = Apart(head, After(tail))
  BY LineIs, Zenon DEF CountOf
<1>2. Count' = Count - 1
  <2>1. CASE full
    <3>1. Count = Capacity /\ head = tail
      BY <2>1, LineIs, Zenon DEF CountOf
    <3> QED
      BY <1>1, <3>1, ReadMoves, QueueAssumption
  <2>2. CASE ~full
    <3>1. Count = Apart(head, tail)
      BY <2>2, LineIs, Zenon DEF CountOf
    <3>2. head # tail
      BY <3>1, ApartBounds
    <3> QED
      BY <1>1, <3>1, <3>2, ReadMoves
  <2> QED
    BY <2>1, <2>2
<1>3. ASSUME NEW i \in 1..Count' PROVE Line'[i] = data'[At(tail, i)]
  <2>1. i - 1 \in 0..(Capacity - 1) /\ (i - 1) + 1 = i
    BY <1>2, LineIs, QueueAssumption
  <2>2. At(After(tail), i - 1) = At(tail, i)
    BY <2>1, ReadMoves
  <2> QED
    BY <2>2, LineIs
<1> QED
  BY <1>2, <1>3

\* An empty ring stands for an empty line.
LEMMA EmptyLine ==
  ASSUME RingInv, RingInv'
  PROVE  /\ IsEmpty <=> Count = 0
         /\ Line = <<>> <=> Count = 0
         /\ Line' = <<>> <=> Count' = 0
<1>1. IsEmpty => Count = 0
  BY DEF Count
<1>2. Count = 0 => IsEmpty
  <2>1. CASE full
    BY <2>1, LineIs, QueueAssumption DEF CountOf
  <2>2. CASE ~full
    <3>1. Count = Apart(head, tail)
      BY <2>2, LineIs, Zenon DEF CountOf, RingInv, QueueTypeOK
    <3>2. Count = 0 => head = tail
      BY <3>1, ApartBounds DEF RingInv, QueueTypeOK
    <3> QED
      BY <2>2, <3>2, Zenon DEF IsEmpty
  <2> QED
    BY <2>1, <2>2
<1>3. \A s \in Seq(Items) : s = <<>> <=> Len(s) = 0
  BY EmptySeq
<1> QED
  BY <1>1, <1>2, <1>3, LineIs

\* Read takes the first item off the line.
LEMMA ReadRefines ==
  ASSUME RingInv, RingInv', Read
  PROVE  Fifo!Read
<1>1. CASE IsEmpty
  <2>1. UNCHANGED <<data, head, tail, full>> /\ answer' = Nothing
    BY <1>1, Zenon DEF Read
  <2>2. Line' = Line
    BY <2>1 DEF Line, Count, IsEmpty, Index
  <2>3. Line = <<>>
    BY <1>1, EmptyLine
  <2> QED
    BY <2>1, <2>2, <2>3, Zenon DEF Fifo!Read
<1>2. CASE ~IsEmpty
  <2>1. /\ answer' = data[tail] /\ tail' = After(tail)
        /\ full' = FALSE /\ data' = data /\ head' = head
    BY <1>2, Zenon DEF Read
  <2>2. Count # 0 /\ Line # <<>>
    BY <1>2, EmptyLine
  <2>3. answer' = Line[1]
    <3>1. At(tail, 0) = tail
      BY QueueAssumption DEF At, RingInv, QueueTypeOK, Slots
    <3>2. 1 \in 1..Count /\ 1 - 1 = 0
      BY <2>2, LineIs
    <3> QED
      BY <2>1, <3>1, <3>2, LineIs
  <2>4. Line' = Tail(Line)
    <3>1. /\ Tail(Line) \in Seq(Items) /\ Len(Tail(Line)) = Count - 1
          /\ \A i \in 1..(Count - 1) : Tail(Line)[i] = Line[i + 1]
      BY <2>2, LineIs, HeadTailProperties
    <3>2. Count' = Count - 1
      BY <2>1, <2>2, FirstGoes
    <3>3. ASSUME NEW i \in 1..Count' PROVE Line'[i] = Tail(Line)[i]
      <4>1. i + 1 \in 1..Count /\ (i + 1) - 1 = i
        BY <3>2, LineIs
      <4>2. Line[i + 1] = data[At(tail, i)]
        BY <4>1, LineIs
      <4>3. Line'[i] = data[At(tail, i)]
        BY <2>1, <2>2, FirstGoes
      <4> QED
        BY <3>1, <3>2, <4>2, <4>3
    <3> QED
      BY <3>1, <3>2, <3>3, LineIs, SeqEqual
  <2> QED
    BY <2>2, <2>3, <2>4, Zenon DEF Fifo!Read
<1> QED
  BY <1>1, <1>2

\* Removing the first item moves the read index, removing the last one moves
\* the write index back, and any other is overwritten by shifting the items
\* before it: the line is the same without it.
LEMMA RemoveShortens ==
  ASSUME RingInv, RingInv', NEW n \in Nat, Remove(n), n < Count
  PROVE  /\ Count' = Count - 1
         /\ \A i \in 1..Count' : Line'[i] = IF i <= n THEN Line[i] ELSE Line[i + 1]
         /\ answer' = 1
<1> USE DEF RingInv, QueueTypeOK, FullWhenMet
<1>1. Count \in 0..Capacity /\ Count # 0 /\ ~(n >= Count)
  BY LineIs
<1>2. answer' = 1 /\ full' = FALSE
  BY <1>1, Zenon DEF Remove
<1>3. CASE n = 0
  <2>1. data' = data /\ head' = head /\ tail' = After(tail)
    BY <1>1, <1>3 DEF Remove
  <2>2. Count' = Count - 1 /\ \A i \in 1..Count' : Line'[i] = data[At(tail, i)]
    BY <1>1, <1>2, <2>1, FirstGoes
  <2>3. ASSUME NEW i \in 1..Count' PROVE Line'[i] = Line[i + 1] /\ ~(i <= n)
    <3>1. i + 1 \in 1..Count /\ (i + 1) - 1 = i /\ ~(i <= n)
      BY <1>1, <1>3, <2>2
    <3>2. Line[i + 1] = data[At(tail, i)]
      BY <3>1, LineIs
    <3> QED
      BY <2>2, <3>1, <3>2
  <2> QED
    BY <1>2, <2>2, <2>3
<1>4. CASE n # 0 /\ n = Count - 1
  <2>1. data' = data /\ head' = Before(head) /\ tail' = tail
    BY <1>1, <1>4 DEF Remove, Before
  <2>2. Count' = Apart(Before(head), tail)
    BY <1>2, <2>1, LineIs, Zenon DEF CountOf
  <2>3. Count' = Count - 1
    <3>1. CASE full
      <4>1. Count = Capacity /\ head = tail
        BY <3>1, LineIs, Zenon DEF CountOf
      <4> QED
        BY <2>2, <4>1, WriteMovesBack
    <3>2. CASE ~full
      <4>1. Count = Apart(head, tail)
        BY <3>2, LineIs, Zenon DEF CountOf
      <4>2. head # tail
        BY <1>1, <4>1, ApartBounds
      <4> QED
        BY <2>2, <4>1, <4>2, WriteMovesBack
    <3> QED
      BY <3>1, <3>2
  <2>4. ASSUME NEW i \in 1..Count' PROVE Line'[i] = Line[i] /\ i <= n
    <3>1. i \in 1..Count /\ i <= n
      BY <1>1, <1>4, <2>3
    <3> QED
      BY <2>1, <3>1, LineIs
  <2> QED
    BY <1>2, <2>3, <2>4
<1>5. CASE n # 0 /\ n # Count - 1
  <2>1. data' = Shifted(n) /\ head' = head /\ tail' = After(tail)
    BY <1>1, <1>5 DEF Remove
  <2>2. Count' = Count - 1 /\ \A i \in 1..Count' : Line'[i] = data'[At(tail, i)]
    BY <1>1, <1>2, <2>1, FirstGoes
  <2>3. ASSUME NEW i \in 1..Count'
        PROVE  Line'[i] = IF i <= n THEN Line[i] ELSE Line[i + 1]
    <3>1. /\ i \in 0..(Capacity - 1) /\ i \in 0..Capacity /\ i > 0
          /\ i \in 1..Count /\ i + 1 \in 1..Count /\ (i + 1) - 1 = i
          /\ n \in 0..(Capacity - 1)
      BY <1>1, <2>2, QueueAssumption
    <3>2. At(tail, i) \in Slots
      BY <3>1, IndexIsAt
    <3>3. Line[i] = data[At(tail, i - 1)] /\ Line[i + 1] = data[At(tail, i)]
      BY <3>1, LineIs
    <3>4. ASSUME NEW j \in 1..n PROVE At(tail, i) = Index(j) <=> i = j
      <4>1. j \in 0..(Capacity - 1) /\ j \in 0..Capacity
        BY <3>1, QueueAssumption
      <4>2. Index(j) = At(tail, j)
        BY <4>1, IndexIsAt DEF Index
      <4> QED
        BY <3>1, <4>1, <4>2, PlacesDiffer
    <3>5. (\E j \in 1..n : At(tail, i) = Index(j)) <=> i <= n
      BY <3>1, <3>4
    <3>6. Line'[i] = IF i <= n THEN data[(At(tail, i) + Capacity - 1) % Capacity]
                               ELSE data[At(tail, i)]
      BY <2>1, <2>2, <3>2, <3>5, Zenon DEF Shifted
    <3>7. (At(tail, i) + Capacity - 1) % Capacity = At(tail, i - 1)
      BY <3>1, PlacesDiffer
    <3> QED
      BY <3>3, <3>6, <3>7
  <2> QED
    BY <1>2, <2>2, <2>3
<1> QED
  BY <1>3, <1>4, <1>5

\* Removing a slot takes its item out of the line.
LEMMA RemoveRefines ==
  ASSUME RingInv, RingInv', NEW n \in Nat, Remove(n)
  PROVE  Fifo!Remove(n)
<1>1. Count \in 0..Capacity /\ Len(Line) = Count /\ Line \in Seq(Items)
  BY LineIs
<1>2. CASE n < Count
  <2> DEFINE short == [i \in 1..(Len(Line) - 1) |-> IF i <= n THEN Line[i] ELSE Line[i + 1]]
  <2>1. /\ Count' = Count - 1
        /\ \A i \in 1..Count' : Line'[i] = IF i <= n THEN Line[i] ELSE Line[i + 1]
        /\ answer' = 1
    BY <1>2, RemoveShortens
  <2>2. Line' \in [1..(Count - 1) -> Items]
    BY <2>1, LineIs, LenProperties
  <2>3. Line' = short
    BY <1>1, <2>1, <2>2
  <2> QED
    BY <1>1, <1>2, <2>1, <2>3 DEF Fifo!Remove
<1>3. CASE ~(n < Count)
  <2>1. UNCHANGED <<data, head, tail, full>> /\ answer' = 0
    BY <1>3, Zenon DEF Remove
  <2>2. Line' = Line
    BY <2>1 DEF Line, Count, IsEmpty, Index
  <2> QED
    BY <1>1, <1>3, <2>1, <2>2 DEF Fifo!Remove
<1> QED
  BY <1>2, <1>3

\* Where an item of the ring is in the line
LEMMA PlaceOfItem ==
  ASSUME RingInv, RingInv', NEW k \in 0..(Count - 1)
  PROVE  Line[k + 1] = data[Index(k)]
<1>1. k + 1 \in 1..Count /\ (k + 1) - 1 = k /\ k \in 0..Capacity
  BY LineIs, QueueAssumption
<1>2. Index(k) = At(tail, k)
  BY <1>1, IndexIsAt DEF Index, RingInv, QueueTypeOK
<1> QED
  BY <1>1, <1>2, LineIs

\* RemoveFirst takes out the first item that is equal.
LEMMA RemoveFirstRefines ==
  ASSUME RingInv, RingInv', NEW v \in Items, RemoveFirst(v)
  PROVE  Fifo!RemoveFirst(v)
<1>1. Count \in 0..Capacity /\ Len(Line) = Count
  BY LineIs
<1>2. ASSUME NEW n \in Slots, n < Count, data[Index(n)] = v,
             \A i \in 0..(n - 1) : data[Index(i)] # v, Remove(n)
      PROVE  Fifo!RemoveFirst(v)
  <2>1. n \in Nat /\ n \in 0..(Capacity - 1) /\ n < Len(Line)
    BY <1>1, <1>2, QueueAssumption DEF Slots
  <2>2. Fifo!Remove(n)
    BY <1>2, <2>1, RemoveRefines
  <2>3. Line[n + 1] = v
    BY <1>1, <1>2, <2>1, PlaceOfItem
  <2>4. ASSUME NEW i \in 1..n PROVE Line[i] # v
    <3>1. i - 1 \in 0..(Count - 1) /\ i - 1 \in 0..(n - 1) /\ (i - 1) + 1 = i
      BY <1>1, <1>2, <2>1
    <3>2. Line[i] = data[Index(i - 1)]
      BY <3>1, PlaceOfItem
    <3> QED
      BY <1>2, <3>1, <3>2
  <2> QED
    BY <2>1, <2>2, <2>3, <2>4 DEF Fifo!RemoveFirst
<1>3. ASSUME \A n \in 0..(Count - 1) : data[Index(n)] # v, answer' = 0,
             UNCHANGED <<data, head, tail, full>>
      PROVE  Fifo!RemoveFirst(v)
  <2>1. Line' = Line
    BY <1>3 DEF Line, Count, IsEmpty, Index
  <2>2. ASSUME NEW i \in 1..Len(Line) PROVE Line[i] # v
    <3>1. i - 1 \in 0..(Count - 1) /\ (i - 1) + 1 = i
      BY <1>1
    <3>2. Line[i] = data[Index(i - 1)]
      BY <3>1, PlaceOfItem
    <3> QED
      BY <1>3, <3>1, <3>2
  <2> QED
    BY <1>3, <2>1, <2>2 DEF Fifo!RemoveFirst
<1> QED
  BY <1>2, <1>3, Zenon DEF RemoveFirst

\* A replacement looks at no item of a full ring and at all of any other.
LEMMA VisitedPlaces ==
  ASSUME RingInv, RingInv'
  PROVE  /\ Fifo!Searched = IF full THEN {} ELSE 1..Count
         /\ Visited = IF full THEN {} ELSE {Index(k) : k \in 0..(Count - 1)}
<1>1. Count \in 0..Capacity /\ Len(Line) = Count
  BY LineIs
<1>2. ASSUME full PROVE Count = Capacity /\ Visited = {}
  <2>1. Visited = {Index(k) : k \in 0..(0 - 1)}
    BY <1>2, Zenon DEF Visited
  <2>2. Count = Capacity
    BY <1>2, LineIs, Zenon DEF CountOf
  <2> QED
    BY <2>1, <2>2
<1>3. ASSUME ~full PROVE Count # Capacity /\ Visited = {Index(k) : k \in 0..(Count - 1)}
  <2>1. Visited = {Index(k) : k \in 0..(Count - 1)}
    BY <1>3, Zenon DEF Visited
  <2>2. Count = Apart(head, tail)
    BY <1>3, LineIs, Zenon DEF CountOf
  <2> QED
    BY <2>1, <2>2, ApartBounds, QueueAssumption DEF RingInv, QueueTypeOK
<1>4. Fifo!Searched = IF Count = Capacity THEN {} ELSE 1..Count
  BY <1>1, Zenon DEF Fifo!Searched
<1> QED
  BY <1>2, <1>3, <1>4, Zenon

\* ReplaceAll changes the items of the line that it visits.
LEMMA ReplaceAllRefines ==
  ASSUME RingInv, RingInv', NEW v \in Items, NEW w \in Items, ReplaceAll(v, w)
  PROVE  Fifo!ReplaceAll(v, w)
<1> USE DEF RingInv, QueueTypeOK
<1> DEFINE all == [i \in 1..Len(Line) |->
                     IF i \in Fifo!Searched /\ Line[i] = v THEN w ELSE Line[i]]
<1>1. Count \in 0..Capacity /\ Len(Line) = Count
  BY LineIs
<1>2. UNCHANGED <<head, tail, full>> /\ Count' = Count
  BY DEF ReplaceAll, Count, IsEmpty
<1>3. ASSUME NEW i \in 1..Count
      PROVE  Line'[i] = IF i \in Fifo!Searched /\ Line[i] = v THEN w ELSE Line[i]
  <2>1. /\ i - 1 \in 0..Capacity /\ i - 1 \in 0..(Count - 1)
        /\ At(tail, i - 1) = Index(i - 1) /\ At(tail, i - 1) \in Slots
    BY <1>1, IndexIsAt, QueueAssumption DEF Index
  <2>2. Line[i] = data[At(tail, i - 1)] /\ Line'[i] = data'[At(tail, i - 1)]
    BY <1>2, LineIs
  <2>3. Line'[i] = IF At(tail, i - 1) \in Visited /\ Line[i] = v THEN w ELSE Line[i]
    BY <2>1, <2>2 DEF ReplaceAll
  <2>4. At(tail, i - 1) \in Visited <=> i \in Fifo!Searched
    <3>1. CASE full
      BY <3>1, VisitedPlaces
    <3>2. CASE ~full
      <4>1. Fifo!Searched = 1..Count /\ Visited = {Index(k) : k \in 0..(Count - 1)}
        BY <3>2, VisitedPlaces, Zenon
      <4> QED
        BY <2>1, <4>1
    <3> QED
      BY <3>1, <3>2
  <2> QED
    BY <2>3, <2>4
<1>4. Line' \in [1..Count -> Items]
  BY <1>2, LineIs, LenProperties
<1>5. Line' = all
  BY <1>1, <1>3, <1>4
<1> QED
  BY <1>5 DEF Fifo!ReplaceAll

\* ReplaceFirst changes the first item that is equal among those it visits.
LEMMA ReplaceFirstRefines ==
  ASSUME RingInv, RingInv', NEW v \in Items, NEW w \in Items, ReplaceFirst(v, w)
  PROVE  Fifo!ReplaceFirst(v, w)
<1> USE DEF RingInv, QueueTypeOK
<1>1. Count \in 0..Capacity /\ Len(Line) = Count
  BY LineIs
<1>2. ASSUME NEW n \in Slots, n < Count, ~full, data[Index(n)] = v,
             \A i \in 0..(n - 1) : data[Index(i)] # v,
             data' = [data EXCEPT ![Index(n)] = w], answer' = 1,
             UNCHANGED <<head, tail, full>>
      PROVE  Fifo!ReplaceFirst(v, w)
  <2>1. n + 1 \in 1..Count /\ n + 1 \in Fifo!Searched /\ n \in 0..(Capacity - 1)
    BY <1>1, <1>2, VisitedPlaces, QueueAssumption DEF Slots
  <2>2. Line[n + 1] = v
    BY <1>1, <1>2, <2>1, PlaceOfItem
  <2>3. ASSUME NEW i \in 1..n PROVE Line[i] # v
    <3>1. i - 1 \in 0..(Count - 1) /\ i - 1 \in 0..(n - 1) /\ (i - 1) + 1 = i
      BY <1>1, <1>2, <2>1
    <3>2. Line[i] = data[Index(i - 1)]
      BY <3>1, PlaceOfItem
    <3> QED
      BY <1>2, <3>1, <3>2
  <2>4. Count' = Count
    BY <1>2 DEF Count, IsEmpty
  <2>5. At(tail, n) = Index(n) /\ At(tail, n) \in Slots
    <3>1. n \in 0..Capacity
      BY <2>1, QueueAssumption
    <3> QED
      BY <3>1, IndexIsAt, Zenon DEF Index
  <2>6. ASSUME NEW i \in 1..Count
        PROVE  Line'[i] = IF i = n + 1 THEN w ELSE Line[i]
    <3>1. i - 1 \in 0..(Capacity - 1) /\ i - 1 \in 0..Capacity
      BY <1>1, QueueAssumption
    <3>2. Line[i] = data[At(tail, i - 1)] /\ Line'[i] = data'[At(tail, i - 1)]
      BY <1>2, <2>4, LineIs
    <3>3. CASE i = n + 1
      BY <1>2, <2>1, <2>5, <3>2, <3>3
    <3>4. CASE i # n + 1
      <4>1. At(tail, i - 1) # At(tail, n)
        BY <2>1, <3>1, <3>4, PlacesDiffer
      <4>2. At(tail, i - 1) \in Slots
        BY <3>1, IndexIsAt
      <4> QED
        BY <1>2, <2>5, <3>2, <3>4, <4>1, <4>2
    <3> QED
      BY <3>3, <3>4
  <2>7. Line \in [1..Count -> Items] /\ Line' \in [1..Count -> Items]
    BY <1>1, <2>4, LineIs, LenProperties
  <2>8. Line' = [Line EXCEPT ![n + 1] = w]
    BY <2>1, <2>6, <2>7
  <2>9. \A i \in 1..((n + 1) - 1) : Line[i] # v
    BY <2>1, <2>3
  <2> QED
    BY <1>2, <2>1, <2>2, <2>8, <2>9 DEF Fifo!ReplaceFirst
<1>3. ASSUME \A s \in Visited : data[s] # v, answer' = 0,
             UNCHANGED <<data, head, tail, full>>
      PROVE  Fifo!ReplaceFirst(v, w)
  <2>1. Line' = Line
    BY <1>3 DEF Line, Count, IsEmpty, Index
  <2>2. ASSUME NEW i \in Fifo!Searched PROVE Line[i] # v
    <3>1. ~full /\ i \in 1..Count
      BY <2>2, VisitedPlaces
    <3>2. i - 1 \in 0..(Count - 1) /\ (i - 1) + 1 = i
      BY <1>1, <3>1
    <3>3. Line[i] = data[Index(i - 1)]
      BY <3>2, PlaceOfItem
    <3>4. Visited = {Index(k) : k \in 0..(Count - 1)}
      BY <3>1, VisitedPlaces
    <3>5. Index(i - 1) \in Visited
      BY <3>2, <3>4
    <3> QED
      BY <1>3, <3>3, <3>5
  <2> QED
    BY <1>3, <2>1, <2>2 DEF Fifo!ReplaceFirst
<1> QED
  BY <1>2, <1>3, Zenon DEF ReplaceFirst

\* Clear empties the line.
LEMMA ClearRefines ==
  ASSUME RingInv, RingInv', Clear
  PROVE  Fifo!Clear
<1>1. Count' = 0
  BY Zenon DEF Clear, Count, IsEmpty
<1> QED
  BY <1>1, EmptyLine, Zenon DEF Clear, Fifo!Clear

\* The initial ring is an empty line.
LEMMA RingInitRefines == QueueInit => Fifo!Init
<1> SUFFICES ASSUME QueueInit PROVE Fifo!Init
  OBVIOUS
<1>1. Count = 0
  BY Zenon DEF QueueInit, Count, IsEmpty
<1>2. Line = <<>>
  BY <1>1 DEF Line
<1> QED
  BY <1>2 DEF QueueInit, Fifo!Init

-----------------------------------------------------------------------------
\* Every operation of the ring is one of the line.
LEMMA RingStepRefines ==
  RingInv /\ RingInv' /\ [QueueNext]_queueVars => [Fifo!Next]_(Fifo!vars)
<1> SUFFICES ASSUME RingInv, RingInv', [QueueNext]_queueVars PROVE [Fifo!Next]_(Fifo!vars)
  OBVIOUS
<1>1. ASSUME NEW v \in Items, Write(v), call' = <<"Write", v>> PROVE Fifo!Next
  BY <1>1, WriteRefines DEF Fifo!Next
<1>2. ASSUME NEW v \in Items, RemoveFirst(v), call' = <<"RemoveFirst", v>>
      PROVE  Fifo!Next
  BY <1>2, RemoveFirstRefines DEF Fifo!Next
<1>3. ASSUME Read, call' = <<"Read">> PROVE Fifo!Next
  BY <1>3, ReadRefines DEF Fifo!Next
<1>4. ASSUME NEW n \in 0..Capacity, Remove(n), call' = <<"Remove", n>>
      PROVE  Fifo!Next
  <2>1. n \in Nat
    BY QueueAssumption
  <2> QED
    BY <1>4, <2>1, RemoveRefines DEF Fifo!Next
<1>5. ASSUME NEW v \in Items, NEW w \in Items, ReplaceAll(v, w),
             call' = <<"ReplaceAll", v, w>>, answer' = answer
      PROVE  Fifo!Next
  BY <1>5, ReplaceAllRefines DEF Fifo!Next
<1>6. ASSUME Clear, call' = <<"Clear">> PROVE Fifo!Next
  BY <1>6, ClearRefines DEF Fifo!Next
<1>7. ASSUME UNCHANGED queueVars PROVE UNCHANGED Fifo!vars
  BY <1>7 DEF queueVars, Fifo!vars, Line, Count, IsEmpty, Index
<1>8. ASSUME NEW v \in Items, NEW w \in Items, ReplaceFirst(v, w),
             call' = <<"ReplaceFirst", v, w>>
      PROVE  Fifo!Next
  BY <1>8, ReplaceFirstRefines DEF Fifo!Next
<1> QED
  BY <1>1, <1>2, <1>3, <1>4, <1>5, <1>6, <1>7, <1>8, Zenon DEF QueueNext

\* Queue<T> is a bounded first-in first-out line, for every capacity and every
\* type of item, wherever the indices wrap: each method of queue.h changes the
\* items between Tail and Head as BoundedFifo changes its line, and returns the
\* same.
THEOREM RingRefines == QueueSpec => ImplementsBoundedFifo
<1>1. QueueInit => Fifo!Init
  BY RingInitRefines
<1>2. RingInv /\ RingInv' /\ [QueueNext]_queueVars => [Fifo!Next]_(Fifo!vars)
  BY RingStepRefines
<1> QED
  BY <1>1, <1>2, RingInit, RingStep, PTL
     DEF QueueSpec, ImplementsBoundedFifo, Fifo!Spec

-----------------------------------------------------------------------------
(* Lists without repetitions: of threads, and of windows.                  *)

\* What is on a list
LEMMA RangeIs ==
  ASSUME NEW S, NEW q \in Seq(S)
  PROVE  /\ DOMAIN q = 1..Len(q) /\ Len(q) \in Nat
         /\ Range(q) = {q[i] : i \in 1..Len(q)}
         /\ Range(q) \subseteq S
         /\ q = <<>> <=> Range(q) = {}
<1>1. DOMAIN q = 1..Len(q) /\ Len(q) \in Nat /\ \A i \in 1..Len(q) : q[i] \in S
  BY LenProperties, ElementOfSeq
<1>2. Range(q) = {q[i] : i \in 1..Len(q)}
  BY <1>1 DEF Range
<1>3. q = <<>> <=> Len(q) = 0
  BY EmptySeq, LenProperties
<1>4. Len(q) # 0 => q[1] \in Range(q)
  BY <1>1, <1>2
<1> QED
  BY <1>1, <1>2, <1>3, <1>4

\* In a list without repetitions an item has one position.
LEMMA PositionIs ==
  ASSUME NEW S, NEW q \in Seq(S), NEW x \in Range(q)
  PROVE  /\ Position(q, x) \in 1..Len(q) /\ q[Position(q, x)] = x
         /\ IsInjective(q) => \A i \in 1..Len(q) : q[i] = x => i = Position(q, x)
<1>1. DOMAIN q = 1..Len(q)
  BY RangeIs
<1>2. \E i \in DOMAIN q : q[i] = x
  BY DEF Range
<1>3. Position(q, x) \in 1..Len(q) /\ q[Position(q, x)] = x
  BY <1>1, <1>2, Zenon DEF Position
<1> QED
  BY <1>1, <1>3 DEF IsInjective

\* Appending an item that is not on the list.
LEMMA AppendedOnce ==
  ASSUME NEW S, NEW q \in Seq(S), NEW x \in S, IsInjective(q), x \notin Range(q)
  PROVE  /\ Append(q, x) \in Seq(S) /\ IsInjective(Append(q, x))
         /\ Range(Append(q, x)) = Range(q) \cup {x}
<1> DEFINE r == Append(q, x)
<1>1. r \in Seq(S) /\ Len(r) = Len(q) + 1 /\ r[Len(q) + 1] = x
      /\ \A i \in 1..Len(q) : r[i] = q[i]
  BY AppendProperties
<1>2. Len(q) \in Nat /\ DOMAIN q = 1..Len(q) /\ DOMAIN r = 1..(Len(q) + 1)
      /\ Range(q) = {q[i] : i \in 1..Len(q)} /\ Range(r) = {r[i] : i \in 1..Len(r)}
  BY <1>1, RangeIs
<1> HIDE DEF r
<1>3. Range(r) = Range(q) \cup {x}
  BY <1>1, <1>2
<1>4. ASSUME NEW i \in 1..(Len(q) + 1), NEW j \in 1..(Len(q) + 1), r[i] = r[j]
      PROVE  i = j
  <2>1. \A k \in 1..Len(q) : r[k] = q[k] /\ q[k] # x
    BY <1>1, <1>2
  <2>2. \A k \in 1..Len(q), l \in 1..Len(q) : q[k] = q[l] => k = l
    BY <1>2 DEF IsInjective
  <2> QED
    BY <1>1, <1>2, <1>4, <2>1, <2>2
<1>5. IsInjective(r)
  BY <1>2, <1>4 DEF IsInjective
<1> QED
  BY <1>1, <1>3, <1>5 DEF r

\* Taking the head off the list.
LEMMA TailOnce ==
  ASSUME NEW S, NEW q \in Seq(S), q # <<>>, IsInjective(q)
  PROVE  /\ Tail(q) \in Seq(S) /\ IsInjective(Tail(q)) /\ Head(q) \in Range(q)
         /\ Range(Tail(q)) = Range(q) \ {Head(q)}
<1> DEFINE r == Tail(q)
<1>1. r \in Seq(S) /\ Len(r) = Len(q) - 1 /\ \A i \in 1..Len(r) : r[i] = q[i + 1]
  BY HeadTailProperties
<1>2. Len(q) \in Nat /\ Len(q) # 0 /\ Head(q) = q[1]
  BY EmptySeq, HeadTailProperties, LenProperties
<1>3. DOMAIN q = 1..Len(q) /\ DOMAIN r = 1..Len(r)
      /\ Range(q) = {q[i] : i \in 1..Len(q)} /\ Range(r) = {r[i] : i \in 1..Len(r)}
  BY <1>1, RangeIs
<1> HIDE DEF r
<1>4. \A i \in 1..Len(q), j \in 1..Len(q) : q[i] = q[j] => i = j
  BY <1>3 DEF IsInjective
<1>5. IsInjective(r)
  <2>1. ASSUME NEW i \in 1..Len(r), NEW j \in 1..Len(r), r[i] = r[j] PROVE i = j
    <3>1. i + 1 \in 1..Len(q) /\ j + 1 \in 1..Len(q) /\ q[i + 1] = q[j + 1]
      BY <1>1, <1>2, <2>1
    <3>2. i + 1 = j + 1
      BY <1>4, <3>1
    <3> QED
      BY <3>2
  <2> QED
    BY <1>3, <2>1 DEF IsInjective
<1>6. ASSUME NEW x PROVE x \in Range(r) <=> x \in Range(q) /\ x # q[1]
  <2>1. ASSUME x \in Range(r) PROVE x \in Range(q) /\ x # q[1]
    <3>1. PICK i \in 1..Len(r) : x = r[i]
      BY <1>3, <2>1
    <3>2. i + 1 \in 1..Len(q) /\ x = q[i + 1] /\ i + 1 # 1 /\ 1 \in 1..Len(q)
      BY <1>1, <1>2, <3>1
    <3>3. x # q[1]
      BY <1>4, <3>2
    <3> QED
      BY <1>3, <3>2, <3>3
  <2>2. ASSUME x \in Range(q), x # q[1] PROVE x \in Range(r)
    <3>1. PICK i \in 1..Len(q) : x = q[i]
      BY <1>3, <2>2
    <3>2. i - 1 \in 1..Len(r) /\ (i - 1) + 1 = i
      BY <1>1, <1>2, <2>2, <3>1
    <3>3. r[i - 1] = x
      BY <1>1, <3>1, <3>2
    <3> QED
      BY <1>3, <3>2, <3>3
  <2> QED
    BY <2>1, <2>2
<1>7. q[1] \in Range(q)
  BY <1>2, <1>3
<1> QED
  BY <1>1, <1>2, <1>5, <1>6, <1>7 DEF r

\* What Without leaves, place by place.
LEMMA WithoutPlaces ==
  ASSUME NEW S, NEW q \in Seq(S), NEW x \in Range(q)
  PROVE  LET p == Position(q, x)
             r == Without(q, x)
         IN  /\ p \in 1..Len(q) /\ r \in Seq(S) /\ Len(r) = Len(q) - 1
             /\ \A i \in 1..Len(r) : r[i] = IF i < p THEN q[i] ELSE q[i + 1]
<1> DEFINE p == Position(q, x)
           a == SubSeq(q, 1, p - 1)
           b == SubSeq(q, p + 1, Len(q))
<1>1. Len(q) \in Nat /\ p \in 1..Len(q)
  BY PositionIs, RangeIs
<1>2. Without(q, x) = a \o b
  BY Zenon DEF Without
<1> HIDE DEF p
<1>3. a \in Seq(S) /\ Len(a) = p - 1 /\ \A i \in 1..(p - 1) : a[i] = q[i]
  <2>1. \A i \in 1..(p - 1) : i \in 1..Len(q)
    BY <1>1
  <2>2. /\ a \in Seq(S) /\ Len(a) = IF 1 <= p - 1 THEN (p - 1) - 1 + 1 ELSE 0
        /\ \A i \in 1..((p - 1) - 1 + 1) : a[i] = q[1 + i - 1]
    BY <1>1, <2>1, SubSeqProperties
  <2> QED
    BY <1>1, <2>2
<1>4. b \in Seq(S) /\ Len(b) = Len(q) - p /\ \A i \in 1..(Len(q) - p) : b[i] = q[p + i]
  <2>1. p + 1 \in 1..(Len(q) + 1)
    BY <1>1
  <2>2. /\ b \in Seq(S) /\ Len(b) = IF p + 1 <= Len(q) THEN Len(q) - (p + 1) + 1 ELSE 0
        /\ \A i \in 1..(Len(q) - (p + 1) + 1) : b[i] = q[p + 1 + i - 1]
    BY <1>1, <2>1, SubSeqProperties
  <2> QED
    BY <1>1, <2>2
<1> HIDE DEF a, b
<1>5. /\ a \o b \in Seq(S) /\ Len(a \o b) = Len(a) + Len(b)
      /\ \A i \in 1..(Len(a) + Len(b)) :
           (a \o b)[i] = IF i <= Len(a) THEN a[i] ELSE b[i - Len(a)]
  BY <1>3, <1>4, ConcatProperties
<1>6. Len(a \o b) = Len(q) - 1
  BY <1>1, <1>3, <1>4, <1>5
<1>7. ASSUME NEW i \in 1..(Len(q) - 1)
      PROVE  (a \o b)[i] = IF i < p THEN q[i] ELSE q[i + 1]
  <2>1. (a \o b)[i] = IF i <= p - 1 THEN a[i] ELSE b[i - (p - 1)]
    BY <1>1, <1>3, <1>4, <1>5
  <2>2. i < p => i \in 1..(p - 1) /\ i <= p - 1
    BY <1>1
  <2>3. ~(i < p) => i - (p - 1) \in 1..(Len(q) - p) /\ p + (i - (p - 1)) = i + 1 /\ ~(i <= p - 1)
    BY <1>1
  <2> QED
    BY <1>3, <1>4, <2>1, <2>2, <2>3
<1> QED
  BY <1>1, <1>2, <1>5, <1>6, <1>7 DEF p

\* Taking an item off the list, if it is there.
LEMMA WithoutOnce ==
  ASSUME NEW S, NEW q \in Seq(S), NEW x, IsInjective(q)
  PROVE  /\ Without(q, x) \in Seq(S) /\ IsInjective(Without(q, x))
         /\ Range(Without(q, x)) = Range(q) \ {x}
<1>1. CASE x \notin Range(q)
  <2>1. Without(q, x) = q
    BY <1>1, Zenon DEF Without
  <2> QED
    BY <1>1, <2>1
<1>2. CASE x \in Range(q)
  <2> DEFINE p == Position(q, x)
             r == Without(q, x)
  <2>1. /\ p \in 1..Len(q) /\ r \in Seq(S) /\ Len(r) = Len(q) - 1
        /\ \A i \in 1..Len(r) : r[i] = IF i < p THEN q[i] ELSE q[i + 1]
    BY <1>2, WithoutPlaces
  <2>2. q[p] = x
    BY <1>2, PositionIs
  <2>3. Len(q) \in Nat /\ DOMAIN q = 1..Len(q) /\ DOMAIN r = 1..Len(r)
        /\ Range(q) = {q[i] : i \in 1..Len(q)} /\ Range(r) = {r[i] : i \in 1..Len(r)}
    BY <2>1, RangeIs
  <2> HIDE DEF p, r
  <2>4. \A i \in 1..Len(q), j \in 1..Len(q) : q[i] = q[j] => i = j
    BY <2>3 DEF IsInjective
  <2>5. \A i \in 1..Len(r) : LET k == IF i < p THEN i ELSE i + 1
                             IN  k \in 1..Len(q) /\ k # p /\ r[i] = q[k]
    BY <2>1, <2>3
  <2>6. IsInjective(r)
    <3>1. ASSUME NEW i \in 1..Len(r), NEW j \in 1..Len(r), r[i] = r[j] PROVE i = j
      <4>1. (IF i < p THEN i ELSE i + 1) = (IF j < p THEN j ELSE j + 1)
        BY <2>4, <2>5, <3>1
      <4> QED
        BY <2>1, <2>3, <4>1
    <3> QED
      BY <2>3, <3>1 DEF IsInjective
  <2>7. ASSUME NEW y \in Range(r) PROVE y \in Range(q) /\ y # x
    <3>1. PICK i \in 1..Len(r) : y = r[i]
      BY <2>3
    <3>2. PICK k \in 1..Len(q) : k # p /\ y = q[k]
      BY <2>5, <3>1
    <3> QED
      BY <2>1, <2>2, <2>3, <2>4, <3>2
  <2>8. ASSUME NEW y \in Range(q), y # x PROVE y \in Range(r)
    <3>1. PICK k \in 1..Len(q) : y = q[k]
      BY <2>3
    <3>2. k # p
      BY <2>2, <2>8, <3>1
    <3>3. k < p => k \in 1..Len(r) /\ r[k] = y
      BY <2>1, <2>3, <3>1, <3>2
    <3>4. k > p => k - 1 \in 1..Len(r) /\ r[k - 1] = y
      <4>1. k > p => k - 1 \in 1..Len(r) /\ ~(k - 1 < p) /\ (k - 1) + 1 = k
        BY <2>1, <2>3
      <4> QED
        BY <2>1, <3>1, <4>1
    <3> QED
      BY <2>1, <2>3, <3>2, <3>3, <3>4
  <2>9. Range(r) = Range(q) \ {x}
    BY <2>7, <2>8
  <2> QED
    BY <2>1, <2>6, <2>9 DEF r
<1> QED
  BY <1>1, <1>2

-----------------------------------------------------------------------------
(* The list of windows.                                                    *)

\* The stack of windows: each one once, the desktop first, and the mouse pointer last
\* if it is there
IsStack(ws) ==
  /\ ws \in Seq(Windows) /\ Len(ws) >= 1 /\ IsInjective(ws)
  /\ ws[1] = Desktop /\ (MouseWindow \in Range(ws) => ws[Len(ws)] = MouseWindow)

\* The kernel's windows are where they belong.
LEMMA StackEnds ==
  ASSUME NEW ws, IsStack(ws)
  PROVE  /\ Len(ws) \in Nat /\ Len(ws) >= 1 /\ DOMAIN ws = 1..Len(ws)
         /\ Range(ws) = {ws[i] : i \in 1..Len(ws)} /\ Range(ws) \subseteq Windows
         /\ \A i, j \in 1..Len(ws) : ws[i] = ws[j] => i = j
         /\ Desktop \in Range(ws) /\ Position(ws, Desktop) = 1
         /\ MouseWindow \in Range(ws) =>
              /\ Len(ws) >= 2 /\ Position(ws, MouseWindow) = Len(ws)
              /\ Focus(ws) \in Range(ws) /\ Focus(ws) # MouseWindow
<1>1. ws \in Seq(Windows) /\ Len(ws) >= 1 /\ IsInjective(ws)
      /\ ws[1] = Desktop /\ (MouseWindow \in Range(ws) => ws[Len(ws)] = MouseWindow)
  BY Zenon DEF IsStack
<1>2. Len(ws) \in Nat /\ DOMAIN ws = 1..Len(ws)
      /\ Range(ws) = {ws[i] : i \in 1..Len(ws)} /\ Range(ws) \subseteq Windows
  BY <1>1, RangeIs
<1>3. \A i, j \in 1..Len(ws) : ws[i] = ws[j] => i = j
  BY <1>1, <1>2 DEF IsInjective
<1>4. 1 \in 1..Len(ws) /\ Len(ws) \in 1..Len(ws)
  BY <1>1, <1>2
<1>5. Desktop \in Range(ws)
  BY <1>1, <1>2, <1>4, Zenon
<1>6. Position(ws, Desktop) = 1
  BY <1>1, <1>4, <1>5, PositionIs
<1>7. ASSUME MouseWindow \in Range(ws)
      PROVE  /\ Len(ws) >= 2 /\ Position(ws, MouseWindow) = Len(ws)
             /\ Focus(ws) \in Range(ws) /\ Focus(ws) # MouseWindow
  <2>1. Position(ws, MouseWindow) = Len(ws)
    BY <1>1, <1>4, <1>7, PositionIs
  <2>2. Len(ws) # 1
    BY <1>1, <1>7 DEF Desktop, MouseWindow
  <2>3. Len(ws) >= 2 /\ Len(ws) - 1 \in 1..Len(ws) /\ Len(ws) - 1 # Len(ws)
    <3> DEFINE n == Len(ws)
    <3>1. n \in Nat /\ n >= 1 /\ n # 1
      BY <1>1, <1>2, <2>2
    <3> HIDE DEF n
    <3>2. n >= 2 /\ n - 1 \in 1..n /\ n - 1 # n
      BY <3>1
    <3> QED
      BY <3>2 DEF n
  <2>4. Focus(ws) = ws[Len(ws) - 1]
    BY <1>7, <2>1, Zenon DEF Focus
  <2>5. ws[Len(ws) - 1] \in Range(ws)
    BY <1>2, <2>3, Zenon
  <2>6. ws[Len(ws) - 1] # MouseWindow
    BY <1>1, <1>3, <1>4, <1>7, <2>3, Zenon
  <2> QED
    BY <2>1, <2>3, <2>4, <2>5, <2>6, Zenon
<1> QED
  BY <1>1, <1>2, <1>3, <1>5, <1>6, <1>7

\* Taking out a window that is not the desktop leaves a stack.
LEMMA StackWithout ==
  ASSUME NEW ws, IsStack(ws), NEW w, w # Desktop
  PROVE  IsStack(Without(ws, w)) /\ Range(Without(ws, w)) = Range(ws) \ {w}
<1> DEFINE r == Without(ws, w)
<1>1. ws \in Seq(Windows) /\ IsInjective(ws) /\ ws[1] = Desktop
      /\ (MouseWindow \in Range(ws) => ws[Len(ws)] = MouseWindow)
  BY Zenon DEF IsStack
<1>2. r \in Seq(Windows) /\ IsInjective(r) /\ Range(r) = Range(ws) \ {w}
  BY <1>1, WithoutOnce
<1>3. CASE w \notin Range(ws)
  <2>1. r = ws
    BY <1>3, Zenon DEF Without
  <2> QED
    BY <1>2, <2>1
<1>4. CASE w \in Range(ws)
  <2> DEFINE p == Position(ws, w)
  <2>1. /\ p \in 1..Len(ws) /\ Len(r) = Len(ws) - 1
        /\ \A i \in 1..Len(r) : r[i] = IF i < p THEN ws[i] ELSE ws[i + 1]
    BY <1>1, <1>4, WithoutPlaces
  <2>2. ws[p] = w
    BY <1>1, <1>4, PositionIs
  <2> HIDE DEF p, r
  <2>3. p # 1 /\ Len(ws) \in Nat
    BY <1>1, <2>2, StackEnds
  <2>4. 1 \in 1..Len(r) /\ 1 < p /\ Len(r) >= 1
    BY <2>1, <2>3
  <2>5. r[1] = Desktop
    BY <1>1, <2>1, <2>4
  <2>6. ASSUME MouseWindow \in Range(r) PROVE r[Len(r)] = MouseWindow
    <3>1. ws[Len(ws)] = MouseWindow /\ w # MouseWindow
      BY <1>1, <1>2, <2>6
    <3>2. p # Len(ws)
      BY <2>2, <3>1
    <3>3. Len(r) \in 1..Len(r) /\ ~(Len(r) < p) /\ Len(r) + 1 = Len(ws)
      BY <2>1, <2>3, <2>4, <3>2
    <3> QED
      BY <2>1, <3>1, <3>3
  <2> QED
    BY <1>2, <2>4, <2>5, <2>6 DEF IsStack, r
<1> QED
  BY <1>3, <1>4

\* A window is put below the mouse pointer, ...
LEMMA StackInserted ==
  ASSUME NEW ws, IsStack(ws), NEW w \in Windows, w \notin {Desktop, MouseWindow},
         MouseWindow \in Range(ws)
  PROVE  IsStack(BelowMouse(ws, w)) /\ Range(BelowMouse(ws, w)) = Range(ws) \cup {w}
<1> DEFINE r == Without(ws, w)
           n == Len(r)
           a == SubSeq(r, 1, n - 1)
           b == SubSeq(r, n, n)
           o == <<w>>
           s == a \o o \o b
<1>1. IsStack(r) /\ Range(r) = Range(ws) \ {w}
  BY StackWithout
<1>2. BelowMouse(ws, w) = s
  <2>1. MouseWindow \in Range(r)
    BY <1>1
  <2>2. Position(r, MouseWindow) = n
    BY <1>1, <2>1, StackEnds
  <2> QED
    BY <2>1, <2>2, Zenon DEF BelowMouse
<1> HIDE DEF r
<1>3. r \in Seq(Windows) /\ n \in Nat /\ n >= 2 /\ r[1] = Desktop /\ r[n] = MouseWindow
      /\ Range(r) = {r[i] : i \in 1..n} /\ \A i, j \in 1..n : r[i] = r[j] => i = j
  <2>1. MouseWindow \in Range(r)
    BY <1>1
  <2> QED
    BY <1>1, <2>1, StackEnds DEF IsStack
<1> HIDE DEF n
<1>4. a \in Seq(Windows) /\ Len(a) = n - 1 /\ \A i \in 1..(n - 1) : a[i] = r[i]
  <2>1. \A i \in 1..(n - 1) : i \in 1..Len(r)
    BY <1>3 DEF n
  <2>2. /\ a \in Seq(Windows) /\ Len(a) = IF 1 <= n - 1 THEN (n - 1) - 1 + 1 ELSE 0
        /\ \A i \in 1..((n - 1) - 1 + 1) : a[i] = r[1 + i - 1]
    BY <1>3, <2>1, SubSeqProperties
  <2> QED
    BY <1>3, <2>2
<1>5. b \in Seq(Windows) /\ Len(b) = 1 /\ b[1] = r[n]
  <2>1. n..n \subseteq 1..Len(r)
    BY <1>3 DEF n
  <2>2. /\ b \in Seq(Windows) /\ Len(b) = IF n <= n THEN n - n + 1 ELSE 0
        /\ \A i \in 1..(n - n + 1) : b[i] = r[n + i - 1]
    BY <1>3, <2>1, SubSeqProperties
  <2> QED
    BY <1>3, <2>2
<1>6. o \in Seq(Windows) /\ Len(o) = 1 /\ o[1] = w
  OBVIOUS
<1> HIDE DEF a, b, o
<1>7. /\ a \o o \in Seq(Windows) /\ Len(a \o o) = n
      /\ \A i \in 1..n : (a \o o)[i] = IF i <= n - 1 THEN r[i] ELSE w
  <2>1. /\ a \o o \in Seq(Windows) /\ Len(a \o o) = Len(a) + Len(o)
        /\ \A i \in 1..(Len(a) + Len(o)) :
             (a \o o)[i] = IF i <= Len(a) THEN a[i] ELSE o[i - Len(a)]
    BY <1>4, <1>6, ConcatProperties
  <2>2. ASSUME NEW i \in 1..n PROVE (a \o o)[i] = IF i <= n - 1 THEN r[i] ELSE w
    <3>1. (a \o o)[i] = IF i <= n - 1 THEN a[i] ELSE o[i - (n - 1)]
      BY <1>3, <1>4, <1>6, <2>1
    <3>2. i <= n - 1 => i \in 1..(n - 1)
      BY <1>3
    <3>3. ~(i <= n - 1) => i - (n - 1) = 1
      BY <1>3
    <3> QED
      BY <1>4, <1>6, <3>1, <3>2, <3>3
  <2> QED
    BY <1>3, <1>4, <1>6, <2>1, <2>2
<1>8. /\ s \in Seq(Windows) /\ Len(s) = n + 1
      /\ \A i \in 1..(n + 1) :
           s[i] = IF i <= n - 1 THEN r[i] ELSE IF i = n THEN w ELSE MouseWindow
  <2>1. /\ s \in Seq(Windows) /\ Len(s) = n + Len(b)
        /\ \A i \in 1..(n + Len(b)) :
             s[i] = IF i <= n THEN (a \o o)[i] ELSE b[i - n]
    BY <1>5, <1>7, ConcatProperties
  <2>2. ASSUME NEW i \in 1..(n + 1)
        PROVE  s[i] = IF i <= n - 1 THEN r[i] ELSE IF i = n THEN w ELSE MouseWindow
    <3>1. s[i] = IF i <= n THEN (a \o o)[i] ELSE b[i - n]
      BY <1>5, <2>1
    <3>2. i <= n => i \in 1..n
      BY <1>3
    <3>3. ~(i <= n) => i - n = 1
      BY <1>3
    <3>4. i <= n - 1 => i <= n
      BY <1>3
    <3>5. i <= n /\ ~(i <= n - 1) => i = n
      BY <1>3
    <3>6. CASE i <= n
      <4>1. s[i] = IF i <= n - 1 THEN r[i] ELSE w
        BY <1>7, <3>1, <3>2, <3>6
      <4> QED
        BY <3>5, <3>6, <4>1
    <3>7. CASE ~(i <= n)
      <4>1. s[i] = MouseWindow
        BY <1>3, <1>5, <3>1, <3>3, <3>7
      <4>2. ~(i <= n - 1) /\ i # n
        BY <1>3, <3>4, <3>7
      <4> QED
        BY <4>1, <4>2
    <3> QED
      BY <3>6, <3>7
  <2> QED
    BY <1>5, <2>1, <2>2
<1> HIDE DEF s
<1>9. DOMAIN s = 1..(n + 1) /\ Range(s) = {s[i] : i \in 1..(n + 1)}
  BY <1>8, RangeIs
<1>10. w \notin Range(r)
  BY <1>1
<1>11. Range(s) = Range(r) \cup {w}
  <2>1. ASSUME NEW x \in Range(s) PROVE x \in Range(r) \cup {w}
    <3>1. PICK i \in 1..(n + 1) : x = s[i]
      BY <1>9
    <3>2. i <= n - 1 => i \in 1..n
      BY <1>3
    <3>3. n \in 1..n
      BY <1>3
    <3> QED
      BY <1>3, <1>8, <3>1, <3>2, <3>3
  <2>2. w \in Range(s)
    <3>1. n \in 1..(n + 1) /\ ~(n <= n - 1)
      BY <1>3
    <3> QED
      BY <1>8, <1>9, <3>1
  <2>3. ASSUME NEW x \in Range(r) PROVE x \in Range(s)
    <3>1. PICK i \in 1..n : x = r[i]
      BY <1>3
    <3>2. i <= n - 1 => i \in 1..(n + 1) /\ s[i] = x
      BY <1>3, <1>8, <3>1
    <3>3. ~(i <= n - 1) => x = MouseWindow
      BY <1>3, <3>1
    <3>4. n + 1 \in 1..(n + 1) /\ ~(n + 1 <= n - 1) /\ n + 1 # n
      BY <1>3
    <3>5. s[n + 1] = MouseWindow
      BY <1>8, <3>4
    <3> QED
      BY <1>9, <3>2, <3>3, <3>4, <3>5
  <2> QED
    BY <2>1, <2>2, <2>3
<1>12. IsInjective(s)
  <2>1. ASSUME NEW i \in 1..(n + 1), NEW j \in 1..(n + 1), s[i] = s[j], i < j PROVE FALSE
    <3>1. i <= n - 1 => i \in 1..n /\ r[i] \in Range(r) /\ s[i] = r[i] /\ i # n
      BY <1>3, <1>8
    <3>2. j <= n - 1 => i <= n - 1 /\ j \in 1..n /\ s[j] = r[j] /\ i # j
      BY <1>3, <1>8, <2>1
    <3>3. j = n => i <= n - 1 /\ s[j] = w
      BY <1>3, <1>8, <2>1
    <3>4. ~(j <= n - 1) /\ j # n => s[j] = MouseWindow /\ (i <= n - 1 \/ i = n)
      BY <1>3, <1>8, <2>1
    <3>5. i = n => s[i] = w
      BY <1>3, <1>8
    <3>6. r[n] = MouseWindow /\ n \in 1..n
      BY <1>3
    <3> QED
      BY <1>3, <1>10, <2>1, <3>1, <3>2, <3>3, <3>4, <3>5, <3>6
  <2>2. ASSUME NEW i \in 1..(n + 1), NEW j \in 1..(n + 1), s[i] = s[j] PROVE i = j
    <3>1. i < j \/ j < i \/ i = j
      BY <1>3
    <3> QED
      BY <2>1, <2>2, <3>1
  <2> QED
    BY <1>9, <2>2 DEF IsInjective
<1>13. Len(s) >= 2 /\ s[1] = Desktop /\ s[Len(s)] = MouseWindow
  <2>1. 1 \in 1..(n + 1) /\ 1 <= n - 1 /\ n + 1 \in 1..(n + 1) /\ ~(n + 1 <= n - 1) /\ n + 1 # n
        /\ n + 1 >= 2
    BY <1>3
  <2> QED
    BY <1>3, <1>8, <2>1
<1> QED
  BY <1>1, <1>2, <1>8, <1>11, <1>12, <1>13 DEF IsStack

\* ... or at the end of the list when that one is not there.
LEMMA StackBelowMouse ==
  ASSUME NEW ws, IsStack(ws), NEW w \in Windows, w # Desktop
  PROVE  IsStack(BelowMouse(ws, w)) /\ Range(BelowMouse(ws, w)) = Range(ws) \cup {w}
<1> DEFINE r == Without(ws, w)
           s == Append(r, w)
<1>1. IsStack(r) /\ Range(r) = Range(ws) \ {w}
  BY StackWithout
<1>2. CASE MouseWindow \in Range(r)
  BY <1>1, <1>2, StackInserted
<1>3. CASE MouseWindow \notin Range(r)
  <2>1. BelowMouse(ws, w) = s
    BY <1>3, Zenon DEF BelowMouse
  <2>2. r \in Seq(Windows) /\ IsInjective(r) /\ Len(r) >= 1 /\ r[1] = Desktop /\ Len(r) \in Nat
    BY <1>1, StackEnds DEF IsStack
  <2> HIDE DEF r
  <2>3. IsInjective(s) /\ Range(s) = Range(r) \cup {w}
    BY <1>1, <2>2, AppendedOnce
  <2>4. s \in Seq(Windows) /\ Len(s) = Len(r) + 1 /\ s[Len(s)] = w /\ s[1] = r[1]
    BY <2>2, AppendProperties
  <2>5. MouseWindow \in Range(s) => s[Len(s)] = MouseWindow
    BY <1>3, <2>3, <2>4
  <2>6. Len(s) >= 1
    BY <2>2, <2>4
  <2> HIDE DEF s
  <2>7. IsStack(s)
    BY <2>2, <2>3, <2>4, <2>5, <2>6 DEF IsStack
  <2> QED
    BY <1>1, <2>1, <2>3, <2>7
<1> QED
  BY <1>2, <1>3

\* Bringing a window to the front changes the order only.
LEMMA StackInFront ==
  ASSUME NEW ws, IsStack(ws), NEW w \in Windows
  PROVE  IsStack(InFront(ws, w)) /\ Range(InFront(ws, w)) = Range(ws)
<1>1. CASE w \notin Range(ws) \ {Desktop}
  BY <1>1, Zenon DEF InFront
<1>2. CASE w \in Range(ws) \ {Desktop}
  <2>1. InFront(ws, w) = BelowMouse(ws, w)
    BY <1>2, Zenon DEF InFront
  <2>2. IsStack(BelowMouse(ws, w)) /\ Range(BelowMouse(ws, w)) = Range(ws) \cup {w}
    BY <1>2, StackBelowMouse
  <2> QED
    BY <1>2, <2>1, <2>2
<1> QED
  BY <1>1, <1>2

\* Taking out some windows, not the desktop among them.
LEMMA StackLeaves ==
  ASSUME NEW ws, IsStack(ws), NEW kept, kept \subseteq Range(ws),
         Desktop \in kept,
         NEW n \in Nat, NEW rest \in [1..n -> kept], Leaves(ws, kept, rest)
  PROVE  IsStack(rest) /\ Range(rest) = kept
<1>1. /\ Len(ws) \in Nat /\ Range(ws) \subseteq Windows
      /\ Position(ws, Desktop) = 1
      /\ (MouseWindow \in Range(ws) => Position(ws, MouseWindow) = Len(ws))
      /\ ws \in Seq(Windows)
  BY StackEnds DEF IsStack
<1>2. \A w \in kept : Position(ws, w) \in 1..Len(ws)
  BY <1>1, PositionIs
<1>3. rest \in Seq(Windows) /\ Len(rest) = n /\ DOMAIN rest = 1..n
  <2>1. rest \in [1..n -> Windows]
    BY <1>1
  <2>2. rest \in Seq(Windows)
    BY <2>1, IsASeq
  <2>3. DOMAIN rest = 1..Len(rest) /\ Len(rest) \in Nat
    BY <2>2, LenProperties
  <2> QED
    BY <2>1, <2>2, <2>3, LenProperties
<1>4. /\ Range(rest) = kept
      /\ \A i, j \in 1..n : i < j => Position(ws, rest[i]) < Position(ws, rest[j])
  BY <1>3, Zenon DEF Leaves
<1>5. \A i \in 1..n : rest[i] \in kept
  OBVIOUS
<1>6. ASSUME NEW i \in 1..n, NEW j \in 1..n, rest[i] = rest[j] PROVE i = j
  <2>1. Position(ws, rest[i]) \in 1..Len(ws)
    BY <1>2, <1>5
  <2>2. ~(Position(ws, rest[i]) < Position(ws, rest[j])) /\ ~(Position(ws, rest[j]) < Position(ws, rest[i]))
    BY <1>1, <1>6, <2>1
  <2>3. ~(i < j) /\ ~(j < i)
    BY <1>4, <2>2
  <2> QED
    BY <2>3
<1>7. IsInjective(rest)
  BY <1>3, <1>6 DEF IsInjective
<1>8. PICK d \in 1..n : rest[d] = Desktop
  BY <1>3, <1>4 DEF Range
<1>10. d = 1
  <2>1. SUFFICES ASSUME d # 1 PROVE FALSE
    OBVIOUS
  <2>2. 1 \in 1..n /\ 1 < d
    BY <2>1
  <2>3. Position(ws, rest[1]) < 1
    BY <1>1, <1>4, <1>8, <2>2
  <2>4. Position(ws, rest[1]) \in 1..Len(ws)
    BY <1>2, <1>5, <2>2
  <2> QED
    BY <1>1, <2>3, <2>4
<1>11. ASSUME MouseWindow \in Range(rest) PROVE rest[n] = MouseWindow
  <2>1. PICK m \in 1..n : rest[m] = MouseWindow
    BY <1>3, <1>11 DEF Range
  <2>2. SUFFICES ASSUME m # n PROVE FALSE
    BY <2>1
  <2>3. n \in 1..n /\ m < n
    BY <2>2
  <2>4. MouseWindow \in Range(ws)
    BY <1>4, <1>11
  <2>5. Len(ws) < Position(ws, rest[n])
    BY <1>1, <1>4, <2>1, <2>3, <2>4
  <2>6. Position(ws, rest[n]) \in 1..Len(ws)
    BY <1>2, <1>5, <2>3
  <2> QED
    BY <1>1, <2>5, <2>6
<1>12. n >= 1
  BY <1>10
<1> QED
  BY <1>3, <1>4, <1>7, <1>8, <1>10, <1>11, <1>12 DEF IsStack

-----------------------------------------------------------------------------
(* The inductive invariant of the window manager.                          *)

\* What Put may store into the flag of a ring
Flags == {"same", "full", "room"}

\* The states of a message queue
QueueRecord ==
  [items : Seq(1..MaxEvents), full : BOOLEAN, msgs : Int, slts : Int,
   waiters : Seq(Users)]

\* The states of a thread of a program that reads
Reading == {"peek", "wait", "woken", "take"}
\* A thread of a program that was killed
Gone == {"dead", "gone"}
\* The input thread with an event in its hands
Busy == {"event", "put", "store"} \cup Unlocked
\* The input thread with an event that it has not put anywhere yet
Carrying == {"event", "put"} \cup Unlocked

\* The types, part by part
DevicesTyped ==
  /\ ring \in Seq(Event) /\ Len(ring) <= RingSize
  /\ signals \in Nat /\ typed \in 0..MaxEvents /\ signals <= typed

ScreenTyped ==
  /\ owner \in [Windows -> Threads \cup {NoOne}]
  /\ nextId \in 3..(MaxWindow + 1)
  /\ active \in Windows

EventsTyped == events \in [Windows -> QueueRecord]

ThreadsTyped ==
  /\ lock \in Threads \cup {NoOne}
  /\ pc \in [Threads -> {"idle"} \cup Reading \cup Gone \cup Busy]
  /\ pc[Input] \in {"idle"} \cup Busy
  /\ \A t \in Users : pc[t] \in {"idle"} \cup Reading \cup Gone
  /\ at \in [Threads -> Windows]

HandTyped ==
  /\ hand \in [event : Event \cup {NoEvent}, flag : Flags]
  /\ pc[Input] # "idle" => hand.event \in Event

HistoryTyped ==
  /\ seen \in [Windows -> 0..MaxEvents]
  /\ raced \in {"never", "now", "once"}
  /\ shared \subseteq Windows /\ missed \subseteq Windows
  /\ fault \in {"none", "LockedTwice", "NullPointer", "FreedMemory", "StaleRing",
                 "TornList", "TornRing"}

Typed ==
  /\ DevicesTyped /\ ScreenTyped /\ EventsTyped /\ ThreadsTyped /\ HandTyped
  /\ HistoryTyped

\* The list of windows, which are of IDs that were given out, the window that is off
\* the list for a moment, and the kernel's own windows, which nobody owns
Stacked ==
  /\ IsStack(windows)
  /\ active < nextId /\ \A w \in Range(windows) : w < nextId
  /\ pc[Input] = "link" => at[Input] \notin Range(windows) /\ at[Input] # Desktop
  /\ \A w \in {Desktop, DebugWindow, MouseWindow} : owner[w] = NoOne

\* Nobody is at a window whose ID was not given out yet.
Unborn ==
  /\ \A w \in Windows : w >= nextId => events[w] = Fresh
  /\ \A t \in Threads : at[t] < nextId

\* The window that alt+tab gives the focus to and puts in front, and the focus, as
\* long as nothing came in between
Focused ==
  raced = "never" =>
    /\ pc[Input] \in {"focus", "raise"} => Open(at[Input])
    /\ pc[Input] \in {"focus", "raise", "link"} => at[Input] # MouseWindow
    /\ pc[Input] \in {"raise", "link"} => active = at[Input]
    /\ Open(MouseWindow) => Exists(active) /\ active # MouseWindow

\* Put is not interrupted by the destruction of its window.
Held == pc[Input] = "store" => lock = Input /\ Open(at[Input])

\* Who works on a window that he does not own has made it shared.
ReadersShare == \A t \in Users :
  /\ pc[t] \in Reading => at[t] # Desktop
  /\ at[t] # Desktop => owner[at[t]] = t \/ at[t] \in shared

\* The waiters of a queue are threads that wait at it, each once, and as long as
\* the window exists they are all of them.
ListIsRight(w) ==
  /\ IsInjective(events[w].waiters)
  /\ \A t \in Range(events[w].waiters) : pc[t] = "wait" /\ at[t] = w
  /\ Exists(w) => \A t \in Users :
       pc[t] = "wait" /\ at[t] = w => t \in Range(events[w].waiters)

\* Put is going to store this into the flag.
Storing(w, flag) == pc[Input] = "store" /\ at[Input] = w /\ hand.flag = flag

\* A full ring says so, or is about to be told.
RingFits(w) ==
  /\ Len(events[w].items) <= Places
  /\ Len(events[w].items) = Places => events[w].full \/ Storing(w, "full")
  /\ Storing(w, "room") => Len(events[w].items) < Places

\* The count of a queue that only the owner reads
CountIsRight(w) == w \notin shared =>
  /\ events[w].msgs >= 0
  /\ \A t \in Users : at[t] = w =>
       /\ pc[t] = "wait" => events[w].msgs = 0
       /\ pc[t] = "woken" => events[w].msgs >= 1

\* Nobody at the window was killed.
Alive(w) == \A t \in Users : at[t] = w => pc[t] \notin Gone

\* The places that are not free
Taken(w) == events[w].msgs + Cardinality(Taking(w)) + Putting(w)

\* While Put is going to say that the ring is full there are at least as many
\* messages as readers can come in between, and one more, so that one is left when
\* it says so.
Account(w) == Alive(w) =>
  /\ events[w].slts + Taken(w) = Places
  /\ w \notin shared =>
       /\ w \notin missed => Len(events[w].items) <= Taken(w)
       /\ Storing(w, "full") => Len(events[w].items) >= Taken(w)
       /\ events[w].full => events[w].items # <<>>

\* The queues of all windows, and what the existing ones add to that
QueuesAreRight ==
  /\ \A w \in Windows : ListIsRight(w) /\ RingFits(w)
  /\ \A w \in Windows : Exists(w) => CountIsRight(w) /\ Account(w)

\* The numbers of the events: those in the queues come before the one at hand,
\* and that one before those in the ring.
Behind(n) == \A w \in Windows :
  seen[w] < n /\ \A i \in 1..Len(events[w].items) : events[w].items[i] < n

\* The messages of a queue come in the order of their numbers, after the last one read.
Rising(w) == \A i \in 1..Len(events[w].items) :
  /\ seen[w] < events[w].items[i]
  /\ \A j \in 1..Len(events[w].items) : i < j => events[w].items[i] < events[w].items[j]

\* The order from the messages that were read to the events not yet typed
Ordered ==
  /\ \A w \in Windows : Rising(w)
  /\ pc[Input] \in Carrying => Behind(hand.event.number)
  /\ \A i \in 1..Len(ring) :
       /\ Behind(ring[i].number) /\ hand.event.number < ring[i].number
       /\ ring[i].number <= typed
       /\ \A j \in 1..Len(ring) : i < j => ring[i].number < ring[j].number
  /\ Behind(typed + 1) /\ hand.event.number <= typed

\* The inductive invariant
WInv ==
  /\ Typed /\ Stacked /\ Unborn /\ Focused /\ Held /\ ReadersShare
  /\ QueuesAreRight /\ Ordered /\ FullIsNotEmpty

-----------------------------------------------------------------------------
(* What the operations of a message queue do, field by field.              *)

\* The fields of a queue
LEMMA FieldTypes ==
  ASSUME NEW q \in QueueRecord
  PROVE  /\ q.items \in Seq(1..MaxEvents) /\ q.waiters \in Seq(Users)
         /\ q.full \in BOOLEAN /\ q.msgs \in Int /\ q.slts \in Int
         /\ Len(q.items) \in Nat /\ (q.items = <<>> <=> Len(q.items) = 0)
<1>1. q.items \in Seq(1..MaxEvents) /\ q.waiters \in Seq(Users)
      /\ q.full \in BOOLEAN /\ q.msgs \in Int /\ q.slts \in Int
  BY DEF QueueRecord
<1> QED
  BY <1>1, LenProperties, EmptySeq

\* The queue of a window that was just created
LEMMA FreshIs ==
  /\ Fresh \in QueueRecord
  /\ Fresh.items = <<>> /\ Fresh.waiters = <<>> /\ Fresh.full = FALSE
  /\ Fresh.msgs = 0 /\ Fresh.slts = Places /\ Len(Fresh.items) = 0
BY MessageQueueAssumption DEF Fresh, QueueRecord

\* Wait takes a count and nothing else.
LEMMA TakeCountIs ==
  ASSUME NEW q \in QueueRecord
  PROVE  LET r == TakeCount(q)
         IN  /\ r \in QueueRecord /\ r.items = q.items /\ r.full = q.full
             /\ r.msgs = q.msgs - 1 /\ r.slts = q.slts /\ r.waiters = q.waiters
BY DEF TakeCount, QueueRecord

\* A reader that has to wait is added to the list.
LEMMA EnqueueIs ==
  ASSUME NEW q \in QueueRecord, NEW t \in Users
  PROVE  LET r == Enqueue(q, t)
         IN  /\ r \in QueueRecord /\ r.items = q.items /\ r.full = q.full
             /\ r.msgs = q.msgs /\ r.slts = q.slts /\ r.waiters = Append(q.waiters, t)
<1>1. Append(q.waiters, t) \in Seq(Users)
  BY FieldTypes
<1> QED
  BY <1>1 DEF Enqueue, QueueRecord

\* A reader that dies is taken off the list.
LEMMA DequeueIs ==
  ASSUME NEW q \in QueueRecord, NEW t \in Users
  PROVE  LET r == Dequeue(q, t)
         IN  /\ r \in QueueRecord /\ r.items = q.items /\ r.full = q.full
             /\ r.msgs = q.msgs /\ r.slts = q.slts /\ r.waiters = Without(q.waiters, t)
<1>1. q.waiters \in Seq(Users)
  BY FieldTypes
<1>2. Without(q.waiters, t) \in Seq(Users)
  <2>1. t \notin Range(q.waiters) => Without(q.waiters, t) = q.waiters
    BY Zenon DEF Without
  <2>2. t \in Range(q.waiters) => Without(q.waiters, t) \in Seq(Users)
    BY <1>1, WithoutPlaces
  <2> QED
    BY <1>1, <2>1, <2>2
<1> QED
  BY <1>2 DEF Dequeue, QueueRecord

\* Write takes a place and adds the item unless the ring says it is full.
LEMMA WriteItemIs ==
  ASSUME NEW q \in QueueRecord, NEW m \in 1..MaxEvents
  PROVE  LET r == WriteItem(q, m)
         IN  /\ r \in QueueRecord /\ r.full = q.full
             /\ r.items = IF q.full THEN q.items ELSE Append(q.items, m)
             /\ Len(r.items) = IF q.full THEN Len(q.items) ELSE Len(q.items) + 1
             /\ r.msgs = q.msgs /\ r.slts = q.slts - 1 /\ r.waiters = q.waiters
<1>1. Append(q.items, m) \in Seq(1..MaxEvents) /\ Len(Append(q.items, m)) = Len(q.items) + 1
  BY FieldTypes, AppendProperties
<1> DEFINE s == IF q.full THEN q.items ELSE Append(q.items, m)
           z == q.slts - 1
           r == WriteItem(q, m)
<1>2. r = [q EXCEPT !.slts = z, !.items = s] /\ z \in Int
  BY FieldTypes DEF WriteItem, QueueRecord
<1>3. s \in Seq(1..MaxEvents) /\ Len(s) = IF q.full THEN Len(q.items) ELSE Len(q.items) + 1
  BY <1>1, FieldTypes
<1> HIDE DEF s, z, r
<1>4. /\ r \in QueueRecord /\ r.full = q.full /\ r.items = s
      /\ r.msgs = q.msgs /\ r.slts = z /\ r.waiters = q.waiters
  BY <1>2, <1>3 DEF QueueRecord
<1> QED
  BY <1>3, <1>4 DEF r, s, z

\* The flag that Write is going to store
LEMMA FlagAfterIs ==
  ASSUME NEW q \in QueueRecord, NEW m \in 1..MaxEvents
  PROVE  /\ FlagAfter(q, m) \in Flags
         /\ FlagAfter(q, m) = "full" <=> ~q.full /\ Len(q.items) + 1 = Places
         /\ FlagAfter(q, m) = "room" <=> ~q.full /\ Len(q.items) + 1 # Places
BY DEF FlagAfter, Flags

\* The flag, the count and the reader that is woken
LEMMA FinishPutIs ==
  ASSUME NEW q \in QueueRecord, NEW flag \in Flags
  PROVE  LET r == FinishPut(q, flag)
         IN  /\ r \in QueueRecord /\ r.items = q.items
             /\ r.full = IF flag = "same" THEN q.full ELSE flag = "full"
             /\ r.msgs = q.msgs + 1 /\ r.slts = q.slts
             /\ r.waiters = IF q.waiters = <<>> THEN q.waiters ELSE Tail(q.waiters)
<1>1. (IF q.waiters = <<>> THEN q.waiters ELSE Tail(q.waiters)) \in Seq(Users)
  BY FieldTypes
<1>2. (IF flag = "same" THEN q.full ELSE flag = "full") \in BOOLEAN
  BY FieldTypes
<1> DEFINE w == IF q.waiters = <<>> THEN q.waiters ELSE Tail(q.waiters)
           f == IF flag = "same" THEN q.full ELSE flag = "full"
<1>3. FinishPut(q, flag) = [q EXCEPT !.full = f, !.msgs = q.msgs + 1, !.waiters = w]
  BY DEF FinishPut, QueueRecord
<1>4. w \in Seq(Users) /\ f \in BOOLEAN
  BY <1>1, <1>2
<1> HIDE DEF w, f
<1> DEFINE r == FinishPut(q, flag)
           z == q.msgs + 1
<1>6. r = [q EXCEPT !.full = f, !.msgs = z, !.waiters = w] /\ z \in Int
  BY <1>3, FieldTypes
<1> HIDE DEF r, z
<1>5. /\ r \in QueueRecord /\ r.items = q.items /\ r.full = f
      /\ r.msgs = z /\ r.slts = q.slts /\ r.waiters = w
  BY <1>4, <1>6 DEF QueueRecord
<1> QED
  BY <1>5, Zenon DEF r, w, f, z

\* Read gives a place back and takes the first item.
LEMMA ReadItemIs ==
  ASSUME NEW q \in QueueRecord, NEW found \in BOOLEAN, found => q.items # <<>>
  PROVE  LET r == ReadItem(q, found)
         IN  /\ r \in QueueRecord
             /\ r.msgs = q.msgs /\ r.slts = q.slts + 1 /\ r.waiters = q.waiters
             /\ ~found => r.items = q.items /\ r.full = q.full
             /\ found =>
                  /\ q.items # <<>> /\ r.items = Tail(q.items) /\ r.full = FALSE
                  /\ Len(r.items) = Len(q.items) - 1
                  /\ q.items[1] \in 1..MaxEvents
                  /\ \A i \in 1..Len(r.items) : r.items[i] = q.items[i + 1]
<1>1. CASE ~found
  <2>1. ReadItem(q, found) = [q EXCEPT !.slts = q.slts + 1]
    BY <1>1 DEF ReadItem, QueueRecord
  <2> QED
    BY <1>1, <2>1 DEF QueueRecord
<1>2. CASE found
  <2> DEFINE s == Tail(q.items)
  <2>1. ReadItem(q, found) = [q EXCEPT !.slts = q.slts + 1, !.items = s, !.full = FALSE]
    BY <1>2 DEF ReadItem, QueueRecord
  <2>2. q.items \in Seq(1..MaxEvents) /\ q.items # <<>>
    BY <1>2, FieldTypes
  <2>3. /\ s \in Seq(1..MaxEvents) /\ Len(s) = Len(q.items) - 1
        /\ \A i \in 1..Len(s) : s[i] = q.items[i + 1]
    BY <2>2, HeadTailProperties
  <2>4. q.items[1] \in 1..MaxEvents
    <3>1. 1 \in 1..Len(q.items)
      BY <2>2, FieldTypes
    <3> QED
      BY <2>2, <3>1, ElementOfSeq
  <2> DEFINE r == ReadItem(q, found)
             z == q.slts + 1
  <2>6. r = [q EXCEPT !.slts = z, !.items = s, !.full = FALSE] /\ z \in Int
    BY <2>1, FieldTypes
  <2> HIDE DEF s, r, z
  <2>5. /\ r \in QueueRecord /\ r.items = s /\ r.full = FALSE
        /\ r.msgs = q.msgs /\ r.slts = z /\ r.waiters = q.waiters
    BY <2>3, <2>6 DEF QueueRecord
  <2> QED
    BY <1>2, <2>2, <2>3, <2>4, <2>5 DEF s, r, z
<1> QED
  BY <1>1, <1>2

\* When Read finds an item
LEMMA FindsIs ==
  ASSUME NEW q \in QueueRecord, NEW found \in Finds(q)
  PROVE  /\ found \in BOOLEAN /\ (found => q.items # <<>>)
         /\ ~RingIsEmpty(q) /\ q.items # <<>> => found
BY FieldTypes, MessageQueueAssumption DEF Finds, RingIsEmpty

-----------------------------------------------------------------------------
(* The queue of one window.                                                *)

\* The constants of the window manager
LEMMA Names ==
  /\ Users \subseteq Threads /\ Input \in Threads /\ Input \notin Users
  /\ Threads = Users \cup {Input} /\ IsFiniteSet(Users) /\ NoOne \notin Threads
  /\ Windows = 0..MaxWindow /\ MaxWindow \in Nat /\ MaxWindow > 2
  /\ Desktop \in Windows /\ DebugWindow \in Windows /\ MouseWindow \in Windows
  /\ Desktop = 0 /\ DebugWindow = 1 /\ MouseWindow = 2
  /\ Places \in Nat \ {0} /\ MaxEvents \in Nat /\ RingSize \in Nat \ {0}
BY WindowManagerAssumption, MessageQueueAssumption
   DEF Threads, Windows, Desktop, DebugWindow, MouseWindow

\* The states in which a thread counts for a queue
Waits == {"wait", "woken", "take"}

\* A step of t leaves the other threads where they are.
OthersKeep(t) == \A u \in Threads \ {t} : pc'[u] = pc[u] /\ at'[u] = at[u]

\* At w the same threads wait, read and write as before, and none has died.
Undisturbed(w) ==
  /\ \A u \in Users :
       (pc[u] \in Waits /\ at[u] = w) \/ (pc'[u] \in Waits /\ at'[u] = w) =>
         pc'[u] = pc[u] /\ at'[u] = at[u]
  /\ \A u \in Users : pc[u] \in Gone /\ at[u] = w => pc'[u] \in Gone /\ at'[u] = w
  /\ \A flag \in Flags : Storing(w, flag)' <=> Storing(w, flag)
  /\ Putting(w)' = Putting(w)
  /\ (w \in shared => w \in shared') /\ (w \in missed => w \in missed')
  /\ Exists(w)' => Exists(w)

\* The readers of a queue can be counted.
LEMMA TakingIsFinite ==
  ASSUME NEW w
  PROVE  /\ IsFiniteSet(Taking(w)) /\ Cardinality(Taking(w)) \in Nat
         /\ Putting(w) \in {0, 1}
<1>1. Taking(w) \subseteq Users
  BY DEF Taking
<1>2. IsFiniteSet(Users)
  BY Names
<1>3. IsFiniteSet(Taking(w))
  BY <1>1, <1>2, FS_Subset
<1> QED
  BY <1>3, FS_CardinalityType DEF Putting

\* What a step does to the number of threads that are taking.
LEMMA TakingMoves ==
  ASSUME NEW w, NEW t \in Users, OthersKeep(t)
  PROVE  /\ Cardinality(Taking(w)) \in Nat /\ Cardinality(Taking(w))' \in Nat
         /\ t \in Taking(w) => Cardinality(Taking(w)) >= 1
         /\ t \in Taking(w)' /\ t \notin Taking(w) =>
              Cardinality(Taking(w))' = Cardinality(Taking(w)) + 1
         /\ t \notin Taking(w)' /\ t \in Taking(w) =>
              Cardinality(Taking(w))' = Cardinality(Taking(w)) - 1
         /\ (t \in Taking(w)' <=> t \in Taking(w)) =>
              Cardinality(Taking(w))' = Cardinality(Taking(w))
<1> DEFINE A == Taking(w)
           B == Taking(w)'
<1>1. /\ A \subseteq Users /\ B \subseteq Users
      /\ \A u \in Users : u # t => (u \in A <=> u \in B)
  <2>1. \A u \in Users : u \in A <=> pc[u] = "take" /\ at[u] = w
    BY DEF Taking
  <2>2. \A u \in Users : u \in B <=> pc'[u] = "take" /\ at'[u] = w
    BY DEF Taking
  <2>3. \A u \in Users : u # t => pc'[u] = pc[u] /\ at'[u] = at[u]
    BY Names DEF OthersKeep
  <2>4. A \subseteq Users /\ B \subseteq Users
    BY DEF Taking
  <2> QED
    BY <2>1, <2>2, <2>3, <2>4
<1> HIDE DEF A, B
<1>2. IsFiniteSet(Users)
  BY Names
<1>3. IsFiniteSet(A) /\ IsFiniteSet(B)
  BY <1>1, <1>2, FS_Subset
<1>4. Cardinality(A) \in Nat /\ Cardinality(B) \in Nat
  BY <1>3, FS_CardinalityType
<1>5. t \in B /\ t \notin A => Cardinality(B) = Cardinality(A) + 1
  <2>1. t \in B /\ t \notin A => B = A \cup {t}
    BY <1>1
  <2> QED
    BY <1>3, <2>1, FS_AddElement
<1>6. t \notin B /\ t \in A => Cardinality(B) = Cardinality(A) - 1
  <2>1. t \notin B /\ t \in A => B = A \ {t}
    BY <1>1
  <2> QED
    BY <1>3, <2>1, FS_RemoveElement
<1>7. (t \in B <=> t \in A) => B = A
  BY <1>1
<1>8. t \in A => Cardinality(A) >= 1
  <2>1. t \in A => A # {}
    OBVIOUS
  <2> QED
    BY <1>3, <1>4, <2>1, FS_EmptySet
<1>9. Cardinality(Taking(w))' = Cardinality(B)
  BY DEF B
<1> QED
  BY <1>4, <1>5, <1>6, <1>7, <1>8, <1>9 DEF A, B

\* A step elsewhere does nothing to the queue of w.
LEMMA ElsewhereKeeps ==
  ASSUME NEW w \in Windows, Undisturbed(w), events'[w] = events[w],
         events[w] \in QueueRecord, ListIsRight(w), RingFits(w)
  PROVE  /\ ListIsRight(w)' /\ RingFits(w)'
         /\ CountIsRight(w) => CountIsRight(w)'
         /\ Account(w) => Account(w)'
<1>1. \A u \in Users : pc[u] = "wait" /\ at[u] = w <=> pc'[u] = "wait" /\ at'[u] = w
  BY DEF Undisturbed, Waits
<1>2. \A u \in Users : pc[u] = "woken" /\ at[u] = w <=> pc'[u] = "woken" /\ at'[u] = w
  BY DEF Undisturbed, Waits
<1>3. \A u \in Users : pc[u] = "take" /\ at[u] = w <=> pc'[u] = "take" /\ at'[u] = w
  BY DEF Undisturbed, Waits
<1>4. ListIsRight(w)'
  <2>1. \A u \in Range(events[w].waiters) : u \in Users /\ pc[u] = "wait" /\ at[u] = w
    BY FieldTypes, RangeIs DEF ListIsRight
  <2>2. \A u \in Range(events[w].waiters) : pc'[u] = "wait" /\ at'[u] = w
    BY <1>1, <2>1
  <2>3. IsInjective(events[w].waiters)'
    BY DEF ListIsRight
  <2>4. Exists(w)' => \A u \in Users : pc'[u] = "wait" /\ at'[u] = w => u \in Range(events[w].waiters)
    BY <1>1 DEF ListIsRight, Undisturbed
  <2> QED
    BY <2>2, <2>3, <2>4 DEF ListIsRight
<1>5. /\ Storing(w, "full")' <=> Storing(w, "full")
      /\ Storing(w, "room")' <=> Storing(w, "room")
  BY DEF Undisturbed, Flags
<1>6. RingFits(w)'
  BY <1>5 DEF RingFits
<1>7. (w \in shared => w \in shared') /\ (w \in missed => w \in missed')
  BY DEF Undisturbed
<1>8. CountIsRight(w) => CountIsRight(w)'
  BY <1>1, <1>2, <1>7 DEF CountIsRight
<1>9. Alive(w)' => Alive(w)
  BY DEF Undisturbed, Alive
<1>10. Taken(w)' = Taken(w)
  <2>1. Taking(w)' = Taking(w)
    BY <1>3 DEF Taking
  <2>2. Putting(w)' = Putting(w)
    BY DEF Undisturbed
  <2> QED
    BY <2>1, <2>2 DEF Taken
<1>11. Account(w) => Account(w)'
  BY <1>5, <1>7, <1>9, <1>10 DEF Account
<1> QED
  BY <1>4, <1>6, <1>8, <1>11

\* Nobody but t is at a queue that is not shared.
Sole(w, t) == w \notin shared' => \A u \in Users \ {t} : at[u] # w

\* What the steps of a program's thread t at window w have in common
AtQueue(w, t) ==
  /\ OthersKeep(t) /\ hand' = hand /\ Sole(w, t)
  /\ (w \in shared => w \in shared') /\ (w \in missed => w \in missed')
  /\ Exists(w)' => Exists(w)

\* A reader does nothing to what Put is about to store.
LEMMA StoringStays ==
  ASSUME NEW w, NEW t \in Users, AtQueue(w, t)
  PROVE  /\ Putting(w)' = Putting(w)
         /\ Storing(w, "full")' <=> Storing(w, "full")
         /\ Storing(w, "room")' <=> Storing(w, "room")
<1>1. pc'[Input] = pc[Input] /\ at'[Input] = at[Input] /\ hand' = hand
  BY Names DEF AtQueue, OthersKeep
<1> QED
  BY <1>1 DEF Putting, Storing

\* t takes a count.
LEMMA CountTaken ==
  ASSUME NEW w \in Windows, NEW t \in Users, AtQueue(w, t), events[w] \in QueueRecord,
         ListIsRight(w), RingFits(w), events'[w] = TakeCount(events[w]),
         pc[t] \in {"idle", "peek", "woken"}, pc'[t] = "take", at'[t] = w,
         CanTake(events[w]) \/ (pc[t] = "woken" /\ at[t] = w)
  PROVE  /\ ListIsRight(w)' /\ RingFits(w)'
         /\ CountIsRight(w) => CountIsRight(w)'
         /\ Account(w) => Account(w)'
<1> DEFINE q == events[w]
           r == events'[w]
<1>1. /\ r.items = q.items /\ r.full = q.full /\ r.slts = q.slts
      /\ r.msgs = q.msgs - 1 /\ r.waiters = q.waiters
  BY TakeCountIs
<1>2. /\ q.waiters \in Seq(Users) /\ q.msgs \in Int /\ q.slts \in Int /\ Len(q.items) \in Nat
      /\ Range(q.waiters) \subseteq Users
  BY FieldTypes, RangeIs
<1>3. \A u \in Users : u # t => pc'[u] = pc[u] /\ at'[u] = at[u]
  BY Names DEF AtQueue, OthersKeep
<1>4. (w \in shared => w \in shared') /\ (w \in missed => w \in missed')
  BY DEF AtQueue
<1>5. ListIsRight(w)'
  <2>1. IsInjective(r.waiters)
    BY <1>1 DEF ListIsRight
  <2>2. \A u \in Range(r.waiters) : pc'[u] = "wait" /\ at'[u] = w
    BY <1>1, <1>2, <1>3 DEF ListIsRight
  <2>3. Exists(w)' => \A u \in Users : pc'[u] = "wait" /\ at'[u] = w => u \in Range(r.waiters)
    BY <1>1, <1>3 DEF ListIsRight, AtQueue
  <2> QED
    BY <2>1, <2>2, <2>3 DEF ListIsRight
<1>6. RingFits(w)'
  BY <1>1, StoringStays DEF RingFits
<1>7. ASSUME CountIsRight(w) PROVE CountIsRight(w)'
  <2> SUFFICES ASSUME w \notin shared'
               PROVE  r.msgs >= 0 /\ \A u \in Users : at'[u] = w => u = t
    BY Zenon DEF CountIsRight
  <2>1. q.msgs >= 1
    BY <1>2, <1>4, <1>7 DEF CountIsRight, CanTake
  <2>2. \A u \in Users : at'[u] = w => u = t
    BY <1>3 DEF AtQueue, Sole
  <2> QED
    BY <1>1, <1>2, <2>1, <2>2
<1>8. ASSUME Account(w) PROVE Account(w)'
  <2> SUFFICES ASSUME Alive(w)' PROVE Account(w)'
    BY DEF Account
  <2>1. Alive(w)
    BY <1>3 DEF Alive, Gone
  <2>2. Cardinality(Taking(w))' = Cardinality(Taking(w)) + 1 /\ Cardinality(Taking(w)) \in Nat
    <3>1. t \in Taking(w)' /\ t \notin Taking(w)
      BY DEF Taking
    <3> QED
      BY <3>1, TakingMoves DEF AtQueue
  <2>3. Taken(w)' = Taken(w) /\ Taken(w) \in Int
    BY <1>1, <1>2, <2>2, StoringStays, TakingIsFinite DEF Taken
  <2> QED
    BY <1>1, <1>4, <1>8, <2>1, <2>3, StoringStays DEF Account
<1> QED
  BY <1>5, <1>6, <1>7, <1>8

\* t lines up.
LEMMA LinedUp ==
  ASSUME NEW w \in Windows, NEW t \in Users, AtQueue(w, t), events[w] \in QueueRecord,
         ListIsRight(w), RingFits(w), events'[w] = Enqueue(events[w], t),
         pc[t] \in {"idle", "peek"}, pc'[t] = "wait", at'[t] = w, ~CanTake(events[w])
  PROVE  /\ ListIsRight(w)' /\ RingFits(w)'
         /\ CountIsRight(w) => CountIsRight(w)'
         /\ Account(w) => Account(w)'
<1> DEFINE q == events[w]
           r == events'[w]
<1>1. /\ r.items = q.items /\ r.full = q.full /\ r.slts = q.slts
      /\ r.msgs = q.msgs /\ r.waiters = Append(q.waiters, t)
  BY EnqueueIs
<1>2. /\ q.waiters \in Seq(Users) /\ q.msgs \in Int /\ q.slts \in Int /\ Len(q.items) \in Nat
      /\ Range(q.waiters) \subseteq Users
  BY FieldTypes, RangeIs
<1>3. \A u \in Users : u # t => pc'[u] = pc[u] /\ at'[u] = at[u]
  BY Names DEF AtQueue, OthersKeep
<1>4. (w \in shared => w \in shared') /\ (w \in missed => w \in missed')
  BY DEF AtQueue
<1>5. ListIsRight(w)'
  <2>1. IsInjective(q.waiters) /\ t \notin Range(q.waiters)
    BY DEF ListIsRight
  <2>2. IsInjective(r.waiters) /\ Range(r.waiters) = Range(q.waiters) \cup {t}
    BY <1>1, <1>2, <2>1, AppendedOnce
  <2>3. \A u \in Range(r.waiters) : pc'[u] = "wait" /\ at'[u] = w
    BY <1>2, <1>3, <2>2 DEF ListIsRight
  <2>4. Exists(w)' => \A u \in Users : pc'[u] = "wait" /\ at'[u] = w => u \in Range(r.waiters)
    BY <1>3, <2>2 DEF ListIsRight, AtQueue
  <2> QED
    BY <2>2, <2>3, <2>4 DEF ListIsRight
<1>6. RingFits(w)'
  BY <1>1, StoringStays DEF RingFits
<1>7. ASSUME CountIsRight(w) PROVE CountIsRight(w)'
  <2> SUFFICES ASSUME w \notin shared'
               PROVE  r.msgs = 0 /\ \A u \in Users : at'[u] = w => u = t
    BY DEF CountIsRight
  <2>1. q.msgs = 0
    BY <1>2, <1>4, <1>7 DEF CountIsRight, CanTake
  <2>2. \A u \in Users : at'[u] = w => u = t
    BY <1>3 DEF AtQueue, Sole
  <2> QED
    BY <1>1, <1>2, <2>1, <2>2
<1>8. ASSUME Account(w) PROVE Account(w)'
  <2> SUFFICES ASSUME Alive(w)' PROVE Account(w)'
    BY DEF Account
  <2>1. Alive(w)
    BY <1>3 DEF Alive, Gone
  <2>2. Cardinality(Taking(w))' = Cardinality(Taking(w)) /\ Cardinality(Taking(w)) \in Nat
    <3>1. t \notin Taking(w)' /\ t \notin Taking(w)
      BY DEF Taking
    <3> QED
      BY <3>1, TakingMoves DEF AtQueue
  <2>3. Taken(w)' = Taken(w) /\ Taken(w) \in Int
    BY <1>1, <1>2, <2>2, StoringStays, TakingIsFinite DEF Taken
  <2> QED
    BY <1>1, <1>4, <1>8, <2>1, <2>3, StoringStays DEF Account
<1> QED
  BY <1>5, <1>6, <1>7, <1>8

\* t reads, and leaves.
LEMMA ItemRead ==
  ASSUME NEW w \in Windows, NEW t \in Users, AtQueue(w, t), events[w] \in QueueRecord,
         ListIsRight(w), RingFits(w), NEW found \in BOOLEAN,
         found => events[w].items # <<>>, events'[w] = ReadItem(events[w], found),
         pc[t] = "take", at[t] = w, pc'[t] = "idle", at'[t] # w,
         ~found /\ events[w].items # <<>> => w \in missed'
  PROVE  /\ ListIsRight(w)' /\ RingFits(w)'
         /\ CountIsRight(w) => CountIsRight(w)'
         /\ CountIsRight(w) /\ Account(w) => Account(w)'
<1> DEFINE q == events[w]
           r == events'[w]
<1>1. /\ r.slts = q.slts + 1 /\ r.msgs = q.msgs /\ r.waiters = q.waiters
      /\ ~found => r.items = q.items /\ r.full = q.full
      /\ found => r.full = FALSE /\ Len(r.items) = Len(q.items) - 1
  <2> DEFINE s == ReadItem(q, found)
  <2>1. /\ s.slts = q.slts + 1 /\ s.msgs = q.msgs /\ s.waiters = q.waiters
        /\ ~found => s.items = q.items /\ s.full = q.full
        /\ found => s.full = FALSE /\ Len(s.items) = Len(q.items) - 1
    BY ReadItemIs, Zenon
  <2>2. r = s
    OBVIOUS
  <2> QED
    BY <2>1, <2>2, Zenon
<1>2. /\ q.waiters \in Seq(Users) /\ q.msgs \in Int /\ q.slts \in Int /\ Len(q.items) \in Nat
      /\ Range(q.waiters) \subseteq Users /\ (q.items = <<>> <=> Len(q.items) = 0)
  BY FieldTypes, RangeIs
<1>3. \A u \in Users : u # t => pc'[u] = pc[u] /\ at'[u] = at[u]
  BY Names DEF AtQueue, OthersKeep
<1>4. (w \in shared => w \in shared') /\ (w \in missed => w \in missed')
  BY DEF AtQueue
<1>5. ListIsRight(w)'
  <2>1. IsInjective(r.waiters)
    BY <1>1 DEF ListIsRight
  <2>2. \A u \in Range(r.waiters) : pc'[u] = "wait" /\ at'[u] = w
    BY <1>1, <1>2, <1>3 DEF ListIsRight
  <2>3. Exists(w)' => \A u \in Users : pc'[u] = "wait" /\ at'[u] = w => u \in Range(r.waiters)
    BY <1>1, <1>3 DEF ListIsRight, AtQueue
  <2> QED
    BY <2>1, <2>2, <2>3 DEF ListIsRight
<1>6. RingFits(w)'
  <2>1. /\ Storing(w, "full")' <=> Storing(w, "full")
        /\ Storing(w, "room")' <=> Storing(w, "room")
    BY StoringStays
  <2>2. Places \in Nat \ {0}
    BY Names
  <2>3. CASE ~found
    BY <1>1, <2>1, <2>3 DEF RingFits
  <2>4. CASE found
    <3>3. Len(r.items) = Len(q.items) - 1
      BY <1>1, <2>4, Zenon
    <3>1. Len(r.items) < Places
      BY <1>2, <2>2, <3>3 DEF RingFits
    <3>2. Len(r.items) <= Places /\ Len(r.items) # Places
      BY <1>2, <2>2, <3>1, <3>3
    <3> QED
      BY <3>1, <3>2 DEF RingFits
  <2> QED
    BY <2>3, <2>4
<1>7. ASSUME CountIsRight(w) PROVE CountIsRight(w)'
  BY <1>1, <1>3, <1>4, <1>7 DEF CountIsRight
<1>8. ASSUME CountIsRight(w), Account(w) PROVE Account(w)'
  <2> SUFFICES ASSUME Alive(w)' PROVE Account(w)'
    BY DEF Account
  <2>1. Alive(w)
    BY <1>3 DEF Alive, Gone
  <2>2. /\ Cardinality(Taking(w))' = Cardinality(Taking(w)) - 1
        /\ Cardinality(Taking(w)) \in Nat /\ Cardinality(Taking(w)) >= 1
    <3>1. t \notin Taking(w)' /\ t \in Taking(w)
      BY DEF Taking
    <3> QED
      BY <3>1, TakingMoves DEF AtQueue
  <2>3. Putting(w) \in {0, 1} /\ Putting(w)' = Putting(w)
    BY StoringStays, TakingIsFinite
  <2>4. Taken(w)' = Taken(w) - 1 /\ Taken(w) \in Int
    BY <1>1, <1>2, <2>2, <2>3 DEF Taken
  <2>5. r.slts + Taken(w)' = Places
    BY <1>1, <1>2, <1>8, <2>1, <2>4 DEF Account
  <2>6. ASSUME w \notin shared'
        PROVE  /\ w \notin missed' => Len(r.items) <= Taken(w)'
               /\ Storing(w, "full")' => Len(r.items) >= Taken(w)'
               /\ r.full => r.items # <<>>
    <3>1. /\ w \notin missed => Len(q.items) <= Taken(w)
          /\ Storing(w, "full") => Len(q.items) >= Taken(w)
          /\ q.full => q.items # <<>>
          /\ q.msgs >= 0
      BY <1>4, <1>8, <2>1, <2>6 DEF Account, CountIsRight
    <3>2. Storing(w, "full")' => Storing(w, "full") /\ Putting(w) = 1
      <4>1. Storing(w, "full")' => Storing(w, "full")
        BY StoringStays
      <4> QED
        BY <4>1 DEF Storing, Putting
    <3>3. CASE found
      <4>1. Len(r.items) = Len(q.items) - 1 /\ r.full = FALSE
        BY <1>1, <3>3, Zenon
      <4> QED
        BY <1>2, <1>4, <2>4, <3>1, <3>2, <4>1
    <3>4. CASE ~found
      <4>1. Taken(w) >= 1
        BY <1>2, <2>2, <2>3, <3>1 DEF Taken
      <4>2. w \notin missed' => q.items = <<>>
        BY <3>4
      <4>3. w \notin missed' => Len(r.items) <= Taken(w)'
        BY <1>1, <1>2, <2>4, <3>4, <4>1, <4>2
      <4>4. Storing(w, "full")' => Len(r.items) >= Taken(w)'
        BY <1>1, <1>2, <2>4, <3>1, <3>2, <3>4
      <4> QED
        BY <1>1, <3>1, <3>4, <4>3, <4>4
    <3> QED
      BY <3>3, <3>4
  <2> QED
    BY <2>5, <2>6 DEF Account
<1> QED
  BY <1>5, <1>6, <1>7, <1>8

\* t dies.
LEMMA ReaderDies ==
  ASSUME NEW w \in Windows, NEW t \in Users, AtQueue(w, t), events[w] \in QueueRecord,
         ListIsRight(w), RingFits(w), events'[w] = Dequeue(events[w], t),
         at[t] = w, pc'[t] = "dead", at'[t] = w
  PROVE  /\ ListIsRight(w)' /\ RingFits(w)'
         /\ CountIsRight(w) => CountIsRight(w)'
         /\ Account(w)'
<1> DEFINE q == events[w]
           r == events'[w]
<1>1. /\ r.items = q.items /\ r.full = q.full /\ r.slts = q.slts
      /\ r.msgs = q.msgs /\ r.waiters = Without(q.waiters, t)
  BY DequeueIs
<1>2. q.waiters \in Seq(Users) /\ Range(q.waiters) \subseteq Users
  BY FieldTypes, RangeIs
<1>3. \A u \in Users : u # t => pc'[u] = pc[u] /\ at'[u] = at[u]
  BY Names DEF AtQueue, OthersKeep
<1>4. (w \in shared => w \in shared') /\ (w \in missed => w \in missed')
  BY DEF AtQueue
<1>5. ListIsRight(w)'
  <2>1. IsInjective(q.waiters)
    BY DEF ListIsRight
  <2>2. IsInjective(r.waiters) /\ Range(r.waiters) = Range(q.waiters) \ {t}
    BY <1>1, <1>2, <2>1, WithoutOnce
  <2>3. \A u \in Range(r.waiters) : pc'[u] = "wait" /\ at'[u] = w
    BY <1>2, <1>3, <2>2 DEF ListIsRight
  <2>4. Exists(w)' => \A u \in Users : pc'[u] = "wait" /\ at'[u] = w => u \in Range(r.waiters)
    BY <1>3, <2>2 DEF ListIsRight, AtQueue
  <2> QED
    BY <2>2, <2>3, <2>4 DEF ListIsRight
<1>6. RingFits(w)'
  BY <1>1, StoringStays DEF RingFits
<1>7. ASSUME CountIsRight(w) PROVE CountIsRight(w)'
  BY <1>1, <1>3, <1>4, <1>7 DEF CountIsRight
<1>8. Account(w)'
  BY DEF Account, Alive, Gone
<1> QED
  BY <1>5, <1>6, <1>7, <1>8

\* What the steps of Put at window w have in common: no program moves but those
\* that are woken.
LEMMA ItemWritten ==
  ASSUME NEW w \in Windows, NEW m \in 1..MaxEvents, events[w] \in QueueRecord,
         ListIsRight(w), RingFits(w), CanPut(events[w]),
         events'[w] = WriteItem(events[w], m), hand'.flag = FlagAfter(events[w], m),
         \A u \in Users : pc'[u] = pc[u] /\ at'[u] = at[u],
         pc[Input] = "put", pc'[Input] = "store", at'[Input] = w,
         shared' = shared, missed' = missed, Exists(w)' => Exists(w)
  PROVE  /\ ListIsRight(w)' /\ RingFits(w)'
         /\ CountIsRight(w) => CountIsRight(w)'
         /\ Account(w) => Account(w)'
<1> DEFINE q == events[w]
           r == events'[w]
<1>1. /\ r.slts = q.slts - 1 /\ r.msgs = q.msgs /\ r.waiters = q.waiters
      /\ r.full = q.full
      /\ Len(r.items) = IF q.full THEN Len(q.items) ELSE Len(q.items) + 1
      /\ q.full => r.items = q.items
      /\ r.items \in Seq(1..MaxEvents)
  <2> DEFINE s == WriteItem(q, m)
  <2>1. /\ s.slts = q.slts - 1 /\ s.msgs = q.msgs /\ s.waiters = q.waiters
        /\ s.full = q.full
        /\ Len(s.items) = IF q.full THEN Len(q.items) ELSE Len(q.items) + 1
        /\ s.items = IF q.full THEN q.items ELSE Append(q.items, m)
        /\ s \in QueueRecord
    BY WriteItemIs, Zenon
  <2>2. s.items \in Seq(1..MaxEvents)
    BY <2>1, FieldTypes
  <2>3. r = s
    OBVIOUS
  <2> HIDE DEF s
  <2> QED
    BY <2>1, <2>2, <2>3
<1>2. /\ q.waiters \in Seq(Users) /\ q.msgs \in Int /\ q.slts \in Int /\ Len(q.items) \in Nat
      /\ q.full \in BOOLEAN
      /\ Range(q.waiters) \subseteq Users /\ (q.items = <<>> <=> Len(q.items) = 0)
  BY FieldTypes, RangeIs
<1>3. /\ Storing(w, "full")' <=> ~q.full /\ Len(q.items) + 1 = Places
      /\ Storing(w, "room")' <=> ~q.full /\ Len(q.items) + 1 # Places
  BY FlagAfterIs DEF Storing
<1>4. ~Storing(w, "full") /\ ~Storing(w, "room") /\ Putting(w) = 0 /\ Putting(w)' = 1
  BY DEF Storing, Putting
<1>5. Places \in Nat \ {0}
  BY Names
<1>6. ListIsRight(w)'
  <2>1. IsInjective(r.waiters)
    BY <1>1 DEF ListIsRight
  <2>2. \A u \in Range(r.waiters) : pc'[u] = "wait" /\ at'[u] = w
    BY <1>1, <1>2 DEF ListIsRight
  <2>3. Exists(w)' => \A u \in Users : pc'[u] = "wait" /\ at'[u] = w => u \in Range(r.waiters)
    BY <1>1 DEF ListIsRight
  <2> QED
    BY <2>1, <2>2, <2>3 DEF ListIsRight
<1>7. RingFits(w)'
  <2>1. /\ Len(q.items) <= Places
        /\ Len(q.items) = Places => q.full
    BY <1>4 DEF RingFits
  <2>2. /\ Len(r.items) <= Places
        /\ Len(r.items) = Places => r.full \/ Storing(w, "full")'
        /\ Storing(w, "room")' => Len(r.items) < Places
    BY <1>1, <1>2, <1>3, <1>5, <2>1
  <2> QED
    BY <2>2 DEF RingFits
<1>8. ASSUME CountIsRight(w) PROVE CountIsRight(w)'
  BY <1>1, <1>8 DEF CountIsRight
<1>9. ASSUME Account(w) PROVE Account(w)'
  <2> SUFFICES ASSUME Alive(w)' PROVE Account(w)'
    BY DEF Account
  <2>1. Alive(w)
    BY DEF Alive
  <2>2. Taking(w)' = Taking(w) /\ Cardinality(Taking(w)) \in Nat
    BY TakingIsFinite DEF Taking
  <2>3. Taken(w)' = Taken(w) + 1 /\ Taken(w) \in Int
    BY <1>1, <1>2, <1>4, <2>2 DEF Taken
  <2>4. q.slts >= 1
    BY <1>2 DEF CanPut
  <2>5. q.slts + Taken(w) = Places
    BY <1>9, <2>1 DEF Account
  <2>6. r.slts + Taken(w)' = Places
    <3> DEFINE a == r.slts
               b == Taken(w)'
               c == Taken(w)
               d == q.slts
    <3>1. a = d - 1 /\ b = c + 1 /\ d + c = Places /\ c \in Int /\ d \in Int
      BY <1>1, <1>2, <2>3, <2>5
    <3> HIDE DEF a, b, c, d
    <3>2. a + b = Places
      BY <3>1
    <3> QED
      BY <3>2 DEF a, b
  <2>7. ASSUME w \notin shared
        PROVE  /\ w \notin missed => Len(r.items) <= Taken(w)'
               /\ Storing(w, "full")' => Len(r.items) >= Taken(w)'
               /\ r.full => r.items # <<>>
    <3>1. (w \notin missed => Len(q.items) <= Taken(w)) /\ (q.full => q.items # <<>>)
      BY <1>9, <2>1, <2>7 DEF Account
    <3>2. Taken(w) <= Places - 1
      BY <1>2, <1>5, <2>3, <2>4, <2>5
    <3> QED
      BY <1>1, <1>2, <1>3, <1>5, <2>3, <3>1, <3>2
  <2> QED
    BY <2>6, <2>7 DEF Account
<1> QED
  BY <1>6, <1>7, <1>8, <1>9

\* The flag is stored, and the first waiter is woken.
LEMMA PutFinished ==
  ASSUME NEW w \in Windows, events[w] \in QueueRecord, hand.flag \in Flags,
         ListIsRight(w), RingFits(w), events'[w] = FinishPut(events[w], hand.flag),
         at' = [at EXCEPT ![Input] = Desktop], at \in [Threads -> Windows],
         pc[Input] = "store", pc'[Input] = "idle", at[Input] = w,
         \A u \in Users : pc'[u] = IF events[w].waiters # <<>> /\ u = Head(events[w].waiters)
                                   THEN "woken" ELSE pc[u],
         shared' = shared, missed' = missed, Exists(w)' => Exists(w), Exists(w),
         w \notin shared => \A u, v \in Users :
           at[u] = w /\ at[v] = w /\ pc[u] = "wait" /\ pc[v] = "wait" => u = v
  PROVE  /\ ListIsRight(w)' /\ RingFits(w)'
         /\ CountIsRight(w) => CountIsRight(w)'
         /\ CountIsRight(w) /\ Account(w) => Account(w)'
<1> DEFINE q == events[w]
           r == events'[w]
           woken == q.waiters # <<>>
           first == Head(q.waiters)
<1>1. /\ r.slts = q.slts /\ r.msgs = q.msgs + 1 /\ r.items = q.items
      /\ r.full = (IF hand.flag = "same" THEN q.full ELSE hand.flag = "full")
      /\ r.waiters = IF woken THEN Tail(q.waiters) ELSE q.waiters
  <2> DEFINE s == FinishPut(q, hand.flag)
  <2>1. /\ s.slts = q.slts /\ s.msgs = q.msgs + 1 /\ s.items = q.items
        /\ s.full = (IF hand.flag = "same" THEN q.full ELSE hand.flag = "full")
        /\ s.waiters = IF q.waiters = <<>> THEN q.waiters ELSE Tail(q.waiters)
    BY FinishPutIs, Zenon
  <2>3. r = s
    OBVIOUS
  <2> HIDE DEF s
  <2> QED
    BY <2>1, <2>3
<1>2. /\ q.waiters \in Seq(Users) /\ q.msgs \in Int /\ q.slts \in Int /\ Len(q.items) \in Nat
      /\ q.full \in BOOLEAN
      /\ Range(q.waiters) \subseteq Users /\ (q.items = <<>> <=> Len(q.items) = 0)
      /\ (q.waiters = <<>> <=> Range(q.waiters) = {})
  BY FieldTypes, RangeIs
<1>3. \A u \in Users : at'[u] = at[u]
  BY Names
<1>4. at'[Input] # w \/ pc'[Input] # "store"
  OBVIOUS
<1>5. ~Storing(w, "full")' /\ ~Storing(w, "room")' /\ Putting(w) = 1 /\ Putting(w)' = 0
      /\ (Storing(w, "full") <=> hand.flag = "full") /\ (Storing(w, "room") <=> hand.flag = "room")
  BY DEF Storing, Putting
<1>6. /\ IsInjective(q.waiters)
      /\ \A u \in Range(q.waiters) : pc[u] = "wait" /\ at[u] = w
      /\ \A u \in Users : pc[u] = "wait" /\ at[u] = w => u \in Range(q.waiters)
  BY DEF ListIsRight
<1>7. woken => /\ first \in Range(q.waiters) /\ IsInjective(Tail(q.waiters))
               /\ Range(Tail(q.waiters)) = Range(q.waiters) \ {first}
  BY <1>2, <1>6, TailOnce
<1>8. \A u \in Users : pc'[u] = IF woken /\ u = first THEN "woken" ELSE pc[u]
  OBVIOUS
<1> HIDE DEF first, woken, r
<1>9. woken => first \in Users /\ pc[first] = "wait" /\ at[first] = w
  BY <1>2, <1>6, <1>7
<1>10. ~woken => Range(q.waiters) = {}
  BY <1>2 DEF woken
<1>11. ListIsRight(w)'
  <2>1. IsInjective(r.waiters)
    BY <1>1, <1>6, <1>7
  <2>2. Range(r.waiters) = Range(q.waiters) \ (IF woken THEN {first} ELSE {})
    BY <1>1, <1>7
  <2>3. \A u \in Range(r.waiters) : pc'[u] = "wait" /\ at'[u] = w
    BY <1>2, <1>3, <1>6, <1>8, <2>2
  <2>4. \A u \in Users : pc'[u] = "wait" /\ at'[u] = w => u \in Range(r.waiters)
    BY <1>3, <1>6, <1>8, <2>2
  <2> QED
    BY <2>1, <2>3, <2>4 DEF ListIsRight, r
<1>12. Places \in Nat \ {0}
  BY Names
<1>13. RingFits(w)'
  <2>1. /\ Len(q.items) <= Places
        /\ Len(q.items) = Places => q.full \/ hand.flag = "full"
        /\ hand.flag = "room" => Len(q.items) < Places
    BY <1>5 DEF RingFits
  <2>2. /\ Len(r.items) <= Places
        /\ Len(r.items) = Places => r.full
    <3>1. hand.flag = "same" => r.full = q.full
      BY <1>1, Zenon
    <3>2. hand.flag = "full" => r.full
      BY <1>1, Zenon
    <3>3. Len(r.items) = Len(q.items)
      BY <1>1
    <3> QED
      BY <1>2, <1>12, <2>1, <3>1, <3>2, <3>3 DEF Flags
  <2> QED
    BY <1>5, <2>2 DEF RingFits, r
<1>14. ASSUME CountIsRight(w) PROVE CountIsRight(w)'
  <2> SUFFICES ASSUME w \notin shared PROVE CountIsRight(w)'
    BY DEF CountIsRight
  <2>1. /\ q.msgs >= 0
        /\ \A u \in Users : at[u] = w =>
             (pc[u] = "wait" => q.msgs = 0) /\ (pc[u] = "woken" => q.msgs >= 1)
    BY <1>14 DEF CountIsRight
  <2>2. ASSUME NEW u \in Users, at'[u] = w PROVE pc'[u] # "wait"
    <3>1. pc[u] = "wait" /\ at[u] = w => u \in Range(q.waiters)
      BY <1>6
    <3>2. pc[u] = "wait" => woken /\ at[u] = w
      BY <1>3, <1>10, <2>2, <3>1
    <3>3. \A v \in Users :
            at[v] = w /\ at[u] = w /\ pc[v] = "wait" /\ pc[u] = "wait" => v = u
      BY Zenon
    <3>4. pc[u] = "wait" => first = u
      BY <1>9, <3>2, <3>3
    <3> QED
      BY <1>8, <3>2, <3>4
  <2>3. r.msgs >= 1
    BY <1>1, <1>2, <2>1
  <2>4. r.msgs >= 0
    BY <1>1, <1>2, <2>1
  <2> QED
    BY <2>2, <2>3, <2>4 DEF CountIsRight, r
<1>15. ASSUME CountIsRight(w), Account(w) PROVE Account(w)'
  <2> SUFFICES ASSUME Alive(w)' PROVE Account(w)'
    BY DEF Account
  <2>1. Alive(w)
    <3>1. \A u \in Users : pc[u] \in Gone => pc'[u] = pc[u]
      BY <1>8, <1>9 DEF Gone
    <3> QED
      BY <1>3, <3>1 DEF Alive
  <2>2. Taking(w)' = Taking(w) /\ Cardinality(Taking(w)) \in Nat
    <3>1. \A u \in Users : pc'[u] = "take" <=> pc[u] = "take"
      BY <1>8, <1>9
    <3>2. Taking(w)' = Taking(w)
      BY <1>3, <3>1 DEF Taking
    <3> QED
      BY <3>2, TakingIsFinite
  <2>3. Taken(w)' = Taken(w) /\ Taken(w) \in Int
    BY <1>1, <1>2, <1>5, <2>2 DEF Taken, r
  <2>4. r.slts + Taken(w)' = Places
    BY <1>1, <1>15, <2>1, <2>3 DEF Account
  <2>5. ASSUME w \notin shared
        PROVE  (w \notin missed => Len(r.items) <= Taken(w)') /\ (r.full => r.items # <<>>)
    <3>1. /\ w \notin missed => Len(q.items) <= Taken(w)
          /\ (q.full => q.items # <<>>) /\ q.msgs >= 0
          /\ hand.flag = "full" => Len(q.items) >= Taken(w)
      BY <1>5, <1>15, <2>1, <2>5 DEF Account, CountIsRight
    <3>2. Taken(w) >= 1
      BY <1>2, <1>5, <2>2, <3>1 DEF Taken
    <3> QED
      BY <1>1, <1>2, <2>3, <3>1, <3>2
  <2> QED
    BY <1>5, <2>4, <2>5 DEF Account, r
<1> QED
  BY <1>11, <1>13, <1>14, <1>15

\* The queue of a window that comes or goes is empty.
LEMMA QueueIsFresh ==
  ASSUME NEW w \in Windows, events'[w] = Fresh
  PROVE  /\ (Exists(w)' => \A t \in Users : at'[t] # w) => ListIsRight(w)'
         /\ RingFits(w)'
         /\ (\A t \in Users : at'[t] # w) => CountIsRight(w)'
         /\ (\A t \in Threads : at'[t] # w) => Account(w)'
<1>1. /\ Fresh.items = <<>> /\ Fresh.waiters = <<>> /\ Fresh.full = FALSE
      /\ Fresh.msgs = 0 /\ Fresh.slts = Places /\ Len(Fresh.items) = 0
      /\ Places \in Nat \ {0}
  BY FreshIs, Names
<1>2. Range(<<>>) = {} /\ IsInjective(<<>>)
  BY DEF Range, IsInjective
<1>3. (Exists(w)' => \A t \in Users : at'[t] # w) => ListIsRight(w)'
  BY <1>1, <1>2 DEF ListIsRight
<1>4. RingFits(w)'
  BY <1>1 DEF RingFits
<1>5. (\A t \in Users : at'[t] # w) => CountIsRight(w)'
  BY <1>1 DEF CountIsRight
<1>6. ASSUME \A t \in Threads : at'[t] # w PROVE Account(w)'
  <2>1. Taking(w)' = {} /\ Putting(w)' = 0 /\ ~Storing(w, "full")'
    BY <1>6, Names DEF Taking, Putting, Storing
  <2>2. Cardinality(Taking(w)') = 0
    BY <2>1, FS_EmptySet
  <2>3. Taken(w)' = 0
    BY <1>1, <2>1, <2>2 DEF Taken
  <2> QED
    BY <1>1, <2>1, <2>3 DEF Account
<1> QED
  BY <1>3, <1>4, <1>5, <1>6

-----------------------------------------------------------------------------
(* Types.                                                                  *)

\* Alt+tab finds a window that is there, and is not the mouse pointer.
LEMMA PreviousIs ==
  ASSUME IsStack(windows)
  PROVE  Previous \in Range(windows) /\ Previous # MouseWindow /\ Previous \in Windows
<1> DEFINE n == Len(windows)
           stop == {i \in DOMAIN windows : windows[i] \in {active, MouseWindow}}
           i == CHOOSE j \in stop : \A k \in stop : j <= k
<1>1. /\ n \in Nat /\ n >= 1 /\ DOMAIN windows = 1..n
      /\ Range(windows) = {windows[k] : k \in 1..n} /\ Range(windows) \subseteq Windows
      /\ Desktop \in Range(windows) /\ windows \in Seq(Windows)
      /\ IsInjective(windows)
      /\ MouseWindow \in Range(windows) => windows[n] = MouseWindow
  BY StackEnds DEF IsStack
<1>2. stop # {} => \E m \in stop : \A k \in stop : m <= k
  <2>1. \A k \in 1..n : windows[k] = MouseWindow => k = n
    <3>1. \A k, l \in 1..n : windows[k] = windows[l] => k = l
      BY StackEnds
    <3>2. n \in 1..n
      BY <1>1
    <3>3. ASSUME NEW k \in 1..n, windows[k] = MouseWindow PROVE k = n
      <4>1. windows[n] = MouseWindow
        BY <1>1, <3>3
      <4> QED
        BY <3>1, <3>2, <3>3, <4>1
    <3> QED
      BY <3>3
  <2>4. \A k \in stop : k \in 1..n /\ (windows[k] = active \/ windows[k] = MouseWindow)
    BY <1>1
  <2> HIDE DEF stop
  <2>2. CASE active \in Range(windows)
    <3>0. /\ Position(windows, active) \in 1..n /\ windows[Position(windows, active)] = active
          /\ \A k \in 1..n : windows[k] = active => k = Position(windows, active)
      BY <1>1, <2>2, PositionIs
    <3>1. PICK m \in 1..n : /\ windows[m] = active
                            /\ \A k \in 1..n : windows[k] = active => k = m
      BY <3>0, Zenon
    <3>2. m \in stop
      BY <1>1, <3>1 DEF stop
    <3>3. \A k \in stop : m <= k
      <4> TAKE k \in stop
      <4>1. k = m \/ k = n
        BY <2>1, <2>4, <3>1
      <4> QED
        BY <1>1, <3>1, <4>1
    <3> QED
      BY <3>2, <3>3
  <2>3. CASE active \notin Range(windows)
    <3>2. \A k \in 1..n : windows[k] # active
      BY <1>1, <2>3
    <3>1. stop # {} => n \in stop
      BY <2>1, <2>4, <3>2
    <3>3. \A k \in stop : n <= k
      <4> TAKE k \in stop
      <4>1. k = n
        BY <2>1, <2>4, <3>2
      <4> QED
        BY <1>1, <4>1
    <3> QED
      BY <3>1, <3>3
  <2> QED
    BY <2>2, <2>3
<1>3. Previous = IF stop = {} THEN windows[n]
                 ELSE IF i = 1 THEN Desktop ELSE windows[i - 1]
  BY Zenon DEF Previous
<1>7. CASE stop = {}
  <2>1. n \in 1..n
    BY <1>1
  <2>2. windows[n] # MouseWindow
    BY <1>1, <1>7, <2>1
  <2> QED
    BY <1>1, <1>3, <1>7, <2>1, <2>2
<1>4. stop # {} => i \in stop /\ \A k \in stop : i <= k
  BY <1>2, Zenon
<1> HIDE DEF i
<1>5. CASE stop # {} /\ i = 1
  BY <1>1, <1>3, <1>5, Names
<1>6. CASE stop # {} /\ i # 1
  <2>1. i - 1 \in 1..n /\ ~(i <= i - 1)
    BY <1>1, <1>4, <1>6
  <2>2. i - 1 \notin stop
    BY <1>4, <2>1
  <2>3. windows[i - 1] # MouseWindow
    BY <1>1, <2>1, <2>2
  <2> QED
    BY <1>1, <1>3, <1>6, <2>1, <2>3
<1> QED
  BY <1>5, <1>6, <1>7

\* The variables start with their types.
LEMMA TypedInit == Init => Typed
<1> SUFFICES ASSUME Init PROVE Typed
  OBVIOUS
<1>1. ring \in Seq(Event) /\ Len(ring) = 0
  BY DEF Init
<1>2. events \in [Windows -> QueueRecord]
  BY FreshIs DEF Init
<1>3. hand \in [event : Event \cup {NoEvent}, flag : Flags]
  BY DEF Init, NoWork, Flags
<1>4. pc = [t \in Threads |-> "idle"] /\ pc[Input] = "idle" /\ \A t \in Users : pc[t] = "idle"
  BY Names DEF Init
<1>5. owner \in [Windows -> Threads \cup {NoOne}] /\ at \in [Threads -> Windows]
  BY Names DEF Init
<1>7. seen \in [Windows -> 0..MaxEvents]
  <2>1. 0 \in 0..MaxEvents
    BY Names
  <2> QED
    BY <2>1 DEF Init
<1>8. nextId \in 3..(MaxWindow + 1) /\ signals = 0 /\ typed = 0
  BY Names DEF Init
<1>9. /\ active \in Windows /\ lock \in Threads \cup {NoOne}
      /\ raced = "never" /\ shared \subseteq Windows /\ missed \subseteq Windows
      /\ fault = "none"
  BY Names, Zenon DEF Init
<1>6. Len(ring) <= RingSize /\ signals \in Nat /\ typed \in 0..MaxEvents /\ signals <= typed
  BY <1>1, <1>8, Names
<1> QED
  BY <1>1, <1>2, <1>3, <1>4, <1>5, <1>6, <1>7, <1>8, <1>9 DEF Typed, DevicesTyped,
     ScreenTyped, EventsTyped, ThreadsTyped, HandTyped, HistoryTyped

\* What a handler and the input thread do to the devices keeps their types.
LEMMA DevicesStep == ASSUME DevicesTyped, [Next]_vars PROVE DevicesTyped'
<1>1. ASSUME NEW kind \in Kinds, Interrupt(kind) PROVE DevicesTyped'
  <2>1. /\ ring' = IF Len(ring) = RingSize THEN ring
                  ELSE Append(ring, [kind |-> kind, number |-> typed + 1])
        /\ typed' = typed + 1 /\ signals' = signals + 1 /\ typed < MaxEvents
    BY <1>1 DEF Interrupt
  <2>2. typed + 1 \in 1..MaxEvents /\ typed' \in 0..MaxEvents /\ typed \in Nat
    BY <2>1, Names DEF DevicesTyped
  <2>3. [kind |-> kind, number |-> typed + 1] \in Event
    BY <2>2, WindowManagerAssumption DEF Event
  <2>4. ring' \in Seq(Event) /\ Len(ring') <= RingSize
    <3>1. CASE Len(ring) = RingSize
      BY <2>1, <3>1 DEF DevicesTyped
    <3>2. CASE Len(ring) # RingSize
      <4>1. ring' = Append(ring, [kind |-> kind, number |-> typed + 1])
        BY <2>1, <3>2
      <4> QED
        BY <2>3, <3>2, <4>1, Names DEF DevicesTyped
    <3> QED
      BY <3>1, <3>2
  <2> QED
    BY <2>1, <2>2, <2>4 DEF DevicesTyped
<1>2. CASE TakeInput
  <2>1. signals' = signals - 1 /\ signals > 0 /\ typed' = typed
    BY <1>2 DEF TakeInput
  <2>2. ring' \in Seq(Event) /\ Len(ring') <= RingSize
    <3>1. CASE ring = <<>>
      BY <1>2, <3>1 DEF TakeInput, DevicesTyped
    <3>2. CASE ring # <<>>
      <4>1. ring' = Tail(ring)
        BY <1>2, <3>2 DEF TakeInput
      <4> QED
        BY <3>2, <4>1, Names DEF DevicesTyped
    <3> QED
      BY <3>1, <3>2
  <2> QED
    BY <2>1, <2>2 DEF DevicesTyped
<1>3. CASE HandleKey
  BY <1>3 DEF HandleKey, Devices, Screen, History, Goto, DevicesTyped
<1>4. CASE HandleTab
  BY <1>4 DEF HandleTab, Devices, Screen, History, Goto, DevicesTyped
<1>5. CASE FindWindow
  BY <1>5 DEF FindWindow, Devices, Screen, History, Goto, DevicesTyped
<1>22. CASE MoveFocus
  BY <1>22 DEF MoveFocus, Devices, History, Goto, DevicesTyped
<1>23. CASE RemoveWindow
  BY <1>23
     DEF RemoveWindow, Devices, History, InputReturns, Return, Goto, DevicesTyped
<1>24. CASE InsertWindow
  BY <1>24
     DEF InsertWindow, Devices, History, InputReturns, Return, Goto, DevicesTyped
<1>25. ASSUME NEW t \in Users, NEW u \in Threads, TearRing(t, u) PROVE DevicesTyped'
  BY <1>25 DEF TearRing, Devices, Screen, DevicesTyped
<1>26. ASSUME NEW t \in Threads, NEW u \in Threads, TearList(t, u) PROVE DevicesTyped'
  BY <1>26 DEF TearList, Devices, Screen, DevicesTyped
<1>6. ASSUME NEW w \in Windows, NEW pressed \in BOOLEAN, NEW held \in BOOLEAN,
             NEW passed \in BOOLEAN, HandleMouse(w, pressed, held, passed)
      PROVE  DevicesTyped'
  BY <1>6 DEF HandleMouse, Devices, InputReturns, Return, Goto, DevicesTyped
<1>7. CASE MouseTimesOut
  BY <1>7 DEF MouseTimesOut, Devices, Screen, History, InputReturns, Return, Goto,
     DevicesTyped
<1>8. CASE PutEvent
  BY <1>8 DEF PutEvent, Devices, Screen, History, InputReturns, Return, Goto,
     DevicesTyped
<1>9. CASE StoreEvent
  BY <1>9 DEF StoreEvent, Devices, Screen, History, DevicesTyped
<1>10. ASSUME NEW t \in Users, CreateWindow(t) PROVE DevicesTyped'
  BY <1>10 DEF CreateWindow, Devices, Meets, DevicesTyped
<1>11. ASSUME NEW t \in Users, FinalizeThread(t) PROVE DevicesTyped'
  BY <1>11 DEF FinalizeThread, Devices, Screen, History, Goto, DevicesTyped
<1>12. ASSUME NEW t \in Users, DestroyThreadWindows(t) PROVE DevicesTyped'
  BY <1>12 DEF DestroyThreadWindows, Devices, Goto, DevicesTyped
<1>13. ASSUME NEW t \in Users, NEW w \in Windows, DestroyWindow(t, w)
       PROVE  DevicesTyped'
  BY <1>13 DEF DestroyWindow, Devices, DevicesTyped
<1>14. ASSUME NEW t \in Users, NEW w \in Windows, HideWindow(t, w)
       PROVE  DevicesTyped'
  BY <1>14 DEF HideWindow, Devices, Screen, DevicesTyped
<1>15. ASSUME NEW t \in Users, NEW w \in Windows, BringWindowToFront(t, w)
       PROVE  DevicesTyped'
  BY <1>15 DEF BringWindowToFront, Devices, Meets, DevicesTyped
<1>16. ASSUME NEW t \in Users, NEW w \in Windows, GetEvent(t, w) PROVE DevicesTyped'
  BY <1>16 DEF GetEvent, Devices, Screen, Reads, Wait, Goto, DevicesTyped
<1>17. ASSUME NEW t \in Users, NEW w \in Windows, PeekEvent(t, w)
       PROVE  DevicesTyped'
  BY <1>17 DEF PeekEvent, Devices, Screen, Reads, Goto, DevicesTyped
<1>18. ASSUME NEW t \in Users, PeekTakes(t) PROVE DevicesTyped'
  BY <1>18 DEF PeekTakes, Devices, Screen, History, Wait, Goto, DevicesTyped
<1>19. ASSUME NEW t \in Users, WaitReturns(t) PROVE DevicesTyped'
  BY <1>19 DEF WaitReturns, Devices, Screen, History, Goto, DevicesTyped
<1>20. ASSUME NEW t \in Users, TakeEvent(t) PROVE DevicesTyped'
  BY <1>20 DEF TakeEvent, Devices, Screen, Return, Goto, DevicesTyped
<1>21. CASE UNCHANGED vars
  BY <1>21 DEF vars, DevicesTyped
<1> QED
    BY <1>1, <1>2, <1>3, <1>4, <1>5, <1>6, <1>7, <1>8, <1>9, <1>10, <1>11, <1>12,
     <1>13, <1>14, <1>15, <1>16, <1>17, <1>18, <1>19, <1>20, <1>21, <1>22, <1>23, <1>24, <1>25,
     <1>26 DEF Next,
     InputStep, ReadStep

\* A step that leaves the screen alone, and the input thread in alt+tab
Calm ==
  /\ UNCHANGED <<Screen, raced>>
  /\ pc[Input] \in Unlocked \/ pc'[Input] \in Unlocked =>
       pc'[Input] = pc[Input] /\ at'[Input] = at[Input]

\* A thread of a program does not move the input thread.
LEMMA InputStays ==
  ASSUME ThreadsTyped, NEW t \in Users,
         pc' = pc \/ \E p : pc' = [pc EXCEPT ![t] = p],
         at' = at \/ \E w : at' = [at EXCEPT ![t] = w]
  PROVE  pc'[Input] = pc[Input] /\ at'[Input] = at[Input]
BY Names DEF ThreadsTyped

\* The steps that change the screen, and the ones of alt+tab
LEMMA CalmOrNot ==
  ASSUME ThreadsTyped, [Next]_vars
  PROVE  \/ Calm
         \/ HandleTab \/ FindWindow \/ MoveFocus \/ RemoveWindow \/ InsertWindow
         \/ \E w \in Windows, pressed, held, passed \in BOOLEAN :
              HandleMouse(w, pressed, held, passed)
         \/ \E t \in Users : CreateWindow(t) \/ DestroyThreadWindows(t)
         \/ \E t \in Users, w \in Windows :
              DestroyWindow(t, w) \/ BringWindowToFront(t, w)
<1>1. ASSUME NEW kind \in Kinds, Interrupt(kind) PROVE Calm
  BY <1>1 DEF Interrupt, Screen, History, Calm
<1>2. CASE TakeInput
  <2>1. UNCHANGED <<Screen, raced>> /\ pc[Input] = "idle" /\ pc'[Input] \in {"idle", "event"}
    BY <1>2, Names DEF TakeInput, Screen, History, Goto, ThreadsTyped
  <2> QED
    BY <2>1 DEF Calm, Unlocked
<1>3. CASE HandleKey
  <2>1. UNCHANGED <<Screen, raced>> /\ pc[Input] = "event" /\ pc'[Input] = "put"
    BY <1>3, Names DEF HandleKey, Handling, Screen, History, Goto, ThreadsTyped
  <2> QED
    BY <2>1 DEF Calm, Unlocked
<1>7. CASE MouseTimesOut
  <2>1. UNCHANGED <<Screen, raced>> /\ pc[Input] = "event" /\ pc'[Input] = "idle"
    BY <1>7, Names DEF MouseTimesOut, Handling, Screen, History, InputReturns, Return,
       Goto, ThreadsTyped
  <2> QED
    BY <2>1 DEF Calm, Unlocked
<1>8. CASE PutEvent
  <2>1. UNCHANGED <<Screen, raced>> /\ pc[Input] = "put" /\ pc'[Input] \in {"idle", "store"}
    BY <1>8, Names DEF PutEvent, Screen, History, InputReturns, Return, Goto,
       ThreadsTyped
  <2> QED
    BY <2>1 DEF Calm, Unlocked
<1>9. CASE StoreEvent
  <2>1. UNCHANGED <<Screen, raced>> /\ pc[Input] = "store" /\ pc'[Input] = "idle"
    BY <1>9, Names DEF StoreEvent, Screen, History
  <2> QED
    BY <2>1 DEF Calm, Unlocked
<1>11. ASSUME NEW t \in Users, FinalizeThread(t) PROVE Calm
  BY <1>11, InputStays DEF FinalizeThread, Screen, History, Goto, Calm
<1>14. ASSUME NEW t \in Users, NEW w \in Windows, HideWindow(t, w) PROVE Calm
  BY <1>14 DEF HideWindow, Screen, Calm
<1>16. ASSUME NEW t \in Users, NEW w \in Windows, GetEvent(t, w) PROVE Calm
  <2>1. UNCHANGED <<Screen, raced>> /\ \E p : pc' = [pc EXCEPT ![t] = p]
    BY <1>16 DEF GetEvent, Wait, Goto, Screen
  <2>2. \E v : at' = [at EXCEPT ![t] = v]
    BY <1>16 DEF GetEvent, Reads
  <2> QED
    BY <2>1, <2>2, InputStays DEF Calm
<1>17. ASSUME NEW t \in Users, NEW w \in Windows, PeekEvent(t, w) PROVE Calm
  <2>1. UNCHANGED <<Screen, raced>> /\ \E p : pc' = [pc EXCEPT ![t] = p]
    BY <1>17 DEF PeekEvent, Goto, Screen
  <2>2. \E v : at' = [at EXCEPT ![t] = v]
    BY <1>17 DEF PeekEvent, Reads
  <2> QED
    BY <2>1, <2>2, InputStays DEF Calm
<1>18. ASSUME NEW t \in Users, PeekTakes(t) PROVE Calm
  <2>1. UNCHANGED <<Screen, raced, at>> /\ \E p : pc' = [pc EXCEPT ![t] = p]
    BY <1>18 DEF PeekTakes, Wait, Goto, Screen, History
  <2> QED
    BY <2>1, InputStays DEF Calm
<1>19. ASSUME NEW t \in Users, WaitReturns(t) PROVE Calm
  BY <1>19, InputStays DEF WaitReturns, Screen, History, Goto, Calm
<1>20. ASSUME NEW t \in Users, TakeEvent(t) PROVE Calm
  BY <1>20, InputStays DEF TakeEvent, Screen, Return, Goto, Calm
<1>21. CASE UNCHANGED vars
  BY <1>21 DEF vars, Screen, Calm
<1>25. ASSUME NEW t \in Users, NEW u \in Threads, TearRing(t, u) PROVE Calm
  BY <1>25 DEF TearRing, Screen, Calm
<1>26. ASSUME NEW t \in Threads, NEW u \in Threads, TearList(t, u) PROVE Calm
  BY <1>26 DEF TearList, Screen, Calm
<1> QED
  BY <1>1, <1>2, <1>3, <1>7, <1>8, <1>9, <1>11, <1>14, <1>16, <1>17, <1>18, <1>19,
     <1>20, <1>21, <1>25, <1>26 DEF Next, InputStep, ReadStep

\* The windows of a thread that ends are taken out of the list, in one step for all.
LEMMA OwnWindowsGo ==
  ASSUME Stacked, NEW t \in Users, DestroyThreadWindows(t)
  PROVE  LET own == {w \in Range(windows) : owner[w] = t}
         IN  /\ IsStack(windows') /\ Range(windows') = Range(windows) \ own
             /\ active' = IF own = {} THEN active ELSE Focus(windows')
<1> DEFINE own == {w \in Range(windows) : owner[w] = t}
           kept == Range(windows) \ own
<1>1. IF own = {} THEN UNCHANGED <<windows, active>>
      ELSE /\ \E rest \in [1..Cardinality(kept) -> kept] :
                Leaves(windows, kept, rest) /\ windows' = rest
           /\ active' = Focus(windows')
  BY Zenon DEF DestroyThreadWindows
<1>2. /\ kept \subseteq Range(windows) /\ Desktop \in kept
      /\ Range(windows) \subseteq Windows
  BY StackEnds, Names DEF Stacked
<1>3. Cardinality(kept) \in Nat
  <2>1. IsFiniteSet(Windows)
    BY FS_Interval, Names
  <2> QED
    BY <1>2, <2>1, FS_Subset, FS_CardinalityType
<1>4. own = {} => kept = Range(windows)
  OBVIOUS
<1> HIDE DEF kept, own
<1>5. CASE own = {}
  <2>1. IsStack(windows') /\ Range(windows') = kept /\ active' = active
    BY <1>1, <1>4, <1>5 DEF Stacked
  <2> QED
    BY <1>5, <2>1 DEF kept, own
<1>6. CASE own # {}
  <2>1. PICK rest \in [1..Cardinality(kept) -> kept] :
          Leaves(windows, kept, rest) /\ windows' = rest
    BY <1>1, <1>6
  <2>2. IsStack(rest) /\ Range(rest) = kept
    BY <1>2, <1>3, <2>1, StackLeaves DEF Stacked
  <2>3. IsStack(windows') /\ Range(windows') = kept /\ active' = Focus(windows')
    BY <1>1, <1>6, <2>1, <2>2
  <2> QED
    BY <1>6, <2>3 DEF kept, own
<1> QED
  BY <1>5, <1>6

\* No step breaks the stack of windows, nor the types of the screen.
LEMMA StackedStep ==
  ASSUME ScreenTyped, Stacked, ThreadsTyped, Unborn, [Next]_vars
  PROVE  ScreenTyped' /\ Stacked'
<1>1. CASE Calm
  BY <1>1 DEF Calm, Screen, Unlocked, ScreenTyped, Stacked
<1>2. CASE HandleTab
  <2>1. UNCHANGED Screen /\ pc'[Input] = "walk"
    BY <1>2, Names DEF HandleTab, Goto, ThreadsTyped
  <2> QED
    BY <2>1 DEF Screen, ScreenTyped, Stacked
<1>3. CASE FindWindow
  <2>1. UNCHANGED Screen /\ pc'[Input] \in {"put", "focus"}
    BY <1>3, Names DEF FindWindow, Goto, ThreadsTyped
  <2> QED
    BY <2>1 DEF Screen, ScreenTyped, Stacked
<1>4. CASE MoveFocus
  <2>1. /\ UNCHANGED <<windows, owner, nextId>> /\ pc'[Input] = "raise"
        /\ active' \in 0..(nextId - 1) \cup {at[Input]}
    BY <1>4, Names DEF MoveFocus, Goto, ThreadsTyped
  <2>2. active' \in Windows /\ active' < nextId
    BY <2>1, Names DEF ScreenTyped, ThreadsTyped, Unborn
  <2> QED
    BY <2>1, <2>2 DEF ScreenTyped, Stacked
<1>5. CASE RemoveWindow
  <2>1. UNCHANGED <<owner, nextId, active>>
    BY <1>5 DEF RemoveWindow
  <2>2. CASE Open(at[Input]) /\ at[Input] # Desktop
    <3>1. windows' = Without(windows, at[Input]) /\ at' = at
      BY <1>5, <2>2 DEF RemoveWindow
    <3>2. IsStack(windows') /\ Range(windows') = Range(windows) \ {at[Input]}
      BY <2>2, <3>1, StackWithout DEF Stacked, Open
    <3> QED
      BY <2>1, <2>2, <3>1, <3>2 DEF ScreenTyped, Stacked
  <2>3. CASE ~(Open(at[Input]) /\ at[Input] # Desktop)
    <3>1. windows' = windows /\ pc'[Input] = "idle"
      BY <1>5, <2>3, Names DEF RemoveWindow, InputReturns, Return, Goto, ThreadsTyped
    <3> QED
      BY <2>1, <3>1 DEF ScreenTyped, Stacked
  <2> QED
    BY <2>2, <2>3
<1>6. CASE InsertWindow
  <2>1. /\ windows' = BelowMouse(windows, at[Input]) /\ UNCHANGED <<owner, nextId, active>>
        /\ pc[Input] = "link" /\ pc'[Input] = "idle"
    BY <1>6, Names DEF InsertWindow, InputReturns, Return, Goto, ThreadsTyped
  <2>2. at[Input] \in Windows /\ at[Input] # Desktop /\ at[Input] < nextId
    BY <2>1, Names DEF ThreadsTyped, Stacked, Unborn
  <2>3. IsStack(windows') /\ Range(windows') = Range(windows) \cup {at[Input]}
    BY <2>1, <2>2, StackBelowMouse DEF Stacked
  <2> QED
    BY <2>1, <2>2, <2>3 DEF ScreenTyped, Stacked
<1>7. ASSUME NEW w \in Windows, NEW pressed \in BOOLEAN, NEW held \in BOOLEAN,
             NEW passed \in BOOLEAN, HandleMouse(w, pressed, held, passed)
      PROVE  ScreenTyped' /\ Stacked'
  <2>1. /\ windows' \in {windows, InFront(windows, w)} /\ UNCHANGED <<owner, nextId>>
        /\ active' \in {active, w} /\ w \in Range(windows)
    BY <1>7 DEF HandleMouse, Open
  <2>2. pc'[Input] \in {"idle", "put"}
    BY <1>7, Names DEF HandleMouse, InputReturns, Return, Goto, ThreadsTyped
  <2>3. IsStack(windows') /\ Range(windows') = Range(windows)
    BY <2>1, StackInFront DEF Stacked
  <2> QED
    BY <2>1, <2>2, <2>3 DEF ScreenTyped, Stacked
<1>8. ASSUME NEW t \in Users, CreateWindow(t) PROVE ScreenTyped' /\ Stacked'
  <2>1. /\ windows' = BelowMouse(windows, nextId) /\ active' = nextId
        /\ owner' = [owner EXCEPT ![nextId] = t]
        /\ nextId' = nextId + 1 /\ nextId <= MaxWindow /\ pc' = pc /\ at' = at
    BY <1>8 DEF CreateWindow
  <2>2. /\ nextId \in Windows /\ nextId \in Int /\ nextId' \in 3..(MaxWindow + 1)
        /\ nextId > 2
    BY <2>1, Names DEF ScreenTyped
  <2>3. IsStack(windows') /\ Range(windows') = Range(windows) \cup {nextId}
    BY <2>1, <2>2, StackBelowMouse, Names DEF Stacked
  <2>4. \A w \in Range(windows') : w < nextId'
    <3>1. \A w \in Range(windows) : w < nextId /\ w \in Int
      BY StackEnds, Names DEF Stacked
    <3> QED
      BY <2>1, <2>2, <2>3, <3>1
  <2>5. /\ owner' \in [Windows -> Threads \cup {NoOne}]
        /\ \A w \in {Desktop, DebugWindow, MouseWindow} : owner'[w] = NoOne
    BY <2>1, <2>2, Names DEF ScreenTyped, Stacked
  <2>6. pc'[Input] = "link" => at'[Input] \notin Range(windows') /\ at'[Input] # Desktop
    <3>1. at[Input] < nextId /\ at[Input] \in Windows
      BY Names DEF Unborn, ThreadsTyped
    <3>2. at[Input] # nextId
      BY <2>2, <3>1, Names
    <3> QED
      BY <2>1, <2>3, <3>2 DEF Stacked
  <2>7. active' \in Windows /\ active' < nextId'
    BY <2>1, <2>2
  <2> QED
    BY <2>1, <2>2, <2>3, <2>4, <2>5, <2>6, <2>7 DEF ScreenTyped, Stacked
<1>9. ASSUME NEW t \in Users, DestroyThreadWindows(t)
      PROVE  ScreenTyped' /\ Stacked'
  <2> DEFINE own == {w \in Range(windows) : owner[w] = t}
             kept == Range(windows) \ own
  <2>1. owner' = owner /\ nextId' = nextId
    BY <1>9, Zenon DEF DestroyThreadWindows
  <2>6. /\ IsStack(windows') /\ Range(windows') = kept
        /\ active' = IF own = {} THEN active ELSE Focus(windows')
    BY <1>9, OwnWindowsGo
  <2>8. pc'[Input] = pc[Input] /\ at'[Input] = at[Input]
    BY <1>9, InputStays DEF DestroyThreadWindows, Goto
  <2>2. /\ kept \subseteq Range(windows) /\ Desktop \in kept
        /\ Range(windows) \subseteq Windows
    BY StackEnds, Names DEF Stacked
  <2> HIDE DEF kept, own
  <2>7. active' = active \/ active' \in Range(windows')
    BY <2>6, StackEnds DEF Focus
  <2> QED
    BY <2>1, <2>2, <2>6, <2>7, <2>8 DEF ScreenTyped, Stacked
<1>10. ASSUME NEW t \in Users, NEW w \in Windows, DestroyWindow(t, w)
       PROVE  ScreenTyped' /\ Stacked'
  <2>1. /\ windows' = Without(windows, w) /\ active' = Focus(windows') /\ w # Desktop
        /\ owner' = owner /\ nextId' = nextId /\ pc' = pc /\ at' = at
    BY <1>10 DEF DestroyWindow
  <2>3. IsStack(windows') /\ Range(windows') \subseteq Range(windows)
    BY <2>1, StackWithout DEF Stacked
  <2>4. active' = active \/ active' \in Range(windows')
    BY <2>1, <2>3, StackEnds DEF Focus
  <2>5. Range(windows) \subseteq Windows
    BY StackEnds DEF Stacked
  <2> QED
    BY <2>1, <2>3, <2>4, <2>5 DEF ScreenTyped, Stacked
<1>11. ASSUME NEW t \in Users, NEW w \in Windows, BringWindowToFront(t, w)
       PROVE  ScreenTyped' /\ Stacked'
  <2>1. windows' = InFront(windows, w) /\ UNCHANGED <<owner, nextId, active, pc, at>>
    BY <1>11 DEF BringWindowToFront
  <2>2. IsStack(windows') /\ Range(windows') = Range(windows)
    BY <2>1, StackInFront DEF Stacked
  <2> QED
    BY <2>1, <2>2 DEF ScreenTyped, Stacked
<1> QED
  BY <1>1, <1>2, <1>3, <1>4, <1>5, <1>6, <1>7, <1>8, <1>9, <1>10, <1>11, CalmOrNot

\* The queue of one window that exists changes.
LEMMA OneQueue ==
  ASSUME EventsTyped, NEW w \in Windows, NEW r \in QueueRecord,
         events' = [events EXCEPT ![w] = r]
  PROVE  /\ EventsTyped' /\ events'[w] = r
         /\ \A v \in Windows \ {w} : events'[v] = events[v]
BY DEF EventsTyped

\* Whatever happens to a queue, it stays one.
LEMMA EventsStep ==
  ASSUME EventsTyped, ThreadsTyped, HandTyped, [Next]_vars
  PROVE  EventsTyped'
<1>1. ASSUME NEW kind \in Kinds, Interrupt(kind) PROVE EventsTyped'
  BY <1>1 DEF Interrupt, Screen, History, EventsTyped
<1>2. CASE TakeInput
  BY <1>2 DEF TakeInput, Screen, History, Goto, EventsTyped
<1>3. CASE HandleKey
  BY <1>3 DEF HandleKey, Devices, Screen, History, Goto, EventsTyped
<1>4. CASE HandleTab
  BY <1>4 DEF HandleTab, Devices, Screen, History, Goto, EventsTyped
<1>5. CASE FindWindow
  BY <1>5 DEF FindWindow, Devices, Screen, History, Goto, EventsTyped
<1>22. CASE MoveFocus
  BY <1>22 DEF MoveFocus, Devices, History, Goto, EventsTyped
<1>23. CASE RemoveWindow
  BY <1>23
     DEF RemoveWindow, Devices, History, InputReturns, Return, Goto, EventsTyped
<1>24. CASE InsertWindow
  BY <1>24
     DEF InsertWindow, Devices, History, InputReturns, Return, Goto, EventsTyped
<1>25. ASSUME NEW t \in Users, NEW u \in Threads, TearRing(t, u) PROVE EventsTyped'
  BY <1>25 DEF TearRing, Devices, Screen, EventsTyped
<1>26. ASSUME NEW t \in Threads, NEW u \in Threads, TearList(t, u) PROVE EventsTyped'
  BY <1>26 DEF TearList, Devices, Screen, EventsTyped
<1>6. ASSUME NEW w \in Windows, NEW pressed \in BOOLEAN, NEW held \in BOOLEAN,
             NEW passed \in BOOLEAN, HandleMouse(w, pressed, held, passed)
      PROVE  EventsTyped'
  BY <1>6 DEF HandleMouse, Devices, InputReturns, Return, Goto, EventsTyped
<1>7. CASE MouseTimesOut
  BY <1>7 DEF MouseTimesOut, Devices, Screen, History, InputReturns, Return, Goto,
     EventsTyped
<1>8. CASE PutEvent
  <2>1. hand.event.number \in 1..MaxEvents
    BY <1>8 DEF PutEvent, HandTyped, Event
  <2>2. at[Input] \in Windows /\ events[at[Input]] \in QueueRecord
    BY Names DEF ThreadsTyped, EventsTyped
  <2>3. WriteItem(events[at[Input]], hand.event.number) \in QueueRecord
    BY <2>1, <2>2, WriteItemIs
  <2>4. \/ events' = [events EXCEPT ![at[Input]] =
                       WriteItem(events[at[Input]], hand.event.number)]
        \/ events' = events
    BY <1>8 DEF PutEvent
  <2>5. CASE events' = events
    BY <2>5 DEF EventsTyped
  <2> QED
    BY <2>2, <2>3, <2>4, <2>5, OneQueue
<1>9. CASE StoreEvent
  <2>1. events' = [events EXCEPT ![at[Input]] = FinishPut(events[at[Input]], hand.flag)]
    BY <1>9 DEF StoreEvent
  <2>2. /\ at[Input] \in Windows /\ events[at[Input]] \in QueueRecord
        /\ hand.flag \in Flags
    BY Names DEF ThreadsTyped, EventsTyped, HandTyped
  <2>3. FinishPut(events[at[Input]], hand.flag) \in QueueRecord
    BY <2>2, FinishPutIs
  <2> QED
    BY <2>1, <2>2, <2>3, OneQueue
<1>10. ASSUME NEW t \in Users, CreateWindow(t) PROVE EventsTyped'
  BY <1>10 DEF CreateWindow, Devices, Meets, EventsTyped
<1>11. ASSUME NEW t \in Users, FinalizeThread(t) PROVE EventsTyped'
  <2>1. events' = [events EXCEPT ![at[t]] = Dequeue(events[at[t]], t)]
    BY <1>11 DEF FinalizeThread
  <2>2. at[t] \in Windows /\ events[at[t]] \in QueueRecord
    BY Names DEF ThreadsTyped, EventsTyped
  <2>3. Dequeue(events[at[t]], t) \in QueueRecord
    BY <2>2, DequeueIs
  <2> QED
    BY <2>1, <2>2, <2>3, OneQueue
<1>12. ASSUME NEW t \in Users, DestroyThreadWindows(t) PROVE EventsTyped'
  <2>1. \E own : events' = [w \in Windows |-> IF w \in own THEN Fresh ELSE events[w]]
    BY <1>12, Zenon DEF DestroyThreadWindows
  <2> QED
    BY <2>1, FreshIs DEF EventsTyped
<1>13. ASSUME NEW t \in Users, NEW w \in Windows, DestroyWindow(t, w)
       PROVE  EventsTyped'
  <2>1. events' = [events EXCEPT ![w] = Fresh]
    BY <1>13 DEF DestroyWindow
  <2> QED
    BY <2>1, FreshIs, OneQueue
<1>14. ASSUME NEW t \in Users, NEW w \in Windows, HideWindow(t, w)
       PROVE  EventsTyped'
  BY <1>14 DEF HideWindow, Devices, Screen, EventsTyped
<1>15. ASSUME NEW t \in Users, NEW w \in Windows, BringWindowToFront(t, w)
       PROVE  EventsTyped'
  BY <1>15 DEF BringWindowToFront, Devices, Meets, EventsTyped
<1>16. ASSUME NEW t \in Users, NEW w \in Windows, GetEvent(t, w) PROVE EventsTyped'
  <2>1. \/ events' = [events EXCEPT ![w] = TakeCount(events[w])]
        \/ events' = [events EXCEPT ![w] = Enqueue(events[w], t)]
    BY <1>16 DEF GetEvent, Wait
  <2>2. w \in Windows /\ events[w] \in QueueRecord
    BY Names DEF ThreadsTyped, EventsTyped
  <2>3. /\ TakeCount(events[w]) \in QueueRecord
        /\ Enqueue(events[w], t) \in QueueRecord
    BY <2>2, TakeCountIs, EnqueueIs
  <2> QED
    BY <2>1, <2>2, <2>3, OneQueue
<1>17. ASSUME NEW t \in Users, NEW w \in Windows, PeekEvent(t, w) PROVE EventsTyped'
  BY <1>17 DEF PeekEvent, Devices, Screen, Reads, Goto, EventsTyped
<1>18. ASSUME NEW t \in Users, PeekTakes(t) PROVE EventsTyped'
  <2>1. \/ events' = [events EXCEPT ![at[t]] = TakeCount(events[at[t]])]
        \/ events' = [events EXCEPT ![at[t]] = Enqueue(events[at[t]], t)]
    BY <1>18 DEF PeekTakes, Wait
  <2>2. at[t] \in Windows /\ events[at[t]] \in QueueRecord
    BY Names DEF ThreadsTyped, EventsTyped
  <2>3. /\ TakeCount(events[at[t]]) \in QueueRecord
        /\ Enqueue(events[at[t]], t) \in QueueRecord
    BY <2>2, TakeCountIs, EnqueueIs
  <2> QED
    BY <2>1, <2>2, <2>3, OneQueue
<1>19. ASSUME NEW t \in Users, WaitReturns(t) PROVE EventsTyped'
  <2>1. events' = [events EXCEPT ![at[t]] = TakeCount(events[at[t]])]
    BY <1>19 DEF WaitReturns
  <2>2. at[t] \in Windows /\ events[at[t]] \in QueueRecord
    BY Names DEF ThreadsTyped, EventsTyped
  <2>3. TakeCount(events[at[t]]) \in QueueRecord
    BY <2>2, TakeCountIs
  <2> QED
    BY <2>1, <2>2, <2>3, OneQueue
<1>20. ASSUME NEW t \in Users, TakeEvent(t) PROVE EventsTyped'
  <2>0. PICK found \in Finds(events[at[t]]) : GetItem(t, found)
    BY <1>20 DEF TakeEvent
  <2>1. events' = [events EXCEPT ![at[t]] = ReadItem(events[at[t]], found)]
    BY <2>0 DEF GetItem
  <2>2. at[t] \in Windows /\ events[at[t]] \in QueueRecord
    BY Names DEF ThreadsTyped, EventsTyped
  <2>3. ReadItem(events[at[t]], found) \in QueueRecord
    BY <2>2, FindsIs, ReadItemIs
  <2> QED
    BY <2>1, <2>2, <2>3, OneQueue
<1>21. CASE UNCHANGED vars
  BY <1>21 DEF vars, EventsTyped
<1> QED
    BY <1>1, <1>2, <1>3, <1>4, <1>5, <1>6, <1>7, <1>8, <1>9, <1>10, <1>11, <1>12,
     <1>13, <1>14, <1>15, <1>16, <1>17, <1>18, <1>19, <1>20, <1>21, <1>22, <1>23, <1>24, <1>25,
     <1>26 DEF Next,
     InputStep, ReadStep

\* A program's thread moves on, and the input thread.
LEMMA UserMoves ==
  ASSUME ThreadsTyped, NEW t \in Users, NEW p \in {"idle"} \cup Reading \cup Gone,
         NEW w \in Windows, pc' = [pc EXCEPT ![t] = p],
         at' = at \/ at' = [at EXCEPT ![t] = w], lock' \in {lock, t, NoOne}
  PROVE  ThreadsTyped'
<1>1. /\ pc' \in [Threads -> {"idle"} \cup Reading \cup Gone \cup Busy]
      /\ pc'[Input] = pc[Input] /\ \A u \in Users : pc'[u] = IF u = t THEN p ELSE pc[u]
  BY Names DEF ThreadsTyped
<1>2. at' \in [Threads -> Windows]
  BY Names DEF ThreadsTyped
<1>3. lock' \in Threads \cup {NoOne}
  BY Names DEF ThreadsTyped
<1> QED
  BY <1>1, <1>2, <1>3 DEF ThreadsTyped

\* The input thread moves on.
LEMMA InputMoves ==
  ASSUME ThreadsTyped, NEW p \in {"idle"} \cup Busy,
         NEW w \in Windows, pc' = [pc EXCEPT ![Input] = p],
         at' = at \/ at' = [at EXCEPT ![Input] = w], lock' \in {lock, Input, NoOne}
  PROVE  ThreadsTyped'
<1>1. /\ pc' \in [Threads -> {"idle"} \cup Reading \cup Gone \cup Busy]
      /\ pc'[Input] = p /\ \A u \in Users : pc'[u] = pc[u]
  BY Names DEF ThreadsTyped
<1>2. at' \in [Threads -> Windows]
  BY Names DEF ThreadsTyped
<1>3. lock' \in Threads \cup {NoOne}
  BY Names DEF ThreadsTyped
<1> QED
  BY <1>1, <1>2, <1>3 DEF ThreadsTyped

\* A thread of a program stays one, and so does the input thread.
LEMMA ThreadsStep ==
  ASSUME ThreadsTyped, EventsTyped, ScreenTyped, Stacked, [Next]_vars
  PROVE  ThreadsTyped'
<1>1. ASSUME NEW kind \in Kinds, Interrupt(kind) PROVE ThreadsTyped'
  BY <1>1 DEF Interrupt, Screen, History, ThreadsTyped
<1>2. CASE TakeInput
  <2>1. CASE ring = <<>>
    BY <1>2, <2>1 DEF TakeInput, ThreadsTyped
  <2>2. CASE ring # <<>>
    <3>1. pc' = [pc EXCEPT ![Input] = "event"] /\ at' = at /\ lock' = lock
      BY <1>2, <2>2 DEF TakeInput, Goto
    <3> QED
      BY <3>1, InputMoves, Names DEF Busy
  <2> QED
    BY <2>1, <2>2
<1>3. CASE HandleKey
  <2>1. /\ \E p \in {"put"} : pc' = [pc EXCEPT ![Input] = p]
        /\ at' = at \/ at' = [at EXCEPT ![Input] = active]
        /\ lock' \in {lock, Input, NoOne}
    BY <1>3 DEF HandleKey, Goto, Devices, Screen, History
  <2>2. {"put"} \subseteq {"idle"} \cup Busy
    BY DEF Busy
  <2>3. active \in Windows
    BY Names, StackEnds, PreviousIs DEF ScreenTyped, Stacked
  <2> QED
    BY <2>1, <2>2, <2>3, InputMoves
<1>4. CASE HandleTab
  <2>1. pc' = [pc EXCEPT ![Input] = "walk"] /\ at' = at /\ lock' = lock
    BY <1>4 DEF HandleTab, Goto
  <2> QED
    BY <2>1, InputMoves, Names DEF Busy, Unlocked
<1>5. CASE FindWindow
  <2>1. /\ \E p \in {"put", "focus"} : pc' = [pc EXCEPT ![Input] = p]
        /\ \E w \in 0..(nextId - 1) \cup {Previous, active} : at' = [at EXCEPT ![Input] = w]
        /\ lock' = lock
    BY <1>5 DEF FindWindow, Goto
  <2>2. {"put", "focus"} \subseteq {"idle"} \cup Busy
    BY DEF Busy, Unlocked
  <2>3. 0..(nextId - 1) \cup {Previous, active} \subseteq Windows
    BY Names, PreviousIs DEF ScreenTyped, Stacked
  <2> QED
    BY <2>1, <2>2, <2>3, InputMoves
<1>22. CASE MoveFocus
  <2>1. /\ pc' = [pc EXCEPT ![Input] = "raise"]
        /\ \E w \in 0..(nextId - 1) \cup {at[Input]} : at' = [at EXCEPT ![Input] = w]
        /\ lock' = lock
    BY <1>22 DEF MoveFocus, Goto
  <2>2. "raise" \in {"idle"} \cup Busy
    BY DEF Busy, Unlocked
  <2>3. 0..(nextId - 1) \cup {at[Input]} \subseteq Windows
    BY Names DEF ScreenTyped, ThreadsTyped
  <2> QED
    BY <2>1, <2>2, <2>3, InputMoves
<1>23. CASE RemoveWindow
  <2>1. /\ \E p \in {"idle", "link"} : pc' = [pc EXCEPT ![Input] = p]
        /\ at' = at \/ at' = [at EXCEPT ![Input] = Desktop]
        /\ lock' = lock
    BY <1>23 DEF RemoveWindow, InputReturns, Return, Goto
  <2>2. {"idle", "link"} \subseteq {"idle"} \cup Busy
    BY DEF Busy, Unlocked
  <2> QED
    BY <2>1, <2>2, InputMoves, Names
<1>24. CASE InsertWindow
  <2>1. /\ pc' = [pc EXCEPT ![Input] = "idle"] /\ lock' = lock
        /\ at' = [at EXCEPT ![Input] = Desktop]
    BY <1>24 DEF InsertWindow, InputReturns, Return, Goto
  <2> QED
    BY <2>1, InputMoves, Names
<1>25. ASSUME NEW t \in Users, NEW u \in Threads, TearRing(t, u) PROVE ThreadsTyped'
  BY <1>25 DEF TearRing, Devices, Screen, ThreadsTyped
<1>26. ASSUME NEW t \in Threads, NEW u \in Threads, TearList(t, u) PROVE ThreadsTyped'
  BY <1>26 DEF TearList, Devices, Screen, ThreadsTyped
<1>6. ASSUME NEW w \in Windows, NEW pressed \in BOOLEAN, NEW held \in BOOLEAN,
             NEW passed \in BOOLEAN, HandleMouse(w, pressed, held, passed)
      PROVE  ThreadsTyped'
  <2>1. /\ \E p \in {"idle", "put"} : pc' = [pc EXCEPT ![Input] = p]
        /\ \/ at' = [at EXCEPT ![Input] = active'] 
           \/ at' = [at EXCEPT ![Input] = Desktop]
        /\ lock' \in {lock, Input, NoOne} /\ active' \in {active, w}
    BY <1>6 DEF HandleMouse, InputReturns, Return, Goto
  <2>2. {"idle", "put"} \subseteq {"idle"} \cup Busy
    BY DEF Busy
  <2>3. active' \in Windows /\ Desktop \in Windows
    BY <2>1, Names DEF ScreenTyped
  <2> QED
    BY <2>1, <2>2, <2>3, InputMoves
<1>7. CASE MouseTimesOut
  <2>1. /\ \E p \in {"idle"} : pc' = [pc EXCEPT ![Input] = p]
        /\ at' = at \/ at' = [at EXCEPT ![Input] = Desktop]
        /\ lock' \in {lock, Input, NoOne}
    BY <1>7 DEF MouseTimesOut, InputReturns, Return, Goto, Devices, Screen, History
  <2>2. {"idle"} \subseteq {"idle"} \cup Busy
    BY DEF Busy
  <2>3. Desktop \in Windows
    BY Names, StackEnds, PreviousIs DEF ScreenTyped, Stacked
  <2> QED
    BY <2>1, <2>2, <2>3, InputMoves
<1>8. CASE PutEvent
  <2>1. /\ \E p \in {"idle", "store"} : pc' = [pc EXCEPT ![Input] = p]
        /\ at' = at \/ at' = [at EXCEPT ![Input] = Desktop]
        /\ lock' \in {lock, Input, NoOne}
    BY <1>8 DEF PutEvent, InputReturns, Return, Goto, Devices, Screen, History
  <2>2. {"idle", "store"} \subseteq {"idle"} \cup Busy
    BY DEF Busy
  <2>3. Desktop \in Windows
    BY Names, StackEnds, PreviousIs DEF ScreenTyped, Stacked
  <2> QED
    BY <2>1, <2>2, <2>3, InputMoves
<1>9. CASE StoreEvent
  <2>1. \E woken \in SUBSET Users :
          pc' = [t \in Threads |-> IF t = Input THEN "idle"
                                   ELSE IF t \in woken THEN "woken" ELSE pc[t]]
    <3> DEFINE q == events[at[Input]]
               woken == IF q.waiters = <<>> THEN {} ELSE {Head(q.waiters)}
    <3>1. pc' = [t \in Threads |-> IF t = Input THEN "idle"
                                   ELSE IF t \in woken THEN "woken" ELSE pc[t]]
      BY <1>9, Zenon DEF StoreEvent
    <3>2. q.waiters \in Seq(Users)
      BY FieldTypes, Names DEF EventsTyped, ThreadsTyped
    <3>3. woken \in SUBSET Users
      BY <3>2
    <3> QED
      BY <3>1, <3>3, Zenon
  <2>2. at' = [at EXCEPT ![Input] = Desktop] /\ lock' \in {lock, NoOne}
    BY <1>9 DEF StoreEvent
  <2>3. at' \in [Threads -> Windows] /\ lock' \in Threads \cup {NoOne}
    BY <2>2, Names DEF ThreadsTyped
  <2>4. PICK woken \in SUBSET Users :
          pc' = [t \in Threads |-> IF t = Input THEN "idle"
                                   ELSE IF t \in woken THEN "woken" ELSE pc[t]]
    BY <2>1
  <2>5. /\ pc'[Input] = "idle"
        /\ \A t \in Users : pc'[t] = IF t \in woken THEN "woken" ELSE pc[t]
    BY <2>4, Names
  <2>6. \A t \in Users : pc'[t] \in {"idle"} \cup Reading \cup Gone
    BY <2>5 DEF ThreadsTyped, Reading
  <2>7. pc' \in [Threads -> {"idle"} \cup Reading \cup Gone \cup Busy]
    BY <2>4, <2>5, <2>6, Names
  <2> QED
    BY <2>3, <2>5, <2>6, <2>7 DEF ThreadsTyped
<1>10. ASSUME NEW t \in Users, CreateWindow(t) PROVE ThreadsTyped'
  BY <1>10 DEF CreateWindow, Devices, ThreadsTyped
<1>11. ASSUME NEW t \in Users, FinalizeThread(t) PROVE ThreadsTyped'
  <2>1. /\ pc' = [pc EXCEPT ![t] = "dead"] /\ lock' \in {lock, t, NoOne}
        /\ at' = at \/ at' = [at EXCEPT ![t] = Desktop]
    BY <1>11 DEF FinalizeThread, Goto, Devices, Screen, History
  <2> QED
    BY <2>1, UserMoves, Names DEF Reading, Gone
<1>12. ASSUME NEW t \in Users, DestroyThreadWindows(t) PROVE ThreadsTyped'
  <2>1. /\ pc' = [pc EXCEPT ![t] = "gone"] /\ lock' \in {lock, t, NoOne}
        /\ at' = at \/ at' = [at EXCEPT ![t] = Desktop]
    BY <1>12 DEF DestroyThreadWindows, Goto, Devices
  <2> QED
    BY <2>1, UserMoves, Names DEF Reading, Gone
<1>13. ASSUME NEW t \in Users, NEW w \in Windows, DestroyWindow(t, w)
       PROVE  ThreadsTyped'
  BY <1>13 DEF DestroyWindow, Devices, ThreadsTyped
<1>14. ASSUME NEW t \in Users, NEW w \in Windows, HideWindow(t, w)
       PROVE  ThreadsTyped'
  BY <1>14 DEF HideWindow, Devices, Screen, ThreadsTyped
<1>15. ASSUME NEW t \in Users, NEW w \in Windows, BringWindowToFront(t, w)
       PROVE  ThreadsTyped'
  BY <1>15 DEF BringWindowToFront, Devices, ThreadsTyped
<1>16. ASSUME NEW t \in Users, NEW w \in Windows, GetEvent(t, w) PROVE ThreadsTyped'
  <2>1. /\ \E p \in {"take", "wait"} : pc' = [pc EXCEPT ![t] = p]
        /\ at' = at \/ at' = [at EXCEPT ![t] = w]
        /\ lock' = lock
    BY <1>16 DEF GetEvent, Goto, Wait, Reads
  <2>2. {"take", "wait"} \subseteq {"idle"} \cup Reading \cup Gone
    BY DEF Reading
  <2> QED
    BY <2>1, <2>2, UserMoves, Names
<1>17. ASSUME NEW t \in Users, NEW w \in Windows, PeekEvent(t, w)
       PROVE  ThreadsTyped'
  <2>1. /\ pc' = [pc EXCEPT ![t] = "peek"] /\ lock' \in {lock, t, NoOne}
        /\ at' = at \/ at' = [at EXCEPT ![t] = w]
    BY <1>17 DEF PeekEvent, Goto, Reads
  <2> QED
    BY <2>1, UserMoves, Names DEF Reading, Gone
<1>18. ASSUME NEW t \in Users, PeekTakes(t) PROVE ThreadsTyped'
  <2>1. /\ \E p \in {"take", "wait"} : pc' = [pc EXCEPT ![t] = p]
        /\ at' = at \/ at' = [at EXCEPT ![t] = Desktop]
        /\ lock' = lock
    BY <1>18 DEF PeekTakes, Goto, Wait
  <2>2. {"take", "wait"} \subseteq {"idle"} \cup Reading \cup Gone
    BY DEF Reading
  <2> QED
    BY <2>1, <2>2, UserMoves, Names
<1>19. ASSUME NEW t \in Users, WaitReturns(t) PROVE ThreadsTyped'
  <2>1. /\ pc' = [pc EXCEPT ![t] = "take"] /\ lock' \in {lock, t, NoOne}
        /\ at' = at \/ at' = [at EXCEPT ![t] = Desktop]
    BY <1>19 DEF WaitReturns, Goto, Devices, Screen, History
  <2> QED
    BY <2>1, UserMoves, Names DEF Reading, Gone
<1>20. ASSUME NEW t \in Users, TakeEvent(t) PROVE ThreadsTyped'
  <2>1. /\ pc' = [pc EXCEPT ![t] = "idle"] /\ lock' \in {lock, t, NoOne}
        /\ at' = at \/ at' = [at EXCEPT ![t] = Desktop]
    BY <1>20 DEF TakeEvent, Goto, Devices, Screen, Return
  <2> QED
    BY <2>1, UserMoves, Names DEF Reading, Gone
<1>21. CASE UNCHANGED vars
  BY <1>21 DEF vars, ThreadsTyped
<1> QED
    BY <1>1, <1>2, <1>3, <1>4, <1>5, <1>6, <1>7, <1>8, <1>9, <1>10, <1>11, <1>12,
     <1>13, <1>14, <1>15, <1>16, <1>17, <1>18, <1>19, <1>20, <1>21, <1>22, <1>23, <1>24, <1>25,
     <1>26 DEF Next,
     InputStep, ReadStep

\* A thread without an event
LEMMA NoWorkIs == NoWork \in [event : Event \cup {NoEvent}, flag : Flags]
BY DEF NoWork, Flags

\* Whenever the input thread handles an event it has one in its hands.
LEMMA HandStep ==
  ASSUME HandTyped, DevicesTyped, ThreadsTyped, EventsTyped, [Next]_vars
  PROVE  HandTyped'
<1>1. ASSUME NEW kind \in Kinds, Interrupt(kind) PROVE HandTyped'
  BY <1>1, Names DEF Interrupt, Screen, History, HandTyped, ThreadsTyped
<1>2. CASE TakeInput
  <2>1. CASE ring = <<>>
    BY <1>2, <2>1 DEF TakeInput, HandTyped
  <2>2. CASE ring # <<>>
    <3>1. hand' = [hand EXCEPT !.event = Head(ring)]
      BY <1>2, <2>2 DEF TakeInput
    <3>2. Head(ring) \in Event
      BY <2>2 DEF DevicesTyped
    <3> QED
      BY <3>1, <3>2 DEF HandTyped
  <2> QED
    BY <2>1, <2>2
<1>3. CASE HandleKey
  BY <1>3, Names DEF HandleKey, Devices, Screen, History, Goto, HandTyped,
     ThreadsTyped, Handling
<1>4. CASE HandleTab
  BY <1>4, Names DEF HandleTab, Devices, Screen, Goto, HandTyped,
     ThreadsTyped, Handling
<1>5. CASE FindWindow
  BY <1>5, Names DEF FindWindow, Devices, Screen, History, Goto, HandTyped,
     ThreadsTyped
<1>22. CASE MoveFocus
  BY <1>22, Names DEF MoveFocus, Devices, History, Goto, HandTyped, ThreadsTyped
<1>23. CASE RemoveWindow
  <2>1. \/ hand' = NoWork /\ pc'[Input] = "idle"
        \/ hand' = hand /\ pc[Input] # "idle"
    BY <1>23, Names DEF RemoveWindow, InputReturns, Return, Goto, ThreadsTyped
  <2> QED
    BY <2>1, NoWorkIs DEF HandTyped
<1>24. CASE InsertWindow
  <2>1. hand' = NoWork /\ pc'[Input] = "idle"
    BY <1>24, Names DEF InsertWindow, InputReturns, Return, Goto, ThreadsTyped
  <2> QED
    BY <2>1, NoWorkIs DEF HandTyped
<1>25. ASSUME NEW t \in Users, NEW u \in Threads, TearRing(t, u) PROVE HandTyped'
  BY <1>25 DEF TearRing, Devices, Screen, HandTyped
<1>26. ASSUME NEW t \in Threads, NEW u \in Threads, TearList(t, u) PROVE HandTyped'
  BY <1>26 DEF TearList, Devices, Screen, HandTyped
<1>6. ASSUME NEW w \in Windows, NEW pressed \in BOOLEAN, NEW held \in BOOLEAN,
             NEW passed \in BOOLEAN, HandleMouse(w, pressed, held, passed)
      PROVE  HandTyped'
  <2>1. CASE passed
    BY <1>6, <2>1, Names DEF HandleMouse, HandTyped, Handling, ThreadsTyped
  <2>2. CASE ~passed
    <3>1. hand' = NoWork /\ pc'[Input] = "idle"
      BY <1>6, <2>2, Names DEF HandleMouse, InputReturns, Return, Goto, ThreadsTyped
    <3> QED
      BY <3>1, NoWorkIs DEF HandTyped
  <2> QED
    BY <2>1, <2>2
<1>7. CASE MouseTimesOut
  <2>1. hand' = NoWork /\ pc'[Input] = "idle"
    BY <1>7, Names DEF MouseTimesOut, InputReturns, Return, Goto, ThreadsTyped
  <2> QED
    BY <2>1, NoWorkIs DEF HandTyped
<1>8. CASE PutEvent
  <2>1. CASE hand' = NoWork /\ pc'[Input] = "idle"
    BY <2>1, NoWorkIs DEF HandTyped
  <2> DEFINE f == FlagAfter(events[at[Input]], hand.event.number)
  <2>2. CASE hand' = [hand EXCEPT !.flag = f]
    <3>1. hand.event \in Event /\ hand.event.number \in 1..MaxEvents
      BY <1>8 DEF PutEvent, HandTyped, Event
    <3>2. f \in Flags
      BY <3>1, FlagAfterIs, Names DEF ThreadsTyped, EventsTyped
    <3> HIDE DEF f
    <3> QED
      BY <2>2, <3>1, <3>2 DEF HandTyped
  <2>3. (hand' = NoWork /\ pc'[Input] = "idle") \/ hand' = [hand EXCEPT !.flag = f]
    BY <1>8, Names DEF PutEvent, InputReturns, Return, Goto, ThreadsTyped
  <2> QED
    BY <2>1, <2>2, <2>3
<1>9. CASE StoreEvent
  <2>1. hand' = NoWork /\ pc'[Input] = "idle"
    BY <1>9, Names DEF StoreEvent
  <2> QED
    BY <2>1, NoWorkIs DEF HandTyped
<1>10. ASSUME NEW t \in Users, CreateWindow(t) PROVE HandTyped'
  BY <1>10, Names DEF CreateWindow, Devices, HandTyped, ThreadsTyped
<1>11. ASSUME NEW t \in Users, FinalizeThread(t) PROVE HandTyped'
  BY <1>11, Names
     DEF FinalizeThread, Devices, Screen, History, Goto, HandTyped, ThreadsTyped
<1>12. ASSUME NEW t \in Users, DestroyThreadWindows(t) PROVE HandTyped'
  BY <1>12, Names DEF DestroyThreadWindows, Devices, Goto, HandTyped, ThreadsTyped
<1>13. ASSUME NEW t \in Users, NEW w \in Windows, DestroyWindow(t, w)
       PROVE  HandTyped'
  BY <1>13, Names DEF DestroyWindow, Devices, HandTyped, ThreadsTyped
<1>14. ASSUME NEW t \in Users, NEW w \in Windows, HideWindow(t, w) PROVE HandTyped'
  BY <1>14, Names DEF HideWindow, Devices, Screen, HandTyped, ThreadsTyped
<1>15. ASSUME NEW t \in Users, NEW w \in Windows, BringWindowToFront(t, w)
       PROVE  HandTyped'
  BY <1>15, Names DEF BringWindowToFront, Devices, HandTyped, ThreadsTyped
<1>16. ASSUME NEW t \in Users, NEW w \in Windows, GetEvent(t, w) PROVE HandTyped'
  BY <1>16, Names
     DEF GetEvent, Devices, Screen, Reads, Wait, Goto, HandTyped, ThreadsTyped
<1>17. ASSUME NEW t \in Users, NEW w \in Windows, PeekEvent(t, w) PROVE HandTyped'
  BY <1>17, Names
     DEF PeekEvent, Devices, Screen, Reads, Goto, HandTyped, ThreadsTyped
<1>18. ASSUME NEW t \in Users, PeekTakes(t) PROVE HandTyped'
  BY <1>18, Names
     DEF PeekTakes, Devices, Screen, History, Wait, Goto, HandTyped, ThreadsTyped
<1>19. ASSUME NEW t \in Users, WaitReturns(t) PROVE HandTyped'
  BY <1>19, Names
     DEF WaitReturns, Devices, Screen, History, Goto, HandTyped, ThreadsTyped
<1>20. ASSUME NEW t \in Users, TakeEvent(t) PROVE HandTyped'
  BY <1>20, Names
     DEF TakeEvent, Devices, Screen, Return, Goto, HandTyped, ThreadsTyped
<1>21. CASE UNCHANGED vars
  BY <1>21 DEF vars, HandTyped
<1> QED
    BY <1>1, <1>2, <1>3, <1>4, <1>5, <1>6, <1>7, <1>8, <1>9, <1>10, <1>11, <1>12,
     <1>13, <1>14, <1>15, <1>16, <1>17, <1>18, <1>19, <1>20, <1>21, <1>22, <1>23, <1>24, <1>25,
     <1>26 DEF Next,
     InputStep, ReadStep

\* What the model remembers of a run keeps its types.
LEMMA HistoryStep ==
  ASSUME HistoryTyped, EventsTyped, ThreadsTyped, [Next]_vars
  PROVE  HistoryTyped'
<1>1. ASSUME NEW kind \in Kinds, Interrupt(kind) PROVE HistoryTyped'
  BY <1>1 DEF Interrupt, Screen, History, HistoryTyped
<1>2. CASE TakeInput
  BY <1>2 DEF TakeInput, Screen, History, Goto, HistoryTyped
<1>3. CASE HandleKey
  BY <1>3 DEF HandleKey, Devices, Screen, History, Goto, HistoryTyped
<1>4. CASE HandleTab
  BY <1>4 DEF HandleTab, Devices, Screen, Goto, HistoryTyped
<1>5. CASE FindWindow
  BY <1>5 DEF FindWindow, Devices, Screen, History, Goto, HistoryTyped
<1>22. CASE MoveFocus
  BY <1>22 DEF MoveFocus, Devices, History, Goto, HistoryTyped
<1>23. CASE RemoveWindow
  BY <1>23
     DEF RemoveWindow, Devices, History, InputReturns, Return, Goto, HistoryTyped
<1>24. CASE InsertWindow
  BY <1>24
     DEF InsertWindow, Devices, History, InputReturns, Return, Goto, HistoryTyped
<1>25. ASSUME NEW t \in Users, NEW u \in Threads, TearRing(t, u) PROVE HistoryTyped'
  BY <1>25 DEF TearRing, Devices, Screen, HistoryTyped
<1>26. ASSUME NEW t \in Threads, NEW u \in Threads, TearList(t, u) PROVE HistoryTyped'
  BY <1>26 DEF TearList, Devices, Screen, HistoryTyped
<1>6. ASSUME NEW w \in Windows, NEW pressed \in BOOLEAN, NEW held \in BOOLEAN,
             NEW passed \in BOOLEAN, HandleMouse(w, pressed, held, passed)
      PROVE  HistoryTyped'
  BY <1>6 DEF HandleMouse, Devices, InputReturns, Return, Goto, HistoryTyped
<1>7. CASE MouseTimesOut
  BY <1>7 DEF MouseTimesOut, Devices, Screen, History, InputReturns, Return, Goto,
     HistoryTyped
<1>8. CASE PutEvent
  BY <1>8 DEF PutEvent, Devices, Screen, History, InputReturns, Return, Goto,
     HistoryTyped
<1>9. CASE StoreEvent
  BY <1>9 DEF StoreEvent, Devices, Screen, History, HistoryTyped
<1>10. ASSUME NEW t \in Users, CreateWindow(t) PROVE HistoryTyped'
  BY <1>10 DEF CreateWindow, Devices, Meets, HistoryTyped
<1>11. ASSUME NEW t \in Users, FinalizeThread(t) PROVE HistoryTyped'
  BY <1>11 DEF FinalizeThread, Devices, Screen, History, Goto, HistoryTyped
<1>12. ASSUME NEW t \in Users, DestroyThreadWindows(t) PROVE HistoryTyped'
  BY <1>12 DEF DestroyThreadWindows, Devices, Meets, HistoryTyped
<1>13. ASSUME NEW t \in Users, NEW w \in Windows, DestroyWindow(t, w)
       PROVE  HistoryTyped'
  BY <1>13 DEF DestroyWindow, Devices, Meets, HistoryTyped
<1>14. ASSUME NEW t \in Users, NEW w \in Windows, HideWindow(t, w)
       PROVE  HistoryTyped'
  BY <1>14 DEF HideWindow, Devices, Screen, HistoryTyped
<1>15. ASSUME NEW t \in Users, NEW w \in Windows, BringWindowToFront(t, w)
       PROVE  HistoryTyped'
  BY <1>15 DEF BringWindowToFront, Devices, Meets, HistoryTyped
<1>16. ASSUME NEW t \in Users, NEW w \in Windows, GetEvent(t, w) PROVE HistoryTyped'
  BY <1>16 DEF GetEvent, Devices, Screen, Reads, Wait, Goto, HistoryTyped
<1>17. ASSUME NEW t \in Users, NEW w \in Windows, PeekEvent(t, w)
       PROVE  HistoryTyped'
  BY <1>17 DEF PeekEvent, Devices, Screen, Reads, Goto, HistoryTyped
<1>18. ASSUME NEW t \in Users, PeekTakes(t) PROVE HistoryTyped'
  BY <1>18 DEF PeekTakes, Devices, Screen, History, Wait, Goto, HistoryTyped
<1>19. ASSUME NEW t \in Users, WaitReturns(t) PROVE HistoryTyped'
  BY <1>19 DEF WaitReturns, Devices, Screen, History, Goto, HistoryTyped
<1>20. ASSUME NEW t \in Users, TakeEvent(t) PROVE HistoryTyped'
  <2> DEFINE w == at[t]
  <2>0. PICK found \in Finds(events[w]) : GetItem(t, found)
    BY <1>20 DEF TakeEvent
  <2>1. /\ w \in Windows /\ events[w] \in QueueRecord /\ raced' = raced
        /\ shared' = shared
    BY <1>20, Names DEF TakeEvent, ThreadsTyped, EventsTyped
  <2>2. /\ seen' = IF found THEN [seen EXCEPT ![w] = events[w].items[1]] ELSE seen
        /\ missed' \in {missed, missed \cup {w}}
    BY <2>0, Zenon DEF GetItem
  <2>3. seen' \in [Windows -> 0..MaxEvents]
    <3>1. CASE ~found
      BY <2>2, <3>1 DEF HistoryTyped
    <3>2. CASE found
      <4>0. events[w].items[1] \in 1..MaxEvents
        BY <2>1, <3>2, ReadItemIs, FindsIs, Zenon
      <4>1. events[w].items[1] \in 0..MaxEvents
        BY <4>0, Names
      <4> QED
        BY <2>2, <3>2, <4>1 DEF HistoryTyped
    <3> QED
      BY <3>1, <3>2
  <2>4. fault' \in {fault, "FreedMemory", "StaleRing"}
    BY <2>0 DEF GetItem
  <2> QED
    BY <2>1, <2>2, <2>3, <2>4 DEF HistoryTyped
<1>21. CASE UNCHANGED vars
  BY <1>21 DEF vars, HistoryTyped
<1> QED
    BY <1>1, <1>2, <1>3, <1>4, <1>5, <1>6, <1>7, <1>8, <1>9, <1>10, <1>11, <1>12,
     <1>13, <1>14, <1>15, <1>16, <1>17, <1>18, <1>19, <1>20, <1>21, <1>22, <1>23, <1>24, <1>25,
     <1>26 DEF Next,
     InputStep, ReadStep

\* The types are kept.
LEMMA TypedStep == ASSUME Typed, Stacked, Unborn, [Next]_vars PROVE Typed'
BY DevicesStep, StackedStep, EventsStep, ThreadsStep, HandStep, HistoryStep
   DEF Typed

-----------------------------------------------------------------------------
(* Who is where, the focus, and the lock.                                  *)

\* A step at a window whose ID was given out
LEMMA UnbornKept ==
  ASSUME Unborn, ScreenTyped, nextId' = nextId, NEW w \in Windows, w < nextId,
         \A v \in Windows \ {w} : events'[v] = events[v],
         \A u \in Threads : at'[u] = at[u] \/ at'[u] < nextId
  PROVE  Unborn'
<1>1. ASSUME NEW v \in Windows, v >= nextId PROVE events'[v] = Fresh
  <2>1. v # w
    BY <1>1, Names DEF ScreenTyped
  <2> QED
    BY <1>1, <2>1 DEF Unborn
<1>2. ASSUME NEW u \in Threads PROVE at'[u] < nextId
  BY <1>2 DEF Unborn
<1> QED
  BY <1>1, <1>2 DEF Unborn

\* Nobody comes to a window whose ID was not given out.
LEMMA UnbornStep ==
  ASSUME Unborn, Stacked, ScreenTyped, EventsTyped, ThreadsTyped, [Next]_vars
  PROVE  Unborn'
<1>1. ASSUME NEW kind \in Kinds, Interrupt(kind) PROVE Unborn'
  BY <1>1 DEF Interrupt, Screen, History, Unborn
<1>2. CASE TakeInput
  BY <1>2 DEF TakeInput, Screen, History, Goto, Unborn
<1>3. CASE HandleKey
  <2>1. /\ nextId' = nextId /\ events' = events
        /\ \A u \in Threads : at'[u] \in {at[u], active}
    BY <1>3 DEF HandleKey, Screen, ThreadsTyped
  <2> QED
    BY <2>1 DEF Unborn, Stacked
<1>4. CASE HandleTab
  BY <1>4 DEF HandleTab, Screen, Unborn
<1>5. CASE FindWindow
  <2>1. /\ nextId' = nextId /\ events' = events
        /\ \E w \in 0..(nextId - 1) \cup {Previous, active} : at' = [at EXCEPT ![Input] = w]
    BY <1>5 DEF FindWindow, Screen, Goto
  <2>2. \A w \in 0..(nextId - 1) \cup {Previous, active} : w < nextId
    BY PreviousIs, Names DEF Stacked, ScreenTyped
  <2>3. \A u \in Threads : at'[u] = at[u] \/ at'[u] < nextId
    BY <2>1, <2>2, Names DEF ThreadsTyped
  <2> QED
    BY <2>1, <2>3 DEF Unborn
<1>22. CASE MoveFocus
  <2>1. /\ nextId' = nextId /\ events' = events
        /\ \E w \in 0..(nextId - 1) \cup {at[Input]} : at' = [at EXCEPT ![Input] = w]
    BY <1>22 DEF MoveFocus, Goto
  <2>2. \A w \in 0..(nextId - 1) \cup {at[Input]} : w < nextId
    BY Names DEF Unborn, ScreenTyped
  <2>3. \A u \in Threads : at'[u] = at[u] \/ at'[u] < nextId
    BY <2>1, <2>2, Names DEF ThreadsTyped
  <2> QED
    BY <2>1, <2>3 DEF Unborn
<1>23. CASE RemoveWindow
  <2>1. /\ nextId' = nextId /\ events' = events
        /\ \A u \in Threads : at'[u] = at[u] \/ at'[u] = Desktop
    BY <1>23 DEF RemoveWindow, Return, InputReturns, ThreadsTyped
  <2> QED
    BY <2>1, Names DEF Unborn, ScreenTyped
<1>24. CASE InsertWindow
  <2>1. /\ nextId' = nextId /\ events' = events
        /\ \A u \in Threads : at'[u] = at[u] \/ at'[u] = Desktop
    BY <1>24 DEF InsertWindow, Return, InputReturns, ThreadsTyped
  <2> QED
    BY <2>1, Names DEF Unborn, ScreenTyped
<1>25. ASSUME NEW t \in Users, NEW u \in Threads, TearRing(t, u) PROVE Unborn'
  BY <1>25 DEF TearRing, Devices, Screen, Unborn
<1>26. ASSUME NEW t \in Threads, NEW u \in Threads, TearList(t, u) PROVE Unborn'
  BY <1>26 DEF TearList, Devices, Screen, Unborn
<1>6. ASSUME NEW w \in Windows, NEW pressed \in BOOLEAN, NEW held \in BOOLEAN,
             NEW passed \in BOOLEAN, HandleMouse(w, pressed, held, passed)
      PROVE  Unborn'
  <2>1. /\ nextId' = nextId /\ events' = events
        /\ \A u \in Threads : at'[u] \in {at[u], Desktop, active, w}
    BY <1>6 DEF HandleMouse, InputReturns, Return, ThreadsTyped
  <2>2. w < nextId /\ active < nextId /\ Desktop < nextId
    BY <1>6, Names DEF HandleMouse, Open, Stacked, ScreenTyped
  <2> QED
    BY <2>1, <2>2 DEF Unborn
<1>7. CASE MouseTimesOut
  <2>1. /\ nextId' = nextId /\ \A v \in Windows \ {at[Input]} : events'[v] = events[v]
        /\ \A u \in Threads : at'[u] = at[u] \/ at'[u] = Desktop
    BY <1>7 DEF MouseTimesOut, Devices, Screen, Return, InputReturns, EventsTyped,
       ThreadsTyped
  <2>2. at[Input] \in Windows /\ at[Input] < nextId /\ Desktop < nextId
    BY <1>7, Names, StackEnds
       DEF MouseTimesOut, Open, Stacked, Unborn, ThreadsTyped, ScreenTyped
  <2> QED
    BY <2>1, <2>2, UnbornKept
<1>8. CASE PutEvent
  <2>1. /\ nextId' = nextId /\ \A v \in Windows \ {at[Input]} : events'[v] = events[v]
        /\ \A u \in Threads : at'[u] = at[u] \/ at'[u] = Desktop
    BY <1>8 DEF PutEvent, Devices, Screen, Return, InputReturns, EventsTyped,
       ThreadsTyped
  <2>2. at[Input] \in Windows /\ at[Input] < nextId /\ Desktop < nextId
    BY <1>8, Names, StackEnds
       DEF PutEvent, Open, Stacked, Unborn, ThreadsTyped, ScreenTyped
  <2> QED
    BY <2>1, <2>2, UnbornKept
<1>9. CASE StoreEvent
  <2>1. /\ nextId' = nextId /\ \A v \in Windows \ {at[Input]} : events'[v] = events[v]
        /\ \A u \in Threads : at'[u] = at[u] \/ at'[u] = Desktop
    BY <1>9 DEF StoreEvent, Devices, Screen, EventsTyped, ThreadsTyped
  <2>2. at[Input] \in Windows /\ at[Input] < nextId /\ Desktop < nextId
    BY <1>9, Names, StackEnds
       DEF StoreEvent, Open, Stacked, Unborn, ThreadsTyped, ScreenTyped
  <2> QED
    BY <2>1, <2>2, UnbornKept
<1>10. ASSUME NEW t \in Users, CreateWindow(t) PROVE Unborn'
  <2>1. nextId' = nextId + 1 /\ events' = events /\ at' = at
    BY <1>10 DEF CreateWindow
  <2>2. ASSUME NEW v \in Windows, v >= nextId + 1 PROVE events[v] = Fresh
    BY <2>2, Names DEF Unborn, ScreenTyped
  <2>3. ASSUME NEW u \in Threads PROVE at[u] < nextId + 1
    BY <2>3, Names DEF Unborn, ScreenTyped, ThreadsTyped
  <2> QED
    BY <2>1, <2>2, <2>3 DEF Unborn
<1>11. ASSUME NEW t \in Users, FinalizeThread(t) PROVE Unborn'
  <2>1. /\ nextId' = nextId /\ \A v \in Windows \ {at[t]} : events'[v] = events[v]
        /\ \A u \in Threads : at'[u] = at[u] \/ at'[u] = Desktop
    BY <1>11 DEF FinalizeThread, Devices, Screen, EventsTyped, ThreadsTyped
  <2>2. at[t] \in Windows /\ at[t] < nextId /\ Desktop < nextId
    BY <1>11, Names, StackEnds
       DEF FinalizeThread, Open, Stacked, Unborn, ThreadsTyped, ScreenTyped
  <2> QED
    BY <2>1, <2>2, UnbornKept
<1>12. ASSUME NEW t \in Users, DestroyThreadWindows(t) PROVE Unborn'
  <2>1. /\ \E own : events' = [w \in Windows |-> IF w \in own THEN Fresh ELSE events[w]]
        /\ nextId' = nextId /\ at' = at
    BY <1>12, Zenon DEF DestroyThreadWindows
  <2> QED
    BY <2>1 DEF Unborn
<1>13. ASSUME NEW t \in Users, NEW w \in Windows, DestroyWindow(t, w) PROVE Unborn'
  <2>1. /\ nextId' = nextId /\ \A v \in Windows \ {w} : events'[v] = events[v]
        /\ \A u \in Threads : at'[u] = at[u] \/ at'[u] = w
    BY <1>13 DEF DestroyWindow, Devices, EventsTyped, ThreadsTyped
  <2>2. w \in Windows /\ w < nextId /\ Desktop < nextId
    BY <1>13, Names, StackEnds
       DEF DestroyWindow, Open, Stacked, Unborn, ThreadsTyped, ScreenTyped
  <2> QED
    BY <2>1, <2>2, UnbornKept
<1>14. ASSUME NEW t \in Users, NEW w \in Windows, HideWindow(t, w) PROVE Unborn'
  BY <1>14 DEF HideWindow, Devices, Screen, Unborn
<1>15. ASSUME NEW t \in Users, NEW w \in Windows, BringWindowToFront(t, w)
       PROVE  Unborn'
  BY <1>15 DEF BringWindowToFront, Devices, Unborn
<1>16. ASSUME NEW t \in Users, NEW w \in Windows, GetEvent(t, w) PROVE Unborn'
  <2>1. /\ nextId' = nextId /\ \A v \in Windows \ {w} : events'[v] = events[v]
        /\ \A u \in Threads : at'[u] = at[u] \/ at'[u] = w
    BY <1>16 DEF GetEvent, Devices, Screen, Wait, Reads, EventsTyped, ThreadsTyped
  <2>2. w \in Windows /\ w < nextId /\ Desktop < nextId
    BY <1>16, Names, StackEnds
       DEF GetEvent, Open, Stacked, Unborn, ThreadsTyped, ScreenTyped
  <2> QED
    BY <2>1, <2>2, UnbornKept
<1>17. ASSUME NEW t \in Users, NEW w \in Windows, PeekEvent(t, w) PROVE Unborn'
  <2>1. /\ nextId' = nextId /\ \A v \in Windows \ {w} : events'[v] = events[v]
        /\ \A u \in Threads : at'[u] = at[u] \/ at'[u] = w
    BY <1>17 DEF PeekEvent, Devices, Screen, Reads, EventsTyped, ThreadsTyped
  <2>2. w \in Windows /\ w < nextId /\ Desktop < nextId
    BY <1>17, Names, StackEnds
       DEF PeekEvent, Open, Stacked, Unborn, ThreadsTyped, ScreenTyped
  <2> QED
    BY <2>1, <2>2, UnbornKept
<1>18. ASSUME NEW t \in Users, PeekTakes(t) PROVE Unborn'
  <2>1. /\ nextId' = nextId /\ \A v \in Windows \ {at[t]} : events'[v] = events[v]
        /\ \A u \in Threads : at'[u] = at[u] \/ at'[u] = Desktop
    BY <1>18 DEF PeekTakes, Devices, Screen, Wait, EventsTyped, ThreadsTyped
  <2>2. at[t] \in Windows /\ at[t] < nextId /\ Desktop < nextId
    BY <1>18, Names, StackEnds
       DEF PeekTakes, Open, Stacked, Unborn, ThreadsTyped, ScreenTyped
  <2> QED
    BY <2>1, <2>2, UnbornKept
<1>19. ASSUME NEW t \in Users, WaitReturns(t) PROVE Unborn'
  <2>1. /\ nextId' = nextId /\ \A v \in Windows \ {at[t]} : events'[v] = events[v]
        /\ \A u \in Threads : at'[u] = at[u] \/ at'[u] = Desktop
    BY <1>19 DEF WaitReturns, Devices, Screen, EventsTyped, ThreadsTyped
  <2>2. at[t] \in Windows /\ at[t] < nextId /\ Desktop < nextId
    BY <1>19, Names, StackEnds
       DEF WaitReturns, Open, Stacked, Unborn, ThreadsTyped, ScreenTyped
  <2> QED
    BY <2>1, <2>2, UnbornKept
<1>20. ASSUME NEW t \in Users, TakeEvent(t) PROVE Unborn'
  <2>1. /\ nextId' = nextId /\ \A v \in Windows \ {at[t]} : events'[v] = events[v]
        /\ \A u \in Threads : at'[u] = at[u] \/ at'[u] = Desktop
    BY <1>20 DEF TakeEvent, GetItem, Devices, Screen, Return, EventsTyped, ThreadsTyped
  <2>2. at[t] \in Windows /\ at[t] < nextId /\ Desktop < nextId
    BY <1>20, Names, StackEnds
       DEF TakeEvent, Open, Stacked, Unborn, ThreadsTyped, ScreenTyped
  <2> QED
    BY <2>1, <2>2, UnbornKept
<1>21. CASE UNCHANGED vars
  BY <1>21 DEF vars, Unborn
<1> QED
    BY <1>1, <1>2, <1>3, <1>4, <1>5, <1>6, <1>7, <1>8, <1>9, <1>10, <1>11, <1>12,
     <1>13, <1>14, <1>15, <1>16, <1>17, <1>18, <1>19, <1>20, <1>21, <1>22, <1>23, <1>24, <1>25,
     <1>26 DEF Next,
     InputStep, ReadStep

\* The focus stays on a window that exists, unless alt+tab met a change or there is no
\* mouse pointer.
LEMMA FocusedStep ==
  ASSUME Focused, Stacked, Stacked', ScreenTyped, ThreadsTyped, Unborn, [Next]_vars
  PROVE  Focused'
<1>1. CASE Calm
  BY <1>1 DEF Calm, Screen, Focused, Open, Exists, Unlocked
<1>2. CASE HandleTab
  <2>1. /\ UNCHANGED Screen /\ pc[Input] = "event" /\ pc'[Input] = "walk"
        /\ raced' = "never" => raced = "never"
    BY <1>2, Names DEF HandleTab, Handling, Goto, ThreadsTyped
  <2> QED
    BY <2>1 DEF Screen, Focused, Open, Exists
<1>3. CASE FindWindow
  <2>1. /\ UNCHANGED <<Screen, raced>> /\ pc[Input] = "walk"
        /\ pc'[Input] \in {"put", "focus"}
    BY <1>3, Names DEF FindWindow, Goto, History, ThreadsTyped
  <2>2. raced = "never" /\ pc'[Input] = "focus" => at'[Input] = Previous
    BY <1>3, Names DEF FindWindow, Goto, ThreadsTyped
  <2>3. Previous \in Range(windows) /\ Previous # MouseWindow
    BY PreviousIs DEF Stacked
  <2> QED
    BY <2>1, <2>2, <2>3 DEF Screen, Focused, Open, Exists
<1>4. CASE MoveFocus
  <2>1. /\ UNCHANGED <<windows, raced>> /\ pc[Input] = "focus" /\ pc'[Input] = "raise"
        /\ at'[Input] = active' /\ (Open(at[Input]) => active' = at[Input])
    BY <1>4, Names DEF MoveFocus, Goto, History, ThreadsTyped
  <2> QED
    BY <2>1 DEF Focused, Open, Exists
<1>5. CASE RemoveWindow
  <2>1. UNCHANGED <<active, raced>> /\ pc[Input] = "raise"
    BY <1>5 DEF RemoveWindow, History
  <2>2. CASE Open(at[Input]) /\ at[Input] # Desktop
    <3>1. windows' = Without(windows, at[Input]) /\ at' = at /\ pc'[Input] = "link"
      BY <1>5, <2>2, Names DEF RemoveWindow, Goto, ThreadsTyped
    <3>2. Range(windows') = Range(windows) \ {at[Input]}
      BY <2>2, <3>1, StackWithout DEF Stacked, Open
    <3> QED
      BY <2>1, <2>2, <3>1, <3>2 DEF Focused, Open, Exists
  <2>3. CASE ~(Open(at[Input]) /\ at[Input] # Desktop)
    <3>1. windows' = windows /\ pc'[Input] = "idle"
      BY <1>5, <2>3, Names DEF RemoveWindow, InputReturns, Return, Goto, ThreadsTyped
    <3> QED
      BY <2>1, <3>1 DEF Focused, Open, Exists
  <2> QED
    BY <2>2, <2>3
<1>6. CASE InsertWindow
  <2>1. /\ windows' = BelowMouse(windows, at[Input]) /\ UNCHANGED <<active, raced>>
        /\ pc[Input] = "link" /\ pc'[Input] = "idle"
    BY <1>6, Names DEF InsertWindow, History, InputReturns, Return, Goto, ThreadsTyped
  <2>2. at[Input] \in Windows /\ at[Input] # Desktop
    BY <2>1, Names DEF ThreadsTyped, Stacked
  <2>3. Range(windows') = Range(windows) \cup {at[Input]}
    BY <2>1, <2>2, StackBelowMouse DEF Stacked
  <2> QED
    BY <2>1, <2>3 DEF Focused, Open, Exists
<1>7. ASSUME NEW w \in Windows, NEW pressed \in BOOLEAN, NEW held \in BOOLEAN,
             NEW passed \in BOOLEAN, HandleMouse(w, pressed, held, passed)
      PROVE  Focused'
  <2>1. /\ windows' \in {windows, InFront(windows, w)} /\ active' \in {active, w}
        /\ w \in Range(windows) /\ w # MouseWindow /\ raced' = raced
        /\ pc[Input] = "event"
    BY <1>7 DEF HandleMouse, Handling, Open
  <2>2. pc'[Input] \in {"idle", "put"}
    BY <1>7, Names DEF HandleMouse, InputReturns, Return, Goto, ThreadsTyped
  <2>3. Range(windows') = Range(windows)
    BY <2>1, StackInFront DEF Stacked
  <2> QED
    BY <2>1, <2>2, <2>3 DEF Focused, Open, Exists
<1>8. ASSUME NEW t \in Users, CreateWindow(t) PROVE Focused'
  <2>1. windows' = BelowMouse(windows, nextId) /\ active' = nextId /\ UNCHANGED <<pc, at>>
        /\ Meets
    BY <1>8 DEF CreateWindow
  <2>2. nextId \in Windows /\ nextId > 2
    BY <1>8, Names DEF CreateWindow, ScreenTyped
  <2>3. Range(windows') = Range(windows) \cup {nextId}
    BY <2>1, <2>2, StackBelowMouse, Names DEF Stacked
  <2> QED
    BY <2>1, <2>2, <2>3, Names DEF Focused, Open, Exists, Meets, Unlocked
<1>9. ASSUME NEW t \in Users, DestroyThreadWindows(t) PROVE Focused'
  <2> DEFINE own == {w \in Range(windows) : owner[w] = t}
             kept == Range(windows) \ own
  <2>1. active' = (IF own = {} THEN active ELSE Focus(windows')) /\ Meets
    <3>1. Meets
      BY <1>9, Zenon DEF DestroyThreadWindows
    <3> QED
      BY <1>9, <3>1, OwnWindowsGo
  <2>2. pc'[Input] = pc[Input] /\ at'[Input] = at[Input]
    BY <1>9, InputStays DEF DestroyThreadWindows, Goto
  <2>3. Range(windows') = kept
    BY <1>9, OwnWindowsGo
  <2>4. IsStack(windows')
    BY DEF Stacked
  <2> HIDE DEF own
  <2>5. own = {} => kept = Range(windows)
    OBVIOUS
  <2>6. SUFFICES ASSUME raced' = "never" PROVE Focused'
    BY DEF Focused
  <2>7. pc[Input] \notin Unlocked /\ raced = "never"
    BY <2>1, <2>6 DEF Meets
  <2>8. ASSUME MouseWindow \in Range(windows')
        PROVE  active' \in Range(windows') /\ active' # MouseWindow
    <3>1. CASE own = {}
      BY <2>1, <2>3, <2>5, <2>7, <2>8, <3>1 DEF Focused, Open, Exists, Unlocked
    <3>2. CASE own # {}
      <4>1. active' = Focus(windows')
        BY <2>1, <3>2
      <4>2. Focus(windows') \in Range(windows') /\ Focus(windows') # MouseWindow
        BY <2>4, <2>8, StackEnds
      <4> QED
        BY <4>1, <4>2
    <3> QED
      BY <3>1, <3>2
  <2> QED
    BY <2>2, <2>7, <2>8 DEF Focused, Open, Exists, Unlocked
<1>10. ASSUME NEW t \in Users, NEW w \in Windows, DestroyWindow(t, w) PROVE Focused'
  <2>1. active' = Focus(windows') /\ Meets /\ pc' = pc /\ at' = at
    BY <1>10 DEF DestroyWindow
  <2>4. IsStack(windows')
    BY DEF Stacked
  <2>6. SUFFICES ASSUME raced' = "never" PROVE Focused'
    BY DEF Focused
  <2>7. pc[Input] \notin Unlocked
    BY <2>1, <2>6 DEF Meets
  <2>8. ASSUME MouseWindow \in Range(windows')
        PROVE  active' \in Range(windows') /\ active' # MouseWindow
    <3>1. Focus(windows') \in Range(windows') /\ Focus(windows') # MouseWindow
      BY <2>4, <2>8, StackEnds
    <3> QED
      BY <2>1, <3>1
  <2> QED
    BY <2>1, <2>7, <2>8 DEF Focused, Open, Exists, Unlocked
<1>11. ASSUME NEW t \in Users, NEW w \in Windows, BringWindowToFront(t, w)
       PROVE  Focused'
  <2>1. windows' = InFront(windows, w) /\ UNCHANGED <<active, pc, at>> /\ Meets
    BY <1>11 DEF BringWindowToFront
  <2>2. Range(windows') = Range(windows)
    BY <2>1, StackInFront DEF Stacked
  <2> QED
    BY <2>1, <2>2 DEF Focused, Open, Exists, Meets, Unlocked
<1> QED
  BY <1>1, <1>2, <1>3, <1>4, <1>5, <1>6, <1>7, <1>8, <1>9, <1>10, <1>11, CalmOrNot

\* While Put is under way nobody else has the lock, and its window stays.
LEMMA HeldStep == ASSUME Held, ThreadsTyped, [Next]_vars PROVE Held'
<1>1. ASSUME NEW kind \in Kinds, Interrupt(kind) PROVE Held'
  <2>1. UNCHANGED <<lock, windows>> /\ pc'[Input] = pc[Input] /\ at'[Input] = at[Input]
    BY <1>1, Names DEF Interrupt, Screen, History, ThreadsTyped
  <2> QED
    BY <2>1 DEF Held, Open
<1>2. CASE TakeInput
  <2>1. pc[Input] = "idle" /\ pc'[Input] # "store"
    BY <1>2, Names DEF TakeInput, Goto, ThreadsTyped
  <2> QED
    BY <2>1 DEF Held
<1>3. CASE HandleKey
  <2>1. pc'[Input] # "store"
    BY <1>3, Names DEF HandleKey, Devices, Screen, History, ThreadsTyped, Goto
  <2> QED
    BY <2>1 DEF Held
<1>4. CASE HandleTab
  <2>1. pc'[Input] # "store"
    BY <1>4, Names DEF HandleTab, ThreadsTyped, Goto
  <2> QED
    BY <2>1 DEF Held
<1>5. CASE FindWindow
  <2>1. pc'[Input] # "store"
    BY <1>5, Names DEF FindWindow, ThreadsTyped, Goto
  <2> QED
    BY <2>1 DEF Held
<1>22. CASE MoveFocus
  <2>1. pc'[Input] # "store"
    BY <1>22, Names DEF MoveFocus, ThreadsTyped, Goto
  <2> QED
    BY <2>1 DEF Held
<1>23. CASE RemoveWindow
  <2>1. pc'[Input] # "store"
    BY <1>23, Names DEF RemoveWindow, ThreadsTyped, Goto, Return, InputReturns
  <2> QED
    BY <2>1 DEF Held
<1>24. CASE InsertWindow
  <2>1. pc'[Input] # "store"
    BY <1>24, Names DEF InsertWindow, ThreadsTyped, Goto, Return, InputReturns
  <2> QED
    BY <2>1 DEF Held
<1>25. ASSUME NEW t \in Users, NEW u \in Threads, TearRing(t, u) PROVE Held'
  BY <1>25 DEF TearRing, Devices, Screen, Held, Open
<1>26. ASSUME NEW t \in Threads, NEW u \in Threads, TearList(t, u) PROVE Held'
  BY <1>26 DEF TearList, Devices, Screen, Held, Open
<1>6. ASSUME NEW w \in Windows, NEW pressed \in BOOLEAN, NEW held \in BOOLEAN,
             NEW passed \in BOOLEAN, HandleMouse(w, pressed, held, passed)
      PROVE  Held'
  <2>1. pc'[Input] # "store"
    BY <1>6, Names
       DEF HandleMouse, Devices, ThreadsTyped, Goto, Return, InputReturns
  <2> QED
    BY <2>1 DEF Held
<1>7. CASE MouseTimesOut
  <2>1. pc'[Input] # "store"
    BY <1>7, Names DEF MouseTimesOut, Devices, Screen, History, ThreadsTyped, Goto,
       Return, InputReturns
  <2> QED
    BY <2>1 DEF Held
<1>8. CASE PutEvent
  <2>1. \/ pc'[Input] = "idle"
        \/ lock' = Input /\ Open(at[Input]) /\ at' = at /\ windows' = windows
    BY <1>8, Names DEF PutEvent, ThreadsTyped, InputReturns, Return, Goto, Screen
  <2> QED
    BY <2>1 DEF Held, Open
<1>9. CASE StoreEvent
  <2>1. pc'[Input] # "store"
    BY <1>9, Names DEF StoreEvent, Devices, Screen, History, ThreadsTyped
  <2> QED
    BY <2>1 DEF Held
<1>10. ASSUME NEW t \in Users, CreateWindow(t) PROVE Held'
  <2>1. lock = NoOne /\ pc'[Input] = pc[Input]
    BY <1>10, Names DEF CreateWindow, Locked, ThreadsTyped
  <2>2. pc[Input] # "store"
    BY <2>1, Names DEF Held
  <2> QED
    BY <2>1, <2>2 DEF Held
<1>11. ASSUME NEW t \in Users, FinalizeThread(t) PROVE Held'
  <2>1. UNCHANGED <<lock, windows>> /\ pc'[Input] = pc[Input] /\ at'[Input] = at[Input]
    BY <1>11, Names DEF FinalizeThread, Devices, Screen, History, ThreadsTyped, Goto
  <2> QED
    BY <2>1 DEF Held, Open
<1>12. ASSUME NEW t \in Users, DestroyThreadWindows(t) PROVE Held'
  <2>1. lock = NoOne /\ pc'[Input] = pc[Input]
    BY <1>12, Names DEF DestroyThreadWindows, Locked, ThreadsTyped, Goto
  <2>2. pc[Input] # "store"
    BY <2>1, Names DEF Held
  <2> QED
    BY <2>1, <2>2 DEF Held
<1>13. ASSUME NEW t \in Users, NEW w \in Windows, DestroyWindow(t, w) PROVE Held'
  <2>1. lock = NoOne /\ pc'[Input] = pc[Input]
    BY <1>13, Names DEF DestroyWindow, Locked, ThreadsTyped
  <2>2. pc[Input] # "store"
    BY <2>1, Names DEF Held
  <2> QED
    BY <2>1, <2>2 DEF Held
<1>14. ASSUME NEW t \in Users, NEW w \in Windows, HideWindow(t, w) PROVE Held'
  <2>1. UNCHANGED <<lock, windows>> /\ pc'[Input] = pc[Input] /\ at'[Input] = at[Input]
    BY <1>14, Names DEF HideWindow, Devices, Screen, ThreadsTyped
  <2> QED
    BY <2>1 DEF Held, Open
<1>15. ASSUME NEW t \in Users, NEW w \in Windows, BringWindowToFront(t, w)
       PROVE  Held'
  <2>1. lock = NoOne /\ pc'[Input] = pc[Input]
    BY <1>15, Names DEF BringWindowToFront, Locked, ThreadsTyped
  <2>2. pc[Input] # "store"
    BY <2>1, Names DEF Held
  <2> QED
    BY <2>1, <2>2 DEF Held
<1>16. ASSUME NEW t \in Users, NEW w \in Windows, GetEvent(t, w) PROVE Held'
  <2>1. UNCHANGED <<lock, windows>> /\ pc'[Input] = pc[Input] /\ at'[Input] = at[Input]
    BY <1>16, Names DEF GetEvent, Devices, Screen, ThreadsTyped, Goto, Reads, Wait
  <2> QED
    BY <2>1 DEF Held, Open
<1>17. ASSUME NEW t \in Users, NEW w \in Windows, PeekEvent(t, w) PROVE Held'
  <2>1. lock = NoOne /\ pc'[Input] = pc[Input]
    BY <1>17, Names DEF PeekEvent, Locked, ThreadsTyped, Goto
  <2>2. pc[Input] # "store"
    BY <2>1, Names DEF Held
  <2> QED
    BY <2>1, <2>2 DEF Held
<1>18. ASSUME NEW t \in Users, PeekTakes(t) PROVE Held'
  <2>1. UNCHANGED <<lock, windows>> /\ pc'[Input] = pc[Input] /\ at'[Input] = at[Input]
    BY <1>18, Names
       DEF PeekTakes, Devices, Screen, History, ThreadsTyped, Goto, Wait
  <2> QED
    BY <2>1 DEF Held, Open
<1>19. ASSUME NEW t \in Users, WaitReturns(t) PROVE Held'
  <2>1. UNCHANGED <<lock, windows>> /\ pc'[Input] = pc[Input] /\ at'[Input] = at[Input]
    BY <1>19, Names DEF WaitReturns, Devices, Screen, History, ThreadsTyped, Goto
  <2> QED
    BY <2>1 DEF Held, Open
<1>20. ASSUME NEW t \in Users, TakeEvent(t) PROVE Held'
  <2>1. /\ windows' = windows /\ pc'[Input] = pc[Input] /\ at'[Input] = at[Input]
        /\ lock = Input => lock' = Input
    BY <1>20, Names DEF TakeEvent, Screen, ThreadsTyped, Goto, Return
  <2> QED
    BY <2>1 DEF Held, Open
<1>21. CASE UNCHANGED vars
  BY <1>21 DEF vars, Held, Open
<1> QED
    BY <1>1, <1>2, <1>3, <1>4, <1>5, <1>6, <1>7, <1>8, <1>9, <1>10, <1>11, <1>12,
     <1>13, <1>14, <1>15, <1>16, <1>17, <1>18, <1>19, <1>20, <1>21, <1>22, <1>23, <1>24, <1>25,
     <1>26 DEF Next,
     InputStep, ReadStep

\* A thread moves on; the windows keep their owners, and none becomes private again.
LEMMA ShareKept ==
  ASSUME ReadersShare, ThreadsTyped, owner' = owner, shared \subseteq shared',
         \A u \in Users : \/ at'[u] = Desktop /\ pc'[u] \notin Reading
                          \/ at'[u] = at[u] /\ (pc'[u] \in Reading => pc[u] \in Reading)
  PROVE  ReadersShare'
<1> SUFFICES ASSUME NEW u \in Users
             PROVE  /\ pc'[u] \in Reading => at'[u] # Desktop
                    /\ at'[u] # Desktop => owner'[at'[u]] = u \/ at'[u] \in shared'
  BY DEF ReadersShare
<1> QED
  BY DEF ReadersShare

\* Who works on a window that he does not own has made it shared.
LEMMA ShareStep ==
  ASSUME ReadersShare, Stacked, Unborn, ScreenTyped, ThreadsTyped, EventsTyped,
         QueuesAreRight, [Next]_vars
  PROVE  ReadersShare'
<1>1. ASSUME NEW kind \in Kinds, Interrupt(kind) PROVE ReadersShare'
  <2>1. /\ owner' = owner /\ shared' = shared
        /\ \A u \in Users : pc'[u] = pc[u] /\ at'[u] = at[u]
    BY <1>1, Names DEF Interrupt, Screen, History, ThreadsTyped
  <2> QED
    BY <2>1, ShareKept
<1>2. CASE TakeInput
  <2>1. /\ owner' = owner /\ shared' = shared
        /\ \A u \in Users : pc'[u] = pc[u] /\ at'[u] = at[u]
    BY <1>2, Names DEF TakeInput, Screen, History, ThreadsTyped, Goto
  <2> QED
    BY <2>1, ShareKept
<1>3. CASE HandleKey
  <2>1. /\ owner' = owner /\ shared' = shared
        /\ \A u \in Users : pc'[u] = pc[u] /\ at'[u] = at[u]
    BY <1>3, Names DEF HandleKey, Devices, Screen, History, ThreadsTyped, Goto
  <2> QED
    BY <2>1, ShareKept
<1>4. CASE HandleTab
  <2>1. /\ owner' = owner /\ shared' = shared
        /\ \A u \in Users : pc'[u] = pc[u] /\ at'[u] = at[u]
    BY <1>4, Names DEF HandleTab, Devices, Screen, History, ThreadsTyped, Goto
  <2> QED
    BY <2>1, ShareKept
<1>5. CASE FindWindow
  <2>1. /\ owner' = owner /\ shared' = shared
        /\ \A u \in Users : pc'[u] = pc[u] /\ at'[u] = at[u]
    BY <1>5, Names DEF FindWindow, Screen, History, ThreadsTyped, Goto
  <2> QED
    BY <2>1, ShareKept
<1>22. CASE MoveFocus
  <2>1. /\ owner' = owner /\ shared' = shared
        /\ \A u \in Users : pc'[u] = pc[u] /\ at'[u] = at[u]
    BY <1>22, Names DEF MoveFocus, Screen, History, ThreadsTyped, Goto
  <2> QED
    BY <2>1, ShareKept
<1>23. CASE RemoveWindow
  <2>1. /\ owner' = owner /\ shared' = shared
        /\ \A u \in Users : pc'[u] = pc[u] /\ at'[u] = at[u]
    BY <1>23, Names DEF RemoveWindow, Screen, History, ThreadsTyped, Goto,
       Return, InputReturns
  <2> QED
    BY <2>1, ShareKept
<1>24. CASE InsertWindow
  <2>1. /\ owner' = owner /\ shared' = shared
        /\ \A u \in Users : pc'[u] = pc[u] /\ at'[u] = at[u]
    BY <1>24, Names DEF InsertWindow, Screen, History, ThreadsTyped, Goto,
       Return, InputReturns
  <2> QED
    BY <2>1, ShareKept
<1>25. ASSUME NEW t \in Users, NEW u \in Threads, TearRing(t, u) PROVE ReadersShare'
  BY <1>25 DEF TearRing, Devices, Screen, ReadersShare
<1>26. ASSUME NEW t \in Threads, NEW u \in Threads, TearList(t, u)
       PROVE  ReadersShare'
  BY <1>26 DEF TearList, Devices, Screen, ReadersShare
<1>6. ASSUME NEW w \in Windows, NEW pressed \in BOOLEAN, NEW held \in BOOLEAN,
             NEW passed \in BOOLEAN, HandleMouse(w, pressed, held, passed)
      PROVE  ReadersShare'
  <2>1. /\ owner' = owner /\ shared' = shared
        /\ \A u \in Users : pc'[u] = pc[u] /\ at'[u] = at[u]
    BY <1>6, Names
       DEF HandleMouse, Devices, ThreadsTyped, Goto, Return, InputReturns
  <2> QED
    BY <2>1, ShareKept
<1>7. CASE MouseTimesOut
  <2>1. /\ owner' = owner /\ shared' = shared
        /\ \A u \in Users : pc'[u] = pc[u] /\ at'[u] = at[u]
    BY <1>7, Names DEF MouseTimesOut, Devices, Screen, History, ThreadsTyped, Goto,
       Return, InputReturns
  <2> QED
    BY <2>1, ShareKept
<1>8. CASE PutEvent
  <2>1. /\ owner' = owner /\ shared' = shared
        /\ \A u \in Users : pc'[u] = pc[u] /\ at'[u] = at[u]
    BY <1>8, Names DEF PutEvent, Devices, Screen, History, ThreadsTyped, Goto,
       Return, InputReturns
  <2> QED
    BY <2>1, ShareKept
<1>9. CASE StoreEvent
  <2> DEFINE q == events[at[Input]]
             woken == IF q.waiters = <<>> THEN {} ELSE {Head(q.waiters)}
  <2>1. /\ pc' = [u \in Threads |-> IF u = Input THEN "idle"
                                   ELSE IF u \in woken THEN "woken" ELSE pc[u]]
        /\ at' = [at EXCEPT ![Input] = Desktop] /\ owner' = owner /\ shared' = shared
    BY <1>9, Zenon DEF StoreEvent, Screen, History
  <2>2. at[Input] \in Windows /\ q.waiters \in Seq(Users)
    BY FieldTypes, Names DEF ThreadsTyped, EventsTyped
  <2>3. \A u \in woken : pc[u] = "wait"
    <3>1. CASE q.waiters = <<>>
      BY <3>1
    <3>2. CASE q.waiters # <<>>
      <4>1. Head(q.waiters) \in Range(q.waiters)
        BY <2>2, <3>2, TailOnce DEF QueuesAreRight, ListIsRight
      <4> QED
        BY <2>2, <3>2, <4>1 DEF QueuesAreRight, ListIsRight
    <3> QED
      BY <3>1, <3>2
  <2> HIDE DEF woken
  <2>4. \A u \in Users : at'[u] = at[u] /\ (pc'[u] = pc[u] \/ pc[u] = "wait")
    BY <2>1, <2>3, Names DEF ThreadsTyped
  <2>5. \A u \in Users : pc'[u] \in Reading => pc[u] \in Reading
    BY <2>4 DEF Reading
  <2> QED
    BY <2>1, <2>4, <2>5, ShareKept
<1>10. ASSUME NEW t \in Users, CreateWindow(t) PROVE ReadersShare'
  <2>1. UNCHANGED <<pc, at, shared>> /\ owner' = [owner EXCEPT ![nextId] = t]
    BY <1>10 DEF CreateWindow
  <2>2. \A u \in Users : owner'[at[u]] = owner[at[u]]
    BY <2>1, Names DEF Unborn, ThreadsTyped, ScreenTyped
  <2> QED
    BY <2>1, <2>2 DEF ReadersShare
<1>11. ASSUME NEW t \in Users, FinalizeThread(t) PROVE ReadersShare'
  <2>1. /\ owner' = owner /\ shared' = shared
        /\ \A u \in Users \ {t} : pc'[u] = pc[u] /\ at'[u] = at[u]
        /\ pc'[t] = "dead" /\ at'[t] = at[t]
    BY <1>11, Names DEF FinalizeThread, ThreadsTyped, Screen, History, Goto
  <2>2. \A u \in Users : \/ at'[u] = Desktop /\ pc'[u] \notin Reading
                         \/ at'[u] = at[u] /\ (pc'[u] \in Reading => pc[u] \in Reading)
    BY <2>1 DEF Reading
  <2> QED
    BY <2>1, <2>2, ShareKept
<1>12. ASSUME NEW t \in Users, DestroyThreadWindows(t) PROVE ReadersShare'
  <2>1. /\ owner' = owner /\ shared' = shared
        /\ \A u \in Users \ {t} : pc'[u] = pc[u] /\ at'[u] = at[u]
        /\ pc'[t] = "gone" /\ at'[t] = at[t]
    BY <1>12, Names DEF DestroyThreadWindows, ThreadsTyped, Goto
  <2>2. \A u \in Users : \/ at'[u] = Desktop /\ pc'[u] \notin Reading
                         \/ at'[u] = at[u] /\ (pc'[u] \in Reading => pc[u] \in Reading)
    BY <2>1 DEF Reading
  <2> QED
    BY <2>1, <2>2, ShareKept
<1>13. ASSUME NEW t \in Users, NEW w \in Windows, DestroyWindow(t, w)
       PROVE  ReadersShare'
  <2>1. /\ owner' = owner /\ shared' = shared
        /\ \A u \in Users : pc'[u] = pc[u] /\ at'[u] = at[u]
    BY <1>13, Names DEF DestroyWindow, Devices, ThreadsTyped
  <2> QED
    BY <2>1, ShareKept
<1>14. ASSUME NEW t \in Users, NEW w \in Windows, HideWindow(t, w)
       PROVE  ReadersShare'
  <2>1. /\ owner' = owner /\ shared' = shared
        /\ \A u \in Users : pc'[u] = pc[u] /\ at'[u] = at[u]
    BY <1>14, Names DEF HideWindow, Devices, Screen, ThreadsTyped
  <2> QED
    BY <2>1, ShareKept
<1>15. ASSUME NEW t \in Users, NEW w \in Windows, BringWindowToFront(t, w)
       PROVE  ReadersShare'
  <2>1. /\ owner' = owner /\ shared' = shared
        /\ \A u \in Users : pc'[u] = pc[u] /\ at'[u] = at[u]
    BY <1>15, Names DEF BringWindowToFront, Devices, ThreadsTyped
  <2> QED
    BY <2>1, ShareKept
<1>16. ASSUME NEW t \in Users, NEW w \in Windows, GetEvent(t, w) PROVE ReadersShare'
  <2>1. /\ owner' = owner /\ w \in Readable /\ at'[t] = w
        /\ shared' = IF owner[w] = t THEN shared ELSE shared \cup {w}
        /\ \A u \in Users \ {t} : pc'[u] = pc[u] /\ at'[u] = at[u]
    BY <1>16, Names DEF GetEvent, Screen, Goto, Reads, Wait, ThreadsTyped
  <2>2. w # Desktop /\ (owner[w] = t \/ w \in shared') /\ shared \subseteq shared'
    BY <2>1, WindowManagerAssumption
  <2> QED
    BY <2>1, <2>2 DEF ReadersShare
<1>17. ASSUME NEW t \in Users, NEW w \in Windows, PeekEvent(t, w)
       PROVE  ReadersShare'
  <2>1. /\ owner' = owner /\ w \in Readable /\ at'[t] = w
        /\ shared' = IF owner[w] = t THEN shared ELSE shared \cup {w}
        /\ \A u \in Users \ {t} : pc'[u] = pc[u] /\ at'[u] = at[u]
    BY <1>17, Names DEF PeekEvent, Screen, Goto, Reads, ThreadsTyped
  <2>2. w # Desktop /\ (owner[w] = t \/ w \in shared') /\ shared \subseteq shared'
    BY <2>1, WindowManagerAssumption
  <2> QED
    BY <2>1, <2>2 DEF ReadersShare
<1>18. ASSUME NEW t \in Users, PeekTakes(t) PROVE ReadersShare'
  <2>1. /\ owner' = owner /\ shared' = shared
        /\ \A u \in Users \ {t} : pc'[u] = pc[u] /\ at'[u] = at[u]
        /\ pc[t] = "peek" /\ at'[t] = at[t]
    BY <1>18, Names DEF PeekTakes, ThreadsTyped, Wait, Screen, History, Goto
  <2>2. \A u \in Users : \/ at'[u] = Desktop /\ pc'[u] \notin Reading
                         \/ at'[u] = at[u] /\ (pc'[u] \in Reading => pc[u] \in Reading)
    BY <2>1 DEF Reading
  <2> QED
    BY <2>1, <2>2, ShareKept
<1>19. ASSUME NEW t \in Users, WaitReturns(t) PROVE ReadersShare'
  <2>1. /\ owner' = owner /\ shared' = shared
        /\ \A u \in Users \ {t} : pc'[u] = pc[u] /\ at'[u] = at[u]
        /\ pc[t] = "woken" /\ at'[t] = at[t]
    BY <1>19, Names DEF WaitReturns, ThreadsTyped, Screen, History, Goto
  <2>2. \A u \in Users : \/ at'[u] = Desktop /\ pc'[u] \notin Reading
                         \/ at'[u] = at[u] /\ (pc'[u] \in Reading => pc[u] \in Reading)
    BY <2>1 DEF Reading
  <2> QED
    BY <2>1, <2>2, ShareKept
<1>20. ASSUME NEW t \in Users, TakeEvent(t) PROVE ReadersShare'
  <2>1. /\ owner' = owner /\ shared' = shared
        /\ \A u \in Users \ {t} : pc'[u] = pc[u] /\ at'[u] = at[u]
        /\ pc'[t] = "idle" /\ at'[t] = Desktop
    BY <1>20, Names DEF TakeEvent, ThreadsTyped, Screen, Goto, Return
  <2>2. \A u \in Users : \/ at'[u] = Desktop /\ pc'[u] \notin Reading
                         \/ at'[u] = at[u] /\ (pc'[u] \in Reading => pc[u] \in Reading)
    BY <2>1 DEF Reading
  <2> QED
    BY <2>1, <2>2, ShareKept
<1>21. CASE UNCHANGED vars
  BY <1>21 DEF vars, ReadersShare
<1> QED
    BY <1>1, <1>2, <1>3, <1>4, <1>5, <1>6, <1>7, <1>8, <1>9, <1>10, <1>11, <1>12,
     <1>13, <1>14, <1>15, <1>16, <1>17, <1>18, <1>19, <1>20, <1>21, <1>22, <1>23, <1>24, <1>25,
     <1>26 DEF Next,
     InputStep, ReadStep

-----------------------------------------------------------------------------
(* The queues, step by step.                                               *)

\* What a step has to show of one queue
Keeps(w) ==
  /\ ListIsRight(w)' /\ RingFits(w)'
  /\ Exists(w)' => CountIsRight(w)' /\ Account(w)'

\* What is shown queue by queue
LEMMA AllKept ==
  ASSUME \A w \in Windows : Keeps(w)
  PROVE  QueuesAreRight'
BY DEF Keeps, QueuesAreRight

\* A queue that the step leaves alone stays right.
LEMMA ElsewhereKept ==
  ASSUME QueuesAreRight, EventsTyped, NEW w \in Windows, Undisturbed(w),
         events'[w] = events[w]
  PROVE  Keeps(w)
<1>1. events[w] \in QueueRecord /\ ListIsRight(w) /\ RingFits(w)
  BY DEF EventsTyped, QueuesAreRight
<1>2. Exists(w)' => Exists(w)
  BY DEF Undisturbed
<1>3. Exists(w) => CountIsRight(w) /\ Account(w)
  BY DEF QueuesAreRight
<1> QED
  BY <1>1, <1>2, <1>3, ElsewhereKeeps DEF Keeps

\* A window that t does not wait at, before or after, or that no program's thread
\* does anything to
LEMMA NotDisturbed ==
  ASSUME NEW w, NEW t \in Users, OthersKeep(t), hand' = hand,
         pc[t] \in Waits => at[t] # w, pc'[t] \in Waits => at'[t] # w,
         pc[t] \in Gone => pc'[t] \in Gone /\ at'[t] = at[t],
         shared \subseteq shared', missed \subseteq missed', Exists(w)' => Exists(w)
  PROVE  Undisturbed(w)
<1>1. pc'[Input] = pc[Input] /\ at'[Input] = at[Input]
  BY Names DEF OthersKeep
<1>2. \A u \in Users : u # t => pc'[u] = pc[u] /\ at'[u] = at[u]
  BY Names DEF OthersKeep
<1>3. \A u \in Users :
        (pc[u] \in Waits /\ at[u] = w) \/ (pc'[u] \in Waits /\ at'[u] = w) =>
          pc'[u] = pc[u] /\ at'[u] = at[u]
  BY <1>2
<1>4. \A u \in Users : pc[u] \in Gone /\ at[u] = w => pc'[u] \in Gone /\ at'[u] = w
  BY <1>2
<1>5. /\ \A flag \in Flags : Storing(w, flag)' <=> Storing(w, flag)
      /\ Putting(w)' = Putting(w)
  BY <1>1 DEF Storing, Putting
<1> QED
  BY <1>3, <1>4, <1>5 DEF Undisturbed

\* A step of the input thread outside of Put
LEMMA NoneDisturbed ==
  ASSUME NEW w, \A u \in Users : pc'[u] = pc[u] /\ at'[u] = at[u],
         pc[Input] = "store" => at[Input] # w, pc'[Input] = "store" => at'[Input] # w,
         shared \subseteq shared', missed \subseteq missed', Exists(w)' => Exists(w)
  PROVE  Undisturbed(w)
<1>1. /\ \A flag \in Flags : Storing(w, flag)' <=> Storing(w, flag)
      /\ Putting(w)' = Putting(w)
  BY DEF Storing, Putting
<1> QED
  BY <1>1 DEF Undisturbed

\* A step that moves no thread
LEMMA SameThreads ==
  ASSUME NEW w, pc' = pc, at' = at, hand' = hand, shared' = shared, missed' = missed,
         Exists(w)' => Exists(w)
  PROVE  Undisturbed(w)
BY DEF Undisturbed, Storing, Putting

\* Who is at a window that is not shared owns it.
LEMMA Alone ==
  ASSUME ReadersShare, NEW w, w # Desktop, NEW t \in Users,
         owner[w] = t \/ w \in shared', shared \subseteq shared'
  PROVE  Sole(w, t)
BY DEF ReadersShare, Sole

\* Only the creation of a window makes one exist.
LEMMA ExistsStep ==
  ASSUME ThreadsTyped, Stacked, Stacked', ScreenTyped, [Next]_vars
  PROVE  \/ \A w \in Windows : Exists(w)' => Exists(w)
         \/ \E t \in Users : CreateWindow(t)
<1>1. CASE Calm
  BY <1>1 DEF Calm, Screen, Open, Exists, Unlocked
<1>2. CASE HandleTab
  <2>1. UNCHANGED windows /\ pc'[Input] = "walk"
    BY <1>2, Names DEF HandleTab, Goto, ThreadsTyped, Screen
  <2> QED
    BY <2>1 DEF Open, Exists
<1>3. CASE FindWindow
  <2>1. UNCHANGED windows /\ pc'[Input] # "link"
    BY <1>3, Names DEF FindWindow, Goto, ThreadsTyped, Screen
  <2> QED
    BY <2>1 DEF Open, Exists
<1>4. CASE MoveFocus
  <2>1. UNCHANGED windows /\ pc'[Input] # "link"
    BY <1>4, Names DEF MoveFocus, Goto, ThreadsTyped
  <2> QED
    BY <2>1 DEF Open, Exists
<1>5. CASE RemoveWindow
  <2>1. CASE Open(at[Input]) /\ at[Input] # Desktop
    <3>1. windows' = Without(windows, at[Input]) /\ at' = at
      BY <1>5, <2>1 DEF RemoveWindow
    <3>2. Range(windows') = Range(windows) \ {at[Input]}
      BY <2>1, <3>1, StackWithout DEF Stacked, Open
    <3> QED
      BY <2>1, <3>1, <3>2 DEF Open, Exists
  <2>2. CASE ~(Open(at[Input]) /\ at[Input] # Desktop)
    <3>1. windows' = windows /\ pc'[Input] = "idle"
      BY <1>5, <2>2, Names DEF RemoveWindow, InputReturns, Return, Goto, ThreadsTyped
    <3> QED
      BY <3>1 DEF Open, Exists
  <2> QED
    BY <2>1, <2>2
<1>6. CASE InsertWindow
  <2>1. /\ windows' = BelowMouse(windows, at[Input])
        /\ pc[Input] = "link" /\ pc'[Input] = "idle"
    BY <1>6, Names DEF InsertWindow, InputReturns, Return, Goto, ThreadsTyped
  <2>2. at[Input] \in Windows /\ at[Input] # Desktop
    BY <2>1, Names DEF ThreadsTyped, Stacked
  <2>3. Range(windows') = Range(windows) \cup {at[Input]}
    BY <2>1, <2>2, StackBelowMouse DEF Stacked
  <2> QED
    BY <2>1, <2>3 DEF Open, Exists
<1>7. ASSUME NEW w \in Windows, NEW pressed \in BOOLEAN, NEW held \in BOOLEAN,
             NEW passed \in BOOLEAN, HandleMouse(w, pressed, held, passed)
      PROVE  \A v \in Windows : Exists(v)' => Exists(v)
  <2>1. /\ windows' \in {windows, InFront(windows, w)} /\ pc'[Input] # "link"
    BY <1>7, Names DEF HandleMouse, InputReturns, Return, Goto, ThreadsTyped
  <2>2. Range(windows') = Range(windows)
    BY <2>1, StackInFront DEF Stacked
  <2> QED
    BY <2>1, <2>2 DEF Open, Exists
<1>8. ASSUME NEW t \in Users, DestroyThreadWindows(t)
      PROVE  \A v \in Windows : Exists(v)' => Exists(v)
  <2>1. pc'[Input] = pc[Input] /\ at'[Input] = at[Input]
    BY <1>8, InputStays DEF DestroyThreadWindows, Goto
  <2>2. Range(windows') \subseteq Range(windows)
    BY <1>8, OwnWindowsGo
  <2> QED
    BY <2>1, <2>2 DEF Open, Exists
<1>9. ASSUME NEW t \in Users, NEW w \in Windows, DestroyWindow(t, w)
      PROVE  \A v \in Windows : Exists(v)' => Exists(v)
  <2>1. windows' = Without(windows, w) /\ pc' = pc /\ at' = at /\ w # Desktop
    BY <1>9 DEF DestroyWindow
  <2>2. Range(windows') = Range(windows) \ {w}
    BY <2>1, StackWithout DEF Stacked
  <2> QED
    BY <2>1, <2>2 DEF Open, Exists
<1>10. ASSUME NEW t \in Users, NEW w \in Windows, BringWindowToFront(t, w)
       PROVE  \A v \in Windows : Exists(v)' => Exists(v)
  <2>1. windows' = InFront(windows, w) /\ pc' = pc /\ at' = at
    BY <1>10 DEF BringWindowToFront
  <2>2. Range(windows') = Range(windows)
    BY <2>1, StackInFront DEF Stacked
  <2> QED
    BY <2>1, <2>2 DEF Open, Exists
<1> QED
  BY <1>1, <1>2, <1>3, <1>4, <1>5, <1>6, <1>7, <1>8, <1>9, <1>10, CalmOrNot

\* Every step keeps every queue right.
LEMMA QueuesKeep ==
  ASSUME QueuesAreRight, Typed, Stacked, Stacked', Unborn, Held, ReadersShare,
         [Next]_vars
  PROVE  \A v \in Windows : Keeps(v)
<1> USE DEF Typed
<1>10. ASSUME NEW t \in Users, CreateWindow(t) PROVE \A v \in Windows : Keeps(v)
  <2>1. /\ UNCHANGED <<events, pc, at, hand, shared, missed>>
        /\ windows' = BelowMouse(windows, nextId)
        /\ nextId \in Windows /\ nextId > 2
    BY <1>10, Names DEF CreateWindow, ScreenTyped
  <2>2. Range(windows') = Range(windows) \cup {nextId}
    BY <2>1, StackBelowMouse, Names DEF Stacked
  <2>3. ASSUME NEW v \in Windows, v # nextId PROVE Keeps(v)
    <3>1. Exists(v)' => Exists(v)
      BY <2>1, <2>2, <2>3 DEF Open, Exists
    <3> QED
      BY <2>1, <3>1, SameThreads, ElsewhereKept
  <2>4. ASSUME NEW v \in Windows, v = nextId PROVE Keeps(v)
    <3>1. events'[v] = Fresh
      BY <2>1, <2>4, Names DEF Unborn, ScreenTyped
    <3>2. \A u \in Threads : at'[u] # v
      BY <2>1, <2>4, Names DEF Unborn, ScreenTyped
    <3> QED
      BY <3>1, <3>2, QueueIsFresh, Names DEF Keeps
  <2> QED
    BY <2>3, <2>4
<1>30. SUFFICES ASSUME \A w \in Windows : Exists(w)' => Exists(w)
                PROVE  \A v \in Windows : Keeps(v)
  BY <1>10, ExistsStep
<1>1. ASSUME NEW kind \in Kinds, Interrupt(kind) PROVE \A v \in Windows : Keeps(v)
  <2>1. UNCHANGED <<events, pc, at, hand, shared, missed>>
    BY <1>1 DEF Interrupt, History
  <2> QED
    BY <1>30, <2>1, SameThreads, ElsewhereKept
<1>2. CASE TakeInput
  <2>1. /\ UNCHANGED <<events, shared, missed>> /\ pc[Input] # "store" /\ pc'[Input] # "store"
        /\ \A u \in Users : pc'[u] = pc[u] /\ at'[u] = at[u]
    BY <1>2, Names DEF TakeInput, ThreadsTyped, Goto, Screen, History
  <2> QED
    BY <1>30, <2>1, NoneDisturbed, ElsewhereKept
<1>3. CASE HandleKey
  <2>1. /\ UNCHANGED <<events, shared, missed>> /\ pc[Input] # "store" /\ pc'[Input] # "store"
        /\ \A u \in Users : pc'[u] = pc[u] /\ at'[u] = at[u]
    BY <1>3, Names DEF HandleKey, ThreadsTyped, Handling, Goto, Screen, History
  <2> QED
    BY <1>30, <2>1, NoneDisturbed, ElsewhereKept
<1>4. CASE HandleTab
  <2>1. /\ UNCHANGED <<events, shared, missed>> /\ pc[Input] # "store" /\ pc'[Input] # "store"
        /\ \A u \in Users : pc'[u] = pc[u] /\ at'[u] = at[u]
    BY <1>4, Names DEF HandleTab, ThreadsTyped, Handling, Goto
  <2> QED
    BY <1>30, <2>1, NoneDisturbed, ElsewhereKept
<1>5. CASE FindWindow
  <2>1. /\ UNCHANGED <<events, shared, missed>> /\ pc[Input] # "store" /\ pc'[Input] # "store"
        /\ \A u \in Users : pc'[u] = pc[u] /\ at'[u] = at[u]
    BY <1>5, Names DEF FindWindow, ThreadsTyped, Goto, History
  <2> QED
    BY <1>30, <2>1, NoneDisturbed, ElsewhereKept
<1>22. CASE MoveFocus
  <2>1. /\ UNCHANGED <<events, shared, missed>> /\ pc[Input] # "store" /\ pc'[Input] # "store"
        /\ \A u \in Users : pc'[u] = pc[u] /\ at'[u] = at[u]
    BY <1>22, Names DEF MoveFocus, ThreadsTyped, Goto, History
  <2> QED
    BY <1>30, <2>1, NoneDisturbed, ElsewhereKept
<1>23. CASE RemoveWindow
  <2>1. /\ UNCHANGED <<events, shared, missed>> /\ pc[Input] # "store" /\ pc'[Input] # "store"
        /\ \A u \in Users : pc'[u] = pc[u] /\ at'[u] = at[u]
    BY <1>23, Names DEF RemoveWindow, ThreadsTyped, Goto, History, Return,
       InputReturns
  <2> QED
    BY <1>30, <2>1, NoneDisturbed, ElsewhereKept
<1>24. CASE InsertWindow
  <2>1. /\ UNCHANGED <<events, shared, missed>> /\ pc[Input] # "store" /\ pc'[Input] # "store"
        /\ \A u \in Users : pc'[u] = pc[u] /\ at'[u] = at[u]
    BY <1>24, Names DEF InsertWindow, ThreadsTyped, Goto, History, Return,
       InputReturns
  <2> QED
    BY <1>30, <2>1, NoneDisturbed, ElsewhereKept
<1>25. ASSUME NEW t \in Users, NEW u \in Threads, TearRing(t, u)
       PROVE  \A v \in Windows : Keeps(v)
  <2>1. UNCHANGED <<events, pc, at, hand, shared, missed>>
    BY <1>25 DEF TearRing
  <2> QED
    BY <1>30, <2>1, SameThreads, ElsewhereKept
<1>26. ASSUME NEW t \in Threads, NEW u \in Threads, TearList(t, u)
       PROVE  \A v \in Windows : Keeps(v)
  <2>1. UNCHANGED <<events, pc, at, hand, shared, missed>>
    BY <1>26 DEF TearList
  <2> QED
    BY <1>30, <2>1, SameThreads, ElsewhereKept
<1>6. ASSUME NEW w \in Windows, NEW pressed \in BOOLEAN, NEW held \in BOOLEAN,
             NEW passed \in BOOLEAN, HandleMouse(w, pressed, held, passed)
      PROVE  \A v \in Windows : Keeps(v)
  <2>1. /\ UNCHANGED <<events, shared, missed>> /\ pc[Input] # "store" /\ pc'[Input] # "store"
        /\ \A u \in Users : pc'[u] = pc[u] /\ at'[u] = at[u]
    BY <1>6, Names
       DEF HandleMouse, ThreadsTyped, Handling, Goto, InputReturns, Return
  <2> QED
    BY <1>30, <2>1, NoneDisturbed, ElsewhereKept
<1>7. CASE MouseTimesOut
  <2>1. /\ UNCHANGED <<events, shared, missed>> /\ pc[Input] # "store" /\ pc'[Input] # "store"
        /\ \A u \in Users : pc'[u] = pc[u] /\ at'[u] = at[u]
    BY <1>7, Names DEF MouseTimesOut, ThreadsTyped, Handling, Goto, InputReturns,
       Return, Screen, History
  <2> QED
    BY <1>30, <2>1, NoneDisturbed, ElsewhereKept
<1>8. CASE PutEvent
  <2>0. PICK w \in Windows : w = at[Input]
    BY Names DEF ThreadsTyped
  <2>1. /\ pc[Input] = "put" /\ UNCHANGED <<windows, shared, missed>>
        /\ \A u \in Users : pc'[u] = pc[u] /\ at'[u] = at[u]
    BY <1>8, Names
       DEF PutEvent, Screen, History, InputReturns, Return, Goto, ThreadsTyped
  <2>2. CASE Open(w) /\ CanPut(events[w])
    <3>1. hand.event.number \in 1..MaxEvents
      BY <2>1 DEF HandTyped, Event
    <3>2. PICK m \in 1..MaxEvents : m = hand.event.number
      BY <3>1
    <3>3. /\ events' = [events EXCEPT ![w] = WriteItem(events[w], m)]
          /\ hand' = [hand EXCEPT !.flag = FlagAfter(events[w], m)]
          /\ pc'[Input] = "store" /\ at'[Input] = w
      BY <1>8, <2>0, <2>2, <3>2, Names DEF PutEvent, Goto, ThreadsTyped
    <3>4. hand'.flag = FlagAfter(events[w], m) /\ events'[w] = WriteItem(events[w], m)
      BY <3>3 DEF HandTyped, EventsTyped
    <3>5. /\ events[w] \in QueueRecord /\ ListIsRight(w) /\ RingFits(w)
          /\ Exists(w) => CountIsRight(w) /\ Account(w)
      BY DEF EventsTyped, QueuesAreRight
    <3>6. Keeps(w)
      BY <2>1, <2>2, <3>3, <3>4, <3>5, <1>30, ItemWritten DEF Keeps, Exists
    <3>7. ASSUME NEW v \in Windows, v # w PROVE Keeps(v)
      <4>1. events'[v] = events[v]
        BY <3>3, <3>7 DEF EventsTyped
      <4>2. Undisturbed(v)
        BY <1>30, <2>1, <3>3, <3>7, NoneDisturbed
      <4> QED
        BY <4>1, <4>2, ElsewhereKept
    <3> QED
      BY <3>6, <3>7
  <2>3. CASE ~(Open(w) /\ CanPut(events[w]))
    <3>1. events' = events /\ pc'[Input] = "idle"
      BY <1>8, <2>0, <2>3, Names
         DEF PutEvent, InputReturns, Return, Goto, ThreadsTyped
    <3>2. \A v \in Windows : Undisturbed(v)
      BY <1>30, <2>1, <3>1, NoneDisturbed
    <3> QED
      BY <3>1, <3>2, ElsewhereKept
  <2> QED
    BY <2>2, <2>3
<1>9. CASE StoreEvent
  <2>0. PICK w \in Windows : w = at[Input]
    BY Names DEF ThreadsTyped
  <2> DEFINE q == events[w]
             woken == IF q.waiters = <<>> THEN {} ELSE {Head(q.waiters)}
  <2>1. /\ pc[Input] = "store" /\ UNCHANGED <<windows, shared, missed>>
        /\ at' = [at EXCEPT ![Input] = Desktop]
        /\ events' = [events EXCEPT ![w] = FinishPut(events[w], hand.flag)]
        /\ pc' = [u \in Threads |-> IF u = Input THEN "idle"
                                   ELSE IF u \in woken THEN "woken" ELSE pc[u]]
    BY <1>9, <2>0, Zenon DEF StoreEvent, Screen, History
  <2>2. /\ pc'[Input] = "idle" /\ Exists(w)
        /\ \A u \in Users : /\ at'[u] = at[u]
                            /\ pc'[u] = IF u \in woken THEN "woken" ELSE pc[u]
    BY <2>0, <2>1, Names DEF Held, ThreadsTyped, Exists
  <2>3. /\ events[w] \in QueueRecord /\ ListIsRight(w) /\ RingFits(w)
        /\ CountIsRight(w) /\ Account(w) /\ events'[w] = FinishPut(events[w], hand.flag)
        /\ hand.flag \in Flags
    BY <2>1, <2>2 DEF EventsTyped, QueuesAreRight, HandTyped
  <2>4. \A u \in woken : pc[u] = "wait" /\ at[u] = w
    <3>1. CASE q.waiters = <<>>
      BY <3>1
    <3>2. CASE q.waiters # <<>>
      <4>1. Head(q.waiters) \in Range(q.waiters)
        BY <2>3, <3>2, FieldTypes, TailOnce DEF ListIsRight
      <4> QED
        BY <2>3, <3>2, <4>1 DEF ListIsRight
    <3> QED
      BY <3>1, <3>2
  <2>5. \A u \in Users : pc'[u] = IF events[w].waiters # <<>> /\ u = Head(events[w].waiters)
                                 THEN "woken" ELSE pc[u]
    BY <2>2
  <2> HIDE DEF woken
  <2>6. w \notin shared => \A u, v \in Users :
          at[u] = w /\ at[v] = w /\ pc[u] = "wait" /\ pc[v] = "wait" => u = v
    BY DEF ReadersShare, Reading
  <2>7. Keeps(w)
    BY <2>0, <2>1, <2>2, <2>3, <2>5, <2>6, <1>30, PutFinished DEF Keeps, ThreadsTyped
  <2>8. ASSUME NEW v \in Windows, v # w PROVE Keeps(v)
    <3>1. events'[v] = events[v]
      BY <2>1, <2>8 DEF EventsTyped
    <3>2. \A u \in Users : at[u] = v => pc'[u] = pc[u] /\ at'[u] = at[u]
      BY <2>2, <2>4, <2>8
    <3>3. \A u \in Users : at'[u] = v => at[u] = v
      BY <2>2
    <3>4. /\ \A flag \in Flags : Storing(v, flag)' <=> Storing(v, flag)
          /\ Putting(v)' = Putting(v)
      BY <2>0, <2>2, <2>8 DEF Storing, Putting
    <3>5. Undisturbed(v)
      BY <1>30, <2>1, <3>2, <3>3, <3>4 DEF Undisturbed
    <3> QED
      BY <3>1, <3>5, ElsewhereKept
  <2> QED
    BY <2>7, <2>8
<1>11. ASSUME NEW t \in Users, FinalizeThread(t) PROVE \A v \in Windows : Keeps(v)
  <2>0. PICK w \in Windows : w = at[t]
    BY Names DEF ThreadsTyped
  <2>1. /\ UNCHANGED <<hand, windows, shared, missed>> /\ pc[t] \notin Gone /\ pc'[t] = "dead"
        /\ OthersKeep(t) /\ at[t] = w /\ at'[t] = w
        /\ events' = [events EXCEPT ![w] = Dequeue(events[w], t)]
    BY <1>11, <2>0, Names
       DEF FinalizeThread, Screen, History, Goto, Gone, ThreadsTyped, OthersKeep
  <2>2. ASSUME NEW v \in Windows, v # w PROVE Keeps(v)
    <3>1. events'[v] = events[v]
      BY <2>1, <2>2 DEF EventsTyped
    <3>2. Undisturbed(v)
      BY <1>30, <2>1, <2>2, NotDisturbed DEF Waits, Gone
    <3> QED
      BY <3>1, <3>2, ElsewhereKept
  <2>3. /\ events[w] \in QueueRecord /\ ListIsRight(w) /\ RingFits(w)
        /\ Exists(w) => CountIsRight(w) /\ Account(w)
        /\ events'[w] = Dequeue(events[w], t)
    BY <2>1 DEF EventsTyped, QueuesAreRight
  <2>4. CASE w # Desktop
    <3>1. owner[w] = t \/ w \in shared'
      BY <2>1, <2>4 DEF ReadersShare
    <3>2. AtQueue(w, t)
      BY <1>30, <2>1, <2>4, <3>1, Alone DEF AtQueue
    <3>3. Keeps(w)
      BY <2>1, <2>3, <3>2, ReaderDies DEF Keeps, AtQueue
    <3> QED
      BY <2>2, <3>3
  <2>5. CASE w = Desktop
    <3>1. pc[t] \notin Waits
      BY <2>1, <2>5 DEF ReadersShare, Reading, Waits
    <3>2. t \notin Range(events[w].waiters)
      BY <2>3, <3>1 DEF ListIsRight, Waits
    <3>3. events'[w] = events[w]
      BY <2>3, <3>2 DEF Dequeue, Without, QueueRecord
    <3>4. Undisturbed(w)
      BY <1>30, <2>1, <3>1, NotDisturbed DEF Waits, Gone
    <3> QED
      BY <2>2, <3>3, <3>4, ElsewhereKept
  <2> QED
    BY <2>4, <2>5
<1>12. ASSUME NEW t \in Users, DestroyThreadWindows(t)
       PROVE  \A v \in Windows : Keeps(v)
  <2> DEFINE own == {w \in Range(windows) : owner[w] = t}
  <2>1. /\ events' = [w \in Windows |-> IF w \in own THEN Fresh ELSE events[w]]
        /\ at' = at /\ hand' = hand /\ UNCHANGED <<shared, missed>> /\ pc[t] = "dead"
        /\ pc' = [pc EXCEPT ![t] = "gone"]
    BY <1>12, Zenon DEF DestroyThreadWindows, Goto
  <2>2. Range(windows') = Range(windows) \ own
    BY <1>12, OwnWindowsGo
  <2>6. \A w \in own : w \in Range(windows)
    OBVIOUS
  <2> HIDE DEF own
  <2>3. OthersKeep(t) /\ pc'[t] = "gone"
    BY <2>1, Names DEF OthersKeep, ThreadsTyped
  <2>4. ASSUME NEW v \in Windows, v \notin own PROVE Keeps(v)
    <3>1. events'[v] = events[v]
      BY <2>1, <2>4
    <3>2. Undisturbed(v)
      BY <1>30, <2>1, <2>3, NotDisturbed DEF Waits, Gone
    <3> QED
      BY <3>1, <3>2, ElsewhereKept
  <2>5. ASSUME NEW v \in Windows, v \in own PROVE Keeps(v)
    <3>1. events'[v] = Fresh
      BY <2>1, <2>5
    <3>2. pc'[Input] = pc[Input]
      BY <2>3, Names DEF OthersKeep
    <3>3. ~Exists(v)'
      BY <2>1, <2>2, <2>5, <2>6, <3>2 DEF Open, Exists, Stacked
    <3> QED
      BY <3>1, <3>3, QueueIsFresh DEF Keeps
  <2> QED
    BY <2>4, <2>5
<1>13. ASSUME NEW t \in Users, NEW w \in Windows, DestroyWindow(t, w)
       PROVE  \A v \in Windows : Keeps(v)
  <2>1. /\ UNCHANGED <<pc, at, hand, shared, missed>> /\ windows' = Without(windows, w)
        /\ events' = [events EXCEPT ![w] = Fresh] /\ w # Desktop /\ w \in Range(windows)
    BY <1>13 DEF DestroyWindow, Open
  <2>3. Range(windows') = Range(windows) \ {w}
    BY <2>1, StackWithout DEF Stacked
  <2>4. ASSUME NEW v \in Windows, v # w PROVE Keeps(v)
    <3>1. events'[v] = events[v]
      BY <2>1, <2>4 DEF EventsTyped
    <3> QED
      BY <1>30, <2>1, <3>1, SameThreads, ElsewhereKept
  <2>5. Keeps(w)
    <3>1. events'[w] = Fresh
      BY <2>1 DEF EventsTyped
    <3>2. ~Exists(w)'
      BY <2>1, <2>3 DEF Open, Exists, Stacked
    <3> QED
      BY <3>1, <3>2, QueueIsFresh DEF Keeps
  <2> QED
    BY <2>4, <2>5
<1>14. ASSUME NEW t \in Users, NEW w \in Windows, HideWindow(t, w)
       PROVE  \A v \in Windows : Keeps(v)
  <2>1. UNCHANGED <<events, pc, at, hand, shared, missed>>
    BY <1>14 DEF HideWindow
  <2> QED
    BY <1>30, <2>1, SameThreads, ElsewhereKept
<1>15. ASSUME NEW t \in Users, NEW w \in Windows, BringWindowToFront(t, w)
       PROVE  \A v \in Windows : Keeps(v)
  <2>1. UNCHANGED <<events, pc, at, hand, shared, missed>>
    BY <1>15 DEF BringWindowToFront
  <2> QED
    BY <1>30, <2>1, SameThreads, ElsewhereKept
<1>16. ASSUME NEW t \in Users, NEW w \in Windows, GetEvent(t, w)
       PROVE  \A v \in Windows : Keeps(v)
  <2>1. /\ UNCHANGED <<hand, windows, missed>> /\ pc[t] = "idle" /\ pc'[t] \in {"take", "wait"}
        /\ OthersKeep(t) /\ at'[t] = w /\ w \in Readable
        /\ shared' = (IF owner[w] = t THEN shared ELSE shared \cup {w})
        /\ \A v \in Windows \ {w} : events'[v] = events[v]
    BY <1>16, Names DEF GetEvent, Screen, Goto, Reads, Wait, ThreadsTyped,
       OthersKeep, EventsTyped
  <2>2. w # Desktop /\ (owner[w] = t \/ w \in shared') /\ shared \subseteq shared'
    BY <2>1, WindowManagerAssumption
  <2>3. /\ events[w] \in QueueRecord /\ ListIsRight(w) /\ RingFits(w)
        /\ Exists(w) => CountIsRight(w) /\ Account(w)
    BY DEF EventsTyped, QueuesAreRight
  <2>4. AtQueue(w, t)
    BY <1>30, <2>1, <2>2, Alone DEF AtQueue
  <2>5. Keeps(w)
    <3>1. CASE CanTake(events[w])
      <4>1. events'[w] = TakeCount(events[w]) /\ pc'[t] = "take"
        BY <1>16, <3>1, Names DEF GetEvent, Wait, Goto, EventsTyped, ThreadsTyped
      <4> QED
        BY <2>1, <2>3, <2>4, <3>1, <4>1, CountTaken DEF Keeps, AtQueue
    <3>2. CASE ~CanTake(events[w])
      <4>1. events'[w] = Enqueue(events[w], t) /\ pc'[t] = "wait"
        BY <1>16, <3>2, Names DEF GetEvent, Wait, Goto, EventsTyped, ThreadsTyped
      <4> QED
        BY <2>1, <2>3, <2>4, <3>2, <4>1, LinedUp DEF Keeps, AtQueue
    <3> QED
      BY <3>1, <3>2
  <2>6. ASSUME NEW v \in Windows, v # w PROVE Keeps(v)
    <3>1. events'[v] = events[v]
      BY <2>1, <2>6 DEF EventsTyped
    <3>2. Undisturbed(v)
      BY <1>30, <2>1, <2>2, <2>6, NotDisturbed DEF Waits, Gone
    <3> QED
      BY <3>1, <3>2, ElsewhereKept
  <2> QED
    BY <2>5, <2>6
<1>17. ASSUME NEW t \in Users, NEW w \in Windows, PeekEvent(t, w)
       PROVE  \A v \in Windows : Keeps(v)
  <2>1. /\ UNCHANGED <<events, hand, windows, missed>> /\ pc[t] = "idle" /\ pc'[t] = "peek"
        /\ shared \subseteq shared' /\ OthersKeep(t)
    BY <1>17, Names DEF PeekEvent, Screen, Goto, Reads, ThreadsTyped, OthersKeep
  <2>2. \A v \in Windows : Undisturbed(v)
    BY <1>30, <2>1, NotDisturbed DEF Waits, Gone
  <2> QED
    BY <2>1, <2>2, ElsewhereKept
<1>18. ASSUME NEW t \in Users, PeekTakes(t) PROVE \A v \in Windows : Keeps(v)
  <2>0. PICK w \in Windows : w = at[t]
    BY Names DEF ThreadsTyped
  <2>1. /\ UNCHANGED <<hand, windows, shared, missed>> /\ pc[t] = "peek" /\ pc'[t] \in {"take", "wait"}
        /\ OthersKeep(t) /\ at'[t] = w
        /\ \A v \in Windows \ {w} : events'[v] = events[v]
    BY <1>18, <2>0, Names DEF PeekTakes, Screen, History, Goto, Wait, ThreadsTyped,
       OthersKeep, EventsTyped
  <2>2. w # Desktop /\ (owner[w] = t \/ w \in shared') /\ shared \subseteq shared'
    BY <2>0, <2>1 DEF ReadersShare, Reading
  <2>3. /\ events[w] \in QueueRecord /\ ListIsRight(w) /\ RingFits(w)
        /\ Exists(w) => CountIsRight(w) /\ Account(w)
    BY DEF EventsTyped, QueuesAreRight
  <2>4. AtQueue(w, t)
    BY <1>30, <2>1, <2>2, Alone DEF AtQueue
  <2>5. Keeps(w)
    <3>1. CASE CanTake(events[w])
      <4>1. events'[w] = TakeCount(events[w]) /\ pc'[t] = "take"
        BY <1>18, <2>0, <3>1, Names
           DEF PeekTakes, Wait, Goto, EventsTyped, ThreadsTyped
      <4> QED
        BY <2>1, <2>3, <2>4, <3>1, <4>1, CountTaken DEF Keeps, AtQueue
    <3>2. CASE ~CanTake(events[w])
      <4>1. events'[w] = Enqueue(events[w], t) /\ pc'[t] = "wait"
        BY <1>18, <2>0, <3>2, Names
           DEF PeekTakes, Wait, Goto, EventsTyped, ThreadsTyped
      <4> QED
        BY <2>1, <2>3, <2>4, <3>2, <4>1, LinedUp DEF Keeps, AtQueue
    <3> QED
      BY <3>1, <3>2
  <2>6. ASSUME NEW v \in Windows, v # w PROVE Keeps(v)
    <3>1. events'[v] = events[v]
      BY <2>1, <2>6 DEF EventsTyped
    <3>2. Undisturbed(v)
      BY <1>30, <2>1, <2>2, <2>6, NotDisturbed DEF Waits, Gone
    <3> QED
      BY <3>1, <3>2, ElsewhereKept
  <2> QED
    BY <2>5, <2>6
<1>19. ASSUME NEW t \in Users, WaitReturns(t) PROVE \A v \in Windows : Keeps(v)
  <2>0. PICK w \in Windows : w = at[t]
    BY Names DEF ThreadsTyped
  <2>1. /\ UNCHANGED <<hand, windows, shared, missed>> /\ pc[t] = "woken" /\ pc'[t] = "take"
        /\ OthersKeep(t) /\ at[t] = w /\ at'[t] = w
        /\ events' = [events EXCEPT ![w] = TakeCount(events[w])]
    BY <1>19, <2>0, Names
       DEF WaitReturns, Screen, History, Goto, ThreadsTyped, OthersKeep
  <2>2. w # Desktop /\ (owner[w] = t \/ w \in shared') /\ shared \subseteq shared'
    BY <2>0, <2>1 DEF ReadersShare, Reading
  <2>3. /\ events[w] \in QueueRecord /\ ListIsRight(w) /\ RingFits(w)
        /\ Exists(w) => CountIsRight(w) /\ Account(w)
    BY DEF EventsTyped, QueuesAreRight
  <2>4. AtQueue(w, t)
    BY <1>30, <2>1, <2>2, Alone DEF AtQueue
  <2>5. Keeps(w)
    <3>1. events'[w] = TakeCount(events[w])
      BY <2>1 DEF EventsTyped
    <3> QED
      BY <2>1, <2>3, <2>4, <3>1, CountTaken DEF Keeps, AtQueue
  <2>6. ASSUME NEW v \in Windows, v # w PROVE Keeps(v)
    <3>1. events'[v] = events[v]
      BY <2>1, <2>6 DEF EventsTyped
    <3>2. Undisturbed(v)
      BY <1>30, <2>1, <2>2, <2>6, NotDisturbed DEF Waits, Gone
    <3> QED
      BY <3>1, <3>2, ElsewhereKept
  <2> QED
    BY <2>5, <2>6
<1>20. ASSUME NEW t \in Users, TakeEvent(t) PROVE \A v \in Windows : Keeps(v)
  <2>0. PICK w \in Windows : w = at[t]
    BY Names DEF ThreadsTyped
  <2>7. PICK found \in Finds(events[w]) : GetItem(t, found)
    BY <1>20, <2>0 DEF TakeEvent
  <2>8. /\ events[w] \in QueueRecord /\ found \in BOOLEAN
        /\ found => events[w].items # <<>>
    BY <2>7, FindsIs DEF EventsTyped
  <2>1. /\ UNCHANGED <<hand, windows, shared>> /\ pc[t] = "take" /\ pc'[t] = "idle"
        /\ OthersKeep(t) /\ at[t] = w /\ at'[t] = Desktop
        /\ events' = [events EXCEPT ![w] = ReadItem(events[w], found)]
        /\ missed \subseteq missed'
        /\ ~found /\ events[w].items # <<>> => w \in missed'
    BY <1>20, <2>0, <2>7, Names
       DEF TakeEvent, GetItem, Screen, Goto, Return, ThreadsTyped, OthersKeep
  <2>2. w # Desktop /\ (owner[w] = t \/ w \in shared') /\ shared \subseteq shared'
    BY <2>0, <2>1 DEF ReadersShare, Reading
  <2>3. /\ events[w] \in QueueRecord /\ ListIsRight(w) /\ RingFits(w)
        /\ Exists(w) => CountIsRight(w) /\ Account(w)
    BY DEF EventsTyped, QueuesAreRight
  <2>4. AtQueue(w, t)
    BY <1>30, <2>1, <2>2, Alone DEF AtQueue
  <2>5. Keeps(w)
    <3>1. events'[w] = ReadItem(events[w], found)
      BY <2>1 DEF EventsTyped
    <3> QED
      BY <2>1, <2>2, <2>3, <2>4, <2>8, <3>1, ItemRead DEF Keeps, AtQueue
  <2>6. ASSUME NEW v \in Windows, v # w PROVE Keeps(v)
    <3>1. events'[v] = events[v]
      BY <2>1, <2>6 DEF EventsTyped
    <3>2. Undisturbed(v)
      BY <1>30, <2>1, <2>2, <2>6, NotDisturbed DEF Waits, Gone
    <3> QED
      BY <3>1, <3>2, ElsewhereKept
  <2> QED
    BY <2>5, <2>6
<1>21. CASE UNCHANGED vars
  BY <1>21, <1>30, SameThreads, ElsewhereKept DEF vars
<1> QED
    BY <1>1, <1>2, <1>3, <1>4, <1>5, <1>6, <1>7, <1>8, <1>9, <1>10, <1>11, <1>12,
     <1>13, <1>14, <1>15, <1>16, <1>17, <1>18, <1>19, <1>20, <1>21, <1>22, <1>23, <1>24, <1>25,
     <1>26 DEF Next,
     InputStep, ReadStep

\* Every step keeps the queues right.
LEMMA QueuesStep ==
  ASSUME QueuesAreRight, Typed, Stacked, Stacked', Unborn, Held,
         ReadersShare, [Next]_vars
  PROVE  QueuesAreRight'
BY QueuesKeep, AllKept

-----------------------------------------------------------------------------
(* The order of the messages.                                              *)

\* What a step but PutEvent does to the messages of a queue: nothing, or they are
\* gone with the window, or the first one was read.
Fewer(w) ==
  \/ /\ seen'[w] = seen[w]
     /\ events'[w].items = events[w].items \/ Len(events'[w].items) = 0
  \/ /\ Len(events[w].items) >= 1
     /\ seen'[w] = events[w].items[1]
     /\ Len(events'[w].items) = Len(events[w].items) - 1
     /\ \A i \in 1..Len(events'[w].items) : events'[w].items[i] = events[w].items[i + 1]

\* The numbers of the messages are numbers.
LEMMA Numbers ==
  ASSUME EventsTyped, HistoryTyped, NEW w \in Windows
  PROVE  /\ Len(events[w].items) \in Nat /\ seen[w] \in Nat
         /\ \A i \in 1..Len(events[w].items) : events[w].items[i] \in Nat
<1>1. events[w].items \in Seq(1..MaxEvents) /\ Len(events[w].items) \in Nat
  BY FieldTypes DEF EventsTyped
<1>2. \A i \in 1..Len(events[w].items) : events[w].items[i] \in 1..MaxEvents
  <2> DEFINE q == events[w].items
  <2>1. q \in Seq(1..MaxEvents)
    BY <1>1
  <2> HIDE DEF q
  <2>2. \A i \in 1..Len(q) : q[i] \in 1..MaxEvents
    BY <2>1, ElementOfSeq, Zenon
  <2> QED
    BY <2>2 DEF q
<1>3. seen[w] \in 0..MaxEvents
  BY DEF HistoryTyped
<1> QED
  BY <1>1, <1>2, <1>3, Names

\* Taking messages out of a queue does not disturb their order.
LEMMA FewerOrdered ==
  ASSUME EventsTyped, HistoryTyped, NEW w \in Windows, Fewer(w)
  PROVE  /\ Rising(w) => Rising(w)'
         /\ \A n \in Int :
              seen[w] < n /\ (\A i \in 1..Len(events[w].items) : events[w].items[i] < n) =>
              seen'[w] < n /\ \A i \in 1..Len(events'[w].items) : events'[w].items[i] < n
<1> DEFINE s == seen[w]
           q == events[w].items
           r == events'[w].items
           z == seen'[w]
<1>1. Len(q) \in Nat /\ s \in Nat /\ \A i \in 1..Len(q) : q[i] \in Nat
  BY Numbers
<1>2. Rising(w) <=> \A i \in 1..Len(q) :
        s < q[i] /\ \A j \in 1..Len(q) : i < j => q[i] < q[j]
  BY Zenon DEF Rising
<1>3. Rising(w)' <=> \A i \in 1..Len(r) :
        z < r[i] /\ \A j \in 1..Len(r) : i < j => r[i] < r[j]
  BY Zenon DEF Rising
<1>4. \/ z = s /\ (r = q \/ Len(r) = 0)
      \/ /\ Len(q) >= 1 /\ z = q[1] /\ Len(r) = Len(q) - 1
         /\ \A i \in 1..Len(r) : r[i] = q[i + 1]
  BY Zenon DEF Fewer
<1> HIDE DEF s, q, r, z
<1>5. CASE z = s /\ (r = q \/ Len(r) = 0)
  BY <1>1, <1>2, <1>3, <1>5 DEF s, q, r, z
<1>6. CASE /\ Len(q) >= 1 /\ z = q[1] /\ Len(r) = Len(q) - 1
           /\ \A i \in 1..Len(r) : r[i] = q[i + 1]
  <2>1. \A i \in 1..Len(r) : i + 1 \in 1..Len(q) /\ 1 < i + 1
    BY <1>1, <1>6
  <2>2. 1 \in 1..Len(q)
    BY <1>1, <1>6
  <2>3. ASSUME Rising(w) PROVE Rising(w)'
    <3>1. \A i \in 1..Len(r) : z < r[i]
      BY <1>2, <1>6, <2>1, <2>2, <2>3
    <3>2. ASSUME NEW i \in 1..Len(r), NEW j \in 1..Len(r), i < j PROVE r[i] < r[j]
      <4>1. i + 1 < j + 1
        BY <3>2
      <4> QED
        BY <1>2, <1>6, <2>1, <2>3, <3>2, <4>1
    <3> QED
      BY <1>3, <3>1, <3>2
  <2>4. ASSUME NEW n \in Int, s < n, \A i \in 1..Len(q) : q[i] < n
        PROVE  z < n /\ \A i \in 1..Len(r) : r[i] < n
    BY <1>6, <2>1, <2>2, <2>4
  <2> QED
    BY <2>3, <2>4 DEF s, q, r, z
<1> QED
  BY <1>4, <1>5, <1>6

\* What comes later still comes after the messages that are left.
LEMMA FewerBehind ==
  ASSUME EventsTyped, HistoryTyped, \A w \in Windows : Fewer(w), NEW n \in Int, Behind(n)
  PROVE  Behind(n)'
<1> SUFFICES ASSUME NEW w \in Windows
             PROVE  /\ seen'[w] < n
                    /\ \A i \in 1..Len(events'[w].items) : events'[w].items[i] < n
  BY DEF Behind
<1> QED
  BY FewerOrdered DEF Behind

\* So are those of the events in the ring.
LEMMA RingNumbers ==
  ASSUME DevicesTyped, HandTyped
  PROVE  /\ Len(ring) \in Nat /\ typed \in Nat /\ hand.event.number \in Nat
         /\ \A i \in 1..Len(ring) : ring[i] \in Event /\ ring[i].number \in Nat
<1>1. Len(ring) \in Nat /\ \A i \in 1..Len(ring) : ring[i] \in Event
  BY DEF DevicesTyped
<1>2. \A e \in Event : e.number \in Nat
  BY Names DEF Event
<1>3. hand.event.number \in Nat
  <2>1. hand.event \in Event \/ hand.event = NoEvent
    BY DEF HandTyped
  <2> QED
    BY <1>2, <2>1 DEF NoEvent
<1> QED
  BY <1>1, <1>2, <1>3, Names DEF DevicesTyped

\* A step that only takes messages out of queues
LEMMA OrderKept ==
  ASSUME Ordered, Typed, \A w \in Windows : Fewer(w), UNCHANGED <<ring, typed>>,
         hand'.event = hand.event \/ hand'.event = NoEvent,
         pc'[Input] \in Carrying =>
           pc[Input] \in Carrying /\ hand'.event = hand.event
  PROVE  Ordered'
<1> USE DEF Typed
<1>1. \A w \in Windows : Rising(w)'
  BY FewerOrdered DEF Ordered
<1>2. ASSUME pc'[Input] \in Carrying PROVE Behind(hand.event.number)'
  <2>1. PICK n \in Int : n = hand.event.number
    BY RingNumbers
  <2>2. Behind(n)
    BY <1>2, <2>1 DEF Ordered
  <2>3. Behind(n)'
    BY <2>2, FewerBehind
  <2> QED
    BY <1>2, <2>1, <2>3 DEF Behind
<1>3. hand'.event.number <= hand.event.number /\ hand'.event.number \in Nat
  BY RingNumbers DEF NoEvent
<1>4. ASSUME NEW i \in 1..Len(ring)
      PROVE  /\ Behind(ring[i].number)' /\ hand'.event.number < ring'[i].number
             /\ ring'[i].number <= typed'
             /\ \A j \in 1..Len(ring) : i < j => ring'[i].number < ring'[j].number
  <2>1. PICK n \in Int : n = ring[i].number
    BY <1>4, RingNumbers
  <2>2. Behind(n) /\ hand.event.number < n
    BY <1>4, <2>1 DEF Ordered
  <2>3. Behind(n)'
    BY <2>2, FewerBehind
  <2>4. ring'[i].number = n
    BY <2>1
  <2>5. Behind(ring[i].number)'
    BY <2>3, <2>4 DEF Behind
  <2>6. hand'.event.number < ring'[i].number
    BY <1>3, <2>2, <2>4, RingNumbers
  <2> QED
    BY <1>4, <2>5, <2>6 DEF Ordered
<1>5. Behind(typed + 1)' /\ hand'.event.number <= typed'
  <2>1. PICK n \in Int : n = typed + 1
    BY RingNumbers
  <2>2. Behind(n)
    BY <2>1 DEF Ordered
  <2>3. Behind(n)'
    BY <2>2, FewerBehind
  <2>4. typed' + 1 = n
    BY <2>1
  <2> QED
    BY <1>3, <2>3, <2>4, RingNumbers DEF Ordered, Behind
<1> QED
  BY <1>1, <1>2, <1>4, <1>5 DEF Ordered

\* The numbers of the events stay in order, wherever they are.
LEMMA OrderedStep == ASSUME Ordered, Typed, Unborn, [Next]_vars PROVE Ordered'
<1> USE DEF Typed, Carrying, Unlocked
<1>1. ASSUME NEW kind \in Kinds, Interrupt(kind) PROVE Ordered'
  <2>1. /\ ring' = IF Len(ring) = RingSize THEN ring
                  ELSE Append(ring, [kind |-> kind, number |-> typed + 1])
        /\ typed' = typed + 1 /\ UNCHANGED <<events, pc, hand, seen>>
    BY <1>1 DEF Interrupt
  <2>2. /\ Len(ring) \in Nat /\ typed \in Nat /\ hand.event.number \in Nat
        /\ \A i \in 1..Len(ring) : ring[i].number \in Nat
    BY RingNumbers
  <2>3. Behind(typed + 1) /\ hand.event.number <= typed
    BY DEF Ordered
  <2>4. \A w \in Windows : Rising(w)'
    BY <2>1 DEF Ordered, Rising
  <2>5. pc'[Input] \in Carrying => Behind(hand.event.number)'
    BY <2>1 DEF Ordered, Behind
  <2>6. Behind(typed + 1)' /\ hand'.event.number <= typed'
    <3>1. ASSUME NEW w \in Windows
          PROVE  /\ seen[w] < typed + 2
                 /\ \A i \in 1..Len(events[w].items) : events[w].items[i] < typed + 2
      <4>1. seen[w] < typed + 1 /\ seen[w] \in Nat
        BY <2>3, Numbers DEF Behind
      <4>2. ASSUME NEW i \in 1..Len(events[w].items)
            PROVE  events[w].items[i] < typed + 1 /\ events[w].items[i] \in Nat
        BY <2>3, Numbers DEF Behind
      <4>3. \A x \in Nat : x < typed + 1 => x < typed + 2
        BY <2>2
      <4> QED
        BY <4>1, <4>2, <4>3
    <3>2. typed' + 1 = typed + 2
      BY <2>1, <2>2
    <3> QED
      BY <2>1, <2>2, <2>3, <3>1, <3>2 DEF Behind
  <2>7. \A i \in 1..Len(ring) :
          /\ Behind(ring[i].number) /\ hand.event.number < ring[i].number
          /\ ring[i].number <= typed
          /\ \A j \in 1..Len(ring) : i < j => ring[i].number < ring[j].number
    BY DEF Ordered
  <2>8. \A i \in 1..Len(ring') :
          /\ Behind(ring'[i].number) /\ hand.event.number < ring'[i].number
          /\ ring'[i].number <= typed + 1
          /\ \A j \in 1..Len(ring') : i < j => ring'[i].number < ring'[j].number
    <3>1. CASE Len(ring) = RingSize
      <4>1. ring' = ring
        BY <2>1, <3>1
      <4> QED
        BY <2>2, <2>7, <4>1
    <3>2. CASE Len(ring) # RingSize
      <4> DEFINE e == [kind |-> kind, number |-> typed + 1]
      <4>1. ring' = Append(ring, e)
        BY <2>1, <3>2
      <4>2. e.number = typed + 1
        OBVIOUS
      <4> HIDE DEF e
      <4>3. /\ Len(ring') = Len(ring) + 1 /\ ring'[Len(ring) + 1] = e
            /\ \A i \in 1..Len(ring) : ring'[i] = ring[i]
        BY <2>2, <4>1 DEF DevicesTyped
      <4>4. \A i \in 1..Len(ring') : i \in 1..Len(ring) \/ i = Len(ring) + 1
        BY <2>2, <4>3
      <4>5. ASSUME NEW i \in 1..Len(ring')
            PROVE  /\ Behind(ring'[i].number) /\ hand.event.number < ring'[i].number
                   /\ ring'[i].number <= typed + 1
        <5>1. CASE i \in 1..Len(ring)
          BY <2>2, <2>7, <4>3, <5>1
        <5>2. CASE i = Len(ring) + 1
          <6>1. ring'[i].number = typed + 1
            BY <4>2, <4>3, <5>2
          <6> QED
            BY <2>2, <2>3, <6>1
        <5> QED
          BY <4>4, <5>1, <5>2
      <4>6. ASSUME NEW i \in 1..Len(ring'), NEW j \in 1..Len(ring'), i < j
            PROVE  ring'[i].number < ring'[j].number
        <5>1. i \in 1..Len(ring)
          BY <2>2, <4>3, <4>6
        <5>2. CASE j \in 1..Len(ring)
          BY <2>7, <4>3, <4>6, <5>1, <5>2
        <5>3. CASE j = Len(ring) + 1
          BY <2>2, <2>7, <4>2, <4>3, <5>1, <5>3
        <5> QED
          BY <4>4, <5>2, <5>3
      <4> QED
        BY <4>5, <4>6
    <3> QED
      BY <3>1, <3>2
  <2>9. \A i \in 1..Len(ring') : Behind(ring[i].number)'
    BY <2>1, <2>8 DEF Behind
  <2> QED
    BY <2>1, <2>4, <2>5, <2>6, <2>8, <2>9 DEF Ordered
<1>2. CASE TakeInput
  <2>1. UNCHANGED <<typed, events, seen, at>>
    BY <1>2 DEF TakeInput
  <2>2. /\ Len(ring) \in Nat /\ typed \in Nat
        /\ \A i \in 1..Len(ring) : ring[i] \in Event /\ ring[i].number \in Nat
    BY RingNumbers
  <2>3. \A i \in 1..Len(ring) :
          /\ Behind(ring[i].number) /\ hand.event.number < ring[i].number
          /\ ring[i].number <= typed
          /\ \A j \in 1..Len(ring) : i < j => ring[i].number < ring[j].number
    BY DEF Ordered
  <2>4. CASE ring = <<>>
    <3>1. UNCHANGED <<ring, hand, pc>>
      BY <1>2, <2>4 DEF TakeInput
    <3> QED
      BY <2>1, <3>1, OrderKept DEF Fewer
  <2>5. CASE ring # <<>>
    <3>1. /\ ring' = Tail(ring) /\ hand' = [hand EXCEPT !.event = Head(ring)]
      BY <1>2, <2>5 DEF TakeInput
    <3>2. /\ Len(ring) >= 1 /\ Head(ring) = ring[1] /\ Len(ring') = Len(ring) - 1
          /\ \A i \in 1..Len(ring') : ring'[i] = ring[i + 1]
      BY <2>5, <3>1 DEF DevicesTyped
    <3>3. hand'.event = ring[1]
      BY <3>1, <3>2 DEF HandTyped
    <3>4. 1 \in 1..Len(ring) /\ \A i \in 1..Len(ring') : i + 1 \in 1..Len(ring) /\ 1 < i + 1
      BY <2>2, <3>2
    <3>5. Behind(hand.event.number)' /\ hand'.event.number <= typed'
      BY <2>1, <2>3, <3>3, <3>4 DEF Behind
    <3>6. Behind(typed + 1)'
      BY <2>1 DEF Ordered, Behind
    <3>7. ASSUME NEW i \in 1..Len(ring')
          PROVE  /\ Behind(ring'[i].number) /\ hand'.event.number < ring'[i].number
                 /\ ring'[i].number <= typed
      BY <2>3, <3>2, <3>3, <3>4
    <3>8. ASSUME NEW i \in 1..Len(ring'), NEW j \in 1..Len(ring'), i < j
          PROVE  ring'[i].number < ring'[j].number
      <4>1. i + 1 < j + 1
        BY <2>2, <3>2, <3>8
      <4> QED
        BY <2>3, <3>2, <3>4, <4>1
    <3>9. \A i \in 1..Len(ring') : Behind(ring[i].number)'
      BY <2>1, <3>7 DEF Behind
    <3>10. \A w \in Windows : Rising(w)'
      BY <2>1 DEF Ordered, Rising
    <3> QED
      BY <2>1, <3>5, <3>6, <3>7, <3>8, <3>9, <3>10 DEF Ordered
  <2> QED
    BY <2>4, <2>5
<1>3. CASE HandleKey
  <2>1. /\ UNCHANGED <<ring, typed, events, seen>>
        /\ hand'.event = hand.event \/ hand'.event = NoEvent
        /\ pc'[Input] \in Carrying =>
             pc[Input] \in Carrying /\ hand'.event = hand.event
    BY <1>3, Names DEF HandleKey, Devices, Goto, ThreadsTyped, Handling, NoWork
  <2> QED
    BY <2>1, OrderKept DEF Fewer
<1>4. CASE HandleTab
  <2>1. /\ UNCHANGED <<ring, typed, events, seen>>
        /\ hand'.event = hand.event \/ hand'.event = NoEvent
        /\ pc'[Input] \in Carrying =>
             pc[Input] \in Carrying /\ hand'.event = hand.event
    BY <1>4, Names DEF HandleTab, Devices, Goto, ThreadsTyped, Handling, NoWork
  <2> QED
    BY <2>1, OrderKept DEF Fewer
<1>5. CASE FindWindow
  <2>1. /\ UNCHANGED <<ring, typed, events, seen>>
        /\ hand'.event = hand.event \/ hand'.event = NoEvent
        /\ pc'[Input] \in Carrying =>
             pc[Input] \in Carrying /\ hand'.event = hand.event
    BY <1>5, Names DEF FindWindow, Devices, Goto, ThreadsTyped
  <2> QED
    BY <2>1, OrderKept DEF Fewer
<1>6. ASSUME NEW w \in Windows, NEW pressed \in BOOLEAN, NEW held \in BOOLEAN,
             NEW passed \in BOOLEAN, HandleMouse(w, pressed, held, passed)
      PROVE  Ordered'
  <2>1. /\ UNCHANGED <<ring, typed, events, seen>>
        /\ hand'.event = hand.event \/ hand'.event = NoEvent
        /\ pc'[Input] \in Carrying =>
             pc[Input] \in Carrying /\ hand'.event = hand.event
    BY <1>6, Names DEF HandleMouse, Devices, Goto, Return, InputReturns,
       ThreadsTyped, Handling, NoWork
  <2> QED
    BY <2>1, OrderKept DEF Fewer
<1>7. CASE MouseTimesOut
  <2>1. /\ UNCHANGED <<ring, typed, events, seen>>
        /\ hand'.event = hand.event \/ hand'.event = NoEvent
        /\ pc'[Input] \in Carrying =>
             pc[Input] \in Carrying /\ hand'.event = hand.event
    BY <1>7, Names DEF MouseTimesOut, Devices, Goto, Return, InputReturns,
       ThreadsTyped, Handling, NoWork
  <2> QED
    BY <2>1, OrderKept DEF Fewer
<1>8. CASE PutEvent
  <2>0. PICK w \in Windows : w = at[Input]
    BY Names DEF ThreadsTyped
  <2>1. pc[Input] = "put" /\ UNCHANGED <<ring, typed, seen>>
    BY <1>8 DEF PutEvent, Devices
  <2>2. CASE Open(w) /\ CanPut(events[w])
    <3>1. hand.event.number \in 1..MaxEvents
      BY <2>1 DEF HandTyped, Event
    <3>2. PICK m \in 1..MaxEvents : m = hand.event.number
      BY <3>1
    <3>3. /\ events' = [events EXCEPT ![w] = WriteItem(events[w], m)]
          /\ hand' = [hand EXCEPT !.flag = FlagAfter(events[w], m)]
          /\ pc'[Input] = "store"
      BY <1>8, <2>0, <2>2, <3>2, Names DEF PutEvent, Goto, ThreadsTyped
    <3>4. hand'.event = hand.event /\ events'[w] = WriteItem(events[w], m)
      BY <3>3 DEF HandTyped, EventsTyped
    <3>5. Behind(m) /\ m \in Int
      BY <2>1, <3>2, Names DEF Ordered
    <3>6. ASSUME NEW v \in Windows, v # w PROVE events'[v] = events[v]
      BY <3>3, <3>6 DEF EventsTyped
    <3> DEFINE q == events[w].items
               r == events'[w].items
    <3>7. /\ r = q \/ r = Append(q, m)
          /\ q \in Seq(1..MaxEvents) /\ Len(q) \in Nat
      <4>1. events[w] \in QueueRecord
        BY DEF EventsTyped
      <4>2. r = IF events[w].full THEN q ELSE Append(q, m)
        <5> DEFINE z == WriteItem(events[w], m)
        <5>1. z.items = IF events[w].full THEN q ELSE Append(q, m)
          BY <4>1, WriteItemIs, Zenon
        <5>2. events'[w] = z
          BY <3>4
        <5> HIDE DEF z
        <5> QED
          BY <5>1, <5>2
      <4> QED
        BY <4>1, <4>2, FieldTypes
    <3>8. /\ seen[w] < m /\ seen[w] \in Nat
          /\ \A i \in 1..Len(q) : q[i] < m /\ q[i] \in Nat /\ seen[w] < q[i]
          /\ \A i, j \in 1..Len(q) : i < j => q[i] < q[j]
      BY <3>5, Numbers DEF Behind, Ordered, Rising
    <3> HIDE DEF q, r
    <3>9. CASE r = Append(q, m)
      <4>1. /\ Len(r) = Len(q) + 1 /\ r[Len(q) + 1] = m
            /\ \A i \in 1..Len(q) : r[i] = q[i]
        BY <3>7, <3>9
      <4>2. \A i \in 1..Len(r) : i \in 1..Len(q) \/ i = Len(q) + 1
        BY <3>7, <4>1
      <4>3. \A i \in 1..Len(r) : seen[w] < r[i]
        BY <3>8, <4>1, <4>2
      <4>4. ASSUME NEW i \in 1..Len(r), NEW j \in 1..Len(r), i < j PROVE r[i] < r[j]
        <5>1. i \in 1..Len(q)
          BY <3>7, <4>1, <4>4
        <5>2. CASE j \in 1..Len(q)
          BY <3>8, <4>1, <4>4, <5>1, <5>2
        <5>3. CASE j = Len(q) + 1
          BY <3>8, <4>1, <5>1, <5>3
        <5> QED
          BY <4>2, <5>2, <5>3
      <4>5. Rising(w)'
        BY <2>1, <4>3, <4>4 DEF Rising, r
      <4>6. ASSUME NEW n \in Int, m < n, Behind(n) PROVE Behind(n)'
        <5>1. \A i \in 1..Len(r) : r[i] < n
          <6>1. m \in Int
            BY <3>5
          <6>2. ASSUME NEW i \in 1..Len(q) PROVE r[i] < n
            BY <3>8, <4>1, <4>6, <6>1, <6>2
          <6> QED
            BY <4>1, <4>2, <4>6, <6>2
        <5>2. ASSUME NEW v \in Windows
              PROVE  seen'[v] < n /\ \A i \in 1..Len(events'[v].items) : events'[v].items[i] < n
          <6>1. CASE v = w
            BY <2>1, <4>6, <5>1, <6>1 DEF Behind, r
          <6>2. CASE v # w
            BY <2>1, <3>6, <4>6, <6>2 DEF Behind
          <6> QED
            BY <6>1, <6>2
        <5> QED
          BY <5>2 DEF Behind
      <4>7. \A v \in Windows : Rising(v)'
        <5>1. ASSUME NEW v \in Windows, v # w PROVE Rising(v)'
          BY <2>1, <3>6, <5>1 DEF Rising, Ordered
        <5> QED
          BY <4>5, <5>1
      <4>8. ASSUME NEW i \in 1..Len(ring)
            PROVE  Behind(ring[i].number)' /\ hand'.event.number < ring[i].number
        <5>1. PICK n \in Int : n = ring[i].number
          BY <4>8, RingNumbers
        <5>2. Behind(n) /\ m < n
          BY <3>2, <4>8, <5>1 DEF Ordered
        <5>3. Behind(n)'
          BY <4>6, <5>2
        <5> QED
          BY <2>1, <3>2, <3>4, <5>1, <5>2, <5>3 DEF Behind
      <4>9. Behind(typed + 1)' /\ hand'.event.number <= typed'
        <5>1. PICK n \in Int : n = typed + 1
          BY RingNumbers
        <5>2. Behind(n) /\ m < n
          BY <3>2, <5>1, RingNumbers DEF Ordered
        <5>3. Behind(n)'
          BY <4>6, <5>2
        <5> QED
          BY <2>1, <3>4, <5>1, <5>3 DEF Behind, Ordered
      <4> QED
        BY <2>1, <3>3, <4>7, <4>8, <4>9 DEF Ordered
    <3>10. CASE r = q
      <4>1. \A v \in Windows : Fewer(v)
        BY <2>1, <3>6, <3>10 DEF Fewer, r, q
      <4> QED
        BY <2>1, <3>3, <3>4, <4>1, OrderKept
    <3> QED
      BY <3>7, <3>9, <3>10
  <2>3. CASE ~(Open(w) /\ CanPut(events[w]))
    <3>1. events' = events /\ pc'[Input] = "idle" /\ hand'.event = NoEvent
      BY <1>8, <2>0, <2>3, Names
         DEF PutEvent, InputReturns, Return, Goto, ThreadsTyped, NoWork
    <3> QED
      BY <2>1, <3>1, OrderKept DEF Fewer
  <2> QED
    BY <2>2, <2>3
<1>9. CASE StoreEvent
  <2>1. /\ UNCHANGED <<ring, typed, seen>> /\ hand'.event = NoEvent /\ pc'[Input] = "idle"
        /\ events' = [events EXCEPT ![at[Input]] = FinishPut(events[at[Input]], hand.flag)]
    BY <1>9, Names DEF StoreEvent, Devices, NoWork
  <2>2. FinishPut(events[at[Input]], hand.flag).items = events[at[Input]].items
    BY Names, FinishPutIs DEF ThreadsTyped, EventsTyped, HandTyped
  <2>3. \A v \in Windows : events'[v].items = events[v].items
    BY <2>1, <2>2 DEF EventsTyped
  <2> QED
    BY <2>1, <2>3, OrderKept DEF Fewer
<1>10. ASSUME NEW t \in Users, CreateWindow(t) PROVE Ordered'
  <2>1. /\ UNCHANGED <<ring, typed, events, seen>>
        /\ hand'.event = hand.event \/ hand'.event = NoEvent
        /\ pc'[Input] \in Carrying =>
             pc[Input] \in Carrying /\ hand'.event = hand.event
    BY <1>10, Names DEF CreateWindow, Devices, ThreadsTyped, NoWork
  <2> QED
    BY <2>1, OrderKept DEF Fewer
<1>11. ASSUME NEW t \in Users, FinalizeThread(t) PROVE Ordered'
  <2>1. /\ UNCHANGED <<ring, typed, hand>> /\ pc'[Input] = pc[Input]
    BY <1>11, Names DEF FinalizeThread, Devices, Goto, ThreadsTyped
  <2>2. \A v \in Windows : Fewer(v)
    <3>1. /\ events' = [events EXCEPT ![at[t]] = Dequeue(events[at[t]], t)] /\ seen' = seen
      BY <1>11 DEF FinalizeThread
    <3>2. Dequeue(events[at[t]], t).items = events[at[t]].items
      BY Names, DequeueIs DEF ThreadsTyped, EventsTyped
    <3>3. \A v \in Windows : events'[v].items = events[v].items
      BY <3>1, <3>2 DEF EventsTyped
    <3> QED
      BY <3>1, <3>3 DEF Fewer
  <2> QED
    BY <2>1, <2>2, OrderKept
<1>12. ASSUME NEW t \in Users, DestroyThreadWindows(t) PROVE Ordered'
  <2>1. /\ UNCHANGED <<ring, typed, hand>> /\ pc'[Input] = pc[Input]
    BY <1>12, Names DEF DestroyThreadWindows, Devices, Goto, ThreadsTyped
  <2>2. \A v \in Windows : Fewer(v)
    <3>1. /\ \E own : events' = [w \in Windows |-> IF w \in own THEN Fresh ELSE events[w]]
          /\ seen' = seen
      BY <1>12, Zenon DEF DestroyThreadWindows
    <3> QED
      BY <3>1, FreshIs DEF Fewer
  <2> QED
    BY <2>1, <2>2, OrderKept
<1>13. ASSUME NEW t \in Users, NEW w \in Windows, DestroyWindow(t, w) PROVE Ordered'
  <2>1. /\ UNCHANGED <<ring, typed, hand>> /\ pc'[Input] = pc[Input]
    BY <1>13, Names DEF DestroyWindow, Devices, ThreadsTyped
  <2>2. \A v \in Windows : Fewer(v)
    <3>1. events' = [events EXCEPT ![w] = Fresh] /\ seen' = seen
      BY <1>13 DEF DestroyWindow
    <3> QED
      BY <3>1, FreshIs DEF Fewer, EventsTyped
  <2> QED
    BY <2>1, <2>2, OrderKept
<1>14. ASSUME NEW t \in Users, NEW w \in Windows, HideWindow(t, w) PROVE Ordered'
  <2>1. /\ UNCHANGED <<ring, typed, events, seen>>
        /\ hand'.event = hand.event \/ hand'.event = NoEvent
        /\ pc'[Input] \in Carrying =>
             pc[Input] \in Carrying /\ hand'.event = hand.event
    BY <1>14, Names DEF HideWindow, Devices, ThreadsTyped, NoWork
  <2> QED
    BY <2>1, OrderKept DEF Fewer
<1>15. ASSUME NEW t \in Users, NEW w \in Windows, BringWindowToFront(t, w)
       PROVE  Ordered'
  <2>1. /\ UNCHANGED <<ring, typed, events, seen>>
        /\ hand'.event = hand.event \/ hand'.event = NoEvent
        /\ pc'[Input] \in Carrying =>
             pc[Input] \in Carrying /\ hand'.event = hand.event
    BY <1>15, Names DEF BringWindowToFront, Devices, ThreadsTyped, NoWork
  <2> QED
    BY <2>1, OrderKept DEF Fewer
<1>16. ASSUME NEW t \in Users, NEW w \in Windows, GetEvent(t, w) PROVE Ordered'
  <2>1. /\ UNCHANGED <<ring, typed, hand>> /\ pc'[Input] = pc[Input]
    BY <1>16, Names DEF GetEvent, Reads, Devices, Goto, Wait, ThreadsTyped
  <2>2. \A v \in Windows : Fewer(v)
    <3>1. /\ \/ events' = [events EXCEPT ![w] = TakeCount(events[w])]
             \/ events' = [events EXCEPT ![w] = Enqueue(events[w], t)]
          /\ seen' = seen
      BY <1>16 DEF GetEvent, Wait
    <3>2. /\ TakeCount(events[w]).items = events[w].items
          /\ Enqueue(events[w], t).items = events[w].items
      BY Names, TakeCountIs, EnqueueIs DEF ThreadsTyped, EventsTyped
    <3>3. \A v \in Windows : events'[v].items = events[v].items
      BY <3>1, <3>2 DEF EventsTyped
    <3> QED
      BY <3>1, <3>3 DEF Fewer
  <2> QED
    BY <2>1, <2>2, OrderKept
<1>17. ASSUME NEW t \in Users, NEW w \in Windows, PeekEvent(t, w) PROVE Ordered'
  <2>1. /\ UNCHANGED <<ring, typed, events, seen>>
        /\ hand'.event = hand.event \/ hand'.event = NoEvent
        /\ pc'[Input] \in Carrying =>
             pc[Input] \in Carrying /\ hand'.event = hand.event
    BY <1>17, Names DEF PeekEvent, Devices, Goto, ThreadsTyped, NoWork
  <2> QED
    BY <2>1, OrderKept DEF Fewer
<1>18. ASSUME NEW t \in Users, PeekTakes(t) PROVE Ordered'
  <2>1. /\ UNCHANGED <<ring, typed, hand>> /\ pc'[Input] = pc[Input]
    BY <1>18, Names DEF PeekTakes, Devices, Goto, Wait, ThreadsTyped
  <2>2. \A v \in Windows : Fewer(v)
    <3>1. /\ \/ events' = [events EXCEPT ![at[t]] = TakeCount(events[at[t]])]
             \/ events' = [events EXCEPT ![at[t]] = Enqueue(events[at[t]], t)]
          /\ seen' = seen
      BY <1>18 DEF PeekTakes, Wait
    <3>2. /\ TakeCount(events[at[t]]).items = events[at[t]].items
          /\ Enqueue(events[at[t]], t).items = events[at[t]].items
      BY Names, TakeCountIs, EnqueueIs DEF ThreadsTyped, EventsTyped
    <3>3. \A v \in Windows : events'[v].items = events[v].items
      BY <3>1, <3>2 DEF EventsTyped
    <3> QED
      BY <3>1, <3>3 DEF Fewer
  <2> QED
    BY <2>1, <2>2, OrderKept
<1>19. ASSUME NEW t \in Users, WaitReturns(t) PROVE Ordered'
  <2>1. /\ UNCHANGED <<ring, typed, hand>> /\ pc'[Input] = pc[Input]
    BY <1>19, Names DEF WaitReturns, Devices, Goto, ThreadsTyped
  <2>2. \A v \in Windows : Fewer(v)
    <3>1. /\ events' = [events EXCEPT ![at[t]] = TakeCount(events[at[t]])] /\ seen' = seen
      BY <1>19 DEF WaitReturns
    <3>2. TakeCount(events[at[t]]).items = events[at[t]].items
      BY Names, TakeCountIs DEF ThreadsTyped, EventsTyped
    <3>3. \A v \in Windows : events'[v].items = events[v].items
      BY <3>1, <3>2 DEF EventsTyped
    <3> QED
      BY <3>1, <3>3 DEF Fewer
  <2> QED
    BY <2>1, <2>2, OrderKept
<1>20. ASSUME NEW t \in Users, TakeEvent(t) PROVE Ordered'
  <2>1. /\ UNCHANGED <<ring, typed, hand>> /\ pc'[Input] = pc[Input]
    BY <1>20, Names DEF TakeEvent, Devices, Goto, Return, ThreadsTyped
  <2>2. \A v \in Windows : Fewer(v)
    <3>0. PICK w \in Windows : w = at[t]
      BY Names DEF ThreadsTyped
    <3>6. PICK found \in Finds(events[w]) : GetItem(t, found)
      BY <1>20, <3>0 DEF TakeEvent
    <3> DEFINE q == events[w]
               r == ReadItem(q, found)
    <3>1. events' = [events EXCEPT ![w] = r] /\ q \in QueueRecord
      BY <3>0, <3>6 DEF GetItem, EventsTyped
    <3>7. found \in BOOLEAN /\ (found => q.items # <<>>)
      BY <3>1, <3>6, FindsIs
    <3>2. seen' = IF found THEN [seen EXCEPT ![w] = q.items[1]] ELSE seen
      BY <3>0, <3>6, Zenon DEF GetItem
    <3>3. /\ ~found => r.items = q.items
          /\ found =>
               /\ Len(r.items) = Len(q.items) - 1
               /\ \A i \in 1..Len(r.items) : r.items[i] = q.items[i + 1]
               /\ q.items # <<>>
          /\ Len(q.items) \in Nat /\ (q.items = <<>> <=> Len(q.items) = 0)
      BY <3>1, <3>7, ReadItemIs, FieldTypes, Zenon
    <3> HIDE DEF r
    <3>4. ASSUME NEW v \in Windows, v # w PROVE Fewer(v)
      <4>1. events'[v] = events[v] /\ seen'[v] = seen[v]
        BY <3>1, <3>2, <3>4 DEF EventsTyped, HistoryTyped
      <4> QED
        BY <4>1 DEF Fewer
    <3>5. Fewer(w)
      <4>1. events'[w] = r
        BY <3>1 DEF EventsTyped
      <4>2. CASE ~found
        BY <3>2, <3>3, <4>1, <4>2 DEF Fewer
      <4>3. CASE found
        <5>1. seen'[w] = q.items[1]
          BY <3>2, <4>3 DEF HistoryTyped
        <5>2. Len(q.items) >= 1
          BY <3>3, <4>3
        <5> QED
          BY <3>3, <4>1, <4>3, <5>1, <5>2, Zenon DEF Fewer
      <4> QED
        BY <4>2, <4>3
    <3> QED
      BY <3>4, <3>5
  <2> QED
    BY <2>1, <2>2, OrderKept
<1>21. CASE UNCHANGED vars
  BY <1>21, OrderKept DEF vars, Fewer
<1>22. CASE MoveFocus
  <2>1. /\ UNCHANGED <<ring, typed, events, seen>>
        /\ hand'.event = hand.event \/ hand'.event = NoEvent
        /\ pc'[Input] \in Carrying =>
             pc[Input] \in Carrying /\ hand'.event = hand.event
    BY <1>22, Names DEF MoveFocus, Devices, Goto, ThreadsTyped
  <2> QED
    BY <2>1, OrderKept DEF Fewer
<1>23. CASE RemoveWindow
  <2>1. /\ UNCHANGED <<ring, typed, events, seen>>
        /\ hand'.event = hand.event \/ hand'.event = NoEvent
        /\ pc'[Input] \in Carrying =>
             pc[Input] \in Carrying /\ hand'.event = hand.event
    BY <1>23, Names DEF RemoveWindow, Devices, Goto, Return, InputReturns, ThreadsTyped, NoWork
  <2> QED
    BY <2>1, OrderKept DEF Fewer
<1>24. CASE InsertWindow
  <2>1. /\ UNCHANGED <<ring, typed, events, seen>>
        /\ hand'.event = hand.event \/ hand'.event = NoEvent
        /\ pc'[Input] \in Carrying =>
             pc[Input] \in Carrying /\ hand'.event = hand.event
    BY <1>24, Names DEF InsertWindow, Devices, Goto, Return, InputReturns, ThreadsTyped, NoWork
  <2> QED
    BY <2>1, OrderKept DEF Fewer
<1>25. ASSUME NEW t \in Users, NEW u \in Threads, TearRing(t, u) PROVE Ordered'
  <2>1. UNCHANGED <<ring, typed, events, seen, pc, hand>>
    BY <1>25 DEF TearRing, Devices
  <2> QED
    BY <2>1, OrderKept DEF Fewer
<1>26. ASSUME NEW t \in Threads, NEW u \in Threads, TearList(t, u) PROVE Ordered'
  <2>1. UNCHANGED <<ring, typed, events, seen, pc, hand>>
    BY <1>26 DEF TearList, Devices
  <2> QED
    BY <2>1, OrderKept DEF Fewer
<1> QED
    BY <1>1, <1>2, <1>3, <1>4, <1>5, <1>6, <1>7, <1>8, <1>9, <1>10, <1>11, <1>12,
     <1>13, <1>14, <1>15, <1>16, <1>17, <1>18, <1>19, <1>20, <1>21, <1>22, <1>23, <1>24, <1>25,
     <1>26 DEF Next,
     InputStep, ReadStep

-----------------------------------------------------------------------------
(* How a read ends.                                                        *)

\* A read ends with TakeEvent, and in no other way.
LEMMA OnlyTakeEvent ==
  ASSUME ThreadsTyped, [Next]_vars, NEW u \in Users, pc[u] = "take", pc'[u] = "idle"
  PROVE  TakeEvent(u)
<1>1. ASSUME NEW kind \in Kinds, Interrupt(kind) PROVE TakeEvent(u)
  BY <1>1 DEF Interrupt
<1>2. CASE TakeInput
  BY <1>2, Names DEF TakeInput, ThreadsTyped, Goto
<1>3. CASE HandleKey
  BY <1>3, Names DEF HandleKey, ThreadsTyped, Goto, Handling
<1>4. CASE HandleTab
  BY <1>4, Names DEF HandleTab, ThreadsTyped, Goto, Handling
<1>5. CASE FindWindow
  BY <1>5, Names DEF FindWindow, ThreadsTyped, Goto
<1>6. ASSUME NEW w \in Windows, NEW pressed \in BOOLEAN, NEW held \in BOOLEAN,
             NEW passed \in BOOLEAN, HandleMouse(w, pressed, held, passed)
      PROVE  TakeEvent(u)
  BY <1>6, Names DEF HandleMouse, ThreadsTyped, Goto, Return, InputReturns, Handling
<1>7. CASE MouseTimesOut
  BY <1>7, Names
     DEF MouseTimesOut, ThreadsTyped, Goto, Return, InputReturns, Handling
<1>8. CASE PutEvent
  BY <1>8, Names DEF PutEvent, ThreadsTyped, Goto, Return, InputReturns
<1>9. CASE StoreEvent
  <2>1. \E woken : pc' = [v \in Threads |-> IF v = Input THEN "idle"
                                           ELSE IF v \in woken THEN "woken" ELSE pc[v]]
    BY <1>9, Zenon DEF StoreEvent
  <2>2. pc'[u] = "woken" \/ pc'[u] = pc[u]
    BY <2>1, Names
  <2> QED
    BY <2>2
<1>10. ASSUME NEW t \in Users, CreateWindow(t) PROVE TakeEvent(u)
  BY <1>10 DEF CreateWindow
<1>11. ASSUME NEW t \in Users, FinalizeThread(t) PROVE TakeEvent(u)
  BY <1>11, Names DEF FinalizeThread, ThreadsTyped, Goto
<1>12. ASSUME NEW t \in Users, DestroyThreadWindows(t) PROVE TakeEvent(u)
  BY <1>12, Names DEF DestroyThreadWindows, ThreadsTyped, Goto
<1>13. ASSUME NEW t \in Users, NEW w \in Windows, DestroyWindow(t, w)
       PROVE  TakeEvent(u)
  BY <1>13 DEF DestroyWindow
<1>14. ASSUME NEW t \in Users, NEW w \in Windows, HideWindow(t, w)
       PROVE  TakeEvent(u)
  BY <1>14 DEF HideWindow
<1>15. ASSUME NEW t \in Users, NEW w \in Windows, BringWindowToFront(t, w)
       PROVE  TakeEvent(u)
  BY <1>15 DEF BringWindowToFront
<1>16. ASSUME NEW t \in Users, NEW w \in Windows, GetEvent(t, w) PROVE TakeEvent(u)
  BY <1>16, Names DEF GetEvent, ThreadsTyped, Goto, Wait
<1>17. ASSUME NEW t \in Users, NEW w \in Windows, PeekEvent(t, w) PROVE TakeEvent(u)
  BY <1>17, Names DEF PeekEvent, ThreadsTyped, Goto
<1>18. ASSUME NEW t \in Users, PeekTakes(t) PROVE TakeEvent(u)
  BY <1>18, Names DEF PeekTakes, ThreadsTyped, Goto, Wait
<1>19. ASSUME NEW t \in Users, WaitReturns(t) PROVE TakeEvent(u)
  BY <1>19, Names DEF WaitReturns, ThreadsTyped, Goto
<1>20. ASSUME NEW t \in Users, TakeEvent(t) PROVE TakeEvent(u)
  <2>1. u # t => pc'[u] = pc[u]
    BY <1>20, Names DEF TakeEvent, Return, Goto, ThreadsTyped
  <2> QED
    BY <1>20, <2>1
<1>21. CASE UNCHANGED vars
  BY <1>21 DEF vars
<1>22. CASE MoveFocus
  BY <1>22, Names DEF MoveFocus, ThreadsTyped, Goto
<1>23. CASE RemoveWindow
  BY <1>23, Names DEF RemoveWindow, ThreadsTyped, Goto, Return, InputReturns
<1>24. CASE InsertWindow
  BY <1>24, Names DEF InsertWindow, ThreadsTyped, Goto, Return, InputReturns
<1>25. ASSUME NEW t \in Users, NEW v \in Threads, TearRing(t, v) PROVE TakeEvent(u)
  BY <1>25 DEF TearRing
<1>26. ASSUME NEW t \in Threads, NEW v \in Threads, TearList(t, v) PROVE TakeEvent(u)
  BY <1>26 DEF TearList
<1> QED
    BY <1>1, <1>2, <1>3, <1>4, <1>5, <1>6, <1>7, <1>8, <1>9, <1>10, <1>11, <1>12,
     <1>13, <1>14, <1>15, <1>16, <1>17, <1>18, <1>19, <1>20, <1>21, <1>22, <1>23, <1>24, <1>25,
     <1>26 DEF Next,
     InputStep, ReadStep

\* An owner finds the ring full only when there is a message in it.
LEMMA FullStep ==
  ASSUME FullIsNotEmpty, QueuesAreRight, ReadersShare, ThreadsTyped, [Next]_vars
  PROVE  FullIsNotEmpty'
<1>1. ASSUME NEW kind \in Kinds, Interrupt(kind) PROVE FullIsNotEmpty'
  BY <1>1 DEF Interrupt, History, FullIsNotEmpty
<1>2. CASE TakeInput
  BY <1>2 DEF TakeInput, History, FullIsNotEmpty
<1>3. CASE HandleKey
  BY <1>3 DEF HandleKey, History, FullIsNotEmpty
<1>4. CASE HandleTab
  BY <1>4 DEF HandleTab, FullIsNotEmpty
<1>5. CASE FindWindow
  BY <1>5 DEF FindWindow, History, FullIsNotEmpty
<1>6. ASSUME NEW w \in Windows, NEW pressed \in BOOLEAN, NEW held \in BOOLEAN,
             NEW passed \in BOOLEAN, HandleMouse(w, pressed, held, passed)
      PROVE  FullIsNotEmpty'
  <2>1. shared' = shared /\ fault' \in {fault, "LockedTwice", "NullPointer", "FreedMemory"}
    BY <1>6 DEF HandleMouse
  <2> QED
    BY <2>1 DEF FullIsNotEmpty
<1>7. CASE MouseTimesOut
  BY <1>7 DEF MouseTimesOut, History, FullIsNotEmpty
<1>8. CASE PutEvent
  BY <1>8 DEF PutEvent, History, FullIsNotEmpty
<1>9. CASE StoreEvent
  BY <1>9 DEF StoreEvent, History, FullIsNotEmpty
<1>10. ASSUME NEW t \in Users, CreateWindow(t) PROVE FullIsNotEmpty'
  BY <1>10 DEF CreateWindow, FullIsNotEmpty
<1>11. ASSUME NEW t \in Users, FinalizeThread(t) PROVE FullIsNotEmpty'
  BY <1>11 DEF FinalizeThread, History, FullIsNotEmpty
<1>12. ASSUME NEW t \in Users, DestroyThreadWindows(t) PROVE FullIsNotEmpty'
  <2>1. shared' = shared /\ fault' = fault
    BY <1>12, Zenon DEF DestroyThreadWindows
  <2> QED
    BY <2>1 DEF FullIsNotEmpty
<1>13. ASSUME NEW t \in Users, NEW w \in Windows, DestroyWindow(t, w)
       PROVE  FullIsNotEmpty'
  BY <1>13 DEF DestroyWindow, FullIsNotEmpty
<1>14. ASSUME NEW t \in Users, NEW w \in Windows, HideWindow(t, w)
       PROVE  FullIsNotEmpty'
  BY <1>14 DEF HideWindow, FullIsNotEmpty
<1>15. ASSUME NEW t \in Users, NEW w \in Windows, BringWindowToFront(t, w)
       PROVE  FullIsNotEmpty'
  BY <1>15 DEF BringWindowToFront, FullIsNotEmpty
<1>16. ASSUME NEW t \in Users, NEW w \in Windows, GetEvent(t, w)
       PROVE  FullIsNotEmpty'
  <2>1. shared \subseteq shared' /\ fault' = fault
    BY <1>16 DEF GetEvent, Reads
  <2> QED
    BY <2>1 DEF FullIsNotEmpty
<1>17. ASSUME NEW t \in Users, NEW w \in Windows, PeekEvent(t, w)
       PROVE  FullIsNotEmpty'
  <2>1. shared \subseteq shared' /\ fault' = fault
    BY <1>17 DEF PeekEvent, Reads
  <2> QED
    BY <2>1 DEF FullIsNotEmpty
<1>18. ASSUME NEW t \in Users, PeekTakes(t) PROVE FullIsNotEmpty'
  BY <1>18 DEF PeekTakes, History, FullIsNotEmpty
<1>19. ASSUME NEW t \in Users, WaitReturns(t) PROVE FullIsNotEmpty'
  BY <1>19 DEF WaitReturns, History, FullIsNotEmpty
<1>20. ASSUME NEW t \in Users, TakeEvent(t) PROVE FullIsNotEmpty'
  <2>0. PICK w \in Windows : w = at[t]
    BY Names DEF ThreadsTyped
  <2>1. /\ shared' = shared /\ pc[t] = "take"
        /\ fault' = IF ~Exists(w) THEN "FreedMemory"
                    ELSE IF events[w].items = <<>> /\ events[w].full THEN "StaleRing" ELSE fault
    BY <1>20, <2>0, Zenon DEF TakeEvent, GetItem
  <2>2. CASE ~Exists(w)
    BY <2>1, <2>2 DEF FullIsNotEmpty
  <2>3. CASE Exists(w) /\ ~(events[w].items = <<>> /\ events[w].full)
    BY <2>1, <2>3 DEF FullIsNotEmpty
  <2>4. CASE Exists(w) /\ events[w].items = <<>> /\ events[w].full
    <3>1. ~(Alive(w) /\ w \notin shared)
      BY <2>4 DEF QueuesAreRight, Account
    <3>2. w # Desktop /\ (owner[w] = t \/ w \in shared)
      BY <2>0, <2>1 DEF ReadersShare, Reading
    <3>3. w \notin shared => Alive(w)
      BY <2>1, <3>2 DEF ReadersShare, Alive, Gone
    <3> QED
      BY <2>1, <3>1, <3>3 DEF FullIsNotEmpty
  <2> QED
    BY <2>2, <2>3, <2>4
<1>21. CASE UNCHANGED vars
  BY <1>21 DEF vars, FullIsNotEmpty
<1>22. CASE MoveFocus
  BY <1>22 DEF MoveFocus, History, FullIsNotEmpty
<1>23. CASE RemoveWindow
  BY <1>23 DEF RemoveWindow, History, FullIsNotEmpty
<1>24. CASE InsertWindow
  BY <1>24 DEF InsertWindow, History, FullIsNotEmpty
<1>25. ASSUME NEW t \in Users, NEW u \in Threads, TearRing(t, u) PROVE FullIsNotEmpty'
  BY <1>25 DEF TearRing, FullIsNotEmpty
<1>26. ASSUME NEW t \in Threads, NEW u \in Threads, TearList(t, u) PROVE FullIsNotEmpty'
  BY <1>26 DEF TearList, FullIsNotEmpty
<1> QED
    BY <1>1, <1>2, <1>3, <1>4, <1>5, <1>6, <1>7, <1>8, <1>9, <1>10, <1>11, <1>12,
     <1>13, <1>14, <1>15, <1>16, <1>17, <1>18, <1>19, <1>20, <1>21, <1>22, <1>23, <1>24, <1>25,
     <1>26 DEF Next,
     InputStep, ReadStep

-----------------------------------------------------------------------------
(* The invariant holds.                                                    *)

\* The kernel creates its windows in their order.
LEMMA StackedInit == Init => Stacked
<1> SUFFICES ASSUME Init PROVE Stacked
  OBVIOUS
<1>1. /\ windows = <<Desktop, DebugWindow, MouseWindow>> /\ active = DebugWindow
      /\ nextId = 3 /\ pc[Input] = "idle"
  BY Names DEF Init
<1>2. /\ Len(windows) = 3 /\ DOMAIN windows = 1..3
      /\ windows[1] = Desktop /\ windows[2] = DebugWindow /\ windows[3] = MouseWindow
  BY <1>1
<1>3. \A i \in 1..3 : i = 1 \/ i = 2 \/ i = 3
  OBVIOUS
<1>4. windows \in Seq(Windows)
  BY <1>1, Names
<1>5. IsInjective(windows)
  BY <1>2, <1>3, Names DEF IsInjective
<1>6. \A w \in Range(windows) : w < 3
  BY <1>2, <1>3, Names DEF Range
<1>7. active < nextId
  BY <1>1, Names
<1>8. \A w \in {Desktop, DebugWindow, MouseWindow} : owner[w] = NoOne
  BY Names DEF Init
<1> QED
  BY <1>1, <1>2, <1>4, <1>5, <1>6, <1>7, <1>8 DEF Stacked, IsStack

\* The queues are empty at first.
LEMMA QueuesInit == Init => QueuesAreRight
<1> SUFFICES ASSUME Init PROVE QueuesAreRight
  OBVIOUS
<1>1. /\ \A t \in Users : pc[t] = "idle"
      /\ pc[Input] = "idle" /\ \A t \in Threads : at[t] = Desktop
      /\ \A w \in Windows : events[w] = Fresh
  BY Names DEF Init
<1>3. Places \in Nat \ {0}
  BY Names
<1>4. ASSUME NEW w \in Windows
      PROVE  ListIsRight(w) /\ RingFits(w) /\ CountIsRight(w) /\ Account(w)
  <2>1. events[w] = Fresh
    BY <1>1
  <2>2. /\ events[w].waiters = <<>> /\ events[w].items = <<>> /\ events[w].msgs = 0
        /\ events[w].slts = Places /\ events[w].full = FALSE /\ Len(events[w].items) = 0
    BY <2>1, FreshIs
  <2>3. ListIsRight(w)
    <3>1. Range(events[w].waiters) = {} /\ IsInjective(events[w].waiters)
      BY <2>2 DEF Range, IsInjective
    <3> QED
      BY <1>1, <3>1 DEF ListIsRight
  <2>4. ~Storing(w, "full") /\ ~Storing(w, "room") /\ Putting(w) = 0
    BY <1>1 DEF Storing, Putting
  <2>5. RingFits(w)
    BY <1>3, <2>2, <2>4 DEF RingFits
  <2>6. CountIsRight(w)
    BY <1>1, <2>2 DEF CountIsRight
  <2>7. Taking(w) = {}
    BY <1>1 DEF Taking
  <2>8. Taken(w) = 0
    BY <2>2, <2>4, <2>7, FS_EmptySet DEF Taken
  <2>9. Account(w)
    BY <1>3, <2>2, <2>4, <2>8 DEF Account
  <2> QED
    BY <2>3, <2>5, <2>6, <2>9
<1> QED
  BY <1>4 DEF QueuesAreRight

\* There are no events at first.
LEMMA OrderedInit == Init => Ordered
<1> SUFFICES ASSUME Init PROVE Ordered
  OBVIOUS
<1>1. /\ \A w \in Windows : events[w] = Fresh /\ seen[w] = 0
      /\ pc[Input] = "idle" /\ typed = 0 /\ ring = <<>> /\ hand.event.number = 0
  BY Names DEF Init, NoWork, NoEvent
<1>2. \A w \in Windows : Len(events[w].items) = 0 /\ seen[w] = 0
  BY <1>1, FreshIs
<1>3. \A w \in Windows : Rising(w)
  BY <1>2 DEF Rising
<1>4. Behind(typed + 1)
  BY <1>1, <1>2 DEF Behind
<1> QED
  BY <1>1, <1>3, <1>4 DEF Ordered, Carrying, Unlocked

\* The invariant holds at first, ...
LEMMA WInvInit == Init => WInv
<1> SUFFICES ASSUME Init PROVE WInv
  OBVIOUS
<1>1. /\ pc = [t \in Threads |-> "idle"] /\ at = [t \in Threads |-> Desktop] /\ nextId = 3
      /\ active = DebugWindow /\ windows = <<Desktop, DebugWindow, MouseWindow>>
      /\ events = [w \in Windows |-> Fresh] /\ fault = "none"
  BY DEF Init
<1>2. Unborn
  BY <1>1, Names DEF Unborn
<1>3. Focused
  <2>1. windows[2] = DebugWindow /\ 2 \in DOMAIN windows
    BY <1>1
  <2> QED
    BY <1>1, <2>1, Names DEF Focused, Exists, Open, Range
<1>4. Held /\ ReadersShare
  BY <1>1, Names DEF Held, ReadersShare, Reading
<1>5. FullIsNotEmpty
  BY <1>1 DEF FullIsNotEmpty
<1> QED
  BY <1>2, <1>3, <1>4, <1>5, TypedInit, StackedInit, QueuesInit, OrderedInit
     DEF WInv

\* ... every step keeps it, ...
LEMMA WInvStep == WInv /\ [Next]_vars => WInv'
<1> SUFFICES ASSUME WInv, [Next]_vars PROVE WInv'
  OBVIOUS
<1> USE DEF WInv, Typed
<1>1. Typed'
  BY TypedStep
<1>2. Stacked'
  BY StackedStep
<1>3. Unborn'
  BY UnbornStep
<1>4. Focused'
  BY <1>2, FocusedStep
<1>5. Held'
  BY HeldStep
<1>6. ReadersShare'
  BY ShareStep
<1>7. QueuesAreRight'
  BY <1>2, QueuesStep
<1>8. Ordered'
  BY OrderedStep
<1>9. FullIsNotEmpty'
  BY FullStep
<1> QED
  BY <1>1, <1>2, <1>3, <1>4, <1>5, <1>6, <1>7, <1>8, <1>9

\* ... so that it holds always.
LEMMA Inductive == Spec => []WInv
<1> QED
  BY WInvInit, WInvStep, PTL DEF Spec

-----------------------------------------------------------------------------
(* Who holds the lock.                                                     *)

\* A program holds the lock in PeekEvent.  While only it reads the window, the message
\* that it has seen is there until it takes it.
HoldsLock(t) ==
  /\ pc[t] = "peek" => lock = t
  /\ lock = t => pc[t] \in Reading \cup {"dead"}
  /\ lock = t /\ at[t] \notin shared \cup missed =>
       /\ pc[t] \in {"peek", "take", "dead"}
       /\ pc[t] = "peek" => Exists(at[t]) /\ events[at[t]].items # <<>>

\* The input thread holds it in PutEvent.
InputHolds == lock = Input => pc[Input] \in {"put", "store"}

Holders == InputHolds /\ \A t \in Users : HoldsLock(t)

\* Nothing is done to a queue, and no window goes.
LEMMA HoldersStay ==
  ASSUME Holders, InputHolds', UNCHANGED <<lock, events, shared, missed>>,
         \A t \in Users : pc'[t] = pc[t] /\ at'[t] = at[t],
         ThreadsTyped, \A w \in Windows : Exists(w) => Exists(w)'
  PROVE  Holders'
<1> SUFFICES ASSUME NEW t \in Users PROVE HoldsLock(t)'
  BY DEF Holders
<1>1. pc'[t] = pc[t] /\ at'[t] = at[t] /\ at[t] \in Windows
  BY Names DEF ThreadsTyped
<1>2. Exists(at[t]) => Exists(at[t])'
  <2>1. PICK w \in Windows : w = at[t] /\ w = at'[t]
    BY <1>1
  <2>2. Exists(w) => Exists(w)'
    OBVIOUS
  <2> QED
    BY <2>1, <2>2 DEF Exists, Open
<1>3. HoldsLock(t)
  BY DEF Holders
<1> QED
  BY <1>1, <1>2, <1>3 DEF HoldsLock

\* No program holds the lock, nor begins to.
LEMMA NobodyHolds ==
  ASSUME Holders, InputHolds', lock \notin Users, lock' \notin Users,
         \A t \in Users : pc'[t] = pc[t] \/ pc'[t] # "peek"
  PROVE  Holders'
BY DEF Holders, HoldsLock

\* A thread moves on; the others keep the message that they have seen.
LEMMA HoldersKeep ==
  ASSUME Holders, InputHolds', ThreadsTyped, NEW t \in Users, OthersKeep(t),
         lock' = lock \/ (lock = t /\ lock' = NoOne),
         shared \subseteq shared', missed \subseteq missed',
         \A w \in Windows : Exists(w) => Exists(w)',
         \A u \in Users \ {t} : at[u] \notin shared' /\ pc[u] \in Reading =>
           events'[at[u]].items = events[at[u]].items,
         HoldsLock(t)'
  PROVE  Holders'
<1> SUFFICES ASSUME NEW u \in Users \ {t} PROVE HoldsLock(u)'
  BY DEF Holders
<1>1. pc'[u] = pc[u] /\ at'[u] = at[u] /\ at[u] \in Windows
  BY Names DEF ThreadsTyped, OthersKeep
<1>2. lock' = u <=> lock = u
  BY Names
<1>3. HoldsLock(u)
  BY DEF Holders
<1>4. CASE pc[u] = "peek" /\ at[u] \notin shared' \cup missed'
  <2>1. events'[at[u]].items = events[at[u]].items /\ at[u] \notin shared \cup missed
    BY <1>4 DEF Reading
  <2>2. Exists(at[u]) => Exists(at[u])'
    <3>1. PICK w \in Windows : w = at[u] /\ w = at'[u]
      BY <1>1
    <3>2. Exists(w) => Exists(w)'
      OBVIOUS
    <3> QED
      BY <3>1, <3>2 DEF Exists, Open
  <2> QED
    BY <1>1, <1>2, <1>3, <1>4, <2>1, <2>2 DEF HoldsLock
<1>5. CASE ~(pc[u] = "peek" /\ at[u] \notin shared' \cup missed')
  BY <1>1, <1>2, <1>3, <1>5 DEF HoldsLock
<1> QED
  BY <1>4, <1>5

\* Who alone has seen a message in a ring finds the count for it.
LEMMA CountIsThere ==
  ASSUME WInv, NEW t \in Users, pc[t] = "peek", lock = t,
         at[t] \notin shared \cup missed, Exists(at[t]), events[at[t]].items # <<>>
  PROVE  CanTake(events[at[t]])
<1>1. PICK w \in Windows : w = at[t]
  BY Names DEF WInv, Typed, ThreadsTyped
<1>2. w # Desktop /\ owner[w] = t
  BY <1>1 DEF WInv, ReadersShare, Reading
<1>3. \A u \in Users : at[u] = w => u = t
  BY <1>1, <1>2 DEF WInv, ReadersShare
<1>4. Alive(w) /\ Taking(w) = {}
  BY <1>3 DEF Alive, Taking, Gone
<1>5. Putting(w) = 0
  BY Names DEF WInv, Held, Putting
<1>6. events[w].msgs \in Int /\ Len(events[w].items) \in Nat /\ Len(events[w].items) # 0
  BY <1>1, FieldTypes DEF WInv, Typed, EventsTyped
<1>7. Taken(w) = events[w].msgs
  BY <1>4, <1>5, <1>6, FS_EmptySet DEF Taken
<1>8. Len(events[w].items) <= events[w].msgs
  BY <1>1, <1>4, <1>7 DEF WInv, QueuesAreRight, Account
<1> QED
  BY <1>1, <1>6, <1>8 DEF CanTake

\* A ring that does not look empty has a message, if only the reader is at it.
LEMMA MessageIsThere ==
  ASSUME WInv, NEW t \in Users, PeekEvent(t, at'[t]), at'[t] \notin shared',
         at'[t] \in Windows
  PROVE  Exists(at'[t]) /\ events[at'[t]].items # <<>>
<1>1. PICK w \in Windows : w = at'[t]
  OBVIOUS
<1>2. /\ Open(w) /\ ~RingIsEmpty(events[w]) /\ pc[t] = "idle" /\ w \in Readable
      /\ owner[w] = t /\ w \notin shared
  BY <1>1 DEF PeekEvent, Reads
<1>3. w # Desktop
  BY <1>2, WindowManagerAssumption
<1>4. \A u \in Users : at[u] = w => u = t
  BY <1>2, <1>3 DEF WInv, ReadersShare
<1>5. Alive(w) /\ Exists(w)
  BY <1>2, <1>4 DEF Alive, Gone, Exists
<1>6. events[w].full => events[w].items # <<>>
  BY <1>2, <1>5 DEF WInv, QueuesAreRight, Account
<1>7. events[w].items = <<>> <=> Len(events[w].items) = 0
  BY FieldTypes DEF WInv, Typed, EventsTyped
<1>8. events[w].items # <<>>
  BY <1>2, <1>6, <1>7 DEF RingIsEmpty
<1> QED
  BY <1>1, <1>5, <1>8

\* A step of a reader changes the messages of no queue, or of the one it reads.
LEMMA ItemsStay ==
  ASSUME EventsTyped, NEW w \in Windows, NEW r \in QueueRecord,
         events' = [events EXCEPT ![w] = r], r.items = events[w].items
  PROVE  \A v \in Windows : events'[v].items = events[v].items
BY DEF EventsTyped

\* The steps of the readers
LEMMA ReadersHold ==
  ASSUME WInv, WInv', Holders, NEW t \in Users,
         \/ FinalizeThread(t) \/ ReadStep(t)
         \/ \E w \in Windows : GetEvent(t, w)
  PROVE  Holders'
<1> USE DEF WInv, Typed
<1>1. at[t] \in Windows /\ events[at[t]] \in QueueRecord
  BY Names DEF ThreadsTyped, EventsTyped
<1>2. HoldsLock(t)
  BY DEF Holders
<1>3. CASE FinalizeThread(t)
  <2>1. /\ pc' = [pc EXCEPT ![t] = "dead"] /\ UNCHANGED <<windows, lock, at, shared, missed>>
        /\ events' = [events EXCEPT ![at[t]] = Dequeue(events[at[t]], t)]
    BY <1>3 DEF FinalizeThread, Goto, Screen, History
  <2>2. pc'[Input] = pc[Input] /\ OthersKeep(t) /\ pc'[t] = "dead"
    BY <2>1, Names DEF ThreadsTyped, OthersKeep
  <2>3. \A v \in Windows : events'[v].items = events[v].items
    BY <1>1, <2>1, DequeueIs, ItemsStay
  <2>4. HoldsLock(t)'
    BY <2>2 DEF HoldsLock
  <2>5. InputHolds' /\ \A w \in Windows : Exists(w) => Exists(w)'
    BY <2>1, <2>2 DEF Holders, InputHolds, Exists, Open
  <2>6. \A u \in Users : at[u] \in Windows
    BY Names DEF ThreadsTyped
  <2> QED
    BY <2>1, <2>2, <2>3, <2>4, <2>5, <2>6, HoldersKeep
<1>4. CASE WaitReturns(t)
  <2>1. /\ pc' = [pc EXCEPT ![t] = "take"] /\ UNCHANGED <<windows, lock, at, shared, missed>>
        /\ events' = [events EXCEPT ![at[t]] = TakeCount(events[at[t]])]
    BY <1>4 DEF WaitReturns, Goto, Screen, History
  <2>2. pc'[Input] = pc[Input] /\ OthersKeep(t) /\ pc'[t] = "take" /\ at'[t] = at[t]
    BY <2>1, Names DEF ThreadsTyped, OthersKeep
  <2>3. \A v \in Windows : events'[v].items = events[v].items
    BY <1>1, <2>1, TakeCountIs, ItemsStay
  <2>4. HoldsLock(t)'
    BY <2>2 DEF HoldsLock, Reading
  <2>5. InputHolds' /\ \A w \in Windows : Exists(w) => Exists(w)'
    BY <2>1, <2>2 DEF Holders, InputHolds, Exists, Open
  <2>6. \A u \in Users : at[u] \in Windows
    BY Names DEF ThreadsTyped
  <2> QED
    BY <2>1, <2>2, <2>3, <2>4, <2>5, <2>6, HoldersKeep
<1>5. CASE PeekTakes(t)
  <2> DEFINE q == events[at[t]]
  <2>1. UNCHANGED <<windows, lock, at, shared, missed>> /\ pc[t] = "peek" /\ Wait(t, at[t])
    BY <1>5 DEF PeekTakes, Screen, History
  <2>2. /\ pc' = [pc EXCEPT ![t] = IF CanTake(q) THEN "take" ELSE "wait"]
        /\ \/ events' = [events EXCEPT ![at[t]] = TakeCount(q)]
           \/ events' = [events EXCEPT ![at[t]] = Enqueue(q, t)]
    BY <2>1 DEF Wait, Goto
  <2>3. /\ pc'[Input] = pc[Input] /\ OthersKeep(t) /\ at'[t] = at[t]
        /\ pc'[t] = IF CanTake(q) THEN "take" ELSE "wait"
    BY <2>1, <2>2, Names DEF ThreadsTyped, OthersKeep
  <2>4. \A v \in Windows : events'[v].items = events[v].items
    BY <1>1, <2>2, TakeCountIs, EnqueueIs, ItemsStay
  <2>5. lock = t /\ (at[t] \notin shared \cup missed => CanTake(q))
    BY <1>2, <2>1, CountIsThere DEF HoldsLock
  <2>6. HoldsLock(t)'
    BY <2>1, <2>3, <2>5 DEF HoldsLock, Reading
  <2>7. InputHolds' /\ \A w \in Windows : Exists(w) => Exists(w)'
    BY <2>1, <2>3 DEF Holders, InputHolds, Exists, Open
  <2>8. \A u \in Users : at[u] \in Windows
    BY Names DEF ThreadsTyped
  <2> QED
    BY <2>1, <2>3, <2>4, <2>6, <2>7, <2>8, HoldersKeep
<1>6. CASE TakeEvent(t)
  <2>1. PICK found \in Finds(events[at[t]]) : GetItem(t, found)
    BY <1>6 DEF TakeEvent
  <2>2. /\ pc' = [pc EXCEPT ![t] = "idle"] /\ at' = [at EXCEPT ![t] = Desktop]
        /\ UNCHANGED <<windows, shared>> /\ lock' = (IF lock = t THEN NoOne ELSE lock)
        /\ pc[t] = "take"
    BY <1>6 DEF TakeEvent, Return, Goto, Screen
  <2>3. missed \subseteq missed'
    BY <2>1, Zenon DEF GetItem
  <2>4. \A v \in Windows \ {at[t]} : events'[v] = events[v]
    BY <1>1, <2>1 DEF GetItem, EventsTyped
  <2>5. pc'[Input] = pc[Input] /\ at'[Input] = at[Input] /\ OthersKeep(t) /\ pc'[t] = "idle"
    BY <2>2, Names DEF ThreadsTyped, OthersKeep
  <2>6. ASSUME NEW u \in Users \ {t}, at[u] \notin shared', pc[u] \in Reading
        PROVE  events'[at[u]].items = events[at[u]].items
    <3>1. owner[at[u]] = u /\ at[u] \in Windows
      BY <2>2, <2>6, Names DEF ReadersShare, ThreadsTyped
    <3>2. at[t] # at[u]
      BY <2>2, <2>6, <3>1 DEF ReadersShare, Reading
    <3> QED
      BY <2>4, <3>1, <3>2
  <2>7. HoldsLock(t)'
    BY <2>2, <2>5, Names DEF HoldsLock
  <2>8. InputHolds' /\ \A w \in Windows : Exists(w) => Exists(w)'
    BY <2>2, <2>5, Names DEF Holders, InputHolds, Exists, Open
  <2> QED
    BY <2>2, <2>3, <2>5, <2>6, <2>7, <2>8, HoldersKeep
<1>7. ASSUME NEW w \in Windows, GetEvent(t, w) PROVE Holders'
  <2> DEFINE q == events[w]
  <2>1. /\ UNCHANGED <<windows, lock, missed>> /\ pc[t] = "idle" /\ Wait(t, w)
        /\ at' = [at EXCEPT ![t] = w] /\ shared \subseteq shared'
    BY <1>7 DEF GetEvent, Reads, Screen
  <2>2. /\ pc' = [pc EXCEPT ![t] = IF CanTake(q) THEN "take" ELSE "wait"]
        /\ \/ events' = [events EXCEPT ![w] = TakeCount(q)]
           \/ events' = [events EXCEPT ![w] = Enqueue(q, t)]
    BY <2>1 DEF Wait, Goto
  <2>3. /\ pc'[Input] = pc[Input] /\ at'[Input] = at[Input] /\ OthersKeep(t)
        /\ pc'[t] # "peek"
    BY <2>1, <2>2, Names DEF ThreadsTyped, OthersKeep
  <2>4. \A v \in Windows : events'[v].items = events[v].items
    <3>1. q \in QueueRecord
      BY DEF EventsTyped
    <3> QED
      BY <2>2, <3>1, TakeCountIs, EnqueueIs, ItemsStay
  <2>5. lock # t
    BY <1>2, <2>1 DEF HoldsLock, Reading
  <2>6. HoldsLock(t)'
    BY <2>1, <2>3, <2>5 DEF HoldsLock
  <2>7. InputHolds' /\ \A v \in Windows : Exists(v) => Exists(v)'
    BY <2>1, <2>3 DEF Holders, InputHolds, Exists, Open
  <2>8. \A u \in Users : at[u] \in Windows
    BY Names DEF ThreadsTyped
  <2> QED
    BY <2>1, <2>3, <2>4, <2>6, <2>7, <2>8, HoldersKeep
<1> QED
  BY <1>3, <1>4, <1>5, <1>6, <1>7 DEF ReadStep

\* Every step leaves the lock with threads that go on.
LEMMA HoldersStep == ASSUME WInv, WInv', Holders, [Next]_vars PROVE Holders'
<1> USE DEF WInv, Typed
<1>1. ASSUME NEW kind \in Kinds, Interrupt(kind) PROVE Holders'
  <2>1. UNCHANGED <<windows, lock, events, pc, at, shared, missed>>
    BY <1>1 DEF Interrupt, Screen, History
  <2>2. InputHolds' /\ \A w \in Windows : Exists(w) => Exists(w)'
    BY <2>1 DEF Holders, InputHolds, Exists, Open
  <2> QED
    BY <2>1, <2>2, HoldersStay
<1>2. CASE TakeInput
  <2>1. /\ UNCHANGED <<windows, lock, events, at, shared, missed>> /\ pc[Input] = "idle"
        /\ \A t \in Users : pc'[t] = pc[t]
    BY <1>2, Names DEF TakeInput, Screen, History, Goto, ThreadsTyped
  <2>2. InputHolds' /\ \A w \in Windows : Exists(w) => Exists(w)'
    BY <2>1 DEF Holders, InputHolds, Exists, Open
  <2> QED
    BY <2>1, <2>2, HoldersStay
<1>3. CASE HandleKey
  <2>1. /\ UNCHANGED <<windows, lock, events, shared, missed>> /\ pc[Input] = "event"
        /\ \A t \in Users : pc'[t] = pc[t] /\ at'[t] = at[t]
    BY <1>3, Names DEF HandleKey, Handling, Screen, History, Goto, ThreadsTyped
  <2>2. InputHolds' /\ \A w \in Windows : Exists(w) => Exists(w)'
    BY <2>1 DEF Holders, InputHolds, Exists, Open
  <2> QED
    BY <2>1, <2>2, HoldersStay
<1>4. CASE HandleTab
  <2>1. /\ UNCHANGED <<windows, lock, events, at, shared, missed>> /\ pc[Input] = "event"
        /\ \A t \in Users : pc'[t] = pc[t]
    BY <1>4, Names DEF HandleTab, Handling, Screen, Goto, ThreadsTyped
  <2>2. InputHolds' /\ \A w \in Windows : Exists(w) => Exists(w)'
    BY <2>1 DEF Holders, InputHolds, Exists, Open
  <2> QED
    BY <2>1, <2>2, HoldersStay
<1>5. CASE FindWindow
  <2>1. /\ UNCHANGED <<windows, lock, events, shared, missed>> /\ pc[Input] = "walk"
        /\ \A t \in Users : pc'[t] = pc[t] /\ at'[t] = at[t]
    BY <1>5, Names DEF FindWindow, Screen, History, Goto, ThreadsTyped
  <2>2. InputHolds' /\ \A w \in Windows : Exists(w) => Exists(w)'
    BY <2>1 DEF Holders, InputHolds, Exists, Open
  <2> QED
    BY <2>1, <2>2, HoldersStay
<1>22. CASE MoveFocus
  <2>1. /\ UNCHANGED <<windows, lock, events, shared, missed>> /\ pc[Input] = "focus"
        /\ \A t \in Users : pc'[t] = pc[t] /\ at'[t] = at[t]
    BY <1>22, Names DEF MoveFocus, History, Goto, ThreadsTyped
  <2>2. InputHolds' /\ \A w \in Windows : Exists(w) => Exists(w)'
    BY <2>1 DEF Holders, InputHolds, Exists, Open
  <2> QED
    BY <2>1, <2>2, HoldersStay
<1>23. CASE RemoveWindow
  <2>1. /\ UNCHANGED <<lock, events, shared, missed>> /\ pc[Input] = "raise"
        /\ \A t \in Users : pc'[t] = pc[t] /\ at'[t] = at[t]
    BY <1>23, Names DEF RemoveWindow, History, InputReturns, Return, Goto, ThreadsTyped
  <2>2. InputHolds'
    BY <2>1 DEF Holders, InputHolds
  <2>3. ASSUME NEW w \in Windows, Exists(w) PROVE Exists(w)'
    <3>1. CASE Open(at[Input]) /\ at[Input] # Desktop
      <4>1. windows' = Without(windows, at[Input]) /\ at' = at /\ pc'[Input] = "link"
        BY <1>23, <3>1, Names DEF RemoveWindow, Goto, ThreadsTyped
      <4>2. Range(windows') = Range(windows) \ {at[Input]}
        BY <3>1, <4>1, StackWithout DEF Stacked, Open
      <4> QED
        BY <2>1, <2>3, <4>1, <4>2 DEF Exists, Open
    <3>2. CASE ~(Open(at[Input]) /\ at[Input] # Desktop)
      <4>1. windows' = windows
        BY <1>23, <3>2 DEF RemoveWindow
      <4> QED
        BY <2>1, <2>3, <4>1 DEF Exists, Open
    <3> QED
      BY <3>1, <3>2
  <2> QED
    BY <2>1, <2>2, <2>3, HoldersStay
<1>24. CASE InsertWindow
  <2>1. /\ UNCHANGED <<lock, events, shared, missed>> /\ pc[Input] = "link"
        /\ windows' = BelowMouse(windows, at[Input])
        /\ \A t \in Users : pc'[t] = pc[t] /\ at'[t] = at[t]
    BY <1>24, Names DEF InsertWindow, History, InputReturns, Return, Goto, ThreadsTyped
  <2>2. InputHolds'
    BY <2>1 DEF Holders, InputHolds
  <2>3. at[Input] \in Windows /\ at[Input] # Desktop
    BY <2>1, Names DEF ThreadsTyped, Stacked
  <2>4. Range(windows') = Range(windows) \cup {at[Input]}
    BY <2>1, <2>3, StackBelowMouse DEF Stacked
  <2>5. \A w \in Windows : Exists(w) => Exists(w)'
    BY <2>4 DEF Exists, Open
  <2> QED
    BY <2>1, <2>2, <2>5, HoldersStay
<1>25. ASSUME NEW t \in Users, NEW u \in Threads, TearRing(t, u) PROVE Holders'
  <2>1. UNCHANGED <<windows, lock, events, pc, at, shared, missed>>
    BY <1>25 DEF TearRing, Screen
  <2>2. InputHolds' /\ \A w \in Windows : Exists(w) => Exists(w)'
    BY <2>1 DEF Holders, InputHolds, Exists, Open
  <2> QED
    BY <2>1, <2>2, HoldersStay
<1>26. ASSUME NEW t \in Threads, NEW u \in Threads, TearList(t, u) PROVE Holders'
  <2>1. UNCHANGED <<windows, lock, events, pc, at, shared, missed>>
    BY <1>26 DEF TearList, Screen
  <2>2. InputHolds' /\ \A w \in Windows : Exists(w) => Exists(w)'
    BY <2>1 DEF Holders, InputHolds, Exists, Open
  <2> QED
    BY <2>1, <2>2, HoldersStay
<1>6. ASSUME NEW w \in Windows, NEW pressed \in BOOLEAN, NEW held \in BOOLEAN,
             NEW passed \in BOOLEAN, HandleMouse(w, pressed, held, passed)
      PROVE  Holders'
  <2>1. lock = NoOne /\ \A t \in Users : pc'[t] = pc[t]
    BY <1>6, Names DEF HandleMouse, InputReturns, Return, Goto, ThreadsTyped
  <2>2. \/ lock' = Input /\ pc'[Input] = "put"
        \/ lock' = NoOne
    BY <1>6, <2>1, Names DEF HandleMouse, Goto, ThreadsTyped
  <2> QED
    BY <2>1, <2>2, NobodyHolds, Names DEF InputHolds
<1>7. CASE MouseTimesOut
  <2>1. /\ UNCHANGED <<windows, lock, events, shared, missed>> /\ pc[Input] = "event"
        /\ pc'[Input] = "idle" /\ \A t \in Users : pc'[t] = pc[t] /\ at'[t] = at[t]
    BY <1>7, Names DEF MouseTimesOut, Handling, Screen, History, InputReturns, Return,
       Goto, ThreadsTyped
  <2>2. InputHolds' /\ \A w \in Windows : Exists(w) => Exists(w)'
    BY <2>1 DEF Holders, InputHolds, Exists, Open
  <2> QED
    BY <2>1, <2>2, HoldersStay
<1>8. CASE PutEvent
  <2>1. lock \in {NoOne, Input} /\ \A t \in Users : pc'[t] = pc[t]
    BY <1>8, Names DEF PutEvent, InputReturns, Return, Goto, ThreadsTyped
  <2>2. \/ lock' = Input /\ pc'[Input] = "store"
        \/ lock' = NoOne
    BY <1>8, Names DEF PutEvent, Goto, ThreadsTyped
  <2> QED
    BY <2>1, <2>2, NobodyHolds, Names DEF InputHolds
<1>9. CASE StoreEvent
  <2>1. lock = Input /\ lock' = NoOne
    BY <1>9 DEF StoreEvent, Held
  <2>2. \A t \in Users : pc'[t] \in {pc[t], "woken"}
    <3> DEFINE q == events[at[Input]]
               woken == IF q.waiters = <<>> THEN {} ELSE {Head(q.waiters)}
    <3>1. pc' = [t \in Threads |-> IF t = Input THEN "idle"
                                   ELSE IF t \in woken THEN "woken" ELSE pc[t]]
      BY <1>9, Zenon DEF StoreEvent
    <3> HIDE DEF woken
    <3> QED
      BY <3>1, Names
  <2> QED
    BY <2>1, <2>2, NobodyHolds, Names DEF InputHolds
<1>10. ASSUME NEW t \in Users, CreateWindow(t) PROVE Holders'
  <2>1. lock = NoOne /\ lock' = NoOne /\ pc' = pc
    BY <1>10 DEF CreateWindow, Locked
  <2> QED
    BY <2>1, NobodyHolds, Names DEF InputHolds
<1>12. ASSUME NEW t \in Users, DestroyThreadWindows(t) PROVE Holders'
  <2>1. lock = NoOne /\ lock' = NoOne /\ pc' = [pc EXCEPT ![t] = "gone"]
    BY <1>12 DEF DestroyThreadWindows, Locked, Goto
  <2>2. \A u \in Users : pc'[u] \in {pc[u], "gone"}
    BY <2>1, Names DEF ThreadsTyped
  <2> QED
    BY <2>1, <2>2, NobodyHolds, Names DEF InputHolds
<1>13. ASSUME NEW t \in Users, NEW w \in Windows, DestroyWindow(t, w) PROVE Holders'
  <2>1. lock = NoOne /\ lock' = NoOne /\ pc' = pc
    BY <1>13 DEF DestroyWindow, Locked
  <2> QED
    BY <2>1, NobodyHolds, Names DEF InputHolds
<1>14. ASSUME NEW t \in Users, NEW w \in Windows, HideWindow(t, w) PROVE Holders'
  <2>1. UNCHANGED <<windows, lock, events, pc, at, shared, missed>>
    BY <1>14 DEF HideWindow, Screen
  <2>2. InputHolds' /\ \A v \in Windows : Exists(v) => Exists(v)'
    BY <2>1 DEF Holders, InputHolds, Exists, Open
  <2> QED
    BY <2>1, <2>2, HoldersStay
<1>15. ASSUME NEW t \in Users, NEW w \in Windows, BringWindowToFront(t, w)
       PROVE  Holders'
  <2>1. lock = NoOne /\ lock' = NoOne /\ pc' = pc
    BY <1>15 DEF BringWindowToFront, Locked
  <2> QED
    BY <2>1, NobodyHolds, Names DEF InputHolds
<1>17. ASSUME NEW t \in Users, NEW w \in Windows, PeekEvent(t, w) PROVE Holders'
  <2>1. /\ pc' = [pc EXCEPT ![t] = "peek"] /\ lock = NoOne /\ lock' = t
        /\ at' = [at EXCEPT ![t] = w] /\ UNCHANGED <<windows, events>>
    BY <1>17 DEF PeekEvent, Locked, Goto, Reads, Screen
  <2>2. /\ pc'[t] = "peek" /\ at'[t] = w
        /\ pc'[Input] = pc[Input] /\ at'[Input] = at[Input]
        /\ \A u \in Users \ {t} : pc'[u] = pc[u]
    BY <2>1, Names DEF ThreadsTyped
  <2>3. w \notin shared' => Exists(w) /\ events[w].items # <<>>
    BY <1>17, <2>2, MessageIsThere
  <2>4. Exists(w) => Exists(at[t])'
    BY <2>1, <2>2 DEF Exists, Open
  <2>5. HoldsLock(t)'
    BY <2>1, <2>2, <2>3, <2>4 DEF HoldsLock, Reading
  <2>6. ASSUME NEW u \in Users \ {t} PROVE HoldsLock(u)'
    BY <2>1, <2>2, Names DEF Holders, HoldsLock
  <2>7. InputHolds'
    BY <2>1, Names DEF InputHolds
  <2> QED
    BY <2>5, <2>6, <2>7 DEF Holders
<1>18. ASSUME NEW t \in Users,
              \/ FinalizeThread(t) \/ ReadStep(t)
              \/ \E w \in Windows : GetEvent(t, w)
       PROVE  Holders'
  BY <1>18, ReadersHold
<1>21. CASE UNCHANGED vars
  <2>1. UNCHANGED <<windows, lock, events, pc, at, shared, missed>>
    BY <1>21 DEF vars
  <2>2. InputHolds' /\ \A w \in Windows : Exists(w) => Exists(w)'
    BY <2>1 DEF Holders, InputHolds, Exists, Open
  <2> QED
    BY <2>1, <2>2, HoldersStay
<1> QED
  BY <1>1, <1>2, <1>3, <1>4, <1>5, <1>6, <1>7, <1>8, <1>9, <1>10, <1>12, <1>13, <1>14,
     <1>15, <1>17, <1>18, <1>21, <1>22, <1>23, <1>24, <1>25, <1>26
     DEF Next, InputStep

-----------------------------------------------------------------------------
(* The properties.                                                         *)

\* What follows from the invariant, property by property
LEMMA ScreenFromWInv == WInv => ScreenIsSound
<1> SUFFICES ASSUME WInv PROVE ScreenIsSound
  OBVIOUS
<1> USE DEF WInv, Typed
<1>1. windows \in Seq(Windows) /\ StackingOrder
  <2>1. /\ windows \in Seq(Windows) /\ IsInjective(windows) /\ windows[1] = Desktop
        /\ Open(MouseWindow) => windows[Len(windows)] = MouseWindow
    BY DEF Stacked, IsStack, Open
  <2>2. ASSUME NEW w \in Windows, Exists(w) PROVE w < nextId
    <3>1. CASE Open(w)
      BY <3>1 DEF Stacked, Open
    <3>2. CASE pc[Input] = "link" /\ at[Input] = w
      BY <3>2, Names DEF Unborn
    <3> QED
      BY <2>2, <3>1, <3>2 DEF Exists
  <2> QED
    BY <2>1, <2>2 DEF StackingOrder
<1>2. FocusExists
  BY DEF Focused, FocusExists
<1>3. signals \in 0..MaxEvents /\ typed \in 0..MaxEvents
  BY Names DEF DevicesTyped
<1>4. \A w \in Windows :
        /\ events[w].items \in Seq(1..MaxEvents)
        /\ Len(events[w].items) <= Places
        /\ events[w].full \in BOOLEAN
        /\ events[w].msgs \in Int /\ events[w].slts \in Int
        /\ events[w].waiters \in Seq(Users)
  <2> SUFFICES ASSUME NEW w \in Windows
               PROVE  /\ events[w].items \in Seq(1..MaxEvents)
                      /\ Len(events[w].items) <= Places
                      /\ events[w].full \in BOOLEAN
                      /\ events[w].msgs \in Int /\ events[w].slts \in Int
                      /\ events[w].waiters \in Seq(Users)
    BY Zenon
  <2>1. events[w] \in QueueRecord
    BY DEF EventsTyped
  <2>2. Len(events[w].items) <= Places
    BY DEF QueuesAreRight, RingFits
  <2> QED
    BY <2>1, <2>2, FieldTypes, Zenon
<1>5. pc \in [Threads -> {"idle", "get", "peek", "wait", "woken", "take", "dead",
                          "gone", "event", "put", "store"} \cup Unlocked]
  BY DEF ThreadsTyped, Reading, Gone, Busy
<1>6. hand \in [event : Event \cup {NoEvent}, flag : {"same", "full", "room"}]
  BY DEF HandTyped, Flags
<1>7. TypeOK
  BY <1>1, <1>3, <1>4, <1>5, <1>6, Zenon
     DEF TypeOK, DevicesTyped, ScreenTyped, ThreadsTyped, HistoryTyped
<1> QED
  BY <1>1, <1>2, <1>7 DEF ScreenIsSound

\* The account is part of the invariant for living readers.
LEMMA AccountFromWInv == WInv => QueueIsAccounted
<1> SUFFICES ASSUME WInv, NEW w \in Windows, Exists(w),
                    \A t \in Users : at[t] = w => pc[t] \notin {"dead", "gone"}
             PROVE  /\ events[w].slts + Taken(w) = Places
                    /\ w \notin shared \cup missed => Len(events[w].items) <= Taken(w)
  BY DEF QueueIsAccounted, Taken
<1>1. Alive(w)
  BY DEF Alive, Gone
<1> QED
  BY <1>1 DEF WInv, QueuesAreRight, Account

\* An owner that waits has no count left, nobody takes, and so nothing is in the ring.
LEMMA NoneOverlookedFromWInv == WInv => NoMessageOverlooked
<1> SUFFICES ASSUME WInv, NEW w \in Private \ missed, NEW t \in Users,
                    pc[t] = "wait", at[t] = w, Putting(w) = 0
             PROVE  events[w].items = <<>>
  BY DEF NoMessageOverlooked
<1>1. Exists(w) /\ w \notin shared \cup missed /\ w \in Windows
  BY DEF Private
<1>2. \A u \in Users : at[u] = w => u = t
  BY <1>1 DEF WInv, ReadersShare, Reading
<1>3. Alive(w) /\ Taking(w) = {}
  BY <1>2 DEF Alive, Taking, Gone
<1>4. events[w].msgs = 0
  BY <1>1 DEF WInv, QueuesAreRight, CountIsRight
<1>5. Taken(w) = 0
  BY <1>3, <1>4, FS_EmptySet DEF Taken
<1>6. Len(events[w].items) <= 0
  BY <1>1, <1>3, <1>5 DEF WInv, QueuesAreRight, Account
<1> QED
  BY <1>1, <1>6, FieldTypes DEF WInv, Typed, EventsTyped

\* The message that is read is newer than the last one.
LEMMA ReadRises ==
  ASSUME WInv, NEW t \in Users, TakeEvent(t), Exists(at[t]), at[t] \notin shared,
         ~RingIsEmpty(events[at[t]]) \/ seen' # seen
  PROVE  seen'[at[t]] > seen[at[t]]
<1> USE DEF WInv, Typed
<1>1. PICK w \in Windows : w = at[t]
  BY Names DEF ThreadsTyped
<1>2. Len(events[w].items) \in Nat /\ (events[w].items = <<>> <=> Len(events[w].items) = 0)
  BY FieldTypes DEF EventsTyped
<1>10. PICK found \in Finds(events[w]) : GetItem(t, found)
  BY <1>1 DEF TakeEvent
<1>11. /\ found \in BOOLEAN /\ (found => events[w].items # <<>>)
       /\ ~RingIsEmpty(events[w]) /\ events[w].items # <<>> => found
  BY <1>10, FindsIs DEF EventsTyped
<1>3. ~RingIsEmpty(events[w]) => events[w].items # <<>>
  <2>1. pc[t] = "take"
    BY DEF TakeEvent
  <2>2. w # Desktop /\ owner[w] = t
    BY <1>1, <2>1 DEF ReadersShare, Reading
  <2>3. \A u \in Users : at[u] = w => u = t
    BY <1>1, <2>2 DEF ReadersShare
  <2>4. Alive(w)
    BY <2>1, <2>3 DEF Alive, Gone
  <2>5. events[w].full => events[w].items # <<>>
    BY <1>1, <2>4 DEF QueuesAreRight, Account
  <2> QED
    BY <1>1, <1>2, <2>5 DEF RingIsEmpty
<1>4. found
  <2> HIDE DEF WInv, Typed
  <2> SUFFICES ASSUME ~found PROVE FALSE
    OBVIOUS
  <2>1. seen' = seen
    BY <1>10 DEF GetItem
  <2>2. ~RingIsEmpty(events[w])
    BY <1>1, <2>1
  <2> QED
    BY <1>3, <1>11, <2>2, Zenon
<1>5. seen' = [seen EXCEPT ![w] = events[w].items[1]]
  <2> HIDE DEF WInv, Typed
  <2>1. found = TRUE
    BY <1>4, <1>11
  <2> QED
    BY <1>1, <1>10, <2>1 DEF GetItem
<1>6. 1 \in 1..Len(events[w].items)
  BY <1>2, <1>4, <1>11
<1>7. seen[w] < events[w].items[1]
  BY <1>6 DEF Ordered, Rising
<1>8. seen'[w] = events[w].items[1]
  BY <1>5 DEF HistoryTyped
<1>9. events[w].items[1] \in Nat /\ seen[w] \in Nat
  BY <1>6, Numbers
<1> QED
  BY <1>1, <1>7, <1>8, <1>9

\* What the input thread finds on the screen is there, whichever program creates and
\* destroys which window and wherever alt+tab is between its steps: the desktop at the
\* back, the mouse pointer, if it was not destroyed, in front, each window once, and a
\* focus that exists unless alt+tab has met another's change (kwm.cpp).  Two threads
\* that change the list at the same time are the exception: they end in TornList.
THEOREM ScreenSound == Spec => []ScreenIsSound
<1> QED
  BY Inductive, ScreenFromWInv, PTL

\* Every place of a message queue is free, counted, or in the hands of a thread, and
\* in a queue that only its owner reads there are no more messages than that
\* (MessageQueue::Put and Get, whose steps interleave).
THEOREM Accounted == Spec => []QueueIsAccounted
<1> QED
  BY Inductive, AccountFromWInv, PTL

\* The owner of a window does not sleep in GetEvent while there is a message for it,
\* unless he came once while the ring was full and its flag was not stored yet.
THEOREM NoneOverlooked == Spec => []NoMessageOverlooked
<1> QED
  BY Inductive, NoneOverlookedFromWInv, PTL

\* The flag of a ring is stored after its index, and the reader may come in between;
\* a queue that is not shared never takes an empty ring for a full one all the same.
THEOREM FullSound == Spec => []FullIsNotEmpty
<1>1. WInv => FullIsNotEmpty
  BY DEF WInv
<1> QED
  BY <1>1, Inductive, PTL

\* Whoever holds the window manager's lock goes on to release it, whatever other
\* programs do, unless he was killed in PeekEvent, others read the window, or its full
\* ring was found empty once (kwm.cpp:644).
THEOREM HolderSound == Spec => []HolderGoesOn
<1>1. Init => Holders
  BY Names DEF Init, Holders, InputHolds, HoldsLock
<1>2. WInv /\ WInv' /\ Holders /\ [Next]_vars => Holders'
  BY HoldersStep
<1>3. Holders => HolderGoesOn
  BY DEF Holders, InputHolds, HoldsLock, HolderGoesOn
<1> QED
  BY <1>1, <1>2, <1>3, Inductive, PTL DEF Spec

\* As long as only the owner of a window reads its messages he gets them in the order
\* in which the keys were pressed, and none twice (Queue::Read in MessageQueue::Get),
\* a ring included that was just filled and does not say so yet; until he is in the
\* ring without a message for his count while Write is (TearRing).
THEOREM InOrder == Spec => ReadInOrder
<1>1. WInv /\ [Next]_vars =>
        [\A t \in Users :
           pc[t] = "take" /\ pc'[t] = "idle" /\ Exists(at[t]) /\ at[t] \notin shared
             /\ (~RingIsEmpty(events[at[t]]) \/ seen' # seen) =>
               seen'[at[t]] > seen[at[t]]]_vars
  <2> SUFFICES ASSUME WInv, [Next]_vars, NEW t \in Users,
                      pc[t] = "take", pc'[t] = "idle", Exists(at[t]), at[t] \notin shared,
                      ~RingIsEmpty(events[at[t]]) \/ seen' # seen
               PROVE  seen'[at[t]] > seen[at[t]]
    OBVIOUS
  <2>1. TakeEvent(t)
    BY OnlyTakeEvent DEF WInv, Typed
  <2> QED
    BY <2>1, ReadRises
<1> QED
  BY <1>1, Inductive, PTL DEF Spec, ReadInOrder

=============================================================================
