---------------------------- MODULE Mutex_proofs ----------------------------
(***************************************************************************)
(* The mutex's safety for any number of threads, any timeouts, deaths and  *)
(* cancelled waits: as long as nobody else resumes its waiters, a thread   *)
(* whose Acquire returned true owns the mutex; and in any case whoever is  *)
(* blocked in Acquire is in the line of a mutex that is taken.             *)
(*                                                                         *)
(* Neither is inductive.  That the mutex is handed to somebody who waits   *)
(* rests on what its waiter list says of the scheduler's state: a thread   *)
(* that is listed has no WakeCount left and is listed once, and a waiter   *)
(* that is awake without having run out of time was woken because it owns  *)
(* the mutex.  IInv says so of each thread; a step disturbs it for one or  *)
(* two threads, and every other thread is at most woken by the clock       *)
(* (OthersKeep).                                                           *)
(*                                                                         *)
(* With room for every thread in the waiter queue nobody dead is given the *)
(* mutex (Fits); and the mutex implements FifoLock, whose line is what the *)
(* waiter queue lists but for its cleared entries (Line).                  *)
(***************************************************************************)
EXTENDS Mutex, Thread_proofs

Typed ==
  /\ owner \in Threads \cup {Null}
  /\ count = IF owner = Null THEN 0 ELSE 1
  /\ waiters \in Seq(Threads \cup {Null})
  /\ pc \in [Threads -> {"out", "in", "wait", "timed wait"}]
  /\ halted \in BOOLEAN
  /\ resumes \in 0..MaxResumes /\ cancels \in 0..MaxCancels
  /\ forgotten \subseteq Threads

\* Where t blocks, and that a release will find it there.
Placed(t) ==
  /\ t \in sched.suspended => pc[t] = "wait"
  /\ t \in sched.sleeping =>
       /\ pc[t] = "timed wait"
       /\ sched.intr[t] /\ sched.writes[t] /\ sched.slot[t] # NoSlot
  /\ Blocked(t) => owner # t /\ (t \in forgotten \/ (count = 1 /\ Queued(t)))

\* Why t is awake: for the mutex, or because its time is over.
Entitled(t) ==
  /\ sched.wake[t] <= 1
  /\ Sole(waiters, t)
  /\ Queued(t) => Waiting(t) /\ sched.wake[t] = 0 /\ owner # t
  /\ pc[t] = "in" => owner = t
  /\ Waiting(t) /\ ~Blocked(t) /\ ~Dead(sched, t) /\ ~TimedOut(t) => owner = t

Stands(t) == Placed(t) /\ (Undisturbed => Entitled(t))

IInv == Sound(sched) /\ Typed /\ \A t \in Threads : Stands(t)

-----------------------------------------------------------------------------
(* The waiter list.                                                        *)

Entries == Threads \cup {Null}

\* What a release takes off the front of the list are cleared entries.
LEMMA LiveTailKeeps ==
  ASSUME NEW q \in Seq(Entries)
  PROVE  LET line == LiveTail(q) IN
         /\ line \in Seq(Entries)
         /\ \A t \in Threads : t \in ToSet(line) <=> t \in ToSet(q)
         /\ \A t \in Threads : Sole(q, t) => Sole(line, t)
         /\ line # <<>> => Head(line) \in Threads
         /\ Len(line) <= Len(q)
<1> DEFINE live == {i \in DOMAIN q : q[i] # Null}
           line == LiveTail(q)
<1>1. /\ Len(q) \in Nat /\ DOMAIN q = 1..Len(q)
      /\ ToSet(q) = {q[i] : i \in 1..Len(q)}
      /\ \A i \in 1..Len(q) : q[i] \in Entries
  BY LenProperties, ToSetOfSeq, ElementOfSeq
<1>2. Null \notin Threads
  BY MutexAssumption
<1>3. CASE live = {}
  <2>1. line = <<>>
    BY <1>3 DEF LiveTail
  <2>2. \A t \in Threads : t \notin ToSet(q)
    BY <1>1, <1>2, <1>3
  <2>3. ToSet(<<>>) = {}
    BY DEF ToSet
  <2> QED
    BY <1>1, <2>1, <2>2, <2>3 DEF Sole
<1>4. CASE live # {}
  <2> DEFINE m == Min(live)
  <2>1. line = SubSeq(q, m, Len(q))
    BY <1>4 DEF LiveTail
  <2>2. live \in SUBSET Nat /\ live # {}
    BY <1>1, <1>4
  <2>3. m \in live /\ \A j \in live : m <= j
    <3> HIDE DEF live
    <3>1. PICK i \in live : \A j \in live : i <= j
      BY <2>2, LeastNatural
    <3> QED
      BY <3>1 DEF Min
  <2> HIDE DEF m
  <2>4. m \in 1..Len(q) /\ q[m] # Null
    BY <1>1, <2>3
  <2> HIDE DEF line
  <2>5. /\ line \in Seq(Entries)
        /\ Len(line) = Len(q) - m + 1
        /\ \A i \in 1..Len(line) : line[i] = q[m + i - 1]
    <3>1. \A i \in m..Len(q) : q[i] \in Entries
      BY <1>1, <2>4
    <3>2. /\ SubSeq(q, m, Len(q)) \in Seq(Entries)
          /\ Len(SubSeq(q, m, Len(q))) = IF m <= Len(q) THEN Len(q) - m + 1 ELSE 0
          /\ \A i \in 1..(Len(q) - m + 1) : SubSeq(q, m, Len(q))[i] = q[m + i - 1]
      BY <1>1, <2>4, <3>1, SubSeqProperties
    <3> QED
      BY <1>1, <2>1, <2>4, <3>2
  <2>6. /\ DOMAIN line = 1..Len(line)
        /\ ToSet(line) = {line[i] : i \in 1..Len(line)}
    BY <2>5, LenProperties, ToSetOfSeq
  <2>7. ASSUME NEW i \in 1..Len(line)
        PROVE  m + i - 1 \in 1..Len(q) /\ line[i] = q[m + i - 1]
    BY <1>1, <2>4, <2>5
  <2>8. ASSUME NEW t \in Threads
        PROVE  t \in ToSet(line) <=> t \in ToSet(q)
    <3>1. t \in ToSet(line) => t \in ToSet(q)
      BY <1>1, <2>6, <2>7
    <3>2. ASSUME t \in ToSet(q)
          PROVE  t \in ToSet(line)
      <4>1. PICK j \in 1..Len(q) : q[j] = t
        BY <1>1, <3>2
      <4>2. m <= j
        BY <1>1, <1>2, <2>3, <4>1
      <4>3. j - m + 1 \in 1..Len(line) /\ m + (j - m + 1) - 1 = j
        BY <1>1, <2>4, <2>5, <4>1, <4>2
      <4> QED
        BY <2>6, <2>7, <4>1, <4>3
    <3> QED
      BY <3>1, <3>2
  <2>9. ASSUME NEW t \in Threads, Sole(q, t)
        PROVE  Sole(line, t)
    <3>1. ASSUME NEW i \in 1..Len(line), NEW j \in 1..Len(line), line[i] = t, line[j] = t
          PROVE  i = j
      <4>1. m + i - 1 = m + j - 1
        BY <1>1, <2>7, <2>9, <3>1 DEF Sole
      <4> QED
        BY <2>4, <4>1
    <3> QED
      BY <2>6, <3>1 DEF Sole
  <2>10. ASSUME line # <<>>
         PROVE  Head(line) \in Threads
    <3>1. 1 \in 1..Len(line) /\ Head(line) = line[1] /\ m + 1 - 1 = m
      BY <2>4, <2>5, <2>10, EmptySeq, HeadTailProperties
    <3> QED
      BY <1>1, <2>4, <2>7, <3>1 DEF Entries
  <2>11. Len(line) <= Len(q)
    BY <1>1, <2>4, <2>5
  <2> QED
    BY <2>5, <2>8, <2>9, <2>10, <2>11 DEF line
<1> QED
  BY <1>3, <1>4

\* Cancel takes away one thread at most, and nobody's place.
LEMMA CancelledKeeps ==
  ASSUME NEW q \in Seq(Entries), NEW t \in Threads
  PROVE  LET r == Cancelled(q, t) IN
         /\ r \in Seq(Entries)
         /\ \A u \in Threads \ {t} : u \in ToSet(r) <=> u \in ToSet(q)
         /\ t \in ToSet(r) => t \in ToSet(q)
         /\ \A u \in Threads : Sole(q, u) => Sole(r, u)
         /\ Len(r) = Len(q)
         /\ Len(q) # MaxWaiters => t \notin ToSet(r)
<1> DEFINE r == Cancelled(q, t)
<1>1. CASE Len(q) = MaxWaiters
  BY <1>1 DEF Cancelled
<1>2. CASE Len(q) # MaxWaiters
  <2>1. r = [i \in DOMAIN q |-> IF q[i] = t THEN Null ELSE q[i]]
    BY <1>2 DEF Cancelled
  <2>2. /\ Len(q) \in Nat /\ DOMAIN q = 1..Len(q)
        /\ ToSet(q) = {q[i] : i \in 1..Len(q)}
        /\ \A i \in 1..Len(q) : q[i] \in Entries
    BY LenProperties, ToSetOfSeq, ElementOfSeq
  <2>3. r \in [1..Len(q) -> Entries]
    BY <2>1, <2>2 DEF Entries
  <2>4. r \in Seq(Entries) /\ DOMAIN r = 1..Len(q)
    BY <2>2, <2>3, SeqDef
  <2>5. \A i \in 1..Len(q) : r[i] = IF q[i] = t THEN Null ELSE q[i]
    BY <2>1, <2>2
  <2> HIDE DEF r
  <2>6. ToSet(r) = {r[i] : i \in 1..Len(q)}
    BY <2>4 DEF ToSet
  <2>7. Null \notin Threads
    BY MutexAssumption
  <2>8. \A u \in Threads \ {t} : u \in ToSet(r) <=> u \in ToSet(q)
    BY <2>2, <2>5, <2>6, <2>7
  <2>9. t \in ToSet(r) => t \in ToSet(q)
    BY <2>2, <2>5, <2>6, <2>7
  <2>10. \A u \in Threads : Sole(q, u) => Sole(r, u)
    BY <2>2, <2>4, <2>5, <2>7 DEF Sole
  <2>11. Len(r) = Len(q)
    BY <2>2, <2>4, LenProperties
  <2>12. t \notin ToSet(r)
    BY <2>5, <2>6, <2>7
  <2> QED
    BY <2>4, <2>8, <2>9, <2>10, <2>11, <2>12 DEF r
<1> QED
  BY <1>1, <1>2

-----------------------------------------------------------------------------
(* The threads a step is not about.                                        *)

Same(u) ==
  /\ pc'[u] = pc[u]
  /\ owner' = u <=> owner = u
  /\ u \in ToSet(waiters') <=> u \in ToSet(waiters)
  /\ Sole(waiters, u) => Sole(waiters', u)
  /\ count = 1 /\ u \in ToSet(waiters) => count' = 1
  /\ u \in forgotten => u \in forgotten'

\* One of them that wakes up does so because its time is over.
LEMMA OthersKeep ==
  ASSUME IInv, NEW c, Spared(sched, sched', c), resumes' = 0 => resumes = 0,
         NEW u \in Threads \ {c}, Same(u)
  PROVE  Stands(u)'
<1>1. Placed(u) /\ (Undisturbed' => Undisturbed) /\ (Undisturbed => Entitled(u))
  BY DEF IInv, Stands, Undisturbed
<1>2. /\ sched'.wake[u] = sched.wake[u]
      /\ u \in sched'.suspended <=> u \in sched.suspended
      /\ u \in sched'.sleeping =>
           /\ u \in sched.sleeping
           /\ sched'.intr[u] = sched.intr[u] /\ sched'.writes[u] = sched.writes[u]
      /\ u \in sched'.sleeping \/ u \notin sched.sleeping => sched'.slot[u] = sched.slot[u]
      /\ u \in sched.sleeping /\ u \notin sched'.sleeping /\ sched.writes[u]
           /\ sched.slot[u] # NoSlot => sched'.slot[u] = 0
      /\ Dead(sched', u) <=> Dead(sched, u)
  BY DEF Spared
<1>3. Placed(u)'
  BY <1>1, <1>2 DEF Placed, Same, Blocked, Queued
<1>4. ASSUME Entitled(u)
      PROVE  Entitled(u)'
  <2>1. /\ sched'.wake[u] <= 1 /\ Sole(waiters', u)
        /\ Queued(u)' => Waiting(u)' /\ sched'.wake[u] = 0 /\ owner' # u
        /\ pc'[u] = "in" => owner' = u
    BY <1>2, <1>4 DEF Entitled, Same, Queued, Waiting
  <2>2. ASSUME Waiting(u)', ~Blocked(u)', ~Dead(sched', u), ~TimedOut(u)'
        PROVE  owner' = u
    <3>1. Waiting(u) /\ ~Dead(sched, u) /\ ~TimedOut(u)
      BY <1>1, <1>2, <2>2 DEF Same, Waiting, Blocked, TimedOut, Placed
    <3>2. ~Blocked(u)
      BY <1>1, <1>2, <2>2 DEF Same, Blocked, TimedOut, Placed
    <3> QED
      BY <1>4, <3>1, <3>2 DEF Entitled, Same
  <2> QED
    BY <2>1, <2>2 DEF Entitled
<1> QED
  BY <1>1, <1>3, <1>4 DEF Stands

-----------------------------------------------------------------------------
(* One lemma per action.                                                   *)

\* A thread that runs is alive and on no list.
LEMMA CurrentIsAwake ==
  ASSUME IInv, NEW t \in Threads, sched.current = t
  PROVE  ~Blocked(t) /\ ~Dead(sched, t)
BY DEF IInv, Sound, Settled, CurrentLives, Blocked, Dead

LEMMA SchedulerStep ==
  ASSUME IInv, Sound(sched'), Spared(sched, sched', NoThread),
         UNCHANGED <<count, owner, waiters, pc, halted, History>>
  PROVE  IInv'
<1>1. Typed'
  BY DEF IInv, Typed, History
<1>2. \A u \in Threads : Same(u) /\ u \in Threads \ {NoThread}
  BY ThreadAssumption DEF Same, History
<1>3. \A u \in Threads : Stands(u)'
  BY <1>2, OthersKeep DEF History
<1> QED
  BY <1>1, <1>3 DEF IInv

LEMMA AcquireTakesStep ==
  ASSUME IInv, NEW t \in Threads, AcquireTakes(t)
  PROVE  IInv'
<1>1. /\ sched.current = t /\ pc[t] = "out" /\ count = 0 /\ count' = 1 /\ owner' = t
      /\ pc' = [pc EXCEPT ![t] = "in"]
      /\ UNCHANGED <<sched, waiters, halted, History>>
  BY DEF AcquireTakes, Running
<1>2. Typed /\ Sound(sched) /\ owner = Null
  <2>1. Typed /\ Sound(sched)
    BY DEF IInv
  <2>2. count = IF owner = Null THEN 0 ELSE 1
    BY <2>1, Zenon DEF Typed
  <2> QED
    BY <1>1, <2>1, <2>2
<1>3. ~Blocked(t)
  BY <1>1, CurrentIsAwake
<1>4. Typed'
  BY <1>1, <1>2, MutexAssumption DEF Typed, History
<1>5. pc'[t] = "in" /\ \A u \in Threads \ {t} : pc'[u] = pc[u]
  BY <1>1, <1>2 DEF Typed
<1>6. ASSUME NEW u \in Threads \ {t}
      PROVE  Stands(u)'
  <2>1. Same(u)
    BY <1>1, <1>2, <1>5, MutexAssumption DEF Same, History
  <2>2. Spared(sched, sched', t)
    BY <1>1 DEF Spared
  <2> QED
    BY <1>1, <2>1, <2>2, OthersKeep DEF History
<1>7. Stands(t)'
  <2>1. Placed(t)'
    BY <1>1, <1>3 DEF Placed, Blocked
  <2>2. ASSUME Undisturbed' PROVE Entitled(t)'
    <3>1. Entitled(t)
      BY <1>1, <2>2 DEF IInv, Stands, Undisturbed, History
    <3> QED
      BY <1>1, <1>5, <3>1 DEF Entitled, Queued, Waiting
  <2> QED
    BY <2>1, <2>2 DEF Stands
<1> QED
  BY <1>1, <1>2, <1>4, <1>6, <1>7 DEF IInv

LEMMA AcquireHaltsStep ==
  ASSUME IInv, NEW t \in Threads, AcquireHalts(t)
  PROVE  IInv'
<1>1. halted' \in BOOLEAN /\ UNCHANGED <<sched, count, owner, waiters, pc, History>>
  BY DEF AcquireHalts
<1>2. Typed'
  BY <1>1 DEF IInv, Typed, History
<1>3. Spared(sched, sched', NoThread)
  BY <1>1 DEF Spared
<1>4. \A u \in Threads : Same(u) /\ u \in Threads \ {NoThread}
  BY <1>1, ThreadAssumption DEF Same, History
<1>5. \A u \in Threads : Stands(u)'
  BY <1>1, <1>3, <1>4, OthersKeep DEF History
<1> QED
  BY <1>1, <1>2, <1>5 DEF IInv

\* A thread lines up: only of its own place does the list say more.
LEMMA LinesUp ==
  ASSUME IInv, NEW t \in Threads, waiters' = Append(waiters, t), owner' = owner,
         count' = count, forgotten' = forgotten, NEW u \in Threads \ {t}, pc'[u] = pc[u]
  PROVE  Same(u)
<1>1. waiters \in Seq(Entries) /\ t \in Entries
  BY DEF IInv, Typed, Entries
<1>2. ToSet(Append(waiters, t)) = ToSet(waiters) \cup {t}
  BY <1>1, AppendAsSet
<1>3. Sole(waiters, u) => Sole(waiters', u)
  BY <1>1, AppendSole
<1> QED
  BY <1>2, <1>3 DEF Same

LEMMA AcquireSlipsStep ==
  ASSUME IInv, NEW t \in Threads, AcquireSlips(t)
  PROVE  IInv'
<1>1. /\ sched.current = t /\ pc[t] = "out" /\ StaysAwake(sched, t)
      /\ waiters' = Append(waiters, t) /\ sched' = UseWake(sched, t)
      /\ pc' = [pc EXCEPT ![t] = "in"]
      /\ UNCHANGED <<count, owner, halted, History>>
  BY DEF AcquireSlips, CanQueue, Running
<1>2. Typed /\ Sound(sched)
  BY DEF IInv
<1>3. /\ Sound(sched') /\ Spared(sched, sched', t)
      /\ sched'.suspended = sched.suspended /\ sched'.sleeping = sched.sleeping
      /\ sched'.wake[t] = IF sched.wake[t] > 0 THEN sched.wake[t] - 1 ELSE 0
  BY <1>1, <1>2, UseWakeSpares
<1>4. waiters' \in Seq(Threads \cup {Null})
  <2>1. waiters \in Seq(Threads \cup {Null}) /\ t \in Threads \cup {Null}
    BY <1>2 DEF Typed
  <2> QED
    BY <1>1, <2>1, AppendProperties
<1>5. Typed'
  BY <1>1, <1>2, <1>4 DEF Typed, History
<1>6. ~Blocked(t)'
  BY <1>1, <1>3, CurrentIsAwake DEF Blocked
<1>7. ASSUME NEW u \in Threads \ {t}
      PROVE  Stands(u)'
  <2>1. pc'[u] = pc[u]
    BY <1>1, <1>2 DEF Typed
  <2>2. Same(u)
    BY <1>1, <2>1, LinesUp DEF History
  <2> QED
    BY <1>1, <1>3, <2>2, OthersKeep DEF History
<1>8. ~Undisturbed'
  <2>1. sched'.wake[t] > 0
    BY <1>1 DEF StaysAwake
  <2>2. sched.wake[t] \in Nat
    BY <1>2 DEF Sound, SchedType
  <2>3. ~(sched.wake[t] <= 1)
    BY <1>3, <2>1, <2>2
  <2> QED
    BY <1>1, <2>3 DEF IInv, Stands, Entitled, Undisturbed, History
<1>9. Stands(t)'
  BY <1>6, <1>8 DEF Stands, Placed, Blocked
<1> QED
  BY <1>3, <1>5, <1>7, <1>9 DEF IInv

LEMMA AcquireBlocksStep ==
  ASSUME IInv, NEW t \in Threads, AcquireBlocks(t)
  PROVE  IInv'
<1>1. /\ sched.current = t /\ pc[t] = "out" /\ ~Free(t) /\ ~StaysAwake(sched, t)
      /\ waiters' = Append(waiters, t)
      /\ UNCHANGED <<count, owner, halted, History>>
      /\ \/ /\ sched' \in FakeTick(SuspendSelf(sched))
            /\ pc' = [pc EXCEPT ![t] = "wait"]
         \/ \E n \in Timeouts :
              /\ sched' \in FakeTick(TicksSleep(sched, t, n, TRUE))
              /\ pc' = [pc EXCEPT ![t] = "timed wait"]
  BY DEF AcquireBlocks, CanQueue, Running
<1>2. Typed /\ Sound(sched) /\ count = 1 /\ owner # t
  BY <1>1 DEF IInv, Typed, Free
<1>3. /\ waiters \in Seq(Entries) /\ t \in Entries
      /\ waiters' \in Seq(Entries) /\ t \in ToSet(waiters')
  <2>1. waiters \in Seq(Entries) /\ t \in Entries
    BY <1>2 DEF Typed, Entries
  <2>2. Append(waiters, t) \in Seq(Entries)
    BY <2>1, AppendProperties
  <2>3. ToSet(Append(waiters, t)) = ToSet(waiters) \cup {t}
    BY <2>1, AppendAsSet
  <2> QED
    BY <1>1, <2>1, <2>2, <2>3
<1>4. ASSUME Sound(sched'), Spared(sched, sched', t),
             NEW w \in {"wait", "timed wait"}, pc' = [pc EXCEPT ![t] = w],
             Placed(t)', Undisturbed' /\ Entitled(t) => Entitled(t)'
      PROVE  IInv'
  <2>1. Typed'
    BY <1>1, <1>2, <1>3, <1>4 DEF Typed, History, Entries
  <2>2. ASSUME NEW u \in Threads \ {t}
        PROVE  Stands(u)'
    <3>1. pc'[u] = pc[u]
      BY <1>2, <1>4 DEF Typed
    <3>2. Same(u)
      BY <1>1, <3>1, LinesUp DEF History
    <3> QED
      BY <1>1, <1>4, <3>2, OthersKeep DEF History
  <2>3. Undisturbed' => Entitled(t)
    BY <1>1 DEF IInv, Stands, Undisturbed, History
  <2> QED
    BY <1>4, <2>1, <2>2, <2>3 DEF IInv, Stands
<1>5. Entitled(t) => Sole(waiters', t)
  <2>1. ASSUME Entitled(t)
        PROVE  t \notin ToSet(waiters) /\ Sole(waiters, t)
    BY <1>1, <2>1 DEF Entitled, Queued, Waiting
  <2> QED
    BY <1>1, <1>3, <2>1, AppendSole
<1>6. CASE /\ sched' \in FakeTick(SuspendSelf(sched))
           /\ pc' = [pc EXCEPT ![t] = "wait"]
  <2>1. /\ Sound(sched') /\ Spared(sched, sched', t)
        /\ t \in sched'.suspended /\ sched'.wake[t] = 0
    BY <1>1, <1>2, <1>6, SuspendSelfBlocks
  <2>2. pc'[t] = "wait" /\ t \notin sched'.sleeping
    BY <1>2, <1>6, <2>1 DEF Typed, Sound, Settled, Disjoint
  <2>3. Placed(t)'
    BY <1>1, <1>2, <1>3, <2>1, <2>2 DEF Placed, Queued
  <2>4. Waiting(t)' /\ Blocked(t)' /\ owner' # t /\ pc'[t] # "in"
    BY <1>1, <1>2, <2>1, <2>2 DEF Blocked, Waiting
  <2>5. Entitled(t) => Entitled(t)'
    BY <1>5, <2>1, <2>4 DEF Entitled
  <2> QED
    BY <1>4, <1>6, <2>1, <2>3, <2>5
<1>7. CASE \E n \in Timeouts :
             /\ sched' \in FakeTick(TicksSleep(sched, t, n, TRUE))
             /\ pc' = [pc EXCEPT ![t] = "timed wait"]
  <2>1. PICK n \in Timeouts : /\ sched' \in FakeTick(TicksSleep(sched, t, n, TRUE))
                              /\ pc' = [pc EXCEPT ![t] = "timed wait"]
    BY <1>7
  <2>2. n \in Nat /\ n > 0
    BY MutexAssumption, ThreadAssumption
  <2>3. /\ Sound(sched') /\ Spared(sched, sched', t)
        /\ t \notin sched'.suspended /\ sched'.wake[t] = 0
        /\ t \in sched'.sleeping =>
             sched'.intr[t] /\ sched'.writes[t] /\ sched'.slot[t] # NoSlot
        /\ t \notin sched'.sleeping => sched'.slot[t] = 0
    <3>1. TRUE \in BOOLEAN
      OBVIOUS
    <3> QED
      BY <1>1, <1>2, <2>1, <2>2, <3>1, SleepSelfBlocks
  <2>4. pc'[t] = "timed wait"
    BY <1>2, <2>1 DEF Typed
  <2>5. Placed(t)'
    BY <1>1, <1>2, <1>3, <2>3, <2>4 DEF Placed, Queued
  <2>6. /\ Waiting(t)' /\ owner' # t /\ pc'[t] # "in"
        /\ Blocked(t)' \/ TimedOut(t)'
    BY <1>1, <1>2, <2>3, <2>4 DEF Blocked, Waiting, TimedOut
  <2>7. Entitled(t) => Entitled(t)'
    BY <1>5, <2>3, <2>6 DEF Entitled
  <2> QED
    BY <1>4, <2>1, <2>3, <2>5, <2>7
<1> QED
  BY <1>1, <1>6, <1>7

\* Acquire returns true to the thread that was given the mutex.  One whose time
\* was over may have been given it as well, and leaves it behind.
LEMMA AcquireReturnsStep ==
  ASSUME IInv, NEW t \in Threads, AcquireReturns(t)
  PROVE  IInv' /\ (pc'[t] = "in" \/ TimedOut(t))
<1>1. /\ sched.current = t /\ Waiting(t)
      /\ waiters' = IF TimedOut(t) THEN Without(waiters, t) ELSE waiters
      /\ pc' = [pc EXCEPT ![t] = IF TimedOut(t) THEN "out" ELSE "in"]
      /\ sched' = PopSlot(sched, t)
      /\ forgotten' = forgotten \ {t}
      /\ UNCHANGED <<count, owner, halted, resumes, cancels>>
  BY DEF AcquireReturns
<1>2. /\ Typed /\ Sound(sched) /\ Stands(t)
      /\ pc \in [Threads -> {"out", "in", "wait", "timed wait"}]
      /\ waiters \in Seq(Entries) /\ forgotten \subseteq Threads
  BY DEF IInv, Typed, Entries
<1>3. /\ Sound(sched') /\ Spared(sched, sched', t)
      /\ sched'.suspended = sched.suspended /\ sched'.sleeping = sched.sleeping
      /\ sched'.wake = sched.wake
  BY <1>1, <1>2, PopSlotSpares
<1>4. /\ waiters' \in Seq(Entries)
      /\ \A u \in Threads \ {t} : u \in ToSet(waiters') <=> u \in ToSet(waiters)
      /\ \A u \in Threads : Sole(waiters, u) => Sole(waiters', u)
      /\ Sole(waiters, t) /\ TimedOut(t) => t \notin ToSet(waiters')
      /\ ~TimedOut(t) => waiters' = waiters
  BY <1>1, <1>2, WithoutSole
<1>5. /\ pc' \in [Threads -> {"out", "in", "wait", "timed wait"}]
      /\ pc'[t] = (IF TimedOut(t) THEN "out" ELSE "in")
      /\ \A u \in Threads \ {t} : pc'[u] = pc[u]
  BY <1>1, <1>2
<1>6. Typed'
  BY <1>1, <1>2, <1>4, <1>5 DEF Typed, Entries
<1>7. ASSUME NEW u \in Threads \ {t}
      PROVE  Stands(u)'
  <2>1. Same(u)
    BY <1>1, <1>4, <1>5 DEF Same
  <2> QED
    BY <1>1, <1>3, <2>1, OthersKeep
<1>8. ~Blocked(t) /\ ~Dead(sched, t) /\ ~Blocked(t)'
  BY <1>1, <1>3, CurrentIsAwake DEF Blocked
<1>9. ASSUME Entitled(t)
      PROVE  Entitled(t)'
  <2>1. CASE TimedOut(t)
    <3>1. Sole(waiters', t) /\ t \notin ToSet(waiters')
      BY <1>4, <1>9, <2>1 DEF Entitled
    <3> QED
      BY <1>3, <1>5, <1>9, <2>1, <3>1 DEF Entitled, Queued, Waiting
  <2>2. CASE ~TimedOut(t)
    <3>1. owner = t /\ ~Queued(t)
      BY <1>1, <1>8, <1>9, <2>2 DEF Entitled
    <3> QED
      BY <1>1, <1>3, <1>4, <1>5, <1>9, <2>2, <3>1 DEF Entitled, Queued, Waiting
  <2> QED
    BY <2>1, <2>2
<1>10. Stands(t)'
  <2>1. Placed(t)'
    BY <1>8 DEF Placed, Blocked
  <2> QED
    BY <1>1, <1>2, <1>9, <2>1 DEF Stands, Undisturbed
<1> QED
  BY <1>3, <1>5, <1>6, <1>7, <1>10 DEF IInv

\* A release by the owner passes the mutex to the head of the line.
LEMMA HandOverStep ==
  ASSUME IInv, NEW t \in Threads, Release(t), owner = t,
         LiveTail(waiters) # <<>>
  PROVE  /\ IInv'
         /\ owner' \in Threads
         /\ Undisturbed => owner' # t /\ Waiting(owner')
<1> DEFINE line == LiveTail(waiters)
<1>1. /\ sched.current = t /\ pc[t] = "in" /\ pc' = [pc EXCEPT ![t] = "out"]
      /\ HandOver(line)
      /\ UNCHANGED <<halted, History>>
  BY DEF Release, Running
<1>2. /\ Typed /\ Sound(sched) /\ waiters \in Seq(Entries)
      /\ pc \in [Threads -> {"out", "in", "wait", "timed wait"}]
  BY DEF IInv, Typed, Entries
<1>3. /\ line \in Seq(Entries) /\ Head(line) \in Threads
      /\ \A u \in Threads : u \in ToSet(line) <=> u \in ToSet(waiters)
      /\ \A u \in Threads : Sole(waiters, u) => Sole(line, u)
  BY <1>2, LiveTailKeeps
<1> HIDE DEF line
<1>4. PICK h \in Threads : h = Head(line)
  BY <1>3
<1>5. /\ count' = 1 /\ owner' = h /\ waiters' = Tail(line)
      /\ sched' = Resume(sched, h, FALSE)
  BY <1>1, <1>4 DEF HandOver, line
<1>6. /\ h \in ToSet(line) /\ Tail(line) \in Seq(Entries)
      /\ ToSet(line) = ToSet(Tail(line)) \cup {h}
      /\ \A u : Sole(line, u) => Sole(Tail(line), u)
      /\ Sole(line, h) => h \notin ToSet(Tail(line))
  BY <1>3, <1>4, TailSole DEF line
<1>7. /\ Sound(sched') /\ Spared(sched, sched', h)
      /\ h \notin sched'.suspended \cup sched'.sleeping
      /\ sched'.suspended \subseteq sched.suspended
      /\ sched'.sleeping \subseteq sched.sleeping
      /\ sched'.wake[h] = sched.wake[h] + 1
  <2>1. h \in sched.sleeping => sched.intr[h]
    BY DEF IInv, Stands, Placed
  <2>2. FALSE \in BOOLEAN
    OBVIOUS
  <2> DEFINE r == Resume(sched, h, FALSE)
  <2>3. /\ Sound(r) /\ Spared(sched, r, h)
        /\ r.suspended = sched.suspended \ {h} /\ r.sleeping = sched.sleeping \ {h}
        /\ r.wake[h] = sched.wake[h] + 1
    BY <1>2, <2>1, <2>2, ResumeWakes
  <2> HIDE DEF r
  <2>4. sched' = r
    BY <1>5 DEF r
  <2> QED
    BY <2>3, <2>4
<1>8. Typed'
  BY <1>1, <1>2, <1>5, <1>6, MutexAssumption DEF Typed, History, Entries
<1>9. pc'[t] = "out" /\ \A u \in Threads \ {t} : pc'[u] = pc[u]
  BY <1>1, <1>2
<1>10. ASSUME NEW u \in Threads \ {t, h}
       PROVE  Stands(u)'
  <2>1. Same(u)
    BY <1>1, <1>3, <1>5, <1>6, <1>9 DEF Same, History
  <2> QED
    BY <1>1, <1>7, <2>1, OthersKeep DEF History
<1>11. ~Blocked(t)' /\ ~Blocked(h)'
  BY <1>1, <1>7, CurrentIsAwake DEF Blocked
<1>12. Placed(t)' /\ Placed(h)'
  BY <1>11 DEF Placed, Blocked
<1>13. ASSUME Undisturbed
       PROVE  t # h /\ Waiting(h) /\ Entitled(t)' /\ Entitled(h)'
  <2>1. Entitled(t) /\ Entitled(h)
    BY <1>13 DEF IInv, Stands
  <2>2. t # h /\ t \notin ToSet(line)
    BY <1>3, <1>6, <2>1 DEF Entitled, Queued
  <2>3. Waiting(h) /\ sched.wake[h] = 0
    BY <1>3, <1>6, <2>1 DEF Entitled, Queued
  <2>4. Entitled(t)'
    <3>1. sched'.wake[t] <= 1 /\ Sole(waiters', t) /\ t \notin ToSet(waiters')
      BY <1>3, <1>5, <1>6, <1>7, <2>1, <2>2 DEF Entitled, Spared
    <3> QED
      BY <1>9, <3>1 DEF Entitled, Queued, Waiting
  <2>5. Entitled(h)'
    <3>1. Sole(waiters', h) /\ h \notin ToSet(waiters')
      BY <1>3, <1>5, <1>6, <2>1 DEF Entitled
    <3>2. sched'.wake[h] <= 1
      BY <1>7, <2>3
    <3> QED
      BY <1>5, <3>1, <3>2 DEF Entitled, Queued
  <2> QED
    BY <2>2, <2>3, <2>4, <2>5
<1>14. Stands(t)' /\ Stands(h)'
  BY <1>1, <1>12, <1>13 DEF Stands, Undisturbed, History
<1> QED
  BY <1>5, <1>7, <1>8, <1>10, <1>13, <1>14 DEF IInv

\* A release with nobody in the line, or by a thread that is in and was never
\* given the mutex, wakes nobody.
LEMMA QuietReleaseStep ==
  ASSUME IInv, NEW t \in Threads, Release(t),
         owner = t => LiveTail(waiters) = <<>>
  PROVE  IInv' /\ owner' # t
<1>1. /\ sched.current = t /\ pc[t] = "in" /\ pc' = [pc EXCEPT ![t] = "out"]
      /\ \/ owner = t /\ count' = 0 /\ owner' = Null /\ waiters' = <<>>
         \/ owner # t /\ UNCHANGED <<count, owner, waiters>>
      /\ UNCHANGED <<sched, halted, History>>
  BY DEF Release, Running, HandOver, SetFree
<1>2. /\ Typed /\ Sound(sched) /\ waiters \in Seq(Entries)
      /\ pc \in [Threads -> {"out", "in", "wait", "timed wait"}]
  BY DEF IInv, Typed, Entries
<1>3. Null \notin Threads
  BY MutexAssumption
<1>4. pc'[t] = "out" /\ \A u \in Threads \ {t} : pc'[u] = pc[u]
  BY <1>1, <1>2
<1>5. Typed'
  <2>1. CASE owner = t
    <3>1. <<>> \in Seq(Threads \cup {Null}) /\ (halted' = halted /\ resumes' = resumes
            /\ cancels' = cancels /\ forgotten' = forgotten)
      BY <1>1 DEF History
    <3> QED
      BY <1>1, <1>2, <2>1, <3>1 DEF Typed
  <2>2. CASE owner # t
    BY <1>1, <1>2, <2>2 DEF Typed, History
  <2> QED
    BY <2>1, <2>2
<1>6. /\ \A u \in Threads : u \in ToSet(waiters') <=> u \in ToSet(waiters)
      /\ \A u \in Threads : Sole(waiters, u) => Sole(waiters', u)
  <2>1. CASE owner = t
    <3>1. \A u \in Threads : u \in ToSet(LiveTail(waiters)) <=> u \in ToSet(waiters)
      BY <1>2, LiveTailKeeps
    <3>2. LiveTail(waiters) = <<>> /\ waiters' = <<>> /\ DOMAIN <<>> = {}
      BY <1>1, <2>1
    <3> QED
      BY <3>1, <3>2 DEF Sole
  <2>2. CASE owner # t
    BY <1>1, <2>2
  <2> QED
    BY <2>1, <2>2
<1>7. ASSUME NEW u \in Threads \ {t}
      PROVE  Stands(u)'
  <2>1. u \in ToSet(waiters') => waiters' = waiters /\ count' = count
    BY <1>1 DEF ToSet
  <2>2. Same(u)
    BY <1>1, <1>3, <1>4, <1>6, <2>1 DEF Same, History
  <2>3. Spared(sched, sched', t)
    BY <1>1 DEF Spared
  <2> QED
    BY <1>1, <2>2, <2>3, OthersKeep DEF History
<1>8. Stands(t)'
  <2>1. Placed(t)'
    BY <1>1, CurrentIsAwake DEF Placed, Blocked
  <2>2. ASSUME Entitled(t), t \notin ToSet(waiters)
        PROVE  Entitled(t)'
    BY <1>1, <1>4, <1>6, <2>2 DEF Entitled, Queued, Waiting
  <2>3. Entitled(t) => t \notin ToSet(waiters)
    BY <1>1 DEF Entitled, Queued
  <2>4. Undisturbed' => Entitled(t)
    BY <1>1 DEF IInv, Stands, Undisturbed, History
  <2> QED
    BY <2>1, <2>2, <2>3, <2>4 DEF Stands
<1> QED
  BY <1>1, <1>2, <1>3, <1>5, <1>7, <1>8 DEF IInv

\* A thread that is finalized waits no longer, and nobody else is woken for it.
LEMMA FinalizeThreadStep ==
  ASSUME IInv, NEW c \in Threads, NEW t \in Threads, FinalizeThread(c, t)
  PROVE  IInv'
<1>1. /\ waiters' = IF Waiting(t) THEN Cancelled(waiters, t) ELSE waiters
      /\ sched' \in Finalize(sched, t)
      /\ forgotten' = forgotten \ {t}
      /\ UNCHANGED <<count, owner, pc, halted, resumes, cancels>>
  BY DEF FinalizeThread
<1>2. /\ Typed /\ Sound(sched) /\ waiters \in Seq(Entries) /\ forgotten \subseteq Threads
  BY DEF IInv, Typed, Entries
<1>3. /\ Sound(sched') /\ Spared(sched, sched', t)
      /\ t \notin sched'.suspended \cup sched'.sleeping
      /\ sched'.wake[t] = sched.wake[t] /\ Dead(sched', t)
  BY <1>1, <1>2, FinalizeSpares
<1>4. /\ waiters' \in Seq(Entries)
      /\ \A u \in Threads \ {t} : u \in ToSet(waiters') <=> u \in ToSet(waiters)
      /\ t \in ToSet(waiters') => t \in ToSet(waiters)
      /\ \A u \in Threads : Sole(waiters, u) => Sole(waiters', u)
  BY <1>1, <1>2, CancelledKeeps
<1>5. Typed'
  BY <1>1, <1>2, <1>4 DEF Typed, Entries
<1>6. ASSUME NEW u \in Threads \ {t}
      PROVE  Stands(u)'
  <2>1. Same(u)
    BY <1>1, <1>4 DEF Same
  <2> QED
    BY <1>1, <1>3, <2>1, OthersKeep
<1>7. Stands(t)'
  <2>1. Placed(t)'
    BY <1>3 DEF Placed, Blocked
  <2>2. Entitled(t) => Entitled(t)'
    BY <1>1, <1>3, <1>4 DEF Entitled, Queued, Waiting
  <2>3. Undisturbed' => Entitled(t)
    BY <1>1 DEF IInv, Stands, Undisturbed
  <2> QED
    BY <2>1, <2>2, <2>3 DEF Stands
<1> QED
  BY <1>3, <1>5, <1>6, <1>7 DEF IInv

LEMMA CancelThreadStep ==
  ASSUME IInv, NEW c \in Threads, NEW t \in Threads, CancelThread(c, t)
  PROVE  IInv'
<1>1. /\ cancels < MaxCancels /\ cancels' = cancels + 1
      /\ waiters' = Cancelled(waiters, t)
      /\ forgotten' = IF Blocked(t) /\ t \notin ToSet(waiters') THEN forgotten \cup {t}
                                                              ELSE forgotten
      /\ UNCHANGED <<sched, count, owner, pc, halted, resumes>>
  BY DEF CancelThread
<1>2. /\ Typed /\ Sound(sched) /\ waiters \in Seq(Entries)
  BY DEF IInv, Typed, Entries
<1>3. /\ waiters' \in Seq(Entries)
      /\ \A u \in Threads \ {t} : u \in ToSet(waiters') <=> u \in ToSet(waiters)
      /\ t \in ToSet(waiters') => t \in ToSet(waiters)
      /\ \A u \in Threads : Sole(waiters, u) => Sole(waiters', u)
  BY <1>1, <1>2, CancelledKeeps
<1>4. cancels' \in 0..MaxCancels
  <2>1. cancels \in 0..MaxCancels /\ MaxCancels \in Nat
    BY <1>2, MutexAssumption, Zenon DEF Typed
  <2> QED
    BY <1>1, <2>1
<1>5. forgotten' \subseteq Threads /\ forgotten \subseteq forgotten'
  BY <1>1, <1>2 DEF Typed
<1>6. Typed'
  BY <1>1, <1>2, <1>3, <1>4, <1>5 DEF Typed, Entries
<1>7. Spared(sched, sched', t)
  BY <1>1 DEF Spared
<1>8. ASSUME NEW u \in Threads \ {t}
      PROVE  Stands(u)'
  <2>1. Same(u)
    BY <1>1, <1>3, <1>5 DEF Same
  <2> QED
    BY <1>1, <1>7, <2>1, OthersKeep
<1>9. Stands(t)'
  <2>1. Placed(t) /\ (Undisturbed' => Entitled(t))
    BY <1>1 DEF IInv, Stands, Undisturbed
  <2>2. Blocked(t)' => t \in forgotten' \/ (count' = 1 /\ Queued(t)')
    BY <1>1, <1>5, <2>1 DEF Placed, Blocked, Queued
  <2>3. Placed(t)'
    BY <1>1, <2>1, <2>2 DEF Placed, Blocked
  <2>4. Entitled(t) => Entitled(t)'
    BY <1>1, <1>3 DEF Entitled, Queued, Waiting, Blocked, TimedOut
  <2> QED
    BY <2>1, <2>3, <2>4 DEF Stands
<1> QED
  BY <1>1, <1>2, <1>6, <1>8, <1>9 DEF IInv

\* From here on only Placed is left of what is said of the threads.
LEMMA ResumeThreadStep ==
  ASSUME IInv, NEW c \in Threads, NEW t \in Threads, ResumeThread(c, t)
  PROVE  IInv' /\ ~Undisturbed'
<1>1. /\ resumes < MaxResumes /\ resumes' = resumes + 1
      /\ sched' = Resume(sched, t, FALSE)
      /\ UNCHANGED <<count, owner, waiters, pc, halted, cancels, forgotten>>
  BY DEF ResumeThread
<1>2. Typed /\ Sound(sched) /\ Placed(t)
  BY DEF IInv, Stands
<1>3. resumes' \in 0..MaxResumes /\ resumes' # 0
  <2>1. resumes \in 0..MaxResumes /\ MaxResumes \in Nat
    BY <1>2, MutexAssumption, Zenon DEF Typed
  <2> QED
    BY <1>1, <2>1
<1>4. Typed'
  BY <1>1, <1>2, <1>3 DEF Typed
<1>5. /\ Sound(sched') /\ Spared(sched, sched', t)
      /\ sched'.suspended = sched.suspended \ {t} /\ sched'.sleeping = sched.sleeping \ {t}
  BY <1>1, <1>2, ResumeWakes DEF Placed
<1>6. ASSUME NEW u \in Threads \ {t}
      PROVE  Stands(u)'
  <2>1. Same(u)
    BY <1>1 DEF Same
  <2> QED
    BY <1>3, <1>5, <2>1, OthersKeep
<1>7. Stands(t)'
  BY <1>3, <1>5 DEF Stands, Placed, Blocked, Undisturbed
<1> QED
  BY <1>3, <1>4, <1>5, <1>6, <1>7 DEF IInv, Undisturbed

-----------------------------------------------------------------------------
(* The theorems.                                                           *)

LEMMA InitHolds ==
  ASSUME Init
  PROVE  IInv
<1>1. /\ sched \in StartedScheds /\ count = 0 /\ owner = Null /\ waiters = <<>>
      /\ pc = [t \in Threads |-> "out"] /\ halted = FALSE
      /\ resumes = 0 /\ cancels = 0 /\ forgotten = {}
  BY DEF Init
<1>2. /\ Sound(sched) /\ sched.suspended = {} /\ sched.sleeping = {}
      /\ \A t \in Threads : sched.wake[t] \in 0..1
  BY <1>1, StartedIsSound
<1>3. Null \notin Threads /\ MaxResumes \in Nat /\ MaxCancels \in Nat
  BY MutexAssumption
<1>4. Typed
  <2>1. <<>> \in Seq(Threads \cup {Null}) /\ 0 \in 0..MaxResumes /\ 0 \in 0..MaxCancels
    BY <1>3
  <2> QED
    BY <1>1, <2>1 DEF Typed
<1>5. ASSUME NEW t \in Threads
      PROVE  Stands(t)
  <2>1. /\ pc[t] = "out" /\ owner # t /\ ~Blocked(t) /\ sched.wake[t] <= 1
        /\ t \notin ToSet(waiters) /\ Sole(waiters, t)
    BY <1>1, <1>2, <1>3 DEF Blocked, ToSet, Sole
  <2> QED
    BY <2>1 DEF Stands, Placed, Entitled, Blocked, Queued, Waiting
<1> QED
  BY <1>2, <1>4, <1>5 DEF IInv

LEMMA QuietSteps ==
  ASSUME IInv,
         \/ ClockFires
         \/ TimerInterrupt
         \/ \E t \in Threads : YieldCPU(t)
  PROVE  IInv' /\ UNCHANGED <<owner, pc, halted>>
<1>1. Sound(sched) /\ UNCHANGED <<count, owner, waiters, pc, halted, History>>
  BY DEF IInv, ClockFires, TimerInterrupt, YieldCPU
<1>2. Sound(sched') /\ Spared(sched, sched', NoThread)
  <2>1. CASE ClockFires
    BY <1>1, <2>1, RaiseSpares DEF ClockFires
  <2>2. CASE TimerInterrupt
    BY <1>1, <2>2, SwitchSpares DEF TimerInterrupt
  <2>3. CASE \E t \in Threads : YieldCPU(t)
    BY <1>1, <2>3, SwitchSpares DEF YieldCPU
  <2> QED
    BY <2>1, <2>2, <2>3
<1> QED
  BY <1>1, <1>2, SchedulerStep

LEMMA StepHolds ==
  ASSUME IInv, [Next]_vars
  PROVE  IInv'
<1>1. ASSUME NEW t \in Threads, AcquireTakes(t)
      PROVE  IInv'
  BY <1>1, AcquireTakesStep
<1>2. ASSUME NEW t \in Threads, AcquireHalts(t)
      PROVE  IInv'
  BY <1>2, AcquireHaltsStep
<1>3. ASSUME NEW t \in Threads, AcquireSlips(t)
      PROVE  IInv'
  BY <1>3, AcquireSlipsStep
<1>4. ASSUME NEW t \in Threads, AcquireBlocks(t)
      PROVE  IInv'
  BY <1>4, AcquireBlocksStep
<1>5. ASSUME NEW t \in Threads, AcquireReturns(t)
      PROVE  IInv'
  BY <1>5, AcquireReturnsStep
<1>6. ASSUME NEW t \in Threads, Release(t)
      PROVE  IInv'
  BY <1>6, HandOverStep, QuietReleaseStep
<1>7. ASSUME NEW c \in Threads, NEW t \in Threads, FinalizeThread(c, t)
      PROVE  IInv'
  BY <1>7, FinalizeThreadStep
<1>8. ASSUME NEW c \in Threads, NEW t \in Threads, CancelThread(c, t)
      PROVE  IInv'
  BY <1>8, CancelThreadStep
<1>9. ASSUME NEW c \in Threads, NEW t \in Threads, ResumeThread(c, t)
      PROVE  IInv'
  BY <1>9, ResumeThreadStep
<1>10. CASE \/ ClockFires
            \/ TimerInterrupt
            \/ \E t \in Threads : YieldCPU(t)
  BY <1>10, QuietSteps
<1>11. CASE UNCHANGED vars
  <2>1. UNCHANGED <<sched, count, owner, waiters, pc, halted, History>>
    BY <1>11 DEF vars
  <2>2. Sound(sched') /\ Spared(sched, sched', NoThread)
    BY <2>1 DEF IInv, Spared
  <2> QED
    BY <2>1, <2>2, SchedulerStep
<1> QED
  BY <1>1, <1>2, <1>3, <1>4, <1>5, <1>6, <1>7, <1>8, <1>9, <1>10, <1>11 DEF Next

LEMMA Invariance == Spec => []IInv
<1>1. Init => IInv
  BY InitHolds
<1>2. IInv /\ [Next]_vars => IInv'
  BY StepHolds
<1> QED
  BY <1>1, <1>2, PTL DEF Spec

\* Whoever's Acquire returned true owns the mutex until it releases it, if no
\* waiter is resumed behind the mutex: whatever timeouts, deaths, cancelled
\* waits and preemptions come between (Mutex::Acquire, Release).
THEOREM Exclusion == Spec => []MutualExclusion
<1>1. IInv => MutualExclusion
  <2>1. ASSUME IInv, Undisturbed, NEW t \in Threads, pc[t] = "in"
        PROVE  owner = t /\ count = 1
    <3>1. owner = t
      BY <2>1 DEF IInv, Stands, Entitled
    <3>2. count = IF owner = Null THEN 0 ELSE 1
      BY <2>1, Zenon DEF IInv, Typed
    <3> QED
      BY <3>1, <3>2, MutexAssumption
  <2> QED
    BY <2>1 DEF MutualExclusion
<1> QED
  BY <1>1, Invariance, PTL

\* A thread blocked in Acquire is on the waiter list of a mutex that somebody
\* else holds, whatever any thread does to it, unless its wait was cancelled;
\* and the variables keep their types.
THEOREM NobodyStranded == Spec => []NobodyIsStranded
<1>1. IInv => NobodyIsStranded
  <2> SUFFICES ASSUME IInv PROVE NobodyIsStranded
    OBVIOUS
  <2>1. Sound(sched) /\ Typed
    BY DEF IInv
  <2>2. \A t \in Threads : Placed(t)
    BY DEF IInv, Stands
  <2>3. TypeOK
    <3>1. sched \in SchedType
      BY <2>1 DEF Sound
    <3>2. count = IF owner = Null THEN 0 ELSE 1
      BY <2>1, Zenon DEF Typed
    <3>3. count \in 0..1
      BY <3>2
    <3> QED
      BY <2>1, <3>1, <3>3, Zenon DEF Typed, TypeOK
  <2>4. OwnerIsAwake /\ NoOrphanedWaiter
    BY <2>2 DEF Placed, OwnerIsAwake, NoOrphanedWaiter
  <2> QED
    BY <2>3, <2>4 DEF NobodyIsStranded
<1> QED
  BY <1>1, Invariance, PTL

-----------------------------------------------------------------------------
(* Where the waiter queue has a place for every thread.                    *)

\* Whom the entries of the queue stand for, the cleared ones for the dead.
Spent == {t \in Threads : Queued(t) \/ Dead(sched, t)}

Calm == Undisturbed /\ cancels = 0

\* The queue has no more entries than that, and so has room when a thread that
\* runs finalizes another; and what is listed is alive.
Fits == Calm =>
  /\ Len(waiters) <= Cardinality(Spent)
  /\ \A t \in Threads : Queued(t) => ~Dead(sched, t)

\* Nobody is given the mutex who is dead.
ToTheLiving == Calm /\ owner' # owner /\ owner' # Null => ~Dead(sched', owner')

LEMMA SpentIsFinite ==
  /\ IsFiniteSet(Spent) /\ Cardinality(Spent) \in Nat
  /\ IsFiniteSet(Spent') /\ Cardinality(Spent') \in Nat
<1>1. Spent \in SUBSET Threads /\ Spent' \in SUBSET Threads /\ IsFiniteSet(Threads)
  BY ThreadAssumption DEF Spent
<1> QED
  BY <1>1, FS_Subset, FS_CardinalityType

\* A step that neither lists a thread nor brings one back
LEMMA FitsOn ==
  ASSUME Fits, Calm' => Calm, waiters \in Seq(Entries), waiters' \in Seq(Entries),
         Len(waiters') <= Len(waiters),
         Calm => \A u \in Threads : /\ Dead(sched, u) => Dead(sched', u)
                                    /\ Queued(u) => Queued(u)' \/ Dead(sched', u)
                                    /\ Queued(u)' => Queued(u) /\ ~Dead(sched', u)
  PROVE  Fits'
<1> SUFFICES ASSUME Calm'
             PROVE  /\ Len(waiters') <= Cardinality(Spent')
                    /\ \A t \in Threads : Queued(t)' => ~Dead(sched', t)
  BY DEF Fits
<1>1. Len(waiters) <= Cardinality(Spent)
  BY DEF Fits
<1>2. Spent \subseteq Spent'
  BY DEF Spent
<1>3. Cardinality(Spent) <= Cardinality(Spent')
  BY <1>2, SpentIsFinite, FS_Subset
<1>4. Len(waiters) \in Nat /\ Len(waiters') \in Nat
  BY LenProperties
<1> QED
  BY <1>1, <1>3, <1>4, SpentIsFinite

\* A thread that runs lines up.
LEMMA LiningUpFits ==
  ASSUME IInv, Fits, NEW t \in Threads, sched.current = t, pc[t] = "out",
         waiters' = Append(waiters, t), UNCHANGED <<owner, resumes, cancels>>,
         Spared(sched, sched', t), ~Dead(sched', t)
  PROVE  Fits'
<1> SUFFICES ASSUME Calm'
             PROVE  /\ Len(waiters') <= Cardinality(Spent')
                    /\ \A u \in Threads : Queued(u)' => ~Dead(sched', u)
  BY DEF Fits
<1>1. Calm /\ Entitled(t) /\ waiters \in Seq(Entries)
  BY DEF IInv, Stands, Typed, Entries, Calm, Undisturbed
<1>2. /\ Len(waiters) <= Cardinality(Spent)
      /\ \A u \in Threads : Queued(u) => ~Dead(sched, u)
  BY <1>1 DEF Fits
<1>3. t \notin Spent
  BY <1>1, CurrentIsAwake DEF Entitled, Waiting, Spent
<1>4. t \in Entries /\ ToSet(waiters') = ToSet(waiters) \cup {t}
      /\ Len(waiters') = Len(waiters) + 1 /\ Len(waiters) \in Nat
  BY <1>1, AppendAsSet, AppendProperties, LenProperties DEF Entries
<1>5. \A u \in Threads \ {t} : Dead(sched', u) <=> Dead(sched, u)
  BY DEF Spared
<1>6. Spent' = Spent \cup {t}
  BY <1>4, <1>5 DEF Spent, Queued
<1>7. Cardinality(Spent') = Cardinality(Spent) + 1
  BY <1>3, <1>6, SpentIsFinite, FS_AddElement
<1>8. Len(waiters') <= Cardinality(Spent')
  BY <1>2, <1>4, <1>7, SpentIsFinite
<1>9. \A u \in Threads : Queued(u)' => ~Dead(sched', u)
  BY <1>2, <1>4, <1>5 DEF Queued
<1> QED
  BY <1>8, <1>9

LEMMA AcquireBlocksFits ==
  ASSUME IInv, Fits, NEW t \in Threads, AcquireBlocks(t)
  PROVE  Fits'
<1>1. /\ sched.current = t /\ pc[t] = "out" /\ ~StaysAwake(sched, t)
      /\ waiters' = Append(waiters, t)
      /\ UNCHANGED <<count, owner, halted, History>>
      /\ \/ sched' \in FakeTick(SuspendSelf(sched))
         \/ \E n \in Timeouts : sched' \in FakeTick(TicksSleep(sched, t, n, TRUE))
  BY DEF AcquireBlocks, CanQueue, Running
<1>2. Sound(sched)
  BY DEF IInv
<1>3. Spared(sched, sched', t) /\ ~Dead(sched', t)
  <2>1. CASE sched' \in FakeTick(SuspendSelf(sched))
    <3>1. Sound(sched') /\ Spared(sched, sched', t) /\ t \in sched'.suspended
      BY <1>1, <1>2, <2>1, SuspendSelfBlocks
    <3> QED
      BY <3>1 DEF Sound, Settled, Told, Dead
  <2>2. CASE \E n \in Timeouts : sched' \in FakeTick(TicksSleep(sched, t, n, TRUE))
    <3>1. PICK n \in Timeouts : sched' \in FakeTick(TicksSleep(sched, t, n, TRUE))
      BY <2>2
    <3>2. n \in Nat /\ n > 0 /\ TRUE \in BOOLEAN
      BY MutexAssumption, ThreadAssumption
    <3> QED
      BY <1>1, <1>2, <3>1, <3>2, SleepSelfBlocks
  <2> QED
    BY <1>1, <2>1, <2>2
<1> QED
  BY <1>1, <1>3, LiningUpFits DEF History

\* One whose time is over takes its entry along.
LEMMA AcquireReturnsFits ==
  ASSUME IInv, Fits, NEW t \in Threads, AcquireReturns(t)
  PROVE  Fits'
<1> SUFFICES ASSUME Calm'
             PROVE  /\ Len(waiters') <= Cardinality(Spent')
                    /\ \A u \in Threads : Queued(u)' => ~Dead(sched', u)
  BY DEF Fits
<1>1. /\ sched.current = t /\ sched' = PopSlot(sched, t) /\ Calm
      /\ waiters' = IF TimedOut(t) THEN Without(waiters, t) ELSE waiters
  BY DEF AcquireReturns, Calm, Undisturbed
<1>2. Sound(sched) /\ waiters \in Seq(Entries) /\ Sole(waiters, t)
  BY <1>1 DEF IInv, Typed, Entries, Stands, Entitled, Calm
<1>3. Sound(sched') /\ Spared(sched, sched', t)
  BY <1>1, <1>2, PopSlotSpares
<1>4. ~Dead(sched, t) /\ ~Dead(sched', t)
  <2>1. sched'.current = t
    BY <1>1, <1>2 DEF PopSlot, Sound, SchedType
  <2> QED
    BY <1>1, <1>3, <2>1, CurrentIsAwake DEF Sound, Settled, CurrentLives, Dead
<1>5. \A u \in Threads : Dead(sched', u) <=> Dead(sched, u)
  BY <1>3, <1>4 DEF Spared
<1>6. /\ Len(waiters) <= Cardinality(Spent)
      /\ \A u \in Threads : Queued(u) => ~Dead(sched, u)
  BY <1>1 DEF Fits
<1>7. CASE TimedOut(t) /\ Queued(t)
  <2>1. /\ Len(waiters') = Len(waiters) - 1 /\ Len(waiters) \in Nat
        /\ \A u : u # t => (u \in ToSet(waiters') <=> u \in ToSet(waiters))
        /\ t \notin ToSet(waiters')
    BY <1>1, <1>2, <1>7, WithoutByIndex, WithoutSole, LenProperties DEF Queued
  <2>2. Spent' = Spent \ {t} /\ t \in Spent
    BY <1>4, <1>5, <1>7, <2>1 DEF Spent, Queued
  <2>3. Cardinality(Spent') = Cardinality(Spent) - 1
    BY <2>2, SpentIsFinite, FS_RemoveElement
  <2>4. Len(waiters') <= Cardinality(Spent')
    BY <1>6, <2>1, <2>3, SpentIsFinite
  <2>5. \A u \in Threads : Queued(u)' => ~Dead(sched', u)
    BY <1>5, <1>6, <2>1 DEF Queued
  <2> QED
    BY <2>4, <2>5
<1>8. CASE ~(TimedOut(t) /\ Queued(t))
  <2>1. waiters' = waiters
    BY <1>1, <1>8 DEF Without, Queued
  <2>2. Spent' = Spent
    BY <1>5, <2>1 DEF Spent, Queued
  <2> QED
    BY <1>5, <1>6, <2>1, <2>2 DEF Queued
<1> QED
  BY <1>7, <1>8

\* The head of the line is alive and leaves it.
LEMMA ReleaseFits ==
  ASSUME IInv, Fits, NEW t \in Threads, Release(t)
  PROVE  Fits' /\ ToTheLiving
<1> DEFINE line == LiveTail(waiters)
<1>1. waiters \in Seq(Entries) /\ Len(waiters) \in Nat /\ Sound(sched)
  BY LenProperties DEF IInv, Typed, Entries
<1>2. Calm' <=> Calm
  BY DEF Release, History, Calm, Undisturbed
<1>3. CASE owner = t /\ line # <<>>
  <2>1. HandOver(line)
    BY <1>3 DEF Release
  <2>2. /\ line \in Seq(Entries) /\ Head(line) \in Threads /\ Len(line) <= Len(waiters)
        /\ \A u \in Threads : u \in ToSet(line) <=> u \in ToSet(waiters)
        /\ \A u \in Threads : Sole(waiters, u) => Sole(line, u)
    BY <1>1, <1>3, LiveTailKeeps
  <2> HIDE DEF line
  <2>3. PICK h \in Threads : h = Head(line)
    BY <2>2
  <2>4. owner' = h /\ waiters' = Tail(line) /\ sched' = Resume(sched, h, FALSE)
    BY <1>3, <2>1, <2>3 DEF HandOver
  <2>5. /\ h \in ToSet(line) /\ Tail(line) \in Seq(Entries)
        /\ ToSet(line) = ToSet(Tail(line)) \cup {h}
        /\ Sole(line, h) => h \notin ToSet(Tail(line))
        /\ Len(Tail(line)) = Len(line) - 1 /\ Len(line) \in Nat
    BY <1>3, <2>2, <2>3, TailSole, HeadTailProperties, LenProperties
  <2>6. \A u \in Threads : Dead(sched', u) <=> Dead(sched, u)
    <3> DEFINE r == Resume(sched, h, FALSE)
    <3>1. h \in sched.sleeping => sched.intr[h]
      BY DEF IInv, Stands, Placed
    <3>2. FALSE \in BOOLEAN
      OBVIOUS
    <3>3. Spared(sched, r, h) /\ (Dead(r, h) <=> Dead(sched, h))
      BY <1>1, <3>1, <3>2, ResumeWakes
    <3> QED
      BY <2>4, <3>3 DEF Spared
  <2>7. ASSUME Calm
        PROVE  /\ ~Dead(sched', h) /\ Len(waiters') <= Cardinality(Spent')
               /\ \A u \in Threads : Queued(u)' => ~Dead(sched', u)
    <3>1. /\ Len(waiters) <= Cardinality(Spent)
          /\ \A u \in Threads : Queued(u) => ~Dead(sched, u)
      BY <2>7 DEF Fits
    <3>2. Sole(waiters, h)
      BY <2>7 DEF IInv, Stands, Entitled, Calm
    <3>3. h \in Spent /\ ~Dead(sched, h) /\ h \notin ToSet(waiters')
      BY <2>2, <2>4, <2>5, <3>1, <3>2 DEF Spent, Queued
    <3>4. Spent' = Spent \ {h}
      BY <2>2, <2>4, <2>5, <2>6, <3>3 DEF Spent, Queued
    <3>5. Cardinality(Spent') = Cardinality(Spent) - 1
      BY <3>3, <3>4, SpentIsFinite, FS_RemoveElement
    <3>6. Len(waiters') <= Cardinality(Spent')
      BY <1>1, <2>2, <2>4, <2>5, <3>1, <3>5, SpentIsFinite
    <3> QED
      BY <2>2, <2>4, <2>5, <2>6, <3>1, <3>3, <3>6 DEF Queued
  <2> QED
    BY <1>2, <2>4, <2>7 DEF Fits, ToTheLiving
<1>4. CASE owner = t /\ line = <<>>
  <2>1. waiters' = <<>> /\ owner' = Null /\ sched' = sched
    BY <1>4 DEF Release, HandOver, SetFree
  <2>2. \A u \in Threads : u \notin ToSet(waiters)
    <3>1. \A u \in Threads : u \in ToSet(line) <=> u \in ToSet(waiters)
      BY <1>1, LiveTailKeeps
    <3> QED
      BY <1>4, <3>1 DEF ToSet
  <2>3. waiters' \in Seq(Entries) /\ Len(waiters') <= Len(waiters)
    BY <1>1, <2>1
  <2>4. \A u \in Threads : ~Queued(u)' /\ ~Queued(u)
    BY <2>1, <2>2 DEF Queued, ToSet
  <2> QED
    BY <1>1, <1>2, <2>1, <2>3, <2>4, FitsOn DEF ToTheLiving
<1>5. CASE owner # t
  <2>1. UNCHANGED <<sched, owner, waiters>>
    BY <1>5 DEF Release
  <2> QED
    BY <1>2, <2>1 DEF Fits, ToTheLiving, Spent, Queued
<1> QED
  BY <1>3, <1>4, <1>5

\* Finalize clears the entry of the thread: there is room for one more, the
\* finalizing thread's own.
LEMMA FinalizeThreadFits ==
  ASSUME Cardinality(Threads) <= MaxWaiters, IInv, Fits,
         NEW c \in Threads, NEW t \in Threads, FinalizeThread(c, t)
  PROVE  Fits'
<1>1. /\ sched.current = c /\ ~Waiting(c) /\ sched' \in Finalize(sched, t)
      /\ waiters' = IF Waiting(t) THEN Cancelled(waiters, t) ELSE waiters
      /\ Calm' <=> Calm
  BY DEF FinalizeThread, Running, InterruptsOn, Calm, Undisturbed
<1>2. Sound(sched) /\ waiters \in Seq(Entries) /\ Len(waiters) \in Nat
  BY LenProperties DEF IInv, Typed, Entries
<1>3. Spared(sched, sched', t) /\ Dead(sched', t)
  BY <1>1, <1>2, FinalizeSpares
<1>4. /\ waiters' \in Seq(Entries) /\ Len(waiters') = Len(waiters)
      /\ \A u \in Threads \ {t} : u \in ToSet(waiters') <=> u \in ToSet(waiters)
      /\ Waiting(t) /\ Len(waiters) # MaxWaiters => t \notin ToSet(waiters')
      /\ ~Waiting(t) => waiters' = waiters
  BY <1>1, <1>2, CancelledKeeps
<1>5. ASSUME Calm
      PROVE  \A u \in Threads : /\ Dead(sched, u) => Dead(sched', u)
                                /\ Queued(u) => Queued(u)' \/ Dead(sched', u)
                                /\ Queued(u)' => Queued(u) /\ ~Dead(sched', u)
  <2>1. /\ Len(waiters) <= Cardinality(Spent)
        /\ \A u \in Threads : Queued(u) => ~Dead(sched, u)
    BY <1>5 DEF Fits
  <2>2. Entitled(c) /\ Entitled(t)
    BY <1>5 DEF IInv, Stands, Calm
  <2>3. c \notin Spent
    BY <1>1, <2>2, CurrentIsAwake DEF Spent, Entitled
  <2>4. Len(waiters) # MaxWaiters
    <3>1. Spent \in SUBSET (Threads \ {c})
      BY <2>3 DEF Spent
    <3>2. /\ IsFiniteSet(Threads \ {c}) /\ Cardinality(Threads) \in Nat
          /\ Cardinality(Threads \ {c}) = Cardinality(Threads) - 1
      BY ThreadAssumption, FS_RemoveElement, FS_CardinalityType
    <3>3. Cardinality(Spent) <= Cardinality(Threads) - 1
      BY <3>1, <3>2, FS_Subset
    <3> QED
      BY <1>2, <2>1, <3>2, <3>3, SpentIsFinite, MutexAssumption
  <2>5. ~Queued(t)'
    BY <1>4, <2>2, <2>4 DEF Entitled, Queued
  <2> QED
    BY <1>3, <1>4, <2>1, <2>5 DEF Spared, Queued
<1> QED
  BY <1>1, <1>2, <1>4, <1>5, FitsOn

\* Nobody dies or lines up.
LEMMA QuietFits ==
  ASSUME IInv, Fits, UNCHANGED <<owner, waiters, resumes, cancels>>,
         \A u \in Threads : Dead(sched', u) <=> Dead(sched, u)
  PROVE  Fits' /\ ToTheLiving
BY DEF Fits, ToTheLiving, Spent, Queued, Calm, Undisturbed

LEMMA StepFits ==
  ASSUME Cardinality(Threads) <= MaxWaiters, IInv, Fits, [Next]_vars
  PROVE  Fits' /\ ToTheLiving
<1>1. ASSUME NEW t \in Threads, AcquireTakes(t)
      PROVE  Fits' /\ ToTheLiving
  <2>1. /\ sched.current = t /\ owner' = t
        /\ UNCHANGED <<sched, waiters, resumes, cancels>>
    BY <1>1 DEF AcquireTakes, Running, History
  <2>2. ~Dead(sched', owner')
    BY <2>1, CurrentIsAwake
  <2> QED
    BY <2>1, <2>2 DEF Fits, ToTheLiving, Spent, Queued, Calm, Undisturbed
<1>2. ASSUME NEW t \in Threads, AcquireHalts(t)
      PROVE  Fits' /\ ToTheLiving
  BY <1>2, QuietFits DEF AcquireHalts, History
<1>3. ASSUME NEW t \in Threads, AcquireSlips(t)
      PROVE  Fits' /\ ToTheLiving
  <2>1. sched.current = t /\ StaysAwake(sched, t) /\ sched' = UseWake(sched, t)
        /\ UNCHANGED <<owner, resumes>>
    BY <1>3 DEF AcquireSlips, CanQueue, Running, History
  <2>2. Sound(sched) /\ sched.wake[t] \in Nat
    BY DEF IInv, Sound, SchedType
  <2>3. sched'.wake[t] = IF sched.wake[t] > 0 THEN sched.wake[t] - 1 ELSE 0
    BY <2>1, <2>2, UseWakeSpares
  <2>4. sched'.wake[t] > 0
    BY <2>1 DEF StaysAwake
  <2>5. ~(sched.wake[t] <= 1)
    BY <2>2, <2>3, <2>4
  <2>6. ~Undisturbed /\ ~Undisturbed'
    BY <2>1, <2>5 DEF IInv, Stands, Entitled, Undisturbed
  <2> QED
    BY <2>6 DEF Fits, ToTheLiving, Calm
<1>4. ASSUME NEW t \in Threads, AcquireBlocks(t)
      PROVE  Fits' /\ ToTheLiving
  BY <1>4, AcquireBlocksFits DEF AcquireBlocks, ToTheLiving
<1>5. ASSUME NEW t \in Threads, AcquireReturns(t)
      PROVE  Fits' /\ ToTheLiving
  BY <1>5, AcquireReturnsFits DEF AcquireReturns, ToTheLiving
<1>6. ASSUME NEW t \in Threads, Release(t)
      PROVE  Fits' /\ ToTheLiving
  BY <1>6, ReleaseFits
<1>7. ASSUME NEW c \in Threads, NEW t \in Threads, FinalizeThread(c, t)
      PROVE  Fits' /\ ToTheLiving
  BY <1>7, FinalizeThreadFits DEF FinalizeThread, ToTheLiving
<1>8. ASSUME NEW c \in Threads, NEW t \in Threads, CancelThread(c, t)
      PROVE  Fits' /\ ToTheLiving
  <2>1. cancels \in 0..MaxCancels /\ cancels' = cancels + 1 /\ owner' = owner
    BY <1>8, Zenon DEF CancelThread, IInv, Typed
  <2> QED
    BY <2>1 DEF Fits, ToTheLiving, Calm
<1>9. ASSUME NEW c \in Threads, NEW t \in Threads, ResumeThread(c, t)
      PROVE  Fits' /\ ToTheLiving
  <2>1. resumes \in 0..MaxResumes /\ resumes' = resumes + 1 /\ owner' = owner
    BY <1>9, Zenon DEF ResumeThread, IInv, Typed
  <2> QED
    BY <2>1 DEF Fits, ToTheLiving, Calm, Undisturbed
<1>10. CASE \/ ClockFires
            \/ TimerInterrupt
            \/ \E t \in Threads : YieldCPU(t)
  <2>1. UNCHANGED <<owner, waiters, resumes, cancels>>
    BY <1>10 DEF ClockFires, TimerInterrupt, YieldCPU, History
  <2>2. Sound(sched)
    BY DEF IInv
  <2>3. \A u \in Threads : Dead(sched', u) <=> Dead(sched, u)
    <3>1. CASE ClockFires
      BY <2>2, <3>1 DEF ClockFires, Raise, Dead, Sound, SchedType
    <3>2. CASE TimerInterrupt \/ \E t \in Threads : YieldCPU(t)
      <4>1. Spared(sched, sched', NoThread)
        BY <2>2, <3>2, SwitchSpares DEF TimerInterrupt, YieldCPU
      <4> QED
        BY <4>1, ThreadAssumption DEF Spared
    <3> QED
      BY <1>10, <3>1, <3>2
  <2> QED
    BY <2>1, <2>3, QuietFits
<1>11. CASE UNCHANGED vars
  BY <1>11, QuietFits DEF vars, History
<1> QED
  BY <1>1, <1>2, <1>3, <1>4, <1>5, <1>6, <1>7, <1>8, <1>9, <1>10, <1>11 DEF Next

\* A mutex whose queue has room for all threads is never handed to one that has
\* been finalized while it waited: Thread::Finalize cancels the wait, and Cancel's
\* ReplaceAll works on any queue but a full one.  (With more threads than
\* MAX_WAITERS the queue may be full, and then the entry stays.)
THEOREM NotGivenToTheDead ==
  ASSUME Cardinality(Threads) <= MaxWaiters
  PROVE  Spec => NotHandedToTheDead
<1>1. Init => Fits
  <2>1. ASSUME Init
        PROVE  waiters = <<>> /\ Len(waiters) = 0 /\ ToSet(waiters) = {}
    BY <2>1 DEF Init, ToSet
  <2> QED
    BY <2>1, SpentIsFinite DEF Fits, Queued
<1>2. IInv /\ Fits /\ [Next]_vars => Fits'
  BY StepFits
<1>3. IInv /\ Fits /\ [Next]_vars =>
        [Undisturbed /\ cancels = 0 /\ owner' # owner /\ owner' # Null =>
           ~Dead(sched', owner')]_vars
  BY StepFits DEF ToTheLiving, Calm
<1> QED
  BY <1>1, <1>2, <1>3, Invariance, PTL DEF Spec, NotHandedToTheDead

-----------------------------------------------------------------------------
(* The mutex implements a lock with a line.                                *)

\* The function Line is computed with
Filters(q, f) ==
  f = [n \in 0..Len(q) |->
         IF n = 0 THEN <<>>
         ELSE IF q[n] = Null THEN f[n - 1] ELSE Append(f[n - 1], q[n])]

\* There is one; Line is what it gives for the whole queue.
LEMMA LineExists ==
  ASSUME NEW q \in Seq(Entries)
  PROVE  \E f : Filters(q, f)
<1> DEFINE Upto(n, f) ==
             f = [k \in 0..n |->
                    IF k = 0 THEN <<>>
                    ELSE IF q[k] = Null THEN f[k - 1] ELSE Append(f[k - 1], q[k])]
           B == {n \in 0..Len(q) : \A f : ~Upto(n, f)}
<1>1. Len(q) \in Nat
  BY LenProperties
<1>2. SUFFICES ASSUME B # {} PROVE FALSE
  <2>1. Len(q) \in 0..Len(q)
    BY <1>1
  <2>2. ASSUME B = {} PROVE \E f : Upto(Len(q), f)
    BY <2>1, <2>2
  <2> QED
    BY <2>2 DEF Filters
<1>3. B \in SUBSET Nat /\ B # {}
  <2> HIDE DEF Upto
  <2> QED
    BY <1>1, <1>2
<1>4. PICK n \in B : \A m \in B : n <= m
  <2> HIDE DEF B
  <2> QED
    BY <1>3, LeastNatural
<1>5. CASE n = 0
  <2> DEFINE f == [k \in 0..0 |-> <<>>]
  <2>1. f = [k \in 0..0 |-> IF k = 0 THEN <<>>
               ELSE IF q[k] = Null THEN f[k - 1] ELSE Append(f[k - 1], q[k])]
    OBVIOUS
  <2> QED
    BY <1>4, <1>5, <2>1
<1>6. CASE n # 0
  <2>1. n - 1 \in 0..Len(q) /\ ~(n <= n - 1) /\ n \in 0..Len(q) /\ n \in Nat
    BY <1>1, <1>6
  <2>2. PICK g : Upto(n - 1, g)
    <3> HIDE DEF Upto
    <3> QED
      BY <1>4, <2>1
  <2> DEFINE f == [k \in 0..n |->
                     IF k = n THEN IF q[n] = Null THEN g[n - 1] ELSE Append(g[n - 1], q[n])
                     ELSE g[k]]
  <2>3. \A k \in 0..(n - 1) : f[k] = g[k]
    BY <2>1
  <2>4. \A k \in 0..(n - 1) : g[k] = IF k = 0 THEN <<>>
               ELSE IF q[k] = Null THEN g[k - 1] ELSE Append(g[k - 1], q[k])
    <3> HIDE DEF f
    <3> QED
      BY <2>2, Zenon
  <2>5. ASSUME NEW k \in 0..n
        PROVE  f[k] = IF k = 0 THEN <<>>
               ELSE IF q[k] = Null THEN f[k - 1] ELSE Append(f[k - 1], q[k])
    <3>1. CASE k = n
      <4>1. n - 1 \in 0..(n - 1) /\ k # 0
        BY <1>6, <2>1, <3>1
      <4>2. f[n] = IF q[n] = Null THEN g[n - 1] ELSE Append(g[n - 1], q[n])
        BY <2>1
      <4> QED
        BY <2>3, <3>1, <4>1, <4>2
    <3>2. CASE k # n /\ k # 0
      <4>1. k \in 0..(n - 1) /\ k - 1 \in 0..(n - 1)
        BY <2>1, <3>2
      <4> HIDE DEF f
      <4>2. f[k] = g[k] /\ f[k - 1] = g[k - 1]
        BY <2>3, <4>1
      <4> QED
        BY <2>4, <3>2, <4>1, <4>2
    <3>3. CASE k # n /\ k = 0
      <4>1. k \in 0..(n - 1)
        BY <2>1, <3>3
      <4> QED
        BY <2>3, <2>4, <3>3, <4>1
    <3> QED
      BY <3>1, <3>2, <3>3
  <2>6. f = [k \in 0..n |-> IF k = 0 THEN <<>>
               ELSE IF q[k] = Null THEN f[k - 1] ELSE Append(f[k - 1], q[k])]
    <3>1. f = [k \in 0..n |-> f[k]]
      OBVIOUS
    <3> HIDE DEF f
    <3> QED
      BY <2>5, <3>1
  <2> HIDE DEF f
  <2>7. Upto(n, f)
    BY <2>6
  <2> QED
    BY <1>4, <2>1, <2>7
<1> QED
  BY <1>5, <1>6

\* What of the line the first n entries give.
LineTo(q) == CHOOSE f : Filters(q, f)

LEMMA LineSteps ==
  ASSUME NEW q \in Seq(Entries)
  PROVE  /\ Line(q) = LineTo(q)[Len(q)]
         /\ LineTo(q)[0] = <<>>
         /\ \A n \in 1..Len(q) :
              LineTo(q)[n] = IF q[n] = Null THEN LineTo(q)[n - 1]
                                            ELSE Append(LineTo(q)[n - 1], q[n])
<1> DEFINE f == LineTo(q)
<1>1. Line(q) = LineTo(q)[Len(q)]
  BY Zenon DEF Line, LineTo, Filters
<1>2. Filters(q, f)
  BY LineExists DEF LineTo
<1>3. Len(q) \in Nat
  BY LenProperties
<1> HIDE DEF f
<1>4. ASSUME NEW n \in 0..Len(q)
      PROVE  f[n] = IF n = 0 THEN <<>>
                    ELSE IF q[n] = Null THEN f[n - 1] ELSE Append(f[n - 1], q[n])
  BY <1>2, Zenon DEF Filters
<1>5. f[0] = <<>>
  BY <1>3, <1>4
<1>6. ASSUME NEW n \in 1..Len(q)
      PROVE  f[n] = IF q[n] = Null THEN f[n - 1] ELSE Append(f[n - 1], q[n])
  <2>1. n \in 0..Len(q) /\ n # 0
    BY <1>3
  <2> QED
    BY <1>4, <2>1, Zenon
<1> QED
  BY <1>1, <1>5, <1>6 DEF f

LEMMA LineTyped ==
  ASSUME NEW q \in Seq(Entries)
  PROVE  /\ \A n \in 0..Len(q) : LineTo(q)[n] \in Seq(Threads)
         /\ Line(q) \in Seq(Threads)
<1> DEFINE f == LineTo(q)
           B == {n \in 0..Len(q) : f[n] \notin Seq(Threads)}
<1>1. Len(q) \in Nat
  BY LenProperties
<1>2. /\ Line(q) = f[Len(q)] /\ f[0] = <<>>
      /\ \A n \in 1..Len(q) :
           f[n] = IF q[n] = Null THEN f[n - 1] ELSE Append(f[n - 1], q[n])
  BY LineSteps
<1> HIDE DEF f
<1>3. B = {}
  <2> SUFFICES ASSUME B # {} PROVE FALSE
    OBVIOUS
  <2>1. B \in SUBSET Nat
    BY <1>1
  <2>2. PICK n \in B : \A m \in B : n <= m
    <3> HIDE DEF B
    <3> QED
      BY <2>1, LeastNatural
  <2>3. n # 0
    BY <1>2, EmptySeq
  <2>4. n - 1 \in 0..Len(q) /\ ~(n <= n - 1) /\ n \in 1..Len(q)
    BY <1>1, <2>3
  <2>5. f[n - 1] \in Seq(Threads)
    BY <2>2, <2>4
  <2>6. q[n] # Null => q[n] \in Threads
    BY <2>4, ElementOfSeq DEF Entries
  <2>7. f[n] \in Seq(Threads)
    BY <1>2, <2>4, <2>5, <2>6, AppendProperties
  <2> QED
    BY <2>7
<1> QED
  BY <1>1, <1>2, <1>3 DEF f

\* Queues that agree up to an entry give the same line up to there.
LEMMA LineAgrees ==
  ASSUME NEW q \in Seq(Entries), NEW r \in Seq(Entries), NEW m \in Nat,
         m <= Len(q), m <= Len(r), \A i \in 1..m : q[i] = r[i]
  PROVE  LineTo(q)[m] = LineTo(r)[m]
<1> DEFINE f == LineTo(q)
           g == LineTo(r)
           B == {n \in 0..m : f[n] # g[n]}
<1>1. Len(q) \in Nat /\ Len(r) \in Nat
  BY LenProperties
<1>2. /\ f[0] = <<>>
      /\ \A n \in 1..Len(q) :
           f[n] = IF q[n] = Null THEN f[n - 1] ELSE Append(f[n - 1], q[n])
  BY LineSteps
<1>3. /\ g[0] = <<>>
      /\ \A n \in 1..Len(r) :
           g[n] = IF r[n] = Null THEN g[n - 1] ELSE Append(g[n - 1], r[n])
  BY LineSteps
<1> HIDE DEF f, g
<1>4. B = {}
  <2> SUFFICES ASSUME B # {} PROVE FALSE
    OBVIOUS
  <2>1. B \in SUBSET Nat
    OBVIOUS
  <2>2. PICK n \in B : \A k \in B : n <= k
    <3> HIDE DEF B
    <3> QED
      BY <2>1, LeastNatural
  <2>3. n # 0
    BY <1>2, <1>3
  <2>4. n - 1 \in 0..m /\ ~(n <= n - 1) /\ n \in 1..m /\ n \in 1..Len(q) /\ n \in 1..Len(r)
    BY <1>1, <2>3
  <2>5. f[n - 1] = g[n - 1] /\ q[n] = r[n]
    BY <2>2, <2>4
  <2>6. f[n] = g[n]
    BY <1>2, <1>3, <2>4, <2>5
  <2> QED
    BY <2>6
<1>5. m \in 0..m
  OBVIOUS
<1> QED
  BY <1>4, <1>5 DEF f, g

LEMMA LineOfAppend ==
  ASSUME NEW q \in Seq(Entries), NEW x \in Entries
  PROVE  Line(Append(q, x)) = IF x = Null THEN Line(q) ELSE Append(Line(q), x)
<1> DEFINE r == Append(q, x)
<1>1. /\ r \in Seq(Entries) /\ Len(r) = Len(q) + 1 /\ Len(q) \in Nat
      /\ \A i \in 1..Len(q) : r[i] = q[i]
      /\ r[Len(q) + 1] = x
  BY AppendProperties, LenProperties
<1> HIDE DEF r
<1>2. LineTo(r)[Len(q)] = LineTo(q)[Len(q)]
  BY <1>1, LineAgrees
<1>3. Line(q) = LineTo(q)[Len(q)]
  BY LineSteps
<1>4. /\ Line(r) = LineTo(r)[Len(q) + 1]
      /\ LineTo(r)[Len(q) + 1] = IF r[Len(q) + 1] = Null THEN LineTo(r)[(Len(q) + 1) - 1]
                                 ELSE Append(LineTo(r)[(Len(q) + 1) - 1], r[Len(q) + 1])
  <2>1. Len(q) + 1 \in 1..Len(r)
    BY <1>1
  <2> QED
    BY <1>1, <2>1, LineSteps
<1>5. (Len(q) + 1) - 1 = Len(q)
  BY <1>1
<1> QED
  BY <1>1, <1>2, <1>3, <1>4, <1>5 DEF r

LEMMA LineOfEmpty == Line(<<>>) = <<>>
BY EmptySeq, LineSteps

\* A queue one entry shorter: of the queues for which a formula fails the
\* shortest has none.
LEMMA LastFirst ==
  ASSUME NEW q \in Seq(Entries), q # <<>>
  PROVE  \E p \in Seq(Entries), x \in Entries : q = Append(p, x) /\ Len(p) = Len(q) - 1
<1>1. PICK p \in Seq(Entries), x \in Entries : q = Append(p, x)
  BY SequenceEmptyOrAppend
<1>2. Len(q) = Len(p) + 1 /\ Len(p) \in Nat
  BY <1>1, AppendProperties, LenProperties
<1> QED
  BY <1>1, <1>2

\* Appending to the second of two queues, or of two lines
LEMMA AppendToConcat ==
  \A p, q \in Seq(Entries), x \in Entries :
    p \o q \in Seq(Entries) /\ Append(p \o q, x) = p \o Append(q, x)
<1> TAKE p, q \in Seq(Entries), x \in Entries
<1>1. <<x>> \in Seq(Entries)
  OBVIOUS
<1>2. p \o q \in Seq(Entries)
  BY ConcatProperties
<1>3. \A r \in Seq(Entries) : (p \o q) \o r = p \o (q \o r)
  BY ConcatAssociative
<1>4. (p \o q) \o <<x>> = p \o (q \o <<x>>)
  BY <1>1, <1>3
<1>5. Append(p \o q, x) = (p \o q) \o <<x>> /\ Append(q, x) = q \o <<x>>
  BY <1>2, AppendIsConcat
<1> QED
  BY <1>2, <1>4, <1>5

LEMMA AppendToLine ==
  \A p, q \in Seq(Threads), x \in Threads :
    p \o q \in Seq(Threads) /\ Append(p \o q, x) = p \o Append(q, x)
<1> TAKE p, q \in Seq(Threads), x \in Threads
<1>1. <<x>> \in Seq(Threads)
  OBVIOUS
<1>2. p \o q \in Seq(Threads)
  BY ConcatProperties
<1>3. \A r \in Seq(Threads) : (p \o q) \o r = p \o (q \o r)
  BY ConcatAssociative
<1>4. (p \o q) \o <<x>> = p \o (q \o <<x>>)
  BY <1>1, <1>3
<1>5. Append(p \o q, x) = (p \o q) \o <<x>> /\ Append(q, x) = q \o <<x>>
  BY <1>2, AppendIsConcat
<1> QED
  BY <1>2, <1>4, <1>5

LEMMA LineOfConcat ==
  ASSUME NEW q \in Seq(Entries), NEW r \in Seq(Entries)
  PROVE  Line(q \o r) = Line(q) \o Line(r)
<1> DEFINE B == {n \in Nat : \E s \in Seq(Entries) :
                   Len(s) = n /\ Line(q \o s) # Line(q) \o Line(s)}
<1>1. B = {}
  <2> SUFFICES ASSUME B # {} PROVE FALSE
    OBVIOUS
  <2>1. B \in SUBSET Nat
    OBVIOUS
  <2>2. PICK n \in B : \A m \in B : n <= m
    <3> HIDE DEF B
    <3> QED
      BY <2>1, LeastNatural
  <2>3. PICK s \in Seq(Entries) : Len(s) = n /\ Line(q \o s) # Line(q) \o Line(s)
    BY <2>2
  <2>4. Line(q) \in Seq(Threads)
    BY LineTyped
  <2>5. s # <<>>
    <3>1. q \o <<>> = q /\ Line(q) \o <<>> = Line(q)
      BY <2>4, ConcatEmptySeq
    <3> QED
      BY <2>3, <3>1, LineOfEmpty
  <2>6. PICK p \in Seq(Entries), x \in Entries : s = Append(p, x) /\ Len(p) = Len(s) - 1
    BY <2>5, LastFirst
  <2>7. Line(q \o p) = Line(q) \o Line(p)
    <3>1. Len(p) \in Nat /\ ~(n <= Len(p))
      BY <2>3, <2>6, LenProperties
    <3>2. Len(p) \notin B
      BY <2>2, <3>1
    <3> QED
      BY <3>1, <3>2
  <2>8. q \o s = Append(q \o p, x) /\ q \o p \in Seq(Entries)
    <3> HIDE DEF B
    <3>1. q \o p \in Seq(Entries) /\ Append(q \o p, x) = q \o Append(p, x)
      BY AppendToConcat
    <3> QED
      BY <2>6, <3>1
  <2>9. Line(p) \in Seq(Threads) /\ Line(q) \o Line(p) \in Seq(Threads)
    BY <2>4, LineTyped, ConcatProperties
  <2>10. CASE x = Null
    BY <2>3, <2>6, <2>7, <2>8, <2>10, LineOfAppend
  <2>11. CASE x # Null
    <3>1. x \in Threads
      BY <2>11 DEF Entries
    <3>2. Line(q \o s) = Append(Line(q) \o Line(p), x)
      BY <2>7, <2>8, <2>11, LineOfAppend
    <3>3. Line(s) = Append(Line(p), x)
      BY <2>6, <2>11, LineOfAppend
    <3>4. Append(Line(q) \o Line(p), x) = Line(q) \o Append(Line(p), x)
      BY <2>4, <2>9, <3>1, AppendToLine, Zenon
    <3> QED
      BY <2>3, <3>2, <3>3, <3>4
  <2> QED
    BY <2>10, <2>11
<1>2. Len(r) \in Nat
  BY LenProperties
<1> QED
  BY <1>1, <1>2

LEMMA LineAsSet ==
  ASSUME NEW q \in Seq(Entries), NEW t \in Threads
  PROVE  t \in ToSet(Line(q)) <=> t \in ToSet(q)
<1> DEFINE B == {n \in Nat : \E s \in Seq(Entries) :
                   Len(s) = n /\ ~(t \in ToSet(Line(s)) <=> t \in ToSet(s))}
<1>1. B = {}
  <2> SUFFICES ASSUME B # {} PROVE FALSE
    OBVIOUS
  <2>1. B \in SUBSET Nat
    OBVIOUS
  <2>2. PICK n \in B : \A m \in B : n <= m
    <3> HIDE DEF B
    <3> QED
      BY <2>1, LeastNatural
  <2>3. PICK s \in Seq(Entries) : Len(s) = n /\ ~(t \in ToSet(Line(s)) <=> t \in ToSet(s))
    BY <2>2
  <2>4. s # <<>>
    BY <2>3, LineOfEmpty
  <2>5. PICK p \in Seq(Entries), x \in Entries : s = Append(p, x) /\ Len(p) = Len(s) - 1
    BY <2>4, LastFirst
  <2>6. t \in ToSet(Line(p)) <=> t \in ToSet(p)
    <3>1. Len(p) \in Nat /\ ~(n <= Len(p))
      BY <2>3, <2>5, LenProperties
    <3>2. Len(p) \notin B
      BY <2>2, <3>1
    <3> QED
      BY <3>1, <3>2
  <2>7. Line(p) \in Seq(Threads) /\ Null \notin Threads
    BY LineTyped, MutexAssumption
  <2>8. ToSet(s) = ToSet(p) \cup {x}
    BY <2>5, AppendAsSet
  <2>9. CASE x = Null
    BY <2>3, <2>5, <2>6, <2>7, <2>8, <2>9, LineOfAppend
  <2>10. CASE x # Null
    <3>1. x \in Threads /\ Line(s) = Append(Line(p), x)
      BY <2>5, <2>10, LineOfAppend DEF Entries
    <3>2. ToSet(Line(s)) = ToSet(Line(p)) \cup {x}
      BY <2>7, <3>1, AppendAsSet
    <3> QED
      BY <2>3, <2>6, <2>8, <3>2
  <2> QED
    BY <2>9, <2>10
<1>2. Len(q) \in Nat
  BY LenProperties
<1> QED
  BY <1>1, <1>2

\* A queue with nobody on it gives an empty line.
LEMMA LineOfNobody ==
  ASSUME NEW q \in Seq(Entries), \A t \in Threads : t \notin ToSet(q)
  PROVE  Line(q) = <<>>
<1>1. Line(q) \in Seq(Threads)
  BY LineTyped
<1>2. \A t \in Threads : t \notin ToSet(Line(q))
  BY LineAsSet
<1>3. ASSUME Line(q) # <<>>
      PROVE  FALSE
  BY <1>1, <1>2, <1>3, TailSole
<1> QED
  BY <1>3

\* A queue around one of its entries
Around(q, k, a, b) ==
  /\ q \in Seq(Entries) /\ a \in Seq(Entries) /\ b \in Seq(Entries)
  /\ k \in 1..Len(q) /\ Len(a) = k - 1 /\ Len(b) = Len(q) - k
  /\ \A i \in 1..(k - 1) : a[i] = q[i]
  /\ \A i \in 1..(Len(q) - k) : b[i] = q[k + i]

LEMMA Split ==
  ASSUME NEW q \in Seq(Entries), NEW k \in 1..Len(q)
  PROVE  \E a, b : Around(q, k, a, b)
<1> DEFINE a == [i \in 1..(k - 1) |-> q[i]]
           b == [i \in 1..(Len(q) - k) |-> q[k + i]]
<1>1. Len(q) \in Nat /\ \A i \in 1..Len(q) : q[i] \in Entries
  BY LenProperties, ElementOfSeq
<1>2. k - 1 \in Nat /\ a \in [1..(k - 1) -> Entries]
  BY <1>1
<1>3. Len(q) - k \in Nat /\ b \in [1..(Len(q) - k) -> Entries]
  <2>1. \A i \in 1..(Len(q) - k) : k + i \in 1..Len(q)
    BY <1>1
  <2> QED
    BY <1>1, <2>1
<1>4. \A i \in 1..(k - 1) : a[i] = q[i]
  OBVIOUS
<1>5. \A i \in 1..(Len(q) - k) : b[i] = q[k + i]
  OBVIOUS
<1> HIDE DEF a, b
<1>6. a \in Seq(Entries) /\ Len(a) = k - 1
  BY <1>2, SeqDef
<1>7. b \in Seq(Entries) /\ Len(b) = Len(q) - k
  BY <1>3, SeqDef
<1> QED
  BY <1>4, <1>5, <1>6, <1>7, Zenon DEF Around

\* s is the queue a, the entry x and the queue b.
Joined(s, a, x, b) ==
  /\ s \in Seq(Entries) /\ Len(s) = Len(a) + Len(b) + 1
  /\ \A i \in 1..(Len(a) + Len(b) + 1) :
       s[i] = IF i <= Len(a) THEN a[i]
              ELSE IF i = Len(a) + 1 THEN x ELSE b[i - (Len(a) + 1)]

LEMMA ByIndex ==
  ASSUME NEW a \in Seq(Entries), NEW x \in Entries, NEW b \in Seq(Entries)
  PROVE  Joined(Append(a, x) \o b, a, x, b)
<1> DEFINE c == Append(a, x)
<1>1. /\ c \in Seq(Entries) /\ Len(c) = Len(a) + 1 /\ \A i \in 1..Len(a) : c[i] = a[i]
      /\ c[Len(a) + 1] = x
  BY AppendProperties
<1> HIDE DEF c
<1>2. Len(a) \in Nat /\ Len(b) \in Nat
  BY LenProperties
<1>3. /\ c \o b \in Seq(Entries) /\ Len(c \o b) = Len(c) + Len(b)
      /\ \A i \in 1..(Len(c) + Len(b)) :
           (c \o b)[i] = IF i <= Len(c) THEN c[i] ELSE b[i - Len(c)]
  BY <1>1, ConcatProperties
<1>4. ASSUME NEW i \in 1..(Len(a) + Len(b) + 1)
      PROVE  (c \o b)[i] = IF i <= Len(a) THEN a[i]
                           ELSE IF i = Len(a) + 1 THEN x ELSE b[i - (Len(a) + 1)]
  <2>1. i \in 1..(Len(c) + Len(b))
    BY <1>1, <1>2
  <2>2. (c \o b)[i] = IF i <= Len(c) THEN c[i] ELSE b[i - Len(c)]
    BY <1>3, <2>1
  <2>3. CASE i <= Len(a)
    BY <1>1, <1>2, <2>2, <2>3
  <2>4. CASE i = Len(a) + 1
    BY <1>1, <1>2, <2>2, <2>4
  <2>5. CASE ~(i <= Len(a)) /\ i # Len(a) + 1
    BY <1>1, <1>2, <2>2, <2>5
  <2> QED
    BY <2>3, <2>4, <2>5
<1>5. Len(c \o b) = Len(a) + Len(b) + 1
  BY <1>1, <1>2, <1>3
<1> QED
  BY <1>1, <1>3, <1>4, <1>5 DEF Joined, c

\* One thread gives up its place in the line s.
GivenUp(s, r) ==
  \E i \in DOMAIN s : r = SubSeq(s, 1, i - 1) \o SubSeq(s, i + 1, Len(s))

LEMMA CutOut ==
  \A a, b \in Seq(Entries), t \in Entries : GivenUp(Append(a, t) \o b, a \o b)
<1> TAKE a, b \in Seq(Entries), t \in Entries
<1> DEFINE s == Append(a, t) \o b
           i == Len(a) + 1
           l == SubSeq(s, 1, i - 1)
           r == SubSeq(s, i + 1, Len(s))
<1>1. /\ s \in Seq(Entries) /\ Len(s) = Len(a) + Len(b) + 1
      /\ \A j \in 1..(Len(a) + Len(b) + 1) :
           s[j] = IF j <= Len(a) THEN a[j]
                  ELSE IF j = Len(a) + 1 THEN t ELSE b[j - (Len(a) + 1)]
  <2>1. Joined(s, a, t, b)
    BY ByIndex
  <2> HIDE DEF s
  <2> QED
    BY <2>1, Zenon DEF Joined
<1> HIDE DEF s
<1>2. /\ Len(a) \in Nat /\ Len(b) \in Nat /\ DOMAIN s = 1..Len(s)
      /\ \A j \in 1..Len(s) : s[j] \in Entries
  BY <1>1, LenProperties, ElementOfSeq
<1>3. i \in DOMAIN s
  BY <1>1, <1>2
<1>4. l = a
  <2>1. /\ l \in Seq(Entries) /\ Len(l) = IF 1 <= i - 1 THEN (i - 1) - 1 + 1 ELSE 0
        /\ \A j \in 1..((i - 1) - 1 + 1) : l[j] = s[1 + j - 1]
    <3>1. 1 \in Int /\ i - 1 \in Int /\ \A j \in 1..(i - 1) : s[j] \in Entries
      BY <1>1, <1>2
    <3> QED
      BY <3>1, SubSeqProperties
  <2> HIDE DEF l
  <2>2. Len(l) = Len(a)
    BY <1>2, <2>1
  <2>3. ASSUME NEW j \in 1..Len(a)
        PROVE  l[j] = a[j]
    <3>1. /\ j \in 1..((i - 1) - 1 + 1) /\ 1 + j - 1 = j
          /\ j \in 1..(Len(a) + Len(b) + 1) /\ j <= Len(a)
      BY <1>2
    <3>2. l[j] = s[j]
      BY <2>1, <3>1
    <3> QED
      BY <1>1, <3>1, <3>2
  <2> QED
    BY <2>1, <2>2, <2>3, SeqEqual
<1>5. r = b
  <2>1. /\ r \in Seq(Entries)
        /\ Len(r) = IF i + 1 <= Len(s) THEN Len(s) - (i + 1) + 1 ELSE 0
        /\ \A j \in 1..(Len(s) - (i + 1) + 1) : r[j] = s[(i + 1) + j - 1]
    <3>1. i + 1 \in Int /\ Len(s) \in Int /\ \A j \in (i + 1)..Len(s) : s[j] \in Entries
      BY <1>1, <1>2
    <3> QED
      BY <3>1, SubSeqProperties
  <2> HIDE DEF r
  <2>2. Len(r) = Len(b)
    <3>1. CASE i + 1 <= Len(s)
      BY <1>1, <1>2, <2>1, <3>1
    <3>2. CASE ~(i + 1 <= Len(s))
      BY <1>1, <1>2, <2>1, <3>2
    <3> QED
      BY <3>1, <3>2
  <2>3. ASSUME NEW j \in 1..Len(b)
        PROVE  r[j] = b[j]
    <3>1. /\ j \in 1..(Len(s) - (i + 1) + 1) /\ (i + 1) + j - 1 = i + j
          /\ i + j \in 1..(Len(a) + Len(b) + 1) /\ ~(i + j <= Len(a))
          /\ i + j # Len(a) + 1 /\ (i + j) - (Len(a) + 1) = j
      BY <1>1, <1>2
    <3>2. r[j] = s[i + j]
      BY <2>1, <3>1
    <3>3. s[i + j] = b[(i + j) - (Len(a) + 1)]
      BY <1>1, <3>1
    <3> QED
      BY <3>1, <3>2, <3>3
  <2> QED
    BY <2>1, <2>2, <2>3, SeqEqual
<1> HIDE DEF l, r, i
<1>6. a \o b = l \o r
  BY <1>4, <1>5
<1> QED
  BY <1>3, <1>6 DEF l, r, s, GivenUp

\* r is q less an entry of t.
Less(q, r, t) ==
  \E a, b \in Seq(Entries) :
    /\ q = Append(a, t) \o b
    /\ r = a \o b \/ r = Append(a, Null) \o b

LEMMA LessGivesUp ==
  ASSUME NEW q, NEW r, NEW t \in Threads, Less(q, r, t)
  PROVE  GivenUp(Line(q), Line(r))
<1>1. PICK a \in Seq(Entries), b \in Seq(Entries) :
        q = Append(a, t) \o b /\ (r = a \o b \/ r = Append(a, Null) \o b)
  BY DEF Less
<1>2. t # Null /\ t \in Entries /\ Null \in Entries
  BY MutexAssumption DEF Entries
<1>3. Append(a, t) \in Seq(Entries) /\ Append(a, Null) \in Seq(Entries)
  BY <1>2, AppendProperties
<1> DEFINE c == Append(a, t)
           d == Append(a, Null)
<1>4. Line(c) = Append(Line(a), t) /\ Line(d) = Line(a)
  BY <1>2, LineOfAppend
<1> HIDE DEF c, d
<1>5. Line(c \o b) = Line(c) \o Line(b) /\ Line(d \o b) = Line(d) \o Line(b)
  <2>1. c \in Seq(Entries) /\ d \in Seq(Entries)
    BY <1>3 DEF c, d
  <2> QED
    BY <2>1, LineOfConcat
<1>6. Line(a \o b) = Line(a) \o Line(b)
  BY LineOfConcat
<1>7. Line(q) = Append(Line(a), t) \o Line(b) /\ Line(r) = Line(a) \o Line(b)
  BY <1>1, <1>4, <1>5, <1>6, Zenon DEF c, d
<1>8. Line(a) \in Seq(Entries) /\ Line(b) \in Seq(Entries)
  <2>1. Line(a) \in Seq(Threads) /\ Line(b) \in Seq(Threads) /\ Threads \subseteq Entries
    BY LineTyped DEF Entries
  <2> QED
    BY <2>1, SeqMonotonic
<1> QED
  BY <1>2, <1>7, <1>8, CutOut, Zenon

\* An index in the whole, and where it is in the parts
\* r differs from q at k only; r is q with what is behind k moved up.
Alike(q, r, k) ==
  /\ r \in Seq(Entries) /\ Len(r) = Len(q)
  /\ \A i \in 1..Len(q) : i # k => r[i] = q[i]

LEMMA RejoinSame ==
  ASSUME NEW q, NEW r, NEW k, NEW a, NEW b, Around(q, k, a, b), Alike(q, r, k)
  PROVE  r = Append(a, r[k]) \o b
<1>1. /\ q \in Seq(Entries) /\ a \in Seq(Entries) /\ b \in Seq(Entries)
      /\ k \in 1..Len(q) /\ Len(a) = k - 1 /\ Len(b) = Len(q) - k
      /\ \A i \in 1..(k - 1) : a[i] = q[i]
      /\ \A i \in 1..(Len(q) - k) : b[i] = q[k + i]
  BY Zenon DEF Around
<1>2. /\ r \in Seq(Entries) /\ Len(r) = Len(q)
      /\ \A i \in 1..Len(q) : i # k => r[i] = q[i]
  BY Zenon DEF Alike
<1>3. /\ Len(q) \in Nat /\ k \in Nat /\ k >= 1 /\ k <= Len(q)
      /\ \A i \in 1..Len(r) : r[i] \in Entries
  BY <1>2, <1>1, LenProperties, ElementOfSeq
<1>4. PICK x \in Entries : x = r[k]
  BY <1>2, <1>1, <1>3
<1> DEFINE c == Append(a, x) \o b
<1>5. /\ c \in Seq(Entries) /\ Len(c) = Len(a) + Len(b) + 1
      /\ \A i \in 1..(Len(a) + Len(b) + 1) :
           c[i] = IF i <= Len(a) THEN a[i]
                  ELSE IF i = Len(a) + 1 THEN x ELSE b[i - (Len(a) + 1)]
  <2>1. Joined(c, a, x, b)
    BY <1>1, ByIndex
  <2> HIDE DEF c
  <2> QED
    BY <2>1, Zenon DEF Joined
<1> HIDE DEF c
<1>6. Len(a) + 1 = k /\ Len(a) + Len(b) + 1 = Len(q)
  BY <1>2, <1>1, <1>3
<1>7. ASSUME NEW i \in 1..Len(r)
      PROVE  r[i] = c[i]
  <2>1. c[i] = IF i <= k - 1 THEN a[i] ELSE IF i = k THEN x ELSE b[i - k]
    BY <1>2, <1>1, <1>3, <1>5, <1>6
  <2>2. CASE i <= k - 1
    <3>1. i \in 1..(k - 1) /\ i \in 1..Len(q) /\ i # k
      BY <1>2, <1>3, <2>2
    <3> QED
      BY <1>2, <1>1, <2>1, <2>2, <3>1
  <2>3. CASE i = k
    BY <1>2, <1>1, <1>3, <1>4, <2>1, <2>3
  <2>4. CASE ~(i <= k - 1) /\ i # k
    <3>1. i - k \in 1..(Len(q) - k) /\ k + (i - k) = i
      BY <1>2, <1>1, <1>3, <2>4
    <3>2. b[i - k] = q[k + (i - k)]
      BY <1>1, <3>1
    <3> QED
      BY <1>2, <1>1, <2>1, <2>4, <3>1, <3>2
  <2> QED
    BY <2>2, <2>3, <2>4
<1>8. r = c
  BY <1>2, <1>1, <1>5, <1>6, <1>7, SeqEqual
<1> QED
  BY <1>4, <1>8 DEF c

Closed(q, r, k) ==
  /\ r \in Seq(Entries) /\ Len(r) = Len(q) - 1
  /\ \A i \in 1..(Len(q) - 1) : r[i] = IF i < k THEN q[i] ELSE q[i + 1]

LEMMA RejoinLess ==
  ASSUME NEW q, NEW r, NEW k, NEW a, NEW b, Around(q, k, a, b), Closed(q, r, k)
  PROVE  r = a \o b
<1>1. /\ q \in Seq(Entries) /\ a \in Seq(Entries) /\ b \in Seq(Entries)
      /\ k \in 1..Len(q) /\ Len(a) = k - 1 /\ Len(b) = Len(q) - k
      /\ \A i \in 1..(k - 1) : a[i] = q[i]
      /\ \A i \in 1..(Len(q) - k) : b[i] = q[k + i]
  BY Zenon DEF Around
<1>2. /\ r \in Seq(Entries) /\ Len(r) = Len(q) - 1
      /\ \A i \in 1..(Len(q) - 1) : r[i] = IF i < k THEN q[i] ELSE q[i + 1]
  BY Zenon DEF Closed
<1>3. /\ Len(q) \in Nat /\ k \in Nat /\ k >= 1 /\ k <= Len(q)
      /\ \A i \in 1..Len(r) : r[i] \in Entries
  BY <1>2, <1>1, LenProperties, ElementOfSeq
<1> DEFINE c == a \o b
<1>4. /\ c \in Seq(Entries) /\ Len(c) = Len(a) + Len(b)
      /\ \A i \in 1..(Len(a) + Len(b)) :
           c[i] = IF i <= Len(a) THEN a[i] ELSE b[i - Len(a)]
  BY <1>1, ConcatProperties
<1> HIDE DEF c
<1>5. Len(a) + Len(b) = Len(q) - 1
  BY <1>1, <1>3
<1>6. ASSUME NEW i \in 1..Len(r)
      PROVE  r[i] = c[i]
  <2>1. c[i] = IF i <= k - 1 THEN a[i] ELSE b[i - (k - 1)]
    BY <1>2, <1>1, <1>3, <1>4, <1>5
  <2>2. r[i] = IF i < k THEN q[i] ELSE q[i + 1]
    BY <1>2
  <2>3. CASE i <= k - 1
    BY <1>2, <1>1, <1>3, <2>1, <2>2, <2>3
  <2>4. CASE ~(i <= k - 1)
    <3>1. i - (k - 1) \in 1..(Len(q) - k) /\ k + (i - (k - 1)) = i + 1 /\ ~(i < k)
      BY <1>2, <1>1, <1>3, <2>4
    <3>2. b[i - (k - 1)] = q[k + (i - (k - 1))]
      BY <1>1, <3>1
    <3> QED
      BY <2>1, <2>2, <2>4, <3>1, <3>2
  <2> QED
    BY <2>3, <2>4
<1>7. r = c
  BY <1>2, <1>1, <1>4, <1>5, <1>6, SeqEqual
<1> QED
  BY <1>7 DEF c

LEMMA WithoutIsLess ==
  ASSUME NEW q \in Seq(Entries), NEW t \in Threads, t \in ToSet(q)
  PROVE  Less(q, Without(q, t), t)
<1> DEFINE r == Without(q, t)
<1>1. PICK k \in 1..Len(q) :
        /\ q[k] = t /\ r \in Seq(Entries) /\ Len(r) = Len(q) - 1
        /\ \A i \in 1..(Len(q) - 1) : r[i] = IF i < k THEN q[i] ELSE q[i + 1]
  BY WithoutByIndex
<1> HIDE DEF r
<1>2. PICK a, b : Around(q, k, a, b)
  BY Split
<1>3. a \in Seq(Entries) /\ b \in Seq(Entries)
  BY <1>2, Zenon DEF Around
<1>4. q = Append(a, q[k]) \o b
  <2>1. Alike(q, q, k)
    BY DEF Alike
  <2> QED
    BY <1>2, <2>1, RejoinSame
<1>5. r = a \o b
  <2>1. Closed(q, r, k)
    BY <1>1 DEF Closed
  <2> QED
    BY <1>2, <2>1, RejoinLess
<1> QED
  BY <1>1, <1>4, <1>5, <1>3 DEF Less, r

LEMMA CancelledIsLess ==
  ASSUME NEW q \in Seq(Entries), NEW t \in Threads, t \in ToSet(q), Sole(q, t),
         Len(q) # MaxWaiters
  PROVE  Less(q, Cancelled(q, t), t)
<1> DEFINE r == Cancelled(q, t)
<1>1. r = [i \in DOMAIN q |-> IF q[i] = t THEN Null ELSE q[i]]
  BY DEF Cancelled
<1>2. /\ Len(q) \in Nat /\ DOMAIN q = 1..Len(q)
      /\ ToSet(q) = {q[i] : i \in 1..Len(q)}
      /\ \A i \in 1..Len(q) : q[i] \in Entries
  BY LenProperties, ToSetOfSeq, ElementOfSeq
<1>3. r \in [1..Len(q) -> Entries]
  BY <1>1, <1>2 DEF Entries
<1>4. r \in Seq(Entries) /\ Len(r) = Len(q)
  BY <1>2, <1>3, SeqDef
<1>5. \A i \in 1..Len(q) : r[i] = IF q[i] = t THEN Null ELSE q[i]
  BY <1>1, <1>2
<1> HIDE DEF r
<1>6. PICK k \in 1..Len(q) : q[k] = t
  BY <1>2
<1>7. PICK a, b : Around(q, k, a, b)
  BY Split
<1>8. \A i \in 1..Len(q) : i # k => r[i] = q[i]
  BY <1>2, <1>5, <1>6 DEF Sole
<1>9. a \in Seq(Entries) /\ b \in Seq(Entries)
  BY <1>7, Zenon DEF Around
<1>10. q = Append(a, q[k]) \o b
  <2>1. Alike(q, q, k)
    BY DEF Alike
  <2> QED
    BY <1>7, <2>1, RejoinSame
<1>11. r = Append(a, r[k]) \o b
  <2>1. Alike(q, r, k)
    BY <1>4, <1>8 DEF Alike
  <2> QED
    BY <1>7, <2>1, RejoinSame
<1>12. r[k] = Null
  BY <1>5, <1>6
<1> QED
  BY <1>6, <1>10, <1>11, <1>12, <1>9 DEF Less, r

\* What a release takes off the front stands for nobody.
LEMMA LiveTailSameLine ==
  ASSUME NEW q \in Seq(Entries)
  PROVE  LiveTail(q) \in Seq(Entries) /\ Line(LiveTail(q)) = Line(q)
<1> DEFINE live == {i \in DOMAIN q : q[i] # Null}
<1>1. /\ Len(q) \in Nat /\ DOMAIN q = 1..Len(q) /\ ToSet(q) = {q[i] : i \in 1..Len(q)}
      /\ Null \notin Threads
  BY LenProperties, ToSetOfSeq, MutexAssumption
<1>2. CASE live = {}
  <2>1. LiveTail(q) = <<>>
    BY <1>2 DEF LiveTail
  <2>2. \A t \in Threads : t \notin ToSet(q)
    BY <1>1, <1>2
  <2> QED
    BY <2>1, <2>2, LineOfNobody, LineOfEmpty, EmptySeq
<1>3. CASE live # {}
  <2> DEFINE m == Min(live)
             a == SubSeq(q, 1, m - 1)
             l == SubSeq(q, m, Len(q))
  <2>1. LiveTail(q) = l
    BY <1>3 DEF LiveTail
  <2>2. live \in SUBSET Nat
    BY <1>1
  <2>3. m \in live /\ \A j \in live : m <= j
    <3> HIDE DEF live
    <3>1. PICK i \in live : \A j \in live : i <= j
      BY <1>3, <2>2, LeastNatural
    <3> QED
      BY <3>1 DEF Min
  <2> HIDE DEF m
  <2>4. m \in 1..Len(q) /\ \A i \in 1..(m - 1) : q[i] = Null
    BY <1>1, <2>3
  <2>5. \A i \in 1..Len(q) : q[i] \in Entries
    BY ElementOfSeq
  <2>6. l \in Seq(Entries)
    <3>1. m \in Int /\ Len(q) \in Int /\ \A i \in m..Len(q) : q[i] \in Entries
      BY <1>1, <2>4, <2>5
    <3> QED
      BY <3>1, SubSeqProperties
  <2>7. a \in Seq(Entries) /\ \A i \in 1..Len(a) : a[i] = Null
    <3>1. 1 \in Int /\ m - 1 \in Int /\ \A i \in 1..(m - 1) : q[i] \in Entries
      BY <1>1, <2>4, <2>5
    <3>2. /\ a \in Seq(Entries) /\ Len(a) = IF 1 <= m - 1 THEN (m - 1) - 1 + 1 ELSE 0
          /\ \A i \in 1..((m - 1) - 1 + 1) : a[i] = q[1 + i - 1]
      BY <3>1, SubSeqProperties
    <3> HIDE DEF a
    <3>3. ASSUME NEW i \in 1..Len(a)
          PROVE  a[i] = Null
      <4>1. i \in 1..((m - 1) - 1 + 1) /\ 1 + i - 1 = i /\ i \in 1..(m - 1)
        BY <1>1, <2>4, <3>2
      <4> QED
        BY <2>4, <3>2, <4>1
    <3> QED
      BY <3>2, <3>3
  <2>8. a \o l = q
    <3>1. 1 \in 1..(Len(q) + 1) /\ m - 1 \in 0..Len(q) /\ Len(q) \in (m - 1)..Len(q)
          /\ (m - 1) + 1 = m /\ 1 - 1 = 0
      BY <1>1, <2>4
    <3>2. SubSeq(q, 1, m - 1) \o SubSeq(q, (m - 1) + 1, Len(q)) = SubSeq(q, 1, Len(q))
      BY <3>1, ConcatAdjacentSubSeq
    <3>3. SubSeq(q, 1, Len(q)) = q
      BY SubSeqFull
    <3> QED
      BY <3>1, <3>2, <3>3
  <2> HIDE DEF a, l
  <2>9. Line(a) = <<>>
    <3>1. \A t \in Threads : t \notin ToSet(a)
      BY <1>1, <2>7, ToSetOfSeq
    <3> QED
      BY <2>7, <3>1, LineOfNobody
  <2>10. Line(a \o l) = Line(a) \o Line(l)
    BY <2>6, <2>7, LineOfConcat
  <2>11. <<>> \o Line(l) = Line(l)
    BY <2>6, LineTyped, ConcatEmptySeq
  <2> QED
    BY <2>1, <2>6, <2>8, <2>9, <2>10, <2>11
<1> QED
  BY <1>2, <1>3

\* The head of a queue that starts with a thread is the head of its line.
LEMMA HeadOfLine ==
  ASSUME NEW q \in Seq(Entries), q # <<>>, Head(q) \in Threads
  PROVE  Line(q) # <<>> /\ Head(Line(q)) = Head(q) /\ Tail(Line(q)) = Line(Tail(q))
<1> DEFINE h == Head(q)
           one == <<h>>
           r == Tail(q)
<1>1. h \in Entries /\ r \in Seq(Entries) /\ q = one \o r
  <2>1. h \in Entries /\ r \in Seq(Entries)
    BY HeadTailProperties
  <2>2. q = one \o r
    OBVIOUS
  <2> QED
    BY <2>1, <2>2
<1>2. one \in Seq(Entries) /\ one = Append(<<>>, h) /\ h # Null
  BY <1>1, MutexAssumption
<1>3. Line(one) = <<h>>
  <2>1. Line(Append(<<>>, h)) = Append(Line(<<>>), h)
    BY <1>1, <1>2, EmptySeq, LineOfAppend
  <2> QED
    BY <1>2, <2>1, LineOfEmpty
<1> HIDE DEF one, r
<1>4. Line(one \o r) = Line(one) \o Line(r)
  BY <1>1, <1>2, LineOfConcat
<1>5. PICK l \in Seq(Threads) : l = Line(r)
  BY <1>1, LineTyped
<1>6. Line(q) = <<h>> \o l
  BY <1>1, <1>3, <1>4, <1>5
<1>7. <<h>> \o l # <<>> /\ Head(<<h>> \o l) = h /\ Tail(<<h>> \o l) = l
  <2> HIDE DEF h
  <2>1. h \in Threads
    BY DEF h
  <2> QED
    BY <2>1
<1> QED
  BY <1>5, <1>6, <1>7 DEF r

\* Nobody is listed for a mutex that is free.
Unclaimed == owner = Null => \A u \in Threads : ~Queued(u)

LEMMA FreeStaysUnclaimed ==
  ASSUME IInv, Unclaimed, [Next]_vars
  PROVE  Unclaimed'
<1>1. Typed /\ waiters \in Seq(Entries) /\ Null \notin Threads
  BY MutexAssumption DEF IInv, Typed, Entries
<1>2. ASSUME owner' = owner, \A u \in Threads : Queued(u)' => Queued(u)
      PROVE  Unclaimed'
  BY <1>2 DEF Unclaimed
<1>3. ASSUME owner' \in Threads
      PROVE  Unclaimed'
  BY <1>1, <1>3 DEF Unclaimed
<1>4. ASSUME NEW t \in Threads, AcquireTakes(t)
      PROVE  Unclaimed'
  BY <1>3, <1>4 DEF AcquireTakes
<1>5. ASSUME NEW t \in Threads, AcquireSlips(t) \/ AcquireBlocks(t)
      PROVE  Unclaimed'
  <2>1. ~Free(t) /\ owner' = owner
    BY <1>5 DEF AcquireSlips, AcquireBlocks, CanQueue
  <2>2. owner \in Threads
    BY <1>1, <2>1 DEF Typed, Free
  <2> QED
    BY <1>3, <2>1, <2>2
<1>6. ASSUME NEW t \in Threads, AcquireReturns(t)
      PROVE  Unclaimed'
  <2>1. owner' = owner /\ waiters' \in {waiters, Without(waiters, t)}
    BY <1>6 DEF AcquireReturns
  <2>2. \A u \in Threads : u \in ToSet(Without(waiters, t)) => u \in ToSet(waiters)
    <3>1. CASE t \in ToSet(waiters)
      BY <1>1, <3>1, WithoutSole
    <3>2. CASE t \notin ToSet(waiters)
      BY <3>2 DEF Without
    <3> QED
      BY <3>1, <3>2
  <2> QED
    BY <1>2, <2>1, <2>2 DEF Queued
<1>7. ASSUME NEW t \in Threads, Release(t)
      PROVE  Unclaimed'
  <2>1. CASE owner = t /\ LiveTail(waiters) # <<>>
    BY <1>3, <1>7, <2>1, HandOverStep
  <2>2. CASE owner = t /\ LiveTail(waiters) = <<>>
    <3>1. waiters' = <<>>
      BY <1>7, <2>2 DEF Release, HandOver, SetFree
    <3> QED
      BY <3>1, ToSetOfSeq, EmptySeq DEF Unclaimed, Queued
  <2>3. CASE owner # t
    <3>1. UNCHANGED <<owner, waiters>>
      BY <1>7, <2>3 DEF Release
    <3> QED
      BY <1>2, <3>1 DEF Queued
  <2> QED
    BY <2>1, <2>2, <2>3
<1>8. ASSUME NEW c \in Threads, NEW t \in Threads, FinalizeThread(c, t) \/ CancelThread(c, t)
      PROVE  Unclaimed'
  <2>1. owner' = owner /\ waiters' \in {waiters, Cancelled(waiters, t)}
    BY <1>8 DEF FinalizeThread, CancelThread
  <2>2. \A u \in Threads : u \in ToSet(Cancelled(waiters, t)) => u \in ToSet(waiters)
    BY <1>1, CancelledKeeps
  <2> QED
    BY <1>2, <2>1, <2>2 DEF Queued
<1>9. ASSUME UNCHANGED <<owner, waiters>>
      PROVE  Unclaimed'
  BY <1>2, <1>9 DEF Queued
<1>10. ASSUME NEW t \in Threads, AcquireHalts(t) \/ YieldCPU(t)
       PROVE  Unclaimed'
  BY <1>9, <1>10 DEF AcquireHalts, YieldCPU
<1>11. ASSUME NEW c \in Threads, NEW t \in Threads, ResumeThread(c, t)
       PROVE  Unclaimed'
  BY <1>9, <1>11 DEF ResumeThread
<1>12. CASE ClockFires \/ TimerInterrupt
  BY <1>9, <1>12 DEF ClockFires, TimerInterrupt
<1>13. CASE UNCHANGED vars
  BY <1>9, <1>13 DEF vars
<1> QED
  BY <1>4, <1>5, <1>6, <1>7, <1>8, <1>10, <1>11, <1>12, <1>13 DEF Next

\* What a step does to the lock: a line one shorter, or the same.
LEMMA ShorterLine ==
  ASSUME NEW t \in Threads, waiters' = waiters \/ Less(waiters, waiters', t), owner' = owner
  PROVE  Lock!Next \/ UNCHANGED Lock!vars
<1>1. CASE waiters' = waiters
  BY <1>1 DEF Lock!vars
<1>2. CASE Less(waiters, waiters', t)
  <2>1. GivenUp(Line(waiters), Line(waiters'))
    BY <1>2, LessGivesUp
  <2> QED
    BY <2>1 DEF GivenUp, Lock!Next, Lock!GiveUp
<1> QED
  BY <1>1, <1>2

LEMMA Refines ==
  ASSUME IInv, Unclaimed, Undisturbed, [Next]_vars
  PROVE  Lock!Next \/ UNCHANGED Lock!vars
<1>1. /\ Typed /\ waiters \in Seq(Entries) /\ Null \notin Threads
      /\ \A u \in Threads : Entitled(u)
  BY MutexAssumption DEF IInv, Typed, Entries, Stands
<1>2. ASSUME UNCHANGED <<owner, waiters>>
      PROVE  Lock!Next \/ UNCHANGED Lock!vars
  BY <1>2 DEF Lock!vars
<1>3. ASSUME NEW t \in Threads, AcquireTakes(t)
      PROVE  Lock!Next
  <2>1. owner = Null /\ owner' = t /\ waiters' = waiters
    <3>1. count = IF owner = Null THEN 0 ELSE 1
      BY <1>1, Zenon DEF Typed
    <3> QED
      BY <1>3, <3>1 DEF AcquireTakes
  <2>2. Line(waiters) = <<>>
    BY <1>1, <2>1, LineOfNobody DEF Unclaimed, Queued
  <2> QED
    BY <2>1, <2>2 DEF Lock!Next, Lock!Take
<1>4. ASSUME NEW t \in Threads, AcquireSlips(t) \/ AcquireBlocks(t)
      PROVE  Lock!Next
  <2>1. ~Free(t) /\ pc[t] = "out" /\ waiters' = Append(waiters, t) /\ owner' = owner
    BY <1>4 DEF AcquireSlips, AcquireBlocks, CanQueue
  <2>2. owner # Null
    BY <1>1, <2>1 DEF Typed, Free
  <2>3. t \notin ToSet(Line(waiters))
    <3>1. ~Queued(t)
      BY <1>1, <2>1 DEF Entitled, Waiting
    <3> QED
      BY <1>1, <3>1, LineAsSet DEF Queued
  <2>4. \A i \in DOMAIN Line(waiters) : Line(waiters)[i] # t
    BY <2>3 DEF ToSet
  <2>5. Line(waiters') = Append(Line(waiters), t)
    BY <1>1, <2>1, LineOfAppend DEF Entries
  <2> QED
    BY <2>1, <2>2, <2>4, <2>5 DEF Lock!Next, Lock!LineUp
<1>5. ASSUME NEW t \in Threads, AcquireReturns(t)
      PROVE  Lock!Next \/ UNCHANGED Lock!vars
  <2>1. owner' = owner /\ waiters' \in {waiters, Without(waiters, t)}
    BY <1>5 DEF AcquireReturns
  <2>2. Without(waiters, t) = waiters \/ Less(waiters, Without(waiters, t), t)
    <3>1. CASE t \in ToSet(waiters)
      BY <1>1, <3>1, WithoutIsLess
    <3>2. CASE t \notin ToSet(waiters)
      BY <3>2 DEF Without
    <3> QED
      BY <3>1, <3>2
  <2> QED
    BY <2>1, <2>2, ShorterLine
<1>6. ASSUME NEW t \in Threads, Release(t)
      PROVE  Lock!Next \/ UNCHANGED Lock!vars
  <2> DEFINE l == LiveTail(waiters)
  <2>1. l \in Seq(Entries) /\ Line(l) = Line(waiters)
    BY <1>1, LiveTailSameLine
  <2>2. l # <<>> => Head(l) \in Threads
    BY <1>1, LiveTailKeeps
  <2>3. CASE owner = t /\ l # <<>>
    <3>1. owner' = Head(l) /\ waiters' = Tail(l)
      BY <1>6, <2>3 DEF Release, HandOver
    <3>2. Line(l) # <<>> /\ Head(Line(l)) = Head(l) /\ Tail(Line(l)) = Line(Tail(l))
      BY <2>1, <2>2, <2>3, HeadOfLine
    <3>3. owner # Null
      BY <1>1, <2>3
    <3> HIDE DEF l
    <3> QED
      BY <2>1, <3>1, <3>2, <3>3 DEF Lock!Next, Lock!Pass
  <2>4. CASE owner = t /\ l = <<>>
    <3>1. owner' = Null /\ waiters' = <<>>
      BY <1>6, <2>4 DEF Release, HandOver, SetFree
    <3>2. Line(waiters) = <<>> /\ Line(waiters') = <<>>
      BY <2>1, <2>4, <3>1, LineOfEmpty
    <3>3. owner # Null
      BY <1>1, <2>4
    <3> QED
      BY <3>1, <3>2, <3>3 DEF Lock!Next, Lock!Pass
  <2>5. CASE owner # t
    <3>1. UNCHANGED <<owner, waiters>>
      BY <1>6, <2>5 DEF Release
    <3> QED
      BY <1>2, <3>1
  <2> QED
    BY <2>3, <2>4, <2>5
<1>7. ASSUME NEW c \in Threads, NEW t \in Threads, FinalizeThread(c, t) \/ CancelThread(c, t)
      PROVE  Lock!Next \/ UNCHANGED Lock!vars
  <2>1. owner' = owner /\ waiters' \in {waiters, Cancelled(waiters, t)}
    BY <1>7 DEF FinalizeThread, CancelThread
  <2>2. Cancelled(waiters, t) = waiters \/ Less(waiters, Cancelled(waiters, t), t)
    <3>1. CASE Len(waiters) = MaxWaiters
      BY <3>1 DEF Cancelled
    <3>2. CASE t \in ToSet(waiters) /\ Len(waiters) # MaxWaiters
      BY <1>1, <3>2, CancelledIsLess DEF Entitled
    <3>3. CASE t \notin ToSet(waiters) /\ Len(waiters) # MaxWaiters
      <4>1. Cancelled(waiters, t) = [i \in DOMAIN waiters |-> waiters[i]]
        BY <3>3 DEF Cancelled, ToSet
      <4>2. waiters = [i \in DOMAIN waiters |-> waiters[i]]
        BY <1>1, LenProperties
      <4> QED
        BY <4>1, <4>2
    <3> QED
      BY <3>1, <3>2, <3>3
  <2> QED
    BY <2>1, <2>2, ShorterLine
<1>8. ASSUME NEW t \in Threads, AcquireHalts(t) \/ YieldCPU(t)
      PROVE  UNCHANGED Lock!vars
  BY <1>8 DEF AcquireHalts, YieldCPU, Lock!vars
<1>9. ASSUME NEW c \in Threads, NEW t \in Threads, ResumeThread(c, t)
      PROVE  UNCHANGED Lock!vars
  BY <1>9 DEF ResumeThread, Lock!vars
<1>10. CASE ClockFires \/ TimerInterrupt
  BY <1>2, <1>10 DEF ClockFires, TimerInterrupt
<1>11. CASE UNCHANGED vars
  BY <1>2, <1>11 DEF vars
<1> QED
  BY <1>3, <1>4, <1>5, <1>6, <1>7, <1>8, <1>9, <1>10, <1>11 DEF Next

\* The mutex is a lock with a line, until a thread is resumed behind it: nobody
\* overtakes, a release passes the mutex to the head of the line, and timeouts,
\* deaths and cancelled waits only take a thread out of it (Mutex::Acquire,
\* Release, Cancel).
THEOREM Refinement == Spec => ImplementsFifoLock
<1>1. Init => Unclaimed /\ Lock!Init
  BY LineOfEmpty, ToSetOfSeq, EmptySeq DEF Init, Unclaimed, Queued, Lock!Init
<1>2. IInv /\ Unclaimed /\ [Next]_vars => Unclaimed'
  BY FreeStaysUnclaimed
<1>3. IInv /\ Unclaimed /\ [Next]_vars => [Undisturbed => Lock!Next]_(Lock!vars)
  BY Refines
<1> QED
  BY <1>1, <1>2, <1>3, Invariance, PTL DEF Spec, ImplementsFifoLock

=============================================================================
