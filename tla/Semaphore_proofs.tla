-------------------------- MODULE Semaphore_proofs --------------------------
(***************************************************************************)
(* The semaphore's safety for any number of threads, signals from threads  *)
(* and interrupt handlers, timeouts, deaths, resets and cancelled waits.   *)
(*                                                                         *)
(* That whoever is blocked in Wait is on the waiter list holds whatever    *)
(* the threads do (Placed).  The rest holds while nobody else resumes a    *)
(* waiter: then a listed thread has no WakeCount left, is listed once, and *)
(* is either blocked or has run out of time (Entitled), from which it      *)
(* follows what a Signal does to the number of threads that are on their   *)
(* way out of Wait (Leaving), and with it the two bounds on the count.     *)
(***************************************************************************)
EXTENDS Semaphore, Thread_proofs

Typed ==
  /\ count \in Int
  /\ waiters \in Seq(Threads)
  /\ pc \in [Threads -> {"run", "wait", "timed wait"}]
  /\ resumes \in 0..MaxResumes
  /\ gaveUp \in BOOLEAN
  /\ resets \in 0..MaxResets
  /\ forgotten \subseteq Threads

\* Where t blocks, and that a Signal will find it there.
Placed(t) ==
  /\ t \in sched.suspended => pc[t] = "wait"
  /\ t \in sched.sleeping =>
       /\ pc[t] = "timed wait"
       /\ sched.intr[t] /\ sched.writes[t] /\ sched.slot[t] \notin {NoSlot, 0}
  /\ Blocked(t) => Queued(t) \/ t \in forgotten

\* What the list says of a thread that only the semaphore has resumed.
Entitled(t) ==
  /\ sched.wake[t] <= 1
  /\ Blocked(t) => sched.wake[t] = 0
  /\ Sole(waiters, t)
  /\ Queued(t) =>
       /\ sched.wake[t] = 0 /\ ~Dead(sched, t) /\ pc[t] # "run"
       /\ Blocked(t) \/ TimedOut(t)

Stands(t) == Placed(t) /\ (Undisturbed => Entitled(t))

\* The threads whose Wait has succeeded and that have not taken their count yet
Leaving == {t \in Threads : Pending(t)}

Overdrawn == Cardinality(Leaving) <= count + Cardinality(Threads) - 1

NobodyGaveUp == ~gaveUp /\ \A t \in Threads : ~TimedOut(t)

Answered == NobodyGaveUp /\ waiters # <<>> => count <= Cardinality(Leaving)

IInv ==
  /\ Sound(sched) /\ Typed
  /\ \A t \in Threads : Stands(t)
  /\ Undisturbed => Overdrawn /\ Answered

-----------------------------------------------------------------------------
(* The threads a step is not about.                                        *)

Same(u) ==
  /\ pc'[u] = pc[u]
  /\ u \in ToSet(waiters') <=> u \in ToSet(waiters)
  /\ Sole(waiters, u) => Sole(waiters', u)
  /\ u \in forgotten => u \in forgotten'

\* One of them neither joins nor leaves those that are on their way out, and one
\* whose time is over stays that way.
Unmoved(u) ==
  /\ Pending(u)' <=> Pending(u)
  /\ TimedOut(u) => TimedOut(u)'

LEMMA OthersKeep ==
  ASSUME IInv, NEW c, Spared(sched, sched', c), resumes' = 0 => resumes = 0,
         NEW u \in Threads \ {c}, Same(u)
  PROVE  Stands(u)' /\ Unmoved(u)
<1>1. Placed(u) /\ (Undisturbed' => Undisturbed) /\ (Undisturbed => Entitled(u))
  BY DEF IInv, Stands, Undisturbed
<1>2. /\ sched'.wake[u] = sched.wake[u]
      /\ u \in sched'.suspended <=> u \in sched.suspended
      /\ u \in sched'.sleeping =>
           /\ u \in sched.sleeping
           /\ sched'.intr[u] = sched.intr[u] /\ sched'.writes[u] = sched.writes[u]
      /\ u \in sched'.sleeping \/ u \notin sched.sleeping => sched'.slot[u] = sched.slot[u]
      /\ u \in sched.sleeping /\ u \notin sched'.sleeping /\ sched.writes[u]
           /\ sched.slot[u] # NoSlot => sched'.slot[u] = 0
      /\ Dead(sched', u) <=> Dead(sched, u)
  BY DEF Spared
<1>3. Placed(u)'
  BY <1>1, <1>2 DEF Placed, Same, Blocked, Queued
<1>4. TimedOut(u) => TimedOut(u)'
  BY <1>1, <1>2 DEF Placed, Same, TimedOut
<1>5. Blocked(u) => Blocked(u)' \/ TimedOut(u)'
  BY <1>1, <1>2 DEF Placed, Same, Blocked, TimedOut
<1>6. Entitled(u) => Entitled(u)'
  <2>1. Blocked(u)' => Blocked(u)
    BY <1>2 DEF Blocked
  <2> QED
    BY <1>2, <1>4, <1>5, <2>1 DEF Entitled, Same, Queued
<1>7. Pending(u) => Pending(u)'
  <2>1. ASSUME Pending(u)
        PROVE  ~Blocked(u)' /\ ~TimedOut(u)'
    BY <1>1, <1>2, <2>1 DEF Pending, Blocked, TimedOut, Same
  <2> QED
    BY <2>1 DEF Pending, Same
<1>8. Pending(u)' => Pending(u)
  BY <1>4, <1>5 DEF Pending, Same
<1> QED
  BY <1>1, <1>3, <1>4, <1>6, <1>7, <1>8 DEF Stands, Unmoved

\* A step moves at most the thread it is about.
LEMMA LeavingCounts ==
  ASSUME NEW a, \A u \in Threads \ {a} : Unmoved(u)
  PROVE  /\ Cardinality(Leaving) \in Nat /\ Cardinality(Leaving') \in Nat
         /\ Cardinality(Threads) \in Nat
         /\ (a \in Threads => (Pending(a)' <=> Pending(a))) =>
              Cardinality(Leaving') = Cardinality(Leaving)
         /\ a \in Threads /\ Pending(a)' /\ ~Pending(a) =>
              Cardinality(Leaving') = Cardinality(Leaving) + 1
         /\ a \in Threads /\ ~Pending(a)' /\ Pending(a) =>
              Cardinality(Leaving') = Cardinality(Leaving) - 1
         /\ (NobodyGaveUp' /\ (a \in Threads => ~TimedOut(a)) /\ (gaveUp => gaveUp')) =>
              NobodyGaveUp
<1>1. IsFiniteSet(Leaving) /\ IsFiniteSet(Leaving') /\ IsFiniteSet(Threads)
  <2>1. Leaving \subseteq Threads /\ Leaving' \subseteq Threads
    BY DEF Leaving
  <2> QED
    BY <2>1, ThreadAssumption, FS_Subset
<1>2. /\ Cardinality(Leaving) \in Nat /\ Cardinality(Leaving') \in Nat
      /\ Cardinality(Threads) \in Nat
  BY <1>1, FS_CardinalityType
<1>3. ASSUME a \in Threads => (Pending(a)' <=> Pending(a))
      PROVE  Leaving' = Leaving
  BY <1>3 DEF Unmoved, Leaving
<1>4. ASSUME a \in Threads, Pending(a)', ~Pending(a)
      PROVE  Leaving' = Leaving \cup {a} /\ a \notin Leaving
  BY <1>4 DEF Unmoved, Leaving
<1>5. ASSUME a \in Threads, ~Pending(a)', Pending(a)
      PROVE  Leaving' = Leaving \ {a} /\ a \in Leaving
  BY <1>5 DEF Unmoved, Leaving
<1>6. ASSUME NobodyGaveUp', a \in Threads => ~TimedOut(a), gaveUp => gaveUp'
      PROVE  NobodyGaveUp
  BY <1>6 DEF NobodyGaveUp, Unmoved
<1> QED
  BY <1>1, <1>2, <1>3, <1>4, <1>5, <1>6, FS_AddElement, FS_RemoveElement

\* A thread that runs is alive and on no list.
LEMMA CurrentIsAwake ==
  ASSUME IInv, NEW t \in Threads, sched.current = t
  PROVE  ~Blocked(t) /\ ~Dead(sched, t)
BY DEF IInv, Sound, Settled, CurrentLives, Blocked, Dead

\* Not every thread is on its way out of Wait if one runs outside.
LEMMA OneIsNotLeaving ==
  ASSUME NEW c \in Threads, pc[c] = "run"
  PROVE  Cardinality(Leaving) <= Cardinality(Threads) - 1
<1>1. Leaving \subseteq Threads \ {c}
  BY DEF Leaving, Pending
<1>2. /\ IsFiniteSet(Threads \ {c})
      /\ Cardinality(Threads \ {c}) = Cardinality(Threads) - 1
  BY ThreadAssumption, FS_RemoveElement
<1> QED
  BY <1>1, <1>2, FS_Subset

-----------------------------------------------------------------------------
(* One lemma per action.                                                   *)

\* What the scheduler does by itself
LEMMA SchedulerStep ==
  ASSUME IInv, Sound(sched'), Spared(sched, sched', NoThread),
         UNCHANGED <<count, waiters, pc, History>>
  PROVE  IInv'
<1>1. /\ count' = count /\ waiters' = waiters /\ pc' = pc /\ resumes' = resumes
      /\ gaveUp' = gaveUp /\ resets' = resets /\ forgotten' = forgotten
  BY DEF History
<1>2. Typed'
  BY <1>1 DEF IInv, Typed
<1>3. \A u \in Threads : Same(u) /\ u \in Threads \ {NoThread}
  BY <1>1, ThreadAssumption DEF Same
<1>4. \A u \in Threads : Stands(u)' /\ Unmoved(u)
  BY <1>1, <1>3, OthersKeep
<1>5. /\ Cardinality(Leaving') = Cardinality(Leaving)
      /\ NobodyGaveUp' => NobodyGaveUp
  BY <1>1, <1>4, LeavingCounts, ThreadAssumption
<1>6. Undisturbed' => Overdrawn' /\ Answered'
  BY <1>1, <1>5 DEF IInv, Undisturbed, Overdrawn, Answered
<1> QED
  BY <1>2, <1>4, <1>6 DEF IInv

LEMMA WaitTakesStep ==
  ASSUME IInv, NEW t \in Threads, WaitTakes(t)
  PROVE  IInv'
<1>1. /\ pc[t] = "run" /\ count > 0 /\ count' = count - 1
      /\ sched' = sched /\ waiters' = waiters /\ pc' = pc /\ resumes' = resumes
      /\ gaveUp' = gaveUp /\ resets' = resets /\ forgotten' = forgotten
  BY DEF WaitTakes, Running, History
<1>2. Sound(sched) /\ Typed /\ count \in Int
  BY DEF IInv, Typed
<1>3. Typed'
  <2>1. count' \in Int
    BY <1>1, <1>2
  <2> QED
    BY <1>1, <1>2, <2>1 DEF Typed
<1>4. \A u \in Threads : Same(u) /\ u \in Threads \ {NoThread}
  BY <1>1, ThreadAssumption DEF Same
<1>5. Spared(sched, sched', NoThread)
  BY <1>1 DEF Spared
<1>6. \A u \in Threads : Stands(u)' /\ Unmoved(u)
  BY <1>1, <1>4, <1>5, OthersKeep
<1>7. /\ Cardinality(Leaving') = Cardinality(Leaving)
      /\ Cardinality(Leaving) \in Nat /\ Cardinality(Threads) \in Nat
      /\ NobodyGaveUp' => NobodyGaveUp
  BY <1>1, <1>6, LeavingCounts, ThreadAssumption
<1>8. Cardinality(Leaving) <= Cardinality(Threads) - 1
  BY <1>1, OneIsNotLeaving
<1>9. Overdrawn'
  BY <1>1, <1>2, <1>7, <1>8 DEF Overdrawn
<1>10. Undisturbed' => Answered'
  <2>1. ASSUME Undisturbed', NobodyGaveUp', waiters' # <<>>
        PROVE  count <= Cardinality(Leaving)
    BY <1>1, <1>7, <2>1 DEF IInv, Undisturbed, Answered
  <2> QED
    BY <1>1, <1>2, <1>7, <2>1 DEF Answered
<1> QED
  BY <1>1, <1>2, <1>3, <1>6, <1>9, <1>10 DEF IInv

\* A thread lines up: only of its own place does the list say more.
LEMMA LinesUp ==
  ASSUME IInv, NEW t \in Threads, waiters' = Append(waiters, t), forgotten' = forgotten
  PROVE  /\ waiters' \in Seq(Threads) /\ t \in ToSet(waiters')
         /\ \A u \in Threads \ {t} : pc'[u] = pc[u] => Same(u)
         /\ Sole(waiters, t) /\ t \notin ToSet(waiters) => Sole(waiters', t)
<1>1. waiters \in Seq(Threads)
  BY DEF IInv, Typed
<1>2. Append(waiters, t) \in Seq(Threads)
  BY <1>1, AppendProperties
<1>3. ToSet(Append(waiters, t)) = ToSet(waiters) \cup {t}
  BY <1>1, AppendAsSet
<1>4. ASSUME NEW u \in Threads \ {t}
      PROVE  Sole(waiters, u) => Sole(waiters', u)
  BY <1>1, AppendSole
<1>5. Sole(waiters, t) /\ t \notin ToSet(waiters) => Sole(waiters', t)
  BY <1>1, AppendSole
<1> QED
  BY <1>2, <1>3, <1>4, <1>5 DEF Same

\* Only a thread that others have resumed has a WakeCount to spare.
LEMMA WaitSlipsStep ==
  ASSUME IInv, NEW t \in Threads, WaitSlips(t)
  PROVE  IInv'
<1>1. /\ sched.current = t /\ pc[t] = "run" /\ StaysAwake(sched, t)
      /\ waiters' = Append(waiters, t) /\ sched' = UseWake(sched, t)
      /\ count' = count - 1 /\ pc' = pc /\ resumes' = resumes
      /\ gaveUp' = gaveUp /\ resets' = resets /\ forgotten' = forgotten
  BY DEF WaitSlips, CanQueue, Running, History
<1>2. Typed /\ Sound(sched)
  BY DEF IInv
<1>3. /\ Sound(sched') /\ Spared(sched, sched', t)
      /\ sched'.suspended = sched.suspended /\ sched'.sleeping = sched.sleeping
      /\ sched'.wake[t] = IF sched.wake[t] > 0 THEN sched.wake[t] - 1 ELSE 0
  BY <1>1, <1>2, UseWakeSpares
<1>4. waiters' \in Seq(Threads) /\ \A u \in Threads \ {t} : Same(u)
  BY <1>1, LinesUp
<1>5. count' \in Int
  <2>1. count \in Int
    BY <1>2, Zenon DEF Typed
  <2> QED
    BY <1>1, <2>1
<1>6. Typed'
  BY <1>1, <1>2, <1>4, <1>5 DEF Typed
<1>7. \A u \in Threads \ {t} : Stands(u)'
  BY <1>1, <1>3, <1>4, OthersKeep
<1>8. ~Undisturbed'
  <2>1. sched'.wake[t] > 0
    BY <1>1 DEF StaysAwake
  <2>2. sched.wake[t] \in Nat
    BY <1>2 DEF Sound, SchedType
  <2>3. ~(sched.wake[t] <= 1)
    BY <1>3, <2>1, <2>2
  <2> QED
    BY <1>1, <2>3 DEF IInv, Stands, Entitled, Undisturbed
<1>9. ~Blocked(t)'
  BY <1>1, <1>3, CurrentIsAwake DEF Blocked
<1>10. Stands(t)'
  BY <1>8, <1>9 DEF Stands, Placed, Blocked
<1> QED
  BY <1>3, <1>6, <1>7, <1>8, <1>10 DEF IInv

LEMMA WaitBlocksStep ==
  ASSUME IInv, NEW t \in Threads, WaitBlocks(t)
  PROVE  IInv'
<1>1. /\ sched.current = t /\ pc[t] = "run" /\ count <= 0 /\ ~StaysAwake(sched, t)
      /\ waiters' = Append(waiters, t) /\ count' = count /\ resumes' = resumes
      /\ gaveUp' = gaveUp /\ resets' = resets /\ forgotten' = forgotten
      /\ \/ /\ sched' \in FakeTick(SuspendSelf(sched))
            /\ pc' = [pc EXCEPT ![t] = "wait"]
         \/ \E n \in Timeouts :
              /\ sched' \in FakeTick(TicksSleep(sched, t, n, TRUE))
              /\ pc' = [pc EXCEPT ![t] = "timed wait"]
  BY DEF WaitBlocks, CanQueue, Running, History
<1>2. /\ Typed /\ Sound(sched) /\ count \in Int
      /\ pc \in [Threads -> {"run", "wait", "timed wait"}]
  BY DEF IInv, Typed
<1>3. /\ waiters' \in Seq(Threads) /\ t \in ToSet(waiters')
      /\ \A u \in Threads \ {t} : pc'[u] = pc[u] => Same(u)
      /\ Sole(waiters, t) /\ t \notin ToSet(waiters) => Sole(waiters', t)
  BY <1>1, LinesUp
<1>4. \A i \in Int, n \in Nat : i <= 0 => i <= n
  OBVIOUS
<1>5. ASSUME Sound(sched'), Spared(sched, sched', t),
             NEW w \in {"wait", "timed wait"}, pc' = [pc EXCEPT ![t] = w],
             Placed(t)', Blocked(t)' \/ TimedOut(t)', Entitled(t) => Entitled(t)'
      PROVE  IInv'
  <2>1. Typed'
    BY <1>1, <1>2, <1>3, <1>5 DEF Typed
  <2>2. \A u \in Threads \ {t} : Stands(u)' /\ Unmoved(u)
    <3>1. \A u \in Threads \ {t} : Same(u)
      BY <1>2, <1>3, <1>5
    <3> QED
      BY <1>1, <1>5, <3>1, OthersKeep
  <2>3. Stands(t)'
    BY <1>1, <1>5 DEF IInv, Stands, Undisturbed
  <2>4. ~Pending(t) /\ ~Pending(t)'
    BY <1>1, <1>5 DEF Pending
  <2>5. /\ Cardinality(Leaving') = Cardinality(Leaving)
        /\ Cardinality(Leaving) \in Nat
    BY <2>2, <2>4, LeavingCounts
  <2>6. Answered'
    <3>1. count' \in Int /\ count' <= 0 /\ Cardinality(Leaving') \in Nat
      BY <1>1, <1>2, <2>5, Zenon
    <3> QED
      BY <1>4, <3>1, Zenon DEF Answered
  <2>7. Undisturbed' => Overdrawn'
    BY <1>1, <2>5 DEF IInv, Undisturbed, Overdrawn
  <2> QED
    BY <1>5, <2>1, <2>2, <2>3, <2>6, <2>7 DEF IInv
<1>6. Entitled(t) => Sole(waiters', t)
  BY <1>1, <1>3 DEF Entitled, Queued
<1>7. ~Dead(sched, t)
  BY <1>1, CurrentIsAwake
<1>8. CASE /\ sched' \in FakeTick(SuspendSelf(sched))
           /\ pc' = [pc EXCEPT ![t] = "wait"]
  <2>1. /\ Sound(sched') /\ Spared(sched, sched', t)
        /\ t \in sched'.suspended /\ sched'.wake[t] = 0
    BY <1>1, <1>2, <1>8, SuspendSelfBlocks
  <2>2. pc'[t] = "wait" /\ t \notin sched'.sleeping /\ ~Dead(sched', t)
    BY <1>2, <1>8, <2>1 DEF Sound, Settled, Disjoint, Told, Dead
  <2>3. Placed(t)' /\ Blocked(t)'
    BY <1>3, <2>1, <2>2 DEF Placed, Queued, Blocked
  <2>4. Entitled(t) => Entitled(t)'
    BY <1>6, <2>1, <2>2, <2>3 DEF Entitled
  <2> QED
    BY <1>5, <1>8, <2>1, <2>3, <2>4
<1>9. CASE \E n \in Timeouts :
             /\ sched' \in FakeTick(TicksSleep(sched, t, n, TRUE))
             /\ pc' = [pc EXCEPT ![t] = "timed wait"]
  <2>1. PICK n \in Timeouts : /\ sched' \in FakeTick(TicksSleep(sched, t, n, TRUE))
                              /\ pc' = [pc EXCEPT ![t] = "timed wait"]
    BY <1>9
  <2>2. n \in Nat /\ n > 0
    BY SemaphoreAssumption, ThreadAssumption
  <2>3. /\ Sound(sched') /\ Spared(sched, sched', t)
        /\ t \notin sched'.suspended /\ sched'.wake[t] = 0
        /\ t \in sched'.sleeping =>
             sched'.intr[t] /\ sched'.writes[t] /\ sched'.slot[t] \notin {NoSlot, 0}
        /\ t \notin sched'.sleeping => sched'.slot[t] = 0
        /\ ~Dead(sched', t)
    <3>1. TRUE \in BOOLEAN
      OBVIOUS
    <3> QED
      BY <1>1, <1>2, <2>1, <2>2, <3>1, SleepSelfBlocks
  <2>4. pc'[t] = "timed wait"
    BY <1>2, <2>1
  <2>5. Placed(t)'
    BY <1>3, <2>3, <2>4 DEF Placed, Queued
  <2>6. Blocked(t)' \/ TimedOut(t)'
    BY <2>3, <2>4 DEF Blocked, TimedOut
  <2>7. Entitled(t) => Entitled(t)'
    <3>1. sched'.wake[t] = 0 /\ pc'[t] # "run"
      BY <2>3, <2>4
    <3>2. sched'.wake[t] <= 1
      BY <3>1
    <3> QED
      BY <1>6, <2>3, <2>6, <3>1, <3>2, Zenon DEF Entitled
  <2> QED
    BY <1>5, <2>1, <2>3, <2>5, <2>6, <2>7
<1> QED
  BY <1>1, <1>8, <1>9

\* The thread that leaves takes its count, or its entry when its time is over.
LEMMA WaitReturnsStep ==
  ASSUME IInv, NEW t \in Threads, WaitReturns(t)
  PROVE  IInv'
<1>1. /\ sched.current = t /\ pc[t] # "run"
      /\ waiters' = IF TimedOut(t) THEN Without(waiters, t) ELSE waiters
      /\ count' = IF TimedOut(t) THEN count ELSE count - 1
      /\ sched' = PopSlot(sched, t)
      /\ pc' = [pc EXCEPT ![t] = "run"]
      /\ gaveUp' = (gaveUp \/ TimedOut(t))
      /\ forgotten' = forgotten \ {t}
      /\ resumes' = resumes /\ resets' = resets
  BY DEF WaitReturns
<1>2. /\ Typed /\ Sound(sched) /\ waiters \in Seq(Threads) /\ forgotten \subseteq Threads
      /\ pc \in [Threads -> {"run", "wait", "timed wait"}] /\ count \in Int
  BY DEF IInv, Typed
<1>3. /\ Sound(sched') /\ Spared(sched, sched', t)
      /\ sched'.suspended = sched.suspended /\ sched'.sleeping = sched.sleeping
      /\ sched'.wake = sched.wake
  BY <1>1, <1>2, PopSlotSpares
<1>4. /\ waiters' \in Seq(Threads)
      /\ \A u \in Threads \ {t} : u \in ToSet(waiters') <=> u \in ToSet(waiters)
      /\ \A u \in Threads : Sole(waiters, u) => Sole(waiters', u)
      /\ Sole(waiters, t) /\ TimedOut(t) => t \notin ToSet(waiters')
  BY <1>1, <1>2, WithoutSole
<1>5. /\ pc' \in [Threads -> {"run", "wait", "timed wait"}]
      /\ pc'[t] = "run" /\ \A u \in Threads \ {t} : pc'[u] = pc[u]
  BY <1>1, <1>2
<1>6. Typed'
  <2>1. count' \in Int
    <3>1. count \in Int
      BY <1>2
    <3>2. count - 1 \in Int
      BY <3>1
    <3> QED
      BY <1>1, <3>1, <3>2, Zenon
  <2>2. gaveUp' \in BOOLEAN
    BY <1>1
  <2> QED
    BY <1>1, <1>2, <1>4, <1>5, <2>1, <2>2 DEF Typed
<1>7. \A u \in Threads \ {t} : Stands(u)' /\ Unmoved(u)
  <2>1. \A u \in Threads \ {t} : Same(u)
    BY <1>1, <1>4, <1>5 DEF Same
  <2> QED
    BY <1>1, <1>3, <2>1, OthersKeep
<1>8. ~Blocked(t) /\ ~Blocked(t)'
  BY <1>1, <1>3, CurrentIsAwake DEF Blocked
<1>9. Entitled(t) => Entitled(t)'
  <2>1. ASSUME Entitled(t)
        PROVE  t \notin ToSet(waiters')
    BY <1>1, <1>4, <1>8, <2>1 DEF Entitled, Queued
  <2> QED
    BY <1>3, <1>4, <1>8, <2>1 DEF Entitled, Queued
<1>10. Stands(t)'
  <2>1. Placed(t)'
    BY <1>8 DEF Placed, Blocked
  <2> QED
    BY <1>1, <1>9, <2>1 DEF IInv, Stands, Undisturbed
<1>11. ~Pending(t)' /\ (~TimedOut(t) => Pending(t)) /\ (TimedOut(t) => ~Pending(t))
  BY <1>1, <1>5, <1>8 DEF Pending
<1>12. Undisturbed' => Overdrawn' /\ Answered'
  <2>1. CASE TimedOut(t)
    <3>1. Cardinality(Leaving') = Cardinality(Leaving)
      BY <1>7, <1>11, <2>1, LeavingCounts
    <3>2. ~NobodyGaveUp'
      BY <1>1, <2>1 DEF NobodyGaveUp
    <3> QED
      BY <1>1, <2>1, <3>1, <3>2 DEF IInv, Undisturbed, Overdrawn, Answered
  <2>2. CASE ~TimedOut(t)
    <3>1. /\ Cardinality(Leaving') = Cardinality(Leaving) - 1
          /\ Cardinality(Leaving) \in Nat /\ Cardinality(Threads) \in Nat
          /\ NobodyGaveUp' => NobodyGaveUp
      BY <1>1, <1>7, <1>11, <2>2, LeavingCounts
    <3>2. Undisturbed' => Overdrawn /\ Answered
      BY <1>1 DEF IInv, Undisturbed
    <3>3. count' = count - 1 /\ waiters' = waiters /\ count \in Int
      BY <1>1, <1>2, <2>2
    <3>4. Overdrawn => Overdrawn'
      BY <3>1, <3>3 DEF Overdrawn
    <3>5. Answered => Answered'
      BY <3>1, <3>3 DEF Answered
    <3> QED
      BY <3>2, <3>4, <3>5
  <2> QED
    BY <2>1, <2>2
<1> QED
  BY <1>3, <1>6, <1>7, <1>10, <1>12 DEF IInv

\* Resume and QuickResume do the same to the thread at the head of the list.
Wakes(h) ==
  /\ Sound(sched') /\ Spared(sched, sched', h)
  /\ h \notin sched'.suspended \cup sched'.sleeping
  /\ sched'.wake[h] = sched.wake[h] + 1
  /\ h \notin sched.sleeping => sched'.slot[h] = sched.slot[h]
  /\ h \in sched.sleeping => sched'.slot[h] # 0

\* A Signal with nobody on the list is kept in the count.
LEMMA PostKept ==
  ASSUME IInv, Post, waiters = <<>>, sched' = sched
  PROVE  IInv'
<1>1. /\ count' = count + 1 /\ waiters' = <<>> /\ pc' = pc /\ resumes' = resumes
      /\ gaveUp' = gaveUp /\ resets' = resets /\ forgotten' = forgotten
  BY DEF Post, History
<1>2. Sound(sched) /\ Typed /\ count \in Int
  BY DEF IInv, Typed
<1>3. Typed'
  <2>1. count' \in Int
    BY <1>1, <1>2
  <2> QED
    BY <1>1, <1>2, <2>1 DEF Typed
<1>4. \A u \in Threads : Same(u) /\ u \in Threads \ {NoThread}
  BY <1>1, ThreadAssumption DEF Same
<1>5. Spared(sched, sched', NoThread)
  BY DEF Spared
<1>6. \A u \in Threads : Stands(u)' /\ Unmoved(u)
  BY <1>1, <1>4, <1>5, OthersKeep
<1>7. /\ Cardinality(Leaving') = Cardinality(Leaving)
      /\ Cardinality(Leaving) \in Nat /\ Cardinality(Threads) \in Nat
  BY <1>6, LeavingCounts, ThreadAssumption
<1>8. Answered'
  BY <1>1 DEF Answered
<1>9. Overdrawn => Overdrawn'
  BY <1>1, <1>2, <1>7 DEF Overdrawn
<1> QED
  BY <1>1, <1>2, <1>3, <1>6, <1>8, <1>9 DEF IInv, Undisturbed

\* Otherwise it goes to the head of the list: one more thread is on its way out,
\* unless the time of this one was over already.
LEMMA PostWakes ==
  ASSUME IInv, Post, waiters # <<>>,
         NEW h \in Threads, h = Head(waiters), Wakes(h)
  PROVE  IInv'
<1>1. /\ count' = count + 1 /\ waiters' = Tail(waiters) /\ pc' = pc /\ resumes' = resumes
      /\ gaveUp' = gaveUp /\ resets' = resets /\ forgotten' = forgotten
  BY DEF Post, History
<1>2. Sound(sched') /\ Typed /\ count \in Int /\ waiters \in Seq(Threads)
  BY DEF IInv, Typed, Wakes
<1>3. /\ h \in ToSet(waiters) /\ waiters' \in Seq(Threads)
      /\ ToSet(waiters) = ToSet(waiters') \cup {h}
      /\ \A y : Sole(waiters, y) => Sole(waiters', y)
      /\ Sole(waiters, h) => h \notin ToSet(waiters')
  BY <1>1, <1>2, TailSole
<1>4. Typed'
  <2>1. count' \in Int
    BY <1>1, <1>2
  <2> QED
    BY <1>1, <1>2, <1>3, <2>1 DEF Typed
<1>5. \A u \in Threads \ {h} : Stands(u)' /\ Unmoved(u)
  <2>1. \A u \in Threads \ {h} : Same(u)
    BY <1>1, <1>3 DEF Same
  <2> QED
    BY <1>1, <2>1, OthersKeep DEF Wakes
<1>6. ~Blocked(h)' /\ Placed(h)'
  BY DEF Wakes, Placed, Blocked
<1>7. ASSUME Undisturbed
      PROVE  /\ Entitled(h) /\ pc[h] # "run" /\ sched.wake[h] = 0
             /\ Blocked(h) \/ TimedOut(h)
  BY <1>3, <1>7 DEF IInv, Stands, Entitled, Queued
<1>8. ASSUME Undisturbed
      PROVE  Entitled(h)'
  <2>1. sched'.wake[h] = 0 + 1 /\ h \notin ToSet(waiters') /\ Sole(waiters', h)
    BY <1>3, <1>7, <1>8 DEF Wakes, Entitled
  <2>2. sched'.wake[h] <= 1
    BY <2>1
  <2> QED
    BY <1>6, <2>1, <2>2, Zenon DEF Entitled, Queued
<1>9. Stands(h)'
  BY <1>1, <1>6, <1>8 DEF Stands, Undisturbed
<1>10. CASE Blocked(h)
  <2>1. ~Pending(h) /\ ~TimedOut(h) /\ pc[h] # "run"
    BY <1>10 DEF Pending, TimedOut, Blocked, IInv, Stands, Placed, Sound, Settled, Disjoint
  <2>2. Pending(h)'
    BY <1>1, <1>6, <1>10, <2>1 DEF Pending, TimedOut, Blocked, Wakes
  <2>3. /\ Cardinality(Leaving') = Cardinality(Leaving) + 1
        /\ Cardinality(Leaving) \in Nat /\ Cardinality(Threads) \in Nat
        /\ NobodyGaveUp' => NobodyGaveUp
    BY <1>1, <1>5, <2>1, <2>2, LeavingCounts
  <2>4. Overdrawn => Overdrawn'
    BY <1>1, <1>2, <2>3 DEF Overdrawn
  <2>5. Answered => Answered'
    BY <1>1, <1>2, <2>3 DEF Answered
  <2> QED
    BY <1>1, <1>2, <1>4, <1>5, <1>9, <2>4, <2>5 DEF IInv, Undisturbed
<1>11. CASE Undisturbed /\ ~Blocked(h)
  <2>1. TimedOut(h)
    BY <1>7, <1>11
  <2>2. TimedOut(h)'
    BY <1>1, <1>11, <2>1 DEF TimedOut, Wakes, Blocked
  <2>3. ~Pending(h) /\ ~Pending(h)' /\ ~NobodyGaveUp'
    BY <2>1, <2>2 DEF Pending, NobodyGaveUp
  <2>4. /\ Cardinality(Leaving') = Cardinality(Leaving)
        /\ Cardinality(Leaving) \in Nat /\ Cardinality(Threads) \in Nat
    BY <1>5, <2>3, LeavingCounts
  <2>5. Overdrawn => Overdrawn'
    BY <1>1, <1>2, <2>4 DEF Overdrawn
  <2>6. Answered'
    BY <2>3 DEF Answered
  <2> QED
    BY <1>1, <1>2, <1>4, <1>5, <1>9, <2>5, <2>6 DEF IInv, Undisturbed
<1>12. CASE ~Undisturbed
  BY <1>1, <1>2, <1>4, <1>5, <1>9, <1>12 DEF IInv, Undisturbed
<1> QED
  BY <1>10, <1>11, <1>12

LEMMA SignalStep ==
  ASSUME IInv, (\E t \in Threads : Signal(t)) \/ SignalFromISR
  PROVE  IInv'
<1>1. Post
  BY DEF Signal, SignalFromISR
<1>2. CASE waiters = <<>>
  <2>1. sched' = sched
    BY <1>2 DEF Signal, SignalFromISR
  <2> QED
    BY <1>1, <1>2, <2>1, PostKept
<1>3. CASE waiters # <<>>
  <2>1. waiters \in Seq(Threads) /\ Sound(sched)
    BY DEF IInv, Typed
  <2>2. PICK h \in Threads : h = Head(waiters)
    BY <1>3, <2>1, TailSole
  <2>3. h \in sched.sleeping => sched.intr[h] /\ sched.writes[h] /\ sched.slot[h] # NoSlot
    BY DEF IInv, Stands, Placed
  <2>4. FALSE \in BOOLEAN
    OBVIOUS
  <2> DEFINE r == Resume(sched, h, FALSE)
  <2>5. /\ Sound(r) /\ Spared(sched, r, h)
        /\ r.suspended = sched.suspended \ {h} /\ r.sleeping = sched.sleeping \ {h}
        /\ r.wake[h] = sched.wake[h] + 1
        /\ h \notin sched.sleeping => r.slot[h] = sched.slot[h]
        /\ h \in sched.sleeping /\ sched.writes[h] /\ sched.slot[h] # NoSlot => r.slot[h] # 0
    BY <2>1, <2>3, <2>4, ResumeWakes
  <2> HIDE DEF r
  <2>6. sched' = r \/ sched' \in QuickResume(sched, h)
    BY <1>3, <2>2 DEF Signal, SignalFromISR, r
  <2>7. ASSUME sched' = r
        PROVE  Wakes(h)
    BY <2>3, <2>5, <2>7 DEF Wakes
  <2>8. ASSUME sched' \in QuickResume(sched, h)
        PROVE  Wakes(h)
    BY <2>1, <2>3, <2>8, QuickResumeWakes DEF Wakes
  <2>9. Wakes(h)
    BY <2>6, <2>7, <2>8
  <2> QED
    BY <1>1, <1>3, <2>2, <2>9, PostWakes
<1> QED
  BY <1>2, <1>3

LEMMA FinalizeThreadStep ==
  ASSUME IInv, NEW c \in Threads, NEW t \in Threads, FinalizeThread(c, t)
  PROVE  IInv'
<1>1. /\ waiters' = IF pc[t] = "run" THEN waiters ELSE Without(waiters, t)
      /\ sched' \in Finalize(sched, t)
      /\ pc' = [pc EXCEPT ![t] = "run"]
      /\ gaveUp' = (gaveUp \/ pc[t] # "run")
      /\ forgotten' = forgotten \ {t}
      /\ count' = count /\ resumes' = resumes /\ resets' = resets
  BY DEF FinalizeThread
<1>2. /\ Typed /\ Sound(sched) /\ waiters \in Seq(Threads) /\ forgotten \subseteq Threads
      /\ pc \in [Threads -> {"run", "wait", "timed wait"}] /\ count \in Int
  BY DEF IInv, Typed
<1>a. sched' \in Finalize(sched, t) /\ Sound(sched)
  BY <1>1, <1>2, Zenon
<1>3. /\ Sound(sched') /\ Spared(sched, sched', t)
      /\ t \notin sched'.suspended \cup sched'.sleeping
      /\ sched'.wake[t] = sched.wake[t]
  BY <1>a, FinalizeSpares
<1>4. /\ waiters' \in Seq(Threads)
      /\ \A u \in Threads \ {t} : u \in ToSet(waiters') <=> u \in ToSet(waiters)
      /\ \A u \in Threads : Sole(waiters, u) => Sole(waiters', u)
      /\ Sole(waiters, t) /\ pc[t] # "run" => t \notin ToSet(waiters')
  BY <1>1, <1>2, WithoutSole
<1>5. /\ pc' \in [Threads -> {"run", "wait", "timed wait"}]
      /\ pc'[t] = "run" /\ \A u \in Threads \ {t} : pc'[u] = pc[u]
  BY <1>1, <1>2
<1>6. Typed'
  <2>1. gaveUp' \in BOOLEAN
    BY <1>1
  <2> QED
    BY <1>1, <1>2, <1>4, <1>5, <2>1 DEF Typed
<1>7. \A u \in Threads \ {t} : Stands(u)' /\ Unmoved(u)
  <2>1. \A u \in Threads \ {t} : Same(u)
    BY <1>1, <1>4, <1>5 DEF Same
  <2> QED
    BY <1>1, <1>3, <2>1, OthersKeep
<1>8. ~Blocked(t)' /\ Placed(t)'
  BY <1>3 DEF Placed, Blocked
<1>9. Entitled(t) => Entitled(t)'
  <2>1. ASSUME Entitled(t)
        PROVE  t \notin ToSet(waiters')
    BY <1>1, <1>4, <2>1 DEF Entitled, Queued
  <2> QED
    BY <1>3, <1>4, <1>8, <2>1 DEF Entitled, Queued
<1>10. Stands(t)'
  BY <1>1, <1>8, <1>9 DEF IInv, Stands, Undisturbed
<1>11. ~Pending(t)' /\ ~TimedOut(t)'
  BY <1>5 DEF Pending, TimedOut
<1>12. CASE pc[t] = "run"
  <2>1. ~Pending(t) /\ ~TimedOut(t)
    BY <1>12 DEF Pending, TimedOut
  <2>2. /\ Cardinality(Leaving') = Cardinality(Leaving)
        /\ NobodyGaveUp' => NobodyGaveUp
    BY <1>1, <1>7, <1>11, <2>1, LeavingCounts
  <2>3. waiters' = waiters
    BY <1>1, <1>12
  <2>4. Undisturbed' => Overdrawn' /\ Answered'
    BY <1>1, <2>2, <2>3 DEF IInv, Undisturbed, Overdrawn, Answered
  <2> QED
    BY <1>3, <1>6, <1>7, <1>10, <2>4 DEF IInv
<1>13. CASE pc[t] # "run"
  <2>1. Answered'
    BY <1>1, <1>13 DEF Answered, NobodyGaveUp
  <2>2. /\ Cardinality(Leaving) \in Nat /\ Cardinality(Threads) \in Nat
        /\ \/ Cardinality(Leaving') = Cardinality(Leaving)
           \/ Cardinality(Leaving') = Cardinality(Leaving) - 1
    BY <1>7, <1>11, LeavingCounts
  <2>3. count' = count /\ count \in Int
    BY <1>1, <1>2
  <2>4. Overdrawn => Overdrawn'
    BY <2>2, <2>3 DEF Overdrawn
  <2> QED
    BY <1>1, <1>3, <1>6, <1>7, <1>10, <2>1, <2>4 DEF IInv, Undisturbed
<1> QED
  BY <1>12, <1>13

\* Reset and Cancel take threads off the list without waking them: from then on
\* these are blocked and forgotten.
LEMMA ForgetsStep ==
  ASSUME IInv, NEW ws \in Seq(Threads), Forgets(ws),
         ToSet(ws) \subseteq ToSet(waiters),
         \A u \in Threads : Sole(waiters, u) => Sole(ws, u),
         UNCHANGED <<sched, pc, resumes, gaveUp>>, count' \in Int
  PROVE  /\ Sound(sched') /\ Typed'
         /\ \A u \in Threads : Stands(u)' /\ Unmoved(u)
<1>1. /\ waiters' = ws /\ resets < MaxResets /\ resets' = resets + 1
      /\ forgotten' = forgotten \cup {t \in ToSet(waiters) \ ToSet(ws) : Blocked(t)}
  BY DEF Forgets
<1>2. /\ Sound(sched) /\ Typed /\ waiters \in Seq(Threads) /\ forgotten \subseteq Threads
      /\ resets \in 0..MaxResets
  BY Zenon DEF IInv, Typed
<1>3. resets' \in 0..MaxResets
  BY <1>1, <1>2, SemaphoreAssumption
<1>4. forgotten' \subseteq Threads
  BY <1>1, <1>2, ToSetOfSeq
<1>5. Typed'
  BY <1>1, <1>2, <1>3, <1>4, Zenon DEF Typed
<1>6. ASSUME NEW u \in Threads
      PROVE  Stands(u)' /\ Unmoved(u)
  <2>1. Placed(u) /\ (Undisturbed => Entitled(u))
    BY DEF IInv, Stands
  <2>2. Placed(u)'
    BY <1>1, <2>1 DEF Placed, Blocked, Queued
  <2>3. Entitled(u) => Entitled(u)'
    BY <1>1 DEF Entitled, Blocked, Queued, TimedOut
  <2>4. Unmoved(u)
    BY DEF Unmoved, Pending, TimedOut, Blocked
  <2> QED
    BY <2>1, <2>2, <2>3, <2>4 DEF Stands, Undisturbed
<1> QED
  BY <1>2, <1>5, <1>6

LEMMA ResetStep ==
  ASSUME IInv, NEW c \in Threads, NEW n \in 0..MaxCount, Reset(c, n)
  PROVE  IInv'
<1>1. /\ pc[c] = "run" /\ Forgets(<<>>) /\ waiters' = <<>>
      /\ UNCHANGED <<sched, pc, resumes, gaveUp>>
  BY DEF Reset, Running, Forgets
<1>2. count' = n /\ n \in Nat
  BY SemaphoreAssumption DEF Reset
<1>3. /\ <<>> \in Seq(Threads) /\ ToSet(<<>>) \subseteq ToSet(waiters)
      /\ \A u \in Threads : Sole(waiters, u) => Sole(<<>>, u)
      /\ count' \in Int
  BY <1>2 DEF ToSet, Sole
<1>4. Sound(sched') /\ Typed' /\ \A u \in Threads : Stands(u)' /\ Unmoved(u)
  BY <1>1, <1>3, ForgetsStep
<1>5. /\ Cardinality(Leaving') = Cardinality(Leaving)
      /\ Cardinality(Leaving) \in Nat /\ Cardinality(Threads) \in Nat
  BY <1>4, LeavingCounts, ThreadAssumption
<1>6. Cardinality(Leaving) <= Cardinality(Threads) - 1
  BY <1>1, OneIsNotLeaving
<1>7. Overdrawn'
  BY <1>2, <1>5, <1>6 DEF Overdrawn
<1>8. Answered'
  BY <1>1 DEF Answered
<1> QED
  BY <1>4, <1>7, <1>8 DEF IInv

LEMMA CancelThreadStep ==
  ASSUME IInv, NEW c \in Threads, NEW t \in Threads, CancelThread(c, t)
  PROVE  IInv'
<1> DEFINE ws == Without(waiters, t)
<1>1. /\ Forgets(ws) /\ waiters' = ws /\ UNCHANGED <<sched, count, pc, resumes, gaveUp>>
  BY DEF CancelThread, Forgets
<1>2. waiters \in Seq(Threads) /\ count \in Int
  BY DEF IInv, Typed
<1>3. /\ ws \in Seq(Threads)
      /\ \A y : y # t => (y \in ToSet(ws) <=> y \in ToSet(waiters))
      /\ \A u : Sole(waiters, u) => Sole(ws, u)
  BY <1>2, WithoutSole
<1>4. t \notin ToSet(waiters) => ws = waiters
  BY DEF Without
<1>5. waiters = <<>> => ws = <<>>
  BY DEF Without, ToSet
<1> HIDE DEF ws
<1>6. Sound(sched') /\ Typed' /\ \A u \in Threads : Stands(u)' /\ Unmoved(u)
  BY <1>1, <1>2, <1>3, <1>4, ForgetsStep
<1>7. /\ Cardinality(Leaving') = Cardinality(Leaving)
      /\ NobodyGaveUp' => NobodyGaveUp
  BY <1>1, <1>6, LeavingCounts, ThreadAssumption
<1>8. Undisturbed' => Overdrawn' /\ Answered'
  BY <1>1, <1>5, <1>7 DEF IInv, Undisturbed, Overdrawn, Answered
<1> QED
  BY <1>6, <1>8 DEF IInv

\* From here on only Placed is left of what is said of the threads.
LEMMA ResumeThreadStep ==
  ASSUME IInv, NEW c \in Threads, NEW t \in Threads, ResumeThread(c, t)
  PROVE  IInv'
<1>1. /\ resumes < MaxResumes /\ resumes' = resumes + 1
      /\ sched' = Resume(sched, t, FALSE)
      /\ UNCHANGED <<count, waiters, pc, gaveUp, resets, forgotten>>
  BY DEF ResumeThread
<1>2. Typed /\ Sound(sched) /\ Placed(t)
  BY DEF IInv, Stands
<1>3. resumes' \in 0..MaxResumes /\ resumes' # 0
  <2>1. resumes \in 0..MaxResumes /\ MaxResumes \in Nat
    BY <1>2, SemaphoreAssumption, Zenon DEF Typed
  <2> QED
    BY <1>1, <2>1
<1>4. Typed'
  BY <1>1, <1>2, <1>3 DEF Typed
<1>5. /\ Sound(sched') /\ Spared(sched, sched', t)
      /\ sched'.suspended = sched.suspended \ {t} /\ sched'.sleeping = sched.sleeping \ {t}
  BY <1>1, <1>2, ResumeWakes DEF Placed
<1>6. ASSUME NEW u \in Threads \ {t}
      PROVE  Stands(u)'
  <2>1. Same(u)
    BY <1>1 DEF Same
  <2> QED
    BY <1>3, <1>5, <2>1, OthersKeep
<1>7. Stands(t)'
  BY <1>3, <1>5 DEF Stands, Placed, Blocked, Undisturbed
<1> QED
  BY <1>3, <1>4, <1>5, <1>6, <1>7 DEF IInv, Undisturbed

-----------------------------------------------------------------------------
(* The theorems.                                                           *)

LEMMA InitHolds ==
  ASSUME Init
  PROVE  IInv
<1>1. /\ sched \in StartedScheds /\ count = InitialCount /\ waiters = <<>>
      /\ pc = [t \in Threads |-> "run"] /\ gaveUp = FALSE
      /\ resumes = 0 /\ resets = 0 /\ forgotten = {}
  BY DEF Init
<1>2. /\ Sound(sched) /\ sched.suspended = {} /\ sched.sleeping = {}
      /\ \A t \in Threads : sched.wake[t] \in 0..1
  BY <1>1, StartedIsSound
<1>3. MaxResumes \in Nat /\ MaxResets \in Nat /\ count \in Nat
  BY <1>1, SemaphoreAssumption
<1>4. Typed
  <2>1. <<>> \in Seq(Threads) /\ 0 \in 0..MaxResumes /\ 0 \in 0..MaxResets /\ count \in Int
    BY <1>3
  <2> QED
    BY <1>1, <2>1 DEF Typed
<1>5. ASSUME NEW t \in Threads
      PROVE  Stands(t) /\ ~Pending(t)
  <2>1. /\ pc[t] = "run" /\ ~Blocked(t) /\ sched.wake[t] <= 1
        /\ t \notin ToSet(waiters) /\ Sole(waiters, t)
    BY <1>1, <1>2 DEF Blocked, ToSet, Sole
  <2> QED
    BY <2>1 DEF Stands, Placed, Entitled, Blocked, Queued, Pending
<1>6. Overdrawn
  <2>1. Cardinality(Leaving) <= Cardinality(Threads) - 1
    BY <1>1, OneIsNotLeaving, ThreadAssumption
  <2>2. /\ Leaving \subseteq Threads /\ IsFiniteSet(Threads)
    BY ThreadAssumption DEF Leaving
  <2>3. Cardinality(Leaving) \in Nat /\ Cardinality(Threads) \in Nat
    BY <2>2, FS_Subset, FS_CardinalityType
  <2> QED
    BY <1>3, <2>1, <2>3 DEF Overdrawn
<1>7. Answered
  BY <1>1 DEF Answered
<1> QED
  BY <1>2, <1>4, <1>5, <1>6, <1>7 DEF IInv

LEMMA QuietSteps ==
  ASSUME IInv,
         \/ ClockFires
         \/ TimerInterrupt
         \/ \E t \in Threads : YieldCPU(t)
  PROVE  IInv'
<1>1. Sound(sched) /\ UNCHANGED <<count, waiters, pc, History>>
  BY DEF IInv, ClockFires, TimerInterrupt, YieldCPU
<1>2. CASE ClockFires
  BY <1>1, <1>2, RaiseSpares, SchedulerStep DEF ClockFires
<1>3. CASE TimerInterrupt
  BY <1>1, <1>3, SwitchSpares, SchedulerStep DEF TimerInterrupt
<1>4. CASE \E t \in Threads : YieldCPU(t)
  BY <1>1, <1>4, SwitchSpares, SchedulerStep DEF YieldCPU
<1> QED
  BY <1>2, <1>3, <1>4

LEMMA StepHolds ==
  ASSUME IInv, [Next]_vars
  PROVE  IInv'
<1>1. ASSUME NEW t \in Threads, WaitTakes(t)
      PROVE  IInv'
  BY <1>1, WaitTakesStep
<1>2. ASSUME NEW t \in Threads, WaitSlips(t)
      PROVE  IInv'
  BY <1>2, WaitSlipsStep
<1>3. ASSUME NEW t \in Threads, WaitBlocks(t)
      PROVE  IInv'
  BY <1>3, WaitBlocksStep
<1>4. ASSUME NEW t \in Threads, WaitReturns(t)
      PROVE  IInv'
  BY <1>4, WaitReturnsStep
<1>5. CASE (\E t \in Threads : Signal(t)) \/ SignalFromISR
  BY <1>5, SignalStep
<1>6. ASSUME NEW c \in Threads, NEW t \in Threads, FinalizeThread(c, t)
      PROVE  IInv'
  BY <1>6, FinalizeThreadStep
<1>7. ASSUME NEW c \in Threads, NEW t \in Threads, CancelThread(c, t)
      PROVE  IInv'
  BY <1>7, CancelThreadStep
<1>8. ASSUME NEW c \in Threads, NEW t \in Threads, ResumeThread(c, t)
      PROVE  IInv'
  BY <1>8, ResumeThreadStep
<1>9. ASSUME NEW c \in Threads, NEW n \in 0..MaxCount, Reset(c, n)
      PROVE  IInv'
  BY <1>9, ResetStep
<1>10. CASE \/ ClockFires
            \/ TimerInterrupt
            \/ \E t \in Threads : YieldCPU(t)
  BY <1>10, QuietSteps
<1>11. CASE UNCHANGED vars
  <2>1. UNCHANGED <<sched, count, waiters, pc, History>>
    BY <1>11 DEF vars
  <2>2. Sound(sched') /\ Spared(sched, sched', NoThread)
    BY <2>1 DEF IInv, Spared
  <2> QED
    BY <2>1, <2>2, SchedulerStep
<1> QED
  BY <1>1, <1>2, <1>3, <1>4, <1>5, <1>6, <1>7, <1>8, <1>9, <1>10, <1>11 DEF Next

LEMMA Invariance == Spec => []IInv
<1>1. Init => IInv
  BY InitHolds
<1>2. IInv /\ [Next]_vars => IInv'
  BY StepHolds
<1> QED
  BY <1>1, <1>2, PTL DEF Spec

\* Whoever is blocked in Wait is on the waiter list, where the next Signals find
\* it, whatever other threads do; but for those a Reset or Cancel has forgotten
\* (Semaphore::Wait, Signal, Reset, Cancel).
THEOREM BlockedAreQueued == Spec => []BlockedIsQueued
<1>1. IInv => BlockedIsQueued
  BY DEF IInv, Stands, Placed, BlockedIsQueued
<1> QED
  BY <1>1, Invariance, PTL

\* The waiter list names each thread that waits once, no thread that has left Wait
\* or is gone, and none that a Signal has woken; and no WakeCount is left over for
\* the next Suspend to return early.  So a Signal that takes the head of the list
\* and resumes it has done all there is to do.
THEOREM ListIsExact == Spec => []WaiterListIsExact
<1>1. IInv => WaiterListIsExact
  <2> SUFFICES ASSUME IInv PROVE WaiterListIsExact
    OBVIOUS
  <2>1. Sound(sched) /\ Typed /\ waiters \in Seq(Threads)
    BY DEF IInv, Typed
  <2>2. Undisturbed => \A t \in Threads : Entitled(t)
    BY DEF IInv, Stands
  <2>3. TypeOK
    BY <2>1, Zenon DEF Typed, TypeOK, Sound
  <2>4. WokenIsDequeued /\ WakeCountsAreSpent
    BY <2>2 DEF Entitled, Pending, WokenIsDequeued, WakeCountsAreSpent
  <2>5. WaitersAreWaiting
    <3>1. ToSet(waiters) \subseteq Threads /\ \A i \in DOMAIN waiters : waiters[i] \in Threads
      BY <2>1, ToSetOfSeq, ElementOfSeq, LenProperties
    <3> QED
      BY <2>2, <3>1 DEF Entitled, Queued, Sole, WaitersAreWaiting, IsInjective
  <2> QED
    BY <2>3, <2>4, <2>5 DEF WaiterListIsExact
<1> QED
  BY <1>1, Invariance, PTL

\* However many threads take the count before those woken for it do, it falls
\* below zero by at most one for every other thread.
THEOREM OverdraftBounded == Spec => []OverdraftIsBounded
<1>1. IInv => OverdraftIsBounded
  <2>1. ASSUME Overdrawn, count \in Int
        PROVE  count >= 1 - Cardinality(Threads)
    <3>1. Leaving \subseteq Threads /\ IsFiniteSet(Threads)
      BY ThreadAssumption DEF Leaving
    <3>2. Cardinality(Leaving) \in Nat /\ Cardinality(Threads) \in Nat
      BY <3>1, FS_Subset, FS_CardinalityType
    <3> QED
      BY <2>1, <3>2 DEF Overdrawn
  <2> QED
    BY <2>1, Zenon DEF IInv, Typed, OverdraftIsBounded
<1> QED
  BY <1>1, Invariance, PTL

\* Until a wait times out or ends with its thread, a positive count with threads
\* still on the list means that as many woken threads are about to take it.
THEOREM NoSignalIdle == Spec => []NoIdleSignal
<1>1. IInv => NoIdleSignal
  BY Zenon DEF IInv, Answered, NobodyGaveUp, Leaving, NoIdleSignal
<1> QED
  BY <1>1, Invariance, PTL

=============================================================================
