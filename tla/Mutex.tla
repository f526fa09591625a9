------------------------------- MODULE Mutex -------------------------------
(***************************************************************************)
(* One kernel mutex (src/kernel/mutex.cpp) on top of the scheduler.  A     *)
(* release hands the mutex to the oldest waiter before that thread runs;   *)
(* what Acquire does after its Suspend or Sleep is a step of its own       *)
(* (AcquireReturns), made when the thread is picked again and before       *)
(* interrupts are enabled.                                                 *)
(*                                                                         *)
(* Acquire with tryAcquire set returns false in any case, and so it does    *)
(* when the waiter queue is full; neither changes anything.                *)
(*                                                                         *)
(* The clients are disciplined: a thread releases what an Acquire gave it  *)
(* and does not acquire again before.  The lock of the window manager is   *)
(* free whenever a thread is finalized; Scheduler models a Finalize that   *)
(* has to wait for it.                                                     *)
(***************************************************************************)
EXTENDS Thread

CONSTANTS
  MaxWaiters,   \* MAX_WAITERS, the capacity of the waiter queue
  Timeouts,     \* the timeouts, in ticks, of timed acquires
  Mortal,       \* the threads that may be finalized
  MaxResumes,   \* bound: how often sys_thread_resume is called
  MaxCancels,   \* bound: how often sys_mutex_cancel is called
  Null          \* nullptr, in Owner and in the waiter queue

ASSUME MutexAssumption ==
  /\ MaxWaiters \in Nat \ {0}
  /\ Timeouts \subseteq 1..MaxTicks
  /\ Mortal \subseteq Threads
  /\ MaxResumes \in Nat /\ MaxCancels \in Nat
  /\ Null \notin Threads

VARIABLES
  sched,    \* the scheduler state, see Thread
  count,    \* Mutex::Count
  owner,    \* Mutex::Owner
  waiters,  \* Mutex::Waiters, oldest first; Cancel leaves null entries
  pc,       \* where each thread is: "out", "in" (Acquire returned true),
            \* "wait" in Acquire's Suspend, "timed wait" in its Sleep
  halted,   \* Acquire found the caller the owner and stopped the machine
  resumes,  \* how often a thread was resumed behind the mutex's back
  cancels,  \* how often the wait of a thread was cancelled by another
  forgotten \* history: the threads that were blocked then

History == <<resumes, cancels, forgotten>>
vars == <<sched, count, owner, waiters, pc, halted, History>>

TypeOK ==
  /\ sched \in SchedType
  /\ count \in 0..1
  /\ owner \in Threads \cup {Null}
  /\ waiters \in Seq(Threads \cup {Null})
  /\ pc \in [Threads -> {"out", "in", "wait", "timed wait"}]
  /\ halted \in BOOLEAN
  /\ resumes \in 0..MaxResumes /\ cancels \in 0..MaxCancels
  /\ forgotten \subseteq Threads

Init ==
  /\ sched \in StartedScheds
  /\ count = 0
  /\ owner = Null
  /\ waiters = <<>>
  /\ pc = [t \in Threads |-> "out"]
  /\ halted = FALSE
  /\ resumes = 0 /\ cancels = 0
  /\ forgotten = {}

-----------------------------------------------------------------------------
Waiting(t) == pc[t] \in {"wait", "timed wait"}

InterruptsOn ==
  ~halted /\ (sched.current \in Threads => ~Waiting(sched.current))

Running(t) == sched.current = t /\ t \in Threads /\ InterruptsOn

Blocked(t) == t \in sched.suspended \cup sched.sleeping

Free(t) == count = 0 \/ owner = t

AcquireTakes(t) ==
  /\ Running(t) /\ pc[t] = "out" /\ count = 0
  /\ count' = 1 /\ owner' = t
  /\ pc' = [pc EXCEPT ![t] = "in"]
  /\ UNCHANGED <<sched, waiters, halted, History>>

\* "Multiple locks on mutex": cpuSystemHalt
AcquireHalts(t) ==
  /\ Running(t) /\ pc[t] = "out" /\ count # 0 /\ owner = t
  /\ halted' = TRUE
  /\ UNCHANGED <<sched, count, owner, waiters, pc, History>>

CanQueue(t) ==
  Running(t) /\ pc[t] = "out" /\ ~Free(t) /\ Len(waiters) < MaxWaiters

\* Suspend or Sleep returns at once because of a spare WakeCount: Acquire
\* returns true although the mutex is not the caller's.
AcquireSlips(t) ==
  /\ CanQueue(t) /\ StaysAwake(sched, t)
  /\ waiters' = Append(waiters, t)
  /\ sched' = UseWake(sched, t)
  /\ pc' = [pc EXCEPT ![t] = "in"]
  /\ UNCHANGED <<count, owner, halted, History>>

AcquireBlocks(t) ==
  /\ CanQueue(t) /\ ~StaysAwake(sched, t)
  /\ waiters' = Append(waiters, t)
  /\ \/ /\ sched' \in FakeTick(SuspendSelf(sched))
        /\ pc' = [pc EXCEPT ![t] = "wait"]
     \/ \E n \in Timeouts :
          /\ sched' \in FakeTick(TicksSleep(sched, t, n, TRUE))
          /\ pc' = [pc EXCEPT ![t] = "timed wait"]
  /\ UNCHANGED <<count, owner, halted, History>>

TimedOut(t) == pc[t] = "timed wait" /\ sched.slot[t] = 0

\* Mutant of AcquireReturns: a timeout counts as success.
AcquireReturnsTrue(t) ==
  /\ sched.current = t /\ Waiting(t) /\ ~halted
  /\ waiters' = IF TimedOut(t) THEN Without(waiters, t) ELSE waiters
  /\ pc' = [pc EXCEPT ![t] = "in"]
  /\ sched' = PopSlot(sched, t)
  /\ forgotten' = forgotten \ {t}
  /\ UNCHANGED <<count, owner, halted, resumes, cancels>>

AcquireReturns(t) ==
  /\ sched.current = t /\ Waiting(t) /\ ~halted
  /\ waiters' = IF TimedOut(t) THEN Without(waiters, t) ELSE waiters
  /\ pc' = [pc EXCEPT ![t] = IF TimedOut(t) THEN "out" ELSE "in"]
  /\ sched' = PopSlot(sched, t)
  /\ forgotten' = forgotten \ {t}
  /\ UNCHANGED <<count, owner, halted, resumes, cancels>>

\* the queue from its first live entry on
LiveTail(q) ==
  LET live == {i \in DOMAIN q : q[i] # Null}
  IN  IF live = {} THEN <<>> ELSE SubSeq(q, Min(live), Len(q))

\* nobody waits
SetFree == count' = 0 /\ owner' = Null /\ waiters' = <<>> /\ UNCHANGED sched

\* Mutants of HandOver: the new owner is not resumed; the newest waiter gets it.
HandOverSilently(line) ==
  IF line = <<>> THEN SetFree
  ELSE /\ count' = 1 /\ owner' = Head(line) /\ waiters' = Tail(line)
       /\ UNCHANGED sched

HandOverNewest(line) ==
  IF line = <<>> THEN SetFree
  ELSE /\ count' = 1 /\ owner' = Last(line) /\ waiters' = Front(line)
       /\ sched' = Resume(sched, Last(line), FALSE)

\* The oldest waiter becomes the owner before it runs.
HandOver(line) ==
  IF line = <<>> THEN SetFree
  ELSE /\ count' = 1 /\ owner' = Head(line) /\ waiters' = Tail(line)
       /\ sched' = Resume(sched, Head(line), FALSE)

Release(t) ==
  /\ Running(t) /\ pc[t] = "in"
  /\ pc' = [pc EXCEPT ![t] = "out"]
  /\ \/ owner = t /\ HandOver(LiveTail(waiters))
     \/ owner # t /\ UNCHANGED <<sched, count, owner, waiters>>
  /\ UNCHANGED <<halted, History>>

\* Mutant of Cancelled: the entry stays.
CancelledNot(q, t) == q

\* Cancel: Queue::ReplaceAll, whose loop does nothing when the queue is full
Cancelled(q, t) ==
  IF Len(q) = MaxWaiters THEN q
  ELSE [i \in DOMAIN q |-> IF q[i] = t THEN Null ELSE q[i]]

\* Thread::Finalize cancels the wait of the thread; it does not release the
\* mutexes the thread owns.
FinalizeThread(c, t) ==
  /\ Running(c) /\ t \in Mortal /\ Known(sched, t)
  /\ waiters' = IF Waiting(t) THEN Cancelled(waiters, t) ELSE waiters
  /\ sched' \in Finalize(sched, t)
  /\ forgotten' = forgotten \ {t}
  /\ UNCHANGED <<count, owner, pc, halted, resumes, cancels>>

\* sys_mutex_cancel: the thread is no longer in the line, and still blocked.
CancelThread(c, t) ==
  /\ Running(c) /\ Known(sched, t)
  /\ cancels < MaxCancels /\ cancels' = cancels + 1
  /\ waiters' = Cancelled(waiters, t)
  /\ forgotten' = IF Blocked(t) /\ t \notin ToSet(waiters') THEN forgotten \cup {t}
                                                          ELSE forgotten
  /\ UNCHANGED <<sched, count, owner, pc, halted, resumes>>

\* sys_thread_resume on a thread that may be inside Acquire
ResumeThread(c, t) ==
  /\ Running(c) /\ Known(sched, t)
  /\ resumes < MaxResumes /\ resumes' = resumes + 1
  /\ sched' = Resume(sched, t, FALSE)
  /\ UNCHANGED <<count, owner, waiters, pc, halted, cancels, forgotten>>

YieldCPU(t) ==
  /\ Running(t)
  /\ sched' \in FakeTick(sched)
  /\ UNCHANGED <<count, owner, waiters, pc, halted, History>>

ClockFires ==
  /\ sched.rtc # "raised"
  /\ sched' = Raise(sched)
  /\ UNCHANGED <<count, owner, waiters, pc, halted, History>>

TimerInterrupt ==
  /\ InterruptsOn /\ sched.rtc # "clear"
  /\ sched' \in TickHandler(sched)
  /\ UNCHANGED <<count, owner, waiters, pc, halted, History>>

Next ==
  \/ \E t \in Threads : AcquireTakes(t) \/ AcquireHalts(t) \/ AcquireSlips(t)
  \/ \E t \in Threads : AcquireBlocks(t) \/ AcquireReturns(t)
  \/ \E t \in Threads : Release(t) \/ YieldCPU(t)
  \/ \E c, t \in Threads : FinalizeThread(c, t) \/ ResumeThread(c, t) \/ CancelThread(c, t)
  \/ ClockFires
  \/ TimerInterrupt

\* The clock fires for ever, its interrupt is served, a thread picked inside
\* Acquire goes on to its return, and a thread that holds the mutex releases it
\* if it gets the processor again and again.
Fairness ==
  /\ WF_vars(ClockFires)
  /\ WF_vars(TimerInterrupt)
  /\ \A t \in Threads : WF_vars(AcquireReturns(t)) /\ SF_vars(Release(t))

Spec == Init /\ [][Next]_vars

FairSpec == Spec /\ Fairness

-----------------------------------------------------------------------------
(* Properties.                                                             *)

Queued(t) == t \in ToSet(waiters)

\* Nobody has resumed a thread but the mutex.  (A waiter resumed by another
\* thread leaves Acquire with the answer true and does not own the mutex.)
Undisturbed == resumes = 0

\* A thread whose Acquire returned true owns the mutex until it releases it;
\* so no two threads are inside at the same time, whatever timeouts, deaths of
\* waiters and preemptions come between.
MutualExclusion == Undisturbed => \A t \in Threads : pc[t] = "in" => owner = t /\ count = 1

\* The thread the mutex was handed to has been woken for it: the mutex is never
\* held by a thread that is blocked waiting for it.
OwnerIsAwake == \A t \in Threads :
  owner = t /\ Waiting(t) => ~Blocked(t)

\* The mutex is not free while a thread is blocked waiting for it, and every
\* blocked thread is on the waiter list where a release will find it, but for
\* those whose wait another thread has cancelled: they stay blocked until their
\* time is over.
NoOrphanedWaiter == \A t \in Threads : Blocked(t) =>
  t \in forgotten \/ (count = 1 /\ Queued(t))

\* Whoever waits is in the line of a mutex that has an owner, and the owner runs:
\* a release is on its way to every waiter.
NobodyIsStranded == TypeOK /\ OwnerIsAwake /\ NoOrphanedWaiter

\* The mutex is never handed to a thread that has been finalized while it was
\* waiting: nobody would release it again.  (With the waiter queue full it may
\* be, because Cancel's ReplaceAll does nothing then; the entries that waits
\* cancelled by others leave behind fill it.  And an entry left behind by a waiter
\* that was resumed by others is never cleared.)
NotHandedToTheDead ==
  [][Undisturbed /\ cancels = 0 /\ owner' # owner /\ owner' # Null =>
       ~Dead(sched', owner')]_vars

\* A thread that waits gets the mutex, if those inside release it.
WaiterGetsIn == \A t \in Threads : Waiting(t) ~> pc[t] = "in"

\* those a queue still lists, in its order
Line(q) ==
  LET line[n \in 0..Len(q)] ==
        IF n = 0 THEN <<>>
        ELSE IF q[n] = Null THEN line[n - 1] ELSE Append(line[n - 1], q[n])
  IN  line[Len(q)]

\* The mutex is a lock with a line (FifoLock): the entries of the waiter list
\* that Cancel has not cleared are the line.  Once a thread was resumed behind
\* the mutex it may stand in the line twice, or hold nothing and be inside.
Lock == INSTANCE FifoLock WITH Nobody <- Null, holder <- owner, line <- Line(waiters)

ImplementsFifoLock ==
  Lock!Init /\ [][Undisturbed => Lock!Next]_(Lock!vars)

=============================================================================
