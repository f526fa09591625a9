----------------------------- MODULE Semaphore -----------------------------
(***************************************************************************)
(* One kernel semaphore (src/kernel/semaphore.cpp) on top of the           *)
(* scheduler.  Threads wait for it, with or without a timeout, and signal  *)
(* it; interrupt handlers signal it too, and switch to the woken thread at *)
(* once.                                                                   *)
(*                                                                         *)
(* Wait runs with interrupts disabled, but the switch inside it does not:  *)
(* the processor goes to another thread, and what follows the switch is a  *)
(* separate step (WaitReturns) that the thread makes when it is picked     *)
(* again, before interrupts are enabled.                                   *)
(*                                                                         *)
(* Wait with tryWait set, or with the queue full, fails at once and changes *)
(* nothing, so that neither is an action.                                  *)
(*                                                                         *)
(* The lock of the window manager is free whenever a thread is finalized;  *)
(* Scheduler models a Finalize that has to wait for it.                    *)
(***************************************************************************)
EXTENDS Thread

CONSTANTS
  MaxWaiters,   \* MAX_WAITERS, the capacity of the waiter queue
  MaxCount,     \* bound: no Signal once Count has this value
  InitialCount, \* the constructor's count
  Timeouts,     \* the timeouts, in ticks, of timed waits
  Mortal,       \* the threads that may be finalized
  MaxResumes,   \* bound: how often sys_thread_resume is called
  MaxResets     \* bound: how often the semaphore is reset or a wait cancelled

ASSUME SemaphoreAssumption ==
  /\ MaxWaiters \in Nat \ {0}
  /\ MaxCount \in Nat
  /\ InitialCount \in 0..MaxCount
  /\ Timeouts \subseteq 1..MaxTicks
  /\ Mortal \subseteq Threads
  /\ MaxResumes \in Nat /\ MaxResets \in Nat

VARIABLES
  sched,    \* the scheduler state, see Thread
  count,    \* Semaphore::Count
  waiters,  \* Semaphore::Waiters, oldest first
  pc,       \* where each thread is: "run" outside Wait, "wait" in its Suspend,
            \* "timed wait" in its Sleep.  WaitingSemaphore is set in these two.
  resumes,  \* how often a thread was resumed behind the semaphore's back
  gaveUp,   \* history: a wait has timed out, or a thread ended in it
  resets,   \* how often Reset or Cancel was called on the semaphore
  forgotten \* history: threads these took off the list while they were blocked

History == <<resumes, gaveUp, resets, forgotten>>
vars == <<sched, count, waiters, pc, History>>

TypeOK ==
  /\ sched \in SchedType
  /\ count \in Int
  /\ waiters \in Seq(Threads)
  /\ pc \in [Threads -> {"run", "wait", "timed wait"}]
  /\ resumes \in 0..MaxResumes
  /\ gaveUp \in BOOLEAN
  /\ resets \in 0..MaxResets
  /\ forgotten \subseteq Threads

Init ==
  /\ sched \in StartedScheds
  /\ count = InitialCount
  /\ waiters = <<>>
  /\ pc = [t \in Threads |-> "run"]
  /\ resumes = 0
  /\ gaveUp = FALSE
  /\ resets = 0
  /\ forgotten = {}

-----------------------------------------------------------------------------
Running(t) == sched.current = t /\ t \in Threads /\ pc[t] = "run"

InterruptsOn == sched.current \in Threads => pc[sched.current] = "run"

Blocked(t) == t \in sched.suspended \cup sched.sleeping

\* Mutant of WaitTakes: a count of zero is taken too.
WaitTakesZero(t) ==
  /\ Running(t) /\ count >= 0
  /\ count' = count - 1
  /\ UNCHANGED <<sched, waiters, pc, History>>

\* Wait, when the semaphore is free
WaitTakes(t) ==
  /\ Running(t) /\ count > 0
  /\ count' = count - 1
  /\ UNCHANGED <<sched, waiters, pc, History>>

CanQueue(t) == Running(t) /\ count <= 0 /\ Len(waiters) < MaxWaiters

\* Wait, when Suspend or Sleep returns at once because of a spare WakeCount:
\* the wait succeeds and the entry in the queue stays.
WaitSlips(t) ==
  /\ CanQueue(t) /\ StaysAwake(sched, t)
  /\ waiters' = Append(waiters, t)
  /\ sched' = UseWake(sched, t)
  /\ count' = count - 1
  /\ UNCHANGED <<pc, History>>

WaitBlocks(t) ==
  /\ CanQueue(t) /\ ~StaysAwake(sched, t)
  /\ waiters' = Append(waiters, t)
  /\ \/ /\ sched' \in FakeTick(SuspendSelf(sched))
        /\ pc' = [pc EXCEPT ![t] = "wait"]
     \/ \E n \in Timeouts :
          /\ sched' \in FakeTick(TicksSleep(sched, t, n, TRUE))
          /\ pc' = [pc EXCEPT ![t] = "timed wait"]
  /\ UNCHANGED <<count, History>>

\* Thread::Sleep turns the ticks left into milliseconds; at 128 ticks per second
\* this is zero only for zero ticks.
TimedOut(t) == pc[t] = "timed wait" /\ sched.slot[t] = 0

\* Mutant of WaitReturns: a wait that timed out removes the oldest entry.
WaitReturnsDropsOldest(t) ==
  /\ sched.current = t /\ pc[t] # "run"
  /\ IF TimedOut(t) THEN /\ waiters' = SubSeq(waiters, 2, Len(waiters))
                         /\ UNCHANGED count
                    ELSE /\ count' = count - 1
                         /\ UNCHANGED waiters
  /\ sched' = PopSlot(sched, t)
  /\ pc' = [pc EXCEPT ![t] = "run"]
  /\ gaveUp' = (gaveUp \/ TimedOut(t))
  /\ forgotten' = forgotten \ {t}
  /\ UNCHANGED <<resumes, resets>>

WaitReturns(t) ==
  /\ sched.current = t /\ pc[t] # "run"
  /\ IF TimedOut(t) THEN /\ waiters' = Without(waiters, t)
                         /\ UNCHANGED count
                    ELSE /\ count' = count - 1
                         /\ UNCHANGED waiters
  /\ sched' = PopSlot(sched, t)
  /\ pc' = [pc EXCEPT ![t] = "run"]
  /\ gaveUp' = (gaveUp \/ TimedOut(t))
  /\ forgotten' = forgotten \ {t}
  /\ UNCHANGED <<resumes, resets>>

\* What Signal does to the count and the queue.  The queue holds no null
\* pointers (Cancel removes entries), so the first entry read is a thread.
Post ==
  /\ count < MaxCount
  /\ count' = count + 1
  /\ waiters' = IF waiters = <<>> THEN <<>> ELSE Tail(waiters)
  /\ UNCHANGED <<pc, History>>

\* Mutant of Signal: the waiter taken off the list is not resumed.
SignalSilently(t) == Running(t) /\ Post /\ UNCHANGED sched

Signal(t) ==
  /\ Running(t)
  /\ Post
  /\ sched' = IF waiters = <<>> THEN sched ELSE Resume(sched, Head(waiters), FALSE)

SignalFromISR ==
  /\ InterruptsOn
  /\ Post
  /\ sched' \in IF waiters = <<>> THEN {sched} ELSE QuickResume(sched, Head(waiters))

\* Mutant of FinalizeThread: the wait is not cancelled.
FinalizeUncancelled(c, t) ==
  /\ Running(c) /\ t \in Mortal /\ Known(sched, t)
  /\ sched' \in Finalize(sched, t)
  /\ pc' = [pc EXCEPT ![t] = "run"]
  /\ gaveUp' = (gaveUp \/ pc[t] # "run")
  /\ forgotten' = forgotten \ {t}
  /\ UNCHANGED <<count, waiters, resumes, resets>>

\* Thread::Finalize cancels the wait of the thread it finalizes.
FinalizeThread(c, t) ==
  /\ Running(c) /\ t \in Mortal /\ Known(sched, t)
  /\ waiters' = IF pc[t] = "run" THEN waiters ELSE Without(waiters, t)
  /\ sched' \in Finalize(sched, t)
  /\ pc' = [pc EXCEPT ![t] = "run"]
  /\ gaveUp' = (gaveUp \/ pc[t] # "run")
  /\ forgotten' = forgotten \ {t}
  /\ UNCHANGED <<count, resumes, resets>>

Forgets(ws) ==
  /\ resets < MaxResets /\ resets' = resets + 1
  /\ waiters' = ws
  /\ forgotten' = forgotten \cup {t \in ToSet(waiters) \ ToSet(ws) : Blocked(t)}

\* Reset, which the audio drivers call in Open and Stop, and programs through
\* sys_semaphore_reset: the waiters are forgotten, and not woken.
Reset(c, n) ==
  /\ Running(c)
  /\ Forgets(<<>>)
  /\ count' = n
  /\ UNCHANGED <<sched, pc, resumes, gaveUp>>

\* sys_semaphore_cancel: the same for one waiter
CancelThread(c, t) ==
  /\ Running(c) /\ Known(sched, t)
  /\ Forgets(Without(waiters, t))
  /\ UNCHANGED <<sched, count, pc, resumes, gaveUp>>

\* sys_thread_resume on a thread that may be inside Wait
ResumeThread(c, t) ==
  /\ Running(c) /\ Known(sched, t)
  /\ resumes < MaxResumes /\ resumes' = resumes + 1
  /\ sched' = Resume(sched, t, FALSE)
  /\ UNCHANGED <<count, waiters, pc, gaveUp, resets, forgotten>>

YieldCPU(t) ==
  /\ Running(t)
  /\ sched' \in FakeTick(sched)
  /\ UNCHANGED <<count, waiters, pc, History>>

ClockFires ==
  /\ sched.rtc # "raised"
  /\ sched' = Raise(sched)
  /\ UNCHANGED <<count, waiters, pc, History>>

TimerInterrupt ==
  /\ InterruptsOn /\ sched.rtc # "clear"
  /\ sched' \in TickHandler(sched)
  /\ UNCHANGED <<count, waiters, pc, History>>

Next ==
  \/ \E t \in Threads : WaitTakes(t) \/ WaitSlips(t) \/ WaitBlocks(t)
  \/ \E t \in Threads : WaitReturns(t) \/ Signal(t) \/ YieldCPU(t)
  \/ \E c, t \in Threads : FinalizeThread(c, t) \/ ResumeThread(c, t) \/ CancelThread(c, t)
  \/ \E c \in Threads, n \in 0..MaxCount : Reset(c, n)
  \/ SignalFromISR
  \/ ClockFires
  \/ TimerInterrupt

Spec == Init /\ [][Next]_vars

-----------------------------------------------------------------------------
(* Properties.                                                             *)

Queued(t) == t \in ToSet(waiters)

\* Woken and on its way out of Wait with success: it has not taken its count yet.
Pending(t) == pc[t] # "run" /\ ~Blocked(t) /\ ~TimedOut(t)

\* Nobody has resumed a thread but the semaphore.  (A waiter resumed by another
\* thread leaves Wait as if it had been signalled, and its entry stays on the
\* list; several of the properties only hold before that.)
Undisturbed == resumes = 0

\* A thread blocked in Wait is on the waiter list, where the next Signals find
\* it: no waiter is left for ever with nobody to wake it, not even when other
\* threads resume waiters behind the semaphore's back; but for those that a Reset
\* or Cancel made it forget, which stay blocked until their time is over.
BlockedIsQueued == \A t \in Threads : Blocked(t) => Queued(t) \/ t \in forgotten

\* A thread that is on its way out of Wait with success was taken off the list
\* by the Signal that woke it, so no second Signal is spent on it.
WokenIsDequeued == Undisturbed =>
  \A t \in Threads : Pending(t) => ~Queued(t)

\* Every entry of the waiter list is one live thread inside Wait: no thread is
\* listed twice, and none that has left Wait or was finalized is listed, which
\* is the danger semaphore.h names ("deleted thread can cause problems if it's
\* still on some waiter list").
WaitersAreWaiting == Undisturbed =>
  /\ IsInjective(waiters)
  /\ \A t \in ToSet(waiters) : pc[t] # "run" /\ ~Dead(sched, t)

\* WakeCount never exceeds one, and is zero in a thread blocked in Wait, as
\* long as only this semaphore resumes threads: Suspend and Sleep, which ignore
\* the request "if WakeCount != 0" (thread.cpp), never return early in Wait.
WakeCountsAreSpent == Undisturbed => \A t \in Threads :
  /\ sched.wake[t] <= 1
  /\ Blocked(t) => sched.wake[t] = 0

\* The waiter list tells who waits, and waking one of them is all that a Signal
\* has to do: a Wait that succeeds leaves no entry behind, and none is woken twice.
WaiterListIsExact == TypeOK /\ WokenIsDequeued /\ WaitersAreWaiting /\ WakeCountsAreSpent

\* Threads that take the count before the thread woken for it does may drive it
\* below zero, by at most one for every other thread.
OverdraftIsBounded == Undisturbed => count >= 1 - Cardinality(Threads)

\* No signal lies idle while a thread waits for it: a positive count with
\* threads still listed means that as many woken threads are about to take it.
\* (Once a wait has timed out or ended with its thread this fails: the signal
\* that woke it is kept in Count, and nobody wakes the next waiter.)
NoIdleSignal ==
  Undisturbed /\ ~gaveUp /\ (\A t \in Threads : ~TimedOut(t)) /\ waiters # <<>> =>
    count <= Cardinality({t \in Threads : Pending(t)})

=============================================================================
