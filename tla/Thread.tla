------------------------------- MODULE Thread -------------------------------
(***************************************************************************)
(* The data of the kernel's uniprocessor scheduler and what each function  *)
(* of src/kernel/thread.cpp and the timer interrupt of src/kernel/time.cpp *)
(* do to it.  The scheduler state is one record k; every operator below    *)
(* maps it to the record the C++ function leaves behind, or, where the     *)
(* order of simultaneous wake-ups is left open, to the set of such records.*)
(* Modules that add blocking primitives (Scheduler, Semaphore, Mutex)      *)
(* build their actions from these operators.                               *)
(*                                                                         *)
(* Kernel code runs these functions with interrupts disabled, so each of   *)
(* them is one atomic step that ends either in a return or in a context    *)
(* switch.                                                                 *)
(***************************************************************************)
EXTENDS Integers, Sequences, FiniteSets, SequencesExt

CONSTANTS
  Threads,    \* every Thread object but the idle thread
  Main,       \* the thread kmain runs on, current when the scheduler starts
  Idle,       \* Thread::idleThread, which is in no queue
  MaxTicks,   \* bound: the longest sleep, in timer ticks
  MaxWake     \* bound: the largest WakeCount a Resume may produce

NoThread == <<>>         \* currentThread == nullptr, inside Finalize

ASSUME ThreadAssumption ==
  /\ IsFiniteSet(Threads)
  /\ Main \in Threads
  /\ Idle \notin Threads
  /\ NoThread \notin Threads
  /\ MaxTicks \in Nat \ {0}
  /\ MaxWake \in Nat \ {0}

NoSlot == -1             \* the thread is not inside TicksSleep
Placeholder == 305441741 \* 0x1234abcd, what TicksSleep pushes before it blocks

States == {"Unknown", "Active", "Ready", "Suspending", "Suspended",
           "Sleeping", "Finalized"}

\* The scheduler state.  suspendedThreads and sleepingThreads are linked lists
\* whose order nothing depends on, except for the order in which sleepers that
\* expire at the same tick become ready: that order is left open here.
SchedType ==
  [ready     : Seq(Threads),                \* readyThreads, head first
   suspended : SUBSET Threads,              \* suspendedThreads
   sleeping  : SUBSET Threads,              \* sleepingThreads
   current   : Threads \cup {Idle},         \* currentThread
   state     : [Threads -> States],         \* Thread::State
   wake      : [Threads -> Nat],            \* Thread::WakeCount
   ticks     : [Threads -> Nat],            \* Thread::SleepTicks
   intr      : [Threads -> BOOLEAN],        \* Thread::InterruptibleSleep
   writes    : [Threads -> BOOLEAN],        \* Thread::CanChangeState
   slot      : [Threads -> Int],            \* the word TicksSleep pushed
   rtc       : {"clear", "raised", "latched"}]

\* After Thread::Initialize: the main thread runs, the others do not exist yet.
\* rtc is the periodic interrupt of the real time clock: "raised" when it has
\* fired and neither handler nor FakeTick has read its flag, "latched" when
\* FakeTick has read the flag but the interrupt controller still holds IRQ 8.
InitSched ==
  [ready |-> <<>>, suspended |-> {}, sleeping |-> {}, current |-> Main,
   state |-> [t \in Threads |-> "Unknown"],
   wake |-> [t \in Threads |-> 0], ticks |-> [t \in Threads |-> 0],
   intr |-> [t \in Threads |-> FALSE], writes |-> [t \in Threads |-> FALSE],
   slot |-> [t \in Threads |-> NoSlot], rtc |-> "clear"]

\* Some time later: every other thread has been created, enabled and resumed
\* (Process::Start, sys_thread_create and sys_thread_resume) and waits for its
\* first time slice; each of these Resumes left a WakeCount of one.
StartedScheds ==
  {[InitSched EXCEPT
      !.ready = q,
      !.state = [t \in Threads |-> IF t = Main THEN "Active" ELSE "Ready"],
      !.wake = [t \in Threads |-> IF t = Main THEN 0 ELSE 1]] :
    q \in SetToSeqs(Threads \ {Main})}

-----------------------------------------------------------------------------
(* Queues.                                                                 *)

\* ObjectQueue::Remove on the ready queue
Without(q, t) ==
  IF t \in ToSet(q)
  THEN RemoveAt(q, CHOOSE i \in DOMAIN q :
                     q[i] = t /\ \A j \in DOMAIN q : j < i => q[j] # t)
  ELSE q

\* ObjectQueue::Add on the ready queue
Enqueue(q, t, prepend) == IF prepend THEN <<t>> \o q ELSE Append(q, t)

Dead(k, t) == k.state[t] = "Finalized"

\* what Thread::GetByID can find
Known(k, t) ==
  \/ t = k.current
  \/ t \in ToSet(k.ready) \cup k.suspended \cup k.sleeping

-----------------------------------------------------------------------------
(* The context switch: GetNext(doTick) followed by Switch.                 *)

\* one tick of every sleeper's countdown, when doTick
TickSleepers(k, doTick) ==
  IF doTick
  THEN [k EXCEPT !.ticks = [t \in Threads |->
          IF t \in k.sleeping /\ @[t] > 0 THEN @[t] - 1 ELSE @[t]]]
  ELSE k

Due(k) == {t \in k.sleeping : k.ticks[t] = 0}

\* Mutant of WakeDue: CanChangeState is not reset.
WakeDueLeavesWrites(k, w) ==
  [k EXCEPT
    !.sleeping = @ \ Due(k),
    !.state = [t \in Threads |-> IF t \in Due(k) THEN "Ready" ELSE @[t]],
    !.slot = [t \in Threads |->
       IF t \in Due(k) /\ k.writes[t] /\ @[t] # NoSlot THEN 0 ELSE @[t]],
    !.ready = @ \o w]

\* the sleepers that are due become ready, in the order w
WakeDue(k, w) ==
  [k EXCEPT
    !.sleeping = @ \ Due(k),
    !.state = [t \in Threads |-> IF t \in Due(k) THEN "Ready" ELSE @[t]],
    !.intr = [t \in Threads |-> @[t] /\ t \notin Due(k)],
    !.slot = [t \in Threads |->
       IF t \in Due(k) /\ k.writes[t] /\ @[t] # NoSlot THEN 0 ELSE @[t]],
    !.writes = [t \in Threads |-> @[t] /\ t \notin Due(k)],
    !.ready = @ \o w]

\* Mutants of Requeue: a sleeping thread is queued as well; a suspending one is
\* forgotten; the current thread goes to the front.
RequeueSleeper(k) ==
  IF k.current \notin Threads THEN k
  ELSE [k EXCEPT !.ready = Append(@, k.current)]

RequeueForgets(k) ==
  IF k.current \notin Threads \/ k.state[k.current] \in {"Sleeping", "Suspending"}
  THEN k
  ELSE [k EXCEPT !.ready = Append(@, k.current), !.state[k.current] = "Ready"]

RequeueFirst(k) ==
  IF k.current \notin Threads \/ k.state[k.current] = "Sleeping"
  THEN k
  ELSE IF k.state[k.current] = "Suspending"
  THEN [k EXCEPT !.suspended = @ \cup {k.current},
                 !.state[k.current] = "Suspended"]
  ELSE [k EXCEPT !.ready = <<k.current>> \o @, !.state[k.current] = "Ready"]

\* the current thread goes back to a queue unless it sleeps or is gone
Requeue(k) ==
  IF k.current \notin Threads \/ k.state[k.current] = "Sleeping"
  THEN k
  ELSE IF k.state[k.current] = "Suspending"
  THEN [k EXCEPT !.suspended = @ \cup {k.current},
                 !.state[k.current] = "Suspended"]
  ELSE [k EXCEPT !.ready = Append(@, k.current),
                 !.state[k.current] = "Ready"]

\* Switch returns early when the thread picked is the current one: its State
\* then stays Ready while it runs.
SwitchToNext(k) ==
  LET next == IF k.ready = <<>> THEN Idle ELSE Head(k.ready)
      rest == IF k.ready = <<>> THEN <<>> ELSE Tail(k.ready)
  IN  IF next = k.current \/ next = Idle
      THEN [k EXCEPT !.ready = rest, !.current = next]
      ELSE [k EXCEPT !.ready = rest, !.current = next,
                     !.state[next] = "Active"]

\* Mutant of Dispatch: the sleepers are ticked after the due ones were woken.
DispatchTicksLate(k, doTick) ==
  {TickSleepers(SwitchToNext(Requeue(WakeDue(k, w))), doTick) : w \in SetToSeqs(Due(k))}

Dispatch(k, doTick) ==
  LET ticked == TickSleepers(k, doTick)
  IN  {SwitchToNext(Requeue(WakeDue(ticked, w))) : w \in SetToSeqs(Due(ticked))}

-----------------------------------------------------------------------------
(* The timer.                                                              *)

\* Mutant of TickHandler: the clock's flag is not asked.
TickHandlerUnasked(k) == Dispatch([k EXCEPT !.rtc = "clear"], TRUE)

\* Time::Tick entered by the interrupt controller
TickHandler(k) ==
  Dispatch([k EXCEPT !.rtc = "clear"], k.rtc = "raised")

\* Time::Tick entered through FakeTick: the pending flag of the clock is read
\* (and systemTicks counted), but the sleepers are not ticked for it.
FakeTick(k) ==
  Dispatch([k EXCEPT !.rtc = IF @ = "raised" THEN "latched" ELSE @], FALSE)

-----------------------------------------------------------------------------
(* Thread's operations.                                                    *)

Enable(k, t) ==
  [k EXCEPT !.suspended = @ \cup {t}, !.state[t] = "Suspended"]

\* Mutant of UseWake: a WakeCount of zero is decremented.
UseWakeUnguarded(k, t) == [k EXCEPT !.wake[t] = @ - 1]

\* Suspend and TicksSleep first take one WakeCount and give up blocking when
\* some are left.
UseWake(k, t) == [k EXCEPT !.wake[t] = IF @ > 0 THEN @ - 1 ELSE @]

\* Mutant of StaysAwake: the count left is ignored.
StaysAwakeNever(k, t) == FALSE

StaysAwake(k, t) == UseWake(k, t).wake[t] > 0

\* Suspend by the current thread, when it does block, up to the switch
SuspendSelf(k) ==
  [UseWake(k, k.current) EXCEPT !.state[k.current] = "Suspending"]

SuspendOther(k, t) ==
  LET u == UseWake(k, t)
  IN  IF StaysAwake(k, t) \/ t \notin ToSet(k.ready) \cup k.sleeping
      THEN u
      ELSE [u EXCEPT !.ready = Without(@, t), !.sleeping = @ \ {t},
                     !.suspended = @ \cup {t}, !.state[t] = "Suspended"]

Resumable(k, t) == t \in k.suspended \/ (t \in k.sleeping /\ k.intr[t])

Resume(k, t, prepend) ==
  LET counted == [k EXCEPT !.wake[t] = @ + 1]
      rouse == [counted EXCEPT
                 !.slot[t] = IF k.writes[t] /\ @ # NoSlot THEN k.ticks[t] ELSE @,
                 !.intr[t] = FALSE, !.writes[t] = FALSE, !.ticks[t] = 0]
      up == IF k.state[t] = "Sleeping" THEN rouse ELSE counted
  IN  IF Resumable(k, t)
      THEN [up EXCEPT !.suspended = @ \ {t}, !.sleeping = @ \ {t},
                      !.state[t] = "Ready",
                      !.ready = Enqueue(@, t, prepend)]
      ELSE counted

\* Resume from an interrupt handler, which switches to the woken thread at
\* once, and ticks the sleepers although no timer tick has passed.
QuickResume(k, t) ==
  IF Resumable(k, t) THEN Dispatch(Resume(k, t, TRUE), TRUE)
                     ELSE {Resume(k, t, TRUE)}

\* TicksSleep, when it does block, up to the switch
TicksSleep(k, t, n, interruptible) ==
  LET asleep == [UseWake(k, t) EXCEPT
                  !.ready = Without(@, t), !.suspended = @ \ {t},
                  !.sleeping = @ \cup {t}, !.state[t] = "Sleeping",
                  !.ticks[t] = n, !.intr[t] = interruptible]
  IN  IF t = k.current
      THEN [asleep EXCEPT !.writes[t] = TRUE, !.slot[t] = Placeholder]
      ELSE asleep

\* The first part of Finalize takes the thread off its list.
Removed(k, t) ==
  [k EXCEPT !.state[t] = "Finalized", !.ready = Without(@, t),
            !.suspended = @ \ {t}, !.sleeping = @ \ {t}]

\* Mutant of Finalize: the thread stays on its list.
FinalizeOnList(k, t) ==
  LET gone == [k EXCEPT !.state[t] = "Finalized"]
  IN  IF t = k.current THEN FakeTick([gone EXCEPT !.current = NoThread]) ELSE {gone}

\* Finalize, when it does not have to wait for the window manager's lock.  A
\* thread that finalizes itself gives the processor up for good.
Finalize(k, t) ==
  LET gone == Removed(k, t)
  IN  IF t = k.current THEN FakeTick([gone EXCEPT !.current = NoThread]) ELSE {gone}

\* The instruction after the switch in TicksSleep pops the slot.
PopSlot(k, t) == [k EXCEPT !.slot[t] = NoSlot]

\* A thread that is switched to inside TicksSleep still has interrupts off.
InSleepCall(k) == k.current \in Threads /\ k.slot[k.current] # NoSlot

\* the clock fires
Raise(k) == [k EXCEPT !.rtc = "raised"]

=============================================================================
