----------------------------- MODULE Scheduler -----------------------------
(***************************************************************************)
(* The scheduler as a system of its own: threads that create, suspend,     *)
(* resume, put to sleep and finalize one another (the thread system calls  *)
(* of src/kernel/syscalls.cpp), the timer interrupt, and interrupt         *)
(* handlers of devices that wake a thread through QuickResume.             *)
(***************************************************************************)
EXTENDS Thread

CONSTANTS
  Ops,      \* which of AllOps the threads and devices perform
  History   \* which history variables are kept: "owed", "unheard"

\* "windows": others hold the window manager's lock when a thread is finalized
AllOps == {"suspend", "suspend other", "resume", "sleep", "sleep other",
           "finalize", "windows", "device"}

ASSUME OpsAssumption ==
  /\ Ops \subseteq AllOps
  /\ History \subseteq {"owed", "unheard"}

VARIABLES
  sched,    \* the scheduler state, see Thread
  ending,   \* the thread each thread is finalizing while it waits in Finalize
            \* for the window manager's lock, or NoThread
  owed,     \* history: timer ticks still to pass before a sleep is over
  unheard   \* history: the thread was resumed while awake, and has not
            \* tried to block since

vars == <<sched, ending, owed, unheard>>

TypeOK ==
  /\ sched \in SchedType
  /\ ending \in [Threads -> Threads \cup {NoThread}]
  /\ owed \in [Threads -> Nat]
  /\ unheard \in [Threads -> BOOLEAN]

Init ==
  /\ sched = InitSched
  /\ ending = [t \in Threads |-> NoThread]
  /\ owed = [t \in Threads |-> 0]
  /\ unheard = [t \in Threads |-> FALSE]

-----------------------------------------------------------------------------
\* a thread runs kernel or user code and interrupts are enabled
Running(c) ==
  /\ sched.current = c /\ c \in Threads
  /\ ~InSleepCall(sched) /\ ending[c] = NoThread

InterruptsOn == sched.current \in Threads => Running(sched.current)

\* The clock flag is read in this step, that is systemTicks is counted.
Elapsed == sched.rtc = "raised" /\ sched'.rtc # "raised"
CountDown(o) == [t \in Threads |-> IF Elapsed /\ o[t] > 0 THEN o[t] - 1 ELSE o[t]]
Owe(t, n) == owed' = IF "owed" \in History THEN [CountDown(owed) EXCEPT ![t] = n]
                                           ELSE owed
Hear(t, b) == unheard' = IF "unheard" \in History THEN [unheard EXCEPT ![t] = b]
                                                  ELSE unheard
HistoryStep == owed' = CountDown(owed) /\ UNCHANGED unheard

Create(c, t) ==
  /\ Running(c) /\ t # Main /\ sched.state[t] = "Unknown"
  /\ sched' = Enable(sched, t)
  /\ HistoryStep
  /\ UNCHANGED ending

YieldCPU(c) ==
  /\ Running(c)
  /\ sched' \in FakeTick(sched)
  /\ HistoryStep
  /\ UNCHANGED ending

Suspend(c) ==
  /\ "suspend" \in Ops /\ Running(c)
  /\ IF StaysAwake(sched, c) THEN sched' = UseWake(sched, c)
                             ELSE sched' \in FakeTick(SuspendSelf(sched))
  /\ owed' = CountDown(owed)
  /\ Hear(c, FALSE)
  /\ UNCHANGED ending

SuspendThread(c, t) ==
  /\ "suspend other" \in Ops /\ Running(c) /\ t # c /\ Known(sched, t)
  /\ sched' = SuspendOther(sched, t)
  /\ Hear(t, FALSE)
  /\ UNCHANGED <<ending, owed>>

ResumeThread(c, t) ==
  /\ "resume" \in Ops /\ Running(c) /\ Known(sched, t)
  /\ sched.wake[t] < MaxWake
  /\ sched' = Resume(sched, t, FALSE)
  /\ Hear(t, ~Resumable(sched, t))
  /\ UNCHANGED <<ending, owed>>

\* Thread::Sleep on the current thread
Sleep(c, n, interruptible) ==
  /\ "sleep" \in Ops /\ Running(c)
  /\ IF StaysAwake(sched, c)
     THEN /\ sched' = UseWake(sched, c)
          /\ UNCHANGED owed
     ELSE /\ sched' \in FakeTick(TicksSleep(sched, c, n, interruptible))
          /\ Owe(c, n)
  /\ Hear(c, FALSE)
  /\ UNCHANGED ending

SleepThread(c, t, n, interruptible) ==
  /\ "sleep other" \in Ops /\ Running(c) /\ t # c /\ Known(sched, t)
  /\ IF StaysAwake(sched, t)
     THEN /\ sched' = UseWake(sched, t)
          /\ UNCHANGED owed
     ELSE /\ sched' = TicksSleep(sched, t, n, interruptible)
          /\ Owe(t, n)
  /\ Hear(t, FALSE)
  /\ UNCHANGED ending

\* A woken sleeper runs on in TicksSleep, with interrupts off, to its return.
SleepReturns(c) ==
  /\ sched.current = c /\ InSleepCall(sched)
  /\ sched' = PopSlot(sched, c)
  /\ HistoryStep
  /\ UNCHANGED ending

Wakeable(t) ==
  sched.state[t] \notin {"Unknown", "Finalized"} /\ sched.wake[t] < MaxWake

\* Finalize first signals the end of t, and may wake a thread w that waits for it.
Awaits(w, t) == w # NoThread => w # t /\ Wakeable(w)
Signalled(w) == IF w = NoThread THEN sched ELSE Resume(sched, w, FALSE)
HearEnd(w) == IF w = NoThread THEN UNCHANGED unheard
                              ELSE Hear(w, ~Resumable(sched, w))

\* the same, when its caller c has then tried to block and stayed awake
HearEndAndSlip(c, w) ==
  unheard' = IF "unheard" \in History
             THEN [t \in Threads |->
                     t # c /\ IF t = w THEN ~Resumable(sched, w) ELSE unheard[t]]
             ELSE unheard

CanFinalize(c, t, w) ==
  "finalize" \in Ops /\ Running(c) /\ Known(sched, t) /\ Awaits(w, t)

FinalizeThread(c, t, w) ==
  /\ CanFinalize(c, t, w)
  /\ sched' \in Finalize(Signalled(w), t)
  /\ ending' = [ending EXCEPT ![t] = NoThread]
  /\ owed' = CountDown(owed)
  /\ HearEnd(w)

\* Finalize goes on to DestroyThreadWindows, which acquires the window manager's
\* lock and suspends the caller when others hold it: even a caller that has just
\* marked itself Finalized.
FinalizeBlocks(c, t, w) ==
  /\ "windows" \in Ops /\ CanFinalize(c, t, w)
  /\ LET k == Removed(Signalled(w), t)
     IN  ~StaysAwake(k, c) /\ sched' \in FakeTick(SuspendSelf(k))
  /\ ending' = [ending EXCEPT ![t] = NoThread, ![c] = t]
  /\ owed' = CountDown(owed)
  /\ HearEnd(w)

\* The same when the caller's WakeCount keeps it awake.
FinalizeSlips(c, t, w) ==
  /\ "windows" \in Ops /\ CanFinalize(c, t, w)
  /\ StaysAwake(Signalled(w), c)
  /\ sched' \in Finalize(UseWake(Signalled(w), c), t)
  /\ ending' = [ending EXCEPT ![t] = NoThread]
  /\ owed' = CountDown(owed)
  /\ HearEndAndSlip(c, w)

\* The caller is picked again, still with interrupts off, and Finalize goes on
\* to its end.  (A thread that ends this way is left with State Active, as
\* blocking has overwritten it.  Nothing reads the State of a thread that is on
\* no list, except the destructor of Process; it counts as Finalized here.)
FinalizeEnds(c) ==
  /\ sched.current = c /\ ~InSleepCall(sched) /\ ending[c] # NoThread
  /\ sched' \in Finalize(sched, ending[c])
  /\ ending' = [ending EXCEPT ![c] = NoThread]
  /\ HistoryStep

\* The window manager's lock is released to a thread w that waits for it.
ReleaseWindows(c, w) ==
  /\ "windows" \in Ops /\ Running(c)
  /\ ending[w] # NoThread /\ Wakeable(w)
  /\ sched' = Resume(sched, w, FALSE)
  /\ Hear(w, ~Resumable(sched, w))
  /\ UNCHANGED <<ending, owed>>

\* Semaphore::Signal(state) from an interrupt handler, for a waiter t
DeviceWakes(t) ==
  /\ "device" \in Ops /\ InterruptsOn
  /\ Wakeable(t)
  /\ sched' \in QuickResume(sched, t)
  /\ owed' = CountDown(owed)
  /\ Hear(t, ~Resumable(sched, t))
  /\ UNCHANGED ending

ClockFires ==
  /\ sched.rtc # "raised"
  /\ sched' = Raise(sched)
  /\ UNCHANGED <<ending, owed, unheard>>

TimerInterrupt ==
  /\ InterruptsOn /\ sched.rtc # "clear"
  /\ sched' \in TickHandler(sched)
  /\ HistoryStep
  /\ UNCHANGED ending

Step(c, t) ==
  \/ Create(c, t)
  \/ SuspendThread(c, t)
  \/ ResumeThread(c, t)
  \/ ReleaseWindows(c, t)
  \/ \E w \in Threads \cup {NoThread} :
       FinalizeThread(c, t, w) \/ FinalizeBlocks(c, t, w) \/ FinalizeSlips(c, t, w)
  \/ \E n \in 1..MaxTicks, i \in BOOLEAN : SleepThread(c, t, n, i)

OwnStep(c) ==
  \/ YieldCPU(c)
  \/ Suspend(c)
  \/ SleepReturns(c)
  \/ FinalizeEnds(c)
  \/ \E n \in 1..MaxTicks, i \in BOOLEAN : Sleep(c, n, i)

Next ==
  \/ \E c, t \in Threads : Step(c, t)
  \/ \E c \in Threads : OwnStep(c)
  \/ \E t \in Threads : DeviceWakes(t)
  \/ ClockFires
  \/ TimerInterrupt

\* The clock fires for ever, its interrupt is served, and a thread that holds
\* the processor with interrupts off in TicksSleep or Finalize goes on to its end.
Fairness ==
  /\ WF_vars(ClockFires)
  /\ WF_vars(TimerInterrupt)
  /\ \A c \in Threads : WF_vars(SleepReturns(c)) /\ WF_vars(FinalizeEnds(c))

Spec == Init /\ [][Next]_vars

FairSpec == Spec /\ Fairness

-----------------------------------------------------------------------------
(* Properties.                                                             *)

\* The places a thread can be: the ready queue, the suspended list, the
\* sleeping list, the processor.  Threads are linked into these lists through
\* one Next pointer, so a thread in two places, or twice in one, corrupts them
\* (objectqueue.cpp).
InOnePlace ==
  /\ IsInjective(sched.ready)
  /\ ToSet(sched.ready) \cap sched.suspended = {}
  /\ ToSet(sched.ready) \cap sched.sleeping = {}
  /\ sched.suspended \cap sched.sleeping = {}
  /\ sched.current \notin ToSet(sched.ready) \cup sched.suspended \cup sched.sleeping

\* Thread::State tells the list the thread is on: no live thread is in limbo,
\* on no list and not running, where nothing would ever run it again.
StateTellsPlace == \A t \in Threads :
  /\ t \in ToSet(sched.ready) => sched.state[t] = "Ready"
  /\ t \in sched.suspended <=> sched.state[t] = "Suspended"
  /\ t \in sched.sleeping <=> sched.state[t] = "Sleeping"
  /\ sched.state[t] \in {"Ready", "Active"} =>
       t = sched.current \/ (t \in ToSet(sched.ready) /\ sched.state[t] = "Ready")
  /\ sched.state[t] # "Suspending"
  /\ sched.state[t] = "Finalized" =>
       t # sched.current /\ t \notin ToSet(sched.ready)
  /\ sched.state[t] = "Unknown" /\ t # Main =>
       t # sched.current /\ t \notin ToSet(sched.ready)

\* A sleeper has ticks to go, so that a Resume before its time always makes
\* TicksSleep return a positive number and only an expiry returns 0: the
\* callers (Semaphore::Wait, Mutex::Acquire) tell a wake-up from a timeout so.
SleepersHaveTime == \A t \in sched.sleeping : sched.ticks[t] > 0

\* GetNext and Resume store into the saved stack of a thread only when that
\* thread is blocked inside TicksSleep, where the top of the stack is the slot
\* for the result; anywhere else the store would hit a live frame.
StackWritesAreSafe == \A t \in sched.sleeping :
  sched.writes[t] => sched.slot[t] # NoSlot

\* The sleep of t ends in this step because its time is over: GetNext wakes it
\* (a Resume would have counted in WakeCount).
Expires(t) ==
  /\ t \in sched.sleeping /\ t \notin sched'.sleeping
  /\ sched'.wake[t] = sched.wake[t]
  /\ sched'.state[t] \in {"Ready", "Active"}

\* A sleep of n ticks that runs to its end has seen n timer interrupts, each
\* counted once by the sleepers and by systemTicks (thread.cpp, GetNext).
SleepsLongEnough ==
  [][\A t \in Threads : Expires(t) => owed'[t] = 0]_vars

\* WakeCount is "used to avoid lost wakeup problem" (thread.h): a thread that
\* was resumed while awake does not block in its next Suspend.  The main
\* thread, which starts with a WakeCount of 0 unlike all others, is left out.
NoLostWakeup ==
  [][\A t \in Threads \ {Main} :
       unheard[t] /\ sched.current = t => t \notin sched'.suspended]_vars

\* A finalized thread is gone for good: no later Resume, tick or wake-up by a
\* device puts it back on a queue.
FinalizedIsFinal ==
  [][\A t \in Threads : Dead(sched, t) => Dead(sched', t)]_vars

\* Round robin: a ready thread gets the processor, is suspended, put to sleep
\* or finalized, however often devices prepend other threads.
ReadyRuns == \A t \in Threads :
  t \in ToSet(sched.ready) ~> t \notin ToSet(sched.ready)

=============================================================================
