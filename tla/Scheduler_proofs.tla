-------------------------- MODULE Scheduler_proofs --------------------------
(***************************************************************************)
(* The scheduler's safety, for any finite number of threads and any mix of *)
(* operations: no thread is ever in two queues or lost, every sleeper has  *)
(* time to go, and a finalized thread never comes back.  The inductive     *)
(* invariant is Sound (Thread_proofs) of the scheduler state; the other    *)
(* variables only need their types.                                        *)
(*                                                                         *)
(* Three more follow for the operations that the code allows them: no      *)
(* stray write into a stack (Fit), no wake-up lost (Heeded), no sleep cut  *)
(* short (Owing), each with an invariant of its own beside Sound.          *)
(***************************************************************************)
EXTENDS Scheduler, Thread_proofs

IInv ==
  /\ Sound(sched)
  /\ ending \in [Threads -> Threads \cup {NoThread}]
  /\ owed \in [Threads -> Nat]
  /\ unheard \in [Threads -> BOOLEAN]

-----------------------------------------------------------------------------
(* The state a function of the scheduler leaves, given to every action.    *)

\* What every step does: the threads that are gone stay gone.
Kept == Sound(sched') /\ DeadStay(sched, sched')

LEMMA CreateStep ==
  ASSUME IInv, NEW c \in Threads, NEW t \in Threads, Create(c, t)
  PROVE  Kept
BY EnableKeeps DEF IInv, Create, Kept

LEMMA YieldStep ==
  ASSUME IInv, NEW c \in Threads, YieldCPU(c)
  PROVE  Kept
<1>1. Settled(sched) /\ sched.current \notin sched.sleeping
  BY DEF IInv, Sound
<1> QED
  BY <1>1, FakeTickKeeps DEF YieldCPU, Kept

LEMMA SuspendStep ==
  ASSUME IInv, NEW c \in Threads, Suspend(c)
  PROVE  Kept
<1> DEFINE r == SuspendSelf(sched)
<1>1. Sound(sched) /\ sched.current = c
  BY DEF IInv, Suspend, Running
<1>2. CASE StaysAwake(sched, c)
  <2>1. sched' = UseWake(sched, c)
    BY <1>2 DEF Suspend
  <2> QED
    BY <1>1, <2>1, UseWakeKeeps DEF Kept
<1>3. CASE ~StaysAwake(sched, c)
  <2>1. sched' \in FakeTick(r)
    BY <1>3 DEF Suspend
  <2>2. Settled(r) /\ DeadStay(sched, r) /\ r.current \notin r.sleeping
    BY <1>1, SuspendSelfKeeps
  <2> HIDE DEF r
  <2>3. Sound(sched') /\ DeadStay(r, sched')
    BY <2>1, <2>2, FakeTickKeeps
  <2> QED
    BY <2>2, <2>3 DEF Kept, DeadStay
<1> QED
  BY <1>2, <1>3

LEMMA SuspendThreadStep ==
  ASSUME IInv, NEW c \in Threads, NEW t \in Threads, SuspendThread(c, t)
  PROVE  Kept
BY SuspendOtherKeeps DEF IInv, SuspendThread, Running, Kept

LEMMA ResumeThreadStep ==
  ASSUME IInv, NEW c \in Threads, NEW t \in Threads, ResumeThread(c, t)
  PROVE  Kept
BY ResumeKeeps DEF IInv, ResumeThread, Kept

LEMMA SleepStep ==
  ASSUME IInv, NEW c \in Threads, NEW n \in 1..MaxTicks, NEW i \in BOOLEAN,
         Sleep(c, n, i)
  PROVE  Kept
<1> DEFINE r == TicksSleep(sched, c, n, i)
<1>1. Sound(sched) /\ sched.current = c /\ n \in Nat /\ n > 0
  BY ThreadAssumption DEF IInv, Sleep, Running
<1>2. CASE StaysAwake(sched, c)
  <2>1. sched' = UseWake(sched, c)
    BY <1>2, Zenon DEF Sleep
  <2> QED
    BY <1>1, <2>1, UseWakeKeeps DEF Kept
<1>3. CASE ~StaysAwake(sched, c)
  <2>1. sched' \in FakeTick(r)
    BY <1>3, Zenon DEF Sleep
  <2>2. Settled(r) /\ DeadStay(sched, r) /\ r.ticks[r.current] > 0
    BY <1>1, SleepSelfKeeps
  <2> HIDE DEF r
  <2>3. Sound(sched') /\ DeadStay(r, sched')
    BY <2>1, <2>2, FakeTickKeeps
  <2> QED
    BY <2>2, <2>3 DEF Kept, DeadStay
<1> QED
  BY <1>2, <1>3

LEMMA SleepThreadStep ==
  ASSUME IInv, NEW c \in Threads, NEW t \in Threads, NEW n \in 1..MaxTicks,
         NEW i \in BOOLEAN, SleepThread(c, t, n, i)
  PROVE  Kept
<1>1. Sound(sched) /\ t # sched.current /\ Known(sched, t)
  BY Zenon DEF IInv, SleepThread, Running
<1>3. n \in Nat /\ n > 0
  BY ThreadAssumption
<1>2. sched' = UseWake(sched, t) \/ sched' = TicksSleep(sched, t, n, i)
  BY Zenon DEF SleepThread
<1> QED
  BY <1>1, <1>2, <1>3, UseWakeKeeps, SleepOtherKeeps DEF Kept

LEMMA SleepReturnsStep ==
  ASSUME IInv, NEW c \in Threads, SleepReturns(c)
  PROVE  Kept
BY PopSlotKeeps DEF IInv, SleepReturns, Kept

\* Finalize signals the end of t first.
LEMMA SignalledKeeps ==
  ASSUME Sound(sched), NEW w \in Threads \cup {NoThread}
  PROVE  /\ Sound(Signalled(w)) /\ DeadStay(sched, Signalled(w))
         /\ Signalled(w).current = sched.current
<1>1. CASE w = NoThread
  BY <1>1 DEF Signalled, DeadStay
<1>2. CASE w # NoThread
  <2>1. Signalled(w) = Resume(sched, w, FALSE) /\ w \in Threads
    BY <1>2 DEF Signalled
  <2>2. sched \in SchedType
    BY DEF Sound
  <2>3. Resume(sched, w, FALSE).current = sched.current
    BY <2>2 DEF Resume, SchedType
  <2> QED
    BY <2>1, <2>3, ResumeKeeps
<1> QED
  BY <1>1, <1>2

LEMMA FinalizeThreadStep ==
  ASSUME IInv, NEW c \in Threads, NEW t \in Threads,
         NEW w \in Threads \cup {NoThread}, FinalizeThread(c, t, w)
  PROVE  Kept
<1> DEFINE r == Signalled(w)
<1>1. Sound(r) /\ DeadStay(sched, r)
  BY SignalledKeeps DEF IInv
<1>2. sched' \in Finalize(r, t)
  BY DEF FinalizeThread
<1> HIDE DEF r
<1>3. Sound(sched') /\ DeadStay(r, sched')
  BY <1>1, <1>2, FinalizeKeeps
<1> QED
  BY <1>1, <1>3 DEF Kept, DeadStay

LEMMA FinalizeBlocksStep ==
  ASSUME IInv, NEW c \in Threads, NEW t \in Threads,
         NEW w \in Threads \cup {NoThread}, FinalizeBlocks(c, t, w)
  PROVE  Kept
<1> DEFINE r == Signalled(w)
           g == SuspendSelf(Removed(r, t))
<1>1. Sound(r) /\ DeadStay(sched, r) /\ r.current = c
  BY SignalledKeeps DEF IInv, FinalizeBlocks, CanFinalize, Running
<1>2. sched' \in FakeTick(g)
  BY DEF FinalizeBlocks
<1> HIDE DEF r
<1>3. Settled(g) /\ DeadStay(r, g) /\ g.current \notin g.sleeping
  BY <1>1, SuspendInFinalizeKeeps
<1> HIDE DEF g
<1>4. Sound(sched') /\ DeadStay(g, sched')
  BY <1>2, <1>3, FakeTickKeeps
<1> QED
  BY <1>1, <1>3, <1>4 DEF Kept, DeadStay

LEMMA FinalizeSlipsStep ==
  ASSUME IInv, NEW c \in Threads, NEW t \in Threads,
         NEW w \in Threads \cup {NoThread}, FinalizeSlips(c, t, w)
  PROVE  Kept
<1> DEFINE r == Signalled(w)
           g == UseWake(r, c)
<1>1. Sound(r) /\ DeadStay(sched, r)
  BY SignalledKeeps DEF IInv
<1>2. sched' \in Finalize(g, t)
  BY DEF FinalizeSlips
<1> HIDE DEF r
<1>3. Sound(g) /\ DeadStay(r, g)
  BY <1>1, UseWakeKeeps
<1> HIDE DEF g
<1>4. Sound(sched') /\ DeadStay(g, sched')
  BY <1>2, <1>3, FinalizeKeeps
<1> QED
  BY <1>1, <1>3, <1>4 DEF Kept, DeadStay

LEMMA FinalizeEndsStep ==
  ASSUME IInv, NEW c \in Threads, FinalizeEnds(c)
  PROVE  Kept
<1>1. ending[c] \in Threads /\ sched' \in Finalize(sched, ending[c])
  BY DEF IInv, FinalizeEnds
<1> QED
  BY <1>1, FinalizeKeeps DEF IInv, Kept

LEMMA ReleaseWindowsStep ==
  ASSUME IInv, NEW c \in Threads, NEW w \in Threads, ReleaseWindows(c, w)
  PROVE  Kept
BY ResumeKeeps DEF IInv, ReleaseWindows, Kept

LEMMA DeviceWakesStep ==
  ASSUME IInv, NEW t \in Threads, DeviceWakes(t)
  PROVE  Kept
BY QuickResumeKeeps DEF IInv, DeviceWakes, Kept

LEMMA ClockFiresStep ==
  ASSUME IInv, ClockFires
  PROVE  Kept
<1>1. sched' = [sched EXCEPT !.rtc = "raised"] /\ Sound(sched)
  BY DEF ClockFires, Raise, IInv
<1>2. sched \in WideType
  BY <1>1 DEF Sound, Settled
<1> QED
  BY <1>1, <1>2, ClockKeeps DEF Kept

LEMMA TimerInterruptStep ==
  ASSUME IInv, TimerInterrupt
  PROVE  Kept
BY TickHandlerKeeps DEF IInv, TimerInterrupt, Kept

-----------------------------------------------------------------------------
(* The history variables.                                                  *)

LEMMA CountDownType ==
  ASSUME NEW o \in [Threads -> Nat]
  PROVE  CountDown(o) \in [Threads -> Nat]
BY DEF CountDown

LEMMA OweType ==
  ASSUME IInv, NEW t \in Threads, NEW n \in Nat, Owe(t, n)
  PROVE  owed' \in [Threads -> Nat]
<1> DEFINE down == CountDown(owed)
<1>1. down \in [Threads -> Nat] /\ owed \in [Threads -> Nat]
  BY CountDownType DEF IInv
<1>2. owed' = [down EXCEPT ![t] = n] \/ owed' = owed
  BY Zenon DEF Owe
<1> HIDE DEF down
<1> QED
  BY <1>1, <1>2

LEMMA HearType ==
  ASSUME IInv, NEW t \in Threads, NEW b \in BOOLEAN, Hear(t, b)
  PROVE  unheard' \in [Threads -> BOOLEAN]
BY DEF IInv, Hear

LEMMA HearEndType ==
  ASSUME IInv, NEW w \in Threads \cup {NoThread}, HearEnd(w)
  PROVE  unheard' \in [Threads -> BOOLEAN]
<1>1. CASE w = NoThread
  BY <1>1 DEF HearEnd, IInv
<1>2. CASE w # NoThread
  BY <1>2, HearType DEF HearEnd
<1> QED
  BY <1>1, <1>2

LEMMA HearEndAndSlipType ==
  ASSUME IInv, NEW c \in Threads, NEW w, HearEndAndSlip(c, w)
  PROVE  unheard' \in [Threads -> BOOLEAN]
<1> DEFINE heard == [t \in Threads |->
             t # c /\ IF t = w THEN ~Resumable(sched, w) ELSE unheard[t]]
<1>1. unheard \in [Threads -> BOOLEAN]
  BY DEF IInv
<1>2. ASSUME NEW t \in Threads
      PROVE  (t # c /\ IF t = w THEN ~Resumable(sched, w) ELSE unheard[t]) \in BOOLEAN
  OBVIOUS
<1>3. heard \in [Threads -> BOOLEAN]
  BY <1>2, Zenon
<1> HIDE DEF heard
<1>4. unheard' = heard \/ unheard' = unheard
  BY Zenon DEF HearEndAndSlip, heard
<1> QED
  BY <1>1, <1>3, <1>4

\* Every step keeps the invariant and leaves the dead dead.
LEMMA NextKeeps ==
  ASSUME IInv, [Next]_vars
  PROVE  IInv' /\ DeadStay(sched, sched')
<1> DEFINE Ending == ending' \in [Threads -> Threads \cup {NoThread}]
           Histories == owed' \in [Threads -> Nat] /\ unheard' \in [Threads -> BOOLEAN]
<1> USE CountDownType
<1>1. owed \in [Threads -> Nat] /\ unheard \in [Threads -> BOOLEAN]
  BY DEF IInv
<1>2. HistoryStep => Histories
  BY <1>1 DEF HistoryStep
<1>9. UNCHANGED ending => Ending
  BY DEF IInv
<1>3. ASSUME NEW c \in Threads, NEW t \in Threads, Step(c, t) PROVE Kept /\ Ending /\ Histories
  <2>1. CASE Create(c, t)
    BY <1>2, <1>9, <2>1, CreateStep DEF Create
  <2>2. CASE SuspendThread(c, t)
    <3>1. Histories
      BY <1>1, <2>2, HearType DEF SuspendThread
    <3> QED
      BY <1>9, <2>2, <3>1, SuspendThreadStep DEF SuspendThread
  <2>3. CASE ResumeThread(c, t)
    <3>1. Histories
      <4>1. (~Resumable(sched, t)) \in BOOLEAN
        OBVIOUS
      <4> QED
        BY <1>1, <2>3, <4>1, HearType, Zenon DEF ResumeThread
    <3> QED
      BY <1>9, <2>3, <3>1, ResumeThreadStep DEF ResumeThread
  <2>4. CASE ReleaseWindows(c, t)
    <3>1. (~Resumable(sched, t)) \in BOOLEAN
      OBVIOUS
    <3>2. Hear(t, ~Resumable(sched, t)) /\ owed' = owed /\ UNCHANGED ending
      BY <2>4 DEF ReleaseWindows
    <3>3. Histories
      BY <1>1, <3>1, <3>2, HearType, Zenon
    <3> QED
      BY <1>9, <2>4, <3>2, <3>3, ReleaseWindowsStep
  <2>6. ASSUME NEW w \in Threads \cup {NoThread},
               \/ FinalizeThread(c, t, w)
               \/ FinalizeBlocks(c, t, w)
               \/ FinalizeSlips(c, t, w)
        PROVE  Kept /\ Ending /\ Histories
    <3>1. owed' = CountDown(owed) /\ (HearEnd(w) \/ HearEndAndSlip(c, w))
      BY <2>6, Zenon DEF FinalizeThread, FinalizeBlocks, FinalizeSlips
    <3>2. Histories
      BY <1>1, <3>1, HearEndType, HearEndAndSlipType
    <3>3. \/ ending' = [ending EXCEPT ![t] = NoThread]
          \/ ending' = [ending EXCEPT ![t] = NoThread, ![c] = t]
      BY <2>6, Zenon DEF FinalizeThread, FinalizeBlocks, FinalizeSlips
    <3>4. Ending
      BY <3>3 DEF IInv
    <3>5. Kept
      BY <2>6, FinalizeThreadStep, FinalizeBlocksStep, FinalizeSlipsStep
    <3> QED
      BY <3>2, <3>4, <3>5
  <2>5. CASE \E n \in 1..MaxTicks, i \in BOOLEAN : SleepThread(c, t, n, i)
    <3>1. PICK n \in 1..MaxTicks, i \in BOOLEAN : SleepThread(c, t, n, i)
      BY <2>5
    <3>2. n \in Nat
      BY ThreadAssumption
    <3>3. (owed' = owed \/ Owe(t, n)) /\ Hear(t, FALSE)
      BY <3>1, Zenon DEF SleepThread
    <3>4. Histories
      BY <1>1, <3>2, <3>3, OweType, HearType
    <3> QED
      BY <1>9, <3>1, <3>4, SleepThreadStep, Zenon DEF SleepThread
  <2> QED
    BY <1>3, <2>1, <2>2, <2>3, <2>4, <2>5, <2>6, Zenon DEF Step
<1>4. ASSUME NEW c \in Threads, OwnStep(c) PROVE Kept /\ Ending /\ Histories
  <2>1. CASE YieldCPU(c)
    BY <1>2, <1>9, <2>1, YieldStep DEF YieldCPU
  <2>2. CASE Suspend(c)
    <3>1. Histories
      BY <1>1, <2>2, HearType DEF Suspend
    <3> QED
      BY <1>9, <2>2, <3>1, SuspendStep DEF Suspend
  <2>3. CASE SleepReturns(c)
    BY <1>2, <1>9, <2>3, SleepReturnsStep DEF SleepReturns
  <2>4. CASE \E n \in 1..MaxTicks, i \in BOOLEAN : Sleep(c, n, i)
    <3>1. PICK n \in 1..MaxTicks, i \in BOOLEAN : Sleep(c, n, i)
      BY <2>4
    <3>2. n \in Nat
      BY ThreadAssumption
    <3>3. (owed' = owed \/ Owe(c, n)) /\ Hear(c, FALSE)
      BY <3>1, Zenon DEF Sleep
    <3>4. Histories
      BY <1>1, <3>2, <3>3, OweType, HearType
    <3> QED
      BY <1>9, <3>1, <3>4, SleepStep, Zenon DEF Sleep
  <2>5. CASE FinalizeEnds(c)
    <3>1. Ending /\ HistoryStep
      BY <2>5 DEF FinalizeEnds, IInv
    <3> QED
      BY <1>2, <2>5, <3>1, FinalizeEndsStep
  <2> QED
    BY <1>4, <2>1, <2>2, <2>3, <2>4, <2>5, Zenon DEF OwnStep
<1>5. ASSUME NEW t \in Threads, DeviceWakes(t) PROVE Kept /\ Ending /\ Histories
  <2>1. owed' \in [Threads -> Nat] /\ Hear(t, ~Resumable(sched, t))
    BY <1>1, <1>5 DEF DeviceWakes
  <2>2. Histories
    BY <2>1, HearType, Zenon
  <2> QED
    BY <1>5, <1>9, <2>2, DeviceWakesStep DEF DeviceWakes
<1>6. CASE ClockFires
  BY <1>1, <1>6, ClockFiresStep DEF ClockFires, IInv, Kept
<1>7. CASE TimerInterrupt
  BY <1>2, <1>7, <1>9, TimerInterruptStep DEF TimerInterrupt, IInv, Kept
<1>8. CASE UNCHANGED vars
  BY <1>8 DEF vars, IInv, DeadStay
<1> QED
  BY <1>3, <1>4, <1>5, <1>6, <1>7, <1>8 DEF Next, IInv, Kept

\* Thread::Initialize leaves a sound state.
LEMMA InitKeeps == Init => IInv
<1> SUFFICES ASSUME Init PROVE IInv
  OBVIOUS
<1> DEFINE none == <<>>
           k == InitSched
<1>1. none \in Seq(Threads) /\ ToSet(none) = {} /\ IsInjective(none)
  <2>1. none \in Seq(Threads) /\ DOMAIN none = {}
    OBVIOUS
  <2> QED
    BY <2>1 DEF ToSet, IsInjective
<1>2. /\ k.ready = none /\ k.suspended = {} /\ k.sleeping = {} /\ k.current = Main
      /\ k.state = [t \in Threads |-> "Unknown"]
  BY DEF InitSched
<1> HIDE DEF none
<1>3. k \in SchedType
  <2>1. /\ k.wake = [t \in Threads |-> 0] /\ k.ticks = [t \in Threads |-> 0]
        /\ k.intr = [t \in Threads |-> FALSE] /\ k.writes = [t \in Threads |-> FALSE]
        /\ k.slot = [t \in Threads |-> NoSlot] /\ k.rtc = "clear"
    BY DEF InitSched
  <2>2. k = [ready |-> k.ready, suspended |-> k.suspended, sleeping |-> k.sleeping,
             current |-> k.current, state |-> k.state, wake |-> k.wake,
             ticks |-> k.ticks, intr |-> k.intr, writes |-> k.writes,
             slot |-> k.slot, rtc |-> k.rtc]
    BY DEF InitSched
  <2> HIDE DEF k
  <2>3. /\ k.ready \in Seq(Threads) /\ k.suspended \in SUBSET Threads
        /\ k.sleeping \in SUBSET Threads /\ k.current \in Threads \cup {Idle}
        /\ k.state \in [Threads -> States] /\ k.wake \in [Threads -> Nat]
        /\ k.ticks \in [Threads -> Nat] /\ k.intr \in [Threads -> BOOLEAN]
        /\ k.writes \in [Threads -> BOOLEAN] /\ k.slot \in [Threads -> Int]
        /\ k.rtc \in {"clear", "raised", "latched"}
    BY <1>1, <1>2, <2>1, ThreadAssumption DEF States, NoSlot
  <2> QED
    BY <2>2, <2>3 DEF SchedType
<1> HIDE DEF k
<1>4. k \in WideType
  BY <1>3 DEF SchedType, WideType
<1>5. Disjoint(k) /\ Told(k, {k.current}) /\ CurrentLives(k)
  BY <1>1, <1>2 DEF Disjoint, Told, CurrentLives
<1>6. Sound(k)
  BY <1>1, <1>2, <1>3, <1>4, <1>5 DEF Sound, Settled
<1> QED
  BY <1>6 DEF Init, IInv, k

THEOREM Invariance == Spec => []IInv
<1>1. IInv /\ [Next]_vars => IInv'
  BY NextKeeps
<1> QED
  BY InitKeeps, <1>1, PTL DEF Spec

-----------------------------------------------------------------------------
(* What it means for the scheduler.                                        *)

\* The scheduler state always has the shape declared in thread.cpp: queues of
\* threads, a current thread that is never null between functions.
THEOREM TypeCorrect == Spec => []TypeOK
<1>1. IInv => TypeOK
  BY DEF IInv, Sound, TypeOK
<1> QED
  BY <1>1, Invariance, PTL

\* No thread is ever linked into two of the scheduler's lists, twice into one,
\* or into one while it runs.
THEOREM OnePlace == Spec => []InOnePlace
<1>1. IInv => InOnePlace
  BY DEF IInv, Sound, Settled, Disjoint, InOnePlace
<1> QED
  BY <1>1, Invariance, PTL

\* Thread::State always tells the list a thread is on; no live thread is lost.
THEOREM StateTells == Spec => []StateTellsPlace
<1>1. ASSUME IInv PROVE StateTellsPlace
  <2>1. /\ Told(sched, {sched.current}) /\ CurrentLives(sched)
        /\ \A t \in Threads : sched.state[t] # "Suspending"
    BY <1>1 DEF IInv, Sound, Settled
  <2> QED
    BY <2>1 DEF Told, CurrentLives, StateTellsPlace
<1> QED
  BY <1>1, Invariance, PTL

\* Every sleeper has ticks to go whenever a function of the scheduler returns.
THEOREM SleepersWait == Spec => []SleepersHaveTime
<1>1. IInv => SleepersHaveTime
  BY DEF IInv, Sound, SleepersHaveTime
<1> QED
  BY <1>1, Invariance, PTL

\* A finalized thread never comes back.
THEOREM FinalizedStays == Spec => FinalizedIsFinal
<1>1. IInv /\ [Next]_vars => [\A t \in Threads : Dead(sched, t) => Dead(sched', t)]_vars
  BY NextKeeps DEF DeadStay
<1> QED
  BY <1>1, Invariance, PTL DEF Spec, FinalizedIsFinal

-----------------------------------------------------------------------------
(* Results are stored only in the slot of a thread blocked in TicksSleep.  *)
(*                                                                         *)
(* Two ways of interfering break it together: a thread suspended in its    *)
(* sleep keeps CanChangeState set when it returns from TicksSleep, and one *)
(* put to sleep by another has no slot.  Without the first, CanChangeState *)
(* is set only while a thread sleeps (or was finalized asleep); without    *)
(* the second, whoever sleeps has a slot.                                  *)

Guarded(k) == \A t \in Threads :
  k.writes[t] => IF t \in k.sleeping THEN k.slot[t] # NoSlot ELSE Dead(k, t)

InCall(k) == \A t \in k.sleeping : k.slot[t] # NoSlot

Fit(k) ==
  /\ "suspend other" \notin Ops => Guarded(k)
  /\ "sleep other" \notin Ops => InCall(k)

\* What a step must show is only what it does to the one thread it is about.
LEMMA SparedFits ==
  ASSUME NEW k, NEW r, NEW c, Fit(k), Sound(r), Spared(k, r, c),
         c \in Threads /\ "suspend other" \notin Ops /\ r.writes[c] =>
           IF c \in r.sleeping THEN r.slot[c] # NoSlot ELSE Dead(r, c),
         "sleep other" \notin Ops /\ c \in r.sleeping => r.slot[c] # NoSlot
  PROVE  Fit(r)
<1>1. r.sleeping \subseteq Threads
  BY DEF Sound, SchedType
<1>2. ASSUME "suspend other" \notin Ops, NEW t \in Threads, r.writes[t]
      PROVE  IF t \in r.sleeping THEN r.slot[t] # NoSlot ELSE Dead(r, t)
  <2>1. CASE t = c
    BY <1>2, <2>1
  <2>2. CASE t # c
    BY <1>2, <2>2 DEF Fit, Guarded, Spared
  <2> QED
    BY <2>1, <2>2
<1>3. ASSUME "sleep other" \notin Ops, NEW t \in r.sleeping
      PROVE  r.slot[t] # NoSlot
  <2>1. CASE t = c
    BY <1>3, <2>1
  <2>2. CASE t # c
    BY <1>1, <1>3, <2>2 DEF Fit, InCall, Spared
  <2> QED
    BY <2>1, <2>2
<1> QED
  BY <1>2, <1>3 DEF Fit, Guarded, InCall

LEMMA UseWakeFits ==
  ASSUME NEW k, Sound(k), Fit(k), NEW t \in Threads
  PROVE  Fit(UseWake(k, t))
BY UseWakeSpares DEF Fit, Guarded, InCall, Dead

LEMMA SwitchFits ==
  ASSUME NEW k, Sound(k), Fit(k), NEW r \in FakeTick(k) \cup TickHandler(k)
  PROVE  Fit(r)
<1>1. Sound(r) /\ Spared(k, r, NoThread)
  BY SwitchSpares
<1>2. NoThread \notin Threads /\ r.sleeping \subseteq Threads
  BY <1>1, ThreadAssumption DEF Sound, SchedType
<1> QED
  BY <1>1, <1>2, SparedFits

LEMMA SuspendSelfFits ==
  ASSUME NEW k, Sound(k), Fit(k), k.current \in Threads, ~StaysAwake(k, k.current),
         NEW r \in FakeTick(SuspendSelf(k))
  PROVE  Fit(r)
<1> DEFINE c == k.current
<1>1. /\ Sound(r) /\ Spared(k, r, c)
      /\ c \in r.suspended /\ (r.writes[c] => k.writes[c])
  BY SuspendSelfBlocks
<1>2. c \notin r.sleeping /\ c \notin k.sleeping /\ ~Dead(k, c)
  BY <1>1 DEF Sound, Settled, Disjoint, CurrentLives, Dead
<1>3. "suspend other" \notin Ops => ~k.writes[c]
  BY <1>2 DEF Fit, Guarded
<1> HIDE DEF c
<1> QED
  BY <1>1, <1>2, <1>3, SparedFits

LEMMA ResumeFits ==
  ASSUME NEW k, Sound(k), Fit(k), NEW t \in Threads, NEW prepend \in BOOLEAN
  PROVE  Fit(Resume(k, t, prepend))
<1> DEFINE r == Resume(k, t, prepend)
<1>1. /\ Sound(r) /\ Spared(k, r, t)
      /\ r.sleeping \subseteq k.sleeping
      /\ t \in r.sleeping => r.slot[t] = k.slot[t]
      /\ Dead(r, t) <=> Dead(k, t)
      /\ r.writes[t] => k.writes[t] /\ (t \in k.sleeping => t \in r.sleeping)
  BY ResumeSpares
<1> HIDE DEF r
<1>2. "suspend other" \notin Ops /\ r.writes[t] =>
        IF t \in r.sleeping THEN r.slot[t] # NoSlot ELSE Dead(r, t)
  BY <1>1 DEF Fit, Guarded
<1>3. "sleep other" \notin Ops /\ t \in r.sleeping => r.slot[t] # NoSlot
  BY <1>1 DEF Fit, InCall
<1>4. Fit(r)
  BY <1>1, <1>2, <1>3, SparedFits
<1> QED
  BY <1>4 DEF r

LEMMA QuickResumeFits ==
  ASSUME NEW k, Sound(k), Fit(k), NEW t \in Threads, NEW r \in QuickResume(k, t)
  PROVE  Fit(r)
<1> DEFINE woken == Resume(k, t, TRUE)
<1>1. TRUE \in BOOLEAN
  OBVIOUS
<1>2. Sound(woken) /\ Fit(woken)
  BY <1>1, ResumeSpares, ResumeFits
<1>3. r = woken \/ r \in Dispatch(woken, TRUE)
  BY Zenon DEF QuickResume
<1> HIDE DEF woken
<1>4. ASSUME r \in Dispatch(woken, TRUE) PROVE Fit(r)
  <2>1. Sound(r) /\ Spared(woken, r, NoThread)
    BY <1>1, <1>2, <1>4, DispatchSpares
  <2>2. NoThread \notin Threads /\ r.sleeping \subseteq Threads
    BY <2>1, ThreadAssumption DEF Sound, SchedType
  <2> QED
    BY <1>2, <2>1, <2>2, SparedFits
<1> QED
  BY <1>2, <1>3, <1>4

LEMMA SleepOtherFits ==
  ASSUME NEW k, Sound(k), Fit(k), "sleep other" \in Ops, NEW t \in Threads,
         t # k.current, Known(k, t), NEW n \in Nat, n > 0, NEW i \in BOOLEAN,
         NEW r, r = TicksSleep(k, t, n, i)
  PROVE  Fit(r)
<1>1. Sound(r) /\ Spared(k, r, t) /\ Asleep(k, r, t, n) /\ ~Dead(k, t)
  BY SleepOtherSpares
<1>2. "suspend other" \notin Ops /\ k.writes[t] => k.slot[t] # NoSlot
  BY <1>1 DEF Fit, Guarded
<1> QED
  BY <1>1, <1>2, SparedFits DEF Asleep

LEMMA FinalizeFits ==
  ASSUME NEW k, Sound(k), Fit(k), NEW t \in Threads, NEW r \in Finalize(k, t)
  PROVE  Fit(r)
<1>1. Sound(r) /\ Spared(k, r, t) /\ t \notin r.sleeping /\ Dead(r, t)
  BY FinalizeSpares
<1> QED
  BY <1>1, SparedFits

LEMMA BlockInFinalizeFits ==
  ASSUME NEW k, Sound(k), Fit(k), k.current \in Threads, NEW t \in Threads,
         ~StaysAwake(Removed(k, t), k.current),
         NEW r \in FakeTick(SuspendSelf(Removed(k, t)))
  PROVE  Fit(r)
<1> DEFINE g == Removed(k, t)
<1>1. CASE t = k.current
  BY <1>1, BlockedInOwnFinalize, SuspendSelfFits
<1>2. CASE t # k.current
  <2>1. Sound(g) /\ Fit(g) /\ g.current = k.current
    BY <1>2, RemovedOther, FinalizeFits, FinalizeSpares
  <2> HIDE DEF g
  <2> QED
    BY <2>1, SuspendSelfFits DEF g
<1> QED
  BY <1>1, <1>2

LEMMA SignalledFits ==
  ASSUME Sound(sched), Fit(sched), NEW w \in Threads \cup {NoThread}
  PROVE  Fit(Signalled(w))
<1>1. FALSE \in BOOLEAN
  OBVIOUS
<1>2. CASE w = NoThread
  BY <1>2 DEF Signalled
<1>3. CASE w # NoThread
  BY <1>1, <1>3, ResumeFits DEF Signalled
<1> QED
  BY <1>2, <1>3

\* The steps of one thread on itself.
LEMMA OwnStepFits ==
  ASSUME IInv, Fit(sched), NEW c \in Threads, OwnStep(c)
  PROVE  Fit(sched')
<1>1. Sound(sched)
  BY DEF IInv
<1>2. CASE YieldCPU(c)
  BY <1>1, <1>2, SwitchFits DEF YieldCPU
<1>3. CASE Suspend(c)
  <2>1. sched.current = c
    BY <1>3 DEF Suspend, Running
  <2>2. CASE StaysAwake(sched, c)
    BY <1>1, <1>3, <2>2, UseWakeFits DEF Suspend
  <2>3. CASE ~StaysAwake(sched, c)
    BY <1>1, <1>3, <2>1, <2>3, SuspendSelfFits DEF Suspend
  <2> QED
    BY <2>2, <2>3
<1>4. CASE SleepReturns(c)
  <2>1. sched' = PopSlot(sched, c) /\ sched.current = c
    BY <1>4 DEF SleepReturns
  <2>2. /\ Sound(sched') /\ Spared(sched, sched', c)
        /\ sched'.sleeping = sched.sleeping /\ sched'.state = sched.state
        /\ sched'.writes = sched.writes
    BY <1>1, <2>1, PopSlotSpares
  <2>3. c \notin sched.sleeping
    BY <1>1, <2>1 DEF Sound
  <2>4. "suspend other" \notin Ops /\ sched.writes[c] => Dead(sched, c)
    BY <2>3 DEF Fit, Guarded
  <2>5. Dead(sched, c) => Dead(sched', c)
    BY <2>2 DEF Dead
  <2> QED
    BY <2>2, <2>3, <2>4, <2>5, SparedFits
<1>5. CASE FinalizeEnds(c)
  <2>1. ending[c] \in Threads
    BY <1>5 DEF FinalizeEnds, IInv
  <2> QED
    BY <1>1, <1>5, <2>1, FinalizeFits DEF FinalizeEnds
<1>6. CASE \E n \in 1..MaxTicks, i \in BOOLEAN : Sleep(c, n, i)
  <2>1. PICK n \in 1..MaxTicks, i \in BOOLEAN : Sleep(c, n, i)
    BY <1>6
  <2>2. n \in Nat /\ n > 0 /\ sched.current = c
    BY <2>1, ThreadAssumption DEF Sleep, Running
  <2>3. CASE StaysAwake(sched, c)
    <3>1. sched' = UseWake(sched, c)
      BY <2>1, <2>3, Zenon DEF Sleep
    <3> QED
      BY <1>1, <3>1, UseWakeFits
  <2>4. CASE ~StaysAwake(sched, c)
    <3>1. sched' \in FakeTick(TicksSleep(sched, c, n, i))
      BY <2>1, <2>4, Zenon DEF Sleep
    <3>2. /\ Sound(sched') /\ Spared(sched, sched', c)
          /\ c \in sched'.sleeping => sched'.slot[c] \notin {NoSlot, 0}
          /\ sched'.sleeping = sched.sleeping \cup {c}
      BY <1>1, <2>2, <2>4, <3>1, SleepSelfBlocks
    <3> QED
      BY <3>2, SparedFits
  <2> QED
    BY <2>3, <2>4
<1> QED
  BY <1>2, <1>3, <1>4, <1>5, <1>6, Zenon DEF OwnStep

\* The steps of one thread on another.
LEMMA StepFits ==
  ASSUME IInv, Fit(sched), NEW c \in Threads, NEW t \in Threads, Step(c, t)
  PROVE  Fit(sched')
<1>1. Sound(sched) /\ FALSE \in BOOLEAN
  BY DEF IInv
<1>2. CASE Create(c, t)
  <2>1. t # Main /\ sched.state[t] = "Unknown" /\ sched' = Enable(sched, t)
    BY <1>2 DEF Create
  <2>2. /\ Sound(sched') /\ Spared(sched, sched', t)
        /\ sched'.sleeping = sched.sleeping /\ sched'.writes = sched.writes
        /\ t \notin sched.sleeping
    BY <1>1, <2>1, EnableSpares
  <2>3. "suspend other" \notin Ops => ~sched.writes[t]
    BY <2>1, <2>2 DEF Fit, Guarded, Dead
  <2> QED
    BY <2>2, <2>3, SparedFits
<1>3. CASE SuspendThread(c, t)
  <2>1. /\ "suspend other" \in Ops /\ t # sched.current
        /\ sched' = SuspendOther(sched, t)
    BY <1>3 DEF SuspendThread, Running
  <2>2. /\ Sound(sched') /\ Spared(sched, sched', t)
        /\ sched'.sleeping \subseteq sched.sleeping /\ sched'.slot = sched.slot
    BY <1>1, <2>1, SuspendOtherSpares
  <2>3. "sleep other" \notin Ops /\ t \in sched'.sleeping => sched'.slot[t] # NoSlot
    BY <2>2 DEF Fit, InCall
  <2> QED
    BY <2>1, <2>2, <2>3, SparedFits
<1>4. CASE ResumeThread(c, t)
  BY <1>1, <1>4, ResumeFits DEF ResumeThread
<1>5. CASE ReleaseWindows(c, t)
  BY <1>1, <1>5, ResumeFits DEF ReleaseWindows
<1>6. ASSUME NEW w \in Threads \cup {NoThread},
             \/ FinalizeThread(c, t, w)
             \/ FinalizeBlocks(c, t, w)
             \/ FinalizeSlips(c, t, w)
      PROVE  Fit(sched')
  <2> DEFINE k == Signalled(w)
  <2>1. Sound(k) /\ Fit(k) /\ k.current = sched.current
    BY <1>1, SignalledKeeps, SignalledFits
  <2>2. sched.current = c
    BY <1>6, Zenon DEF FinalizeThread, FinalizeBlocks, FinalizeSlips, CanFinalize, Running
  <2>3. \/ sched' \in Finalize(k, t)
        \/ ~StaysAwake(Removed(k, t), c) /\ sched' \in FakeTick(SuspendSelf(Removed(k, t)))
        \/ sched' \in Finalize(UseWake(k, c), t)
    BY <1>6, Zenon DEF FinalizeThread, FinalizeBlocks, FinalizeSlips
  <2> HIDE DEF k
  <2>4. Sound(UseWake(k, c)) /\ Fit(UseWake(k, c))
    BY <2>1, UseWakeFits, UseWakeSpares
  <2> QED
    BY <2>1, <2>2, <2>3, <2>4, FinalizeFits, BlockInFinalizeFits
<1>7. CASE \E n \in 1..MaxTicks, i \in BOOLEAN : SleepThread(c, t, n, i)
  <2>1. PICK n \in 1..MaxTicks, i \in BOOLEAN : SleepThread(c, t, n, i)
    BY <1>7
  <2>2. n \in Nat /\ n > 0
    BY ThreadAssumption
  <2>3. "sleep other" \in Ops /\ t # sched.current /\ Known(sched, t)
    BY <2>1, Zenon DEF SleepThread, Running
  <2>4. sched' = UseWake(sched, t) \/ sched' = TicksSleep(sched, t, n, i)
    BY <2>1, Zenon DEF SleepThread
  <2>5. CASE sched' = TicksSleep(sched, t, n, i)
    BY <1>1, <2>2, <2>3, <2>5, SleepOtherFits
  <2> QED
    BY <1>1, <2>4, <2>5, UseWakeFits
<1> QED
  BY <1>2, <1>3, <1>4, <1>5, <1>6, <1>7, Zenon DEF Step

LEMMA NextFits ==
  ASSUME IInv, Fit(sched), [Next]_vars
  PROVE  Fit(sched')
<1>1. Sound(sched)
  BY DEF IInv
<1>2. ASSUME NEW t \in Threads, DeviceWakes(t) PROVE Fit(sched')
  BY <1>1, <1>2, QuickResumeFits DEF DeviceWakes
<1>3. CASE ClockFires
  <2>1. /\ Sound(sched') /\ Spared(sched, sched', NoThread)
        /\ sched'.sleeping = sched.sleeping
    BY <1>1, <1>3, RaiseSpares DEF ClockFires
  <2>2. NoThread \notin Threads /\ sched'.sleeping \subseteq Threads
    BY <2>1, ThreadAssumption DEF Sound, SchedType
  <2> QED
    BY <2>1, <2>2, SparedFits
<1>4. CASE TimerInterrupt
  BY <1>1, <1>4, SwitchFits DEF TimerInterrupt
<1>5. CASE UNCHANGED vars
  BY <1>5 DEF vars, Fit, Guarded, InCall, Dead
<1> QED
  BY <1>2, <1>3, <1>4, <1>5, OwnStepFits, StepFits DEF Next

\* No function of the scheduler stores into the stack of a thread that is not
\* blocked inside TicksSleep: as long as threads are not both suspended and put
\* to sleep by others, for then it does (SuspendOther leaves CanChangeState).
THEOREM StackWritesSafe ==
  ASSUME "suspend other" \notin Ops \/ "sleep other" \notin Ops
  PROVE  Spec => []StackWritesAreSafe
<1>1. Init => Fit(sched)
  <2>1. /\ InitSched.writes = [t \in Threads |-> FALSE] /\ InitSched.sleeping = {}
    BY DEF InitSched
  <2>2. Fit(InitSched)
    BY <2>1 DEF Fit, Guarded, InCall
  <2> QED
    BY <2>2 DEF Init
<1>2. IInv /\ Fit(sched) /\ [Next]_vars => Fit(sched)'
  BY NextFits
<1>3. IInv /\ Fit(sched) => StackWritesAreSafe
  <2>1. IInv => sched.sleeping \subseteq Threads
    BY DEF IInv, Sound, SchedType
  <2> QED
    BY <2>1 DEF Fit, Guarded, InCall, StackWritesAreSafe
<1> QED
  BY <1>1, <1>2, <1>3, Invariance, PTL DEF Spec

-----------------------------------------------------------------------------
(* No wake-up is lost among threads that only suspend: a thread that could *)
(* run has a WakeCount of at least one, left by the Resume that made it    *)
(* ready, and of two after a Resume it has not heard.                      *)

Unheard == {t \in Threads : unheard[t]}

Attends(k, t, U) ==
  \/ t \in k.suspended \/ Dead(k, t) \/ Unborn(k, t)
  \/ k.wake[t] > 0 /\ (t \in U => k.wake[t] > 1)

Heeded(k, U) ==
  /\ k.sleeping = {}
  /\ \A t \in Threads \ {Main} : Attends(k, t, U)

LEMMA SparedHeeds ==
  ASSUME NEW k, NEW r, NEW c, NEW U, NEW V, Heeded(k, U), Sound(r),
         Spared(k, r, c), c \notin r.sleeping,
         \A t \in Threads \ {c} : t \in V => t \in U,
         c \in Threads \ {Main} => Attends(r, c, V)
  PROVE  Heeded(r, V)
<1>1. r.sleeping \subseteq Threads
  BY DEF Sound, SchedType
<1>2. r.sleeping = {}
  BY <1>1 DEF Heeded, Spared
<1>3. ASSUME NEW t \in Threads \ {Main}, t # c PROVE Attends(r, t, V)
  <2>1. Attends(k, t, U) /\ (t \in V => t \in U)
    BY <1>3 DEF Heeded
  <2>2. /\ r.wake[t] = k.wake[t] /\ (t \in k.suspended => t \in r.suspended)
        /\ Dead(k, t) => Dead(r, t)
        /\ Unborn(k, t) => Unborn(r, t)
    BY <1>3 DEF Spared
  <2> QED
    BY <2>1, <2>2 DEF Attends
<1> QED
  BY <1>2, <1>3 DEF Heeded

\* The running thread has some WakeCount left.
LEMMA CurrentAttends ==
  ASSUME NEW k, Sound(k), NEW U, Heeded(k, U), NEW t \in Threads \ {Main},
         k.current = t
  PROVE  t \notin k.suspended /\ k.wake[t] > 0 /\ (t \in U => k.wake[t] > 1)
<1>1. t \notin k.suspended /\ ~Dead(k, t) /\ ~Unborn(k, t)
  BY DEF Sound, Settled, CurrentLives, Dead, Unborn
<1>2. Attends(k, t, U)
  BY DEF Heeded
<1> QED
  BY <1>1, <1>2 DEF Attends

LEMMA StaysAwakeAbove ==
  ASSUME NEW k, Sound(k), NEW t \in Threads
  PROVE  /\ k.wake[t] \in Nat
         /\ StaysAwake(k, t) <=> k.wake[t] > 1
<1>1. k.wake[t] \in Nat
  BY DEF Sound, SchedType
<1>2. UseWake(k, t).wake[t] = IF k.wake[t] > 0 THEN k.wake[t] - 1 ELSE 0
  BY UseWakeSpares
<1> QED
  BY <1>1, <1>2 DEF StaysAwake

\* A caller that blocks in Finalize had no wake-up left to hear.
LEMMA BlocksInFinalize ==
  ASSUME NEW k, Sound(k), k.current \in Threads, NEW t \in Threads,
         ~StaysAwake(Removed(k, t), k.current)
  PROVE  ~(k.wake[k.current] > 1)
<1> DEFINE g == Removed(k, t)
<1>1. CASE t = k.current
  BY <1>1, BlockedInOwnFinalize, StaysAwakeAbove
<1>2. CASE t # k.current
  <2>1. Sound(g) /\ g.wake = k.wake
    BY <1>2, RemovedOther, FinalizeSpares
  <2>2. ~StaysAwake(g, k.current)
    OBVIOUS
  <2> HIDE DEF g
  <2> QED
    BY <2>1, <2>2, StaysAwakeAbove
<1> QED
  BY <1>1, <1>2

LEMMA SwitchHeeds ==
  ASSUME NEW k, Sound(k), NEW U, Heeded(k, U), NEW r \in FakeTick(k) \cup TickHandler(k)
  PROVE  Heeded(r, U) /\ \A t \in Threads : t \in r.suspended => t \in k.suspended
<1>1. Sound(r) /\ Spared(k, r, NoThread)
  BY SwitchSpares
<1>2. NoThread \notin Threads /\ r.sleeping \subseteq Threads
  BY <1>1, ThreadAssumption DEF Sound, SchedType
<1>3. Heeded(r, U)
  BY <1>1, <1>2, SparedHeeds
<1> QED
  BY <1>1, <1>2, <1>3 DEF Spared

\* Blocking, whatever is remembered of the thread that blocks
LEMMA SuspendSelfHeeds ==
  ASSUME NEW k, Sound(k), NEW U, NEW V, Heeded(k, U), k.current \in Threads,
         ~StaysAwake(k, k.current), NEW r \in FakeTick(SuspendSelf(k)),
         \A t \in Threads \ {k.current} : t \in V => t \in U
  PROVE  Heeded(r, V)
<1> DEFINE c == k.current
<1>1. Sound(r) /\ Spared(k, r, c) /\ c \in r.suspended
  BY SuspendSelfBlocks
<1>2. c \notin r.sleeping /\ Attends(r, c, V)
  BY <1>1 DEF Sound, Settled, Disjoint, Attends
<1> HIDE DEF c
<1>3. \A t \in Threads \ {c} : t \in V => t \in U
  BY DEF c
<1> QED
  BY <1>1, <1>2, <1>3, SparedHeeds

\* not blocking, which uses up what was heard
LEMMA UseWakeHeeds ==
  ASSUME NEW k, Sound(k), NEW U, NEW V, Heeded(k, U), NEW t \in Threads,
         StaysAwake(k, t), \A y \in Threads \ {t} : y \in V => y \in U, t \notin V
  PROVE  Heeded(UseWake(k, t), V)
<1> DEFINE r == UseWake(k, t)
<1>1. Sound(r) /\ Spared(k, r, t) /\ r.sleeping = k.sleeping
  BY UseWakeSpares
<1>2. Attends(r, t, V)
  BY DEF StaysAwake, Attends
<1>3. t \notin r.sleeping
  BY <1>1 DEF Heeded
<1> HIDE DEF r
<1>4. Heeded(r, V)
  BY <1>1, <1>2, <1>3, SparedHeeds
<1> QED
  BY <1>4 DEF r

LEMMA ResumeHeeds ==
  ASSUME NEW k, Sound(k), NEW U, NEW V, Heeded(k, U), NEW t \in Threads,
         NEW prepend \in BOOLEAN,
         \A y \in Threads \ {t} : y \in V => y \in U, Resumable(k, t) => t \notin V
  PROVE  /\ Heeded(Resume(k, t, prepend), V)
         /\ Resume(k, t, prepend).suspended \subseteq k.suspended
         /\ \A y \in Threads : Resume(k, t, prepend).wake[y] >= k.wake[y]
<1> DEFINE r == Resume(k, t, prepend)
<1>1. /\ Sound(r) /\ Spared(k, r, t)
      /\ r.suspended = k.suspended \ {t} /\ r.sleeping \subseteq k.sleeping
      /\ r.wake[t] = k.wake[t] + 1
      /\ Dead(r, t) <=> Dead(k, t)
      /\ Unborn(k, t) => Unborn(r, t)
  BY ResumeSpares
<1>2. \A y \in Threads : k.wake[y] \in Nat
  BY DEF Sound, SchedType
<1>3. t \notin r.sleeping
  BY <1>1 DEF Heeded
<1> HIDE DEF r
<1>4. \A y \in Threads : r.wake[y] >= k.wake[y]
  BY <1>1, <1>2 DEF Spared
<1>5. ASSUME t # Main PROVE Attends(r, t, V)
  <2>1. Attends(k, t, U)
    BY <1>5 DEF Heeded
  <2>2. CASE t \in k.suspended
    <3>1. t \notin V
      BY <2>2 DEF Resumable
    <3>2. r.wake[t] > 0
      BY <1>1, <1>2
    <3> QED
      BY <3>1, <3>2 DEF Attends
  <2>3. CASE Dead(k, t) \/ Unborn(k, t)
    BY <1>1, <2>3 DEF Attends
  <2>4. CASE k.wake[t] > 0
    <3>1. r.wake[t] > 0 /\ r.wake[t] > 1
      BY <1>1, <1>2, <2>4
    <3> QED
      BY <3>1 DEF Attends
  <2> QED
    BY <2>1, <2>2, <2>3, <2>4 DEF Attends
<1>6. Heeded(r, V)
  BY <1>1, <1>3, <1>5, SparedHeeds
<1> QED
  BY <1>1, <1>4, <1>6 DEF r

LEMMA QuickResumeHeeds ==
  ASSUME NEW k, Sound(k), NEW U, NEW V, Heeded(k, U), NEW t \in Threads,
         NEW r \in QuickResume(k, t),
         \A y \in Threads \ {t} : y \in V => y \in U, Resumable(k, t) => t \notin V
  PROVE  Heeded(r, V) /\ \A y \in Threads : y \in r.suspended => y \in k.suspended
<1> DEFINE woken == Resume(k, t, TRUE)
<1>1. TRUE \in BOOLEAN
  OBVIOUS
<1>2. Sound(woken) /\ Heeded(woken, V) /\ woken.suspended \subseteq k.suspended
  <2>1. Sound(woken)
    BY <1>1, ResumeSpares
  <2> QED
    BY <1>1, <2>1, ResumeHeeds
<1>3. r = woken \/ r \in Dispatch(woken, TRUE)
  BY Zenon DEF QuickResume
<1> HIDE DEF woken
<1>4. ASSUME r \in Dispatch(woken, TRUE)
      PROVE  Heeded(r, V) /\ \A y \in Threads : y \in r.suspended => y \in woken.suspended
  <2>1. Sound(r) /\ Spared(woken, r, NoThread)
    BY <1>1, <1>2, <1>4, DispatchSpares
  <2>2. NoThread \notin Threads /\ r.sleeping \subseteq Threads
    BY <2>1, ThreadAssumption DEF Sound, SchedType
  <2>3. Heeded(r, V)
    BY <1>2, <2>1, <2>2, SparedHeeds
  <2> QED
    BY <2>1, <2>2, <2>3 DEF Spared
<1> QED
  BY <1>2, <1>3, <1>4

LEMMA FinalizeHeeds ==
  ASSUME NEW k, Sound(k), NEW U, Heeded(k, U), NEW t \in Threads, NEW r \in Finalize(k, t)
  PROVE  Heeded(r, U) /\ \A y \in Threads : y \in r.suspended => y \in k.suspended
<1>1. Sound(r) /\ Spared(k, r, t) /\ t \notin r.suspended \cup r.sleeping /\ Dead(r, t)
  BY FinalizeSpares
<1>2. Heeded(r, U)
  BY <1>1, SparedHeeds DEF Attends
<1> QED
  BY <1>1, <1>2 DEF Spared

LEMMA BlockInFinalizeHeeds ==
  ASSUME NEW k, Sound(k), NEW U, Heeded(k, U), k.current \in Threads, NEW t \in Threads,
         ~StaysAwake(Removed(k, t), k.current),
         NEW r \in FakeTick(SuspendSelf(Removed(k, t)))
  PROVE  /\ Heeded(r, U)
         /\ \A y \in Threads : y \in r.suspended => y \in k.suspended \/ y = k.current
<1> DEFINE g == Removed(k, t)
<1>1. CASE t = k.current
  <2>1. ~StaysAwake(k, k.current) /\ r \in FakeTick(SuspendSelf(k))
    BY <1>1, BlockedInOwnFinalize
  <2>2. Heeded(r, U) /\ Spared(k, r, k.current)
    BY <2>1, SuspendSelfHeeds, SuspendSelfBlocks
  <2> QED
    BY <2>2 DEF Spared
<1>2. CASE t # k.current
  <2>1. Sound(g) /\ g.current = k.current /\ Spared(k, g, t) /\ t \notin g.suspended
    BY <1>2, RemovedOther, FinalizeSpares
  <2>2. Heeded(g, U)
    BY <1>2, RemovedOther, FinalizeHeeds
  <2>3. ~StaysAwake(g, g.current) /\ r \in FakeTick(SuspendSelf(g))
    BY <2>1
  <2> HIDE DEF g
  <2>4. Heeded(r, U) /\ Spared(g, r, k.current)
    BY <2>1, <2>2, <2>3, SuspendSelfHeeds, SuspendSelfBlocks
  <2> QED
    BY <2>1, <2>4 DEF Spared
<1> QED
  BY <1>1, <1>2

\* What is shown of every step
Heeding ==
  /\ Heeded(sched', Unheard')
  /\ \A t \in Threads \ {Main} :
       t \in Unheard /\ sched.current = t => t \notin sched'.suspended

\* A step that puts no running thread on the suspended list is none to lose a
\* wake-up.
LEMMA NobodyBlocks ==
  ASSUME IInv, Heeded(sched', Unheard'),
         \A t \in Threads : t \in sched'.suspended => t \in sched.suspended \/ t # sched.current
  PROVE  Heeding
<1>1. sched.current \notin sched.suspended
  BY DEF IInv, Sound, Settled
<1> QED
  BY <1>1 DEF Heeding

LEMMA HeardBlocking ==
  ASSUME IInv, "unheard" \in History, NEW t \in Threads, Hear(t, FALSE)
  PROVE  t \notin Unheard' /\ \A y \in Threads \ {t} : y \in Unheard' => y \in Unheard
<1>1. unheard' = [unheard EXCEPT ![t] = FALSE]
  BY Zenon DEF Hear
<1> QED
  BY <1>1 DEF IInv, Unheard

LEMMA HeardResume ==
  ASSUME IInv, "unheard" \in History, NEW t \in Threads,
         Hear(t, ~Resumable(sched, t))
  PROVE  /\ Resumable(sched, t) => t \notin Unheard'
         /\ \A y \in Threads \ {t} : y \in Unheard' => y \in Unheard
<1>1. unheard' = [unheard EXCEPT ![t] = ~Resumable(sched, t)]
  BY Zenon DEF Hear
<1> QED
  BY <1>1 DEF IInv, Unheard

LEMMA SignalledHeeds ==
  ASSUME IInv, "unheard" \in History, NEW w \in Threads \cup {NoThread},
         Heeded(sched, Unheard), HearEnd(w)
  PROVE  /\ Heeded(Signalled(w), Unheard')
         /\ Signalled(w).suspended \subseteq sched.suspended
         /\ \A t \in Threads : Signalled(w).wake[t] >= sched.wake[t]
<1>1. FALSE \in BOOLEAN /\ Sound(sched)
  BY DEF IInv
<1>2. CASE w = NoThread
  <2>1. Signalled(w) = sched /\ Unheard' = Unheard
    BY <1>2 DEF Signalled, HearEnd, Unheard
  <2>2. \A t \in Threads : sched.wake[t] \in Nat
    BY <1>1 DEF Sound, SchedType
  <2> QED
    BY <2>1, <2>2
<1>3. CASE w # NoThread
  <2>1. Signalled(w) = Resume(sched, w, FALSE) /\ Hear(w, ~Resumable(sched, w))
    BY <1>3, Zenon DEF Signalled, HearEnd
  <2>2. /\ Resumable(sched, w) => w \notin Unheard'
        /\ \A y \in Threads \ {w} : y \in Unheard' => y \in Unheard
    BY <1>3, <2>1, HeardResume
  <2> QED
    BY <1>1, <1>3, <2>1, <2>2, ResumeHeeds
<1> QED
  BY <1>2, <1>3

LEMMA OwnStepHeeds ==
  ASSUME IInv, "unheard" \in History, "sleep" \notin Ops, Heeded(sched, Unheard),
         NEW c \in Threads, OwnStep(c)
  PROVE  Heeding
<1>1. Sound(sched)
  BY DEF IInv
<1>2. CASE YieldCPU(c)
  <2>1. Unheard' = Unheard /\ sched' \in FakeTick(sched)
    BY <1>2 DEF YieldCPU, HistoryStep, Unheard
  <2> QED
    BY <1>1, <2>1, SwitchHeeds, NobodyBlocks
<1>3. CASE Suspend(c)
  <2>1. sched.current = c /\ Hear(c, FALSE)
    BY <1>3 DEF Suspend, Running
  <2>2. c \notin Unheard' /\ \A y \in Threads \ {c} : y \in Unheard' => y \in Unheard
    BY <2>1, HeardBlocking
  <2>3. CASE StaysAwake(sched, c)
    <3>1. sched' = UseWake(sched, c)
      BY <1>3, <2>3 DEF Suspend
    <3>2. Heeded(sched', Unheard') /\ sched'.suspended = sched.suspended
      BY <1>1, <2>2, <2>3, <3>1, UseWakeHeeds, UseWakeSpares
    <3> QED
      BY <3>2, NobodyBlocks
  <2>4. CASE ~StaysAwake(sched, c)
    <3>1. sched' \in FakeTick(SuspendSelf(sched))
      BY <1>3, <2>4 DEF Suspend
    <3>2. Heeded(sched', Unheard')
      BY <1>1, <2>1, <2>2, <2>4, <3>1, SuspendSelfHeeds
    <3>3. ~(sched.wake[c] > 1)
      BY <1>1, <2>4, StaysAwakeAbove
    <3>4. c # Main => c \notin Unheard
      BY <1>1, <2>1, <3>3, CurrentAttends
    <3> QED
      BY <2>1, <3>2, <3>4 DEF Heeding
  <2> QED
    BY <2>3, <2>4
<1>4. CASE SleepReturns(c)
  <2>1. sched' = PopSlot(sched, c) /\ Unheard' = Unheard
    BY <1>4 DEF SleepReturns, HistoryStep, Unheard
  <2>2. /\ Sound(sched') /\ Spared(sched, sched', c)
        /\ sched'.suspended = sched.suspended /\ sched'.sleeping = sched.sleeping
        /\ sched'.wake = sched.wake /\ sched'.state = sched.state
    BY <1>1, <2>1, PopSlotSpares
  <2>3. c \notin sched'.sleeping /\ (c # Main => Attends(sched', c, Unheard'))
    BY <2>1, <2>2 DEF Heeded, Attends, Dead, Unborn
  <2>4. Heeded(sched', Unheard')
    BY <2>1, <2>2, <2>3, SparedHeeds
  <2> QED
    BY <2>2, <2>4, NobodyBlocks
<1>5. CASE FinalizeEnds(c)
  <2>1. /\ ending[c] \in Threads /\ sched' \in Finalize(sched, ending[c])
        /\ Unheard' = Unheard
    BY <1>5 DEF FinalizeEnds, IInv, HistoryStep, Unheard
  <2> QED
    BY <1>1, <2>1, FinalizeHeeds, NobodyBlocks
<1>6. ~\E n \in 1..MaxTicks, i \in BOOLEAN : Sleep(c, n, i)
  BY DEF Sleep
<1> QED
  BY <1>2, <1>3, <1>4, <1>5, <1>6, Zenon DEF OwnStep

LEMMA BelowTwo == \A m, n \in Nat : n >= m /\ ~(n > 1) => ~(m > 1)
OBVIOUS

LEMMA CreateSpares ==
  ASSUME Sound(sched), NEW c, NEW t \in Threads, Create(c, t)
  PROVE  /\ Sound(sched') /\ Spared(sched, sched', t)
         /\ sched'.suspended = sched.suspended \cup {t} /\ sched'.sleeping = sched.sleeping
         /\ sched'.ticks = sched.ticks /\ sched'.rtc = sched.rtc
         /\ t \notin sched.sleeping /\ t # sched.current
<1> DEFINE r == Enable(sched, t)
<1>1. t # Main /\ sched.state[t] = "Unknown" /\ sched' = r
  BY DEF Create
<1>2. /\ Sound(r) /\ Spared(sched, r, t)
      /\ r.suspended = sched.suspended \cup {t} /\ r.sleeping = sched.sleeping
      /\ r.ticks = sched.ticks /\ t \notin sched.sleeping /\ t # sched.current
  BY <1>1, EnableSpares
<1>3. r.rtc = sched.rtc
  BY DEF Enable, Sound, SchedType
<1> HIDE DEF r
<1> QED
  BY <1>1, <1>2, <1>3

LEMMA StepHeeds ==
  ASSUME IInv, "unheard" \in History, "sleep other" \notin Ops, Heeded(sched, Unheard),
         NEW c \in Threads, NEW t \in Threads, Step(c, t)
  PROVE  Heeding
<1>1. Sound(sched) /\ FALSE \in BOOLEAN
  BY DEF IInv
<1>2. CASE Create(c, t)
  <2>1. Unheard' = Unheard
    BY <1>2 DEF Create, HistoryStep, Unheard
  <2>2. /\ Sound(sched') /\ Spared(sched, sched', t)
        /\ sched'.suspended = sched.suspended \cup {t} /\ sched'.sleeping = sched.sleeping
        /\ t \notin sched.sleeping /\ t # sched.current
    BY <1>1, <1>2, CreateSpares
  <2>3. Heeded(sched', Unheard')
    BY <2>1, <2>2, SparedHeeds DEF Attends
  <2> QED
    BY <2>2, <2>3, NobodyBlocks
<1>3. CASE SuspendThread(c, t)
  <2>1. /\ t # sched.current /\ Known(sched, t)
        /\ sched' = SuspendOther(sched, t) /\ Hear(t, FALSE)
    BY <1>3 DEF SuspendThread, Running
  <2>2. /\ Sound(sched') /\ Spared(sched, sched', t)
        /\ sched'.sleeping \subseteq sched.sleeping
        /\ sched.suspended \subseteq sched'.suspended
        /\ \/ t \in sched'.suspended
           \/ t \notin ToSet(sched.ready) \cup sched.sleeping
           \/ sched'.wake[t] > 0
    BY <1>1, <2>1, SuspendOtherSpares
  <2>3. t \notin Unheard' /\ \A y \in Threads \ {t} : y \in Unheard' => y \in Unheard
    BY <2>1, HeardBlocking
  <2>4. t \notin ToSet(sched.ready) \cup sched.sleeping => t \in sched.suspended
    BY <2>1 DEF Known
  <2>5. Attends(sched', t, Unheard')
    BY <2>2, <2>3, <2>4 DEF Attends
  <2>6. Heeded(sched', Unheard')
    <3>1. t \notin sched'.sleeping
      BY <2>2 DEF Heeded
    <3> QED
      BY <2>2, <2>3, <2>5, <3>1, SparedHeeds
  <2> QED
    BY <2>1, <2>2, <2>6, NobodyBlocks DEF Spared
<1>4. CASE ResumeThread(c, t) \/ ReleaseWindows(c, t)
  <2>1. sched' = Resume(sched, t, FALSE) /\ Hear(t, ~Resumable(sched, t))
    BY <1>4, Zenon DEF ResumeThread, ReleaseWindows
  <2>2. /\ Resumable(sched, t) => t \notin Unheard'
        /\ \A y \in Threads \ {t} : y \in Unheard' => y \in Unheard
    BY <2>1, HeardResume
  <2>3. Heeded(sched', Unheard') /\ sched'.suspended \subseteq sched.suspended
    BY <1>1, <2>1, <2>2, ResumeHeeds
  <2> QED
    BY <2>3, NobodyBlocks
<1>5. ASSUME NEW w \in Threads \cup {NoThread}, FinalizeThread(c, t, w)
      PROVE  Heeding
  <2>1. sched' \in Finalize(Signalled(w), t) /\ HearEnd(w)
    BY <1>5 DEF FinalizeThread
  <2>2. Sound(Signalled(w))
    BY <1>1, SignalledKeeps
  <2>3. Heeded(Signalled(w), Unheard') /\ Signalled(w).suspended \subseteq sched.suspended
    BY <2>1, SignalledHeeds
  <2>4. /\ Heeded(sched', Unheard')
        /\ \A y \in Threads : y \in sched'.suspended => y \in Signalled(w).suspended
    BY <2>1, <2>2, <2>3, FinalizeHeeds
  <2> QED
    BY <2>3, <2>4, NobodyBlocks
<1>6. ASSUME NEW w \in Threads \cup {NoThread}, FinalizeBlocks(c, t, w)
      PROVE  Heeding
  <2> DEFINE k == Signalled(w)
  <2>1. /\ sched.current = c /\ HearEnd(w)
        /\ ~StaysAwake(Removed(k, t), c) /\ sched' \in FakeTick(SuspendSelf(Removed(k, t)))
    BY <1>6, Zenon DEF FinalizeBlocks, CanFinalize, Running
  <2>2. Sound(k) /\ k.current = c
    BY <1>1, <2>1, SignalledKeeps
  <2>3. /\ Heeded(k, Unheard') /\ k.suspended \subseteq sched.suspended
        /\ k.wake[c] >= sched.wake[c]
    BY <2>1, SignalledHeeds
  <2> HIDE DEF k
  <2>4. ~(k.wake[c] > 1)
    BY <2>1, <2>2, BlocksInFinalize
  <2>5. ~(sched.wake[c] > 1)
    <3>1. k.wake[c] \in Nat
      BY <2>2 DEF Sound, SchedType
    <3>2. sched.wake[c] \in Nat
      BY <1>1 DEF Sound, SchedType
    <3>3. k.wake[c] >= sched.wake[c]
      BY <2>3
    <3> QED
      BY <2>4, <3>1, <3>2, <3>3, BelowTwo, Zenon
  <2>6. c # Main => c \notin Unheard
    BY <1>1, <2>1, <2>5, CurrentAttends
  <2>7. Heeded(sched', Unheard')
    BY <2>1, <2>2, <2>3, BlockInFinalizeHeeds
  <2> QED
    BY <2>1, <2>6, <2>7 DEF Heeding
<1>7. ASSUME NEW w \in Threads \cup {NoThread}, FinalizeSlips(c, t, w)
      PROVE  Heeding
  <2> DEFINE k == Signalled(w)
             V == {y \in Threads : IF y = w THEN ~Resumable(sched, w) ELSE unheard[y]}
  <2>1. /\ StaysAwake(k, c) /\ sched' \in Finalize(UseWake(k, c), t)
        /\ HearEndAndSlip(c, w)
    BY <1>7, Zenon DEF FinalizeSlips
  <2>2. Sound(k)
    BY <1>1, SignalledKeeps
  <2>3. Heeded(k, V) /\ k.suspended \subseteq sched.suspended
    <3>1. CASE w = NoThread
      <4>1. NoThread \notin Threads
        BY ThreadAssumption
      <4>2. k = sched
        BY <3>1 DEF Signalled
      <4>3. V = Unheard
        BY <3>1, <4>1 DEF Unheard
      <4> HIDE DEF k, V
      <4> QED
        BY <4>2, <4>3
    <3>2. CASE w # NoThread
      <4>1. k = Resume(sched, w, FALSE)
        BY <3>2 DEF Signalled
      <4>2. Resumable(sched, w) => w \notin V
        OBVIOUS
      <4>3. \A y \in Threads \ {w} : y \in V => y \in Unheard
        BY DEF Unheard
      <4> HIDE DEF k, V
      <4> QED
        BY <1>1, <3>2, <4>1, <4>2, <4>3, ResumeHeeds
    <3> QED
      BY <3>1, <3>2
  <2>4. c \notin Unheard' /\ \A y \in Threads \ {c} : y \in Unheard' => y \in V
    <3>1. unheard' = [y \in Threads |->
                        y # c /\ IF y = w THEN ~Resumable(sched, w) ELSE unheard[y]]
      BY <2>1, Zenon DEF HearEndAndSlip
    <3> QED
      BY <3>1, Zenon DEF Unheard
  <2> HIDE DEF k, V
  <2> DEFINE g == UseWake(k, c)
  <2>5. Heeded(g, Unheard') /\ Sound(g) /\ g.suspended = k.suspended
    BY <2>1, <2>2, <2>3, <2>4, UseWakeHeeds, UseWakeSpares
  <2> HIDE DEF g
  <2>6. /\ Heeded(sched', Unheard')
        /\ \A y \in Threads : y \in sched'.suspended => y \in g.suspended
    BY <2>1, <2>5, FinalizeHeeds DEF g
  <2> QED
    BY <2>3, <2>5, <2>6, NobodyBlocks
<1>8. ~\E n \in 1..MaxTicks, i \in BOOLEAN : SleepThread(c, t, n, i)
  BY DEF SleepThread
<1> QED
  BY <1>2, <1>3, <1>4, <1>5, <1>6, <1>7, <1>8, Zenon DEF Step

LEMMA NextHeeds ==
  ASSUME IInv, "unheard" \in History, Ops \cap {"sleep", "sleep other"} = {},
         Heeded(sched, Unheard), [Next]_vars
  PROVE  Heeded(sched', Unheard') /\ (Next => Heeding)
<1>1. Sound(sched)
  BY DEF IInv
<1>2. ASSUME NEW t \in Threads, DeviceWakes(t) PROVE Heeding
  <2>1. sched' \in QuickResume(sched, t) /\ Hear(t, ~Resumable(sched, t))
    BY <1>2 DEF DeviceWakes
  <2>2. /\ Resumable(sched, t) => t \notin Unheard'
        /\ \A y \in Threads \ {t} : y \in Unheard' => y \in Unheard
    BY <2>1, HeardResume
  <2> QED
    BY <1>1, <2>1, <2>2, QuickResumeHeeds, NobodyBlocks
<1>3. ASSUME ClockFires PROVE Heeding
  <2>1. sched' = Raise(sched) /\ Unheard' = Unheard
    BY <1>3 DEF ClockFires, Unheard
  <2>2. /\ Sound(sched') /\ Spared(sched, sched', NoThread)
        /\ sched'.sleeping = sched.sleeping
    BY <1>1, <2>1, RaiseSpares
  <2>3. NoThread \notin Threads /\ sched'.sleeping \subseteq Threads
    BY <2>2, ThreadAssumption DEF Sound, SchedType
  <2>4. Heeded(sched', Unheard')
    BY <2>1, <2>2, <2>3, SparedHeeds
  <2> QED
    BY <2>2, <2>3, <2>4, NobodyBlocks DEF Spared
<1>4. ASSUME TimerInterrupt PROVE Heeding
  <2>1. sched' \in TickHandler(sched) /\ Unheard' = Unheard
    BY <1>4 DEF TimerInterrupt, HistoryStep, Unheard
  <2> QED
    BY <1>1, <2>1, SwitchHeeds, NobodyBlocks
<1>5. CASE UNCHANGED vars
  <2>1. sched' = sched /\ Unheard' = Unheard
    BY <1>5 DEF vars, Unheard
  <2>2. Heeded(sched', Unheard')
    BY <2>1
  <2>3. Heeding
    BY <2>1, <2>2, NobodyBlocks
  <2> QED
    BY <2>2, <2>3
<1>6. "sleep" \notin Ops /\ "sleep other" \notin Ops
  OBVIOUS
<1>7. CASE Next
  <2>1. Heeding
    BY <1>2, <1>3, <1>4, <1>6, <1>7, OwnStepHeeds, StepHeeds DEF Next
  <2> QED
    BY <2>1 DEF Heeding
<1> QED
  BY <1>5, <1>7

\* A thread that was resumed while awake does not block in its next Suspend, if
\* threads do not sleep: a thread woken by the end of its sleep has no WakeCount
\* left, and then a Resume is lost.
THEOREM WakeupsAreHeard ==
  ASSUME "unheard" \in History, Ops \cap {"sleep", "sleep other"} = {}
  PROVE  Spec => NoLostWakeup
<1>1. Init => Heeded(sched, Unheard)
  <2>1. InitSched.sleeping = {} /\ InitSched.state = [t \in Threads |-> "Unknown"]
    BY DEF InitSched
  <2>2. \A t \in Threads \ {Main} : Unborn(InitSched, t)
    BY <2>1 DEF Unborn
  <2> HIDE DEF InitSched
  <2> QED
    BY <2>1, <2>2 DEF Init, Heeded, Attends
<1>2. IInv /\ Heeded(sched, Unheard) /\ [Next]_vars => Heeded(sched, Unheard)'
  BY NextHeeds
<1>3. IInv /\ Heeded(sched, Unheard) /\ [Next]_vars =>
        [\A t \in Threads \ {Main} :
           unheard[t] /\ sched.current = t => t \notin sched'.suspended]_vars
  BY NextHeeds DEF Heeding, Unheard
<1> QED
  BY <1>1, <1>2, <1>3, Invariance, PTL DEF Spec, NoLostWakeup

-----------------------------------------------------------------------------
(* Sleeps are long enough: a sleeper owes no more ticks than its countdown *)
(* has to go, as only the timer counts it down, and counts systemTicks too.*)

Owing(k, o) == \A t \in k.sleeping : o[t] <= k.ticks[t]

\* From k to r nobody falls asleep and no sleep comes to its end.
Undisturbed(k, r) ==
  /\ r.sleeping \subseteq k.sleeping
  /\ \A t \in r.sleeping : r.ticks[t] = k.ticks[t]
  /\ \A t \in k.sleeping \ r.sleeping :
       r.wake[t] # k.wake[t] \/ r.state[t] \notin {"Ready", "Active"}

\* From k to r only t leaves the sleepers, to be Finalized.
Leaves(k, r, t) ==
  /\ r.sleeping = k.sleeping \ {t} /\ r.ticks = k.ticks
  /\ \A y \in Threads \ {t, k.current} : r.wake[y] = k.wake[y]
  /\ t \in k.sleeping => Dead(r, t)

LEMMA SameSleepers ==
  ASSUME NEW k, NEW r, r.sleeping = k.sleeping, r.ticks = k.ticks
  PROVE  Undisturbed(k, r)
BY DEF Undisturbed

LEMMA ResumeSleepers ==
  ASSUME NEW k, Sound(k), NEW t \in Threads, NEW prepend \in BOOLEAN
  PROVE  /\ Undisturbed(k, Resume(k, t, prepend))
         /\ k.sleeping \subseteq Resume(k, t, prepend).sleeping \cup {t}
         /\ Resume(k, t, prepend).wake[t] # k.wake[t]
         /\ \A y \in Threads \ {t} : Resume(k, t, prepend).wake[y] = k.wake[y]
<1> DEFINE r == Resume(k, t, prepend)
<1>1. /\ Spared(k, r, t) /\ r.wake[t] = k.wake[t] + 1
      /\ r.sleeping \subseteq k.sleeping /\ k.sleeping \subseteq r.sleeping \cup {t}
      /\ \A u \in r.sleeping : r.ticks[u] = k.ticks[u]
  BY ResumeSpares
<1>2. k.wake[t] \in Nat
  BY DEF Sound, SchedType
<1> HIDE DEF r
<1>3. r.wake[t] # k.wake[t]
  BY <1>1, <1>2
<1>4. Undisturbed(k, r) /\ \A y \in Threads \ {t} : r.wake[y] = k.wake[y]
  BY <1>1, <1>3 DEF Undisturbed, Spared
<1> QED
  BY <1>1, <1>3, <1>4 DEF r

LEMMA FinalizeSleepers ==
  ASSUME NEW k, Sound(k), NEW t \in Threads, NEW r \in Finalize(k, t)
  PROVE  Leaves(k, r, t)
<1>1. /\ Spared(k, r, t) /\ Dead(r, t)
      /\ r.sleeping = k.sleeping \ {t} /\ r.ticks = k.ticks
  BY FinalizeSpares
<1>2. k.sleeping \subseteq Threads
  BY DEF Sound, SchedType
<1> QED
  BY <1>1, <1>2 DEF Leaves, Spared

LEMMA SlipSleepers ==
  ASSUME NEW k, Sound(k), NEW t \in Threads, NEW c \in Threads, k.current = c,
         NEW r \in Finalize(UseWake(k, c), t)
  PROVE  Leaves(k, r, t)
<1> DEFINE g == UseWake(k, c)
<1>1. /\ Sound(g) /\ Spared(k, g, c)
      /\ g.sleeping = k.sleeping /\ g.ticks = k.ticks /\ g.current = k.current
  BY UseWakeSpares
<1>2. Leaves(g, r, t)
  BY <1>1, FinalizeSleepers
<1>3. c \notin k.sleeping /\ k.sleeping \subseteq Threads
  BY DEF Sound, Settled, Disjoint, SchedType
<1> HIDE DEF g
<1> QED
  BY <1>1, <1>2, <1>3 DEF Leaves, Spared

LEMMA BlockSleepers ==
  ASSUME NEW k, Sound(k), k.current \in Threads, NEW t \in Threads,
         ~StaysAwake(Removed(k, t), k.current),
         NEW r \in FakeTick(SuspendSelf(Removed(k, t)))
  PROVE  Leaves(k, r, t)
<1> DEFINE g == Removed(k, t)
<1>1. k.current \notin k.sleeping /\ k.sleeping \subseteq Threads
  BY DEF Sound, Settled, Disjoint, SchedType
<1>2. CASE t = k.current
  <2>1. ~StaysAwake(k, k.current) /\ r \in FakeTick(SuspendSelf(k))
    BY <1>2, BlockedInOwnFinalize
  <2>2. Spared(k, r, k.current) /\ r.sleeping = k.sleeping /\ r.ticks = k.ticks
    BY <2>1, SuspendSelfBlocks
  <2> QED
    BY <1>1, <1>2, <2>2 DEF Leaves, Spared
<1>3. CASE t # k.current
  <2>1. Sound(g) /\ g.current = k.current /\ Leaves(k, g, t) /\ Dead(g, t)
    BY <1>3, RemovedOther, FinalizeSpares, FinalizeSleepers
  <2>2. ~StaysAwake(g, g.current) /\ r \in FakeTick(SuspendSelf(g))
    BY <2>1
  <2> HIDE DEF g
  <2>3. Spared(g, r, k.current) /\ r.sleeping = g.sleeping /\ r.ticks = g.ticks
    BY <2>1, <2>2, SuspendSelfBlocks
  <2>4. Dead(r, t)
    BY <1>3, <2>1, <2>3 DEF Spared
  <2> QED
    BY <1>1, <2>1, <2>3, <2>4 DEF Leaves, Spared
<1> QED
  BY <1>2, <1>3

LEMMA SignalledSleepers ==
  ASSUME Sound(sched), NEW w \in Threads \cup {NoThread}, NEW t \in Threads, w # t,
         NEW r, Leaves(Signalled(w), r, t)
  PROVE  Undisturbed(sched, r)
<1> DEFINE k == Signalled(w)
<1>1. /\ sched.sleeping \subseteq Threads /\ FALSE \in BOOLEAN
      /\ sched.current \notin sched.sleeping /\ k.current = sched.current
  BY SignalledKeeps DEF Sound, Settled, Disjoint, SchedType
<1>2. /\ Undisturbed(sched, k) /\ sched.sleeping \subseteq k.sleeping \cup {w}
      /\ w \in Threads => k.wake[w] # sched.wake[w]
      /\ \A y \in Threads \ {w} : k.wake[y] = sched.wake[y]
  <2>1. CASE w = NoThread
    BY <2>1, SameSleepers, ThreadAssumption DEF Signalled
  <2>2. CASE w # NoThread
    <3>1. k = Resume(sched, w, FALSE) /\ w \in Threads
      BY <2>2 DEF Signalled
    <3> DEFINE q == Resume(sched, w, FALSE)
    <3>2. /\ Undisturbed(sched, q) /\ sched.sleeping \subseteq q.sleeping \cup {w}
          /\ q.wake[w] # sched.wake[w]
          /\ \A y \in Threads \ {w} : q.wake[y] = sched.wake[y]
      BY <1>1, <3>1, ResumeSleepers
    <3> HIDE DEF k, q
    <3> QED
      BY <3>1, <3>2 DEF q
  <2> QED
    BY <2>1, <2>2
<1> HIDE DEF k
<1>3. Leaves(k, r, t)
  BY DEF k
<1>4. r.sleeping \subseteq sched.sleeping
  BY <1>2, <1>3 DEF Undisturbed, Leaves
<1>5. \A y \in r.sleeping : r.ticks[y] = sched.ticks[y]
  BY <1>2, <1>3 DEF Undisturbed, Leaves
<1>6. ASSUME NEW y \in sched.sleeping \ r.sleeping
      PROVE  r.wake[y] # sched.wake[y] \/ r.state[y] \notin {"Ready", "Active"}
  <2>1. CASE y = t /\ t \in k.sleeping
    BY <1>3, <2>1 DEF Leaves, Dead
  <2>2. CASE y \notin k.sleeping
    <3>1. y = w /\ y # k.current
      BY <1>1, <1>2, <2>2
    <3>2. r.wake[y] = k.wake[y]
      BY <1>1, <1>3, <3>1 DEF Leaves
    <3> QED
      BY <1>1, <1>2, <3>1, <3>2
  <2> QED
    BY <1>3, <2>1, <2>2 DEF Leaves
<1> QED
  BY <1>4, <1>5, <1>6 DEF Undisturbed

\* What is shown of every step
Keeping ==
  /\ Owing(sched', owed')
  /\ \A t \in Threads : Expires(t) => owed'[t] = 0

Counted == owed' = owed \/ owed' = CountDown(owed)

LEMMA CountDownLowers ==
  ASSUME IInv, NEW t \in Threads
  PROVE  /\ CountDown(owed)[t] \in Nat /\ CountDown(owed)[t] <= owed[t]
         /\ Elapsed /\ owed[t] <= 1 => CountDown(owed)[t] = 0
         /\ Elapsed /\ owed[t] > 0 => CountDown(owed)[t] = owed[t] - 1
<1>1. owed[t] \in Nat
  BY DEF IInv
<1>2. CASE Elapsed
  <2>1. CountDown(owed)[t] = IF owed[t] > 0 THEN owed[t] - 1 ELSE owed[t]
    BY <1>2, Zenon DEF CountDown
  <2> QED
    BY <1>1, <2>1
<1>3. CASE ~Elapsed
  <2>1. CountDown(owed)[t] = owed[t]
    BY <1>3, Zenon DEF CountDown
  <2> QED
    BY <1>1, <1>3, <2>1
<1> QED
  BY <1>2, <1>3

LEMMA UndisturbedKeeps ==
  ASSUME IInv, Owing(sched, owed), Counted, Undisturbed(sched, sched')
  PROVE  Keeping
<1>1. sched.sleeping \subseteq Threads /\ \A t \in Threads : sched.ticks[t] \in Nat
  BY DEF IInv, Sound, SchedType
<1>2. \A t \in Threads : owed[t] \in Nat /\ owed'[t] \in Nat /\ owed'[t] <= owed[t]
  BY CountDownLowers DEF Counted, IInv
<1>3. Owing(sched', owed')
  <2> SUFFICES ASSUME NEW t \in sched'.sleeping PROVE owed'[t] <= sched'.ticks[t]
    BY DEF Owing
  <2>1. t \in sched.sleeping /\ sched'.ticks[t] = sched.ticks[t]
    BY DEF Undisturbed
  <2>2. owed[t] <= sched.ticks[t]
    BY <2>1 DEF Owing
  <2>3. \A x, y, z \in Nat : x <= y /\ y <= z => x <= z
    OBVIOUS
  <2> QED
    BY <1>1, <1>2, <2>1, <2>2, <2>3, Zenon
<1>4. \A t \in Threads : ~Expires(t)
  BY DEF Undisturbed, Expires
<1> QED
  BY <1>3, <1>4 DEF Keeping

\* t falls asleep for n ticks, and owes as many.
LEMMA FallingAsleepKeeps ==
  ASSUME IInv, "owed" \in History, Owing(sched, owed), NEW t \in Threads,
         NEW n \in Nat, Owe(t, n), sched'.sleeping = sched.sleeping \cup {t},
         sched'.ticks = [sched.ticks EXCEPT ![t] = n]
  PROVE  Keeping
<1>1. /\ sched.sleeping \subseteq Threads
      /\ sched.ticks \in [Threads -> Nat] /\ \A y \in Threads : sched.ticks[y] \in Nat
  BY DEF IInv, Sound, SchedType
<1>2. owed' = [CountDown(owed) EXCEPT ![t] = n]
  BY DEF Owe
<1>3. CountDown(owed) = [y \in Threads |-> CountDown(owed)[y]]
  BY Zenon DEF CountDown
<1>4. owed'[t] = n /\ \A y \in Threads \ {t} : owed'[y] = CountDown(owed)[y]
  BY <1>2, <1>3, Zenon
<1>5. sched'.ticks[t] = n /\ \A y \in Threads \ {t} : sched'.ticks[y] = sched.ticks[y]
  BY <1>1
<1>6. \A x, y, z \in Nat : x <= x /\ (x <= y /\ y <= z => x <= z)
  OBVIOUS
<1>7. Owing(sched', owed')
  <2> SUFFICES ASSUME NEW y \in sched'.sleeping PROVE owed'[y] <= sched'.ticks[y]
    BY DEF Owing
  <2>1. CASE y = t
    BY <1>4, <1>5, <1>6, <2>1, Zenon
  <2>2. CASE y # t
    <3>1. y \in sched.sleeping /\ y \in Threads
      BY <1>1, <2>2
    <3>2. owed[y] <= sched.ticks[y] /\ owed[y] \in Nat
      BY <3>1 DEF Owing, IInv
    <3>3. CountDown(owed)[y] \in Nat /\ CountDown(owed)[y] <= owed[y]
      BY <3>1, CountDownLowers
    <3>4. owed'[y] = CountDown(owed)[y] /\ sched'.ticks[y] = sched.ticks[y]
      BY <1>4, <1>5, <2>2, <3>1
    <3>5. sched.ticks[y] \in Nat
      BY <1>1, <3>1
    <3>6. CountDown(owed)[y] <= sched.ticks[y]
      BY <1>6, <3>2, <3>3, <3>5, Zenon
    <3> QED
      BY <3>4, <3>6, Zenon
  <2> QED
    BY <2>1, <2>2
<1>8. \A y \in Threads : ~Expires(y)
  BY DEF Expires
<1> QED
  BY <1>7, <1>8 DEF Keeping

\* The timer takes one tick from every sleeper and from what it owes.
LEMMA TimerKeeps ==
  ASSUME IInv, Owing(sched, owed), TimerInterrupt
  PROVE  Keeping
<1>1. sched' \in TickHandler(sched) /\ owed' = CountDown(owed) /\ Sound(sched)
  BY DEF TimerInterrupt, HistoryStep, IInv
<1>2. /\ sched'.rtc # "raised"
      /\ sched.rtc # "raised" =>
           sched'.sleeping = sched.sleeping /\ sched'.ticks = sched.ticks
      /\ sched.rtc = "raised" =>
           \A t \in sched.sleeping :
             IF sched.ticks[t] = 1
             THEN t \notin sched'.sleeping
             ELSE t \in sched'.sleeping /\ sched'.ticks[t] = sched.ticks[t] - 1
  BY <1>1, TickHandlerCounts
<1>3. CASE sched.rtc # "raised"
  BY <1>1, <1>2, <1>3, SameSleepers, UndisturbedKeeps DEF Counted
<1>4. CASE sched.rtc = "raised"
  <2>1. Elapsed
    BY <1>2, <1>4 DEF Elapsed
  <2>2. sched.sleeping \subseteq Threads /\ sched'.sleeping \subseteq sched.sleeping
    <3>1. Sound(sched') /\ Spared(sched, sched', NoThread)
      BY <1>1, SwitchSpares
    <3>2. NoThread \notin Threads /\ sched'.sleeping \subseteq Threads
      BY <3>1, ThreadAssumption DEF Sound, SchedType
    <3> QED
      BY <1>1, <3>1, <3>2 DEF Spared, Sound, SchedType
  <2>3. ASSUME NEW t \in sched.sleeping
        PROVE  IF sched.ticks[t] = 1
               THEN owed'[t] = 0 /\ t \notin sched'.sleeping
               ELSE t \in sched'.sleeping /\ owed'[t] <= sched'.ticks[t]
    <3>1. /\ owed[t] \in Nat /\ owed[t] <= sched.ticks[t]
          /\ sched.ticks[t] \in Nat /\ sched.ticks[t] > 0
      BY <2>2 DEF Owing, IInv, Sound, SchedType
    <3>2. /\ owed'[t] <= owed[t] /\ owed'[t] \in Nat
          /\ owed[t] <= 1 => owed'[t] = 0
          /\ owed[t] > 0 => owed'[t] = owed[t] - 1
      BY <1>1, <2>1, <2>2, CountDownLowers
    <3>3. CASE sched.ticks[t] = 1
      BY <1>2, <1>4, <3>1, <3>2, <3>3
    <3>4. CASE sched.ticks[t] # 1
      <4>1. t \in sched'.sleeping /\ sched'.ticks[t] = sched.ticks[t] - 1
        BY <1>2, <1>4, <3>4
      <4>2. owed'[t] <= sched.ticks[t] - 1
        BY <3>1, <3>2
      <4> QED
        BY <3>4, <4>1, <4>2
    <3> QED
      BY <3>3, <3>4
  <2>4. Owing(sched', owed')
    BY <2>2, <2>3 DEF Owing
  <2>5. \A t \in Threads : Expires(t) => owed'[t] = 0
    BY <2>3 DEF Expires
  <2> QED
    BY <2>4, <2>5 DEF Keeping
<1> QED
  BY <1>3, <1>4

LEMMA OwnStepOwes ==
  ASSUME IInv, "owed" \in History, Owing(sched, owed), NEW c \in Threads, OwnStep(c)
  PROVE  Keeping
<1>1. Sound(sched) /\ \A t \in sched.sleeping : sched.ticks[t] > 0
  BY DEF IInv, Sound
<1>2. CASE YieldCPU(c)
  <2>1. sched' \in FakeTick(sched) /\ Counted
    BY <1>2 DEF YieldCPU, HistoryStep, Counted
  <2>2. sched'.sleeping = sched.sleeping /\ sched'.ticks = sched.ticks
    BY <1>1, <2>1, FakeTickCounts DEF Sound
  <2> QED
    BY <2>1, <2>2, SameSleepers, UndisturbedKeeps
<1>3. CASE Suspend(c)
  <2>1. sched.current = c /\ Counted
    BY <1>3 DEF Suspend, Running, Counted
  <2>2. CASE StaysAwake(sched, c)
    <3>1. sched' = UseWake(sched, c)
      BY <1>3, <2>2 DEF Suspend
    <3>2. sched'.sleeping = sched.sleeping /\ sched'.ticks = sched.ticks
      BY <1>1, <3>1, UseWakeSpares
    <3> QED
      BY <2>1, <3>2, SameSleepers, UndisturbedKeeps
  <2>3. CASE ~StaysAwake(sched, c)
    <3>1. sched' \in FakeTick(SuspendSelf(sched))
      BY <1>3, <2>3 DEF Suspend
    <3>2. sched'.sleeping = sched.sleeping /\ sched'.ticks = sched.ticks
      BY <1>1, <2>1, <2>3, <3>1, SuspendSelfBlocks
    <3> QED
      BY <2>1, <3>2, SameSleepers, UndisturbedKeeps
  <2> QED
    BY <2>2, <2>3
<1>4. CASE SleepReturns(c)
  <2>1. sched' = PopSlot(sched, c) /\ Counted
    BY <1>4 DEF SleepReturns, HistoryStep, Counted
  <2>2. sched'.sleeping = sched.sleeping /\ sched'.ticks = sched.ticks
    BY <1>1, <2>1, PopSlotSpares
  <2> QED
    BY <2>1, <2>2, SameSleepers, UndisturbedKeeps
<1>5. CASE FinalizeEnds(c)
  <2>1. ending[c] \in Threads /\ sched' \in Finalize(sched, ending[c]) /\ Counted
    BY <1>5 DEF FinalizeEnds, IInv, HistoryStep, Counted
  <2>2. Leaves(sched, sched', ending[c])
    BY <1>1, <2>1, FinalizeSleepers
  <2>3. Undisturbed(sched, sched')
    BY <2>2 DEF Leaves, Undisturbed, Dead
  <2> QED
    BY <2>1, <2>3, UndisturbedKeeps
<1>6. CASE \E n \in 1..MaxTicks, i \in BOOLEAN : Sleep(c, n, i)
  <2>1. PICK n \in 1..MaxTicks, i \in BOOLEAN : Sleep(c, n, i)
    BY <1>6
  <2>2. n \in Nat /\ n > 0 /\ sched.current = c
    BY <2>1, ThreadAssumption DEF Sleep, Running
  <2>3. CASE StaysAwake(sched, c)
    <3>1. sched' = UseWake(sched, c) /\ owed' = owed
      BY <2>1, <2>3, Zenon DEF Sleep
    <3>2. sched'.sleeping = sched.sleeping /\ sched'.ticks = sched.ticks
      BY <1>1, <3>1, UseWakeSpares
    <3> QED
      BY <3>1, <3>2, SameSleepers, UndisturbedKeeps DEF Counted
  <2>4. CASE ~StaysAwake(sched, c)
    <3>1. sched' \in FakeTick(TicksSleep(sched, c, n, i)) /\ Owe(c, n)
      BY <2>1, <2>4, Zenon DEF Sleep
    <3>2. /\ sched'.sleeping = sched.sleeping \cup {c}
          /\ sched'.ticks = [sched.ticks EXCEPT ![c] = n]
      BY <1>1, <2>2, <2>4, <3>1, SleepSelfBlocks
    <3> QED
      BY <2>2, <3>1, <3>2, FallingAsleepKeeps
  <2> QED
    BY <2>3, <2>4
<1> QED
  BY <1>2, <1>3, <1>4, <1>5, <1>6, Zenon DEF OwnStep

LEMMA StepOwes ==
  ASSUME IInv, "owed" \in History, Owing(sched, owed),
         NEW c \in Threads, NEW t \in Threads, Step(c, t)
  PROVE  Keeping
<1>1. Sound(sched) /\ FALSE \in BOOLEAN /\ NoThread \notin Threads
  BY ThreadAssumption DEF IInv
<1>2. CASE Create(c, t)
  <2>1. sched'.sleeping = sched.sleeping /\ sched'.ticks = sched.ticks
    BY <1>1, <1>2, CreateSpares
  <2>2. Counted
    BY <1>2 DEF Create, HistoryStep, Counted
  <2> QED
    BY <2>1, <2>2, SameSleepers, UndisturbedKeeps
<1>3. CASE SuspendThread(c, t)
  <2>1. t # sched.current /\ sched' = SuspendOther(sched, t) /\ Counted
    BY <1>3 DEF SuspendThread, Running, Counted
  <2>2. /\ Sound(sched') /\ sched'.ticks = sched.ticks
        /\ sched'.sleeping \subseteq sched.sleeping
        /\ sched.sleeping \subseteq sched'.sleeping \cup {t}
        /\ t \in sched.sleeping => t \in sched'.sleeping \cup sched'.suspended
    BY <1>1, <2>1, SuspendOtherSpares
  <2>3. t \in sched'.suspended => sched'.state[t] = "Suspended"
    BY <2>2 DEF Sound, Settled, Told
  <2>4. Undisturbed(sched, sched')
    BY <2>2, <2>3 DEF Undisturbed
  <2> QED
    BY <2>1, <2>4, UndisturbedKeeps
<1>4. CASE ResumeThread(c, t) \/ ReleaseWindows(c, t)
  <2>1. sched' = Resume(sched, t, FALSE) /\ Counted
    BY <1>4 DEF ResumeThread, ReleaseWindows, Counted
  <2>2. Undisturbed(sched, sched')
    BY <1>1, <2>1, ResumeSleepers
  <2> QED
    BY <2>1, <2>2, UndisturbedKeeps
<1>5. ASSUME NEW w \in Threads \cup {NoThread},
             FinalizeThread(c, t, w) \/ FinalizeBlocks(c, t, w) \/ FinalizeSlips(c, t, w)
      PROVE  Keeping
  <2> DEFINE k == Signalled(w)
  <2>1. sched.current = c /\ w # t /\ Counted
    BY <1>1, <1>5 DEF FinalizeThread, FinalizeBlocks, FinalizeSlips, CanFinalize,
                      Running, Awaits, Counted
  <2>2. Sound(k) /\ k.current = c
    BY <1>1, <2>1, SignalledKeeps
  <2>3. Leaves(k, sched', t)
    <3>1. CASE FinalizeThread(c, t, w)
      <4>1. sched' \in Finalize(k, t)
        BY <3>1 DEF FinalizeThread
      <4> HIDE DEF k
      <4> QED
        BY <2>2, <4>1, FinalizeSleepers
    <3>2. CASE FinalizeBlocks(c, t, w)
      <4>1. ~StaysAwake(Removed(k, t), c) /\ sched' \in FakeTick(SuspendSelf(Removed(k, t)))
        BY <3>2, Zenon DEF FinalizeBlocks
      <4> HIDE DEF k
      <4> QED
        BY <2>2, <4>1, BlockSleepers
    <3>3. CASE FinalizeSlips(c, t, w)
      <4>1. sched' \in Finalize(UseWake(k, c), t)
        BY <3>3 DEF FinalizeSlips
      <4> HIDE DEF k
      <4> QED
        BY <2>2, <4>1, SlipSleepers
    <3> QED
      BY <1>5, <3>1, <3>2, <3>3
  <2>4. Undisturbed(sched, sched')
    BY <1>1, <2>1, <2>3, SignalledSleepers
  <2> QED
    BY <2>1, <2>4, UndisturbedKeeps
<1>6. ASSUME NEW n \in 1..MaxTicks, NEW i \in BOOLEAN, SleepThread(c, t, n, i)
      PROVE  Keeping
  <2>1. n \in Nat /\ n > 0 /\ t # sched.current /\ Known(sched, t)
    <3>1. sched.current = c /\ t # c /\ Known(sched, t)
      BY <1>6, Zenon DEF SleepThread, Running
    <3>2. n \in Nat /\ n > 0
      BY ThreadAssumption
    <3> QED
      BY <3>1, <3>2
  <2>2. CASE StaysAwake(sched, t)
    <3>1. sched' = UseWake(sched, t) /\ owed' = owed
      BY <1>6, <2>2, Zenon DEF SleepThread
    <3>2. sched'.sleeping = sched.sleeping /\ sched'.ticks = sched.ticks
      BY <1>1, <3>1, UseWakeSpares
    <3> QED
      BY <3>1, <3>2, SameSleepers, UndisturbedKeeps DEF Counted
  <2>3. CASE ~StaysAwake(sched, t)
    <3>1. sched' = TicksSleep(sched, t, n, i) /\ Owe(t, n)
      BY <1>6, <2>3, Zenon DEF SleepThread
    <3>2. Asleep(sched, sched', t, n)
      BY <1>1, <2>1, <3>1, SleepOtherSpares
    <3> QED
      BY <2>1, <3>1, <3>2, FallingAsleepKeeps DEF Asleep
  <2> QED
    BY <2>2, <2>3
<1> QED
  BY <1>2, <1>3, <1>4, <1>5, <1>6, Zenon DEF Step

LEMMA NextOwes ==
  ASSUME IInv, "owed" \in History, "device" \notin Ops, Owing(sched, owed), [Next]_vars
  PROVE  Owing(sched', owed') /\ (Next => Keeping)
<1>1. Sound(sched)
  BY DEF IInv
<1>2. ASSUME ClockFires PROVE Keeping
  <2>1. sched' = Raise(sched) /\ Counted
    BY <1>2 DEF ClockFires, Counted
  <2>2. sched'.sleeping = sched.sleeping /\ sched'.ticks = sched.ticks
    BY <1>1, <2>1, RaiseSpares
  <2> QED
    BY <2>1, <2>2, SameSleepers, UndisturbedKeeps
<1>3. ~\E t \in Threads : DeviceWakes(t)
  BY DEF DeviceWakes
<1>4. CASE Next
  <2>1. Keeping
    BY <1>2, <1>3, <1>4, OwnStepOwes, StepOwes, TimerKeeps DEF Next
  <2> QED
    BY <2>1 DEF Keeping
<1>5. CASE UNCHANGED vars
  <2>1. sched' = sched /\ Counted
    BY <1>5 DEF vars, Counted
  <2>2. Keeping
    BY <2>1, SameSleepers, UndisturbedKeeps
  <2> QED
    BY <2>2 DEF Keeping
<1> QED
  BY <1>4, <1>5

\* Without devices, a sleep that ends because its time is over has seen as many
\* counted timer interrupts as it was for: the countdown of the sleepers and
\* systemTicks agree.  (A QuickResume ticks the sleepers, and no time passes.)
THEOREM SleepsAreLongEnough ==
  ASSUME "owed" \in History, "device" \notin Ops
  PROVE  Spec => SleepsLongEnough
<1>1. Init => Owing(sched, owed)
  BY DEF Init, InitSched, Owing
<1>2. IInv /\ Owing(sched, owed) /\ [Next]_vars => Owing(sched, owed)'
  BY NextOwes
<1>3. IInv /\ Owing(sched, owed) /\ [Next]_vars =>
        [\A t \in Threads : Expires(t) => owed'[t] = 0]_vars
  BY NextOwes DEF Keeping
<1> QED
  BY <1>1, <1>2, <1>3, Invariance, PTL DEF Spec, SleepsLongEnough

=============================================================================
