--------------------------- MODULE WindowManager ---------------------------
(***************************************************************************)
(* Input on its way to the programs: the keyboard and mouse handlers       *)
(* (src/kernel/ps2keyboard.cpp) fill the ring of InputDevice               *)
(* (inputdevice.cpp), the input thread of the window manager (kwm.cpp)     *)
(* takes the events out and puts them into the message queue of the active *)
(* window, and programs get and peek at them (syscalls.cpp).  Meanwhile    *)
(* windows are created, destroyed and brought to the front.                *)
(*                                                                         *)
(* Most of this happens under the lock WM; a locked operation that does    *)
(* not wait is one step here.  GetEvent and the input thread's alt+tab     *)
(* work without the lock: alt+tab is taken apart into its walk over the    *)
(* list, the change of the focus, Remove and InsertBefore.  When one       *)
(* thread is inside a list or a ring while another one changes it, the     *)
(* model ends (TornList, TornRing).  Pixels, rectangles and visibility are *)
(* left out: the geometry decides which window the mouse hits, and any     *)
(* window may be hit.                                                      *)
(***************************************************************************)
EXTENDS MessageQueue, FiniteSets

CONSTANTS
  Users,      \* threads of programs
  Input,      \* the input thread
  NoOne,      \* no thread
  MaxWindow,  \* bound: the highest window ID
  RingSize,   \* capacity of InputDevice::eventQueue
  MaxEvents,  \* bound: number of events
  Readable,   \* bound: the windows whose events the programs read
  Kinds       \* which of "key", "tab", "mouse" occur

Desktop == 0
DebugWindow == 1
MouseWindow == 2
Threads == Users \cup {Input}
Windows == 0..MaxWindow

ASSUME WindowManagerAssumption ==
  /\ IsFiniteSet(Users) /\ Input \notin Users /\ NoOne \notin Threads
  /\ MaxWindow \in Nat /\ MaxWindow > MouseWindow
  /\ RingSize \in Nat \ {0} /\ MaxEvents \in Nat
  /\ Kinds \subseteq {"key", "tab", "mouse"} /\ Readable \subseteq Windows \ {Desktop}

VARIABLES
  ring,     \* InputDevice::eventQueue: the kinds and numbers of events
  signals,  \* count of InputDevice::eventSemaphore
  typed,    \* number of events so far
  windows,  \* WM->windows, the back of the screen first
  owner,    \* Window::Owner
  nextId,   \* Window::ids
  active,   \* WM->activeWindowId
  events,   \* Window::Events; Fresh when the window is gone
  lock,     \* owner of WM->lock between steps
  pc,       \* where each thread is
  at,       \* the window it works on
  hand,     \* the event the input thread is handling, and the flag it will store
  seen,     \* the last event that was read from each window
  raced,    \* history: alt+tab met another's change, "now" or "once"
  shared,   \* history: windows read by threads that do not own them
  missed,   \* history: windows whose full ring was found empty by a reader
  fault     \* why the kernel stopped, "none" while it runs

vars == <<ring, signals, typed, windows, owner, nextId, active, events, lock, pc,
          at, hand, seen, raced, shared, missed, fault>>

Event == [kind : {"key", "tab", "mouse"}, number : 1..MaxEvents]
NoEvent == [kind |-> "unknown", number |-> 0]
NoWork == [event |-> NoEvent, flag |-> "same"]

\* Where the input thread is in alt+tab, without the lock
Unlocked == {"walk", "focus", "raise", "link"}

TypeOK ==
  /\ ring \in Seq(Event) /\ Len(ring) <= RingSize
  /\ signals \in 0..MaxEvents /\ typed \in 0..MaxEvents
  /\ windows \in Seq(Windows)
  /\ owner \in [Windows -> Threads \cup {NoOne}]
  /\ nextId \in 3..(MaxWindow + 1)
  /\ active \in Windows
  /\ \A w \in Windows :
       /\ events[w].items \in Seq(1..MaxEvents)
       /\ Len(events[w].items) <= Places
       /\ events[w].full \in BOOLEAN
       /\ events[w].msgs \in Int /\ events[w].slts \in Int
       /\ events[w].waiters \in Seq(Users)
  /\ lock \in Threads \cup {NoOne}
  /\ pc \in [Threads -> {"idle", "get", "peek", "wait", "woken", "take", "dead",
                         "gone", "event", "put", "store"} \cup Unlocked]
  /\ at \in [Threads -> Windows]
  /\ hand \in [event : Event \cup {NoEvent}, flag : {"same", "full", "room"}]
  /\ seen \in [Windows -> 0..MaxEvents]
  /\ raced \in {"never", "now", "once"}
  /\ shared \subseteq Windows /\ missed \subseteq Windows
  /\ fault \in {"none", "LockedTwice", "NullPointer", "FreedMemory", "StaleRing",
                 "TornList", "TornRing"}

\* After the constructor: the desktop, the debug window, and the mouse pointer.
Init ==
  /\ ring = <<>> /\ signals = 0 /\ typed = 0
  /\ windows = <<Desktop, DebugWindow, MouseWindow>>
  /\ owner = [w \in Windows |-> NoOne]
  /\ nextId = 3
  /\ active = DebugWindow
  /\ events = [w \in Windows |-> Fresh]
  /\ lock = NoOne
  /\ pc = [t \in Threads |-> "idle"]
  /\ at = [t \in Threads |-> Desktop]
  /\ hand = NoWork
  /\ seen = [w \in Windows |-> 0]
  /\ raced = "never"
  /\ shared = {} /\ missed = {}
  /\ fault = "none"

-----------------------------------------------------------------------------
Running == fault = "none"
Locked(t) == Running /\ lock = NoOne
Open(w) == w \in Range(windows)

\* Between Remove and InsertBefore a window is not on the list.
Exists(w) == Open(w) \/ (pc[Input] = "link" /\ at[Input] = w)

Goto(t, where) == pc' = [pc EXCEPT ![t] = where]

\* t's call returns
Return(t) == Goto(t, "idle") /\ at' = [at EXCEPT ![t] = Desktop]
InputReturns == Return(Input) /\ hand' = NoWork

Devices == <<ring, signals, typed>>
Screen == <<windows, owner, nextId, active>>
History == <<raced, shared, missed, fault>>

\* A change of the list or the focus, which alt+tab may meet
Meets == raced' = IF pc[Input] \in Unlocked THEN "now" ELSE raced

\* A handler writes the event, if there is room, and signals in any case.
Interrupt(kind) ==
  /\ Running /\ typed < MaxEvents
  /\ typed' = typed + 1
  /\ ring' = IF Len(ring) = RingSize THEN ring
             ELSE Append(ring, [kind |-> kind, number |-> typed + 1])
  /\ signals' = signals + 1
  /\ UNCHANGED <<Screen, events, lock, pc, at, hand, seen, History>>

-----------------------------------------------------------------------------
(* The list of windows, under the lock.                                    *)

\* InsertBefore the mouse window, or at the end when that one is not on the list
BelowMouse(ws, w) ==
  LET rest == Without(ws, w)
      i == Position(rest, MouseWindow)
  IN  IF MouseWindow \in Range(rest)
      THEN SubSeq(rest, 1, i - 1) \o <<w>> \o SubSeq(rest, i, Len(rest))
      ELSE Append(rest, w)

\* BringWindowToFront_nolock; the desktop, with its ID 0, stays where it is.
InFront(ws, w) == IF w \in Range(ws) \ {Desktop} THEN BelowMouse(ws, w) ELSE ws

CreateWindow(t) ==
  /\ Locked(t) /\ pc[t] = "idle" /\ t \in Users /\ nextId <= MaxWindow
  /\ windows' = BelowMouse(windows, nextId)
  /\ owner' = [owner EXCEPT ![nextId] = t]
  /\ active' = nextId
  /\ nextId' = nextId + 1
  /\ Meets
  /\ UNCHANGED <<Devices, events, lock, pc, at, hand, seen, shared, missed, fault>>

\* Mutant of Focus: the focus stays where it was.
FocusStays(ws) == active

\* After a window was destroyed the one below the mouse pointer is active; without
\* a mouse pointer the focus stays where it was.
Focus(ws) ==
  IF MouseWindow \in Range(ws) THEN ws[Position(ws, MouseWindow) - 1] ELSE active

\* Any program may destroy any window but the desktop: nobody looks at the owner.
DestroyWindow(t, w) ==
  /\ Locked(t) /\ pc[t] = "idle" /\ t \in Users /\ Open(w) /\ w # Desktop
  /\ windows' = Without(windows, w)
  /\ active' = Focus(windows')
  /\ events' = [events EXCEPT ![w] = Fresh]
  /\ Meets
  /\ UNCHANGED <<Devices, owner, nextId, lock, pc, at, hand, seen, shared, missed,
                 fault>>

BringWindowToFront(t, w) ==
  /\ Locked(t) /\ pc[t] = "idle" /\ t \in Users
  /\ windows' = InFront(windows, w)
  /\ Meets
  /\ UNCHANGED <<Devices, owner, nextId, active, events, lock, pc, at, hand, seen,
                 shared, missed, fault>>

\* HideWindow_nolock calls Update, not Update_nolock, on the desktop.
HideWindow(t, w) ==
  /\ Locked(t) /\ pc[t] = "idle" /\ t \in Users /\ Open(w) /\ w # Desktop
  /\ fault' = "LockedTwice"
  /\ UNCHANGED <<Devices, Screen, events, lock, pc, at, hand, seen, raced, shared,
                 missed>>

\* Thread::Finalize on a thread: off the list it waits on, ...
FinalizeThread(t) ==
  /\ Running /\ t \in Users /\ pc[t] \notin {"dead", "gone"}
  /\ Goto(t, "dead")
  /\ events' = [events EXCEPT ![at[t]] = Dequeue(@, t)]
  /\ UNCHANGED <<Devices, Screen, lock, at, hand, seen, History>>

\* The list on which only the windows in kept are left, in the order they had
Leaves(ws, kept, rest) ==
  /\ Range(rest) = kept
  /\ \A i, j \in DOMAIN rest : i < j => Position(ws, rest[i]) < Position(ws, rest[j])

\* ... and DestroyThreadWindows, one after the other under one lock.
DestroyThreadWindows(t) ==
  /\ Locked(t) /\ pc[t] = "dead"
  /\ LET own == {w \in Range(windows) : owner[w] = t}
         kept == Range(windows) \ own
     IN  /\ IF own = {} THEN UNCHANGED <<windows, active>>
            ELSE /\ \E rest \in [1..Cardinality(kept) -> kept] :
                      Leaves(windows, kept, rest) /\ windows' = rest
                 /\ active' = Focus(windows')
         /\ events' = [w \in Windows |-> IF w \in own THEN Fresh ELSE events[w]]
  /\ Goto(t, "gone") /\ Meets
  /\ UNCHANGED <<Devices, owner, nextId, lock, at, hand, seen, shared, missed, fault>>

-----------------------------------------------------------------------------
(* Programs read their events.                                             *)

\* Programs can read the events of any window, whoever owns it.
Reads(t, w) ==
  /\ w \in Readable
  /\ at' = [at EXCEPT ![t] = w]
  /\ shared' = IF owner[w] = t THEN shared ELSE shared \cup {w}

\* msgs.Wait
Wait(t, w) ==
  IF CanTake(events[w])
  THEN events' = [events EXCEPT ![w] = TakeCount(@)] /\ Goto(t, "take")
  ELSE events' = [events EXCEPT ![w] = Enqueue(@, t)] /\ Goto(t, "wait")

\* sys_get_event: the rectangle, for which it waits for the lock for a moment, and
\* then GetEvent_nolock without it.
GetEvent(t, w) ==
  /\ Running /\ pc[t] = "idle" /\ t \in Users /\ Open(w)
  /\ Reads(t, w)
  /\ Wait(t, w)
  /\ UNCHANGED <<Devices, Screen, lock, hand, seen, raced, missed, fault>>

\* sys_peek_event: under the lock, look whether there is an event, ...
PeekEvent(t, w) ==
  /\ Locked(t) /\ pc[t] = "idle" /\ t \in Users /\ Open(w)
  /\ ~RingIsEmpty(events[w])
  /\ Reads(t, w)
  /\ lock' = t
  /\ Goto(t, "peek")
  /\ UNCHANGED <<Devices, Screen, events, hand, seen, raced, missed, fault>>

\* ... and then Get it, still under the lock.
PeekTakes(t) ==
  /\ Running /\ pc[t] = "peek"
  /\ Wait(t, at[t])
  /\ UNCHANGED <<Devices, Screen, lock, at, hand, seen, History>>

\* A thread woken by Signal takes its count when it runs.
WaitReturns(t) ==
  /\ Running /\ pc[t] = "woken"
  /\ events' = [events EXCEPT ![at[t]] = TakeCount(@)]
  /\ Goto(t, "take")
  /\ UNCHANGED <<Devices, Screen, lock, at, hand, seen, History>>

\* queue.Read and slts.Signal.  A ring that says it is full while it is empty
\* gives out old items: the model ends there.
GetItem(t, found) ==
  LET w == at[t]
      q == events[w]
  IN  /\ events' = [events EXCEPT ![w] = ReadItem(@, found)]
      /\ seen' = IF found THEN [seen EXCEPT ![w] = q.items[1]] ELSE seen
      /\ missed' = IF ~found /\ q.items # <<>> THEN missed \cup {w} ELSE missed
      /\ fault' = IF ~Exists(w) THEN "FreedMemory"
                  ELSE IF q.items = <<>> /\ q.full THEN "StaleRing" ELSE fault

\* Mutant of TakeEvent: PeekEvent does not release the lock.
TakeEventLocked(t) ==
  /\ Running /\ pc[t] = "take"
  /\ \E found \in Finds(events[at[t]]) : GetItem(t, found)
  /\ Return(t)
  /\ UNCHANGED <<Devices, Screen, lock, hand, raced, shared>>

TakeEvent(t) ==
  /\ Running /\ pc[t] = "take"
  /\ \E found \in Finds(events[at[t]]) : GetItem(t, found)
  /\ lock' = IF lock = t THEN NoOne ELSE lock
  /\ Return(t)
  /\ UNCHANGED <<Devices, Screen, hand, raced, shared>>

\* Read moves the index, wraps it and stores the flag one after the other: two
\* threads inside it, both from GetEvent and without a lock, can take the same item,
\* pass one over, or move the index out of the ring.  Write moves the index and copies
\* the item in any order: a reader with a count too many, from a write that was
\* refused or the like, can read the place before the item is there.
TearRing(t, u) ==
  /\ Running /\ t # u /\ pc[t] = "take" /\ at[t] = at[u]
  /\ IF u = Input THEN pc[u] = "put" /\ events[at[t]].items = <<>>
     ELSE pc[u] = "take"
  /\ fault' = "TornRing"
  /\ UNCHANGED <<Devices, Screen, events, lock, pc, at, hand, seen, raced, shared,
                 missed>>

-----------------------------------------------------------------------------
(* The input thread.                                                       *)

\* InputDevice::GetEvent.  The semaphore may count events that found no room; an
\* event read from the empty ring is of no type and ignored.
TakeInput ==
  /\ Running /\ pc[Input] = "idle" /\ signals > 0
  /\ signals' = signals - 1
  /\ IF ring = <<>> THEN UNCHANGED <<ring, hand, pc>>
     ELSE /\ ring' = Tail(ring)
          /\ hand' = [hand EXCEPT !.event = Head(ring)]
          /\ Goto(Input, "event")
  /\ UNCHANGED <<typed, Screen, events, lock, at, seen, History>>

\* The window before the active one (or before the mouse pointer), which alt+tab
\* switches to; the desktop when there is no other
Previous ==
  LET stop == {i \in DOMAIN windows : windows[i] \in {active, MouseWindow}}
      i == CHOOSE j \in stop : \A k \in stop : j <= k
  IN  IF stop = {} THEN windows[Len(windows)]
      ELSE IF i = 1 THEN Desktop ELSE windows[i - 1]

Handling(kind) == Running /\ pc[Input] = "event" /\ hand.event.kind = kind

\* PutEvent: the active window is read before the lock is acquired.
HandleKey ==
  /\ Handling("key")
  /\ at' = [at EXCEPT ![Input] = active]
  /\ Goto(Input, "put")
  /\ UNCHANGED <<Devices, Screen, events, lock, hand, seen, History>>

\* alt+tab, without the lock: the walk over the list begins, ...
HandleTab ==
  /\ Handling("tab")
  /\ Goto(Input, "walk")
  /\ raced' = IF raced = "now" THEN "once" ELSE raced
  /\ UNCHANGED <<Devices, Screen, events, lock, at, hand, seen, shared, missed, fault>>

\* ... and ends at some window, maybe one that is gone, when the list was changed
\* meanwhile.  Without a window before the active one this gets the key itself.
FindWindow ==
  /\ Running /\ pc[Input] = "walk"
  /\ \E w \in IF raced = "now" THEN 0..(nextId - 1) \ {MouseWindow} ELSE {Previous} :
       IF w = Desktop THEN at' = [at EXCEPT ![Input] = active] /\ Goto(Input, "put")
       ELSE at' = [at EXCEPT ![Input] = w] /\ Goto(Input, "focus")
  /\ UNCHANGED <<Devices, Screen, events, lock, hand, seen, History>>

\* The ID is read through the pointer to the window; what is read there when that is
\* gone is no window's or another one's.
MoveFocus ==
  /\ Running /\ pc[Input] = "focus"
  /\ \E w \in IF Open(at[Input]) THEN {at[Input]} ELSE 0..(nextId - 1) :
       active' = w /\ at' = [at EXCEPT ![Input] = w]
  /\ Goto(Input, "raise")
  /\ UNCHANGED <<Devices, windows, owner, nextId, events, lock, hand, seen, History>>

\* BringWindowToFront_nolock: Remove, if it is a window, ...
RemoveWindow ==
  /\ Running /\ pc[Input] = "raise"
  /\ IF Open(at[Input]) /\ at[Input] # Desktop
     THEN windows' = Without(windows, at[Input]) /\ Goto(Input, "link")
          /\ UNCHANGED <<at, hand>>
     ELSE InputReturns /\ UNCHANGED windows
  /\ UNCHANGED <<Devices, owner, nextId, active, events, lock, seen, History>>

\* ... and InsertBefore.
InsertWindow ==
  /\ Running /\ pc[Input] = "link"
  /\ windows' = BelowMouse(windows, at[Input])
  /\ InputReturns
  /\ UNCHANGED <<Devices, owner, nextId, active, events, lock, seen, History>>

\* A thread that can be inside the list without the lock: in alt+tab, or in GetEvent
Bare(t) == IF t = Input THEN pc[t] \in Unlocked ELSE pc[t] = "idle"

\* A thread that can change the list next
Changing(t) ==
  \/ t = Input /\ pc[t] \in Unlocked
  \/ lock = NoOne /\ IF t = Input THEN Handling("mouse") ELSE pc[t] \in {"idle", "dead"}

\* t follows or sets a link of the list while u changes it: between the reading of a
\* Next and its use the node, or the window in it, may be gone.
TearList(t, u) ==
  /\ Running /\ t # u /\ Bare(t) /\ Changing(u)
  /\ fault' = "TornList"
  /\ UNCHANGED <<Devices, Screen, events, lock, pc, at, hand, seen, raced, shared,
                 missed>>

\* A press on window w gives it the focus.  While the button is held the position
\* of the active window is asked for, through its pointer.  Depending on what is
\* dragged, and where, the event is passed on or not.
HandleMouse(w, pressed, held, passed) ==
  /\ Handling("mouse") /\ lock = NoOne
  /\ Open(w) /\ w # MouseWindow
  /\ active' = IF pressed THEN w ELSE active
  /\ windows' = IF pressed /\ w # active THEN InFront(windows, w) ELSE windows
  /\ fault' = IF held /\ ~Open(active') THEN "NullPointer" ELSE fault
  /\ IF passed
     THEN /\ lock' = Input /\ Goto(Input, "put")
          /\ at' = [at EXCEPT ![Input] = active'] /\ UNCHANGED hand
     ELSE InputReturns /\ UNCHANGED lock
  /\ UNCHANGED <<Devices, owner, nextId, events, seen, raced, shared, missed>>

\* The input thread waits for the lock for five seconds, and drops the event.
MouseTimesOut ==
  /\ Handling("mouse") /\ lock # NoOne
  /\ InputReturns
  /\ UNCHANGED <<Devices, Screen, events, lock, seen, History>>

\* PutEvent_nolock.  The event is lost when the window is gone or its queue full.
PutEvent ==
  /\ Running /\ pc[Input] = "put" /\ lock \in {NoOne, Input}
  /\ IF Open(at[Input]) /\ CanPut(events[at[Input]])
     THEN /\ events' = [events EXCEPT ![at[Input]] = WriteItem(@, hand.event.number)]
          /\ hand' = [hand EXCEPT !.flag =
                        FlagAfter(events[at[Input]], hand.event.number)]
          /\ lock' = Input
          /\ Goto(Input, "store")
          /\ UNCHANGED at
     ELSE lock' = NoOne /\ InputReturns /\ UNCHANGED events
  /\ UNCHANGED <<Devices, Screen, seen, History>>

\* the rest of Put, with the Signal that wakes a reader, and the lock is released
StoreEvent ==
  /\ Running /\ pc[Input] = "store"
  /\ LET q == events[at[Input]]
         woken == IF q.waiters = <<>> THEN {} ELSE {Head(q.waiters)}
     IN  /\ events' = [events EXCEPT ![at[Input]] = FinishPut(@, hand.flag)]
         /\ pc' = [t \in Threads |-> IF t = Input THEN "idle"
                                     ELSE IF t \in woken THEN "woken" ELSE pc[t]]
  /\ at' = [at EXCEPT ![Input] = Desktop] /\ hand' = NoWork
  /\ lock' = IF lock = Input THEN NoOne ELSE lock
  /\ UNCHANGED <<Devices, Screen, seen, History>>

InputStep ==
  \/ TakeInput \/ HandleKey
  \/ HandleTab \/ FindWindow \/ MoveFocus \/ RemoveWindow \/ InsertWindow
  \/ \E w \in Windows, pressed, held, passed \in BOOLEAN :
       HandleMouse(w, pressed, held, passed)
  \/ MouseTimesOut \/ PutEvent \/ StoreEvent

ReadStep(t) == PeekTakes(t) \/ WaitReturns(t) \/ TakeEvent(t)

Next ==
  \/ \E kind \in Kinds : Interrupt(kind)
  \/ InputStep
  \/ \E t \in Users : CreateWindow(t) \/ FinalizeThread(t) \/ DestroyThreadWindows(t)
  \/ \E t \in Users, w \in Windows :
       \/ DestroyWindow(t, w) \/ HideWindow(t, w) \/ BringWindowToFront(t, w)
       \/ GetEvent(t, w) \/ PeekEvent(t, w)
  \/ \E t \in Users : ReadStep(t)
  \/ \E t \in Users, u \in Threads : TearRing(t, u)
  \/ \E t, u \in Threads : TearList(t, u)

Spec == Init /\ [][Next]_vars

-----------------------------------------------------------------------------
(* Properties.                                                             *)

\* The threads between the Wait on msgs and the Signal of slts
Taking(w) == {t \in Users : pc[t] = "take" /\ at[t] = w}
Woken(w) == {t \in Users : pc[t] = "woken" /\ at[t] = w}
Putting(w) == IF pc[Input] = "store" /\ at[Input] = w THEN 1 ELSE 0

\* The windows whose queues only their owners read, none of them killed in the
\* middle.
Private == {w \in Windows \ shared :
              Exists(w) /\ owner[w] \in Users /\ pc[owner[w]] \notin {"dead", "gone"}}

\* The desktop stays at the back, the mouse pointer in front as long as nobody
\* destroys it, and each window is on the list once, whatever alt+tab, in its steps,
\* and the programs do to the list in turn.  The exception is TornList: with two
\* threads inside the list at once nothing is promised.
StackingOrder ==
  /\ IsInjective(windows)
  /\ windows[1] = Desktop
  /\ Open(MouseWindow) => windows[Len(windows)] = MouseWindow
  /\ \A w \in Windows : Exists(w) => w < nextId

\* The focus is on a window that exists, so that a drag finds its position, unless
\* alt+tab has met another's change or the mouse pointer was destroyed.
FocusExists ==
  raced = "never" /\ Open(MouseWindow) => Exists(active) /\ active # MouseWindow

\* What the input thread finds on the screen is there: the mouse pointer in front of
\* the window below it, and the active window.
ScreenIsSound == TypeOK /\ (fault # "TornList" => StackingOrder /\ FocusExists)

\* Every place of a queue is free, holds a message that has been signalled, or
\* is in the hands of a thread, whoever reads the queue, until two readers meet in
\* the ring.  In a queue that only the owner of its window reads, no message is left
\* that nobody will be woken for, unless he came while the ring was full and did not
\* say so yet; a second reader can take the count of one that was woken (see
\* Semaphore), which goes below zero then.  A write that was refused is signalled,
\* too.
QueueIsAccounted == \A w \in Windows :
  Exists(w) /\ (\A t \in Users : at[t] = w => pc[t] \notin {"dead", "gone"}) =>
    LET q == events[w]
        taken == q.msgs + Cardinality(Taking(w)) + Putting(w)
    IN  /\ q.slts + taken = Places
        /\ w \notin shared \cup missed => Len(q.items) <= taken

\* The owner of a window does not wait while there is a message in its queue, unless
\* he came while the ring was full and did not say so yet.
NoMessageOverlooked == \A w \in Private \ missed, t \in Users :
  pc[t] = "wait" /\ at[t] = w /\ Putting(w) = 0 => events[w].items = <<>>

\* A ring that only its window's owner reads never says it is full when it is
\* empty, although its flag is stored late and the owner comes in between: no
\* old message is read again.
FullIsNotEmpty == fault = "StaleRing" => shared # {}

\* As long as a window exists and only its owner reads its queue, what he is given
\* (and he is given something unless the ring is empty) is newer than all he was given
\* before: messages come in the order in which they were typed, none twice, until he
\* and a Write meet in the ring for which he has no message (TearRing).
ReadInOrder ==
  [][\A t \in Users :
       pc[t] = "take" /\ pc'[t] = "idle" /\ Exists(at[t]) /\ at[t] \notin shared
         /\ (~RingIsEmpty(events[at[t]]) \/ seen' # seen) =>
           seen'[at[t]] > seen[at[t]]]_vars

\* Nobody waits while he holds the window manager's lock, for which the input thread
\* and all programs would wait with him: PeekEvent has seen a message, and there is a
\* count for it when it calls Get.  The exceptions are a program that was killed in
\* PeekEvent, a window that others read, and one whose full ring was found empty.
HolderGoesOn ==
  /\ lock = Input => pc[Input] \in {"put", "store"}
  /\ lock \in Users =>
       pc[lock] \in {"peek", "take", "dead"} \/ at[lock] \in shared \cup missed

=============================================================================
