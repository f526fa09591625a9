# TLA+ models of the WOOT kernel

WOOT is a small operating system for one i386 processor: a preemptive kernel
in C++ (`src/kernel`, `src/include`), a user library (`src/libwoot`), a few
loadable drivers and programs (`src/ps2mouse`, `src/es1371`, `src/cmi8738`,
`src/simplefb`, `src/clock`, ...).  The rest of the tree (binutils, newlib,
busybox, freetype, SDL, doom, ...) is third-party code and no part of this
project.

The models start from the bottom: the scheduler, on which everything blocks and
runs; the ring buffer, semaphore and mutex built beside and on it; the block
cache, through which every file reaches the disk; ext2, which gives blocks to
files; the caches of directory entries and inodes with the open files of a
process above them; and the window manager, which brings input to the programs.
The other parts are listed in the inventory and come in the order of the plan.

## Inventory

| Component | State | Operations | Hard behaviour | What makes it correct |
|---|---|---|---|---|
| **Scheduler** `thread.cpp`, `objectqueue.cpp` | `readyThreads`, `suspendedThreads`, `sleepingThreads`, `currentThread`, and per thread `State`, `WakeCount`, `SleepTicks`, `InterruptibleSleep`, `CanChangeState`, the word on top of a sleeper's stack | Enable, Yield, Suspend, Resume, QuickResume, Sleep, Finalize, GetNext/Switch | preemption by clock and devices; wake-ups from interrupt handlers; waking, suspending and finalizing other threads in any state | a thread is in one place and its State names it; no thread is lost; the dead stay dead; wake-ups are not lost; sleeps last as long as asked; every ready thread runs |
| **Timer** `time.cpp` | the flag of the real time clock, `systemTicks` | Tick (IRQ 8), FakeTick (forced switch) | both read the clock's flag | each tick is counted once |
| **Semaphore** `semaphore.cpp` | `Count`, `Waiters` | Wait, Signal, Cancel, Reset | signals from interrupt handlers, timeouts, deaths of waiters | every blocked thread is listed, no entry is stale, no signal lies idle |
| **Mutex** `mutex.cpp` | `Count`, `Owner`, `Waiters` | Acquire, Release, Cancel | the owner changes before the new one runs; timeouts; deaths | exclusion; first come, first served; never owned by somebody who will not release it |
| **Ring buffer** `queue.h` | `Data`, `Head`, `Tail`, `Full` | Write, Read, Peek, Remove, RemoveFirst, ReplaceFirst, ReplaceAll, Clear | full and empty look alike; closing gaps across the end | it is a bounded line |
| **Block cache** `bufferedvolume.cpp`, `partitionvolume.cpp` | buffers (`Used`, `Dirty`, `FirstSector`, data), their ages | Read, Write, Flush | failed and torn transfers, power failure, eviction of dirty buffers | it is a write-back store |
| **Message queue** `messagequeue.h` | a ring buffer between two semaphores | Put, Get, Peek | the ring is used with interrupts enabled | its owner gets each message once and in order, and is woken for it |
| **Input devices** `inputdevice.cpp`, `ps2keyboard.cpp`, `ps2mouse.cpp` | the event ring and its semaphore, lists of devices | handlers, GetEvent | events from handlers, a full ring | events in order |
| **Window manager** `kwm.cpp` | window list, focus, mouse, per-window message queues | window calls, input thread, destruction with the owning thread | messages waited for under the lock; alt+tab and GetEvent without it; programs that destroy each other's windows; threads that die with windows | nobody waits while holding the lock; no event is overlooked; the list is in order and the focus on a window that exists |
| **File system cache** `filesystem.cpp`, `file.cpp`, `dentry.cpp`, `inode.cpp` | directory entries and inodes with reference counts, one global lock | path walks, open, close, sync, shutdown | counts along error paths; three locks; a lock acquired twice halts the machine | an entry lives as long as somebody refers to it; no change is dropped unwritten |
| **Processes** `process.cpp`, `elf.cpp` | tables of descriptors, mutexes, semaphores, threads | create, start, finalize, open, close | finalization from a thread of its own; full tables | every File has one owner; nothing is freed in use |
| **Memory** `paging.cpp`, `bitmap.cpp` | page tables, page and DMA bitmaps, break | allocate, free, map, brk | ends of the bitmaps | no page has two owners |
| **ext2** `ext2.cpp` | bitmaps, counters, block maps | file and directory operations | a disk access that fails in the middle; indirect blocks that come and go | no block in two places; bitmaps tell what is in use; files have no holes |
| **Disk drivers** `ahcidrive.cpp`, `idedrive.cpp` | a lock, a completion semaphore | transfers | timeouts and late interrupts | data is there when a transfer returns |
| **Audio drivers** `es1371.cpp`, `cmi8738.cpp`, `ac97.cpp` | sample buffers, a semaphore, a position | Write, Start, Stop, handler | writer against handler, Stop against a waiting writer | no buffer is overwritten while it plays |
| **Interrupt dispatch** `ints.cpp`, `irqs.cpp` | chains of handlers | register, dispatch | - | static after start |
| **System calls** `syscalls.cpp` | none | forward to the parts above | - | - |

USB, cdfs, text streams, drawing, start-up, the user library and the programs
are listed in `PROJECT.json` with the reason they are left out.

How the parts interact.  Kernel code that changes shared state of the
scheduler, a semaphore or a mutex does so with interrupts disabled on a single
processor: such a function is one atomic step, up to the context switch
(`Time::FakeTick`) in the middle of a blocking call.  The
switch hands the processor to another thread, which comes back from *its own*
switch; what a blocking function does after its switch is thus a later step of
the same thread, made when the thread is picked again and before it enables
interrupts.  Interrupt handlers run between any two steps with interrupts
enabled; a handler that signals a semaphore may switch threads on the spot
(`QuickResume`).  Everything above (files, windows, processes) runs with
interrupts enabled and relies on mutexes: the file system on one global lock,
the window manager on another.

## Modules

| Module | Models | Kind |
|---|---|---|
| `Thread` | the scheduler's data and functions as operators on a record | data module |
| `Scheduler` | threads that use the thread system calls on each other, clock and device interrupts | system |
| `Semaphore` | one semaphore on `Thread` | system |
| `Mutex` | one mutex on `Thread` | system |
| `FifoLock` | what a mutex promises | abstract |
| `Queue` | the ring buffer | system |
| `BoundedFifo` | what the ring buffer promises | abstract |
| `BufferedVolume` | the block cache over a partition and a drive that may fail | system |
| `WriteBackStore` | what the cache promises | abstract |
| `Ext2` | writing, padding and emptying files: bitmaps, counts, block maps | system |
| `EntryCache` | cached directory entries and inodes, the walk along a path | data module |
| `FileSystem` | a user process and the shell that open, use and close files, on `EntryCache` | system |
| `MessageQueue` | the message queue, its calls taken apart | data module |
| `WindowManager` | input devices, input thread and programs with windows, on `MessageQueue` | system |
| `MC...` | the symmetry sets for model checking | instances |
| `Thread_proofs` | what the scheduler's functions keep, for the modules built on them | lemmas |
| `Scheduler_proofs`, `Semaphore_proofs`, `Mutex_proofs`, `BufferedVolume_proofs`, `Ext2_proofs`, `FileSystem_proofs` | theorems about the modules they are named after | proofs |
| `WindowManager_proofs` | theorems about `Queue` and about `WindowManager` with its message queues | proofs |

### Thread

The record `sched` is the scheduler's global state.  `ready` is a sequence;
the other two lists are sets, since nothing depends on their order except in
which order sleepers that expire together become ready, and that is left open
(`\E` over the orders).  `slot` is the word that `TicksSleep` pushes before it
blocks and that `GetNext` and `Resume` overwrite through the saved stack
pointer when `CanChangeState` allows it.  `rtc` is the flag of the clock:
`FakeTick` reads (and clears) it like the handler does, but the interrupt
controller still delivers the interrupt, which then finds nothing ("latched").
One operator stands for one C++ function: `Enable`, `UseWake` and
`StaysAwake` (the head of Suspend and TicksSleep), `SuspendSelf`,
`SuspendOther`, `Resume`, `QuickResume`, `TicksSleep`, `Finalize`; `Dispatch` is
`GetNext(doTick)` with the `Switch` that follows.

Left out: stacks, FPU state, allocation and deletion of Thread objects (hence
`SelfDestruct`), the names and IDs.  `GetByID` is `Known`: a thread can be found
while it is current or on a list.

### Scheduler

Each action is a system call or interrupt.  `Ops` selects which of them a
configuration uses, so that a property which some operation breaks can still be
checked for the others.  `Finalize` calls
`WindowManager::DestroyThreadWindows`, which acquires the lock of the window
manager.  When others hold it the *finalizing* thread is suspended in the middle
of Finalize, even when it is the thread that ends and is already marked
Finalized: `FinalizeBlocks`, `FinalizeEnds`, and `ReleaseWindows` by the holder
(operation "windows").  A thread that ended in this way is left with
`State == Active`; only the destructor of Process looks at the State of a thread
that is on no list (and finalizes it again), so that the model counts it as
Finalized.

`owed` and `unheard` are history variables: the ticks still to pass before a
sleep is over, and whether a thread was resumed while awake since it last tried
to block.  A cfg that does not need them switches them off (`History`).  A thread whose attempt to
block fails at once because of its WakeCount has heard its wake-ups, also when that attempt is the
lock inside Finalize (`HearEndAndSlip`).

### Semaphore and Mutex

`pc` says where each thread is.  `Wait` is `WaitTakes` (count positive),
`WaitBlocks` (listed and switched away), `WaitSlips` (Suspend or Sleep returned
at once because of a spare `WakeCount`) and `WaitReturns` (after the switch); the same
for `Acquire`, which besides may halt the machine (`AcquireHalts`, "Multiple locks
on mutex").  A Wait that finds the waiter list full fails at once and changes
nothing, so that it is no action.  `Signal` is split by its caller: a thread
(Resume) or an interrupt handler (QuickResume, that is a switch).
`FinalizeThread` is `Thread::Finalize` with its `Cancel`; there the window
manager's lock is taken to be free.  `ResumeThread` is `sys_thread_resume` on a
thread that may be inside Wait or Acquire.
`Reset` is `Semaphore::Reset`, called by the audio drivers and by
`sys_semaphore_reset`: it empties the waiter list and wakes nobody.
`CancelThread` is `sys_semaphore_cancel` and `sys_mutex_cancel`, by which any
thread takes another off the list and leaves it blocked.  `forgotten` remembers the
threads these two have taken off while they were blocked.  A mutex keeps a null
entry in the place of a cancelled waiter; when such entries fill the queue a later
Cancel does nothing.

Mutex's clients are disciplined: they release what they acquired.  `tryWait`,
`tryAcquire` and a Wait or Acquire that finds the queue full change nothing.

### Queue

Each method is one step; `answer` is what it returned and `call` which call it
was, so that the refinement compares results and not only contents.
`BoundedFifo` is a sequence with the same calls.

### BufferedVolume

A sector is a pair of a block (the unit of buffering) and an offset.  A request
runs in steps: `Begin`, then per block `Evict` and `Load` if the block is in no
buffer, and `Transfer`; a flush is `BeginFlush`, one `FlushNext` per buffer,
`FlushReturns`.  Between any two steps the power may go (`PowerOff`); a transfer
may fail having moved any part of its sectors (`Faults`).  One request at a time,
because all callers hold the file system lock (`file.cpp`).  The partition may end in the
middle of a block: PartitionVolume then transfers fewer sectors than asked for,
and flushBuffer counts such a write as failed although it was made.

`WriteBackStore` has the content that readers see and the content on the medium;
sectors move to the medium at any time, and all of them before a flush reports
success.

### Ext2

`Write` and `Truncate` (Resize to zero, which is what O_TRUNC does) begin a call;
the steps that follow are the disk accesses in the order of the code, each of which
may fail at the points named in its fault set.  `Find` is getINodeBlock, `AllocBlock` and
`FreeBlock` are the calls of allocBlock and freeBlock; `MakeRoot`, `MakeLeaf`,
`WritePointer`, `Sweep` and `SweepRoot` are setINodeBlock from top to bottom: the
indirect blocks made on the way, the pointer, and the indirect blocks given back
when isBlockZeroed finds them empty.  `Undo` and `WriteData` are the rest of the
loop in write.  Positions and sizes are counted in blocks.

Details of the code that the model keeps, because they decide what holds:

- isBlockZeroed (line 534) reads the first 16 bytes again and again, so it sees
  four pointers (`Looked`).  Emptying a file of more than 12 + 4 blocks therefore gives
  its indirect block back too early; the rest of its pointers are lost, the call
  fails, and blocks leak.  `early` records it, and the properties that it breaks hold
  until then.
- Resize frees a block, then clears the pointer to it, and does not look at the
  result: if that fails the block stays in the map without its bit, Resize goes on with the
  next one and sets the size to 0 at the end, and a later write may be given the block
  for another file.  `dangling` records such blocks.  So it does when an indirect block
  was freed and the block above it cannot be written.  The calls go on; only when a block
  is an indirect one in one place and something else in another (`Mixed`), so that what
  is read as pointers is what a program has written, no further step is modelled.
- One access fails in a step.  An allocation that meets two failures, in two groups, is
  not covered.
- Padding that finds no space is no error: the write goes on behind a hole.
- An indirect block numbered 0 reads as zeros: the first data block is 1 and the boot
  block is empty, as on the 1K-block image the project is delivered with; the
  arithmetic in allocBlock and freeBlock assumes that first data block, too.
- freeBlock never counts in the superblock's own count (an inverted test); nothing
  reads it, so it is left out, with i_blocks and times.

Triply indirect blocks (from 64 MB on), inodes' own allocation and directories are
left out.  A power failure between two accesses is not modelled: bitmaps go to the
disk at once and inodes when their last user puts them, so that after a failure the disk
may have marked blocks that nobody uses.

### EntryCache and FileSystem

`EntryCache` is one record: reference counts of entries and inodes, who is dirty, and as
history what was changed, lost, leaked, or used after it was freed.  All of that code runs
under the file system lock, so that a call is one step.  `Lookup` is
GetDEntry_nolock, `PutDEntry` the release with the chain of parents that go with it,
`Walk` the loop of `File::Open_nolock`, `Drop` the destructor of FileSystem.

`FileSystem` adds the three locks (of the process, of the volumes, of the file
system), the File objects, the descriptor table and the current directories.  A call of
File::Open is `LockVolumes`, `FindLabel` or `FindUUID`, `OpenFile`; what goes before and
after depends on the caller (`SysOpen` .. `StoreFile` for sys_open, `OpenBriefly` ..
`CloseBriefly` for stat, mkdir, ls and cat, .. `PutOldDirectory`, `GetNewDirectory` for
cd).  `SysClose`, `CloseFile`; `GetFileDescriptor`, `ReadOrWrite`; `StartProcess`,
`EndProcess`; and the shutdown from `PutShellDirectory` to `FlushAndDrop`.  A lock
is its owner here; `Mutex` is the module about mutexes.

Where the code stops the system the model has an outcome of its own (`fault`):

- O_APPEND (file.cpp:72) asks for the size under the lock that the size acquires
  again; a UUID in the name leads to `Volume::GetByUUID`, which locks the volumes
  again; `rm` of a file that exists reaches GetINode under the lock: "locked twice".
- An entry whose inode cannot be read is cached with a null pointer and used if it is
  the last one of the path: "null pointer".

Facts of the code that shape the model: Create is refused for every name (Lookup answers
-1 for a free one, which counts as found), hence the tree on the disk never changes; a path
that starts with a slash starts at the current directory all the same; a walk that finds an entry in the
cache leaves one reference on the directory it came from (`leaked`); a full descriptor
table leaves the File open for ever, and so does the end of a process (`full`); the
shell's directory is put twice in the shutdown (main.cpp:727 and 740) although it is
counted once; ~FileSystem calls the WriteINode of the base class, which writes nothing.

`Polite` restricts programs to closing a descriptor that no other thread of theirs is
reading: sys_read fetches the File under the process's lock and uses it after releasing that, so that
impolite programs use a deleted File.

### MessageQueue and WindowManager

A message queue is a ring between the semaphores `msgs` and `slts`.  Its ring is used with
interrupts enabled, hence `Put` is `WriteItem` (item stored, indices compared) and `FinishPut`
(flag stored, signal), and `Get` is the wait, and `ReadItem` with its signal.  That is
enough to see the flag torn: a ring that has just been filled looks empty (`RingIsEmpty`)
until its flag is stored, unless the reader looked before (`Finds` has both outcomes); and when
that reader took an item, Put stores "full" for a ring that is not.  `ReadItem` is one step,
although `Queue::Read` is not: a reader that is alone in it gives its place to the next Put
only with the Signal at its end.  Where that does not cover what can happen the model ends
with `TearRing`: two readers of one queue may be inside Read at once, without a lock, and
take the same item or spoil the index; and a reader with a count too many may meet the
Write that stores into the empty ring.

In `WindowManager` an operation under the lock that does not wait is one step. An event comes in
with `Interrupt`, waits in `ring`, is taken by the input thread (`TakeInput`) and handled:
`HandleKey`, `HandleTab`, `HandleMouse` or `MouseTimesOut`, and delivered by `PutEvent`,
`StoreEvent`. `HandleKey` and `HandleTab` run without the lock, as in the code; alt+tab is
`HandleTab` (the walk begins), `FindWindow` (it ends, at the window before the active one, or at
any, also one that is gone, when the list was changed meanwhile), `MoveFocus`, and
BringWindowToFront in its two halves, `RemoveWindow` and `InsertWindow`. Between any two of
these programs may create, raise and destroy windows under the lock (`raced` remembers it).
Within one of them the pointers of the list may be torn: `TearList` says that when one thread
can be inside the list without the lock (`Bare`: alt+tab, and GetEvent, which looks its window
up without it) and another can change it (`Changing`), there is this outcome, too, and the model
ends there.

Programs read with `GetEvent` (without the lock) and `PeekEvent`
(under it, and it always removes the event, whatever its argument `remove` says), then
`PeekTakes`, `WaitReturns`, `TakeEvent`.  Any program may read, raise, hide and destroy any window,
the debug window and the mouse pointer included: no call looks at the owner.  A thread dies in two steps,
`FinalizeThread` and `DestroyThreadWindows`, and may do so in any of the above,
also while it holds the lock.  Rectangles, visibility, drawing and what a drag does are left
out: the mouse may hit any window, and an event may or may not be passed on.
`HideWindow` acquires the lock it holds ("LockedTwice").

The list that is left when a thread's windows are destroyed is described by `Leaves`, not computed:
the windows of the others, in the order they had.  There is one such list, so that
`DestroyThreadWindows` has one outcome like the loop it stands for.

## Runs

| Run | Question | Instance |
|---|---|---|
| `scheduler` | Is a thread ever on two lists, lost, or back from the dead? `TypeOK`, `InOnePlace`, `StateTellsPlace`, `SleepersHaveTime`, `FinalizedIsFinal` | 3 threads, sleeps of 1 tick, WakeCount up to 2; all operations but sleep on others |
| `scheduler_sleep` | Do sleeps last, and are results stored only where a result is expected? `SleepsLongEnough`, `StackWritesAreSafe` | 3 threads, sleeps of up to 2 ticks, also on others; no devices, no forced suspension |
| `scheduler_fair` | Can a wake-up be lost, or a ready thread starve? `NoLostWakeup`, `ReadyRuns` | 3 threads that do not sleep |
| `semaphore` | Is the waiter list exact, whatever timeouts, deaths, signals, resets and resumes by others come between; can a signal lie idle, the count sink without bound? `WaiterListIsExact`, `BlockedIsQueued`, `NoIdleSignal`, `OverdraftIsBounded` | 3 threads, 2 mortal, timeouts of 2 ticks, 3 waiter slots, 2 resumes, 1 reset or cancel |
| `mutex` | Exclusion, order, no orphans, no dead owners: `MutualExclusion`, `NobodyIsStranded`, `ImplementsFifoLock`, `NotHandedToTheDead` | 3 threads, 2 mortal, timeouts of 2 ticks, 3 waiter slots, 2 resumes, 1 cancel |
| `mutex_fair` | Does every waiter get in? `WaiterGetsIn` | 3 threads, no timeouts |
| `queue` | Is the ring a bounded line? `QueueTypeOK`, `ImplementsBoundedFifo` | 4 slots, 3 items, all methods |
| `buffered_volume` | Is the cache a write-back store when writes fail or tear and the power goes? `BuffersAreCoherent`, `FailureLeavesDirty`, `ImplementsWriteBackStore` | 2 buffers of 2 sectors, 5 sectors (3 blocks, the last cut off), 2 values |
| `buffered_volume_read_fault` | (violated) Does a flush "synchronize buffers with media" after a read fault? `FlushSynchronizes` | 2 buffers, 4 sectors |
| `file_system` | Are the counts those of the pointers, is nothing freed in use, no change lost, and can every call return? `CountsAreExact`, `NothingFreedIsUsed`, `FilesHaveOneOwner`, `NoChangeIsLost`, `CallsCanReturn` | 2 user threads and the shell, 2 descriptors, 3 Files, 5 nodes (a directory, a file with two names, an inode that cannot be read), 9 kinds of names, one process |
| `window_manager` | Does every event arrive once and in order, is the list sound and the focus, is no event overlooked, and is the lock released? `ScreenIsSound`, `QueueIsAccounted`, `NoMessageOverlooked`, `FullIsNotEmpty`, `HolderGoesOn`, `ReadInOrder` | 2 programs, 1 window beside the kernel's three, whose events are read, queues of 2, an event ring of 1, 3 events, two of any kind and a key |
| `ext2` | Do map, bitmaps and counts agree whichever access fails, and are files whole when none does? `NoBlockIsShared`, `DamageIsConfined`, `BitmapsTellUse`, `CountsAreSound`, `FilesAreWhole`, `WrittenIsKept` | 2 files, 2 groups of 5 blocks, 1 direct pointer, 2 pointers per indirect block of which 1 is looked at, 4 calls of up to 2 blocks that begin at block 0, 2 or 3, 1 fault |

Some properties are conjunctions of parts that have names and comments of their own:
`WaiterListIsExact`, `NobodyIsStranded`, `BuffersAreCoherent`, `CountsAreExact`,
`ScreenIsSound`, `BitmapsTellUse`, `CountsAreSound` and `FilesAreWhole`; where there is no invariant
`TypeOK` in the table it is one of these parts.

What the runs show beyond "it holds":

- Three threads are one running, one being acted on and one that comes between.
  One tick of sleep suffices for the lists; the countdown itself needs two.
- `SleepsLongEnough` is checked without devices: QuickResume (`thread.cpp:440`) counts a
  tick for every sleeper at each device wake-up, so that sleeps end early then.
- `StackWritesAreSafe` is checked without forced suspension: a thread that
  another one suspends *while it sleeps* keeps `CanChangeState` set.
- `NoLostWakeup` leaves out the main thread, which starts with a WakeCount of 0
  while every other thread has 1 from the Resume that started it, and threads that
  sleep: a sleep uses up a WakeCount, too (`thread.cpp:448`).
- Once a thread in Wait or Acquire is resumed behind the primitive's back, Wait
  and Acquire return success without a signal, and a stale entry stays in the
  waiter list.  The properties that say `Undisturbed` hold until then; blocked
  threads are listed (`BlockedIsQueued`, `NoOrphanedWaiter`) and the owner is awake
  (`OwnerIsAwake`) always, but for threads that a Reset or Cancel made the primitive
  forget: they stay blocked until their time is over.  Two resumes are the bound: one wakes a
  waiter, or builds up the spare count that makes a Wait slip, the other comes on top.
- `NoIdleSignal` does not hold with timeouts or deaths of woken threads (the
  signal that woke a thread whose time had just run out stays in Count while others wait);
  no text in the repository promises otherwise.
- A release may pass the mutex to a thread whose time has just run out: its Acquire returns
  false, and its next Acquire halts the machine. The model has both; no property excludes them.
- `WaiterGetsIn` is checked with immortal threads: a finalized thread keeps the
  mutexes it owns.
- `FailureLeavesDirty`, `CleanMeansOnDisk` and the refinement are checked without read faults;
  `buffered_volume_read_fault` shows what these do.
- The reference counts are exact until the shutdown begins, errors and leaks included: the
  only references without a pointer are those that walks through cached entries leave.  The shutdown
  itself may free an entry in use (the directory put twice), may lose changes made
  after SynchronizeAll, and may deadlock: Cleanup holds the file system lock while it waits for that of
  the volumes, File::Open the other way round.  `NothingFreedIsUsed`, `NoChangeIsLost` and
  `CallsCanReturn` name these exceptions.
- The late flag of a message queue has two sides. Stored after its ring was emptied it is
  harmless as long as only the owner of a window reads its events (at worst an event is refused
  although a place was free). Not yet stored after its ring was filled it is not: a reader who
  has taken a count and comes between `queue.h:44` and `queue.h:45` is told that the ring is
  empty, returns without an event, and the message has no count any more (`missed`). From then
  on a reader may sleep beside a message, and `QueueIsAccounted`, `NoMessageOverlooked` and
  `HolderGoesOn` name this exception; the order of what he reads is kept (`ReadInOrder`).
- With a second reader the model reaches an empty ring that says it is full, messages that
  nobody is woken for, and a PeekEvent that blocks with the window manager's lock; two in Read at once
  may read an item twice.  `shared` marks those windows, and `ReadInOrder` is about the others.
- Alt+tab may leave the focus on a window that was destroyed meanwhile (`raced`), and so may the
  destruction of the mouse pointer, by which the code finds the next window; a drag then follows
  a null pointer. The order of the list survives both.
- With two threads inside the list of windows at once, one of them without the lock, nothing
  holds: `TornList` is the exception of `ScreenIsSound`.
- With any one failing access ext2 may lose blocks (marked and used by nobody).  It has
  no block in two places nor unmarked in use until a block was freed whose pointer could not be
  cleared.  From then on that block can be given away while it is in a map, and be in two
  files; `DamageIsConfined` says that this happens to no other block.

Bounds: `MaxTicks` (longest sleep), `MaxWake` (no Resume by a thread or device once WakeCount
has this value), `MaxCount` (no Signal once Count has this value), `MaxResumes`, `MaxResets`,
`MaxCancels`; `MaxRefs` (no call starts once a reference count has this value), `MaxStarts`;
`MaxWindow`, `MaxEvents`, `LastIsKey` (the last event is a key), `Readable` (the windows whose
events the programs read: the one they create; the kernel's three have the same queues);
`Starts`, `MaxLength`, `MaxCalls`, `MaxFaults`. They cut the number of repetitions and not the kinds of steps. Waiter queues of 3
instead of `MAX_WAITERS` = 32 slots make a full queue reachable; 2 buffers of 2 sectors instead
of the 16 of 16 in `partitionvolume.cpp` make every access beyond two blocks an eviction; 2
descriptors and 3 Files a full table; an event ring of one an event that finds no room; one
direct and two indirect pointers a doubly indirect block in a file of 4 blocks, and ten blocks a
full volume.

Deadlock checking is off where the system may stop: `mutex` (the machine may halt),
`file_system` (it halts, or is switched off), `window_manager` (it halts, or the
events are used up) and `ext2` (the calls are used up).

Mutants: `PROJECT.json` names, for each property, a plausible slip in one
mapped definition that makes TLC refute the property.  They are defined beside
the originals and marked "Mutant of".

## Fairness

Only what runs by itself is fair.  In `scheduler_fair` the clock goes on firing and its interrupt is
served (`WF` of `ClockFires`, `TimerInterrupt`), and a thread that holds the
processor with interrupts off in the middle of a blocking function goes on to its end
(`WF` of `SleepReturns`, `FinalizeEnds`), and so in `mutex_fair` (`AcquireReturns`): nothing
else can run then.  No thread is assumed to yield, suspend or signal.
`WaiterGetsIn` also assumes that a thread inside the mutex which gets the processor
again and again releases it (`SF` of `Release`): a duty of the callers, without
which no lock is live; strong fairness because preemption disables the action
again and again.

## Proofs

Proved with TLAPS, for all values of the constants that satisfy the assumptions named in the
modules (any finite set of threads, any capacity, any number of sectors and buffers, any
geometry of an ext2 volume, any bounds); where a theorem needs more it says so itself.

**`Thread_proofs`.**  A function of the scheduler passes through states in which the lists and
the states of threads disagree: while it switches, the current thread is not yet on the list its
State names.  `Sound` is what holds when a function returns (lists disjoint, State tells the place
for all threads, nobody Suspending, current neither blocked nor finalized, sleepers have time),
`Settled` its weakening inside a switch.  `DispatchKeeps` leads from Settled to Sound through
`TickSleepers`, `WakeDue`, `Requeue` and `SwitchToNext`; every operation has a lemma that it
keeps Sound or, before a switch, leaves Settled.  Further lemmas say which threads an operation
leaves alone (`Spared`), which is what the primitives need.

**`Scheduler_proofs`.**  `TypeCorrect`, `OnePlace`, `StateTells`, `SleepersWait` and
`FinalizedStays` hold for any mix of operations (`OpsAssumption`).  Three more have an invariant of
their own beside Sound, and the hypothesis under which their runs check them, each for a reason in
the code:

- `StackWritesSafe` (`StackWritesAreSafe`; invariant `Fit`: whose CanChangeState is set is
  in TicksSleep) unless threads are both suspended *and* put to sleep by others: SuspendOther
  takes a sleeper off its list and leaves CanChangeState, and a later sleep imposed from outside
  then writes to its stack.
- `WakeupsAreHeard` (`NoLostWakeup`; `Heeded`: everybody who is awake has a WakeCount left,
  and one more who was resumed while awake) if threads do not sleep: one woken by the end of its
  sleep has no WakeCount left.
- `SleepsAreLongEnough` (`SleepsLongEnough`; `Owing`: a sleeper's countdown is not below the
  ticks still owed to it) without device interrupts, which tick the sleepers while no time passes.

**`Semaphore_proofs`.**  `BlockedAreQueued`, `ListIsExact`, `OverdraftBounded`, `NoSignalIdle`:
all safety properties of Semaphore, without further hypotheses.  The inductive invariant says for
each thread how its place in Wait, its scheduler state, its entry in the list and its
WakeCount go together (`Stands`), and bounds the count by the number of threads on their way out
(`Leaving`).  A step disturbs that for one or two threads; the others are at most
woken by the clock.

**`Mutex_proofs`.**  `Exclusion`, `NobodyStranded` without further hypotheses.  Exclusion alone is
not inductive: that Release hands the mutex to somebody who waits rests on the list being right
about the scheduler's state, and this on listed threads having no WakeCount left.
`NotGivenToTheDead` (`NotHandedToTheDead`) holds if the queue has a place for every thread
(`Cardinality(Threads) <= MaxWaiters`, 32 in the code, which does not bound the number of threads):
in a full queue Cancel's ReplaceAll does nothing, and the dead thread stays listed.  Cleared entries
count too, so the invariant `Fits` says that the queue has no more entries than there are threads listed
or dead; the thread that finalizes another runs and is neither, which leaves one place free.
`Refinement` (`ImplementsFifoLock`): the line of the abstract lock is the waiter queue without its
cleared entries (`Line`, a recursive function), for which lemmas, by the shortest counterexample, say
what appending, concatenating, taking out one thread and taking the head do to it.  The only fact
it needs beside the invariant is that nobody is listed for a mutex that is free (`Unclaimed`).

**`BufferedVolume_proofs`.**  `Coherent`, `FailuresKeepWrites` and `Refinement`
(`ImplementsWriteBackStore`), if reads do not fail (`"read" \notin Faults`; with them
`buffered_volume_read_fault` refutes it); writes may fail or tear, and the power may go.  The
inductive invariant says which buffers may differ from the medium, that the rest of an access
lies inside the partition, and, because a flush goes over the buffers one by one, that those
behind it are clean if it is going to report success (`FlushKnows`).  Every step
of the loops maps to a step of `WriteBackStore` or to a stutter.

**`Ext2_proofs`.**  `CountsSound`, `BlocksUnshared`, `BitmapsTruthful`, `WrittenKept`,
`FilesWhole`, for any number of files, groups and blocks, any size of indirect blocks, and any
accesses that fail. `CountsSound`, and in `BlocksUnshared` that no block of the file system is
in a file, hold throughout; the rest until a pointer to a freed block stays, as the properties
say. None of them is inductive: between two accesses to the disk a block is marked and in no
map, or in the map and free. The inductive invariant (`IInv`) follows this block at hand: a
block that is written is marked and nowhere in a map (`Hand`) until WritePointer puts it there,
one that Resize takes out is the one its pointer still names (`Taken`, `Marked`), and when
nothing has failed everything marked is in a map, at hand, or the file system's own
(`Accounted`); `Call` says that the indirect blocks on the way to the pointer exist. `IInv` is
the invariant as long as `dangling` is empty; `Inv` (theorem `HandIsFollowed`) adds what holds
also after that: `Base`, the types, the counts and that all pointers, those in blocks that
nobody uses included, stay off the file system's own blocks, and `Faulty`, that no pointer stays
without a fault, because the indirect blocks on the way to a pointer that Resize clears are
there (`WayIsThere`). The block map is read as a function of inode and tables (`PointerIn`), for
which lemmas say what storing one pointer does to all the others (`PutOwn`, `PutEntry`) and that
clearing a table only takes pointers away (`Lowering`): true only because no table is shared, so
that the map's soundness and `Unshared` are proved together.

`WrittenKept` (`WrittenIsKept`) has a second invariant, `KInv`, on top of it, with the same
exception: `Kept` says of every block that the loop of write has passed what the property says
of the result, `InPlace` that from the moment the pointer is set until the data is written it is
the block at hand the file has there. A step disturbs this by storing a pointer, by freeing a
block, or by setting the size. Stored is only over an empty place (`MakesTable`) or over the
pointer of the block at hand; freed is only a block no map names, or an indirect block that
looks empty, and one on the way to the block at hand that looks empty and is not is what `early`
records (`SweepsOut`, `SweptKept`); and the size setSize computes never falls below a block
written before (`Covers`).

`FilesWhole` (`FilesAreWhole`) has a third one, `WInv`, for the runs in which all accesses succeed.
`Shape` says that a file has the blocks from `First` to `Past`, which differ from 0 and the size only
while Resize empties it or setINodeBlock has stored a pointer and not yet set the size, and `Content`
that what is in them is the file's, but in the block at hand.  Two parts are there because `Shape` alone
is not inductive.  An indirect block stays, or goes, with the pointers in it: `Leaves` says that
one in a map has a pointer in it, so that a place without an indirect block is one where the file
ends; that isBlockZeroed looks at the first pointers only is what makes this true of a block that
was swept and stayed (`SlotFilled`).  And padding that finds no space is no error, so that write
goes on behind the hole: `Position` says that it then finds no space either.  All
that is free then is at most the one block Undo has given back, and the indirect block that could not be
made for the end of the file is missing for every block behind it too (`Starving`, `NoLeaf`, `Between`).

**`FileSystem_proofs`.**  `Returns` (`CallsCanReturn`), `OneOwner` (`FilesHaveOneOwner`),
`CountsExact` (`CountsAreExact`) and `ChangesReachDisk` (`NoChangeIsLost`) without further
hypotheses, `NothingFreed` (`NothingFreedIsUsed`) for polite programs; for every tree, any
number of threads, descriptors and Files, and any names. Three assumptions on the constants
carry the proofs: that the way up from every node ends at the root (so that a path visits no
node twice and putting an entry ends), that a directory has one name (ext2 has no hard links to
them, so that the chain of entries that go in one release goes with distinct inodes), and that
Files are finite in number.

The argument is in layers. `Returns` follows from who holds which lock at which step
(`Locking`): procLock is held by exactly the thread that is opening or closing, volLock only in
File::Open before Open_nolock, fsLock between steps only in the last part of the shutdown.
`OneOwner` adds `Owned`: a File belongs to one descriptor or one call that has opened it and not
yet passed it on, and a thread that is closing still has its slot, because it holds the
process's lock.

The counts need one more quantity: `Outside`, the number of pointers into the cache from Files,
current directories and FileSystem::Root. `Balanced(c, E)` says that every entry has `E[n]`
references from outside, one for each cached child, and the leaked ones. Each operator of
`EntryCache` has a lemma how E must move for the balance to stay: `GetBalanced` and
`PutBalanced` by one at that node; `LoadBalanced` moves one from the directory to the new entry,
which is why a walk that finds the entry in the cache has to count a leaked reference;
`WalkSound` by induction over the steps. `PutBalanced` is the hard one: the entries freed are
the longest part of the way up on which every count is one (`Climb`), and that the entry above
loses exactly one child is where the path's being free of repetitions is used. `OutsideFile`,
`OutsideProcess` and `OutsidePasses` say how a step moves the pointers, and `Books` joins the
two. What is pointed to is cached (`PointedIsCached`), hence nothing freed is used; for a read
through a descriptor this takes `UsedPolitely`, that no one closes what a polite program is
using. The shutdown puts one directory twice, so that from there on only `CacheOK` is left
(types, inode counts, changed inodes are dirty), which is enough for `InodesAreCounted` and
`ChangesReachDisk`.

**`WindowManager_proofs`.**  First the ring buffer, which events and messages wait in:
`RingTypeCorrect`, and `RingRefines`: it implements `BoundedFifo`, for every capacity and all items.
The inductive invariant adds to the type that Full is only set when the indices meet; the
refinement compares the abstract line, read slot by slot from Tail, before and after each method.

Then `ScreenSound`, `Accounted`, `NoneOverlooked`, `FullSound`, `HolderSound` and `InOrder`:
`ScreenIsSound`, `QueueIsAccounted`, `NoMessageOverlooked`, `FullIsNotEmpty`, `HolderGoesOn` and
`ReadInOrder`, all safety properties of
WindowManager, without further hypotheses, for any number of programs, windows and events and
any capacities.  They rest on one inductive invariant, `WInv`, since none of them stands alone:

- The focus (`Focused`) needs to know, at each step of alt+tab, which window it has in hand:
  until another thread changes the list (`raced`) that window is on it, is not the mouse
  pointer, and has the focus from `MoveFocus` on; and while it is off the list between
  `RemoveWindow` and `InsertWindow` it still counts as existing (`Exists`). The list (`IsStack`)
  needs lemmas on what taking a window out and inserting one below the mouse pointer, or at the
  end without one, do to a list without repetitions (`Without`, `BelowMouse`, `Leaves`), and
  that nobody else inserts the window that alt+tab has taken out (`Stacked`).
- Account and flag of a queue hold each other up. That an owner who has taken a count finds a
  message is why his read never meets an empty ring that says it is full; and that the flag
  "full" Put has in its hands is still right when it is stored, at least as far as that the ring
  is not empty, is because there are then at least as many messages as were counted or are in
  somebody's hands (`Storing(w, "full")` in `Account`), Put's own among them. That there are no
  more of them holds until a reader has found a full ring empty.
- In a queue only its owner reads there is one reader (`ReadersShare`), so that a woken one
  finds the count it was woken for, and one that waits leaves the count at zero
  (`CountIsRight`). In a shared queue the count may go below zero; there only the sum of
  `Account` is left.
- The waiters listed are exactly those that wait there (`ListIsRight`), also after deaths, so that the
  Signal of Put wakes a thread that is blocked at this very window.
- A window's queue is a new one when its ID is given out, and nobody is at it (`Unborn`); Put
  holds the lock until the flag is stored, so that its window is not destroyed under it (`Held`).
- Order is one chain of numbers through the system (`Ordered`): the last message read from each
  window, those in its queue, the event the input thread has at hand, those in the ring of the
  devices, and the next one to be typed.  Every step moves an event along this chain or drops it.

`HolderSound` adds `Holders`: a program that has the lock is in PeekEvent (`HoldsLock`), and while only
it reads the window and no full ring was found empty, the message it has seen stays there with a
count for it (`MessageIsThere`, `CountIsThere`), so that it does not wait in Get.

A step of a thread touches one queue: `WInv` is proved per queue and per reader, with
lemmas for what is left alone elsewhere (`Undisturbed`), and in general for the steps that put a
thread at a queue or take it away (`AtQueue`).

Only model-checked:

- Liveness (`ReadyRuns`, `WaiterGetsIn`): outside the prover's reach.

## Disagreements of code and text

`bufferedvolume.cpp:91`: after a failed read the buffer stays in use under a
block it does not hold, and a flush reports that buffers and medium agree
(`volume.h:53`, `buffered_volume_read_fault`).

Two more were met while modelling and have no run of their own; the properties are checked
without the operations that cause them.  `thread.cpp:440`: QuickResume ticks every sleeper, so
that device interrupts shorten sleeps below what `thread.cpp:480` promises.  `thread.cpp:448`: a
sleep uses up the WakeCount, and the wake-up that `thread.h:85` says is not lost is lost.

## Plan

1. `DiskTransfer`: an AHCI transfer with timeout and late interrupt.
2. `ProcessTables`: tables, Start, Finalize and their error paths (Finalize never ends on a thread
   that does not free itself, Start returns with the lock held when there is no thread).
3. `PageAllocator`: page and DMA bitmaps against a set of owned pages; the break, which keeps a
   page when MapPage fails.
4. `AudioBuffers`: Write against the interrupt handler.

## Not modelled

Memory, disk drivers and audio drivers are left to the plan. USB, cdfs, text streams, drawing,
start-up, interrupt dispatch, the user library and the programs have no state worth checking, or
none of their own; the ported software is not this project's. Within the modelled parts: Thread
objects' lifetime and stacks, partition detection, decoding of scan codes and mouse packets, all
geometry, what becomes of a list or ring that two threads have torn, triply indirect blocks,
ext2 directories, file positions.

## Checking

    tlc -config Scheduler.cfg MCScheduler.tla      # a run: the cfg and its MC module
    tlapm Scheduler_proofs.tla                     # a proof module
