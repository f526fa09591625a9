----------------------------- MODULE FileSystem -----------------------------
(***************************************************************************)
(* Open files: the threads of a user process with its descriptor table     *)
(* (src/kernel/process.cpp, the file system calls of syscalls.cpp), the    *)
(* kernel's shell (main.cpp), File (file.cpp) and the caches below them    *)
(* (EntryCache).                                                           *)
(*                                                                         *)
(* Three mutexes matter: the lock of the process, the lock of the list of  *)
(* volumes and the lock of the file system.  What a thread does under the  *)
(* file system lock is one step; a step that needs a lock waits until it   *)
(* is free.  Mutex models the lock itself; here a lock is its owner.       *)
(***************************************************************************)
EXTENDS EntryCache

CONSTANTS
  Users,      \* the threads of the user process
  Shell,      \* the kernel thread that runs the shell
  Slots,      \* the descriptors of the process, numbers from 3 on
  Files,      \* addresses of File objects
  Requests,   \* the names that are opened, and the flags: see OpenRequest
  MaxRefs,    \* bound: no call starts when a reference count has this value
  MaxStarts,  \* bound: how often the shell starts a process
  Polite      \* programs close a descriptor only when no thread is using it

Threads == Users \cup {Shell}
NoOne == <<"no thread">>
NoFile == <<"no file">>
NoNode == <<"no node">>

\* volume: how the name says on which volume the walk starts.  A name without a
\* volume starts in the current directory, even if it begins with a slash, which
\* the tokenizer drops.
OpenRequest ==
  [volume : {"number", "label", "uuid", "none"},
   steps  : Seq(STRING),
   flags  : SUBSET {"append", "truncate", "directory"}]

ASSUME FileSystemAssumption ==
  /\ IsFiniteSet(Users) /\ IsFiniteSet(Files) /\ Shell \notin Users /\ NoOne \notin Threads
  /\ Slots \subseteq Nat \ 0..2
  /\ NoFile \notin Files /\ NoNode \notin Nodes
  /\ Requests \subseteq OpenRequest
  /\ MaxRefs \in Nat \ {0, 1} /\ MaxStarts \in Nat
  /\ Polite \in BOOLEAN

VARIABLES
  cache,    \* the directory entries and inodes in memory, see EntryCache
  files,    \* the entry of each File object, NoNode where there is none
  fds,      \* Process::FileDescriptors of the user process
  cwd,      \* CurrentDirectory of the "kernel" and the "user" process
  procLock, \* owner of the user process's lock
  volLock,  \* owner of Volume::lock
  fsLock,   \* owner of FileSystem::lock between steps: only Cleanup holds it so
  pc,       \* where each thread is in its call
  job,      \* the call: its kind, the request, the descriptor, the File
  mounted,  \* Volume::FS is set
  starts,   \* how often a user process was started
  full,     \* history: Files for which no descriptor was free, or whose
            \* process ended before they were closed
  late,     \* history: a file was modified after SynchronizeAll
  fault     \* why the kernel stopped, "none" while it runs

vars == <<cache, files, fds, cwd, procLock, volLock, fsLock, pc, job, mounted,
          starts, full, late, fault>>

NoJob == [op |-> "none"]

\* The steps of the shell that shut the system down, in order.
Closing == {"synchronize", "put directory", "clean up", "flush", "off"}

TypeOK ==
  /\ cache \in CacheType
  /\ files \in [Files -> Nodes \cup {NoNode}]
  /\ fds \in [Slots -> Files \cup {NoFile}]
  /\ cwd \in [{"kernel", "user"} -> Nodes \cup {NoNode}]
  /\ {procLock, volLock, fsLock} \subseteq Threads \cup {NoOne}
  /\ \A t \in Threads : pc[t] \in Closing \cup
       {"idle", "volume", "label", "uuid", "enter", "store", "close", "use", "get new"}
  /\ mounted \in BOOLEAN /\ late \in BOOLEAN
  /\ starts \in 0..MaxStarts
  /\ full \subseteq Files
  /\ fault \in {"none", "locked twice", "null pointer"}

Init ==
  /\ cache = MountedCache
  /\ files = [f \in Files |-> NoNode]
  /\ fds = [s \in Slots |-> NoFile]
  /\ cwd = [p \in {"kernel", "user"} |-> IF p = "kernel" THEN Root ELSE NoNode]
  /\ procLock = NoOne /\ volLock = NoOne /\ fsLock = NoOne
  /\ pc = [t \in Threads |-> "idle"]
  /\ job = [t \in Threads |-> NoJob]
  /\ mounted = TRUE
  /\ starts = 0
  /\ full = {}
  /\ late = FALSE
  /\ fault = "none"

-----------------------------------------------------------------------------
ProcessOf(t) == IF t = Shell THEN "kernel" ELSE "user"

Running == fault = "none" /\ ~cache.freed

Ready(t) == Running /\ pc[t] = "idle" /\ cwd[ProcessOf(t)] # NoNode

Free(lock) == lock = NoOne

Spare == {f \in Files : files[f] = NoNode}

\* a call begins; the bounds leave room for the calls in progress
Begin(t) ==
  /\ Ready(t)
  /\ \A n \in Nodes : cache.refs[n] < MaxRefs
  /\ Cardinality(Spare) > Cardinality({u \in Threads : pc[u] # "idle"})

Goto(t, where) == pc' = [pc EXCEPT ![t] = where]
Finish(t) == Goto(t, "idle") /\ job' = [job EXCEPT ![t] = NoJob]
Halt(why) == fault' = why

Memory == <<cache, files, late>>
Locks == <<procLock, volLock, fsLock>>
System == <<cwd, mounted, starts>>

\* sys_open: Process::Open holds the lock of the process until the File is in
\* the table.
SysOpen(t, r) ==
  /\ t \in Users /\ Begin(t) /\ Free(procLock)
  /\ procLock' = t
  /\ Goto(t, "volume")
  /\ job' = [job EXCEPT ![t] = [op |-> "open", request |-> r]]
  /\ UNCHANGED <<Memory, fds, volLock, fsLock, System, full, fault>>

\* A File that is opened and closed again in one call: sys_stat and sys_mkdir,
\* the shell's ls and cat.  In the shell's cd it becomes the current directory.
OpenBriefly(t, r, op) ==
  /\ Begin(t)
  /\ op \in {"stat", "cd"}
  /\ op = "cd" => t = Shell /\ "directory" \in r.flags
  /\ Goto(t, "volume")
  /\ job' = [job EXCEPT ![t] = [op |-> op, request |-> r]]
  /\ UNCHANGED <<Memory, fds, Locks, System, full, fault>>

\* Mutant of Refused: the lock of the process is kept.
RefusedLocked(t) == Finish(t) /\ UNCHANGED procLock

\* what a failed open does next
Refused(t) ==
  /\ procLock' = IF procLock = t THEN NoOne ELSE procLock
  /\ Finish(t)

\* File::Open(name, flags): Volume::Lock, and GetByID_nolock.  A volume whose
\* file system is gone is refused.
LockVolumes(t) ==
  /\ Running /\ pc[t] = "volume" /\ Free(volLock)
  /\ IF mounted
     THEN /\ volLock' = t
          /\ Goto(t, IF job[t].request.volume \in {"label", "uuid"}
                     THEN job[t].request.volume ELSE "enter")
          /\ UNCHANGED <<procLock, job>>
     ELSE Refused(t) /\ UNCHANGED volLock
  /\ UNCHANGED <<Memory, fds, fsLock, System, full, fault>>

\* GetByLabel_nolock acquires and releases the file system lock.
FindLabel(t) ==
  /\ Running /\ pc[t] = "label" /\ Free(fsLock)
  /\ Goto(t, "enter")
  /\ UNCHANGED <<Memory, fds, Locks, System, job, full, fault>>

\* GetByUUID locks the volumes again; Acquire halts the system when the caller
\* already owns the mutex.
FindUUID(t) ==
  /\ Running /\ pc[t] = "uuid"
  /\ Halt("locked twice")
  /\ UNCHANGED <<Memory, fds, Locks, System, pc, job, full>>

\* What Open_nolock finds, after the walk: the reason it stops the system, or
\* "none".  GetMode is called through the INode of the entry; O_APPEND calls
\* GetSize, which acquires the file system lock again.
OpenFault(w, r) ==
  IF w.ok /\ w.at \in w.c.blank THEN "null pointer"
  ELSE IF /\ w.ok /\ "append" \in r.flags
          /\ ("directory" \in r.flags => w.at \in Dirs)
  THEN "locked twice"
  ELSE "none"

\* Open_nolock from start: the cache it leaves, and the entry, or NoNode
OpenEntry(w, r) ==
  LET c == IF w.ok /\ "truncate" \in r.flags THEN Modify(w.c, INodeOf[w.at]) ELSE w.c
  IN  IF ~w.ok THEN [c |-> c, at |-> NoNode]
      ELSE IF "directory" \in r.flags /\ w.at \notin Dirs
      THEN [c |-> PutDEntry(c, w.at), at |-> NoNode]
      ELSE [c |-> c, at |-> w.at]

Changed(c) ==
  late' = (late \/ (c.changed # cache.changed
                    /\ pc[Shell] \in {"clean up", "flush", "off"}))

\* File::Open goes on: GlobalLock, the volume is unlocked, Open_nolock, a new
\* File, GlobalUnLock.
OpenFile(t) ==
  /\ Running /\ pc[t] = "enter" /\ Free(fsLock)
  /\ volLock' = NoOne
  /\ LET r == job[t].request
         start == IF r.volume = "none" THEN cwd[ProcessOf(t)] ELSE Root
         w == Walk(cache, start, r.steps)
         e == OpenEntry(w, r)
     IN  IF OpenFault(w, r) # "none"
         THEN /\ Halt(OpenFault(w, r))
              /\ UNCHANGED <<Memory, procLock, pc, job>>
         ELSE /\ cache' = e.c /\ Changed(e.c)
              /\ UNCHANGED fault
              /\ IF e.at = NoNode
                 THEN Refused(t) /\ UNCHANGED files
                 ELSE \E f \in Spare :
                        /\ files' = [files EXCEPT ![f] = e.at]
                        /\ job' = [job EXCEPT ![t] = [op |-> @.op, file |-> f]]
                        /\ Goto(t, "store")
                        /\ UNCHANGED procLock
  /\ UNCHANGED <<fds, fsLock, System, full>>

\* the lowest free descriptor, if there is one
FirstFree ==
  {s \in Slots : fds[s] = NoFile /\ \A u \in Slots : fds[u] = NoFile => s <= u}

\* Process::Open goes on: the File gets the first free descriptor.  When there is
\* none the call fails, and the File stays.
StoreFile(t) ==
  /\ Running /\ pc[t] = "store" /\ job[t].op = "open"
  /\ IF FirstFree = {}
     THEN full' = full \cup {job[t].file} /\ UNCHANGED fds
     ELSE \E s \in FirstFree :
            fds' = [fds EXCEPT ![s] = job[t].file] /\ UNCHANGED full
  /\ procLock' = NoOne
  /\ Finish(t)
  /\ UNCHANGED <<Memory, volLock, fsLock, System, fault>>

\* delete f: the destructor puts the entry, under the file system lock
DeleteFile(f) ==
  /\ cache' = IF files[f] = NoNode THEN [cache EXCEPT !.freed = TRUE]
              ELSE PutDEntry(cache, files[f])
  /\ files' = [files EXCEPT ![f] = NoNode]
  /\ UNCHANGED late

CloseBriefly(t) ==
  /\ Running /\ pc[t] = "store" /\ job[t].op = "stat" /\ Free(fsLock)
  /\ DeleteFile(job[t].file)
  /\ Finish(t)
  /\ UNCHANGED <<fds, Locks, System, full, fault>>

Using(f) == {t \in Threads : pc[t] = "use" /\ job[t].file = f}

\* sys_close: the lock of the process is held while the File is deleted.
SysClose(t, s) ==
  /\ t \in Users /\ Ready(t) /\ Free(procLock) /\ fds[s] # NoFile
  /\ Polite => Using(fds[s]) = {}
  /\ procLock' = t
  /\ Goto(t, "close")
  /\ job' = [job EXCEPT ![t] = [op |-> "close", slot |-> s, file |-> fds[s]]]
  /\ UNCHANGED <<Memory, fds, volLock, fsLock, System, full, fault>>

\* Mutant of CloseFile: the descriptor keeps pointing to the File.
CloseFileOnly(t) ==
  /\ Running /\ pc[t] = "close" /\ Free(fsLock)
  /\ DeleteFile(job[t].file)
  /\ procLock' = NoOne
  /\ Finish(t)
  /\ UNCHANGED <<fds, volLock, fsLock, System, full, fault>>

CloseFile(t) ==
  /\ Running /\ pc[t] = "close" /\ Free(fsLock)
  /\ DeleteFile(job[t].file)
  /\ fds' = [fds EXCEPT ![job[t].slot] = NoFile]
  /\ procLock' = NoOne
  /\ Finish(t)
  /\ UNCHANGED <<volLock, fsLock, System, full, fault>>

\* sys_read and sys_write fetch the File under the lock of the process ...
GetFileDescriptor(t, s) ==
  /\ t \in Users /\ Ready(t) /\ Free(procLock) /\ fds[s] # NoFile
  /\ Goto(t, "use")
  /\ job' = [job EXCEPT ![t] = [op |-> "use", file |-> fds[s]]]
  /\ UNCHANGED <<Memory, fds, Locks, System, full, fault>>

\* ... and use it under the file system lock.
ReadOrWrite(t) ==
  /\ Running /\ pc[t] = "use"
  /\ LET n == files[job[t].file]
     IN  IF n = NoNode \/ (n \notin Dirs /\ ~Cached(cache, n))
         THEN cache' = [cache EXCEPT !.freed = TRUE] /\ UNCHANGED late
         ELSE IF n \in Dirs
         THEN UNCHANGED <<cache, late>>
         ELSE /\ Free(fsLock)
              /\ cache' = Modify(cache, INodeOf[n])
              /\ Changed(cache')
  /\ Finish(t)
  /\ UNCHANGED <<files, fds, Locks, System, full, fault>>

-----------------------------------------------------------------------------
(* The shell.                                                              *)

\* cd, the directory being open: the old current directory is put ...
PutOldDirectory ==
  /\ Running /\ pc[Shell] = "store" /\ job[Shell].op = "cd" /\ Free(fsLock)
  /\ cache' = PutDEntry(cache, cwd["kernel"])
  /\ cwd' = [cwd EXCEPT !["kernel"] = NoNode]
  /\ Goto(Shell, "get new")
  /\ UNCHANGED <<files, late, fds, Locks, mounted, starts, job, full, fault>>

\* Mutant of GetNewDirectory: the directory's File is not closed.
GetNewUncounted ==
  /\ Running /\ pc[Shell] = "get new" /\ Free(fsLock)
  /\ LET f == job[Shell].file
     IN  /\ cwd' = [cwd EXCEPT !["kernel"] = files[f]]
         /\ cache' = PutDEntry(cache, files[f])
         /\ files' = [files EXCEPT ![f] = NoNode]
  /\ Finish(Shell)
  /\ UNCHANGED <<late, fds, Locks, mounted, starts, full, fault>>

\* ... the new one is counted, and the File closed.
GetNewDirectory ==
  /\ Running /\ pc[Shell] = "get new" /\ Free(fsLock)
  /\ LET f == job[Shell].file
     IN  /\ cwd' = [cwd EXCEPT !["kernel"] = files[f]]
         /\ cache' = PutDEntry(GetDEntry(cache, files[f]), files[f])
         /\ files' = [files EXCEPT ![f] = NoNode]
  /\ Finish(Shell)
  /\ UNCHANGED <<late, fds, Locks, mounted, starts, full, fault>>

\* Process::Process: the new process starts in the shell's current directory.
StartProcess ==
  /\ Begin(Shell) /\ Free(fsLock)
  /\ cwd["user"] = NoNode /\ starts < MaxStarts
  /\ starts' = starts + 1
  /\ cwd' = [cwd EXCEPT !["user"] = cwd["kernel"]]
  /\ cache' = GetDEntry(cache, cwd["kernel"])
  /\ UNCHANGED <<files, late, fds, Locks, pc, job, mounted, full, fault>>

\* Process::~Process, when the last thread of the process has ended.  Files that
\* are still open stay open for ever.
EndProcess ==
  /\ Running /\ Free(fsLock)
  /\ cwd["user"] # NoNode /\ \A t \in Users : pc[t] = "idle"
  /\ cache' = PutDEntry(cache, cwd["user"])
  /\ cwd' = [cwd EXCEPT !["user"] = NoNode]
  /\ full' = full \cup {fds[s] : s \in {u \in Slots : fds[u] # NoFile}}
  /\ fds' = [s \in Slots |-> NoFile]
  /\ UNCHANGED <<files, late, Locks, pc, job, mounted, starts, fault>>

\* rm of a file that exists: INode::Remove asks for its inode with GetINode,
\* which acquires the file system lock that File::Remove holds.  The shell has
\* opened its current directory for it.
Unlink(n) ==
  /\ Ready(Shell) /\ mounted /\ Free(volLock) /\ Free(fsLock)
  /\ n \in Children(cwd["kernel"])
  /\ Halt("locked twice")
  /\ UNCHANGED <<Memory, fds, cwd, Locks, pc, job, mounted, starts, full>>

\* The shell ends: PutDEntry(cdir), then 'close' current kernel directory.  Both
\* put the same entry, on which one reference was counted.
PutShellDirectory(from, to) ==
  /\ Running /\ pc[Shell] = from /\ cwd["kernel"] # NoNode /\ Free(fsLock)
  /\ cache' = PutDEntry(cache, cwd["kernel"])
  /\ Goto(Shell, to)
  /\ UNCHANGED <<files, late, fds, Locks, System, job, full, fault>>

SynchronizeAll ==
  /\ Running /\ pc[Shell] = "synchronize" /\ Free(fsLock)
  /\ cache' = WriteINodes(cache)
  /\ Goto(Shell, "clean up")
  /\ UNCHANGED <<files, late, fds, Locks, System, job, full, fault>>

\* FileSystem::Cleanup keeps the file system lock.  ~EXT2 puts the root and
\* flushes the volume, which takes the lock of the volumes, ...
Cleanup ==
  /\ Running /\ pc[Shell] = "clean up" /\ Free(fsLock)
  /\ cache' = PutDEntry(cache, Root)
  /\ fsLock' = Shell
  /\ mounted' = FALSE
  /\ Goto(Shell, "flush")
  /\ UNCHANGED <<files, late, fds, cwd, starts, procLock, volLock, job, full, fault>>

\* ... and ~FileSystem empties the caches.  (It would fail on an entry without
\* inode, but none outlives the walk that made it.)
FlushAndDrop ==
  /\ Running /\ pc[Shell] = "flush" /\ Free(volLock)
  /\ cache' = Drop(cache)
  /\ fsLock' = NoOne
  /\ Goto(Shell, "off")
  /\ UNCHANGED <<files, late, fds, System, procLock, volLock, job, full, fault>>

ShellStep ==
  \/ PutOldDirectory
  \/ GetNewDirectory
  \/ StartProcess
  \/ EndProcess
  \/ \E n \in Nodes : Unlink(n)
  \/ Ready(Shell) /\ PutShellDirectory("idle", "put directory")
  \/ PutShellDirectory("put directory", "synchronize")
  \/ SynchronizeAll
  \/ Cleanup
  \/ FlushAndDrop

\* What a call does after it has begun.
Continue(t) ==
  \/ LockVolumes(t) \/ FindLabel(t) \/ FindUUID(t) \/ OpenFile(t)
  \/ StoreFile(t) \/ CloseBriefly(t) \/ CloseFile(t) \/ ReadOrWrite(t)

Next ==
  \/ \E t \in Threads, r \in Requests :
       SysOpen(t, r) \/ OpenBriefly(t, r, "stat") \/ OpenBriefly(t, r, "cd")
  \/ \E t \in Threads, s \in Slots : SysClose(t, s) \/ GetFileDescriptor(t, s)
  \/ \E t \in Threads : Continue(t)
  \/ ShellStep

Spec == Init /\ [][Next]_vars

-----------------------------------------------------------------------------
(* Properties.                                                             *)

Closed == pc[Shell] \in Closing

\* The pointers to an entry: of the Files, of the entries below it, of the
\* current directories, and FileSystem::Root.
Holders(n) ==
  Cardinality({f \in Files : files[f] = n})
  + Cardinality({m \in Children(n) : Cached(cache, m)})
  + Cardinality({p \in DOMAIN cwd : cwd[p] = n})
  + (IF n = Root THEN 1 ELSE 0)

\* Until the shell ends, ReferenceCount is the number of pointers to an entry,
\* plus one for every time a walk found an entry of this directory in the cache
\* (filesystem.cpp, GetDEntry_nolock): nothing that is still pointed to is
\* freed, and those walks are the only leak.
ReferencesAreExact ==
  ~Closed => \A n \in Nodes : cache.refs[n] = Holders(n) + cache.leaked[n]

\* INode::ReferenceCount is the number of cached entries for the inode, under
\* whichever names, so it stays in memory while one of them is open.
InodesAreCounted == \A i \in INodes :
  cache.users[i] =
    Cardinality({n \in Nodes \ cache.blank : Cached(cache, n) /\ INodeOf[n] = i})

\* The counts in the cache are those of the pointers into it.
CountsAreExact == TypeOK /\ ReferencesAreExact /\ InodesAreCounted

\* No entry or File is used after it was freed, as long as the shell has not
\* begun to shut the system down (which puts one directory twice) and no
\* descriptor is closed while another thread reads through it.
NothingFreedIsUsed == cache.freed => Closed

\* Every File is the business of one descriptor or one call, or was lost when
\* the descriptor table was full or the process ended; no descriptor points to
\* a File that was deleted.
FilesHaveOneOwner == Running =>
  /\ \A s, u \in Slots : fds[s] = fds[u] /\ s # u => fds[s] = NoFile
  /\ \A s \in Slots : fds[s] # NoFile => files[fds[s]] # NoNode /\ fds[s] \notin full
  /\ \A f \in Files : files[f] # NoNode =>
       \/ f \in full
       \/ \E s \in Slots : fds[s] = f
       \/ \E t \in Threads : pc[t] \in {"store", "get new"} /\ job[t].file = f

\* What is changed in an inode reaches the disk before the inode leaves the
\* memory.  Changes made after SynchronizeAll may be lost: Cleanup writes no
\* inode.
NoChangeIsLost == cache.lost # {} => late

\* The owner of the lock that t needs for its next step, NoOne if it can go on
WaitsFor(t) ==
  IF pc[t] \in {"volume", "flush"} THEN volLock
  ELSE IF pc[t] = "idle" \/ (pc[t] = "store" /\ job[t].op = "open") THEN NoOne
  ELSE fsLock

\* Locks are held only in a call, and until the shutdown has begun no call waits
\* for a thread that waits itself: every call can return, whichever locks it
\* takes, and in whatever order.  (Then it need not: a thread in Open that holds
\* the lock of the volumes waits for the file system lock, and Cleanup the other
\* way round.)
CallsCanReturn == Running =>
  /\ \A t \in {procLock, volLock, fsLock} \ {NoOne} : pc[t] # "idle"
  /\ mounted => \A t \in Threads : WaitsFor(t) # NoOne => WaitsFor(WaitsFor(t)) = NoOne

=============================================================================
