--------------------------- MODULE BufferedVolume ---------------------------
(***************************************************************************)
(* The write-back block cache of a volume (src/kernel/bufferedvolume.cpp)  *)
(* over a partition of a drive (src/kernel/partitionvolume.cpp).  A sector *)
(* is named by its block, the unit of buffering, and its place in the      *)
(* block.  Requests come one at a time, since the file system issues them  *)
(* under its global lock; the loop of access and the drive transfers in it *)
(* are steps, so that a transfer may fail, and the power go, between any   *)
(* two of them.  A request ends where the partition does: access itself    *)
(* ends it at the end of the drive only, but the file systems ask for      *)
(* nothing behind their partition.                                         *)
(***************************************************************************)
EXTENDS Integers, Sequences, FiniteSets, SequencesExt, FiniteSetsExt

CONSTANTS
  PerBuffer,    \* sectorsPerBuffer
  SectorCount,  \* PartitionVolume::sectorCount
  BufferCount,  \* bufferCount
  Values,       \* what a sector may hold
  Junk,         \* what memory fresh from Paging::AllocDMA holds
  Faults        \* which transfers may fail: "read", "write"

ASSUME BufferedVolumeAssumption ==
  /\ PerBuffer \in Nat \ {0}
  /\ SectorCount \in Nat \ {0}
  /\ BufferCount \in Nat \ {0}
  /\ Junk \notin Values
  /\ Faults \subseteq {"read", "write"}

Blocks == 0..((SectorCount - 1) \div PerBuffer)
Offsets == 0..(PerBuffer - 1)
Buffers == 1..BufferCount

\* The part of a block that lies inside the partition.
Present(b) == {o \in Offsets : b * PerBuffer + o < SectorCount}

Sectors == {s \in Blocks \X Offsets : s[2] \in Present(s[1])}

BlockBuffer ==
  [used  : BOOLEAN,
   dirty : BOOLEAN,
   first : Blocks,                        \* FirstSector / sectorsPerBuffer
   data  : [Offsets -> Values \cup {Junk}]]

\* The request in progress: the rest of an access (its next sector, given by
\* block and offset, the sectors left, and for a write the value written to
\* them), or a flush that has come to a buffer.
Idle == [op |-> "idle"]
Access(op, b, o, n, v) ==
  [op |-> op, block |-> b, from |-> o, left |-> n, val |-> v]
FlushFrom(i, ok) == [op |-> "flush", next |-> i, ok |-> ok]

VARIABLES
  disk,     \* the partition's sectors on the medium
  buffers,  \* BufferedVolume::buffers
  lru,      \* the buffers by BlockBuffer::Time, oldest first; those with the
            \* Time they were made with come first, by index
  req,      \* the request in progress
  reply     \* the last answer, as in WriteBackStore

vars == <<disk, buffers, lru, req, reply>>

Requests ==
  {Idle}
  \cup {Access(op, b, o, n, v) : op \in {"read", "write"}, b \in Blocks,
          o \in Offsets, n \in 1..SectorCount, v \in Values \cup {Junk}}
  \cup {FlushFrom(i, ok) : i \in 1..(BufferCount + 1), ok \in BOOLEAN}

TypeOK ==
  /\ disk \in [Sectors -> Values]
  /\ buffers \in [Buffers -> BlockBuffer]
  /\ lru \in [Buffers -> Buffers] /\ IsInjective(lru)
  /\ req \in Requests

FreshBuffer ==
  [used |-> FALSE, dirty |-> FALSE, first |-> 0, data |-> [o \in Offsets |-> Junk]]

Init ==
  /\ disk \in [Sectors -> Values]
  /\ buffers = [i \in Buffers |-> FreshBuffer]
  /\ lru = [i \in Buffers |-> i]
  /\ req = Idle
  /\ reply = <<"none">>

-----------------------------------------------------------------------------
(* PartitionVolume and the drive.                                          *)

\* WriteSectors on a whole block: what may be on the medium after a transfer
\* that succeeds and after one that fails.
Written(b, data) ==
  [s \in Sectors |-> IF s[1] = b THEN data[s[2]] ELSE disk[s]]

PartlyWritten(b, data) ==
  {[s \in Sectors |-> IF s[1] = b /\ s[2] \in S THEN data[s[2]] ELSE disk[s]] :
     S \in SUBSET Present(b)}

\* ReadSectors of a whole block into a buffer that holds data
ReadInto(b, data) ==
  [o \in Offsets |-> IF o \in Present(b) THEN disk[<<b, o>>] ELSE data[o]]

PartlyReadInto(b, data) ==
  {[o \in Offsets |-> IF o \in S THEN disk[<<b, o>>] ELSE data[o]] :
     S \in SUBSET Present(b)}

\* the sectors transferred, for the comparison with sectorsPerBuffer
Whole(b) == Present(b) = Offsets

-----------------------------------------------------------------------------
(* The cache.                                                              *)

\* getContainingBuffer
Containing(b) == {i \in Buffers : buffers[i].used /\ buffers[i].first = b}
Hit(b) == Min(Containing(b))

\* allocateBuffer: an unused buffer, or else the least recently used one
Chosen ==
  LET unused == {i \in Buffers : ~buffers[i].used}
  IN  IF unused # {} THEN Min(unused) ELSE lru[1]

\* the buffer becomes the most recently used one
Touch(i) ==
  LET at == CHOOSE k \in Buffers : lru[k] = i
  IN  [k \in Buffers |-> IF k < at THEN lru[k] ELSE IF k < BufferCount THEN lru[k + 1] ELSE i]

\* flushBuffer(i) on a dirty buffer, in two outcomes: the transfer succeeds, or
\* it fails.  A block that is cut off by the end of the partition is written but
\* counts as failed.
FlushOK(i) ==
  /\ Whole(buffers[i].first)
  /\ disk' = Written(buffers[i].first, buffers[i].data)
  /\ buffers' = [buffers EXCEPT ![i].dirty = FALSE]

\* Mutant of FlushFails: Dirty is reset before the transfer.
FlushFailsClean(i) ==
  /\ "write" \in Faults
  /\ disk' \in PartlyWritten(buffers[i].first, buffers[i].data)
  /\ buffers' = [buffers EXCEPT ![i].dirty = FALSE]

FlushFails(i) ==
  /\ \/ /\ "write" \in Faults
        /\ disk' \in PartlyWritten(buffers[i].first, buffers[i].data)
     \/ /\ ~Whole(buffers[i].first)
        /\ disk' = Written(buffers[i].first, buffers[i].data)
  /\ UNCHANGED buffers

-----------------------------------------------------------------------------
(* Requests.                                                               *)

\* Read or Write of n sectors inside the partition
Begin(b, o, n) ==
  /\ req = Idle
  /\ o \in Present(b) /\ b * PerBuffer + o + n <= SectorCount
  /\ \/ req' = Access("read", b, o, n, Junk)
     \/ \E v \in Values : req' = Access("write", b, o, n, v)
  /\ reply' = <<"none">>
  /\ UNCHANGED <<disk, buffers, lru>>

InAccess == req.op \in {"read", "write"}
Missing == InAccess /\ Containing(req.block) = {}

Fail == req' = Idle /\ reply' = <<"failed">>

\* allocateBuffer has to make room: the victim is written back, or else the
\* request fails with ENOMEM.
Evict ==
  /\ Missing /\ buffers[Chosen].dirty
  /\ \/ FlushOK(Chosen) /\ UNCHANGED <<req, reply>>
     \/ FlushFails(Chosen) /\ Fail
  /\ UNCHANGED lru

\* loadBuffer; when the transfer fails, the buffer stays in use under the
\* FirstSector it had, and the request fails with EIO.
Load ==
  /\ Missing /\ ~buffers[Chosen].dirty
  /\ LET i == Chosen
     IN \/ /\ buffers' = [buffers EXCEPT
                  ![i].used = TRUE, ![i].first = req.block,
                  ![i].data = ReadInto(req.block, @)]
           /\ UNCHANGED <<req, reply>>
        \/ /\ "read" \in Faults
           /\ \E data \in PartlyReadInto(req.block, buffers[i].data) :
                buffers' = [buffers EXCEPT ![i].used = TRUE, ![i].data = data]
           /\ Fail
  /\ UNCHANGED <<disk, lru>>

\* the sectors of the request in the block at hand, and what is left then
Chunk == {o \in Offsets : req.from <= o /\ o < req.from + req.left}

Rest ==
  LET left == req.left - Cardinality(Chunk)
  IN  IF left = 0 THEN Idle ELSE Access(req.op, req.block + 1, 0, left, req.val)

\* Mutant of Copy: a write does not make the buffer dirty.
CopyClean(i) ==
  IF req.op = "write"
  THEN /\ buffers' = [buffers EXCEPT
              ![i].data = [o \in Offsets |-> IF o \in Chunk THEN req.val ELSE @[o]]]
       /\ reply' = <<"written", {req.block} \X Chunk, req.val>>
  ELSE /\ reply' = <<"read", [s \in {req.block} \X Chunk |-> buffers[i].data[s[2]]]>>
       /\ UNCHANGED buffers

Copy(i) ==
  IF req.op = "write"
  THEN /\ buffers' = [buffers EXCEPT
              ![i].data = [o \in Offsets |-> IF o \in Chunk THEN req.val ELSE @[o]],
              ![i].dirty = TRUE]
       /\ reply' = <<"written", {req.block} \X Chunk, req.val>>
  ELSE /\ reply' = <<"read", [s \in {req.block} \X Chunk |-> buffers[i].data[s[2]]]>>
       /\ UNCHANGED buffers

Transfer ==
  /\ InAccess /\ ~Missing
  /\ Copy(Hit(req.block))
  /\ lru' = Touch(Hit(req.block))
  /\ req' = Rest
  /\ UNCHANGED disk

BeginFlush ==
  /\ req = Idle
  /\ req' = FlushFrom(1, TRUE)
  /\ reply' = <<"none">>
  /\ UNCHANGED <<disk, buffers, lru>>

\* Mutant of FlushNext: a buffer that need not be written counts as failed.
FlushNextStrict ==
  /\ req.op = "flush" /\ req.next <= BufferCount
  /\ LET b == buffers[req.next]
     IN \/ /\ ~b.used \/ ~b.dirty
           /\ req' = FlushFrom(req.next + 1, FALSE)
           /\ UNCHANGED <<disk, buffers>>
        \/ /\ b.used /\ b.dirty
           /\ \/ FlushOK(req.next) /\ req' = FlushFrom(req.next + 1, req.ok)
              \/ FlushFails(req.next) /\ req' = FlushFrom(req.next + 1, FALSE)
  /\ UNCHANGED <<lru, reply>>

\* One turn of the loop in Flush_nolock.
FlushNext ==
  /\ req.op = "flush" /\ req.next <= BufferCount
  /\ LET b == buffers[req.next]
     IN \/ /\ ~b.used \/ ~b.dirty
           /\ req' = FlushFrom(req.next + 1, req.ok)
           /\ UNCHANGED <<disk, buffers>>
        \/ /\ b.used /\ b.dirty
           /\ \/ FlushOK(req.next) /\ req' = FlushFrom(req.next + 1, req.ok)
              \/ FlushFails(req.next) /\ req' = FlushFrom(req.next + 1, FALSE)
  /\ UNCHANGED <<lru, reply>>

FlushReturns ==
  /\ req.op = "flush" /\ req.next > BufferCount
  /\ reply' = IF req.ok THEN <<"flushed">> ELSE <<"failed">>
  /\ req' = Idle
  /\ UNCHANGED <<disk, buffers, lru>>

\* The machine is switched off, or halts, and starts again.
PowerOff ==
  /\ buffers' = [i \in Buffers |-> FreshBuffer]
  /\ lru' = [i \in Buffers |-> i]
  /\ req' = Idle
  /\ reply' = <<"none">>
  /\ UNCHANGED disk

Next ==
  \/ \E b \in Blocks, o \in Offsets, n \in 1..SectorCount : Begin(b, o, n)
  \/ Evict \/ Load \/ Transfer
  \/ BeginFlush \/ FlushNext \/ FlushReturns
  \/ PowerOff

Spec == Init /\ [][Next]_vars

-----------------------------------------------------------------------------
(* Properties.                                                             *)

\* No block is in two buffers: a reader would see either copy, and the older
\* one might be the last to reach the disk.
OneBufferPerBlock == \A i, j \in Buffers :
  buffers[i].used /\ buffers[j].used /\ buffers[i].first = buffers[j].first => i = j

\* A buffer that is not dirty agrees with the medium, so that it may be dropped
\* and refilled for another block (allocateBuffer) without losing a write.
CleanMeansOnDisk == \A i \in Buffers :
  buffers[i].used /\ ~buffers[i].dirty =>
    \A o \in Present(buffers[i].first) : buffers[i].data[o] = disk[<<buffers[i].first, o>>]

\* Any one of the buffers may be lost but the dirty ones, and no block is read from
\* another buffer than the one it was written to.
BuffersAreCoherent == TypeOK /\ OneBufferPerBlock /\ CleanMeansOnDisk

\* As long as reads do not fail, an access or a flush that reports failure has
\* left a write in the cache that is not known to be on the medium, and kept it
\* for another try: no error is reported for nothing, and none loses data.  (A
\* block cut off by the end of the partition is such a write for ever.)
FailureLeavesDirty ==
  [][reply' = <<"failed">> /\ reply # <<"failed">> =>
       \E i \in Buffers : buffers'[i].used /\ buffers'[i].dirty]_vars

\* The comment on Volume::Flush: it "synchronizes buffers with media".  When a
\* flush has just reported success, every sector in a buffer is what is on the
\* medium.
FlushSynchronizes ==
  [][reply' = <<"flushed">> /\ req.op = "flush" =>
       \A i \in Buffers : buffers[i].used =>
         \A o \in Present(buffers[i].first) :
           buffers[i].data[o] = disk[<<buffers[i].first, o>>]]_vars

\* The cache and the partition are a write-back store (WriteBackStore), whose
\* content is the buffered copy of a sector or else the one on the medium.
Content == [s \in Sectors |->
  IF Containing(s[1]) # {} THEN buffers[Hit(s[1])].data[s[2]] ELSE disk[s]]

Store == INSTANCE WriteBackStore WITH content <- Content, stable <- disk

ImplementsWriteBackStore == Store!Spec

=============================================================================
