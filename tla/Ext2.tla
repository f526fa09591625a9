-------------------------------- MODULE Ext2 --------------------------------
(***************************************************************************)
(* How ext2 (src/kernel/ext2.cpp) gives blocks to files: write, Resize,    *)
(* the block map of an inode with its direct, singly and doubly indirect   *)
(* blocks, and the bitmaps and counts of the block groups.  One call works *)
(* at a time, under the lock of all file systems (see FileSystem), but it  *)
(* goes to the disk at every step, and each of these accesses may fail.    *)
(*                                                                         *)
(* Positions and sizes are in blocks.  Left out are the superblock's own   *)
(* count, which nothing reads, i_blocks, the times, and triply indirect    *)
(* blocks, which begin at 64 MB.  Create and Remove never come to change   *)
(* blocks (see FileSystem), so that a file shrinks to nothing, when it is  *)
(* opened with O_TRUNC, or not at all.                                     *)
(*                                                                         *)
(* The first data block is 1 and the boot block is empty, as on the image  *)
(* the project is delivered with: an indirect block 0 reads as zeros.      *)
(***************************************************************************)
EXTENDS Integers, FiniteSets, FiniteSetsExt, Functions

CONSTANTS
  Files,     \* regular files
  Groups,    \* number of block groups
  PerGroup,  \* blocks in a group
  Direct,    \* direct pointers of an inode (12)
  PerBlock,  \* pointers in an indirect block
  Looked,    \* how many of them isBlockZeroed looks at (16 bytes, that is 4)
  Starts,    \* bound: the blocks at which writes begin
  MaxLength, \* bound: the longest write
  MaxCalls,  \* bound: number of calls
  MaxFaults  \* bound: number of accesses that fail

ASSUME Ext2Assumption ==
  /\ IsFiniteSet(Files)
  /\ Groups \in Nat \ {0} /\ PerGroup \in Nat \ {0}
  /\ Direct \in Nat \ {0} /\ PerBlock \in Nat \ {0} /\ Looked \in 1..PerBlock
  /\ Starts \subseteq 0..(Direct + PerBlock * PerBlock)
  /\ MaxLength \in Nat /\ MaxCalls \in Nat /\ MaxFaults \in Nat

Blocks == 1..(Groups * PerGroup)
Slots == 0..(PerBlock - 1)
GroupOf(b) == (b - 1) \div PerGroup
InGroup(g) == {b \in Blocks : GroupOf(b) = g}

\* The first block of each group stands for its bitmaps, inode table, and copies
\* of the descriptors.
Meta == {b \in Blocks : (b - 1) % PerGroup = 0}

\* The map of a file reaches this far (without triply indirect blocks).
Reach == Direct + PerBlock * PerBlock

VARIABLES
  marked,   \* the blocks whose bit is set in a bitmap
  free,     \* bg_free_blocks_count of each group
  table,    \* the pointers in each block that is used as an indirect block
  data,     \* whose data is in a block
  node,     \* the inodes: i_block and i_size
  pc,       \* where the call is
  op,       \* its arguments and variables
  calls,    \* number of calls
  faults,   \* number of accesses that failed
  early,    \* history: an indirect block was freed with pointers in it
  dangling  \* history: the blocks that were freed, or are about to be, while a pointer
            \* to them stayed on the disk

vars == <<marked, free, table, data, node, pc, op, calls, faults, early, dangling>>

Zeros == [s \in Slots |-> 0]
Nobody == "nobody"
Zero == "zero"

NoOp == [call |-> "none", file |-> Nobody, from |-> 0, at |-> 0, end |-> 0,
         until |-> 0, block |-> 0]

TypeOK ==
  /\ marked \subseteq Blocks
  /\ free \in [0..(Groups - 1) -> 0..PerGroup]
  /\ table \in [Blocks -> [Slots -> Blocks \cup {0}]]
  /\ data \in [Blocks -> Files \cup {Nobody, Zero}]
  /\ node \in [Files -> [direct : [0..(Direct - 1) -> Blocks \cup {0}],
                         single : Blocks \cup {0}, double : Blocks \cup {0},
                         size : 0..Reach]]
  /\ pc \in {"idle", "find", "free", "alloc", "root", "leaf", "point", "sweep",
             "sweep root", "undo", "data"}
  /\ op \in [call : {"none", "pad", "write", "truncate"}, file : Files \cup {Nobody},
             from : 0..Reach, at : 0..Reach, end : 0..Reach, until : 0..Reach,
             block : Blocks \cup {0}]
  /\ calls \in 0..MaxCalls /\ faults \in 0..MaxFaults
  /\ early \in BOOLEAN /\ dangling \subseteq Blocks

\* A volume with empty files
Init ==
  /\ marked = Meta
  /\ free = [g \in 0..(Groups - 1) |-> Cardinality(InGroup(g) \ Meta)]
  /\ table = [b \in Blocks |-> Zeros]
  /\ data = [b \in Blocks |-> Nobody]
  /\ node = [f \in Files |-> [direct |-> [i \in 0..(Direct - 1) |-> 0],
                              single |-> 0, double |-> 0, size |-> 0]]
  /\ pc = "idle"
  /\ op = NoOp
  /\ calls = 0 /\ faults = 0
  /\ early = FALSE
  /\ dangling = {}

-----------------------------------------------------------------------------
(* Bitmaps and counts.  An access fails at one of several points, which is *)
(* an argument of the operators; "none" when all goes well.                *)

Fault(points, p) ==
  /\ p \in points \cup {"none"}
  /\ p # "none" => faults < MaxFaults
  /\ faults' = IF p = "none" THEN faults ELSE faults + 1

Space == [marked |-> marked, free |-> free, block |-> 0]

\* Groups that have room: their count is positive and a bit is clear.
Roomy(s) == {g \in DOMAIN s.free : s.free[g] > 0 /\ InGroup(g) \ s.marked # {}}

\* allocBlockInGroup takes the lowest clear bit, ...
TakeIn(s, g) ==
  LET b == Min(InGroup(g) \ s.marked)
  IN  [marked |-> s.marked \cup {b}, free |-> [s.free EXCEPT ![g] = @ - 1], block |-> b]

TakeFirst(s) == IF Roomy(s) = {} THEN [s EXCEPT !.block = 0] ELSE TakeIn(s, Min(Roomy(s)))

\* Mutant of Allocate: the bit of the block is not set.
AllocateUnmarked(s, p) == [TakeFirst(s) EXCEPT !.marked = s.marked]

\* ... and allocBlock tries group after group.  When the bitmap of the first that
\* has room is not read or written it is passed over; when the descriptor is not
\* written, the bit stays set as well.
Allocate(s, p) ==
  IF p \notin {"bitmap", "group"} \/ Roomy(s) = {} THEN TakeFirst(s)
  ELSE LET g == Min(Roomy(s))
           t == IF p = "bitmap" THEN s ELSE TakeIn(s, g)
           rest == Roomy(t) \ {g}
       IN  IF rest = {} THEN [t EXCEPT !.block = 0] ELSE TakeIn(t, Min(rest))

\* Mutant of Release: the count of the group stays as it was.
ReleaseUncounted(s, b) == [s EXCEPT !.marked = @ \ {b}]

\* freeBlock, where the bitmap is read and written; a bit that is clear already
\* is left alone.
Release(s, b) ==
  IF b \notin s.marked THEN s
  ELSE [s EXCEPT !.marked = @ \ {b}, !.free[GroupOf(b)] = @ + 1]

\* Mutant of NewTable: a block that was freed is used when filling it failed.
NewTableKept(s, p) ==
  LET t == Allocate(s, p)
  IN  IF p = "zero" /\ t.block # 0 THEN [Release(t, t.block) EXCEPT !.block = t.block]
      ELSE t

\* a new indirect block, filled with zeros; it is freed when that fails
NewTable(s, p) ==
  LET t == Allocate(s, p)
  IN  IF p = "zero" /\ t.block # 0 THEN [Release(t, t.block) EXCEPT !.block = 0] ELSE t

\* What is in a block that was freed is nobody's.
SetSpace(s) ==
  /\ marked' = s.marked /\ free' = s.free
  /\ data' = [b \in Blocks |-> IF b \in marked \ s.marked THEN Nobody ELSE data[b]]

-----------------------------------------------------------------------------
(* The block map of an inode.                                              *)

IsDirect(n) == n < Direct
IsSingle(n) == Direct <= n /\ n < Direct + PerBlock
IsDouble(n) == Direct + PerBlock <= n

SlotInRoot(n) == (n - Direct - PerBlock) \div PerBlock
Slot(n) == IF IsSingle(n) THEN n - Direct ELSE (n - Direct - PerBlock) % PerBlock

\* The pointers in a block; block 0 is the boot block.
Entries(b) == IF b = 0 THEN Zeros ELSE table[b]

\* the indirect block that holds the pointer to block n
LeafOf(f, n) ==
  IF IsSingle(n) THEN node[f].single ELSE Entries(node[f].double)[SlotInRoot(n)]

\* getINodeBlock
Mapped(f, n) ==
  IF IsDirect(n) THEN node[f].direct[n] ELSE Entries(LeafOf(f, n))[Slot(n)]

\* Every place where an inode, or an indirect block of its, has a pointer
Place == Files \X (0..(Reach + PerBlock + 1))

BlockAt(place) ==
  LET f == place[1]
      k == place[2]
  IN  IF k < Reach THEN Mapped(f, k)
      ELSE IF k = Reach THEN node[f].single
      ELSE IF k = Reach + 1 THEN node[f].double
      ELSE Entries(node[f].double)[k - Reach - 2]

Pointing == {p \in Place : BlockAt(p) # 0}

\* A block is an indirect one in one place and something else in another, which
\* takes a pointer that stayed: what is read as pointers is then what a program has
\* written, and the model ends.
Mixed ==
  \E p \in {p \in Pointing : p[2] >= Reach} :
    \E q \in Pointing \ {p} : BlockAt(p) = BlockAt(q)

Legible == dangling = {} \/ ~Mixed

\* isBlockZeroed reads the first 16 bytes again and again.
IsZeroed(entries) == \A s \in 0..(Looked - 1) : entries[s] = 0

-----------------------------------------------------------------------------
(* write, and Resize to pad a file and to empty it.                        *)

\* the file at hand, and the inode of it
File == op.file
Node == node[op.file]
Truncating == op.call = "truncate"
AtPc(where) == pc = where /\ Legible

\* The size that setSize is given when the block at hand is new
Grown(size) == Min({op.at + 1, size + (op.end - op.at)})

Disk == <<marked, free, table, data>>

Called == calls < MaxCalls /\ calls' = calls + 1 /\ pc' = "find"

Write(f, position, length) ==
  /\ AtPc("idle") /\ position + length <= Reach
  /\ op' = [NoOp EXCEPT !.file = f, !.from = position, !.until = position + length,
              !.call = IF position > node[f].size THEN "pad" ELSE "write",
              !.at = Min({position, node[f].size}),
              !.end = IF position > node[f].size THEN position ELSE position + length]
  /\ Called
  /\ UNCHANGED <<Disk, node, faults, early, dangling>>

Truncate(f) ==
  /\ AtPc("idle") /\ node[f].size > 0
  /\ op' = [NoOp EXCEPT !.call = "truncate", !.file = f, !.end = node[f].size]
  /\ Called
  /\ UNCHANGED <<Disk, node, faults, early, dangling>>

\* The call returns an error.
Fails == pc' = "idle" /\ op' = NoOp

\* The loop over the blocks ends at block n.  Padding that found no space is not
\* an error, and the write goes on behind the hole.
LoopEnds(n) ==
  IF op.call = "pad"
  THEN pc' = "find" /\ op' = [op EXCEPT !.call = "write", !.at = op.from, !.end = op.until,
                                        !.block = 0]
  ELSE /\ pc' = "idle"
       /\ op' = IF Truncating THEN NoOp
                ELSE [op EXCEPT !.at = n, !.end = 0, !.until = 0, !.block = 0]

NextBlock ==
  IF op.at + 1 = op.end THEN LoopEnds(op.at + 1)
  ELSE pc' = "find" /\ op' = [op EXCEPT !.at = @ + 1, !.block = 0]

\* setINodeBlock has come to its end, with the inode n: a new block counts towards
\* the size of the file; truncating goes on, and sets the size when it is done.
SetDone(n) ==
  IF ~Truncating
  THEN /\ node' = [node EXCEPT ![File] = [n EXCEPT !.size = Grown(n.size)]]
       /\ pc' = "data" /\ UNCHANGED op
  ELSE /\ node' = [node EXCEPT ![File] =
                     [n EXCEPT !.size = IF op.at + 1 = op.end THEN 0 ELSE n.size]]
       /\ NextBlock

\* Mutant of SetFails: write does not look either.
SetFailsUnseen(left) ==
  IF Truncating THEN dangling' = dangling \cup left /\ SetDone(Node)
  ELSE pc' = "data" /\ UNCHANGED <<op, node, dangling>>

\* setINodeBlock returns false, and pointers to the blocks left stay on the disk.
\* write frees the new block again; Resize does not look and goes on.
SetFails(left) ==
  /\ dangling' = dangling \cup left
  /\ IF Truncating THEN SetDone(Node) ELSE pc' = "undo" /\ UNCHANGED <<op, node>>

\* The block at hand, if Resize has freed it: its pointer is not cleared.
Uncleared == IF Truncating THEN {op.block} ELSE {}

\* A pointer that cannot be read is taken for a hole.
Find ==
  /\ AtPc("find")
  /\ \E p \in {"none", "pointer"} :
       /\ Fault(IF IsDirect(op.at) THEN {} ELSE {"pointer"}, p)
       /\ LET b == IF p = "none" THEN Mapped(File, op.at) ELSE 0
          IN  IF b = 0 /\ Truncating THEN Fails
              ELSE /\ op' = [op EXCEPT !.block = b]
                   /\ pc' = IF b = 0 THEN "alloc" ELSE IF Truncating THEN "free" ELSE "data"
  /\ UNCHANGED <<calls, Disk, node, early, dangling>>

SetBlock == pc' = IF IsDirect(op.at) THEN "point" ELSE "root"

FreeBlock ==
  /\ AtPc("free")
  /\ \E p \in {"none", "bitmap"} :
       /\ Fault({"bitmap"}, p)
       /\ SetSpace(IF p = "none" THEN Release(Space, op.block) ELSE Space)
  /\ SetBlock
  /\ UNCHANGED <<calls, table, node, op, early, dangling>>

AllocBlock ==
  /\ AtPc("alloc")
  /\ \E p \in {"none", "bitmap", "group"} :
       /\ Fault(IF Roomy(Space) = {} THEN {} ELSE {"bitmap", "group"}, p)
       /\ LET s == Allocate(Space, p)
          IN  /\ SetSpace(s)
              /\ IF s.block = 0 THEN LoopEnds(op.at)
                 ELSE SetBlock /\ op' = [op EXCEPT !.block = s.block]
  /\ UNCHANGED <<calls, table, node, early, dangling>>

NewTableFaults == IF Roomy(Space) = {} THEN {} ELSE {"bitmap", "group", "zero"}

\* the 1st level indirect block, allocated if needed
MakeRoot ==
  /\ AtPc("root")
  /\ LET root == IF IsSingle(op.at) THEN Node.single ELSE Node.double
         next == IF IsSingle(op.at) THEN "point" ELSE "leaf"
     IN  IF root # 0
         THEN pc' = next /\ UNCHANGED <<Disk, node, op, faults, dangling>>
         ELSE \E p \in NewTableFaults \cup {"none"} :
                /\ Fault(NewTableFaults, p)
                /\ LET s == NewTable(Space, p)
                   IN  /\ SetSpace(s)
                       /\ IF s.block = 0
                          THEN SetFails(Uncleared) /\ UNCHANGED table
                          ELSE /\ node' = [node EXCEPT ![File] =
                                             IF IsSingle(op.at) THEN [@ EXCEPT !.single = s.block]
                                             ELSE [@ EXCEPT !.double = s.block]]
                               /\ table' = [table EXCEPT ![s.block] = Zeros]
                               /\ pc' = next /\ UNCHANGED <<op, dangling>>
  /\ UNCHANGED <<calls, early>>

\* the 2nd level indirect block, after its pointer was read
MakeLeaf ==
  /\ AtPc("leaf")
  /\ LET root == Node.double
         slot == SlotInRoot(op.at)
         exists == LeafOf(File, op.at) # 0
         points == IF exists THEN {"pointer"} ELSE NewTableFaults \cup {"pointer", "slot"}
     IN  \E p \in points \cup {"none"} :
           /\ Fault(points, p)
           /\ LET s == IF exists \/ p = "pointer" THEN Space ELSE NewTable(Space, p)
                  made == s.block # 0 /\ p # "slot"
              IN  /\ SetSpace(IF s.block # 0 /\ p = "slot" THEN Release(s, s.block) ELSE s)
                  /\ table' = IF made THEN [table EXCEPT ![s.block] = Zeros,
                                                         ![root][slot] = s.block]
                              ELSE IF s.block # 0 THEN [table EXCEPT ![s.block] = Zeros]
                              ELSE table
                  /\ IF made \/ (exists /\ p = "none")
                     THEN pc' = "point" /\ UNCHANGED <<op, node, dangling>>
                     ELSE SetFails(Uncleared)
  /\ UNCHANGED <<calls, early>>

\* Mutant of Pointer: the pointer to a freed block is left.
PointerLeft == op.block

\* what the pointer is set to
Pointer == IF Truncating THEN 0 ELSE op.block

WritePointer ==
  /\ AtPc("point")
  /\ IF IsDirect(op.at)
     THEN SetDone([Node EXCEPT !.direct[op.at] = Pointer])
          /\ UNCHANGED <<table, faults, dangling>>
     ELSE \E p \in {"none", "pointer"} :
            /\ Fault({"pointer"}, p)
            /\ IF p = "pointer" THEN SetFails(Uncleared) /\ UNCHANGED table
               ELSE /\ table' = [table EXCEPT ![LeafOf(File, op.at)][Slot(op.at)] = Pointer]
                    /\ pc' = "sweep" /\ UNCHANGED <<op, node, dangling>>
  /\ UNCHANGED <<calls, marked, free, data, early>>

\* An indirect block that looks empty is freed.  Its pointer is cleared also when
\* the bitmap cannot be changed, and may stay when the block above it cannot be
\* written.
Swept(b, p) == IF p = "bitmap" THEN Space ELSE Release(Space, b)

Sweep ==
  /\ AtPc("sweep")
  /\ LET leaf == LeafOf(File, op.at)
         goes == IsZeroed(table[leaf])
         points == IF ~goes THEN {}
                   ELSE IF IsSingle(op.at) THEN {"read", "bitmap"} ELSE {"read", "bitmap", "slot"}
     IN  \E p \in points \cup {"none"} :
           /\ Fault(points, p)
           /\ LET freed == goes /\ p # "read"
                  n == IF freed /\ IsSingle(op.at) THEN [Node EXCEPT !.single = 0] ELSE Node
              IN  /\ SetSpace(IF freed THEN Swept(leaf, p) ELSE Space)
                  /\ early' = (early \/ (freed /\ table[leaf] # Zeros))
                  /\ table' = IF ~freed \/ p = "slot" THEN table
                              ELSE IF IsDouble(op.at)
                              THEN [table EXCEPT ![leaf] = Zeros,
                                                 ![Node.double][SlotInRoot(op.at)] = 0]
                              ELSE [table EXCEPT ![leaf] = Zeros]
                  /\ IF p = "slot" THEN SetFails({leaf} \cup ({op.block} \ Uncleared))
                     ELSE /\ IF IsSingle(op.at) THEN SetDone(n)
                             ELSE pc' = "sweep root" /\ UNCHANGED <<node, op>>
                          /\ UNCHANGED dangling
  /\ UNCHANGED calls

SweepRoot ==
  /\ AtPc("sweep root")
  /\ LET root == Node.double
         goes == IsZeroed(table[root])
         points == IF goes THEN {"read", "bitmap"} ELSE {}
     IN  \E p \in points \cup {"none"} :
           /\ Fault(points, p)
           /\ LET freed == goes /\ p # "read"
              IN  /\ SetSpace(IF freed THEN Swept(root, p) ELSE Space)
                  /\ early' = (early \/ (freed /\ table[root] # Zeros))
                  /\ table' = IF freed THEN [table EXCEPT ![root] = Zeros] ELSE table
                  /\ SetDone(IF freed THEN [Node EXCEPT !.double = 0] ELSE Node)
  /\ UNCHANGED <<calls, dangling>>

\* The block could not be put into the map and is freed.
Undo ==
  /\ AtPc("undo")
  /\ \E p \in {"none", "bitmap"} :
       /\ Fault({"bitmap"}, p)
       /\ SetSpace(IF p = "none" THEN Release(Space, op.block) ELSE Space)
  /\ LoopEnds(op.at)
  /\ UNCHANGED <<calls, table, node, early, dangling>>

\* whose data a block gets
Written == IF op.call = "pad" THEN Zero ELSE File

WriteData ==
  /\ AtPc("data")
  /\ \E p \in {"none", "data"} :
       /\ Fault({"data"}, p)
       /\ IF p = "data" THEN Fails /\ UNCHANGED <<data, node>>
          ELSE /\ data' = [data EXCEPT ![op.block] = Written]
               /\ node' = [node EXCEPT ![File].size = Max({@, op.at + 1})]
               /\ NextBlock
  /\ UNCHANGED <<calls, marked, free, table, early, dangling>>

Next ==
  \/ \E f \in Files, position \in Starts, length \in 1..MaxLength :
       Write(f, position, length)
  \/ \E f \in Files : Truncate(f)
  \/ Find \/ FreeBlock \/ AllocBlock \/ MakeRoot \/ MakeLeaf \/ WritePointer
  \/ Sweep \/ SweepRoot \/ Undo \/ WriteData

Spec == Init /\ [][Next]_vars

-----------------------------------------------------------------------------
(* Properties.                                                             *)

InUse == {BlockAt(p) : p \in Pointing}

\* the block a call holds that is not in the map, or is still in it but freed
InHand == IF pc \in {"root", "leaf", "point", "undo"} THEN {op.block} ELSE {}

Sound == faults = 0 /\ ~early

\* None of the file system's own blocks belongs to a file, and no block belongs to
\* two files, or to one in two places, whichever accesses to the disk fail; the
\* second until a block is freed and its pointer is not cleared: Resize frees each
\* block before it takes it out of an indirect block, and does not see that fail.
NoBlockIsShared ==
  /\ InUse \cap Meta = {}
  /\ dangling = {} => Cardinality(InUse) = Cardinality(Pointing)

\* What follows that failure goes no further than the blocks it left: they may be
\* given away again and be in two places, but no other block is, nor is one in the
\* map of a file without its bit.
DamageIsConfined ==
  /\ LET others == {p \in Pointing : BlockAt(p) \notin dangling}
     IN  Cardinality({BlockAt(p) : p \in others}) = Cardinality(others)
  /\ InUse \subseteq marked \cup dangling \cup (IF Truncating THEN InHand ELSE {})

\* A block in the map of a file is marked in its bitmap, so that it is not given
\* away again, with the same exception.
InUseIsMarked ==
  dangling = {} => InUse \subseteq marked \cup (IF Truncating THEN InHand ELSE {})

\* The counts of the groups are those of the bitmaps, whichever accesses fail: a
\* group with a free block is searched, and the count never falls below zero.
CountsAgree == \A g \in DOMAIN free : free[g] = Cardinality(InGroup(g) \ marked)

\* No count or pointer leaves its range.
CountsAreSound == TypeOK /\ CountsAgree

\* When all accesses succeed, every block that is marked is in use or in hand,
\* unless Resize has freed an indirect block after its first pointers only.
NothingLeaks == Sound => marked \subseteq Meta \cup InUse \cup InHand

\* The bitmaps tell what is in use: too much after a failure, too little never.
BitmapsTellUse == InUseIsMarked /\ NothingLeaks

\* Then a file between calls has a block for each of its size, which is what read
\* and Resize expect ("Something went wrong in FSINode::Resize()"), and no more.
NoHoles == Sound /\ pc = "idle" =>
  \A f \in Files, n \in 0..(Reach - 1) : Mapped(f, n) # 0 <=> n < node[f].size

\* Then a file holds what was written to it, and zeros between that: nothing that
\* was another file's.
ContentIsOwn == Sound /\ pc = "idle" =>
  \A f \in Files : \A n \in 0..(node[f].size - 1) :
    Mapped(f, n) # 0 => data[Mapped(f, n)] \in {f, Zero}

\* A file is what its writers made it, from its beginning to its size.
FilesAreWhole == NoHoles /\ ContentIsOwn

\* The blocks that a write reports as written are in the file, with what was
\* written, whichever accesses failed on the way, but for those two exceptions.
WrittenIsKept ==
  pc = "idle" /\ op.call = "write" /\ ~early /\ dangling = {} =>
    \A n \in op.from..(op.at - 1) :
      /\ n < node[op.file].size
      /\ Mapped(op.file, n) # 0 /\ data[Mapped(op.file, n)] = op.file

=============================================================================
