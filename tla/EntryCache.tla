----------------------------- MODULE EntryCache -----------------------------
(***************************************************************************)
(* The caches of directory entries and inodes (src/kernel/filesystem.cpp,  *)
(* dentry.cpp, inode.cpp) and the walk along a path (File::Open_nolock),   *)
(* as operators on one record.  All of this code runs under the file       *)
(* system lock, so a call is one step of the modules that use it.          *)
(*                                                                         *)
(* A directory entry is named by its place in the tree on the disk: the    *)
(* cache holds at most one for a parent and a name.  The tree itself never *)
(* changes: INode::Create refuses every name, because Lookup answers -1    *)
(* for a name that is free, and INode::Remove runs into the file system    *)
(* lock (Unlink in FileSystem).                                            *)
(***************************************************************************)
EXTENDS Integers, FiniteSets, Sequences

CONSTANTS
  Nodes,     \* the places of the tree: every file under each of its names
  Root,      \* the root directory
  Parent,    \* the directory a node is in
  Name,      \* its name there
  INodeOf,   \* its inode; two nodes with one inode are hard links
  Dirs,      \* the nodes that are directories
  Bad        \* the inodes that cannot be read from the disk

INodes == {INodeOf[n] : n \in Nodes}

ASSUME EntryCacheAssumption ==
  /\ IsFiniteSet(Nodes)
  /\ Root \in Dirs /\ Dirs \subseteq Nodes
  /\ Parent \in [Nodes \ {Root} -> Dirs]
  \* from every node the way up leads to the root
  /\ \A S \in SUBSET (Nodes \ {Root}) : S # {} => \E n \in S : Parent[n] \notin S
  /\ DOMAIN Name = Nodes \ {Root}
  /\ DOMAIN INodeOf = Nodes
  \* ext2 has no hard links to directories
  /\ \A d \in Dirs, n \in Nodes : INodeOf[n] = INodeOf[d] => n = d
  /\ Bad \subseteq INodes \ {INodeOf[Root]}

\* n and the directories above it, n first
PathUp[n \in Nodes] == IF n = Root THEN <<Root>> ELSE <<n>> \o PathUp[Parent[n]]

Children(n) == {m \in Nodes \ {Root} : Parent[m] = n}

CacheType ==
  [refs    : [Nodes -> Nat],    \* DEntry::ReferenceCount; 0 when not cached
   blank   : SUBSET Nodes,      \* cached entries whose INode is nullptr
   users   : [INodes -> Nat],   \* INode::ReferenceCount; 0 when not cached
   dirty   : SUBSET INodes,     \* INode::Dirty
   changed : SUBSET INodes,     \* history: newer in memory than on the disk
   lost    : SUBSET INodes,     \* history: a change was dropped unwritten
   leaked  : [Nodes -> Nat],    \* history: references nothing will ever put
   freed   : BOOLEAN]           \* an entry or a File was used after it was freed

\* After the mount: the root and its inode.  SetRoot counts one reference, the
\* current directory of the kernel process another.
MountedCache ==
  [refs |-> [n \in Nodes |-> IF n = Root THEN 2 ELSE 0],
   blank |-> {},
   users |-> [i \in INodes |-> IF i = INodeOf[Root] THEN 1 ELSE 0],
   dirty |-> {}, changed |-> {}, lost |-> {},
   leaked |-> [n \in Nodes |-> 0],
   freed |-> FALSE]

Cached(c, n) == c.refs[n] > 0

-----------------------------------------------------------------------------
(* References.                                                             *)

\* once freed memory was used, the rest of the record keeps its value
GetDEntry(c, n) ==
  IF c.freed \/ ~Cached(c, n) THEN [c EXCEPT !.freed = TRUE]
  ELSE [c EXCEPT !.refs[n] = @ + 1]

\* PutINode_nolock on each of the inodes is: the last user of an inode writes it
\* to the disk if it is dirty, and deletes it.
PutINodes(c, is) ==
  LET last == {i \in is : c.users[i] = 1}
  IN  [c EXCEPT
        !.users = [i \in INodes |-> IF i \in is THEN @[i] - 1 ELSE @[i]],
        !.lost = @ \cup ((c.changed \ c.dirty) \cap last),
        !.changed = @ \ last, !.dirty = @ \ last]

\* PutDEntry_nolock.  An entry without references is deleted, and its destructor
\* puts its inode and its parent, which may be deleted in turn.
PutDEntry(c, n) ==
  LET up   == PathUp[n]
      gone == {k \in DOMAIN up : \A j \in 1..k : c.refs[up[j]] = 1}
      dead == {up[k] : k \in gone}
      kept == {up[k] : k \in {Cardinality(gone) + 1} \cap DOMAIN up}
      refs == [m \in Nodes |->
                 IF m \in dead THEN 0 ELSE IF m \in kept THEN c.refs[m] - 1 ELSE c.refs[m]]
  IN  IF c.freed \/ \E m \in kept : ~Cached(c, m) THEN [c EXCEPT !.freed = TRUE]
      ELSE PutINodes([c EXCEPT !.refs = refs, !.blank = @ \ dead],
                     {INodeOf[m] : m \in dead \ c.blank})

\* Mutant of Modify: the inode is not marked.
ModifyClean(c, i) == [c EXCEPT !.changed = @ \cup {i}]

\* Write, Resize and Read (which sets the access time) on an inode
Modify(c, i) == [c EXCEPT !.dirty = @ \cup {i}, !.changed = @ \cup {i}]

\* WriteINode on every dirty inode; Dirty stays set.
WriteINodes(c) == [c EXCEPT !.changed = @ \ c.dirty]

-----------------------------------------------------------------------------
(* The walk.                                                               *)

\* A new entry for n, whose parent reference is the one the walk held on it;
\* GetINode_nolock finds the inode in its cache or reads it.
LoadEntry(c, n) ==
  LET i == INodeOf[n]
  IN  IF c.users[i] = 0 /\ i \in Bad
      THEN [c EXCEPT !.refs[n] = 1, !.blank = @ \cup {n}]
      ELSE [c EXCEPT !.refs[n] = 1, !.users[i] = @ + 1]

\* GetDEntry_nolock(parent, name).  When the entry is in the cache, the walk's
\* reference on the parent is neither put nor handed on.
Lookup(w, name) ==
  LET named == {m \in Children(w.at) : Name[m] = name}
      n == CHOOSE m \in named : TRUE
  IN  IF named = {} \/ w.at \in w.c.blank
      THEN [w EXCEPT !.ok = FALSE]
      ELSE IF Cached(w.c, n)
      THEN [w EXCEPT !.c = [GetDEntry(w.c, n) EXCEPT !.leaked[w.at] = @ + 1],
                     !.at = n]
      ELSE [w EXCEPT !.c = LoadEntry(@, n), !.at = n]

\* Mutant of ParentOf: the child is put without a reference on the parent.
ParentOfUncounted(w) ==
  IF w.at = Root THEN w
  ELSE [w EXCEPT !.c = PutDEntry(@, w.at), !.at = Parent[w.at]]

\* the step ".."
ParentOf(w) ==
  IF w.at = Root THEN w
  ELSE [w EXCEPT !.c = PutDEntry(GetDEntry(@, Parent[w.at]), w.at),
                 !.at = Parent[w.at]]

WalkStep(w, step) ==
  IF ~w.ok \/ w.c.freed \/ step = "." THEN w
  ELSE IF step = ".." THEN ParentOf(w)
  ELSE Lookup(w, step)

\* The loop of Open_nolock, from an entry that is in the cache.  The result holds
\* a reference on the entry the walk ends at.
Walk(c, start, steps) ==
  LET after[k \in 0..Len(steps)] ==
        IF k = 0 THEN [c |-> GetDEntry(c, start), at |-> start, ok |-> TRUE]
        ELSE WalkStep(after[k - 1], steps[k])
      w == after[Len(steps)]
  IN  IF w.ok THEN w ELSE [w EXCEPT !.c = PutDEntry(@, w.at)]

\* ~FileSystem puts every entry until it is gone.  It is the base class's
\* destructor, so the WriteINode it reaches is the base class's too, which
\* writes nothing.
Drop(c) ==
  [c EXCEPT !.refs = [n \in Nodes |-> 0], !.blank = {},
            !.users = [i \in INodes |-> 0], !.dirty = {}, !.changed = {},
            !.lost = @ \cup c.changed]

=============================================================================
