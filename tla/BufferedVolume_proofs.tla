------------------------ MODULE BufferedVolume_proofs ------------------------
(***************************************************************************)
(* The block cache is safe and is a write-back store, for partitions,      *)
(* buffers and transfers of any size, as long as reads do not fail.  The   *)
(* inductive invariant says which buffers may differ from the medium and   *)
(* what the request in progress may rely on; a flush, which goes over the  *)
(* buffers one by one, relates the ones behind it to the success it is     *)
(* going to report.                                                        *)
(***************************************************************************)
EXTENDS BufferedVolume, FiniteSetTheorems, TLAPS

\* Only buffers in use are dirty, and what they hold inside the partition was
\* read or written.
Filled == \A i \in Buffers :
  /\ buffers[i].dirty => buffers[i].used
  /\ buffers[i].used => \A o \in Present(buffers[i].first) : buffers[i].data[o] \in Values

\* What the buffers and the medium tell of each other.
Cached ==
  /\ disk \in [Sectors -> Values]
  /\ buffers \in [Buffers -> BlockBuffer]
  /\ OneBufferPerBlock /\ CleanMeansOnDisk /\ Filled

\* Every buffer has one place in the order of use.
Aged ==
  /\ lru \in [Buffers -> Buffers] /\ IsInjective(lru)
  /\ \A i \in Buffers : \E k \in Buffers : lru[k] = i

\* The rest of an access lies inside the partition.
Inside == InAccess =>
  /\ req.block * PerBuffer + req.from + req.left <= SectorCount
  /\ req.op = "write" => req.val \in Values

\* A flush that is going to report success has left no dirty buffer behind it,
\* and one that is going to report failure has.
FlushKnows == req.op = "flush" =>
  IF req.ok THEN \A i \in Buffers : i < req.next => ~buffers[i].dirty
            ELSE \E i \in Buffers : i < req.next /\ buffers[i].dirty

Asked == req \in Requests /\ Inside /\ FlushKnows

IInv == Cached /\ Aged /\ Asked

-----------------------------------------------------------------------------
(* Arithmetic of blocks, the choice of buffers, and the order of use.      *)

\* A set of numbers has a least one: there is no infinite descent.
LEMMA LeastNatural ==
  ASSUME NEW S \in SUBSET Nat, S # {}
  PROVE  Min(S) \in S /\ \A n \in S : Min(S) <= n
<1> DEFINE R == StrictSubsetOrdering(Nat)
           I == {0..n : n \in S}
<1>1. IsWellFoundedOn(R, FiniteSubsetsOf(Nat))
  BY FS_StrictSubsetOrderingWellFounded
<1>2. I \subseteq FiniteSubsetsOf(Nat) /\ I # {}
  <2>1. ASSUME NEW n \in S
        PROVE  0..n \in FiniteSubsetsOf(Nat)
    <3>1. n \in Int /\ 0 \in Int /\ 0..n \in SUBSET Nat
      OBVIOUS
    <3>2. IsFiniteSet(0..n)
      BY <3>1, FS_Interval
    <3> QED
      BY <3>1, <3>2 DEF FiniteSubsetsOf
  <2> QED
    BY <2>1
<1>3. PICK T \in I : \A U \in I : <<U, T>> \notin R
  <2> HIDE DEF R, I
  <2> QED
    BY <1>1, <1>2, WFMin
<1>4. PICK m \in S : T = 0..m
  OBVIOUS
<1>5. ASSUME NEW n \in S
      PROVE  m <= n
  <2>1. <<0..n, 0..m>> \notin R
    BY <1>3, <1>4
  <2>2. CASE n < m
    <3>1. m \in 0..m /\ m \notin 0..n /\ 0..n \subseteq 0..m
      BY <2>2
    <3> QED
      BY <2>1, <3>1 DEF StrictSubsetOrdering
  <2> QED
    BY <2>2
<1> QED
  BY <1>5 DEF Min

\* A block starts inside the partition if and only if it is one of its blocks.
LEMMA BlockStart ==
  ASSUME NEW b \in Nat
  PROVE  b \in Blocks <=> b * PerBuffer < SectorCount
<1>1. /\ PerBuffer \in Nat /\ PerBuffer > 0
      /\ SectorCount \in Nat /\ SectorCount - 1 \in Nat
  BY BufferedVolumeAssumption
<1> DEFINE q == (SectorCount - 1) \div PerBuffer
<1>2. q \in Nat /\ PerBuffer * q <= SectorCount - 1 /\ SectorCount - 1 < PerBuffer * q + PerBuffer
  <2>1. ASSUME NEW n \in Nat, NEW d \in Nat, d > 0
        PROVE  n \div d \in Nat
    BY <2>1, SMT
  <2>2. ASSUME NEW n \in Nat, NEW d \in Nat, d > 0
        PROVE  d * (n \div d) <= n /\ n < d * (n \div d) + d
    BY <2>2, SMT
  <2> QED
    BY <1>1, <2>1, <2>2
<1>3. Blocks = 0..q
  BY DEF Blocks
<1> HIDE DEF q
<1>4. b <= q => b * PerBuffer <= q * PerBuffer
  BY <1>1, <1>2
<1>5. b > q => b * PerBuffer >= (q + 1) * PerBuffer
  BY <1>1, <1>2
<1>6. (q + 1) * PerBuffer = PerBuffer * q + PerBuffer /\ q * PerBuffer = PerBuffer * q
  BY <1>1, <1>2
<1>7. b * PerBuffer \in Nat /\ q * PerBuffer \in Nat
  BY <1>1, <1>2
<1> QED
  BY <1>1, <1>2, <1>3, <1>4, <1>5, <1>6, <1>7

LEMMA ChosenBuffer ==
  ASSUME Aged
  PROVE  /\ Chosen \in Buffers
         /\ \A i \in Buffers : ~buffers[i].used => ~buffers[Chosen].used
<1> DEFINE unused == {i \in Buffers : ~buffers[i].used}
<1>1. CASE unused = {}
  <2>1. lru[1] \in Buffers
    BY BufferedVolumeAssumption DEF Aged, Buffers
  <2>2. Chosen = lru[1]
    BY <1>1, Zenon DEF Chosen
  <2> QED
    BY <1>1, <2>1, <2>2
<1>2. CASE unused # {}
  <2>1. Min(unused) \in unused
    BY <1>2, LeastNatural, BufferedVolumeAssumption DEF Buffers
  <2> QED
    BY <1>2, <2>1 DEF Chosen
<1> QED
  BY <1>1, <1>2

LEMMA HitBuffer ==
  ASSUME NEW b, Containing(b) # {}
  PROVE  Hit(b) \in Buffers /\ buffers[Hit(b)].used /\ buffers[Hit(b)].first = b
<1>1. Containing(b) \in SUBSET Nat
  BY BufferedVolumeAssumption DEF Containing, Buffers
<1>2. Hit(b) \in Containing(b)
  BY <1>1, LeastNatural DEF Hit
<1> QED
  BY <1>2 DEF Containing

LEMMA TouchKeeps ==
  ASSUME Aged, NEW i \in Buffers
  PROVE  /\ Touch(i) \in [Buffers -> Buffers] /\ IsInjective(Touch(i))
         /\ \A j \in Buffers : \E k \in Buffers : Touch(i)[k] = j
<1> DEFINE at == CHOOSE k \in Buffers : lru[k] = i
           T == [k \in Buffers |-> IF k < at THEN lru[k]
                                   ELSE IF k < BufferCount THEN lru[k + 1] ELSE i]
<1>1. at \in Buffers /\ lru[at] = i
  BY DEF Aged
<1>2. /\ lru \in [Buffers -> Buffers]
      /\ \A j, k \in Buffers : lru[j] = lru[k] => j = k
  BY DEF Aged, IsInjective
<1>3. BufferCount \in Nat /\ Buffers = 1..BufferCount
  BY BufferedVolumeAssumption DEF Buffers
<1>4. Touch(i) = T
  BY Zenon DEF Touch
<1> HIDE DEF at
<1>5. T \in [Buffers -> Buffers]
  BY <1>1, <1>2, <1>3
<1>6. \A j, k \in Buffers : T[j] = T[k] => j = k
  <2> TAKE j, k \in Buffers
  <2>1. j < BufferCount /\ ~(j < at) => j + 1 \in Buffers
    BY <1>3
  <2>2. k < BufferCount /\ ~(k < at) => k + 1 \in Buffers
    BY <1>3
  <2> QED
    BY <1>1, <1>2, <1>3, <2>1, <2>2
<1>7. ASSUME NEW j \in Buffers
      PROVE  \E k \in Buffers : T[k] = j
  <2>1. PICK k \in Buffers : lru[k] = j
    BY DEF Aged
  <2>2. CASE k < at
    BY <2>1, <2>2
  <2>3. CASE k = at
    <3>1. BufferCount \in Buffers /\ ~(BufferCount < at)
      BY <1>1, <1>3
    <3> QED
      BY <1>1, <1>3, <2>1, <2>3, <3>1
  <2>4. CASE k > at
    <3>1. k - 1 \in Buffers /\ ~(k - 1 < at) /\ k - 1 < BufferCount /\ (k - 1) + 1 = k
      BY <1>1, <1>3, <2>4
    <3> QED
      BY <2>1, <3>1
  <2> QED
    BY <1>1, <1>3, <2>2, <2>3, <2>4
<1> HIDE DEF T
<1>8. IsInjective(T)
  BY <1>5, <1>6 DEF IsInjective
<1> QED
  BY <1>4, <1>5, <1>7, <1>8

-----------------------------------------------------------------------------
(* What an access transfers, and what a buffer may hold.                   *)

LEMMA RequestInProgress ==
  ASSUME req \in Requests, InAccess
  PROVE  /\ req = Access(req.op, req.block, req.from, req.left, req.val)
         /\ req.op \in {"read", "write"} /\ req.block \in Blocks /\ req.block \in Nat
         /\ req.from \in Offsets /\ req.from \in Nat /\ req.from < PerBuffer
         /\ req.left \in 1..SectorCount /\ req.left \in Nat /\ req.left > 0
         /\ req.val \in Values \cup {Junk}
<1>1. PICK op \in {"read", "write"}, b \in Blocks, o \in Offsets, n \in 1..SectorCount,
           v \in Values \cup {Junk} : req = Access(op, b, o, n, v)
  BY DEF Requests, InAccess, Idle, FlushFrom
<1>2. /\ req.op = op /\ req.block = b /\ req.from = o /\ req.left = n /\ req.val = v
  BY <1>1 DEF Access
<1> QED
  BY <1>1, <1>2, BufferedVolumeAssumption DEF Blocks, Offsets

\* The sectors that an access transfers to or from the block at hand are inside
\* the partition; it ends there, or goes on at the beginning of the next block.
LEMMA ChunkIsInside ==
  ASSUME Asked, InAccess
  PROVE  /\ Chunk \subseteq Present(req.block)
         /\ \/ Rest = Idle
            \/ \E n \in 1..SectorCount :
                 /\ Rest = Access(req.op, req.block + 1, 0, n, req.val)
                 /\ req.block + 1 \in Blocks /\ 0 \in Offsets
                 /\ (req.block + 1) * PerBuffer + n <= SectorCount
<1> DEFINE b == req.block  o == req.from  n == req.left
           last == IF o + n <= PerBuffer THEN o + n - 1 ELSE PerBuffer - 1
           rest == n - Cardinality(Chunk)
<1>1. /\ b \in Nat /\ o \in Nat /\ o < PerBuffer /\ n \in Nat /\ n > 0
      /\ PerBuffer \in Nat /\ SectorCount \in Nat /\ n <= SectorCount
      /\ b * PerBuffer \in Nat
  BY RequestInProgress, BufferedVolumeAssumption DEF Asked
<1>2. b * PerBuffer + o + n <= SectorCount
  BY DEF Asked, Inside
<1>3. (b + 1) * PerBuffer = b * PerBuffer + PerBuffer
  BY <1>1
<1>4. Chunk = o..last
  BY <1>1 DEF Chunk, Offsets
<1>5. Cardinality(Chunk) = last - o + 1
  <2>1. last \in Int /\ o <= last
    BY <1>1
  <2> HIDE DEF last
  <2>2. Cardinality(o..last) = last - o + 1
    BY <1>1, <2>1, FS_Interval
  <2> QED
    BY <1>4, <2>2
<1>6. Chunk \subseteq Present(b)
  BY <1>1, <1>2 DEF Chunk, Offsets, Present
<1>7. Rest = IF rest = 0 THEN Idle ELSE Access(req.op, b + 1, 0, rest, req.val)
  BY Zenon DEF Rest
<1>8. CASE o + n <= PerBuffer
  BY <1>1, <1>5, <1>6, <1>7, <1>8
<1>9. CASE o + n > PerBuffer
  <2>1. rest = o + n - PerBuffer
    BY <1>1, <1>5, <1>9
  <2>2. rest \in 1..SectorCount /\ rest # 0
    BY <1>1, <1>9, <2>1
  <2>3. (b + 1) * PerBuffer + rest <= SectorCount
    BY <1>1, <1>2, <1>3, <2>1
  <2>4. b + 1 \in Blocks
    BY <1>1, <1>3, <2>2, <2>3, BlockStart
  <2>5. 0 \in Offsets
    BY <1>1 DEF Offsets
  <2>6. Rest = Access(req.op, b + 1, 0, rest, req.val)
    BY <1>7, <2>2, Zenon
  <2> HIDE DEF rest
  <2> QED
    BY <1>6, <2>2, <2>3, <2>4, <2>5, <2>6
<1> QED
  BY <1>1, <1>8, <1>9

LEMMA FlushInProgress ==
  ASSUME req \in Requests, req.op = "flush"
  PROVE  req.next \in 1..(BufferCount + 1) /\ req.ok \in BOOLEAN
<1>1. PICK i \in 1..(BufferCount + 1), ok \in BOOLEAN : req = FlushFrom(i, ok)
  BY DEF Requests, Access, Idle
<1> QED
  BY <1>1 DEF FlushFrom

\* What is asked of a request that comes next.
LEMMA NextIdle ==
  ASSUME req' = Idle
  PROVE  Asked'
BY DEF Asked, Requests, Idle, Inside, InAccess, FlushKnows

LEMMA NextAccess ==
  ASSUME NEW op \in {"read", "write"}, NEW b \in Blocks, NEW o \in Offsets,
         NEW n \in 1..SectorCount, NEW v \in Values \cup {Junk},
         b * PerBuffer + o + n <= SectorCount, op = "write" => v \in Values,
         req' = Access(op, b, o, n, v)
  PROVE  Asked'
<1>1. req' \in Requests
  BY DEF Requests
<1>2. /\ req'.op = op /\ req'.block = b /\ req'.from = o /\ req'.left = n /\ req'.val = v
  BY DEF Access
<1> QED
  BY <1>1, <1>2 DEF Asked, Inside, InAccess, FlushKnows

LEMMA NextFlush ==
  ASSUME NEW i \in 1..(BufferCount + 1), NEW ok \in BOOLEAN, req' = FlushFrom(i, ok),
         IF ok THEN \A j \in Buffers : j < i => ~buffers'[j].dirty
               ELSE \E j \in Buffers : j < i /\ buffers'[j].dirty
  PROVE  Asked'
<1>1. req' \in Requests
  BY DEF Requests
<1>2. req'.op = "flush" /\ req'.next = i /\ req'.ok = ok
  BY DEF FlushFrom
<1> QED
  BY <1>1, <1>2 DEF Asked, Inside, InAccess, FlushKnows

LEMMA SectorOfBlock ==
  /\ \A b \in Blocks : \A o \in Present(b) : <<b, o>> \in Sectors
  /\ \A s \in Sectors : s = <<s[1], s[2]>> /\ s[1] \in Blocks /\ s[2] \in Present(s[1])
BY DEF Sectors, Present

LEMMA BufferFields ==
  ASSUME buffers \in [Buffers -> BlockBuffer], NEW i \in Buffers
  PROVE  /\ buffers[i].used \in BOOLEAN /\ buffers[i].dirty \in BOOLEAN
         /\ buffers[i].first \in Blocks
         /\ buffers[i].data \in [Offsets -> Values \cup {Junk}]
BY DEF BlockBuffer

-----------------------------------------------------------------------------
(* Steps on one buffer keep the buffers coherent.                          *)

\* A block that is written back is on the medium, and the buffer clean.
LEMMA FlushOKKeeps ==
  ASSUME Cached, NEW i \in Buffers, buffers[i].dirty, FlushOK(i)
  PROVE  /\ Cached'
         /\ \A j \in Buffers : buffers'[j] = IF j = i THEN [buffers[i] EXCEPT !.dirty = FALSE]
                                                      ELSE buffers[j]
<1> DEFINE b == buffers[i].first  data == buffers[i].data
<1>1. /\ disk \in [Sectors -> Values] /\ buffers \in [Buffers -> BlockBuffer]
      /\ OneBufferPerBlock /\ CleanMeansOnDisk /\ Filled
  BY Zenon DEF Cached
<1>2. disk' = [s \in Sectors |-> IF s[1] = b THEN data[s[2]] ELSE disk[s]]
  BY Zenon DEF FlushOK, Written
<1>3. buffers' = [buffers EXCEPT ![i].dirty = FALSE]
  BY Zenon DEF FlushOK
<1>4. \A j \in Buffers : buffers'[j] = IF j = i THEN [buffers[i] EXCEPT !.dirty = FALSE]
                                               ELSE buffers[j]
  BY <1>1, <1>3
<1>5. \A j \in Buffers :
        /\ buffers'[j].used = buffers[j].used /\ buffers'[j].first = buffers[j].first
        /\ buffers'[j].data = buffers[j].data
        /\ j # i => buffers'[j].dirty = buffers[j].dirty
        /\ j = i => buffers'[j].dirty = FALSE
  BY <1>1, <1>4 DEF BlockBuffer
<1>6. buffers' \in [Buffers -> BlockBuffer]
  BY <1>1, <1>3, BufferFields DEF BlockBuffer
<1>7. \A o \in Present(b) : data[o] \in Values
  BY <1>1 DEF Filled
<1>8. disk' \in [Sectors -> Values]
  BY <1>1, <1>2, <1>7, SectorOfBlock
<1>9. OneBufferPerBlock'
  BY <1>1, <1>5 DEF OneBufferPerBlock
<1>10. CleanMeansOnDisk'
  <2> SUFFICES ASSUME NEW j \in Buffers, buffers'[j].used, ~buffers'[j].dirty,
                      NEW o \in Present(buffers'[j].first)
               PROVE  buffers'[j].data[o] = disk'[<<buffers'[j].first, o>>]
    BY Zenon DEF CleanMeansOnDisk
  <2>1. <<buffers[j].first, o>> \in Sectors
    BY <1>1, <1>5, BufferFields, SectorOfBlock
  <2>2. CASE j = i
    BY <1>2, <1>5, <2>1, <2>2
  <2>3. CASE j # i
    <3>1. buffers[j].first # b
      BY <1>1, <1>5, <2>3 DEF OneBufferPerBlock, Filled
    <3> QED
      <4>1. disk'[<<buffers[j].first, o>>] = disk[<<buffers[j].first, o>>]
        BY <1>2, <2>1, <3>1
      <4>2. buffers[j].used /\ ~buffers[j].dirty /\ o \in Present(buffers[j].first)
        BY <1>5, <2>3
      <4> QED
        BY <1>1, <1>5, <4>1, <4>2 DEF CleanMeansOnDisk
  <2> QED
    BY <2>2, <2>3
<1>11. Filled'
  BY <1>1, <1>5 DEF Filled
<1> QED
  BY <1>4, <1>6, <1>8, <1>9, <1>10, <1>11 DEF Cached

\* A transfer of a buffer to the medium, whether it succeeds or not, replaces
\* sectors of its block and no others, by what the buffer holds.
LEMMA FlushTransfers ==
  ASSUME Cached, NEW i \in Buffers, buffers[i].dirty, FlushOK(i) \/ FlushFails(i)
  PROVE  /\ disk' \in [Sectors -> Values]
         /\ \A s \in Sectors :
              \/ disk'[s] = disk[s]
              \/ s[1] = buffers[i].first /\ disk'[s] = buffers[i].data[s[2]]
<1> DEFINE b == buffers[i].first  data == buffers[i].data
<1>1. /\ disk \in [Sectors -> Values]
      /\ \A o \in Present(b) : data[o] \in Values
  BY DEF Cached, Filled
<1>2. CASE disk' = Written(b, data)
  BY <1>1, <1>2, SectorOfBlock DEF Written
<1>3. CASE disk' \in PartlyWritten(b, data)
  <2>1. PICK S \in SUBSET Present(b) :
          disk' = [s \in Sectors |-> IF s[1] = b /\ s[2] \in S THEN data[s[2]] ELSE disk[s]]
    BY <1>3 DEF PartlyWritten
  <2> QED
    BY <1>1, <2>1, SectorOfBlock
<1> QED
  BY <1>2, <1>3, Zenon DEF FlushOK, FlushFails

\* A block that could not be written back stays in its buffer, dirty.
LEMMA FlushFailsKeeps ==
  ASSUME Cached, NEW i \in Buffers, buffers[i].dirty, FlushFails(i)
  PROVE  Cached' /\ buffers' = buffers
<1>1. buffers' = buffers
  BY Zenon DEF FlushFails
<1>2. /\ disk' \in [Sectors -> Values]
      /\ \A s \in Sectors : disk'[s] = disk[s] \/ s[1] = buffers[i].first
  BY FlushTransfers
<1>3. /\ buffers \in [Buffers -> BlockBuffer]
      /\ OneBufferPerBlock /\ CleanMeansOnDisk /\ Filled
  BY Zenon DEF Cached
<1>4. CleanMeansOnDisk'
  <2> SUFFICES ASSUME NEW j \in Buffers, buffers[j].used, ~buffers[j].dirty,
                      NEW o \in Present(buffers[j].first)
               PROVE  buffers[j].data[o] = disk'[<<buffers[j].first, o>>]
    BY <1>1, Zenon DEF CleanMeansOnDisk
  <2>1. <<buffers[j].first, o>> \in Sectors
    BY <1>3, BufferFields, SectorOfBlock
  <2>2. buffers[j].first # buffers[i].first
    BY <1>3 DEF OneBufferPerBlock, Filled
  <2>3. disk'[<<buffers[j].first, o>>] = disk[<<buffers[j].first, o>>]
    BY <1>2, <2>1, <2>2
  <2> QED
    BY <1>3, <2>3 DEF CleanMeansOnDisk
<1>5. OneBufferPerBlock' /\ Filled'
  BY <1>1, <1>3 DEF OneBufferPerBlock, Filled
<1> QED
  BY <1>1, <1>2, <1>3, <1>4, <1>5 DEF Cached

\* A clean buffer may be given to a block that no buffer holds.
LEMMA RefillKeeps ==
  ASSUME Cached, NEW i \in Buffers, ~buffers[i].dirty, NEW b \in Blocks, Containing(b) = {},
         buffers' = [buffers EXCEPT ![i].used = TRUE, ![i].first = b,
                                    ![i].data = ReadInto(b, @)],
         disk' = disk
  PROVE  Cached'
<1>1. /\ disk \in [Sectors -> Values] /\ buffers \in [Buffers -> BlockBuffer]
      /\ OneBufferPerBlock /\ CleanMeansOnDisk /\ Filled
  BY Zenon DEF Cached
<1> DEFINE data == ReadInto(b, buffers[i].data)
<1>2. /\ data \in [Offsets -> Values \cup {Junk}]
      /\ \A o \in Present(b) : data[o] = disk[<<b, o>>] /\ data[o] \in Values
  BY <1>1, BufferFields, SectorOfBlock DEF ReadInto, Present
<1> HIDE DEF data
<1>3. \A j \in Buffers : j # i => buffers'[j] = buffers[j]
  BY <1>1
<1> DEFINE new == [used |-> TRUE, dirty |-> FALSE, first |-> b, data |-> data]
<1>4. buffers'[i] = new
  BY <1>1, BufferFields DEF BlockBuffer, data
<1>5. /\ buffers'[i].used = TRUE /\ buffers'[i].dirty = FALSE
      /\ buffers'[i].first = b /\ buffers'[i].data = data
  <2>1. new.used = TRUE /\ new.dirty = FALSE /\ new.first = b /\ new.data = data
    BY Zenon
  <2> QED
    BY <1>4, <2>1, Zenon
<1>6. buffers' \in [Buffers -> BlockBuffer]
  <2>1. new \in BlockBuffer
    <3>1. TRUE \in BOOLEAN /\ FALSE \in BOOLEAN
      OBVIOUS
    <3> QED
      BY <1>2, <3>1, Zenon DEF BlockBuffer
  <2>2. buffers' = [j \in Buffers |-> buffers'[j]]
    BY <1>1
  <2> QED
    BY <1>1, <1>3, <1>4, <2>1, <2>2
<1>7. \A j \in Buffers : buffers[j].used => buffers[j].first # b
  BY DEF Containing
<1> HIDE DEF new
<1>8. OneBufferPerBlock'
  BY <1>1, <1>3, <1>5, <1>7 DEF OneBufferPerBlock
<1>9. CleanMeansOnDisk'
  BY <1>1, <1>2, <1>3, <1>5 DEF CleanMeansOnDisk
<1>10. Filled'
  BY <1>1, <1>2, <1>3, <1>5 DEF Filled
<1> QED
  BY <1>1, <1>6, <1>8, <1>9, <1>10 DEF Cached

\* A write goes to one buffer and makes it dirty; a read changes none.
LEMMA CopyKeeps ==
  ASSUME Cached, Asked, NEW i \in Buffers, InAccess, buffers[i].used, Copy(i), disk' = disk
  PROVE  /\ Cached'
         /\ req.op = "read" => buffers' = buffers
         /\ \A j \in Buffers : j # i => buffers'[j] = buffers[j]
         /\ req.op = "write" =>
              buffers'[i] = [used |-> TRUE, dirty |-> TRUE, first |-> buffers[i].first,
                             data |-> [o \in Offsets |-> IF o \in Chunk THEN req.val
                                                         ELSE buffers[i].data[o]]]
<1>1. /\ disk \in [Sectors -> Values] /\ buffers \in [Buffers -> BlockBuffer]
      /\ OneBufferPerBlock /\ CleanMeansOnDisk /\ Filled
  BY Zenon DEF Cached
<1>2. CASE req.op = "read"
  <2>1. buffers' = buffers
    BY <1>2 DEF Copy
  <2>2. OneBufferPerBlock' /\ CleanMeansOnDisk' /\ Filled'
    BY <1>1, <2>1 DEF OneBufferPerBlock, CleanMeansOnDisk, Filled
  <2> QED
    BY <1>1, <1>2, <2>1, <2>2 DEF Cached
<1>3. CASE req.op = "write"
  <2> DEFINE data == [o \in Offsets |-> IF o \in Chunk THEN req.val ELSE buffers[i].data[o]]
  <2>1. buffers' = [buffers EXCEPT
           ![i].data = [o \in Offsets |-> IF o \in Chunk THEN req.val ELSE @[o]],
           ![i].dirty = TRUE]
    BY <1>3, Zenon DEF Copy
  <2>2. req.val \in Values
    BY <1>3 DEF Asked, Inside
  <2>3. /\ data \in [Offsets -> Values \cup {Junk}]
        /\ \A o \in Present(buffers[i].first) : data[o] \in Values
    BY <1>1, <2>2, BufferFields DEF Filled, Present
  <2>4. /\ \A j \in Buffers : j # i => buffers'[j] = buffers[j]
        /\ buffers'[i] = [used |-> TRUE, dirty |-> TRUE, first |-> buffers[i].first,
                          data |-> data]
    BY <1>1, <2>1, BufferFields DEF BlockBuffer
  <2> HIDE DEF data
  <2>5. /\ buffers'[i].used /\ buffers'[i].dirty
        /\ buffers'[i].first = buffers[i].first /\ buffers'[i].data = data
    BY <2>4
  <2>6. buffers' \in [Buffers -> BlockBuffer]
    <3>1. buffers'[i] \in BlockBuffer
      BY <1>1, <2>3, <2>4, BufferFields DEF BlockBuffer
    <3>2. buffers' = [j \in Buffers |-> buffers'[j]]
      BY <1>1, <2>1
    <3> QED
      BY <1>1, <2>4, <3>1, <3>2
  <2>7. OneBufferPerBlock' /\ CleanMeansOnDisk' /\ Filled'
    BY <1>1, <2>3, <2>4, <2>5 DEF OneBufferPerBlock, CleanMeansOnDisk, Filled
  <2> QED
    BY <1>1, <1>3, <2>4, <2>6, <2>7 DEF Cached, data
<1> QED
  BY <1>2, <1>3 DEF InAccess

-----------------------------------------------------------------------------
(* The inductive invariant.                                                *)

LEMMA FreshIsBuffer ==
  FreshBuffer.used = FALSE /\ FreshBuffer.dirty = FALSE /\ FreshBuffer \in BlockBuffer
<1>1. FreshBuffer.used = FALSE /\ FreshBuffer.dirty = FALSE
  BY DEF FreshBuffer
<1>2. 0 \in Blocks
  BY BlockStart, BufferedVolumeAssumption
<1> QED
  BY <1>1, <1>2 DEF FreshBuffer, BlockBuffer

LEMMA InvariantInit == Init => IInv
<1> SUFFICES ASSUME Init
             PROVE  IInv
  OBVIOUS
<1>1. /\ disk \in [Sectors -> Values] /\ req = Idle
      /\ buffers = [i \in Buffers |-> FreshBuffer] /\ lru = [i \in Buffers |-> i]
  BY Zenon DEF Init
<1>2. buffers \in [Buffers -> BlockBuffer]
  BY <1>1, FreshIsBuffer
<1>3. \A i \in Buffers : ~buffers[i].used /\ ~buffers[i].dirty
  BY <1>1, FreshIsBuffer
<1>4. Cached
  BY <1>1, <1>2, <1>3 DEF Cached, OneBufferPerBlock, CleanMeansOnDisk, Filled
<1>5. Aged
  BY <1>1 DEF Aged, IsInjective
<1>6. Asked
  BY <1>1 DEF Asked, Requests, Idle, Inside, InAccess, FlushKnows
<1> QED
  BY <1>4, <1>5, <1>6 DEF IInv

LEMMA BeginKeeps ==
  ASSUME IInv, NEW b \in Blocks, NEW o \in Offsets, NEW n \in 1..SectorCount, Begin(b, o, n)
  PROVE  IInv'
<1>1. UNCHANGED <<disk, buffers, lru>> /\ b * PerBuffer + o + n <= SectorCount
  BY Zenon DEF Begin
<1>2. Cached' /\ Aged'
  BY <1>1 DEF IInv, Cached, OneBufferPerBlock, CleanMeansOnDisk, Filled, Aged
<1>3. CASE req' = Access("read", b, o, n, Junk)
  <2>1. "read" \in {"read", "write"} /\ "read" # "write" /\ Junk \in Values \cup {Junk}
    OBVIOUS
  <2> QED
    BY <1>1, <1>2, <1>3, <2>1, NextAccess DEF IInv
<1>4. ASSUME NEW v \in Values, req' = Access("write", b, o, n, v)
      PROVE  Asked'
  BY <1>1, <1>4, NextAccess
<1> QED
  BY <1>2, <1>3, <1>4 DEF Begin, IInv

LEMMA EvictKeeps ==
  ASSUME IInv, Evict
  PROVE  IInv'
<1>1. Cached /\ Aged /\ Asked /\ InAccess /\ Chosen \in Buffers /\ buffers[Chosen].dirty
  BY ChosenBuffer DEF IInv, Evict, Missing
<1>2. Aged'
  BY <1>1 DEF Evict, Aged
<1>3. CASE FlushOK(Chosen) /\ UNCHANGED <<req, reply>>
  <2>1. Asked'
    BY <1>1, <1>3 DEF Asked, Inside, InAccess, FlushKnows
  <2> QED
    BY <1>1, <1>2, <1>3, <2>1, FlushOKKeeps DEF IInv
<1>4. CASE FlushFails(Chosen) /\ Fail
  BY <1>1, <1>2, <1>4, FlushFailsKeeps, NextIdle DEF IInv, Fail
<1> QED
  BY <1>3, <1>4, Zenon DEF Evict

LEMMA LoadKeeps ==
  ASSUME IInv, Load, "read" \notin Faults
  PROVE  IInv'
<1>1. Cached /\ Aged /\ Asked /\ InAccess /\ Chosen \in Buffers /\ ~buffers[Chosen].dirty
      /\ Containing(req.block) = {}
  BY ChosenBuffer DEF IInv, Load, Missing
<1>2. /\ buffers' = [buffers EXCEPT ![Chosen].used = TRUE, ![Chosen].first = req.block,
                                    ![Chosen].data = ReadInto(req.block, @)]
      /\ UNCHANGED <<req, disk, lru>>
  BY DEF Load
<1>3. req.block \in Blocks
  BY <1>1, RequestInProgress DEF Asked
<1>4. Cached'
  BY <1>1, <1>2, <1>3, RefillKeeps
<1>5. Aged' /\ Asked'
  BY <1>1, <1>2 DEF Aged, Asked, Inside, InAccess, FlushKnows
<1> QED
  BY <1>4, <1>5 DEF IInv

LEMMA TransferKeeps ==
  ASSUME IInv, Transfer
  PROVE  IInv'
<1> DEFINE i == Hit(req.block)
<1>1. /\ Cached /\ Aged /\ Asked /\ InAccess /\ Containing(req.block) # {}
      /\ Copy(i) /\ lru' = Touch(i) /\ req' = Rest /\ disk' = disk
  BY Zenon DEF IInv, Transfer, Missing
<1>2. i \in Buffers /\ buffers[i].used
  BY <1>1, HitBuffer
<1>3. Cached'
  BY <1>1, <1>2, CopyKeeps
<1>4. Aged'
  BY <1>1, <1>2, TouchKeeps DEF Aged
<1>5. Asked'
  <2>1. CASE Rest = Idle
    BY <1>1, <2>1, NextIdle
  <2>2. ASSUME NEW n \in 1..SectorCount,
               Rest = Access(req.op, req.block + 1, 0, n, req.val),
               req.block + 1 \in Blocks, 0 \in Offsets,
               (req.block + 1) * PerBuffer + n <= SectorCount
        PROVE  Asked'
    <3>1. /\ req.op \in {"read", "write"} /\ req.val \in Values \cup {Junk}
          /\ req.op = "write" => req.val \in Values
      BY <1>1, RequestInProgress DEF Asked, Inside
    <3>2. (req.block + 1) * PerBuffer + 0 + n <= SectorCount
      <4>1. req.block + 1 \in Nat /\ PerBuffer \in Nat
        BY <1>1, RequestInProgress, BufferedVolumeAssumption DEF Asked
      <4>2. (req.block + 1) * PerBuffer \in Nat
        BY <4>1
      <4> QED
        BY <2>2, <4>2
    <3> QED
      BY <1>1, <2>2, <3>1, <3>2, NextAccess
  <2> QED
    BY <1>1, <2>1, <2>2, ChunkIsInside
<1> QED
  BY <1>3, <1>4, <1>5 DEF IInv

LEMMA FlushNextKeeps ==
  ASSUME IInv, FlushNext
  PROVE  IInv'
<1> DEFINE i == req.next
<1>1. /\ Cached /\ Aged /\ Asked /\ req.op = "flush" /\ i <= BufferCount /\ lru' = lru
  BY Zenon DEF IInv, FlushNext
<1>2. /\ i \in Nat /\ i \in Buffers /\ i + 1 \in 1..(BufferCount + 1) /\ req.ok \in BOOLEAN
      /\ \A j \in Buffers : j < i + 1 <=> j < i \/ j = i
  BY <1>1, FlushInProgress, BufferedVolumeAssumption DEF Asked, Buffers
<1>3. IF req.ok THEN \A j \in Buffers : j < i => ~buffers[j].dirty
                ELSE \E j \in Buffers : j < i /\ buffers[j].dirty
  BY <1>1, Zenon DEF Asked, FlushKnows
<1>4. Aged'
  BY <1>1 DEF Aged
<1>5. CASE ~buffers[i].used \/ ~buffers[i].dirty
  <2>1. req' = FlushFrom(i + 1, req.ok) /\ UNCHANGED <<disk, buffers>>
    BY <1>5 DEF FlushNext
  <2>2. ~buffers[i].dirty
    BY <1>1, <1>2, <1>5 DEF Cached, Filled
  <2>3. Cached'
    BY <1>1, <2>1 DEF Cached, OneBufferPerBlock, CleanMeansOnDisk, Filled
  <2>4. Asked'
    BY <1>2, <1>3, <2>1, <2>2, NextFlush
  <2> QED
    BY <1>4, <2>3, <2>4 DEF IInv
<1>6. CASE buffers[i].dirty /\ FlushOK(i) /\ req' = FlushFrom(i + 1, req.ok)
  <2>1. /\ Cached'
        /\ \A j \in Buffers : buffers'[j] = IF j = i THEN [buffers[i] EXCEPT !.dirty = FALSE]
                                                     ELSE buffers[j]
    BY <1>1, <1>2, <1>6, FlushOKKeeps
  <2>2. ~buffers'[i].dirty /\ \A j \in Buffers : j # i => buffers'[j] = buffers[j]
    BY <1>1, <1>2, <2>1 DEF Cached, BlockBuffer
  <2>3. \A j \in Buffers : j < i => j # i
    BY <1>2 DEF Buffers
  <2>4. Asked'
    BY <1>2, <1>3, <1>6, <2>2, <2>3, NextFlush
  <2> QED
    BY <1>4, <2>1, <2>4 DEF IInv
<1>7. CASE buffers[i].dirty /\ FlushFails(i) /\ req' = FlushFrom(i + 1, FALSE)
  <2>1. Cached' /\ buffers' = buffers
    BY <1>1, <1>2, <1>7, FlushFailsKeeps
  <2>2. i < i + 1 /\ FALSE \in BOOLEAN
    BY <1>2
  <2>3. Asked'
    BY <1>2, <1>7, <2>1, <2>2, NextFlush
  <2> QED
    BY <1>4, <2>1, <2>3 DEF IInv
<1> QED
  BY <1>5, <1>6, <1>7, Zenon DEF FlushNext

LEMMA RestKeeps ==
  ASSUME IInv, BeginFlush \/ FlushReturns \/ PowerOff \/ UNCHANGED vars
  PROVE  IInv'
<1>1. CASE BeginFlush
  <2>1. UNCHANGED <<disk, buffers, lru>> /\ req' = FlushFrom(1, TRUE)
    BY <1>1 DEF BeginFlush
  <2>2. 1 \in 1..(BufferCount + 1) /\ \A j \in Buffers : ~(j < 1)
    BY BufferedVolumeAssumption DEF Buffers
  <2>3. Asked'
    BY <2>1, <2>2, NextFlush
  <2> QED
    BY <2>1, <2>3 DEF IInv, Cached, OneBufferPerBlock, CleanMeansOnDisk, Filled, Aged
<1>2. CASE FlushReturns
  <2>1. UNCHANGED <<disk, buffers, lru>> /\ req' = Idle
    BY <1>2 DEF FlushReturns
  <2> QED
    BY <2>1, NextIdle DEF IInv, Cached, OneBufferPerBlock, CleanMeansOnDisk, Filled, Aged
<1>3. CASE PowerOff
  <2>1. /\ disk \in [Sectors -> Values] /\ disk' = disk /\ req' = Idle
        /\ buffers' = [i \in Buffers |-> FreshBuffer] /\ lru' = [i \in Buffers |-> i]
    BY <1>3 DEF IInv, Cached, PowerOff
  <2>2. /\ buffers' \in [Buffers -> BlockBuffer]
        /\ \A i \in Buffers : ~buffers'[i].used /\ ~buffers'[i].dirty
    BY <2>1, FreshIsBuffer
  <2>3. Cached'
    BY <2>1, <2>2 DEF Cached, OneBufferPerBlock, CleanMeansOnDisk, Filled
  <2>4. Aged'
    BY <2>1 DEF Aged, IsInjective
  <2> QED
    BY <2>1, <2>3, <2>4, NextIdle DEF IInv
<1>4. CASE UNCHANGED vars
  BY <1>4 DEF vars, IInv, Cached, OneBufferPerBlock, CleanMeansOnDisk, Filled, Aged,
              Asked, Inside, InAccess, FlushKnows
<1> QED
  BY <1>1, <1>2, <1>3, <1>4

LEMMA InvariantStep ==
  ASSUME "read" \notin Faults
  PROVE  IInv /\ [Next]_vars => IInv'
<1> SUFFICES ASSUME IInv, [Next]_vars
             PROVE  IInv'
  OBVIOUS
<1> QED
  BY BeginKeeps, EvictKeeps, LoadKeeps, TransferKeeps, FlushNextKeeps, RestKeeps, Zenon
  DEF Next

\* A partition whose blocks the buffers hold is in one of two places, never in
\* three: no block is in two buffers, and a clean buffer agrees with the medium.
\* So allocateBuffer may drop any buffer that is not dirty.
THEOREM Coherent ==
  ASSUME "read" \notin Faults
  PROVE  Spec => []BuffersAreCoherent
<1>1. IInv => BuffersAreCoherent
  BY DEF IInv, Cached, Aged, Asked, BuffersAreCoherent, TypeOK
<1> QED
  BY <1>1, InvariantInit, InvariantStep, PTL DEF Spec

-----------------------------------------------------------------------------
(* Failures.                                                               *)

\* An access fails only because a buffer could not be written back, and a flush
\* only because one stayed dirty: what was written is still in the cache.
THEOREM FailuresKeepWrites ==
  ASSUME "read" \notin Faults
  PROVE  Spec => FailureLeavesDirty
<1> DEFINE Answer == reply' = <<"failed">> /\ reply # <<"failed">> =>
                       \E i \in Buffers : buffers'[i].used /\ buffers'[i].dirty
<1>1. IInv /\ [Next]_vars => [Answer]_vars
  <2> SUFFICES ASSUME IInv, Next, reply' = <<"failed">>, reply # <<"failed">>
               PROVE  \E i \in Buffers : buffers'[i].used /\ buffers'[i].dirty
    BY DEF vars
  <2>1. CASE Evict
    <3>1. FlushFails(Chosen) /\ buffers[Chosen].dirty
      BY <2>1 DEF Evict
    <3>2. Chosen \in Buffers /\ Cached
      BY ChosenBuffer DEF IInv
    <3>3. buffers' = buffers
      BY <3>1, Zenon DEF FlushFails
    <3> QED
      BY <3>1, <3>2, <3>3 DEF Cached, Filled
  <2>2. CASE FlushReturns
    <3>1. buffers' = buffers /\ req.op = "flush" /\ req.next > BufferCount /\ ~req.ok
      BY <2>2 DEF FlushReturns
    <3>2. \E i \in Buffers : buffers[i].dirty
      BY <3>1 DEF IInv, Asked, FlushKnows
    <3> QED
      BY <3>1, <3>2 DEF IInv, Cached, Filled
  <2>3. CASE \/ \E b \in Blocks, o \in Offsets, n \in 1..SectorCount : Begin(b, o, n)
             \/ Load \/ BeginFlush \/ PowerOff
    <3>1. reply' = <<"none">> \/ reply' = reply
      BY <2>3, Zenon DEF Begin, Load, BeginFlush, PowerOff
    <3> QED
      BY <3>1
  <2>4. CASE Transfer
    <3>1. Copy(Hit(req.block))
      BY <2>4, Zenon DEF Transfer
    <3>2. reply'[1] = "written" \/ reply'[1] = "read"
      BY <3>1 DEF Copy
    <3> QED
      BY <3>2
  <2>5. CASE FlushNext
    BY <2>5 DEF FlushNext
  <2> QED
    BY <2>1, <2>2, <2>3, <2>4, <2>5, Zenon DEF Next
<1> QED
  BY <1>1, InvariantInit, InvariantStep, PTL DEF Spec, FailureLeavesDirty

-----------------------------------------------------------------------------
(* The refinement of WriteBackStore.                                       *)

\* The content of the store, told by the buffers without a choice.
ContentByBuffer ==
  /\ DOMAIN Content = Sectors
  /\ \A s \in Sectors :
       /\ \A i \in Buffers : buffers[i].used /\ buffers[i].first = s[1] =>
            Content[s] = buffers[i].data[s[2]]
       /\ (\A i \in Buffers : buffers[i].used => buffers[i].first # s[1]) =>
            Content[s] = disk[s]
  /\ Content \in [Sectors -> Values]

LEMMA ContentIs == Cached => ContentByBuffer
<1> SUFFICES ASSUME Cached
             PROVE  ContentByBuffer
  OBVIOUS
<1>1. /\ disk \in [Sectors -> Values]
      /\ OneBufferPerBlock /\ Filled
  BY Zenon DEF Cached
<1>2. \A s \in Sectors : Content[s] =
        IF Containing(s[1]) # {} THEN buffers[Hit(s[1])].data[s[2]] ELSE disk[s]
  BY DEF Content
<1>3. ASSUME NEW s \in Sectors, NEW i \in Buffers, buffers[i].used, buffers[i].first = s[1]
      PROVE  Content[s] = buffers[i].data[s[2]] /\ Content[s] \in Values
  <2>1. i \in Containing(s[1])
    BY <1>3 DEF Containing
  <2>2. Hit(s[1]) = i
    BY <1>1, <1>3, <2>1, HitBuffer DEF OneBufferPerBlock
  <2>3. buffers[i].data[s[2]] \in Values
    BY <1>1, <1>3, SectorOfBlock DEF Filled
  <2> QED
    BY <1>2, <2>1, <2>2, <2>3
<1>4. ASSUME NEW s \in Sectors, \A i \in Buffers : buffers[i].used => buffers[i].first # s[1]
      PROVE  Content[s] = disk[s] /\ Content[s] \in Values
  <2>1. Containing(s[1]) = {}
    BY <1>4 DEF Containing
  <2> QED
    BY <1>1, <1>2, <2>1
<1>5. Content = [s \in Sectors |-> Content[s]]
  BY DEF Content
<1>6. \A s \in Sectors : Content[s] \in Values
  BY <1>3, <1>4
<1> HIDE DEF Content
<1>7. Content \in [Sectors -> Values]
  BY <1>5, <1>6
<1> QED
  BY <1>3, <1>4, <1>5, <1>7 DEF ContentByBuffer

LEMMA ContentIsNext == Cached' => ContentByBuffer'
BY ContentIs, PTL

\* The content stays when every buffer in use keeps its block and data and the
\* medium changes only where a buffer holds the block.
LEMMA ContentStays ==
  ASSUME Cached, Cached',
         \A i \in Buffers : /\ buffers'[i].used = buffers[i].used
                            /\ buffers'[i].first = buffers[i].first
                            /\ buffers'[i].data = buffers[i].data,
         \A s \in Sectors : disk'[s] = disk[s] \/
           \E i \in Buffers : buffers[i].used /\ buffers[i].first = s[1]
  PROVE  Content' = Content
<1>1. ContentByBuffer /\ ContentByBuffer'
  BY ContentIs, ContentIsNext
<1>2. \A s \in Sectors : Content'[s] = Content[s]
  <2> TAKE s \in Sectors
  <2>1. CASE \E i \in Buffers : buffers[i].used /\ buffers[i].first = s[1]
    <3>1. PICK i \in Buffers : buffers[i].used /\ buffers[i].first = s[1]
      BY <2>1
    <3>2. Content[s] = buffers[i].data[s[2]]
      BY <1>1, <3>1 DEF ContentByBuffer
    <3>3. Content'[s] = buffers'[i].data[s[2]]
      BY <1>1, <3>1 DEF ContentByBuffer
    <3> QED
      BY <3>2, <3>3
  <2>2. CASE \A i \in Buffers : buffers[i].used => buffers[i].first # s[1]
    <3>1. Content[s] = disk[s] /\ Content'[s] = disk'[s]
      BY <1>1, <2>2 DEF ContentByBuffer
    <3> QED
      BY <2>2, <3>1
  <2> QED
    BY <2>1, <2>2
<1>3. Content = [s \in Sectors |-> Content[s]] /\ Content' = [s \in Sectors |-> Content'[s]]
  BY <1>1 DEF ContentByBuffer
<1> QED
  BY <1>2, <1>3, Zenon

LEMMA RefinementInit == Init => Store!Init
<1> SUFFICES ASSUME Init
             PROVE  Store!Init
  OBVIOUS
<1>1. Cached /\ \A i \in Buffers : ~buffers[i].used
  <2>1. \A i \in Buffers : ~buffers[i].used
    BY FreshIsBuffer DEF Init
  <2> QED
    BY <2>1, InvariantInit DEF IInv
<1>2. ContentByBuffer
  BY <1>1, ContentIs
<1>3. \A s \in Sectors : Content[s] = disk[s]
  BY <1>1, <1>2 DEF ContentByBuffer
<1>4. Content = [s \in Sectors |-> Content[s]] /\ disk = [s \in Sectors |-> disk[s]]
  BY <1>1, <1>2 DEF ContentByBuffer, Cached
<1>5. disk = Content
  BY <1>3, <1>4, Zenon
<1>6. Content \in [Sectors -> Values] /\ reply = <<"none">>
  BY <1>2 DEF ContentByBuffer, Init
<1> QED
  BY <1>5, <1>6 DEF Store!Init

\* A buffer that is written back, in full or in part, is a write-back of the store.
LEMMA FlushIsWriteBack ==
  ASSUME Cached, NEW i \in Buffers, buffers[i].dirty, FlushOK(i) \/ FlushFails(i),
         reply' \in {reply, <<"failed">>}
  PROVE  Store!WriteBack
<1>1. Cached'
  BY FlushOKKeeps, FlushFailsKeeps
<1>2. /\ disk' \in [Sectors -> Values]
      /\ \A s \in Sectors :
           \/ disk'[s] = disk[s]
           \/ s[1] = buffers[i].first /\ disk'[s] = buffers[i].data[s[2]]
  BY FlushTransfers
<1>3. \A j \in Buffers : /\ buffers'[j].used = buffers[j].used
                         /\ buffers'[j].first = buffers[j].first
                         /\ buffers'[j].data = buffers[j].data
  <2>1. CASE FlushOK(i)
    <3>1. buffers' = [buffers EXCEPT ![i].dirty = FALSE] /\ buffers \in [Buffers -> BlockBuffer]
      BY <2>1, Zenon DEF FlushOK, Cached
    <3> QED
      BY <3>1 DEF BlockBuffer
  <2>2. CASE FlushFails(i)
    BY <2>2, FlushFailsKeeps
  <2> QED
    BY <2>1, <2>2
<1>4. buffers[i].used
  BY DEF Cached, Filled
<1>5. Content' = Content
  BY <1>1, <1>2, <1>3, <1>4, ContentStays
<1>6. ASSUME NEW s \in Sectors
      PROVE  disk'[s] \in {disk[s], Content[s]}
  <2>1. s[1] = buffers[i].first => Content[s] = buffers[i].data[s[2]]
    BY <1>4, ContentIs DEF ContentByBuffer
  <2> QED
    BY <1>2, <2>1
<1>7. DOMAIN disk' = Sectors
  BY <1>2
<1> HIDE DEF Content
<1> QED
  BY <1>5, <1>6, <1>7 DEF Store!WriteBack

LEMMA LoadIsStutter ==
  ASSUME IInv, Load, "read" \notin Faults
  PROVE  UNCHANGED <<Content, disk, reply>>
<1>1. Cached /\ Cached' /\ Asked /\ InAccess /\ Chosen \in Buffers /\ ~buffers[Chosen].dirty
      /\ Containing(req.block) = {}
  BY ChosenBuffer, LoadKeeps DEF IInv, Load, Missing
<1> DEFINE i == Chosen  b == req.block
<1>2. /\ buffers' = [buffers EXCEPT ![i].used = TRUE, ![i].first = b,
                                    ![i].data = ReadInto(b, @)]
      /\ disk' = disk /\ reply' = reply
  BY DEF Load
<1>3. ContentByBuffer /\ ContentByBuffer'
  BY <1>1, ContentIs, ContentIsNext
<1>4. /\ buffers'[i].used /\ buffers'[i].first = b
      /\ buffers'[i].data = ReadInto(b, buffers[i].data)
      /\ \A j \in Buffers : j # i => buffers'[j] = buffers[j]
  BY <1>1, <1>2 DEF Cached, BlockBuffer
<1>5. \A j \in Buffers : buffers[j].used => buffers[j].first # b
  BY <1>1 DEF Containing
<1> HIDE DEF i, b
<1>6. ASSUME NEW s \in Sectors
      PROVE  Content'[s] = Content[s]
  <2>1. CASE s[1] = b
    <3>1. Content'[s] = ReadInto(b, buffers[i].data)[s[2]]
      BY <1>1, <1>3, <1>4, <2>1 DEF ContentByBuffer, i
    <3>2. ReadInto(b, buffers[i].data)[s[2]] = disk[s]
      BY <2>1, SectorOfBlock DEF ReadInto, Present
    <3>3. Content[s] = disk[s]
      BY <1>3, <1>5, <2>1 DEF ContentByBuffer
    <3> QED
      BY <3>1, <3>2, <3>3
  <2>2. CASE s[1] = buffers[i].first /\ buffers[i].used /\ s[1] # b
    <3>1. /\ Content[s] = buffers[i].data[s[2]]
          /\ buffers[i].data[s[2]] = disk[s]
      BY <1>1, <1>3, <2>2, SectorOfBlock DEF ContentByBuffer, Cached, CleanMeansOnDisk, i
    <3>2. \A j \in Buffers : buffers'[j].used => buffers'[j].first # s[1]
      BY <1>1, <1>4, <2>2 DEF Cached, OneBufferPerBlock, i
    <3>3. Content'[s] = disk[s]
      BY <1>2, <1>3, <3>2 DEF ContentByBuffer
    <3> QED
      BY <3>1, <3>3
  <2>3. CASE (buffers[i].used => s[1] # buffers[i].first) /\ s[1] # b
    <3>1. CASE \E j \in Buffers : buffers[j].used /\ buffers[j].first = s[1]
      <4>1. PICK j \in Buffers : buffers[j].used /\ buffers[j].first = s[1]
        BY <3>1
      <4>2. j # i /\ buffers'[j] = buffers[j]
        BY <1>4, <2>3, <4>1
      <4> QED
        BY <1>3, <4>1, <4>2 DEF ContentByBuffer
    <3>2. CASE \A j \in Buffers : buffers[j].used => buffers[j].first # s[1]
      <4>1. \A j \in Buffers : buffers'[j].used => buffers'[j].first # s[1]
        BY <1>4, <2>3, <3>2
      <4> QED
        BY <1>2, <1>3, <3>2, <4>1 DEF ContentByBuffer
    <3> QED
      BY <3>1, <3>2
  <2> QED
    BY <2>1, <2>2, <2>3
<1>7. Content = [s \in Sectors |-> Content[s]] /\ Content' = [s \in Sectors |-> Content'[s]]
  BY <1>3 DEF ContentByBuffer
<1>8. Content' = Content
  BY <1>6, <1>7, Zenon
<1> QED
  BY <1>2, <1>8, Zenon

LEMMA TransferReadsOrWrites ==
  ASSUME IInv, Transfer
  PROVE  \E S \in SUBSET Sectors : Store!Read(S) \/ \E v \in Values : Store!Write(S, v)
<1> DEFINE b == req.block  i == Hit(b)  S == {b} \X Chunk
<1>1. /\ Cached /\ Cached' /\ Asked /\ InAccess /\ Containing(b) # {}
      /\ Copy(i) /\ disk' = disk
  BY TransferKeeps, Zenon DEF IInv, Transfer, Missing
<1>2. i \in Buffers /\ buffers[i].used /\ buffers[i].first = b
  BY <1>1, HitBuffer
<1>3. b \in Blocks /\ Chunk \subseteq Present(b)
  BY <1>1, RequestInProgress, ChunkIsInside DEF Asked
<1>4. S \subseteq Sectors
  BY <1>3, SectorOfBlock
<1>5. ContentByBuffer /\ ContentByBuffer'
  BY <1>1, ContentIs, ContentIsNext
<1>6. \A s \in Sectors : s[1] = b => Content[s] = buffers[i].data[s[2]]
  BY <1>2, <1>5 DEF ContentByBuffer
<1>7. CASE req.op = "read"
  <2>1. buffers' = buffers
    BY <1>7 DEF Copy, Transfer
  <2>2. reply' = <<"read", [s \in S |-> buffers[i].data[s[2]]]>>
    <3>1. req.op # "write"
      BY <1>7
    <3> QED
      BY <1>1, <3>1, Zenon DEF Copy
  <2>3. \A s \in S : s \in Sectors /\ s[1] = b
    BY <1>4
  <2>4. [s \in S |-> buffers[i].data[s[2]]] = [s \in S |-> Content[s]]
    <3> HIDE DEF S, i, Content
    <3> QED
      BY <1>6, <2>3, Zenon
  <2>5. Content' = Content
    BY <1>1, <2>1, ContentStays
  <2> HIDE DEF S, i, Content
  <2>6. Store!Read(S)
    BY <1>1, <2>2, <2>4, <2>5 DEF Store!Read
  <2> QED
    BY <1>4, <2>6
<1>8. CASE req.op = "write"
  <2>1. /\ \A j \in Buffers : j # i => buffers'[j] = buffers[j]
        /\ buffers'[i].used /\ buffers'[i].first = b
        /\ buffers'[i].data = [o \in Offsets |-> IF o \in Chunk THEN req.val
                                                 ELSE buffers[i].data[o]]
    <3> DEFINE data == [o \in Offsets |-> IF o \in Chunk THEN req.val ELSE buffers[i].data[o]]
               new == [used |-> TRUE, dirty |-> TRUE, first |-> b, data |-> data]
    <3>1. /\ \A j \in Buffers : j # i => buffers'[j] = buffers[j]
          /\ buffers'[i] = new
      <4> HIDE DEF i
      <4> QED
        BY <1>1, <1>2, <1>8, CopyKeeps, Zenon
    <3>2. new.used = TRUE /\ new.first = b /\ new.data = data
      <4> HIDE DEF data
      <4> QED
        BY Zenon
    <3> HIDE DEF new
    <3> QED
      BY <3>1, <3>2
  <2>2. req.val \in Values
    BY <1>1, <1>8 DEF Asked, Inside
  <2>3. reply' = <<"written", S, req.val>>
    BY <1>1, <1>8, Zenon DEF Copy
  <2>4. ASSUME NEW s \in Sectors
        PROVE  Content'[s] = IF s \in S THEN req.val ELSE Content[s]
    <3>1. s = <<s[1], s[2]>> /\ s[2] \in Offsets /\ (s \in S <=> s[1] = b /\ s[2] \in Chunk)
      BY SectorOfBlock DEF Present
    <3>2. CASE s[1] = b
      <4>1. Content'[s] = buffers'[i].data[s[2]]
        BY <1>2, <1>5, <2>1, <3>2 DEF ContentByBuffer
      <4> QED
        BY <1>6, <2>1, <3>1, <3>2, <4>1
    <3>3. CASE s[1] # b /\ \E j \in Buffers : buffers[j].used /\ buffers[j].first = s[1]
      <4>1. PICK j \in Buffers : buffers[j].used /\ buffers[j].first = s[1]
        BY <3>3
      <4>2. buffers'[j] = buffers[j]
        BY <1>2, <2>1, <3>3, <4>1
      <4>3. Content[s] = buffers[j].data[s[2]] /\ Content'[s] = buffers[j].data[s[2]]
        BY <1>5, <4>1, <4>2 DEF ContentByBuffer
      <4> QED
        BY <3>1, <3>3, <4>3
    <3>4. CASE s[1] # b /\ \A j \in Buffers : buffers[j].used => buffers[j].first # s[1]
      <4>1. \A j \in Buffers : buffers'[j].used => buffers'[j].first # s[1]
        BY <2>1, <3>4
      <4>2. Content[s] = disk[s] /\ Content'[s] = disk[s]
        BY <1>1, <1>5, <3>4, <4>1 DEF ContentByBuffer
      <4> QED
        BY <3>1, <3>4, <4>2
    <3> QED
      BY <3>2, <3>3, <3>4
  <2>5. Content' = [s \in Sectors |-> Content'[s]]
    BY <1>5 DEF ContentByBuffer
  <2> HIDE DEF S, i, Content
  <2>6. Content' = [s \in Sectors |-> IF s \in S THEN req.val ELSE Content[s]]
    BY <2>4, <2>5, Zenon
  <2>7. Store!Write(S, req.val)
    BY <1>1, <2>3, <2>6 DEF Store!Write
  <2> QED
    BY <1>4, <2>2, <2>7
<1> QED
  BY <1>1, <1>7, <1>8 DEF InAccess

\* Steps that change neither the buffers nor the medium.
LEMMA QuietStep ==
  ASSUME Cached, UNCHANGED <<buffers, disk>>
  PROVE  Content' = Content
<1>1. Cached'
  BY DEF Cached, OneBufferPerBlock, CleanMeansOnDisk, Filled
<1> QED
  BY <1>1, ContentStays

LEMMA FlushReturnsAnswers ==
  ASSUME IInv, FlushReturns
  PROVE  Store!Flushed \/ Store!Fail
<1>1. /\ Cached /\ Asked /\ req.op = "flush" /\ req.next > BufferCount
      /\ reply' = (IF req.ok THEN <<"flushed">> ELSE <<"failed">>)
      /\ UNCHANGED <<disk, buffers>>
  BY DEF IInv, FlushReturns
<1>2. Content' = Content
  BY <1>1, QuietStep
<1>3. CASE ~req.ok
  BY <1>1, <1>2, <1>3, Zenon DEF Store!Fail
<1>4. CASE req.ok
  <2>1. req.next \in Nat /\ \A i \in Buffers : i < req.next
    BY <1>1, FlushInProgress, BufferedVolumeAssumption DEF Asked, Buffers
  <2>2. \A i \in Buffers : ~buffers[i].dirty
    BY <1>1, <1>4, <2>1 DEF Asked, FlushKnows
  <2>3. ContentByBuffer
    BY <1>1, ContentIs
  <2>4. ASSUME NEW s \in Sectors
        PROVE  Content[s] = disk[s]
    <3>1. CASE \E i \in Buffers : buffers[i].used /\ buffers[i].first = s[1]
      <4>1. PICK i \in Buffers : buffers[i].used /\ buffers[i].first = s[1]
        BY <3>1
      <4>2. buffers[i].data[s[2]] = disk[<<s[1], s[2]>>]
        BY <1>1, <2>2, <4>1, SectorOfBlock DEF Cached, CleanMeansOnDisk
      <4> QED
        BY <2>3, <4>1, <4>2, SectorOfBlock DEF ContentByBuffer
    <3>2. CASE \A i \in Buffers : buffers[i].used => buffers[i].first # s[1]
      BY <2>3, <3>2 DEF ContentByBuffer
    <3> QED
      BY <3>1, <3>2
  <2>5. Content = [s \in Sectors |-> Content[s]] /\ disk = [s \in Sectors |-> disk[s]]
    BY <1>1, <2>3 DEF ContentByBuffer, Cached
  <2>6. disk = Content
    BY <2>4, <2>5, Zenon
  <2>7. reply' = <<"flushed">>
    BY <1>1, <1>4
  <2> HIDE DEF Content
  <2> QED
    BY <1>1, <1>2, <2>6, <2>7 DEF Store!Flushed
<1> QED
  BY <1>3, <1>4

LEMMA PowerOffLosesContent ==
  ASSUME IInv, PowerOff
  PROVE  Store!PowerOff
<1>1. /\ Cached' /\ disk' = disk /\ reply' = <<"none">>
      /\ \A i \in Buffers : ~buffers'[i].used
  BY RestKeeps, FreshIsBuffer DEF IInv, PowerOff
<1>2. ContentByBuffer'
  BY <1>1, ContentIsNext
<1>3. \A s \in Sectors : Content'[s] = disk[s]
  BY <1>1, <1>2 DEF ContentByBuffer
<1>4. Content' = [s \in Sectors |-> Content'[s]] /\ disk = [s \in Sectors |-> disk[s]]
  BY <1>2 DEF ContentByBuffer, IInv, Cached
<1> HIDE DEF Content
<1>5. Content' = disk
  BY <1>3, <1>4, Zenon
<1> QED
  BY <1>1, <1>5 DEF Store!PowerOff

LEMMA RefinementStep ==
  ASSUME "read" \notin Faults
  PROVE  IInv /\ [Next]_vars => [Store!Next]_(Store!vars)
<1> SUFFICES ASSUME IInv, [Next]_vars
             PROVE  Store!Next \/ UNCHANGED <<Content, disk, reply>>
  BY DEF Store!vars
<1>1. Cached
  BY DEF IInv
<1>2. ASSUME NEW b \in Blocks, NEW o \in Offsets, NEW n \in 1..SectorCount, Begin(b, o, n)
      PROVE  Store!Next
  <2>1. UNCHANGED <<buffers, disk>> /\ reply' = <<"none">>
    BY <1>2, Zenon DEF Begin
  <2>2. Content' = Content
    BY <1>1, <2>1, QuietStep
  <2> HIDE DEF Content
  <2> QED
    BY <2>1, <2>2 DEF Store!Next, Store!Ask
<1>3. CASE Evict
  <2>1. Chosen \in Buffers /\ buffers[Chosen].dirty
    BY <1>3, ChosenBuffer DEF IInv, Evict
  <2>2. /\ FlushOK(Chosen) \/ FlushFails(Chosen)
        /\ reply' \in {reply, <<"failed">>}
    BY <1>3 DEF Evict, Fail
  <2> QED
    BY <1>1, <2>1, <2>2, FlushIsWriteBack, Zenon DEF Store!Next
<1>4. CASE Load
  BY <1>4, LoadIsStutter, Zenon
<1>5. CASE Transfer
  BY <1>5, TransferReadsOrWrites, Zenon DEF Store!Next
<1>6. CASE BeginFlush
  <2>1. UNCHANGED <<buffers, disk>> /\ reply' = <<"none">>
    BY <1>6, Zenon DEF BeginFlush
  <2>2. Content' = Content
    BY <1>1, <2>1, QuietStep
  <2> HIDE DEF Content
  <2> QED
    BY <2>1, <2>2 DEF Store!Next, Store!Ask
<1>7. CASE FlushNext
  <2>1. req.next \in Buffers /\ reply' = reply
    BY <1>7, FlushInProgress, BufferedVolumeAssumption DEF IInv, Asked, FlushNext, Buffers
  <2>2. CASE UNCHANGED <<disk, buffers>>
    BY <1>1, <2>1, <2>2, QuietStep, Zenon
  <2>3. CASE buffers[req.next].dirty /\ (FlushOK(req.next) \/ FlushFails(req.next))
    <3>1. reply' \in {reply, <<"failed">>}
      BY <2>1
    <3> QED
      BY <1>1, <2>1, <2>3, <3>1, FlushIsWriteBack, Zenon DEF Store!Next
  <2> QED
    BY <1>7, <2>2, <2>3, Zenon DEF FlushNext
<1>8. CASE FlushReturns
  BY <1>8, FlushReturnsAnswers, Zenon DEF Store!Next
<1>9. CASE PowerOff
  BY <1>9, PowerOffLosesContent, Zenon DEF Store!Next
<1>10. CASE UNCHANGED vars
  <2>1. UNCHANGED <<buffers, disk, reply>>
    BY <1>10 DEF vars
  <2> QED
    BY <1>1, <2>1, QuietStep
<1> QED
  BY <1>2, <1>3, <1>4, <1>5, <1>6, <1>7, <1>8, <1>9, <1>10, Zenon DEF Next

\* The cache and the partition are a store with a volatile copy in front: reads
\* see the last write, written sectors reach the medium in any order, and a flush
\* reports success only when all of them are there.
THEOREM Refinement ==
  ASSUME "read" \notin Faults
  PROVE  Spec => ImplementsWriteBackStore
<1> QED
  BY InvariantInit, InvariantStep, RefinementInit, RefinementStep, PTL
  DEF Spec, ImplementsWriteBackStore, Store!Spec

=============================================================================
