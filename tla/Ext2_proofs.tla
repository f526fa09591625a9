----------------------------- MODULE Ext2_proofs -----------------------------
(***************************************************************************)
(* No block is shared, no block of a file is free, what write reports as   *)
(* written is in the file, and the counts are those of the bitmaps, for any*)
(* number of files and blocks and whichever accesses to the disk fail: the *)
(* first three as long as no pointer to a block stays that was freed, the  *)
(* last also then.  When no access fails the files have no holes and       *)
(* nothing in them that is another's.  The inductive invariant follows the *)
(* block at hand, from the bitmap to the map of the file or the other way; *)
(* a second one, on top of it, follows the blocks a write has finished, a  *)
(* third one the extent of the files, and a weaker one, Base, what holds   *)
(* when a pointer has stayed.                                              *)
(***************************************************************************)
EXTENDS Ext2, FiniteSetTheorems, WellFoundedInduction, TLAPS

\* The places of one file, and what an inode n has there with the indirect
\* blocks in t
Spots == 0..(Reach + PerBlock + 1)

TableAt(t, b) == IF b = 0 THEN Zeros ELSE t[b]

PointerIn(n, t, k) ==
  IF k < Direct THEN n.direct[k]
  ELSE IF k < Direct + PerBlock THEN TableAt(t, n.single)[k - Direct]
  ELSE IF k < Reach THEN TableAt(t, TableAt(t, n.double)[SlotInRoot(k)])[Slot(k)]
  ELSE IF k = Reach THEN n.single
  ELSE IF k = Reach + 1 THEN n.double
  ELSE TableAt(t, n.double)[k - Reach - 2]


-----------------------------------------------------------------------------
(* Arithmetic.                                                             *)

\* A set of numbers has a least one: there is no infinite descent.
LEMMA LeastNatural ==
  ASSUME NEW S \in SUBSET Nat, S # {}
  PROVE  Min(S) \in S /\ \A n \in S : Min(S) <= n
<1> DEFINE R == StrictSubsetOrdering(Nat)
           I == {0..n : n \in S}
<1>1. IsWellFoundedOn(R, FiniteSubsetsOf(Nat))
  BY FS_StrictSubsetOrderingWellFounded
<1>2. I \subseteq FiniteSubsetsOf(Nat) /\ I # {}
  <2>1. ASSUME NEW n \in S
        PROVE  0..n \in FiniteSubsetsOf(Nat)
    <3>1. n \in Int /\ 0 \in Int /\ 0..n \in SUBSET Nat
      OBVIOUS
    <3>2. IsFiniteSet(0..n)
      BY <3>1, FS_Interval
    <3> QED
      BY <3>1, <3>2 DEF FiniteSubsetsOf
  <2> QED
    BY <2>1
<1>3. PICK T \in I : \A U \in I : <<U, T>> \notin R
  <2> HIDE DEF R, I
  <2> QED
    BY <1>1, <1>2, WFMin
<1>4. PICK m \in S : T = 0..m
  OBVIOUS
<1>5. ASSUME NEW n \in S
      PROVE  m <= n
  <2>1. <<0..n, 0..m>> \notin R
    BY <1>3, <1>4
  <2>2. CASE n < m
    <3>1. m \in 0..m /\ m \notin 0..n /\ 0..n \subseteq 0..m
      BY <2>2
    <3> QED
      BY <2>1, <3>1 DEF StrictSubsetOrdering
  <2> QED
    BY <2>2
<1> QED
  BY <1>5 DEF Min

LEMMA LeastOfTwo ==
  \A a, b \in Nat : Min({a, b}) = IF a <= b THEN a ELSE b
BY DEF Min

LEMMA GreatestOfTwo ==
  \A a, b \in Nat : Max({a, b}) = IF a <= b THEN b ELSE a
BY DEF Max

LEMMA Dividing ==
  ASSUME NEW n \in Nat, NEW d \in Nat \ {0}
  PROVE  /\ n \div d \in Nat /\ n % d \in 0..(d - 1)
         /\ n = d * (n \div d) + (n % d)
<1>1. ASSUME NEW a \in Nat, NEW e \in Nat, e > 0
      PROVE  a \div e \in Nat /\ a % e \in 0..(e - 1)
  BY <1>1, SMT
<1>2. ASSUME NEW a \in Nat, NEW e \in Nat, e > 0
      PROVE  a = e * (a \div e) + (a % e)
  BY <1>2, SMTT(60)
<1> QED
  BY <1>1, <1>2

\* If n is less than d times m, its quotient is less than m.
LEMMA QuotientBelow ==
  ASSUME NEW n \in Nat, NEW d \in Nat \ {0}, NEW m \in Nat, n < m * d
  PROVE  n \div d < m
<1>1. n \div d \in Nat /\ d * (n \div d) <= n
  BY Dividing
<1>2. ASSUME NEW q \in Nat, q >= m PROVE d * q >= m * d
  BY <1>2
<1>3. d * (n \div d) \in Nat /\ m * d \in Nat
  BY <1>1
<1> QED
  BY <1>1, <1>2, <1>3

\* The places of a map, apart
LEMMA MapShape ==
  /\ Direct \in Nat /\ Direct > 0 /\ PerBlock \in Nat /\ PerBlock > 0
  /\ Reach \in Nat /\ Reach >= Direct + PerBlock
  /\ Spots \subseteq Nat /\ Slots \subseteq Nat
  /\ \A n \in Nat : n < Reach => n \in Spots
  /\ Reach \in Spots /\ Reach + 1 \in Spots
  /\ \A s \in Slots : Reach + 2 + s \in Spots
  /\ \A k \in Spots : k > Reach + 1 => k - Reach - 2 \in Slots
<1>1. /\ Direct \in Nat /\ Direct > 0 /\ PerBlock \in Nat /\ PerBlock > 0
  BY Ext2Assumption
<1>2. \A p \in Nat : p > 0 => p * p \in Nat /\ p * p >= p
  OBVIOUS
<1>3. PerBlock * PerBlock \in Nat /\ PerBlock * PerBlock >= PerBlock
  BY <1>1, <1>2
<1> QED
  BY <1>1, <1>3 DEF Reach, Spots, Slots

\* A place behind an indirect block is told by the block's place and the slot.
LEMMA WayShape ==
  ASSUME NEW n \in Nat, n < Reach, IsDouble(n)
  PROVE  /\ SlotInRoot(n) \in Slots
         /\ Slot(n) \in Slots
         /\ n = Direct + PerBlock + PerBlock * SlotInRoot(n) + Slot(n)
<1> DEFINE m == n - Direct - PerBlock
<1>1. /\ Direct \in Nat /\ PerBlock \in Nat \ {0} /\ m \in Nat /\ m < PerBlock * PerBlock
  <2>1. \A p \in Nat : p * p \in Nat
    OBVIOUS
  <2>2. PerBlock * PerBlock \in Nat
    BY <2>1, MapShape
  <2> QED
    BY <2>2, MapShape DEF IsDouble, Reach
<1>2. m \div PerBlock \in Nat /\ m % PerBlock \in Slots
  BY <1>1, Dividing DEF Slots
<1>3. m \div PerBlock < PerBlock
  BY <1>1, QuotientBelow
<1>4. m = PerBlock * (m \div PerBlock) + (m % PerBlock)
  BY <1>1, Dividing
<1>5. SlotInRoot(n) = m \div PerBlock /\ Slot(n) = m % PerBlock
  BY MapShape DEF SlotInRoot, Slot, IsDouble, IsSingle
<1> HIDE DEF m
<1>6. SlotInRoot(n) \in Slots
  BY <1>1, <1>2, <1>3, <1>5 DEF Slots
<1>7. m = PerBlock * SlotInRoot(n) + Slot(n)
  BY <1>4, <1>5, Zenon
<1>8. PerBlock * SlotInRoot(n) \in Nat
  <2>1. \A a, b \in Nat : a * b \in Nat
    OBVIOUS
  <2> QED
    BY <1>1, <1>6, <2>1, MapShape
<1> QED
  BY <1>1, <1>2, <1>5, <1>6, <1>7, <1>8, MapShape DEF m

LEMMA SingleShape ==
  ASSUME NEW n \in Nat, IsSingle(n)
  PROVE  Slot(n) \in Slots /\ n = Direct + Slot(n)
BY MapShape DEF IsSingle, Slot, Slots

LEMMA DoubleIs ==
  \A n \in Nat : IsDouble(n) => ~IsSingle(n) /\ ~IsDirect(n)
BY MapShape DEF IsDirect, IsSingle, IsDouble

LEMMA WaysDiffer ==
  ASSUME NEW m \in Nat, NEW n \in Nat, m < Reach, n < Reach, IsDouble(m), IsDouble(n),
         SlotInRoot(m) = SlotInRoot(n), Slot(m) = Slot(n)
  PROVE  m = n
BY WayShape, Zenon

-----------------------------------------------------------------------------
(* Bitmaps and counts.                                                     *)

\* What Space keeps, and what is taken or given back
SpaceType ==
  [marked : SUBSET Blocks, free : [0..(Groups - 1) -> Int], block : Blocks \cup {0}]

Sane(s) ==
  /\ s \in SpaceType
  /\ Meta \subseteq s.marked
  /\ \A g \in 0..(Groups - 1) : s.free[g] = Cardinality(InGroup(g) \ s.marked)

LEMMA GroupShape ==
  /\ Groups \in Nat \ {0} /\ PerGroup \in Nat \ {0}
  /\ Blocks \subseteq Nat \ {0} /\ IsFiniteSet(Blocks)
  /\ \A b \in Blocks : GroupOf(b) \in 0..(Groups - 1)
  /\ Meta \subseteq Blocks
<1>1. Groups \in Nat \ {0} /\ PerGroup \in Nat \ {0}
  BY Ext2Assumption
<1>2. \A a, b \in Nat : a * b \in Nat
  OBVIOUS
<1>3. Groups * PerGroup \in Nat
  BY <1>1, <1>2
<1>4. Blocks \subseteq Nat \ {0} /\ IsFiniteSet(Blocks)
  <2>1. IsFiniteSet(1..(Groups * PerGroup))
    BY <1>3, FS_Interval
  <2> QED
    BY <1>3, <2>1 DEF Blocks
<1>5. ASSUME NEW b \in Blocks PROVE GroupOf(b) \in 0..(Groups - 1)
  <2>1. b - 1 \in Nat /\ b - 1 < Groups * PerGroup
    BY <1>3 DEF Blocks
  <2>2. (b - 1) \div PerGroup \in Nat /\ (b - 1) \div PerGroup < Groups
    BY <1>1, <2>1, Dividing, QuotientBelow
  <2> QED
    BY <1>1, <2>2 DEF GroupOf
<1> QED
  BY <1>1, <1>4, <1>5 DEF Meta

\* A group has as many blocks as it should, or fewer.
LEMMA GroupSize ==
  ASSUME NEW g \in 0..(Groups - 1), NEW S
  PROVE  /\ IsFiniteSet(InGroup(g) \ S)
         /\ Cardinality(InGroup(g) \ S) \in 0..PerGroup
<1> DEFINE I == (g * PerGroup + 1)..(g * PerGroup + PerGroup)
<1>1. g * PerGroup \in Nat /\ PerGroup \in Nat \ {0}
  <2>1. \A a, b \in Nat : a * b \in Nat
    OBVIOUS
  <2> QED
    BY <2>1, GroupShape
<1>2. ASSUME NEW b \in InGroup(g) PROVE b \in I
  <2>1. b \in Nat \ {0} /\ (b - 1) \div PerGroup = g
    BY GroupShape DEF InGroup, GroupOf
  <2>2. /\ b - 1 = PerGroup * ((b - 1) \div PerGroup) + ((b - 1) % PerGroup)
        /\ (b - 1) % PerGroup \in 0..(PerGroup - 1)
    BY <1>1, <2>1, Dividing
  <2>3. PerGroup * g = g * PerGroup
    BY GroupShape
  <2> QED
    BY <1>1, <2>1, <2>2, <2>3
<1>3. IsFiniteSet(I) /\ Cardinality(I) = PerGroup
  BY <1>1, FS_Interval
<1> HIDE DEF I
<1>4. InGroup(g) \ S \in SUBSET I
  BY <1>2
<1>5. IsFiniteSet(InGroup(g) \ S) /\ Cardinality(InGroup(g) \ S) <= PerGroup
  BY <1>3, <1>4, FS_Subset
<1> QED
  BY <1>1, <1>5, FS_CardinalityType

\* The type of the counts follows.
LEMMA SaneType ==
  ASSUME NEW s, Sane(s)
  PROVE  s.free \in [0..(Groups - 1) -> 0..PerGroup]
<1>1. ASSUME NEW g \in 0..(Groups - 1) PROVE s.free[g] \in 0..PerGroup
  <2>1. Cardinality(InGroup(g) \ s.marked) \in 0..PerGroup
    BY GroupSize
  <2> QED
    BY <2>1 DEF Sane
<1>2. s.free \in [0..(Groups - 1) -> Int]
  BY DEF Sane, SpaceType
<1> QED
  BY <1>1, <1>2, Zenon

LEMMA TakeInSane ==
  ASSUME NEW s, Sane(s), NEW g \in Roomy(s)
  PROVE  /\ Sane(TakeIn(s, g))
         /\ TakeIn(s, g).block \in Blocks \ s.marked
         /\ TakeIn(s, g).marked = s.marked \cup {TakeIn(s, g).block}
<1> DEFINE b == Min(InGroup(g) \ s.marked)
           r == TakeIn(s, g)
<1>1. g \in 0..(Groups - 1) /\ InGroup(g) \ s.marked # {}
  BY DEF Roomy, Sane, SpaceType
<1>2. InGroup(g) \ s.marked \subseteq Nat /\ InGroup(g) \subseteq Blocks
  BY GroupShape DEF InGroup
<1>3. b \in InGroup(g) \ s.marked
  BY <1>1, <1>2, LeastNatural
<1>4. /\ r.marked = s.marked \cup {b} /\ r.block = b
      /\ r.free = [s.free EXCEPT ![g] = s.free[g] - 1]
      /\ r = [marked |-> s.marked \cup {b}, free |-> [s.free EXCEPT ![g] = s.free[g] - 1],
              block |-> b]
  BY DEF TakeIn
<1> HIDE DEF b, r
<1>5. r.marked \subseteq Blocks /\ Meta \subseteq r.marked /\ b \in Blocks
  BY <1>2, <1>3, <1>4 DEF Sane, SpaceType
<1>6. r.free \in [0..(Groups - 1) -> Int]
  <2>1. \A h \in 0..(Groups - 1) : s.free[h] \in Int
    BY DEF Sane, SpaceType
  <2>2. s.free[g] - 1 \in Int
    BY <1>1, <2>1
  <2>3. s.free \in [0..(Groups - 1) -> Int]
    BY DEF Sane, SpaceType
  <2> QED
    BY <1>4, <2>2, <2>3, Zenon
<1>7. ASSUME NEW h \in 0..(Groups - 1)
      PROVE  r.free[h] = Cardinality(InGroup(h) \ r.marked)
  <2>1. s.free[h] = Cardinality(InGroup(h) \ s.marked) /\ s.free[h] \in Int
    BY DEF Sane, SpaceType
  <2>2. CASE h = g
    <3>1. InGroup(g) \ r.marked = (InGroup(g) \ s.marked) \ {b}
      BY <1>4
    <3>2. Cardinality((InGroup(g) \ s.marked) \ {b}) = Cardinality(InGroup(g) \ s.marked) - 1
      BY <1>1, <1>3, GroupSize, FS_RemoveElement
    <3>3. r.free[g] = s.free[g] - 1
      BY <1>1, <1>4 DEF Sane, SpaceType
    <3> QED
      BY <2>1, <2>2, <3>1, <3>2, <3>3
  <2>3. CASE h # g
    <3>1. b \notin InGroup(h)
      BY <1>3, <2>3 DEF InGroup
    <3>2. InGroup(h) \ r.marked = InGroup(h) \ s.marked
      BY <1>4, <3>1
    <3>3. r.free[h] = s.free[h]
      BY <1>4, <2>3 DEF Sane, SpaceType
    <3> QED
      BY <2>1, <3>2, <3>3
  <2> QED
    BY <2>2, <2>3
<1>8. Sane(r)
  <2>1. r \in SpaceType
    BY <1>4, <1>5, <1>6, Zenon DEF SpaceType
  <2> QED
    BY <1>5, <1>7, <2>1 DEF Sane
<1> QED
  BY <1>2, <1>3, <1>4, <1>8 DEF r

\* No room is left when all blocks are marked.
LEMMA NoRoom ==
  ASSUME NEW s, Sane(s), Roomy(s) = {}
  PROVE  s.marked = Blocks
<1>1. ASSUME NEW b \in Blocks, b \notin s.marked
      PROVE  FALSE
  <2> DEFINE g == GroupOf(b)
             S == InGroup(g) \ s.marked
  <2>1. g \in 0..(Groups - 1) /\ b \in S
    BY <1>1, GroupShape DEF InGroup
  <2>2. IsFiniteSet(S) /\ Cardinality(S) \in Nat /\ S # {}
    BY <2>1, GroupSize, FS_CardinalityType
  <2>3. Cardinality(S) # 0
    BY <2>2, FS_EmptySet
  <2>4. s.free[g] = Cardinality(S) /\ DOMAIN s.free = 0..(Groups - 1)
    BY <2>1 DEF Sane, SpaceType
  <2> HIDE DEF S, g
  <2>5. s.free[g] > 0
    BY <2>2, <2>3, <2>4
  <2> QED
    BY <2>1, <2>4, <2>5 DEF Roomy, S
<1>2. s.marked \subseteq Blocks
  BY DEF Sane, SpaceType
<1> QED
  BY <1>1, <1>2

\* Allocation: marked blocks stay marked, and the one it returns is new; when it
\* returns none, and nothing fails, there is none.
Allocated(s, r, p) ==
  /\ Sane(r) /\ s.marked \subseteq r.marked
  /\ r.block # 0 => r.block \in (Blocks \ s.marked) \cap r.marked
  /\ p = "none" /\ r.block = 0 => s.marked = Blocks
  /\ p = "none" => r.marked = IF r.block = 0 THEN s.marked ELSE s.marked \cup {r.block}

LEMMA TakeFirstAllocates ==
  ASSUME NEW s, Sane(s), s.block = 0, NEW p
  PROVE  Allocated(s, TakeFirst(s), p)
<1>1. CASE Roomy(s) = {}
  <2> DEFINE r == [s EXCEPT !.block = 0]
  <2>1. TakeFirst(s) = r
    BY <1>1 DEF TakeFirst
  <2>2. r \in SpaceType /\ r.marked = s.marked /\ r.free = s.free /\ r.block = 0
    BY DEF Sane, SpaceType
  <2> HIDE DEF r
  <2>3. s.marked = Blocks
    BY <1>1, NoRoom
  <2> QED
    BY <2>1, <2>2, <2>3 DEF Allocated, Sane
<1>2. CASE Roomy(s) # {}
  <2>1. Roomy(s) \in SUBSET Nat
    BY GroupShape DEF Roomy, Sane, SpaceType
  <2>2. Min(Roomy(s)) \in Roomy(s)
    BY <1>2, <2>1, LeastNatural
  <2>3. TakeFirst(s) = TakeIn(s, Min(Roomy(s)))
    BY <1>2 DEF TakeFirst
  <2>4. 0 \notin Blocks
    BY GroupShape
  <2> DEFINE r == TakeIn(s, Min(Roomy(s)))
  <2>5. /\ Sane(r) /\ r.block \in Blocks \ s.marked
        /\ r.marked = s.marked \cup {r.block}
    BY <2>2, TakeInSane
  <2> HIDE DEF r
  <2>6. Allocated(s, r, p)
    BY <2>4, <2>5 DEF Allocated
  <2> QED
    BY <2>3, <2>6 DEF r
<1> QED
  BY <1>1, <1>2

LEMMA AllocateAllocates ==
  ASSUME NEW s, Sane(s), s.block = 0, NEW p
  PROVE  Allocated(s, Allocate(s, p), p)
<1>1. CASE p \notin {"bitmap", "group"} \/ Roomy(s) = {}
  BY <1>1, TakeFirstAllocates DEF Allocate
<1>2. CASE p \in {"bitmap", "group"} /\ Roomy(s) # {}
  <2> DEFINE g == Min(Roomy(s))
             t == IF p = "bitmap" THEN s ELSE TakeIn(s, g)
             rest == Roomy(t) \ {g}
             r == IF rest = {} THEN [t EXCEPT !.block = 0] ELSE TakeIn(t, Min(rest))
  <2>1. Allocate(s, p) = r
    BY <1>2 DEF Allocate
  <2>2. g \in Roomy(s)
    <3>1. Roomy(s) \in SUBSET Nat
      BY GroupShape DEF Roomy, Sane, SpaceType
    <3> QED
      BY <1>2, <3>1, LeastNatural
  <2>3. Sane(t) /\ s.marked \subseteq t.marked
    BY <2>2, TakeInSane
  <2> HIDE DEF g, t
  <2>4. rest # {} => Min(rest) \in Roomy(t)
    <3>1. rest \in SUBSET Nat
      BY <2>3, GroupShape DEF Roomy, Sane, SpaceType
    <3> QED
      BY <3>1, LeastNatural
  <2>5. CASE rest = {}
    <3>1. r \in SpaceType /\ r.marked = t.marked /\ r.free = t.free /\ r.block = 0
      BY <2>3, <2>5 DEF Sane, SpaceType
    <3> HIDE DEF r
    <3>2. Sane(r)
      BY <2>3, <3>1 DEF Sane
    <3>3. s.marked \subseteq r.marked /\ r.block = 0
      BY <2>3, <3>1
    <3> QED
      BY <1>2, <2>1, <3>2, <3>3 DEF Allocated
  <2>6. CASE rest # {}
    <3> DEFINE q == TakeIn(t, Min(rest))
    <3>1. /\ Sane(q) /\ q.block \in Blocks \ t.marked
          /\ q.marked = t.marked \cup {q.block}
      BY <2>3, <2>4, <2>6, TakeInSane
    <3>2. Allocate(s, p) = q
      BY <2>1, <2>6
    <3> HIDE DEF q, rest
    <3> QED
      BY <1>2, <2>3, <3>1, <3>2 DEF Allocated
  <2> QED
    BY <2>5, <2>6
<1> QED
  BY <1>1, <1>2

LEMMA ReleaseSane ==
  ASSUME NEW s, Sane(s), NEW b \in Blocks \ Meta
  PROVE  /\ Sane(Release(s, b)) /\ Release(s, b).block = s.block
         /\ Release(s, b).marked = s.marked \ {b}
<1>1. CASE b \notin s.marked
  BY <1>1 DEF Release
<1>2. CASE b \in s.marked
  <2> DEFINE g == GroupOf(b)
             r == Release(s, b)
             M == s.marked \ {b}
             F == [s.free EXCEPT ![g] = s.free[g] + 1]
  <2>1. g \in 0..(Groups - 1) /\ b \in InGroup(g)
    BY GroupShape DEF InGroup
  <2>2. r = [s EXCEPT !.marked = M, !.free = F]
    BY <1>2, Zenon DEF Release
  <2>a. s \in SpaceType
    BY DEF Sane
  <2>3. r.marked = M /\ r.free = F /\ r.block = s.block
    <3> HIDE DEF M, F, r
    <3> QED
      BY <2>2, <2>a DEF SpaceType
  <2>4. \A h \in 0..(Groups - 1) : h # g => b \notin InGroup(h)
    BY DEF InGroup
  <2> HIDE DEF g, r
  <2>5. s.free \in [0..(Groups - 1) -> Int] /\ s.free[g] \in Int
    BY <2>1 DEF Sane, SpaceType
  <2>6. r.free \in [0..(Groups - 1) -> Int]
    <3>1. s.free[g] + 1 \in Int
      BY <2>5
    <3> QED
      BY <2>3, <2>5, <3>1, Zenon
  <2>7. ASSUME NEW h \in 0..(Groups - 1)
        PROVE  r.free[h] = Cardinality(InGroup(h) \ r.marked)
    <3>1. s.free[h] = Cardinality(InGroup(h) \ s.marked)
      BY DEF Sane
    <3>2. CASE h = g
      <4>1. InGroup(g) \ r.marked = (InGroup(g) \ s.marked) \cup {b}
        BY <2>1, <2>3
      <4>2. Cardinality((InGroup(g) \ s.marked) \cup {b}) = Cardinality(InGroup(g) \ s.marked) + 1
        BY <1>2, <2>1, GroupSize, FS_AddElement
      <4>3. r.free[g] = s.free[g] + 1
        BY <2>1, <2>3, <2>5
      <4> QED
        BY <3>1, <3>2, <4>1, <4>2, <4>3
    <3>3. CASE h # g
      <4>1. InGroup(h) \ r.marked = InGroup(h) \ s.marked
        BY <2>3, <2>4, <3>3
      <4>2. r.free[h] = s.free[h]
        BY <2>3, <2>5, <3>3
      <4> QED
        BY <3>1, <4>1, <4>2
    <3> QED
      BY <3>2, <3>3
  <2>8. r.marked \subseteq Blocks /\ Meta \subseteq r.marked
    BY <2>3 DEF Sane, SpaceType
  <2>9. Sane(r)
    <3>1. s.block \in Blocks \cup {0}
      BY DEF Sane, SpaceType
    <3>2. r \in SpaceType
      <4>1. r = [s EXCEPT !.marked = r.marked, !.free = r.free]
        BY <2>2, <2>3 DEF r
      <4> QED
        BY <2>a, <2>6, <2>8, <4>1 DEF SpaceType
    <3> QED
      BY <2>7, <2>8, <3>2 DEF Sane
  <2> QED
    BY <2>3, <2>9 DEF r
<1> QED
  BY <1>1, <1>2

LEMMA NewTableAllocates ==
  ASSUME NEW s, Sane(s), s.block = 0, NEW p
  PROVE  Allocated(s, NewTable(s, p), p)
<1> DEFINE t == Allocate(s, p)
           u == Release(t, t.block)
           r == [u EXCEPT !.block = 0]
<1>1. Allocated(s, t, p)
  BY AllocateAllocates
<1>2. CASE ~(p = "zero" /\ t.block # 0)
  <2>1. NewTable(s, p) = t
    BY <1>2 DEF NewTable
  <2> QED
    BY <1>1, <2>1
<1>3. CASE p = "zero" /\ t.block # 0
  <2>1. NewTable(s, p) = r
    BY <1>3 DEF NewTable
  <2>2. Sane(t) /\ t.block \in Blocks \ Meta /\ t.block \notin s.marked
    BY <1>1, <1>3 DEF Allocated, Sane, SpaceType
  <2>3. Sane(u) /\ u.marked = t.marked \ {t.block}
    BY <2>2, ReleaseSane
  <2>4. s.marked \subseteq t.marked
    BY <1>1 DEF Allocated
  <2> HIDE DEF t, u
  <2>5. r \in SpaceType /\ r.marked = u.marked /\ r.free = u.free /\ r.block = 0
    BY <2>3 DEF Sane, SpaceType
  <2> HIDE DEF r
  <2>6. Sane(r)
    BY <2>3, <2>5 DEF Sane
  <2>7. s.marked \subseteq r.marked /\ r.block = 0
    BY <2>2, <2>3, <2>4, <2>5
  <2> QED
    BY <1>3, <2>1, <2>6, <2>7 DEF Allocated
<1> QED
  BY <1>2, <1>3


-----------------------------------------------------------------------------
(* The block map.  A place is in the inode, or in an indirect block that   *)
(* another place, Up, points to.                                           *)

NodeType == [direct : [0..(Direct - 1) -> Blocks \cup {0}], single : Blocks \cup {0},
             double : Blocks \cup {0}, size : 0..Reach]
TableType == [Blocks -> [Slots -> Blocks \cup {0}]]
MapType(N, T) == N \in [Files -> NodeType] /\ T \in TableType

Own(k) == k < Direct \/ k = Reach \/ k = Reach + 1
Up(k) == IF k > Reach + 1 THEN Reach + 1
         ELSE IF IsSingle(k) THEN Reach ELSE Reach + 2 + SlotInRoot(k)
At(k) == IF k > Reach + 1 THEN k - Reach - 2 ELSE Slot(k)

LEMMA UpShape ==
  ASSUME NEW k \in Spots, ~Own(k)
  PROVE  Up(k) \in Spots /\ At(k) \in Slots /\ Up(k) >= Reach /\ Up(k) # k
         /\ (Own(Up(k)) \/ (k < Reach /\ Up(k) > Reach + 1 /\ Up(Up(k)) = Reach + 1))
<1>1. k \in Nat
  BY MapShape
<1>2. CASE k > Reach + 1
  BY <1>1, <1>2, MapShape DEF Own, Up, At
<1>3. CASE k < Reach /\ IsSingle(k)
  BY <1>1, <1>3, MapShape, SingleShape DEF Own, Up, At
<1>4. CASE k < Reach /\ IsDouble(k)
  <2>1. SlotInRoot(k) \in Slots /\ Slot(k) \in Slots
    BY <1>1, <1>4, WayShape
  <2>2. Up(k) = Reach + 2 + SlotInRoot(k) /\ At(k) = Slot(k)
    BY <1>1, <1>4, MapShape DEF Up, At, IsSingle, IsDouble
  <2>3. Reach + 2 + SlotInRoot(k) \in Spots /\ SlotInRoot(k) \in Nat
    BY <2>1, MapShape
  <2> HIDE DEF Spots, Slots
  <2> QED
    BY <1>1, <1>4, <2>1, <2>2, <2>3, MapShape DEF Up
<1> QED
  BY <1>1, <1>2, <1>3, <1>4, MapShape DEF Own, IsSingle, IsDouble

LEMMA UpDiffers ==
  ASSUME NEW j \in Spots, NEW k \in Spots, ~Own(j), ~Own(k), Up(j) = Up(k), At(j) = At(k)
  PROVE  j = k
<1>1. j \in Nat /\ k \in Nat
  BY MapShape
<1>2. ASSUME NEW i \in Nat, i < Reach, IsDouble(i)
      PROVE  /\ Up(i) = Reach + 2 + SlotInRoot(i) /\ At(i) = Slot(i)
             /\ SlotInRoot(i) \in Nat
  <2>1. SlotInRoot(i) \in Slots
    BY <1>2, WayShape
  <2>2. SlotInRoot(i) \in Nat
    BY <2>1, MapShape
  <2>3. ~(i > Reach + 1) /\ ~IsSingle(i)
    BY <1>2, MapShape DEF IsSingle, IsDouble
  <2> QED
    BY <2>2, <2>3, Zenon DEF Up, At
<1>3. ASSUME NEW i \in Nat, i < Reach, IsSingle(i)
      PROVE  Up(i) = Reach /\ At(i) = Slot(i) /\ Slot(i) \in Slots /\ i = Direct + Slot(i)
  BY <1>3, MapShape, SingleShape DEF Up, At
<1>4. ASSUME NEW i \in Nat, i > Reach + 1
      PROVE  Up(i) = Reach + 1 /\ At(i) = i - Reach - 2
  BY <1>4, MapShape DEF Up, At
<1>5. ASSUME NEW i \in Nat, ~Own(i)
      PROVE  i > Reach + 1 \/ (i < Reach /\ IsSingle(i)) \/ (i < Reach /\ IsDouble(i))
  BY <1>5, MapShape DEF Own, IsSingle, IsDouble
<1>6. Reach # Reach + 1 /\ \A a \in Nat : Reach + 2 + a # Reach + 1 /\ Reach + 2 + a # Reach
  BY MapShape
<1>7. CASE j > Reach + 1
  BY <1>1, <1>2, <1>3, <1>4, <1>5, <1>7, MapShape
<1>8. CASE j < Reach /\ IsSingle(j)
  <2>1. Up(j) = Reach /\ j = Direct + At(j)
    BY <1>1, <1>3, <1>8
  <2>2. k < Reach /\ IsSingle(k)
    <3>1. ASSUME k > Reach + 1 PROVE FALSE
      <4>1. Up(k) = Reach + 1
        BY <1>1, <1>4, <3>1
      <4> QED
        BY <1>6, <2>1, <4>1, Zenon
    <3>2. ASSUME k < Reach, IsDouble(k) PROVE FALSE
      <4>1. Up(k) = Reach + 2 + SlotInRoot(k) /\ SlotInRoot(k) \in Nat
        BY <1>1, <1>2, <3>2
      <4> QED
        BY <1>6, <2>1, <4>1, Zenon
    <3> QED
      BY <1>1, <1>5, <3>1, <3>2
  <2> QED
    BY <1>1, <1>3, <2>1, <2>2
<1>9. CASE j < Reach /\ IsDouble(j)
  <2>1. Up(j) = Reach + 2 + SlotInRoot(j) /\ SlotInRoot(j) \in Nat
    BY <1>1, <1>2, <1>9
  <2>2. k < Reach /\ IsDouble(k)
    <3>1. ASSUME k > Reach + 1 PROVE FALSE
      <4>1. Up(k) = Reach + 1
        BY <1>1, <1>4, <3>1
      <4> QED
        BY <1>6, <2>1, <4>1, Zenon
    <3>2. ASSUME k < Reach, IsSingle(k) PROVE FALSE
      <4>1. Up(k) = Reach
        BY <1>1, <1>3, <3>2
      <4> QED
        BY <1>6, <2>1, <4>1, Zenon
    <3> QED
      BY <1>1, <1>5, <3>1, <3>2
  <2>3. SlotInRoot(j) = SlotInRoot(k) /\ Slot(j) = Slot(k)
    <3>1. /\ Up(k) = Reach + 2 + SlotInRoot(k) /\ SlotInRoot(k) \in Nat
          /\ At(k) = Slot(k) /\ At(j) = Slot(j)
      BY <1>1, <1>2, <1>9, <2>2
    <3>2. ASSUME NEW a \in Nat, NEW b \in Nat, NEW r \in Nat, r + 2 + a = r + 2 + b
          PROVE  a = b
      BY <3>2
    <3> QED
      BY <2>1, <3>1, <3>2, MapShape
  <2> QED
    BY <1>1, <1>9, <2>2, <2>3, WaysDiffer, Zenon
<1> QED
  BY <1>1, <1>5, <1>7, <1>8, <1>9

\* What PointerIn is, place by place
LEMMA Ways ==
  ASSUME NEW n, NEW t, NEW k \in Spots
  PROVE  /\ k < Direct => PointerIn(n, t, k) = n.direct[k]
         /\ k = Reach => PointerIn(n, t, k) = n.single
         /\ k = Reach + 1 => PointerIn(n, t, k) = n.double
         /\ ~Own(k) => PointerIn(n, t, k) = TableAt(t, PointerIn(n, t, Up(k)))[At(k)]
<1>1. k \in Nat /\ Reach \in Nat /\ Direct \in Nat /\ PerBlock \in Nat
      /\ Reach >= Direct + PerBlock /\ PerBlock > 0
  BY MapShape
<1>2. PointerIn(n, t, Reach) = n.single /\ PointerIn(n, t, Reach + 1) = n.double
  <2>1. ~(Reach < Direct) /\ ~(Reach < Direct + PerBlock) /\ ~(Reach < Reach)
        /\ ~(Reach + 1 < Direct) /\ ~(Reach + 1 < Direct + PerBlock)
        /\ ~(Reach + 1 < Reach) /\ Reach + 1 # Reach
    BY <1>1
  <2> QED
    BY <2>1, Zenon DEF PointerIn
<1>3. k < Direct => PointerIn(n, t, k) = n.direct[k]
  BY Zenon DEF PointerIn
<1>4. ASSUME k > Reach + 1
      PROVE  PointerIn(n, t, k) = TableAt(t, n.double)[k - Reach - 2]
  <2>1. ~(k < Direct) /\ ~(k < Direct + PerBlock) /\ ~(k < Reach) /\ k # Reach /\ k # Reach + 1
    BY <1>1, <1>4
  <2> QED
    BY <2>1, Zenon DEF PointerIn
<1>5. ASSUME k < Reach, IsSingle(k)
      PROVE  PointerIn(n, t, k) = TableAt(t, n.single)[Slot(k)]
  <2>1. ~(k < Direct) /\ k < Direct + PerBlock
    BY <1>1, <1>5 DEF IsSingle
  <2> QED
    BY <1>5, <2>1, Zenon DEF PointerIn, Slot
<1>6. ASSUME k < Reach, IsDouble(k)
      PROVE  PointerIn(n, t, k) = TableAt(t, TableAt(t, n.double)[SlotInRoot(k)])[Slot(k)]
  <2>1. ~(k < Direct) /\ ~(k < Direct + PerBlock)
    BY <1>1, <1>6 DEF IsDouble
  <2> QED
    BY <1>6, <2>1, Zenon DEF PointerIn
<1>7. ASSUME NEW q \in Slots
      PROVE  PointerIn(n, t, Reach + 2 + q) = TableAt(t, n.double)[q]
  <2> DEFINE j == Reach + 2 + q
  <2>1. ~(j < Direct) /\ ~(j < Direct + PerBlock) /\ ~(j < Reach) /\ j # Reach /\ j # Reach + 1
        /\ j - Reach - 2 = q
    BY <1>1 DEF Slots
  <2> HIDE DEF j
  <2>2. PointerIn(n, t, j) = TableAt(t, n.double)[q]
    BY <2>1, Zenon DEF PointerIn
  <2> QED
    BY <2>2 DEF j
<1>8. ASSUME ~Own(k)
      PROVE  PointerIn(n, t, k) = TableAt(t, PointerIn(n, t, Up(k)))[At(k)]
  <2>1. CASE k > Reach + 1
    <3>1. Up(k) = Reach + 1 /\ At(k) = k - Reach - 2
      BY <2>1, Zenon DEF Up, At
    <3> QED
      BY <1>2, <1>4, <2>1, <3>1, Zenon
  <2>2. CASE k < Reach /\ IsSingle(k)
    <3>1. Up(k) = Reach /\ At(k) = Slot(k)
      BY <1>1, <2>2 DEF Up, At
    <3> QED
      BY <1>2, <1>5, <2>2, <3>1, Zenon
  <2>3. CASE k < Reach /\ IsDouble(k)
    <3>1. Up(k) = Reach + 2 + SlotInRoot(k) /\ At(k) = Slot(k)
      BY <1>1, <2>3 DEF Up, At, IsSingle, IsDouble
    <3>2. SlotInRoot(k) \in Slots
      BY <1>1, <2>3, WayShape
    <3> QED
      BY <1>6, <1>7, <2>3, <3>1, <3>2, Zenon
  <2> QED
    BY <1>1, <1>8, <2>1, <2>2, <2>3 DEF Own, IsSingle, IsDouble
<1> QED
  BY <1>2, <1>3, <1>8, Zenon

LEMMA PointerType ==
  ASSUME NEW N, NEW T, MapType(N, T), NEW f \in Files, NEW k \in Spots
  PROVE  PointerIn(N[f], T, k) \in Blocks \cup {0}
<1>1. N[f] \in NodeType /\ T \in TableType
  BY DEF MapType
<1>2. ASSUME NEW b \in Blocks \cup {0}, NEW s \in Slots
      PROVE  TableAt(T, b)[s] \in Blocks \cup {0}
  BY <1>1 DEF TableAt, TableType, Zeros
<1>3. ASSUME NEW j \in Spots, Own(j)
      PROVE  PointerIn(N[f], T, j) \in Blocks \cup {0}
  <2>1. j < Direct => N[f].direct[j] \in Blocks \cup {0}
    BY <1>1, MapShape DEF NodeType
  <2>2. N[f].single \in Blocks \cup {0} /\ N[f].double \in Blocks \cup {0}
    BY <1>1 DEF NodeType
  <2> QED
    BY <1>3, <2>1, <2>2, Ways DEF Own
<1>4. ASSUME NEW j \in Spots, ~Own(j), PointerIn(N[f], T, Up(j)) \in Blocks \cup {0}
      PROVE  PointerIn(N[f], T, j) \in Blocks \cup {0}
  <2>1. At(j) \in Slots
    BY <1>4, UpShape
  <2> QED
    BY <1>2, <1>4, <2>1, Ways
<1>5. Reach + 1 \in Spots /\ Own(Reach + 1)
  BY MapShape DEF Own
<1>6. ASSUME ~Own(k), ~Own(Up(k))
      PROVE  PointerIn(N[f], T, k) \in Blocks \cup {0}
  <2>1. Up(k) \in Spots /\ Up(Up(k)) = Reach + 1
    BY <1>6, UpShape
  <2> QED
    BY <1>3, <1>4, <1>5, <1>6, <2>1
<1>7. ~Own(k) => Up(k) \in Spots
  BY UpShape
<1> QED
  BY <1>3, <1>4, <1>6, <1>7

\* The pointer in place k of file f becomes b, and nothing else changes.
Puts(N, T, M, U, f, k, b) ==
  \A g \in Files, j \in Spots :
    PointerIn(M[g], U, j) = IF g = f /\ j = k THEN b ELSE PointerIn(N[g], T, j)

\* Pointers are cleared or left.
Lowers(N, T, M, U) ==
  \A g \in Files, j \in Spots :
    PointerIn(M[g], U, j) # 0 => PointerIn(M[g], U, j) = PointerIn(N[g], T, j)

\* The change of one pointer leaves the others, when what it pointed to before and
\* what it points to now is empty.
LEMMA Putting ==
  ASSUME NEW N, NEW T, NEW M, NEW U, NEW f \in Files, NEW k \in Spots, NEW b,
         \A g \in Files, j \in Spots : Own(j) =>
           PointerIn(M[g], U, j) = IF g = f /\ j = k THEN b ELSE PointerIn(N[g], T, j),
         \A g \in Files, j \in Spots : ~Own(j) /\ ~(g = f /\ Up(j) = k) =>
           TableAt(U, PointerIn(N[g], T, Up(j)))[At(j)] =
             IF g = f /\ j = k THEN b ELSE TableAt(T, PointerIn(N[g], T, Up(j)))[At(j)],
         \A j \in Spots : ~Own(j) /\ Up(j) = k =>
           TableAt(U, b)[At(j)] = TableAt(T, PointerIn(N[f], T, k))[At(j)]
  PROVE  Puts(N, T, M, U, f, k, b)
<1> DEFINE Right(g, j) ==
             PointerIn(M[g], U, j) = IF g = f /\ j = k THEN b ELSE PointerIn(N[g], T, j)
<1>1. ASSUME NEW g \in Files, NEW j \in Spots, ~Own(j), Right(g, Up(j))
      PROVE  Right(g, j)
  <2>1. PointerIn(M[g], U, j) = TableAt(U, PointerIn(M[g], U, Up(j)))[At(j)]
    BY <1>1, Ways
  <2>2. PointerIn(N[g], T, j) = TableAt(T, PointerIn(N[g], T, Up(j)))[At(j)]
    BY <1>1, Ways
  <2>3. Up(j) # j
    BY <1>1, UpShape
  <2>4. CASE g = f /\ Up(j) = k
    BY <1>1, <2>1, <2>2, <2>3, <2>4, Zenon
  <2>5. CASE ~(g = f /\ Up(j) = k)
    <3>1. PointerIn(M[g], U, Up(j)) = PointerIn(N[g], T, Up(j))
      BY <1>1, <2>5, Zenon
    <3> QED
      BY <1>1, <2>1, <2>2, <2>5, <3>1, Zenon
  <2> QED
    BY <2>4, <2>5, Zenon
<1>2. ASSUME NEW g \in Files, NEW j \in Spots
      PROVE  Right(g, j)
  <2>1. Reach + 1 \in Spots /\ Own(Reach + 1)
    BY MapShape DEF Own
  <2>2. CASE Own(j)
    BY <2>2, Zenon
  <2>3. CASE ~Own(j) /\ Own(Up(j))
    <3>1. Up(j) \in Spots
      BY <2>3, UpShape
    <3> QED
      BY <1>1, <2>3, <3>1, Zenon
  <2>4. CASE ~Own(j) /\ ~Own(Up(j))
    <3>1. Up(j) \in Spots /\ Up(Up(j)) = Reach + 1
      BY <2>4, UpShape
    <3>2. Right(g, Reach + 1)
      BY <2>1, Zenon
    <3>3. Right(g, Up(j))
      BY <1>1, <2>4, <3>1, <3>2, Zenon
    <3> QED
      BY <1>1, <2>4, <3>3, Zenon
  <2> QED
    BY <2>2, <2>3, <2>4, Zenon
<1> QED
  BY <1>2, Zenon DEF Puts

\* No block is pointed to from two places.
Apart(N, T) == \A f, g \in Files, j, k \in Spots :
  PointerIn(N[f], T, j) # 0 /\ PointerIn(N[f], T, j) = PointerIn(N[g], T, k) => f = g /\ j = k

LEMMA ApartIs ==
  ASSUME NEW N, NEW T, Apart(N, T), NEW f \in Files, NEW g \in Files,
         NEW j \in Spots, NEW k \in Spots,
         PointerIn(N[f], T, j) # 0, ~(f = g /\ j = k)
  PROVE  PointerIn(N[f], T, j) # PointerIn(N[g], T, k)
BY SMT DEF Apart

Unused(N, T, b) == \A g \in Files, j \in Spots : PointerIn(N[g], T, j) # b

LEMMA OwnPlace ==
  ASSUME NEW n, NEW t, NEW u, NEW k \in Spots, Own(k)
  PROVE  PointerIn(n, t, k) = PointerIn(n, u, k)
<1>1. CASE k < Direct
  BY <1>1, Ways
<1>2. CASE k = Reach
  BY <1>2, Ways
<1>3. CASE k = Reach + 1
  BY <1>3, Ways
<1> QED
  BY <1>1, <1>2, <1>3 DEF Own

LEMMA PutOwn ==
  ASSUME NEW N, NEW T, MapType(N, T), NEW M, NEW U, NEW f \in Files, NEW k \in Spots, Own(k),
         NEW b, b # 0 => Unused(N, T, b),
         \A g \in Files : g # f => M[g] = N[g],
         \A j \in Spots : Own(j) =>
           PointerIn(M[f], U, j) = IF j = k THEN b ELSE PointerIn(N[f], T, j),
         \A c \in Blocks : c # b => U[c] = T[c],
         k >= Reach => TableAt(U, b) = Zeros /\ TableAt(T, PointerIn(N[f], T, k)) = Zeros
  PROVE  Puts(N, T, M, U, f, k, b)
<1>1. ASSUME NEW g \in Files, NEW j \in Spots, Own(j)
      PROVE  PointerIn(M[g], U, j) = IF g = f /\ j = k THEN b ELSE PointerIn(N[g], T, j)
  <2>1. CASE g = f
    BY <1>1, <2>1, Zenon
  <2>2. CASE g # f
    <3>1. M[g] = N[g]
      BY <2>2
    <3>2. PointerIn(M[g], U, j) = PointerIn(M[g], T, j)
      BY <1>1, OwnPlace
    <3> QED
      BY <2>2, <3>1, <3>2, Zenon
  <2> QED
    BY <2>1, <2>2, Zenon
<1>2. ASSUME NEW g \in Files, NEW j \in Spots
      PROVE  TableAt(U, PointerIn(N[g], T, j)) = TableAt(T, PointerIn(N[g], T, j))
  <2>1. PointerIn(N[g], T, j) \in Blocks \cup {0}
    BY PointerType
  <2>2. PointerIn(N[g], T, j) # b \/ PointerIn(N[g], T, j) = 0
    BY DEF Unused
  <2> QED
    BY <2>1, <2>2, Zenon DEF TableAt
<1>3. ASSUME NEW g \in Files, NEW j \in Spots, ~Own(j)
      PROVE  TableAt(U, PointerIn(N[g], T, Up(j)))[At(j)] =
               IF g = f /\ j = k THEN b ELSE TableAt(T, PointerIn(N[g], T, Up(j)))[At(j)]
  <2>1. Up(j) \in Spots /\ j # k
    BY <1>3, UpShape
  <2> QED
    BY <1>2, <2>1, Zenon
<1>4. ASSUME NEW j \in Spots, ~Own(j), Up(j) = k
      PROVE  TableAt(U, b)[At(j)] = TableAt(T, PointerIn(N[f], T, k))[At(j)]
  <2>1. k >= Reach
    BY <1>4, UpShape
  <2> QED
    BY <2>1, Zenon
<1> QED
  BY <1>1, <1>3, <1>4, Putting

LEMMA PutEntry ==
  ASSUME NEW N, NEW T, MapType(N, T), Apart(N, T), NEW U,
         NEW f \in Files, NEW k \in Spots, ~Own(k), NEW b, b # 0 => Unused(N, T, b),
         NEW leaf, leaf = PointerIn(N[f], T, Up(k)), leaf # 0,
         \A c \in Blocks : c # leaf /\ c # b => U[c] = T[c],
         \A s \in Slots : U[leaf][s] = IF s = At(k) THEN b ELSE T[leaf][s],
         k > Reach => TableAt(U, b) = Zeros /\ TableAt(T, PointerIn(N[f], T, k)) = Zeros
  PROVE  Puts(N, T, N, U, f, k, b)
<1>1. ASSUME NEW g \in Files, NEW j \in Spots, Own(j)
      PROVE  PointerIn(N[g], U, j) = IF g = f /\ j = k THEN b ELSE PointerIn(N[g], T, j)
  <2>1. j # k
    BY <1>1, Zenon
  <2>2. PointerIn(N[g], U, j) = PointerIn(N[g], T, j)
    BY <1>1, OwnPlace
  <2> QED
    BY <2>1, <2>2, Zenon
<1>2. ASSUME NEW g \in Files, NEW j \in Spots, ~Own(j)
      PROVE  TableAt(U, PointerIn(N[g], T, Up(j)))[At(j)] =
               IF g = f /\ j = k THEN b ELSE TableAt(T, PointerIn(N[g], T, Up(j)))[At(j)]
  <2> DEFINE c == PointerIn(N[g], T, Up(j))
  <2>1. Up(j) \in Spots /\ At(j) \in Slots /\ Up(k) \in Spots
    BY <1>2, UpShape
  <2>2. c \in Blocks \cup {0}
    BY <2>1, PointerType
  <2>3. 0 \notin Blocks
    BY GroupShape
  <2>4. CASE c = leaf
    <3>1. g = f /\ Up(j) = Up(k)
      BY <2>1, <2>4 DEF Apart
    <3>2. At(j) = At(k) => j = k
      BY <1>2, <3>1, UpDiffers
    <3>3. TableAt(U, c) = U[leaf] /\ TableAt(T, c) = T[leaf]
      BY <2>4, Zenon DEF TableAt
    <3> QED
      BY <2>1, <2>4, <3>1, <3>2, <3>3, Zenon
  <2>5. CASE c # leaf
    <3>1. c # 0 => c # b
      BY <2>1, Zenon DEF Unused
    <3>2. TableAt(U, c) = TableAt(T, c)
      BY <2>2, <2>5, <3>1, Zenon DEF TableAt
    <3>3. ~(g = f /\ j = k)
      BY <2>5, Zenon
    <3> QED
      BY <3>2, <3>3, Zenon
  <2> QED
    BY <2>4, <2>5, Zenon
<1>3. ASSUME NEW j \in Spots, ~Own(j), Up(j) = k
      PROVE  TableAt(U, b)[At(j)] = TableAt(T, PointerIn(N[f], T, k))[At(j)]
  <2>1. k > Reach
    BY <1>3, UpShape, MapShape DEF Own
  <2> QED
    BY <2>1, Zenon
<1> QED
  BY <1>1, <1>2, <1>3, Putting

LEMMA Lowering ==
  ASSUME NEW N, NEW T, MapType(N, T), NEW M, NEW U, MapType(M, U),
         \A g \in Files, j \in Spots : Own(j) /\ PointerIn(M[g], U, j) # 0 =>
           PointerIn(M[g], U, j) = PointerIn(N[g], T, j),
         \A c \in Blocks, s \in Slots : U[c][s] # 0 => U[c][s] = T[c][s]
  PROVE  Lowers(N, T, M, U)
<1> DEFINE Right(g, j) ==
             PointerIn(M[g], U, j) # 0 => PointerIn(M[g], U, j) = PointerIn(N[g], T, j)
<1>1. ASSUME NEW g \in Files, NEW j \in Spots, ~Own(j), Right(g, Up(j))
      PROVE  Right(g, j)
  <2> DEFINE c == PointerIn(M[g], U, Up(j))
  <2>1. Up(j) \in Spots /\ At(j) \in Slots
    BY <1>1, UpShape
  <2>2. c \in Blocks \cup {0}
    BY <2>1, PointerType
  <2>3. PointerIn(M[g], U, j) = TableAt(U, c)[At(j)]
    BY <1>1, Ways
  <2>4. PointerIn(N[g], T, j) = TableAt(T, PointerIn(N[g], T, Up(j)))[At(j)]
    BY <1>1, Ways
  <2>5. CASE c = 0
    <3>1. TableAt(U, c)[At(j)] = 0
      BY <2>1, <2>5 DEF TableAt, Zeros
    <3> QED
      BY <2>3, <3>1, Zenon
  <2>6. CASE c # 0
    <3>1. PointerIn(N[g], T, Up(j)) = c /\ c \in Blocks
      BY <1>1, <2>2, <2>6
    <3>2. TableAt(U, c) = U[c] /\ TableAt(T, c) = T[c]
      BY <2>6, Zenon DEF TableAt
    <3> QED
      BY <2>1, <2>3, <2>4, <3>1, <3>2, Zenon
  <2> QED
    BY <2>5, <2>6, Zenon
<1>2. ASSUME NEW g \in Files, NEW j \in Spots
      PROVE  Right(g, j)
  <2>1. Reach + 1 \in Spots /\ Own(Reach + 1)
    BY MapShape DEF Own
  <2>2. CASE Own(j)
    BY <2>2, Zenon
  <2>3. CASE ~Own(j) /\ Own(Up(j))
    <3>1. Up(j) \in Spots
      BY <2>3, UpShape
    <3> QED
      BY <1>1, <2>3, <3>1, Zenon
  <2>4. CASE ~Own(j) /\ ~Own(Up(j))
    <3>1. Up(j) \in Spots /\ Up(Up(j)) = Reach + 1
      BY <2>4, UpShape
    <3>2. Right(g, Reach + 1)
      BY <2>1, Zenon
    <3>3. Right(g, Up(j))
      BY <1>1, <2>4, <3>1, <3>2, Zenon
    <3> QED
      BY <1>1, <2>4, <3>3, Zenon
  <2> QED
    BY <2>2, <2>3, <2>4, Zenon
<1> QED
  BY <1>2, Zenon DEF Lowers

\* Neither shares a block.
LEMMA PutsStaysApart ==
  ASSUME NEW N, NEW T, NEW M, NEW U, Apart(N, T), NEW f, NEW k, NEW b,
         b # 0 => Unused(N, T, b), Puts(N, T, M, U, f, k, b)
  PROVE  Apart(M, U)
<1> DEFINE new(g, j) == PointerIn(M[g], U, j)
           old(g, j) == PointerIn(N[g], T, j)
<1>1. ASSUME NEW g \in Files, NEW h \in Files, NEW i \in Spots, NEW j \in Spots,
             new(g, i) # 0, new(g, i) = new(h, j)
      PROVE  g = h /\ i = j
  <2>1. /\ new(g, i) = IF g = f /\ i = k THEN b ELSE old(g, i)
        /\ new(h, j) = IF h = f /\ j = k THEN b ELSE old(h, j)
    BY Zenon DEF Puts
  <2>2. b # 0 => old(g, i) # b /\ old(h, j) # b
    BY Zenon DEF Unused
  <2>3. old(g, i) # 0 /\ old(g, i) = old(h, j) => g = h /\ i = j
    BY SMT DEF Apart
  <2> HIDE DEF new, old
  <2> QED
    BY <1>1, <2>1, <2>2, <2>3
<1> QED
  BY <1>1, SMT DEF Apart

LEMMA LowersStaysApart ==
  ASSUME NEW N, NEW T, NEW M, NEW U, Apart(N, T), Lowers(N, T, M, U)
  PROVE  Apart(M, U)
<1>1. ASSUME NEW f \in Files, NEW g \in Files, NEW j \in Spots, NEW k \in Spots,
             PointerIn(M[f], U, j) # 0, PointerIn(M[f], U, j) = PointerIn(M[g], U, k)
      PROVE  f = g /\ j = k
  <2>1. /\ PointerIn(M[f], U, j) = PointerIn(N[f], T, j)
        /\ PointerIn(M[g], U, k) = PointerIn(N[g], T, k)
    BY <1>1, Zenon DEF Lowers
  <2>2. PointerIn(N[f], T, j) # 0 /\ PointerIn(N[f], T, j) = PointerIn(N[g], T, k)
    BY <1>1, <2>1, Zenon
  <2> QED
    BY <2>2, SMT DEF Apart
<1> QED
  BY <1>1, SMT DEF Apart

-----------------------------------------------------------------------------
(* The invariant.                                                          *)

Points(f, k) == PointerIn(node[f], table, k)

Unshared == Apart(node, table)

NotMeta == \A f \in Files, k \in Spots : Points(f, k) \notin Meta

\* The block at hand was taken from the map, and the map still has it.
Taken == Truncating /\ pc \in {"root", "leaf", "point"}

Marked ==
  \A f \in Files, k \in Spots :
    Points(f, k) # 0 => Points(f, k) \in marked \/ (Taken /\ Points(f, k) = op.block)

\* The block at hand is the one in the map, or is new and nowhere in a map.
Hand ==
  /\ pc \notin {"idle", "find", "alloc"} => op.block # 0
  /\ pc \in {"alloc", "undo", "data"} => ~Truncating
  /\ pc = "free" => Truncating
  /\ Taken \/ pc = "free" => Points(File, op.at) = op.block
  /\ ~Truncating /\ pc \in {"root", "leaf", "point", "undo"} =>
       /\ op.block \in marked \ Meta
       /\ \A f \in Files, k \in Spots : Points(f, k) # op.block

\* The call works on a block of its file, and the way to its pointer is there.
Call ==
  pc # "idle" =>
    /\ op.file \in Files /\ op.call # "none" /\ op.at < op.end
    /\ op.call = "pad" => op.from < op.until
    /\ pc \in {"root", "sweep"} => ~IsDirect(op.at)
    /\ pc \in {"leaf", "sweep root"} => IsDouble(op.at) /\ Node.double # 0
    /\ pc \in {"point", "sweep"} /\ ~IsDirect(op.at) => LeafOf(File, op.at) # 0

\* When nothing has failed, what is marked is accounted for.
Accounted == Sound =>
  /\ \A b \in marked : b \in Meta \cup InHand \/ \E f \in Files, k \in Spots : Points(f, k) = b
  /\ Taken => op.block \notin marked
  /\ ~Truncating /\ pc \in {"alloc", "root", "leaf", "point"} => Points(File, op.at) = 0

Counted ==
  /\ Meta \subseteq marked
  /\ CountsAgree

IInv == dangling = {} /\ TypeOK /\ Counted /\ Call /\ Unshared /\ NotMeta /\ Marked /\ Hand /\ Accounted

-----------------------------------------------------------------------------
(* What the steps have in common.                                          *)

OpType ==
  [call : {"none", "pad", "write", "truncate"}, file : Files \cup {Nobody},
   from : 0..Reach, at : 0..Reach, end : 0..Reach, until : 0..Reach,
   block : Blocks \cup {0}]

LEMMA TypeOKIs ==
  ASSUME TypeOK
  PROVE  MapType(node, table) /\ op \in OpType
BY DEF TypeOK, MapType, NodeType, TableType, OpType

LEMMA LeafIs ==
  ASSUME NEW f \in Files, NEW k \in Nat, k < Reach, ~IsDirect(k)
  PROVE  /\ LeafOf(f, k) = Points(f, Up(k))
         /\ k \in Spots /\ ~Own(k) /\ At(k) = Slot(k)
         /\ IsSingle(k) => Up(k) = Reach /\ LeafOf(f, k) = node[f].single
         /\ ~IsSingle(k) => IsDouble(k) /\ SlotInRoot(k) \in Slots
         /\ IsDouble(k) => Up(k) = Reach + 2 + SlotInRoot(k)
                           /\ LeafOf(f, k) = TableAt(table, node[f].double)[SlotInRoot(k)]
<1>1. k \in Spots /\ ~Own(k) /\ ~(k > Reach + 1) /\ k # Reach /\ k # Reach + 1
  BY MapShape DEF Own, IsDirect
<1>2. At(k) = Slot(k)
  BY <1>1, Zenon DEF At
<1>3. CASE IsSingle(k)
  <2>1. Up(k) = Reach /\ LeafOf(f, k) = node[f].single
    BY <1>1, <1>3, Zenon DEF Up, LeafOf
  <2>2. Points(f, Reach) = node[f].single
    BY MapShape, Ways DEF Points
  <2>3. ~IsDouble(k)
    BY <1>3, MapShape DEF IsSingle, IsDouble
  <2> QED
    BY <1>1, <1>2, <1>3, <2>1, <2>2, <2>3, Zenon
<1>4. CASE ~IsSingle(k)
  <2>1. IsDouble(k)
    BY <1>1, <1>4, MapShape DEF IsDirect, IsSingle, IsDouble
  <2>2. SlotInRoot(k) \in Slots
    BY <2>1, WayShape
  <2> DEFINE j == Reach + 2 + SlotInRoot(k)
  <2>3. Up(k) = j
    BY <1>1, <1>4, Zenon DEF Up
  <2>4. LeafOf(f, k) = TableAt(table, node[f].double)[SlotInRoot(k)]
    BY <1>4, Zenon DEF LeafOf, Entries, TableAt
  <2>5. /\ j \in Spots /\ j > Reach + 1 /\ ~Own(j) /\ j - Reach - 2 = SlotInRoot(k)
        /\ Reach + 1 \in Spots
    <3>1. SlotInRoot(k) \in Nat /\ Reach \in Nat /\ Direct \in Nat /\ Reach >= Direct
      <4>1. SlotInRoot(k) \in Nat
        BY <2>2, MapShape, Zenon
      <4> QED
        BY <4>1, MapShape
    <3>2. j \in Spots /\ Reach + 1 \in Spots
      BY <2>2, MapShape, Zenon
    <3>3. ASSUME NEW a \in Nat, NEW r \in Nat, NEW d \in Nat, r >= d
          PROVE  /\ r + 2 + a > r + 1 /\ ~(r + 2 + a < d) /\ r + 2 + a # r
                 /\ r + 2 + a # r + 1 /\ r + 2 + a - r - 2 = a
      BY <3>3
    <3>4. /\ j > Reach + 1 /\ ~(j < Direct) /\ j # Reach /\ j # Reach + 1
          /\ j - Reach - 2 = SlotInRoot(k)
      BY <3>1, <3>3
    <3> QED
      BY <3>2, <3>4, Zenon DEF Own
  <2>6. Up(j) = Reach + 1 /\ At(j) = SlotInRoot(k)
    BY <2>5, Zenon DEF Up, At
  <2>7. Points(f, Reach + 1) = node[f].double
    BY <2>5, Ways DEF Points
  <2>8. Points(f, j) = TableAt(table, Points(f, Up(j)))[At(j)]
    BY <2>5, Ways DEF Points
  <2> HIDE DEF j
  <2>9. LeafOf(f, k) = Points(f, Up(k))
    BY <2>3, <2>4, <2>6, <2>7, <2>8, Zenon
  <2> QED
    BY <1>1, <1>2, <1>4, <2>1, <2>2, <2>3, <2>4, <2>9, Zenon DEF j
<1> QED
  BY <1>3, <1>4

LEMMA MappedIs ==
  ASSUME NEW f \in Files, NEW k \in Nat, k < Reach
  PROVE  Mapped(f, k) = Points(f, k) /\ k \in Spots
<1>1. k \in Spots
  BY MapShape
<1>2. CASE IsDirect(k)
  BY <1>1, <1>2, Ways DEF IsDirect, Mapped, Points
<1>3. CASE ~IsDirect(k)
  <2>1. /\ LeafOf(f, k) = Points(f, Up(k)) /\ ~Own(k) /\ At(k) = Slot(k)
    BY <1>3, LeafIs
  <2>2. Points(f, k) = TableAt(table, Points(f, Up(k)))[At(k)]
    BY <1>1, <2>1, Ways DEF Points
  <2>3. Mapped(f, k) = TableAt(table, LeafOf(f, k))[Slot(k)]
    BY <1>3, Zenon DEF Mapped, Entries, TableAt
  <2> QED
    BY <1>1, <2>1, <2>2, <2>3, Zenon
<1> QED
  BY <1>2, <1>3

LEMMA BlockIs ==
  ASSUME NEW f \in Files, NEW k \in Spots
  PROVE  BlockAt(<<f, k>>) = Points(f, k)
<1>1. k \in Nat
  BY MapShape
<1>2. BlockAt(<<f, k>>) =
        IF k < Reach THEN Mapped(f, k)
        ELSE IF k = Reach THEN node[f].single
        ELSE IF k = Reach + 1 THEN node[f].double
        ELSE Entries(node[f].double)[k - Reach - 2]
  BY DEF BlockAt
<1>3. CASE k < Reach
  BY <1>1, <1>2, <1>3, MappedIs
<1>4. CASE ~(k < Reach)
  <2>1. ~(k < Direct) /\ ~(k < Direct + PerBlock)
    BY <1>1, <1>4, MapShape
  <2> QED
    BY <1>2, <1>4, <2>1, Zenon DEF Points, PointerIn, Entries, TableAt
<1> QED
  BY <1>3, <1>4

LEMMA PlaceIs ==
  /\ Place = Files \X Spots
  /\ \A f \in Files, k \in Spots :
       <<f, k>> \in Place /\ BlockAt(<<f, k>>) = Points(f, k)
<1>1. Place = Files \X Spots
  BY DEF Place, Spots
<1> QED
  BY <1>1, BlockIs

LEMMA SpaceSane ==
  ASSUME TypeOK, Counted
  PROVE  Sane(Space) /\ Space.block = 0 /\ Space.marked = marked
<1>1. marked \subseteq Blocks /\ free \in [0..(Groups - 1) -> 0..PerGroup]
  BY DEF TypeOK
<1>2. free \in [0..(Groups - 1) -> Int]
  BY <1>1, GroupShape
<1>3. \A g \in 0..(Groups - 1) : free[g] = Cardinality(InGroup(g) \ marked)
  BY <1>1 DEF Counted, CountsAgree
<1> QED
  BY <1>1, <1>2, <1>3 DEF Space, Sane, SpaceType, Counted

LEMMA SpaceStep ==
  ASSUME TypeOK, NEW s, Sane(s), SetSpace(s)
  PROVE  /\ marked' = s.marked /\ marked' \subseteq Blocks
         /\ free' \in [0..(Groups - 1) -> 0..PerGroup]
         /\ data' \in [Blocks -> Files \cup {Nobody, Zero}]
         /\ Counted'
<1>1. marked' = s.marked /\ free' = s.free
  BY DEF SetSpace
<1>2. s.marked \subseteq Blocks /\ Meta \subseteq s.marked
      /\ \A g \in 0..(Groups - 1) : s.free[g] = Cardinality(InGroup(g) \ s.marked)
  BY DEF Sane, SpaceType
<1>3. s.free \in [0..(Groups - 1) -> 0..PerGroup]
  BY SaneType
<1>4. data' \in [Blocks -> Files \cup {Nobody, Zero}]
  BY DEF SetSpace, TypeOK
<1>5. DOMAIN s.free = 0..(Groups - 1)
  BY <1>3
<1>6. Counted'
  BY <1>1, <1>2, <1>5, Zenon DEF Counted, CountsAgree
<1> QED
  BY <1>1, <1>2, <1>3, <1>4, <1>6

\* The call has ended, or goes on with the next block.
Onward ==
  /\ pc' \in {"idle", "find"} /\ op' \in OpType
  /\ pc' = "find" =>
       /\ op'.file \in Files /\ op'.call # "none" /\ op'.at < op'.end
       /\ op'.call = "pad" => op'.from < op'.until

LEMMA NoOpType == NoOp \in OpType
BY MapShape DEF NoOp, OpType

LEMMA FailsOnward ==
  ASSUME Fails
  PROVE  Onward
BY NoOpType DEF Fails, Onward

LEMMA LoopEndsOnward ==
  ASSUME op \in OpType, Call, pc # "idle", NEW n \in 0..Reach, LoopEnds(n)
  PROVE  Onward
<1>1. op.file \in Files /\ (op.call = "pad" => op.from < op.until)
  BY DEF Call
<1>2. 0 \in 0..Reach /\ NoOp \in OpType
  BY MapShape, NoOpType
<1>3. CASE op.call = "pad"
  <2> DEFINE o == [op EXCEPT !.call = "write", !.at = op.from, !.end = op.until, !.block = 0]
  <2>1. pc' = "find" /\ op' = o
    BY <1>3 DEF LoopEnds
  <2>2. /\ o \in OpType /\ o.file = op.file /\ o.call = "write"
        /\ o.at = op.from /\ o.end = op.until
    BY DEF OpType
  <2> HIDE DEF o
  <2> QED
    BY <1>1, <1>3, <2>1, <2>2 DEF Onward
<1>4. CASE op.call # "pad"
  <2> DEFINE o == [op EXCEPT !.at = n, !.end = 0, !.until = 0, !.block = 0]
  <2>1. pc' = "idle" /\ op' = IF Truncating THEN NoOp ELSE o
    BY <1>4 DEF LoopEnds
  <2>2. o \in OpType
    BY <1>2 DEF OpType
  <2> HIDE DEF o
  <2> QED
    BY <1>2, <2>1, <2>2 DEF Onward
<1> QED
  BY <1>3, <1>4

LEMMA NextBlockOnward ==
  ASSUME op \in OpType, Call, pc # "idle", NextBlock
  PROVE  Onward
<1>1. /\ op.file \in Files /\ op.call # "none" /\ op.at < op.end
      /\ op.call = "pad" => op.from < op.until
  BY DEF Call
<1>2. op.at \in Nat /\ op.end \in Nat /\ op.end <= Reach /\ Reach \in Nat
  BY MapShape DEF OpType
<1>3. op.at + 1 \in 0..Reach
  BY <1>1, <1>2
<1>4. CASE op.at + 1 = op.end
  BY <1>3, <1>4, LoopEndsOnward DEF NextBlock
<1>5. CASE op.at + 1 # op.end
  <2> DEFINE o == [op EXCEPT !.at = op.at + 1, !.block = 0]
  <2>1. pc' = "find" /\ op' = o
    BY <1>5 DEF NextBlock
  <2>2. /\ o \in OpType /\ o.file = op.file /\ o.call = op.call /\ o.at = op.at + 1
        /\ o.end = op.end /\ o.from = op.from /\ o.until = op.until
    BY <1>3 DEF OpType
  <2>3. op.at + 1 < op.end
    BY <1>1, <1>2, <1>5
  <2> HIDE DEF o
  <2> QED
    BY <1>1, <2>1, <2>2, <2>3 DEF Onward
<1> QED
  BY <1>4, <1>5

LEMMA OnwardCalls ==
  ASSUME Onward
  PROVE  Call'
BY DEF Onward, Call

LEMMA FaultIs ==
  ASSUME TypeOK, NEW points, NEW p, Fault(points, p)
  PROVE  /\ p \in points \cup {"none"}
         /\ faults' \in 0..MaxFaults
         /\ faults' = 0 => faults = 0 /\ p = "none"
         /\ p = "none" => faults' = faults
<1>1. faults \in 0..MaxFaults /\ MaxFaults \in Nat
  BY Ext2Assumption DEF TypeOK
<1>2. p = "none" => faults' = faults
  BY DEF Fault
<1>3. p # "none" => faults < MaxFaults /\ faults' = faults + 1
  BY DEF Fault
<1>4. p \in points \cup {"none"}
  BY DEF Fault
<1> QED
  BY <1>1, <1>2, <1>3, <1>4

\* No block is in hand: those in the maps are marked, and when nothing has failed
\* those that are marked are in the maps.
AllMarked == \A f \in Files, k \in Spots : Points(f, k) # 0 => Points(f, k) \in marked
AllMapped == \A b \in marked : b \in Meta \/ \E f \in Files, k \in Spots : Points(f, k) = b

LEMMA Settled ==
  ASSUME pc' \in {"idle", "find", "sweep", "sweep root", "data"},
         AllMarked', Sound' => AllMapped',
         pc' \in {"sweep", "sweep root", "data"} => op'.block # 0,
         pc' = "data" => ~Truncating'
  PROVE  Marked' /\ Hand' /\ Accounted'
<1>1. pc' \notin {"root", "leaf", "point", "undo", "alloc", "free"} /\ ~Taken'
  BY DEF Taken
<1>2. Marked'
  BY DEF Marked, AllMarked
<1>3. Hand'
  BY <1>1 DEF Hand
<1>4. Accounted'
  BY <1>1 DEF Accounted, AllMapped
<1> QED
  BY <1>2, <1>3, <1>4

LEMMA OnwardSettled ==
  ASSUME Onward, AllMarked', Sound' => AllMapped'
  PROVE  Call' /\ Marked' /\ Hand' /\ Accounted'
BY OnwardCalls, Settled DEF Onward

\* What is settled before
LEMMA WasSettled ==
  ASSUME Marked, Accounted, pc \in {"idle", "find", "free", "alloc", "sweep", "sweep root", "data"}
  PROVE  AllMarked /\ (Sound => AllMapped)
<1>1. ~Taken /\ InHand = {}
  BY DEF Taken, InHand
<1> QED
  BY <1>1 DEF Marked, Accounted, AllMarked, AllMapped

\* The pointers stay as they are.
Keeps == \A f \in Files, k \in Spots : Points(f, k)' = Points(f, k)

LEMMA SameKeeps ==
  ASSUME UNCHANGED <<node, table>>
  PROVE  Keeps
BY DEF Keeps, Points

LEMMA KeepsInvariants ==
  ASSUME Keeps, Unshared, NotMeta
  PROVE  Unshared' /\ NotMeta'
<1>1. Lowers(node, table, node', table')
  BY DEF Keeps, Points, Lowers
<1>2. Unshared'
  BY <1>1, LowersStaysApart DEF Unshared
<1>3. NotMeta'
  BY Zenon DEF NotMeta, Keeps
<1> QED
  BY <1>2, <1>3

LEMMA SameSettled ==
  ASSUME Keeps, marked' = marked
  PROVE  (AllMarked' <=> AllMarked) /\ (AllMapped' <=> AllMapped)
BY DEF Keeps, AllMarked, AllMapped

\* The indirect block in place k is there, or it was put there, or none could be.
MakesTable(k, next) ==
  /\ marked \subseteq marked'
  /\ \/ Keeps /\ Points(op.file, k) # 0 /\ pc' = next /\ op' = op /\ marked' = marked
     \/ Keeps /\ SetFails(Uncleared) /\ (Sound' => Points(op.file, k) = 0 /\ marked = Blocks)
     \/ /\ Points(op.file, k) = 0 /\ pc' = next /\ op' = op /\ marked # Blocks
        /\ \E b \in Blocks : Puts(node, table, node', table', op.file, k, b)

\* The pointer is set, or it cannot be.
SetsPointer ==
  \/ Puts(node, table, node', table', op.file, op.at, Pointer)
  \/ Keeps /\ SetFails(Uncleared) /\ ~Sound'

\* The indirect block in place k stays, or it is freed: what it had in it is lost early.
SweepsOut(k) ==
  LET b == Points(op.file, k)
  IN  \/ Keeps /\ marked' = marked /\ (Sound' => ~IsZeroed(table[b]))
      \/ /\ b # 0 /\ (~early' => table[b] = Zeros)
         /\ Sound' => marked' = marked \ {b} /\ Puts(node, table, node', table', op.file, k, 0)

\* setINodeBlock has come to its end.
LEMMA SetDoneIs ==
  ASSUME TypeOK, Call, pc # "idle", NEW n \in NodeType, SetDone(n)
  PROVE  /\ node' \in [Files -> NodeType]
         /\ \A g \in Files : g # File => node'[g] = node[g]
         /\ node'[File].direct = n.direct /\ node'[File].single = n.single
         /\ node'[File].double = n.double
         /\ Truncating => Onward
         /\ ~Truncating => pc' = "data" /\ op' = op
<1>1. op \in OpType /\ node \in [Files -> NodeType] /\ op.file \in Files /\ op.at < op.end
  BY TypeOKIs DEF MapType, Call
<1>2. PICK size \in 0..Reach : node' = [node EXCEPT ![File] = [n EXCEPT !.size = size]]
  <2>1. n.size \in Nat /\ n.size \in 0..Reach /\ 0 \in 0..Reach
    BY MapShape DEF NodeType
  <2>2. CASE Truncating
    BY <2>1, <2>2 DEF SetDone
  <2>3. CASE ~Truncating
    <3>1. op.at + 1 \in 0..Reach /\ op.at + 1 \in Nat /\ n.size + (op.end - op.at) \in Nat
      BY <1>1, <2>1, MapShape DEF OpType
    <3>2. Grown(n.size) \in 0..Reach
      <4> DEFINE a == op.at + 1
                 b == n.size + (op.end - op.at)
      <4>1. a \in Nat /\ b \in Nat /\ a <= Reach /\ Reach \in Nat /\ Grown(n.size) = Min({a, b})
        BY <3>1, MapShape DEF Grown
      <4> HIDE DEF a, b
      <4>2. Grown(n.size) = IF a <= b THEN a ELSE b
        BY <4>1, LeastOfTwo
      <4> QED
        BY <4>1, <4>2
    <3> QED
      BY <2>3, <3>2 DEF SetDone
  <2> QED
    BY <2>2, <2>3
<1> DEFINE m == [n EXCEPT !.size = size]
<1>3. m \in NodeType /\ m.direct = n.direct /\ m.single = n.single /\ m.double = n.double
  BY DEF NodeType
<1> HIDE DEF m
<1>4. node' = [node EXCEPT ![op.file] = m]
  BY <1>2 DEF m, File
<1>5. node' \in [Files -> NodeType] /\ node'[op.file] = m
      /\ \A g \in Files : g # op.file => node'[g] = node[g]
  BY <1>1, <1>3, <1>4
<1>6. Truncating => Onward
  BY <1>1, NextBlockOnward DEF SetDone
<1>7. ~Truncating => pc' = "data" /\ op' = op
  BY DEF SetDone
<1> QED
  BY <1>3, <1>5, <1>6, <1>7 DEF File

-----------------------------------------------------------------------------
(* The steps, one by one.                                                  *)

Pcs == {"idle", "find", "free", "alloc", "root", "leaf", "point", "sweep", "sweep root",
        "undo", "data"}
DataType == [Blocks -> Files \cup {Nobody, Zero}]
FreeType == [0..(Groups - 1) -> 0..PerGroup]

LEMMA TypeOKStep ==
  ASSUME marked' \subseteq Blocks, free' \in FreeType, data' \in DataType,
         MapType(node', table'), op' \in OpType, pc' \in Pcs,
         calls' \in 0..MaxCalls, faults' \in 0..MaxFaults,
         early' \in BOOLEAN, dangling' \subseteq Blocks
  PROVE  TypeOK'
BY DEF TypeOK, MapType, NodeType, TableType, OpType, Pcs, DataType, FreeType

LEMMA TypeOKParts ==
  ASSUME TypeOK
  PROVE  /\ marked \subseteq Blocks /\ free \in FreeType /\ data \in DataType
         /\ MapType(node, table) /\ op \in OpType /\ pc \in Pcs
         /\ calls \in 0..MaxCalls /\ faults \in 0..MaxFaults
         /\ early \in BOOLEAN /\ dangling \subseteq Blocks
BY DEF TypeOK, MapType, NodeType, TableType, OpType, Pcs, DataType, FreeType

\* No step changes a count of calls but the first of a call.
LEMMA CallBegins ==
  ASSUME TypeOK, Called
  PROVE  calls' \in 0..MaxCalls /\ pc' = "find"
<1>1. calls \in 0..MaxCalls /\ MaxCalls \in Nat
  BY Ext2Assumption DEF TypeOK
<1> QED
  BY <1>1 DEF Called

\* No file has a block.
LEMMA InitEmpty ==
  ASSUME Init, NEW f \in Files, NEW k \in Spots
  PROVE  Points(f, k) = 0
<1>1. \A j \in Spots : Own(j) => PointerIn(node[f], table, j) = 0
  <2>1. /\ \A j \in Spots : j < Direct => node[f].direct[j] = 0
        /\ node[f].single = 0 /\ node[f].double = 0
    BY MapShape DEF Init
  <2> QED
    BY <2>1, Ways DEF Own
<1>2. ASSUME NEW s \in Slots PROVE TableAt(table, 0)[s] = 0
  BY DEF TableAt, Zeros
<1>3. ASSUME NEW j \in Spots, ~Own(j), PointerIn(node[f], table, Up(j)) = 0
      PROVE  PointerIn(node[f], table, j) = 0
  <2>1. At(j) \in Slots
    BY <1>3, UpShape
  <2> QED
    BY <1>2, <1>3, <2>1, Ways
<1>4. Reach + 1 \in Spots /\ Own(Reach + 1)
  BY MapShape DEF Own
<1>5. ~Own(k) => Up(k) \in Spots /\ (Own(Up(k)) \/ Up(Up(k)) = Reach + 1)
  BY UpShape
<1> QED
  BY <1>1, <1>3, <1>4, <1>5 DEF Points

LEMMA InitInvariant == Init => IInv
<1> SUFFICES ASSUME Init PROVE IInv
  OBVIOUS
<1>1. Groups \in Nat /\ PerGroup \in Nat /\ MaxCalls \in Nat /\ MaxFaults \in Nat
  BY Ext2Assumption
<1>2. free = [g \in 0..(Groups - 1) |-> Cardinality(InGroup(g) \ marked)] /\ marked = Meta
  BY DEF Init
<1>3. free \in FreeType
  BY <1>2, GroupSize DEF FreeType
<1>4. MapType(node, table)
  <2>1. 0 \in 0..Reach
    BY MapShape
  <2> QED
    BY <2>1 DEF Init, MapType, NodeType, TableType, Zeros
<1>5. op = NoOp /\ NoOp \in OpType
  BY MapShape DEF Init, NoOp, OpType
<1>6. TypeOK
  <2>1. data \in DataType /\ pc \in Pcs
    BY DEF Init, DataType, Pcs
  <2>2. marked \subseteq Blocks
    BY <1>2, GroupShape
  <2>3. calls \in 0..MaxCalls /\ faults \in 0..MaxFaults /\ early \in BOOLEAN
        /\ dangling \subseteq Blocks
    <3>1. calls = 0 /\ faults = 0
      BY DEF Init
    <3>2. early \in BOOLEAN /\ dangling \subseteq Blocks
      BY DEF Init
    <3>3. 0 \in 0..MaxCalls /\ 0 \in 0..MaxFaults
      BY <1>1
    <3> QED
      BY <3>1, <3>2, <3>3, Zenon
  <2> QED
    BY <1>3, <1>4, <1>5, <2>1, <2>2, <2>3
    DEF TypeOK, MapType, NodeType, TableType, OpType, Pcs, DataType, FreeType
<1>7. \A f \in Files, k \in Spots : Points(f, k) = 0
  BY InitEmpty
<1>8. 0 \notin Meta
  BY GroupShape
<1>9. Unshared /\ NotMeta /\ Marked
  BY <1>7, <1>8 DEF Unshared, Apart, NotMeta, Marked, Points
<1>10. Call /\ Hand /\ Accounted
  BY <1>2 DEF Init, Call, Hand, Taken, Accounted
<1>11. Counted
  BY <1>2 DEF Counted, CountsAgree
<1>12. dangling = {}
  BY DEF Init
<1> QED
  BY <1>6, <1>9, <1>10, <1>11, <1>12 DEF IInv

\* A call begins.
LEMMA BeginKeeps ==
  ASSUME IInv, dangling' = {}, pc = "idle", Called, op' \in OpType,
         op'.file \in Files, op'.call # "none", op'.at < op'.end,
         op'.call = "pad" => op'.from < op'.until,
         UNCHANGED <<Disk, node, faults, early, dangling>>
  PROVE  IInv'
<1>1. TypeOK /\ Counted /\ Unshared /\ NotMeta /\ Marked /\ Accounted
  BY DEF IInv
<1>2. Onward
  BY <1>1, CallBegins DEF Onward
<1>3. UNCHANGED <<marked, free, table, data, node>> /\ early' = early /\ dangling' = dangling
      /\ faults' = faults
  BY DEF Disk
<1>4. TypeOK'
  BY <1>1, <1>2, <1>3, TypeOKParts, TypeOKStep, CallBegins DEF Onward, Pcs
<1>5. Counted'
  BY <1>1, <1>3 DEF Counted, CountsAgree
<1>6. Keeps
  BY <1>3, SameKeeps
<1>7. AllMarked' /\ (Sound' => AllMapped')
  BY <1>1, <1>3, <1>6, WasSettled, SameSettled DEF Sound
<1> QED
  BY <1>1, <1>2, <1>4, <1>5, <1>6, <1>7, KeepsInvariants, OnwardSettled DEF IInv

\* what a call is told
Begun(f) ==
  /\ op' \in OpType /\ op'.file = f /\ op'.call # "none" /\ op'.at < op'.end
  /\ op'.call = "pad" => op'.from < op'.until
  /\ op'.block = 0 /\ pc = "idle" /\ Called
  /\ UNCHANGED <<Disk, node, faults, early, dangling>>

LEMMA WriteBegins ==
  ASSUME TypeOK, NEW f \in Files, NEW position \in 0..Reach, NEW length \in 1..MaxLength,
         Write(f, position, length)
  PROVE  Begun(f)
<1> DEFINE size == node[f].size
           pad == position > size
           o == [NoOp EXCEPT !.file = f, !.from = position, !.until = position + length,
                   !.call = IF pad THEN "pad" ELSE "write",
                   !.at = Min({position, size}),
                   !.end = IF pad THEN position ELSE position + length]
<1>1. op' = o /\ Called /\ pc = "idle"
      /\ UNCHANGED <<Disk, node, faults, early, dangling>>
  BY DEF Write, AtPc
<1>2. /\ size \in 0..Reach /\ Reach \in Nat /\ length \in Nat /\ length > 0
      /\ position \in Nat /\ position + length \in 0..Reach
  <2>1. size \in 0..Reach
    <3>1. node[f] \in NodeType
      BY TypeOKParts DEF MapType
    <3> QED
      BY <3>1 DEF NodeType
  <2>2. length \in Nat /\ length > 0 /\ position \in Nat
    BY MapShape, Ext2Assumption
  <2>3. position + length <= Reach
    BY DEF Write
  <2> HIDE DEF size
  <2> QED
    BY <2>1, <2>2, <2>3, MapShape
<1>3. Min({position, size}) = IF position <= size THEN position ELSE size
  BY <1>2, LeastOfTwo
<1> HIDE DEF size
<1>4. /\ o.file = f /\ o.from = position /\ o.until = position + length
      /\ o.call = IF pad THEN "pad" ELSE "write"
      /\ o.at = Min({position, size}) /\ o.end = IF pad THEN position ELSE position + length
      /\ o.block = 0
  BY DEF NoOp
<1>5. /\ o.at \in 0..Reach /\ o.end \in 0..Reach /\ o.at < o.end
      /\ o.from \in 0..Reach /\ o.until \in 0..Reach /\ o.from < o.until
  BY <1>2, <1>3, <1>4
<1>6. o \in OpType
  <2>1. NoOp \in OpType
    BY NoOpType
  <2> DEFINE at == Min({position, size})
             call == IF pad THEN "pad" ELSE "write"
             end == IF pad THEN position ELSE position + length
  <2>2. at \in 0..Reach /\ position + length \in 0..Reach /\ call \in {"pad", "write"}
        /\ end \in 0..Reach
    BY <1>2, <1>4, <1>5
  <2> HIDE DEF at, call, end
  <2>3. [NoOp EXCEPT !.file = f, !.from = position, !.until = position + length,
           !.call = call, !.at = at, !.end = end] \in OpType
    BY <2>1, <2>2 DEF OpType
  <2> QED
    BY <2>3 DEF at, call, end
<1> HIDE DEF o
<1> QED
  BY <1>1, <1>4, <1>5, <1>6 DEF Begun

LEMMA TruncateBegins ==
  ASSUME TypeOK, NEW f \in Files, Truncate(f)
  PROVE  Begun(f)
<1> DEFINE o == [NoOp EXCEPT !.call = "truncate", !.file = f, !.end = node[f].size]
<1>1. op' = o /\ Called /\ pc = "idle"
      /\ UNCHANGED <<Disk, node, faults, early, dangling>>
  BY DEF Truncate, AtPc
<1>2. node[f].size \in 0..Reach /\ node[f].size > 0 /\ 0 \in 0..Reach
  <2>1. node[f] \in NodeType
    BY TypeOKParts DEF MapType
  <2>2. node[f].size > 0
    BY DEF Truncate
  <2> QED
    BY <2>1, <2>2, MapShape DEF NodeType
<1>3. o \in OpType /\ o.file = f /\ o.call = "truncate" /\ o.at = 0 /\ o.end = node[f].size
      /\ o.block = 0
  BY <1>2 DEF OpType, NoOp
<1> HIDE DEF o
<1> QED
  BY <1>1, <1>2, <1>3 DEF Begun

LEMMA WriteStep ==
  ASSUME IInv, dangling' = {},
         NEW f \in Files, NEW position \in 0..Reach, NEW length \in 1..MaxLength,
         Write(f, position, length)
  PROVE  IInv'
<1>1. Begun(f)
  BY WriteBegins DEF IInv
<1> QED
  BY <1>1, BeginKeeps DEF Begun

LEMMA TruncateStep ==
  ASSUME IInv, dangling' = {}, NEW f \in Files, Truncate(f)
  PROVE  IInv'
<1>1. Begun(f)
  BY TruncateBegins DEF IInv
<1> QED
  BY <1>1, BeginKeeps DEF Begun

LEMMA FindStep ==
  ASSUME IInv, dangling' = {}, Find
  PROVE  IInv'
<1>1. TypeOK /\ Counted /\ Call /\ Unshared /\ NotMeta /\ Marked /\ Hand /\ Accounted
  BY DEF IInv
<1>2. /\ pc = "find" /\ dangling = {} /\ UNCHANGED <<marked, free, table, data, node>>
      /\ early' = early /\ dangling' = dangling /\ calls' = calls
  BY DEF Find, AtPc, Disk, IInv
<1>3. PICK p \in {"none", "pointer"} :
        /\ Fault(IF IsDirect(op.at) THEN {} ELSE {"pointer"}, p)
        /\ LET b == IF p = "none" THEN Mapped(File, op.at) ELSE 0
           IN  IF b = 0 /\ Truncating THEN Fails
               ELSE /\ op' = [op EXCEPT !.block = b]
                    /\ pc' = IF b = 0 THEN "alloc" ELSE IF Truncating THEN "free" ELSE "data"
  BY DEF Find
<1> DEFINE b == IF p = "none" THEN Mapped(File, op.at) ELSE 0
<1>4. IF b = 0 /\ Truncating THEN Fails
      ELSE /\ op' = [op EXCEPT !.block = b]
           /\ pc' = IF b = 0 THEN "alloc" ELSE IF Truncating THEN "free" ELSE "data"
  BY <1>3
<1>5. faults' \in 0..MaxFaults /\ (faults' = 0 => faults = 0 /\ p = "none")
  BY <1>1, <1>3, FaultIs
<1>6. /\ op \in OpType /\ op.file \in Files /\ op.call # "none" /\ op.at < op.end
      /\ op.call = "pad" => op.from < op.until
  BY <1>1, <1>2, TypeOKParts DEF Call
<1>7. op.at \in Nat /\ op.at < Reach
  BY <1>6, MapShape DEF OpType
<1>8. Mapped(File, op.at) = Points(File, op.at) /\ op.at \in Spots
  BY <1>6, <1>7, MappedIs DEF File
<1>9. b \in Blocks \cup {0} /\ (b # 0 => b = Points(File, op.at))
      /\ (p = "none" => b = Points(File, op.at))
  <2>1. Points(File, op.at) \in Blocks \cup {0}
    BY <1>1, <1>6, <1>8, PointerType, TypeOKParts DEF Points, File
  <2> QED
    BY <1>8, <2>1
<1> HIDE DEF b
<1>10. Keeps
  BY <1>2, SameKeeps
<1>11. AllMarked' /\ (Sound' => AllMapped')
  <2>1. AllMarked /\ (Sound => AllMapped)
    BY <1>1, <1>2, WasSettled
  <2>2. Sound' => Sound
    BY <1>2, <1>5 DEF Sound
  <2> QED
    BY <1>2, <1>10, <2>1, <2>2, SameSettled
<1>12. Counted' /\ Unshared' /\ NotMeta'
  BY <1>1, <1>2, <1>10, KeepsInvariants DEF Counted, CountsAgree
<1>13. op' \in OpType /\ pc' \in Pcs => TypeOK'
  BY <1>1, <1>2, <1>5, TypeOKParts, TypeOKStep
<1>14. CASE b = 0 /\ Truncating
  BY <1>4, <1>11, <1>12, <1>13, <1>14, FailsOnward, OnwardSettled DEF IInv, Onward, Pcs
<1>15. CASE ~(b = 0 /\ Truncating)
  <2>1. /\ op' = [op EXCEPT !.block = b]
        /\ pc' = IF b = 0 THEN "alloc" ELSE IF Truncating THEN "free" ELSE "data"
    BY <1>4, <1>15
  <2>2. /\ op' \in OpType /\ op'.block = b /\ op'.file = op.file /\ op'.call = op.call
        /\ op'.at = op.at /\ op'.end = op.end /\ op'.from = op.from /\ op'.until = op.until
    BY <1>6, <1>9, <2>1 DEF OpType
  <2>3. pc' \in {"alloc", "free", "data"} /\ (Truncating' <=> Truncating) /\ File' = File
    BY <2>1, <2>2 DEF Truncating, File
  <2>4. Call'
    BY <1>6, <2>2, <2>3 DEF Call
  <2>5. Marked'
    BY <1>11 DEF Marked, AllMarked
  <2>6. Points(File, op.at)' = Points(File, op.at)
    BY <1>2, <2>2, <2>3 DEF Points
  <2>7. ~Taken'
    BY <2>3 DEF Taken
  <2>8. Hand'
    BY <1>9, <1>15, <2>1, <2>2, <2>3, <2>6, <2>7 DEF Hand
  <2>9. Accounted'
    <3>1. Sound' => \A c \in marked' : c \in Meta \/ \E f \in Files, k \in Spots : Points(f, k)' = c
      BY <1>11 DEF AllMapped
    <3>2. Sound' => p = "none"
      BY <1>5 DEF Sound
    <3>3. pc' = "alloc" => b = 0
      BY <2>1
    <3>4. Sound' /\ pc' = "alloc" => Points(File, op.at)' = 0
      BY <1>9, <2>6, <3>2, <3>3
    <3> QED
      BY <2>3, <2>7, <3>1, <3>4 DEF Accounted
  <2> QED
    BY <1>12, <1>13, <2>2, <2>3, <2>4, <2>5, <2>8, <2>9 DEF IInv, Pcs
<1> QED
  BY <1>14, <1>15

\* The block of a write, or of an indirect block, is not a pointer of any map.
LEMMA HandUnused ==
  ASSUME IInv, ~Truncating, pc \in {"root", "leaf", "point", "undo"}
  PROVE  op.block \in marked \ Meta /\ op.block \in Blocks /\ Unused(node, table, op.block)
<1>1. op.block \in marked \ Meta /\ \A f \in Files, k \in Spots : Points(f, k) # op.block
  BY DEF IInv, Hand
<1>2. marked \subseteq Blocks
  BY DEF IInv, TypeOK
<1> QED
  BY <1>1, <1>2 DEF Unused, Points

\* A block is given back, or the bitmap cannot be changed.
LEMMA FreedSane ==
  ASSUME TypeOK, Counted, NEW b \in Blocks \ Meta, NEW given \in BOOLEAN
  PROVE  LET s == IF given THEN Release(Space, b) ELSE Space
         IN  Sane(s) /\ s.marked = IF given THEN marked \ {b} ELSE marked
<1>1. Sane(Space) /\ Space.marked = marked
  BY SpaceSane
<1>2. Sane(Release(Space, b)) /\ Release(Space, b).marked = Space.marked \ {b}
  BY <1>1, ReleaseSane
<1> QED
  BY <1>1, <1>2

LEMMA FreeBlockStep ==
  ASSUME IInv, dangling' = {}, FreeBlock
  PROVE  IInv'
<1>1. TypeOK /\ Counted /\ Call /\ Unshared /\ NotMeta /\ Marked /\ Hand /\ Accounted
  BY DEF IInv
<1>2. /\ pc = "free" /\ dangling = {} /\ UNCHANGED <<table, node, op>>
      /\ early' = early /\ dangling' = dangling /\ calls' = calls
      /\ pc' = IF IsDirect(op.at) THEN "point" ELSE "root"
  BY DEF FreeBlock, AtPc, SetBlock, IInv
<1>3. PICK p \in {"none", "bitmap"} :
        /\ Fault({"bitmap"}, p)
        /\ SetSpace(IF p = "none" THEN Release(Space, op.block) ELSE Space)
  BY DEF FreeBlock
<1>4. faults' \in 0..MaxFaults /\ (faults' = 0 => faults = 0 /\ p = "none")
  BY <1>1, <1>3, FaultIs
<1>5. /\ op \in OpType /\ op.file \in Files /\ op.call # "none" /\ op.at < op.end
      /\ op.call = "pad" => op.from < op.until
  BY <1>1, <1>2, TypeOKParts DEF Call
<1>6. op.at \in Spots
  BY <1>5, MapShape DEF OpType
<1>7. /\ Truncating /\ op.block # 0 /\ Points(File, op.at) = op.block
  BY <1>1, <1>2 DEF Hand
<1>8. op.block \in Blocks \ Meta
  <2>1. op.block \in Blocks \cup {0}
    BY <1>5 DEF OpType
  <2>2. op.block \notin Meta
    BY <1>1, <1>5, <1>6, <1>7 DEF NotMeta, File
  <2> QED
    BY <1>7, <2>1, <2>2
<1> DEFINE given == p = "none"
           s == IF given THEN Release(Space, op.block) ELSE Space
<1>9. Sane(s) /\ s.marked = IF p = "none" THEN marked \ {op.block} ELSE marked
  BY <1>1, <1>8, FreedSane
<1> HIDE DEF s
<1>10. /\ marked' = s.marked /\ marked' \subseteq Blocks /\ free' \in FreeType
       /\ data' \in DataType /\ Counted'
  BY <1>1, <1>3, <1>9, SpaceStep DEF s, FreeType, DataType
<1>11. Keeps
  BY <1>2, SameKeeps
<1>12. AllMarked /\ (Sound => AllMapped)
  BY <1>1, <1>2, WasSettled
<1>13. TypeOK'
  BY <1>1, <1>2, <1>4, <1>10, TypeOKParts, TypeOKStep DEF Pcs
<1>14. Unshared' /\ NotMeta'
  BY <1>1, <1>11, KeepsInvariants
<1>15. Call'
  BY <1>2, <1>5 DEF Call
<1>16. op'.block = op.block /\ File' = File /\ (Truncating' <=> Truncating) /\ Taken'
       /\ Points(File, op.at)' = Points(File, op.at)
  BY <1>2, <1>7 DEF File, Truncating, Taken, Points
<1>17. Marked'
  <2>1. ASSUME NEW f \in Files, NEW k \in Spots, Points(f, k)' # 0
        PROVE  Points(f, k)' \in marked' \/ Points(f, k)' = op'.block
    <3>1. Points(f, k)' \in marked
      BY <1>11, <1>12, <2>1 DEF Keeps, AllMarked
    <3> QED
      BY <1>9, <1>10, <1>16, <3>1
  <2> QED
    BY <1>16, <2>1 DEF Marked
<1>18. Hand'
  BY <1>2, <1>7, <1>16 DEF Hand
<1>19. Accounted'
  <2>1. Sound' => Sound /\ p = "none"
    BY <1>2, <1>4 DEF Sound
  <2>2. ASSUME Sound'
        PROVE  /\ op'.block \notin marked'
               /\ \A b \in marked' : b \in Meta \/ \E f \in Files, k \in Spots : Points(f, k)' = b
    BY <1>9, <1>10, <1>11, <1>12, <1>16, <2>1, <2>2 DEF AllMapped, Keeps
  <2> QED
    BY <1>7, <1>16, <2>2 DEF Accounted
<1> QED
  BY <1>10, <1>13, <1>14, <1>15, <1>17, <1>18, <1>19 DEF IInv

LEMMA AllocBlockStep ==
  ASSUME IInv, dangling' = {}, AllocBlock
  PROVE  IInv'
<1>1. TypeOK /\ Counted /\ Call /\ Unshared /\ NotMeta /\ Marked /\ Hand /\ Accounted
  BY DEF IInv
<1>2. /\ pc = "alloc" /\ dangling = {} /\ UNCHANGED <<table, node>>
      /\ early' = early /\ dangling' = dangling /\ calls' = calls
  BY DEF AllocBlock, AtPc, IInv
<1>3. PICK p \in {"none", "bitmap", "group"} :
        /\ Fault(IF Roomy(Space) = {} THEN {} ELSE {"bitmap", "group"}, p)
        /\ LET s == Allocate(Space, p)
           IN  /\ SetSpace(s)
               /\ IF s.block = 0 THEN LoopEnds(op.at)
                  ELSE SetBlock /\ op' = [op EXCEPT !.block = s.block]
  BY DEF AllocBlock
<1> DEFINE s == Allocate(Space, p)
<1>4. SetSpace(s) /\ IF s.block = 0 THEN LoopEnds(op.at)
                     ELSE SetBlock /\ op' = [op EXCEPT !.block = s.block]
  BY <1>3
<1>5. faults' \in 0..MaxFaults /\ (faults' = 0 => faults = 0 /\ p = "none")
  BY <1>1, <1>3, FaultIs
<1>6. /\ op \in OpType /\ op.file \in Files /\ op.call # "none" /\ op.at < op.end
      /\ op.call = "pad" => op.from < op.until
  BY <1>1, <1>2, TypeOKParts DEF Call
<1>7. op.at \in Spots /\ op.at \in 0..Reach
  BY <1>6, MapShape DEF OpType
<1>8. ~Truncating
  BY <1>1, <1>2 DEF Hand
<1>9. Allocated(Space, s, p) /\ Space.marked = marked
  BY <1>1, SpaceSane, AllocateAllocates
<1> HIDE DEF s
<1>10. /\ Sane(s) /\ marked \subseteq s.marked
       /\ s.block # 0 => s.block \in (Blocks \ marked) \cap s.marked
       /\ p = "none" => s.marked = IF s.block = 0 THEN marked ELSE marked \cup {s.block}
  BY <1>9 DEF Allocated
<1>11. /\ marked' = s.marked /\ marked' \subseteq Blocks /\ free' \in FreeType
       /\ data' \in DataType /\ Counted'
  BY <1>1, <1>4, <1>10, SpaceStep DEF FreeType, DataType
<1>12. Keeps
  BY <1>2, SameKeeps
<1>13. AllMarked /\ (Sound => AllMapped)
  BY <1>1, <1>2, WasSettled
<1>14. op' \in OpType /\ pc' \in Pcs => TypeOK'
  BY <1>1, <1>2, <1>5, <1>11, TypeOKParts, TypeOKStep
<1>15. Unshared' /\ NotMeta'
  BY <1>1, <1>12, KeepsInvariants
<1>16. AllMarked'
  BY <1>10, <1>11, <1>12, <1>13 DEF AllMarked, Keeps
<1>17. Sound' => Sound /\ p = "none"
  BY <1>2, <1>5 DEF Sound
<1>18. CASE s.block = 0
  <2>1. Onward
    BY <1>1, <1>2, <1>4, <1>6, <1>7, <1>18, LoopEndsOnward
  <2>2. Sound' => AllMapped'
    BY <1>10, <1>11, <1>12, <1>13, <1>17, <1>18, SameSettled
  <2> QED
    BY <1>11, <1>14, <1>15, <1>16, <2>1, <2>2, OnwardSettled DEF IInv, Onward, Pcs
<1>19. CASE s.block # 0
  <2>1. op' = [op EXCEPT !.block = s.block] /\ pc' = IF IsDirect(op.at) THEN "point" ELSE "root"
    BY <1>4, <1>19 DEF SetBlock
  <2>2. s.block \in Blocks \ marked /\ s.block \in s.marked /\ s.block # 0
    BY <1>10, <1>19
  <2>3. /\ op' \in OpType /\ op'.block = s.block /\ op'.file = op.file /\ op'.call = op.call
        /\ op'.at = op.at /\ op'.end = op.end /\ op'.from = op.from /\ op'.until = op.until
    BY <1>6, <2>1, <2>2 DEF OpType
  <2>4. pc' \in {"point", "root"} /\ ~Truncating' /\ File' = File /\ ~Taken'
    BY <1>8, <2>1, <2>3 DEF Truncating, File, Taken
  <2>5. Call'
    BY <1>6, <2>1, <2>3 DEF Call
  <2>6. Marked'
    BY <1>16 DEF Marked, AllMarked
  <2>7. Points(File, op.at)' = Points(File, op.at)
    BY <1>2, <2>3, <2>4 DEF Points
  <2>8. s.block \notin Meta
    BY <1>1, <2>2 DEF Counted
  <2>9. ASSUME NEW f \in Files, NEW k \in Spots PROVE Points(f, k)' # s.block
    BY <1>12, <1>13, <2>2, <2>9 DEF Keeps, AllMarked
  <2>10. Hand'
    BY <1>11, <2>2, <2>3, <2>4, <2>8, <2>9 DEF Hand
  <2>11. Accounted'
    <3>1. ASSUME Sound', NEW b \in marked'
          PROVE  b = op'.block \/ b \in Meta \/ \E f \in Files, k \in Spots : Points(f, k)' = b
      BY <1>10, <1>11, <1>12, <1>13, <1>17, <2>3, <3>1 DEF AllMapped, Keeps
    <3>2. Sound => Points(File, op.at) = 0
      BY <1>1, <1>2, <1>8 DEF Accounted
    <3>3. InHand' = {op'.block}
      BY <2>4 DEF InHand
    <3> QED
      BY <1>17, <2>4, <2>7, <3>1, <3>2, <3>3 DEF Accounted
  <2> QED
    BY <1>11, <1>14, <1>15, <2>3, <2>4, <2>5, <2>6, <2>10, <2>11 DEF IInv, Pcs
<1> QED
  BY <1>18, <1>19

LEMMA UndoStep ==
  ASSUME IInv, dangling' = {}, Undo
  PROVE  IInv'
<1>1. TypeOK /\ Counted /\ Call /\ Unshared /\ NotMeta /\ Marked /\ Hand /\ Accounted
  BY DEF IInv
<1>2. /\ pc = "undo" /\ dangling = {} /\ UNCHANGED <<table, node>> /\ LoopEnds(op.at)
      /\ early' = early /\ dangling' = dangling /\ calls' = calls
  BY DEF Undo, AtPc, IInv
<1>3. PICK p \in {"none", "bitmap"} :
        /\ Fault({"bitmap"}, p)
        /\ SetSpace(IF p = "none" THEN Release(Space, op.block) ELSE Space)
  BY DEF Undo
<1>4. faults' \in 0..MaxFaults /\ (faults' = 0 => faults = 0 /\ p = "none")
  BY <1>1, <1>3, FaultIs
<1>5. op \in OpType /\ op.at \in 0..Reach
  BY <1>1, TypeOKParts DEF OpType
<1>6. /\ ~Truncating /\ op.block \in Blocks \ Meta /\ Unused(node, table, op.block)
  BY <1>1, <1>2, HandUnused DEF Hand
<1> DEFINE given == p = "none"
           s == IF given THEN Release(Space, op.block) ELSE Space
<1>7. Sane(s) /\ s.marked = IF p = "none" THEN marked \ {op.block} ELSE marked
  BY <1>1, <1>6, FreedSane
<1> HIDE DEF s
<1>8. /\ marked' = s.marked /\ marked' \subseteq Blocks /\ free' \in FreeType
      /\ data' \in DataType /\ Counted'
  BY <1>1, <1>3, <1>7, SpaceStep DEF s, FreeType, DataType
<1>9. Keeps
  BY <1>2, SameKeeps
<1>10. Onward
  BY <1>1, <1>2, <1>5, LoopEndsOnward
<1>11. TypeOK'
  BY <1>1, <1>2, <1>4, <1>8, <1>10, TypeOKParts, TypeOKStep DEF Onward, Pcs
<1>12. ~Taken /\ InHand = {op.block}
  BY <1>2 DEF Taken, InHand
<1>13. AllMarked'
  <2>1. ASSUME NEW f \in Files, NEW k \in Spots, Points(f, k)' # 0
        PROVE  Points(f, k)' \in marked'
    <3>1. Points(f, k)' \in marked
      BY <1>1, <1>2, <1>9, <1>12, <2>1 DEF Keeps, Marked
    <3>2. Points(f, k)' # op.block
      BY <1>6, <1>9 DEF Keeps, Unused, Points
    <3> QED
      BY <1>7, <1>8, <3>1, <3>2
  <2> QED
    BY <2>1 DEF AllMarked
<1>14. Sound' => AllMapped'
  <2>1. Sound' => Sound /\ p = "none"
    BY <1>2, <1>4 DEF Sound
  <2>2. ASSUME Sound', NEW b \in marked'
        PROVE  b \in Meta \/ \E f \in Files, k \in Spots : Points(f, k)' = b
    BY <1>1, <1>7, <1>8, <1>9, <1>12, <2>1, <2>2 DEF Accounted, Keeps
  <2> QED
    BY <2>2 DEF AllMapped
<1> QED
  BY <1>1, <1>8, <1>9, <1>10, <1>11, <1>13, <1>14, KeepsInvariants, OnwardSettled DEF IInv

LEMMA WriteDataStep ==
  ASSUME IInv, dangling' = {}, WriteData
  PROVE  IInv'
<1>1. TypeOK /\ Counted /\ Call /\ Unshared /\ NotMeta /\ Marked /\ Hand /\ Accounted
  BY DEF IInv
<1>2. /\ pc = "data" /\ dangling = {} /\ UNCHANGED <<marked, free, table>>
      /\ early' = early /\ dangling' = dangling /\ calls' = calls
  BY DEF WriteData, AtPc, IInv
<1>3. PICK p \in {"none", "data"} :
        /\ Fault({"data"}, p)
        /\ IF p = "data" THEN Fails /\ UNCHANGED <<data, node>>
           ELSE /\ data' = [data EXCEPT ![op.block] = Written]
                /\ node' = [node EXCEPT ![File].size = Max({@, op.at + 1})]
                /\ NextBlock
  BY DEF WriteData
<1>4. faults' \in 0..MaxFaults /\ (faults' = 0 => faults = 0 /\ p = "none")
  BY <1>1, <1>3, FaultIs
<1>5. op \in OpType /\ op.file \in Files /\ op.at < op.end
  BY <1>1, <1>2, TypeOKParts DEF Call
<1>6. Onward
  BY <1>1, <1>2, <1>3, <1>5, FailsOnward, NextBlockOnward
<1>7. MapType(node, table) /\ data \in DataType
  BY <1>1, TypeOKParts
<1>8. data' \in DataType
  <2>1. Written \in Files \cup {Nobody, Zero}
    BY <1>5 DEF Written, File
  <2>2. p # "data" => data' = [data EXCEPT ![op.block] = Written]
    BY <1>3
  <2>3. p = "data" => data' = data
    BY <1>3
  <2> QED
    BY <1>7, <2>1, <2>2, <2>3 DEF DataType
<1>9. /\ node' \in [Files -> NodeType]
      /\ \A f \in Files : /\ node'[f].direct = node[f].direct
                          /\ node'[f].single = node[f].single
                          /\ node'[f].double = node[f].double
  <2>1. CASE p = "data"
    BY <1>3, <1>7, <2>1 DEF MapType
  <2>2. CASE p # "data"
    <3> DEFINE size == Max({node[op.file].size, op.at + 1})
               m == [node[op.file] EXCEPT !.size = size]
    <3>1. node' = [node EXCEPT ![op.file] = m]
      BY <1>3, <2>2 DEF File
    <3>2. size \in 0..Reach
      <4> DEFINE a == node[op.file].size
                 b == op.at + 1
      <4>1. a \in 0..Reach /\ Reach \in Nat
        BY <1>5, <1>7, MapShape DEF MapType, NodeType
      <4>2. b \in 0..Reach
        BY <1>5, MapShape DEF OpType
      <4> HIDE DEF a, b
      <4>3. a \in Nat /\ b \in Nat /\ Max({a, b}) \in {a, b}
        BY <4>1, <4>2, GreatestOfTwo
      <4> QED
        BY <4>1, <4>2, <4>3 DEF a, b
    <3> HIDE DEF size
    <3>3. node[op.file] \in NodeType /\ node \in [Files -> NodeType]
      BY <1>5, <1>7 DEF MapType
    <3>4. /\ m \in NodeType /\ m.direct = node[op.file].direct
          /\ m.single = node[op.file].single /\ m.double = node[op.file].double
      BY <3>2, <3>3 DEF NodeType
    <3> HIDE DEF m
    <3>5. /\ node' \in [Files -> NodeType] /\ node'[op.file] = m
          /\ \A f \in Files : f # op.file => node'[f] = node[f]
      BY <1>5, <3>1, <3>3, <3>4
    <3> QED
      BY <3>4, <3>5
  <2> QED
    BY <2>1, <2>2
<1>10. Keeps
  <2>1. ASSUME NEW m, NEW n, NEW t, NEW k \in Spots,
               m.direct = n.direct, m.single = n.single, m.double = n.double
        PROVE  PointerIn(m, t, k) = PointerIn(n, t, k)
    BY <2>1, Zenon DEF PointerIn
  <2> QED
    BY <1>2, <1>9, <2>1 DEF Keeps, Points
<1>11. TypeOK'
  BY <1>1, <1>2, <1>4, <1>6, <1>7, <1>8, <1>9, TypeOKParts, TypeOKStep
  DEF Onward, Pcs, MapType
<1>12. Counted'
  BY <1>1, <1>2 DEF Counted, CountsAgree
<1>13. AllMarked' /\ (Sound' => AllMapped')
  BY <1>1, <1>2, <1>4, <1>10, WasSettled, SameSettled DEF Sound
<1> QED
  BY <1>1, <1>6, <1>10, <1>11, <1>12, <1>13, KeepsInvariants, OnwardSettled DEF IInv

\* An inode m is n, but for the pointer in its own place k, which is b.
FieldPut(m, n, k, b) ==
  /\ \A j \in Spots : j < Direct => m.direct[j] = IF j = k THEN b ELSE n.direct[j]
  /\ m.single = IF k = Reach THEN b ELSE n.single
  /\ m.double = IF k = Reach + 1 THEN b ELSE n.double

LEMMA OwnPut ==
  ASSUME NEW m, NEW n, NEW t, NEW u, NEW k \in Spots, NEW b, FieldPut(m, n, k, b)
  PROVE  \A j \in Spots : Own(j) =>
           PointerIn(m, u, j) = IF j = k THEN b ELSE PointerIn(n, t, j)
<1>1. ASSUME NEW j \in Spots, Own(j)
      PROVE  PointerIn(m, u, j) = IF j = k THEN b ELSE PointerIn(n, t, j)
  <2>1. CASE j < Direct
    <3>1. PointerIn(m, u, j) = m.direct[j] /\ PointerIn(n, t, j) = n.direct[j]
      BY <2>1, Ways
    <3> QED
      BY <2>1, <3>1, Zenon DEF FieldPut
  <2>2. CASE j = Reach
    <3>1. PointerIn(m, u, j) = m.single /\ PointerIn(n, t, j) = n.single
      BY <2>2, Ways
    <3> QED
      BY <2>2, <3>1, Zenon DEF FieldPut
  <2>3. CASE j = Reach + 1
    <3>1. PointerIn(m, u, j) = m.double /\ PointerIn(n, t, j) = n.double
      BY <2>3, Ways
    <3> QED
      BY <2>3, <3>1, Zenon DEF FieldPut
  <2> QED
    BY <1>1, <2>1, <2>2, <2>3 DEF Own
<1> QED
  BY <1>1

\* What one pointer, set to a block that is new, does to the invariants
LEMMA PutsInvariants ==
  ASSUME TypeOK, Unshared, NotMeta, NEW f \in Files, NEW k \in Spots, NEW b,
         b # 0 => Unused(node, table, b), b \notin Meta,
         Puts(node, table, node', table', f, k, b)
  PROVE  Unshared' /\ NotMeta'
<1>1. Unshared'
  BY PutsStaysApart DEF Unshared
<1>2. NotMeta'
  BY DEF NotMeta, Puts, Points
<1> QED
  BY <1>1, <1>2

\* A new indirect block is put in its place.
LEMMA NewTablePuts ==
  ASSUME IInv, dangling' = {}, pc \in {"root", "leaf"}, ~Truncating,
         NEW s, NEW p, Allocated(Space, s, p), s.block # 0, marked' = s.marked,
         early' = early, dangling' = dangling, op' = op,
         faults' = 0 => faults = 0 /\ p = "none",
         NEW k \in Spots, k # op.at, Points(op.file, k) = 0,
         Puts(node, table, node', table', op.file, k, s.block),
         pc' \in {"leaf", "point"}
  PROVE  Unshared' /\ NotMeta' /\ Marked' /\ Hand' /\ Accounted'
<1>1. TypeOK /\ Counted /\ Call /\ Unshared /\ NotMeta /\ Marked /\ Hand /\ Accounted
  BY DEF IInv
<1>2. /\ marked \subseteq s.marked /\ s.block \in Blocks \ marked /\ s.block \in s.marked
      /\ faults' = 0 => s.marked = marked \cup {s.block}
  <2>1. Space.marked = marked
    BY <1>1, SpaceSane
  <2> QED
    BY <2>1 DEF Allocated
<1>3. op.file \in Files /\ op.at \in Spots
  <2>1. op \in OpType /\ op.file \in Files /\ op.at < op.end
    BY <1>1, TypeOKParts DEF Call
  <2> QED
    BY <2>1, MapShape DEF OpType
<1>4. ~Taken /\ ~Taken' /\ ~Truncating' /\ InHand = {op.block} /\ InHand' = {op.block}
      /\ File' = op.file
  BY DEF Taken, Truncating, InHand, File
<1>5. Unused(node, table, s.block) /\ s.block \notin Meta
  BY <1>1, <1>2, <1>4 DEF Marked, Unused, Points, Counted
<1>6. Unshared' /\ NotMeta'
  BY <1>1, <1>3, <1>5, PutsInvariants
<1>7. \A f \in Files, j \in Spots :
        Points(f, j)' = IF f = op.file /\ j = k THEN s.block ELSE Points(f, j)
  BY DEF Puts, Points
<1>8. Marked'
  BY <1>1, <1>2, <1>4, <1>7 DEF Marked
<1>9. op.block \in marked \ Meta /\ op.block # 0 /\ Unused(node, table, op.block)
  BY <1>1, HandUnused DEF Hand
<1>10. Hand'
  <2>1. op.block \in marked' \ Meta /\ \A f \in Files, j \in Spots : Points(f, j)' # op.block
    BY <1>2, <1>7, <1>9 DEF Unused, Points
  <2> QED
    BY <1>4, <1>9, <2>1 DEF Hand
<1>11. Accounted'
  <2>1. ASSUME Sound'
        PROVE  Sound /\ s.marked = marked \cup {s.block}
    BY <1>2, <2>1 DEF Sound
  <2>2. ASSUME Sound', NEW b \in marked'
        PROVE  b \in Meta \cup {op.block} \/ \E f \in Files, j \in Spots : Points(f, j)' = b
    <3>1. CASE b = s.block
      BY <1>3, <1>7, <3>1
    <3>2. CASE b # s.block
      <4>1. b \in marked
        BY <2>1, <2>2, <3>2
      <4>2. b \in Meta \cup {op.block} \/ \E f \in Files, j \in Spots : Points(f, j) = b
        BY <1>1, <1>4, <2>1, <2>2, <4>1 DEF Accounted
      <4>3. CASE b \in Meta \cup {op.block}
        BY <4>3
      <4>4. CASE b \notin Meta \cup {op.block}
        <5>1. PICK f \in Files, j \in Spots : Points(f, j) = b
          BY <4>2, <4>4
        <5>2. b # 0
          BY <1>1, <4>1, GroupShape DEF TypeOK
        <5>3. Points(f, j)' = b
          BY <1>7, <5>1, <5>2
        <5> QED
          BY <5>3
      <4> QED
        BY <4>3, <4>4
    <3> QED
      BY <3>1, <3>2
  <2>3. Sound' => Points(op.file, op.at)' = 0
    BY <1>1, <1>3, <1>7, <2>1 DEF Accounted, File
  <2> QED
    BY <1>4, <2>2, <2>3 DEF Accounted
<1> QED
  BY <1>6, <1>8, <1>10, <1>11

\* setINodeBlock fails, and no pointer to a freed block stays.
LEMMA SetFailsIs ==
  ASSUME dangling' = {}, SetFails(Uncleared)
  PROVE  ~Truncating /\ pc' = "undo" /\ op' = op /\ node' = node /\ dangling' = dangling
<1>1. dangling' = dangling \cup Uncleared
  BY DEF SetFails
<1>2. ~Truncating
  BY <1>1 DEF Uncleared
<1> QED
  BY <1>1, <1>2 DEF SetFails

\* setINodeBlock fails before it changed the map.
LEMMA SetFailsStep ==
  ASSUME IInv, dangling' = {}, pc \in {"root", "leaf", "point"}, SetFails(Uncleared), Keeps,
         marked \subseteq marked', early' = early,
         faults' = 0 => faults = 0 /\ marked' = marked
  PROVE  /\ Call' /\ Unshared' /\ NotMeta' /\ Marked' /\ Hand' /\ Accounted'
         /\ op' \in OpType /\ pc' \in Pcs /\ dangling' \subseteq Blocks
<1>1. TypeOK /\ Counted /\ Call /\ Unshared /\ NotMeta /\ Marked /\ Hand /\ Accounted
  BY DEF IInv
<1>2. Unshared' /\ NotMeta'
  BY <1>1, KeepsInvariants
<1>3. ~Truncating /\ pc' = "undo" /\ op' = op /\ dangling' = dangling
  BY SetFailsIs
<1>4. op \in OpType /\ dangling \subseteq Blocks
  BY <1>1, TypeOKParts
<1>5. Call'
  BY <1>1, <1>3 DEF Call
<1>6. ~Taken /\ ~Taken' /\ ~Truncating' /\ InHand = {op.block} /\ InHand' = {op.block}
  BY <1>3 DEF Taken, Truncating, InHand
<1>7. Marked'
  BY <1>1, <1>3, <1>6 DEF Marked, Keeps
<1>8. op.block # 0 /\ op.block \in marked \ Meta /\ Unused(node, table, op.block)
  BY <1>1, <1>3, HandUnused DEF Hand
<1>9. \A f \in Files, k \in Spots : Points(f, k)' # op.block
  BY <1>8 DEF Keeps, Unused, Points
<1>10. Hand'
  BY <1>3, <1>6, <1>8, <1>9 DEF Hand
<1>11. Accounted'
  <2>1. ASSUME Sound'
        PROVE  Sound /\ marked' = marked
    BY <2>1 DEF Sound
  <2>2. ASSUME Sound', NEW b \in marked'
        PROVE  b \in Meta \cup {op.block} \/ \E f \in Files, j \in Spots : Points(f, j)' = b
    BY <1>1, <1>6, <2>1, <2>2 DEF Accounted, Keeps
  <2> QED
    BY <1>3, <1>6, <2>2 DEF Accounted
<1> QED
  BY <1>2, <1>3, <1>4, <1>5, <1>7, <1>10, <1>11 DEF Pcs

\* The way to the pointer is there.
LEMMA AtIs ==
  ASSUME TypeOK, Call, pc # "idle"
  PROVE  /\ op \in OpType /\ op.file \in Files /\ op.call # "none" /\ op.at < op.end
         /\ op.call = "pad" => op.from < op.until
         /\ op.at \in Nat /\ op.at < Reach /\ op.at \in Spots
         /\ File = op.file /\ Node = node[op.file] /\ node[op.file] \in NodeType
         /\ table \in TableType /\ node \in [Files -> NodeType]
<1>1. op \in OpType /\ MapType(node, table)
  BY TypeOKParts
<1>2. op.file \in Files /\ op.call # "none" /\ op.at < op.end /\ (op.call = "pad" => op.from < op.until)
  BY DEF Call
<1>3. op.at \in Nat /\ op.at < Reach
  BY <1>1, <1>2, MapShape DEF OpType
<1>4. op.at \in Spots
  BY <1>3, MapShape
<1>5. node[op.file] \in NodeType /\ table \in TableType /\ node \in [Files -> NodeType]
  BY <1>1, <1>2 DEF MapType
<1> QED
  BY <1>1, <1>2, <1>3, <1>4, <1>5 DEF File, Node

LEMMA MakeRootStep ==
  ASSUME IInv, dangling' = {}, MakeRoot
  PROVE  /\ IInv'
         /\ IF IsSingle(op.at) THEN MakesTable(Reach, "point") ELSE MakesTable(Reach + 1, "leaf")
<1>1. TypeOK /\ Counted /\ Call /\ Unshared /\ NotMeta /\ Marked /\ Hand /\ Accounted
  BY DEF IInv
<1>2. pc = "root" /\ dangling = {} /\ calls' = calls /\ early' = early
  BY DEF MakeRoot, AtPc, IInv
<1>3. /\ op \in OpType /\ op.file \in Files /\ op.call # "none" /\ op.at < op.end
      /\ op.call = "pad" => op.from < op.until
      /\ op.at \in Nat /\ op.at < Reach /\ op.at \in Spots
      /\ File = op.file /\ Node = node[op.file] /\ node[op.file] \in NodeType
      /\ table \in TableType /\ node \in [Files -> NodeType]
  BY <1>1, <1>2, AtIs
<1>4. ~IsDirect(op.at)
  BY <1>1, <1>2 DEF Call
<1>5. /\ LeafOf(op.file, op.at) = Points(op.file, Up(op.at))
      /\ ~Own(op.at) /\ At(op.at) = Slot(op.at)
      /\ IsSingle(op.at) => LeafOf(op.file, op.at) = node[op.file].single
      /\ ~IsSingle(op.at) => IsDouble(op.at) /\ SlotInRoot(op.at) \in Slots
      /\ IsDouble(op.at) =>
           LeafOf(op.file, op.at) = TableAt(table, node[op.file].double)[SlotInRoot(op.at)]
  BY <1>3, <1>4, LeafIs
<1> DEFINE root == IF IsSingle(op.at) THEN Node.single ELSE Node.double
           next == IF IsSingle(op.at) THEN "point" ELSE "leaf"
           k == IF IsSingle(op.at) THEN Reach ELSE Reach + 1
<1>6. /\ k \in Spots /\ Own(k) /\ k >= Reach /\ k # op.at
      /\ Points(op.file, k) = root
  <2>1. Reach \in Nat /\ Reach \in Spots /\ Reach + 1 \in Spots
    BY MapShape
  <2>2. Points(op.file, Reach) = node[op.file].single
        /\ Points(op.file, Reach + 1) = node[op.file].double
    BY <2>1, Ways DEF Points
  <2> QED
    BY <1>3, <2>1, <2>2 DEF Own
<1>7. CASE root # 0
  <2>1. pc' = next /\ UNCHANGED <<Disk, node, op, faults, dangling>>
    BY <1>7 DEF MakeRoot
  <2>2. UNCHANGED <<marked, free, table, data, node, op>>
        /\ faults' = faults /\ dangling' = dangling
    BY <2>1 DEF Disk
  <2>3. TypeOK'
    BY <1>1, <1>2, <2>1, <2>2, TypeOKParts, TypeOKStep DEF Pcs
  <2>4. Counted'
    BY <1>1, <2>2 DEF Counted, CountsAgree
  <2>5. Keeps
    BY <2>2, SameKeeps
  <2>6. /\ Node' = Node /\ File' = File /\ LeafOf(File, op.at)' = LeafOf(File, op.at)
        /\ Points(File, op.at)' = Points(File, op.at) /\ (Truncating' <=> Truncating)
    BY <2>2 DEF Node, File, LeafOf, Entries, Points, Truncating
  <2>7. Call'
    BY <1>1, <1>2, <1>3, <1>4, <1>5, <1>7, <2>1, <2>2, <2>6 DEF Call
  <2>8. (Taken' <=> Taken) /\ InHand' = InHand /\ (Sound' <=> Sound)
    BY <1>2, <2>1, <2>2, <2>6 DEF Taken, InHand, Sound
  <2>9. Marked'
    BY <1>1, <1>2, <2>2, <2>5, <2>8 DEF Marked, Keeps
  <2>10. Hand'
    BY <1>1, <1>2, <2>1, <2>2, <2>5, <2>6, <2>8 DEF Hand, Keeps
  <2>11. Accounted'
    BY <1>1, <1>2, <2>1, <2>2, <2>5, <2>6, <2>8 DEF Accounted, Keeps
  <2>12. MakesTable(k, next)
    BY <1>6, <1>7, <2>1, <2>2, <2>5 DEF MakesTable
  <2> QED
    BY <1>1, <2>3, <2>4, <2>5, <2>7, <2>9, <2>10, <2>11, <2>12, KeepsInvariants DEF IInv
<1>8. CASE root = 0
  <2>1. PICK p \in NewTableFaults \cup {"none"} :
          /\ Fault(NewTableFaults, p)
          /\ LET s == NewTable(Space, p)
             IN  /\ SetSpace(s)
                 /\ IF s.block = 0
                    THEN SetFails(Uncleared) /\ UNCHANGED table
                    ELSE /\ node' = [node EXCEPT ![File] =
                                       IF IsSingle(op.at) THEN [@ EXCEPT !.single = s.block]
                                       ELSE [@ EXCEPT !.double = s.block]]
                         /\ table' = [table EXCEPT ![s.block] = Zeros]
                         /\ pc' = next /\ UNCHANGED <<op, dangling>>
    BY <1>8 DEF MakeRoot
  <2> DEFINE s == NewTable(Space, p)
  <2>2. /\ SetSpace(s)
        /\ IF s.block = 0
           THEN SetFails(Uncleared) /\ UNCHANGED table
           ELSE /\ node' = [node EXCEPT ![File] =
                              IF IsSingle(op.at) THEN [@ EXCEPT !.single = s.block]
                              ELSE [@ EXCEPT !.double = s.block]]
                /\ table' = [table EXCEPT ![s.block] = Zeros]
                /\ pc' = next /\ UNCHANGED <<op, dangling>>
    BY <2>1
  <2>3. faults' \in 0..MaxFaults /\ (faults' = 0 => faults = 0 /\ p = "none")
    BY <1>1, <2>1, FaultIs
  <2>4. Allocated(Space, s, p) /\ Space.marked = marked
    BY <1>1, SpaceSane, NewTableAllocates
  <2> HIDE DEF s
  <2>5. /\ Sane(s) /\ marked \subseteq s.marked
        /\ s.block # 0 => s.block \in (Blocks \ marked) \cap s.marked
        /\ p = "none" => s.marked = IF s.block = 0 THEN marked ELSE marked \cup {s.block}
    BY <2>4 DEF Allocated
  <2>6. /\ marked' = s.marked /\ marked' \subseteq Blocks /\ free' \in FreeType
        /\ data' \in DataType /\ Counted'
    BY <1>1, <2>2, <2>5, SpaceStep DEF FreeType, DataType
  <2>7. ~Truncating
    <3>1. Points(op.file, op.at) = TableAt(table, LeafOf(op.file, op.at))[Slot(op.at)]
      BY <1>3, <1>5, Ways DEF Points
    <3>2. Slot(op.at) \in Slots
      BY <1>3, <1>5, UpShape
    <3>3. LeafOf(op.file, op.at) = 0
      <4>1. CASE IsSingle(op.at)
        BY <1>3, <1>5, <1>8, <4>1
      <4>2. CASE ~IsSingle(op.at)
        <5>1. TableAt(table, 0)[SlotInRoot(op.at)] = 0
          BY <1>5, <4>2 DEF TableAt, Zeros
        <5> QED
          BY <1>3, <1>5, <1>8, <4>2, <5>1
      <4> QED
        BY <4>1, <4>2
    <3>4. TableAt(table, 0)[Slot(op.at)] = 0
      BY <3>2 DEF TableAt, Zeros
    <3>5. Points(op.file, op.at) = 0
      BY <3>1, <3>3, <3>4
    <3>6. op.block # 0
      BY <1>1, <1>2 DEF Hand
    <3> QED
      BY <1>1, <1>2, <1>3, <3>5, <3>6 DEF Hand, Taken
  <2>8. CASE s.block = 0
    <3>1. SetFails(Uncleared) /\ UNCHANGED <<table, node>>
      BY <2>2, <2>8, SetFailsIs
    <3>2. Keeps
      BY <3>1, SameKeeps
    <3>3. /\ Call' /\ Unshared' /\ NotMeta' /\ Marked' /\ Hand' /\ Accounted'
          /\ op' \in OpType /\ pc' \in Pcs /\ dangling' \subseteq Blocks
      BY <1>2, <2>3, <2>5, <2>6, <2>7, <2>8, <3>1, <3>2, SetFailsStep
    <3>4. TypeOK'
      BY <1>1, <1>2, <2>3, <2>6, <3>1, <3>3, TypeOKParts, TypeOKStep
    <3>5. MakesTable(k, next)
      <4>1. Sound' => p = "none"
        BY <2>3 DEF Sound
      <4> QED
        BY <1>6, <1>8, <2>4, <2>5, <2>6, <2>8, <3>1, <3>2, <4>1 DEF MakesTable, Allocated
    <3> QED
      BY <2>6, <3>3, <3>4, <3>5 DEF IInv
  <2>9. CASE s.block # 0
    <3> DEFINE b == s.block
               m == IF IsSingle(op.at) THEN [node[op.file] EXCEPT !.single = b]
                    ELSE [node[op.file] EXCEPT !.double = b]
    <3>1. b \in Blocks \ marked /\ b \in s.marked /\ b # 0
      BY <2>5, <2>9
    <3>2. /\ node' = [node EXCEPT ![op.file] = m]
          /\ table' = [table EXCEPT ![b] = Zeros]
          /\ pc' = next /\ op' = op /\ dangling' = dangling
      BY <1>3, <2>2, <2>9
    <3> HIDE DEF b
    <3>3. /\ m \in NodeType /\ m.direct = node[op.file].direct
          /\ m.single = IF k = Reach THEN b ELSE node[op.file].single
          /\ m.double = IF k = Reach + 1 THEN b ELSE node[op.file].double
      <4>1. Reach # Reach + 1
        BY MapShape
      <4>2. CASE IsSingle(op.at)
        BY <1>3, <3>1, <4>1, <4>2 DEF NodeType
      <4>3. CASE ~IsSingle(op.at)
        BY <1>3, <3>1, <4>1, <4>3 DEF NodeType
      <4> QED
        BY <4>2, <4>3
    <3> HIDE DEF m, k, root
    <3>4. /\ node' \in [Files -> NodeType] /\ node'[op.file] = m
          /\ \A g \in Files : g # op.file => node'[g] = node[g]
      BY <1>3, <3>2, <3>3
    <3>5. table' \in TableType /\ table'[b] = Zeros
          /\ \A c \in Blocks : c # b => table'[c] = table[c]
      <4>1. Zeros \in [Slots -> Blocks \cup {0}]
        BY DEF Zeros
      <4> QED
        BY <1>3, <3>1, <3>2, <4>1 DEF TableType
    <3>6. Unused(node, table, b) /\ b \notin Meta
      <4>1. ~Taken
        BY <2>7 DEF Taken
      <4> QED
        BY <1>1, <1>2, <3>1, <4>1 DEF Marked, Unused, Points, Counted
    <3>7. Puts(node, table, node', table', op.file, k, b)
      <4>1. \A j \in Spots : Own(j) =>
              PointerIn(node'[op.file], table', j) =
                IF j = k THEN b ELSE PointerIn(node[op.file], table, j)
        <5>1. FieldPut(m, node[op.file], k, b)
          <6>1. \A j \in Spots : j < Direct => j # k
            BY <1>6, MapShape
          <6> QED
            BY <3>3, <6>1 DEF FieldPut
        <5>2. \A j \in Spots : Own(j) =>
                PointerIn(m, table', j) = IF j = k THEN b ELSE PointerIn(node[op.file], table, j)
          BY <1>6, <5>1, OwnPut
        <5> QED
          BY <3>4, <5>2
      <4>2. TableAt(table', b) = Zeros
        BY <3>1, <3>5 DEF TableAt
      <4>3. TableAt(table, PointerIn(node[op.file], table, k)) = Zeros
        BY <1>6, <1>8 DEF TableAt, Points
      <4>4. MapType(node, table)
        BY <1>3 DEF MapType
      <4> QED
        BY <1>3, <1>6, <3>4, <3>5, <3>6, <4>1, <4>2, <4>3, <4>4, PutOwn
    <3>8. pc' \in {"leaf", "point"}
      BY <3>2
    <3>9. Unshared' /\ NotMeta' /\ Marked' /\ Hand' /\ Accounted'
      BY <1>2, <1>6, <1>8, <2>3, <2>4, <2>6, <2>7, <3>1, <3>2, <3>7, <3>8, NewTablePuts DEF b
    <3>10. TypeOK'
      BY <1>1, <1>2, <2>3, <2>6, <3>2, <3>4, <3>5, <3>8, TypeOKParts, TypeOKStep
      DEF MapType, Pcs
    <3>11. Call'
      <4>1. /\ Node' = m /\ File' = op.file
        BY <3>2, <3>4 DEF Node, File
      <4>2. IsSingle(op.at) => LeafOf(op.file, op.at)' = b
        BY <3>2, <3>3, <3>4 DEF LeafOf, k
      <4>3. ~IsSingle(op.at) => m.double = b
        BY <3>3 DEF k
      <4> QED
        BY <1>3, <1>5, <3>1, <3>2, <4>1, <4>2, <4>3 DEF Call
    <3>12. MakesTable(k, next)
      BY <1>6, <1>8, <2>5, <2>6, <3>1, <3>2, <3>7 DEF MakesTable
    <3> QED
      BY <2>6, <3>9, <3>10, <3>11, <3>12 DEF IInv, k
  <2> QED
    BY <2>8, <2>9
<1> QED
  BY <1>7, <1>8

LEMMA Emptied ==
  ASSUME NEW T \in TableType, NEW b \in Blocks
  PROVE  LET U == [T EXCEPT ![b] = Zeros]
         IN  /\ U \in TableType
             /\ \A c \in Blocks, s \in Slots : U[c][s] # 0 => U[c][s] = T[c][s]
             /\ T[b] = Zeros => U = T
<1> DEFINE U == [T EXCEPT ![b] = Zeros]
<1>1. Zeros \in [Slots -> Blocks \cup {0}] /\ \A s \in Slots : Zeros[s] = 0
  BY DEF Zeros
<1>2. U \in TableType
  BY <1>1 DEF TableType
<1>3. U[b] = Zeros /\ \A c \in Blocks : c # b => U[c] = T[c]
  BY DEF TableType
<1>4. ASSUME T[b] = Zeros PROVE U = T
  <2>1. \A c \in Blocks : U[c] = T[c]
    BY <1>3, <1>4
  <2> QED
    BY <1>2, <2>1 DEF TableType
<1> QED
  BY <1>1, <1>2, <1>3, <1>4

\* What was in a block that no map has does not matter.
LEMMA UnusedKeeps ==
  ASSUME MapType(node, table), NEW b \in Blocks, Unused(node, table, b),
         node' = node, table' = [table EXCEPT ![b] = Zeros]
  PROVE  Keeps
<1>1. ASSUME NEW f \in Files, NEW j \in Spots, Own(j)
      PROVE  PointerIn(node'[f], table', j) = PointerIn(node[f], table, j)
  BY <1>1, OwnPlace
<1>2. ASSUME NEW f \in Files, NEW j \in Spots, ~Own(j),
             PointerIn(node'[f], table', Up(j)) = PointerIn(node[f], table, Up(j))
      PROVE  PointerIn(node'[f], table', j) = PointerIn(node[f], table, j)
  <2> DEFINE c == PointerIn(node[f], table, Up(j))
  <2>1. /\ PointerIn(node[f], table, j) = TableAt(table, c)[At(j)]
        /\ PointerIn(node'[f], table', j) = TableAt(table', c)[At(j)]
    BY <1>2, Ways
  <2>2. c # b /\ c \in Blocks \cup {0}
    BY <1>2, UpShape, PointerType DEF Unused
  <2> HIDE DEF c
  <2>3. TableAt(table', c) = TableAt(table, c)
    BY <2>2 DEF TableAt, MapType, TableType
  <2> QED
    BY <2>1, <2>3
<1>3. ASSUME NEW j \in Spots, ~Own(j)
      PROVE  Up(j) \in Spots /\ (Own(Up(j)) \/ (Up(Up(j)) \in Spots /\ Own(Up(Up(j)))))
  BY <1>3, UpShape, MapShape DEF Own
<1>4. ASSUME NEW f \in Files, NEW j \in Spots
      PROVE  PointerIn(node'[f], table', j) = PointerIn(node[f], table, j)
  BY <1>1, <1>2, <1>3
<1> QED
  BY <1>4 DEF Keeps, Points

LEMMA MakeLeafStep ==
  ASSUME IInv, dangling' = {}, MakeLeaf
  PROVE  IInv' /\ MakesTable(Up(op.at), "point")
<1>1. TypeOK /\ Counted /\ Call /\ Unshared /\ NotMeta /\ Marked /\ Hand /\ Accounted
  BY DEF IInv
<1>2. pc = "leaf" /\ dangling = {} /\ calls' = calls /\ early' = early /\ node' = node
  <2>1. node' = node
    BY SetFailsIs DEF MakeLeaf
  <2> QED
    BY <2>1 DEF MakeLeaf, AtPc, IInv
<1>3. /\ op \in OpType /\ op.file \in Files /\ op.call # "none" /\ op.at < op.end
      /\ op.call = "pad" => op.from < op.until
      /\ op.at \in Nat /\ op.at < Reach /\ op.at \in Spots
      /\ File = op.file /\ Node = node[op.file] /\ node[op.file] \in NodeType
      /\ table \in TableType /\ node \in [Files -> NodeType]
  BY <1>1, <1>2, AtIs
<1> DEFINE root == Node.double
           slot == SlotInRoot(op.at)
           k == Up(op.at)
           leaf == LeafOf(File, op.at)
           exists == leaf # 0
           points == IF exists THEN {"pointer"} ELSE NewTableFaults \cup {"pointer", "slot"}
<1>4. IsDouble(op.at) /\ root # 0 /\ root \in Blocks
  <2>1. IsDouble(op.at) /\ root # 0
    BY <1>1, <1>2 DEF Call
  <2> QED
    BY <1>3, <2>1 DEF NodeType
<1>5. ~IsDirect(op.at) /\ ~IsSingle(op.at)
  BY <1>3, <1>4, MapShape DEF IsDirect, IsSingle, IsDouble
<1>6. /\ leaf = Points(op.file, k) /\ ~Own(op.at) /\ At(op.at) = Slot(op.at)
      /\ k = Reach + 2 + slot /\ slot \in Slots
      /\ leaf = table[root][slot]
  BY <1>3, <1>4, <1>5, LeafIs DEF TableAt
<1>7. /\ k \in Spots /\ ~Own(k) /\ k > Reach /\ k # op.at /\ Up(k) = Reach + 1
      /\ At(k) = slot /\ Reach + 1 \in Spots /\ Points(op.file, Up(k)) = root
  <2>1. k \in Spots /\ k # op.at
    BY <1>3, <1>6, UpShape
  <2>2. slot \in Nat /\ Reach \in Nat /\ Direct \in Nat /\ Reach >= Direct
    <3>1. slot \in Nat
      BY <1>6, MapShape, Zenon
    <3> QED
      BY <3>1, MapShape
  <2> HIDE DEF slot
  <2>3. k > Reach + 1 /\ ~Own(k) /\ k - Reach - 2 = slot
    BY <1>6, <2>2 DEF Own
  <2>4. Up(k) = Reach + 1 /\ At(k) = slot
    BY <2>3, Zenon DEF Up, At
  <2>5. Reach + 1 \in Spots /\ Points(op.file, Reach + 1) = root
    BY <1>3, MapShape, Ways DEF Points
  <2>6. k > Reach
    BY <1>6, <2>2
  <2> QED
    BY <2>1, <2>3, <2>4, <2>5, <2>6
<1>8. Points(op.file, op.at) = TableAt(table, leaf)[Slot(op.at)] /\ Slot(op.at) \in Slots
  BY <1>3, <1>6, Ways, UpShape DEF Points
<1>9. ~exists => ~Truncating
  <2>1. ASSUME ~exists PROVE Points(op.file, op.at) = 0
    BY <1>8, <2>1 DEF TableAt, Zeros
  <2>2. op.block # 0
    BY <1>1, <1>2 DEF Hand
  <2> QED
    BY <1>1, <1>2, <1>3, <2>1, <2>2 DEF Hand, Taken
<1>10. PICK p \in points \cup {"none"} :
         /\ Fault(points, p)
         /\ LET s == IF exists \/ p = "pointer" THEN Space ELSE NewTable(Space, p)
                made == s.block # 0 /\ p # "slot"
            IN  /\ SetSpace(IF s.block # 0 /\ p = "slot" THEN Release(s, s.block) ELSE s)
                /\ table' = IF made THEN [table EXCEPT ![s.block] = Zeros,
                                                       ![root][slot] = s.block]
                            ELSE IF s.block # 0 THEN [table EXCEPT ![s.block] = Zeros]
                            ELSE table
                /\ IF made \/ (exists /\ p = "none")
                   THEN pc' = "point" /\ UNCHANGED <<op, node, dangling>>
                   ELSE SetFails(Uncleared)
  BY DEF MakeLeaf
<1> DEFINE s == IF exists \/ p = "pointer" THEN Space ELSE NewTable(Space, p)
           made == s.block # 0 /\ p # "slot"
           r == IF s.block # 0 /\ p = "slot" THEN Release(s, s.block) ELSE s
<1>11. /\ SetSpace(r)
       /\ table' = IF made THEN [table EXCEPT ![s.block] = Zeros, ![root][slot] = s.block]
                   ELSE IF s.block # 0 THEN [table EXCEPT ![s.block] = Zeros] ELSE table
       /\ IF made \/ (exists /\ p = "none")
          THEN pc' = "point" /\ UNCHANGED <<op, node, dangling>>
          ELSE SetFails(Uncleared)
  BY <1>10
<1>12. faults' \in 0..MaxFaults /\ (faults' = 0 => faults = 0 /\ p = "none")
  BY <1>1, <1>10, FaultIs
<1>13. /\ Sane(s) /\ marked \subseteq s.marked
       /\ s.block # 0 => s.block \in (Blocks \ marked) \cap s.marked /\ ~exists
       /\ s.block # 0 => Allocated(Space, s, p)
       /\ p = "none" /\ s.block = 0 => s.marked = marked /\ (~exists => marked = Blocks)
  <2>1. Sane(Space) /\ Space.block = 0 /\ Space.marked = marked
    BY <1>1, SpaceSane
  <2>2. CASE exists \/ p = "pointer"
    BY <2>1, <2>2
  <2>3. CASE ~(exists \/ p = "pointer")
    <3>1. Allocated(Space, NewTable(Space, p), p)
      BY <2>1, NewTableAllocates
    <3>2. s = NewTable(Space, p)
      BY <2>3
    <3> HIDE DEF s
    <3> QED
      BY <2>1, <2>3, <3>1, <3>2 DEF Allocated
  <2> QED
    BY <2>2, <2>3
<1> HIDE DEF s
<1>14. /\ Sane(r) /\ marked \subseteq r.marked
       /\ made => r = s
       /\ p = "none" => r = s
  <2>1. CASE s.block # 0 /\ p = "slot"
    <3>1. s.block \in Blocks \ Meta /\ s.block \notin marked
      BY <1>1, <1>13, <2>1 DEF Counted
    <3>2. Sane(Release(s, s.block)) /\ Release(s, s.block).marked = s.marked \ {s.block}
      BY <1>13, <3>1, ReleaseSane
    <3> QED
      BY <1>13, <2>1, <3>1, <3>2
  <2>2. CASE ~(s.block # 0 /\ p = "slot")
    BY <1>13, <2>2
  <2> QED
    BY <2>1, <2>2
<1> HIDE DEF r
<1>15. /\ marked' = r.marked /\ marked' \subseteq Blocks /\ free' \in FreeType
       /\ data' \in DataType /\ Counted'
  BY <1>1, <1>11, <1>14, SpaceStep DEF FreeType, DataType
<1>16. CASE ~made /\ exists /\ p = "none"
  <2>1. table' = table /\ pc' = "point" /\ op' = op /\ dangling' = dangling
    BY <1>11, <1>13, <1>16
  <2>2. marked' = marked /\ faults' = faults
    <3>1. s.block = 0 /\ r = s
      BY <1>14, <1>16
    <3>2. faults' = faults
      BY <1>1, <1>10, <1>16, FaultIs
    <3> QED
      BY <1>13, <1>15, <1>16, <3>1, <3>2
  <2>3. TypeOK'
    BY <1>1, <1>2, <1>12, <1>15, <2>1, TypeOKParts, TypeOKStep DEF Pcs
  <2>4. Keeps
    BY <1>2, <2>1, SameKeeps
  <2>5. /\ Node' = Node /\ File' = File /\ LeafOf(File, op.at)' = leaf
        /\ Points(File, op.at)' = Points(File, op.at) /\ (Truncating' <=> Truncating)
    BY <1>2, <2>1 DEF Node, File, LeafOf, Entries, Points, Truncating
  <2>6. Call'
    BY <1>3, <1>16, <2>1, <2>5 DEF Call
  <2>7. (Taken' <=> Taken) /\ InHand' = InHand /\ (Sound' <=> Sound)
    BY <1>2, <2>1, <2>2, <2>5 DEF Taken, InHand, Sound
  <2>8. Marked'
    BY <1>1, <1>2, <2>1, <2>2, <2>4, <2>7 DEF Marked, Keeps
  <2>9. Hand'
    BY <1>1, <1>2, <2>1, <2>2, <2>4, <2>5, <2>7 DEF Hand, Keeps
  <2>10. Accounted'
    BY <1>1, <1>2, <2>1, <2>2, <2>4, <2>5, <2>7 DEF Accounted, Keeps
  <2>11. MakesTable(Up(op.at), "point")
    BY <1>6, <1>16, <2>1, <2>2, <2>4 DEF MakesTable
  <2> QED
    BY <1>1, <1>15, <2>3, <2>4, <2>6, <2>8, <2>9, <2>10, <2>11, KeepsInvariants DEF IInv
<1>17. CASE ~made /\ ~(exists /\ p = "none")
  <2>1. SetFails(Uncleared) /\ ~Truncating
        /\ table' = IF s.block # 0 THEN [table EXCEPT ![s.block] = Zeros] ELSE table
    BY <1>11, <1>17, SetFailsIs
  <2>2. Keeps /\ table' \in TableType
    <3>1. CASE s.block = 0
      BY <1>2, <1>3, <2>1, <3>1, SameKeeps
    <3>2. CASE s.block # 0
      <4>1. s.block \in Blocks \ marked
        BY <1>13, <3>2
      <4>2. Unused(node, table, s.block)
        <5>1. ~Taken
          BY <2>1 DEF Taken
        <5> QED
          BY <1>1, <4>1, <5>1, GroupShape DEF Marked, Unused, Points
      <4> QED
        BY <1>2, <1>3, <2>1, <3>2, <4>1, <4>2, Emptied, UnusedKeeps DEF MapType
    <3> QED
      BY <3>1, <3>2
  <2>3. faults' = 0 => faults = 0 /\ marked' = marked
    BY <1>9, <1>12, <1>13, <1>14, <1>15, <1>17
  <2>4. /\ Call' /\ Unshared' /\ NotMeta' /\ Marked' /\ Hand' /\ Accounted'
        /\ op' \in OpType /\ pc' \in Pcs /\ dangling' \subseteq Blocks
    BY <1>2, <1>14, <1>15, <2>1, <2>2, <2>3, SetFailsStep
  <2>5. TypeOK'
    BY <1>1, <1>2, <1>3, <1>12, <1>15, <2>2, <2>4, TypeOKParts, TypeOKStep DEF MapType
  <2>6. MakesTable(Up(op.at), "point")
    <3>1. ASSUME Sound' PROVE p = "none" /\ ~exists /\ s.block = 0
      BY <1>12, <1>17, <3>1 DEF Sound
    <3>2. ASSUME Sound' PROVE marked = Blocks
      BY <1>13, <3>1, <3>2
    <3> QED
      BY <1>6, <1>14, <1>15, <2>1, <2>2, <3>1, <3>2 DEF MakesTable
  <2> QED
    BY <1>15, <2>4, <2>5, <2>6 DEF IInv
<1>18. CASE made
  <2> DEFINE b == s.block
  <2>1. b \in Blocks \ marked /\ b \in s.marked /\ b # 0 /\ ~exists /\ ~Truncating /\ marked' = s.marked
    BY <1>9, <1>13, <1>14, <1>15, <1>18
  <2>2. /\ table' = [table EXCEPT ![b] = Zeros, ![root][slot] = b]
        /\ pc' = "point" /\ op' = op /\ dangling' = dangling
    BY <1>11, <1>18
  <2>3. Allocated(Space, s, p)
    BY <1>13, <1>18
  <2> HIDE DEF b, made
  <2>4. Unused(node, table, b) /\ b \notin Meta
    <3>1. ~Taken
      BY <2>1 DEF Taken
    <3> QED
      BY <1>1, <1>2, <2>1, <3>1 DEF Marked, Unused, Points, Counted
  <2>5. b # root
    BY <1>3, <1>7, <2>4 DEF Unused, Points
  <2>6. /\ table' \in TableType /\ table'[b] = Zeros
        /\ \A c \in Blocks : c # root /\ c # b => table'[c] = table[c]
        /\ \A q \in Slots : table'[root][q] = IF q = slot THEN b ELSE table[root][q]
    <3> DEFINE T == [table EXCEPT ![b] = Zeros]
    <3>1. T \in TableType /\ T[b] = Zeros /\ \A c \in Blocks : c # b => T[c] = table[c]
      <4>1. Zeros \in [Slots -> Blocks \cup {0}]
        BY DEF Zeros
      <4> QED
        BY <1>3, <2>1, <4>1 DEF TableType
    <3>2. table' = [T EXCEPT ![root][slot] = b]
      BY <2>2
    <3> HIDE DEF T, root, slot
    <3>3. T[root] = table[root] /\ T[root] \in [Slots -> Blocks \cup {0}]
      BY <1>4, <2>5, <3>1 DEF TableType
    <3>4. table' = [T EXCEPT ![root] = [T[root] EXCEPT ![slot] = b]]
      BY <3>2
    <3> DEFINE e == [T[root] EXCEPT ![slot] = b]
    <3>5. /\ e \in [Slots -> Blocks \cup {0}]
          /\ \A q \in Slots : e[q] = IF q = slot THEN b ELSE T[root][q]
      BY <1>6, <2>1, <3>3
    <3> HIDE DEF e
    <3>6. /\ table' \in TableType /\ table'[root] = e
          /\ \A c \in Blocks : c # root => table'[c] = T[c]
      BY <1>4, <3>1, <3>4, <3>5 DEF TableType, e
    <3> QED
      BY <2>1, <2>5, <3>1, <3>3, <3>5, <3>6
  <2>7. Puts(node, table, node', table', op.file, k, b)
    <3>1. TableAt(table', b) = Zeros /\ TableAt(table, PointerIn(node[op.file], table, k)) = Zeros
      BY <1>6, <2>1, <2>6 DEF TableAt, Points
    <3>2. MapType(node, table) /\ Apart(node, table)
      BY <1>1, <1>3 DEF MapType, Unshared
    <3>3. root = PointerIn(node[op.file], table, Up(k))
      BY <1>7 DEF Points
    <3> HIDE DEF root, slot, k
    <3>4. Puts(node, table, node, table', op.file, k, b)
      BY <1>3, <1>4, <1>7, <2>4, <2>6, <3>1, <3>2, <3>3, PutEntry
    <3> QED
      BY <1>2, <3>4
  <2>8. Points(op.file, k) = 0
    BY <1>6, <2>1
  <2>9. Unshared' /\ NotMeta' /\ Marked' /\ Hand' /\ Accounted'
    <3> HIDE DEF k
    <3> QED
      BY <1>2, <1>7, <1>12, <2>1, <2>2, <2>3, <2>7, <2>8, NewTablePuts DEF b
  <2>10. TypeOK'
    BY <1>1, <1>2, <1>3, <1>12, <1>15, <2>2, <2>6, TypeOKParts, TypeOKStep DEF MapType, Pcs
  <2>11. Call'
    <3>1. LeafOf(op.file, op.at)' = b
      <4>1. table'[root][slot] = b
        BY <1>6, <2>6
      <4>2. LeafOf(op.file, op.at)' = TableAt(table', node'[op.file].double)[SlotInRoot(op.at)]
        BY <1>5, <2>2 DEF LeafOf, Entries, TableAt
      <4> QED
        BY <1>2, <1>3, <1>4, <4>1, <4>2 DEF TableAt
    <3>2. File' = op.file
      BY <2>2 DEF File
    <3> QED
      BY <1>3, <2>1, <2>2, <3>1, <3>2 DEF Call
  <2>12. MakesTable(k, "point")
    <3> HIDE DEF k
    <3> QED
      BY <1>13, <2>1, <2>2, <2>7, <2>8 DEF MakesTable
  <2> QED
    BY <1>15, <2>9, <2>10, <2>11, <2>12 DEF IInv
<1> QED
  BY <1>16, <1>17, <1>18

\* The pointer of the block at hand is set.
LEMMA PointerPut ==
  ASSUME IInv, dangling' = {}, pc = "point", marked' = marked, early' = early,
         faults' = 0 => faults = 0,
         Puts(node, table, node', table', op.file, op.at, Pointer)
  PROVE  Unshared' /\ NotMeta' /\ AllMarked' /\ (Sound' => AllMapped')
<1>1. TypeOK /\ Counted /\ Call /\ Unshared /\ NotMeta /\ Marked /\ Hand /\ Accounted
  BY DEF IInv
<1>2. op.file \in Files /\ op.at \in Spots /\ File = op.file
  BY <1>1, AtIs
<1>3. \A f \in Files, k \in Spots :
        Points(f, k)' = IF f = op.file /\ k = op.at THEN Pointer ELSE Points(f, k)
  BY DEF Puts, Points
<1>4. InHand = {op.block} /\ (Taken <=> Truncating)
  BY DEF InHand, Taken
<1>5. Sound' => Sound
  BY DEF Sound
<1>6. \A b \in marked : b # 0
  BY <1>1, GroupShape DEF TypeOK
<1>7. CASE Truncating
  <2>1. Pointer = 0 /\ Points(op.file, op.at) = op.block /\ op.block # 0
    BY <1>1, <1>2, <1>4, <1>7 DEF Pointer, Hand
  <2>2. Unshared' /\ NotMeta'
    <3>1. 0 \notin Meta
      BY GroupShape
    <3> QED
      BY <1>1, <1>2, <2>1, <3>1, PutsInvariants
  <2>3. ASSUME NEW f \in Files, NEW k \in Spots, Points(f, k)' # 0
        PROVE  Points(f, k)' \in marked
    <3>1. Points(f, k)' = Points(f, k) /\ ~(f = op.file /\ k = op.at)
      BY <1>3, <2>1, <2>3
    <3>2. Points(f, k) # op.block
      BY <1>1, <1>2, <2>1, <3>1 DEF Unshared, Apart, Points
    <3> QED
      BY <1>1, <2>3, <3>1, <3>2 DEF Marked
  <2>4. ASSUME Sound', NEW b \in marked
        PROVE  b \in Meta \/ \E f \in Files, k \in Spots : Points(f, k)' = b
    <3>1. op.block \notin marked
      BY <1>1, <1>4, <1>5, <1>7, <2>4 DEF Accounted
    <3>2. CASE b \in Meta
      BY <3>2
    <3>3. CASE b \notin Meta
      <4>1. PICK f \in Files, k \in Spots : Points(f, k) = b
        BY <1>1, <1>4, <1>5, <2>4, <3>1, <3>3 DEF Accounted
      <4>2. ~(f = op.file /\ k = op.at)
        BY <2>1, <3>1, <4>1
      <4> QED
        BY <1>3, <4>1, <4>2
    <3> QED
      BY <3>2, <3>3
  <2> QED
    BY <2>2, <2>3, <2>4 DEF AllMarked, AllMapped
<1>8. CASE ~Truncating
  <2>1. Pointer = op.block /\ op.block # 0 /\ op.block \in marked \ Meta
        /\ Unused(node, table, op.block)
    BY <1>1, <1>8, HandUnused DEF Pointer, Hand
  <2>2. Unshared' /\ NotMeta'
    BY <1>1, <1>2, <2>1, PutsInvariants
  <2>3. ASSUME NEW f \in Files, NEW k \in Spots, Points(f, k)' # 0
        PROVE  Points(f, k)' \in marked
    BY <1>1, <1>3, <1>4, <1>8, <2>1, <2>3 DEF Marked
  <2>4. ASSUME Sound', NEW b \in marked
        PROVE  b \in Meta \/ \E f \in Files, k \in Spots : Points(f, k)' = b
    <3>1. Points(op.file, op.at) = 0
      BY <1>1, <1>2, <1>5, <1>8, <2>4 DEF Accounted
    <3>2. CASE b \in Meta
      BY <3>2
    <3>3. CASE b = op.block
      <4>1. \E f \in Files, k \in Spots : PointerIn(node'[f], table', k) = b
        BY <1>2, <1>3, <2>1, <3>3 DEF Points
      <4> QED
        BY <4>1 DEF Points
    <3>4. CASE b \notin Meta /\ b # op.block
      <4>1. PICK f \in Files, k \in Spots : Points(f, k) = b
        BY <1>1, <1>4, <1>5, <2>4, <3>4 DEF Accounted
      <4>2. ~(f = op.file /\ k = op.at)
        BY <1>6, <3>1, <4>1
      <4> QED
        BY <1>3, <4>1, <4>2
    <3> QED
      BY <3>2, <3>3, <3>4
  <2> QED
    BY <2>2, <2>3, <2>4 DEF AllMarked, AllMapped
<1> QED
  BY <1>7, <1>8

\* setINodeBlock has come to its end, and all is settled.
LEMMA SetDoneStep ==
  ASSUME IInv, dangling' = {},
         pc \in {"point", "sweep", "sweep root"}, NEW n \in NodeType, SetDone(n),
         table' \in TableType, Unshared', NotMeta', AllMarked', Sound' => AllMapped',
         calls' = calls, Counted', marked' \subseteq Blocks, free' \in FreeType,
         data' \in DataType, faults' \in 0..MaxFaults,
         early' \in BOOLEAN, dangling' \subseteq Blocks
  PROVE  IInv'
<1>1. TypeOK /\ Call /\ Hand
  BY DEF IInv
<1>2. /\ node' \in [Files -> NodeType]
      /\ Truncating => Onward
      /\ ~Truncating => pc' = "data" /\ op' = op
  BY <1>1, SetDoneIs
<1>3. /\ op \in OpType /\ op.file \in Files /\ op.call # "none" /\ op.at < op.end
      /\ op.call = "pad" => op.from < op.until
  BY <1>1, AtIs
<1>4. op' \in OpType /\ pc' \in Pcs
  BY <1>2, <1>3 DEF Onward, Pcs
<1>5. TypeOK'
  BY <1>1, <1>2, <1>4, TypeOKParts, TypeOKStep DEF MapType
<1>6. CASE Truncating
  BY <1>2, <1>5, <1>6, OnwardSettled DEF IInv
<1>7. CASE ~Truncating
  <2>1. pc' = "data" /\ op' = op /\ op.block # 0 /\ ~Truncating'
    BY <1>1, <1>2, <1>7 DEF Hand, Truncating
  <2>2. Call'
    BY <1>3, <2>1 DEF Call
  <2>3. Marked' /\ Hand' /\ Accounted'
    BY <2>1, Settled
  <2> QED
    BY <1>5, <2>2, <2>3 DEF IInv
<1> QED
  BY <1>6, <1>7

LEMMA WritePointerStep ==
  ASSUME IInv, dangling' = {}, WritePointer
  PROVE  IInv' /\ SetsPointer
<1>1. TypeOK /\ Counted /\ Call /\ Unshared /\ NotMeta /\ Marked /\ Hand /\ Accounted
  BY DEF IInv
<1>2. /\ pc = "point" /\ dangling = {} /\ UNCHANGED <<calls, marked, free, data, early>>
  BY DEF WritePointer, AtPc, IInv
<1>3. /\ op \in OpType /\ op.file \in Files /\ op.call # "none" /\ op.at < op.end
      /\ op.call = "pad" => op.from < op.until
      /\ op.at \in Nat /\ op.at < Reach /\ op.at \in Spots
      /\ File = op.file /\ Node = node[op.file] /\ node[op.file] \in NodeType
      /\ table \in TableType /\ node \in [Files -> NodeType]
  BY <1>1, <1>2, AtIs
<1>4. Pointer \in Blocks \cup {0} /\ (Pointer # 0 => Unused(node, table, Pointer))
  <2>1. CASE Truncating
    BY <2>1 DEF Pointer
  <2>2. CASE ~Truncating
    BY <1>2, <2>2, HandUnused DEF Pointer
  <2> QED
    BY <2>1, <2>2
<1>5. Counted'
  BY <1>1, <1>2 DEF Counted, CountsAgree
<1>6. /\ marked' \subseteq Blocks /\ free' \in FreeType /\ data' \in DataType
      /\ early' \in BOOLEAN /\ calls' \in 0..MaxCalls
  BY <1>1, <1>2, TypeOKParts
<1>7. MapType(node, table) /\ Apart(node, table)
  BY <1>1, TypeOKParts DEF Unshared
<1>8. CASE IsDirect(op.at)
  <2> DEFINE direct == [node[op.file].direct EXCEPT ![op.at] = Pointer]
             n == [node[op.file] EXCEPT !.direct = direct]
  <2>1. SetDone(n) /\ UNCHANGED <<table, faults, dangling>>
    BY <1>3, <1>8 DEF WritePointer
  <2>2. op.at \in 0..(Direct - 1)
    BY <1>3, <1>8, MapShape DEF IsDirect
  <2>3. /\ direct \in [0..(Direct - 1) -> Blocks \cup {0}]
        /\ \A j \in 0..(Direct - 1) :
             direct[j] = IF j = op.at THEN Pointer ELSE node[op.file].direct[j]
    <3>1. node[op.file].direct \in [0..(Direct - 1) -> Blocks \cup {0}]
      BY <1>3 DEF NodeType
    <3> QED
      BY <1>4, <2>2, <3>1
  <2> HIDE DEF direct
  <2>4. /\ n \in NodeType /\ n.direct = direct
        /\ n.single = node[op.file].single /\ n.double = node[op.file].double
    BY <1>3, <2>3 DEF NodeType
  <2> HIDE DEF n
  <2>5. /\ node' \in [Files -> NodeType]
        /\ \A g \in Files : g # op.file => node'[g] = node[g]
        /\ node'[op.file].direct = n.direct /\ node'[op.file].single = n.single
        /\ node'[op.file].double = n.double
    BY <1>1, <1>2, <1>3, <2>1, <2>4, SetDoneIs
  <2>6. Own(op.at) /\ ~(op.at >= Reach) /\ op.at # Reach /\ op.at # Reach + 1
    BY <1>3, <1>8, MapShape DEF Own, IsDirect
  <2>7. FieldPut(node'[op.file], node[op.file], op.at, Pointer)
    <3>1. \A j \in Spots : j < Direct => j \in 0..(Direct - 1)
      BY MapShape
    <3> QED
      BY <2>3, <2>4, <2>5, <2>6, <3>1 DEF FieldPut
  <2>8. \A j \in Spots : Own(j) =>
          PointerIn(node'[op.file], table', j) =
            IF j = op.at THEN Pointer ELSE PointerIn(node[op.file], table, j)
    BY <1>3, <2>7, OwnPut
  <2>9. table' = table
    BY <2>1
  <2>10. Puts(node, table, node', table', op.file, op.at, Pointer)
    BY <1>3, <1>4, <1>7, <2>5, <2>6, <2>8, <2>9, PutOwn
  <2>11. Unshared' /\ NotMeta' /\ AllMarked' /\ (Sound' => AllMapped')
    BY <1>2, <2>1, <2>10, PointerPut
  <2>12. faults' \in 0..MaxFaults /\ dangling' \subseteq Blocks
    BY <1>1, <2>1, TypeOKParts
  <2> QED
    BY <1>2, <1>3, <1>5, <1>6, <2>1, <2>4, <2>9, <2>10, <2>11, <2>12, SetDoneStep DEF SetsPointer
<1>9. CASE ~IsDirect(op.at)
  <2> DEFINE leaf == LeafOf(File, op.at)
  <2>1. PICK p \in {"none", "pointer"} :
          /\ Fault({"pointer"}, p)
          /\ IF p = "pointer" THEN SetFails(Uncleared) /\ UNCHANGED table
             ELSE /\ table' = [table EXCEPT ![leaf][Slot(op.at)] = Pointer]
                  /\ pc' = "sweep" /\ UNCHANGED <<op, node, dangling>>
    BY <1>9 DEF WritePointer
  <2>2. node' = node
    BY <2>1, SetFailsIs
  <2>3. faults' \in 0..MaxFaults /\ (faults' = 0 => faults = 0 /\ p = "none")
    BY <1>1, <2>1, FaultIs
  <2>4. CASE p = "pointer"
    <3>1. SetFails(Uncleared) /\ table' = table
      BY <2>1, <2>4
    <3>2. Keeps
      BY <2>2, <3>1, SameKeeps
    <3>3. /\ Call' /\ Unshared' /\ NotMeta' /\ Marked' /\ Hand' /\ Accounted'
          /\ op' \in OpType /\ pc' \in Pcs /\ dangling' \subseteq Blocks
      BY <1>2, <2>3, <2>4, <3>1, <3>2, SetFailsStep
    <3>4. TypeOK'
      BY <1>6, <1>7, <2>2, <2>3, <3>1, <3>3, TypeOKStep
    <3>5. ~Sound'
      BY <2>3, <2>4 DEF Sound
    <3> QED
      BY <1>5, <3>1, <3>2, <3>3, <3>4, <3>5 DEF IInv, SetsPointer
  <2>5. CASE p # "pointer"
    <3>1. /\ leaf = Points(op.file, Up(op.at)) /\ ~Own(op.at) /\ At(op.at) = Slot(op.at)
      BY <1>3, <1>9, LeafIs
    <3>2. leaf # 0
      BY <1>1, <1>2, <1>9 DEF Call
    <3>3. Up(op.at) \in Spots /\ Slot(op.at) \in Slots /\ Up(op.at) # op.at
      BY <1>3, <3>1, UpShape
    <3>4. leaf \in Blocks
      <4>1. Points(op.file, Up(op.at)) \in Blocks \cup {0}
        BY <1>3, <1>7, <3>3, PointerType DEF Points
      <4> QED
        BY <3>1, <3>2, <4>1
    <3>5. table' = [table EXCEPT ![leaf][Slot(op.at)] = Pointer] /\ pc' = "sweep"
          /\ op' = op /\ dangling' = dangling
      BY <2>1, <2>5
    <3> HIDE DEF leaf
    <3>6. /\ table' \in TableType
          /\ \A c \in Blocks : c # leaf => table'[c] = table[c]
          /\ \A s \in Slots : table'[leaf][s] = IF s = Slot(op.at) THEN Pointer ELSE table[leaf][s]
      <4> DEFINE e == [table[leaf] EXCEPT ![Slot(op.at)] = Pointer]
      <4>1. table' = [table EXCEPT ![leaf] = e]
        BY <3>5
      <4>2. table[leaf] \in [Slots -> Blocks \cup {0}]
        BY <1>3, <3>4 DEF TableType
      <4>3. /\ e \in [Slots -> Blocks \cup {0}]
            /\ \A s \in Slots : e[s] = IF s = Slot(op.at) THEN Pointer ELSE table[leaf][s]
        BY <1>4, <3>3, <4>2
      <4> HIDE DEF e
      <4>4. /\ table' \in TableType /\ table'[leaf] = e
            /\ \A c \in Blocks : c # leaf => table'[c] = table[c]
        BY <1>3, <3>4, <4>1, <4>3 DEF TableType
      <4> QED
        BY <4>3, <4>4
    <3>7. Puts(node, table, node', table', op.file, op.at, Pointer)
      <4>1. leaf = PointerIn(node[op.file], table, Up(op.at))
        BY <3>1 DEF Points
      <4>2. ~(op.at > Reach)
        BY <1>3, MapShape
      <4>3. Puts(node, table, node, table', op.file, op.at, Pointer)
        BY <1>3, <1>4, <1>7, <3>1, <3>2, <3>6, <4>1, <4>2, PutEntry
      <4> QED
        BY <2>2, <4>3
    <3>8. Unshared' /\ NotMeta' /\ AllMarked' /\ (Sound' => AllMapped')
      BY <1>2, <2>3, <3>7, PointerPut
    <3>9. op.block # 0
      BY <1>1, <1>2 DEF Hand
    <3>10. Marked' /\ Hand' /\ Accounted'
      BY <3>5, <3>8, <3>9, Settled
    <3>11. Call'
      <4>1. ASSUME IsSingle(op.at)
            PROVE  LeafOf(op.file, op.at)' = leaf
        <5>1. LeafOf(op.file, op.at)' = node'[op.file].single
          BY <3>5, <4>1 DEF LeafOf
        <5> QED
          BY <1>3, <1>9, <2>2, <4>1, <5>1, LeafIs DEF leaf
      <4>2. ASSUME ~IsSingle(op.at)
            PROVE  LeafOf(op.file, op.at)' = leaf
        <5> DEFINE root == node[op.file].double
                   q == SlotInRoot(op.at)
        <5>1. /\ IsDouble(op.at) /\ leaf = TableAt(table, root)[q] /\ q \in Slots
              /\ Up(op.at) = Reach + 2 + q
          BY <1>3, <1>9, <4>2, LeafIs DEF leaf
        <5>2. LeafOf(op.file, op.at)' = TableAt(table', root)[q]
          BY <2>2, <3>5, <4>2 DEF LeafOf, Entries, TableAt
        <5>3. root # leaf
          <6>1. Points(op.file, Reach + 1) = root /\ Reach + 1 \in Spots
            BY MapShape, Ways DEF Points
          <6>2. Up(op.at) # Reach + 1
            <7>1. q \in Nat /\ Reach \in Nat
              BY <5>1, MapShape, Zenon
            <7> HIDE DEF q
            <7> QED
              BY <5>1, <7>1
          <6> QED
            BY <1>3, <1>7, <3>1, <3>2, <3>3, <6>1, <6>2 DEF Apart, Points
        <5>4. root \in Blocks \cup {0}
          BY <1>3 DEF NodeType
        <5>5. TableAt(table', root) = TableAt(table, root)
          BY <3>6, <5>3, <5>4 DEF TableAt
        <5> QED
          BY <5>1, <5>2, <5>5
      <4>3. File' = op.file
        BY <3>5 DEF File
      <4> QED
        BY <1>3, <1>9, <3>2, <3>5, <4>1, <4>2, <4>3 DEF Call
    <3> QED
      <4>1. MapType(node', table') /\ op' \in OpType /\ pc' \in Pcs
        BY <1>3, <2>2, <3>5, <3>6 DEF MapType, Pcs
      <4>2. dangling' \subseteq Blocks
        BY <1>1, <3>5, TypeOKParts
      <4>3. TypeOK'
        BY <1>6, <2>3, <4>1, <4>2, TypeOKStep
      <4> QED
        BY <1>5, <3>7, <3>8, <3>10, <3>11, <4>3 DEF IInv, SetsPointer
  <2> QED
    BY <2>4, <2>5
<1> QED
  BY <1>8, <1>9

LEMMA FieldsKeep ==
  ASSUME table' = table,
         \A f \in Files : /\ node'[f].direct = node[f].direct
                          /\ node'[f].single = node[f].single
                          /\ node'[f].double = node[f].double
  PROVE  Keeps
<1>1. ASSUME NEW m, NEW n, NEW t, NEW k \in Spots,
             m.direct = n.direct, m.single = n.single, m.double = n.double
      PROVE  PointerIn(m, t, k) = PointerIn(n, t, k)
  BY <1>1, Zenon DEF PointerIn
<1> QED
  BY <1>1 DEF Keeps, Points

LEMMA Elsewhere ==
  ASSUME Unshared, NEW g \in Files, NEW k \in Spots
  PROVE  \A f \in Files, j \in Spots :
           Points(f, j) # 0 /\ ~(f = g /\ j = k) => Points(f, j) # Points(g, k)
BY ApartIs DEF Unshared, Points

\* An indirect block is taken out of the map.
TakesOut(k, leaf) ==
  /\ leaf = Points(op.file, k) /\ leaf # 0
  /\ Lowers(node, table, node', table')
  /\ PointerIn(node'[op.file], table', k) = 0
  /\ marked \ {leaf} \subseteq marked'
  /\ Sound' => /\ Sound /\ marked' = marked \ {leaf}
               /\ Puts(node, table, node', table', op.file, k, 0)

LEMMA Sweeping ==
  ASSUME IInv, dangling' = {},
         pc \in {"sweep", "sweep root"}, NEW k \in Spots, NEW leaf, TakesOut(k, leaf)
  PROVE  /\ Unshared' /\ NotMeta'
         /\ AllMarked'
         /\ Sound' => AllMapped'
<1>1. TypeOK /\ Counted /\ Call /\ Unshared /\ NotMeta /\ Marked /\ Hand /\ Accounted
  BY DEF IInv
<1>2. op.file \in Files
  BY <1>1, AtIs
<1>3. AllMarked /\ (Sound => AllMapped)
  BY <1>1, WasSettled DEF TakesOut
<1>4. \A f \in Files, j \in Spots : Points(f, j)' # 0 => Points(f, j)' = Points(f, j)
  BY DEF TakesOut, Lowers, Points
<1>5. Unshared'
  BY <1>1, LowersStaysApart DEF TakesOut, Unshared
<1>6. NotMeta'
  BY <1>1, <1>4, GroupShape DEF NotMeta
<1>7. AllMarked'
  <2>1. ASSUME NEW f \in Files, NEW j \in Spots, Points(f, j)' # 0
        PROVE  Points(f, j)' \in marked'
    <3>1. Points(f, j)' = Points(f, j) /\ Points(f, j) \in marked /\ Points(f, j) # 0
      BY <1>3, <1>4, <2>1 DEF AllMarked
    <3>2. ~(f = op.file /\ j = k)
      BY <2>1 DEF TakesOut, Points
    <3>3. Points(f, j) # leaf
      BY <1>1, <1>2, <3>1, <3>2, Elsewhere DEF TakesOut
    <3> QED
      BY <3>1, <3>3 DEF TakesOut
  <2> QED
    BY <2>1 DEF AllMarked
<1>8. Sound' => AllMapped'
  <2>1. ASSUME Sound', NEW b \in marked'
        PROVE  b \in Meta \/ \E f \in Files, j \in Spots : Points(f, j)' = b
    <3>1. b \in marked /\ b # leaf
      BY <2>1 DEF TakesOut
    <3>2. CASE b \in Meta
      BY <3>2
    <3>3. CASE b \notin Meta
      <4>1. PICK f \in Files, j \in Spots : Points(f, j) = b
        <5>1. AllMapped
          BY <1>3, <2>1 DEF TakesOut
        <5> QED
          BY <3>1, <3>3, <5>1 DEF AllMapped
      <4>2. ~(f = op.file /\ j = k)
        BY <3>1, <4>1 DEF TakesOut
      <4>3. Points(f, j)' = b
        BY <2>1, <4>1, <4>2 DEF TakesOut, Puts, Points
      <4> QED
        BY <4>3
    <3> QED
      BY <3>2, <3>3
  <2> QED
    BY <2>1 DEF AllMapped
<1> QED
  BY <1>5, <1>6, <1>7, <1>8

\* The 1st level indirect block is next.
LEMMA SweepRootNext ==
  ASSUME IInv, dangling' = {},
         pc = "sweep", IsDouble(op.at), pc' = "sweep root", UNCHANGED <<node, op>>,
         table' \in TableType, Unshared', NotMeta', AllMarked', Sound' => AllMapped',
         calls' = calls, Counted', marked' \subseteq Blocks, free' \in FreeType,
         data' \in DataType, faults' \in 0..MaxFaults,
         early' \in BOOLEAN, dangling' \subseteq Blocks
  PROVE  IInv'
<1>1. TypeOK /\ Call /\ Hand
  BY DEF IInv
<1>2. /\ op \in OpType /\ op.file \in Files /\ op.call # "none" /\ op.at < op.end
      /\ op.call = "pad" => op.from < op.until
      /\ op.at \in Nat /\ op.at < Reach /\ op.at \in Spots
      /\ File = op.file /\ Node = node[op.file] /\ node \in [Files -> NodeType]
  BY <1>1, AtIs
<1>3. TypeOK'
  BY <1>1, <1>2, TypeOKParts, TypeOKStep DEF MapType, Pcs
<1>4. ~IsDirect(op.at) /\ LeafOf(op.file, op.at) # 0 /\ op.block # 0
  BY <1>1, <1>2, MapShape DEF Call, Hand, IsDirect, IsDouble
<1>5. Node.double # 0
  <2>1. SlotInRoot(op.at) \in Slots
        /\ LeafOf(op.file, op.at) = TableAt(table, node[op.file].double)[SlotInRoot(op.at)]
    <3>1. ~IsSingle(op.at)
      BY <1>2, DoubleIs
    <3> QED
      BY <1>2, <1>4, <3>1, LeafIs
  <2>2. TableAt(table, 0)[SlotInRoot(op.at)] = 0
    BY <2>1 DEF TableAt, Zeros
  <2> QED
    BY <1>2, <1>4, <2>1, <2>2
<1>6. Call'
  BY <1>2, <1>5 DEF Call, Node
<1>7. Marked' /\ Hand' /\ Accounted'
  BY <1>4, Settled
<1> QED
  BY <1>3, <1>6, <1>7 DEF IInv

\* An indirect block is freed, or the bitmap cannot be changed.
LEMMA SweptSane ==
  ASSUME TypeOK, Counted, NEW b \in Blocks \ Meta, NEW p
  PROVE  /\ Sane(Swept(b, p)) /\ marked \ {b} \subseteq Swept(b, p).marked
         /\ p = "none" => Swept(b, p).marked = marked \ {b}
<1>1. Sane(Space) /\ Space.marked = marked
  BY SpaceSane
<1>2. Sane(Release(Space, b)) /\ Release(Space, b).marked = marked \ {b}
  BY <1>1, ReleaseSane
<1> QED
  BY <1>1, <1>2 DEF Swept

LEMMA SweepRootStep ==
  ASSUME IInv, dangling' = {}, SweepRoot
  PROVE  IInv' /\ SweepsOut(Reach + 1)
<1>1. TypeOK /\ Counted /\ Call /\ Unshared /\ NotMeta /\ Marked /\ Hand /\ Accounted
  BY DEF IInv
<1>2. pc = "sweep root" /\ dangling = {} /\ calls' = calls /\ dangling' = dangling
  BY DEF SweepRoot, AtPc, IInv
<1>3. /\ op.file \in Files /\ File = op.file /\ Node = node[op.file]
      /\ node[op.file] \in NodeType /\ table \in TableType /\ node \in [Files -> NodeType]
  BY <1>1, <1>2, AtIs
<1> DEFINE root == Node.double
           goes == IsZeroed(table[root])
           points == IF goes THEN {"read", "bitmap"} ELSE {}
           k == Reach + 1
<1>4. root # 0 /\ root \in Blocks
  <2>1. root # 0
    BY <1>1, <1>2 DEF Call
  <2> QED
    BY <1>3, <2>1 DEF NodeType
<1>5. k \in Spots /\ Own(k) /\ k >= Reach /\ Points(op.file, k) = root /\ k # Reach
      /\ \A j \in Spots : j < Direct => j # k
  <2>1. k \in Spots /\ k >= Reach /\ k # Reach /\ \A j \in Spots : j < Direct => j # k
    BY MapShape
  <2> QED
    BY <1>3, <2>1, Ways DEF Own, Points
<1>6. root \in Blocks \ Meta
  BY <1>1, <1>3, <1>4, <1>5 DEF NotMeta
<1>7. PICK p \in points \cup {"none"} :
        /\ Fault(points, p)
        /\ LET freed == goes /\ p # "read"
           IN  /\ SetSpace(IF freed THEN Swept(root, p) ELSE Space)
               /\ early' = (early \/ (freed /\ table[root] # Zeros))
               /\ table' = IF freed THEN [table EXCEPT ![root] = Zeros] ELSE table
               /\ SetDone(IF freed THEN [Node EXCEPT !.double = 0] ELSE Node)
  BY DEF SweepRoot
<1> DEFINE freed == goes /\ p # "read"
<1>8. faults' \in 0..MaxFaults /\ (faults' = 0 => faults = 0 /\ p = "none")
  BY <1>1, <1>7, FaultIs
<1>9. early \in BOOLEAN /\ dangling' \subseteq Blocks
  BY <1>1, <1>2, TypeOKParts
<1>10. AllMarked /\ (Sound => AllMapped)
  BY <1>1, <1>2, WasSettled
<1>11. CASE ~freed
  <2>1. SetSpace(Space) /\ early' = early /\ table' = table /\ SetDone(Node)
    BY <1>7, <1>9, <1>11
  <2>2. /\ marked' = marked /\ marked' \subseteq Blocks /\ free' \in FreeType
        /\ data' \in DataType /\ Counted'
    BY <1>1, <2>1, SpaceSane, SpaceStep DEF FreeType, DataType
  <2>3. \A f \in Files : /\ node'[f].direct = node[f].direct
                         /\ node'[f].single = node[f].single
                         /\ node'[f].double = node[f].double
    BY <1>1, <1>2, <1>3, <2>1, SetDoneIs
  <2>4. Keeps
    BY <2>1, <2>3, FieldsKeep
  <2>5. AllMarked' /\ (Sound' => AllMapped')
    BY <1>8, <1>10, <2>1, <2>2, <2>4, SameSettled DEF Sound
  <2>6. Unshared' /\ NotMeta'
    BY <1>1, <2>4, KeepsInvariants
  <2>7. Node \in NodeType /\ table' \in TableType /\ early' \in BOOLEAN
    BY <1>3, <1>9, <2>1
  <2>8. SweepsOut(k)
    <3>1. Sound' => ~goes
      BY <1>8, <1>11 DEF Sound
    <3> QED
      BY <1>5, <2>2, <2>4, <3>1 DEF SweepsOut
  <2> QED
    BY <1>2, <1>8, <1>9, <2>1, <2>2, <2>5, <2>6, <2>7, <2>8, SetDoneStep
<1>12. CASE freed
  <2> DEFINE n == [Node EXCEPT !.double = 0]
  <2>1. /\ SetSpace(Swept(root, p)) /\ SetDone(n)
        /\ early' = (early \/ table[root] # Zeros)
        /\ table' = [table EXCEPT ![root] = Zeros]
    BY <1>7, <1>12
  <2>2. n \in NodeType /\ n.direct = Node.direct /\ n.single = Node.single /\ n.double = 0
    BY <1>3 DEF NodeType
  <2> HIDE DEF n
  <2>3. /\ marked' = Swept(root, p).marked /\ marked' \subseteq Blocks /\ free' \in FreeType
        /\ data' \in DataType /\ Counted'
    BY <1>1, <1>6, <2>1, SweptSane, SpaceStep DEF FreeType, DataType
  <2>4. marked \ {root} \subseteq marked' /\ (p = "none" => marked' = marked \ {root})
    BY <1>1, <1>6, <2>3, SweptSane
  <2>5. /\ node' \in [Files -> NodeType]
        /\ \A g \in Files : g # op.file => node'[g] = node[g]
        /\ node'[op.file].direct = n.direct /\ node'[op.file].single = n.single
        /\ node'[op.file].double = n.double
    BY <1>1, <1>2, <1>3, <2>1, <2>2, SetDoneIs
  <2>6. /\ table' \in TableType
        /\ \A c \in Blocks, s \in Slots : table'[c][s] # 0 => table'[c][s] = table[c][s]
        /\ table[root] = Zeros => table' = table
    <3>1. table' = [table EXCEPT ![root] = Zeros]
      BY <2>1
    <3>2. table \in TableType /\ root \in Blocks
      BY <1>3, <1>4
    <3> HIDE DEF root
    <3>3. table' \in TableType
      BY <3>1, <3>2, Emptied
    <3>4. \A c \in Blocks, s \in Slots : table'[c][s] # 0 => table'[c][s] = table[c][s]
      BY <3>1, <3>2, Emptied
    <3>5. table[root] = Zeros => table' = table
      BY <3>1, <3>2, Emptied
    <3> QED
      BY <3>3, <3>4, <3>5
  <2>7. FieldPut(node'[op.file], node[op.file], k, 0)
    BY <1>3, <1>5, <2>2, <2>5 DEF FieldPut
  <2> HIDE DEF root, k
  <2>8. \A j \in Spots : Own(j) =>
          PointerIn(node'[op.file], table', j) =
            IF j = k THEN 0 ELSE PointerIn(node[op.file], table, j)
    BY <1>5, <2>7, OwnPut
  <2>9. MapType(node, table) /\ MapType(node', table')
    BY <1>3, <2>5, <2>6 DEF MapType
  <2>10. Lowers(node, table, node', table')
    <3>1. ASSUME NEW g \in Files, NEW j \in Spots, Own(j), PointerIn(node'[g], table', j) # 0
          PROVE  PointerIn(node'[g], table', j) = PointerIn(node[g], table, j)
      <4>1. CASE g = op.file
        BY <2>8, <3>1, <4>1
      <4>2. CASE g # op.file
        BY <2>5, <3>1, <4>2, OwnPlace
      <4> QED
        BY <4>1, <4>2
    <3> QED
      BY <2>6, <2>9, <3>1, Lowering
  <2>11. PointerIn(node'[op.file], table', k) = 0
    BY <1>5, <2>8
  <2>12. ASSUME Sound'
         PROVE  /\ Sound /\ marked' = marked \ {root}
                /\ Puts(node, table, node', table', op.file, k, 0)
    <3>1. faults = 0 /\ p = "none" /\ ~early /\ table[root] = Zeros
      BY <1>8, <2>1, <2>12 DEF Sound
    <3>2. table' = table
      BY <2>6, <3>1
    <3>3. TableAt(table', 0) = Zeros /\ TableAt(table, PointerIn(node[op.file], table, k)) = Zeros
      BY <1>4, <1>5, <3>1 DEF TableAt, Points
    <3>4. Puts(node, table, node', table', op.file, k, 0)
      BY <1>3, <1>5, <2>5, <2>8, <2>9, <3>2, <3>3, PutOwn
    <3> QED
      BY <2>4, <3>1, <3>4 DEF Sound
  <2>13. Unshared' /\ NotMeta' /\ AllMarked' /\ (Sound' => AllMapped')
    BY <1>2, <1>4, <1>5, <2>4, <2>10, <2>11, <2>12, Sweeping DEF TakesOut
  <2>14. early' \in BOOLEAN /\ (~early' => table[root] = Zeros)
    BY <1>9, <2>1
  <2>15. SweepsOut(k)
    BY <1>4, <1>5, <2>12, <2>14 DEF SweepsOut
  <2> QED
    BY <1>2, <1>8, <1>9, <2>1, <2>2, <2>3, <2>6, <2>13, <2>14, <2>15, SetDoneStep DEF k
<1> QED
  BY <1>11, <1>12

LEMMA SweepStep ==
  ASSUME IInv, dangling' = {}, Sweep
  PROVE  IInv' /\ SweepsOut(Up(op.at))
<1>1. TypeOK /\ Counted /\ Call /\ Unshared /\ NotMeta /\ Marked /\ Hand /\ Accounted
  BY DEF IInv
<1>2. pc = "sweep" /\ dangling = {} /\ calls' = calls
  BY DEF Sweep, AtPc, IInv
<1>3. /\ op.file \in Files /\ File = op.file /\ Node = node[op.file]
      /\ op.at \in Nat /\ op.at < Reach /\ op.at \in Spots
      /\ node[op.file] \in NodeType /\ table \in TableType /\ node \in [Files -> NodeType]
  BY <1>1, <1>2, AtIs
<1> DEFINE leaf == LeafOf(File, op.at)
           k == Up(op.at)
           root == Node.double
           slot == SlotInRoot(op.at)
           goes == IsZeroed(table[leaf])
           points == IF ~goes THEN {}
                     ELSE IF IsSingle(op.at) THEN {"read", "bitmap"} ELSE {"read", "bitmap", "slot"}
<1>4. ~IsDirect(op.at) /\ leaf # 0
  BY <1>1, <1>2, <1>3 DEF Call
<1>5. /\ leaf = Points(op.file, k) /\ ~Own(op.at)
      /\ IsSingle(op.at) => k = Reach /\ leaf = Node.single
      /\ ~IsSingle(op.at) => IsDouble(op.at) /\ slot \in Slots
      /\ IsDouble(op.at) => k = Reach + 2 + slot /\ leaf = TableAt(table, root)[slot]
  BY <1>3, <1>4, LeafIs
<1>6. k \in Spots
  BY <1>3, <1>5, UpShape
<1>7. leaf \in Blocks \ Meta
  <2>1. Points(op.file, k) \in Blocks \cup {0}
    BY <1>1, <1>3, <1>6, TypeOKParts, PointerType DEF Points
  <2>2. Points(op.file, k) \notin Meta
    BY <1>1, <1>3, <1>6 DEF NotMeta
  <2> QED
    BY <1>4, <1>5, <2>1, <2>2
<1>8. PICK p \in points \cup {"none"} :
        /\ Fault(points, p)
        /\ LET freed == goes /\ p # "read"
               n == IF freed /\ IsSingle(op.at) THEN [Node EXCEPT !.single = 0] ELSE Node
           IN  /\ SetSpace(IF freed THEN Swept(leaf, p) ELSE Space)
               /\ early' = (early \/ (freed /\ table[leaf] # Zeros))
               /\ table' = IF ~freed \/ p = "slot" THEN table
                           ELSE IF IsDouble(op.at)
                           THEN [table EXCEPT ![leaf] = Zeros, ![Node.double][SlotInRoot(op.at)] = 0]
                           ELSE [table EXCEPT ![leaf] = Zeros]
               /\ IF p = "slot" THEN SetFails({leaf} \cup ({op.block} \ Uncleared))
                  ELSE /\ IF IsSingle(op.at) THEN SetDone(n)
                          ELSE pc' = "sweep root" /\ UNCHANGED <<node, op>>
                       /\ UNCHANGED dangling
  BY DEF Sweep
<1> DEFINE freed == goes /\ p # "read"
<1>9. faults' \in 0..MaxFaults /\ (faults' = 0 => faults = 0 /\ p = "none")
  BY <1>1, <1>8, FaultIs
<1>10. early \in BOOLEAN /\ dangling \subseteq Blocks /\ calls \in 0..MaxCalls
  BY <1>1, TypeOKParts
<1>11. AllMarked /\ (Sound => AllMapped)
  BY <1>1, <1>2, WasSettled
<1>12. MapType(node, table) /\ Apart(node, table)
  BY <1>1, TypeOKParts DEF Unshared
<1>13. (IsSingle(op.at) => ~IsDouble(op.at)) /\ p # "slot"
  <2>1. IsSingle(op.at) => ~IsDouble(op.at)
    BY <1>3, DoubleIs
  <2>2. p # "slot"
    <3>1. ASSUME p = "slot" PROVE leaf \in dangling'
      BY <1>8, <3>1 DEF SetFails
    <3> QED
      BY <3>1
  <2> QED
    BY <2>1, <2>2
<1>14. CASE ~freed
  <2>1. /\ SetSpace(Space) /\ table' = table /\ early' = early /\ dangling' = dangling
        /\ IF IsSingle(op.at) THEN SetDone(Node)
           ELSE pc' = "sweep root" /\ UNCHANGED <<node, op>>
    <3>1. early' = early
      BY <1>8, <1>10, <1>14
    <3> QED
      BY <1>8, <1>13, <1>14, <3>1
  <2>2. /\ marked' = marked /\ marked' \subseteq Blocks /\ free' \in FreeType
        /\ data' \in DataType /\ Counted'
    BY <1>1, <2>1, SpaceSane, SpaceStep DEF FreeType, DataType
  <2>3. Keeps
    <3>1. CASE IsSingle(op.at)
      <4>1. \A f \in Files : /\ node'[f].direct = node[f].direct
                             /\ node'[f].single = node[f].single
                             /\ node'[f].double = node[f].double
        BY <1>1, <1>2, <1>3, <2>1, <3>1, SetDoneIs
      <4> QED
        BY <2>1, <4>1, FieldsKeep
    <3>2. CASE ~IsSingle(op.at)
      BY <2>1, <3>2, SameKeeps
    <3> QED
      BY <3>1, <3>2
  <2>4. AllMarked' /\ (Sound' => AllMapped')
    BY <1>9, <1>11, <2>1, <2>2, <2>3, SameSettled DEF Sound
  <2>5. Unshared' /\ NotMeta'
    BY <1>1, <2>3, KeepsInvariants
  <2>6. Node \in NodeType /\ table' \in TableType /\ early' \in BOOLEAN /\ dangling' \subseteq Blocks
    BY <1>3, <1>10, <2>1
  <2>7. ASSUME IsSingle(op.at) PROVE IInv'
    BY <1>2, <1>9, <2>1, <2>2, <2>4, <2>5, <2>6, <2>7, SetDoneStep
  <2>8. ASSUME ~IsSingle(op.at) PROVE IInv'
    BY <1>2, <1>5, <1>9, <2>1, <2>2, <2>4, <2>5, <2>6, <2>8, SweepRootNext
  <2>9. SweepsOut(k)
    <3>1. Sound' => ~goes
      BY <1>9, <1>14 DEF Sound
    <3> QED
      BY <1>5, <2>2, <2>3, <3>1 DEF SweepsOut
  <2> QED
    BY <2>7, <2>8, <2>9
<1>15. ASSUME freed
       PROVE  /\ marked' = Swept(leaf, p).marked /\ marked' \subseteq Blocks
              /\ free' \in FreeType /\ data' \in DataType /\ Counted'
              /\ marked \ {leaf} \subseteq marked'
              /\ p = "none" => marked' = marked \ {leaf}
              /\ early' \in BOOLEAN /\ (~early' => table[leaf] = Zeros)
              /\ Sound' => Sound /\ p = "none" /\ table[leaf] = Zeros
  <2>1. SetSpace(Swept(leaf, p)) /\ early' = (early \/ table[leaf] # Zeros)
    BY <1>8, <1>15
  <2> HIDE DEF leaf, goes, points
  <2>2. /\ marked' = Swept(leaf, p).marked /\ marked' \subseteq Blocks
        /\ free' \in FreeType /\ data' \in DataType /\ Counted'
    BY <1>1, <1>7, <2>1, SweptSane, SpaceStep DEF FreeType, DataType
  <2>3. marked \ {leaf} \subseteq marked' /\ (p = "none" => marked' = marked \ {leaf})
    BY <1>1, <1>7, <2>2, SweptSane
  <2>4. early' \in BOOLEAN /\ (~early' => ~early /\ table[leaf] = Zeros)
    BY <1>10, <2>1
  <2>5. Sound' => Sound /\ p = "none" /\ table[leaf] = Zeros
    BY <1>9, <2>4 DEF Sound
  <2> QED
    BY <2>2, <2>3, <2>4, <2>5
<1>16. CASE freed /\ IsSingle(op.at)
  <2> DEFINE n == [Node EXCEPT !.single = 0]
  <2>1. SetDone(n) /\ table' = [table EXCEPT ![leaf] = Zeros] /\ dangling' = dangling
    BY <1>8, <1>13, <1>16
  <2>2. n \in NodeType /\ n.direct = Node.direct /\ n.single = 0 /\ n.double = Node.double
    BY <1>3 DEF NodeType
  <2> HIDE DEF n
  <2>3. /\ marked' \subseteq Blocks /\ free' \in FreeType /\ data' \in DataType /\ Counted'
        /\ marked \ {leaf} \subseteq marked' /\ (p = "none" => marked' = marked \ {leaf})
        /\ early' \in BOOLEAN /\ (~early' => table[leaf] = Zeros)
        /\ Sound' => Sound /\ p = "none" /\ table[leaf] = Zeros
    BY <1>15, <1>16
  <2>4. k = Reach /\ leaf = Points(op.file, k) /\ Own(k)
    BY <1>5, <1>16 DEF Own
  <2>5. Reach # Reach + 1 /\ k >= Reach /\ \A j \in Spots : j < Direct => j # k
    BY <2>4, MapShape
  <2>6. /\ node' \in [Files -> NodeType]
        /\ \A g \in Files : g # op.file => node'[g] = node[g]
        /\ node'[op.file].direct = n.direct /\ node'[op.file].single = n.single
        /\ node'[op.file].double = n.double
    BY <1>1, <1>2, <1>3, <2>1, <2>2, SetDoneIs
  <2>7. FieldPut(node'[op.file], node[op.file], k, 0)
    BY <1>3, <2>2, <2>4, <2>5, <2>6 DEF FieldPut
  <2> HIDE DEF leaf, k, goes, points
  <2>8. leaf \in Blocks /\ leaf # 0
    BY <1>4, <1>7
  <2>9. table' \in TableType
    BY <1>3, <2>1, <2>8, Emptied
  <2>10. \A c \in Blocks, s \in Slots : table'[c][s] # 0 => table'[c][s] = table[c][s]
    BY <1>3, <2>1, <2>8, Emptied
  <2>11. table[leaf] = Zeros => table' = table
    BY <1>3, <2>1, <2>8, Emptied
  <2>12. \A j \in Spots : Own(j) =>
           PointerIn(node'[op.file], table', j) =
             IF j = k THEN 0 ELSE PointerIn(node[op.file], table, j)
    BY <1>6, <2>7, OwnPut
  <2>13. MapType(node', table')
    BY <2>6, <2>9 DEF MapType
  <2>14. Lowers(node, table, node', table')
    <3>1. ASSUME NEW g \in Files, NEW j \in Spots, Own(j), PointerIn(node'[g], table', j) # 0
          PROVE  PointerIn(node'[g], table', j) = PointerIn(node[g], table, j)
      <4>1. CASE g = op.file
        BY <2>12, <3>1, <4>1
      <4>2. CASE g # op.file
        BY <2>6, <3>1, <4>2, OwnPlace
      <4> QED
        BY <4>1, <4>2
    <3> QED
      BY <1>12, <2>10, <2>13, <3>1, Lowering
  <2>15. PointerIn(node'[op.file], table', k) = 0
    BY <1>6, <2>4, <2>12
  <2>16. ASSUME Sound'
         PROVE  /\ Sound /\ marked' = marked \ {leaf}
                /\ Puts(node, table, node', table', op.file, k, 0)
    <3>1. p = "none" /\ table[leaf] = Zeros /\ table' = table
      BY <2>3, <2>11, <2>16
    <3>2. TableAt(table', 0) = Zeros /\ TableAt(table, PointerIn(node[op.file], table, k)) = Zeros
      BY <2>4, <2>8, <3>1 DEF TableAt, Points
    <3>3. Puts(node, table, node', table', op.file, k, 0)
      BY <1>3, <1>6, <1>12, <2>4, <2>6, <2>12, <3>1, <3>2, PutOwn
    <3> QED
      BY <2>3, <2>16, <3>1, <3>3
  <2>17. Unshared' /\ NotMeta' /\ AllMarked' /\ (Sound' => AllMapped')
    BY <1>2, <1>6, <2>3, <2>4, <2>8, <2>14, <2>15, <2>16, Sweeping DEF TakesOut
  <2>18. SweepsOut(k)
    BY <2>3, <2>4, <2>8, <2>16 DEF SweepsOut
  <2> QED
    BY <1>2, <1>9, <1>10, <2>1, <2>2, <2>3, <2>9, <2>17, <2>18, SetDoneStep DEF k
<1>17. ASSUME freed, ~IsSingle(op.at)
       PROVE  /\ node' = node /\ table' \in TableType
              /\ \A c \in Blocks, s \in Slots : table'[c][s] # 0 => table'[c][s] = table[c][s]
              /\ \A c \in Blocks : c # root /\ table[leaf] = Zeros => table'[c] = table[c]
              /\ \A s \in Slots : table[leaf] = Zeros =>
                   table'[root][s] = IF s = slot THEN 0 ELSE table[root][s]
              /\ table'[root][slot] = 0
              /\ root \in Blocks /\ leaf = table[root][slot] /\ slot \in Slots
  <2>1. IsDouble(op.at) /\ slot \in Slots /\ leaf = TableAt(table, root)[slot]
    BY <1>5, <1>17
  <2>2. root # 0
    <3>1. TableAt(table, 0)[slot] = 0
      BY <2>1 DEF TableAt, Zeros
    <3> QED
      BY <1>4, <2>1, <3>1
  <2>3. root \in Blocks /\ leaf = table[root][slot]
    <3>1. root \in Blocks \cup {0}
      BY <1>3 DEF NodeType
    <3> QED
      BY <2>1, <2>2, <3>1 DEF TableAt
  <2> DEFINE T == [table EXCEPT ![leaf] = Zeros]
  <2>4. node' = node /\ table' = [table EXCEPT ![leaf] = Zeros, ![root][slot] = 0]
    BY <1>8, <1>13, <1>17, <2>1
  <2>5. leaf \in Blocks /\ table \in TableType
    BY <1>3, <1>7
  <2> HIDE DEF leaf, root, slot, goes, points, k
  <2>6. T \in TableType
    BY <2>5, Emptied
  <2>7. \A c \in Blocks, s \in Slots : T[c][s] # 0 => T[c][s] = table[c][s]
    BY <2>5, Emptied
  <2>8. table[leaf] = Zeros => T = table
    BY <2>5, Emptied
  <2> DEFINE e == [T[root] EXCEPT ![slot] = 0]
  <2>9. table' = [T EXCEPT ![root] = e]
    BY <2>4
  <2> HIDE DEF T
  <2>10. T[root] \in [Slots -> Blocks \cup {0}]
    BY <2>3, <2>6 DEF TableType
  <2>11. /\ e \in [Slots -> Blocks \cup {0}]
        /\ \A s \in Slots : e[s] = IF s = slot THEN 0 ELSE T[root][s]
    BY <2>1, <2>10
  <2> HIDE DEF e
  <2>12. /\ table' \in TableType /\ table'[root] = e
        /\ \A c \in Blocks : c # root => table'[c] = T[c]
    BY <2>3, <2>6, <2>9, <2>11 DEF TableType
  <2>13. ASSUME NEW c \in Blocks, NEW s \in Slots, table'[c][s] # 0
        PROVE  table'[c][s] = table[c][s]
    <3>1. table'[c][s] = T[c][s]
      BY <2>11, <2>12, <2>13
    <3> QED
      BY <2>7, <2>13, <3>1
  <2>14. \A c \in Blocks : c # root /\ table[leaf] = Zeros => table'[c] = table[c]
    BY <2>8, <2>12
  <2>15. \A s \in Slots : table[leaf] = Zeros =>
          table'[root][s] = IF s = slot THEN 0 ELSE table[root][s]
    BY <2>8, <2>11, <2>12
  <2>16. table'[root][slot] = 0
    BY <2>1, <2>11, <2>12
  <2> QED
    BY <2>1, <2>3, <2>4, <2>12, <2>13, <2>14, <2>15, <2>16
<1>18. CASE freed /\ ~IsSingle(op.at)
  <2>1. /\ node' = node /\ table' \in TableType
        /\ \A c \in Blocks, s \in Slots : table'[c][s] # 0 => table'[c][s] = table[c][s]
        /\ root \in Blocks /\ leaf = table[root][slot] /\ slot \in Slots
    BY <1>17, <1>18
  <2>2. /\ \A c \in Blocks : c # root /\ table[leaf] = Zeros => table'[c] = table[c]
        /\ \A s \in Slots : table[leaf] = Zeros =>
             table'[root][s] = IF s = slot THEN 0 ELSE table[root][s]
        /\ table'[root][slot] = 0
    BY <1>17, <1>18
  <2>3. pc' = "sweep root" /\ op' = op /\ dangling' = dangling
    BY <1>8, <1>13, <1>18
  <2>4. /\ marked' \subseteq Blocks /\ free' \in FreeType /\ data' \in DataType /\ Counted'
        /\ marked \ {leaf} \subseteq marked' /\ (p = "none" => marked' = marked \ {leaf})
        /\ early' \in BOOLEAN /\ (~early' => table[leaf] = Zeros)
        /\ Sound' => Sound /\ p = "none" /\ table[leaf] = Zeros
    BY <1>15, <1>18
  <2>5. /\ IsDouble(op.at) /\ ~Own(k) /\ Up(k) = Reach + 1 /\ At(k) = slot
        /\ Reach + 1 \in Spots /\ Points(op.file, Up(k)) = root
    <3>1. IsDouble(op.at) /\ k = Reach + 2 + slot
      BY <1>5, <1>18
    <3>2. slot \in Nat /\ Reach \in Nat /\ Direct \in Nat /\ Reach >= Direct
      <4>1. slot \in Nat
        BY <2>1, MapShape, Zenon
      <4> QED
        BY <4>1, MapShape
    <3> HIDE DEF slot, k
    <3>3. k > Reach + 1 /\ ~Own(k) /\ k - Reach - 2 = slot
      BY <3>1, <3>2 DEF Own
    <3>4. Up(k) = Reach + 1 /\ At(k) = slot
      BY <3>3, Zenon DEF Up, At
    <3>5. Reach + 1 \in Spots /\ Points(op.file, Reach + 1) = root
      BY <1>3, MapShape, Ways DEF Points
    <3> QED
      BY <3>1, <3>3, <3>4, <3>5
  <2>6. root # 0 /\ leaf # 0
    BY <1>4, <2>1, GroupShape
  <2> HIDE DEF leaf, root, slot, k, goes, points, freed
  <2>7. MapType(node', table')
    BY <1>3, <2>1 DEF MapType
  <2>8. Lowers(node, table, node', table')
    <3>1. \A g \in Files, j \in Spots : Own(j) /\ PointerIn(node'[g], table', j) # 0 =>
            PointerIn(node'[g], table', j) = PointerIn(node[g], table, j)
      BY <2>1, OwnPlace
    <3> QED
      BY <1>12, <2>1, <2>7, <3>1, Lowering
  <2>9. PointerIn(node'[op.file], table', k) = 0
    <3>1. PointerIn(node'[op.file], table', k) =
            TableAt(table', PointerIn(node'[op.file], table', Up(k)))[At(k)]
      BY <1>6, <2>5, Ways
    <3>2. PointerIn(node'[op.file], table', Reach + 1) = root
      <4>1. PointerIn(node[op.file], table, Reach + 1) = node[op.file].double
            /\ PointerIn(node[op.file], table', Reach + 1) = node[op.file].double
        BY <2>5, Ways
      <4> QED
        BY <2>1, <2>5, <4>1 DEF Points
    <3> QED
      BY <2>2, <2>5, <2>6, <3>1, <3>2 DEF TableAt
  <2>10. ASSUME Sound'
         PROVE  /\ Sound /\ marked' = marked \ {leaf}
                /\ Puts(node, table, node', table', op.file, k, 0)
    <3>1. p = "none" /\ table[leaf] = Zeros
      BY <2>4, <2>10
    <3>2. /\ \A c \in Blocks : c # root /\ c # 0 => table'[c] = table[c]
          /\ \A s \in Slots : table'[root][s] = IF s = At(k) THEN 0 ELSE table[root][s]
      BY <2>2, <2>5, <3>1
    <3>3. TableAt(table', 0) = Zeros /\ TableAt(table, PointerIn(node[op.file], table, k)) = Zeros
      BY <1>5, <2>6, <3>1 DEF TableAt, Points
    <3>4. root = PointerIn(node[op.file], table, Up(k))
      BY <2>5 DEF Points
    <3>5. Puts(node, table, node, table', op.file, k, 0)
      BY <1>3, <1>6, <1>12, <2>5, <2>6, <3>2, <3>3, <3>4, PutEntry
    <3>6. Puts(node, table, node', table', op.file, k, 0)
      BY <2>1, <3>5
    <3> QED
      BY <2>4, <2>10, <3>1, <3>6
  <2>11. leaf = Points(op.file, k)
    BY <1>5
  <2>12. Unshared' /\ NotMeta' /\ AllMarked' /\ (Sound' => AllMapped')
    BY <1>2, <1>6, <2>4, <2>6, <2>8, <2>9, <2>10, <2>11, Sweeping DEF TakesOut
  <2>13. IInv'
    <3>1. dangling' \subseteq Blocks
      BY <1>10, <2>3
    <3> QED
      BY <1>2, <1>9, <2>1, <2>3, <2>4, <2>5, <2>12, <3>1, SweepRootNext
  <2>14. SweepsOut(k)
    BY <2>4, <2>6, <2>10, <2>11 DEF SweepsOut
  <2> QED
    BY <2>13, <2>14 DEF k
<1> QED
  BY <1>14, <1>16, <1>18

-----------------------------------------------------------------------------
(* What holds also when a pointer to a freed block has stayed: the types,  *)
(* the counts, and that no pointer leads to a block of the file system.    *)

Pure == (Blocks \ Meta) \cup {0}
CleanNode == [direct : [0..(Direct - 1) -> Pure], single : Pure, double : Pure,
              size : 0..Reach]
CleanTable == [Blocks -> [Slots -> Pure]]
CleanMap(N, T) == N \in [Files -> CleanNode] /\ T \in CleanTable

Base ==
  /\ TypeOK /\ Counted /\ Call
  /\ CleanMap(node, table)
  /\ op.block \in Pure
  /\ pc \notin {"idle", "find", "alloc"} => op.block # 0

LEMMA PureIs ==
  /\ 0 \in Pure /\ Pure \subseteq Blocks \cup {0} /\ \A b \in Pure : b \notin Meta
  /\ \A b \in Pure : b # 0 => b \in Blocks \ Meta
  /\ Zeros \in [Slots -> Pure]
BY GroupShape DEF Pure, Zeros

LEMMA CleanIs ==
  ASSUME NEW N, NEW T, CleanMap(N, T)
  PROVE  MapType(N, T) /\ \A f \in Files, k \in Spots : PointerIn(N[f], T, k) \in Pure
<1>1. MapType(N, T)
  <2>1. CleanNode \subseteq NodeType
    BY PureIs DEF CleanNode, NodeType
  <2>2. CleanTable \subseteq TableType
    BY PureIs DEF CleanTable, TableType
  <2> QED
    BY <2>1, <2>2 DEF CleanMap, MapType
<1>2. ASSUME NEW b \in Blocks \cup {0}, NEW s \in Slots
      PROVE  TableAt(T, b)[s] \in Pure
  BY PureIs DEF TableAt, CleanMap, CleanTable
<1>3. ASSUME NEW f \in Files, NEW j \in Spots, Own(j)
      PROVE  PointerIn(N[f], T, j) \in Pure
  <2>1. N[f] \in CleanNode
    BY DEF CleanMap
  <2>2. j < Direct => N[f].direct[j] \in Pure
    BY <2>1, MapShape DEF CleanNode
  <2>3. N[f].single \in Pure /\ N[f].double \in Pure
    BY <2>1 DEF CleanNode
  <2> QED
    BY <1>3, <2>2, <2>3, Ways DEF Own
<1>4. ASSUME NEW f \in Files, NEW j \in Spots, ~Own(j)
      PROVE  PointerIn(N[f], T, j) \in Pure
  <2>1. At(j) \in Slots /\ Up(j) \in Spots
    BY <1>4, UpShape
  <2>2. PointerIn(N[f], T, Up(j)) \in Blocks \cup {0}
    BY <1>1, <2>1, PointerType
  <2>3. PointerIn(N[f], T, j) = TableAt(T, PointerIn(N[f], T, Up(j)))[At(j)]
    BY <1>4, Ways
  <2> QED
    BY <1>2, <2>1, <2>2, <2>3
<1> QED
  BY <1>1, <1>3, <1>4

LEMMA PointsPure ==
  ASSUME Base
  PROVE  \A f \in Files, k \in Spots : Points(f, k) \in Pure
BY CleanIs DEF Base, Points

LEMMA BaseFrom ==
  ASSUME marked' \subseteq Blocks, free' \in FreeType, data' \in DataType, Counted',
         CleanMap(node', table'), op' \in OpType, pc' \in Pcs,
         calls' \in 0..MaxCalls, faults' \in 0..MaxFaults,
         early' \in BOOLEAN, dangling' \subseteq Blocks, Call', op'.block \in Pure,
         pc' \notin {"idle", "find", "alloc"} => op'.block # 0
  PROVE  Base'
<1>1. MapType(node', table')
  BY CleanIs
<1>2. TypeOK'
  BY <1>1, TypeOKStep
<1> QED
  BY <1>2 DEF Base

LEMMA OnwardBase ==
  ASSUME marked' \subseteq Blocks, free' \in FreeType, data' \in DataType, Counted',
         CleanMap(node', table'), Onward, op'.block = 0,
         calls' \in 0..MaxCalls, faults' \in 0..MaxFaults,
         early' \in BOOLEAN, dangling' \subseteq Blocks
  PROVE  Base'
<1>1. Call' /\ op' \in OpType /\ pc' \in Pcs /\ pc' \in {"idle", "find"}
  BY OnwardCalls DEF Onward, Pcs
<1> QED
  BY <1>1, PureIs, BaseFrom

\* The block of a call is given up with it.
LEMMA BlockEnds ==
  ASSUME op \in OpType, Fails \/ NextBlock \/ \E n \in 0..Reach : LoopEnds(n)
  PROVE  op'.block = 0
<1>1. ASSUME Fails PROVE op'.block = 0
  BY <1>1 DEF Fails, NoOp
<1>2. ASSUME NEW n, LoopEnds(n) PROVE op'.block = 0
  <2>1. CASE op.call = "pad"
    BY <1>2, <2>1 DEF LoopEnds, OpType
  <2>2. CASE op.call # "pad"
    <3>1. op' = NoOp \/ op' = [op EXCEPT !.at = n, !.end = 0, !.until = 0, !.block = 0]
      BY <1>2, <2>2 DEF LoopEnds
    <3>2. NoOp.block = 0
      BY DEF NoOp
    <3>3. [op EXCEPT !.at = n, !.end = 0, !.until = 0, !.block = 0].block = 0
      BY DEF OpType
    <3> QED
      BY <3>1, <3>2, <3>3
  <2> QED
    BY <2>1, <2>2
<1>3. ASSUME NextBlock PROVE op'.block = 0
  <2>1. CASE op.at + 1 = op.end
    BY <1>2, <1>3, <2>1 DEF NextBlock
  <2>2. CASE op.at + 1 # op.end
    BY <1>3, <2>2 DEF NextBlock, OpType
  <2> QED
    BY <2>1, <2>2
<1> QED
  BY <1>1, <1>2, <1>3

\* What every step within a call starts from
LEMMA BaseAt ==
  ASSUME Base, pc # "idle"
  PROVE  /\ op \in OpType /\ op.file \in Files /\ op.call # "none" /\ op.at < op.end
         /\ op.call = "pad" => op.from < op.until
         /\ op.at \in Nat /\ op.at < Reach /\ op.at \in Spots /\ op.at \in 0..Reach
         /\ File = op.file /\ Node = node[op.file] /\ node[op.file] \in CleanNode
         /\ node[op.file] \in NodeType /\ table \in TableType
         /\ table \in CleanTable /\ node \in [Files -> CleanNode]
         /\ Points(op.file, op.at) \in Pure
         /\ Sane(Space) /\ Space.block = 0 /\ Space.marked = marked
         /\ marked \subseteq Blocks /\ free \in FreeType /\ data \in DataType
         /\ calls \in 0..MaxCalls /\ faults \in 0..MaxFaults
         /\ early \in BOOLEAN /\ dangling \subseteq Blocks
         /\ pc \notin {"find", "alloc"} => op.block \in Blocks \ Meta
<1>1. TypeOK /\ Counted /\ Call
  BY DEF Base
<1>2. /\ op \in OpType /\ op.file \in Files /\ op.call # "none" /\ op.at < op.end
      /\ op.call = "pad" => op.from < op.until
      /\ op.at \in Nat /\ op.at < Reach /\ op.at \in Spots
      /\ File = op.file /\ Node = node[op.file]
      /\ node[op.file] \in NodeType /\ table \in TableType
  BY <1>1, AtIs
<1>3. op.at \in 0..Reach
  BY <1>2 DEF OpType
<1>4. node[op.file] \in CleanNode /\ table \in CleanTable /\ node \in [Files -> CleanNode]
  BY <1>2 DEF Base, CleanMap
<1>5. Points(op.file, op.at) \in Pure
  BY <1>2, PointsPure
<1>6. Sane(Space) /\ Space.block = 0 /\ Space.marked = marked
  BY <1>1, SpaceSane
<1>7. /\ marked \subseteq Blocks /\ free \in FreeType /\ data \in DataType
      /\ calls \in 0..MaxCalls /\ faults \in 0..MaxFaults
      /\ early \in BOOLEAN /\ dangling \subseteq Blocks
  BY <1>1, TypeOKParts
<1>8. pc \notin {"find", "alloc"} => op.block \in Blocks \ Meta
  <2>1. op.block \in Pure /\ (pc \notin {"idle", "find", "alloc"} => op.block # 0)
    BY DEF Base
  <2> QED
    BY <2>1, PureIs
<1> QED
  BY <1>2, <1>3, <1>4, <1>5, <1>6, <1>7, <1>8

\* The indirect block at hand
LEMMA LeafPure ==
  ASSUME Base, pc # "idle", ~IsDirect(op.at)
  PROVE  /\ LeafOf(File, op.at) \in Pure /\ Slot(op.at) \in Slots
         /\ IsSingle(op.at) => LeafOf(File, op.at) = Node.single
         /\ ~IsSingle(op.at) => IsDouble(op.at) /\ SlotInRoot(op.at) \in Slots
         /\ IsDouble(op.at) =>
              /\ LeafOf(File, op.at) = TableAt(table, Node.double)[SlotInRoot(op.at)]
              /\ LeafOf(File, op.at) # 0 => Node.double # 0
<1>1. op.file \in Files /\ op.at \in Nat /\ op.at < Reach /\ File = op.file
      /\ Node = node[op.file] /\ op.at \in Spots
  BY BaseAt
<1>2. /\ LeafOf(op.file, op.at) = Points(op.file, Up(op.at))
      /\ ~Own(op.at) /\ At(op.at) = Slot(op.at)
      /\ IsSingle(op.at) => LeafOf(op.file, op.at) = node[op.file].single
      /\ ~IsSingle(op.at) => IsDouble(op.at) /\ SlotInRoot(op.at) \in Slots
      /\ IsDouble(op.at) =>
           LeafOf(op.file, op.at) = TableAt(table, node[op.file].double)[SlotInRoot(op.at)]
  BY <1>1, LeafIs
<1>3. Up(op.at) \in Spots /\ At(op.at) \in Slots
  BY <1>1, <1>2, UpShape
<1>4. Points(op.file, Up(op.at)) \in Pure
  BY <1>1, <1>3, PointsPure
<1>5. IsDouble(op.at) => ~IsSingle(op.at)
  BY <1>1, MapShape DEF IsDouble, IsSingle
<1>6. ASSUME NEW q \in Slots PROVE TableAt(table, 0)[q] = 0
  BY DEF TableAt, Zeros
<1> QED
  BY <1>1, <1>2, <1>3, <1>4, <1>5, <1>6

\* The map stays clean when an inode does.
LEMMA SetDoneClean ==
  ASSUME Base, pc # "idle", NEW n \in CleanNode, SetDone(n)
  PROVE  /\ node' \in [Files -> CleanNode]
         /\ Truncating => Onward /\ op'.block = 0
         /\ ~Truncating => pc' = "data" /\ op' = op
<1>1. TypeOK /\ Call /\ op \in OpType /\ op.file \in Files /\ File = op.file
      /\ node \in [Files -> CleanNode]
  BY BaseAt DEF Base
<1>2. n \in NodeType
  BY PureIs DEF CleanNode, NodeType
<1>3. /\ node' \in [Files -> NodeType]
      /\ \A g \in Files : g # File => node'[g] = node[g]
      /\ node'[File].direct = n.direct /\ node'[File].single = n.single
      /\ node'[File].double = n.double
      /\ Truncating => Onward
      /\ ~Truncating => pc' = "data" /\ op' = op
  BY <1>1, <1>2, SetDoneIs
<1>4. node'[op.file] \in CleanNode
  <2>1. node'[op.file] \in NodeType
    BY <1>1, <1>3
  <2> QED
    BY <1>1, <1>3, <2>1 DEF CleanNode, NodeType
<1>5. node' \in [Files -> CleanNode]
  BY <1>1, <1>3, <1>4
<1>6. Truncating => op'.block = 0
  BY <1>1, BlockEnds DEF SetDone
<1> QED
  BY <1>3, <1>5, <1>6

\* After SetDone, and after SetFails, the call is on its way.
LEMMA DoneBase ==
  ASSUME Base, pc \notin {"idle", "find", "alloc"}, NEW n \in CleanNode, SetDone(n),
         table' \in CleanTable,
         marked' \subseteq Blocks, free' \in FreeType, data' \in DataType, Counted',
         calls' = calls, faults' \in 0..MaxFaults,
         early' \in BOOLEAN, dangling' \subseteq Blocks
  PROVE  Base'
<1>1. /\ node' \in [Files -> CleanNode]
      /\ Truncating => Onward /\ op'.block = 0
      /\ ~Truncating => pc' = "data" /\ op' = op
  BY SetDoneClean
<1>2. CleanMap(node', table') /\ calls' \in 0..MaxCalls
  BY <1>1, BaseAt DEF CleanMap
<1>3. CASE Truncating
  BY <1>1, <1>2, <1>3, OnwardBase
<1>4. CASE ~Truncating
  <2>1. pc' = "data" /\ op' = op /\ op \in OpType /\ op.block \in Pure /\ op.block # 0
    BY <1>1, <1>4, BaseAt DEF Base
  <2>2. Call'
    BY <2>1 DEF Base, Call
  <2> QED
    BY <1>2, <2>1, <2>2, BaseFrom DEF Pcs
<1> QED
  BY <1>3, <1>4

LEMMA SetFailsBase ==
  ASSUME Base, pc \notin {"idle", "find", "alloc"}, NEW left \in SUBSET Blocks, SetFails(left),
         table' \in CleanTable,
         marked' \subseteq Blocks, free' \in FreeType, data' \in DataType, Counted',
         calls' = calls, faults' \in 0..MaxFaults, early' \in BOOLEAN
  PROVE  Base'
<1>1. dangling' \subseteq Blocks
  BY BaseAt DEF SetFails
<1>2. CASE Truncating
  <2>1. SetDone(Node) /\ Node \in CleanNode
    BY <1>2, BaseAt DEF SetFails
  <2> QED
    BY <1>1, <2>1, DoneBase
<1>3. CASE ~Truncating
  <2>1. pc' = "undo" /\ op' = op /\ node' = node
    BY <1>3 DEF SetFails
  <2>2. op \in OpType /\ op.block \in Pure /\ op.block # 0 /\ calls' \in 0..MaxCalls
        /\ CleanMap(node', table')
    BY <2>1, BaseAt DEF Base, CleanMap
  <2>3. Call'
    BY <2>1 DEF Base, Call
  <2> QED
    BY <1>1, <2>1, <2>2, <2>3, BaseFrom DEF Pcs
<1> QED
  BY <1>2, <1>3

LEMMA UnclearedIs ==
  ASSUME Base, pc \notin {"idle", "find", "alloc"}
  PROVE  Uncleared \in SUBSET Blocks /\ {op.block} \subseteq Blocks
BY BaseAt DEF Uncleared

LEMMA InitBase == Init => Base
<1> SUFFICES ASSUME Init PROVE Base
  OBVIOUS
<1>1. TypeOK /\ Counted /\ Call
  BY InitInvariant DEF IInv
<1>2. CleanMap(node, table)
  BY PureIs, MapShape DEF Init, CleanMap, CleanNode, CleanTable
<1>3. op.block = 0 /\ pc = "idle"
  BY DEF Init, NoOp
<1> QED
  BY <1>1, <1>2, <1>3, PureIs DEF Base

LEMMA BeginBase ==
  ASSUME Base, NEW f \in Files, Begun(f)
  PROVE  Base'
<1>1. UNCHANGED <<marked, free, table, data, node>> /\ early' = early /\ dangling' = dangling
      /\ faults' = faults /\ op'.block = 0
  BY DEF Begun, Disk
<1>2. TypeOK /\ Counted /\ CleanMap(node, table)
  BY DEF Base
<1>3. calls' \in 0..MaxCalls /\ pc' = "find"
  BY <1>2, CallBegins DEF Begun
<1>4. Onward
  BY <1>3 DEF Begun, Onward
<1>5. Counted'
  BY <1>1, <1>2 DEF Counted, CountsAgree
<1> QED
  BY <1>1, <1>2, <1>3, <1>4, <1>5, TypeOKParts, OnwardBase

LEMMA FindBase ==
  ASSUME Base, Find
  PROVE  Base'
<1>1. /\ pc = "find" /\ UNCHANGED <<marked, free, table, data, node>>
      /\ early' = early /\ dangling' = dangling /\ calls' = calls
  BY DEF Find, AtPc, Disk
<1>2. PICK p \in {"none", "pointer"} :
        /\ Fault(IF IsDirect(op.at) THEN {} ELSE {"pointer"}, p)
        /\ LET b == IF p = "none" THEN Mapped(File, op.at) ELSE 0
           IN  IF b = 0 /\ Truncating THEN Fails
               ELSE /\ op' = [op EXCEPT !.block = b]
                    /\ pc' = IF b = 0 THEN "alloc" ELSE IF Truncating THEN "free" ELSE "data"
  BY DEF Find
<1> DEFINE b == IF p = "none" THEN Mapped(File, op.at) ELSE 0
<1>3. IF b = 0 /\ Truncating THEN Fails
      ELSE /\ op' = [op EXCEPT !.block = b]
           /\ pc' = IF b = 0 THEN "alloc" ELSE IF Truncating THEN "free" ELSE "data"
  BY <1>2
<1>4. faults' \in 0..MaxFaults
  BY <1>2, FaultIs DEF Base
<1>5. /\ op \in OpType /\ op.file \in Files /\ op.call # "none" /\ op.at < op.end
      /\ op.call = "pad" => op.from < op.until
      /\ op.at \in Nat /\ op.at < Reach /\ File = op.file
      /\ Points(op.file, op.at) \in Pure
      /\ marked \subseteq Blocks /\ free \in FreeType /\ data \in DataType
      /\ calls \in 0..MaxCalls /\ early \in BOOLEAN /\ dangling \subseteq Blocks
  BY <1>1, BaseAt
<1>6. b \in Pure
  BY <1>5, MappedIs, PureIs
<1> HIDE DEF b
<1>7. Counted' /\ CleanMap(node', table')
  BY <1>1 DEF Base, Counted, CountsAgree
<1>8. CASE b = 0 /\ Truncating
  <2>1. Fails
    BY <1>3, <1>8
  <2> QED
    BY <1>1, <1>4, <1>5, <1>7, <2>1, FailsOnward, BlockEnds, OnwardBase
<1>9. CASE ~(b = 0 /\ Truncating)
  <2>1. /\ op' = [op EXCEPT !.block = b]
        /\ pc' = IF b = 0 THEN "alloc" ELSE IF Truncating THEN "free" ELSE "data"
    BY <1>3, <1>9
  <2>2. /\ op' \in OpType /\ op'.block = b /\ op'.file = op.file /\ op'.call = op.call
        /\ op'.at = op.at /\ op'.end = op.end /\ op'.from = op.from /\ op'.until = op.until
    BY <1>5, <1>6, <2>1, PureIs DEF OpType
  <2>3. Call'
    BY <1>5, <2>1, <2>2 DEF Call
  <2> QED
    BY <1>1, <1>4, <1>5, <1>6, <1>7, <2>1, <2>2, <2>3, BaseFrom DEF Pcs
<1> QED
  BY <1>8, <1>9

LEMMA FreeBlockBase ==
  ASSUME Base, FreeBlock
  PROVE  Base'
<1>1. /\ pc = "free" /\ UNCHANGED <<table, node, op>>
      /\ early' = early /\ dangling' = dangling /\ calls' = calls
      /\ pc' = IF IsDirect(op.at) THEN "point" ELSE "root"
  BY DEF FreeBlock, AtPc, SetBlock
<1>2. PICK p \in {"none", "bitmap"} :
        /\ Fault({"bitmap"}, p)
        /\ SetSpace(IF p = "none" THEN Release(Space, op.block) ELSE Space)
  BY DEF FreeBlock
<1>3. faults' \in 0..MaxFaults
  BY <1>2, FaultIs DEF Base
<1>4. TypeOK /\ Counted /\ Call /\ op.block \in Blocks \ Meta
  BY <1>1, BaseAt DEF Base
<1> DEFINE s == IF p = "none" THEN Release(Space, op.block) ELSE Space
<1>5. Sane(s)
  BY <1>4, FreedSane
<1> HIDE DEF s
<1>6. marked' \subseteq Blocks /\ free' \in FreeType /\ data' \in DataType /\ Counted'
  BY <1>2, <1>4, <1>5, SpaceStep DEF s, FreeType, DataType
<1>7. Call'
  BY <1>1, <1>4 DEF Call
<1> QED
  BY <1>1, <1>3, <1>4, <1>6, <1>7, TypeOKParts, BaseFrom DEF Base, Pcs

LEMMA AllocBlockBase ==
  ASSUME Base, AllocBlock
  PROVE  Base'
<1>1. /\ pc = "alloc" /\ UNCHANGED <<table, node>>
      /\ early' = early /\ dangling' = dangling /\ calls' = calls
  BY DEF AllocBlock, AtPc
<1>2. PICK p \in {"none", "bitmap", "group"} :
        /\ Fault(IF Roomy(Space) = {} THEN {} ELSE {"bitmap", "group"}, p)
        /\ LET s == Allocate(Space, p)
           IN  /\ SetSpace(s)
               /\ IF s.block = 0 THEN LoopEnds(op.at)
                  ELSE SetBlock /\ op' = [op EXCEPT !.block = s.block]
  BY DEF AllocBlock
<1> DEFINE s == Allocate(Space, p)
<1>3. SetSpace(s) /\ IF s.block = 0 THEN LoopEnds(op.at)
                     ELSE SetBlock /\ op' = [op EXCEPT !.block = s.block]
  BY <1>2
<1>4. faults' \in 0..MaxFaults
  BY <1>2, FaultIs DEF Base
<1>5. /\ op \in OpType /\ op.file \in Files /\ op.call # "none" /\ op.at < op.end
      /\ op.call = "pad" => op.from < op.until
      /\ op.at \in 0..Reach /\ early \in BOOLEAN /\ dangling \subseteq Blocks
      /\ calls \in 0..MaxCalls /\ Sane(Space) /\ Space.block = 0 /\ Space.marked = marked
  BY <1>1, BaseAt
<1>6. Sane(s) /\ (s.block # 0 => s.block \in Blocks \ marked)
  <2>1. Allocated(Space, s, p)
    BY <1>5, AllocateAllocates
  <2> QED
    BY <1>5, <2>1 DEF Allocated
<1> HIDE DEF s
<1>7. marked' \subseteq Blocks /\ free' \in FreeType /\ data' \in DataType /\ Counted'
  BY <1>3, <1>6, SpaceStep DEF Base, FreeType, DataType
<1>8. CleanMap(node', table') /\ Meta \subseteq marked
  BY <1>1 DEF Base, Counted
<1>9. CASE s.block = 0
  <2>1. LoopEnds(op.at)
    BY <1>3, <1>9
  <2>2. Onward /\ op'.block = 0
    BY <1>1, <1>5, <2>1, LoopEndsOnward, BlockEnds DEF Base
  <2> QED
    BY <1>1, <1>4, <1>5, <1>7, <1>8, <2>2, OnwardBase
<1>10. CASE s.block # 0
  <2>1. op' = [op EXCEPT !.block = s.block] /\ pc' = IF IsDirect(op.at) THEN "point" ELSE "root"
    BY <1>3, <1>10 DEF SetBlock
  <2>2. s.block \in Pure /\ s.block \in Blocks
    BY <1>6, <1>8, <1>10 DEF Pure
  <2>3. /\ op' \in OpType /\ op'.block = s.block /\ op'.file = op.file /\ op'.call = op.call
        /\ op'.at = op.at /\ op'.end = op.end /\ op'.from = op.from /\ op'.until = op.until
    BY <1>5, <2>1, <2>2 DEF OpType
  <2>4. Call'
    BY <1>5, <2>1, <2>3 DEF Call
  <2> QED
    BY <1>1, <1>4, <1>5, <1>7, <1>8, <1>10, <2>1, <2>2, <2>3, <2>4, BaseFrom DEF Pcs
<1> QED
  BY <1>9, <1>10

LEMMA NewTableBase ==
  ASSUME Base, NEW p
  PROVE  LET s == NewTable(Space, p)
         IN  /\ Sane(s) /\ (s.block # 0 => s.block \in Blocks \ Meta)
             /\ Sane(Release(s, s.block))
<1> DEFINE s == NewTable(Space, p)
<1>1. Sane(Space) /\ Space.block = 0 /\ Space.marked = marked
  BY SpaceSane DEF Base
<1>2. Allocated(Space, s, p)
  BY <1>1, NewTableAllocates
<1> HIDE DEF s
<1>3. Sane(s) /\ (s.block # 0 => s.block \in Blocks \ marked)
  BY <1>1, <1>2 DEF Allocated
<1>4. Meta \subseteq marked
  BY DEF Base, Counted
<1>5. CASE s.block # 0
  BY <1>3, <1>4, <1>5, ReleaseSane DEF s
<1>6. CASE s.block = 0
  <2>1. 0 \notin s.marked
    BY <1>3, GroupShape DEF Sane, SpaceType
  <2> QED
    BY <1>3, <1>6, <2>1 DEF Release, s
<1> QED
  BY <1>3, <1>4, <1>5, <1>6 DEF s

LEMMA MakeRootBase ==
  ASSUME Base, MakeRoot
  PROVE  Base'
<1>1. pc = "root" /\ calls' = calls /\ early' = early
  BY DEF MakeRoot, AtPc
<1>2. /\ op \in OpType /\ op.file \in Files /\ op.call # "none" /\ op.at < op.end
      /\ op.call = "pad" => op.from < op.until
      /\ File = op.file /\ Node = node[op.file] /\ node[op.file] \in CleanNode
      /\ table \in CleanTable /\ node \in [Files -> CleanNode]
      /\ marked \subseteq Blocks /\ free \in FreeType /\ data \in DataType
      /\ calls \in 0..MaxCalls /\ faults \in 0..MaxFaults
      /\ early \in BOOLEAN /\ dangling \subseteq Blocks
  BY <1>1, BaseAt
<1>3. ~IsDirect(op.at) /\ op.block \in Pure /\ op.block # 0
  BY <1>1 DEF Base, Call
<1>4. /\ IsSingle(op.at) => LeafOf(File, op.at) = Node.single
      /\ ~IsSingle(op.at) => IsDouble(op.at)
      /\ IsDouble(op.at) => ~IsSingle(op.at)
  <2>1. op.at \in Nat
    BY <1>1, BaseAt
  <2> QED
    BY <1>1, <1>3, <2>1, LeafPure, MapShape DEF IsDouble, IsSingle
<1> DEFINE root == IF IsSingle(op.at) THEN Node.single ELSE Node.double
           next == IF IsSingle(op.at) THEN "point" ELSE "leaf"
<1>5. CASE root # 0
  <2>1. pc' = next /\ UNCHANGED <<Disk, node, op, faults, dangling>>
    BY <1>5 DEF MakeRoot
  <2>2. UNCHANGED <<marked, free, table, data, node, op>>
        /\ faults' = faults /\ dangling' = dangling
    BY <2>1 DEF Disk
  <2>3. Counted' /\ CleanMap(node', table')
    BY <2>2 DEF Base, Counted, CountsAgree
  <2>4. Node' = Node /\ File' = File /\ LeafOf(File, op.at)' = LeafOf(File, op.at)
    BY <2>2 DEF Node, File, LeafOf, Entries
  <2>5. Call'
    BY <1>2, <1>3, <1>4, <1>5, <2>1, <2>2, <2>4 DEF Call
  <2> QED
    BY <1>1, <1>2, <1>3, <2>1, <2>2, <2>3, <2>5, BaseFrom DEF Pcs
<1>6. CASE root = 0
  <2>1. PICK p \in NewTableFaults \cup {"none"} :
          /\ Fault(NewTableFaults, p)
          /\ LET s == NewTable(Space, p)
             IN  /\ SetSpace(s)
                 /\ IF s.block = 0
                    THEN SetFails(Uncleared) /\ UNCHANGED table
                    ELSE /\ node' = [node EXCEPT ![File] =
                                       IF IsSingle(op.at) THEN [@ EXCEPT !.single = s.block]
                                       ELSE [@ EXCEPT !.double = s.block]]
                         /\ table' = [table EXCEPT ![s.block] = Zeros]
                         /\ pc' = next /\ UNCHANGED <<op, dangling>>
    BY <1>6 DEF MakeRoot
  <2> DEFINE s == NewTable(Space, p)
  <2>2. /\ SetSpace(s)
        /\ IF s.block = 0
           THEN SetFails(Uncleared) /\ UNCHANGED table
           ELSE /\ node' = [node EXCEPT ![File] =
                              IF IsSingle(op.at) THEN [@ EXCEPT !.single = s.block]
                              ELSE [@ EXCEPT !.double = s.block]]
                /\ table' = [table EXCEPT ![s.block] = Zeros]
                /\ pc' = next /\ UNCHANGED <<op, dangling>>
    BY <2>1
  <2>3. faults' \in 0..MaxFaults
    BY <2>1, FaultIs DEF Base
  <2>4. Sane(s) /\ (s.block # 0 => s.block \in Blocks \ Meta)
    BY NewTableBase
  <2> HIDE DEF s
  <2>5. /\ marked' \subseteq Blocks /\ free' \in FreeType
        /\ data' \in DataType /\ Counted'
    BY <2>2, <2>4, SpaceStep DEF Base, FreeType, DataType
  <2>6. CASE s.block = 0
    <3>1. SetFails(Uncleared) /\ table' = table
      BY <2>2, <2>6
    <3> QED
      BY <1>1, <1>2, <2>3, <2>5, <3>1, UnclearedIs, SetFailsBase
  <2>7. CASE s.block # 0
    <3> DEFINE b == s.block
               m == IF IsSingle(op.at) THEN [node[op.file] EXCEPT !.single = b]
                    ELSE [node[op.file] EXCEPT !.double = b]
    <3>1. b \in Pure /\ b \in Blocks /\ b # 0
      BY <2>4, <2>7 DEF Pure
    <3>2. /\ node' = [node EXCEPT ![op.file] = m]
          /\ table' = [table EXCEPT ![b] = Zeros]
          /\ pc' = next /\ op' = op /\ dangling' = dangling
      BY <1>2, <2>2, <2>7
    <3> HIDE DEF b
    <3>3. /\ m \in CleanNode
          /\ IsSingle(op.at) => m.single = b
          /\ ~IsSingle(op.at) => m.double = b
      BY <1>2, <3>1 DEF CleanNode
    <3> HIDE DEF m
    <3>4. node' \in [Files -> CleanNode] /\ node'[op.file] = m
      BY <1>2, <3>2, <3>3
    <3>5. table' \in CleanTable
      BY <1>2, <3>2, PureIs DEF CleanTable
    <3>6. Call'
      <4>1. Node' = m /\ File' = op.file
        BY <3>2, <3>4 DEF Node, File
      <4>2. IsSingle(op.at) => LeafOf(op.file, op.at)' = b
        BY <3>2, <3>3, <3>4 DEF LeafOf
      <4> QED
        BY <1>2, <1>4, <3>1, <3>2, <3>3, <4>1, <4>2 DEF Call
    <3> QED
      BY <1>1, <1>2, <1>3, <2>3, <2>5, <3>2, <3>4, <3>5, <3>6, BaseFrom DEF CleanMap, Pcs
  <2> QED
    BY <2>6, <2>7
<1> QED
  BY <1>5, <1>6

LEMMA MakeLeafBase ==
  ASSUME Base, MakeLeaf
  PROVE  Base'
<1>1. pc = "leaf" /\ calls' = calls /\ early' = early
  BY DEF MakeLeaf, AtPc
<1>2. /\ op \in OpType /\ op.file \in Files /\ op.call # "none" /\ op.at < op.end
      /\ op.call = "pad" => op.from < op.until
      /\ File = op.file /\ Node = node[op.file] /\ node[op.file] \in CleanNode
      /\ table \in CleanTable /\ node \in [Files -> CleanNode]
      /\ calls \in 0..MaxCalls /\ early \in BOOLEAN /\ dangling \subseteq Blocks
      /\ op.at \in Nat /\ op.at < Reach /\ Sane(Space) /\ Space.block = 0
  BY <1>1, BaseAt
<1> DEFINE root == Node.double
           slot == SlotInRoot(op.at)
           exists == LeafOf(File, op.at) # 0
           points == IF exists THEN {"pointer"} ELSE NewTableFaults \cup {"pointer", "slot"}
<1>3. IsDouble(op.at) /\ root # 0 /\ root \in Blocks /\ op.block \in Pure /\ op.block # 0
      /\ ~IsDirect(op.at) /\ ~IsSingle(op.at)
  <2>1. IsDouble(op.at) /\ root # 0 /\ op.block \in Pure /\ op.block # 0
    BY <1>1 DEF Base, Call
  <2>2. root \in Blocks
    BY <1>2, <2>1, PureIs DEF CleanNode
  <2> QED
    BY <1>2, <2>1, <2>2, MapShape DEF IsDouble, IsDirect, IsSingle
<1>4. slot \in Slots
  BY <1>1, <1>3, LeafPure
<1>5. PICK p \in points \cup {"none"} :
         /\ Fault(points, p)
         /\ LET s == IF exists \/ p = "pointer" THEN Space ELSE NewTable(Space, p)
                made == s.block # 0 /\ p # "slot"
            IN  /\ SetSpace(IF s.block # 0 /\ p = "slot" THEN Release(s, s.block) ELSE s)
                /\ table' = IF made THEN [table EXCEPT ![s.block] = Zeros,
                                                       ![root][slot] = s.block]
                            ELSE IF s.block # 0 THEN [table EXCEPT ![s.block] = Zeros]
                            ELSE table
                /\ IF made \/ (exists /\ p = "none")
                   THEN pc' = "point" /\ UNCHANGED <<op, node, dangling>>
                   ELSE SetFails(Uncleared)
  BY DEF MakeLeaf
<1> DEFINE s == IF exists \/ p = "pointer" THEN Space ELSE NewTable(Space, p)
           made == s.block # 0 /\ p # "slot"
           r == IF s.block # 0 /\ p = "slot" THEN Release(s, s.block) ELSE s
<1>6. /\ SetSpace(r)
      /\ table' = IF made THEN [table EXCEPT ![s.block] = Zeros, ![root][slot] = s.block]
                  ELSE IF s.block # 0 THEN [table EXCEPT ![s.block] = Zeros] ELSE table
      /\ IF made \/ (exists /\ p = "none")
         THEN pc' = "point" /\ UNCHANGED <<op, node, dangling>>
         ELSE SetFails(Uncleared)
  BY <1>5
<1>7. faults' \in 0..MaxFaults
  BY <1>5, FaultIs DEF Base
<1>8. Sane(s) /\ Sane(r) /\ (s.block # 0 => s.block \in Blocks \ Meta)
  <2>1. CASE exists \/ p = "pointer"
    BY <1>2, <2>1
  <2>2. CASE ~(exists \/ p = "pointer")
    <3>1. s = NewTable(Space, p)
      BY <2>2
    <3> QED
      BY <3>1, NewTableBase
  <2> QED
    BY <2>1, <2>2
<1>9. made \/ (exists /\ p = "none") => s.block # 0 \/ exists
  OBVIOUS
<1> HIDE DEF s
<1>10. marked' \subseteq Blocks /\ free' \in FreeType /\ data' \in DataType /\ Counted'
  BY <1>6, <1>8, SpaceStep DEF Base, FreeType, DataType
<1>11. s.block # 0 =>
         /\ [table EXCEPT ![s.block] = Zeros] \in CleanTable
         /\ LET U == [table EXCEPT ![s.block] = Zeros, ![root][slot] = s.block]
            IN  U \in CleanTable /\ U[root][slot] = s.block
  <2> SUFFICES ASSUME s.block # 0
               PROVE /\ [table EXCEPT ![s.block] = Zeros] \in CleanTable
                     /\ LET U == [table EXCEPT ![s.block] = Zeros, ![root][slot] = s.block]
                        IN  U \in CleanTable /\ U[root][slot] = s.block
    OBVIOUS
  <2> DEFINE b == s.block
             T == [table EXCEPT ![b] = Zeros]
             U == [T EXCEPT ![root][slot] = b]
  <2>1. b \in Pure /\ b \in Blocks
    BY <1>8 DEF Pure
  <2> HIDE DEF b
  <2>2. T \in CleanTable
    BY <1>2, <2>1, PureIs DEF CleanTable
  <2> HIDE DEF T, root, slot
  <2>3. U \in CleanTable /\ U[root][slot] = b
    BY <1>3, <1>4, <2>1, <2>2 DEF CleanTable
  <2> QED
    BY <2>2, <2>3 DEF T, b
<1>12. table' \in CleanTable
  BY <1>2, <1>6, <1>11
<1>13. CASE ~(made \/ (exists /\ p = "none"))
  <2>1. SetFails(Uncleared)
    BY <1>6, <1>13
  <2> QED
    BY <1>1, <1>2, <1>7, <1>10, <1>12, <2>1, UnclearedIs, SetFailsBase
<1>14. CASE made \/ (exists /\ p = "none")
  <2>1. pc' = "point" /\ op' = op /\ node' = node /\ dangling' = dangling
    BY <1>6, <1>14
  <2>2. LeafOf(File, op.at)' # 0
    <3>1. LeafOf(File, op.at)' = TableAt(table', root)[slot]
      BY <1>3, <2>1, Zenon DEF LeafOf, Entries, TableAt, File, Node
    <3>2. LeafOf(File, op.at)' = table'[root][slot]
      BY <1>3, <3>1 DEF TableAt
    <3>3. CASE made
      BY <1>6, <1>11, <3>2, <3>3
    <3>4. CASE ~made
      <4>1. exists /\ p = "none"
        BY <1>14, <3>4
      <4>2. s.block = 0
        BY <3>4, <4>1
      <4>3. table' = table
        BY <1>6, <3>4, <4>2
      <4> QED
        BY <2>1, <4>1, <4>3 DEF LeafOf, Entries, File
    <3> QED
      BY <3>3, <3>4
  <2>3. Call'
    BY <1>2, <1>3, <2>1, <2>2 DEF Call, File
  <2> QED
    BY <1>1, <1>2, <1>3, <1>7, <1>10, <1>12, <2>1, <2>3, BaseFrom DEF CleanMap, Pcs
<1> QED
  BY <1>13, <1>14

\* While the map is legible, the two indirect blocks on the way to a pointer differ.
LEMMA WayDiffers ==
  ASSUME Base, Legible, dangling = {} => Unshared, pc = "point",
         IsDouble(op.at), ~IsSingle(op.at)
  PROVE  Node.double # LeafOf(File, op.at)
<1>1. /\ op.file \in Files /\ op.at \in Nat /\ op.at < Reach /\ File = op.file
      /\ Node = node[op.file]
  BY BaseAt
<1>2. ~IsDirect(op.at)
  BY <1>1, MapShape DEF IsDouble, IsDirect
<1>3. /\ LeafOf(op.file, op.at) = Points(op.file, Up(op.at))
      /\ Up(op.at) = Reach + 2 + SlotInRoot(op.at) /\ SlotInRoot(op.at) \in Slots
  BY <1>1, <1>2, LeafIs
<1>4. LeafOf(op.file, op.at) # 0
  BY <1>1, <1>2 DEF Base, Call
<1> DEFINE k == Up(op.at)
<1>5. k \in Spots /\ Reach + 1 \in Spots /\ k # Reach + 1 /\ Points(op.file, Reach + 1) = Node.double
  <2>1. SlotInRoot(op.at) \in Nat
    BY <1>3, MapShape, Zenon
  <2>2. k # Reach + 1
    BY <1>3, <2>1, MapShape
  <2>3. k \in Spots
    BY <1>3, MapShape, Zenon
  <2>4. Reach + 1 \in Spots
    BY MapShape
  <2> HIDE DEF k
  <2> QED
    BY <1>1, <2>2, <2>3, <2>4, Ways DEF Points
<1> HIDE DEF k
<1> SUFFICES ASSUME Node.double = LeafOf(File, op.at) PROVE FALSE
  OBVIOUS
<1>6. Points(op.file, Reach + 1) = Points(op.file, k) /\ Points(op.file, k) # 0
  BY <1>1, <1>3, <1>4, <1>5 DEF k
<1>7. CASE dangling = {}
  <2>1. Apart(node, table)
    BY <1>7 DEF Unshared
  <2> QED
    BY <1>1, <1>5, <1>6, <2>1, SMT DEF Apart, Points
<1>8. CASE dangling # {}
  <2> DEFINE p == <<op.file, Reach + 1>>
             q == <<op.file, k>>
  <2>1. /\ p \in Place /\ BlockAt(p) = Points(op.file, Reach + 1)
        /\ q \in Place /\ BlockAt(q) = Points(op.file, k)
    BY <1>1, <1>5, PlaceIs
  <2>2. p \in Pointing /\ q \in Pointing /\ p # q /\ BlockAt(p) = BlockAt(q)
    BY <1>5, <1>6, <2>1 DEF Pointing
  <2>3. p[2] >= Reach
    BY MapShape
  <2>4. ~Mixed
    BY <1>8 DEF Legible
  <2> HIDE DEF p, q
  <2> QED
    BY <2>2, <2>3, <2>4 DEF Mixed
<1> QED
  BY <1>7, <1>8

LEMMA WritePointerBase ==
  ASSUME Base, dangling = {} => Unshared, WritePointer
  PROVE  Base'
<1>1. pc = "point" /\ Legible /\ UNCHANGED <<calls, marked, free, data, early>>
  BY DEF WritePointer, AtPc
<1>2. /\ op \in OpType /\ op.file \in Files /\ op.call # "none" /\ op.at < op.end
      /\ op.call = "pad" => op.from < op.until
      /\ op.at \in Nat /\ op.at < Reach
      /\ File = op.file /\ Node = node[op.file] /\ node[op.file] \in CleanNode
      /\ table \in CleanTable /\ node \in [Files -> CleanNode]
      /\ calls \in 0..MaxCalls /\ faults \in 0..MaxFaults /\ early \in BOOLEAN
      /\ dangling \subseteq Blocks
      /\ marked \subseteq Blocks /\ free \in FreeType /\ data \in DataType
  BY <1>1, BaseAt
<1>3. Counted' /\ op.block \in Pure /\ op.block # 0
  BY <1>1 DEF Base, Counted, CountsAgree
<1>4. Pointer \in Pure
  BY <1>3, PureIs DEF Pointer
<1>5. CASE IsDirect(op.at)
  <2> DEFINE n == [Node EXCEPT !.direct[op.at] = Pointer]
  <2>1. SetDone(n) /\ UNCHANGED <<table, faults, dangling>>
    BY <1>5 DEF WritePointer
  <2>2. n \in CleanNode
    BY <1>2, <1>4 DEF CleanNode
  <2> HIDE DEF n
  <2> QED
    BY <1>1, <1>2, <1>3, <2>1, <2>2, DoneBase
<1>6. CASE ~IsDirect(op.at)
  <2> DEFINE leaf == LeafOf(File, op.at)
             slot == Slot(op.at)
  <2>1. PICK p \in {"none", "pointer"} :
          /\ Fault({"pointer"}, p)
          /\ IF p = "pointer" THEN SetFails(Uncleared) /\ UNCHANGED table
             ELSE /\ table' = [table EXCEPT ![leaf][slot] = Pointer]
                  /\ pc' = "sweep" /\ UNCHANGED <<op, node, dangling>>
    BY <1>6 DEF WritePointer
  <2>2. faults' \in 0..MaxFaults
    BY <2>1, FaultIs DEF Base
  <2>3. CASE p = "pointer"
    BY <1>1, <1>2, <1>3, <2>1, <2>2, <2>3, UnclearedIs, SetFailsBase
  <2>4. CASE p # "pointer"
    <3>1. /\ table' = [table EXCEPT ![leaf][slot] = Pointer]
          /\ pc' = "sweep" /\ op' = op /\ node' = node /\ dangling' = dangling
      BY <2>1, <2>4
    <3>2. /\ leaf # 0 /\ leaf \in Blocks /\ slot \in Slots
          /\ IsSingle(op.at) => leaf = Node.single
          /\ ~IsSingle(op.at) => IsDouble(op.at) /\ SlotInRoot(op.at) \in Slots
          /\ IsDouble(op.at) => leaf = TableAt(table, Node.double)[SlotInRoot(op.at)]
                                /\ Node.double # 0
      <4>1. leaf # 0
        BY <1>1, <1>6 DEF Base, Call
      <4> QED
        BY <1>1, <1>6, <4>1, LeafPure, PureIs
    <3>3. table' \in CleanTable /\ \A c \in Blocks : c # leaf => table'[c] = table[c]
      <4> HIDE DEF leaf, slot
      <4> QED
        BY <1>2, <1>4, <3>1, <3>2 DEF CleanTable
    <3>4. LeafOf(File, op.at)' # 0
      <4>1. CASE IsSingle(op.at)
        BY <3>1, <3>2, <4>1 DEF LeafOf, File
      <4>2. CASE ~IsSingle(op.at)
        <5>1. Node.double # leaf
          BY <1>1, <3>2, <4>2, WayDiffers
        <5>2. Node.double \in Blocks
          BY <1>2, <3>2, <4>2, PureIs DEF CleanNode
        <5>3. leaf = table[Node.double][SlotInRoot(op.at)]
          BY <3>2, <4>2, <5>2 DEF TableAt
        <5>4. LeafOf(File, op.at)' = table'[Node.double][SlotInRoot(op.at)]
          BY <3>1, <3>2, <4>2, Zenon DEF LeafOf, Entries, File, Node
        <5> QED
          BY <3>2, <3>3, <5>1, <5>2, <5>3, <5>4
      <4> QED
        BY <4>1, <4>2
    <3>5. Call'
      BY <1>2, <1>6, <3>1, <3>4 DEF Call, File
    <3> QED
      BY <1>1, <1>2, <1>3, <2>2, <3>1, <3>3, <3>5, BaseFrom DEF CleanMap, Pcs
  <2> QED
    BY <2>3, <2>4
<1> QED
  BY <1>5, <1>6

LEMMA SweepBase ==
  ASSUME Base, Sweep
  PROVE  Base'
<1>1. pc = "sweep" /\ calls' = calls
  BY DEF Sweep, AtPc
<1>2. /\ op \in OpType /\ op.file \in Files /\ op.call # "none" /\ op.at < op.end
      /\ op.call = "pad" => op.from < op.until
      /\ op.at \in Nat /\ op.at < Reach
      /\ File = op.file /\ Node = node[op.file] /\ node[op.file] \in CleanNode
      /\ table \in CleanTable /\ node \in [Files -> CleanNode]
      /\ calls \in 0..MaxCalls /\ early \in BOOLEAN /\ dangling \subseteq Blocks
  BY <1>1, BaseAt
<1> DEFINE leaf == LeafOf(File, op.at)
           goes == IsZeroed(table[leaf])
           points == IF ~goes THEN {}
                     ELSE IF IsSingle(op.at) THEN {"read", "bitmap"}
                     ELSE {"read", "bitmap", "slot"}
<1>3. /\ ~IsDirect(op.at) /\ leaf # 0 /\ op.block \in Pure /\ op.block # 0
      /\ TypeOK /\ Counted
  BY <1>1 DEF Base, Call
<1>4. /\ leaf \in Blocks \ Meta
      /\ ~IsSingle(op.at) => IsDouble(op.at) /\ SlotInRoot(op.at) \in Slots
      /\ IsDouble(op.at) => Node.double # 0
  BY <1>1, <1>3, LeafPure, PureIs
<1>5. PICK p \in points \cup {"none"} :
        /\ Fault(points, p)
        /\ LET freed == goes /\ p # "read"
               n == IF freed /\ IsSingle(op.at) THEN [Node EXCEPT !.single = 0] ELSE Node
           IN  /\ SetSpace(IF freed THEN Swept(leaf, p) ELSE Space)
               /\ early' = (early \/ (freed /\ table[leaf] # Zeros))
               /\ table' = IF ~freed \/ p = "slot" THEN table
                           ELSE IF IsDouble(op.at)
                           THEN [table EXCEPT ![leaf] = Zeros,
                                              ![Node.double][SlotInRoot(op.at)] = 0]
                           ELSE [table EXCEPT ![leaf] = Zeros]
               /\ IF p = "slot" THEN SetFails({leaf} \cup ({op.block} \ Uncleared))
                  ELSE /\ IF IsSingle(op.at) THEN SetDone(n)
                          ELSE pc' = "sweep root" /\ UNCHANGED <<node, op>>
                       /\ UNCHANGED dangling
  BY DEF Sweep
<1> DEFINE freed == goes /\ p # "read"
           n == IF freed /\ IsSingle(op.at) THEN [Node EXCEPT !.single = 0] ELSE Node
           s == IF freed THEN Swept(leaf, p) ELSE Space
<1>6. faults' \in 0..MaxFaults
  BY <1>5, FaultIs DEF Base
<1>7. Sane(s)
  BY <1>3, <1>4, SweptSane, SpaceSane
<1>8. marked' \subseteq Blocks /\ free' \in FreeType /\ data' \in DataType /\ Counted'
  <2>1. SetSpace(s)
    BY <1>5
  <2> HIDE DEF s
  <2> QED
    BY <1>3, <1>7, <2>1, SpaceStep DEF FreeType, DataType
<1>9. early' \in BOOLEAN
  BY <1>5, <1>2
<1>10. table' \in CleanTable
  <2> DEFINE T == [table EXCEPT ![leaf] = Zeros]
             U == [T EXCEPT ![Node.double][SlotInRoot(op.at)] = 0]
  <2>1. T \in CleanTable
    BY <1>2, PureIs DEF CleanTable
  <2>2. table' \in {table, T, U}
    BY <1>5
  <2> HIDE DEF T
  <2>3. U \in CleanTable
    BY <2>1, PureIs DEF CleanTable
  <2> HIDE DEF U
  <2> QED
    BY <1>2, <2>1, <2>2, <2>3
<1>11. n \in CleanNode
  BY <1>2, PureIs DEF CleanNode
<1> HIDE DEF s, n
<1>12. CASE p = "slot"
  <2>1. SetFails({leaf} \cup ({op.block} \ Uncleared))
    BY <1>5, <1>12
  <2>2. ({leaf} \cup ({op.block} \ Uncleared)) \in SUBSET Blocks
    BY <1>1, <1>4, UnclearedIs
  <2> QED
    BY <1>1, <1>6, <1>8, <1>9, <1>10, <2>1, <2>2, SetFailsBase
<1>13. CASE p # "slot" /\ IsSingle(op.at)
  <2>1. SetDone(n) /\ dangling' = dangling
    BY <1>5, <1>13 DEF n
  <2> QED
    BY <1>1, <1>2, <1>6, <1>8, <1>9, <1>10, <1>11, <2>1, DoneBase
<1>14. CASE p # "slot" /\ ~IsSingle(op.at)
  <2>1. pc' = "sweep root" /\ node' = node /\ op' = op /\ dangling' = dangling
    BY <1>5, <1>14
  <2>2. Call'
    BY <1>2, <1>4, <1>14, <2>1 DEF Call, Node
  <2> QED
    BY <1>1, <1>2, <1>3, <1>6, <1>8, <1>9, <1>10, <2>1, <2>2, BaseFrom DEF CleanMap, Pcs
<1> QED
  BY <1>12, <1>13, <1>14

LEMMA SweepRootBase ==
  ASSUME Base, SweepRoot
  PROVE  Base'
<1>1. pc = "sweep root" /\ calls' = calls /\ dangling' = dangling
  BY DEF SweepRoot, AtPc
<1>2. /\ Node \in CleanNode /\ table \in CleanTable /\ early \in BOOLEAN
      /\ dangling \subseteq Blocks
  BY <1>1, BaseAt
<1> DEFINE root == Node.double
           goes == IsZeroed(table[root])
           points == IF goes THEN {"read", "bitmap"} ELSE {}
<1>3. root \in Blocks \ Meta /\ TypeOK /\ Counted
  <2>1. root # 0 /\ TypeOK /\ Counted
    BY <1>1 DEF Base, Call
  <2> QED
    BY <1>2, <2>1, PureIs DEF CleanNode
<1>4. PICK p \in points \cup {"none"} :
        /\ Fault(points, p)
        /\ LET freed == goes /\ p # "read"
           IN  /\ SetSpace(IF freed THEN Swept(root, p) ELSE Space)
               /\ early' = (early \/ (freed /\ table[root] # Zeros))
               /\ table' = IF freed THEN [table EXCEPT ![root] = Zeros] ELSE table
               /\ SetDone(IF freed THEN [Node EXCEPT !.double = 0] ELSE Node)
  BY DEF SweepRoot
<1> DEFINE freed == goes /\ p # "read"
           s == IF freed THEN Swept(root, p) ELSE Space
           n == IF freed THEN [Node EXCEPT !.double = 0] ELSE Node
<1>5. faults' \in 0..MaxFaults
  BY <1>4, FaultIs DEF Base
<1>6. Sane(s)
  BY <1>3, SweptSane, SpaceSane
<1>7. /\ SetSpace(s) /\ SetDone(n) /\ early' \in BOOLEAN
      /\ table' = IF freed THEN [table EXCEPT ![root] = Zeros] ELSE table
  BY <1>2, <1>4
<1>8. table' \in CleanTable
  BY <1>2, <1>7, PureIs DEF CleanTable
<1>9. n \in CleanNode
  BY <1>2, PureIs DEF CleanNode
<1> HIDE DEF s, n
<1>10. marked' \subseteq Blocks /\ free' \in FreeType /\ data' \in DataType /\ Counted'
  BY <1>3, <1>6, <1>7, SpaceStep DEF FreeType, DataType
<1> QED
  BY <1>1, <1>2, <1>5, <1>7, <1>8, <1>9, <1>10, DoneBase

LEMMA UndoBase ==
  ASSUME Base, Undo
  PROVE  Base'
<1>1. /\ pc = "undo" /\ UNCHANGED <<table, node>> /\ LoopEnds(op.at)
      /\ early' = early /\ dangling' = dangling /\ calls' = calls
  BY DEF Undo, AtPc
<1>2. PICK p \in {"none", "bitmap"} :
        /\ Fault({"bitmap"}, p)
        /\ SetSpace(IF p = "none" THEN Release(Space, op.block) ELSE Space)
  BY DEF Undo
<1>3. faults' \in 0..MaxFaults
  BY <1>2, FaultIs DEF Base
<1>4. TypeOK /\ Counted /\ Call /\ op.block \in Blocks \ Meta /\ op \in OpType
      /\ op.at \in 0..Reach /\ CleanMap(node, table)
  BY <1>1, BaseAt DEF Base
<1> DEFINE s == IF p = "none" THEN Release(Space, op.block) ELSE Space
<1>5. Sane(s)
  BY <1>4, FreedSane
<1> HIDE DEF s
<1>6. marked' \subseteq Blocks /\ free' \in FreeType /\ data' \in DataType /\ Counted'
  BY <1>2, <1>4, <1>5, SpaceStep DEF s, FreeType, DataType
<1>7. Onward /\ op'.block = 0
  BY <1>1, <1>4, LoopEndsOnward, BlockEnds
<1> QED
  BY <1>1, <1>3, <1>4, <1>6, <1>7, TypeOKParts, OnwardBase

LEMMA WriteDataBase ==
  ASSUME Base, WriteData
  PROVE  Base'
<1>1. /\ pc = "data" /\ UNCHANGED <<marked, free, table>>
      /\ early' = early /\ dangling' = dangling /\ calls' = calls
  BY DEF WriteData, AtPc
<1>2. PICK p \in {"none", "data"} :
        /\ Fault({"data"}, p)
        /\ IF p = "data" THEN Fails /\ UNCHANGED <<data, node>>
           ELSE /\ data' = [data EXCEPT ![op.block] = Written]
                /\ node' = [node EXCEPT ![File].size = Max({@, op.at + 1})]
                /\ NextBlock
  BY DEF WriteData
<1>3. faults' \in 0..MaxFaults
  BY <1>2, FaultIs DEF Base
<1>4. TypeOK /\ Call
  BY DEF Base
<1>5. /\ op \in OpType /\ op.file \in Files /\ op.at \in Nat /\ op.at < Reach
      /\ File = op.file /\ node[op.file] \in CleanNode /\ node \in [Files -> CleanNode]
      /\ table \in CleanTable /\ data \in DataType
      /\ marked \subseteq Blocks /\ free \in FreeType
      /\ calls \in 0..MaxCalls /\ early \in BOOLEAN /\ dangling \subseteq Blocks
  BY <1>1, BaseAt
<1>6. Onward /\ op'.block = 0
  BY <1>1, <1>2, <1>4, <1>5, FailsOnward, NextBlockOnward, BlockEnds
<1>7. data' \in DataType
  <2>1. Written \in Files \cup {Nobody, Zero}
    BY <1>5 DEF Written
  <2> QED
    BY <1>2, <1>5, <2>1 DEF DataType
<1>8. node' \in [Files -> CleanNode]
  <2>1. CASE p = "data"
    BY <1>2, <1>5, <2>1
  <2>2. CASE p # "data"
    <3> DEFINE size == Max({node[op.file].size, op.at + 1})
               m == [node[op.file] EXCEPT !.size = size]
    <3>1. node' = [node EXCEPT ![op.file] = m]
      BY <1>2, <1>5, <2>2
    <3>2. size \in 0..Reach
      <4> DEFINE a == node[op.file].size
                 b == op.at + 1
      <4>1. a \in 0..Reach /\ b \in 0..Reach
        BY <1>5, MapShape DEF CleanNode
      <4> HIDE DEF a, b
      <4>2. a \in Nat /\ b \in Nat /\ Max({a, b}) \in {a, b}
        BY <4>1, MapShape, GreatestOfTwo
      <4> QED
        BY <4>1, <4>2 DEF a, b
    <3> HIDE DEF size
    <3>3. m \in CleanNode
      BY <1>5, <3>2 DEF CleanNode
    <3> QED
      BY <1>5, <3>1, <3>3
  <2> QED
    BY <2>1, <2>2
<1>9. Counted' /\ CleanMap(node', table')
  BY <1>1, <1>5, <1>8 DEF Base, Counted, CountsAgree, CleanMap
<1> QED
  BY <1>1, <1>3, <1>5, <1>6, <1>7, <1>9, OnwardBase

LEMMA StutterBase ==
  ASSUME Base, UNCHANGED vars
  PROVE  Base'
<1>1. UNCHANGED <<marked, free, table, data, node, pc, op, calls, faults, early, dangling>>
  BY DEF vars
<1>2. /\ File' = File /\ Node' = Node /\ \A f, k : LeafOf(f, k)' = LeafOf(f, k)
  BY <1>1 DEF File, Node, LeafOf, Entries
<1>3. TypeOK' /\ Counted' /\ CleanMap(node', table')
  BY <1>1 DEF Base, TypeOK, Counted, CountsAgree
<1>4. Call'
  BY <1>1, <1>2 DEF Base, Call
<1> QED
  BY <1>1, <1>3, <1>4 DEF Base

\* A pointer stays only after an access that failed: as long as there is none, the
\* indirect blocks on the way to the pointer that Resize clears are there.
Faulty == dangling # {} => faults > 0

LEMMA WayIsThere ==
  ASSUME IInv, Truncating, pc \in {"root", "leaf", "point"}, ~IsDirect(op.at)
  PROVE  /\ LeafOf(File, op.at) # 0
         /\ IsSingle(op.at) => Node.single # 0
         /\ ~IsSingle(op.at) => Node.double # 0
<1>1. TypeOK /\ Call /\ Hand /\ Taken
  BY DEF IInv, Taken
<1>2. op.file \in Files /\ op.at \in Nat /\ op.at < Reach /\ op.at \in Spots
      /\ File = op.file /\ Node = node[op.file]
  BY <1>1, AtIs
<1>3. /\ LeafOf(op.file, op.at) = Points(op.file, Up(op.at))
      /\ ~Own(op.at)
      /\ IsSingle(op.at) => LeafOf(op.file, op.at) = node[op.file].single
      /\ ~IsSingle(op.at) =>
           /\ SlotInRoot(op.at) \in Slots
           /\ LeafOf(op.file, op.at) = TableAt(table, node[op.file].double)[SlotInRoot(op.at)]
  BY <1>2, LeafIs
<1>4. Points(op.file, op.at) # 0
  BY <1>1, <1>2 DEF Hand
<1>5. ASSUME NEW q \in Slots PROVE TableAt(table, 0)[q] = 0
  BY DEF TableAt, Zeros
<1>6. LeafOf(op.file, op.at) # 0
  <2>1. Points(op.file, op.at) = TableAt(table, Points(op.file, Up(op.at)))[At(op.at)]
        /\ At(op.at) \in Slots
    BY <1>2, <1>3, Ways, UpShape DEF Points
  <2> QED
    BY <1>3, <1>4, <1>5, <2>1
<1> QED
  BY <1>2, <1>3, <1>5, <1>6

LEMMA FaultGrows ==
  ASSUME Base, NEW points, NEW p, Fault(points, p)
  PROVE  faults \in Nat /\ faults' \in Nat /\ faults <= faults' /\ (p # "none" => faults' > 0)
<1>1. faults \in Nat
  BY TypeOKParts, Ext2Assumption DEF Base
<1> QED
  BY <1>1 DEF Fault

\* No pointer that stayed is forgotten, and the first takes a fault.
Grows ==
  /\ faults \in Nat /\ faults' \in Nat /\ faults <= faults'
  /\ dangling \subseteq dangling'
  /\ dangling' # dangling => faults' > 0 \/ dangling # {}

LEMMA SetFailsGrows ==
  ASSUME Base, NEW points, NEW p, Fault(points, p), NEW left, SetFails(left),
         p # "none" \/ left = {} \/ dangling # {}
  PROVE  Grows
<1>1. dangling' = dangling \cup left
  BY DEF SetFails
<1> QED
  BY <1>1, FaultGrows DEF Grows

LEMMA FaultyStep ==
  ASSUME Base, dangling = {} => IInv, Next
  PROVE  Grows
<1>1. faults \in Nat
  BY TypeOKParts, Ext2Assumption DEF Base
<1>2. ASSUME NEW points, NEW p, Fault(points, p), dangling' = dangling PROVE Grows
  BY <1>2, FaultGrows DEF Grows
<1>3. ASSUME faults' = faults, dangling' = dangling PROVE Grows
  BY <1>1, <1>3 DEF Grows
<1>4. CASE \E f \in Files, position \in Starts, length \in 1..MaxLength :
             Write(f, position, length)
  BY <1>3, <1>4 DEF Write
<1>5. CASE \E f \in Files : Truncate(f)
  BY <1>3, <1>5 DEF Truncate
<1>6. CASE Find
  BY <1>2, <1>6 DEF Find
<1>7. CASE FreeBlock
  BY <1>2, <1>7 DEF FreeBlock
<1>8. CASE AllocBlock
  BY <1>2, <1>8 DEF AllocBlock
<1>9. CASE MakeRoot
  <2> DEFINE root == IF IsSingle(op.at) THEN Node.single ELSE Node.double
  <2>1. CASE root # 0
    BY <1>3, <1>9, <2>1 DEF MakeRoot
  <2>2. CASE root = 0
    <3>1. PICK p \in NewTableFaults \cup {"none"} :
            Fault(NewTableFaults, p) /\ (SetFails(Uncleared) \/ dangling' = dangling)
      BY <1>9, <2>2 DEF MakeRoot
    <3>2. Uncleared = {} \/ dangling # {}
      <4>1. ASSUME Truncating, dangling = {} PROVE FALSE
        <5>1. pc = "root" /\ ~IsDirect(op.at)
          BY <1>9 DEF MakeRoot, AtPc, Base, Call
        <5> QED
          BY <2>2, <4>1, <5>1, WayIsThere
      <4> QED
        BY <4>1 DEF Uncleared
    <3> QED
      BY <1>2, <3>1, <3>2, SetFailsGrows
  <2> QED
    BY <2>1, <2>2
<1>10. CASE MakeLeaf
  <2> DEFINE exists == LeafOf(File, op.at) # 0
             points == IF exists THEN {"pointer"} ELSE NewTableFaults \cup {"pointer", "slot"}
  <2>1. PICK p \in points \cup {"none"} :
          /\ Fault(points, p)
          /\ dangling' = dangling \/ (SetFails(Uncleared) /\ ~(exists /\ p = "none"))
    BY <1>10 DEF MakeLeaf
  <2>2. CASE dangling' = dangling
    BY <1>2, <2>1, <2>2
  <2>3. CASE SetFails(Uncleared) /\ ~(exists /\ p = "none")
    <3>1. ASSUME Truncating, dangling = {} PROVE exists
      <4>1. pc = "leaf" /\ IsDouble(op.at) /\ op.at \in Nat
        BY <1>10, BaseAt DEF MakeLeaf, AtPc, Base, Call
      <4> QED
        BY <3>1, <4>1, WayIsThere, DoubleIs
    <3>2. p # "none" \/ Uncleared = {} \/ dangling # {}
      BY <2>3, <3>1 DEF Uncleared
    <3> QED
      BY <2>1, <2>3, <3>2, SetFailsGrows
  <2> QED
    BY <2>1, <2>2, <2>3
<1>11. CASE WritePointer
  <2>1. CASE IsDirect(op.at)
    BY <1>3, <1>11, <2>1 DEF WritePointer
  <2>2. CASE ~IsDirect(op.at)
    <3>1. PICK p \in {"none", "pointer"} :
            /\ Fault({"pointer"}, p)
            /\ IF p = "pointer" THEN SetFails(Uncleared) ELSE dangling' = dangling
      BY <1>11, <2>2 DEF WritePointer
    <3> QED
      BY <1>2, <3>1, SetFailsGrows
  <2> QED
    BY <2>1, <2>2
<1>12. CASE Sweep
  <2>1. PICK points, p, left :
          /\ Fault(points, p)
          /\ IF p = "slot" THEN SetFails(left) ELSE dangling' = dangling
    BY <1>12 DEF Sweep
  <2> QED
    BY <1>2, <2>1, SetFailsGrows
<1>13. CASE SweepRoot
  BY <1>2, <1>13 DEF SweepRoot
<1>14. CASE Undo
  BY <1>2, <1>14 DEF Undo
<1>15. CASE WriteData
  BY <1>2, <1>15 DEF WriteData
<1> QED
  BY <1>4, <1>5, <1>6, <1>7, <1>8, <1>9, <1>10, <1>11, <1>12, <1>13, <1>14, <1>15 DEF Next

-----------------------------------------------------------------------------
(* The theorems.                                                           *)

LEMMA StutterStep ==
  ASSUME IInv, dangling' = {}, UNCHANGED vars
  PROVE  IInv'
<1>1. UNCHANGED <<marked, free, table, data, node, pc, op, calls, faults, early, dangling>>
  BY DEF vars
<1>2. TypeOK' /\ Counted'
  BY <1>1 DEF IInv, TypeOK, Counted, CountsAgree
<1>3. Unshared' /\ NotMeta'
  BY <1>1, SameKeeps, KeepsInvariants DEF IInv
<1>4. /\ File' = File /\ Node' = Node /\ (Truncating' <=> Truncating) /\ (Taken' <=> Taken)
      /\ (Sound' <=> Sound) /\ InHand' = InHand
  BY <1>1 DEF File, Node, Truncating, Taken, Sound, InHand
<1>5. \A f, k : Points(f, k)' = Points(f, k) /\ LeafOf(f, k)' = LeafOf(f, k)
  BY <1>1 DEF Points, LeafOf, Entries
<1>6. Call'
  BY <1>1, <1>4, <1>5 DEF IInv, Call
<1>7. Marked'
  BY <1>1, <1>4, <1>5 DEF IInv, Marked
<1>8. Hand'
  BY <1>1, <1>4, <1>5 DEF IInv, Hand
<1>9. Accounted'
  BY <1>1, <1>4, <1>5 DEF IInv, Accounted
<1> QED
  BY <1>2, <1>3, <1>6, <1>7, <1>8, <1>9 DEF IInv

LEMMA StartsWithin == Starts \subseteq 0..Reach
BY Ext2Assumption DEF Reach

LEMMA NextStep ==
  ASSUME IInv, dangling' = {}, Next
  PROVE  IInv'
<1>1. CASE \E f \in Files, position \in Starts, length \in 1..MaxLength :
             Write(f, position, length)
  BY <1>1, WriteStep, StartsWithin
<1>2. CASE \E f \in Files : Truncate(f)
  BY <1>2, TruncateStep
<1>3. CASE Find
  BY <1>3, FindStep
<1>4. CASE FreeBlock
  BY <1>4, FreeBlockStep
<1>5. CASE AllocBlock
  BY <1>5, AllocBlockStep
<1>6. CASE MakeRoot
  BY <1>6, MakeRootStep
<1>7. CASE MakeLeaf
  BY <1>7, MakeLeafStep
<1>8. CASE WritePointer
  BY <1>8, WritePointerStep
<1>9. CASE Sweep
  BY <1>9, SweepStep
<1>10. CASE SweepRoot
  BY <1>10, SweepRootStep
<1>11. CASE Undo
  BY <1>11, UndoStep
<1>12. CASE WriteData
  BY <1>12, WriteDataStep
<1> QED
  BY <1>1, <1>2, <1>3, <1>4, <1>5, <1>6, <1>7, <1>8, <1>9, <1>10, <1>11, <1>12 DEF Next

LEMMA NextBase ==
  ASSUME Base, dangling = {} => IInv, Next
  PROVE  Base'
<1>1. CASE \E f \in Files, position \in Starts, length \in 1..MaxLength :
             Write(f, position, length)
  BY <1>1, WriteBegins, StartsWithin, BeginBase DEF Base
<1>2. CASE \E f \in Files : Truncate(f)
  BY <1>2, TruncateBegins, BeginBase DEF Base
<1>3. CASE Find
  BY <1>3, FindBase
<1>4. CASE FreeBlock
  BY <1>4, FreeBlockBase
<1>5. CASE AllocBlock
  BY <1>5, AllocBlockBase
<1>6. CASE MakeRoot
  BY <1>6, MakeRootBase
<1>7. CASE MakeLeaf
  BY <1>7, MakeLeafBase
<1>8. CASE WritePointer
  BY <1>8, WritePointerBase DEF IInv
<1>9. CASE Sweep
  BY <1>9, SweepBase
<1>10. CASE SweepRoot
  BY <1>10, SweepRootBase
<1>11. CASE Undo
  BY <1>11, UndoBase
<1>12. CASE WriteData
  BY <1>12, WriteDataBase
<1> QED
  BY <1>1, <1>2, <1>3, <1>4, <1>5, <1>6, <1>7, <1>8, <1>9, <1>10, <1>11, <1>12 DEF Next

\* The invariant, with the exception it has
Inv == Base /\ Faulty /\ (dangling = {} => IInv)

LEMMA InvInit == Init => Inv
<1> SUFFICES ASSUME Init PROVE Inv
  OBVIOUS
<1>1. dangling = {}
  BY DEF Init
<1> QED
  BY <1>1, InitBase, InitInvariant DEF Inv, Faulty

LEMMA InvNext ==
  ASSUME Inv, [Next]_vars
  PROVE  Inv' /\ (dangling' = {} => dangling = {})
<1>1. CASE Next
  <2>1. Base' /\ Grows
    BY <1>1, NextBase, FaultyStep DEF Inv
  <2>2. dangling' = {} => dangling = {}
    BY <2>1 DEF Grows
  <2>3. Faulty'
    BY <2>1 DEF Inv, Grows, Faulty
  <2>4. dangling' = {} => IInv'
    BY <1>1, <2>2, NextStep DEF Inv
  <2> QED
    BY <2>1, <2>2, <2>3, <2>4 DEF Inv
<1>2. CASE UNCHANGED vars
  <2>1. dangling' = dangling /\ faults' = faults
    BY <1>2 DEF vars
  <2>2. dangling' = {} => IInv'
    BY <1>2, <2>1, StutterStep DEF Inv
  <2> QED
    BY <1>2, <2>1, <2>2, StutterBase DEF Inv, Faulty
<1> QED
  BY <1>1, <1>2

\* The block at hand of a call is, at every step of write and Resize, on its way
\* from the bitmap to the map of the file, or back (ext2.cpp, setINodeBlock), until
\* Resize could not clear the pointer to a block it had freed.
THEOREM HandIsFollowed == Spec => []Inv
<1>1. Init => Inv
  BY InvInit
<1>2. Inv /\ [Next]_vars => Inv'
  BY InvNext
<1> QED
  BY <1>1, <1>2, PTL DEF Spec

LEMMA InvSound ==
  ASSUME Inv, Sound
  PROVE  dangling = {}
<1>1. faults = 0 /\ faults \in Nat
  BY TypeOKParts, Ext2Assumption DEF Sound, Inv, Base
<1> QED
  BY <1>1 DEF Inv, Faulty

\* allocBlockInGroup and freeBlock keep bg_free_blocks_count in step with the bitmap
\* of the group, also when one of the two cannot be written, and no pointer or size
\* leaves its range; this also after a pointer to a freed block has stayed.
THEOREM CountsSound == Spec => []CountsAreSound
<1>1. Inv => CountsAreSound
  BY DEF Inv, Base, Counted, CountsAreSound
<1> QED
  BY <1>1, HandIsFollowed, PTL

LEMMA InUseIs ==
  \A b : b \in InUse <=> \E f \in Files, k \in Spots : Points(f, k) # 0 /\ b = Points(f, k)
<1>1. ASSUME NEW b, b \in InUse
      PROVE  \E f \in Files, k \in Spots : Points(f, k) # 0 /\ b = Points(f, k)
  <2>1. PICK p \in Place : BlockAt(p) # 0 /\ b = BlockAt(p)
    BY <1>1 DEF InUse, Pointing
  <2>2. PICK f \in Files, k \in Spots : p = <<f, k>>
    BY PlaceIs
  <2> QED
    BY <2>1, <2>2, PlaceIs
<1>2. ASSUME NEW f \in Files, NEW k \in Spots, Points(f, k) # 0
      PROVE  Points(f, k) \in InUse
  BY <1>2, PlaceIs DEF InUse, Pointing
<1> QED
  BY <1>1, <1>2

LEMMA OneToOne ==
  ASSUME Unshared
  PROVE  Cardinality(InUse) = Cardinality(Pointing)
<1> DEFINE at == [p \in Pointing |-> BlockAt(p)]
<1>1. IsFiniteSet(Pointing)
  <2>1. IsFiniteSet(Spots)
    BY MapShape, FS_Interval DEF Spots
  <2>2. IsFiniteSet(Place)
    BY <2>1, PlaceIs, FS_Product, Ext2Assumption
  <2> QED
    BY <2>2, FS_Subset DEF Pointing
<1>2. ASSUME NEW p \in Pointing, NEW q \in Pointing, BlockAt(p) = BlockAt(q)
      PROVE  p = q
  <2>1. p \in Place /\ q \in Place /\ BlockAt(p) # 0
    BY DEF Pointing
  <2>2. PICK f \in Files, j \in Spots : p = <<f, j>>
    BY <2>1, PlaceIs
  <2>3. PICK g \in Files, k \in Spots : q = <<g, k>>
    BY <2>1, PlaceIs
  <2>4. Points(f, j) # 0 /\ Points(f, j) = Points(g, k)
    BY <1>2, <2>1, <2>2, <2>3, PlaceIs
  <2>5. f = g /\ j = k
    BY <2>4, SMT DEF Unshared, Apart, Points
  <2> QED
    BY <2>2, <2>3, <2>5
<1>3. at \in Surjection(Pointing, InUse)
  BY DEF Surjection, InUse
<1>4. at \in Injection(Pointing, InUse)
  BY <1>2 DEF Injection, IsInjective, InUse
<1> HIDE DEF at
<1> QED
  BY <1>1, <1>3, <1>4, FS_Surjection

\* setINodeBlock, allocBlock and freeBlock leave no block of the file system in the
\* maps, and no block in two places of them, whatever fails; the second as long as no
\* pointer to a freed block has stayed.  A pointer stays when Resize, which frees a
\* block first, cannot clear it (ext2.cpp:1125) and does not look, and when an indirect
\* block was freed and the block above it cannot be written.
THEOREM BlocksUnshared == Spec => []NoBlockIsShared
<1>1. Inv => NoBlockIsShared
  <2> SUFFICES ASSUME Inv PROVE NoBlockIsShared
    OBVIOUS
  <2>1. InUse \cap Meta = {}
    <3>1. Base
      BY DEF Inv
    <3> QED
      BY <3>1, PointsPure, PureIs, InUseIs
  <2>2. dangling = {} => Cardinality(InUse) = Cardinality(Pointing)
    BY OneToOne DEF Inv, IInv
  <2> QED
    BY <2>1, <2>2 DEF NoBlockIsShared
<1> QED
  BY <1>1, HandIsFollowed, PTL

\* A block in a map is marked, so that allocBlock does not give it away again, until
\* Resize could not take a freed block out; and what is marked is in use, as long as
\* nothing failed and isBlockZeroed freed no indirect block with pointers in it.
THEOREM BitmapsTruthful == Spec => []BitmapsTellUse
<1>1. Inv => InUseIsMarked
  <2> SUFFICES ASSUME IInv, dangling = {}, NEW b \in InUse
               PROVE  b \in marked \cup (IF Truncating THEN InHand ELSE {})
    BY DEF Inv, InUseIsMarked
  <2>1. PICK f \in Files, k \in Spots : Points(f, k) # 0 /\ b = Points(f, k)
    BY InUseIs
  <2>2. b \in marked \/ (Taken /\ b = op.block)
    BY <2>1 DEF IInv, Marked
  <2>3. Taken => Truncating /\ op.block \in InHand
    BY DEF Taken, InHand
  <2> QED
    BY <2>2, <2>3
<1>2. Inv => NothingLeaks
  <2> SUFFICES ASSUME IInv, Sound, NEW b \in marked
               PROVE  b \in Meta \cup InUse \cup InHand
    BY InvSound DEF Inv, NothingLeaks
  <2>1. b \in Meta \cup InHand \/ \E f \in Files, k \in Spots : Points(f, k) = b
    BY DEF IInv, Accounted
  <2>2. b # 0
    <3>1. b \in Blocks
      BY DEF IInv, TypeOK
    <3>2. ASSUME NEW n \in 1..(Groups * PerGroup)
          PROVE  n # 0
      OBVIOUS
    <3> QED
      BY <3>1, <3>2 DEF Blocks
  <2> QED
    BY <2>1, <2>2, InUseIs
<1>3. Inv => BitmapsTellUse
  BY <1>1, <1>2 DEF BitmapsTellUse
<1> QED
  BY <1>3, HandIsFollowed, PTL

-----------------------------------------------------------------------------
(* What was written stays.                                                 *)

\* A call has a file, and an indirect block that is swept after a write has the
\* pointer in it that was just set.
Whose == op.call # "none" => op.file \in Files
InPlace == ~early /\ ~Truncating /\ pc \in {"sweep", "sweep root", "data"} =>
  Points(op.file, op.at) = op.block

HasWritten(n) ==
  /\ n < node[op.file].size
  /\ Points(op.file, n) # 0 /\ data[Points(op.file, n)] = op.file

Kept == ~early /\ op.call = "write" => \A n \in op.from..(op.at - 1) : HasWritten(n)

KInv == Whose /\ InPlace /\ Kept

\* The data in a block changes when the block is freed.
Freed == \A b \in Blocks : data'[b] = IF b \in marked \ marked' THEN Nobody ELSE data[b]

LEMMA SpaceFreed ==
  ASSUME NEW s, SetSpace(s)
  PROVE  Freed
BY DEF SetSpace, Freed

\* The size at the end of setINodeBlock
LEMMA SetDoneSize ==
  ASSUME TypeOK, Call, pc # "idle", NEW n \in NodeType, SetDone(n)
  PROVE  /\ ~Truncating => node'[op.file].size =
                             IF n.size + op.end <= op.at + op.at THEN n.size + (op.end - op.at)
                             ELSE op.at + 1
         /\ Truncating => node'[op.file].size = IF op.at + 1 = op.end THEN 0 ELSE n.size
         /\ \A g \in Files : g # op.file => node'[g] = node[g]
<1>1. /\ op \in OpType /\ op.file \in Files /\ op.at < op.end /\ op.at \in Nat
      /\ File = op.file /\ node \in [Files -> NodeType]
  BY AtIs
<1>2. n.size \in Nat /\ op.end \in Nat
  BY <1>1, MapShape DEF NodeType, OpType
<1> DEFINE size == IF ~Truncating THEN Grown(n.size)
                   ELSE IF op.at + 1 = op.end THEN 0 ELSE n.size
<1>3. node' = [node EXCEPT ![op.file] = [n EXCEPT !.size = size]]
  BY <1>1 DEF SetDone
<1>4. node'[op.file] = [n EXCEPT !.size = size] /\ \A g \in Files : g # op.file => node'[g] = node[g]
  BY <1>1, <1>3
<1> HIDE DEF size
<1>5. node'[op.file].size = size
  BY <1>4 DEF NodeType
<1>6. Grown(n.size) = IF n.size + op.end <= op.at + op.at THEN n.size + (op.end - op.at)
                      ELSE op.at + 1
  <2> DEFINE a == op.at + 1
             b == n.size + (op.end - op.at)
  <2>1. a \in Nat /\ b \in Nat /\ Grown(n.size) = Min({a, b})
    BY <1>1, <1>2 DEF Grown
  <2>2. a <= b <=> ~(n.size + op.end <= op.at + op.at)
    BY <1>1, <1>2
  <2> HIDE DEF a, b
  <2>3. Grown(n.size) = IF a <= b THEN a ELSE b
    BY <2>1, LeastOfTwo
  <2> QED
    BY <2>2, <2>3 DEF a, b
<1> QED
  BY <1>4, <1>5, <1>6 DEF size

\* What stays written when the call goes on
LEMMA KeptStays ==
  ASSUME TypeOK, Call, pc # "idle", Kept, early => early',
         op'.call = "write" => op.call = "write" /\ op'.file = op.file
                               /\ op'.from = op.from /\ op'.at = op.at,
         ASSUME ~early', op.call = "write", NEW n \in Spots, n < op.at, HasWritten(n),
                op.from <= n
         PROVE  /\ n < node'[op.file].size
                /\ \A f \in Files : f = op.file => Points(f, n)' = Points(f, n)
                /\ data'[Points(op.file, n)] = op.file
  PROVE  Kept'
<1>1. op.from \in Nat /\ op.at \in Nat /\ op.at < Reach /\ op.file \in Files
  BY AtIs, MapShape DEF OpType
<1> SUFFICES ASSUME ~early', op'.call = "write", NEW n \in op'.from..(op'.at - 1)
             PROVE  HasWritten(n)'
  BY DEF Kept
<1>2. n \in op.from..(op.at - 1) /\ op.call = "write" /\ op'.file = op.file
  OBVIOUS
<1>3. n \in Spots /\ n < op.at /\ op.from <= n
  BY <1>1, <1>2, MapShape
<1>4. HasWritten(n)
  BY <1>2 DEF Kept
<1>5. /\ n < node'[op.file].size /\ data'[Points(op.file, n)] = op.file
      /\ \A f \in Files : f = op.file => Points(f, n)' = Points(f, n)
  BY <1>2, <1>3, <1>4
<1>6. Points(op.file, n)' = Points(op.file, n)
  BY <1>1, <1>2, <1>5 DEF Points
<1> QED
  BY <1>2, <1>4, <1>5, <1>6 DEF HasWritten

\* Nothing is written, or the call ends or turns from padding to writing.
LEMMA NothingKept ==
  ASSUME op' \in OpType, op'.call = "write" => op'.at <= op'.from
  PROVE  Kept'
<1>1. op'.at \in Nat /\ op'.from \in Nat
  BY MapShape DEF OpType
<1> QED
  BY <1>1 DEF Kept

LEMMA LoopEndsIs ==
  ASSUME op \in OpType, Call, pc # "idle", NEW n \in 0..Reach, LoopEnds(n)
  PROVE  /\ pc' \in {"idle", "find"} /\ op' \in OpType
         /\ op.call = "pad" =>
              /\ pc' = "find" /\ op'.call = "write" /\ op'.file = op.file
              /\ op'.at = op.from /\ op'.from = op.from /\ op'.end = op.until
         /\ op.call = "write" =>
              /\ pc' = "idle" /\ op'.call = "write" /\ op'.file = op.file
              /\ op'.at = n /\ op'.from = op.from
         /\ op.call = "truncate" => pc' = "idle" /\ op' = NoOp
<1>1. Onward
  BY LoopEndsOnward
<1>2. CASE op.call = "pad"
  BY <1>1, <1>2 DEF LoopEnds, Onward, OpType
<1>3. CASE op.call = "write"
  BY <1>1, <1>3 DEF LoopEnds, Onward, OpType, Truncating
<1>4. CASE op.call = "truncate"
  BY <1>1, <1>4 DEF LoopEnds, Onward, Truncating
<1>5. op.call \in {"pad", "write", "truncate"}
  BY DEF Call, OpType
<1> QED
  BY <1>1, <1>2, <1>3, <1>4, <1>5 DEF Onward

LEMMA NextBlockIs ==
  ASSUME TypeOK, Call, pc # "idle", NextBlock
  PROVE  /\ pc' \in {"idle", "find"} /\ op' \in OpType
         /\ op.at + 1 = op.end =>
              /\ op.call = "pad" =>
                   /\ pc' = "find" /\ op'.call = "write" /\ op'.file = op.file
                   /\ op'.at = op.from /\ op'.from = op.from /\ op'.end = op.until
              /\ op.call = "write" =>
                   /\ pc' = "idle" /\ op'.call = "write" /\ op'.file = op.file
                   /\ op'.at = op.at + 1 /\ op'.from = op.from
              /\ op.call = "truncate" => pc' = "idle" /\ op' = NoOp
         /\ op.at + 1 # op.end =>
              /\ pc' = "find" /\ op'.call = op.call /\ op'.file = op.file
              /\ op'.at = op.at + 1 /\ op'.from = op.from /\ op'.end = op.end
              /\ op'.until = op.until
<1>1. op \in OpType /\ op.at \in Nat /\ op.at < Reach
  BY AtIs
<1>2. op.at + 1 \in 0..Reach
  BY <1>1, MapShape
<1>3. CASE op.at + 1 = op.end
  BY <1>1, <1>2, <1>3, LoopEndsIs DEF NextBlock
<1>4. CASE op.at + 1 # op.end
  BY <1>1, <1>2, <1>4 DEF NextBlock, OpType
<1> QED
  BY <1>3, <1>4

LEMMA NoOpIs == NoOp.call = "none" /\ NoOp.file = Nobody /\ NoOp \in OpType
BY NoOpType DEF NoOp

\* The call has ended, without a word of what it wrote.
LEMMA FailsKept ==
  ASSUME Fails
  PROVE  KInv'
<1>1. op' = NoOp /\ pc' = "idle"
  BY DEF Fails
<1> QED
  BY <1>1, NoOpIs, NothingKept DEF KInv, Whose, InPlace

\* Nothing that was written is touched.
LEMMA GoesOnKept ==
  ASSUME IInv, dangling' = {},
         KInv, pc # "idle", Freed, marked \subseteq marked', early => early',
         node'[op.file].size = node[op.file].size,
         op'.file = op.file, op'.call = op.call, op'.from = op.from, op'.at = op.at,
         ASSUME ~early', op.call = "write", NEW n \in Spots, n < op.at, Points(op.file, n) # 0
         PROVE  \A f \in Files : f = op.file => Points(f, n)' = Points(f, n)
  PROVE  Whose' /\ Kept'
<1>1. TypeOK /\ Call /\ Whose /\ Kept /\ op.file \in Files
  BY AtIs DEF IInv, KInv
<1>2. ASSUME ~early', op.call = "write", NEW n \in Spots, n < op.at, HasWritten(n)
      PROVE  /\ n < node'[op.file].size
             /\ \A f \in Files : f = op.file => Points(f, n)' = Points(f, n)
             /\ data'[Points(op.file, n)] = op.file
  <2>1. Points(op.file, n) \in Blocks
    BY <1>1, <1>2, TypeOKParts, PointerType DEF HasWritten, Points
  <2>2. \A f \in Files : f = op.file => Points(f, n)' = Points(f, n)
    BY <1>2 DEF HasWritten
  <2> QED
    BY <1>2, <2>1, <2>2 DEF HasWritten, Freed
<1>3. Kept'
  BY <1>1, <1>2, KeptStays
<1> QED
  BY <1>1, <1>3 DEF Whose

LEMMA SetFailsKept ==
  ASSUME IInv, dangling' = {},
         KInv, pc # "idle", Keeps, Freed, marked \subseteq marked', early' = early,
         node'[op.file].size = node[op.file].size, SetFails(Uncleared)
  PROVE  KInv'
<1>1. pc' = "undo" /\ op' = op
  BY SetFailsIs
<1>2. Whose' /\ Kept'
  BY <1>1, GoesOnKept DEF Keeps
<1> QED
  BY <1>1, <1>2 DEF KInv, InPlace

LEMMA InitKept == Init => KInv
BY NoOpIs DEF Init, KInv, Whose, InPlace, Kept

LEMMA WriteKept ==
  ASSUME IInv, dangling' = {},
         KInv, NEW f \in Files, NEW position \in 0..Reach, NEW length \in 1..MaxLength,
         Write(f, position, length)
  PROVE  KInv'
<1> DEFINE size == node[f].size
<1>1. size \in Nat /\ position \in Nat
  <2>1. node[f] \in NodeType
    BY TypeOKParts DEF IInv, MapType
  <2> QED
    BY <2>1, MapShape DEF NodeType
<1>2. pc' = "find"
  BY DEF Write, Called
<1>3. /\ op'.call = (IF position > size THEN "pad" ELSE "write")
      /\ op'.file = f /\ op'.from = position
      /\ op'.at = Min({position, size})
  BY DEF Write, NoOp
<1> HIDE DEF size
<1>4. Min({position, size}) = IF position <= size THEN position ELSE size
  BY <1>1, LeastOfTwo
<1>5. op' \in OpType
  BY WriteStep DEF IInv, TypeOK, OpType
<1>6. Kept'
  BY <1>1, <1>3, <1>4, <1>5, NothingKept
<1> QED
  BY <1>2, <1>3, <1>6 DEF KInv, Whose, InPlace

LEMMA TruncateKept ==
  ASSUME IInv, dangling' = {}, KInv, NEW f \in Files, Truncate(f)
  PROVE  KInv'
<1>1. pc' = "find" /\ op'.call = "truncate" /\ op'.file = f
  BY DEF Truncate, Called, NoOp
<1> QED
  BY <1>1 DEF KInv, Whose, InPlace, Kept

\* The block that read would find
LEMMA FindKept ==
  ASSUME IInv, dangling' = {}, KInv, Find
  PROVE  KInv'
<1>1. TypeOK /\ Call /\ pc = "find" /\ UNCHANGED <<marked, table, data, node, early>>
  BY DEF IInv, Find, AtPc, Disk
<1>2. op \in OpType /\ op.file \in Files /\ op.at \in Nat /\ op.at < Reach /\ File = op.file
  BY <1>1, AtIs
<1>3. PICK p \in {"none", "pointer"} :
        LET b == IF p = "none" THEN Mapped(File, op.at) ELSE 0
        IN  IF b = 0 /\ Truncating THEN Fails
            ELSE /\ op' = [op EXCEPT !.block = b]
                 /\ pc' = IF b = 0 THEN "alloc" ELSE IF Truncating THEN "free" ELSE "data"
  BY DEF Find
<1> DEFINE b == IF p = "none" THEN Mapped(File, op.at) ELSE 0
<1>4. CASE b = 0 /\ Truncating
  BY <1>3, <1>4, FailsKept
<1>5. CASE ~(b = 0 /\ Truncating)
  <2>1. /\ op'.block = b /\ op'.file = op.file /\ op'.call = op.call /\ op'.at = op.at
        /\ op'.from = op.from
        /\ pc' = IF b = 0 THEN "alloc" ELSE IF Truncating THEN "free" ELSE "data"
    BY <1>2, <1>3, <1>5 DEF OpType
  <2>2. b # 0 => Points(op.file, op.at) = b
    BY <1>2, MappedIs
  <2> HIDE DEF b
  <2>3. Keeps /\ Freed
    BY <1>1, SameKeeps DEF Freed
  <2>4. Whose' /\ Kept'
    BY <1>1, <2>1, <2>3, GoesOnKept DEF Keeps
  <2>5. InPlace'
    <3>1. Points(op.file, op.at)' = Points(op.file, op.at)
      BY <1>1, <2>1 DEF Points
    <3> QED
      BY <2>1, <2>2, <3>1 DEF InPlace
  <2> QED
    BY <2>4, <2>5 DEF KInv
<1> QED
  BY <1>4, <1>5

LEMMA FreeBlockKept ==
  ASSUME IInv, dangling' = {}, KInv, FreeBlock
  PROVE  KInv'
<1>1. pc = "free" /\ op' = op /\ pc' \in {"point", "root"}
  BY DEF FreeBlock, AtPc, SetBlock
<1>2. Truncating
  BY <1>1 DEF IInv, Hand
<1> QED
  BY <1>1, <1>2 DEF KInv, Whose, InPlace, Kept, Truncating

LEMMA AllocBlockKept ==
  ASSUME IInv, dangling' = {}, KInv, AllocBlock
  PROVE  KInv'
<1>1. TypeOK /\ Counted /\ Call /\ pc = "alloc" /\ UNCHANGED <<table, node, early>>
  BY DEF IInv, AllocBlock, AtPc
<1>2. op \in OpType /\ op.file \in Files /\ op.at \in Nat /\ op.at < Reach /\ ~Truncating
      /\ op.call # "none"
  BY <1>1, AtIs DEF IInv, Hand
<1>3. PICK p :
        LET s == Allocate(Space, p)
        IN  /\ SetSpace(s)
            /\ IF s.block = 0 THEN LoopEnds(op.at)
               ELSE SetBlock /\ op' = [op EXCEPT !.block = s.block]
  BY DEF AllocBlock
<1> DEFINE s == Allocate(Space, p)
<1>4. Allocated(Space, s, p) /\ Space.marked = marked
  BY <1>1, SpaceSane, AllocateAllocates
<1>5. SetSpace(s) /\ marked \subseteq marked'
  BY <1>3, <1>4 DEF SetSpace, Allocated
<1>6. IF s.block = 0 THEN LoopEnds(op.at)
      ELSE SetBlock /\ op' = [op EXCEPT !.block = s.block]
  BY <1>3
<1> HIDE DEF s
<1>7. Keeps /\ Freed
  BY <1>1, <1>5, SameKeeps, SpaceFreed
<1>8. CASE s.block = 0
  <2>1. LoopEnds(op.at) /\ op.at \in 0..Reach /\ op.call \in {"pad", "write"}
    BY <1>2, <1>6, <1>8, MapShape DEF OpType, Truncating
  <2>2. pc' \in {"idle", "find"} /\ op' \in OpType
    BY <1>1, <1>2, <2>1, LoopEndsIs
  <2>3. CASE op.call = "pad"
    <3>1. op'.call = "write" /\ op'.at = op'.from /\ op'.file = op.file
      BY <1>1, <1>2, <2>1, <2>3, LoopEndsIs
    <3>2. Kept'
      BY <2>2, <3>1, NothingKept, MapShape DEF OpType
    <3> QED
      BY <1>2, <2>2, <3>1, <3>2 DEF KInv, Whose, InPlace
  <2>4. CASE op.call = "write"
    <3>1. op'.call = "write" /\ op'.at = op.at /\ op'.from = op.from /\ op'.file = op.file
      BY <1>1, <1>2, <2>1, <2>4, LoopEndsIs
    <3>2. Whose' /\ Kept'
      BY <1>1, <1>5, <1>7, <2>4, <3>1, GoesOnKept DEF Keeps
    <3> QED
      BY <2>2, <3>2 DEF KInv, InPlace
  <2> QED
    BY <2>1, <2>3, <2>4
<1>9. CASE s.block # 0
  <2>1. /\ pc' \in {"point", "root"} /\ op'.file = op.file /\ op'.call = op.call
        /\ op'.at = op.at /\ op'.from = op.from
    BY <1>2, <1>6, <1>9 DEF SetBlock, OpType
  <2>2. Whose' /\ Kept'
    BY <1>1, <1>5, <1>7, <2>1, GoesOnKept DEF Keeps
  <2> QED
    BY <2>1, <2>2 DEF KInv, InPlace
<1> QED
  BY <1>8, <1>9

\* An indirect block has something in it when a pointer behind it is set.
LEMMA UpPoints ==
  ASSUME NEW f \in Files, NEW k \in Spots, ~Own(k), Points(f, k) # 0
  PROVE  Up(k) \in Spots /\ Points(f, Up(k)) # 0 /\ table[Points(f, Up(k))] # Zeros
<1>1. Up(k) \in Spots /\ At(k) \in Slots
  BY UpShape
<1>2. Points(f, k) = TableAt(table, Points(f, Up(k)))[At(k)]
  BY Ways DEF Points
<1> QED
  BY <1>1, <1>2 DEF TableAt, Zeros

\* A pointer that is put into an empty place leaves those that are set.
LEMMA MakesTableKept ==
  ASSUME IInv, dangling' = {},
         KInv, pc # "idle", NEW k \in Spots, NEW next \in {"point", "leaf"},
         MakesTable(k, next), Freed, early' = early, node'[op.file].size = node[op.file].size
  PROVE  KInv'
<1>1. marked \subseteq marked'
  BY DEF MakesTable
<1>2. CASE Keeps /\ SetFails(Uncleared)
  BY <1>1, <1>2, SetFailsKept
<1>3. CASE Keeps /\ pc' = next /\ op' = op
  BY <1>1, <1>3, GoesOnKept DEF Keeps, KInv, InPlace
<1>4. CASE /\ Points(op.file, k) = 0 /\ pc' = next /\ op' = op
           /\ \E b \in Blocks : Puts(node, table, node', table', op.file, k, b)
  <2>1. \A f \in Files, n \in Spots : Points(f, n) # 0 => Points(f, n)' = Points(f, n)
    BY <1>4 DEF Puts, Points
  <2>2. Whose' /\ Kept'
    BY <1>1, <1>4, <2>1, GoesOnKept
  <2> QED
    BY <1>4, <2>2 DEF KInv, InPlace
<1> QED
  BY <1>2, <1>3, <1>4 DEF MakesTable

LEMMA RootSize ==
  ASSUME IInv, dangling' = {}, MakeRoot
  PROVE  Freed /\ \A f \in Files : node'[f].size = node[f].size
<1>1. TypeOK /\ pc # "idle" /\ Call
  BY DEF IInv, MakeRoot, AtPc
<1>2. node \in [Files -> NodeType] /\ op.file \in Files /\ File = op.file
  BY <1>1, AtIs
<1>3. CASE UNCHANGED <<Disk, node>>
  BY <1>3 DEF Disk, Freed
<1>4. CASE \E s : SetSpace(s) /\
             \/ UNCHANGED node
             \/ node' = [node EXCEPT ![File] = IF IsSingle(op.at) THEN [@ EXCEPT !.single = s.block]
                                               ELSE [@ EXCEPT !.double = s.block]]
  <2>1. Freed
    BY <1>4, SpaceFreed
  <2>2. PICK b : \/ UNCHANGED node
                 \/ node' = [node EXCEPT ![File] = IF IsSingle(op.at) THEN [@ EXCEPT !.single = b]
                                                   ELSE [@ EXCEPT !.double = b]]
    BY <1>4
  <2>3. \A f \in Files : node'[f].size = node[f].size
    BY <1>2, <2>2 DEF NodeType
  <2> QED
    BY <2>1, <2>3
<1> QED
  BY <1>3, <1>4, SetFailsIs DEF MakeRoot

LEMMA MakeRootKept ==
  ASSUME IInv, dangling' = {}, KInv, MakeRoot
  PROVE  KInv'
<1>1. TypeOK /\ Call /\ pc # "idle" /\ early' = early
  BY DEF IInv, MakeRoot, AtPc
<1>2. op.file \in Files /\ Reach \in Spots /\ Reach + 1 \in Spots
  BY <1>1, AtIs, MapShape
<1>3. Freed /\ node'[op.file].size = node[op.file].size
  BY <1>2, RootSize
<1>4. IF IsSingle(op.at) THEN MakesTable(Reach, "point") ELSE MakesTable(Reach + 1, "leaf")
  BY MakeRootStep
<1> QED
  BY <1>1, <1>2, <1>3, <1>4, MakesTableKept

LEMMA LeafSpace ==
  ASSUME dangling' = {}, MakeLeaf
  PROVE  Freed /\ node' = node /\ early' = early /\ pc = "leaf"
<1>1. \E s : SetSpace(s)
  BY DEF MakeLeaf
<1>2. node' = node
  BY SetFailsIs DEF MakeLeaf
<1> QED
  BY <1>1, <1>2, SpaceFreed DEF MakeLeaf, AtPc

LEMMA LeafPlace ==
  ASSUME IInv, pc = "leaf"
  PROVE  op.at \in Spots /\ ~Own(op.at) /\ Up(op.at) \in Spots
<1>1. op.file \in Files /\ op.at \in Nat /\ op.at < Reach /\ IsDouble(op.at)
  BY AtIs DEF IInv, Call
<1>2. op.at \in Spots /\ ~Own(op.at)
  BY <1>1, DoubleIs, LeafIs
<1> QED
  BY <1>2, UpShape

LEMMA MakeLeafKept ==
  ASSUME IInv, dangling' = {}, KInv, MakeLeaf
  PROVE  KInv'
<1>1. Freed /\ node' = node /\ early' = early /\ pc = "leaf"
  BY LeafSpace
<1> QED
  BY <1>1, LeafPlace, MakeLeafStep, MakesTableKept

\* A call that empties a file has written nothing.
LEMMA TruncatingKept ==
  ASSUME Truncating, op.file \in Files, op'.call = "none" \/ (op'.call = "truncate" /\ op'.file = op.file),
         op'.call = "none" => pc' = "idle"
  PROVE  KInv'
BY DEF KInv, Whose, InPlace, Kept, Truncating

LEMMA SetDoneTruncates ==
  ASSUME TypeOK, Call, pc # "idle", Truncating, NEW n, SetDone(n)
  PROVE  KInv'
<1>1. NextBlock /\ op.file \in Files
  BY AtIs DEF SetDone
<1>2. pc' \in {"idle", "find"} /\ op' \in OpType
      /\ (op.at + 1 = op.end => op' = NoOp /\ pc' = "idle")
      /\ (op.at + 1 # op.end => op'.call = "truncate" /\ op'.file = op.file)
  BY <1>1, NextBlockIs DEF Truncating
<1> QED
  BY <1>1, <1>2, NoOpIs, TruncatingKept

LEMMA SizeIs ==
  ASSUME op \in OpType, NEW n \in NodeType
  PROVE  /\ n.size \in Nat /\ n.size <= Reach
         /\ op.end \in Nat /\ op.end <= Reach /\ op.from \in Nat /\ op.from <= Reach
BY MapShape DEF OpType, NodeType

LEMMA Below ==
  \A n \in Spots, k \in Nat : n \in Nat /\ (n < k => n # k)
BY MapShape

\* setSize never cuts off what was written.
LEMMA Covers ==
  \A n, size, at, end \in Nat :
    n < size /\ n < at /\ at < end =>
      n < IF size + end <= at + at THEN size + (end - at) ELSE at + 1
OBVIOUS

LEMMA DoubleUp ==
  ASSUME NEW k \in Nat, k < Reach, IsDouble(k)
  PROVE  /\ k \in Spots /\ ~Own(k) /\ Up(k) \in Spots /\ ~Own(Up(k))
         /\ Up(Up(k)) = Reach + 1 /\ Up(k) > Reach + 1
<1>1. k \in Spots /\ ~Own(k) /\ ~IsSingle(k) /\ SlotInRoot(k) \in Slots
  BY DoubleIs, MapShape, WayShape DEF Own, IsDouble
<1>2. SlotInRoot(k) \in Nat /\ Reach \in Nat /\ Direct \in Nat /\ Reach >= Direct
  <2>1. SlotInRoot(k) \in Nat
    BY <1>1, MapShape, Zenon
  <2> QED
    BY <2>1, MapShape
<1>3. ~(k > Reach + 1)
  BY <1>2
<1>4. Up(k) = Reach + 2 + SlotInRoot(k)
  BY <1>1, <1>3, Zenon DEF Up
<1>5. Up(k) > Reach + 1 /\ ~Own(Up(k))
  BY <1>2, <1>4 DEF Own
<1>6. Up(Up(k)) = Reach + 1
  BY <1>5, Zenon DEF Up
<1> QED
  BY <1>1, <1>5, <1>6, UpShape

\* The pointer of a new block is set, and the others stay.
LEMMA NewPointerKept ==
  ASSUME IInv, dangling' = {},
         KInv, ~Truncating, pc \in {"point", "sweep", "sweep root"},
         Freed, ~early' => marked' = marked, early => early', op' = op,
         \/ node'[op.file].size = node[op.file].size
         \/ node'[op.file].size = IF node[op.file].size + op.end <= op.at + op.at
                                  THEN node[op.file].size + (op.end - op.at) ELSE op.at + 1,
         ~early' => \A n \in Spots : Points(op.file, n)' =
                      IF n = op.at THEN op.block ELSE Points(op.file, n)
  PROVE  KInv'
<1>1. TypeOK /\ Call /\ Kept /\ pc # "idle"
  BY DEF IInv, KInv
<1>2. /\ op \in OpType /\ op.file \in Files /\ op.at \in Nat /\ op.at < op.end
      /\ node[op.file] \in NodeType /\ op.at \in Spots
  BY <1>1, AtIs
<1>5. op.end \in Nat /\ node[op.file].size \in Nat
  BY <1>2, SizeIs
<1>3. ASSUME ~early', op.call = "write", NEW n \in Spots, n < op.at, HasWritten(n)
      PROVE  /\ n < node'[op.file].size
             /\ \A f \in Files : f = op.file => Points(f, n)' = Points(f, n)
             /\ data'[Points(op.file, n)] = op.file
  <2>1. Points(op.file, n) \in Blocks
    <3>1. Points(op.file, n) \in Blocks \cup {0}
      BY <1>1, <1>2, TypeOKParts, PointerType DEF Points
    <3> QED
      BY <1>3, <3>1 DEF HasWritten
  <2>2. n \in Nat /\ n < node[op.file].size /\ n # op.at
    BY <1>2, <1>3, Below DEF HasWritten
  <2>3. n < node'[op.file].size
    BY <1>2, <1>3, <1>5, <2>2, Covers
  <2>4. \A f \in Files : f = op.file => Points(f, n)' = Points(f, n)
    BY <1>3, <2>2 DEF Points
  <2> QED
    BY <1>3, <2>1, <2>3, <2>4 DEF HasWritten, Freed
<1>4. Kept'
  BY <1>1, <1>3, KeptStays
<1> QED
  BY <1>2, <1>4 DEF KInv, Whose, InPlace

LEMMA WritePointerKept ==
  ASSUME IInv, dangling' = {}, KInv, WritePointer
  PROVE  KInv'
<1>1. /\ TypeOK /\ Call /\ Kept /\ pc = "point"
      /\ UNCHANGED <<marked, data, early>>
  BY DEF IInv, KInv, WritePointer, AtPc
<1>2. /\ op \in OpType /\ op.file \in Files /\ op.at \in Spots /\ op.at \in Nat /\ op.at < op.end
      /\ File = op.file /\ Node = node[op.file] /\ Node \in NodeType
  BY <1>1, AtIs
<1>3. Freed /\ marked \subseteq marked'
  BY <1>1 DEF Freed
<1>4. SetsPointer
  BY WritePointerStep
<1> DEFINE n == [Node EXCEPT !.direct[op.at] = Pointer]
<1>5. CASE Truncating
  <2>1. CASE op' = op
    BY <1>2, <1>5, <2>1, TruncatingKept DEF Truncating
  <2>2. CASE SetDone(n)
    <3> HIDE DEF n
    <3> QED
      BY <1>1, <1>5, <2>2, SetDoneTruncates
  <2> QED
    BY <1>5, <2>1, <2>2, SetFailsIs DEF WritePointer
<1>6. CASE ~Truncating /\ SetFails(Uncleared)
  <2>1. pc' = "undo"
    BY <1>6, SetFailsIs
  <2>2. node' = node
    BY <1>6, SetFailsIs
  <2>3. Keeps
    <3>1. CASE Keeps
      BY <3>1
    <3>2. CASE Puts(node, table, node', table', op.file, op.at, Pointer)
      <4>1. table' = table
        BY <1>6, <2>1 DEF WritePointer, SetDone
      <4> QED
        BY <2>2, <4>1, SameKeeps
    <3> QED
      BY <1>4, <3>1, <3>2 DEF SetsPointer
  <2> QED
    BY <1>1, <1>3, <1>6, <2>2, <2>3, SetFailsKept
<1>7. CASE ~Truncating /\ ~SetFails(Uncleared)
  <2>1. Pointer = op.block
    BY <1>7 DEF Pointer
  <2>2. Puts(node, table, node', table', op.file, op.at, op.block)
    BY <1>4, <1>7, <2>1 DEF SetsPointer
  <2>3. op' = op
    BY <1>7 DEF WritePointer, SetDone
  <2>4. \A k \in Spots : Points(op.file, k)' = IF k = op.at THEN op.block ELSE Points(op.file, k)
    BY <1>2, <2>2, <2>3 DEF Puts, Points
  <2>5. CASE IsDirect(op.at)
    <3>1. n \in NodeType /\ n.size = node[op.file].size
      <4>1. op.block \in Blocks \cup {0}
        BY <1>2 DEF OpType
      <4> QED
        BY <1>2, <2>1, <4>1 DEF NodeType
    <3>2. SetDone(n)
      BY <2>5 DEF WritePointer
    <3> HIDE DEF n
    <3>3. node'[op.file].size = IF node[op.file].size + op.end <= op.at + op.at
                                THEN node[op.file].size + (op.end - op.at) ELSE op.at + 1
      BY <1>1, <1>7, <3>1, <3>2, SetDoneSize
    <3> QED
      BY <1>1, <1>3, <1>7, <2>3, <2>4, <3>3, NewPointerKept
  <2>6. CASE ~IsDirect(op.at)
    <3>1. node' = node
      BY <1>7, <2>6 DEF WritePointer
    <3> QED
      BY <1>1, <1>3, <1>7, <2>3, <2>4, <3>1, NewPointerKept
  <2> QED
    BY <2>5, <2>6
<1> QED
  BY <1>5, <1>6, <1>7

\* An indirect block that is swept has the new pointer in it, or a pointer was lost.
LEMMA SweptKept ==
  ASSUME IInv, dangling' = {},
         KInv, ~Truncating, pc \in {"sweep", "sweep root"}, NEW k \in Spots,
         Points(op.file, op.at) # 0 => Points(op.file, k) # 0 /\ table[Points(op.file, k)] # Zeros,
         SweepsOut(k), Freed, early => early', op' = op,
         \/ node'[op.file].size = node[op.file].size
         \/ node'[op.file].size = IF node[op.file].size + op.end <= op.at + op.at
                                  THEN node[op.file].size + (op.end - op.at) ELSE op.at + 1
  PROVE  KInv'
<1>1. op.file \in Files /\ op.at \in Spots
  BY AtIs DEF IInv
<1>2. ASSUME ~early'
      PROVE  Keeps /\ marked' = marked /\ Points(op.file, op.at) = op.block
  <2>1. op.block # 0
    BY DEF IInv, Hand
  <2>2. Points(op.file, op.at) = op.block
    BY <1>2 DEF KInv, InPlace
  <2> QED
    BY <1>2, <2>1, <2>2 DEF SweepsOut
<1>3. ~early' => \A n \in Spots : Points(op.file, n)' =
                   IF n = op.at THEN op.block ELSE Points(op.file, n)
  <2>1. ASSUME ~early', NEW n \in Spots
        PROVE  Points(op.file, n)' = Points(op.file, n)
    <3>1. \A f \in Files : Points(f, n)' = Points(f, n)
      BY <1>2, <2>1 DEF Keeps
    <3> QED
      BY <1>1, <3>1 DEF Points
  <2> QED
    BY <1>2, <2>1
<1> QED
  BY <1>2, <1>3, NewPointerKept

LEMMA SweepRootKept ==
  ASSUME IInv, dangling' = {}, KInv, SweepRoot
  PROVE  KInv'
<1>1. TypeOK /\ Call /\ pc = "sweep root" /\ early \in BOOLEAN
  BY TypeOKParts DEF IInv, SweepRoot, AtPc
<1>2. op.file \in Files /\ op.at \in Nat /\ op.at < Reach /\ Node = node[op.file] /\ Node \in NodeType
  BY <1>1, AtIs
<1>3. PICK n : /\ SetDone(n) /\ n \in NodeType /\ n.size = node[op.file].size
  <2>1. \A m \in {Node, [Node EXCEPT !.double = 0]} : m \in NodeType /\ m.size = node[op.file].size
    BY <1>2 DEF NodeType
  <2>2. SetDone(Node) \/ SetDone([Node EXCEPT !.double = 0])
    BY DEF SweepRoot
  <2> QED
    BY <2>1, <2>2
<1>4. Freed /\ (early => early')
  <2>1. \E s : SetSpace(s)
    BY DEF SweepRoot
  <2> QED
    BY <2>1, SpaceFreed DEF SweepRoot
<1>5. CASE Truncating
  BY <1>1, <1>3, <1>5, SetDoneTruncates
<1>6. CASE ~Truncating
  <2>1. op' = op
    BY <1>3, <1>6 DEF SetDone
  <2>2. node'[op.file].size = IF node[op.file].size + op.end <= op.at + op.at
                              THEN node[op.file].size + (op.end - op.at) ELSE op.at + 1
    BY <1>1, <1>3, <1>6, SetDoneSize
  <2>3. Points(op.file, op.at) # 0 =>
          Points(op.file, Reach + 1) # 0 /\ table[Points(op.file, Reach + 1)] # Zeros
    <3>1. IsDouble(op.at) /\ ~IsDirect(op.at)
      BY <1>1, <1>2, DoubleIs DEF Call
    <3>2. /\ op.at \in Spots /\ ~Own(op.at) /\ Up(op.at) \in Spots /\ ~Own(Up(op.at))
          /\ Up(Up(op.at)) = Reach + 1
      BY <1>2, <3>1, DoubleUp
    <3> QED
      BY <1>2, <3>2, UpPoints
  <2> QED
    BY <1>1, <1>4, <1>6, <2>1, <2>2, <2>3, MapShape, SweepRootStep, SweptKept
<1> QED
  BY <1>5, <1>6

\* The slot could be cleared, and the sweep goes on.
LEMMA SweepGoesOn ==
  ASSUME dangling' = {}, Sweep
  PROVE  \E points, p :
           /\ Fault(points, p)
           /\ \/ IsSingle(op.at) /\ (SetDone(Node) \/ SetDone([Node EXCEPT !.single = 0]))
              \/ pc' = "sweep root" /\ UNCHANGED <<node, op>>
<1>1. ASSUME NEW b, NEW S, SetFails({b} \cup S)
      PROVE  FALSE
  <2>1. b \in dangling'
    BY <1>1 DEF SetFails
  <2> QED
    BY <2>1
<1> QED
  BY <1>1 DEF Sweep

LEMMA SweepKept ==
  ASSUME IInv, dangling' = {}, KInv, Sweep
  PROVE  KInv'
<1>1. TypeOK /\ Call /\ pc = "sweep" /\ early \in BOOLEAN
  BY TypeOKParts DEF IInv, Sweep, AtPc
<1>2. op.file \in Files /\ op.at \in Nat /\ op.at < Reach /\ Node = node[op.file] /\ Node \in NodeType
      /\ ~IsDirect(op.at)
  BY <1>1, AtIs DEF Call
<1>3. \/ \E n : SetDone(n) /\ n \in NodeType /\ n.size = node[op.file].size
      \/ UNCHANGED <<node, op>>
  <2>1. \A m \in {Node, [Node EXCEPT !.single = 0]} : m \in NodeType /\ m.size = node[op.file].size
    BY <1>2 DEF NodeType
  <2>2. SetDone(Node) \/ SetDone([Node EXCEPT !.single = 0]) \/ UNCHANGED <<node, op>>
    BY SweepGoesOn
  <2> QED
    BY <2>1, <2>2
<1>4. Freed /\ (early => early')
  <2>1. \E s : SetSpace(s)
    BY DEF Sweep
  <2> QED
    BY <2>1, SpaceFreed DEF Sweep
<1>5. CASE Truncating
  <2>1. CASE UNCHANGED <<node, op>>
    BY <1>2, <1>5, <2>1, TruncatingKept DEF Truncating
  <2> QED
    BY <1>1, <1>3, <1>5, <2>1, SetDoneTruncates
<1>6. CASE ~Truncating
  <2>1. op' = op
    BY <1>3, <1>6 DEF SetDone
  <2>2. \/ node'[op.file].size = node[op.file].size
        \/ node'[op.file].size = IF node[op.file].size + op.end <= op.at + op.at
                                 THEN node[op.file].size + (op.end - op.at) ELSE op.at + 1
    BY <1>1, <1>3, <1>6, SetDoneSize
  <2>3. /\ Up(op.at) \in Spots
        /\ Points(op.file, op.at) # 0 =>
             Points(op.file, Up(op.at)) # 0 /\ table[Points(op.file, Up(op.at))] # Zeros
    <3>1. op.at \in Spots /\ ~Own(op.at)
      BY <1>2, LeafIs
    <3> QED
      BY <1>2, <3>1, UpPoints, UpShape
  <2> QED
    BY <1>1, <1>4, <1>6, <2>1, <2>2, <2>3, SweepStep, SweptKept
<1> QED
  BY <1>5, <1>6

\* Only the block that could not be put into the map is freed.
LEMMA UndoKept ==
  ASSUME IInv, dangling' = {}, KInv, Undo
  PROVE  KInv'
<1>1. /\ TypeOK /\ Counted /\ Call /\ Kept /\ pc = "undo"
      /\ UNCHANGED <<table, node, early>> /\ LoopEnds(op.at)
  BY DEF IInv, KInv, Undo, AtPc
<1>2. op \in OpType /\ op.file \in Files /\ op.at \in 0..Reach /\ op.call \in {"pad", "write"}
  BY <1>1, AtIs DEF IInv, Hand, Truncating, OpType
<1>3. /\ op.block \in Blocks \ Meta
      /\ \A f \in Files, k \in Spots : Points(f, k) # op.block
  BY <1>1, HandUnused DEF IInv, Hand
<1>4. Freed /\ marked \ {op.block} \subseteq marked'
  <2>1. PICK given \in BOOLEAN : SetSpace(IF given THEN Release(Space, op.block) ELSE Space)
    <3>1. PICK p : SetSpace(IF p = "none" THEN Release(Space, op.block) ELSE Space)
      BY DEF Undo
    <3> QED
      BY <3>1
  <2> DEFINE s == IF given THEN Release(Space, op.block) ELSE Space
  <2>2. s.marked = IF given THEN marked \ {op.block} ELSE marked
    BY <1>1, <1>3, FreedSane
  <2>3. SetSpace(s)
    BY <2>1
  <2> HIDE DEF s
  <2> QED
    BY <2>2, <2>3, SpaceFreed DEF SetSpace
<1>5. CASE op.call = "pad"
  <2>1. /\ pc' = "find" /\ op' \in OpType /\ op'.at = op.from /\ op'.from = op.from
        /\ op'.file = op.file
    BY <1>1, <1>2, <1>5, LoopEndsIs
  <2>2. Kept'
    BY <2>1, NothingKept, MapShape DEF OpType
  <2> QED
    BY <1>2, <2>1, <2>2 DEF KInv, Whose, InPlace
<1>6. CASE op.call = "write"
  <2>1. /\ pc' = "idle" /\ op'.call = "write" /\ op'.file = op.file /\ op'.at = op.at
        /\ op'.from = op.from
    BY <1>1, <1>2, <1>6, LoopEndsIs
  <2>2. ASSUME ~early', op.call = "write", NEW n \in Spots, n < op.at, HasWritten(n),
               op.from <= n
        PROVE  /\ n < node'[op.file].size
               /\ \A f \in Files : f = op.file => Points(f, n)' = Points(f, n)
               /\ data'[Points(op.file, n)] = op.file
    <3>1. Points(op.file, n) \in Blocks \cup {0}
      BY <1>1, <1>2, TypeOKParts, PointerType DEF Points
    <3>2. Points(op.file, n) \in Blocks /\ Points(op.file, n) \notin marked \ marked'
      BY <1>2, <1>3, <1>4, <2>2, <3>1 DEF HasWritten
    <3>3. \A f \in Files : Points(f, n)' = Points(f, n)
      BY <1>1, SameKeeps DEF Keeps
    <3> QED
      BY <1>1, <1>4, <2>2, <3>2, <3>3 DEF HasWritten, Freed
  <2>3. /\ pc # "idle" /\ (early => early')
        /\ op'.call = "write" => op.call = "write" /\ op'.file = op.file
                                 /\ op'.from = op.from /\ op'.at = op.at
    BY <1>1, <1>6, <2>1
  <2>4. Kept'
    BY <1>1, <2>2, <2>3, KeptStays
  <2> QED
    BY <1>2, <2>1, <2>4 DEF KInv, Whose, InPlace
<1> QED
  BY <1>2, <1>5, <1>6

\* The block is written, and with it the file reaches to its end.
LEMMA WriteDataKept ==
  ASSUME IInv, dangling' = {}, KInv, WriteData
  PROVE  KInv'
<1>1. /\ TypeOK /\ Call /\ Kept /\ pc = "data" /\ ~Truncating /\ op.block # 0
      /\ UNCHANGED <<table, early>>
  BY DEF IInv, KInv, Hand, WriteData, AtPc
<1>2. /\ op \in OpType /\ op.file \in Files /\ op.call \in {"pad", "write"} /\ File = op.file
      /\ op.at \in Spots /\ op.at \in Nat /\ node[op.file] \in NodeType
      /\ node \in [Files -> NodeType]
  BY <1>1, AtIs DEF Truncating, OpType
<1>3. CASE Fails
  BY <1>3, FailsKept
<1>4. CASE ~Fails
  <2>1. /\ data' = [data EXCEPT ![op.block] = Written] /\ NextBlock
        /\ node' = [node EXCEPT ![File].size = Max({@, op.at + 1})]
    BY <1>4 DEF WriteData
  <2>2. pc' \in {"idle", "find"} /\ op' \in OpType
    BY <1>1, <2>1, NextBlockIs
  <2>3. CASE op.call = "pad"
    <3>1. /\ op'.file = op.file
          /\ op'.call = "pad" \/ (op'.at = op.from /\ op'.from = op.from)
      BY <1>1, <2>1, <2>3, NextBlockIs
    <3>2. Kept'
      BY <2>2, <3>1, NothingKept, MapShape DEF OpType
    <3> QED
      BY <1>2, <2>2, <3>1, <3>2 DEF KInv, Whose, InPlace
  <2>4. CASE op.call = "write"
    <3>1. /\ op'.call = "write" /\ op'.file = op.file /\ op'.at = op.at + 1
          /\ op'.from = op.from
      BY <1>1, <2>1, <2>4, NextBlockIs
    <3> DEFINE size == node[op.file].size
    <3>2. size \in Nat /\ op.from \in Nat
      BY <1>2, SizeIs
    <3>3. node'[op.file].size = Max({size, op.at + 1})
      BY <1>2, <2>1 DEF NodeType
    <3>4. \A f \in Files, k \in Spots : Points(f, k)' = Points(f, k)
      <4>1. /\ node'[op.file].direct = node[op.file].direct
            /\ node'[op.file].single = node[op.file].single
            /\ node'[op.file].double = node[op.file].double
            /\ \A f \in Files : f # op.file => node'[f] = node[f]
        BY <1>2, <2>1 DEF NodeType
      <4> QED
        BY <1>1, <4>1 DEF Points, PointerIn
    <3>5. data \in DataType /\ op.block \in Blocks /\ Written = op.file
      BY <1>1, <1>2, <2>4, TypeOKParts DEF OpType, Written
    <3> HIDE DEF size
    <3>6. Max({size, op.at + 1}) = IF size <= op.at + 1 THEN op.at + 1 ELSE size
      BY <1>2, <3>2, GreatestOfTwo
    <3> SUFFICES ASSUME ~early, NEW n \in op.from..op.at
                 PROVE  HasWritten(n)'
      <4>1. op'.from..(op'.at - 1) = op.from..op.at
        BY <1>2, <3>1
      <4>2. Kept'
        BY <1>1, <4>1, Zenon DEF Kept
      <4> QED
        BY <1>2, <2>2, <3>1, <4>2 DEF KInv, Whose, InPlace
    <3>7. n \in Spots /\ n \in Nat
      BY <1>2, <3>2, MapShape DEF Spots
    <3>8. Points(op.file, n)' = Points(op.file, n)
      BY <1>2, <3>1, <3>4, <3>7 DEF Points
    <3>9. CASE n = op.at
      <4>1. Points(op.file, n) = op.block
        BY <1>1, <3>9 DEF KInv, InPlace
      <4>2. data'[op.block] = op.file
        BY <2>1, <3>5 DEF DataType
      <4>3. n < node'[op.file].size
        BY <1>2, <3>2, <3>3, <3>6, <3>9
      <4>4. HasWritten(n)'
        BY <1>1, <3>1, <3>8, <4>1, <4>2, <4>3 DEF HasWritten
      <4> QED
        BY <4>4
    <3>10. CASE n # op.at
      <4>1. n \in op.from..(op.at - 1)
        BY <1>2, <3>2, <3>10
      <4>2. HasWritten(n)
        BY <2>4, <4>1 DEF KInv, Kept
      <4>3. n < node'[op.file].size
        BY <1>2, <3>2, <3>3, <3>6, <3>7, <4>2 DEF HasWritten, size
      <4>4. Points(op.file, n) \in Blocks
        <5>1. Points(op.file, n) \in Blocks \cup {0}
          BY <1>1, <1>2, <3>7, TypeOKParts, PointerType DEF Points
        <5> QED
          BY <4>2, <5>1 DEF HasWritten
      <4>5. data'[Points(op.file, n)] = op.file
        BY <2>1, <3>5, <4>2, <4>4 DEF DataType, HasWritten
      <4>6. HasWritten(n)'
        BY <3>1, <3>8, <4>2, <4>3, <4>5 DEF HasWritten
      <4> QED
        BY <4>6
    <3> QED
      BY <3>9, <3>10
  <2> QED
    BY <1>2, <2>3, <2>4
<1> QED
  BY <1>3, <1>4

LEMMA StutterKept ==
  ASSUME KInv, UNCHANGED vars
  PROVE  KInv'
<1>1. UNCHANGED <<node, table, data, pc, op, early>>
  BY DEF vars
<1>2. \A f, k : Points(f, k)' = Points(f, k)
  BY <1>1 DEF Points
<1>3. Whose' /\ InPlace'
  BY <1>1, <1>2 DEF KInv, Whose, InPlace, Truncating
<1>4. \A n : HasWritten(n)' <=> HasWritten(n)
  BY <1>1, <1>2 DEF HasWritten
<1>5. Kept'
  BY <1>1, <1>4 DEF KInv, Kept
<1> QED
  BY <1>3, <1>5 DEF KInv

LEMMA NextKept ==
  ASSUME IInv, dangling' = {}, KInv, Next
  PROVE  KInv'
<1>1. CASE \E f \in Files, position \in Starts, length \in 1..MaxLength :
             Write(f, position, length)
  BY <1>1, WriteKept, StartsWithin
<1>2. CASE \E f \in Files : Truncate(f)
  BY <1>2, TruncateKept
<1>3. CASE Find
  BY <1>3, FindKept
<1>4. CASE FreeBlock
  BY <1>4, FreeBlockKept
<1>5. CASE AllocBlock
  BY <1>5, AllocBlockKept
<1>6. CASE MakeRoot
  BY <1>6, MakeRootKept
<1>7. CASE MakeLeaf
  BY <1>7, MakeLeafKept
<1>8. CASE WritePointer
  BY <1>8, WritePointerKept
<1>9. CASE Sweep
  BY <1>9, SweepKept
<1>10. CASE SweepRoot
  BY <1>10, SweepRootKept
<1>11. CASE Undo
  BY <1>11, UndoKept
<1>12. CASE WriteData
  BY <1>12, WriteDataKept
<1> QED
  BY <1>1, <1>2, <1>3, <1>4, <1>5, <1>6, <1>7, <1>8, <1>9, <1>10, <1>11, <1>12 DEF Next

\* The blocks that write reports as written are in the file with what was written,
\* whichever accesses failed on the way, as long as isBlockZeroed freed no indirect
\* block with pointers in it, and no pointer to a freed block has stayed (ext2.cpp,
\* write and setINodeBlock).
THEOREM WrittenKept == Spec => []WrittenIsKept
<1> DEFINE J == dangling = {} => KInv
<1>1. Init => J
  BY InitKept
<1>2. Inv /\ J /\ [Next]_vars => J'
  <2> SUFFICES ASSUME Inv, J, [Next]_vars, dangling' = {} PROVE KInv'
    OBVIOUS
  <2>1. IInv /\ KInv
    BY InvNext DEF Inv
  <2> QED
    BY <2>1, NextKept, StutterKept
<1>3. Inv /\ J => WrittenIsKept
  <2> SUFFICES ASSUME IInv, KInv, op.call = "write", ~early, NEW n \in op.from..(op.at - 1)
               PROVE  /\ n < node[op.file].size
                      /\ Mapped(op.file, n) # 0 /\ data[Mapped(op.file, n)] = op.file
    BY DEF WrittenIsKept, Inv
  <2>1. HasWritten(n) /\ op.file \in Files
    BY DEF KInv, Kept, Whose
  <2>2. n \in Nat /\ n < Reach
    <3>1. op.from \in Nat /\ op.at \in Nat /\ op.at <= Reach /\ Reach \in Nat
      BY TypeOKParts, MapShape DEF IInv, OpType
    <3> QED
      BY <3>1
  <2>3. Mapped(op.file, n) = Points(op.file, n)
    BY <2>1, <2>2, MappedIs
  <2> QED
    BY <2>1, <2>3 DEF HasWritten
<1> QED
  BY <1>1, <1>2, <1>3, HandIsFollowed, PTL DEF Spec

-----------------------------------------------------------------------------
(* Files are whole, when all accesses succeed.                             *)

Numbers == {n \in Spots : n < Reach}

\* A file has the blocks from First to Past.
AtSweep == pc \in {"sweep", "sweep root"}
Active(f) == pc # "idle" /\ f = op.file
First(f) == IF ~Active(f) \/ ~Truncating THEN 0
            ELSE IF AtSweep THEN op.at + 1 ELSE op.at
Past(f) == IF Active(f) /\ ~Truncating /\ AtSweep THEN op.at + 1 ELSE node[f].size

Shape == \A f \in Files, n \in Numbers : Points(f, n) # 0 <=> First(f) <= n /\ n < Past(f)

\* A block with the pointers to blocks of the file has one in it, but while the
\* pointer at hand is set or swept.
Leads(k) == k = Reach \/ k > Reach + 1
Filling(f, k) == f = op.file /\ ~Own(op.at) /\ k = Up(op.at) /\ pc \in {"point", "sweep"}

Leaves == \A f \in Files, k \in Spots :
  Leads(k) /\ Points(f, k) # 0 /\ ~Filling(f, k) =>
    \E n \in Numbers : ~Own(n) /\ Up(n) = k /\ Points(f, n) # 0

\* What is in a block is the file's, but in one that is freed or not written yet.
Pending(f, n) ==
  /\ f = op.file /\ n = op.at
  /\ pc \in IF Truncating THEN {"root", "leaf", "point"} ELSE {"sweep", "sweep root", "data"}

Content == \A f \in Files, n \in Numbers :
  Points(f, n) # 0 /\ ~Pending(f, n) => data[Points(f, n)] \in {f, Zero}

\* A call is where the file ends or, writing over what is there, before it.  It is
\* behind that only when padding found no space, and then finds none either.
Size == node[op.file].size
NoLeaf(n) == ~Own(n) /\ Points(op.file, Up(n)) = 0
Starving == op.call = "write" /\ op.at > Size

Position == pc # "idle" =>
  /\ Truncating => op.end = Size
  /\ op.call = "pad" => op.end = op.from /\ Size = IF pc = "data" THEN op.at + 1 ELSE op.at
  /\ op.call = "write" /\ pc \notin {"find", "data"} => op.at >= Size
  /\ pc = "data" => op.at < Size
  /\ Starving => pc \in {"find", "alloc", "root", "leaf", "undo"}
  /\ Starving /\ pc \in {"find", "alloc"} =>
       marked = Blocks \/ (NoLeaf(op.at) /\ \E b \in Blocks : Blocks \ {b} \subseteq marked)
  /\ Starving /\ pc \in {"root", "leaf"} => marked = Blocks /\ NoLeaf(op.at)
  /\ op.call = "pad" /\ pc = "undo" => marked = Blocks /\ NoLeaf(op.at)

WInv == Sound => Shape /\ Leaves /\ Content /\ Position

LEMMA NumbersAre ==
  /\ Numbers \subseteq Spots /\ Numbers \subseteq Nat
  /\ \A n \in Nat : n < Reach => n \in Numbers
  /\ \A n \in Numbers : n < Reach /\ ~Leads(n) /\ n # Reach /\ n # Reach + 1
                        /\ (Own(n) <=> IsDirect(n))
<1>1. Spots \subseteq Nat /\ Reach \in Nat /\ \A n \in Nat : n < Reach => n \in Spots
  BY MapShape
<1>2. \A n \in Numbers : n \in Nat /\ n < Reach
  BY <1>1 DEF Numbers
<1>3. \A n \in Numbers : n # Reach /\ n # Reach + 1 /\ ~(n > Reach + 1)
  BY <1>1, <1>2
<1> QED
  BY <1>1, <1>2, <1>3 DEF Numbers, Leads, Own, IsDirect

\* The call at work
LEMMA AtNumber ==
  ASSUME TypeOK, Call, pc # "idle"
  PROVE  /\ op \in OpType /\ op.file \in Files /\ op.call \in {"pad", "write", "truncate"}
         /\ op.at \in Numbers /\ op.at \in Nat /\ op.from \in Nat /\ op.end \in Nat
         /\ op.at < op.end /\ op.end <= Reach /\ op.from <= Reach
         /\ op.call = "pad" => op.from < op.until
         /\ Size \in Nat /\ Size <= Reach /\ Reach \in Nat
<1>1. /\ op \in OpType /\ op.file \in Files /\ op.call # "none" /\ op.at \in Nat
      /\ op.at < op.end /\ op.at < Reach /\ node[op.file] \in NodeType
      /\ op.call = "pad" => op.from < op.until
  BY AtIs
<1>2. op.at \in Numbers
  BY <1>1, NumbersAre
<1> QED
  BY <1>1, <1>2, SizeIs, MapShape DEF OpType, Size

LEMMA DivisionIs ==
  ASSUME NEW d \in Nat \ {0}, NEW q \in Nat, NEW r \in 0..(d - 1)
  PROVE  (d * q + r) \div d = q /\ (d * q + r) % d = r
<1> DEFINE n == d * q + r
           a == n \div d
           b == n % d
<1>1. \A x, y \in Nat : x * y \in Nat
  OBVIOUS
<1>2. n \in Nat
  BY <1>1
<1>3. a \in Nat /\ b \in 0..(d - 1) /\ n = d * a + b
  BY <1>2, Dividing
<1>4. \A x, y \in Nat : x < y => d * (x + 1) <= d * y /\ d * (x + 1) = d * x + d
  <2>1. \A x, y, e \in Nat : x <= y => e * x <= e * y
    BY SMTT(30)
  <2>2. \A x \in Nat : d * (x + 1) = d * x + d
    OBVIOUS
  <2> QED
    BY <2>1, <2>2
<1>5. d * a \in Nat /\ d * q \in Nat
  BY <1>1, <1>3
<1> HIDE DEF a, b
<1>6. a = q
  <2>1. CASE a < q
    BY <1>3, <1>4, <1>5, <2>1
  <2>2. CASE q < a
    BY <1>3, <1>4, <1>5, <2>2
  <2> QED
    BY <1>3, <2>1, <2>2
<1>7. b = r
  BY <1>3, <1>5, <1>6
<1> QED
  BY <1>6, <1>7 DEF a, b

\* Behind every slot of an indirect block is a block of the file.
LEMMA SlotFilled ==
  ASSUME NEW m \in Numbers, ~Own(m), NEW s \in Slots
  PROVE  \E n \in Numbers : ~Own(n) /\ Up(n) = Up(m) /\ At(n) = s
<1>1. /\ s \in 0..(PerBlock - 1) /\ s \in Nat /\ s < PerBlock /\ m \in Nat /\ m < Reach
      /\ Direct \in Nat /\ Direct > 0 /\ PerBlock \in Nat \ {0} /\ ~IsDirect(m)
  BY NumbersAre, MapShape DEF Slots
<1>2. CASE IsSingle(m)
  <2> DEFINE n == Direct + s
  <2>1. n \in Nat /\ n < Reach /\ IsSingle(n) /\ ~IsDirect(n) /\ n - Direct = s
    BY <1>1, MapShape DEF IsSingle, IsDirect
  <2>2. Slot(n) = s
    BY <2>1 DEF Slot
  <2> HIDE DEF n
  <2>3. n \in Numbers /\ ~Own(n) /\ At(n) = Slot(n) /\ Up(n) = Reach
    BY <2>1, NumbersAre, MapShape DEF Up, At
  <2>4. Up(m) = Reach
    BY <1>1, <1>2, MapShape DEF Up
  <2> QED
    BY <2>2, <2>3, <2>4
<1>3. CASE ~IsSingle(m)
  <2> DEFINE j == SlotInRoot(m)
             i == PerBlock * j + s
             n == Direct + PerBlock + i
  <2>1. IsDouble(m) /\ j \in Nat /\ Up(m) = Reach + 2 + j
    <3>1. IsDouble(m) /\ SlotInRoot(m) \in Slots
      BY <1>1, <1>3, WayShape, MapShape DEF IsDouble, IsSingle, IsDirect
    <3>2. ~(m > Reach + 1)
      BY <1>1, MapShape
    <3> QED
      BY <1>3, <3>1, <3>2, MapShape DEF Up
  <2>2. \A x, y \in Nat : x * y \in Nat
    OBVIOUS
  <2>3. PerBlock * j \in Nat /\ PerBlock * PerBlock \in Nat
    BY <1>1, <2>1, <2>2
  <2>4. PerBlock * j + PerBlock < PerBlock * PerBlock
    <3>1. Slot(m) \in 0..(PerBlock - 1) /\ m = Direct + PerBlock + PerBlock * j + Slot(m)
      BY <1>1, <2>1, WayShape DEF Slots
    <3> HIDE DEF j
    <3> QED
      BY <1>1, <2>3, <3>1 DEF Reach
  <2>5. i \div PerBlock = j /\ i % PerBlock = s
    BY <1>1, <2>1, DivisionIs
  <2>6. PerBlock * j + PerBlock + PerBlock <= PerBlock * PerBlock
    <3> HIDE DEF j
    <3>1. \A x \in Nat : PerBlock * (x + 1) = PerBlock * x + PerBlock
      BY <1>1
    <3>2. PerBlock * (j + 1) < PerBlock * PerBlock /\ j + 1 \in Nat
      BY <2>1, <2>4, <3>1
    <3>3. \A x, y, e \in Nat : x <= y => e * x <= e * y
      BY SMTT(30)
    <3>4. j + 2 <= PerBlock
      BY <1>1, <2>1, <3>2, <3>3
    <3>5. PerBlock * (j + 2) <= PerBlock * PerBlock
      BY <1>1, <2>1, <3>3, <3>4
    <3>6. PerBlock * (j + 2) = PerBlock * j + PerBlock + PerBlock
      <4>1. PerBlock * (j + 1 + 1) = PerBlock * (j + 1) + PerBlock
        BY <3>1, <3>2
      <4>2. j + 2 = j + 1 + 1
        BY <2>1
      <4> QED
        BY <2>1, <3>1, <4>1, <4>2
    <3> QED
      BY <3>5, <3>6
  <2> HIDE DEF j
  <2>7. i \in Nat /\ i + PerBlock < PerBlock * PerBlock
    BY <1>1, <2>3, <2>6
  <2> HIDE DEF i
  <2>8. n \in Nat /\ n < Reach /\ IsDouble(n) /\ n - Direct - PerBlock = i
    BY <1>1, <2>3, <2>7 DEF Reach, IsDouble
  <2> HIDE DEF n
  <2>9. SlotInRoot(n) = j /\ ~IsSingle(n) /\ ~IsDirect(n)
    BY <2>5, <2>8, DoubleIs DEF SlotInRoot
  <2>10. Slot(n) = s
    BY <2>5, <2>8, <2>9 DEF Slot
  <2>11. n \in Numbers /\ ~Own(n) /\ ~(n > Reach + 1)
    BY <2>8, <2>9, NumbersAre, MapShape
  <2>12. Up(n) = Reach + 2 + j /\ At(n) = s
    BY <2>9, <2>10, <2>11 DEF Up, At
  <2> QED
    BY <2>1, <2>11, <2>12
<1> QED
  BY <1>2, <1>3

\* Between two blocks behind one indirect block are only others.
LEMMA Between ==
  ASSUME NEW m \in Numbers, NEW n \in Numbers, NEW o \in Numbers, m < n, n < o,
         ~Own(m), ~Own(o), Up(m) = Up(o)
  PROVE  ~Own(n) /\ Up(n) = Up(o)
<1>1. /\ m \in Nat /\ n \in Nat /\ o \in Nat /\ m < Reach /\ n < Reach /\ o < Reach
      /\ Direct \in Nat /\ PerBlock \in Nat \ {0} /\ Reach \in Nat
  BY NumbersAre, MapShape
<1>2. ~IsDirect(m) /\ ~IsDirect(n) /\ ~IsDirect(o) /\ ~Own(n)
  BY <1>1, NumbersAre DEF IsDirect
<1>3. ASSUME NEW i \in Nat, i < Reach, ~IsDirect(i)
      PROVE  \/ IsSingle(i) /\ Up(i) = Reach
             \/ /\ IsDouble(i) /\ ~IsSingle(i) /\ SlotInRoot(i) \in Nat
                /\ Up(i) = Reach + 2 + SlotInRoot(i)
  <2>1. ~(i > Reach + 1) /\ (IsSingle(i) \/ (IsDouble(i) /\ ~IsSingle(i)))
    BY <1>1, <1>3 DEF IsSingle, IsDouble, IsDirect
  <2>2. IsDouble(i) => SlotInRoot(i) \in Nat
    BY <1>3, WayShape, MapShape
  <2> QED
    BY <2>1, <2>2 DEF Up
<1>4. CASE IsSingle(o)
  <2>1. IsSingle(n)
    BY <1>1, <1>2, <1>4 DEF IsSingle, IsDirect
  <2> QED
    BY <1>1, <1>2, <1>3, <1>4, <2>1 DEF IsSingle, IsDouble
<1>5. CASE ~IsSingle(o)
  <2>1. IsDouble(o) /\ IsDouble(m) /\ SlotInRoot(m) = SlotInRoot(o)
    BY <1>1, <1>2, <1>3, <1>5
  <2>2. IsDouble(n)
    BY <1>1, <2>1 DEF IsDouble
  <2>3. ASSUME NEW i \in Nat, i < Reach, IsDouble(i)
        PROVE  /\ SlotInRoot(i) \in Nat /\ Slot(i) \in 0..(PerBlock - 1)
               /\ i = Direct + PerBlock + PerBlock * SlotInRoot(i) + Slot(i)
    BY <2>3, WayShape DEF Slots
  <2> DEFINE a == SlotInRoot(o)
             b == SlotInRoot(n)
  <2>4. /\ a \in Nat /\ b \in Nat
        /\ PerBlock * a + Direct + PerBlock <= m /\ o < PerBlock * a + Direct + PerBlock + PerBlock
        /\ PerBlock * b + Direct + PerBlock <= n /\ n < PerBlock * b + Direct + PerBlock + PerBlock
    <3>1. \A x, y \in Nat : x * y \in Nat
      OBVIOUS
    <3>2. PerBlock * a \in Nat /\ PerBlock * b \in Nat /\ a \in Nat /\ b \in Nat
      BY <1>1, <2>1, <2>2, <2>3, <3>1
    <3>3. /\ Slot(o) \in 0..(PerBlock - 1) /\ o = Direct + PerBlock + PerBlock * a + Slot(o)
          /\ Slot(m) \in 0..(PerBlock - 1) /\ m = Direct + PerBlock + PerBlock * a + Slot(m)
          /\ Slot(n) \in 0..(PerBlock - 1) /\ n = Direct + PerBlock + PerBlock * b + Slot(n)
      BY <1>1, <2>1, <2>2, <2>3
    <3> HIDE DEF a, b
    <3> QED
      BY <1>1, <3>2, <3>3
  <2> HIDE DEF a, b
  <2>5. a = b
    <3>1. \A x, y \in Nat : x < y => PerBlock * x + PerBlock <= PerBlock * y
      <4>1. \A x, y, e \in Nat : x <= y => e * x <= e * y
        BY SMTT(30)
      <4>2. \A x, e \in Nat : e * (x + 1) = e * x + e
        OBVIOUS
      <4> QED
        BY <1>1, <4>1, <4>2
    <3>2. \A x, y \in Nat : x * y \in Nat
      OBVIOUS
    <3>3. PerBlock * a \in Nat /\ PerBlock * b \in Nat
      BY <1>1, <2>4, <3>2
    <3>4. ~(a < b) /\ ~(b < a)
      BY <1>1, <2>4, <3>1, <3>3
    <3> QED
      BY <2>4, <3>4
  <2> QED
    BY <1>1, <1>2, <1>3, <1>5, <2>1, <2>2, <2>5, DoubleIs DEF a, b
<1> QED
  BY <1>2, <1>4, <1>5

\* What a step leaves of each part
LEMMA ShapeStays ==
  ASSUME Shape, \A f \in Files, n \in Numbers : Points(f, n)' = Points(f, n),
         \A f \in Files : First(f)' = First(f) /\ Past(f)' = Past(f)
  PROVE  Shape'
BY DEF Shape

LEMMA LeavesStay ==
  ASSUME Leaves,
         \A f \in Files, n \in Numbers :
           ~Own(n) /\ Points(f, n) # 0 => Points(f, n)' # 0 \/ Filling(f, Up(n))',
         \A f \in Files, k \in Spots :
           Leads(k) /\ Points(f, k)' # 0 /\ ~Filling(f, k)' =>
             \/ Points(f, k) # 0 /\ ~Filling(f, k)
             \/ \E n \in Numbers : ~Own(n) /\ Up(n) = k /\ Points(f, n)' # 0
  PROVE  Leaves'
<1> SUFFICES ASSUME NEW f \in Files, NEW k \in Spots, Leads(k), Points(f, k)' # 0, ~Filling(f, k)'
             PROVE  \E n \in Numbers : ~Own(n) /\ Up(n) = k /\ Points(f, n)' # 0
  BY DEF Leaves
<1>1. CASE Points(f, k) # 0 /\ ~Filling(f, k)
  <2>1. PICK n \in Numbers : ~Own(n) /\ Up(n) = k /\ Points(f, n) # 0
    BY <1>1 DEF Leaves
  <2> QED
    BY <2>1
<1> QED
  BY <1>1

LEMMA ContentStays ==
  ASSUME Content,
         \A f \in Files, n \in Numbers : Points(f, n)' # 0 /\ ~Pending(f, n)' =>
           \/ /\ Points(f, n)' = Points(f, n) /\ ~Pending(f, n)
              /\ data'[Points(f, n)] = data[Points(f, n)]
           \/ \E b : Points(f, n)' = b /\ data'[b] \in {f, Zero}
  PROVE  Content'
BY DEF Content

\* The extents stay when the call stays where it is.
LEMMA ExtentStays ==
  ASSUME op'.file = op.file, op'.at = op.at, op'.call = op.call,
         \A f \in Files : node'[f].size = node[f].size,
         pc # "idle", pc' # "idle", AtSweep' <=> AtSweep
  PROVE  \A f \in Files : First(f)' = First(f) /\ Past(f)' = Past(f)
BY DEF First, Past, Active, Truncating

LEMMA WasSound ==
  ASSUME TypeOK, early => early', NEW points, NEW p, Fault(points, p), Sound'
  PROVE  Sound /\ p = "none" /\ ~early /\ ~early'
BY FaultIs DEF Sound

LEMMA PointsIs ==
  ASSUME TypeOK, NEW f \in Files, NEW k \in Spots
  PROVE  Points(f, k) \in Blocks \cup {0}
BY TypeOKParts, PointerType DEF Points

\* A block that was not freed has what it had.
LEMMA DataStays ==
  ASSUME Freed, NEW b \in Blocks, b \notin marked \ marked'
  PROVE  data'[b] = data[b]
BY DEF Freed

LEMMA InitWhole == Init => WInv
<1> SUFFICES ASSUME Init PROVE WInv
  OBVIOUS
<1>1. \A f \in Files, k \in Spots : Points(f, k) = 0
  BY InitEmpty
<1>2. pc = "idle" /\ \A f \in Files : node[f].size = 0
  BY DEF Init
<1>3. Shape
  <2>1. \A f \in Files : Past(f) = 0
    BY <1>2 DEF Past, Active
  <2> QED
    BY <1>1, <2>1, NumbersAre DEF Shape
<1>4. Leaves /\ Content
  BY <1>1, NumbersAre DEF Leaves, Content
<1> QED
  BY <1>2, <1>3, <1>4 DEF WInv, Position

\* A call begins.
LEMMA BeginWhole ==
  ASSUME WInv, pc = "idle", pc' = "find", UNCHANGED <<Disk, node, faults, early>>,
         op'.call = "truncate" => op'.at = 0, Position'
  PROVE  WInv'
<1>1. UNCHANGED <<table, node, data, faults, early>>
  BY DEF Disk
<1>2. Keeps
  BY <1>1, SameKeeps
<1> SUFFICES ASSUME Sound' PROVE Shape' /\ Leaves' /\ Content'
  BY DEF WInv
<1>3. Shape /\ Leaves /\ Content
  BY <1>1 DEF WInv, Sound
<1>4. \A f \in Files : First(f)' = First(f) /\ Past(f)' = Past(f)
  BY <1>1 DEF First, Past, Active, AtSweep, Truncating
<1>5. Shape'
  BY <1>2, <1>3, <1>4, ShapeStays, NumbersAre DEF Keeps
<1>6. Leaves'
  BY <1>2, <1>3, LeavesStay, NumbersAre DEF Keeps, Filling
<1>7. Content'
  BY <1>1, <1>2, <1>3, ContentStays, NumbersAre DEF Keeps, Pending
<1> QED
  BY <1>5, <1>6, <1>7

LEMMA WriteWhole ==
  ASSUME IInv, dangling' = {},
         WInv, NEW f \in Files, NEW position \in 0..Reach, NEW length \in 1..MaxLength,
         Write(f, position, length)
  PROVE  WInv'
<1> DEFINE size == node[f].size
<1>1. size \in Nat /\ position \in Nat
  <2>1. node[f] \in NodeType
    BY TypeOKParts DEF IInv, MapType
  <2> QED
    BY <2>1, MapShape DEF NodeType
<1>2. pc = "idle" /\ pc' = "find" /\ UNCHANGED <<Disk, node, faults, early>>
  BY DEF Write, Called, AtPc
<1>3. /\ op'.call = (IF position > size THEN "pad" ELSE "write")
      /\ op'.file = f /\ op'.from = position /\ (position > size => op'.end = position)
      /\ op'.at = Min({position, size}) /\ Size' = size
  BY <1>2 DEF Write, NoOp, Size
<1> HIDE DEF size
<1>4. Min({position, size}) = IF position <= size THEN position ELSE size
  BY <1>1, LeastOfTwo
<1>5. Position'
  BY <1>1, <1>2, <1>3, <1>4 DEF Position, Truncating, Starving
<1>6. op'.call # "truncate"
  BY <1>3
<1> QED
  BY <1>2, <1>5, <1>6, BeginWhole

LEMMA TruncateWhole ==
  ASSUME IInv, dangling' = {}, WInv, NEW f \in Files, Truncate(f)
  PROVE  WInv'
<1>1. pc = "idle" /\ pc' = "find" /\ UNCHANGED <<Disk, node, faults, early>>
  BY DEF Truncate, Called, AtPc
<1>2. op'.call = "truncate" /\ op'.at = 0 /\ op'.end = Size'
  BY <1>1 DEF Truncate, NoOp, Size
<1>3. Position'
  BY <1>1, <1>2 DEF Position, Starving
<1> QED
  BY <1>1, <1>2, <1>3, BeginWhole

\* The block at hand is there when the loop has passed it, or comes to it last.
LEMMA AtHand ==
  ASSUME TypeOK, Call, Shape, Position, pc # "idle", ~AtSweep
  PROVE  /\ Truncating => Points(op.file, op.at) # 0
         /\ ~Truncating => (Points(op.file, op.at) # 0 <=> op.at < Size)
<1>1. op.file \in Files /\ op.at \in Numbers /\ op.at \in Nat /\ op.at < op.end /\ Size \in Nat
  BY AtNumber
<1>2. /\ First(op.file) = IF Truncating THEN op.at ELSE 0
      /\ Past(op.file) = Size
  BY DEF First, Past, Active, Size
<1>3. Points(op.file, op.at) # 0 <=> First(op.file) <= op.at /\ op.at < Past(op.file)
  BY <1>1 DEF Shape
<1>4. Truncating => op.end = Size
  BY DEF Position
<1> QED
  BY <1>1, <1>2, <1>3, <1>4

LEMMA FindWhole ==
  ASSUME IInv, dangling' = {}, WInv, Find
  PROVE  WInv'
<1> SUFFICES ASSUME Sound' PROVE Shape' /\ Leaves' /\ Content' /\ Position'
  BY DEF WInv
<1>1. TypeOK /\ Call /\ pc = "find" /\ UNCHANGED <<marked, table, data, node, early>>
  BY DEF IInv, Find, AtPc, Disk
<1>2. op \in OpType /\ op.file \in Files /\ op.at \in Numbers /\ op.at \in Nat /\ op.at < Reach
      /\ File = op.file
  BY <1>1, AtNumber, NumbersAre DEF File
<1>3. PICK p \in {"none", "pointer"} :
        /\ Fault(IF IsDirect(op.at) THEN {} ELSE {"pointer"}, p)
        /\ LET b == IF p = "none" THEN Mapped(File, op.at) ELSE 0
           IN  IF b = 0 /\ Truncating THEN Fails
               ELSE /\ op' = [op EXCEPT !.block = b]
                    /\ pc' = IF b = 0 THEN "alloc" ELSE IF Truncating THEN "free" ELSE "data"
  BY DEF Find
<1>4. Sound /\ p = "none"
  BY <1>1, <1>3, WasSound
<1>5. Shape /\ Leaves /\ Content /\ Position
  BY <1>4 DEF WInv
<1> DEFINE b == Points(op.file, op.at)
<1>6. Mapped(File, op.at) = b
  BY <1>2, MappedIs
<1>7. ~AtSweep
  BY <1>1 DEF AtSweep
<1>8. /\ Truncating => b # 0
      /\ ~Truncating => (b # 0 <=> op.at < Size)
  BY <1>1, <1>5, <1>7, AtHand
<1> HIDE DEF b
<1>9. /\ op'.file = op.file /\ op'.call = op.call /\ op'.at = op.at /\ op'.from = op.from
      /\ op'.end = op.end
      /\ pc' = IF b = 0 THEN "alloc" ELSE IF Truncating THEN "free" ELSE "data"
  BY <1>2, <1>3, <1>4, <1>6, <1>8 DEF OpType
<1>10. Keeps
  BY <1>1, SameKeeps
<1>11. Shape'
  <2>1. pc' # "idle" /\ ~AtSweep'
    BY <1>9 DEF AtSweep
  <2>2. \A f \in Files : First(f)' = First(f) /\ Past(f)' = Past(f)
    BY <1>1, <1>7, <1>9, <2>1, ExtentStays
  <2> QED
    BY <1>5, <1>10, <2>2, ShapeStays, NumbersAre DEF Keeps
<1>12. Leaves'
  BY <1>1, <1>5, <1>10, LeavesStay, NumbersAre DEF Keeps, Filling
<1>13. Content'
  BY <1>1, <1>5, <1>10, ContentStays, NumbersAre DEF Keeps, Pending
<1>14. Position'
  <2>1. Size' = Size /\ Size \in Nat
    BY <1>1, <1>9, AtNumber DEF Size
  <2>2. NoLeaf(op.at) => NoLeaf(op.at)'
    <3>1. ~Own(op.at) => Up(op.at) \in Spots
      BY <1>2, UpShape, NumbersAre
    <3> QED
      BY <1>2, <1>9, <1>10, <3>1 DEF NoLeaf, Keeps
  <2> QED
    BY <1>1, <1>2, <1>5, <1>8, <1>9, <2>1, <2>2 DEF Position, Truncating, Starving
<1> QED
  BY <1>11, <1>12, <1>13, <1>14

LEMMA FreeBlockWhole ==
  ASSUME IInv, dangling' = {}, WInv, FreeBlock
  PROVE  WInv'
<1> SUFFICES ASSUME Sound' PROVE Shape' /\ Leaves' /\ Content' /\ Position'
  BY DEF WInv
<1>1. /\ TypeOK /\ Counted /\ Call /\ pc = "free" /\ UNCHANGED <<table, node, op, early>>
      /\ pc' \in {"point", "root"} /\ Truncating /\ ~AtSweep /\ ~AtSweep'
  BY DEF IInv, Hand, FreeBlock, AtPc, SetBlock, AtSweep
<1>2. op.file \in Files /\ op.at \in Numbers /\ op.at \in Spots /\ File = op.file
  BY <1>1, AtNumber, NumbersAre DEF File
<1>3. PICK p \in {"none", "bitmap"} :
        /\ Fault({"bitmap"}, p)
        /\ SetSpace(IF p = "none" THEN Release(Space, op.block) ELSE Space)
  BY DEF FreeBlock
<1>4. Sound /\ p = "none"
  BY <1>1, <1>3, WasSound
<1>5. Shape /\ Leaves /\ Content /\ Position
  BY <1>4 DEF WInv
<1>6. Points(op.file, op.at) = op.block /\ op.block # 0
  BY <1>1, <1>2 DEF IInv, Hand
<1>7. Freed /\ marked' = marked \ {op.block}
  <2>1. op.block \in Blocks \ Meta
    BY <1>1, <1>2, <1>6, PointsIs DEF IInv, NotMeta
  <2>2. Release(Space, op.block).marked = marked \ {op.block}
    BY <1>1, <2>1, SpaceSane, ReleaseSane
  <2> QED
    BY <1>3, <1>4, <2>2, SpaceFreed DEF SetSpace
<1>8. Keeps
  BY <1>1, SameKeeps
<1>9. Shape'
  <2>1. \A f \in Files : First(f)' = First(f) /\ Past(f)' = Past(f)
    BY <1>1, ExtentStays
  <2> QED
    BY <1>5, <1>8, <2>1, ShapeStays, NumbersAre DEF Keeps
<1>10. Leaves'
  BY <1>1, <1>5, <1>8, LeavesStay, NumbersAre DEF Keeps, Filling
<1>11. Content'
  <2>1. ASSUME NEW f \in Files, NEW n \in Numbers, Points(f, n)' # 0, ~Pending(f, n)'
        PROVE  /\ Points(f, n)' = Points(f, n) /\ ~Pending(f, n)
               /\ data'[Points(f, n)] = data[Points(f, n)]
    <3>1. Points(f, n)' = Points(f, n) /\ n \in Spots
      BY <1>8, NumbersAre DEF Keeps
    <3>2. ~(f = op.file /\ n = op.at) /\ ~Pending(f, n)
      BY <1>1, <2>1 DEF Pending, Truncating
    <3>3. Points(f, n) # op.block
      BY <1>2, <1>6, <2>1, <3>1, <3>2, SMT DEF IInv, Unshared, Apart, Points
    <3>4. Points(f, n) \in Blocks
      BY <1>1, <2>1, <3>1, PointsIs
    <3> QED
      BY <1>7, <3>1, <3>2, <3>3, <3>4, DataStays
  <2> QED
    BY <1>5, <2>1, ContentStays
<1>12. Position'
  BY <1>1, <1>5 DEF Position, Truncating, Starving, Size
<1> QED
  BY <1>9, <1>10, <1>11, <1>12

LEMMA AllocBlockWhole ==
  ASSUME IInv, dangling' = {}, WInv, AllocBlock
  PROVE  WInv'
<1> SUFFICES ASSUME Sound' PROVE Shape' /\ Leaves' /\ Content' /\ Position'
  BY DEF WInv
<1>1. /\ TypeOK /\ Counted /\ Call /\ pc = "alloc" /\ UNCHANGED <<table, node, early>>
      /\ ~Truncating /\ ~AtSweep
  BY DEF IInv, Hand, AllocBlock, AtPc, AtSweep
<1>2. /\ op \in OpType /\ op.file \in Files /\ op.at \in Numbers /\ op.at \in Nat
      /\ op.at < op.end /\ op.end \in Nat /\ op.from \in Nat /\ op.at \in 0..Reach
      /\ op.call \in {"pad", "write"} /\ Size \in Nat
  BY <1>1, AtNumber DEF Truncating, OpType
<1>3. PICK p \in {"none", "bitmap", "group"} :
        /\ Fault(IF Roomy(Space) = {} THEN {} ELSE {"bitmap", "group"}, p)
        /\ LET s == Allocate(Space, p)
           IN  /\ SetSpace(s)
               /\ IF s.block = 0 THEN LoopEnds(op.at)
                  ELSE SetBlock /\ op' = [op EXCEPT !.block = s.block]
  BY DEF AllocBlock
<1>4. Sound /\ p = "none"
  BY <1>1, <1>3, WasSound
<1>5. Shape /\ Leaves /\ Content /\ Position
  BY <1>4 DEF WInv
<1> DEFINE s == Allocate(Space, p)
<1>6. Allocated(Space, s, p) /\ Space.marked = marked
  BY <1>1, SpaceSane, AllocateAllocates
<1>7. /\ SetSpace(s) /\ marked \subseteq marked'
      /\ IF s.block = 0 THEN LoopEnds(op.at)
         ELSE SetBlock /\ op' = [op EXCEPT !.block = s.block]
  BY <1>3, <1>6 DEF SetSpace, Allocated
<1>8. /\ s.block = 0 => marked = Blocks /\ marked' = Blocks
      /\ s.block # 0 => s.block \in Blocks \ marked /\ marked' = marked \cup {s.block}
  BY <1>4, <1>6, <1>7 DEF Allocated, SetSpace
<1> HIDE DEF s
<1>9. Keeps /\ Freed
  BY <1>1, <1>7, SameKeeps, SpaceFreed
<1>10. Size <= op.at
  BY <1>1, <1>2, <1>5 DEF Position
<1>11. pc' \in {"idle", "find", "point", "root"} /\ ~Truncating' /\ op'.file = op.file
  <2>1. CASE s.block = 0
    <3>1. pc' \in {"idle", "find"} /\ op'.call = "write" /\ op'.file = op.file
      BY <1>1, <1>2, <1>7, <2>1, LoopEndsIs
    <3> QED
      BY <3>1 DEF Truncating
  <2>2. CASE s.block # 0
    BY <1>1, <1>2, <1>7, <2>2 DEF SetBlock, OpType, Truncating
  <2> QED
    BY <2>1, <2>2
<1>12. Shape'
  <2>1. \A f \in Files : First(f)' = First(f) /\ Past(f)' = Past(f)
    BY <1>1, <1>11 DEF First, Past, AtSweep
  <2> QED
    BY <1>5, <1>9, <2>1, ShapeStays, NumbersAre DEF Keeps
<1>13. Leaves'
  BY <1>1, <1>5, <1>9, LeavesStay, NumbersAre DEF Keeps, Filling
<1>14. Content'
  <2>1. ASSUME NEW f \in Files, NEW n \in Numbers, Points(f, n)' # 0
        PROVE  /\ Points(f, n)' = Points(f, n) /\ ~Pending(f, n)
               /\ data'[Points(f, n)] = data[Points(f, n)]
    <3>1. Points(f, n)' = Points(f, n) /\ ~Pending(f, n)
      BY <1>1, <1>9, NumbersAre DEF Keeps, Pending
    <3>2. Points(f, n) \in Blocks
      BY <1>1, <2>1, <3>1, PointsIs, NumbersAre
    <3> QED
      BY <1>7, <1>9, <3>1, <3>2, DataStays
  <2> QED
    BY <1>5, <2>1, ContentStays
<1>15. Position'
  <2>1. Size' = Size
    BY <1>1, <1>11 DEF Size
  <2>2. CASE s.block = 0
    <3>1. CASE op.call = "pad"
      <4>1. /\ pc' = "find" /\ op'.call = "write" /\ op'.at = op.from /\ op.end = op.from
            /\ marked' = Blocks
        BY <1>1, <1>2, <1>5, <1>7, <1>8, <2>2, <3>1, LoopEndsIs DEF Position
      <4> QED
        BY <1>2, <4>1 DEF Position, Truncating
    <3>2. CASE op.call = "write"
      <4>1. pc' = "idle"
        BY <1>1, <1>2, <1>7, <2>2, <3>2, LoopEndsIs
      <4> QED
        BY <4>1 DEF Position
    <3> QED
      BY <1>2, <3>1, <3>2
  <2>3. CASE s.block # 0
    <3>1. /\ op'.call = op.call /\ op'.at = op.at /\ op'.from = op.from /\ op'.end = op.end
          /\ pc' = IF IsDirect(op.at) THEN "point" ELSE "root"
      BY <1>2, <1>7, <2>3 DEF SetBlock, OpType
    <3>2. Starving => pc' = "root" /\ NoLeaf(op.at) /\ marked' = Blocks
      <4>1. s.block \in Blocks \ marked /\ marked' = marked \cup {s.block} /\ marked \subseteq Blocks
        BY <1>1, <1>8, <2>3 DEF TypeOK
      <4>2. Starving => NoLeaf(op.at) /\ \E b \in Blocks : Blocks \ {b} \subseteq marked
        BY <1>1, <1>5, <4>1 DEF Position
      <4>3. NoLeaf(op.at) => ~IsDirect(op.at)
        BY <1>2, NumbersAre DEF NoLeaf
      <4> QED
        BY <3>1, <4>1, <4>2, <4>3
    <3>3. NoLeaf(op.at) => NoLeaf(op.at)'
      <4>1. ~Own(op.at) => Up(op.at) \in Spots
        BY <1>2, UpShape, NumbersAre
      <4> QED
        BY <1>2, <1>9, <1>11, <3>1, <4>1 DEF NoLeaf, Keeps
    <3> QED
      BY <1>1, <1>2, <1>5, <1>10, <1>11, <2>1, <3>1, <3>2, <3>3 DEF Position, Truncating, Starving
  <2> QED
    BY <2>2, <2>3
<1> QED
  BY <1>12, <1>13, <1>14, <1>15

\* An indirect block on the way to the block at hand is made, or there is no space.
LEMMA MakesTableWhole ==
  ASSUME IInv, dangling' = {},
         TypeOK', Shape, Leaves, Content, Position, Sound', pc \in {"root", "leaf"},
         NEW k \in Spots, NEW next \in {"point", "leaf"}, MakesTable(k, next),
         k \notin Numbers, next = "point" => k = Up(op.at), next = "leaf" => k = Reach + 1,
         Points(op.file, k) = 0 => Points(op.file, Up(op.at)) = 0,
         ~Own(op.at), Freed, \A f \in Files : node'[f].size = node[f].size
  PROVE  Shape' /\ Leaves' /\ Content' /\ Position'
<1>1. TypeOK /\ Call /\ pc # "idle" /\ ~AtSweep
  BY DEF IInv, AtSweep
<1>2. /\ op.file \in Files /\ op.at \in Numbers /\ op.at \in Nat /\ Size \in Nat
      /\ Up(op.at) \in Spots /\ op.call \in {"pad", "write", "truncate"}
  BY <1>1, AtNumber, NumbersAre, UpShape
<1>3. \/ Keeps /\ Points(op.file, k) # 0 /\ pc' = next /\ op' = op /\ marked' = marked
      \/ /\ Keeps /\ pc' = "undo" /\ op' = op /\ ~Truncating
         /\ Points(op.file, k) = 0 /\ marked = Blocks /\ marked' = Blocks
      \/ /\ Points(op.file, k) = 0 /\ pc' = next /\ op' = op /\ marked # Blocks
         /\ \E b \in Blocks : Puts(node, table, node', table', op.file, k, b)
  <2>1. marked' \subseteq Blocks /\ marked \subseteq marked'
    BY DEF TypeOK, MakesTable
  <2> QED
    BY <2>1, SetFailsIs DEF MakesTable
<1>4. op' = op /\ pc' \in {"point", "leaf", "undo"} /\ ~AtSweep' /\ Size' = Size
      /\ marked \subseteq marked'
  BY <1>2, <1>3 DEF AtSweep, Size, MakesTable
<1>5. \A f \in Files, n \in Spots : ~(f = op.file /\ n = k) => Points(f, n)' = Points(f, n)
  BY <1>3 DEF Keeps, Puts, Points
<1>6. \A f \in Files, n \in Numbers : Points(f, n)' = Points(f, n)
  BY <1>5, NumbersAre
<1>7. Shape'
  <2>1. \A f \in Files : First(f)' = First(f) /\ Past(f)' = Past(f)
    BY <1>1, <1>4, ExtentStays
  <2> QED
    BY <1>6, <2>1, ShapeStays
<1>8. Leaves'
  <2>1. ASSUME NEW f \in Files, NEW j \in Spots, Leads(j), Points(f, j)' # 0, ~Filling(f, j)'
        PROVE  Points(f, j) # 0 /\ ~Filling(f, j)
    <3>1. ~Filling(f, j)
      BY DEF Filling
    <3>2. CASE ~(f = op.file /\ j = k)
      BY <1>5, <2>1, <3>1, <3>2
    <3>3. CASE f = op.file /\ j = k
      <4>1. next = "point" /\ k = Up(op.at)
        BY <2>1, <3>3, MapShape DEF Leads
      <4>2. pc' # "point"
        BY <1>4, <2>1, <3>3, <4>1 DEF Filling
      <4>3. Keeps
        BY <1>3, <4>1, <4>2
      <4> QED
        BY <2>1, <3>1, <4>3 DEF Keeps
    <3> QED
      BY <3>2, <3>3
  <2> QED
    BY <1>6, <2>1, LeavesStay
<1>9. Content'
  <2>1. ASSUME NEW f \in Files, NEW n \in Numbers, Points(f, n)' # 0, ~Pending(f, n)'
        PROVE  /\ Points(f, n)' = Points(f, n) /\ ~Pending(f, n)
               /\ data'[Points(f, n)] = data[Points(f, n)]
    <3>1. Points(f, n)' = Points(f, n)
      BY <1>6
    <3>2. ~Pending(f, n)
      BY <1>3, <1>4, <2>1 DEF Pending, Truncating
    <3>3. Points(f, n) \in Blocks
      BY <1>1, <2>1, <3>1, PointsIs, NumbersAre
    <3> QED
      BY <1>4, <3>1, <3>2, <3>3, DataStays
  <2> QED
    BY <2>1, ContentStays
<1>10. Position'
  <2>1. Keeps /\ NoLeaf(op.at) => NoLeaf(op.at)'
    BY <1>2, <1>4 DEF NoLeaf, Keeps
  <2>2. Points(op.file, k) = 0 => NoLeaf(op.at)
    BY DEF NoLeaf
  <2>3. next = "point" /\ NoLeaf(op.at) => Points(op.file, k) = 0
    BY DEF NoLeaf
  <2>4. Position /\ (Starving' <=> Starving)
    BY <1>4 DEF Starving
  <2>5. CASE Keeps /\ Points(op.file, k) # 0 /\ pc' = next /\ op' = op /\ marked' = marked
    BY <1>2, <1>4, <2>1, <2>3, <2>4, <2>5 DEF Position, Truncating
  <2>6. CASE /\ Keeps /\ pc' = "undo" /\ op' = op /\ ~Truncating
             /\ Points(op.file, k) = 0 /\ marked = Blocks /\ marked' = Blocks
    BY <1>2, <1>4, <2>1, <2>2, <2>4, <2>6 DEF Position, Truncating
  <2>7. CASE Points(op.file, k) = 0 /\ pc' = next /\ op' = op /\ marked # Blocks
    BY <1>2, <1>4, <2>4, <2>7 DEF Position, Truncating
  <2> QED
    BY <1>3, <2>5, <2>6, <2>7
<1> QED
  BY <1>7, <1>8, <1>9, <1>10

LEMMA MakeRootWhole ==
  ASSUME IInv, dangling' = {}, WInv, MakeRoot
  PROVE  WInv'
<1> SUFFICES ASSUME Sound' PROVE Shape' /\ Leaves' /\ Content' /\ Position'
  BY DEF WInv
<1>1. TypeOK /\ Call /\ pc = "root" /\ early' = early
  BY DEF IInv, MakeRoot, AtPc
<1>2. op.file \in Files /\ op.at \in Numbers /\ op.at < Reach /\ op.at \in Nat /\ ~IsDirect(op.at)
  BY <1>1, AtNumber, NumbersAre DEF Call
<1>3. Sound
  <2>1. faults' = faults \/ \E points, p : Fault(points, p)
    BY DEF MakeRoot
  <2> QED
    BY <1>1, <2>1, WasSound DEF Sound
<1>4. Shape /\ Leaves /\ Content /\ Position
  BY <1>3 DEF WInv
<1>5. TypeOK'
  BY MakeRootStep DEF IInv
<1>6. Freed /\ \A f \in Files : node'[f].size = node[f].size
  BY RootSize
<1>7. ~Own(op.at)
  BY <1>2, NumbersAre
<1>8. CASE IsSingle(op.at)
  <2>1. MakesTable(Reach, "point") /\ Up(op.at) = Reach
    BY <1>2, <1>8, MakeRootStep, LeafIs
  <2> QED
    BY <1>1, <1>4, <1>5, <1>6, <1>7, <2>1, MakesTableWhole, MapShape, NumbersAre
<1>9. CASE ~IsSingle(op.at)
  <2>1. MakesTable(Reach + 1, "leaf")
    BY <1>9, MakeRootStep
  <2>2. IsDouble(op.at)
    BY <1>2, <1>9, LeafIs
  <2>3. Points(op.file, Reach + 1) = 0 => Points(op.file, Up(op.at)) = 0
    BY <1>2, <2>2, DoubleUp, UpPoints
  <2> QED
    BY <1>1, <1>4, <1>5, <1>6, <1>7, <2>1, <2>3, MakesTableWhole, MapShape, NumbersAre
<1> QED
  BY <1>8, <1>9

LEMMA MakeLeafWhole ==
  ASSUME IInv, dangling' = {}, WInv, MakeLeaf
  PROVE  WInv'
<1> SUFFICES ASSUME Sound' PROVE Shape' /\ Leaves' /\ Content' /\ Position'
  BY DEF WInv
<1>1. TypeOK /\ Freed /\ node' = node /\ early' = early /\ pc = "leaf"
  BY LeafSpace DEF IInv
<1>2. Sound
  <2>1. \E points, p : Fault(points, p)
    BY DEF MakeLeaf
  <2> QED
    BY <1>1, <2>1, WasSound
<1>3. Shape /\ Leaves /\ Content /\ Position
  BY <1>2 DEF WInv
<1>4. TypeOK'
  BY MakeLeafStep DEF IInv
<1>5. op.at \in Spots /\ ~Own(op.at) /\ Up(op.at) \in Spots /\ Up(op.at) >= Reach
  BY <1>1, LeafPlace, UpShape
<1>6. Up(op.at) \notin Numbers
  <2>1. \A k \in Spots : k >= Reach => k \notin Numbers
    BY NumbersAre, MapShape
  <2> QED
    BY <1>5, <2>1
<1>7. MakesTable(Up(op.at), "point")
  BY MakeLeafStep
<1> QED
  BY <1>1, <1>3, <1>4, <1>5, <1>6, <1>7, MakesTableWhole

\* The pointer at hand is set, or cleared, and the others are as they were.
Passes == \A f \in Files, n \in Numbers :
  Points(f, n)' # 0 <=>
    IF f # op.file THEN n < node[f].size
    ELSE IF Truncating THEN op.at + 1 <= n /\ n < Size ELSE n <= op.at

LEMMA NumbersCount ==
  ASSUME NEW n \in Numbers, NEW k \in Nat
  PROVE  n \in Nat /\ 0 <= n /\ (n < k + 1 <=> n <= k) /\ (k + 1 <= n <=> k < n)
<1>1. n \in Nat
  BY NumbersAre
<1> QED
  BY <1>1

\* When setINodeBlock is at work the block at hand is the first behind the file's end.
LEMMA AtEnd ==
  ASSUME TypeOK, Call, Position, pc = "point" \/ AtSweep
  PROVE  /\ ~Truncating => op.at = Size
         /\ Truncating => op.end = Size /\ op.at < Size
<1>1. /\ op.at \in Nat /\ Size \in Nat /\ op.at < op.end
      /\ op.call \in {"pad", "write", "truncate"}
  BY AtNumber DEF AtSweep
<1>2. Position /\ pc # "idle" /\ pc # "find" /\ pc # "data" /\ ~Starving
  <2>1. pc \notin {"idle", "find", "data", "alloc", "root", "leaf", "undo"}
    BY DEF AtSweep
  <2> QED
    BY <2>1 DEF Position
<1>3. CASE op.call = "pad"
  BY <1>1, <1>2, <1>3 DEF Position, Truncating
<1>4. CASE op.call = "write"
  <2>1. op.at >= Size /\ ~Truncating
    BY <1>2, <1>4 DEF Position, Truncating
  <2>2. ~(op.at > Size)
    BY <1>2, <1>4 DEF Starving
  <2> QED
    BY <1>1, <2>1, <2>2
<1>5. CASE op.call = "truncate"
  BY <1>1, <1>2, <1>5 DEF Position, Truncating
<1> QED
  BY <1>1, <1>3, <1>4, <1>5

LEMMA SweepPasses ==
  ASSUME TypeOK, Call, Shape, AtSweep,
         \A f \in Files, n \in Numbers : Points(f, n)' = Points(f, n)
  PROVE  Passes
<1>1. pc # "idle"
  BY DEF AtSweep
<1>2. op.file \in Files /\ op.at \in Nat
  BY <1>1, AtNumber
<1>3. ASSUME NEW f \in Files, NEW n \in Numbers
      PROVE  Points(f, n) # 0 <=> First(f) <= n /\ n < Past(f)
  BY DEF Shape
<1>4. \A n \in Numbers : n \in Nat /\ 0 <= n
  BY NumbersAre
<1>5. \A n \in Numbers : n < op.at + 1 <=> n <= op.at
  BY <1>2, <1>4
<1>6. ASSUME NEW f \in Files
      PROVE  /\ First(f) = IF f = op.file /\ Truncating THEN op.at + 1 ELSE 0
             /\ Past(f) = IF f = op.file /\ ~Truncating THEN op.at + 1 ELSE node[f].size
  BY <1>1 DEF First, Past, Active
<1> QED
  BY <1>3, <1>4, <1>5, <1>6 DEF Passes, Size

LEMMA PointerPasses ==
  ASSUME IInv, dangling' = {}, Shape, Position, pc = "point",
         Puts(node, table, node', table', op.file, op.at, Pointer)
  PROVE  Passes
<1>1. TypeOK /\ Call
  BY DEF IInv
<1>2. op.file \in Files /\ op.at \in Nat /\ op.at \in Spots /\ Size \in Nat
  BY <1>1, AtNumber, NumbersAre
<1>3. /\ ~Truncating => op.at = Size
      /\ Truncating => op.at < Size
  BY <1>1, AtEnd
<1>4. Pointer = 0 <=> Truncating
  BY DEF IInv, Hand, Pointer
<1>5. ASSUME NEW f \in Files
      PROVE  /\ First(f) = IF f = op.file /\ Truncating THEN op.at ELSE 0
             /\ Past(f) = node[f].size
  BY DEF First, Past, Active, AtSweep
<1>6. ASSUME NEW f \in Files, NEW n \in Numbers
      PROVE  /\ n \in Nat /\ Points(f, n)' = IF f = op.file /\ n = op.at THEN Pointer ELSE Points(f, n)
             /\ Points(f, n) # 0 <=> First(f) <= n /\ n < Past(f)
  BY NumbersAre DEF Puts, Points, Shape
<1> QED
  BY <1>2, <1>3, <1>4, <1>5, <1>6 DEF Passes, Size

\* The call goes on to sweep the indirect blocks.
LEMMA GoesOnWhole ==
  ASSUME TypeOK, Call, Position, pc = "point" \/ AtSweep, Passes,
         node' = node, op' = op, AtSweep'
  PROVE  Shape' /\ Position'
<1>1. /\ op.at \in Nat /\ Size \in Nat /\ Size' = Size /\ pc' # "idle" /\ pc' # "data"
      /\ op.call \in {"pad", "write", "truncate"} /\ AtSweep'
      /\ pc' \notin {"alloc", "find", "root", "leaf", "undo"}
  BY AtNumber DEF AtSweep, Size
<1>2. /\ ~Truncating => op.at = Size
      /\ Truncating => op.end = Size
  BY AtEnd
<1>3. ASSUME NEW f \in Files
      PROVE  /\ First(f)' = IF f = op.file /\ Truncating THEN op.at + 1 ELSE 0
             /\ Past(f)' = IF f = op.file /\ ~Truncating THEN op.at + 1 ELSE node[f].size
  BY <1>1 DEF First, Past, Active, Truncating
<1>4. \A n \in Numbers : n \in Nat /\ 0 <= n /\ (n < op.at + 1 <=> n <= op.at)
  BY <1>1, NumbersCount
<1>5. Shape'
  BY <1>3, <1>4 DEF Shape, Passes, Size
<1>6. Position'
  <2>1. op.call = "pad" => op.end = op.from
    <3>1. pc # "idle"
      BY DEF AtSweep
    <3> QED
      BY <3>1 DEF Position
  <2>2. (Truncating' <=> Truncating) /\ ~Starving'
    BY <1>1, <1>2 DEF Truncating, Starving
  <2>3. op.call = "pad" \/ op.call = "write" => ~Truncating
    BY DEF Truncating
  <2> QED
    BY <1>1, <1>2, <2>1, <2>2, <2>3 DEF Position
<1> QED
  BY <1>5, <1>6

\* setINodeBlock has come to its end.
LEMMA DoneWhole ==
  ASSUME TypeOK, Call, Position, pc = "point" \/ AtSweep, Passes,
         NEW m \in NodeType, m.size = Size, SetDone(m)
  PROVE  Shape' /\ Position' /\ pc' \in {"data", "find", "idle"}
         /\ (~Truncating => op' = op /\ pc' = "data")
         /\ (Truncating => op'.call \in {"truncate", "none"})
<1>0. pc # "idle"
  BY DEF AtSweep
<1>1. /\ op.at \in Nat /\ Size \in Nat /\ op.end \in Nat /\ op.at < op.end /\ op.file \in Files
      /\ op.call \in {"pad", "write", "truncate"}
  BY <1>0, AtNumber
<1>2. /\ ~Truncating => op.at = Size
      /\ Truncating => op.end = Size
  BY AtEnd
<1>3. /\ ~Truncating => node'[op.file].size = op.at + 1
      /\ Truncating => node'[op.file].size = IF op.at + 1 = op.end THEN 0 ELSE Size
      /\ \A g \in Files : g # op.file => node'[g] = node[g]
  <2>1. ~Truncating => m.size = op.at
    BY <1>2
  <2>2. ~(op.at + op.end <= op.at + op.at)
    BY <1>1
  <2> QED
    BY <1>0, <2>1, <2>2, SetDoneSize
<1>4. \A n \in Numbers : n \in Nat /\ 0 <= n /\ (n < op.at + 1 <=> n <= op.at)
  BY <1>1, NumbersCount
<1>5. CASE ~Truncating
  <2>1. pc' = "data" /\ op' = op
    BY <1>5 DEF SetDone
  <2>2. ASSUME NEW f \in Files
        PROVE  First(f)' = 0 /\ Past(f)' = IF f = op.file THEN op.at + 1 ELSE node[f].size
    BY <1>3, <1>5, <2>1 DEF First, Past, AtSweep, Truncating
  <2>3. Shape'
    BY <1>4, <1>5, <2>2 DEF Shape, Passes
  <2>4. Size' = op.at + 1
    BY <1>3, <1>5, <2>1 DEF Size
  <2>5. Position'
    <3>1. op.call = "pad" => op.end = op.from
      BY <1>0 DEF Position
    <3>2. ~Starving' /\ op.at < Size' /\ ~Truncating'
      BY <1>1, <1>5, <2>1, <2>4 DEF Starving, Truncating
    <3> QED
      BY <2>1, <2>4, <3>1, <3>2 DEF Position
  <2> QED
    BY <1>5, <2>1, <2>3, <2>5
<1>6. CASE Truncating
  <2>1. NextBlock
    BY <1>6 DEF SetDone
  <2>2. CASE op.at + 1 = op.end
    <3>1. pc' = "idle" /\ op' = NoOp
      BY <1>0, <1>6, <2>1, <2>2, NextBlockIs DEF Truncating
    <3>2. ASSUME NEW f \in Files
          PROVE  First(f)' = 0 /\ Past(f)' = IF f = op.file THEN 0 ELSE node[f].size
      BY <1>3, <1>6, <2>2, <3>1 DEF First, Past, Active
    <3>3. Shape'
      <4>1. \A n \in Numbers : ~(op.at + 1 <= n /\ n < Size)
        <5>1. Size = op.at + 1
          BY <1>2, <1>6, <2>2
        <5>2. ASSUME NEW n \in Numbers, op.at + 1 <= n
              PROVE  ~(n < op.at + 1)
          BY <1>1, <1>4, <5>2
        <5> QED
          BY <5>1, <5>2
      <4> QED
        <5>1. \A n \in Numbers : 0 <= n /\ ~(n < 0)
          BY <1>4
        <5>2. ASSUME NEW f \in Files, NEW n \in Numbers
              PROVE  Points(f, n)' # 0 <=> n < Past(f)'
          BY <1>6, <3>2, <4>1, <5>1 DEF Passes
        <5> QED
          BY <3>2, <5>1, <5>2 DEF Shape
    <3> QED
      BY <3>1, <3>3, <1>6, NoOpIs DEF Position
  <2>3. CASE op.at + 1 # op.end
    <3>1. /\ pc' = "find" /\ op'.call = "truncate" /\ op'.file = op.file
          /\ op'.at = op.at + 1 /\ op'.end = op.end
      BY <1>0, <1>6, <2>1, <2>3, NextBlockIs DEF Truncating
    <3>2. ASSUME NEW f \in Files
          PROVE  First(f)' = (IF f = op.file THEN op.at + 1 ELSE 0)
                 /\ Past(f)' = IF f = op.file THEN Size ELSE node[f].size
      BY <1>3, <1>6, <2>3, <3>1 DEF First, Past, Active, Truncating, AtSweep
    <3>3. Shape'
      BY <1>4, <1>6, <3>2 DEF Shape, Passes
    <3>4. Size' = Size
      BY <1>3, <1>6, <2>3, <3>1 DEF Size
    <3>5. Position'
      BY <1>2, <1>6, <3>1, <3>4 DEF Position, Starving
    <3> QED
      BY <1>6, <3>1, <3>3, <3>5
  <2> QED
    BY <2>2, <2>3
<1> QED
  BY <1>5, <1>6

LEMMA WritePointerWhole ==
  ASSUME IInv, dangling' = {}, WInv, WritePointer
  PROVE  WInv'
<1> SUFFICES ASSUME Sound' PROVE Shape' /\ Leaves' /\ Content' /\ Position'
  BY DEF WInv
<1>1. TypeOK /\ Call /\ pc = "point" /\ UNCHANGED <<marked, data, early>>
  BY DEF IInv, WritePointer, AtPc
<1>2. /\ op.file \in Files /\ op.at \in Numbers /\ op.at \in Nat /\ Node \in NodeType
      /\ Node = node[op.file] /\ op.block \in Blocks \cup {0} /\ Size = Node.size
  BY <1>1, AtIs, AtNumber DEF OpType, Size
<1>3. Sound
  <2>1. faults' = faults \/ \E points, p : Fault(points, p)
    BY DEF WritePointer
  <2> QED
    BY <1>1, <2>1, WasSound DEF Sound
<1>4. Shape /\ Leaves /\ Content /\ Position
  BY <1>3 DEF WInv
<1>5. Puts(node, table, node', table', op.file, op.at, Pointer)
  BY WritePointerStep DEF SetsPointer
<1>6. Passes
  BY <1>1, <1>4, <1>5, PointerPasses
<1>7. \A f \in Files, k \in Spots : Points(f, k)' = IF f = op.file /\ k = op.at THEN Pointer ELSE Points(f, k)
  BY <1>5 DEF Puts, Points
<1> DEFINE n == [Node EXCEPT !.direct[op.at] = Pointer]
<1>8. IsDirect(op.at) => SetDone(n)
  BY DEF WritePointer
<1>9. n \in NodeType /\ n.size = Size
  <2>1. Pointer \in Blocks \cup {0}
    BY <1>2 DEF Pointer
  <2> QED
    BY <1>2, <2>1 DEF NodeType
<1> HIDE DEF n
<1>10. /\ Shape' /\ Position'
       /\ IF IsDirect(op.at) THEN pc' \in {"data", "find", "idle"} ELSE pc' = "sweep" /\ op' = op
       /\ ~Truncating => op' = op /\ pc' \in {"data", "sweep"}
  <2>1. CASE IsDirect(op.at)
    <3>1. SetDone(n)
      BY <1>8, <2>1
    <3> QED
      BY <1>1, <1>4, <1>6, <1>9, <2>1, <3>1, DoneWhole
  <2>2. CASE ~IsDirect(op.at)
    <3>1. node' = node /\ op' = op /\ pc' = "sweep"
      BY <1>1, <1>3, <2>2, WasSound DEF WritePointer
    <3>2. AtSweep'
      BY <3>1 DEF AtSweep
    <3> QED
      BY <1>1, <1>4, <1>6, <2>2, <3>1, <3>2, GoesOnWhole
  <2> QED
    BY <2>1, <2>2
<1>11. Own(op.at) <=> IsDirect(op.at)
  BY <1>2, NumbersAre
<1>12. Leaves'
  <2>1. ASSUME NEW f \in Files, NEW j \in Numbers, ~Own(j), Points(f, j) # 0
        PROVE  Points(f, j)' # 0 \/ Filling(f, Up(j))'
    <3>1. CASE f = op.file /\ j = op.at
      BY <1>10, <1>11, <2>1, <3>1 DEF Filling
    <3>2. CASE ~(f = op.file /\ j = op.at)
      BY <1>7, <2>1, <3>2, NumbersAre
    <3> QED
      BY <3>1, <3>2
  <2>2. ASSUME NEW f \in Files, NEW k \in Spots, Leads(k), Points(f, k)' # 0, ~Filling(f, k)'
        PROVE  Points(f, k) # 0 /\ ~Filling(f, k)
    <3>1. k # op.at
      BY <1>2, <2>2, NumbersAre
    <3>2. ~Filling(f, k)
      BY <1>1, <1>10, <1>11, <2>2 DEF Filling
    <3> QED
      BY <1>7, <2>2, <3>1, <3>2
  <2> QED
    BY <1>4, <2>1, <2>2, LeavesStay
<1>13. Content'
  <2>1. ASSUME NEW f \in Files, NEW j \in Numbers, Points(f, j)' # 0, ~Pending(f, j)'
        PROVE  Points(f, j)' = Points(f, j) /\ ~Pending(f, j)
    <3>1. CASE f = op.file /\ j = op.at
      <4>1. CASE Truncating
        BY <1>7, <2>1, <3>1, <4>1, NumbersAre DEF Pointer
      <4>2. CASE ~Truncating
        BY <1>10, <2>1, <3>1, <4>2 DEF Pending, Truncating
      <4> QED
        BY <4>1, <4>2
    <3>2. CASE ~(f = op.file /\ j = op.at)
      BY <1>7, <2>1, <3>2, NumbersAre DEF Pending
    <3> QED
      BY <3>1, <3>2
  <2> QED
    BY <1>1, <1>4, <2>1, ContentStays
<1> QED
  BY <1>10, <1>12, <1>13

\* What a swept indirect block leaves behind: it goes only when nothing is in it,
\* and when it stays there is something among what isBlockZeroed looks at.
LEMMA SweptWhole ==
  ASSUME IInv, dangling' = {}, Shape, Leaves, Content, Sound', AtSweep,
         NEW k \in Spots, k \notin Numbers, SweepsOut(k), Freed, pc = "sweep" => k = Up(op.at),
         pc' # "point", pc' # "sweep", ~Truncating => op' = op /\ (pc' = "data" \/ AtSweep')
  PROVE  /\ \A f \in Files, n \in Numbers : Points(f, n)' = Points(f, n)
         /\ Leaves' /\ Content'
<1> DEFINE b == Points(op.file, k)
<1>1. TypeOK /\ Call /\ Unshared
  BY DEF IInv
<1>2. op.file \in Files /\ op.at \in Numbers /\ Numbers \subseteq Spots
  <2>1. pc # "idle"
    BY DEF AtSweep
  <2> QED
    BY <1>1, <2>1, AtNumber, NumbersAre
<1>3. \/ Keeps /\ marked' = marked /\ ~IsZeroed(table[b])
      \/ marked' = marked \ {b} /\ Puts(node, table, node', table', op.file, k, 0)
  BY DEF SweepsOut
<1>4. \A f \in Files, j \in Spots :
        Points(f, j)' = Points(f, j) \/ (f = op.file /\ j = k /\ Points(f, j)' = 0)
  BY <1>3 DEF Keeps, Puts, Points
<1>5. \A f \in Files, n \in Numbers : Points(f, n)' = Points(f, n)
  BY <1>2, <1>4
<1>6. Leaves'
  <2>1. ASSUME NEW f \in Files, NEW j \in Spots, Points(f, j)' # 0, Filling(f, j)
        PROVE  \E n \in Numbers : ~Own(n) /\ Up(n) = j /\ Points(f, n)' # 0
    <3>1. f = op.file /\ ~Own(op.at) /\ j = k /\ k = Up(op.at)
      BY <2>1 DEF Filling, AtSweep
    <3>2. b # 0 /\ ~IsZeroed(table[b])
      BY <1>3, <1>4, <2>1, <3>1 DEF Puts, Points
    <3> HIDE DEF b
    <3>3. PICK s \in 0..(Looked - 1) : table[b][s] # 0
      BY <3>2 DEF IsZeroed
    <3>4. s \in Slots
      BY Ext2Assumption DEF Slots
    <3>5. PICK n \in Numbers : ~Own(n) /\ Up(n) = k /\ At(n) = s
      BY <1>2, <3>1, <3>4, SlotFilled
    <3>6. Points(op.file, n) = TableAt(table, b)[s]
      BY <1>2, <3>5, Ways DEF Points, b
    <3> QED
      BY <1>5, <3>1, <3>2, <3>3, <3>5, <3>6 DEF TableAt
  <2>2. ASSUME NEW f \in Files, NEW j \in Spots, Points(f, j)' # 0, ~Filling(f, j)
        PROVE  Points(f, j) # 0
    BY <1>4, <2>2
  <2> HIDE DEF b
  <2> QED
    BY <1>5, <2>1, <2>2, LeavesStay
<1>7. Content'
  <2>1. ASSUME NEW f \in Files, NEW n \in Numbers, Points(f, n)' # 0, ~Pending(f, n)'
        PROVE  /\ Points(f, n)' = Points(f, n) /\ ~Pending(f, n)
               /\ data'[Points(f, n)] = data[Points(f, n)]
    <3>1. Points(f, n)' = Points(f, n) /\ n \in Spots
      BY <1>2, <1>5
    <3>2. ~Pending(f, n)
      <4>1. CASE Truncating
        BY <4>1 DEF Pending, AtSweep
      <4>2. CASE ~Truncating
        BY <2>1, <4>2 DEF Pending, AtSweep, Truncating
      <4> QED
        BY <4>1, <4>2
    <3>3. Points(f, n) # b
      BY <1>1, <1>2, <2>1, <3>1, Elsewhere
    <3>4. Points(f, n) \in Blocks
      BY <1>1, <2>1, <3>1, PointsIs
    <3> QED
      BY <1>3, <3>1, <3>2, <3>3, <3>4, DataStays
  <2> QED
    BY <2>1, ContentStays
<1> QED
  BY <1>5, <1>6, <1>7

LEMMA SweepWhole ==
  ASSUME IInv, dangling' = {}, WInv, Sweep
  PROVE  WInv'
<1> SUFFICES ASSUME Sound' PROVE Shape' /\ Leaves' /\ Content' /\ Position'
  BY DEF WInv
<1>1. TypeOK /\ Call /\ pc = "sweep" /\ AtSweep /\ (early => early')
  BY DEF IInv, Sweep, AtPc, AtSweep
<1>2. /\ op.file \in Files /\ op.at \in Numbers /\ op.at \in Nat /\ op.at < Reach /\ op.at \in Spots
      /\ Node \in NodeType /\ Node = node[op.file] /\ Size = Node.size /\ ~Own(op.at)
  BY <1>1, AtIs, AtNumber, NumbersAre DEF Size, Call
<1>3. \A m \in {Node, [Node EXCEPT !.single = 0]} : m \in NodeType /\ m.size = Size
  BY <1>2 DEF NodeType
<1>4. PICK points, p :
        /\ Fault(points, p)
        /\ \/ IsSingle(op.at) /\ (SetDone(Node) \/ SetDone([Node EXCEPT !.single = 0]))
           \/ pc' = "sweep root" /\ UNCHANGED <<node, op>>
  BY SweepGoesOn
<1>5. Sound /\ p = "none"
  BY <1>1, <1>4, WasSound
<1>6. Shape /\ Leaves /\ Content /\ Position
  BY <1>5 DEF WInv
<1>7. Freed
  <2>1. \E s : SetSpace(s)
    BY DEF Sweep
  <2> QED
    BY <2>1, SpaceFreed
<1>8. SweepsOut(Up(op.at)) /\ Up(op.at) \in Spots /\ Up(op.at) \notin Numbers
  <2>1. \A k \in Spots : k >= Reach => k \notin Numbers
    BY NumbersAre, MapShape
  <2> QED
    BY <1>2, <2>1, SweepStep, UpShape
<1>9. CASE \E m \in {Node, [Node EXCEPT !.single = 0]} : SetDone(m)
  <2>1. PICK m \in NodeType : m.size = Size /\ SetDone(m)
    BY <1>3, <1>9
  <2>2. pc' \in {"data", "idle", "find"} /\ (~Truncating => pc' = "data" /\ op' = op)
    <3>1. CASE Truncating
      BY <1>1, <2>1, <3>1, NextBlockIs DEF SetDone
    <3>2. CASE ~Truncating
      BY <2>1, <3>2 DEF SetDone
    <3> QED
      BY <3>1, <3>2
  <2>3. (\A f \in Files, n \in Numbers : Points(f, n)' = Points(f, n)) /\ Leaves' /\ Content'
    BY <1>1, <1>6, <1>7, <1>8, <2>2, SweptWhole
  <2>4. Passes
    BY <1>1, <1>6, <2>3, SweepPasses
  <2> QED
    BY <1>1, <1>6, <2>1, <2>3, <2>4, DoneWhole
<1>10. CASE pc' = "sweep root" /\ UNCHANGED <<node, op>>
  <2>1. AtSweep' /\ pc' # "point" /\ pc' # "sweep" /\ node' = node /\ op' = op
    BY <1>10 DEF AtSweep
  <2>2. (\A f \in Files, n \in Numbers : Points(f, n)' = Points(f, n)) /\ Leaves' /\ Content'
    BY <1>1, <1>6, <1>7, <1>8, <2>1, SweptWhole
  <2>3. Passes
    BY <1>1, <1>6, <2>2, SweepPasses
  <2> QED
    BY <1>1, <1>6, <2>1, <2>2, <2>3, GoesOnWhole
<1> QED
  BY <1>4, <1>5, <1>9, <1>10

LEMMA SweepRootWhole ==
  ASSUME IInv, dangling' = {}, WInv, SweepRoot
  PROVE  WInv'
<1> SUFFICES ASSUME Sound' PROVE Shape' /\ Leaves' /\ Content' /\ Position'
  BY DEF WInv
<1>1. TypeOK /\ Call /\ pc = "sweep root" /\ AtSweep /\ pc # "sweep" /\ (early => early')
  BY DEF IInv, SweepRoot, AtPc, AtSweep
<1>2. pc # "idle"
  BY <1>1
<1>3. /\ op.file \in Files /\ op.at \in Numbers
      /\ Node \in NodeType /\ Node = node[op.file] /\ Size = Node.size
  BY <1>1, <1>2, AtIs, AtNumber DEF Size
<1>4. PICK points, p, m : Fault(points, p) /\ SetDone(m) /\ m \in NodeType /\ m.size = Size
  <2>1. \A m \in {Node, [Node EXCEPT !.double = 0]} : m \in NodeType /\ m.size = Size
    BY <1>3 DEF NodeType
  <2>2. \E points, p : Fault(points, p) /\ (SetDone(Node) \/ SetDone([Node EXCEPT !.double = 0]))
    BY DEF SweepRoot
  <2> QED
    BY <2>1, <2>2
<1>5. Sound
  BY <1>1, <1>4, WasSound
<1>6. Shape /\ Leaves /\ Content /\ Position
  BY <1>5 DEF WInv
<1>7. Freed
  <2>1. \E s : SetSpace(s)
    BY DEF SweepRoot
  <2> QED
    BY <2>1, SpaceFreed
<1>8. SweepsOut(Reach + 1) /\ Reach + 1 \in Spots /\ Reach + 1 \notin Numbers
  BY SweepRootStep, MapShape, NumbersAre
<1>9. /\ pc' # "point" /\ pc' # "sweep"
      /\ ~Truncating => pc' = "data" /\ op' = op
  <2>1. CASE Truncating
    BY <1>1, <1>2, <1>4, <2>1, NextBlockIs DEF SetDone
  <2>2. CASE ~Truncating
    BY <1>4, <2>2 DEF SetDone
  <2> QED
    BY <2>1, <2>2
<1>10. (\A f \in Files, n \in Numbers : Points(f, n)' = Points(f, n)) /\ Leaves' /\ Content'
  BY <1>1, <1>6, <1>7, <1>8, <1>9, SweptWhole
<1>11. Passes
  BY <1>1, <1>6, <1>10, SweepPasses
<1> QED
  BY <1>1, <1>4, <1>6, <1>10, <1>11, DoneWhole

\* The block that could not be put into the map is freed: padding failed because no
\* indirect block could be made, and behind it none can either.
LEMMA UndoWhole ==
  ASSUME IInv, dangling' = {}, WInv, Undo
  PROVE  WInv'
<1> SUFFICES ASSUME Sound' PROVE Shape' /\ Leaves' /\ Content' /\ Position'
  BY DEF WInv
<1>1. /\ TypeOK /\ Counted /\ Call /\ pc = "undo" /\ UNCHANGED <<table, node, early>>
      /\ LoopEnds(op.at) /\ ~Truncating /\ ~AtSweep
  BY DEF IInv, Hand, Undo, AtPc, AtSweep
<1>2. /\ op \in OpType /\ op.file \in Files /\ op.at \in Numbers /\ op.at \in Nat
      /\ op.at \in 0..Reach /\ op.at < op.end /\ op.call \in {"pad", "write"} /\ Size \in Nat
      /\ op.from \in Nat
      /\ op.call = "pad" => op.from < op.until
      /\ Numbers \subseteq Spots
  BY <1>1, AtNumber, NumbersAre DEF OpType, Truncating
<1>3. PICK p : Fault({"bitmap"}, p) /\ SetSpace(IF p = "none" THEN Release(Space, op.block) ELSE Space)
  BY DEF Undo
<1>4. Sound /\ p = "none"
  BY <1>1, <1>3, WasSound
<1>5. Shape /\ Leaves /\ Content /\ Position
  BY <1>4 DEF WInv
<1>6. op.block \in Blocks \ Meta /\ \A f \in Files, k \in Spots : Points(f, k) # op.block
  BY <1>1, HandUnused DEF IInv, Hand
<1>7. Freed /\ marked' = marked \ {op.block}
  <2>1. Release(Space, op.block).marked = marked \ {op.block}
    BY <1>1, <1>6, SpaceSane, ReleaseSane
  <2> QED
    BY <1>3, <1>4, <2>1, SpaceFreed DEF SetSpace
<1>8. Keeps
  BY <1>1, SameKeeps
<1>9. /\ op.call = "pad" => pc' = "find" /\ op'.call = "write" /\ op'.at = op.from
      /\ op.call = "write" => pc' = "idle" /\ op'.call = "write"
      /\ op'.file = op.file
  BY <1>1, <1>2, LoopEndsIs
<1>10. pc' \in {"idle", "find"} /\ ~Truncating' /\ ~AtSweep'
  BY <1>2, <1>9 DEF Truncating, AtSweep
<1>11. Shape'
  <2>1. \A f \in Files : First(f)' = First(f) /\ Past(f)' = Past(f)
    BY <1>1, <1>10 DEF First, Past
  <2> QED
    BY <1>2, <1>5, <1>8, <2>1, ShapeStays DEF Keeps
<1>12. Leaves'
  BY <1>1, <1>2, <1>5, <1>8, LeavesStay DEF Keeps, Filling
<1>13. Content'
  <2>1. ASSUME NEW f \in Files, NEW n \in Numbers, Points(f, n)' # 0
        PROVE  /\ Points(f, n)' = Points(f, n) /\ ~Pending(f, n)
               /\ data'[Points(f, n)] = data[Points(f, n)]
    <3>1. Points(f, n)' = Points(f, n) /\ ~Pending(f, n) /\ n \in Spots
      BY <1>1, <1>2, <1>8 DEF Keeps, Pending
    <3>2. Points(f, n) \in Blocks /\ Points(f, n) # op.block
      BY <1>1, <1>6, <2>1, <3>1, PointsIs
    <3> QED
      BY <1>7, <3>1, <3>2, DataStays
  <2> QED
    BY <1>5, <2>1, ContentStays
<1>14. Position'
  <2>1. Size' = Size
    BY <1>1, <1>9 DEF Size
  <2>2. CASE op.call = "write"
    <3>1. pc' = "idle"
      BY <1>9, <2>2
    <3> QED
      BY <3>1 DEF Position
  <2>3. CASE op.call = "pad"
    <3>1. op.end = op.from /\ Size = op.at /\ marked = Blocks /\ NoLeaf(op.at)
      BY <1>1, <1>5, <2>3 DEF Position
    <3>2. op.from \in Numbers /\ ~Own(op.from) /\ op.at < op.from
      <4>1. op.from < Reach
        BY <1>2, <2>3, MapShape DEF OpType
      <4>2. op.from \in Numbers /\ op.at < op.from
        BY <1>2, <3>1, <4>1, NumbersAre
      <4>3. ~IsDirect(op.at)
        BY <1>2, <3>1, NumbersAre DEF NoLeaf
      <4>4. ~IsDirect(op.from)
        BY <1>2, <4>2, <4>3, MapShape DEF IsDirect
      <4> QED
        BY <4>2, <4>4, NumbersAre
    <3>3. NoLeaf(op.from)
      <4>1. SUFFICES ASSUME Points(op.file, Up(op.from)) # 0 PROVE FALSE
        BY <3>2 DEF NoLeaf
      <4>2. Up(op.from) \in Spots /\ Leads(Up(op.from))
        <5>1. op.from \in Spots /\ op.from < Reach
          BY <1>2, <3>2, NumbersAre
        <5>2. op.from \in Nat /\ ~IsDirect(op.from)
          BY <1>2, <3>2, NumbersAre
        <5>3. /\ IsSingle(op.from) => Up(op.from) = Reach
              /\ ~IsSingle(op.from) => SlotInRoot(op.from) \in Slots
                                       /\ Up(op.from) = Reach + 2 + SlotInRoot(op.from)
          BY <1>2, <5>1, <5>2, LeafIs
        <5>4. Up(op.from) \in Spots
          BY <3>2, <5>1, UpShape
        <5>5. \A s \in Slots : Reach + 2 + s > Reach + 1
          BY MapShape
        <5> QED
          BY <5>3, <5>4, <5>5 DEF Leads
      <4>3. ~Filling(op.file, Up(op.from))
        BY <1>1 DEF Filling
      <4>4. PICK n \in Numbers : ~Own(n) /\ Up(n) = Up(op.from) /\ Points(op.file, n) # 0
        BY <1>2, <1>5, <4>1, <4>2, <4>3 DEF Leaves
      <4>5. n < op.at
        <5>1. Past(op.file) = Size
          BY <1>1 DEF Past, Size
        <5> QED
          BY <1>2, <1>5, <3>1, <4>4, <5>1 DEF Shape
      <4>6. Up(op.at) = Up(op.from)
        BY <1>2, <3>2, <4>4, <4>5, Between
      <4> QED
        BY <3>1, <4>1, <4>6 DEF NoLeaf
    <3>4. NoLeaf(op.at)'
      <4>1. Up(op.from) \in Spots
        BY <1>2, <3>2, UpShape
      <4> QED
        BY <1>2, <1>8, <1>9, <2>3, <3>3, <4>1 DEF NoLeaf, Keeps
    <3>5. Blocks \ {op.block} \subseteq marked'
      BY <1>7, <3>1
    <3> QED
      BY <1>6, <1>9, <1>10, <2>3, <3>4, <3>5 DEF Position
  <2> QED
    BY <1>2, <2>2, <2>3
<1> QED
  BY <1>11, <1>12, <1>13, <1>14

\* What is written is the file's; the file reached that far already.
LEMMA WriteDataWhole ==
  ASSUME IInv, dangling' = {}, KInv, WInv, WriteData
  PROVE  WInv'
<1> SUFFICES ASSUME Sound' PROVE Shape' /\ Leaves' /\ Content' /\ Position'
  BY DEF WInv
<1>1. /\ TypeOK /\ Call /\ Unshared /\ pc = "data" /\ ~Truncating /\ op.block # 0
      /\ UNCHANGED <<table, marked, early>> /\ ~AtSweep
  BY DEF IInv, Hand, WriteData, AtPc, AtSweep
<1>2. /\ op \in OpType /\ op.file \in Files /\ op.at \in Numbers /\ op.at \in Nat /\ File = op.file
      /\ op.call \in {"pad", "write"} /\ Size \in Nat /\ Numbers \subseteq Spots
      /\ node \in [Files -> NodeType] /\ op.from \in Nat
  BY <1>1, AtIs, AtNumber, NumbersAre DEF Truncating
<1>3. PICK p : Fault({"data"}, p) /\
        IF p = "data" THEN Fails
        ELSE /\ data' = [data EXCEPT ![op.block] = Written]
             /\ node' = [node EXCEPT ![File].size = Max({@, op.at + 1})]
             /\ NextBlock
  BY DEF WriteData
<1>4. Sound /\ p = "none" /\ ~early
  BY <1>1, <1>3, WasSound
<1>5. Shape /\ Leaves /\ Content /\ Position
  BY <1>4 DEF WInv
<1>6. op.at < Size /\ (op.call = "pad" => Size = op.at + 1 /\ op.end = op.from)
  BY <1>1, <1>5 DEF Position
<1>7. /\ data' = [data EXCEPT ![op.block] = Written] /\ NextBlock
      /\ node' = [node EXCEPT ![op.file].size = Max({@, op.at + 1})]
  BY <1>2, <1>3, <1>4
<1>8. Keeps /\ \A f \in Files : node'[f].size = node[f].size
  <2>1. Max({Size, op.at + 1}) = Size
    BY <1>2, <1>6, GreatestOfTwo
  <2>2. /\ \A f \in Files : /\ node'[f].direct = node[f].direct
                            /\ node'[f].single = node[f].single
                            /\ node'[f].double = node[f].double
        /\ \A f \in Files : f # op.file => node'[f] = node[f]
        /\ node'[op.file].size = Max({Size, op.at + 1})
    BY <1>2, <1>7 DEF NodeType, Size
  <2> QED
    BY <1>1, <2>1, <2>2, FieldsKeep DEF Size
<1>9. /\ op.at + 1 = op.end =>
           /\ op.call = "pad" => pc' = "find" /\ op'.call = "write" /\ op'.at = op.from
           /\ op.call = "write" => pc' = "idle" /\ op'.call = "write"
      /\ op.at + 1 # op.end =>
           /\ pc' = "find" /\ op'.call = op.call /\ op'.at = op.at + 1
           /\ op'.end = op.end /\ op'.from = op.from
      /\ op'.file = op.file /\ pc' \in {"idle", "find"}
  BY <1>1, <1>2, <1>7, NextBlockIs
<1>10. ~Truncating' /\ ~AtSweep' /\ Size' = Size
  <2>1. op'.call # "truncate" /\ pc' \in {"idle", "find"}
    BY <1>2, <1>9
  <2> QED
    BY <1>2, <1>8, <1>9, <2>1 DEF Truncating, AtSweep, Size
<1>11. Shape'
  <2>1. \A f \in Files : First(f)' = First(f) /\ Past(f)' = Past(f)
    BY <1>1, <1>8, <1>10 DEF First, Past
  <2> QED
    BY <1>2, <1>5, <1>8, <2>1, ShapeStays DEF Keeps
<1>12. Leaves'
  BY <1>1, <1>2, <1>5, <1>8, LeavesStay DEF Keeps, Filling
<1>13. Content'
  <2>1. Points(op.file, op.at) = op.block
    BY <1>1, <1>4 DEF KInv, InPlace
  <2>2. data \in DataType /\ op.block \in Blocks /\ Written \in {op.file, Zero}
    BY <1>1, <1>2, TypeOKParts DEF OpType, Written
  <2>3. data'[op.block] \in {op.file, Zero} /\ \A b \in Blocks : b # op.block => data'[b] = data[b]
    BY <1>7, <2>2 DEF DataType
  <2>4. ASSUME NEW f \in Files, NEW n \in Numbers, Points(f, n)' # 0, ~(f = op.file /\ n = op.at)
        PROVE  /\ Points(f, n)' = Points(f, n) /\ ~Pending(f, n)
               /\ data'[Points(f, n)] = data[Points(f, n)]
    <3>1. Points(f, n)' = Points(f, n) /\ n \in Spots
      BY <1>2, <1>8 DEF Keeps
    <3>2. ~Pending(f, n)
      BY <2>4 DEF Pending
    <3>3. Points(f, n) # op.block
      BY <1>1, <1>2, <2>1, <2>4, <3>1, Elsewhere
    <3>4. Points(f, n) \in Blocks
      BY <1>1, <2>4, <3>1, PointsIs
    <3> QED
      BY <2>3, <3>1, <3>2, <3>3, <3>4
  <2>5. \A f \in Files, n \in Numbers : f = op.file /\ n = op.at => Points(f, n)' = op.block
    BY <1>2, <1>8, <2>1 DEF Keeps
  <2>6. ASSUME NEW f \in Files, NEW n \in Numbers, Points(f, n)' # 0
        PROVE  \/ /\ Points(f, n)' = Points(f, n) /\ ~Pending(f, n)
                  /\ data'[Points(f, n)] = data[Points(f, n)]
               \/ \E b : Points(f, n)' = b /\ data'[b] \in {f, Zero}
    <3>1. CASE f = op.file /\ n = op.at
      BY <2>3, <2>5, <3>1
    <3>2. CASE ~(f = op.file /\ n = op.at)
      BY <2>4, <2>6, <3>2
    <3> QED
      BY <3>1, <3>2
  <2> QED
    BY <1>5, <2>6, ContentStays
<1>14. Position'
  <2>1. op.at + 1 <= Size
    BY <1>2, <1>6
  <2>2. CASE pc' = "idle"
    BY <2>2 DEF Position
  <2>3. CASE op.call = "pad" /\ op.at + 1 = op.end
    <3>1. pc' = "find" /\ op'.call = "write" /\ op'.at = Size' /\ ~Starving'
      BY <1>2, <1>6, <1>9, <1>10, <2>3 DEF Starving
    <3> QED
      BY <1>10, <3>1 DEF Position
  <2>4. CASE op.at + 1 # op.end
    <3>1. /\ pc' = "find" /\ op'.call = op.call /\ op'.at = op.at + 1 /\ op'.end = op.end
          /\ op'.from = op.from /\ ~Starving'
      BY <1>2, <1>9, <1>10, <2>1, <2>4 DEF Starving
    <3> QED
      BY <1>6, <1>10, <3>1 DEF Position
  <2> QED
    BY <1>2, <1>9, <2>2, <2>3, <2>4
<1> QED
  BY <1>11, <1>12, <1>13, <1>14

LEMMA StutterWhole ==
  ASSUME WInv, UNCHANGED vars
  PROVE  WInv'
<1>1. UNCHANGED <<marked, table, data, node, pc, op, faults, early>>
  BY DEF vars
<1>2. \A f, k : Points(f, k)' = Points(f, k)
  BY <1>1 DEF Points
<1>3. (Sound' <=> Sound) /\ (AtSweep' <=> AtSweep) /\ (Truncating' <=> Truncating)
      /\ Size' = Size /\ (Starving' <=> Starving)
  BY <1>1 DEF Sound, AtSweep, Truncating, Size, Starving
<1>4. (\A f : First(f)' = First(f) /\ Past(f)' = Past(f))
      /\ (\A f, k : Filling(f, k)' <=> Filling(f, k)) /\ (\A f, n : Pending(f, n)' <=> Pending(f, n))
  BY <1>1, <1>3 DEF First, Past, Active, Filling, Pending
<1>5. NoLeaf(op.at)' <=> NoLeaf(op.at)
  BY <1>1, <1>2 DEF NoLeaf
<1>6. Shape => Shape'
  BY <1>2, <1>4 DEF Shape
<1>7. Leaves => Leaves'
  BY <1>2, <1>4 DEF Leaves
<1>8. Content => Content'
  BY <1>1, <1>2, <1>4 DEF Content
<1>9. Position => Position'
  BY <1>1, <1>3, <1>5 DEF Position
<1> QED
  BY <1>3, <1>6, <1>7, <1>8, <1>9 DEF WInv

LEMMA NextWhole ==
  ASSUME IInv, dangling' = {}, KInv, WInv, Next
  PROVE  WInv'
<1>1. CASE \E f \in Files, position \in Starts, length \in 1..MaxLength :
             Write(f, position, length)
  BY <1>1, WriteWhole, StartsWithin
<1>2. CASE \E f \in Files : Truncate(f)
  BY <1>2, TruncateWhole
<1>3. CASE Find
  BY <1>3, FindWhole
<1>4. CASE FreeBlock
  BY <1>4, FreeBlockWhole
<1>5. CASE AllocBlock
  BY <1>5, AllocBlockWhole
<1>6. CASE MakeRoot
  BY <1>6, MakeRootWhole
<1>7. CASE MakeLeaf
  BY <1>7, MakeLeafWhole
<1>8. CASE WritePointer
  BY <1>8, WritePointerWhole
<1>9. CASE Sweep
  BY <1>9, SweepWhole
<1>10. CASE SweepRoot
  BY <1>10, SweepRootWhole
<1>11. CASE Undo
  BY <1>11, UndoWhole
<1>12. CASE WriteData
  BY <1>12, WriteDataWhole
<1> QED
  BY <1>1, <1>2, <1>3, <1>4, <1>5, <1>6, <1>7, <1>8, <1>9, <1>10, <1>11, <1>12 DEF Next

\* Between calls of write and Resize, when all accesses succeed and isBlockZeroed
\* freed no indirect block with pointers in it, a file has a block for each of its
\* size and no more, and in it what was written to the file, or zeros: also when the
\* volume was full in the middle of padding, or of making an indirect block.
THEOREM FilesWhole == Spec => []FilesAreWhole
<1> DEFINE J == dangling = {} => KInv /\ WInv
<1>1. Init => Inv /\ J
  BY InvInit, InitKept, InitWhole
<1>2. Inv /\ J /\ [Next]_vars => (Inv /\ J)'
  <2> SUFFICES ASSUME Inv, J, [Next]_vars PROVE Inv' /\ J'
    OBVIOUS
  <2>1. Inv' /\ (dangling' = {} => dangling = {})
    BY InvNext
  <2>2. ASSUME dangling' = {} PROVE KInv' /\ WInv'
    <3>1. IInv /\ KInv /\ WInv
      BY <2>1, <2>2 DEF Inv
    <3> QED
      BY <2>2, <3>1, NextKept, NextWhole, StutterKept, StutterWhole
  <2> QED
    BY <2>1, <2>2
<1>3. Inv /\ J => FilesAreWhole
  <2> SUFFICES ASSUME IInv, WInv, Sound, pc = "idle"
               PROVE  /\ \A f \in Files, n \in 0..(Reach - 1) : Mapped(f, n) # 0 <=> n < node[f].size
                      /\ \A f \in Files : \A n \in 0..(node[f].size - 1) :
                           Mapped(f, n) # 0 => data[Mapped(f, n)] \in {f, Zero}
    BY InvSound DEF Inv, FilesAreWhole, NoHoles, ContentIsOwn
  <2>1. Shape /\ Content
    BY DEF WInv
  <2>2. ASSUME NEW f \in Files
        PROVE  First(f) = 0 /\ Past(f) = node[f].size /\ node[f].size \in Nat /\ node[f].size <= Reach
    <3>1. node[f] \in NodeType
      BY TypeOKParts DEF IInv, MapType
    <3> QED
      BY <3>1, MapShape DEF First, Past, Active, NodeType
  <2>3. ASSUME NEW f \in Files, NEW n \in Nat, n < Reach
        PROVE  /\ Mapped(f, n) # 0 <=> n < node[f].size
               /\ Mapped(f, n) # 0 => data[Mapped(f, n)] \in {f, Zero}
    <3>1. Mapped(f, n) = Points(f, n) /\ n \in Numbers
      BY <2>3, MappedIs, NumbersAre
    <3>2. Points(f, n) # 0 <=> 0 <= n /\ n < node[f].size
      BY <2>1, <2>2, <3>1 DEF Shape
    <3>3. ~Pending(f, n)
      BY DEF Pending
    <3> QED
      BY <2>1, <2>3, <3>1, <3>2, <3>3 DEF Content
  <2>4. \A n \in 0..(Reach - 1) : n \in Nat /\ n < Reach
    BY MapShape
  <2>5. \A f \in Files : \A n \in 0..(node[f].size - 1) : n \in Nat /\ n < Reach
    BY <2>2, MapShape
  <2> QED
    BY <2>3, <2>4, <2>5
<1> QED
  BY <1>1, <1>2, <1>3, PTL DEF Spec

=============================================================================
