------------------------- MODULE FileSystem_proofs -------------------------
(***************************************************************************)
(* Open files are sound for any tree, any number of threads, descriptors   *)
(* and Files, and any set of names.                                        *)
(*                                                                         *)
(* The invariant says who holds which lock (Locking), whose each File is   *)
(* (Owned), where the processes are (Placed), that nobody closes what a    *)
(* polite program is using (UsedPolitely), and how the cache stands        *)
(* (Books): it is balanced, every entry having as many references as there *)
(* are pointers to it and walks that leaked one, and no change was dropped *)
(* that was not noted as late.                                             *)
(*                                                                         *)
(* The operators on the cache are taken one by one.  CacheOK, which holds  *)
(* in every state, and Sound, which holds until the shutdown, are shown to *)
(* survive each of them; where Sound needs a pointer, the lemma says how   *)
(* the pointers from outside must move with the count.  Putting an entry   *)
(* frees the part of its path on which every count is one (Climb), and     *)
(* that this is a path, no node twice, is what the assumption on the tree  *)
(* is for.                                                                 *)
(***************************************************************************)
EXTENDS FileSystem, FiniteSetTheorems, WellFoundedInduction, TLAPS

-----------------------------------------------------------------------------
(* The tree.                                                               *)

LEMMA TreeInduction ==
  ASSUME NEW S \in SUBSET Nodes, Root \in S, \A n \in Nodes \ {Root} : Parent[n] \in S => n \in S
  PROVE  S = Nodes
<1>1. CASE Nodes \ S = {}
  BY <1>1
<1>2. CASE Nodes \ S # {}
  <2>1. Nodes \ S \in SUBSET (Nodes \ {Root})
    OBVIOUS
  <2>2. PICK n \in Nodes \ S : Parent[n] \notin Nodes \ S
    BY <1>2, <2>1, EntryCacheAssumption
  <2>3. Parent[n] \in Nodes
    BY <2>2, EntryCacheAssumption
  <2> QED BY <2>2, <2>3
<1> QED BY <1>1, <1>2

IsPath(n, p) ==
  /\ p \in Seq(Nodes) /\ Len(p) >= 1 /\ p[1] = n /\ p[Len(p)] = Root
  /\ \A k \in 1..Len(p) - 1 : p[k] # Root /\ p[k + 1] = Parent[p[k]]

LEMMA RootPath == \A p : IsPath(Root, p) <=> p = <<Root>>
<1>0. Root \in Nodes
  BY EntryCacheAssumption
<1>1. IsPath(Root, <<Root>>)
  BY <1>0 DEF IsPath
<1>2. ASSUME NEW p, IsPath(Root, p) PROVE p = <<Root>>
  <2>0. Len(p) \in Nat /\ Len(p) >= 1 /\ p[1] = Root
    BY <1>2 DEF IsPath
  <2>1. \A k \in 1..Len(p) - 1 : p[k] # Root
    BY <1>2 DEF IsPath
  <2>2. 1 \notin 1..Len(p) - 1
    BY <2>0, <2>1
  <2>3. Len(p) = 1
    BY <2>0, <2>2
  <2> QED BY <1>2, <2>3 DEF IsPath
<1> QED BY <1>1, <1>2

LEMMA LongerPath ==
  ASSUME NEW n \in Nodes \ {Root}, NEW p, IsPath(Parent[n], p)
  PROVE  IsPath(n, <<n>> \o p)
<1>1. p \in Seq(Nodes) /\ Len(p) \in Nat /\ Len(p) >= 1
  BY DEF IsPath
<1> DEFINE q == <<n>> \o p
<1>2. q \in Seq(Nodes) /\ Len(q) = Len(p) + 1 /\ q[1] = n
      /\ \A k \in 1..Len(p) : q[k + 1] = p[k]
  BY <1>1
<1>3. q[Len(q)] = Root
  BY <1>1, <1>2 DEF IsPath
<1>4. ASSUME NEW k \in 1..Len(q) - 1 PROVE q[k] # Root /\ q[k + 1] = Parent[q[k]]
  <2>1. CASE k = 1
    BY <1>1, <1>2, <2>1 DEF IsPath
  <2>2. CASE k # 1
    <3>1. k - 1 \in 1..Len(p) - 1 /\ q[k] = p[k - 1] /\ q[k + 1] = p[k]
      <4>1. k - 1 \in 1..Len(p) /\ k \in 1..Len(p)
        BY <1>1, <1>2, <2>2
      <4>2. q[(k - 1) + 1] = p[k - 1] /\ q[k + 1] = p[k]
        BY <1>2, <4>1
      <4> QED BY <1>1, <1>2, <2>2, <4>2
    <3> QED BY <3>1 DEF IsPath
  <2> QED BY <2>1, <2>2
<1> QED BY <1>1, <1>2, <1>3, <1>4 DEF IsPath

LEMMA ShorterPath ==
  ASSUME NEW n \in Nodes \ {Root}, NEW q, IsPath(n, q)
  PROVE  IsPath(Parent[n], Tail(q)) /\ q = <<n>> \o Tail(q)
<1>1. q \in Seq(Nodes) /\ Len(q) \in Nat /\ Len(q) >= 2
  BY DEF IsPath
<1> DEFINE p == Tail(q)
<1>2. p \in Seq(Nodes) /\ Len(p) = Len(q) - 1 /\ \A k \in 1..Len(p) : p[k] = q[k + 1]
  BY <1>1
<1>3. q = <<n>> \o p
  BY <1>1, <1>2 DEF IsPath
<1>4. p[1] = Parent[n] /\ p[Len(p)] = Root
  BY <1>1, <1>2 DEF IsPath
<1>5. ASSUME NEW k \in 1..Len(p) - 1 PROVE p[k] # Root /\ p[k + 1] = Parent[p[k]]
  <2>1. k + 1 \in 1..Len(q) - 1 /\ p[k] = q[k + 1] /\ p[k + 1] = q[(k + 1) + 1]
    BY <1>1, <1>2
  <2> QED BY <2>1 DEF IsPath
<1> QED BY <1>1, <1>2, <1>3, <1>4, <1>5 DEF IsPath

LEMMA PathsExist == \A n \in Nodes : \E p : IsPath(n, p)
<1> DEFINE S == {n \in Nodes : \E p : IsPath(n, p)}
<1>1. Root \in S
  BY RootPath, EntryCacheAssumption
<1>2. \A n \in Nodes \ {Root} : Parent[n] \in S => n \in S
  BY LongerPath
<1>3. S \in SUBSET Nodes
  OBVIOUS
<1> HIDE DEF S
<1>4. S = Nodes
  BY <1>1, <1>2, <1>3, TreeInduction
<1> QED BY <1>4 DEF S

LEMMA PathsUnique == \A n \in Nodes : \A p, q : IsPath(n, p) /\ IsPath(n, q) => p = q
<1> DEFINE S == {n \in Nodes : \A p, q : IsPath(n, p) /\ IsPath(n, q) => p = q}
<1>1. Root \in S
  BY RootPath, EntryCacheAssumption
<1>2. ASSUME NEW n \in Nodes \ {Root}, Parent[n] \in S PROVE n \in S
  <2>1. ASSUME NEW p, NEW q, IsPath(n, p), IsPath(n, q) PROVE p = q
    <3>0. IsPath(Parent[n], Tail(p)) /\ IsPath(Parent[n], Tail(q))
      BY <2>1, ShorterPath
    <3>1. \A a, b : IsPath(Parent[n], a) /\ IsPath(Parent[n], b) => a = b
      BY <1>2
    <3>2. Tail(p) = Tail(q)
      BY <3>0, <3>1
    <3>3. p = <<n>> \o Tail(p) /\ q = <<n>> \o Tail(q)
      BY <2>1, ShorterPath
    <3> QED BY <3>2, <3>3
  <2> QED BY <2>1
<1>3. S \in SUBSET Nodes
  OBVIOUS
<1> HIDE DEF S
<1>4. S = Nodes
  BY <1>1, <1>2, <1>3, TreeInduction
<1> QED BY <1>4 DEF S

LEMMA PathUpIsPath == \A n \in Nodes : IsPath(n, PathUp[n])
<1> DEFINE F == [n \in Nodes |-> CHOOSE p : IsPath(n, p)]
           Up(f) == [n \in Nodes |-> IF n = Root THEN <<Root>> ELSE <<n>> \o f[Parent[n]]]
<1>1. \A n \in Nodes : IsPath(n, F[n])
  BY PathsExist
<1>2. ASSUME NEW n \in Nodes PROVE F[n] = IF n = Root THEN <<Root>> ELSE <<n>> \o F[Parent[n]]
  <2>1. CASE n = Root
    BY <1>1, <2>1, RootPath
  <2>2. CASE n # Root
    <3>1. Parent[n] \in Nodes
      BY <2>2, EntryCacheAssumption
    <3>2. IsPath(n, <<n>> \o F[Parent[n]])
      BY <1>1, <2>2, <3>1, LongerPath
    <3> QED BY <1>1, <2>2, <3>2, PathsUnique
  <2> QED BY <2>1, <2>2
<1>3. F = Up(F)
  BY <1>2
<1>4. PathUp = CHOOSE f : f = Up(f)
  BY DEF PathUp
<1> HIDE DEF F
<1>5. PathUp = Up(PathUp)
  BY <1>3, <1>4
<1>6. \A n \in Nodes : PathUp[n] = IF n = Root THEN <<Root>> ELSE <<n>> \o PathUp[Parent[n]]
  BY <1>5
<1> DEFINE S == {n \in Nodes : IsPath(n, PathUp[n])}
<1>7. Root \in S
  BY <1>6, RootPath, EntryCacheAssumption
<1>8. ASSUME NEW n \in Nodes \ {Root}, Parent[n] \in S PROVE n \in S
  BY <1>6, <1>8, LongerPath
<1>9. S \in SUBSET Nodes
  OBVIOUS
<1> HIDE DEF S
<1>10. S = Nodes
  BY <1>7, <1>8, <1>9, TreeInduction
<1> QED BY <1>10 DEF S

\* the way up never comes back
LEMMA PathDistinct ==
  ASSUME NEW n \in Nodes, NEW p, IsPath(n, p), NEW j \in 1..Len(p), NEW k \in 1..Len(p), j < k
  PROVE  p[j] # p[k]
<1> SUFFICES ASSUME p[j] = p[k] PROVE FALSE
  OBVIOUS
<1>0. Len(p) \in Nat /\ p \in Seq(Nodes)
  BY DEF IsPath
<1> DEFINE S == {p[i] : i \in j..k - 1}
<1>1. S \in SUBSET (Nodes \ {Root})
  BY <1>0 DEF IsPath
<1>2. S # {}
  <2>1. j \in j..k - 1
    BY <1>0
  <2> QED BY <2>1
<1>3. ASSUME NEW i \in j..k - 1 PROVE Parent[p[i]] \in S
  <2>1. Parent[p[i]] = p[i + 1]
    BY <1>0 DEF IsPath
  <2>2. CASE i = k - 1
    <3>1. p[i + 1] = p[j] /\ j \in j..k - 1
      BY <1>0, <2>2
    <3> QED BY <2>1, <3>1
  <2>3. CASE i # k - 1
    <3>1. i + 1 \in j..k - 1
      BY <1>0, <2>3
    <3> QED BY <2>1, <3>1
  <2> QED BY <2>2, <2>3
<1>4. \A m \in S : Parent[m] \in S
  BY <1>3
<1> HIDE DEF S
<1> QED BY <1>1, <1>2, <1>4, EntryCacheAssumption

\* Going up from n: the entries whose only reference is the one put, in order,
\* and the one above them.
Climb(c, n, dead, kept) ==
  /\ dead \subseteq Nodes /\ kept \subseteq Nodes \ dead /\ n \in dead \cup kept
  /\ \A m \in dead : c.refs[m] = 1
  /\ \A m \in kept : c.refs[m] # 1
  /\ \A l, m \in kept : l = m
  /\ n \in kept => dead = {}
  /\ \A m \in (dead \cup kept) \ {n} : \E d \in dead \ {Root} : Parent[d] = m
  /\ \A d \in dead \ {Root} : Parent[d] \in (dead \cup kept) \ {n}
  /\ \A d, b \in dead \ {Root} : Parent[d] = Parent[b] => d = b

RefsAfter(c, dead, kept) ==
  [m \in Nodes |-> IF m \in dead THEN 0 ELSE IF m \in kept THEN c.refs[m] - 1 ELSE c.refs[m]]

PutClimbed(c, dead, kept) ==
  IF c.freed \/ \E m \in kept : ~Cached(c, m) THEN [c EXCEPT !.freed = TRUE]
  ELSE PutINodes([c EXCEPT !.refs = RefsAfter(c, dead, kept), !.blank = @ \ dead],
                 {INodeOf[m] : m \in dead \ c.blank})

LEMMA LeastNatural ==
  ASSUME NEW S \in SUBSET Nat, S # {}
  PROVE  \E m \in S : \A n \in S : m <= n
<1> DEFINE R == StrictSubsetOrdering(Nat)
           I == {0..n : n \in S}
<1>1. IsWellFoundedOn(R, FiniteSubsetsOf(Nat))
  BY FS_StrictSubsetOrderingWellFounded
<1>2. I \subseteq FiniteSubsetsOf(Nat) /\ I # {}
  <2>1. ASSUME NEW n \in S
        PROVE  0..n \in FiniteSubsetsOf(Nat)
    <3>1. n \in Int /\ 0 \in Int /\ 0..n \in SUBSET Nat
      OBVIOUS
    <3>2. IsFiniteSet(0..n)
      BY <3>1, FS_Interval
    <3> QED
      BY <3>1, <3>2 DEF FiniteSubsetsOf
  <2> QED
    BY <2>1
<1>3. PICK T \in I : \A U \in I : <<U, T>> \notin R
  <2> HIDE DEF R, I
  <2> QED
    BY <1>1, <1>2, WFMin
<1>4. PICK m \in S : T = 0..m
  OBVIOUS
<1>5. ASSUME NEW n \in S
      PROVE  m <= n
  <2>1. <<0..n, 0..m>> \notin R
    BY <1>3, <1>4
  <2>2. CASE n < m
    <3>1. m \in 0..m /\ m \notin 0..n /\ 0..n \subseteq 0..m
      BY <2>2
    <3> QED
      BY <2>1, <3>1 DEF StrictSubsetOrdering
  <2> QED
    BY <2>2
<1> QED
  BY <1>5

LEMMA PrefixOf ==
  ASSUME NEW L \in Nat, NEW Good
  PROVE  \E g \in 0..L : /\ {k \in 1..L : \A j \in 1..k : j \in Good} = 1..g
                         /\ g < L => g + 1 \notin Good
<1> DEFINE S == {k \in 1..L : k \notin Good}
<1>1. CASE S = {}
  <2>1. {k \in 1..L : \A j \in 1..k : j \in Good} = 1..L
    BY <1>1
  <2> QED BY <2>1
<1>2. CASE S # {}
  <2>1. S \in SUBSET Nat
    OBVIOUS
  <2>2. PICK n \in S : \A m \in S : n <= m
    BY <1>2, <2>1, LeastNatural
  <2>3. n - 1 \in 0..L /\ (n - 1) + 1 = n /\ n \in 1..L /\ n \notin Good
    BY <2>2
  <2>4. ASSUME NEW k \in 1..L PROVE (\A j \in 1..k : j \in Good) <=> k \in 1..n - 1
    <3>1. CASE k >= n
      <4>1. n \in 1..k
        BY <2>3, <3>1
      <4>2. k \notin 1..n - 1
        BY <2>3, <3>1
      <4> QED BY <2>3, <4>1, <4>2
    <3>2. CASE k < n
      <4>1. ASSUME NEW j \in 1..k PROVE j \in Good
        <5>1. j \in 1..L /\ ~(n <= j)
          BY <2>3, <3>2
        <5> QED BY <2>2, <5>1
      <4>2. k \in 1..n - 1
        BY <2>3, <3>2
      <4> QED BY <4>1, <4>2
    <3> QED BY <2>3, <3>1, <3>2
  <2>5. {k \in 1..L : \A j \in 1..k : j \in Good} = 1..n - 1
    <3>1. 1..n - 1 \subseteq 1..L
      BY <2>3
    <3> HIDE DEF S
    <3> QED BY <2>4, <3>1
  <2> QED BY <2>3, <2>5
<1> QED BY <1>1, <1>2

LEMMA ClimbOf ==
  ASSUME NEW c, NEW n \in Nodes
  PROVE  \E dead, kept : Climb(c, n, dead, kept) /\ PutDEntry(c, n) = PutClimbed(c, dead, kept)
<1> DEFINE p == PathUp[n]
           L == Len(p)
           Good == {k \in 1..L : c.refs[p[k]] = 1}
           gone == {k \in DOMAIN p : \A j \in 1..k : c.refs[p[j]] = 1}
<1>1. IsPath(n, p)
  BY PathUpIsPath
<1>2. p \in Seq(Nodes) /\ L \in Nat /\ L >= 1 /\ DOMAIN p = 1..L /\ p[1] = n /\ p[L] = Root
  BY <1>1 DEF IsPath
<1>3. \A k \in 1..L - 1 : p[k] # Root /\ p[k + 1] = Parent[p[k]]
  BY <1>1 DEF IsPath
<1>4. \A j, k \in 1..L : p[j] = p[k] => j = k
  <2>1. ASSUME NEW j \in 1..L, NEW k \in 1..L, j # k PROVE p[j] # p[k]
    <3>1. CASE j < k
      BY <1>1, <3>1, PathDistinct
    <3>2. CASE k < j
      BY <1>1, <3>2, PathDistinct
    <3> QED BY <1>2, <2>1, <3>1, <3>2
  <2> QED BY <2>1
<1> HIDE DEF p, L
<1>5. PICK g \in 0..L : /\ {k \in 1..L : \A j \in 1..k : j \in Good} = 1..g
                        /\ g < L => g + 1 \notin Good
  BY <1>2, PrefixOf
<1>6. gone = 1..g /\ (\A k \in 1..g : c.refs[p[k]] = 1) /\ (g < L => c.refs[p[g + 1]] # 1)
  <2>1. ASSUME NEW k \in 1..L
        PROVE (\A j \in 1..k : c.refs[p[j]] = 1) <=> (\A j \in 1..k : j \in Good)
    BY <1>2
  <2>2. gone = {k \in 1..L : \A j \in 1..k : j \in Good}
    BY <1>2, <2>1
  <2>3. \A k \in 1..g : c.refs[p[k]] = 1
    <3>1. ASSUME NEW k \in 1..g PROVE c.refs[p[k]] = 1
      <4>1. k \in gone /\ k \in 1..k
        BY <1>5, <2>2
      <4> QED BY <4>1
    <3> QED BY <3>1
  <2>4. g < L => c.refs[p[g + 1]] # 1
    BY <1>2, <1>5
  <2> QED BY <1>5, <2>2, <2>3, <2>4
<1>7. Cardinality(gone) = g
  <2>1. Cardinality(1..g) = g
    BY FS_Interval
  <2> QED BY <1>6, <2>1
<1> DEFINE dead == {p[k] : k \in gone}
           kept == {p[k] : k \in {Cardinality(gone) + 1} \cap DOMAIN p}
<1>8. PutDEntry(c, n) = PutClimbed(c, dead, kept)
  BY Zenon DEF PutDEntry, PutClimbed, RefsAfter, p
<1>9. dead = {p[k] : k \in 1..g}
  BY <1>6
<1>10. kept = IF g < L THEN {p[g + 1]} ELSE {}
  <2>1. kept = {p[k] : k \in {g + 1} \cap 1..L}
    BY <1>2, <1>7
  <2>2. {g + 1} \cap 1..L = IF g < L THEN {g + 1} ELSE {}
    BY <1>2
  <2> QED BY <2>1, <2>2
<1> HIDE DEF gone, dead, kept, Good
<1>11. dead \subseteq Nodes /\ kept \subseteq Nodes
  BY <1>2, <1>9, <1>10
<1>12. kept \cap dead = {}
  BY <1>2, <1>4, <1>9, <1>10
<1>13. n \in dead \cup kept
  <2>1. CASE g = 0
    BY <1>2, <1>10, <2>1
  <2>2. CASE g # 0
    <3>1. 1 \in 1..g
      BY <2>2
    <3> QED BY <1>2, <1>9, <3>1
  <2> QED BY <2>1, <2>2
<1>14. (\A m \in dead : c.refs[m] = 1) /\ (\A m \in kept : c.refs[m] # 1) /\ (\A l, m \in kept : l = m)
  BY <1>6, <1>9, <1>10
<1>15. n \in kept => dead = {}
  <2>1. SUFFICES ASSUME n \in kept PROVE g = 0
    BY <1>9
  <2>2. g < L /\ p[g + 1] = p[1]
    BY <1>2, <1>10, <2>1
  <2> QED BY <1>2, <1>4, <2>2
<1>16. ASSUME NEW m \in (dead \cup kept) \ {n} PROVE \E d \in dead \ {Root} : Parent[d] = m
  <2>1. PICK k \in 1..g + 1 : k <= L /\ m = p[k]
    BY <1>2, <1>9, <1>10
  <2>2. k # 1
    BY <1>2, <2>1
  <2>3. k - 1 \in 1..g /\ k - 1 \in 1..L - 1 /\ (k - 1) + 1 = k
    BY <1>2, <2>1, <2>2
  <2>4. p[k - 1] # Root /\ m = Parent[p[k - 1]]
    BY <1>3, <2>1, <2>3
  <2> QED BY <1>9, <2>3, <2>4
<1>17. ASSUME NEW d \in dead \ {Root}
       PROVE  \E k \in 1..g : k < L /\ d = p[k] /\ Parent[d] = p[k + 1]
  <2>1. PICK k \in 1..g : d = p[k]
    BY <1>9
  <2>2. k # L
    BY <1>2, <2>1
  <2>3. k \in 1..L - 1
    BY <1>2, <2>2
  <2> QED BY <1>2, <1>3, <2>1, <2>3
<1>18. ASSUME NEW d \in dead \ {Root} PROVE Parent[d] \in (dead \cup kept) \ {n}
  <2>1. PICK k \in 1..g : k < L /\ d = p[k] /\ Parent[d] = p[k + 1]
    BY <1>17
  <2>2. k + 1 \in 1..L /\ k + 1 # 1 /\ 1 \in 1..L
    BY <1>2, <2>1
  <2>3. p[k + 1] # n
    BY <1>2, <1>4, <2>2
  <2>4. p[k + 1] \in dead \cup kept
    <3>1. CASE k = g
      BY <1>10, <2>1, <3>1
    <3>2. CASE k # g
      <4>1. k + 1 \in 1..g
        BY <3>2
      <4> QED BY <1>9, <4>1
    <3> QED BY <3>1, <3>2
  <2> QED BY <2>1, <2>3, <2>4
<1>19. ASSUME NEW d \in dead \ {Root}, NEW b \in dead \ {Root}, Parent[d] = Parent[b] PROVE d = b
  <2>1. PICK k \in 1..g : k < L /\ d = p[k] /\ Parent[d] = p[k + 1]
    BY <1>17
  <2>2. PICK j \in 1..g : j < L /\ b = p[j] /\ Parent[b] = p[j + 1]
    BY <1>17
  <2>3. k + 1 \in 1..L /\ j + 1 \in 1..L
    BY <1>2, <2>1, <2>2
  <2>4. k + 1 = j + 1
    BY <1>4, <1>19, <2>1, <2>2, <2>3
  <2> QED BY <2>1, <2>2, <2>4
<1>20. Climb(c, n, dead, kept)
  BY <1>11, <1>12, <1>13, <1>14, <1>15, <1>16, <1>18, <1>19 DEF Climb
<1> QED BY <1>8, <1>20

-----------------------------------------------------------------------------
(* The caches.                                                             *)

LEMMA NodeFacts ==
  /\ IsFiniteSet(Nodes) /\ Root \in Nodes /\ Dirs \subseteq Nodes
  /\ \A n \in Nodes : INodeOf[n] \in INodes
  /\ \A n \in Nodes \ {Root} : Parent[n] \in Dirs /\ Parent[n] \in Nodes /\ Parent[n] # n
  /\ \A d \in Dirs, n \in Nodes : INodeOf[n] = INodeOf[d] => n = d
<1>1. ASSUME NEW n \in Nodes \ {Root} PROVE Parent[n] # n
  <2>1. {n} \in SUBSET (Nodes \ {Root}) /\ {n} # {}
    OBVIOUS
  <2> QED BY <2>1, EntryCacheAssumption
<1> QED BY <1>1, EntryCacheAssumption DEF INodes

\* the entries that count as users of i
NamesOf(c, i) == {m \in Nodes \ c.blank : Cached(c, m) /\ INodeOf[m] = i}

UsersCounted(c) == \A i \in INodes : c.users[i] = Cardinality(NamesOf(c, i))

CacheOK(c) ==
  /\ c \in CacheType /\ (\A m \in c.blank : Cached(c, m))
  /\ UsersCounted(c) /\ c.changed \subseteq c.dirty

\* Nothing changes in an inode, and no change is dropped.
Quiet(c, d) == d.changed \subseteq c.changed /\ d.lost = c.lost

LEMMA MarkFreed ==
  ASSUME NEW c, CacheOK(c)
  PROVE  CacheOK([c EXCEPT !.freed = TRUE]) /\ Quiet(c, [c EXCEPT !.freed = TRUE])
<1> DEFINE d == [c EXCEPT !.freed = TRUE]
<1>1. c \in CacheType
  BY DEF CacheOK
<1>2. d \in CacheType /\ d.refs = c.refs /\ d.blank = c.blank /\ d.users = c.users
      /\ d.changed = c.changed /\ d.dirty = c.dirty /\ d.lost = c.lost
  BY <1>1 DEF CacheType
<1> HIDE DEF d
<1>3. \A i \in INodes : NamesOf(d, i) = NamesOf(c, i)
  BY <1>2 DEF NamesOf, Cached
<1>4. CacheOK(d)
  BY <1>2, <1>3 DEF CacheOK, UsersCounted, Cached
<1>5. Quiet(c, d)
  BY <1>2 DEF Quiet
<1> QED BY <1>4, <1>5 DEF d

LEMMA ClimbNames ==
  ASSUME NEW c, NEW n \in Nodes, NEW dead, NEW kept, Climb(c, n, dead, kept)
  PROVE  \A a, b \in dead : INodeOf[a] = INodeOf[b] => a = b
<1>1. \A m \in dead \ {n} : m \in Dirs
  BY NodeFacts DEF Climb
<1>2. dead \subseteq Nodes
  BY DEF Climb
<1> QED BY <1>1, <1>2, NodeFacts

LEMMA PutINodesFields ==
  ASSUME NEW c \in CacheType, NEW is \in SUBSET INodes, \A i \in is : c.users[i] # 0
  PROVE  /\ PutINodes(c, is) \in CacheType
         /\ PutINodes(c, is).refs = c.refs /\ PutINodes(c, is).blank = c.blank
         /\ PutINodes(c, is).leaked = c.leaked /\ PutINodes(c, is).freed = c.freed
         /\ PutINodes(c, is).users = [i \in INodes |-> IF i \in is THEN c.users[i] - 1 ELSE c.users[i]]
         /\ c.changed \subseteq c.dirty =>
              /\ PutINodes(c, is).changed \subseteq PutINodes(c, is).dirty
              /\ Quiet(c, PutINodes(c, is))
<1> DEFINE last == {i \in is : c.users[i] = 1}
           us == [i \in INodes |-> IF i \in is THEN c.users[i] - 1 ELSE c.users[i]]
           d == PutINodes(c, is)
<1>1. d = [c EXCEPT !.users = us, !.lost = @ \cup ((c.changed \ c.dirty) \cap last),
                    !.changed = @ \ last, !.dirty = @ \ last]
  BY DEF PutINodes
<1>2. us \in [INodes -> Nat]
  BY DEF CacheType
<1>3. last \subseteq INodes
  OBVIOUS
<1> HIDE DEF us, last, d
<1>4. d \in CacheType
  BY <1>1, <1>2, <1>3 DEF CacheType
<1>5. d.refs = c.refs /\ d.blank = c.blank /\ d.leaked = c.leaked /\ d.freed = c.freed /\ d.users = us
      /\ d.changed = c.changed \ last /\ d.dirty = c.dirty \ last
      /\ d.lost = c.lost \cup ((c.changed \ c.dirty) \cap last)
  BY <1>1 DEF CacheType
<1> QED BY <1>4, <1>5 DEF Quiet, us, d

\* Releasing an entry keeps the counts of the inodes, whatever the counts of
\* the entries are.
LEMMA PutCacheOK ==
  ASSUME NEW c, CacheOK(c), NEW n \in Nodes, NEW dead, NEW kept, Climb(c, n, dead, kept),
         ~c.freed, \A m \in kept : Cached(c, m)
  PROVE  LET d == PutClimbed(c, dead, kept)
         IN  /\ CacheOK(d) /\ Quiet(c, d)
             /\ d.refs = RefsAfter(c, dead, kept) /\ d.leaked = c.leaked /\ ~d.freed
<1> DEFINE refs == RefsAfter(c, dead, kept)
           b == [c EXCEPT !.refs = refs, !.blank = @ \ dead]
           is == {INodeOf[m] : m \in dead \ c.blank}
           d == PutClimbed(c, dead, kept)
<1>1. d = PutINodes(b, is)
  BY DEF PutClimbed
<1>2. c \in CacheType /\ dead \subseteq Nodes /\ kept \subseteq Nodes
      /\ (\A m \in dead : c.refs[m] = 1) /\ (\A m \in kept : c.refs[m] # 1) /\ dead \cap kept = {}
  BY DEF CacheOK, Climb
<1>3. \A m \in kept : c.refs[m] \in Nat /\ c.refs[m] >= 2
  BY <1>2 DEF Cached, CacheType
<1>4. refs \in [Nodes -> Nat]
  BY <1>2, <1>3 DEF RefsAfter, CacheType
<1>5. \A m \in Nodes : refs[m] > 0 <=> c.refs[m] > 0 /\ m \notin dead
  BY <1>2, <1>3 DEF RefsAfter, CacheType
<1>n. \A m \in Nodes : c.refs[m] \in Nat
  BY <1>2 DEF CacheType
<1> HIDE DEF refs
<1>6. b \in CacheType /\ b.refs = refs /\ b.blank = c.blank \ dead /\ b.users = c.users
      /\ b.changed = c.changed /\ b.dirty = c.dirty /\ b.lost = c.lost /\ b.leaked = c.leaked
      /\ b.freed = c.freed
  BY <1>2, <1>4 DEF CacheType
<1> HIDE DEF b
<1>7. is \in SUBSET INodes
  BY <1>2, NodeFacts
<1>8. \A i \in INodes : IsFiniteSet(NamesOf(c, i))
  BY NodeFacts, FS_Subset DEF NamesOf
<1>9. ASSUME NEW m \in dead \ c.blank PROVE m \in NamesOf(c, INodeOf[m])
  BY <1>2, <1>9 DEF NamesOf, Cached
<1>10. \A i \in INodes : c.users[i] = Cardinality(NamesOf(c, i)) /\ c.users[i] \in Nat
  BY <1>2 DEF CacheOK, UsersCounted, CacheType
<1>11. ASSUME NEW i \in is PROVE c.users[i] # 0
  <2>1. PICK m \in dead \ c.blank : i = INodeOf[m]
    OBVIOUS
  <2>2. NamesOf(c, i) # {}
    BY <1>9, <2>1
  <2> QED BY <1>7, <1>8, <1>10, <2>2, FS_EmptySet
<1> HIDE DEF d
<1>12. /\ d \in CacheType
       /\ d.refs = refs /\ d.blank = c.blank \ dead /\ d.leaked = c.leaked /\ ~d.freed
       /\ d.users = [i \in INodes |-> IF i \in is THEN c.users[i] - 1 ELSE c.users[i]]
       /\ d.changed \subseteq d.dirty /\ Quiet(c, d)
  <2>1. c.changed \subseteq c.dirty
    BY DEF CacheOK
  <2>2. \A i \in is : b.users[i] # 0
    BY <1>6, <1>11
  <2> HIDE DEF is
  <2> QED BY <1>1, <1>6, <1>7, <2>1, <2>2, PutINodesFields DEF Quiet
<1>13. \A i \in INodes : NamesOf(d, i) = NamesOf(c, i) \ dead
  <2>1. ASSUME NEW i \in INodes, NEW m \in Nodes
        PROVE  m \in NamesOf(d, i) <=> (m \in NamesOf(c, i) /\ m \notin dead)
    BY <1>5, <1>12 DEF NamesOf, Cached
  <2> QED BY <2>1 DEF NamesOf
<1>14. ASSUME NEW i \in INodes PROVE d.users[i] = Cardinality(NamesOf(d, i))
  <2>1. CASE i \in is
    <3>1. PICK m \in dead \ c.blank : i = INodeOf[m]
      BY <2>1
    <3>2. NamesOf(c, i) \ dead = NamesOf(c, i) \ {m}
      BY <3>1, ClimbNames DEF NamesOf
    <3>3. Cardinality(NamesOf(c, i) \ {m}) = Cardinality(NamesOf(c, i)) - 1
      BY <1>8, <1>9, <3>1, FS_RemoveElement
    <3> QED BY <1>10, <1>12, <1>13, <2>1, <3>2, <3>3
  <2>2. CASE i \notin is
    <3>1. NamesOf(c, i) \ dead = NamesOf(c, i)
      BY <2>2 DEF NamesOf
    <3> QED BY <1>10, <1>12, <1>13, <2>2, <3>1
  <2> QED BY <2>1, <2>2
<1>15. \A m \in d.blank : Cached(d, m)
  <2>1. ASSUME NEW m \in d.blank PROVE d.refs[m] > 0
    <3>1. m \in c.blank /\ m \notin dead /\ m \in Nodes
      BY <1>2, <1>12, <2>1 DEF CacheType
    <3>2. c.refs[m] > 0
      BY <3>1 DEF CacheOK, Cached
    <3> QED BY <1>5, <1>12, <3>1, <3>2
  <2> QED BY <2>1 DEF Cached
<1> QED BY <1>12, <1>14, <1>15 DEF CacheOK, UsersCounted, refs, d

LEMMA PutKeepsCounts ==
  ASSUME NEW c, CacheOK(c), NEW n \in Nodes
  PROVE  CacheOK(PutDEntry(c, n)) /\ Quiet(c, PutDEntry(c, n))
<1>1. PICK dead, kept : Climb(c, n, dead, kept) /\ PutDEntry(c, n) = PutClimbed(c, dead, kept)
  BY ClimbOf
<1>2. CASE c.freed \/ \E m \in kept : ~Cached(c, m)
  BY <1>1, <1>2, MarkFreed DEF PutClimbed
<1>3. CASE ~c.freed /\ \A m \in kept : Cached(c, m)
  BY <1>1, <1>3, PutCacheOK
<1> QED BY <1>2, <1>3

LEMMA GetKeepsCounts ==
  ASSUME NEW c, CacheOK(c), NEW n \in Nodes
  PROVE  CacheOK(GetDEntry(c, n)) /\ Quiet(c, GetDEntry(c, n))
<1> DEFINE d == [c EXCEPT !.refs[n] = @ + 1]
<1>1. CASE c.freed \/ ~Cached(c, n)
  BY <1>1, MarkFreed DEF GetDEntry
<1>2. CASE ~c.freed /\ Cached(c, n)
  <2>1. c \in CacheType /\ GetDEntry(c, n) = d
    BY <1>2 DEF CacheOK, GetDEntry
  <2>2. d \in CacheType /\ d.refs = [c.refs EXCEPT ![n] = c.refs[n] + 1] /\ d.blank = c.blank
        /\ d.users = c.users /\ d.changed = c.changed /\ d.dirty = c.dirty /\ d.lost = c.lost
    BY <2>1 DEF CacheType
  <2> HIDE DEF d
  <2>3. \A m \in Nodes : Cached(d, m) <=> Cached(c, m)
    BY <1>2, <2>1, <2>2 DEF Cached, CacheType
  <2>4. \A i \in INodes : NamesOf(d, i) = NamesOf(c, i)
    BY <2>2, <2>3 DEF NamesOf
  <2>5. \A m \in c.blank : m \in Nodes
    BY <2>1 DEF CacheType
  <2>6. CacheOK(d)
    BY <2>2, <2>3, <2>4, <2>5 DEF CacheOK, UsersCounted
  <2> QED BY <2>1, <2>2, <2>6 DEF Quiet
<1> QED BY <1>1, <1>2

LEMMA LoadKeepsCounts ==
  ASSUME NEW c, CacheOK(c), NEW n \in Nodes, ~Cached(c, n)
  PROVE  /\ CacheOK(LoadEntry(c, n)) /\ Quiet(c, LoadEntry(c, n))
         /\ LoadEntry(c, n).refs = [c.refs EXCEPT ![n] = 1]
         /\ LoadEntry(c, n).leaked = c.leaked /\ LoadEntry(c, n).freed = c.freed
<1> DEFINE j == INodeOf[n]
           d == LoadEntry(c, n)
<1>0. c \in CacheType /\ j \in INodes /\ n \notin c.blank /\ c.refs[n] = 0
  <2>1. c \in CacheType /\ n \notin c.blank
    BY DEF CacheOK
  <2>2. c.refs[n] = 0
    BY <2>1 DEF CacheType, Cached
  <2> QED BY <2>1, <2>2, NodeFacts
<1>1. /\ \A i \in INodes : IsFiniteSet(NamesOf(c, i))
      /\ \A i \in INodes : n \notin NamesOf(c, i)
  BY NodeFacts, FS_Subset DEF NamesOf
<1>2. \A i \in INodes : c.users[i] = Cardinality(NamesOf(c, i)) /\ c.users[i] \in Nat
  BY <1>0 DEF CacheOK, UsersCounted, CacheType
<1>3. \A m \in c.blank : Cached(c, m) /\ m \in Nodes /\ m # n
  BY <1>0 DEF CacheOK, CacheType
<1>4. c.changed \subseteq c.dirty
  BY DEF CacheOK
<1> HIDE DEF j
<1>5. CASE c.users[j] = 0 /\ j \in Bad
  <2>1. d = [c EXCEPT !.refs[n] = 1, !.blank = @ \cup {n}]
    BY <1>5 DEF LoadEntry, j
  <2> HIDE DEF d
  <2>2. d \in CacheType /\ d.refs = [c.refs EXCEPT ![n] = 1] /\ d.blank = c.blank \cup {n}
        /\ d.users = c.users /\ d.changed = c.changed /\ d.dirty = c.dirty /\ d.lost = c.lost
        /\ d.leaked = c.leaked /\ d.freed = c.freed
    BY <1>0, <2>1 DEF CacheType
  <2>3. \A m \in Nodes : Cached(d, m) <=> (Cached(c, m) \/ m = n)
    BY <1>0, <2>2 DEF Cached, CacheType
  <2>4. \A i \in INodes : NamesOf(d, i) = NamesOf(c, i)
    BY <1>1, <2>2, <2>3 DEF NamesOf
  <2>5. CacheOK(d)
    BY <1>2, <1>3, <1>4, <2>2, <2>3, <2>4 DEF CacheOK, UsersCounted
  <2> QED BY <2>2, <2>5 DEF Quiet, d
<1>6. CASE ~(c.users[j] = 0 /\ j \in Bad)
  <2> DEFINE rs == [c.refs EXCEPT ![n] = 1]
             us == [c.users EXCEPT ![j] = c.users[j] + 1]
  <2>1. d = [c EXCEPT !.refs = rs, !.users = us]
    BY <1>0, <1>6 DEF LoadEntry, j, CacheType
  <2>r. rs \in [Nodes -> Nat] /\ us \in [INodes -> Nat]
    BY <1>0, <1>2 DEF CacheType
  <2> HIDE DEF d, rs, us
  <2>s. d \in CacheType /\ d.refs = rs /\ d.blank = c.blank /\ d.users = us
        /\ d.changed = c.changed /\ d.dirty = c.dirty /\ d.lost = c.lost
        /\ d.leaked = c.leaked /\ d.freed = c.freed
    BY <1>0, <2>1, <2>r DEF CacheType
  <2>2. d \in CacheType /\ d.refs = [c.refs EXCEPT ![n] = 1] /\ d.blank = c.blank
        /\ d.users = [c.users EXCEPT ![j] = c.users[j] + 1]
        /\ d.changed = c.changed /\ d.dirty = c.dirty /\ d.lost = c.lost
        /\ d.leaked = c.leaked /\ d.freed = c.freed
    BY <2>s DEF rs, us
  <2>3. \A m \in Nodes : Cached(d, m) <=> (Cached(c, m) \/ m = n)
    BY <1>0, <2>2 DEF Cached, CacheType
  <2>4. \A i \in INodes : NamesOf(d, i) = IF i = j THEN NamesOf(c, i) \cup {n} ELSE NamesOf(c, i)
    BY <1>0, <2>2, <2>3 DEF NamesOf, j
  <2>5. ASSUME NEW i \in INodes PROVE d.users[i] = Cardinality(NamesOf(d, i))
    <3>1. CASE i = j
      <4>1. Cardinality(NamesOf(c, i) \cup {n}) = Cardinality(NamesOf(c, i)) + 1
        BY <1>1, FS_AddElement
      <4>2. d.users[i] = c.users[j] + 1
        BY <1>0, <2>2, <3>1 DEF CacheType
      <4>3. NamesOf(d, i) = NamesOf(c, i) \cup {n}
        BY <2>4, <3>1
      <4> QED BY <1>2, <3>1, <4>1, <4>2, <4>3
    <3>2. CASE i # j
      BY <1>0, <1>2, <2>2, <2>4, <3>2 DEF CacheType
    <3> QED BY <3>1, <3>2
  <2>6. CacheOK(d)
    BY <1>3, <1>4, <2>2, <2>3, <2>5 DEF CacheOK, UsersCounted
  <2> QED BY <2>2, <2>6 DEF Quiet, d
<1> QED BY <1>5, <1>6

LEMMA LeakKeepsCounts ==
  ASSUME NEW c, CacheOK(c), NEW n \in Nodes
  PROVE  LET d == [c EXCEPT !.leaked[n] = @ + 1]
         IN  /\ CacheOK(d) /\ Quiet(c, d) /\ d.refs = c.refs /\ d.freed = c.freed
             /\ d.leaked = [c.leaked EXCEPT ![n] = c.leaked[n] + 1]
<1> DEFINE d == [c EXCEPT !.leaked[n] = @ + 1]
<1>1. c \in CacheType
  BY DEF CacheOK
<1>2. d \in CacheType /\ d.refs = c.refs /\ d.blank = c.blank /\ d.users = c.users
      /\ d.changed = c.changed /\ d.dirty = c.dirty /\ d.lost = c.lost /\ d.freed = c.freed
      /\ d.leaked = [c.leaked EXCEPT ![n] = c.leaked[n] + 1]
  BY <1>1 DEF CacheType
<1> HIDE DEF d
<1>3. \A i \in INodes : NamesOf(d, i) = NamesOf(c, i)
  BY <1>2 DEF NamesOf, Cached
<1>4. CacheOK(d)
  BY <1>2, <1>3 DEF CacheOK, UsersCounted, Cached
<1> QED BY <1>2, <1>4 DEF Quiet, d

LEMMA QuietTrans ==
  ASSUME NEW b, NEW c, NEW d, Quiet(b, c), Quiet(c, d)
  PROVE  Quiet(b, d)
BY DEF Quiet

WalkType == [c : CacheType, at : Nodes, ok : BOOLEAN]

WalkOK(c, w) == w \in WalkType /\ CacheOK(w.c) /\ Quiet(c, w.c)

\* what Lookup finds
LEMMA LookupCases ==
  ASSUME NEW w \in WalkType, NEW name
  PROVE  \/ Lookup(w, name) = [w EXCEPT !.ok = FALSE]
         \/ \E n \in Children(w.at) :
              \/ /\ Cached(w.c, n)
                 /\ Lookup(w, name) = [w EXCEPT !.c = [GetDEntry(w.c, n) EXCEPT !.leaked[w.at] = @ + 1],
                                                !.at = n]
              \/ /\ ~Cached(w.c, n)
                 /\ Lookup(w, name) = [w EXCEPT !.c = LoadEntry(w.c, n), !.at = n]
<1> DEFINE named == {m \in Children(w.at) : Name[m] = name}
           n == CHOOSE m \in named : TRUE
<1>1. CASE named = {} \/ w.at \in w.c.blank
  BY <1>1 DEF Lookup
<1>2. CASE ~(named = {} \/ w.at \in w.c.blank)
  <2>1. n \in Children(w.at)
    BY <1>2
  <2>2. Lookup(w, name) =
          IF Cached(w.c, n)
          THEN [w EXCEPT !.c = [GetDEntry(w.c, n) EXCEPT !.leaked[w.at] = @ + 1], !.at = n]
          ELSE [w EXCEPT !.c = LoadEntry(w.c, n), !.at = n]
    BY <1>2 DEF Lookup, WalkType
  <2> HIDE DEF n
  <2> QED BY <2>1, <2>2
<1> QED BY <1>1, <1>2

-----------------------------------------------------------------------------
(* The balance of the entries.                                             *)

Kids(c, n) == {m \in Children(n) : Cached(c, m)}

\* The pointers from outside of the cache are counted in E.
Balanced(c, E) == \A n \in Nodes : c.refs[n] = E[n] + c.leaked[n] + Cardinality(Kids(c, n))

Sound(c, E) == CacheOK(c) /\ ~c.freed /\ Balanced(c, E)

Counts == [Nodes -> Nat]
Plus(E, n) == [E EXCEPT ![n] = E[n] + 1]
Minus(E, n) == [E EXCEPT ![n] = E[n] - 1]

LEMMA PlusMinus ==
  ASSUME NEW E \in Counts, NEW n \in Nodes
  PROVE  Plus(E, n) \in Counts /\ Plus(E, n)[n] >= 1 /\ Minus(Plus(E, n), n) = E
<1> DEFINE F == Plus(E, n)
<1>1. F \in Counts /\ \A m \in Nodes : E[m] \in Nat /\ F[m] = IF m = n THEN E[m] + 1 ELSE E[m]
  BY DEF Plus, Counts
<1> HIDE DEF F
<1>2. \A m \in Nodes : Minus(F, n)[m] = E[m]
  BY <1>1 DEF Minus, Counts
<1>3. Minus(F, n) = [m \in Nodes |-> Minus(F, n)[m]] /\ E = [m \in Nodes |-> E[m]]
  BY <1>1 DEF Minus, Counts
<1>4. Minus(F, n) = E
  BY <1>2, <1>3
<1> QED BY <1>1, <1>4 DEF F

LEMMA KidsFacts ==
  ASSUME NEW c, NEW n \in Nodes
  PROVE  /\ IsFiniteSet(Kids(c, n)) /\ Cardinality(Kids(c, n)) \in Nat
         /\ Cardinality(Kids(c, n)) = 0 <=> Kids(c, n) = {}
<1>1. Kids(c, n) \in SUBSET Nodes
  BY DEF Kids, Children
<1>2. IsFiniteSet(Kids(c, n))
  BY <1>1, NodeFacts, FS_Subset
<1> QED BY <1>2, FS_CardinalityType, FS_EmptySet

LEMMA BalancedTypes ==
  ASSUME NEW c, CacheOK(c), NEW E \in Counts, NEW n \in Nodes
  PROVE  /\ c \in CacheType /\ c.refs[n] \in Nat /\ c.leaked[n] \in Nat /\ E[n] \in Nat
         /\ Plus(E, n) \in Counts /\ (E[n] >= 1 => Minus(E, n) \in Counts)
BY DEF CacheOK, CacheType, Counts, Plus, Minus

\* what is pointed to from anywhere is in the cache
LEMMA PointedIsCached ==
  ASSUME NEW c, NEW E \in Counts, Sound(c, E)
  PROVE  /\ \A n \in Nodes : E[n] >= 1 => Cached(c, n)
         /\ \A n \in Nodes \ {Root} : Cached(c, n) => Cached(c, Parent[n])
<1>0. \A n \in Nodes : c.refs[n] \in Nat /\ c.leaked[n] \in Nat /\ E[n] \in Nat
                       /\ Cardinality(Kids(c, n)) \in Nat
                       /\ c.refs[n] = E[n] + c.leaked[n] + Cardinality(Kids(c, n))
  BY BalancedTypes, KidsFacts DEF Sound, Balanced
<1>1. ASSUME NEW n \in Nodes, E[n] >= 1 PROVE Cached(c, n)
  BY <1>0, <1>1 DEF Cached
<1>2. ASSUME NEW n \in Nodes \ {Root}, Cached(c, n) PROVE Cached(c, Parent[n])
  <2>1. n \in Kids(c, Parent[n]) /\ Parent[n] \in Nodes
    BY <1>2, NodeFacts DEF Kids, Children
  <2>2. Cardinality(Kids(c, Parent[n])) # 0
    BY <2>1, KidsFacts
  <2>3. PICK p \in Nodes : p = Parent[n]
    BY <2>1
  <2>4. c.refs[p] > 0
    BY <1>0, <2>2, <2>3
  <2> QED BY <2>3, <2>4 DEF Cached
<1> QED BY <1>1, <1>2

LEMMA GetBalanced ==
  ASSUME NEW c, NEW E \in Counts, Sound(c, E), NEW n \in Nodes, Cached(c, n)
  PROVE  Sound(GetDEntry(c, n), Plus(E, n))
<1> DEFINE d == GetDEntry(c, n)
<1>1. CacheOK(d)
  BY GetKeepsCounts DEF Sound
<1>2. d.refs = [c.refs EXCEPT ![n] = c.refs[n] + 1] /\ d.leaked = c.leaked /\ ~d.freed
  BY DEF GetDEntry, Sound, CacheOK, CacheType
<1>3. \A m \in Nodes : c.refs[m] \in Nat /\ c.leaked[m] \in Nat /\ E[m] \in Nat
                       /\ Cardinality(Kids(c, m)) \in Nat
                       /\ c.refs[m] = E[m] + c.leaked[m] + Cardinality(Kids(c, m))
  BY BalancedTypes, KidsFacts DEF Sound, Balanced
<1>t. DOMAIN c.refs = Nodes /\ DOMAIN E = Nodes
  BY DEF Counts, Sound, CacheOK, CacheType
<1> HIDE DEF d
<1>r. \A m \in Nodes : d.refs[m] = IF m = n THEN c.refs[m] + 1 ELSE c.refs[m]
  BY <1>2, <1>t
<1>p. \A m \in Nodes : Plus(E, n)[m] = IF m = n THEN E[m] + 1 ELSE E[m]
  BY <1>t DEF Plus
<1>q. \A m \in Nodes : d.refs[m] > 0 <=> c.refs[m] > 0
  BY <1>3, <1>r DEF Cached
<1>4. \A m \in Nodes : Kids(d, m) = Kids(c, m)
  BY <1>q DEF Kids, Cached, Children
<1>5. Balanced(d, Plus(E, n))
  BY <1>2, <1>3, <1>4, <1>r, <1>p DEF Balanced
<1> QED BY <1>1, <1>2, <1>5 DEF Sound, d

LEMMA LoadBalanced ==
  ASSUME NEW c, NEW E \in Counts, NEW n \in Nodes \ {Root}, Sound(c, Plus(E, Parent[n])),
         ~Cached(c, n)
  PROVE  Sound(LoadEntry(c, n), Plus(E, n))
<1> DEFINE d == LoadEntry(c, n)
           p == Parent[n]
           F == Plus(E, p)
<1>0. p \in Nodes /\ p # n /\ F \in Counts
  BY NodeFacts DEF Plus, Counts
<1>1. CacheOK(d) /\ d.refs = [c.refs EXCEPT ![n] = 1] /\ d.leaked = c.leaked /\ ~d.freed
  BY LoadKeepsCounts DEF Sound
<1>s. Sound(c, F)
  OBVIOUS
<1> HIDE DEF F, d
<1>3. \A m \in Nodes : c.refs[m] \in Nat /\ c.leaked[m] \in Nat /\ F[m] \in Nat
                       /\ Cardinality(Kids(c, m)) \in Nat
                       /\ c.refs[m] = F[m] + c.leaked[m] + Cardinality(Kids(c, m))
  BY <1>0, <1>s, BalancedTypes, KidsFacts DEF Sound, Balanced
<1>t. DOMAIN c.refs = Nodes /\ DOMAIN E = Nodes /\ \A m \in Nodes : E[m] \in Nat
  BY DEF Counts, Sound, CacheOK, CacheType
<1>f. \A m \in Nodes : F[m] = IF m = p THEN E[m] + 1 ELSE E[m]
  BY <1>0, <1>t DEF Plus, F
<1>p. \A m \in Nodes : Plus(E, n)[m] = IF m = n THEN E[m] + 1 ELSE E[m]
  BY <1>t DEF Plus
<1>c. c.refs[n] = 0
  BY <1>3 DEF Cached
<1>r. d.refs[n] = 1 /\ \A m \in Nodes \ {n} : d.refs[m] = c.refs[m]
  BY <1>1, <1>t
<1>4. \A m \in Nodes : Kids(d, m) = IF m = p THEN Kids(c, m) \cup {n} ELSE Kids(c, m)
  BY <1>0, <1>r, <1>c DEF Kids, Cached, Children, p
<1>5. Cardinality(Kids(c, p) \cup {n}) = Cardinality(Kids(c, p)) + 1
  <2>1. n \notin Kids(c, p)
    BY DEF Kids
  <2> QED BY <1>0, <2>1, KidsFacts, FS_AddElement
<1>6. ASSUME NEW m \in Nodes
      PROVE  d.refs[m] = Plus(E, n)[m] + d.leaked[m] + Cardinality(Kids(d, m))
  <2>1. CASE m = n
    <3>1. E[m] = 0 /\ c.leaked[m] = 0 /\ Cardinality(Kids(c, m)) = 0
      BY <1>0, <1>3, <1>c, <1>f, <1>t, <2>1
    <3> QED BY <1>0, <1>1, <1>4, <1>p, <1>r, <2>1, <3>1
  <2>2. CASE m = p
    <3>1. Cardinality(Kids(d, m)) = Cardinality(Kids(c, m)) + 1
      BY <1>4, <1>5, <2>2
    <3> QED BY <1>0, <1>1, <1>3, <1>t, <1>f, <1>p, <1>r, <2>2, <3>1
  <2>3. CASE m # n /\ m # p
    <3>1. Kids(d, m) = Kids(c, m)
      BY <1>4, <2>3
    <3> QED BY <1>1, <1>3, <1>f, <1>p, <1>r, <2>3, <3>1
  <2> QED BY <2>1, <2>2, <2>3
<1> QED BY <1>1, <1>6 DEF Sound, Balanced, d

LEMMA PutBalanced ==
  ASSUME NEW c, NEW E \in Counts, Sound(c, E), NEW n \in Nodes, E[n] >= 1
  PROVE  Sound(PutDEntry(c, n), Minus(E, n))
<1>0. CacheOK(c) /\ ~c.freed
  BY DEF Sound
<1>1. PICK dead, kept : Climb(c, n, dead, kept) /\ PutDEntry(c, n) = PutClimbed(c, dead, kept)
  BY ClimbOf
<1>2. dead \subseteq Nodes /\ kept \subseteq Nodes \ dead
      /\ (\A m \in dead : c.refs[m] = 1) /\ (\A m \in kept : c.refs[m] # 1)
  BY <1>1 DEF Climb
<1>3. \A m \in Nodes : c.refs[m] \in Nat /\ c.leaked[m] \in Nat /\ E[m] \in Nat
                       /\ Cardinality(Kids(c, m)) \in Nat
                       /\ c.refs[m] = E[m] + c.leaked[m] + Cardinality(Kids(c, m))
  BY <1>0, BalancedTypes, KidsFacts DEF Sound, Balanced
<1>4. ASSUME NEW d \in dead \ {Root} PROVE d \in Kids(c, Parent[d])
  BY <1>2, <1>4 DEF Kids, Children, Cached
<1>5. ASSUME NEW m \in kept PROVE Cached(c, m)
  <2>1. CASE m = n
    BY <1>3, <2>1 DEF Cached
  <2>2. CASE m # n
    <3>1. PICK d \in dead \ {Root} : Parent[d] = m
      BY <1>1, <2>2 DEF Climb
    <3>2. m \in Nodes /\ Cardinality(Kids(c, m)) # 0
      BY <1>2, <1>4, <3>1, KidsFacts
    <3> QED BY <1>3, <3>2 DEF Cached
  <2> QED BY <2>1, <2>2
<1> DEFINE d == PutClimbed(c, dead, kept)
<1>6. CacheOK(d) /\ d.refs = RefsAfter(c, dead, kept) /\ d.leaked = c.leaked /\ ~d.freed
  BY <1>0, <1>1, <1>5, PutCacheOK
<1> HIDE DEF d
<1>7. \A m \in Nodes : d.refs[m] = IF m \in dead THEN 0 ELSE IF m \in kept THEN c.refs[m] - 1 ELSE c.refs[m]
  BY <1>6 DEF RefsAfter
<1>8. \A m \in Nodes : Kids(d, m) = Kids(c, m) \ dead
  <2>1. ASSUME NEW m \in Nodes PROVE d.refs[m] > 0 <=> (c.refs[m] > 0 /\ m \notin dead)
    <3>1. m \in kept => c.refs[m] >= 2
      BY <1>2, <1>3, <1>5 DEF Cached
    <3> QED BY <1>3, <1>7, <3>1
  <2> QED BY <2>1 DEF Kids, Cached, Children
<1>9. \A m \in Nodes : Minus(E, n)[m] = IF m = n THEN E[m] - 1 ELSE E[m]
  BY DEF Minus, Counts

\* where a child is gone: exactly one is
<1>10. ASSUME NEW m \in Nodes, NEW b \in dead \ {Root}, Parent[b] = m
       PROVE  Cardinality(Kids(d, m)) = Cardinality(Kids(c, m)) - 1
  <2>1. \A x \in Kids(c, m) \cap dead : x = b
    BY <1>1, <1>10 DEF Kids, Children, Climb
  <2>2. b \in Kids(c, m) /\ Kids(c, m) \ dead = Kids(c, m) \ {b}
    BY <1>4, <1>10, <2>1
  <2>3. Cardinality(Kids(c, m) \ {b}) = Cardinality(Kids(c, m)) - 1
    BY <2>2, KidsFacts, FS_RemoveElement
  <2> QED BY <1>8, <2>2, <2>3
<1>11. ASSUME NEW m \in Nodes, \A b \in dead \ {Root} : Parent[b] # m
       PROVE  Kids(d, m) = Kids(c, m)
  BY <1>8, <1>11 DEF Kids, Children
<1>12. \A b \in dead \ {Root} : Parent[b] \in (dead \cup kept) \ {n}
  BY <1>1 DEF Climb
<1>13. ASSUME NEW m \in Nodes
       PROVE  d.refs[m] = Minus(E, n)[m] + d.leaked[m] + Cardinality(Kids(d, m))
  <2>1. CASE m = n
    <3>1. Kids(d, m) = Kids(c, m)
      BY <1>11, <1>12, <2>1
    <3>2. m \in dead \/ m \in kept
      BY <1>1, <2>1 DEF Climb
    <3>3. CASE m \in dead
      <4>1. c.refs[m] = 1
        BY <1>2, <3>3
      <4> QED BY <1>3, <1>6, <1>7, <1>9, <2>1, <3>1, <3>3, <4>1
    <3>4. CASE m \in kept
      <4>1. m \notin dead
        BY <1>2, <3>4
      <4> QED BY <1>3, <1>6, <1>7, <1>9, <2>1, <3>1, <3>4, <4>1
    <3> QED BY <3>2, <3>3, <3>4
  <2>2. CASE m # n /\ m \in dead \cup kept
    <3>1. PICK b \in dead \ {Root} : Parent[b] = m
      BY <1>1, <2>2 DEF Climb
    <3>2. Cardinality(Kids(d, m)) = Cardinality(Kids(c, m)) - 1 /\ Cardinality(Kids(d, m)) \in Nat
      BY <1>10, <3>1, KidsFacts
    <3>3. CASE m \in dead
      <4>1. c.refs[m] = 1
        BY <1>2, <3>3
      <4> QED BY <1>3, <1>6, <1>7, <1>9, <2>2, <3>2, <3>3, <4>1
    <3>4. CASE m \notin dead
      <4>1. m \in kept
        BY <2>2, <3>4
      <4> QED BY <1>3, <1>6, <1>7, <1>9, <2>2, <3>2, <3>4, <4>1
    <3> QED BY <3>3, <3>4
  <2>3. CASE m # n /\ m \notin dead \cup kept
    <3>1. Kids(d, m) = Kids(c, m)
      BY <1>11, <1>12, <2>3
    <3> QED BY <1>3, <1>6, <1>7, <1>9, <2>3, <3>1
  <2> QED BY <2>1, <2>2, <2>3
<1> QED BY <1>1, <1>6, <1>13 DEF Sound, Balanced, d

-----------------------------------------------------------------------------
(* The walk.                                                               *)

LEMMA WalkTypes ==
  ASSUME NEW w \in WalkType
  PROVE  /\ w.c \in CacheType /\ w.at \in Nodes /\ w.ok \in BOOLEAN
         /\ LET v == [w EXCEPT !.ok = FALSE]
            IN  v \in WalkType /\ v.c = w.c /\ v.at = w.at /\ ~v.ok
BY DEF WalkType

LEMMA LookupKeepsCounts ==
  ASSUME NEW c, NEW w, WalkOK(c, w), NEW name
  PROVE  WalkOK(c, Lookup(w, name))
<1> DEFINE v == Lookup(w, name)
<1>0. w \in WalkType /\ CacheOK(w.c) /\ Quiet(c, w.c) /\ w.at \in Nodes
  BY WalkTypes DEF WalkOK
<1>1. CASE v = [w EXCEPT !.ok = FALSE]
  BY <1>0, <1>1, WalkTypes DEF WalkOK
<1>2. ASSUME NEW n \in Nodes, NEW d, CacheOK(d), Quiet(w.c, d), v = [w EXCEPT !.c = d, !.at = n]
      PROVE  WalkOK(c, v)
  <2>1. d \in CacheType
    BY <1>2 DEF CacheOK
  <2> HIDE DEF v
  <2>2. v \in WalkType /\ v.c = d
    BY <1>0, <1>2, <2>1 DEF WalkType
  <2> QED BY <1>0, <1>2, <2>2, QuietTrans DEF WalkOK
<1>3. ASSUME NEW n \in Children(w.at), Cached(w.c, n),
             v = [w EXCEPT !.c = [GetDEntry(w.c, n) EXCEPT !.leaked[w.at] = @ + 1], !.at = n]
      PROVE  WalkOK(c, v)
  <2> DEFINE g == GetDEntry(w.c, n)
             d == [g EXCEPT !.leaked[w.at] = @ + 1]
  <2>1. CacheOK(g) /\ Quiet(w.c, g) /\ n \in Nodes
    BY <1>0, GetKeepsCounts DEF Children
  <2> HIDE DEF g
  <2>2. CacheOK(d) /\ Quiet(g, d)
    BY <1>0, <2>1, LeakKeepsCounts
  <2>3. Quiet(w.c, d) /\ v = [w EXCEPT !.c = d, !.at = n]
    BY <1>3, <2>1, <2>2, QuietTrans DEF g
  <2> HIDE DEF d, v
  <2> QED BY <1>2, <2>1, <2>2, <2>3
<1>4. ASSUME NEW n \in Children(w.at), ~Cached(w.c, n),
             v = [w EXCEPT !.c = LoadEntry(w.c, n), !.at = n]
      PROVE  WalkOK(c, v)
  <2>1. n \in Nodes
    BY DEF Children
  <2>2. CacheOK(LoadEntry(w.c, n)) /\ Quiet(w.c, LoadEntry(w.c, n))
    BY <1>0, <1>4, <2>1, LoadKeepsCounts
  <2> QED BY <1>2, <1>4, <2>1, <2>2
<1> HIDE DEF v
<1>5. \/ v = [w EXCEPT !.ok = FALSE]
      \/ \E n \in Children(w.at) :
           \/ /\ Cached(w.c, n)
              /\ v = [w EXCEPT !.c = [GetDEntry(w.c, n) EXCEPT !.leaked[w.at] = @ + 1], !.at = n]
           \/ /\ ~Cached(w.c, n)
              /\ v = [w EXCEPT !.c = LoadEntry(w.c, n), !.at = n]
  BY <1>0, LookupCases DEF v
<1> QED BY <1>1, <1>3, <1>4, <1>5 DEF v

LEMMA LookupSound ==
  ASSUME NEW c, NEW w, WalkOK(c, w), NEW name, NEW E \in Counts, Sound(w.c, Plus(E, w.at))
  PROVE  Sound(Lookup(w, name).c, Plus(E, Lookup(w, name).at))
<1> DEFINE v == Lookup(w, name)
           F == Plus(E, w.at)
<1>0. w \in WalkType /\ CacheOK(w.c) /\ w.at \in Nodes
  BY WalkTypes DEF WalkOK
<1>f. F \in Counts /\ Sound(w.c, F)
  BY <1>0 DEF Plus, Counts
<1>1. CASE v = [w EXCEPT !.ok = FALSE]
  BY <1>0, <1>1, WalkTypes
<1>3. ASSUME NEW n \in Children(w.at), Cached(w.c, n),
             v = [w EXCEPT !.c = [GetDEntry(w.c, n) EXCEPT !.leaked[w.at] = @ + 1], !.at = n]
      PROVE  Sound(v.c, Plus(E, v.at))
  <2> DEFINE g == GetDEntry(w.c, n)
             d == [g EXCEPT !.leaked[w.at] = @ + 1]
  <2>1. n \in Nodes
    BY DEF Children
  <2> HIDE DEF F, g
  <2>2. Sound(g, Plus(F, n))
    BY <1>f, <1>3, <2>1, GetBalanced DEF g
  <2>3. CacheOK(d) /\ d.refs = g.refs /\ d.freed = g.freed
        /\ d.leaked = [g.leaked EXCEPT ![w.at] = g.leaked[w.at] + 1]
    BY <1>0, <2>2, LeakKeepsCounts DEF Sound
  <2>4. v.c = d /\ v.at = n
    BY <1>0, <1>3 DEF g, WalkType
  <2> HIDE DEF d, v
  <2>5. ASSUME NEW m \in Nodes
        PROVE  d.refs[m] = Plus(E, n)[m] + d.leaked[m] + Cardinality(Kids(d, m))
    <3>1. g.refs[m] = Plus(F, n)[m] + g.leaked[m] + Cardinality(Kids(g, m))
      BY <2>2 DEF Sound, Balanced
    <3>2. Kids(d, m) = Kids(g, m)
      BY <2>3 DEF Kids, Cached
    <3>3. d.leaked[m] = (IF m = w.at THEN g.leaked[m] + 1 ELSE g.leaked[m]) /\ g.leaked[m] \in Nat
      BY <2>2, <2>3 DEF Sound, CacheOK, CacheType
    <3>4. F[m] = IF m = w.at THEN E[m] + 1 ELSE E[m]
      BY DEF F, Plus, Counts
    <3>5. Plus(F, n)[m] = IF m = n THEN F[m] + 1 ELSE F[m]
      BY <1>f DEF Plus, Counts
    <3>6. Plus(E, n)[m] = IF m = n THEN E[m] + 1 ELSE E[m]
      BY DEF Plus, Counts
    <3>7. E[m] \in Nat /\ Cardinality(Kids(d, m)) \in Nat
      BY KidsFacts DEF Counts
    <3> QED BY <2>3, <3>1, <3>2, <3>3, <3>4, <3>5, <3>6, <3>7
  <2>6. Sound(d, Plus(E, n))
    BY <2>2, <2>3, <2>5 DEF Sound, Balanced
  <2> QED BY <2>4, <2>6
<1>4. ASSUME NEW n \in Children(w.at), ~Cached(w.c, n),
             v = [w EXCEPT !.c = LoadEntry(w.c, n), !.at = n]
      PROVE  Sound(v.c, Plus(E, v.at))
  <2>1. n \in Nodes \ {Root} /\ Parent[n] = w.at
    BY DEF Children
  <2>2. v.c = LoadEntry(w.c, n) /\ v.at = n
    BY <1>0, <1>4 DEF WalkType
  <2> QED BY <1>4, <2>1, <2>2, LoadBalanced
<1> HIDE DEF v
<1>5. \/ v = [w EXCEPT !.ok = FALSE]
      \/ \E n \in Children(w.at) :
           \/ /\ Cached(w.c, n)
              /\ v = [w EXCEPT !.c = [GetDEntry(w.c, n) EXCEPT !.leaked[w.at] = @ + 1], !.at = n]
           \/ /\ ~Cached(w.c, n)
              /\ v = [w EXCEPT !.c = LoadEntry(w.c, n), !.at = n]
  BY <1>0, LookupCases DEF v
<1> QED BY <1>1, <1>3, <1>4, <1>5 DEF v

LEMMA ParentOfKeepsCounts ==
  ASSUME NEW c, NEW w, WalkOK(c, w)
  PROVE  WalkOK(c, ParentOf(w))
<1>0. w \in WalkType /\ CacheOK(w.c) /\ Quiet(c, w.c) /\ w.at \in Nodes
  BY WalkTypes DEF WalkOK
<1>1. CASE w.at = Root
  BY <1>1 DEF ParentOf
<1>2. CASE w.at # Root
  <2> DEFINE p == Parent[w.at]
             g == GetDEntry(w.c, p)
             d == PutDEntry(g, w.at)
             v == ParentOf(w)
  <2>1. p \in Nodes
    BY <1>0, <1>2, NodeFacts
  <2>2. CacheOK(g) /\ Quiet(w.c, g)
    BY <1>0, <2>1, GetKeepsCounts
  <2> HIDE DEF g
  <2>3. CacheOK(d) /\ Quiet(g, d)
    BY <1>0, <2>2, PutKeepsCounts
  <2>4. v = [w EXCEPT !.c = d, !.at = p]
    BY <1>2 DEF ParentOf, g
  <2> HIDE DEF d, v, p
  <2>5. d \in CacheType
    BY <2>3 DEF CacheOK
  <2>6. v \in WalkType /\ v.c = d
    BY <1>0, <2>1, <2>4, <2>5 DEF WalkType
  <2>7. WalkOK(c, v)
    BY <1>0, <2>2, <2>3, <2>6, QuietTrans DEF WalkOK
  <2> QED BY <2>7 DEF v
<1> QED BY <1>1, <1>2

LEMMA ParentOfSound ==
  ASSUME NEW c, NEW w, WalkOK(c, w), NEW E \in Counts, Sound(w.c, Plus(E, w.at))
  PROVE  Sound(ParentOf(w).c, Plus(E, ParentOf(w).at))
<1>0. w \in WalkType /\ CacheOK(w.c) /\ w.at \in Nodes
  BY WalkTypes DEF WalkOK
<1>1. CASE w.at = Root
  BY <1>1 DEF ParentOf
<1>2. CASE w.at # Root
  <2> DEFINE p == Parent[w.at]
             F == Plus(E, w.at)
             G == Plus(F, p)
             g == GetDEntry(w.c, p)
             d == PutDEntry(g, w.at)
  <2>1. p \in Nodes /\ p # w.at
    BY <1>0, <1>2, NodeFacts
  <2>2. \A m \in Nodes : E[m] \in Nat /\ F[m] = IF m = w.at THEN E[m] + 1 ELSE E[m]
    BY <1>0 DEF Plus, Counts
  <2>3. F \in Counts /\ Sound(w.c, F)
    BY <1>0 DEF Plus, Counts
  <2> HIDE DEF F
  <2>4. F[w.at] >= 1
    BY <1>0, <2>2
  <2>5. Cached(w.c, p)
    BY <1>0, <1>2, <2>3, <2>4, PointedIsCached
  <2>6. Sound(g, G)
    BY <2>1, <2>3, <2>5, GetBalanced
  <2>7. G \in Counts /\ \A m \in Nodes : G[m] = IF m = p THEN F[m] + 1 ELSE F[m]
    BY <2>1, <2>3 DEF Plus, Counts
  <2> HIDE DEF G, g
  <2>8. Sound(d, Minus(G, w.at))
    BY <1>0, <2>1, <2>4, <2>6, <2>7, PutBalanced
  <2>9. Minus(G, w.at) = Plus(E, p)
    <3>1. \A m \in Nodes : Minus(G, w.at)[m] = IF m = w.at THEN G[m] - 1 ELSE G[m]
      BY <2>7 DEF Minus, Counts
    <3>2. \A m \in Nodes : Plus(E, p)[m] = IF m = p THEN E[m] + 1 ELSE E[m]
      BY DEF Plus, Counts
    <3>3. \A m \in Nodes : Minus(G, w.at)[m] = Plus(E, p)[m]
      BY <2>1, <2>2, <2>7, <3>1, <3>2
    <3>4. DOMAIN Minus(G, w.at) = Nodes /\ DOMAIN Plus(E, p) = Nodes
      BY <2>7 DEF Minus, Plus, Counts
    <3>5. Minus(G, w.at) = [m \in Nodes |-> Minus(G, w.at)[m]] /\ Plus(E, p) = [m \in Nodes |-> Plus(E, p)[m]]
      BY <2>7 DEF Minus, Plus, Counts
    <3> QED BY <3>3, <3>5
  <2>10. ParentOf(w).c = d /\ ParentOf(w).at = p
    <3>1. ParentOf(w) = [w EXCEPT !.c = d, !.at = p]
      BY <1>2 DEF ParentOf, g
    <3> HIDE DEF d, p
    <3> QED BY <1>0, <3>1 DEF WalkType
  <2> QED BY <2>8, <2>9, <2>10
<1> QED BY <1>1, <1>2

LEMMA WalkStepOK ==
  ASSUME NEW c, NEW w, WalkOK(c, w), NEW step
  PROVE  /\ WalkOK(c, WalkStep(w, step))
         /\ \A E \in Counts : Sound(w.c, Plus(E, w.at)) =>
              Sound(WalkStep(w, step).c, Plus(E, WalkStep(w, step).at))
BY LookupKeepsCounts, LookupSound, ParentOfKeepsCounts, ParentOfSound DEF WalkStep

WalkStart(c, start) == [c |-> GetDEntry(c, start), at |-> start, ok |-> TRUE]

\* the walks along the first n steps
WalksUpto(w, steps, n, f) ==
  f = [k \in 0..n |-> IF k = 0 THEN w ELSE WalkStep(f[k - 1], steps[k])]

LEMMA WalksExist ==
  ASSUME NEW w, NEW steps \in Seq(STRING)
  PROVE  \E f : WalksUpto(w, steps, Len(steps), f)
<1> DEFINE B == {n \in 0..Len(steps) : \A f : ~WalksUpto(w, steps, n, f)}
<1>1. Len(steps) \in Nat
  OBVIOUS
<1>2. SUFFICES ASSUME B # {} PROVE FALSE
  BY <1>1
<1>3. B \in SUBSET Nat
  BY <1>1
<1>4. PICK n \in B : \A m \in B : n <= m
  <2> HIDE DEF B
  <2> QED BY <1>2, <1>3, LeastNatural
<1>5. CASE n = 0
  <2>1. WalksUpto(w, steps, 0, [k \in 0..0 |-> w])
    BY DEF WalksUpto
  <2> QED BY <1>4, <1>5, <2>1
<1>6. CASE n # 0
  <2>1. n - 1 \in 0..Len(steps) /\ ~(n <= n - 1) /\ n \in 0..Len(steps) /\ n \in Nat
    BY <1>1, <1>6
  <2>2. PICK g : WalksUpto(w, steps, n - 1, g)
    BY <1>4, <2>1
  <2>3. \A k \in 0..(n - 1) : g[k] = IF k = 0 THEN w ELSE WalkStep(g[k - 1], steps[k])
    BY <2>2, Zenon DEF WalksUpto
  <2> DEFINE f == [k \in 0..n |-> IF k = n THEN WalkStep(g[n - 1], steps[n]) ELSE g[k]]
  <2>4. (\A k \in 0..(n - 1) : f[k] = g[k]) /\ f[n] = WalkStep(g[n - 1], steps[n])
    BY <2>1
  <2>d. f = [k \in 0..n |-> f[k]]
    OBVIOUS
  <2> HIDE DEF f
  <2>5. ASSUME NEW k \in 0..n
        PROVE  f[k] = IF k = 0 THEN w ELSE WalkStep(f[k - 1], steps[k])
    <3>1. CASE k = n
      <4>1. n - 1 \in 0..(n - 1) /\ k # 0
        BY <1>6, <2>1, <3>1
      <4> QED BY <2>4, <3>1, <4>1
    <3>2. CASE k # n /\ k # 0
      <4>1. k \in 0..(n - 1) /\ k - 1 \in 0..(n - 1)
        BY <2>1, <3>2
      <4>2. f[k] = g[k] /\ f[k - 1] = g[k - 1]
        BY <2>4, <4>1
      <4> QED BY <2>3, <3>2, <4>1, <4>2
    <3>3. CASE k # n /\ k = 0
      <4>1. k \in 0..(n - 1)
        BY <2>1, <3>3
      <4> QED BY <2>3, <2>4, <3>3, <4>1
    <3> QED BY <3>1, <3>2, <3>3
  <2>6. WalksUpto(w, steps, n, f)
    BY <2>5, <2>d DEF WalksUpto
  <2> QED BY <1>4, <2>6
<1> QED BY <1>5, <1>6

\* After the walk, whether it found the entry or not, the counts are those of
\* the pointers, with one for the entry that was found.
LEMMA WalkSound ==
  ASSUME NEW c, CacheOK(c), NEW start \in Nodes, NEW steps \in Seq(STRING)
  PROVE  LET w == Walk(c, start, steps)
         IN  /\ WalkOK(c, w)
             /\ \A E \in Counts : Sound(c, E) /\ Cached(c, start) =>
                  Sound(w.c, IF w.ok THEN Plus(E, w.at) ELSE E)
<1> DEFINE w0 == WalkStart(c, start)
           L == Len(steps)
           after == CHOOSE f : WalksUpto(w0, steps, L, f)
<1>1. WalksUpto(w0, steps, L, after)
  BY WalksExist
<1>2. Walk(c, start, steps) =
        IF after[L].ok THEN after[L] ELSE [after[L] EXCEPT !.c = PutDEntry(@, after[L].at)]
  BY Zenon DEF Walk, WalksUpto, WalkStart
<1> HIDE DEF after
<1>n. L \in Nat
  OBVIOUS
<1>3. L \in Nat /\ \A k \in 0..L : after[k] = IF k = 0 THEN w0 ELSE WalkStep(after[k - 1], steps[k])
  <2> HIDE DEF w0, L
  <2> QED BY <1>1, <1>n, Zenon DEF WalksUpto
<1> DEFINE Fine(w) == /\ WalkOK(c, w)
                      /\ \A E \in Counts : Sound(c, E) /\ Cached(c, start) => Sound(w.c, Plus(E, w.at))
           B == {k \in 0..L : ~Fine(after[k])}
<1>4. Fine(w0)
  <2>1. CacheOK(GetDEntry(c, start)) /\ Quiet(c, GetDEntry(c, start))
    BY GetKeepsCounts
  <2>2. w0.c = GetDEntry(c, start) /\ w0.at = start
    BY DEF WalkStart
  <2>3. w0 \in WalkType
    BY <2>1 DEF WalkStart, WalkType, CacheOK
  <2> QED BY <2>1, <2>2, <2>3, GetBalanced DEF WalkOK
<1>5. ASSUME NEW w, Fine(w), NEW step PROVE Fine(WalkStep(w, step))
  BY <1>5, WalkStepOK
<1> HIDE DEF Fine, w0
<1>6. B = {}
  <2> SUFFICES ASSUME B # {} PROVE FALSE
    OBVIOUS
  <2>1. B \in SUBSET Nat
    BY <1>3
  <2>2. PICK n \in B : \A m \in B : n <= m
    <3> HIDE DEF B
    <3> QED BY <2>1, LeastNatural
  <2>3. n \in 0..L /\ ~Fine(after[n])
    BY <2>2
  <2>4. n # 0
    BY <1>3, <1>4, <2>3
  <2>5. n - 1 \in 0..L /\ ~(n <= n - 1)
    BY <1>3, <2>3, <2>4
  <2>6. Fine(after[n - 1])
    BY <2>2, <2>5
  <2> QED BY <1>3, <1>5, <2>3, <2>4, <2>6
<1>7. Fine(after[L])
  <2>1. L \in 0..L
    BY <1>3
  <2> QED BY <1>6, <2>1
<1> DEFINE v == after[L]
<1>8. v \in WalkType /\ CacheOK(v.c) /\ Quiet(c, v.c) /\ v.at \in Nodes
  BY <1>7, WalkTypes DEF Fine, WalkOK
<1> HIDE DEF L
<1>9. CASE v.ok
  BY <1>2, <1>7, <1>9 DEF Fine
<1>10. CASE ~v.ok
  <2> DEFINE d == PutDEntry(v.c, v.at)
             w == [v EXCEPT !.c = d]
  <2>1. CacheOK(d) /\ Quiet(v.c, d)
    BY <1>8, PutKeepsCounts
  <2>2. w \in WalkType /\ w.c = d /\ ~w.ok
    BY <1>8, <1>10, <2>1 DEF WalkType, CacheOK
  <2>3. WalkOK(c, w)
    BY <1>8, <2>1, <2>2, QuietTrans DEF WalkOK
  <2>4. ASSUME NEW E \in Counts, Sound(c, E), Cached(c, start) PROVE Sound(d, E)
    <3> DEFINE F == Plus(E, v.at)
    <3>1. Sound(v.c, F)
      BY <1>7, <2>4 DEF Fine
    <3>2. F \in Counts /\ F[v.at] >= 1 /\ Minus(F, v.at) = E
      BY <1>8, PlusMinus
    <3> HIDE DEF F
    <3>3. Sound(d, Minus(F, v.at))
      BY <1>8, <3>1, <3>2, PutBalanced
    <3> QED BY <3>2, <3>3
  <2>5. Walk(c, start, steps) = w
    BY <1>2, <1>10
  <2> HIDE DEF w, d
  <2> QED BY <2>2, <2>3, <2>4, <2>5
<1> QED BY <1>9, <1>10-----------------------------------------------------------------------------
(* Who holds which lock, and what a thread in a call has in its hands.     *)

Opening == {"volume", "label", "uuid", "enter"}

Steps == Closing \cup Opening \cup {"idle", "store", "close", "use", "get new"}

Kinds == {"open", "stat", "cd"}

\* the call of t goes with the step it is at
InCall(t) ==
  /\ pc[t] \in Opening => job[t] \in [op : Kinds, request : Requests]
  /\ pc[t] = "store" => job[t] \in [op : Kinds, file : Files]
  /\ pc[t] \in Opening \cup {"store"} =>
       (job[t].op = "open" => t \in Users) /\ (job[t].op = "cd" => t = Shell)
  /\ pc[t] = "get new" => t = Shell /\ job[t].file \in Files
  /\ pc[t] = "close" =>
       t \in Users /\ job[t] \in [op : {"close"}, slot : Slots, file : Files]
  /\ pc[t] = "use" => t \in Users /\ job[t].file \in Files
  /\ pc[t] \in Closing => t = Shell

HoldsProcess(t) ==
  \/ pc[t] = "close"
  \/ pc[t] \in Opening \cup {"store"} /\ job[t].op = "open"

TableTyped == fds \in [Slots -> Files \cup {NoFile}]

Calls ==
  /\ pc \in [Threads -> Steps] /\ DOMAIN job = Threads
  /\ \A t \in Threads : InCall(t)

ProcessLocked ==
  /\ procLock \in Users \cup {NoOne}
  /\ \A t \in Threads : procLock = t <=> HoldsProcess(t)

VolumesLocked ==
  /\ volLock \in Threads \cup {NoOne}
  /\ volLock # NoOne => pc[volLock] \in {"label", "uuid", "enter"}

FilesLocked ==
  /\ fsLock \in {Shell, NoOne} /\ mounted \in BOOLEAN
  /\ fsLock = Shell => pc[Shell] = "flush"
  /\ mounted => pc[Shell] \notin {"flush", "off"}

Locking == Calls /\ ProcessLocked /\ VolumesLocked /\ FilesLocked

\* Only the call of t goes on.
Moves(t, where) ==
  /\ pc' = [pc EXCEPT ![t] = where]
  /\ DOMAIN job' = Threads /\ \A u \in Threads \ {t} : job'[u] = job[u]

LEMMA ThreadNames ==
  /\ NoOne \notin Threads /\ Shell \notin Users /\ Shell \in Threads /\ NoOne \notin Users
  /\ \A t \in Users : t \in Threads
  /\ \A t \in Threads : t # NoOne
BY FileSystemAssumption DEF Threads

LEMMA CallsMove ==
  ASSUME Calls, NEW t \in Threads, NEW w \in Steps, Moves(t, w), InCall(t)'
  PROVE  Calls' /\ pc'[t] = w /\ \A u \in Threads \ {t} : pc'[u] = pc[u]
<1>1. pc'[t] = w /\ \A u \in Threads \ {t} : pc'[u] = pc[u]
  BY DEF Calls, Moves
<1>2. pc' \in [Threads -> Steps] /\ DOMAIN job' = Threads
  BY DEF Calls, Moves
<1>3. ASSUME NEW u \in Threads \ {t} PROVE InCall(u)'
  <2>1. InCall(u) /\ pc'[u] = pc[u] /\ job'[u] = job[u]
    BY <1>1, <1>3 DEF Calls, Moves
  <2> QED BY <2>1 DEF InCall
<1> QED BY <1>1, <1>2, <1>3 DEF Calls

\* The lock of the process: kept, taken or given back by t.

LEMMA ProcessMove ==
  ASSUME Calls, ProcessLocked, NEW t \in Threads, NEW w \in Steps, Moves(t, w),
         procLock' = t <=> HoldsProcess(t)',
         \/ procLock' = procLock
         \/ procLock = NoOne /\ procLock' = t /\ t \in Users
         \/ procLock = t /\ procLock' = NoOne
  PROVE  ProcessLocked'
<1>1. procLock' \in Users \cup {NoOne}
  BY DEF ProcessLocked
<1>2. ASSUME NEW u \in Threads \ {t} PROVE procLock' = u <=> HoldsProcess(u)'
  <2>1. HoldsProcess(u)' <=> HoldsProcess(u)
    BY DEF Calls, Moves, HoldsProcess
  <2>2. procLock' = u <=> procLock = u
    BY ThreadNames
  <2> QED BY <2>1, <2>2 DEF ProcessLocked
<1> QED BY <1>1, <1>2 DEF ProcessLocked

\* The lock of the volumes: free, or taken by t, or kept while t does not move
\* out of its reach.

LEMMA VolumesMove ==
  ASSUME Calls, VolumesLocked, NEW t \in Threads, NEW w \in Steps, Moves(t, w),
         \/ volLock' = NoOne
         \/ volLock' \in {t, volLock} /\ w \in {"label", "uuid", "enter"}
         \/ volLock' = volLock /\ volLock # t
  PROVE  VolumesLocked'
BY ThreadNames DEF Calls, Moves, VolumesLocked

LEMMA FilesMove ==
  ASSUME Calls, FilesLocked, NEW t \in Threads, NEW w \in Steps, Moves(t, w),
         fsLock' = fsLock, mounted' = mounted, t = Shell => w \notin {"flush", "off"},
         fsLock = Shell => t # Shell
  PROVE  FilesLocked'
BY ThreadNames DEF Calls, Moves, FilesLocked

LEMMA LockingInit == Init => Locking
<1> SUFFICES ASSUME Init PROVE Locking
  OBVIOUS
<1>1. Calls
  BY DEF Init, Calls, InCall, Steps, Opening, Closing
<1>2. ProcessLocked
  BY ThreadNames DEF Init, ProcessLocked, HoldsProcess, Opening, NoJob
<1>3. VolumesLocked /\ FilesLocked
  BY ThreadNames DEF Init, VolumesLocked, FilesLocked
<1> QED BY <1>1, <1>2, <1>3 DEF Locking

LEMMA BeginLocking ==
  ASSUME Locking, TableTyped, NEW t \in Threads, pc[t] = "idle"
  PROVE  /\ \A r \in Requests : SysOpen(t, r) => Locking'
         /\ \A r \in Requests, op \in {"stat", "cd"} : OpenBriefly(t, r, op) => Locking'
         /\ \A s \in Slots : SysClose(t, s) \/ GetFileDescriptor(t, s) => Locking'
<1> USE DEF Locking
<1>0. volLock # t /\ fsLock # t /\ procLock # t
  BY ThreadNames DEF VolumesLocked, FilesLocked, ProcessLocked, HoldsProcess, Opening
<1>v. ASSUME NEW w \in Steps, Moves(t, w), volLock' = volLock PROVE VolumesLocked'
  BY <1>0, <1>v, VolumesMove
<1>f. ASSUME NEW w \in Steps \ {"flush", "off"}, Moves(t, w), fsLock' = fsLock, mounted' = mounted
      PROVE FilesLocked'
  BY <1>0, <1>f, FilesMove, ThreadNames
<1>1. ASSUME NEW r \in Requests, SysOpen(t, r) PROVE Locking'
  <2>1. Moves(t, "volume") /\ job'[t] = [op |-> "open", request |-> r] /\ "volume" \in Steps
        /\ t \in Users /\ procLock = NoOne /\ procLock' = t
    BY <1>1 DEF SysOpen, Begin, Ready, Free, Goto, Moves, Calls, Steps, Opening
  <2>2. pc'[t] = "volume"
    BY <2>1 DEF Moves, Calls
  <2>3. InCall(t)'
    BY <2>1, <2>2 DEF InCall, Closing, Opening, Kinds
  <2>4. Calls'
    BY <2>1, <2>3, CallsMove
  <2>5. ProcessLocked'
    BY <2>1, <2>2, ProcessMove DEF HoldsProcess, Opening
  <2> QED BY <1>1, <1>v, <1>f, <2>1, <2>4, <2>5 DEF SysOpen, System
<1>2. ASSUME NEW r \in Requests, NEW op \in {"stat", "cd"}, OpenBriefly(t, r, op) PROVE Locking'
  <2>1. Moves(t, "volume") /\ job'[t] = [op |-> op, request |-> r] /\ "volume" \in Steps
        /\ (op = "cd" => t = Shell) /\ procLock' = procLock
    BY <1>2 DEF OpenBriefly, Goto, Moves, Calls, Steps, Opening, Locks
  <2>2. pc'[t] = "volume"
    BY <2>1 DEF Moves, Calls
  <2>3. InCall(t)'
    BY <2>1, <2>2 DEF InCall, Closing, Opening, Kinds
  <2>4. Calls'
    BY <2>1, <2>3, CallsMove
  <2>5. ~HoldsProcess(t)'
    BY <2>1, <2>2 DEF HoldsProcess
  <2>6. ProcessLocked'
    BY <2>1, <2>5, <1>0, ProcessMove
  <2> QED BY <1>2, <1>v, <1>f, <2>1, <2>4, <2>6 DEF OpenBriefly, System, Locks
<1>3. ASSUME NEW s \in Slots, SysClose(t, s) PROVE Locking'
  <2>1. Moves(t, "close") /\ job'[t] = [op |-> "close", slot |-> s, file |-> fds[s]]
        /\ "close" \in Steps /\ t \in Users /\ procLock = NoOne /\ procLock' = t
        /\ fds[s] \in Files
    BY <1>3 DEF SysClose, Free, Goto, Moves, Calls, Steps, TableTyped
  <2>2. pc'[t] = "close"
    BY <2>1 DEF Moves, Calls
  <2>3. InCall(t)'
    BY <2>1, <2>2 DEF InCall, Closing, Opening
  <2>4. Calls'
    BY <2>1, <2>3, CallsMove
  <2>5. ProcessLocked'
    BY <2>1, <2>2, ProcessMove DEF HoldsProcess
  <2> QED BY <1>3, <1>v, <1>f, <2>1, <2>4, <2>5 DEF SysClose, System
<1>4. ASSUME NEW s \in Slots, GetFileDescriptor(t, s) PROVE Locking'
  <2>1. Moves(t, "use") /\ job'[t] = [op |-> "use", file |-> fds[s]]
        /\ "use" \in Steps /\ t \in Users /\ procLock' = procLock /\ fds[s] \in Files
    BY <1>4 DEF GetFileDescriptor, Goto, Moves, Calls, Steps, Locks, TableTyped
  <2>2. pc'[t] = "use"
    BY <2>1 DEF Moves, Calls
  <2>3. InCall(t)'
    BY <2>1, <2>2 DEF InCall, Closing, Opening
  <2>4. Calls'
    BY <2>1, <2>3, CallsMove
  <2>5. ~HoldsProcess(t)'
    BY <2>2 DEF HoldsProcess, Opening
  <2>6. ProcessLocked'
    BY <2>1, <2>5, <1>0, ProcessMove
  <2> QED BY <1>4, <1>v, <1>f, <2>1, <2>4, <2>6 DEF GetFileDescriptor, System, Locks
<1> QED BY <1>1, <1>2, <1>3, <1>4

LEMMA GivenBack ==
  ASSUME NEW t \in Threads, Refused(t)
  PROVE  procLock' # t /\ (procLock' = procLock \/ (procLock = t /\ procLock' = NoOne))
<1>1. procLock' = IF procLock = t THEN NoOne ELSE procLock
  BY DEF Refused
<1>2. t # NoOne
  BY ThreadNames
<1>3. CASE procLock = t
  BY <1>1, <1>2, <1>3
<1>4. CASE procLock # t
  BY <1>1, <1>4
<1> QED BY <1>3, <1>4

\* a call is over, or a failed open gives the lock of the process back

LEMMA CallEnds ==
  ASSUME Locking, NEW t \in Threads,
         \/ Finish(t) /\ procLock' = NoOne /\ procLock = t
         \/ Finish(t) /\ procLock' = procLock /\ procLock # t
         \/ Refused(t)
  PROVE  Moves(t, "idle") /\ Calls' /\ ProcessLocked'
<1> USE DEF Locking
<1>1. Moves(t, "idle") /\ job'[t] = NoJob /\ "idle" \in Steps
  BY DEF Refused, Finish, Goto, Moves, Calls, Steps
<1>2. pc'[t] = "idle"
  BY <1>1 DEF Moves, Calls
<1>3. InCall(t)'
  BY <1>2 DEF InCall, Opening, Closing
<1>4. Calls'
  BY <1>1, <1>3, CallsMove
<1>5. ~HoldsProcess(t)'
  BY <1>2 DEF HoldsProcess, Opening
<1>6. CASE Finish(t) /\ ((procLock = t /\ procLock' = NoOne) \/ (procLock # t /\ procLock' = procLock))
  BY <1>1, <1>4, <1>5, <1>6, ThreadNames, ProcessMove
<1>7. CASE Refused(t)
  BY <1>1, <1>4, <1>5, <1>7, GivenBack, ProcessMove
<1> QED BY <1>6, <1>7

LEMMA ContinueLocking ==
  ASSUME Locking, NEW t \in Threads, Continue(t)
  PROVE  Locking'
<1> USE DEF Locking
<1>0. InCall(t) /\ pc[t] \in Steps
  BY DEF Calls
<1>p. procLock = t <=> HoldsProcess(t)
  BY DEF ProcessLocked
<1>k. fsLock = Shell => t # Shell \/ pc[t] = "flush"
  BY DEF FilesLocked
<1>f. ASSUME NEW w \in Steps \ {"flush", "off"}, Moves(t, w), UNCHANGED <<fsLock, mounted>>,
             pc[t] # "flush"
      PROVE FilesLocked'
  BY <1>k, <1>f, FilesMove
<1>1. CASE LockVolumes(t)
  <2>0. pc[t] = "volume" /\ UNCHANGED <<fsLock, mounted>>
        /\ job[t] \in [op : Kinds, request : Requests]
    BY <1>0, <1>1 DEF LockVolumes, System, InCall, Opening
  <2>1. CASE ~mounted
    <3>1. Refused(t) /\ volLock' = volLock
      BY <1>1, <2>1 DEF LockVolumes
    <3>2. Moves(t, "idle") /\ Calls' /\ ProcessLocked'
      BY <3>1, CallEnds
    <3>3. volLock # t
      BY <2>0, ThreadNames DEF VolumesLocked
    <3>4. VolumesLocked'
      BY <3>1, <3>2, <3>3, VolumesMove DEF Steps
    <3> QED BY <2>0, <3>2, <3>4, <1>f DEF Steps
  <2>2. CASE mounted
    <3>1. PICK w \in {"label", "uuid", "enter"} : Goto(t, w)
      BY <1>1, <2>2 DEF LockVolumes
    <3>2. Moves(t, w) /\ job' = job /\ procLock' = procLock /\ volLock' = t /\ w \in Steps
      BY <1>1, <2>2, <3>1 DEF LockVolumes, Goto, Moves, Calls, Steps, Opening
    <3>3. pc'[t] = w
      BY <3>2 DEF Moves, Calls
    <3>4. InCall(t)' /\ (HoldsProcess(t)' <=> HoldsProcess(t))
      BY <1>0, <2>0, <3>2, <3>3 DEF InCall, Opening, Closing, HoldsProcess
    <3>5. Calls' /\ ProcessLocked'
      BY <1>p, <3>2, <3>4, CallsMove, ProcessMove
    <3>6. VolumesLocked'
      BY <3>2, VolumesMove
    <3> QED BY <2>0, <3>2, <3>5, <3>6, <1>f
  <2> QED BY <2>1, <2>2
<1>2. CASE FindLabel(t)
  <2>1. pc[t] = "label" /\ Moves(t, "enter") /\ job' = job /\ "enter" \in Steps
        /\ procLock' = procLock /\ volLock' = volLock /\ UNCHANGED <<fsLock, mounted>>
    BY <1>2 DEF FindLabel, Goto, Moves, Calls, Steps, Opening, Locks, System
  <2>2. pc'[t] = "enter"
    BY <2>1 DEF Moves, Calls
  <2>3. InCall(t)' /\ (HoldsProcess(t)' <=> HoldsProcess(t))
    BY <1>0, <2>1, <2>2 DEF InCall, Opening, Closing, HoldsProcess
  <2>4. Calls' /\ ProcessLocked'
    BY <1>p, <2>1, <2>3, CallsMove, ProcessMove
  <2>5. VolumesLocked'
    BY <2>1, VolumesMove
  <2> QED BY <2>1, <2>4, <2>5, <1>f
<1>3. CASE FindUUID(t)
  <2>1. UNCHANGED <<pc, job, procLock, volLock, fsLock, mounted>>
    BY <1>3 DEF FindUUID, Locks, System
  <2> QED BY <2>1 DEF Calls, InCall, ProcessLocked, HoldsProcess, VolumesLocked, FilesLocked
<1>4. CASE OpenFile(t)
  <2> DEFINE r == job[t].request
             start == IF r.volume = "none" THEN cwd[ProcessOf(t)] ELSE Root
             w == Walk(cache, start, r.steps)
             e == OpenEntry(w, r)
  <2>0. pc[t] = "enter" /\ UNCHANGED <<fsLock, mounted>> /\ volLock' = NoOne
    BY <1>4 DEF OpenFile, System
  <2>1. \/ OpenFault(w, r) # "none" /\ UNCHANGED <<procLock, pc, job>>
        \/ Refused(t)
        \/ \E f \in Files : /\ job' = [job EXCEPT ![t] = [op |-> @.op, file |-> f]]
                            /\ Goto(t, "store") /\ procLock' = procLock
    BY <1>4 DEF OpenFile, Spare
  <2>2. CASE UNCHANGED <<procLock, pc, job>>
    BY <2>0, <2>2 DEF Calls, InCall, ProcessLocked, HoldsProcess, VolumesLocked, FilesLocked
  <2>3. CASE Refused(t)
    <3>1. Moves(t, "idle") /\ Calls' /\ ProcessLocked'
      BY <2>3, CallEnds
    <3>2. VolumesLocked'
      BY <2>0, <3>1, VolumesMove DEF Steps
    <3> QED BY <2>0, <3>1, <3>2, <1>f DEF Steps
  <2>4. ASSUME NEW f \in Files, job' = [job EXCEPT ![t] = [op |-> @.op, file |-> f]],
               Goto(t, "store"), procLock' = procLock
        PROVE  Locking'
    <3>1. Moves(t, "store") /\ job'[t] = [op |-> job[t].op, file |-> f] /\ "store" \in Steps
      BY <2>4 DEF Goto, Moves, Calls, Steps
    <3>2. pc'[t] = "store"
      BY <3>1 DEF Moves, Calls
    <3>3. InCall(t)' /\ (HoldsProcess(t)' <=> HoldsProcess(t))
      BY <1>0, <2>0, <2>4, <3>1, <3>2 DEF InCall, Opening, Closing, HoldsProcess
    <3>4. Calls' /\ ProcessLocked'
      BY <1>p, <2>4, <3>1, <3>3, CallsMove, ProcessMove
    <3>5. VolumesLocked'
      BY <2>0, <3>1, VolumesMove
    <3> QED BY <2>0, <3>1, <3>4, <3>5, <1>f
  <2> QED BY <2>1, <2>2, <2>3, <2>4
<1>5. CASE StoreFile(t) \/ CloseFile(t)
  <2>1. pc[t] \in {"store", "close"} /\ HoldsProcess(t) /\ Finish(t) /\ procLock' = NoOne
        /\ volLock' = volLock /\ UNCHANGED <<fsLock, mounted>>
    BY <1>5 DEF StoreFile, CloseFile, HoldsProcess, System
  <2>2. Moves(t, "idle") /\ Calls' /\ ProcessLocked'
    BY <1>p, <2>1, CallEnds
  <2>3. volLock # t
    BY <2>1, ThreadNames DEF VolumesLocked
  <2>4. VolumesLocked'
    BY <2>1, <2>2, <2>3, VolumesMove DEF Steps
  <2> QED BY <2>1, <2>2, <2>4, <1>f DEF Steps
<1>6. CASE CloseBriefly(t) \/ ReadOrWrite(t)
  <2>1. pc[t] \in {"store", "use"} /\ ~HoldsProcess(t) /\ Finish(t) /\ procLock' = procLock
        /\ volLock' = volLock /\ UNCHANGED <<fsLock, mounted>>
    BY <1>6 DEF CloseBriefly, ReadOrWrite, HoldsProcess, System, Locks, Opening
  <2>2. Moves(t, "idle") /\ Calls' /\ ProcessLocked'
    BY <1>p, <2>1, CallEnds
  <2>3. volLock # t
    BY <2>1, ThreadNames DEF VolumesLocked
  <2>4. VolumesLocked'
    BY <2>1, <2>2, <2>3, VolumesMove DEF Steps
  <2> QED BY <2>1, <2>2, <2>4, <1>f DEF Steps
<1> QED BY <1>1, <1>2, <1>3, <1>4, <1>5, <1>6 DEF Continue

LEMMA ShellLocking ==
  ASSUME Locking, ShellStep
  PROVE  Locking'
<1> USE DEF Locking
<1>0. InCall(Shell) /\ pc[Shell] \in Steps /\ Shell \in Threads
  BY ThreadNames DEF Calls
<1>p. procLock # Shell /\ ~HoldsProcess(Shell)
  BY ThreadNames DEF ProcessLocked
<1>v. ASSUME NEW w \in Steps, Moves(Shell, w), volLock' = volLock,
             pc[Shell] \notin {"label", "uuid", "enter"}
      PROVE VolumesLocked'
  BY <1>0, <1>v, VolumesMove, ThreadNames DEF VolumesLocked
<1>c. ASSUME NEW w \in Closing, Goto(Shell, w), UNCHANGED <<job, procLock, volLock>>,
             pc[Shell] \notin {"label", "uuid", "enter"}
      PROVE Calls' /\ ProcessLocked' /\ VolumesLocked'
  <2>1. Moves(Shell, w) /\ w \in Steps
    BY <1>c DEF Goto, Moves, Calls, Steps
  <2>2. pc'[Shell] = w
    BY <1>0, <2>1 DEF Moves, Calls
  <2>3. InCall(Shell)' /\ ~HoldsProcess(Shell)'
    BY <2>2 DEF InCall, Opening, Closing, HoldsProcess
  <2>4. Calls' /\ ProcessLocked'
    BY <1>0, <1>c, <1>p, <2>1, <2>3, CallsMove, ProcessMove
  <2> QED BY <1>c, <1>v, <2>1, <2>4
<1>1. CASE PutOldDirectory
  <2>1. pc[Shell] = "store" /\ Moves(Shell, "get new") /\ job' = job /\ "get new" \in Steps
        /\ UNCHANGED <<procLock, volLock, fsLock, mounted>>
    BY <1>1 DEF PutOldDirectory, Goto, Moves, Calls, Steps, Locks
  <2>2. pc'[Shell] = "get new"
    BY <1>0, <2>1 DEF Moves, Calls
  <2>3. InCall(Shell)' /\ ~HoldsProcess(Shell)'
    BY <1>0, <2>1, <2>2 DEF InCall, Opening, Closing, HoldsProcess
  <2>4. Calls' /\ ProcessLocked'
    BY <1>0, <1>p, <2>1, <2>3, CallsMove, ProcessMove
  <2>5. FilesLocked'
    BY <1>0, <2>1, FilesMove DEF FilesLocked
  <2> QED BY <1>v, <2>1, <2>4, <2>5
<1>2. CASE GetNewDirectory
  <2>1. pc[Shell] = "get new" /\ Finish(Shell) /\ UNCHANGED <<procLock, volLock, fsLock, mounted>>
    BY <1>2 DEF GetNewDirectory, Locks
  <2>2. Moves(Shell, "idle") /\ Calls' /\ ProcessLocked'
    BY <1>0, <1>p, <2>1, CallEnds
  <2>3. FilesLocked'
    BY <1>0, <2>1, <2>2, FilesMove DEF FilesLocked, Steps
  <2> QED BY <1>v, <2>1, <2>2, <2>3 DEF Steps
<1>3. CASE StartProcess \/ EndProcess \/ \E n \in Nodes : Unlink(n)
  <2>1. UNCHANGED <<pc, job, procLock, volLock, fsLock, mounted>>
    BY <1>3 DEF StartProcess, EndProcess, Unlink, Locks
  <2> QED BY <2>1 DEF Calls, InCall, ProcessLocked, HoldsProcess, VolumesLocked, FilesLocked
<1>4. ASSUME NEW from \in {"idle", "put directory", "synchronize"},
             NEW to \in {"put directory", "synchronize", "clean up"},
             pc[Shell] = from, Goto(Shell, to), UNCHANGED <<job, procLock, volLock, fsLock, mounted>>
      PROVE  Locking'
  <2>1. Calls' /\ ProcessLocked' /\ VolumesLocked'
    BY <1>4, <1>c DEF Closing
  <2>2. FilesLocked'
    BY <1>0, <1>4 DEF FilesLocked, Goto, Calls
  <2> QED BY <2>1, <2>2
<1>5. CASE Ready(Shell) /\ PutShellDirectory("idle", "put directory")
  BY <1>4, <1>5 DEF PutShellDirectory, Locks, System
<1>6. CASE PutShellDirectory("put directory", "synchronize")
  BY <1>4, <1>6 DEF PutShellDirectory, Locks, System
<1>7. CASE SynchronizeAll
  BY <1>4, <1>7 DEF SynchronizeAll, Locks, System
<1>8. CASE Cleanup
  <2>1. pc[Shell] = "clean up" /\ Goto(Shell, "flush") /\ UNCHANGED <<job, procLock, volLock>>
        /\ fsLock' = Shell /\ mounted' = FALSE
    BY <1>8 DEF Cleanup
  <2>2. Calls' /\ ProcessLocked' /\ VolumesLocked'
    BY <2>1, <1>c DEF Closing
  <2>3. FilesLocked'
    BY <1>0, <2>1 DEF FilesLocked, Goto, Calls
  <2> QED BY <2>2, <2>3
<1>9. CASE FlushAndDrop
  <2>1. pc[Shell] = "flush" /\ Goto(Shell, "off") /\ UNCHANGED <<job, procLock, volLock, mounted>>
        /\ fsLock' = NoOne
    BY <1>9 DEF FlushAndDrop, System
  <2>2. Calls' /\ ProcessLocked' /\ VolumesLocked'
    BY <2>1, <1>c DEF Closing
  <2>3. FilesLocked'
    BY <1>0, <2>1, ThreadNames DEF FilesLocked, Goto, Calls
  <2> QED BY <2>2, <2>3
<1> QED BY <1>1, <1>2, <1>3, <1>5, <1>6, <1>7, <1>8, <1>9 DEF ShellStep

LEMMA LockingStep ==
  ASSUME Locking, TableTyped, Next
  PROVE  Locking'
<1>1. ASSUME NEW t \in Threads, NEW r \in Requests, SysOpen(t, r) PROVE Locking'
  BY <1>1, BeginLocking DEF SysOpen, Begin, Ready
<1>2. ASSUME NEW t \in Threads, NEW r \in Requests, NEW op \in {"stat", "cd"},
             OpenBriefly(t, r, op)
      PROVE  Locking'
  BY <1>2, BeginLocking DEF OpenBriefly, Begin, Ready
<1>3. ASSUME NEW t \in Threads, NEW s \in Slots, SysClose(t, s) PROVE Locking'
  BY <1>3, BeginLocking DEF SysClose, Ready
<1>4. ASSUME NEW t \in Threads, NEW s \in Slots, GetFileDescriptor(t, s) PROVE Locking'
  BY <1>4, BeginLocking DEF GetFileDescriptor, Ready
<1>5. ASSUME NEW t \in Threads, Continue(t) PROVE Locking'
  BY <1>5, ContinueLocking
<1>6. ASSUME ShellStep PROVE Locking'
  BY <1>6, ShellLocking
<1> QED BY <1>1, <1>2, <1>3, <1>4, <1>5, <1>6 DEF Next

LEMMA TableStep ==
  ASSUME Locking, TableTyped, Next
  PROVE  TableTyped'
<1> USE DEF TableTyped
<1>1. ASSUME NEW t \in Threads, Continue(t) PROVE TableTyped'
  <2>0. InCall(t)
    BY DEF Locking, Calls
  <2>1. CASE StoreFile(t)
    <3>1. job[t].file \in Files
      BY <2>0, <2>1 DEF StoreFile, InCall
    <3> QED BY <2>1, <3>1 DEF StoreFile
  <2>2. CASE CloseFile(t)
    BY <2>2 DEF CloseFile
  <2>3. CASE LockVolumes(t) \/ FindLabel(t) \/ FindUUID(t) \/ OpenFile(t) \/ CloseBriefly(t) \/ ReadOrWrite(t)
    BY <2>3 DEF LockVolumes, FindLabel, FindUUID, OpenFile, CloseBriefly, ReadOrWrite
  <2> QED BY <1>1, <2>1, <2>2, <2>3 DEF Continue
<1>2. ASSUME ShellStep PROVE TableTyped'
  <2>1. CASE EndProcess
    BY <2>1 DEF EndProcess
  <2>2. CASE ~EndProcess
    BY <1>2, <2>2 DEF ShellStep, PutOldDirectory, GetNewDirectory, StartProcess, Unlink, PutShellDirectory, SynchronizeAll, Cleanup, FlushAndDrop
  <2> QED BY <2>1, <2>2
<1> QED BY <1>1, <1>2 DEF Next, SysOpen, OpenBriefly, SysClose, GetFileDescriptor

\* Between the calls no lock is held, and before the shutdown a thread that a
\* call waits for waits for nobody (the locks that File::Open takes).

LEMMA LockingReturns == Locking => CallsCanReturn
<1> SUFFICES ASSUME Locking PROVE CallsCanReturn
  OBVIOUS
<1>1. ASSUME NEW t \in {procLock, volLock, fsLock} \ {NoOne} PROVE pc[t] # "idle"
  BY ThreadNames DEF Locking, ProcessLocked, HoldsProcess, VolumesLocked, FilesLocked, Opening
<1>2. ASSUME mounted, NEW t \in Threads, WaitsFor(t) # NoOne
      PROVE  WaitsFor(WaitsFor(t)) = NoOne
  <2>1. fsLock = NoOne
    BY <1>2 DEF Locking, FilesLocked
  <2>2. WaitsFor(t) = volLock /\ volLock # NoOne
    BY <1>2, <2>1 DEF WaitsFor
  <2>3. pc[volLock] \in {"label", "uuid", "enter"}
    BY <2>2 DEF Locking, VolumesLocked
  <2>4. WaitsFor(volLock) = NoOne
    BY <2>1, <2>3 DEF WaitsFor
  <2> QED BY <2>2, <2>4
<1> QED BY <1>1, <1>2 DEF CallsCanReturn

\* The locks of open files: each is held only in a call, and as long as the
\* volume is mounted nobody waits for a thread that waits itself (File::Open,
\* Process::Open, Cleanup).
THEOREM Returns == Spec => []CallsCanReturn
<1>1. Init => Locking /\ TableTyped
  BY LockingInit DEF Init, TableTyped
<1>2. Locking /\ TableTyped /\ [Next]_vars => (Locking /\ TableTyped)'
  <2>1. ASSUME Locking, TableTyped, UNCHANGED vars PROVE (Locking /\ TableTyped)'
    BY <2>1 DEF vars, Locking, TableTyped, Calls, InCall, ProcessLocked, HoldsProcess, VolumesLocked, FilesLocked
  <2> QED BY <2>1, LockingStep, TableStep
<1> QED BY <1>1, <1>2, LockingReturns, PTL DEF Spec

-----------------------------------------------------------------------------
(* Whose a File is.                                                        *)

\* a call that has opened a File and not yet passed it on
HasFile(t) == pc[t] \in {"store", "get new"}

OneDescriptor == \A s, u \in Slots : fds[s] = fds[u] /\ s # u => fds[s] = NoFile

DescriptorsLive ==
  \A s \in Slots : fds[s] # NoFile => files[fds[s]] # NoNode /\ fds[s] \notin full

CallsLive == \A t \in Threads : HasFile(t) =>
  /\ files[job[t].file] # NoNode /\ job[t].file \notin full
  /\ \A s \in Slots : fds[s] # job[t].file
  /\ \A u \in Threads : HasFile(u) /\ job[u].file = job[t].file => u = t

LostLive == full \subseteq Files /\ \A f \in full : files[f] # NoNode

Claimed(f) ==
  \/ f \in full
  \/ \E s \in Slots : fds[s] = f
  \/ \E t \in Threads : HasFile(t) /\ job[t].file = f

AllClaimed == \A f \in Files : files[f] # NoNode => Claimed(f)

ClosesItsSlot ==
  \A t \in Threads : pc[t] = "close" => fds[job[t].slot] = job[t].file

Owned ==
  /\ DOMAIN files = Files
  /\ OneDescriptor /\ DescriptorsLive /\ CallsLive /\ LostLive /\ AllClaimed
  /\ ClosesItsSlot

LEMMA OwnedInit == Init => Owned
<1> SUFFICES ASSUME Init PROVE Owned
  OBVIOUS
<1>1. DOMAIN files = Files /\ OneDescriptor /\ DescriptorsLive /\ LostLive /\ AllClaimed
  BY DEF Init, OneDescriptor, DescriptorsLive, LostLive, AllClaimed
<1>2. CallsLive /\ ClosesItsSlot
  BY DEF Init, CallsLive, ClosesItsSlot, HasFile
<1> QED BY <1>1, <1>2 DEF Owned

LEMMA OwnedIsOneOwner == Owned => FilesHaveOneOwner
<1> SUFFICES ASSUME Owned PROVE FilesHaveOneOwner
  OBVIOUS
<1>1. OneDescriptor /\ DescriptorsLive
  BY DEF Owned
<1>2. \A f \in Files : files[f] # NoNode =>
       \/ f \in full
       \/ \E s \in Slots : fds[s] = f
       \/ \E t \in Threads : pc[t] \in {"store", "get new"} /\ job[t].file = f
  BY DEF Owned, AllClaimed, Claimed, HasFile
<1> QED BY <1>1, <1>2 DEF OneDescriptor, DescriptorsLive, FilesHaveOneOwner

\* Steps that neither open nor close nor pass on a File.

LEMMA OwnedKept ==
  ASSUME Owned, UNCHANGED <<files, fds, full>>,
         \A t \in Threads : HasFile(t)' <=> HasFile(t),
         \A t \in Threads : HasFile(t) => job'[t].file = job[t].file,
         \A t \in Threads : pc'[t] = "close" => fds[job'[t].slot] = job'[t].file
  PROVE  Owned'
<1>1. (DOMAIN files = Files /\ OneDescriptor /\ DescriptorsLive /\ LostLive)'
  BY DEF Owned, OneDescriptor, DescriptorsLive, LostLive
<1>2. CallsLive'
  BY DEF Owned, CallsLive
<1>3. AllClaimed'
  BY DEF Owned, AllClaimed, Claimed
<1>4. ClosesItsSlot'
  BY DEF ClosesItsSlot
<1> QED BY <1>1, <1>2, <1>3, <1>4 DEF Owned

LEMMA OwnedMove ==
  ASSUME Owned, Calls, UNCHANGED <<files, fds, full>>,
         NEW t \in Threads, NEW w \in Steps, Moves(t, w),
         HasFile(t) <=> w \in {"store", "get new"},
         HasFile(t) => job'[t].file = job[t].file,
         w = "close" => fds[job'[t].slot] = job'[t].file
  PROVE  Owned'
<1>1. pc'[t] = w /\ \A u \in Threads \ {t} : pc'[u] = pc[u] /\ job'[u] = job[u]
  BY DEF Calls, Moves
<1>2. \A u \in Threads : HasFile(u)' <=> HasFile(u)
  BY <1>1 DEF HasFile
<1>3. \A u \in Threads : HasFile(u) => job'[u].file = job[u].file
  BY <1>1
<1>4. \A u \in Threads : pc'[u] = "close" => fds[job'[u].slot] = job'[u].file
  BY <1>1 DEF Owned, ClosesItsSlot
<1> QED BY <1>2, <1>3, <1>4, OwnedKept

\* A File that is deleted: it was its caller's, or a descriptor's that is freed.

LEMMA OwnedDelete ==
  ASSUME Owned, Calls, NEW t \in Threads, Moves(t, "idle"), NEW f \in Files, f = job[t].file,
         files' = [files EXCEPT ![f] = NoNode], full' = full,
         \/ HasFile(t) /\ fds' = fds
         \/ /\ pc[t] = "close" /\ TableTyped /\ job[t].slot \in Slots
            /\ fds' = [fds EXCEPT ![job[t].slot] = NoFile]
            /\ \A u \in Threads : pc[u] = "close" => u = t
  PROVE  Owned'
<1>0. "idle" \in Steps /\ NoFile \notin Files
  BY FileSystemAssumption DEF Steps
<1>1. pc'[t] = "idle" /\ \A u \in Threads \ {t} : pc'[u] = pc[u] /\ job'[u] = job[u]
  BY DEF Calls, Moves
<1>2. \A u \in Threads : HasFile(u)' <=> (HasFile(u) /\ u # t)
  BY <1>1 DEF HasFile
<1>3. f \notin full /\ (\A u \in Threads \ {t} : HasFile(u) => job[u].file # f)
      /\ files[f] # NoNode
  BY <1>0 DEF Owned, CallsLive, DescriptorsLive, ClosesItsSlot
<1>4. \A s \in Slots : fds'[s] # f /\ (fds'[s] # NoFile => fds'[s] = fds[s])
  <2>1. CASE HasFile(t) /\ fds' = fds
    BY <2>1 DEF Owned, CallsLive
  <2>2. CASE pc[t] = "close" /\ TableTyped /\ job[t].slot \in Slots
             /\ fds' = [fds EXCEPT ![job[t].slot] = NoFile]
    <3>1. fds[job[t].slot] = f
      BY <2>2 DEF Owned, ClosesItsSlot
    <3>2. ASSUME NEW s \in Slots PROVE fds'[s] # f /\ (fds'[s] # NoFile => fds'[s] = fds[s])
      BY <1>0, <2>2, <3>1 DEF Owned, OneDescriptor, TableTyped
    <3> QED BY <3>2
  <2> QED BY <2>1, <2>2
<1>5. \A s \in Slots : fds[s] # f => fds'[s] = fds[s]
  BY <1>0 DEF Owned, ClosesItsSlot, TableTyped
<1>6. OneDescriptor'
  BY <1>4 DEF Owned, OneDescriptor
<1>7. DescriptorsLive'
  BY <1>4 DEF Owned, DescriptorsLive, TableTyped
<1>8. LostLive'
  BY <1>3 DEF Owned, LostLive
<1>9. CallsLive'
  <2>1. ASSUME NEW u \in Threads, HasFile(u)'
        PROVE  /\ u # t /\ HasFile(u) /\ job'[u] = job[u] /\ job[u].file \in Files
               /\ job[u].file # f
    <3>1. u # t /\ HasFile(u) /\ job'[u] = job[u] /\ job[u].file # f
      BY <1>1, <1>2, <1>3, <2>1
    <3>2. InCall(u)
      BY DEF Calls
    <3> QED BY <3>1, <3>2 DEF HasFile, InCall
  <2>2. ASSUME NEW u \in Threads, HasFile(u)'
        PROVE  /\ files'[job'[u].file] # NoNode /\ job'[u].file \notin full'
               /\ \A s \in Slots : fds'[s] # job'[u].file
    BY <1>0, <1>4, <2>1, <2>2 DEF Owned, CallsLive
  <2>3. ASSUME NEW u \in Threads, HasFile(u)', NEW v \in Threads, HasFile(v)',
               job'[v].file = job'[u].file
        PROVE  v = u
    BY <2>1, <2>3 DEF Owned, CallsLive
  <2> QED BY <2>2, <2>3 DEF CallsLive
<1>10. AllClaimed'
  BY <1>0, <1>1, <1>2, <1>5 DEF Owned, AllClaimed, Claimed
<1>11. ClosesItsSlot'
  BY <1>0, <1>1, <1>5 DEF Owned, ClosesItsSlot, CallsLive
<1> QED BY <1>6, <1>7, <1>8, <1>9, <1>10, <1>11 DEF Owned

\* A new File, which no one has had.

LEMMA OwnedOpen ==
  ASSUME Owned, Calls, NEW t \in Threads, ~HasFile(t), Moves(t, "store"),
         NEW f \in Files, files[f] = NoNode, NEW n, n # NoNode,
         files' = [files EXCEPT ![f] = n], UNCHANGED <<fds, full>>,
         job'[t].file = f, TableTyped
  PROVE  Owned'
<1>0. "store" \in Steps /\ NoFile \notin Files
  BY FileSystemAssumption DEF Steps
<1>1. pc'[t] = "store" /\ \A u \in Threads \ {t} : pc'[u] = pc[u] /\ job'[u] = job[u]
  BY <1>0 DEF Calls, Moves
<1>2. \A u \in Threads : HasFile(u)' <=> (HasFile(u) \/ u = t)
  BY <1>1 DEF HasFile
<1>3. f \notin full /\ (\A u \in Threads : HasFile(u) => job[u].file # f)
      /\ \A s \in Slots : fds[s] # f
  BY <1>0 DEF Owned, CallsLive, DescriptorsLive, LostLive
<1>4. OneDescriptor'
  BY DEF Owned, OneDescriptor
<1>5. DescriptorsLive'
  BY <1>3 DEF Owned, DescriptorsLive, TableTyped
<1>6. LostLive'
  BY <1>3 DEF Owned, LostLive
<1>7. CallsLive'
  <2>1. ASSUME NEW u \in Threads \ {t}, HasFile(u)'
        PROVE  HasFile(u) /\ job'[u] = job[u] /\ job[u].file \in Files /\ job[u].file # f
    <3>1. HasFile(u) /\ job'[u] = job[u] /\ job[u].file # f
      BY <1>1, <1>2, <1>3, <2>1
    <3>2. InCall(u)
      BY DEF Calls
    <3> QED BY <3>1, <3>2 DEF HasFile, InCall
  <2>2. ASSUME NEW u \in Threads, HasFile(u)'
        PROVE  /\ files'[job'[u].file] # NoNode /\ job'[u].file \notin full'
               /\ \A s \in Slots : fds'[s] # job'[u].file
    <3>1. CASE u = t
      BY <1>3, <3>1 DEF Owned
    <3>2. CASE u # t
      BY <2>1, <2>2, <3>2 DEF Owned, CallsLive
    <3> QED BY <3>1, <3>2
  <2>3. ASSUME NEW u \in Threads, HasFile(u)', NEW v \in Threads, HasFile(v)',
               job'[v].file = job'[u].file
        PROVE  v = u
    BY <2>1, <2>3 DEF Owned, CallsLive
  <2> QED BY <2>2, <2>3 DEF CallsLive
<1>8. AllClaimed'
  <2>1. ASSUME NEW g \in Files, files'[g] # NoNode PROVE Claimed(g)'
    <3>1. CASE g = f
      BY <1>2, <3>1 DEF Claimed
    <3>2. CASE g # f
      <4>1. Claimed(g)
        BY <2>1, <3>2 DEF Owned, AllClaimed
      <4> QED BY <1>1, <1>2, <4>1 DEF Claimed
    <3> QED BY <3>1, <3>2
  <2> QED BY <2>1 DEF AllClaimed
<1>9. ClosesItsSlot'
  BY <1>1 DEF Owned, ClosesItsSlot
<1> QED BY <1>4, <1>5, <1>6, <1>7, <1>8, <1>9 DEF Owned

\* A File that is passed on, to a descriptor that was free or to nobody.

LEMMA OwnedStore ==
  ASSUME Owned, Calls, TableTyped, NEW t \in Threads, HasFile(t), Moves(t, "idle"),
         files' = files, NEW f \in Files, f = job[t].file,
         \/ full' = full \cup {f} /\ fds' = fds
         \/ /\ full' = full
            /\ \E s \in Slots : fds[s] = NoFile /\ fds' = [fds EXCEPT ![s] = f],
         \A u \in Threads : pc[u] # "close"
  PROVE  Owned'
<1>0. "idle" \in Steps /\ NoFile \notin Files
  BY FileSystemAssumption DEF Steps
<1>1. pc'[t] = "idle" /\ \A u \in Threads \ {t} : pc'[u] = pc[u] /\ job'[u] = job[u]
  BY <1>0 DEF Calls, Moves
<1>2. \A u \in Threads : HasFile(u)' <=> (HasFile(u) /\ u # t)
  BY <1>1 DEF HasFile
<1>3. /\ files[f] # NoNode /\ f \notin full /\ \A s \in Slots : fds[s] # f
      /\ \A u \in Threads : HasFile(u) /\ job[u].file = f => u = t
  BY DEF Owned, CallsLive
<1>4. ASSUME NEW u \in Threads, HasFile(u)'
      PROVE  HasFile(u) /\ u # t /\ job'[u] = job[u] /\ job[u].file # f
  BY <1>1, <1>2, <1>3, <1>4
<1>5. ClosesItsSlot'
  BY <1>0, <1>1 DEF ClosesItsSlot
<1>6. CASE full' = full \cup {f} /\ fds' = fds
  <2>1. OneDescriptor' /\ DescriptorsLive' /\ LostLive'
    BY <1>3, <1>6 DEF Owned, OneDescriptor, DescriptorsLive, LostLive
  <2>2. CallsLive'
    <3>1. ASSUME NEW u \in Threads, HasFile(u)'
          PROVE  /\ files'[job'[u].file] # NoNode /\ job'[u].file \notin full'
                 /\ \A s \in Slots : fds'[s] # job'[u].file
      BY <1>4, <1>6, <3>1 DEF Owned, CallsLive
    <3>2. ASSUME NEW u \in Threads, HasFile(u)', NEW v \in Threads, HasFile(v)',
                 job'[v].file = job'[u].file
          PROVE  v = u
      BY <1>4, <3>2 DEF Owned, CallsLive
    <3> QED BY <3>1, <3>2 DEF CallsLive
  <2>3. ASSUME NEW g \in Files, files'[g] # NoNode PROVE Claimed(g)'
    <3>1. Claimed(g)
      BY <2>3 DEF Owned, AllClaimed
    <3> QED BY <1>1, <1>2, <1>6, <3>1 DEF Claimed
  <2> QED BY <1>5, <2>1, <2>2, <2>3 DEF Owned, AllClaimed
<1>7. ASSUME NEW s \in Slots, fds[s] = NoFile, fds' = [fds EXCEPT ![s] = f], full' = full
      PROVE  Owned'
  <2>0. fds'[s] = f /\ \A u \in Slots \ {s} : fds'[u] = fds[u]
    BY <1>7 DEF TableTyped
  <2>1. OneDescriptor' /\ DescriptorsLive' /\ LostLive'
    BY <1>0, <1>3, <1>7, <2>0 DEF Owned, OneDescriptor, DescriptorsLive, LostLive
  <2>2. CallsLive'
    <3>1. ASSUME NEW u \in Threads, HasFile(u)'
          PROVE  /\ files'[job'[u].file] # NoNode /\ job'[u].file \notin full'
                 /\ \A v \in Slots : fds'[v] # job'[u].file
      BY <1>4, <1>7, <2>0, <3>1 DEF Owned, CallsLive
    <3>2. ASSUME NEW u \in Threads, HasFile(u)', NEW v \in Threads, HasFile(v)',
                 job'[v].file = job'[u].file
          PROVE  v = u
      BY <1>4, <3>2 DEF Owned, CallsLive
    <3> QED BY <3>1, <3>2 DEF CallsLive
  <2>3. ASSUME NEW g \in Files, files'[g] # NoNode PROVE Claimed(g)'
    <3>1. Claimed(g)
      BY <2>3 DEF Owned, AllClaimed
    <3>2. CASE g \in full
      BY <1>7, <3>2 DEF Claimed
    <3>3. ASSUME NEW u \in Slots, fds[u] = g PROVE Claimed(g)'
      BY <1>0, <1>7, <2>0, <3>3 DEF Claimed
    <3>4. ASSUME NEW u \in Threads, HasFile(u), job[u].file = g PROVE Claimed(g)'
      BY <1>1, <1>2, <2>0, <3>4 DEF Claimed
    <3> QED BY <3>1, <3>2, <3>3, <3>4 DEF Claimed
  <2> QED BY <1>5, <2>1, <2>2, <2>3 DEF Owned, AllClaimed
<1> QED BY <1>6, <1>7

LEMMA OwnedStep ==
  ASSUME Owned, Locking, TableTyped, Next
  PROVE  Owned'
<1>0. Calls /\ \A t \in Threads : InCall(t) /\ (procLock = t <=> HoldsProcess(t))
  BY DEF Locking, Calls, ProcessLocked
<1>i. \A t \in Threads : pc[t] = "idle" => ~HasFile(t)
  BY DEF HasFile
<1>1. ASSUME NEW t \in Threads, NEW r \in Requests, SysOpen(t, r) PROVE Owned'
  <2>1. Moves(t, "volume") /\ "volume" \in Steps /\ UNCHANGED <<files, fds, full>> /\ pc[t] = "idle"
    BY <1>0, <1>1 DEF SysOpen, Begin, Ready, Goto, Moves, Calls, Steps, Opening, Memory
  <2> QED BY <1>0, <1>i, <2>1, OwnedMove
<1>2. ASSUME NEW t \in Threads, NEW r \in Requests, NEW op, OpenBriefly(t, r, op) PROVE Owned'
  <2>1. Moves(t, "volume") /\ "volume" \in Steps /\ UNCHANGED <<files, fds, full>> /\ pc[t] = "idle"
    BY <1>0, <1>2 DEF OpenBriefly, Begin, Ready, Goto, Moves, Calls, Steps, Opening, Memory
  <2> QED BY <1>0, <1>i, <2>1, OwnedMove
<1>3. ASSUME NEW t \in Threads, NEW s \in Slots, SysClose(t, s) PROVE Owned'
  <2>1. Moves(t, "close") /\ "close" \in Steps /\ UNCHANGED <<files, fds, full>> /\ pc[t] = "idle"
        /\ job'[t] = [op |-> "close", slot |-> s, file |-> fds[s]]
    BY <1>0, <1>3 DEF SysClose, Ready, Goto, Moves, Calls, Steps, Memory
  <2>2. fds[job'[t].slot] = job'[t].file
    BY <2>1
  <2> QED BY <1>0, <1>i, <2>1, <2>2, OwnedMove
<1>4. ASSUME NEW t \in Threads, NEW s \in Slots, GetFileDescriptor(t, s) PROVE Owned'
  <2>1. Moves(t, "use") /\ "use" \in Steps /\ UNCHANGED <<files, fds, full>> /\ pc[t] = "idle"
    BY <1>0, <1>4 DEF GetFileDescriptor, Ready, Goto, Moves, Calls, Steps, Memory
  <2> QED BY <1>0, <1>i, <2>1, OwnedMove
<1>r. ASSUME NEW t \in Threads, Refused(t), ~HasFile(t), UNCHANGED <<files, fds, full>> PROVE Owned'
  <2>1. Moves(t, "idle")
    BY <1>r, CallEnds DEF Locking
  <2> QED BY <1>0, <1>r, <2>1, OwnedMove DEF Steps
<1>5. ASSUME NEW t \in Threads, Continue(t) PROVE Owned'
  <2>1. CASE LockVolumes(t)
    <3>1. UNCHANGED <<files, fds, full>> /\ ~HasFile(t)
      BY <2>1 DEF LockVolumes, Memory, HasFile
    <3>2. CASE Refused(t)
      BY <1>r, <3>1, <3>2
    <3>3. CASE ~Refused(t)
      <4>1. PICK w \in {"label", "uuid", "enter"} : Goto(t, w)
        BY <2>1, <3>3 DEF LockVolumes
      <4>2. Moves(t, w) /\ w \in Steps
        BY <1>0, <2>1, <3>3, <4>1 DEF LockVolumes, Goto, Moves, Calls, Steps, Opening
      <4> QED BY <1>0, <3>1, <4>2, OwnedMove
    <3> QED BY <3>2, <3>3
  <2>2. CASE FindLabel(t)
    <3>1. Moves(t, "enter") /\ "enter" \in Steps /\ UNCHANGED <<files, fds, full>> /\ ~HasFile(t)
      BY <1>0, <2>2 DEF FindLabel, Goto, Moves, Calls, Steps, Opening, Memory, HasFile
    <3> QED BY <1>0, <3>1, OwnedMove
  <2>3. CASE FindUUID(t)
    <3>1. UNCHANGED <<files, fds, full, pc, job>>
      BY <2>3 DEF FindUUID, Memory
    <3> QED BY <3>1, OwnedKept DEF Owned, ClosesItsSlot, HasFile
  <2>4. CASE OpenFile(t)
    <3>0. UNCHANGED <<fds, full>> /\ ~HasFile(t)
      BY <2>4 DEF OpenFile, HasFile
    <3>1. \/ UNCHANGED <<files, pc, job>>
          \/ Refused(t) /\ files' = files
          \/ \E f \in Spare : \E n : /\ n # NoNode /\ files' = [files EXCEPT ![f] = n]
                 /\ job' = [job EXCEPT ![t] = [op |-> @.op, file |-> f]] /\ Goto(t, "store")
      BY <2>4 DEF OpenFile, Memory
    <3>2. CASE UNCHANGED <<files, pc, job>>
      BY <3>0, <3>2, OwnedKept DEF Owned, ClosesItsSlot, HasFile
    <3>3. CASE Refused(t) /\ files' = files
      BY <1>r, <3>0, <3>3
    <3>4. ASSUME NEW f \in Spare, NEW n, n # NoNode, files' = [files EXCEPT ![f] = n],
                 job' = [job EXCEPT ![t] = [op |-> @.op, file |-> f]], Goto(t, "store")
          PROVE  Owned'
      <4>1. Moves(t, "store") /\ job'[t].file = f /\ f \in Files /\ files[f] = NoNode
        BY <1>0, <3>4 DEF Goto, Moves, Calls, Spare
      <4> QED BY <1>0, <3>0, <3>4, <4>1, OwnedOpen
    <3> QED BY <3>1, <3>2, <3>3, <3>4
  <2>5. CASE StoreFile(t)
    <3>1. Finish(t) /\ HoldsProcess(t) /\ procLock' = NoOne /\ files' = files
          /\ pc[t] = "store"
      BY <1>0, <2>5 DEF StoreFile, HoldsProcess, Memory
    <3>2. HasFile(t) /\ job[t].file \in Files
      BY <1>0, <3>1 DEF HasFile, InCall
    <3>3. \A u \in Threads : pc[u] # "close"
      BY <1>0, <3>1 DEF HoldsProcess
    <3>4. Moves(t, "idle")
      BY <1>0, <3>1, CallEnds DEF Locking
    <3>5. \/ full' = full \cup {job[t].file} /\ fds' = fds
          \/ /\ full' = full
             /\ \E s \in Slots : fds[s] = NoFile /\ fds' = [fds EXCEPT ![s] = job[t].file]
      BY <2>5 DEF StoreFile, FirstFree
    <3> QED BY <1>0, <3>1, <3>2, <3>3, <3>4, <3>5, OwnedStore
  <2>6. CASE CloseBriefly(t)
    <3>1. HasFile(t) /\ Finish(t) /\ ~HoldsProcess(t) /\ UNCHANGED <<procLock, fds, full>>
          /\ files' = [files EXCEPT ![job[t].file] = NoNode]
      BY <2>6 DEF CloseBriefly, HasFile, HoldsProcess, DeleteFile, Locks
    <3>2. job[t].file \in Files
      BY <1>0, <2>6 DEF CloseBriefly, InCall
    <3>3. Moves(t, "idle")
      BY <1>0, <3>1, CallEnds DEF Locking
    <3> QED BY <1>0, <3>1, <3>2, <3>3, OwnedDelete
  <2>7. CASE CloseFile(t)
    <3>1. pc[t] = "close" /\ Finish(t) /\ HoldsProcess(t) /\ procLock' = NoOne /\ full' = full
          /\ files' = [files EXCEPT ![job[t].file] = NoNode]
          /\ fds' = [fds EXCEPT ![job[t].slot] = NoFile]
      BY <2>7 DEF CloseFile, HoldsProcess, DeleteFile
    <3>2. job[t].file \in Files /\ job[t].slot \in Slots
      BY <1>0, <3>1 DEF InCall
    <3>3. Moves(t, "idle")
      BY <1>0, <3>1, CallEnds DEF Locking
    <3>4. \A u \in Threads : pc[u] = "close" => u = t
      BY <1>0, <3>1 DEF HoldsProcess
    <3> QED BY <1>0, <3>1, <3>2, <3>3, <3>4, OwnedDelete
  <2>8. CASE ReadOrWrite(t)
    <3>1. Finish(t) /\ ~HoldsProcess(t) /\ ~HasFile(t) /\ UNCHANGED <<procLock, files, fds, full>>
      BY <2>8 DEF ReadOrWrite, HasFile, HoldsProcess, Locks, Opening
    <3>2. Moves(t, "idle")
      BY <1>0, <3>1, CallEnds DEF Locking
    <3> QED BY <1>0, <3>1, <3>2, OwnedMove DEF Steps
  <2> QED BY <1>5, <2>1, <2>2, <2>3, <2>4, <2>5, <2>6, <2>7, <2>8 DEF Continue
<1>6. ASSUME ShellStep PROVE Owned'
  <2>0. Shell \in Threads /\ ~HoldsProcess(Shell) /\ procLock # Shell /\ InCall(Shell)
    BY <1>0, ThreadNames DEF Locking, ProcessLocked
  <2>1. CASE PutOldDirectory
    <3>1. Moves(Shell, "get new") /\ job' = job /\ HasFile(Shell) /\ "get new" \in Steps
          /\ UNCHANGED <<files, fds, full>>
      BY <1>0, <2>1 DEF PutOldDirectory, Goto, Moves, Calls, Steps, HasFile
    <3> QED BY <1>0, <2>0, <3>1, OwnedMove
  <2>2. CASE GetNewDirectory
    <3>1. HasFile(Shell) /\ Finish(Shell) /\ UNCHANGED <<procLock, fds, full>>
          /\ files' = [files EXCEPT ![job[Shell].file] = NoNode]
      BY <2>2 DEF GetNewDirectory, HasFile, Locks
    <3>2. job[Shell].file \in Files
      BY <2>0, <2>2 DEF GetNewDirectory, InCall
    <3>3. Moves(Shell, "idle")
      BY <2>0, <3>1, CallEnds DEF Locking
    <3> QED BY <1>0, <2>0, <3>1, <3>2, <3>3, OwnedDelete
  <2>3. CASE StartProcess \/ \E n \in Nodes : Unlink(n)
    <3>1. UNCHANGED <<files, fds, full, pc, job>>
      BY <2>3 DEF StartProcess, Unlink, Memory
    <3> QED BY <3>1, OwnedKept DEF Owned, ClosesItsSlot, HasFile
  <2>4. CASE EndProcess
    <3>0. /\ UNCHANGED <<files, pc, job>> /\ \A t \in Users : pc[t] = "idle"
          /\ full' = full \cup {fds[s] : s \in {u \in Slots : fds[u] # NoFile}}
          /\ fds' = [s \in Slots |-> NoFile]
      BY <2>4 DEF EndProcess
    <3>1. NoFile \notin Files
      BY FileSystemAssumption
    <3>2. OneDescriptor' /\ DescriptorsLive' /\ LostLive'
      BY <3>0 DEF Owned, OneDescriptor, DescriptorsLive, LostLive, TableTyped
    <3>3. CallsLive'
      <4>1. ASSUME NEW u \in Threads, HasFile(u)
            PROVE  /\ files'[job'[u].file] # NoNode /\ job'[u].file \notin full'
                   /\ \A s \in Slots : fds'[s] # job'[u].file
        <5>1. job[u].file \in Files
          BY <1>0, <4>1 DEF InCall, HasFile
        <5> QED BY <3>0, <3>1, <4>1, <5>1 DEF Owned, CallsLive
      <4> QED BY <3>0, <4>1 DEF Owned, CallsLive, HasFile
    <3>4. ASSUME NEW f \in Files, files'[f] # NoNode PROVE Claimed(f)'
      <4>1. Claimed(f)
        BY <3>0, <3>4 DEF Owned, AllClaimed
      <4> QED BY <3>0, <3>1, <4>1 DEF Claimed, HasFile
    <3>5. ClosesItsSlot'
      BY <1>0, <3>0 DEF ClosesItsSlot, InCall
    <3> QED BY <3>0, <3>2, <3>3, <3>4, <3>5 DEF Owned, AllClaimed
  <2>5. ASSUME NEW w \in Closing, Goto(Shell, w), UNCHANGED <<files, fds, full, job>>, ~HasFile(Shell)
        PROVE  Owned'
    <3>1. Moves(Shell, w) /\ w \in Steps /\ w \notin {"store", "get new", "close"}
      BY <1>0, <2>5 DEF Goto, Moves, Calls, Steps, Closing
    <3> QED BY <1>0, <2>0, <2>5, <3>1, OwnedMove
  <2>6. CASE PutShellDirectory("idle", "put directory") \/ PutShellDirectory("put directory", "synchronize")
    BY <2>5, <2>6 DEF PutShellDirectory, Closing, HasFile
  <2>7. CASE SynchronizeAll \/ Cleanup \/ FlushAndDrop
    BY <2>5, <2>7 DEF SynchronizeAll, Cleanup, FlushAndDrop, Closing, HasFile
  <2> QED BY <1>6, <2>1, <2>2, <2>3, <2>4, <2>6, <2>7 DEF ShellStep
<1> QED BY <1>1, <1>2, <1>3, <1>4, <1>5, <1>6 DEF Next

\* Every File has one owner (Process::Open, Close, ~Process): a descriptor, a
\* call, or nobody when it was lost.
THEOREM OneOwner == Spec => []FilesHaveOneOwner
<1>1. Init => Locking /\ TableTyped /\ Owned
  BY LockingInit, OwnedInit DEF Init, TableTyped
<1>2. Locking /\ TableTyped /\ Owned /\ [Next]_vars => (Locking /\ TableTyped /\ Owned)'
  <2>1. ASSUME Locking, TableTyped, Owned, UNCHANGED vars PROVE (Locking /\ TableTyped /\ Owned)'
    <3>1. Locking' /\ TableTyped'
      BY <2>1 DEF vars, Locking, TableTyped, Calls, InCall, ProcessLocked, HoldsProcess, VolumesLocked, FilesLocked
    <3>2. Owned'
      BY <2>1, OwnedKept DEF vars, Owned, ClosesItsSlot, HasFile
    <3> QED BY <3>1, <3>2
  <2> QED BY <2>1, LockingStep, TableStep, OwnedStep
<1> QED BY <1>1, <1>2, OwnedIsOneOwner, PTL DEF Spec

-----------------------------------------------------------------------------
(* The pointers into the cache.                                            *)

FilesAt(n) == {f \in Files : files[f] = n}
ProcessesAt(n) == {p \in DOMAIN cwd : cwd[p] = n}

Outside ==
  [n \in Nodes |-> Cardinality(FilesAt(n)) + Cardinality(ProcessesAt(n)) + (IF n = Root THEN 1 ELSE 0)]

PointersTyped ==
  /\ files \in [Files -> Nodes \cup {NoNode}]
  /\ cwd \in [{"kernel", "user"} -> Nodes \cup {NoNode}]

LEMMA PointerSets ==
  ASSUME PointersTyped, NEW n \in Nodes
  PROVE  /\ IsFiniteSet(FilesAt(n)) /\ Cardinality(FilesAt(n)) \in Nat
         /\ Cardinality(FilesAt(n)) = 0 <=> FilesAt(n) = {}
         /\ IsFiniteSet(ProcessesAt(n)) /\ Cardinality(ProcessesAt(n)) \in Nat
         /\ Cardinality(ProcessesAt(n)) = 0 <=> ProcessesAt(n) = {}
<1>1. IsFiniteSet(FilesAt(n))
  BY FileSystemAssumption, FS_Subset DEF FilesAt
<1>2. IsFiniteSet(ProcessesAt(n))
  <2>1. IsFiniteSet({"kernel"} \cup {"user"})
    BY FS_Singleton, FS_AddElement
  <2>2. ProcessesAt(n) \in SUBSET ({"kernel"} \cup {"user"})
    BY DEF ProcessesAt, PointersTyped
  <2> QED BY <2>1, <2>2, FS_Subset
<1> QED BY <1>1, <1>2, FS_CardinalityType, FS_EmptySet

LEMMA OutsideType ==
  ASSUME PointersTyped
  PROVE  /\ Outside \in Counts /\ Outside[Root] >= 1
         /\ \A f \in Files : files[f] # NoNode => Outside[files[f]] >= 1
         /\ \A p \in {"kernel", "user"} : cwd[p] # NoNode => Outside[cwd[p]] >= 1
<1>1. \A n \in Nodes : /\ Cardinality(FilesAt(n)) \in Nat /\ Cardinality(ProcessesAt(n)) \in Nat
                       /\ (FilesAt(n) # {} => Cardinality(FilesAt(n)) >= 1)
                       /\ (ProcessesAt(n) # {} => Cardinality(ProcessesAt(n)) >= 1)
  <2>1. ASSUME NEW n \in Nodes
        PROVE  /\ Cardinality(FilesAt(n)) \in Nat /\ Cardinality(ProcessesAt(n)) \in Nat
               /\ (Cardinality(FilesAt(n)) = 0 <=> FilesAt(n) = {})
               /\ (Cardinality(ProcessesAt(n)) = 0 <=> ProcessesAt(n) = {})
    BY PointerSets
  <2> QED BY <2>1
<1>2. \A n \in Nodes : Outside[n] = Cardinality(FilesAt(n)) + Cardinality(ProcessesAt(n)) + (IF n = Root THEN 1 ELSE 0)
  BY DEF Outside
<1>3. Outside \in Counts
  BY <1>1 DEF Outside, Counts
<1>4. ASSUME NEW f \in Files, files[f] # NoNode PROVE Outside[files[f]] >= 1
  <2>1. files[f] \in Nodes /\ f \in FilesAt(files[f])
    BY <1>4 DEF PointersTyped, FilesAt
  <2>2. Cardinality(FilesAt(files[f])) >= 1
    BY <1>1, <2>1
  <2> QED BY <1>1, <1>2, <2>1, <2>2
<1>5. ASSUME NEW p \in {"kernel", "user"}, cwd[p] # NoNode PROVE Outside[cwd[p]] >= 1
  <2>1. cwd[p] \in Nodes /\ p \in ProcessesAt(cwd[p])
    BY <1>5 DEF PointersTyped, ProcessesAt
  <2>2. Cardinality(ProcessesAt(cwd[p])) >= 1
    BY <1>1, <2>1
  <2> QED BY <1>1, <1>2, <2>1, <2>2
<1>6. Outside[Root] >= 1
  BY <1>1, <1>2, NodeFacts
<1> QED BY <1>3, <1>4, <1>5, <1>6

LEMMA OutsideIs ==
  ASSUME NEW E, DOMAIN E = Nodes, E = [n \in Nodes |-> E[n]],
         \A n \in Nodes : E[n] = Outside'[n]
  PROVE  Outside' = E
BY DEF Outside

\* Opening and closing a File.
LEMMA OutsideFile ==
  ASSUME PointersTyped, NEW f \in Files, NEW n \in Nodes, cwd' = cwd,
         \/ files[f] = NoNode /\ files' = [files EXCEPT ![f] = n]
         \/ files[f] = n /\ files' = [files EXCEPT ![f] = NoNode]
  PROVE  /\ PointersTyped'
         /\ files[f] = NoNode => Outside' = Plus(Outside, n)
         /\ files[f] = n => Outside' = Minus(Outside, n)
<1>0. NoNode \notin Nodes
  BY FileSystemAssumption
<1>1. PointersTyped'
  BY DEF PointersTyped
<1>2. \A m \in Nodes : ProcessesAt(m)' = ProcessesAt(m)
  BY DEF ProcessesAt
<1>3. \A m \in Nodes \ {n} : FilesAt(m)' = FilesAt(m)
  BY <1>0 DEF FilesAt, PointersTyped
<1>4. \A m \in Nodes : /\ Cardinality(FilesAt(m)) \in Nat /\ Cardinality(ProcessesAt(m)) \in Nat
                       /\ IsFiniteSet(FilesAt(m))
  BY PointerSets
<1>5. \A m \in Nodes : Outside[m] = Cardinality(FilesAt(m)) + Cardinality(ProcessesAt(m)) + (IF m = Root THEN 1 ELSE 0)
  BY DEF Outside
<1>6. \A m \in Nodes : Outside'[m] = Cardinality(FilesAt(m)') + Cardinality(ProcessesAt(m)') + (IF m = Root THEN 1 ELSE 0)
  BY DEF Outside
<1>7. ASSUME files[f] = NoNode PROVE Outside' = Plus(Outside, n)
  <2>1. FilesAt(n)' = FilesAt(n) \cup {f} /\ f \notin FilesAt(n)
    BY <1>0, <1>7 DEF FilesAt, PointersTyped
  <2>2. Cardinality(FilesAt(n)') = Cardinality(FilesAt(n)) + 1
    BY <1>4, <2>1, FS_AddElement
  <2>3. ASSUME NEW m \in Nodes PROVE Plus(Outside, n)[m] = Outside'[m]
    <3>1. Plus(Outside, n)[m] = IF m = n THEN Outside[m] + 1 ELSE Outside[m]
      BY DEF Plus, Outside
    <3>2. CASE m = n
      BY <1>2, <1>4, <1>5, <1>6, <2>2, <3>1, <3>2
    <3>3. CASE m # n
      BY <1>2, <1>3, <1>5, <1>6, <3>1, <3>3
    <3> QED BY <3>2, <3>3
  <2>4. Plus(Outside, n) = [m \in Nodes |-> Plus(Outside, n)[m]] /\ DOMAIN Plus(Outside, n) = Nodes
    BY DEF Plus, Outside
  <2> QED BY <2>3, <2>4, OutsideIs
<1>8. ASSUME files[f] = n PROVE Outside' = Minus(Outside, n)
  <2>1. FilesAt(n)' = FilesAt(n) \ {f} /\ f \in FilesAt(n)
    BY <1>0, <1>8 DEF FilesAt, PointersTyped
  <2>2. Cardinality(FilesAt(n)') = Cardinality(FilesAt(n)) - 1
    BY <1>4, <2>1, FS_RemoveElement
  <2>3. ASSUME NEW m \in Nodes PROVE Minus(Outside, n)[m] = Outside'[m]
    <3>1. Minus(Outside, n)[m] = IF m = n THEN Outside[m] - 1 ELSE Outside[m]
      BY DEF Minus, Outside
    <3>2. CASE m = n
      BY <1>2, <1>4, <1>5, <1>6, <2>2, <3>1, <3>2
    <3>3. CASE m # n
      BY <1>2, <1>3, <1>5, <1>6, <3>1, <3>3
    <3> QED BY <3>2, <3>3
  <2>4. Minus(Outside, n) = [m \in Nodes |-> Minus(Outside, n)[m]] /\ DOMAIN Minus(Outside, n) = Nodes
    BY DEF Minus, Outside
  <2> QED BY <2>3, <2>4, OutsideIs
<1> QED BY <1>1, <1>7, <1>8

\* Entering and leaving a directory.
LEMMA OutsideProcess ==
  ASSUME PointersTyped, NEW p \in {"kernel", "user"}, NEW n \in Nodes, files' = files,
         \/ cwd[p] = NoNode /\ cwd' = [cwd EXCEPT ![p] = n]
         \/ cwd[p] = n /\ cwd' = [cwd EXCEPT ![p] = NoNode]
  PROVE  /\ PointersTyped'
         /\ cwd[p] = NoNode => Outside' = Plus(Outside, n)
         /\ cwd[p] = n => Outside' = Minus(Outside, n)
<1>0. NoNode \notin Nodes
  BY FileSystemAssumption
<1>1. PointersTyped'
  BY DEF PointersTyped
<1>2. \A m \in Nodes : FilesAt(m)' = FilesAt(m)
  BY DEF FilesAt
<1>3. \A m \in Nodes \ {n} : ProcessesAt(m)' = ProcessesAt(m)
  BY <1>0 DEF ProcessesAt, PointersTyped
<1>4. \A m \in Nodes : /\ Cardinality(FilesAt(m)) \in Nat /\ Cardinality(ProcessesAt(m)) \in Nat
                       /\ IsFiniteSet(ProcessesAt(m))
  BY PointerSets
<1>5. \A m \in Nodes : Outside[m] = Cardinality(FilesAt(m)) + Cardinality(ProcessesAt(m)) + (IF m = Root THEN 1 ELSE 0)
  BY DEF Outside
<1>6. \A m \in Nodes : Outside'[m] = Cardinality(FilesAt(m)') + Cardinality(ProcessesAt(m)') + (IF m = Root THEN 1 ELSE 0)
  BY DEF Outside
<1>7. ASSUME cwd[p] = NoNode PROVE Outside' = Plus(Outside, n)
  <2>1. ProcessesAt(n)' = ProcessesAt(n) \cup {p} /\ p \notin ProcessesAt(n)
    BY <1>0, <1>7 DEF ProcessesAt, PointersTyped
  <2>2. Cardinality(ProcessesAt(n)') = Cardinality(ProcessesAt(n)) + 1
    BY <1>4, <2>1, FS_AddElement
  <2>3. ASSUME NEW m \in Nodes PROVE Plus(Outside, n)[m] = Outside'[m]
    <3>1. Plus(Outside, n)[m] = IF m = n THEN Outside[m] + 1 ELSE Outside[m]
      BY DEF Plus, Outside
    <3>2. CASE m = n
      BY <1>2, <1>4, <1>5, <1>6, <2>2, <3>1, <3>2
    <3>3. CASE m # n
      BY <1>2, <1>3, <1>5, <1>6, <3>1, <3>3
    <3> QED BY <3>2, <3>3
  <2>4. Plus(Outside, n) = [m \in Nodes |-> Plus(Outside, n)[m]] /\ DOMAIN Plus(Outside, n) = Nodes
    BY DEF Plus, Outside
  <2> QED BY <2>3, <2>4, OutsideIs
<1>8. ASSUME cwd[p] = n PROVE Outside' = Minus(Outside, n)
  <2>1. ProcessesAt(n)' = ProcessesAt(n) \ {p} /\ p \in ProcessesAt(n)
    BY <1>0, <1>8 DEF ProcessesAt, PointersTyped
  <2>2. Cardinality(ProcessesAt(n)') = Cardinality(ProcessesAt(n)) - 1
    BY <1>4, <2>1, FS_RemoveElement
  <2>3. ASSUME NEW m \in Nodes PROVE Minus(Outside, n)[m] = Outside'[m]
    <3>1. Minus(Outside, n)[m] = IF m = n THEN Outside[m] - 1 ELSE Outside[m]
      BY DEF Minus, Outside
    <3>2. CASE m = n
      BY <1>2, <1>4, <1>5, <1>6, <2>2, <3>1, <3>2
    <3>3. CASE m # n
      BY <1>2, <1>3, <1>5, <1>6, <3>1, <3>3
    <3> QED BY <3>2, <3>3
  <2>4. Minus(Outside, n) = [m \in Nodes |-> Minus(Outside, n)[m]] /\ DOMAIN Minus(Outside, n) = Nodes
    BY DEF Minus, Outside
  <2> QED BY <2>3, <2>4, OutsideIs
<1> QED BY <1>1, <1>7, <1>8

\* The directory a File was opened on becomes the current one: the pointer of
\* the File is now the shell's.
LEMMA OutsidePasses ==
  ASSUME PointersTyped, NEW f \in Files, files[f] \in Nodes, cwd["kernel"] = NoNode,
         files' = [files EXCEPT ![f] = NoNode], cwd' = [cwd EXCEPT !["kernel"] = files[f]]
  PROVE  PointersTyped' /\ Outside' = Outside
<1>0. NoNode \notin Nodes
  BY FileSystemAssumption
<1>n. PICK n \in Nodes : n = files[f]
  OBVIOUS
<1>1. PointersTyped'
  BY DEF PointersTyped
<1>2. \A m \in Nodes \ {n} : FilesAt(m)' = FilesAt(m) /\ ProcessesAt(m)' = ProcessesAt(m)
  BY <1>0, <1>n DEF FilesAt, ProcessesAt, PointersTyped
<1>3. FilesAt(n)' = FilesAt(n) \ {f} /\ f \in FilesAt(n)
  <2>1. \A g \in Files : files'[g] = n <=> files[g] = n /\ g # f
    BY <1>0, <1>n DEF PointersTyped
  <2> QED BY <1>n, <2>1 DEF FilesAt
<1>4. ProcessesAt(n)' = ProcessesAt(n) \cup {"kernel"} /\ "kernel" \notin ProcessesAt(n)
  BY <1>0, <1>n DEF ProcessesAt, PointersTyped
<1>5. \A m \in Nodes : /\ Cardinality(FilesAt(m)) \in Nat /\ Cardinality(ProcessesAt(m)) \in Nat
                       /\ IsFiniteSet(FilesAt(m)) /\ IsFiniteSet(ProcessesAt(m))
  BY PointerSets
<1>6. /\ Cardinality(FilesAt(n)') = Cardinality(FilesAt(n)) - 1
      /\ Cardinality(ProcessesAt(n)') = Cardinality(ProcessesAt(n)) + 1
  <2>1. IsFiniteSet(FilesAt(n)) /\ IsFiniteSet(ProcessesAt(n))
    BY <1>5
  <2>2. Cardinality(FilesAt(n) \ {f}) = Cardinality(FilesAt(n)) - 1
    BY <1>3, <2>1, FS_RemoveElement
  <2>3. Cardinality(ProcessesAt(n) \cup {"kernel"}) = Cardinality(ProcessesAt(n)) + 1
    BY <1>4, <2>1, FS_AddElement
  <2> QED BY <1>3, <1>4, <2>2, <2>3
<1>7. ASSUME NEW m \in Nodes PROVE Outside[m] = Outside'[m]
  <2>1. Outside[m] = Cardinality(FilesAt(m)) + Cardinality(ProcessesAt(m)) + (IF m = Root THEN 1 ELSE 0)
    BY DEF Outside
  <2>2. Outside'[m] = Cardinality(FilesAt(m)') + Cardinality(ProcessesAt(m)') + (IF m = Root THEN 1 ELSE 0)
    BY DEF Outside
  <2>3. CASE m = n
    BY <1>5, <1>6, <2>1, <2>2, <2>3
  <2>4. CASE m # n
    BY <1>2, <2>1, <2>2, <2>4
  <2> QED BY <2>3, <2>4
<1>8. Outside = [m \in Nodes |-> Outside[m]] /\ DOMAIN Outside = Nodes
  BY DEF Outside
<1> QED BY <1>1, <1>7, <1>8, OutsideIs

LEMMA OutsideSame ==
  ASSUME PointersTyped, UNCHANGED <<files, cwd>>
  PROVE  PointersTyped' /\ Outside' = Outside
BY DEF PointersTyped, Outside, FilesAt, ProcessesAt

-----------------------------------------------------------------------------
(* The invariant of the counts.                                            *)

\* Where each process is: the shell has no directory between putting the old
\* one and getting the new one.
Placed ==
  /\ pc[Shell] = "get new" <=> cwd["kernel"] = NoNode
  /\ \A t \in Users : pc[t] # "idle" => cwd["user"] # NoNode

\* Until the shell ends the entries are balanced, and nothing was used after it
\* was freed unless a program closed a descriptor in use.
Accounted ==
  /\ PointersTyped /\ CacheOK(cache)
  /\ ~Closed => Balanced(cache, Outside)
  /\ cache.freed => Closed \/ ~Polite

\* A polite program reads only through descriptors that nobody closes.
UsedPolitely == Polite => \A t \in Threads : pc[t] = "use" =>
  /\ \E s \in Slots : fds[s] = job[t].file
  /\ \A u \in Threads : pc[u] = "close" => job[u].file # job[t].file

\* no change is in memory that the shutdown would have to write
After == {"clean up", "flush", "off"}
Saved ==
  /\ cache.lost # {} => late
  /\ pc[Shell] \in After /\ cache.changed # {} => late

Miscellaneous ==
  /\ starts \in 0..MaxStarts /\ late \in BOOLEAN
  /\ fault \in {"none", "locked twice", "null pointer"}

LEMMA SoundNow ==
  ASSUME Accounted, Running, ~Closed
  PROVE  Sound(cache, Outside) /\ Outside \in Counts
BY OutsideType DEF Accounted, Running, Sound

\* A step that leaves the pointers alone, or moves them as it moves the counts.
LEMMA AccountedStep ==
  ASSUME PointersTyped', CacheOK(cache'), Closed => Closed',
         ~Closed => Sound(cache', Outside')
  PROVE  Accounted'
<1>1. ~Closed' => Balanced(cache', Outside') /\ ~cache'.freed
  BY DEF Sound
<1> QED BY <1>1 DEF Accounted

LEMMA QuietSaved ==
  ASSUME Saved, Quiet(cache, cache'), late' = late, pc'[Shell] \in After => pc[Shell] \in After
  PROVE  Saved'
BY DEF Saved, Quiet

\* the operations on the whole cache
LEMMA ModifyFields ==
  ASSUME NEW c, CacheOK(c), NEW i \in INodes
  PROVE  /\ CacheOK(Modify(c, i)) /\ Modify(c, i).lost = c.lost
         /\ \A E : Sound(c, E) => Sound(Modify(c, i), E)
<1> DEFINE d == Modify(c, i)
<1>1. c \in CacheType
  BY DEF CacheOK
<1>2. d \in CacheType /\ d.refs = c.refs /\ d.blank = c.blank /\ d.users = c.users
      /\ d.changed = c.changed \cup {i} /\ d.dirty = c.dirty \cup {i} /\ d.lost = c.lost
      /\ d.freed = c.freed /\ d.leaked = c.leaked
  BY <1>1 DEF CacheType, Modify
<1> HIDE DEF d
<1>3. \A j \in INodes : NamesOf(d, j) = NamesOf(c, j)
  BY <1>2 DEF NamesOf, Cached
<1>4. CacheOK(d)
  BY <1>2, <1>3 DEF CacheOK, UsersCounted, Cached
<1>5. \A n \in Nodes : Kids(d, n) = Kids(c, n)
  BY <1>2 DEF Kids, Cached
<1>6. ASSUME NEW E, Sound(c, E) PROVE Sound(d, E)
  BY <1>2, <1>4, <1>5, <1>6 DEF Sound, Balanced
<1> QED BY <1>2, <1>4, <1>6 DEF d

LEMMA WriteINodesFields ==
  ASSUME NEW c, CacheOK(c)
  PROVE  CacheOK(WriteINodes(c)) /\ Quiet(c, WriteINodes(c)) /\ WriteINodes(c).changed = {}
<1> DEFINE d == WriteINodes(c)
<1>1. c \in CacheType /\ c.changed \subseteq c.dirty
  BY DEF CacheOK
<1>2. d \in CacheType /\ d.refs = c.refs /\ d.blank = c.blank /\ d.users = c.users
      /\ d.changed = {} /\ d.dirty = c.dirty /\ d.lost = c.lost
  BY <1>1 DEF CacheType, WriteINodes
<1> HIDE DEF d
<1>3. \A j \in INodes : NamesOf(d, j) = NamesOf(c, j)
  BY <1>2 DEF NamesOf, Cached
<1>4. CacheOK(d)
  BY <1>2, <1>3 DEF CacheOK, UsersCounted, Cached
<1> QED BY <1>2, <1>4 DEF d, Quiet

LEMMA DropFields ==
  ASSUME NEW c, CacheOK(c)
  PROVE  CacheOK(Drop(c)) /\ Drop(c).changed = {} /\ Drop(c).lost = c.lost \cup c.changed
<1> DEFINE d == Drop(c)
<1>1. c \in CacheType
  BY DEF CacheOK
<1>2. d \in CacheType /\ d.refs = [n \in Nodes |-> 0] /\ d.blank = {}
      /\ d.users = [i \in INodes |-> 0]
      /\ d.changed = {} /\ d.dirty = {} /\ d.lost = c.lost \cup c.changed
  BY <1>1 DEF CacheType, Drop
<1> HIDE DEF d
<1>3. \A j \in INodes : NamesOf(d, j) = {}
  BY <1>2 DEF NamesOf, Cached
<1>4. CacheOK(d)
  BY <1>2, <1>3, FS_EmptySet DEF CacheOK, UsersCounted, Cached
<1> QED BY <1>2, <1>4 DEF d

LEMMA ClosedStays ==
  ASSUME Locking, Next, Closed
  PROVE  Closed'
<1>0. Shell \in Threads /\ pc \in [Threads -> Steps] /\ InCall(Shell)
      /\ pc[Shell] \notin {"idle", "store", "get new"} /\ pc[Shell] \notin Opening
      /\ pc[Shell] \notin {"close", "use"}
  BY ThreadNames DEF Locking, Calls, Closed, Closing, Opening
<1>1. ASSUME NEW t \in Threads, t # Shell, NEW w, pc' = [pc EXCEPT ![t] = w] PROVE Closed'
  BY <1>0, <1>1 DEF Closed
<1>2. ASSUME UNCHANGED pc PROVE Closed'
  BY <1>2 DEF Closed
<1>3. ASSUME NEW t \in Threads, Refused(t), t # Shell PROVE Closed'
  BY <1>1, <1>3 DEF Refused, Finish, Goto
<1>4. ASSUME NEW t \in Threads, NEW r \in Requests,
             SysOpen(t, r) \/ OpenBriefly(t, r, "stat") \/ OpenBriefly(t, r, "cd")
      PROVE Closed'
  BY <1>0, <1>1, <1>4 DEF SysOpen, OpenBriefly, Begin, Ready, Goto
<1>5. ASSUME NEW t \in Threads, NEW s \in Slots, SysClose(t, s) \/ GetFileDescriptor(t, s) PROVE Closed'
  BY <1>0, <1>1, <1>5 DEF SysClose, GetFileDescriptor, Ready, Goto
<1>6. ASSUME NEW t \in Threads, Continue(t) PROVE Closed'
  <2>1. CASE LockVolumes(t)
    <3>1. t # Shell
      BY <1>0, <2>1 DEF LockVolumes, Opening
    <3> QED BY <1>1, <1>3, <2>1, <3>1 DEF LockVolumes, Goto
  <2>2. CASE FindLabel(t) \/ FindUUID(t)
    <3>1. t # Shell
      BY <1>0, <2>2 DEF FindLabel, FindUUID, Opening
    <3> QED BY <1>1, <1>2, <2>2, <3>1 DEF FindLabel, FindUUID, Goto
  <2>3. CASE OpenFile(t)
    <3>1. t # Shell
      BY <1>0, <2>3 DEF OpenFile, Opening
    <3>2. UNCHANGED pc \/ Refused(t) \/ Goto(t, "store")
      BY <2>3 DEF OpenFile
    <3> QED BY <1>1, <1>2, <1>3, <3>1, <3>2 DEF Goto
  <2>4. CASE StoreFile(t) \/ CloseBriefly(t) \/ CloseFile(t) \/ ReadOrWrite(t)
    <3>1. t # Shell
      BY <1>0, <2>4 DEF StoreFile, CloseBriefly, CloseFile, ReadOrWrite
    <3> QED BY <1>1, <2>4, <3>1 DEF StoreFile, CloseBriefly, CloseFile, ReadOrWrite, Finish, Goto
  <2> QED BY <1>6, <2>1, <2>2, <2>3, <2>4 DEF Continue
<1>7. ASSUME ShellStep PROVE Closed'
  <2>1. CASE PutOldDirectory \/ GetNewDirectory
    BY <1>0, <2>1 DEF PutOldDirectory, GetNewDirectory
  <2>2. CASE StartProcess \/ EndProcess \/ \E n \in Nodes : Unlink(n)
    BY <1>2, <2>2 DEF StartProcess, EndProcess, Unlink
  <2>3. ASSUME NEW w \in Closing, Goto(Shell, w) PROVE Closed'
    BY <1>0, <2>3 DEF Goto, Closed
  <2>4. CASE PutShellDirectory("idle", "put directory") \/ PutShellDirectory("put directory", "synchronize")
    BY <2>3, <2>4 DEF PutShellDirectory, Closing
  <2>5. CASE SynchronizeAll \/ Cleanup \/ FlushAndDrop
    BY <2>3, <2>5 DEF SynchronizeAll, Cleanup, FlushAndDrop, Closing
  <2> QED BY <1>7, <2>1, <2>2, <2>4, <2>5 DEF ShellStep
<1> QED BY <1>4, <1>5, <1>6, <1>7 DEF Next

LEMMA PlacedStep ==
  ASSUME Locking, Owned, Placed, PointersTyped, Next
  PROVE  Placed'
<1>0. /\ Shell \in Threads /\ pc \in [Threads -> Steps] /\ Shell \notin Users /\ NoNode \notin Nodes
      /\ \A t \in Users : t \in Threads
      /\ \A t \in Threads \ Users : t = Shell
  BY ThreadNames, FileSystemAssumption DEF Locking, Calls, Threads
<1>i. \A t \in Threads : InCall(t)
  BY DEF Locking, Calls
<1>1. ASSUME NEW t \in Threads, NEW w, pc' = [pc EXCEPT ![t] = w], cwd' = cwd,
             t = Shell => (w = "get new" <=> pc[t] = "get new"),
             t \in Users => pc[t] # "idle" \/ cwd["user"] # NoNode
      PROVE  Placed'
  BY <1>0, <1>1 DEF Placed
<1>2. ASSUME UNCHANGED <<pc, cwd>> PROVE Placed'
  BY <1>2 DEF Placed
<1>3. ASSUME NEW t \in Threads, Refused(t), cwd' = cwd, pc[t] \notin {"idle", "get new"} PROVE Placed'
  BY <1>1, <1>3 DEF Refused, Finish, Goto
<1>4. ASSUME NEW t \in Threads, NEW r \in Requests,
             SysOpen(t, r) \/ OpenBriefly(t, r, "stat") \/ OpenBriefly(t, r, "cd")
      PROVE Placed'
  BY <1>0, <1>1, <1>4 DEF SysOpen, OpenBriefly, Begin, Ready, Goto, ProcessOf, System
<1>5. ASSUME NEW t \in Threads, NEW s \in Slots, SysClose(t, s) \/ GetFileDescriptor(t, s) PROVE Placed'
  BY <1>0, <1>1, <1>5 DEF SysClose, GetFileDescriptor, Ready, Goto, ProcessOf, System
<1>6. ASSUME NEW t \in Threads, Continue(t) PROVE Placed'
  <2>1. CASE LockVolumes(t)
    <3>1. pc[t] = "volume" /\ cwd' = cwd
      BY <2>1 DEF LockVolumes, System
    <3>2. Refused(t) \/ \E w \in {"label", "uuid", "enter"} : Goto(t, w)
      BY <2>1 DEF LockVolumes
    <3> QED BY <1>1, <1>3, <3>1, <3>2 DEF Goto
  <2>2. CASE FindLabel(t) \/ FindUUID(t)
    BY <1>1, <1>2, <2>2 DEF FindLabel, FindUUID, Goto, System
  <2>3. CASE OpenFile(t)
    <3>1. pc[t] = "enter" /\ cwd' = cwd
      BY <2>3 DEF OpenFile, System
    <3>2. UNCHANGED pc \/ Refused(t) \/ Goto(t, "store")
      BY <2>3 DEF OpenFile
    <3> QED BY <1>1, <1>2, <1>3, <3>1, <3>2 DEF Goto
  <2>4. CASE StoreFile(t) \/ CloseBriefly(t) \/ CloseFile(t) \/ ReadOrWrite(t)
    BY <1>1, <2>4 DEF StoreFile, CloseBriefly, CloseFile, ReadOrWrite, Finish, Goto, System
  <2> QED BY <1>6, <2>1, <2>2, <2>3, <2>4 DEF Continue
<1>7. ASSUME ShellStep PROVE Placed'
  <2>1. CASE PutOldDirectory
    BY <1>0, <2>1 DEF PutOldDirectory, Goto, Placed, PointersTyped
  <2>2. CASE GetNewDirectory
    <3>1. files[job[Shell].file] # NoNode
      BY <1>0, <2>2 DEF GetNewDirectory, Owned, CallsLive, HasFile
    <3> QED BY <1>0, <3>1, <2>2 DEF GetNewDirectory, Finish, Goto, Placed, PointersTyped
  <2>3. CASE StartProcess
    BY <1>0, <2>3 DEF StartProcess, Begin, Ready, Placed, PointersTyped
  <2>4. CASE EndProcess
    BY <1>0, <2>4 DEF EndProcess, Placed, PointersTyped
  <2>5. CASE \E n \in Nodes : Unlink(n)
    BY <1>2, <2>5 DEF Unlink
  <2>6. ASSUME NEW w \in Closing, Goto(Shell, w), cwd' = cwd, pc[Shell] # "get new" PROVE Placed'
    BY <1>0, <1>1, <2>6 DEF Goto, Closing
  <2>7. CASE PutShellDirectory("idle", "put directory") \/ PutShellDirectory("put directory", "synchronize")
    BY <2>6, <2>7 DEF PutShellDirectory, Closing, System
  <2>8. CASE SynchronizeAll \/ Cleanup \/ FlushAndDrop
    BY <2>6, <2>8 DEF SynchronizeAll, Cleanup, FlushAndDrop, Closing, System
  <2> QED BY <1>7, <2>1, <2>2, <2>3, <2>4, <2>5, <2>7, <2>8 DEF ShellStep
<1> QED BY <1>4, <1>5, <1>6, <1>7 DEF Next

\* A step that neither starts a use or a close nor takes a descriptor away.
LEMMA UseKept ==
  ASSUME UsedPolitely, Calls, TableTyped,
         \A u \in Threads : pc'[u] \in {"use", "close"} => pc'[u] = pc[u] /\ job'[u] = job[u],
         \A s \in Slots : fds[s] \in Files => fds'[s] = fds[s]
  PROVE  UsedPolitely'
<1> SUFFICES ASSUME Polite, NEW t \in Threads, pc'[t] = "use"
             PROVE  /\ \E s \in Slots : fds'[s] = job'[t].file
                    /\ \A u \in Threads : pc'[u] = "close" => job'[u].file # job'[t].file
  BY DEF UsedPolitely
<1>1. pc[t] = "use" /\ job'[t] = job[t]
  OBVIOUS
<1>2. InCall(t)
  BY DEF Calls
<1>3. job[t].file \in Files
  BY <1>1, <1>2 DEF InCall
<1>4. \E s \in Slots : fds'[s] = job'[t].file
  BY <1>1, <1>3 DEF UsedPolitely
<1>5. ASSUME NEW u \in Threads, pc'[u] = "close" PROVE job'[u].file # job'[t].file
  BY <1>1, <1>5 DEF UsedPolitely
<1> QED BY <1>4, <1>5

LEMMA UseMoves ==
  ASSUME UsedPolitely, Calls, TableTyped, NEW t \in Threads, NEW w \in Steps, Moves(t, w),
         w \notin {"use", "close"}, \A s \in Slots : fds[s] \in Files => fds'[s] = fds[s]
  PROVE  UsedPolitely'
<1>1. pc'[t] = w /\ \A u \in Threads \ {t} : pc'[u] = pc[u] /\ job'[u] = job[u]
  BY DEF Calls, Moves
<1> QED BY <1>1, UseKept

\* The guard of SysClose, and the lock that it and GetFileDescriptor take.
LEMMA UseBegins ==
  ASSUME UsedPolitely, Locking, TableTyped, NEW t \in Threads, NEW s \in Slots,
         SysClose(t, s) \/ GetFileDescriptor(t, s)
  PROVE  UsedPolitely'
<1>0. Calls /\ \A u \in Threads : pc[u] = "close" => procLock = u
  BY DEF Locking, ProcessLocked, HoldsProcess
<1>1. /\ t \in Users /\ pc[t] = "idle" /\ fds[s] \in Files /\ fds' = fds
      /\ \A u \in Threads : pc[u] # "close"
  <2>1. procLock = NoOne
    BY DEF SysClose, GetFileDescriptor, Free
  <2> QED BY <1>0, <2>1, ThreadNames DEF SysClose, GetFileDescriptor, Ready, TableTyped
<1>2. CASE SysClose(t, s)
  <2>1. Moves(t, "close") /\ job'[t].file = fds[s] /\ "close" \in Steps
    BY <1>0, <1>2 DEF SysClose, Goto, Moves, Calls, Steps
  <2>2. pc'[t] = "close" /\ \A u \in Threads \ {t} : pc'[u] = pc[u] /\ job'[u] = job[u]
    BY <1>0, <2>1 DEF Calls, Moves
  <2>3. ASSUME Polite, NEW u \in Threads, pc'[u] = "use"
        PROVE  /\ \E v \in Slots : fds'[v] = job'[u].file
               /\ \A v \in Threads : pc'[v] = "close" => job'[v].file # job'[u].file
    <3>1. u # t /\ pc[u] = "use" /\ job'[u] = job[u]
      BY <2>2, <2>3
    <3>2. job[u].file # fds[s]
      BY <1>2, <2>3, <3>1 DEF SysClose, Using
    <3>3. \A v \in Threads : pc'[v] = "close" => v = t
      BY <1>1, <2>2
    <3> QED BY <1>1, <2>1, <2>3, <3>1, <3>2, <3>3 DEF UsedPolitely
  <2> QED BY <2>3 DEF UsedPolitely
<1>3. CASE GetFileDescriptor(t, s)
  <2>1. Moves(t, "use") /\ job'[t].file = fds[s] /\ "use" \in Steps
    BY <1>0, <1>3 DEF GetFileDescriptor, Goto, Moves, Calls, Steps
  <2>2. pc'[t] = "use" /\ \A u \in Threads \ {t} : pc'[u] = pc[u] /\ job'[u] = job[u]
    BY <1>0, <2>1 DEF Calls, Moves
  <2>3. ASSUME Polite, NEW u \in Threads, pc'[u] = "use"
        PROVE  /\ \E v \in Slots : fds'[v] = job'[u].file
               /\ \A v \in Threads : pc'[v] = "close" => job'[v].file # job'[u].file
    <3>1. \A v \in Threads : pc'[v] # "close"
      BY <1>1, <2>2
    <3>2. \E v \in Slots : fds'[v] = job'[u].file
      BY <1>1, <2>1, <2>2, <2>3 DEF UsedPolitely
    <3> QED BY <3>1, <3>2
  <2> QED BY <2>3 DEF UsedPolitely
<1> QED BY <1>2, <1>3

LEMMA UseContinues ==
  ASSUME UsedPolitely, Locking, TableTyped, Owned, NEW t \in Threads, Continue(t)
  PROVE  UsedPolitely'
<1>0. /\ Calls /\ InCall(t) /\ NoFile \notin Files
      /\ \A u \in Threads : procLock = u <=> HoldsProcess(u)
  BY FileSystemAssumption DEF Locking, ProcessLocked, Calls
<1>r. ASSUME Refused(t), fds' = fds PROVE UsedPolitely'
  <2>1. Moves(t, "idle")
    BY <1>r, CallEnds
  <2> QED BY <1>0, <1>r, <2>1, UseMoves DEF Steps
<1>1. CASE LockVolumes(t)
  <2>1. fds' = fds
    BY <1>1 DEF LockVolumes
  <2>2. CASE ~Refused(t)
    <3>1. PICK w \in {"label", "uuid", "enter"} : Goto(t, w)
      BY <1>1, <2>2 DEF LockVolumes
    <3>2. Moves(t, w) /\ w \in Steps
      BY <1>0, <1>1, <2>2, <3>1 DEF LockVolumes, Goto, Moves, Calls, Steps, Opening
    <3> QED BY <1>0, <2>1, <3>2, UseMoves
  <2> QED BY <1>r, <2>1, <2>2
<1>2. CASE FindLabel(t)
  <2>1. Moves(t, "enter") /\ "enter" \in Steps /\ fds' = fds
    BY <1>0, <1>2 DEF FindLabel, Goto, Moves, Calls, Steps, Opening
  <2> QED BY <1>0, <2>1, UseMoves
<1>3. CASE FindUUID(t)
  BY <1>0, <1>3, UseKept DEF FindUUID
<1>4. CASE OpenFile(t)
  <2>1. /\ fds' = fds
        /\ \/ UNCHANGED <<pc, job>>
           \/ Refused(t)
           \/ \E f \in Spare : /\ job' = [job EXCEPT ![t] = [op |-> @.op, file |-> f]]
                               /\ Goto(t, "store")
    BY <1>4 DEF OpenFile
  <2>2. CASE UNCHANGED <<pc, job>>
    BY <1>0, <2>1, <2>2, UseKept
  <2>3. ASSUME NEW f \in Spare, job' = [job EXCEPT ![t] = [op |-> @.op, file |-> f]],
               Goto(t, "store")
        PROVE  UsedPolitely'
    <3>1. Moves(t, "store") /\ "store" \in Steps
      BY <1>0, <2>3 DEF Goto, Moves, Calls, Steps
    <3> QED BY <1>0, <2>1, <3>1, UseMoves
  <2> QED BY <1>r, <2>1, <2>2, <2>3
<1>5. CASE StoreFile(t)
  <2>1. Finish(t) /\ HoldsProcess(t) /\ procLock' = NoOne
    BY <1>5 DEF StoreFile, HoldsProcess
  <2>2. Moves(t, "idle")
    BY <1>0, <2>1, CallEnds
  <2>3. \A s \in Slots : fds[s] \in Files => fds'[s] = fds[s]
    BY <1>0, <1>5 DEF StoreFile, FirstFree, TableTyped
  <2> QED BY <1>0, <2>2, <2>3, UseMoves DEF Steps
<1>6. CASE CloseBriefly(t) \/ ReadOrWrite(t)
  <2>1. Finish(t) /\ ~HoldsProcess(t) /\ procLock' = procLock /\ fds' = fds
    BY <1>6 DEF CloseBriefly, ReadOrWrite, HoldsProcess, Locks, Opening
  <2>2. Moves(t, "idle")
    BY <1>0, <2>1, CallEnds
  <2> QED BY <1>0, <2>1, <2>2, UseMoves DEF Steps
<1>7. CASE CloseFile(t)
  <2>1. /\ pc[t] = "close" /\ Finish(t) /\ HoldsProcess(t) /\ procLock' = NoOne
        /\ fds' = [fds EXCEPT ![job[t].slot] = NoFile]
    BY <1>7 DEF CloseFile, HoldsProcess
  <2>2. Moves(t, "idle") /\ "idle" \in Steps
    BY <1>0, <2>1, CallEnds DEF Steps
  <2>3. pc'[t] = "idle" /\ \A u \in Threads \ {t} : pc'[u] = pc[u] /\ job'[u] = job[u]
    BY <1>0, <2>2 DEF Calls, Moves
  <2>4. fds[job[t].slot] = job[t].file
    BY <2>1 DEF Owned, ClosesItsSlot
  <2>5. ASSUME Polite, NEW u \in Threads, pc'[u] = "use"
        PROVE  /\ \E s \in Slots : fds'[s] = job'[u].file
               /\ \A v \in Threads : pc'[v] = "close" => job'[v].file # job'[u].file
    <3>1. u # t /\ pc[u] = "use" /\ job'[u] = job[u]
      BY <2>3, <2>5
    <3>2. PICK s \in Slots : fds[s] = job[u].file
      BY <2>5, <3>1 DEF UsedPolitely
    <3>3. job[t].file # job[u].file
      BY <2>1, <2>5, <3>1 DEF UsedPolitely
    <3>4. fds'[s] = fds[s]
      BY <2>1, <2>4, <3>2, <3>3 DEF TableTyped
    <3>5. \A v \in Threads : pc'[v] = "close" => pc[v] = "close" /\ job'[v] = job[v]
      BY <2>3
    <3> QED BY <2>5, <3>1, <3>2, <3>4, <3>5 DEF UsedPolitely
  <2> QED BY <2>5 DEF UsedPolitely
<1> QED BY <1>1, <1>2, <1>3, <1>4, <1>5, <1>6, <1>7 DEF Continue

LEMMA UseStep ==
  ASSUME UsedPolitely, Locking, TableTyped, Owned, Next
  PROVE  UsedPolitely'
<1>0. /\ Calls /\ Shell \in Threads /\ procLock # Shell
      /\ \A u \in Threads : InCall(u)
  BY ThreadNames DEF Locking, ProcessLocked, Calls
<1>1. ASSUME NEW t \in Threads, NEW r \in Requests, NEW op, SysOpen(t, r) \/ OpenBriefly(t, r, op)
      PROVE UsedPolitely'
  <2>1. Moves(t, "volume") /\ "volume" \in Steps /\ fds' = fds
    BY <1>0, <1>1 DEF SysOpen, OpenBriefly, Goto, Moves, Calls, Steps, Opening
  <2> QED BY <1>0, <2>1, UseMoves
<1>2. ASSUME NEW w \in Steps, Goto(Shell, w), UNCHANGED <<job, fds>>, w \notin {"use", "close"}
      PROVE UsedPolitely'
  <2>1. Moves(Shell, w)
    BY <1>0, <1>2 DEF Goto, Moves, Calls
  <2> QED BY <1>0, <1>2, <2>1, UseMoves
<1>3. ASSUME ShellStep PROVE UsedPolitely'
  <2>1. CASE PutOldDirectory
    BY <1>2, <2>1 DEF PutOldDirectory, Steps
  <2>2. CASE GetNewDirectory
    <3>1. Moves(Shell, "idle") /\ fds' = fds
      BY <1>0, <2>2, CallEnds DEF GetNewDirectory, Locks
    <3> QED BY <1>0, <3>1, UseMoves DEF Steps
  <2>3. CASE StartProcess \/ \E n \in Nodes : Unlink(n)
    BY <1>0, <2>3, UseKept DEF StartProcess, Unlink
  <2>4. CASE EndProcess
    <3>1. \A t \in Threads : pc[t] # "use"
      BY <1>0, <2>4 DEF EndProcess, InCall
    <3> QED BY <2>4, <3>1 DEF EndProcess, UsedPolitely
  <2>5. CASE PutShellDirectory("idle", "put directory") \/ PutShellDirectory("put directory", "synchronize")
    BY <1>2, <2>5 DEF PutShellDirectory, Steps, Closing
  <2>6. CASE SynchronizeAll \/ Cleanup \/ FlushAndDrop
    BY <1>2, <2>6 DEF SynchronizeAll, Cleanup, FlushAndDrop, Steps, Closing
  <2> QED BY <1>3, <2>1, <2>2, <2>3, <2>4, <2>5, <2>6 DEF ShellStep
<1>4. ASSUME NEW t \in Threads, NEW s \in Slots, SysClose(t, s) \/ GetFileDescriptor(t, s)
      PROVE UsedPolitely'
  BY <1>4, UseBegins
<1>5. ASSUME NEW t \in Threads, Continue(t) PROVE UsedPolitely'
  BY <1>5, UseContinues
<1> QED BY <1>1, <1>3, <1>4, <1>5 DEF Next

-----------------------------------------------------------------------------
(* The books: what each step does to the counts and to the changes.        *)

Books == Accounted /\ Saved

\* The shutdown is not taken back, and begins its last part with SynchronizeAll.
Onward ==
  /\ Closed => Closed'
  /\ pc'[Shell] \in After => pc[Shell] \in After

LEMMA OnwardStep ==
  ASSUME Locking, Next, ~SynchronizeAll
  PROVE  Onward
<1>0. Shell \in Threads /\ pc \in [Threads -> Steps] /\ InCall(Shell)
  BY ThreadNames DEF Locking, Calls
<1>1. ASSUME NEW t \in Threads, NEW w, pc' = [pc EXCEPT ![t] = w], w \notin After
      PROVE  pc'[Shell] \in After => pc[Shell] \in After
  BY <1>0, <1>1
<1>2. "idle" \notin After /\ "volume" \notin After /\ "store" \notin After /\ "use" \notin After
      /\ "close" \notin After /\ "get new" \notin After /\ "label" \notin After /\ "uuid" \notin After
      /\ "enter" \notin After
  BY DEF After
<1>3. ASSUME NEW t \in Threads, Refused(t) PROVE pc'[Shell] \in After => pc[Shell] \in After
  BY <1>1, <1>2, <1>3 DEF Refused, Finish, Goto
<1>4. ASSUME NEW t \in Threads, Continue(t) PROVE pc'[Shell] \in After => pc[Shell] \in After
  <2>1. CASE LockVolumes(t)
    <3>1. Refused(t) \/ \E w \in {"label", "uuid", "enter"} : Goto(t, w)
      BY <2>1 DEF LockVolumes
    <3> QED BY <1>1, <1>2, <1>3, <3>1 DEF Goto
  <2>2. CASE FindLabel(t) \/ FindUUID(t)
    BY <1>1, <1>2, <2>2 DEF FindLabel, FindUUID, Goto
  <2>3. CASE OpenFile(t)
    <3>1. UNCHANGED pc \/ Refused(t) \/ Goto(t, "store")
      BY <2>3 DEF OpenFile
    <3> QED BY <1>1, <1>2, <1>3, <3>1 DEF Goto
  <2>4. CASE StoreFile(t) \/ CloseBriefly(t) \/ CloseFile(t) \/ ReadOrWrite(t)
    BY <1>1, <1>2, <2>4 DEF StoreFile, CloseBriefly, CloseFile, ReadOrWrite, Finish, Goto
  <2> QED BY <1>4, <2>1, <2>2, <2>3, <2>4 DEF Continue
<1>5. ASSUME ShellStep PROVE pc'[Shell] \in After => pc[Shell] \in After
  <2>1. CASE PutOldDirectory \/ GetNewDirectory
    BY <1>0, <1>1, <1>2, <2>1 DEF PutOldDirectory, GetNewDirectory, Finish, Goto
  <2>2. CASE StartProcess \/ EndProcess \/ \E n \in Nodes : Unlink(n)
    BY <2>2 DEF StartProcess, EndProcess, Unlink
  <2>3. CASE PutShellDirectory("idle", "put directory") \/ PutShellDirectory("put directory", "synchronize")
    BY <1>0, <1>1, <2>3 DEF PutShellDirectory, Goto, After
  <2>4. CASE Cleanup \/ FlushAndDrop
    BY <2>4 DEF Cleanup, FlushAndDrop, After
  <2> QED BY <1>5, <2>1, <2>2, <2>3, <2>4 DEF ShellStep
<1>6. ASSUME NEW t \in Threads, NEW r, NEW op, SysOpen(t, r) \/ OpenBriefly(t, r, op)
      PROVE pc'[Shell] \in After => pc[Shell] \in After
  BY <1>1, <1>2, <1>6 DEF SysOpen, OpenBriefly, Goto
<1>7. ASSUME NEW t \in Threads, NEW s, SysClose(t, s) \/ GetFileDescriptor(t, s)
      PROVE pc'[Shell] \in After => pc[Shell] \in After
  BY <1>1, <1>2, <1>7 DEF SysClose, GetFileDescriptor, Goto
<1> QED BY <1>4, <1>5, <1>6, <1>7, ClosedStays DEF Next, Onward

LEMMA BooksSame ==
  ASSUME Books, Onward, UNCHANGED <<cache, files, cwd, late>>
  PROVE  Books'
<1>1. PointersTyped' /\ Outside' = Outside
  BY OutsideSame DEF Books, Accounted
<1>2. Accounted'
  BY <1>1 DEF Books, Accounted, Onward
<1>3. Saved'
  BY DEF Books, Saved, Onward
<1> QED BY <1>2, <1>3 DEF Books

\* A step that moves the pointers as it moves the counts.
LEMMA BooksMove ==
  ASSUME Books, Onward, PointersTyped', CacheOK(cache'), Quiet(cache, cache'), late' = late,
         ~Closed => Sound(cache', Outside')
  PROVE  Books'
BY AccountedStep, QuietSaved DEF Books, Onward

LEMMA BooksPutFile ==
  ASSUME Books, Onward, Running, NEW f \in Files, files[f] # NoNode,
         files' = [files EXCEPT ![f] = NoNode], cache' = PutDEntry(cache, files[f]),
         UNCHANGED <<cwd, late>>
  PROVE  Books'
<1>1. PointersTyped /\ CacheOK(cache)
  BY DEF Books, Accounted
<1>n. PICK n \in Nodes : n = files[f]
  BY <1>1 DEF PointersTyped
<1>2. PointersTyped' /\ Outside' = Minus(Outside, n)
  BY <1>1, <1>n, OutsideFile
<1>3. CacheOK(cache') /\ Quiet(cache, cache')
  BY <1>1, <1>n, PutKeepsCounts
<1>4. ASSUME ~Closed PROVE Sound(cache', Outside')
  <2>1. Sound(cache, Outside) /\ Outside \in Counts
    BY <1>4, SoundNow DEF Books
  <2>2. Outside[n] >= 1
    BY <1>1, <1>n, OutsideType
  <2> QED BY <1>2, <1>n, <2>1, <2>2, PutBalanced
<1> QED BY <1>2, <1>3, <1>4, BooksMove

LEMMA BooksPutDirectory ==
  ASSUME Books, Onward, Running, NEW p \in {"kernel", "user"}, cwd[p] # NoNode,
         cwd' = [cwd EXCEPT ![p] = NoNode], cache' = PutDEntry(cache, cwd[p]),
         UNCHANGED <<files, late>>
  PROVE  Books'
<1>1. PointersTyped /\ CacheOK(cache)
  BY DEF Books, Accounted
<1>n. PICK n \in Nodes : n = cwd[p]
  BY <1>1 DEF PointersTyped
<1>2. PointersTyped' /\ Outside' = Minus(Outside, n)
  BY <1>1, <1>n, OutsideProcess
<1>3. CacheOK(cache') /\ Quiet(cache, cache')
  BY <1>1, <1>n, PutKeepsCounts
<1>4. ASSUME ~Closed PROVE Sound(cache', Outside')
  <2>1. Sound(cache, Outside) /\ Outside \in Counts
    BY <1>4, SoundNow DEF Books
  <2>2. Outside[n] >= 1
    BY <1>1, <1>n, OutsideType
  <2> QED BY <1>2, <1>n, <2>1, <2>2, PutBalanced
<1> QED BY <1>2, <1>3, <1>4, BooksMove

LEMMA BooksGetDirectory ==
  ASSUME Books, Onward, Running, cwd["user"] = NoNode, cwd["kernel"] # NoNode,
         cwd' = [cwd EXCEPT !["user"] = cwd["kernel"]], cache' = GetDEntry(cache, cwd["kernel"]),
         UNCHANGED <<files, late>>
  PROVE  Books'
<1>1. PointersTyped /\ CacheOK(cache)
  BY DEF Books, Accounted
<1>n. PICK n \in Nodes : n = cwd["kernel"]
  BY <1>1 DEF PointersTyped
<1>2. PointersTyped' /\ Outside' = Plus(Outside, n)
  BY <1>1, <1>n, OutsideProcess
<1>3. CacheOK(cache') /\ Quiet(cache, cache')
  BY <1>1, <1>n, GetKeepsCounts
<1>4. ASSUME ~Closed PROVE Sound(cache', Outside')
  <2>1. Sound(cache, Outside) /\ Outside \in Counts
    BY <1>4, SoundNow DEF Books
  <2>2. Outside[n] >= 1
    BY <1>1, <1>n, OutsideType
  <2>3. Cached(cache, n)
    BY <2>1, <2>2, PointedIsCached
  <2> QED BY <1>2, <1>n, <2>1, <2>3, GetBalanced
<1> QED BY <1>2, <1>3, <1>4, BooksMove

\* cd: the new directory is counted before the File that found it is closed.
LEMMA BooksPass ==
  ASSUME Books, Onward, Running, NEW f \in Files, files[f] # NoNode, cwd["kernel"] = NoNode,
         files' = [files EXCEPT ![f] = NoNode], cwd' = [cwd EXCEPT !["kernel"] = files[f]],
         cache' = PutDEntry(GetDEntry(cache, files[f]), files[f]), late' = late
  PROVE  Books'
<1>1. PointersTyped /\ CacheOK(cache)
  BY DEF Books, Accounted
<1>n. PICK n \in Nodes : n = files[f]
  BY <1>1 DEF PointersTyped
<1>2. PointersTyped' /\ Outside' = Outside
  BY <1>1, <1>n, OutsidePasses
<1> DEFINE g == GetDEntry(cache, n)
<1>3. CacheOK(g) /\ Quiet(cache, g)
  BY <1>1, GetKeepsCounts
<1>4. CacheOK(cache') /\ Quiet(cache, cache')
  <2>1. cache' = PutDEntry(g, n)
    BY <1>n
  <2> HIDE DEF g
  <2>2. CacheOK(PutDEntry(g, n)) /\ Quiet(g, PutDEntry(g, n))
    BY <1>3, PutKeepsCounts
  <2> QED BY <1>3, <2>1, <2>2, QuietTrans
<1>5. ASSUME ~Closed PROVE Sound(cache', Outside')
  <2>1. Sound(cache, Outside) /\ Outside \in Counts
    BY <1>5, SoundNow DEF Books
  <2>2. Outside[n] >= 1
    BY <1>1, <1>n, OutsideType
  <2>3. Cached(cache, n)
    BY <2>1, <2>2, PointedIsCached
  <2>4. Sound(g, Plus(Outside, n))
    BY <2>1, <2>3, GetBalanced
  <2>5. Plus(Outside, n) \in Counts /\ Plus(Outside, n)[n] >= 1
        /\ Minus(Plus(Outside, n), n) = Outside
    BY <2>1, PlusMinus
  <2> HIDE DEF g
  <2>6. Sound(PutDEntry(g, n), Minus(Plus(Outside, n), n))
    BY <2>4, <2>5, PutBalanced
  <2>7. cache' = PutDEntry(g, n)
    BY <1>n DEF g
  <2> QED BY <1>2, <2>5, <2>6, <2>7
<1> QED BY <1>2, <1>4, <1>5, BooksMove

\* Once the shutdown has begun only the bounds of the cache are left.
LEMMA BooksClosed ==
  ASSUME Books, Closed', CacheOK(cache'), UNCHANGED <<files, cwd>>, Saved'
  PROVE  Books'
<1>1. PointersTyped'
  BY OutsideSame DEF Books, Accounted
<1> QED BY <1>1 DEF Books, Accounted

\* What is noted of a change, so that no later loss goes unnoticed.
LEMMA ChangeSaved ==
  ASSUME Saved, late \in BOOLEAN, NEW c, cache' = c, c.lost = cache.lost, Changed(c),
         pc'[Shell] \in After => pc[Shell] \in After
  PROVE  Saved'
<1>1. late => late'
  BY DEF Changed
<1>2. pc[Shell] \in After /\ c.changed # cache.changed => late'
  BY DEF Changed, After
<1>3. cache'.lost # {} => late'
  BY <1>1 DEF Saved
<1>4. pc'[Shell] \in After /\ cache'.changed # {} => late'
  BY <1>1, <1>2 DEF Saved
<1> QED BY <1>3, <1>4 DEF Saved

\* Open_nolock ends with a reference on the entry it answers, or with none.
LEMMA OpenEntrySound ==
  ASSUME NEW c, NEW w, WalkOK(c, w), NEW r
  PROVE  /\ CacheOK(OpenEntry(w, r).c) /\ OpenEntry(w, r).c.lost = c.lost
         /\ OpenEntry(w, r).at \in Nodes \cup {NoNode}
         /\ \A E \in Counts : Sound(w.c, IF w.ok THEN Plus(E, w.at) ELSE E) =>
              Sound(OpenEntry(w, r).c,
                    IF OpenEntry(w, r).at = NoNode THEN E ELSE Plus(E, OpenEntry(w, r).at))
<1>0. w.at \in Nodes /\ CacheOK(w.c) /\ w.c.lost = c.lost /\ INodeOf[w.at] \in INodes
      /\ NoNode \notin Nodes
  BY WalkTypes, NodeFacts, FileSystemAssumption DEF WalkOK, Quiet
<1> DEFINE m == IF w.ok /\ "truncate" \in r.flags THEN Modify(w.c, INodeOf[w.at]) ELSE w.c
           e == OpenEntry(w, r)
<1>1. CacheOK(m) /\ m.lost = c.lost /\ \A F : Sound(w.c, F) => Sound(m, F)
  BY <1>0, ModifyFields
<1>2. CASE ~w.ok
  <2>1. e.c = w.c /\ e.at = NoNode
    BY <1>2 DEF OpenEntry
  <2> HIDE DEF e
  <2> QED BY <1>0, <1>2, <2>1 DEF e
<1>3. CASE w.ok /\ "directory" \in r.flags /\ w.at \notin Dirs
  <2>1. e.c = PutDEntry(m, w.at) /\ e.at = NoNode
    BY <1>3 DEF OpenEntry
  <2> HIDE DEF e, m
  <2>2. CacheOK(PutDEntry(m, w.at)) /\ PutDEntry(m, w.at).lost = m.lost
    BY <1>0, <1>1, PutKeepsCounts DEF Quiet
  <2>3. ASSUME NEW E \in Counts, Sound(w.c, Plus(E, w.at)) PROVE Sound(PutDEntry(m, w.at), E)
    <3>1. Plus(E, w.at) \in Counts /\ Plus(E, w.at)[w.at] >= 1 /\ Minus(Plus(E, w.at), w.at) = E
      BY <1>0, PlusMinus
    <3>2. Sound(m, Plus(E, w.at))
      BY <1>1, <2>3
    <3>3. Sound(PutDEntry(m, w.at), Minus(Plus(E, w.at), w.at))
      BY <1>0, <3>1, <3>2, PutBalanced
    <3> QED BY <3>1, <3>3
  <2> QED BY <1>1, <1>3, <2>1, <2>2, <2>3 DEF e
<1>4. CASE w.ok /\ ~("directory" \in r.flags /\ w.at \notin Dirs)
  <2>1. e.c = m /\ e.at = w.at
    BY <1>4 DEF OpenEntry
  <2> HIDE DEF e, m
  <2> QED BY <1>0, <1>1, <1>4, <2>1 DEF e
<1> QED BY <1>2, <1>3, <1>4

LEMMA BooksOpen ==
  ASSUME Books, Onward, Locking, Placed, late \in BOOLEAN, NEW t \in Threads, OpenFile(t)
  PROVE  Books'
<1> DEFINE r == job[t].request
           start == IF r.volume = "none" THEN cwd[ProcessOf(t)] ELSE Root
           w == Walk(cache, start, r.steps)
           e == OpenEntry(w, r)
<1>0. Running /\ pc[t] = "enter" /\ cwd' = cwd
  BY DEF OpenFile, System
<1>1. r.steps \in Seq(STRING)
  <2>1. InCall(t)
    BY DEF Locking, Calls
  <2>2. r \in Requests
    BY <1>0, <2>1 DEF InCall, Opening
  <2> QED BY <2>2, FileSystemAssumption DEF OpenRequest
<1>2. PointersTyped /\ CacheOK(cache)
  BY DEF Books, Accounted
<1>3. cwd[ProcessOf(t)] \in Nodes
  <2>1. t \in Users \/ t = Shell
    BY DEF Threads
  <2>2. CASE t = Shell
    BY <1>0, <1>2, <2>2 DEF ProcessOf, Placed, PointersTyped
  <2>3. CASE t \in Users
    BY <1>0, <1>2, <2>3, ThreadNames DEF ProcessOf, Placed, PointersTyped
  <2> QED BY <2>1, <2>2, <2>3
<1>4. start \in Nodes
  BY <1>3, NodeFacts
<1>c. ASSUME ~Closed PROVE Sound(cache, Outside) /\ Outside \in Counts /\ Cached(cache, start)
  <2>1. Sound(cache, Outside) /\ Outside \in Counts
    BY <1>0, <1>c, SoundNow DEF Books
  <2>2. Outside[start] >= 1
    <3>1. Outside[Root] >= 1 /\ Outside[cwd[ProcessOf(t)]] >= 1
      BY <1>2, <1>3, OutsideType, FileSystemAssumption DEF ProcessOf
    <3> QED BY <3>1
  <2> QED BY <1>4, <2>1, <2>2, PointedIsCached
<1>5. \/ UNCHANGED <<cache, files, late>>
      \/ /\ cache' = e.c /\ Changed(e.c)
         /\ \/ e.at = NoNode /\ files' = files
            \/ e.at # NoNode /\ \E f \in Spare : files' = [files EXCEPT ![f] = e.at]
  BY DEF OpenFile, Memory
<1>6. WalkOK(cache, w) /\ (~Closed => Sound(w.c, IF w.ok THEN Plus(Outside, w.at) ELSE Outside))
  <2> HIDE DEF start
  <2>1. LET v == Walk(cache, start, r.steps)
        IN  /\ WalkOK(cache, v)
            /\ \A E \in Counts : Sound(cache, E) /\ Cached(cache, start) =>
                 Sound(v.c, IF v.ok THEN Plus(E, v.at) ELSE E)
    BY <1>1, <1>2, <1>4, WalkSound
  <2> QED BY <1>c, <2>1
<1> HIDE DEF w
<1>7. CacheOK(e.c) /\ e.c.lost = cache.lost /\ e.at \in Nodes \cup {NoNode}
      /\ (~Closed => Sound(e.c, IF e.at = NoNode THEN Outside ELSE Plus(Outside, e.at)))
  BY <1>6, <1>c, OpenEntrySound
<1> HIDE DEF e
<1>8. CASE UNCHANGED <<cache, files, late>>
  BY <1>0, <1>8, BooksSame
<1>9. ASSUME cache' = e.c, Changed(e.c) PROVE Saved'
  <2>1. pc'[Shell] \in After => pc[Shell] \in After
    BY DEF Onward
  <2> QED BY <1>7, <1>9, <2>1, ChangeSaved DEF Books
<1>10. CASE cache' = e.c /\ Changed(e.c) /\ e.at = NoNode /\ files' = files
  <2>1. PointersTyped' /\ Outside' = Outside
    BY <1>0, <1>2, <1>10, OutsideSame
  <2>2. ~Closed => Sound(cache', Outside')
    BY <1>7, <1>10, <2>1
  <2>3. Accounted'
    BY <1>7, <1>10, <2>1, <2>2, AccountedStep DEF Books, Onward
  <2> QED BY <1>9, <1>10, <2>3 DEF Books
<1>11. ASSUME cache' = e.c, Changed(e.c), e.at # NoNode,
              NEW f \in Spare, files' = [files EXCEPT ![f] = e.at]
       PROVE  Books'
  <2>n. PICK n \in Nodes : n = e.at
    BY <1>7, <1>11
  <2>1. PointersTyped' /\ Outside' = Plus(Outside, n)
    BY <1>0, <1>2, <1>11, <2>n, OutsideFile DEF Spare
  <2>2. ~Closed => Sound(cache', Outside')
    BY <1>7, <1>11, <2>n, <2>1
  <2>3. Accounted'
    BY <1>7, <1>11, <2>1, <2>2, AccountedStep DEF Books, Onward
  <2> QED BY <1>9, <1>11, <2>3 DEF Books
<1> QED BY <1>5, <1>8, <1>10, <1>11

\* read and write: the File is live when the program is polite, and what a live
\* File points to is in the cache.
LEMMA BooksUse ==
  ASSUME Books, Onward, Locking, Owned, UsedPolitely, late \in BOOLEAN,
         NEW t \in Threads, ReadOrWrite(t)
  PROVE  Books'
<1> DEFINE n == files[job[t].file]
<1>0. Running /\ pc[t] = "use" /\ UNCHANGED <<files, cwd>>
  BY DEF ReadOrWrite, System
<1>1. PointersTyped /\ CacheOK(cache) /\ PointersTyped' /\ Outside' = Outside
  BY <1>0, OutsideSame DEF Books, Accounted
<1>2. job[t].file \in Files /\ n \in Nodes \cup {NoNode}
  <2>1. InCall(t)
    BY DEF Locking, Calls
  <2> QED BY <1>0, <1>1, <2>1 DEF InCall, PointersTyped
<1>3. \/ (n = NoNode \/ ~Cached(cache, n)) /\ cache' = [cache EXCEPT !.freed = TRUE] /\ late' = late
      \/ UNCHANGED <<cache, late>>
      \/ n # NoNode /\ cache' = Modify(cache, INodeOf[n]) /\ Changed(cache')
  BY DEF ReadOrWrite
<1>4. CASE (n = NoNode \/ ~Cached(cache, n)) /\ cache' = [cache EXCEPT !.freed = TRUE] /\ late' = late
  <2>1. CacheOK(cache') /\ Quiet(cache, cache')
    BY <1>1, <1>4, MarkFreed
  <2>2. Saved'
    BY <1>4, <2>1, QuietSaved DEF Books, Onward
  <2>3. ASSUME ~Closed PROVE ~Polite /\ Balanced(cache', Outside')
    <3>1. Sound(cache, Outside) /\ Outside \in Counts
      BY <1>0, <2>3, SoundNow DEF Books
    <3>2. ASSUME n # NoNode PROVE Cached(cache, n)
      <4>1. Outside[n] >= 1
        BY <1>1, <1>2, <3>2, OutsideType
      <4> QED BY <1>2, <3>1, <3>2, <4>1, PointedIsCached
    <3>3. n = NoNode
      BY <1>4, <3>2
    <3>4. ~Polite
      <4>1. ASSUME Polite PROVE \E s \in Slots : fds[s] = job[t].file
        BY <1>0, <4>1 DEF UsedPolitely
      <4>2. NoFile \notin Files
        BY FileSystemAssumption
      <4> QED BY <1>2, <3>3, <4>1, <4>2 DEF Owned, DescriptorsLive
    <3>5. cache'.refs = cache.refs /\ cache'.leaked = cache.leaked
      BY <1>1, <1>4 DEF CacheOK, CacheType
    <3>6. \A m \in Nodes : Kids(cache', m) = Kids(cache, m)
      BY <3>5 DEF Kids, Cached
    <3>7. Balanced(cache', Outside)
      BY <3>1, <3>5, <3>6 DEF Sound, Balanced
    <3> QED BY <1>1, <3>4, <3>7
  <2>4. Accounted'
    BY <1>1, <2>1, <2>3 DEF Accounted, Onward
  <2> QED BY <2>2, <2>4 DEF Books
<1>5. CASE UNCHANGED <<cache, late>>
  BY <1>0, <1>5, BooksSame
<1>6. CASE n # NoNode /\ cache' = Modify(cache, INodeOf[n]) /\ Changed(cache')
  <2>0. n \in Nodes /\ INodeOf[n] \in INodes
    BY <1>2, <1>6, NodeFacts
  <2> DEFINE c == Modify(cache, INodeOf[n])
  <2>1. CacheOK(c) /\ c.lost = cache.lost /\ \A E : Sound(cache, E) => Sound(c, E)
    BY <1>1, <2>0, ModifyFields
  <2>2. cache' = c /\ Changed(c)
    BY <1>6 DEF Changed
  <2> HIDE DEF c
  <2>3. Saved'
    BY <2>1, <2>2, ChangeSaved DEF Books, Onward
  <2>4. ~Closed => Sound(cache', Outside')
    BY <1>0, <1>1, <2>1, <2>2, SoundNow DEF Books
  <2>5. Accounted'
    BY <1>1, <2>1, <2>2, <2>4, AccountedStep DEF Books, Onward
  <2> QED BY <2>3, <2>5 DEF Books
<1> QED BY <1>3, <1>4, <1>5, <1>6

LEMMA BooksContinue ==
  ASSUME Books, Onward, Locking, Owned, Placed, UsedPolitely, late \in BOOLEAN,
         NEW t \in Threads, Continue(t)
  PROVE  Books'
<1>0. InCall(t)
  BY DEF Locking, Calls
<1>d. ASSUME Running, NEW f \in Files, files[f] # NoNode, DeleteFile(f), cwd' = cwd PROVE Books'
  BY <1>d, BooksPutFile DEF DeleteFile
<1>1. CASE LockVolumes(t) \/ FindLabel(t) \/ FindUUID(t) \/ StoreFile(t)
  <2>1. UNCHANGED <<cache, files, cwd, late>>
    BY <1>1 DEF LockVolumes, FindLabel, FindUUID, StoreFile, Memory, System
  <2> QED BY <2>1, BooksSame
<1>2. CASE OpenFile(t)
  BY <1>2, BooksOpen
<1>3. CASE CloseBriefly(t)
  <2>1. Running /\ HasFile(t) /\ job[t].file \in Files /\ DeleteFile(job[t].file) /\ cwd' = cwd
    BY <1>0, <1>3 DEF CloseBriefly, HasFile, InCall, System
  <2>2. files[job[t].file] # NoNode
    BY <2>1 DEF Owned, CallsLive
  <2> QED BY <1>d, <2>1, <2>2
<1>4. CASE CloseFile(t)
  <2>1. Running /\ pc[t] = "close" /\ job[t].slot \in Slots /\ job[t].file \in Files
        /\ DeleteFile(job[t].file) /\ cwd' = cwd
    BY <1>0, <1>4 DEF CloseFile, InCall, System
  <2>2. fds[job[t].slot] = job[t].file /\ NoFile \notin Files
    BY <2>1, FileSystemAssumption DEF Owned, ClosesItsSlot
  <2>3. files[job[t].file] # NoNode
    BY <2>1, <2>2 DEF Owned, DescriptorsLive
  <2> QED BY <1>d, <2>1, <2>3
<1>5. CASE ReadOrWrite(t)
  BY <1>5, BooksUse
<1> QED BY <1>1, <1>2, <1>3, <1>4, <1>5 DEF Continue

LEMMA BooksShell ==
  ASSUME Books, Onward, Locking, Owned, Placed, ShellStep, ~SynchronizeAll
  PROVE  Books'
<1>0. InCall(Shell) /\ Shell \in Threads /\ pc \in [Threads -> Steps]
  BY ThreadNames DEF Locking, Calls
<1>1. PointersTyped /\ CacheOK(cache)
  BY DEF Books, Accounted
<1>2. CASE PutOldDirectory
  <2>1. cwd["kernel"] # NoNode
    BY <1>2 DEF PutOldDirectory, Placed
  <2> QED BY <1>2, <2>1, BooksPutDirectory DEF PutOldDirectory
<1>3. CASE GetNewDirectory
  <2>1. Running /\ HasFile(Shell) /\ job[Shell].file \in Files /\ cwd["kernel"] = NoNode
    BY <1>0, <1>3 DEF GetNewDirectory, HasFile, InCall, Placed
  <2>2. files[job[Shell].file] # NoNode
    BY <1>0, <2>1 DEF Owned, CallsLive
  <2> QED BY <1>3, <2>1, <2>2, BooksPass DEF GetNewDirectory
<1>4. CASE StartProcess
  <2>1. Running /\ cwd["kernel"] # NoNode
    BY <1>4 DEF StartProcess, Begin, Ready, ProcessOf
  <2> QED BY <1>4, <2>1, BooksGetDirectory DEF StartProcess
<1>5. CASE EndProcess
  BY <1>5, BooksPutDirectory DEF EndProcess
<1>6. CASE \E n \in Nodes : Unlink(n)
  BY <1>6, BooksSame DEF Unlink, Memory
<1>7. ASSUME NEW n \in Nodes, Running, cache' = PutDEntry(cache, n), UNCHANGED <<files, cwd, late>>,
             NEW w \in Closing, Goto(Shell, w)
      PROVE  Books'
  <2>1. CacheOK(cache') /\ Quiet(cache, cache')
    BY <1>1, <1>7, PutKeepsCounts
  <2>2. Closed'
    BY <1>0, <1>7 DEF Goto, Closed
  <2>3. Saved'
    BY <1>7, <2>1, QuietSaved DEF Books, Onward
  <2> QED BY <1>7, <2>1, <2>2, <2>3, BooksClosed
<1>8. CASE PutShellDirectory("idle", "put directory") \/ PutShellDirectory("put directory", "synchronize")
  <2>1. /\ Running /\ cache' = PutDEntry(cache, cwd["kernel"]) /\ UNCHANGED <<files, cwd, late>>
        /\ cwd["kernel"] # NoNode
        /\ (Goto(Shell, "put directory") \/ Goto(Shell, "synchronize"))
    BY <1>8 DEF PutShellDirectory, System
  <2>2. cwd["kernel"] \in Nodes
    BY <1>1, <2>1 DEF PointersTyped
  <2> QED BY <1>7, <2>1, <2>2 DEF Closing
<1>9. CASE Cleanup
  BY <1>7, <1>9, NodeFacts DEF Cleanup, Closing
<1>10. CASE FlushAndDrop
  <2>1. /\ cache' = Drop(cache) /\ UNCHANGED <<files, cwd, late>> /\ pc[Shell] = "flush"
        /\ Goto(Shell, "off")
    BY <1>10 DEF FlushAndDrop, System
  <2>2. CacheOK(cache') /\ cache'.changed = {} /\ cache'.lost = cache.lost \cup cache.changed
    BY <1>1, <2>1, DropFields
  <2>3. Closed'
    BY <1>0, <2>1 DEF Goto, Closed, Closing
  <2>4. Saved'
    BY <2>1, <2>2 DEF Books, Saved, After
  <2> QED BY <2>1, <2>2, <2>3, <2>4, BooksClosed
<1> QED BY <1>2, <1>3, <1>4, <1>5, <1>6, <1>8, <1>9, <1>10 DEF ShellStep

LEMMA BooksStep ==
  ASSUME Books, Locking, Owned, Placed, UsedPolitely, late \in BOOLEAN, Next
  PROVE  Books'
<1>1. CASE SynchronizeAll
  <2>0. CacheOK(cache) /\ Shell \in Threads /\ pc \in [Threads -> Steps]
    BY ThreadNames DEF Books, Accounted, Locking, Calls
  <2>1. /\ cache' = WriteINodes(cache) /\ UNCHANGED <<files, cwd, late>>
        /\ Goto(Shell, "clean up")
    BY <1>1 DEF SynchronizeAll, System
  <2>2. CacheOK(cache') /\ Quiet(cache, cache') /\ cache'.changed = {}
    BY <2>0, <2>1, WriteINodesFields
  <2>3. Closed'
    BY <2>0, <2>1 DEF Goto, Closed, Closing
  <2>4. Saved'
    BY <2>1, <2>2 DEF Books, Saved, Quiet
  <2> QED BY <2>1, <2>2, <2>3, <2>4, BooksClosed
<1>2. CASE ~SynchronizeAll
  <2>0. Onward
    BY <1>2, OnwardStep
  <2>1. ASSUME NEW t \in Threads, NEW r, NEW op, SysOpen(t, r) \/ OpenBriefly(t, r, op) PROVE Books'
    BY <2>0, <2>1, BooksSame DEF SysOpen, OpenBriefly, Memory, System
  <2>2. ASSUME NEW t \in Threads, NEW s, SysClose(t, s) \/ GetFileDescriptor(t, s) PROVE Books'
    BY <2>0, <2>2, BooksSame DEF SysClose, GetFileDescriptor, Memory, System
  <2>3. ASSUME NEW t \in Threads, Continue(t) PROVE Books'
    BY <2>0, <2>3, BooksContinue
  <2>4. CASE ShellStep
    BY <1>2, <2>0, <2>4, BooksShell
  <2> QED BY <2>1, <2>2, <2>3, <2>4 DEF Next
<1> QED BY <1>1, <1>2

LEMMA OneMore ==
  ASSUME NEW m \in Nat, NEW k \in 0..m, k < m
  PROVE  k + 1 \in 0..m
OBVIOUS

LEMMA MiscellaneousStep ==
  ASSUME Miscellaneous, Next
  PROVE  Miscellaneous'
<1> USE DEF Miscellaneous
<1>1. ASSUME UNCHANGED <<starts, late, fault>> PROVE Miscellaneous'
  BY <1>1
<1>2. ASSUME NEW t \in Threads, NEW r \in Requests, NEW op, SysOpen(t, r) \/ OpenBriefly(t, r, op)
      PROVE  Miscellaneous'
  BY <1>1, <1>2 DEF SysOpen, OpenBriefly, Memory, System
<1>3. ASSUME NEW t \in Threads, NEW s \in Slots, SysClose(t, s) \/ GetFileDescriptor(t, s)
      PROVE  Miscellaneous'
  BY <1>1, <1>3 DEF SysClose, GetFileDescriptor, Memory, System
<1>c. ASSUME NEW c, Changed(c), starts' = starts, fault' = fault PROVE Miscellaneous'
  BY <1>c DEF Changed
<1>4. ASSUME NEW t \in Threads, Continue(t) PROVE Miscellaneous'
  <2>1. CASE LockVolumes(t) \/ FindLabel(t) \/ StoreFile(t)
    BY <1>1, <2>1 DEF LockVolumes, FindLabel, StoreFile, Memory, System
  <2>2. CASE FindUUID(t)
    BY <2>2 DEF FindUUID, Halt, Memory, System
  <2>3. CASE OpenFile(t)
    <3>1. starts' = starts
      BY <2>3 DEF OpenFile, System
    <3>2. \/ late' = late /\ \E w, r : OpenFault(w, r) # "none" /\ fault' = OpenFault(w, r)
          \/ fault' = fault /\ \E c : Changed(c)
      BY <2>3 DEF OpenFile, Memory, Halt
    <3>3. \A w, r : OpenFault(w, r) \in {"none", "locked twice", "null pointer"}
      BY DEF OpenFault
    <3> QED BY <1>c, <3>1, <3>2, <3>3
  <2>4. CASE CloseBriefly(t) \/ CloseFile(t)
    BY <1>1, <2>4 DEF CloseBriefly, CloseFile, DeleteFile, System
  <2>5. CASE ReadOrWrite(t)
    <3>1. UNCHANGED <<starts, fault>> /\ (late' = late \/ \E c : Changed(c))
      BY <2>5 DEF ReadOrWrite, System
    <3> QED BY <1>1, <1>c, <3>1
  <2> QED BY <1>4, <2>1, <2>2, <2>3, <2>4, <2>5 DEF Continue
<1>5. ASSUME ShellStep PROVE Miscellaneous'
  <2>1. CASE PutOldDirectory \/ GetNewDirectory \/ EndProcess \/ SynchronizeAll \/ Cleanup \/ FlushAndDrop
    BY <1>1, <2>1 DEF PutOldDirectory, GetNewDirectory, EndProcess, SynchronizeAll, Cleanup, FlushAndDrop, System
  <2>2. CASE StartProcess
    <3>1. starts' = starts + 1 /\ starts < MaxStarts
      BY <2>2 DEF StartProcess
    <3>2. UNCHANGED <<late, fault>>
      BY <2>2 DEF StartProcess
    <3>3. starts \in 0..MaxStarts /\ MaxStarts \in Nat
      BY FileSystemAssumption
    <3>4. starts + 1 \in 0..MaxStarts
      BY <3>1, <3>3, OneMore
    <3> QED BY <3>1, <3>2, <3>4
  <2>3. CASE \E n \in Nodes : Unlink(n)
    BY <2>3 DEF Unlink, Halt, Memory
  <2>4. CASE PutShellDirectory("idle", "put directory") \/ PutShellDirectory("put directory", "synchronize")
    BY <1>1, <2>4 DEF PutShellDirectory, System
  <2> QED BY <1>5, <2>1, <2>2, <2>3, <2>4 DEF ShellStep
<1> QED BY <1>2, <1>3, <1>4, <1>5 DEF Next

LEMMA BooksInit == Init => Books /\ Placed /\ UsedPolitely /\ Miscellaneous
<1> SUFFICES ASSUME Init PROVE Books /\ Placed /\ UsedPolitely /\ Miscellaneous
  OBVIOUS
<1>0. NoNode \notin Nodes /\ Root \in Nodes /\ Root \in Dirs /\ Shell \in Threads
      /\ (\A u \in Users : u \in Threads) /\ MaxStarts \in Nat
      /\ \A n \in Nodes : INodeOf[n] = INodeOf[Root] => n = Root
  BY FileSystemAssumption, EntryCacheAssumption, NodeFacts DEF Threads
<1>1. Placed /\ UsedPolitely /\ Miscellaneous
  <2>1. Placed /\ UsedPolitely
    BY <1>0 DEF Init, Placed, UsedPolitely
  <2>2. starts \in 0..MaxStarts
    BY <1>0 DEF Init
  <2> QED BY <2>1, <2>2 DEF Init, Miscellaneous
<1>2. PointersTyped
  BY <1>0 DEF Init, PointersTyped
<1> DEFINE c == MountedCache
<1>3. c \in CacheType /\ c.blank = {} /\ c.changed = {} /\ c.dirty = {} /\ c.lost = {} /\ ~c.freed
      /\ c.refs = [n \in Nodes |-> IF n = Root THEN 2 ELSE 0]
      /\ c.leaked = [n \in Nodes |-> 0]
      /\ c.users = [i \in INodes |-> IF i = INodeOf[Root] THEN 1 ELSE 0]
  BY DEF MountedCache, CacheType
<1> HIDE DEF c
<1>4. \A n \in Nodes : Cached(c, n) <=> n = Root
  BY <1>3 DEF Cached
<1>5. UsersCounted(c)
  <2>1. ASSUME NEW i \in INodes PROVE c.users[i] = Cardinality(NamesOf(c, i))
    <3>1. CASE i = INodeOf[Root]
      <4>1. NamesOf(c, i) = {Root}
        BY <1>0, <1>3, <1>4, <3>1 DEF NamesOf
      <4> QED BY <1>3, <3>1, <4>1, FS_Singleton
    <3>2. CASE i # INodeOf[Root]
      <4>1. NamesOf(c, i) = {}
        BY <1>4, <3>2 DEF NamesOf
      <4> QED BY <1>3, <3>2, <4>1, FS_EmptySet
    <3> QED BY <3>1, <3>2
  <2> QED BY <2>1 DEF UsersCounted
<1>6. CacheOK(c)
  BY <1>3, <1>5 DEF CacheOK
<1>7. ASSUME NEW n \in Nodes PROVE c.refs[n] = Outside[n] + c.leaked[n] + Cardinality(Kids(c, n))
  <2>1. FilesAt(n) = {} /\ Kids(c, n) = {}
    BY <1>0, <1>4 DEF Init, FilesAt, Kids, Children
  <2>2. Cardinality({}) = 0
    BY FS_EmptySet
  <2>3. Outside[n] = Cardinality(ProcessesAt(n)) + (IF n = Root THEN 1 ELSE 0)
    <3>1. Cardinality(ProcessesAt(n)) \in Nat
      BY <1>2, PointerSets
    <3>2. Outside[n] = Cardinality(FilesAt(n)) + Cardinality(ProcessesAt(n)) + (IF n = Root THEN 1 ELSE 0)
      BY DEF Outside
    <3> QED BY <2>1, <2>2, <3>1, <3>2
  <2>4. CASE n = Root
    <3>1. ProcessesAt(n) = {"kernel"}
      BY <1>0, <2>4 DEF Init, ProcessesAt
    <3>2. Cardinality(ProcessesAt(n)) = 1
      BY <3>1, FS_Singleton
    <3> QED BY <1>3, <2>1, <2>2, <2>3, <2>4, <3>2
  <2>5. CASE n # Root
    <3>1. ProcessesAt(n) = {}
      BY <1>0, <2>5 DEF Init, ProcessesAt
    <3> QED BY <1>3, <2>1, <2>2, <2>3, <2>5, <3>1
  <2> QED BY <2>4, <2>5
<1>8. cache = c
  BY DEF Init, c
<1>9. Accounted
  BY <1>2, <1>3, <1>6, <1>7, <1>8 DEF Accounted, Balanced
<1>10. Saved
  BY <1>3, <1>8 DEF Saved
<1> QED BY <1>1, <1>9, <1>10 DEF Books

-----------------------------------------------------------------------------
(* The theorems about the counts.                                          *)

IInv ==
  /\ Locking /\ TableTyped /\ Owned
  /\ Books /\ Placed /\ UsedPolitely /\ Miscellaneous

LEMMA IInvInit == Init => IInv
BY LockingInit, OwnedInit, BooksInit DEF Init, TableTyped, IInv

LEMMA IInvStutters ==
  ASSUME IInv, UNCHANGED vars
  PROVE  IInv'
<1> USE DEF IInv, vars
<1>1. Locking' /\ TableTyped'
  BY DEF Locking, TableTyped, Calls, InCall, ProcessLocked, HoldsProcess, VolumesLocked, FilesLocked
<1>2. Owned'
  BY OwnedKept DEF Owned, ClosesItsSlot, HasFile
<1>3. Books'
  BY BooksSame DEF Onward, Closed
<1>4. Placed' /\ UsedPolitely' /\ Miscellaneous'
  BY DEF Placed, UsedPolitely, Miscellaneous
<1> QED BY <1>1, <1>2, <1>3, <1>4

LEMMA IInvStep == IInv /\ [Next]_vars => IInv'
<1>1. ASSUME IInv, Next PROVE IInv'
  <2>1. late \in BOOLEAN /\ PointersTyped
    BY <1>1 DEF IInv, Miscellaneous, Books, Accounted
  <2> QED BY <1>1, <2>1, LockingStep, TableStep, OwnedStep, BooksStep, PlacedStep, UseStep,
             MiscellaneousStep DEF IInv
<1> QED BY <1>1, IInvStutters

LEMMA IInvType == IInv => TypeOK
<1> SUFFICES ASSUME IInv PROVE TypeOK
  OBVIOUS
<1>1. cache \in CacheType /\ files \in [Files -> Nodes \cup {NoNode}]
      /\ cwd \in [{"kernel", "user"} -> Nodes \cup {NoNode}]
  BY DEF IInv, Books, Accounted, CacheOK, PointersTyped
<1>2. {procLock, volLock, fsLock} \subseteq Threads \cup {NoOne}
  BY ThreadNames DEF IInv, Locking, ProcessLocked, VolumesLocked, FilesLocked
<1>3. \A t \in Threads : pc[t] \in Closing \cup
       {"idle", "volume", "label", "uuid", "enter", "store", "close", "use", "get new"}
  BY DEF IInv, Locking, Calls, Steps, Opening
<1>4. fds \in [Slots -> Files \cup {NoFile}] /\ mounted \in BOOLEAN /\ full \subseteq Files
  BY DEF IInv, TableTyped, Locking, FilesLocked, Owned, LostLive
<1> QED BY <1>1, <1>2, <1>3, <1>4 DEF IInv, Miscellaneous, TypeOK

LEMMA IInvCounts == IInv => ReferencesAreExact /\ InodesAreCounted
<1> SUFFICES ASSUME IInv PROVE ReferencesAreExact /\ InodesAreCounted
  OBVIOUS
<1>1. PointersTyped /\ CacheOK(cache) /\ (~Closed => Balanced(cache, Outside))
  BY DEF IInv, Books, Accounted
<1>2. InodesAreCounted
  BY <1>1 DEF CacheOK, UsersCounted, NamesOf, InodesAreCounted
<1>3. ASSUME ~Closed, NEW n \in Nodes PROVE cache.refs[n] = Holders(n) + cache.leaked[n]
  <2>1. Holders(n) = Cardinality(FilesAt(n)) + Cardinality(Kids(cache, n))
                     + Cardinality(ProcessesAt(n)) + (IF n = Root THEN 1 ELSE 0)
    BY DEF Holders, FilesAt, Kids, ProcessesAt
  <2>2. Outside[n] = Cardinality(FilesAt(n)) + Cardinality(ProcessesAt(n)) + (IF n = Root THEN 1 ELSE 0)
    BY DEF Outside
  <2>3. cache.refs[n] = Outside[n] + cache.leaked[n] + Cardinality(Kids(cache, n))
    BY <1>1, <1>3 DEF Balanced
  <2>4. Cardinality(FilesAt(n)) \in Nat /\ Cardinality(ProcessesAt(n)) \in Nat
        /\ Cardinality(Kids(cache, n)) \in Nat /\ cache.leaked[n] \in Nat
    BY <1>1, PointerSets, KidsFacts DEF CacheOK, CacheType
  <2> QED BY <2>1, <2>2, <2>3, <2>4
<1> QED BY <1>2, <1>3 DEF ReferencesAreExact

\* The reference counts of the entries are, until the shutdown, the numbers of
\* the pointers to them and of the leaked references (File::Open, ~File, chdir,
\* the walk); those of the inodes are always the numbers of their entries.
THEOREM CountsExact == Spec => []CountsAreExact
<1>1. IInv => CountsAreExact
  BY IInvType, IInvCounts DEF CountsAreExact
<1> QED BY <1>1, IInvInit, IInvStep, PTL DEF Spec

\* Nothing that was freed is used before the shutdown, when no program closes a
\* descriptor that one of its threads is reading through.
THEOREM NothingFreed == Spec => [](Polite => NothingFreedIsUsed)
<1>1. IInv => (Polite => NothingFreedIsUsed)
  BY DEF IInv, Books, Accounted, NothingFreedIsUsed
<1> QED BY <1>1, IInvInit, IInvStep, PTL DEF Spec

\* A changed inode is written before it is deleted (PutINode_nolock), and the
\* shutdown loses only what was changed after SynchronizeAll.
THEOREM ChangesReachDisk == Spec => []NoChangeIsLost
<1>1. IInv => NoChangeIsLost
  BY DEF IInv, Books, Saved, NoChangeIsLost
<1> QED BY <1>1, IInvInit, IInvStep, PTL DEF Spec
=============================================================================
