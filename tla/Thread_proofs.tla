--------------------------- MODULE Thread_proofs ---------------------------
(***************************************************************************)
(* What the scheduler's functions preserve, for any number of threads: the *)
(* facts about Thread that the proofs about the scheduler and about the    *)
(* primitives built on it rest on.                                         *)
(***************************************************************************)
EXTENDS Thread, SequenceTheorems, FiniteSetTheorems, TLAPS

-----------------------------------------------------------------------------
(* The ready queue as a set: adding, taking and removing a thread.         *)

LEMMA ToSetOfSeq ==
  ASSUME NEW S, NEW q \in Seq(S)
  PROVE  /\ ToSet(q) = {q[i] : i \in 1..Len(q)}
         /\ ToSet(q) \subseteq S
         /\ q = <<>> => ToSet(q) = {}
BY LenProperties DEF ToSet

LEMMA ConcatAsSets ==
  ASSUME NEW S, NEW p \in Seq(S), NEW q \in Seq(S)
  PROVE  /\ p \o q \in Seq(S)
         /\ ToSet(p \o q) = ToSet(p) \cup ToSet(q)
         /\ IsInjective(p) /\ IsInjective(q) /\ ToSet(p) \cap ToSet(q) = {}
              => IsInjective(p \o q)
<1>1. /\ p \o q \in Seq(S) /\ Len(p \o q) = Len(p) + Len(q)
      /\ \A i \in 1..(Len(p) + Len(q)) :
           (p \o q)[i] = IF i <= Len(p) THEN p[i] ELSE q[i - Len(p)]
  BY ConcatProperties
<1>2. Len(p) \in Nat /\ Len(q) \in Nat
  BY LenProperties
<1>5. ToSet(p \o q) = {(p \o q)[i] : i \in 1..(Len(p) + Len(q))}
  <2>1. ToSet(p \o q) = {(p \o q)[i] : i \in 1..Len(p \o q)}
    BY <1>1, ToSetOfSeq
  <2> QED
    BY <1>1, <2>1
<1>3. ToSet(p \o q) = ToSet(p) \cup ToSet(q)
  <2>1. ASSUME NEW x \in ToSet(p \o q) PROVE x \in ToSet(p) \cup ToSet(q)
    <3>1. PICK i \in 1..(Len(p) + Len(q)) : x = (p \o q)[i]
      BY <1>5, <2>1
    <3>2. CASE i <= Len(p)
      BY <1>1, <1>2, <3>1, <3>2, ToSetOfSeq
    <3>3. CASE ~(i <= Len(p))
      <4>1. i - Len(p) \in 1..Len(q)
        BY <1>2, <3>3
      <4> QED
        BY <1>1, <3>1, <3>3, <4>1, ToSetOfSeq
    <3> QED
      BY <3>2, <3>3
  <2>2. ASSUME NEW x \in ToSet(p) PROVE x \in ToSet(p \o q)
    <3>1. PICK i \in 1..Len(p) : x = p[i]
      BY <2>2, ToSetOfSeq
    <3>2. i \in 1..(Len(p) + Len(q)) /\ (p \o q)[i] = x
      BY <1>1, <1>2, <3>1
    <3> QED
      BY <1>5, <3>2
  <2>3. ASSUME NEW x \in ToSet(q) PROVE x \in ToSet(p \o q)
    <3>1. PICK i \in 1..Len(q) : x = q[i]
      BY <2>3, ToSetOfSeq
    <3>2. /\ i + Len(p) \in 1..(Len(p) + Len(q)) /\ ~(i + Len(p) <= Len(p))
          /\ (i + Len(p)) - Len(p) = i
      BY <1>2
    <3>3. (p \o q)[i + Len(p)] = x
      BY <1>1, <3>1, <3>2
    <3> QED
      BY <1>5, <3>2, <3>3
  <2> QED
    BY <2>1, <2>2, <2>3
<1>4. ASSUME IsInjective(p), IsInjective(q), ToSet(p) \cap ToSet(q) = {}
      PROVE  IsInjective(p \o q)
  <2>1. ASSUME NEW i \in 1..(Len(p) + Len(q)), NEW j \in 1..(Len(p) + Len(q)),
               (p \o q)[i] = (p \o q)[j], i <= Len(p)
        PROVE  i = j
    <3>1. i \in 1..Len(p) /\ p[i] \in ToSet(p) /\ (p \o q)[i] = p[i]
      BY <1>1, <1>2, <2>1, ToSetOfSeq
    <3>2. CASE j <= Len(p)
      <4>1. j \in 1..Len(p) /\ (p \o q)[j] = p[j]
        BY <1>1, <1>2, <3>2
      <4> QED
        BY <1>4, <2>1, <3>1, <4>1, LenProperties DEF IsInjective
    <3>3. CASE ~(j <= Len(p))
      <4>1. j - Len(p) \in 1..Len(q) /\ (p \o q)[j] = q[j - Len(p)]
        BY <1>1, <1>2, <3>3
      <4>2. q[j - Len(p)] \in ToSet(q)
        BY <4>1, ToSetOfSeq
      <4> QED
        BY <1>4, <2>1, <3>1, <4>1, <4>2
    <3> QED
      BY <3>2, <3>3
  <2>2. ASSUME NEW i \in 1..(Len(p) + Len(q)), NEW j \in 1..(Len(p) + Len(q)),
               (p \o q)[i] = (p \o q)[j], ~(i <= Len(p)), ~(j <= Len(p))
        PROVE  i = j
    <3>1. /\ i - Len(p) \in 1..Len(q) /\ (p \o q)[i] = q[i - Len(p)]
          /\ j - Len(p) \in 1..Len(q) /\ (p \o q)[j] = q[j - Len(p)]
      BY <1>1, <1>2, <2>2
    <3>2. i - Len(p) = j - Len(p)
      BY <1>4, <2>2, <3>1, LenProperties DEF IsInjective
    <3> QED
      BY <1>2, <3>2
  <2>3. DOMAIN (p \o q) = 1..(Len(p) + Len(q))
    BY <1>1, LenProperties
  <2>4. ASSUME NEW i \in 1..(Len(p) + Len(q)), NEW j \in 1..(Len(p) + Len(q)),
               (p \o q)[i] = (p \o q)[j]
        PROVE  i = j
    BY <2>1, <2>2, <2>4
  <2> QED
    BY <2>3, <2>4 DEF IsInjective
<1> QED
  BY <1>1, <1>3, <1>4

LEMMA SingletonAsSet ==
  ASSUME NEW S, NEW x \in S
  PROVE  <<x>> \in Seq(S) /\ ToSet(<<x>>) = {x} /\ IsInjective(<<x>>)
<1>1. <<x>> \in Seq(S) /\ Len(<<x>>) = 1 /\ <<x>>[1] = x
  OBVIOUS
<1> QED
  BY <1>1 DEF ToSet, IsInjective

LEMMA AppendAsSet ==
  ASSUME NEW S, NEW q \in Seq(S), NEW x \in S
  PROVE  /\ Append(q, x) \in Seq(S)
         /\ ToSet(Append(q, x)) = ToSet(q) \cup {x}
         /\ IsInjective(q) /\ x \notin ToSet(q) => IsInjective(Append(q, x))
<1> DEFINE one == <<x>>
<1>1. Append(q, x) = q \o one
  BY AppendIsConcat
<1>2. one \in Seq(S) /\ ToSet(one) = {x} /\ IsInjective(one)
  BY SingletonAsSet
<1> HIDE DEF one
<1>3. /\ q \o one \in Seq(S) /\ ToSet(q \o one) = ToSet(q) \cup ToSet(one)
      /\ IsInjective(q) /\ ToSet(q) \cap ToSet(one) = {} => IsInjective(q \o one)
  BY <1>2, ConcatAsSets
<1>4. x \notin ToSet(q) => ToSet(q) \cap ToSet(one) = {}
  BY <1>2
<1> QED
  BY <1>1, <1>2, <1>3, <1>4, Zenon

LEMMA PrependAsSet ==
  ASSUME NEW S, NEW q \in Seq(S), NEW x \in S
  PROVE  /\ <<x>> \o q \in Seq(S)
         /\ ToSet(<<x>> \o q) = ToSet(q) \cup {x}
         /\ IsInjective(q) /\ x \notin ToSet(q) => IsInjective(<<x>> \o q)
<1> DEFINE one == <<x>>
<1>1. one \in Seq(S) /\ ToSet(one) = {x} /\ IsInjective(one)
  BY SingletonAsSet
<1> HIDE DEF one
<1>2. /\ one \o q \in Seq(S) /\ ToSet(one \o q) = ToSet(one) \cup ToSet(q)
      /\ IsInjective(q) /\ ToSet(one) \cap ToSet(q) = {} => IsInjective(one \o q)
  BY <1>1, ConcatAsSets
<1>3. x \notin ToSet(q) => ToSet(one) \cap ToSet(q) = {}
  BY <1>1
<1>4. ToSet(one) \cup ToSet(q) = ToSet(q) \cup {x}
  BY <1>1
<1> QED
  BY <1>2, <1>3, <1>4, Zenon DEF one

LEMMA TailAsSet ==
  ASSUME NEW S, NEW q \in Seq(S), q # <<>>, IsInjective(q)
  PROVE  /\ Tail(q) \in Seq(S) /\ IsInjective(Tail(q))
         /\ Head(q) \in ToSet(q)
         /\ ToSet(Tail(q)) = ToSet(q) \ {Head(q)}
<1>1. /\ Tail(q) \in Seq(S) /\ Len(Tail(q)) = Len(q) - 1
      /\ \A i \in 1..(Len(q) - 1) : Tail(q)[i] = q[i + 1]
  BY HeadTailProperties
<1>2. Len(q) \in Nat \ {0} /\ Head(q) = q[1] /\ DOMAIN q = 1..Len(q)
  BY EmptySeq, LenProperties
<1>3. DOMAIN Tail(q) = 1..(Len(q) - 1)
  BY <1>1, LenProperties
<1>4. \A i, j \in 1..Len(q) : q[i] = q[j] => i = j
  BY <1>2 DEF IsInjective
<1>5. IsInjective(Tail(q))
  <2>1. ASSUME NEW i \in 1..(Len(q) - 1), NEW j \in 1..(Len(q) - 1),
               Tail(q)[i] = Tail(q)[j]
        PROVE  i = j
    <3>1. i + 1 \in 1..Len(q) /\ j + 1 \in 1..Len(q)
      BY <1>2
    <3>2. i + 1 = j + 1
      BY <1>1, <1>4, <2>1, <3>1
    <3> QED
      BY <1>2, <3>2
  <2> QED
    BY <1>3, <2>1 DEF IsInjective
<1>6. Head(q) \in ToSet(q)
  BY <1>2 DEF ToSet
<1>7. ToSet(Tail(q)) = ToSet(q) \ {Head(q)}
  <2>1. ASSUME NEW x \in ToSet(Tail(q)) PROVE x \in ToSet(q) \ {Head(q)}
    <3>1. PICK i \in 1..(Len(q) - 1) : x = Tail(q)[i]
      BY <1>3 DEF ToSet
    <3>2. x = q[i + 1] /\ i + 1 \in 1..Len(q) /\ i + 1 # 1 /\ 1 \in 1..Len(q)
      BY <1>1, <1>2, <3>1
    <3> QED
      BY <1>2, <1>4, <3>2 DEF ToSet
  <2>2. ASSUME NEW x \in ToSet(q), x # Head(q) PROVE x \in ToSet(Tail(q))
    <3>1. PICK i \in 1..Len(q) : x = q[i]
      BY <1>2 DEF ToSet
    <3>2. i # 1
      BY <1>2, <2>2, <3>1
    <3>3. i - 1 \in 1..(Len(q) - 1) /\ (i - 1) + 1 = i
      BY <1>2, <3>2
    <3>4. Tail(q)[i - 1] = x
      BY <1>1, <3>1, <3>3
    <3> QED
      BY <1>3, <3>3, <3>4 DEF ToSet
  <2> QED
    BY <2>1, <2>2
<1> QED
  BY <1>1, <1>5, <1>6, <1>7

\* ObjectQueue::Remove takes the thread out and leaves the others.
LEMMA WithoutAsSet ==
  ASSUME NEW S, NEW q \in Seq(S), NEW x, IsInjective(q)
  PROVE  /\ Without(q, x) \in Seq(S) /\ IsInjective(Without(q, x))
         /\ ToSet(Without(q, x)) = ToSet(q) \ {x}
<1>1. CASE x \notin ToSet(q)
  BY <1>1 DEF Without
<1>2. CASE x \in ToSet(q)
  <2>1. DOMAIN q = 1..Len(q) /\ Len(q) \in Nat
    BY LenProperties
  <2>2. \A i, j \in 1..Len(q) : q[i] = q[j] => i = j
    BY <2>1 DEF IsInjective
  <2>3. PICK k \in 1..Len(q) : q[k] = x
    BY <1>2, <2>1 DEF ToSet
  <2>4. (CHOOSE i \in DOMAIN q : q[i] = x /\ \A j \in DOMAIN q : j < i => q[j] # x) = k
    BY <2>1, <2>2, <2>3
  <2> DEFINE a == SubSeq(q, 1, k - 1)
             b == SubSeq(q, k + 1, Len(q))
  <2>5. Without(q, x) = a \o b
    BY <1>2, <2>4, Zenon DEF Without, RemoveAt
  <2>6. \A i \in 1..Len(q) : q[i] \in S
    BY ElementOfSeq
  <2>7. /\ a \in Seq(S) /\ Len(a) = k - 1
        /\ \A i \in 1..(k - 1) : a[i] = q[i]
    <3>1. \A i \in 1..(k - 1) : q[i] \in S
      BY <2>1, <2>6
    <3>2. /\ a \in Seq(S) /\ Len(a) = IF 1 <= k - 1 THEN (k - 1) - 1 + 1 ELSE 0
          /\ \A i \in 1..((k - 1) - 1 + 1) : a[i] = q[1 + i - 1]
      BY <3>1, SubSeqProperties
    <3> QED
      BY <3>2
  <2>8. /\ b \in Seq(S) /\ Len(b) = Len(q) - k
        /\ \A i \in 1..(Len(q) - k) : b[i] = q[k + i]
    <3>1. \A i \in (k + 1)..Len(q) : q[i] \in S
      BY <2>1, <2>6
    <3>2. /\ b \in Seq(S)
          /\ Len(b) = IF k + 1 <= Len(q) THEN Len(q) - (k + 1) + 1 ELSE 0
          /\ \A i \in 1..(Len(q) - (k + 1) + 1) : b[i] = q[(k + 1) + i - 1]
      BY <2>1, <3>1, SubSeqProperties
    <3> HIDE DEF a, b
    <3>3. Len(b) = Len(q) - k
      <4>1. Len(q) \in Nat /\ k \in 1..Len(q)
        BY <2>1, LenProperties
      <4>2. CASE k + 1 <= Len(q)
        BY <3>2, <4>1, <4>2
      <4>3. CASE ~(k + 1 <= Len(q))
        BY <3>2, <4>1, <4>3
      <4> QED
        BY <4>2, <4>3
    <3>4. ASSUME NEW i \in 1..(Len(q) - k) PROVE b[i] = q[k + i]
      <4>1. i \in 1..(Len(q) - (k + 1) + 1) /\ (k + 1) + i - 1 = k + i
        BY <2>1
      <4>2. b[i] = q[(k + 1) + i - 1]
        BY <3>2, <4>1
      <4> QED
        BY <4>1, <4>2
    <3> QED
      BY <3>2, <3>3, <3>4
  <2> HIDE DEF a, b
  <2>9. DOMAIN a = 1..(k - 1) /\ DOMAIN b = 1..(Len(q) - k)
    BY <2>7, <2>8, LenProperties
  <2>10. IsInjective(a)
    BY <2>1, <2>2, <2>7, <2>9 DEF IsInjective
  <2>11. IsInjective(b)
    <3>1. ASSUME NEW i \in 1..(Len(q) - k), NEW j \in 1..(Len(q) - k), b[i] = b[j]
          PROVE  i = j
      <4>1. k + i \in 1..Len(q) /\ k + j \in 1..Len(q)
        BY <2>1
      <4>2. k + i = k + j
        BY <2>2, <2>8, <3>1, <4>1
      <4> QED
        BY <4>2
    <3> QED
      BY <2>9, <3>1 DEF IsInjective
  <2>12. ToSet(a) \cap ToSet(b) = {}
    <3>1. ASSUME NEW i \in 1..(k - 1), NEW j \in 1..(Len(q) - k) PROVE a[i] # b[j]
      <4>1. i \in 1..Len(q) /\ k + j \in 1..Len(q) /\ i # k + j
        BY <2>1
      <4> QED
        BY <2>2, <2>7, <2>8, <4>1
    <3> QED
      BY <2>9, <3>1 DEF ToSet
  <2>13. ToSet(a) \cup ToSet(b) = ToSet(q) \ {x}
    <3>1. ASSUME NEW y \in ToSet(a) \cup ToSet(b) PROVE y \in ToSet(q) \ {x}
      <4>1. CASE y \in ToSet(a)
        <5>1. PICK i \in 1..(k - 1) : y = a[i]
          BY <2>9, <4>1 DEF ToSet
        <5>2. i \in 1..Len(q) /\ i # k
          BY <2>1
        <5> QED
          BY <2>1, <2>2, <2>3, <2>7, <5>1, <5>2 DEF ToSet
      <4>2. CASE y \in ToSet(b)
        <5>1. PICK i \in 1..(Len(q) - k) : y = b[i]
          BY <2>9, <4>2 DEF ToSet
        <5>2. k + i \in 1..Len(q) /\ k + i # k
          BY <2>1
        <5> QED
          BY <2>1, <2>2, <2>3, <2>8, <5>1, <5>2 DEF ToSet
      <4> QED
        BY <3>1, <4>1, <4>2
    <3>2. ASSUME NEW y \in ToSet(q), y # x PROVE y \in ToSet(a) \cup ToSet(b)
      <4>1. PICK i \in 1..Len(q) : y = q[i]
        BY <2>1 DEF ToSet
      <4>2. CASE i < k
        <5>1. i \in 1..(k - 1)
          BY <4>2
        <5> QED
          BY <2>7, <2>9, <4>1, <5>1 DEF ToSet
      <4>3. CASE i > k
        <5>1. i - k \in 1..(Len(q) - k) /\ k + (i - k) = i
          BY <2>1, <4>3
        <5>2. b[i - k] = y
          BY <2>8, <4>1, <5>1
        <5> QED
          BY <2>9, <5>1, <5>2 DEF ToSet
      <4>4. i # k
        BY <2>3, <3>2, <4>1
      <4> QED
        BY <4>2, <4>3, <4>4
    <3> QED
      BY <3>1, <3>2
  <2> QED
    BY <2>5, <2>7, <2>8, <2>10, <2>11, <2>12, <2>13, ConcatAsSets
<1> QED
  BY <1>1, <1>2

\* A set of numbers has a least one: there is no infinite descent.
LEMMA LeastNatural ==
  ASSUME NEW S \in SUBSET Nat, S # {}
  PROVE  \E m \in S : \A n \in S : m <= n
<1> DEFINE R == StrictSubsetOrdering(Nat)
           I == {0..n : n \in S}
<1>1. IsWellFoundedOn(R, FiniteSubsetsOf(Nat))
  BY FS_StrictSubsetOrderingWellFounded
<1>2. I \subseteq FiniteSubsetsOf(Nat) /\ I # {}
  <2>1. ASSUME NEW n \in S
        PROVE  0..n \in FiniteSubsetsOf(Nat)
    <3>1. n \in Int /\ 0 \in Int /\ 0..n \in SUBSET Nat
      OBVIOUS
    <3>2. IsFiniteSet(0..n)
      BY <3>1, FS_Interval
    <3> QED
      BY <3>1, <3>2 DEF FiniteSubsetsOf
  <2> QED
    BY <2>1
<1>3. PICK T \in I : \A U \in I : <<U, T>> \notin R
  <2> HIDE DEF R, I
  <2> QED
    BY <1>1, <1>2, WFMin
<1>4. PICK m \in S : T = 0..m
  OBVIOUS
<1>5. ASSUME NEW n \in S
      PROVE  m <= n
  <2>1. <<0..n, 0..m>> \notin R
    BY <1>3, <1>4
  <2>2. CASE n < m
    <3>1. m \in 0..m /\ m \notin 0..n /\ 0..n \subseteq 0..m
      BY <2>2
    <3> QED
      BY <2>1, <3>1 DEF StrictSubsetOrdering
  <2> QED
    BY <2>2
<1> QED
  BY <1>5

\* Without removes the first entry that is x, and moves up the ones behind it.
LEMMA WithoutByIndex ==
  ASSUME NEW S, NEW q \in Seq(S), NEW x \in ToSet(q)
  PROVE  \E k \in 1..Len(q) :
           /\ q[k] = x
           /\ Without(q, x) \in Seq(S) /\ Len(Without(q, x)) = Len(q) - 1
           /\ \A i \in 1..(Len(q) - 1) :
                Without(q, x)[i] = IF i < k THEN q[i] ELSE q[i + 1]
<1>1. Len(q) \in Nat /\ DOMAIN q = 1..Len(q) /\ q \in [1..Len(q) -> S]
  BY LenProperties
<1> DEFINE First(i) == q[i] = x /\ \A j \in DOMAIN q : j < i => q[j] # x
           k == CHOOSE i \in DOMAIN q : First(i)
<1>2. \E i \in DOMAIN q : First(i)
  <2> DEFINE I == {i \in 1..Len(q) : q[i] = x}
  <2>1. I \in SUBSET Nat /\ I # {}
    BY <1>1, ToSetOfSeq
  <2> HIDE DEF I
  <2>2. PICK m \in I : \A n \in I : m <= n
    BY <2>1, LeastNatural
  <2> QED
    BY <1>1, <2>2 DEF I
<1>3. k \in 1..Len(q) /\ q[k] = x
  BY <1>1, <1>2
<1>4. Without(q, x) = RemoveAt(q, k)
  BY Zenon DEF Without
<1> HIDE DEF k
<1> DEFINE a == SubSeq(q, 1, k - 1)
           b == SubSeq(q, k + 1, Len(q))
<1>5. Without(q, x) = a \o b
  BY <1>4 DEF RemoveAt
<1>6. /\ a \in Seq(S) /\ Len(a) = k - 1
      /\ \A i \in 1..(k - 1) : a[i] = q[i]
  BY <1>1, <1>3, SubSeqProperties
<1>7. /\ b \in Seq(S) /\ Len(b) = Len(q) - k
      /\ \A i \in 1..(Len(q) - k) : b[i] = q[k + i]
  <2>1. \A i \in (k + 1)..Len(q) : q[i] \in S
    BY <1>1, <1>3
  <2>2. /\ b \in Seq(S)
        /\ Len(b) = IF k + 1 <= Len(q) THEN Len(q) - (k + 1) + 1 ELSE 0
        /\ \A i \in 1..(Len(q) - (k + 1) + 1) : b[i] = q[(k + 1) + i - 1]
    BY <1>1, <1>3, <2>1, SubSeqProperties
  <2> HIDE DEF a, b
  <2>3. ASSUME NEW i \in 1..(Len(q) - k)
        PROVE  b[i] = q[k + i]
    <3>1. i \in 1..(Len(q) - (k + 1) + 1) /\ (k + 1) + i - 1 = k + i
      BY <1>1, <1>3
    <3>2. b[i] = q[(k + 1) + i - 1]
      BY <2>2, <3>1
    <3> QED
      BY <3>1, <3>2
  <2>4. Len(b) = Len(q) - k
    <3>1. k \in 1..Len(q) /\ Len(q) \in Nat
      BY <1>1, <1>3
    <3>2. CASE k + 1 <= Len(q)
      BY <2>2, <3>1, <3>2
    <3>3. CASE ~(k + 1 <= Len(q))
      BY <2>2, <3>1, <3>3
    <3> QED
      BY <3>2, <3>3
  <2> QED
    BY <2>2, <2>3, <2>4
<1> HIDE DEF a, b
<1>8. /\ a \o b \in Seq(S) /\ Len(a \o b) = Len(a) + Len(b)
      /\ \A i \in 1..(Len(a) + Len(b)) :
           (a \o b)[i] = IF i <= Len(a) THEN a[i] ELSE b[i - Len(a)]
  BY <1>6, <1>7, ConcatProperties
<1>9. \A i \in 1..(Len(q) - 1) : (a \o b)[i] = IF i < k THEN q[i] ELSE q[i + 1]
  <2> TAKE i \in 1..(Len(q) - 1)
  <2>1. CASE i < k
    BY <1>1, <1>3, <1>6, <1>7, <1>8, <2>1
  <2>2. CASE ~(i < k)
    <3>1. i - (k - 1) \in 1..(Len(q) - k) /\ k + (i - (k - 1)) = i + 1
      BY <1>1, <1>3, <2>2
    <3>2. i \in 1..(Len(a) + Len(b)) /\ ~(i <= Len(a)) /\ i - Len(a) = i - (k - 1)
      BY <1>1, <1>3, <1>6, <1>7, <2>2
    <3>3. (a \o b)[i] = b[i - (k - 1)]
      BY <1>8, <3>2
    <3>4. b[i - (k - 1)] = q[i + 1]
      BY <1>7, <3>1
    <3> QED
      BY <2>2, <3>3, <3>4
  <2> QED
    BY <2>1, <2>2
<1>10. Len(a) + Len(b) = Len(q) - 1
  BY <1>1, <1>3, <1>6, <1>7
<1> QED
  BY <1>3, <1>5, <1>8, <1>9, <1>10

\* y is at most once in q.
Sole(q, y) == \A i, j \in DOMAIN q : q[i] = y /\ q[j] = y => i = j

LEMMA AppendSole ==
  ASSUME NEW S, NEW q \in Seq(S), NEW x \in S, NEW y, Sole(q, y), x # y \/ y \notin ToSet(q)
  PROVE  Sole(Append(q, x), y)
<1>1. Len(q) \in Nat /\ DOMAIN q = 1..Len(q)
  BY LenProperties
<1>2. /\ Append(q, x) \in Seq(S) /\ DOMAIN Append(q, x) = 1..(Len(q) + 1)
      /\ \A i \in 1..Len(q) : Append(q, x)[i] = q[i]
      /\ Append(q, x)[Len(q) + 1] = x
  BY <1>1, AppendProperties
<1>3. \A i \in 1..Len(q) : q[i] = y => y \in ToSet(q)
  BY ToSetOfSeq
<1> QED
  BY <1>1, <1>2, <1>3 DEF Sole

LEMMA WithoutSole ==
  ASSUME NEW S, NEW q \in Seq(S), NEW x
  PROVE  /\ Without(q, x) \in Seq(S)
         /\ \A y : y # x => (y \in ToSet(Without(q, x)) <=> y \in ToSet(q))
         /\ \A y : Sole(q, y) => Sole(Without(q, x), y)
         /\ Sole(q, x) => x \notin ToSet(Without(q, x))
<1>1. CASE x \notin ToSet(q)
  <2>1. Without(q, x) = q
    BY <1>1 DEF Without
  <2> QED
    BY <1>1, <2>1
<1>2. CASE x \in ToSet(q)
  <2> DEFINE r == Without(q, x)
  <2>1. PICK k \in 1..Len(q) :
           /\ q[k] = x /\ r \in Seq(S) /\ Len(r) = Len(q) - 1
           /\ \A i \in 1..(Len(q) - 1) : r[i] = IF i < k THEN q[i] ELSE q[i + 1]
    BY <1>2, WithoutByIndex
  <2>2. /\ Len(q) \in Nat /\ DOMAIN q = 1..Len(q) /\ DOMAIN r = 1..(Len(q) - 1)
        /\ ToSet(q) = {q[i] : i \in 1..Len(q)} /\ ToSet(r) = {r[i] : i \in 1..(Len(q) - 1)}
    BY <2>1, LenProperties, ToSetOfSeq
  <2> HIDE DEF r
  <2>3. ASSUME NEW y, y # x
        PROVE  y \in ToSet(r) <=> y \in ToSet(q)
    <3>1. ASSUME NEW i \in 1..(Len(q) - 1), y = r[i]
          PROVE  y \in ToSet(q)
      <4>1. i \in 1..Len(q) /\ i + 1 \in 1..Len(q)
        BY <2>2
      <4> QED
        BY <2>1, <2>2, <3>1, <4>1
    <3>2. ASSUME NEW i \in 1..Len(q), y = q[i]
          PROVE  y \in ToSet(r)
      <4>1. CASE i < k
        BY <2>1, <2>2, <3>2, <4>1
      <4>2. CASE i > k
        <5>1. i - 1 \in 1..(Len(q) - 1) /\ ~(i - 1 < k) /\ (i - 1) + 1 = i
          BY <2>2, <4>2
        <5> QED
          BY <2>1, <2>2, <3>2, <5>1
      <4> QED
        BY <2>1, <2>2, <2>3, <3>2, <4>1, <4>2
    <3> QED
      BY <2>2, <3>1, <3>2
  <2>4. ASSUME NEW y, Sole(q, y), NEW i \in 1..(Len(q) - 1), NEW j \in 1..(Len(q) - 1),
               r[i] = y, r[j] = y
        PROVE  i = j
    <3>1. /\ i \in 1..Len(q) /\ i + 1 \in 1..Len(q)
          /\ j \in 1..Len(q) /\ j + 1 \in 1..Len(q)
      BY <2>2
    <3> DEFINE at(n) == IF n < k THEN n ELSE n + 1
    <3>2. /\ at(i) \in 1..Len(q) /\ q[at(i)] = y
          /\ at(j) \in 1..Len(q) /\ q[at(j)] = y
      BY <2>1, <2>4, <3>1
    <3>3. at(i) = at(j)
      BY <2>2, <2>4, <3>2 DEF Sole
    <3> QED
      BY <2>1, <3>3
  <2>5. ASSUME Sole(q, x), NEW i \in 1..(Len(q) - 1), r[i] = x
        PROVE  FALSE
    <3>1. i \in 1..Len(q) /\ i + 1 \in 1..Len(q)
      BY <2>2
    <3> QED
      BY <2>1, <2>2, <2>5, <3>1 DEF Sole
  <2>6. \A y : Sole(q, y) => Sole(r, y)
    BY <2>2, <2>4 DEF Sole
  <2>7. Sole(q, x) => x \notin ToSet(r)
    BY <2>2, <2>5
  <2> QED
    BY <2>1, <2>3, <2>6, <2>7 DEF r
<1> QED
  BY <1>1, <1>2

LEMMA TailSole ==
  ASSUME NEW S, NEW q \in Seq(S), q # <<>>
  PROVE  /\ Head(q) \in ToSet(q) /\ Head(q) \in S /\ Tail(q) \in Seq(S)
         /\ ToSet(q) = ToSet(Tail(q)) \cup {Head(q)}
         /\ \A y : Sole(q, y) => Sole(Tail(q), y)
         /\ Sole(q, Head(q)) => Head(q) \notin ToSet(Tail(q))
<1> DEFINE r == Tail(q)
<1>1. /\ Len(q) \in Nat /\ Len(q) > 0 /\ DOMAIN q = 1..Len(q) /\ Head(q) = q[1]
      /\ r \in Seq(S) /\ Len(r) = Len(q) - 1 /\ \A i \in 1..Len(r) : r[i] = q[i + 1]
  BY LenProperties, EmptySeq, HeadTailProperties
<1>2. /\ DOMAIN r = 1..(Len(q) - 1) /\ ToSet(q) = {q[i] : i \in 1..Len(q)}
      /\ ToSet(r) = {r[i] : i \in 1..(Len(q) - 1)}
  BY <1>1, ToSetOfSeq, LenProperties
<1> HIDE DEF r
<1>3. Head(q) \in ToSet(q) /\ Head(q) \in S
  BY <1>1, <1>2, ToSetOfSeq
<1>4. ASSUME NEW i \in 1..(Len(q) - 1)
      PROVE  i + 1 \in 1..Len(q) /\ r[i] = q[i + 1] /\ i + 1 # 1
  BY <1>1
<1>5. ToSet(r) \subseteq ToSet(q)
  BY <1>2, <1>4
<1>6. ASSUME NEW y \in ToSet(q)
      PROVE  y \in ToSet(r) \cup {Head(q)}
  <2>1. PICK i \in 1..Len(q) : y = q[i]
    BY <1>2
  <2>2. CASE i = 1
    BY <1>1, <2>1, <2>2
  <2>3. CASE i # 1
    <3>1. i - 1 \in 1..(Len(q) - 1) /\ (i - 1) + 1 = i
      BY <1>1, <2>3
    <3> QED
      BY <1>2, <1>4, <2>1, <3>1
  <2> QED
    BY <2>2, <2>3
<1>7. ASSUME NEW y, Sole(q, y), NEW i \in 1..(Len(q) - 1), NEW j \in 1..(Len(q) - 1),
             r[i] = y, r[j] = y
      PROVE  i = j
  <2>1. i + 1 = j + 1
    BY <1>1, <1>4, <1>7 DEF Sole
  <2> QED
    BY <2>1
<1>8. ASSUME Sole(q, Head(q)), NEW i \in 1..(Len(q) - 1), r[i] = Head(q)
      PROVE  FALSE
  <2>1. 1 \in 1..Len(q)
    BY <1>1
  <2> QED
    BY <1>1, <1>4, <1>8, <2>1 DEF Sole
<1> QED
  BY <1>1, <1>2, <1>3, <1>5, <1>6, <1>7, <1>8 DEF Sole, r

\* An order of a finite set of threads lists each of them once.
LEMMA OrderAsSet ==
  ASSUME NEW S, IsFiniteSet(S), NEW w \in SetToSeqs(S)
  PROVE  w \in Seq(S) /\ IsInjective(w) /\ ToSet(w) = S
<1> DEFINE n == Cardinality(S)
<1>1. n \in Nat
  BY FS_CardinalityType
<1>2. w \in [1..n -> S] /\ \A i, j \in 1..n : i # j => w[i] # w[j]
  BY DEF SetToSeqs
<1>3. w \in Seq(S) /\ DOMAIN w = 1..n
  BY <1>1, <1>2, SeqDef
<1>4. IsInjective(w)
  BY <1>2, <1>3 DEF IsInjective
<1>5. w \in Injection(1..n, S)
  BY <1>2, <1>4 DEF Injection
<1>6. IsFiniteSet(1..n) /\ Cardinality(1..n) = n
  <2>1. Cardinality(1..n) = IF 1 > n THEN 0 ELSE n - 1 + 1
    BY <1>1, FS_Interval
  <2> QED
    BY <1>1, <2>1, FS_Interval
<1>7. w \in Surjection(1..n, S)
  BY <1>5, <1>6, FS_Injection
<1>8. ToSet(w) = S
  BY <1>2, <1>3, <1>7 DEF Surjection, ToSet
<1> QED
  BY <1>3, <1>4, <1>8

-----------------------------------------------------------------------------
(* Where threads are, outside and inside the scheduler's functions.        *)

\* The scheduler state inside a function, where there may be no current thread
WideType ==
  [ready     : Seq(Threads),
   suspended : SUBSET Threads,
   sleeping  : SUBSET Threads,
   current   : Threads \cup {Idle, NoThread},
   state     : [Threads -> States],
   wake      : [Threads -> Nat],
   ticks     : [Threads -> Nat],
   intr      : [Threads -> BOOLEAN],
   writes    : [Threads -> BOOLEAN],
   slot      : [Threads -> Int],
   rtc       : {"clear", "raised", "latched"}]

\* No thread is in two lists or twice in one.
Disjoint(k) ==
  /\ IsInjective(k.ready)
  /\ ToSet(k.ready) \cap k.suspended = {}
  /\ ToSet(k.ready) \cap k.sleeping = {}
  /\ k.suspended \cap k.sleeping = {}

\* The lists hold the threads their states say, and every thread that could run
\* is on the ready queue; but for the threads in X.
Told(k, X) == \A t \in Threads :
  /\ t \in ToSet(k.ready) => k.state[t] = "Ready"
  /\ t \in k.suspended <=> k.state[t] = "Suspended"
  /\ t \in k.sleeping <=> k.state[t] = "Sleeping"
  /\ k.state[t] \in {"Ready", "Active", "Suspending"} /\ t \notin X =>
       t \in ToSet(k.ready) /\ k.state[t] = "Ready"

\* A thread that is gone, or not there yet, is not the current one.
CurrentLives(k) ==
  /\ \A t \in Threads :
       k.state[t] = "Finalized" \/ (k.state[t] = "Unknown" /\ t # Main) =>
         t # k.current

\* What a function may hand to the context switch: everything is in its place
\* except the current thread, which may be about to suspend or already asleep.
Settled(k) ==
  /\ k \in WideType
  /\ Disjoint(k)
  /\ Told(k, {k.current})
  /\ CurrentLives(k)
  /\ k.current \notin ToSet(k.ready) \cup k.suspended

\* Between the functions: the current thread neither sleeps nor suspends, and
\* every sleeper has time to go.
Sound(k) ==
  /\ k \in SchedType
  /\ Settled(k)
  /\ k.current \notin k.sleeping
  /\ \A t \in Threads : k.state[t] # "Suspending"
  /\ \A t \in k.sleeping : k.ticks[t] > 0

-----------------------------------------------------------------------------
(* The context switch, function by function.                               *)

LEMMA TickSleepersKeeps ==
  ASSUME NEW k, Settled(k), NEW doTick \in BOOLEAN
  PROVE  /\ TickSleepers(k, doTick) \in WideType
         /\ Settled(TickSleepers(k, doTick))
         /\ TickSleepers(k, doTick).current = k.current
         /\ TickSleepers(k, doTick).sleeping = k.sleeping
         /\ TickSleepers(k, doTick).state = k.state
         /\ doTick = FALSE => TickSleepers(k, doTick) = k
<1> DEFINE r == TickSleepers(k, doTick)
           ticks == [t \in Threads |->
             IF t \in k.sleeping /\ k.ticks[t] > 0 THEN k.ticks[t] - 1 ELSE k.ticks[t]]
<1>1. CASE doTick = FALSE
  <2>1. r = k
    BY <1>1, Zenon DEF TickSleepers
  <2> QED
    BY <2>1 DEF Settled
<1>2. CASE doTick = TRUE
  <2>1. r = [k EXCEPT !.ticks = ticks]
    BY <1>2 DEF TickSleepers
  <2>2. k \in WideType
    BY DEF Settled
  <2>3. ticks \in [Threads -> Nat]
    BY <2>2 DEF WideType
  <2> HIDE DEF ticks
  <2>4. /\ r \in WideType
        /\ r.ready = k.ready /\ r.suspended = k.suspended /\ r.sleeping = k.sleeping
        /\ r.current = k.current /\ r.state = k.state
    BY <2>1, <2>2, <2>3 DEF WideType
  <2>5. Settled(r)
    BY <2>4 DEF Settled, Disjoint, Told, CurrentLives
  <2> QED
    BY <1>2, <2>4, <2>5
<1> QED
  BY <1>1, <1>2

\* After the sleepers that are due were moved to the ready queue, the sleepers
\* left have time to go.
LEMMA WakeDueKeeps ==
  ASSUME NEW k, Settled(k), k.current \notin Due(k), NEW w \in SetToSeqs(Due(k))
  PROVE  /\ Settled(WakeDue(k, w))
         /\ \A t \in WakeDue(k, w).sleeping : WakeDue(k, w).ticks[t] > 0
         /\ WakeDue(k, w).current = k.current
         /\ \A t \in Threads : Dead(k, t) => Dead(WakeDue(k, w), t)
<1> DEFINE r == WakeDue(k, w)
           D == Due(k)
           state == [t \in Threads |-> IF t \in D THEN "Ready" ELSE k.state[t]]
           intr == [t \in Threads |-> k.intr[t] /\ t \notin D]
           slot == [t \in Threads |->
             IF t \in D /\ k.writes[t] /\ k.slot[t] # NoSlot THEN 0 ELSE k.slot[t]]
           writes == [t \in Threads |-> k.writes[t] /\ t \notin D]
<1>1. k \in WideType /\ D \subseteq k.sleeping /\ D \subseteq Threads
  BY DEF Settled, WideType, Due
<1>2. IsFiniteSet(D)
  BY <1>1, ThreadAssumption, FS_Subset
<1>3. w \in Seq(D) /\ IsInjective(w) /\ ToSet(w) = D
  BY <1>2, OrderAsSet
<1>4. w \in Seq(Threads)
  BY <1>1, <1>3, SeqMonotonic
<1>5. r = [k EXCEPT !.sleeping = k.sleeping \ D, !.state = state, !.intr = intr,
                    !.slot = slot, !.writes = writes, !.ready = k.ready \o w]
  BY <1>1 DEF WakeDue, WideType
<1>6. /\ state \in [Threads -> States] /\ intr \in [Threads -> BOOLEAN]
      /\ slot \in [Threads -> Int] /\ writes \in [Threads -> BOOLEAN]
  BY <1>1 DEF WideType, States
<1>7. \A t \in Threads : state[t] = IF t \in D THEN "Ready" ELSE k.state[t]
  OBVIOUS
<1>8. /\ k.ready \o w \in Seq(Threads)
      /\ ToSet(k.ready \o w) = ToSet(k.ready) \cup D
      /\ IsInjective(k.ready \o w)
  <2>1. k.ready \in Seq(Threads) /\ IsInjective(k.ready) /\ ToSet(k.ready) \cap D = {}
    BY <1>1 DEF WideType, Settled, Disjoint
  <2> QED
    BY <1>3, <1>4, <2>1, ConcatAsSets
<1> HIDE DEF D, state, intr, slot, writes
<1>9. /\ r \in WideType
      /\ r.ready = k.ready \o w /\ r.suspended = k.suspended /\ r.ticks = k.ticks
      /\ r.sleeping = k.sleeping \ D /\ r.current = k.current /\ r.state = state
  <2> DEFINE ready == k.ready \o w
             sleeping == k.sleeping \ D
  <2>1. ready \in Seq(Threads) /\ sleeping \in SUBSET Threads
    BY <1>1, <1>8 DEF WideType
  <2> HIDE DEF ready, sleeping
  <2>2. r = [k EXCEPT !.sleeping = sleeping, !.state = state, !.intr = intr,
                      !.slot = slot, !.writes = writes, !.ready = ready]
    BY <1>5 DEF ready, sleeping
  <2> HIDE DEF r
  <2>3. /\ r \in WideType
        /\ r.ready = ready /\ r.suspended = k.suspended /\ r.ticks = k.ticks
        /\ r.sleeping = sleeping /\ r.current = k.current /\ r.state = state
    BY <1>1, <1>6, <2>1, <2>2 DEF WideType
  <2> QED
    BY <2>3 DEF ready, sleeping
<1> HIDE DEF r
<1>10. Disjoint(r)
  BY <1>1, <1>8, <1>9 DEF Settled, Disjoint
<1>11. Told(r, {r.current})
  <2>1. \A t \in D : k.state[t] = "Sleeping"
    BY <1>1 DEF Settled, Told
  <2> QED
    BY <1>1, <1>7, <1>8, <1>9, <2>1 DEF Settled, Told
<1>12. CurrentLives(r) /\ \A t \in Threads : Dead(k, t) => Dead(r, t)
  <2>1. \A t \in D : k.state[t] = "Sleeping"
    BY <1>1 DEF Settled, Told
  <2> QED
    BY <1>1, <1>7, <1>9, <2>1 DEF Settled, CurrentLives, Dead
<1>13. r.current \notin ToSet(r.ready) \cup r.suspended
  BY <1>8, <1>9 DEF Settled, D
<1>14. \A t \in r.sleeping : r.ticks[t] > 0
  BY <1>1, <1>9 DEF D, Due, WideType
<1> QED
  BY <1>9, <1>10, <1>11, <1>12, <1>13, <1>14 DEF Settled, r

\* Every thread is in its place, and none of them is the current one.
Parked(k) ==
  /\ k \in WideType
  /\ Disjoint(k)
  /\ Told(k, {})

LEMMA RequeueKeeps ==
  ASSUME NEW k, Settled(k)
  PROVE  /\ Parked(Requeue(k))
         /\ Requeue(k).sleeping = k.sleeping /\ Requeue(k).ticks = k.ticks
         /\ \A t \in Threads : Dead(k, t) => Dead(Requeue(k), t)
<1> DEFINE r == Requeue(k)
           c == k.current
<1>1. k \in WideType /\ Disjoint(k) /\ Told(k, {c}) /\ CurrentLives(k)
  BY DEF Settled
<1>2. c \notin ToSet(k.ready) \cup k.suspended
  BY DEF Settled
<1>3. CASE c \notin Threads \/ k.state[c] = "Sleeping"
  <2>1. r = k
    BY <1>3 DEF Requeue
  <2> QED
    BY <1>1, <1>3, <2>1 DEF Parked, Told
<1>4. CASE c \in Threads /\ k.state[c] = "Suspending"
  <2> DEFINE state == [k.state EXCEPT ![c] = "Suspended"]
             suspended == k.suspended \cup {c}
  <2>1. r = [k EXCEPT !.suspended = suspended, !.state = state]
    BY <1>1, <1>4 DEF Requeue, WideType
  <2>2. state \in [Threads -> States] /\ suspended \in SUBSET Threads
    BY <1>1, <1>4 DEF WideType, States
  <2>3. \A t \in Threads : state[t] = IF t = c THEN "Suspended" ELSE k.state[t]
    BY <1>1, <1>4 DEF WideType
  <2> HIDE DEF state, r
  <2>4. /\ r \in WideType
        /\ r.ready = k.ready /\ r.suspended = suspended /\ r.ticks = k.ticks
        /\ r.sleeping = k.sleeping /\ r.state = state
    BY <1>1, <2>1, <2>2 DEF WideType
  <2>5. Disjoint(r)
    BY <1>1, <1>2, <1>4, <2>4 DEF Disjoint, Told
  <2>6. Told(r, {})
    BY <1>1, <1>2, <1>4, <2>3, <2>4 DEF Told
  <2>7. \A t \in Threads : Dead(k, t) => Dead(r, t)
    BY <1>1, <2>3, <2>4 DEF CurrentLives, Dead
  <2> QED
    BY <2>4, <2>5, <2>6, <2>7 DEF Parked, r
<1>5. CASE c \in Threads /\ k.state[c] \notin {"Sleeping", "Suspending"}
  <2> DEFINE state == [k.state EXCEPT ![c] = "Ready"]
             ready == Append(k.ready, c)
  <2>1. r = [k EXCEPT !.ready = ready, !.state = state]
    BY <1>1, <1>5 DEF Requeue, WideType
  <2>2. state \in [Threads -> States]
    BY <1>1, <1>5 DEF WideType, States
  <2>3. \A t \in Threads : state[t] = IF t = c THEN "Ready" ELSE k.state[t]
    BY <1>1, <1>5 DEF WideType
  <2>4. ready \in Seq(Threads) /\ ToSet(ready) = ToSet(k.ready) \cup {c} /\ IsInjective(ready)
    <3>1. k.ready \in Seq(Threads) /\ IsInjective(k.ready) /\ c \notin ToSet(k.ready)
      BY <1>1, <1>2 DEF WideType, Disjoint
    <3>2. c \in Threads
      BY <1>5
    <3> HIDE DEF c
    <3> QED
      BY <3>1, <3>2, AppendAsSet, Zenon
  <2> HIDE DEF state, ready, r
  <2>5. /\ r \in WideType
        /\ r.ready = ready /\ r.suspended = k.suspended /\ r.ticks = k.ticks
        /\ r.sleeping = k.sleeping /\ r.state = state
    BY <1>1, <2>1, <2>2, <2>4 DEF WideType
  <2>6. c \notin k.sleeping
    BY <1>1, <1>5 DEF Told
  <2>7. Disjoint(r)
    BY <1>1, <1>2, <1>5, <2>4, <2>5, <2>6 DEF Disjoint
  <2>8. Told(r, {})
    BY <1>1, <1>2, <1>5, <2>3, <2>4, <2>5, <2>6 DEF Told
  <2>9. \A t \in Threads : Dead(k, t) => Dead(r, t)
    BY <1>1, <2>3, <2>5 DEF CurrentLives, Dead
  <2> QED
    BY <2>5, <2>7, <2>8, <2>9 DEF Parked, r
<1> QED
  BY <1>3, <1>4, <1>5

LEMMA SwitchKeeps ==
  ASSUME NEW k, Parked(k), \A t \in k.sleeping : k.ticks[t] > 0
  PROVE  /\ Sound(SwitchToNext(k))
         /\ \A t \in Threads : Dead(k, t) => Dead(SwitchToNext(k), t)
<1> DEFINE r == SwitchToNext(k)
<1>1. k \in WideType /\ Disjoint(k) /\ Told(k, {})
  BY DEF Parked
<1>3. CASE k.ready = <<>>
  <2> DEFINE none == <<>>
  <2>1. r = [k EXCEPT !.ready = none, !.current = Idle]
    BY <1>3 DEF SwitchToNext
  <2>2. none \in Seq(Threads) /\ ToSet(none) = {} /\ IsInjective(none)
    <3>1. none \in Seq(Threads) /\ DOMAIN none = {}
      OBVIOUS
    <3> QED
      BY <3>1 DEF ToSet, IsInjective
  <2>3. ToSet(k.ready) = {}
    BY <1>3, <2>2
  <2> HIDE DEF r, none
  <2>4. /\ r \in WideType /\ r \in SchedType
        /\ r.ready = none /\ r.suspended = k.suspended /\ r.ticks = k.ticks
        /\ r.sleeping = k.sleeping /\ r.state = k.state /\ r.current = Idle
    BY <1>1, <2>1, <2>2 DEF WideType, SchedType
  <2>5. Settled(r)
    BY <1>1, <2>2, <2>3, <2>4, ThreadAssumption
    DEF Settled, Disjoint, Told, CurrentLives, WideType
  <2>6. r.current \notin r.sleeping /\ \A t \in Threads : r.state[t] # "Suspending"
    BY <1>1, <2>3, <2>4, ThreadAssumption DEF WideType, Told
  <2> QED
    BY <2>4, <2>5, <2>6 DEF Sound, Dead, r
<1>4. CASE k.ready # <<>>
  <2> DEFINE c == Head(k.ready)
             ready == Tail(k.ready)
             state == IF c = k.current THEN k.state ELSE [k.state EXCEPT ![c] = "Active"]
  <2>1. /\ ready \in Seq(Threads) /\ IsInjective(ready)
        /\ c \in ToSet(k.ready) /\ ToSet(ready) = ToSet(k.ready) \ {c}
    BY <1>1, <1>4, TailAsSet DEF WideType, Disjoint
  <2>2. c \in Threads /\ c # Idle /\ k.state[c] = "Ready"
    BY <1>1, <2>1, ToSetOfSeq, ThreadAssumption DEF WideType, Told
  <2>3. r = [k EXCEPT !.ready = ready, !.current = c, !.state = state]
    <3>1. CASE c = k.current
      <4>1. r = [k EXCEPT !.ready = ready, !.current = c]
        BY <1>4, <3>1 DEF SwitchToNext
      <4> QED
        BY <1>1, <3>1, <4>1 DEF WideType
    <3>2. CASE c # k.current
      <4>1. r = [k EXCEPT !.ready = ready, !.current = c, !.state[c] = "Active"]
        BY <1>4, <2>2, <3>2 DEF SwitchToNext
      <4> QED
        BY <1>1, <3>2, <4>1 DEF WideType
    <3> QED
      BY <3>1, <3>2
  <2>4. /\ state \in [Threads -> States]
        /\ \A t \in Threads : t # c => state[t] = k.state[t]
        /\ state[c] \in {"Ready", "Active"}
    BY <1>1, <2>2 DEF WideType, States
  <2> HIDE DEF c, ready, state, r
  <2>5. /\ r \in WideType /\ r \in SchedType
        /\ r.ready = ready /\ r.suspended = k.suspended /\ r.ticks = k.ticks
        /\ r.sleeping = k.sleeping /\ r.state = state /\ r.current = c
    BY <1>1, <2>1, <2>2, <2>3, <2>4 DEF WideType, SchedType
  <2>6. c \notin k.suspended \cup k.sleeping \cup ToSet(ready)
    BY <1>1, <2>1 DEF Disjoint
  <2>7. Disjoint(r)
    BY <1>1, <2>1, <2>5 DEF Disjoint
  <2>8. Told(r, {r.current})
    BY <1>1, <2>1, <2>2, <2>4, <2>5, <2>6 DEF Told
  <2>9. CurrentLives(r) /\ \A t \in Threads : Dead(k, t) => Dead(r, t)
    BY <1>1, <2>2, <2>4, <2>5 DEF CurrentLives, Dead
  <2>10. \A t \in Threads : r.state[t] # "Suspending"
    BY <1>1, <2>2, <2>4, <2>5 DEF Told
  <2>11. Settled(r)
    BY <2>1, <2>5, <2>6, <2>7, <2>8, <2>9 DEF Settled
  <2>12. Sound(r)
    BY <2>5, <2>6, <2>10, <2>11 DEF Sound
  <2> QED
    BY <2>9, <2>12 DEF r
<1> QED
  BY <1>3, <1>4

\* The context switch as a whole: whatever it is handed, it leaves every thread
\* in one place, a live thread (or the idle thread) running, and the finalized
\* threads where they were.  A current thread that sleeps must not be ticked.
LEMMA DispatchKeeps ==
  ASSUME NEW k, Settled(k), NEW doTick \in BOOLEAN,
         k.current \in k.sleeping => doTick = FALSE /\ k.ticks[k.current] > 0,
         NEW r \in Dispatch(k, doTick)
  PROVE  Sound(r) /\ \A t \in Threads : Dead(k, t) => Dead(r, t)
<1> DEFINE ticked == TickSleepers(k, doTick)
<1>1. /\ Settled(ticked) /\ ticked.current = k.current
      /\ ticked.sleeping = k.sleeping /\ ticked.state = k.state
      /\ doTick = FALSE => ticked = k
  BY TickSleepersKeeps
<1>2. PICK w \in SetToSeqs(Due(ticked)) : r = SwitchToNext(Requeue(WakeDue(ticked, w)))
  BY Zenon DEF Dispatch
<1>3. ticked.current \notin Due(ticked)
  BY <1>1 DEF Due
<1> HIDE DEF ticked
<1> DEFINE woken == WakeDue(ticked, w)
<1>4. /\ Settled(woken) /\ \A t \in woken.sleeping : woken.ticks[t] > 0
      /\ \A t \in Threads : Dead(ticked, t) => Dead(woken, t)
  BY <1>1, <1>2, <1>3, WakeDueKeeps
<1> HIDE DEF woken
<1> DEFINE queued == Requeue(woken)
<1>5. /\ Parked(queued) /\ \A t \in queued.sleeping : queued.ticks[t] > 0
      /\ \A t \in Threads : Dead(woken, t) => Dead(queued, t)
  BY <1>4, RequeueKeeps
<1> HIDE DEF queued
<1>6. /\ Sound(SwitchToNext(queued))
      /\ \A t \in Threads : Dead(queued, t) => Dead(SwitchToNext(queued), t)
  BY <1>5, SwitchKeeps
<1>7. \A t \in Threads : Dead(k, t) => Dead(ticked, t)
  BY <1>1 DEF Dead
<1>8. r = SwitchToNext(queued)
  BY <1>2 DEF queued, woken
<1> QED
  BY <1>4, <1>5, <1>6, <1>7, <1>8

-----------------------------------------------------------------------------
(* The operations.                                                         *)

\* Finalized threads stay finalized from k to r.
DeadStay(k, r) == \A t \in Threads : Dead(k, t) => Dead(r, t)

\* Nothing depends on wake counts, stack slots and the clock.
LEMMA SamePlaces ==
  ASSUME NEW k, NEW r, r.ready = k.ready, r.suspended = k.suspended,
         r.sleeping = k.sleeping, r.current = k.current, r.state = k.state,
         r.ticks = k.ticks
  PROVE  /\ Settled(k) /\ r \in WideType => Settled(r)
         /\ Sound(k) /\ r \in SchedType => Sound(r)
         /\ DeadStay(k, r)
<1>1. ASSUME Settled(k), r \in WideType PROVE Settled(r)
  BY <1>1 DEF Settled, Disjoint, Told, CurrentLives
<1>2. ASSUME Sound(k), r \in SchedType PROVE Sound(r)
  <2>1. r \in WideType
    BY <1>2 DEF SchedType, WideType
  <2>2. Settled(k)
    BY <1>2 DEF Sound
  <2>3. Settled(r)
    BY <1>1, <2>1, <2>2
  <2> QED
    BY <1>2, <2>3 DEF Sound
<1> QED
  BY <1>1, <1>2 DEF DeadStay, Dead

LEMMA UseWakeKeeps ==
  ASSUME NEW k, Sound(k), NEW t \in Threads
  PROVE  /\ Sound(UseWake(k, t)) /\ DeadStay(k, UseWake(k, t))
         /\ \E wake \in [Threads -> Nat] : UseWake(k, t) = [k EXCEPT !.wake = wake]
<1> DEFINE wake == [k.wake EXCEPT ![t] = IF k.wake[t] > 0 THEN k.wake[t] - 1 ELSE k.wake[t]]
           r == UseWake(k, t)
<1>1. k \in SchedType
  BY DEF Sound
<1>2. r = [k EXCEPT !.wake = wake] /\ wake \in [Threads -> Nat]
  BY <1>1 DEF UseWake, SchedType
<1> HIDE DEF wake
<1>3. /\ r \in SchedType
      /\ r.ready = k.ready /\ r.suspended = k.suspended /\ r.sleeping = k.sleeping
      /\ r.current = k.current /\ r.state = k.state /\ r.ticks = k.ticks
  BY <1>1, <1>2 DEF SchedType
<1> HIDE DEF r
<1>4. Sound(r) /\ DeadStay(k, r)
  BY <1>3, SamePlaces
<1> QED
  BY <1>2, <1>4 DEF r

LEMMA PopSlotKeeps ==
  ASSUME NEW k, Sound(k), NEW t \in Threads
  PROVE  Sound(PopSlot(k, t)) /\ DeadStay(k, PopSlot(k, t))
<1> DEFINE slot == [k.slot EXCEPT ![t] = NoSlot]
           r == PopSlot(k, t)
<1>1. k \in SchedType
  BY DEF Sound
<1>2. r = [k EXCEPT !.slot = slot] /\ slot \in [Threads -> Int]
  BY <1>1 DEF PopSlot, SchedType, NoSlot
<1> HIDE DEF slot
<1>3. /\ r \in SchedType
      /\ r.ready = k.ready /\ r.suspended = k.suspended /\ r.sleeping = k.sleeping
      /\ r.current = k.current /\ r.state = k.state /\ r.ticks = k.ticks
  BY <1>1, <1>2 DEF SchedType
<1> HIDE DEF r
<1>4. Sound(r) /\ DeadStay(k, r)
  BY <1>3, SamePlaces
<1> QED
  BY <1>4 DEF r

\* Setting the clock's flag moves nothing.
LEMMA ClockKeeps ==
  ASSUME NEW k, NEW v \in {"clear", "raised", "latched"}
  PROVE  /\ Settled(k) => /\ Settled([k EXCEPT !.rtc = v])
                          /\ [k EXCEPT !.rtc = v].current = k.current
                          /\ [k EXCEPT !.rtc = v].sleeping = k.sleeping
                          /\ [k EXCEPT !.rtc = v].ticks = k.ticks
         /\ Sound(k) => Sound([k EXCEPT !.rtc = v])
         /\ k \in WideType => DeadStay(k, [k EXCEPT !.rtc = v])
<1> DEFINE r == [k EXCEPT !.rtc = v]
<1>1. ASSUME k \in WideType
      PROVE  /\ r \in WideType
             /\ r.ready = k.ready /\ r.suspended = k.suspended /\ r.sleeping = k.sleeping
             /\ r.current = k.current /\ r.state = k.state /\ r.ticks = k.ticks
  BY <1>1 DEF WideType
<1>2. ASSUME k \in SchedType PROVE k \in WideType /\ r \in SchedType
  BY <1>2 DEF SchedType, WideType
<1> HIDE DEF r
<1>3. ASSUME Settled(k) PROVE Settled(r)
  <2>1. k \in WideType
    BY <1>3 DEF Settled
  <2> QED
    BY <1>1, <1>3, <2>1, SamePlaces
<1>4. ASSUME Sound(k) PROVE Sound(r)
  <2>1. k \in SchedType
    BY <1>4 DEF Sound
  <2> QED
    BY <1>1, <1>2, <1>4, <2>1, SamePlaces
<1>5. ASSUME k \in WideType PROVE DeadStay(k, r)
  BY <1>1, <1>5, SamePlaces
<1>6. Settled(k) => k \in WideType
  BY DEF Settled
<1> QED
  BY <1>1, <1>3, <1>4, <1>5, <1>6 DEF r

\* Whatever is handed to FakeTick settled, comes out sound: Yield, and the
\* switch at the end of Suspend, TicksSleep and Finalize.
LEMMA FakeTickKeeps ==
  ASSUME NEW k, Settled(k),
         k.current \in k.sleeping => k.ticks[k.current] > 0,
         NEW r \in FakeTick(k)
  PROVE  Sound(r) /\ DeadStay(k, r)
<1> DEFINE v == IF k.rtc = "raised" THEN "latched" ELSE k.rtc
           f == [k EXCEPT !.rtc = v]
<1>1. k \in WideType
  BY DEF Settled
<1>2. v \in {"clear", "raised", "latched"}
  BY <1>1 DEF WideType
<1>3. r \in Dispatch(f, FALSE)
  BY DEF FakeTick
<1> HIDE DEF v
<1>4. /\ Settled(f) /\ DeadStay(k, f) /\ f.current = k.current
      /\ f.sleeping = k.sleeping /\ f.ticks = k.ticks
  BY <1>1, <1>2, ClockKeeps
<1> HIDE DEF f
<1>5. Sound(r) /\ DeadStay(f, r)
  BY <1>3, <1>4, DispatchKeeps DEF DeadStay
<1> QED
  BY <1>4, <1>5 DEF DeadStay

LEMMA TickHandlerKeeps ==
  ASSUME NEW k, Sound(k), NEW r \in TickHandler(k)
  PROVE  Sound(r) /\ DeadStay(k, r)
<1> DEFINE f == [k EXCEPT !.rtc = "clear"]
           doTick == (k.rtc = "raised")
<1>1. Settled(k) /\ k \in WideType /\ k.current \notin k.sleeping
  BY DEF Sound, Settled
<1>2. r \in Dispatch(f, doTick) /\ doTick \in BOOLEAN
  BY Zenon DEF TickHandler
<1>3. Settled(f) /\ DeadStay(k, f) /\ f.current = k.current /\ f.sleeping = k.sleeping
  BY <1>1, ClockKeeps
<1> HIDE DEF f, doTick
<1>4. Sound(r) /\ DeadStay(f, r)
  BY <1>1, <1>2, <1>3, DispatchKeeps, Zenon DEF DeadStay
<1> QED
  BY <1>3, <1>4 DEF DeadStay

-----------------------------------------------------------------------------
(* Moving one thread from list to list.                                    *)

\* A function that takes thread t, not the current one, off its list and puts
\* it on the list that its new state tells, keeps the scheduler sound.
LEMMA MoveKeeps ==
  ASSUME NEW k, Sound(k), NEW r \in SchedType, NEW t \in Threads, t # k.current,
         NEW s \in {"Ready", "Suspended", "Sleeping", "Finalized"},
         ToSet(r.ready) = (ToSet(k.ready) \ {t}) \cup (IF s = "Ready" THEN {t} ELSE {}),
         IsInjective(r.ready),
         r.suspended = (k.suspended \ {t}) \cup (IF s = "Suspended" THEN {t} ELSE {}),
         r.sleeping = (k.sleeping \ {t}) \cup (IF s = "Sleeping" THEN {t} ELSE {}),
         r.current = k.current,
         r.state = [k.state EXCEPT ![t] = s],
         \A u \in r.sleeping : r.ticks[u] > 0
  PROVE  /\ Sound(r)
         /\ \A u \in Threads : u # t /\ Dead(k, u) => Dead(r, u)
         /\ s = "Finalized" \/ ~Dead(k, t) => DeadStay(k, r)
<1>1. /\ k \in WideType /\ Disjoint(k) /\ Told(k, {k.current}) /\ CurrentLives(k)
      /\ k.current \notin ToSet(k.ready) \cup k.suspended
      /\ k.current \notin k.sleeping /\ \A u \in Threads : k.state[u] # "Suspending"
  BY DEF Sound, Settled
<1>2. r \in WideType
  BY DEF SchedType, WideType
<1>3. /\ r.state[t] = s
      /\ \A u \in Threads : u # t => r.state[u] = k.state[u]
  BY <1>1 DEF WideType
<1>4. Disjoint(r)
  BY <1>1 DEF Disjoint
<1>5. Told(r, {r.current})
  <2>1. ASSUME NEW u \in Threads, u # t
        PROVE  /\ u \in ToSet(r.ready) <=> u \in ToSet(k.ready)
               /\ u \in r.suspended <=> u \in k.suspended
               /\ u \in r.sleeping <=> u \in k.sleeping
               /\ r.state[u] = k.state[u]
    BY <1>3, <2>1
  <2>2. /\ t \in ToSet(r.ready) <=> s = "Ready"
        /\ t \in r.suspended <=> s = "Suspended"
        /\ t \in r.sleeping <=> s = "Sleeping"
        /\ r.state[t] = s
    BY <1>3
  <2> QED
    BY <1>1, <2>1, <2>2 DEF Told
<1>6. CurrentLives(r)
  BY <1>1, <1>3 DEF CurrentLives
<1>7. r.current \notin ToSet(r.ready) \cup r.suspended \cup r.sleeping
  BY <1>1
<1>8. \A u \in Threads : r.state[u] # "Suspending"
  BY <1>1, <1>3
<1>9. Sound(r)
  BY <1>2, <1>4, <1>5, <1>6, <1>7, <1>8 DEF Sound, Settled
<1>10. \A u \in Threads : u # t /\ Dead(k, u) => Dead(r, u)
  BY <1>3 DEF Dead
<1>11. s = "Finalized" \/ ~Dead(k, t) => DeadStay(k, r)
  BY <1>3, <1>10 DEF Dead, DeadStay
<1> QED
  BY <1>9, <1>10, <1>11

\* A function that leaves the current thread about to suspend, or asleep with
\* time to go, may hand the state to the context switch.
LEMMA BlockKeeps ==
  ASSUME NEW k, Sound(k), k.current \in Threads, NEW r \in SchedType,
         NEW s \in {"Suspending", "Sleeping"},
         r.ready = k.ready, r.suspended = k.suspended,
         r.sleeping = k.sleeping \cup (IF s = "Sleeping" THEN {k.current} ELSE {}),
         r.current = k.current,
         r.state = [k.state EXCEPT ![k.current] = s]
  PROVE  Settled(r) /\ DeadStay(k, r)
<1> DEFINE c == k.current
<1>1. /\ k \in WideType /\ Disjoint(k) /\ Told(k, {c}) /\ CurrentLives(k)
      /\ c \notin ToSet(k.ready) \cup k.suspended
      /\ c \notin k.sleeping
  BY DEF Sound, Settled
<1>2. r \in WideType
  BY DEF SchedType, WideType
<1>3. /\ r.state[c] = s
      /\ \A u \in Threads : u # c => r.state[u] = k.state[u]
  BY <1>1 DEF WideType
<1> HIDE DEF c
<1>4. Disjoint(r)
  BY <1>1 DEF Disjoint, c
<1>5. Told(r, {r.current})
  BY <1>1, <1>3 DEF Told, c
<1>6. CurrentLives(r) /\ DeadStay(k, r)
  BY <1>1, <1>3 DEF CurrentLives, DeadStay, Dead, c
<1> QED
  BY <1>1, <1>2, <1>4, <1>5, <1>6 DEF Settled, c

LEMMA EnableKeeps ==
  ASSUME NEW k, Sound(k), NEW t \in Threads, t # Main, k.state[t] = "Unknown"
  PROVE  Sound(Enable(k, t)) /\ DeadStay(k, Enable(k, t))
<1> DEFINE state == [k.state EXCEPT ![t] = "Suspended"]
           suspended == k.suspended \cup {t}
           r == Enable(k, t)
<1>1. /\ k \in SchedType /\ k \in WideType /\ Disjoint(k) /\ Told(k, {k.current})
      /\ CurrentLives(k) /\ \A u \in k.sleeping : k.ticks[u] > 0
  BY DEF Sound, Settled
<1>2. r = [k EXCEPT !.suspended = suspended, !.state = state]
  BY <1>1 DEF Enable, SchedType
<1>3. state \in [Threads -> States] /\ suspended \in SUBSET Threads
  BY <1>1 DEF SchedType, States
<1>4. t # k.current
  BY <1>1 DEF CurrentLives
<1>5. t \notin ToSet(k.ready) \cup k.suspended \cup k.sleeping
  BY <1>1 DEF Told
<1>6. state = [k.state EXCEPT ![t] = "Suspended"]
  OBVIOUS
<1> HIDE DEF state, r
<1>7. /\ r \in SchedType
      /\ r.ready = k.ready /\ r.suspended = suspended /\ r.sleeping = k.sleeping
      /\ r.current = k.current /\ r.state = state /\ r.ticks = k.ticks
  BY <1>1, <1>2, <1>3 DEF SchedType
<1>8. IsInjective(r.ready)
  BY <1>1, <1>7 DEF Disjoint
<1>9. /\ ToSet(r.ready) = ToSet(k.ready) \ {t}
      /\ r.suspended = (k.suspended \ {t}) \cup {t}
      /\ r.sleeping = k.sleeping \ {t}
      /\ ~Dead(k, t)
  BY <1>5, <1>7 DEF Dead
<1> HIDE DEF suspended
<1>10. Sound(r) /\ DeadStay(k, r)
  BY <1>1, <1>4, <1>6, <1>7, <1>8, <1>9, MoveKeeps
<1> QED
  BY <1>10 DEF r

LEMMA SuspendSelfKeeps ==
  ASSUME NEW k, Sound(k), k.current \in Threads
  PROVE  LET r == SuspendSelf(k) IN
         /\ Settled(r) /\ DeadStay(k, r)
         /\ r.current \notin r.sleeping
<1> DEFINE c == k.current
           state == [k.state EXCEPT ![c] = "Suspending"]
           r == SuspendSelf(k)
<1>1. k \in SchedType /\ c \notin k.sleeping
  BY DEF Sound
<1>2. PICK wake \in [Threads -> Nat] : UseWake(k, c) = [k EXCEPT !.wake = wake]
  BY UseWakeKeeps
<1>3. r = [k EXCEPT !.wake = wake, !.state = state]
  BY <1>1, <1>2 DEF SuspendSelf, SchedType
<1>4. state \in [Threads -> States] /\ state = [k.state EXCEPT ![c] = "Suspending"]
  BY <1>1 DEF SchedType, States
<1> HIDE DEF state, r
<1>5. /\ r \in SchedType
      /\ r.ready = k.ready /\ r.suspended = k.suspended /\ r.sleeping = k.sleeping
      /\ r.current = k.current /\ r.state = state
  BY <1>1, <1>3, <1>4 DEF SchedType
<1>6. Settled(r) /\ DeadStay(k, r)
  BY <1>4, <1>5, BlockKeeps
<1> QED
  BY <1>1, <1>5, <1>6 DEF r

\* Suspend takes a thread off the ready queue or the sleeping list; a thread
\* that is on neither stays where it is.
LEMMA SuspendOtherKeeps ==
  ASSUME NEW k, Sound(k), NEW t \in Threads, t # k.current
  PROVE  Sound(SuspendOther(k, t)) /\ DeadStay(k, SuspendOther(k, t))
<1>1. CASE StaysAwake(k, t) \/ t \notin ToSet(k.ready) \cup k.sleeping
  BY <1>1, UseWakeKeeps DEF SuspendOther
<1>2. CASE ~StaysAwake(k, t) /\ t \in ToSet(k.ready) \cup k.sleeping
  <2> DEFINE state == [k.state EXCEPT ![t] = "Suspended"]
             ready == Without(k.ready, t)
             suspended == k.suspended \cup {t}
             sleeping == k.sleeping \ {t}
             r == SuspendOther(k, t)
  <2>1. /\ k \in SchedType /\ Disjoint(k) /\ Told(k, {k.current})
        /\ \A u \in k.sleeping : k.ticks[u] > 0
    BY DEF Sound, Settled
  <2>2. PICK wake \in [Threads -> Nat] : UseWake(k, t) = [k EXCEPT !.wake = wake]
    BY UseWakeKeeps
  <2>3. r = [k EXCEPT !.wake = wake, !.ready = ready, !.sleeping = sleeping,
                      !.suspended = suspended, !.state = state]
    BY <1>2, <2>1, <2>2 DEF SuspendOther, SchedType
  <2>4. state \in [Threads -> States] /\ state = [k.state EXCEPT ![t] = "Suspended"]
    BY <2>1 DEF SchedType, States
  <2>5. ready \in Seq(Threads) /\ IsInjective(ready) /\ ToSet(ready) = ToSet(k.ready) \ {t}
    BY <2>1, WithoutAsSet DEF SchedType, Disjoint
  <2>6. suspended \in SUBSET Threads /\ sleeping \in SUBSET Threads
    BY <2>1 DEF SchedType
  <2>7. ~Dead(k, t)
    BY <1>2, <2>1 DEF Dead, Told
  <2> HIDE DEF state, ready, r
  <2>8. /\ r \in SchedType
        /\ r.ready = ready /\ r.suspended = suspended /\ r.sleeping = sleeping
        /\ r.current = k.current /\ r.state = state /\ r.ticks = k.ticks
    BY <2>1, <2>3, <2>4, <2>5, <2>6 DEF SchedType
  <2>9. Sound(r) /\ DeadStay(k, r)
    BY <2>1, <2>4, <2>5, <2>7, <2>8, MoveKeeps
  <2> QED
    BY <2>9 DEF r
<1> QED
  BY <1>1, <1>2
\* Resume takes a thread off the suspended list or, from an interruptible
\* sleep, off the sleeping list; resuming any other thread is only counted.
LEMMA ResumeKeeps ==
  ASSUME NEW k, Sound(k), NEW t \in Threads, NEW prepend \in BOOLEAN
  PROVE  Sound(Resume(k, t, prepend)) /\ DeadStay(k, Resume(k, t, prepend))
<1> DEFINE wake == [k.wake EXCEPT ![t] = k.wake[t] + 1]
           counted == [k EXCEPT !.wake = wake]
           r == Resume(k, t, prepend)
<1>1. /\ k \in SchedType /\ Disjoint(k) /\ Told(k, {k.current})
      /\ k.current \notin k.suspended \cup k.sleeping
      /\ \A u \in k.sleeping : k.ticks[u] > 0
  BY DEF Sound, Settled
<1>2. wake \in [Threads -> Nat] /\ counted = [k EXCEPT !.wake[t] = @ + 1]
  BY <1>1 DEF SchedType
<1>3. CASE ~Resumable(k, t)
  <2>1. r = counted
    BY <1>2, <1>3 DEF Resume
  <2> HIDE DEF wake
  <2>2. /\ counted \in SchedType
        /\ counted.ready = k.ready /\ counted.suspended = k.suspended
        /\ counted.sleeping = k.sleeping /\ counted.current = k.current
        /\ counted.state = k.state /\ counted.ticks = k.ticks
    BY <1>1, <1>2 DEF SchedType
  <2> QED
    BY <2>1, <2>2, SamePlaces
<1>4. CASE Resumable(k, t)
  <2> DEFINE up == k.state[t] = "Sleeping"
             slot == [k.slot EXCEPT ![t] =
                        IF k.writes[t] /\ k.slot[t] # NoSlot THEN k.ticks[t] ELSE k.slot[t]]
             intr == [k.intr EXCEPT ![t] = FALSE]
             writes == [k.writes EXCEPT ![t] = FALSE]
             ticks == [k.ticks EXCEPT ![t] = 0]
             state == [k.state EXCEPT ![t] = "Ready"]
             ready == Enqueue(k.ready, t, prepend)
             suspended == k.suspended \ {t}
             sleeping == k.sleeping \ {t}
  <2>1. /\ slot \in [Threads -> Int] /\ intr \in [Threads -> BOOLEAN]
        /\ writes \in [Threads -> BOOLEAN] /\ ticks \in [Threads -> Nat]
    BY <1>1 DEF SchedType
  <2>2. /\ state \in [Threads -> States] /\ state = [k.state EXCEPT ![t] = "Ready"]
        /\ suspended \in SUBSET Threads /\ sleeping \in SUBSET Threads
    BY <1>1 DEF SchedType, States
  <2>3. t # k.current /\ t \notin ToSet(k.ready) /\ ~Dead(k, t)
    BY <1>1, <1>4 DEF Resumable, Disjoint, Told, Dead
  <2>4. /\ ready \in Seq(Threads) /\ IsInjective(ready)
        /\ ToSet(ready) = ToSet(k.ready) \cup {t}
    <3>1. k.ready \in Seq(Threads) /\ IsInjective(k.ready)
      BY <1>1 DEF SchedType, Disjoint
    <3> HIDE DEF ready
    <3>2. CASE prepend = TRUE
      <4>1. ready = <<t>> \o k.ready
        BY <3>2, Zenon DEF Enqueue, ready
      <4>2. /\ <<t>> \o k.ready \in Seq(Threads)
            /\ ToSet(<<t>> \o k.ready) = ToSet(k.ready) \cup {t}
            /\ IsInjective(<<t>> \o k.ready)
        BY <2>3, <3>1, PrependAsSet, Zenon
      <4> QED
        BY <4>1, <4>2, Zenon
    <3>3. CASE prepend = FALSE
      <4>1. ready = Append(k.ready, t)
        BY <3>3, Zenon DEF Enqueue, ready
      <4> QED
        BY <2>3, <3>1, <4>1, AppendAsSet, Zenon
    <3> QED
      BY <3>2, <3>3, Zenon
  <2>5. \A u \in Threads : u # t => ticks[u] = k.ticks[u]
    BY <1>1 DEF SchedType
  <2>6. CASE up
    <3>1. r = [k EXCEPT !.wake = wake, !.slot = slot, !.intr = intr,
                        !.writes = writes, !.ticks = ticks,
                        !.suspended = suspended, !.sleeping = sleeping,
                        !.state = state, !.ready = ready]
      BY <1>1, <1>2, <1>4, <2>6 DEF Resume, SchedType
    <3> HIDE DEF wake, slot, intr, writes, ticks, state, ready, r
    <3>2. /\ r \in SchedType
          /\ r.ready = ready /\ r.suspended = suspended /\ r.sleeping = sleeping
          /\ r.current = k.current /\ r.state = state /\ r.ticks = ticks
      BY <1>1, <1>2, <2>1, <2>2, <2>4, <3>1 DEF SchedType
    <3>3. \A u \in r.sleeping : r.ticks[u] > 0
      BY <1>1, <2>5, <3>2 DEF SchedType
    <3>4. /\ ToSet(r.ready) = (ToSet(k.ready) \ {t}) \cup {t} /\ IsInjective(r.ready)
          /\ r.suspended = k.suspended \ {t} /\ r.sleeping = k.sleeping \ {t}
      BY <2>4, <3>2
    <3> HIDE DEF suspended, sleeping
    <3>5. Sound(r) /\ DeadStay(k, r)
      BY <2>2, <2>3, <3>2, <3>3, <3>4, MoveKeeps
    <3> QED
      BY <3>5 DEF r
  <2>7. CASE ~up
    <3>1. r = [k EXCEPT !.wake = wake, !.suspended = suspended,
                        !.sleeping = sleeping, !.state = state, !.ready = ready]
      BY <1>1, <1>2, <1>4, <2>7 DEF Resume, SchedType
    <3> HIDE DEF wake, state, ready, r
    <3>2. /\ r \in SchedType
          /\ r.ready = ready /\ r.suspended = suspended /\ r.sleeping = sleeping
          /\ r.current = k.current /\ r.state = state /\ r.ticks = k.ticks
      BY <1>1, <1>2, <2>2, <2>4, <3>1 DEF SchedType
    <3>3. \A u \in r.sleeping : r.ticks[u] > 0
      BY <1>1, <3>2
    <3>4. /\ ToSet(r.ready) = (ToSet(k.ready) \ {t}) \cup {t} /\ IsInjective(r.ready)
          /\ r.suspended = k.suspended \ {t} /\ r.sleeping = k.sleeping \ {t}
      BY <2>4, <3>2
    <3> HIDE DEF suspended, sleeping
    <3>5. Sound(r) /\ DeadStay(k, r)
      BY <2>2, <2>3, <3>2, <3>3, <3>4, MoveKeeps
    <3> QED
      BY <3>5 DEF r
  <2> QED
    BY <2>6, <2>7
<1> QED
  BY <1>3, <1>4

LEMMA QuickResumeKeeps ==
  ASSUME NEW k, Sound(k), NEW t \in Threads, NEW r \in QuickResume(k, t)
  PROVE  Sound(r) /\ DeadStay(k, r)
<1> DEFINE woken == Resume(k, t, TRUE)
<1>1. Sound(woken) /\ DeadStay(k, woken)
  BY ResumeKeeps
<1>2. r = woken \/ r \in Dispatch(woken, TRUE)
  BY Zenon DEF QuickResume
<1> HIDE DEF woken
<1>3. CASE r = woken
  BY <1>1, <1>3
<1>4. CASE r \in Dispatch(woken, TRUE)
  <2>1. Settled(woken) /\ woken.current \notin woken.sleeping
    BY <1>1 DEF Sound
  <2>2. Sound(r) /\ DeadStay(woken, r)
    BY <1>4, <2>1, DispatchKeeps DEF DeadStay
  <2> QED
    BY <1>1, <2>2 DEF DeadStay
<1> QED
  BY <1>2, <1>3, <1>4

\* TicksSleep leaves the calling thread asleep but still on the processor, for
\* the switch that follows to deal with.
LEMMA SleepSelfKeeps ==
  ASSUME NEW k, Sound(k), k.current \in Threads, NEW n \in Nat, n > 0,
         NEW interruptible \in BOOLEAN
  PROVE  LET r == TicksSleep(k, k.current, n, interruptible) IN
         /\ Settled(r) /\ DeadStay(k, r)
         /\ r.ticks[r.current] > 0
<1> DEFINE c == k.current
           state == [k.state EXCEPT ![c] = "Sleeping"]
           ready == Without(k.ready, c)
           suspended == k.suspended \ {c}
           sleeping == k.sleeping \cup {c}
           ticks == [k.ticks EXCEPT ![c] = n]
           intr == [k.intr EXCEPT ![c] = interruptible]
           writes == [k.writes EXCEPT ![c] = TRUE]
           slot == [k.slot EXCEPT ![c] = Placeholder]
           r == TicksSleep(k, c, n, interruptible)
<1>1. k \in SchedType /\ c \in Threads /\ c \notin ToSet(k.ready) \cup k.suspended
  BY DEF Sound, Settled
<1>2. PICK wake \in [Threads -> Nat] : UseWake(k, c) = [k EXCEPT !.wake = wake]
  BY UseWakeKeeps
<1>3. ready = k.ready /\ suspended = k.suspended
  BY <1>1 DEF Without
<1>4. /\ state \in [Threads -> States] /\ state = [k.state EXCEPT ![c] = "Sleeping"]
      /\ ticks \in [Threads -> Nat] /\ ticks[c] = n
      /\ intr \in [Threads -> BOOLEAN] /\ writes \in [Threads -> BOOLEAN]
      /\ slot \in [Threads -> Int] /\ sleeping \in SUBSET Threads
  BY <1>1 DEF SchedType, States, Placeholder
<1>5. r = [k EXCEPT !.wake = wake, !.ready = ready, !.suspended = suspended,
                    !.sleeping = sleeping, !.state = state, !.ticks = ticks,
                    !.intr = intr, !.writes = writes, !.slot = slot]
  BY <1>1, <1>2 DEF TicksSleep, SchedType
<1> HIDE DEF state, ready, suspended, ticks, intr, writes, slot, r
<1>6. r = [k EXCEPT !.wake = wake, !.sleeping = sleeping, !.state = state,
                    !.ticks = ticks, !.intr = intr, !.writes = writes, !.slot = slot]
  BY <1>1, <1>3, <1>5 DEF SchedType
<1> HIDE DEF sleeping
<1>7. /\ r \in SchedType
      /\ r.ready = k.ready /\ r.suspended = k.suspended /\ r.sleeping = sleeping
      /\ r.current = k.current /\ r.state = state /\ r.ticks = ticks
  BY <1>1, <1>4, <1>6 DEF SchedType
<1>8. r.sleeping = k.sleeping \cup {k.current} /\ r.state = [k.state EXCEPT ![k.current] = "Sleeping"]
  BY <1>4, <1>7 DEF sleeping
<1>9. Settled(r) /\ DeadStay(k, r)
  BY <1>7, <1>8, BlockKeeps
<1> QED
  BY <1>4, <1>7, <1>9 DEF r

\* Thread::Sleep on another thread moves it to the sleeping list.
LEMMA SleepOtherKeeps ==
  ASSUME NEW k, Sound(k), NEW t \in Threads, t # k.current, Known(k, t),
         NEW n \in Nat, n > 0, NEW interruptible \in BOOLEAN
  PROVE  /\ Sound(TicksSleep(k, t, n, interruptible))
         /\ DeadStay(k, TicksSleep(k, t, n, interruptible))
<1> DEFINE state == [k.state EXCEPT ![t] = "Sleeping"]
           ready == Without(k.ready, t)
           suspended == k.suspended \ {t}
           sleeping == k.sleeping \cup {t}
           ticks == [k.ticks EXCEPT ![t] = n]
           intr == [k.intr EXCEPT ![t] = interruptible]
           r == TicksSleep(k, t, n, interruptible)
<1>1. /\ k \in SchedType /\ Disjoint(k) /\ Told(k, {k.current})
      /\ \A u \in k.sleeping : k.ticks[u] > 0
  BY DEF Sound, Settled
<1>2. PICK wake \in [Threads -> Nat] : UseWake(k, t) = [k EXCEPT !.wake = wake]
  BY UseWakeKeeps
<1>3. ready \in Seq(Threads) /\ IsInjective(ready) /\ ToSet(ready) = ToSet(k.ready) \ {t}
  BY <1>1, WithoutAsSet DEF SchedType, Disjoint
<1>4. /\ state \in [Threads -> States] /\ state = [k.state EXCEPT ![t] = "Sleeping"]
      /\ ticks \in [Threads -> Nat] /\ ticks[t] = n
      /\ \A u \in Threads : u # t => ticks[u] = k.ticks[u]
      /\ intr \in [Threads -> BOOLEAN]
      /\ suspended \in SUBSET Threads /\ sleeping \in SUBSET Threads
  BY <1>1 DEF SchedType, States
<1>5. r = [k EXCEPT !.wake = wake, !.ready = ready, !.suspended = suspended,
                    !.sleeping = sleeping, !.state = state, !.ticks = ticks,
                    !.intr = intr]
  BY <1>1, <1>2 DEF TicksSleep, SchedType
<1>6. ~Dead(k, t)
  BY <1>1 DEF Known, Told, Dead
<1> HIDE DEF state, ready, suspended, sleeping, ticks, intr, r
<1>7. /\ r \in SchedType
      /\ r.ready = ready /\ r.suspended = suspended /\ r.sleeping = sleeping
      /\ r.current = k.current /\ r.state = state /\ r.ticks = ticks
  BY <1>1, <1>3, <1>4, <1>5 DEF SchedType
<1>8. /\ ToSet(r.ready) = ToSet(k.ready) \ {t} /\ IsInjective(r.ready)
      /\ r.suspended = k.suspended \ {t} /\ r.sleeping = (k.sleeping \ {t}) \cup {t}
  BY <1>3, <1>7 DEF suspended, sleeping
<1>9. \A u \in r.sleeping : r.ticks[u] > 0
  BY <1>1, <1>4, <1>7, <1>8 DEF SchedType
<1>10. Sound(r) /\ DeadStay(k, r)
  BY <1>4, <1>6, <1>7, <1>8, <1>9, MoveKeeps
<1> QED
  BY <1>10 DEF r

\* Finalize takes the thread off every list; a thread that finalizes itself
\* leaves the processor to the next one.
LEMMA FinalizeKeeps ==
  ASSUME NEW k, Sound(k), NEW t \in Threads, NEW r \in Finalize(k, t)
  PROVE  Sound(r) /\ DeadStay(k, r)
<1> DEFINE state == [k.state EXCEPT ![t] = "Finalized"]
           ready == Without(k.ready, t)
           suspended == k.suspended \ {t}
           sleeping == k.sleeping \ {t}
           gone == [k EXCEPT !.state = state, !.ready = ready,
                             !.suspended = suspended, !.sleeping = sleeping]
           left == [k EXCEPT !.state = state, !.ready = ready, !.suspended = suspended,
                             !.sleeping = sleeping, !.current = NoThread]
<1>1. /\ k \in SchedType /\ k \in WideType /\ Disjoint(k) /\ Told(k, {k.current})
      /\ CurrentLives(k) /\ \A u \in k.sleeping : k.ticks[u] > 0
      /\ \A u \in Threads : k.state[u] # "Suspending"
      /\ k.current \notin ToSet(k.ready) \cup k.suspended \cup k.sleeping
  BY DEF Sound, Settled
<1>2. ready \in Seq(Threads) /\ IsInjective(ready) /\ ToSet(ready) = ToSet(k.ready) \ {t}
  BY <1>1, WithoutAsSet DEF SchedType, Disjoint
<1>3. /\ state \in [Threads -> States] /\ state = [k.state EXCEPT ![t] = "Finalized"]
      /\ state[t] = "Finalized" /\ \A u \in Threads : u # t => state[u] = k.state[u]
      /\ suspended \in SUBSET Threads /\ sleeping \in SUBSET Threads
  BY <1>1 DEF SchedType, States
<1>4. gone = Removed(k, t)
  BY <1>1 DEF SchedType, Removed
<1>5. CASE t = k.current
  <2>1. left = [gone EXCEPT !.current = NoThread]
    BY <1>1 DEF SchedType
  <2>2. r \in FakeTick(left)
    BY <1>4, <1>5, <2>1 DEF Finalize
  <2> HIDE DEF state, ready, suspended, sleeping
  <2>3. /\ left \in WideType
        /\ left.ready = ready /\ left.suspended = suspended /\ left.sleeping = sleeping
        /\ left.current = NoThread /\ left.state = state
    BY <1>1, <1>2, <1>3 DEF WideType
  <2> HIDE DEF left
  <2>4. /\ ToSet(left.ready) = ToSet(k.ready)
        /\ left.suspended = k.suspended /\ left.sleeping = k.sleeping
    BY <1>1, <1>2, <1>5, <2>3 DEF suspended, sleeping
  <2>5. Disjoint(left)
    BY <1>1, <1>2, <2>3, <2>4 DEF Disjoint
  <2>6. Told(left, {left.current})
    BY <1>1, <1>3, <1>5, <2>3, <2>4 DEF Told
  <2>7. CurrentLives(left)
    BY <2>3, ThreadAssumption DEF CurrentLives
  <2>8. left.current \notin ToSet(left.ready) \cup left.suspended \cup left.sleeping
    BY <1>1, <2>3, <2>4, ToSetOfSeq, ThreadAssumption DEF WideType
  <2>9. Settled(left) /\ left.current \notin left.sleeping /\ DeadStay(k, left)
    BY <1>1, <1>3, <2>3, <2>5, <2>6, <2>7, <2>8 DEF Settled, DeadStay, Dead
  <2> QED
    BY <2>2, <2>9, FakeTickKeeps DEF DeadStay
<1>6. CASE t # k.current
  <2>1. r = gone
    BY <1>4, <1>6 DEF Finalize
  <2> HIDE DEF state, ready, suspended, sleeping
  <2>2. /\ gone \in SchedType
        /\ gone.ready = ready /\ gone.suspended = suspended /\ gone.sleeping = sleeping
        /\ gone.current = k.current /\ gone.state = state /\ gone.ticks = k.ticks
    BY <1>1, <1>2, <1>3 DEF SchedType
  <2> HIDE DEF gone
  <2>3. /\ ToSet(gone.ready) = ToSet(k.ready) \ {t} /\ IsInjective(gone.ready)
        /\ gone.suspended = k.suspended \ {t} /\ gone.sleeping = k.sleeping \ {t}
        /\ gone.state = [k.state EXCEPT ![t] = "Finalized"] /\ gone.current = k.current
    BY <1>2, <1>3, <2>2 DEF suspended, sleeping
  <2>4. \A u \in gone.sleeping : gone.ticks[u] > 0
    BY <1>1, <2>2, <2>3
  <2> HIDE DEF left
  <2>5. PICK s \in {"Ready", "Suspended", "Sleeping", "Finalized"} : s = "Finalized"
    OBVIOUS
  <2>6. /\ ToSet(gone.ready) = (ToSet(k.ready) \ {t}) \cup (IF s = "Ready" THEN {t} ELSE {})
        /\ gone.suspended = (k.suspended \ {t}) \cup (IF s = "Suspended" THEN {t} ELSE {})
        /\ gone.sleeping = (k.sleeping \ {t}) \cup (IF s = "Sleeping" THEN {t} ELSE {})
        /\ gone.state = [k.state EXCEPT ![t] = s]
    BY <2>3, <2>5
  <2>7. Sound(gone) /\ (s = "Finalized" \/ ~Dead(k, t) => DeadStay(k, gone))
    BY <1>6, <2>2, <2>3, <2>4, <2>6, MoveKeeps
  <2> QED
    BY <2>1, <2>5, <2>7
<1> QED
  BY <1>5, <1>6

\* A thread that blocks while it finalizes itself: blocking overwrites its State,
\* and nothing is left of what Finalize has done so far.
LEMMA BlockedInOwnFinalize ==
  ASSUME NEW k, Sound(k), NEW t \in Threads, t = k.current
  PROVE  /\ SuspendSelf(Removed(k, t)) = SuspendSelf(k)
         /\ StaysAwake(Removed(k, t), t) <=> StaysAwake(k, t)
<1> DEFINE g == Removed(k, t)
           gone == [k.state EXCEPT ![t] = "Finalized"]
           blocked == [k.state EXCEPT ![t] = "Suspending"]
<1>1. /\ k \in SchedType
      /\ t \notin ToSet(k.ready) \cup k.suspended \cup k.sleeping
  BY DEF Sound, Settled
<1>2. /\ Without(k.ready, t) = k.ready /\ k.suspended \ {t} = k.suspended
      /\ k.sleeping \ {t} = k.sleeping
  BY <1>1 DEF Without
<1>3. g = [k EXCEPT !.state = gone]
  BY <1>1, <1>2 DEF Removed, SchedType
<1>4. [gone EXCEPT ![t] = "Suspending"] = blocked
  BY <1>1 DEF SchedType
<1>5. PICK wake \in [Threads -> Nat] : UseWake(k, t) = [k EXCEPT !.wake = wake]
  BY UseWakeKeeps
<1>6. UseWake(g, t) = [g EXCEPT !.wake = wake]
  <2>1. DOMAIN k = DOMAIN g /\ g.wake = k.wake
    BY <1>1, <1>3 DEF SchedType
  <2> HIDE DEF g
  <2>2. CASE k.wake[t] > 0
    BY <1>1, <1>5, <2>1, <2>2 DEF UseWake, SchedType
  <2>3. CASE ~(k.wake[t] > 0)
    BY <1>1, <1>5, <2>1, <2>3 DEF UseWake, SchedType
  <2> QED
    BY <2>2, <2>3
<1> HIDE DEF gone, blocked, g
<1>7. SuspendSelf(k) = [k EXCEPT !.wake = wake, !.state = blocked]
  BY <1>1, <1>5 DEF SuspendSelf, SchedType, blocked
<1>8. SuspendSelf(g) = [g EXCEPT !.wake = wake, !.state = [gone EXCEPT ![t] = "Suspending"]]
  BY <1>1, <1>3, <1>6 DEF SuspendSelf, SchedType
<1>9. SuspendSelf(g) = SuspendSelf(k)
  BY <1>1, <1>3, <1>4, <1>7, <1>8 DEF SchedType
<1>10. StaysAwake(g, t) <=> StaysAwake(k, t)
  BY <1>1, <1>3, <1>5, <1>6 DEF StaysAwake, SchedType
<1> QED
  BY <1>9, <1>10 DEF g

\* A thread that finalizes another has the one off its lists when it blocks.
LEMMA RemovedOther ==
  ASSUME NEW k, Sound(k), NEW t \in Threads, t # k.current
  PROVE  /\ Removed(k, t) \in Finalize(k, t)
         /\ Removed(k, t).current = k.current /\ Removed(k, t).wake = k.wake
BY DEF Finalize, Removed, Sound, SchedType

\* A thread that has to wait inside Finalize: t is gone from the lists, and the
\* caller, even when it is t, is about to be suspended.
LEMMA SuspendInFinalizeKeeps ==
  ASSUME NEW k, Sound(k), NEW t \in Threads, k.current \in Threads
  PROVE  LET r == SuspendSelf(Removed(k, t))
         IN  Settled(r) /\ DeadStay(k, r) /\ r.current \notin r.sleeping
<1> DEFINE g == Removed(k, t)
           r == SuspendSelf(g)
<1>1. CASE t # k.current
  <2>1. Sound(g) /\ DeadStay(k, g) /\ g.current = k.current
    BY <1>1, RemovedOther, FinalizeKeeps
  <2> HIDE DEF g
  <2>2. Settled(r) /\ DeadStay(g, r) /\ r.current \notin r.sleeping
    BY <2>1, SuspendSelfKeeps
  <2> QED
    BY <2>1, <2>2 DEF DeadStay, g, r
<1>2. CASE t = k.current
  BY <1>2, BlockedInOwnFinalize, SuspendSelfKeeps
<1> QED
  BY <1>1, <1>2

-----------------------------------------------------------------------------
(* Who is blocked: what the functions do to the lists of suspended and     *)
(* sleeping threads, to wake counts and to the words that tell a sleeper    *)
(* why it was woken.                                                       *)

\* A thread that has not been created.
Unborn(k, t) == k.state[t] = "Unknown" /\ t # Main

\* A context switch from k to r blocks the current thread if it is suspending,
\* and wakes sleepers, each of which finds a zero in its slot.
Switched(k, r) ==
  /\ r.wake = k.wake
  /\ r.sleeping \subseteq k.sleeping
  /\ \A t \in Threads :
       /\ t \in r.suspended <=>
            t \in k.suspended \/ (t = k.current /\ k.state[t] = "Suspending")
       /\ t \in r.sleeping => r.intr[t] = k.intr[t] /\ r.writes[t] = k.writes[t]
       /\ t \in r.sleeping \/ t \notin k.sleeping => r.slot[t] = k.slot[t]
       /\ t \in k.sleeping /\ t \notin r.sleeping /\ k.writes[t] /\ k.slot[t] # NoSlot =>
            r.slot[t] = 0
       /\ r.writes[t] => k.writes[t] /\ (t \in k.sleeping => t \in r.sleeping)
       /\ Dead(r, t) <=> Dead(k, t)
       /\ Unborn(k, t) => Unborn(r, t)

LEMMA TickSleepersFields ==
  ASSUME NEW k \in WideType, NEW doTick \in BOOLEAN
  PROVE  LET r == TickSleepers(k, doTick) IN
         /\ r.wake = k.wake /\ r.suspended = k.suspended /\ r.sleeping = k.sleeping
         /\ r.current = k.current /\ r.state = k.state /\ r.intr = k.intr
         /\ r.writes = k.writes /\ r.slot = k.slot /\ r.ready = k.ready
         /\ r.rtc = k.rtc
         /\ r.ticks = IF doTick
                      THEN [t \in Threads |-> IF t \in k.sleeping /\ k.ticks[t] > 0
                                              THEN k.ticks[t] - 1 ELSE k.ticks[t]]
                      ELSE k.ticks
<1> DEFINE ticks == [t \in Threads |->
             IF t \in k.sleeping /\ k.ticks[t] > 0 THEN k.ticks[t] - 1 ELSE k.ticks[t]]
           r == TickSleepers(k, doTick)
<1>1. TickSleepers(k, doTick) = IF doTick THEN [k EXCEPT !.ticks = ticks] ELSE k
  BY DEF TickSleepers
<1>2. r.ticks = IF doTick THEN ticks ELSE k.ticks
  BY <1>1 DEF WideType, r
<1> HIDE DEF ticks, r
<1>3. /\ r.wake = k.wake /\ r.suspended = k.suspended /\ r.sleeping = k.sleeping
      /\ r.current = k.current /\ r.state = k.state /\ r.intr = k.intr
      /\ r.writes = k.writes /\ r.slot = k.slot /\ r.ready = k.ready /\ r.rtc = k.rtc
  BY <1>1 DEF WideType, r
<1> QED
  BY <1>2, <1>3, Zenon DEF ticks, r

LEMMA WakeDueFields ==
  ASSUME NEW k \in WideType, NEW w
  PROVE  LET r == WakeDue(k, w)
             D == Due(k)
         IN
         /\ r.wake = k.wake /\ r.suspended = k.suspended /\ r.sleeping = k.sleeping \ D
         /\ r.current = k.current /\ r.ticks = k.ticks /\ r.rtc = k.rtc
         /\ r.state = [t \in Threads |-> IF t \in D THEN "Ready" ELSE k.state[t]]
         /\ r.intr = [t \in Threads |-> k.intr[t] /\ t \notin D]
         /\ r.writes = [t \in Threads |-> k.writes[t] /\ t \notin D]
         /\ r.slot = [t \in Threads |->
              IF t \in D /\ k.writes[t] /\ k.slot[t] # NoSlot THEN 0 ELSE k.slot[t]]
<1> DEFINE D == Due(k)
           state == [t \in Threads |-> IF t \in D THEN "Ready" ELSE k.state[t]]
           intr == [t \in Threads |-> k.intr[t] /\ t \notin D]
           slot == [t \in Threads |->
             IF t \in D /\ k.writes[t] /\ k.slot[t] # NoSlot THEN 0 ELSE k.slot[t]]
           writes == [t \in Threads |-> k.writes[t] /\ t \notin D]
           sleeping == k.sleeping \ D
           ready == k.ready \o w
           r == WakeDue(k, w)
<1>1. r = [k EXCEPT !.sleeping = sleeping, !.state = state, !.intr = intr,
                    !.slot = slot, !.writes = writes, !.ready = ready]
  BY DEF WakeDue, WideType
<1> HIDE DEF state, intr, slot, writes, sleeping, ready, r
<1>2. /\ r.wake = k.wake /\ r.suspended = k.suspended /\ r.sleeping = sleeping
      /\ r.current = k.current /\ r.ticks = k.ticks /\ r.rtc = k.rtc
      /\ r.state = state /\ r.intr = intr
      /\ r.writes = writes /\ r.slot = slot
  BY <1>1 DEF WideType
<1> QED
  BY <1>2, Zenon DEF state, intr, slot, writes, sleeping, r

LEMMA RequeueFields ==
  ASSUME NEW k \in WideType
  PROVE  LET r == Requeue(k)
             c == k.current
         IN
         /\ r.wake = k.wake /\ r.sleeping = k.sleeping /\ r.current = c
         /\ r.intr = k.intr /\ r.writes = k.writes /\ r.slot = k.slot
         /\ r.ticks = k.ticks /\ r.rtc = k.rtc
         /\ \A t \in Threads :
              /\ t # c => r.state[t] = k.state[t]
              /\ t \in r.suspended <=> t \in k.suspended \/ (t = c /\ k.state[t] = "Suspending")
         /\ c \in Threads => r.state[c] \in {"Sleeping", "Suspended", "Ready"}
<1> DEFINE r == Requeue(k)
           c == k.current
           ready == Append(k.ready, c)
<1>1. CASE c \notin Threads \/ k.state[c] = "Sleeping"
  <2>1. r = k
    BY <1>1 DEF Requeue
  <2> HIDE DEF r
  <2>2. \A t \in Threads : t = c => k.state[t] # "Suspending"
    BY <1>1
  <2> QED
    BY <1>1, <2>1, <2>2 DEF r
<1>2. CASE c \in Threads /\ k.state[c] = "Suspending"
  <2>1. r = [k EXCEPT !.suspended = k.suspended \cup {c}, !.state = [k.state EXCEPT ![c] = "Suspended"]]
    BY <1>2 DEF Requeue, WideType
  <2> QED
    BY <1>2, <2>1 DEF WideType
<1>3. CASE c \in Threads /\ k.state[c] \notin {"Sleeping", "Suspending"}
  <2>1. r = [k EXCEPT !.ready = ready, !.state = [k.state EXCEPT ![c] = "Ready"]]
    BY <1>3 DEF Requeue, WideType
  <2> HIDE DEF ready
  <2> QED
    BY <1>3, <2>1 DEF WideType
<1> QED
  BY <1>1, <1>2, <1>3

LEMMA SwitchToNextFields ==
  ASSUME NEW k \in WideType
  PROVE  LET r == SwitchToNext(k) IN
         /\ r.wake = k.wake /\ r.suspended = k.suspended /\ r.sleeping = k.sleeping
         /\ r.intr = k.intr /\ r.writes = k.writes /\ r.slot = k.slot
      /\ r.ticks = k.ticks /\ r.rtc = k.rtc
         /\ r.ticks = k.ticks /\ r.rtc = k.rtc
         /\ \A t \in Threads : r.state[t] = k.state[t] \/
              (k.ready # <<>> /\ t = Head(k.ready) /\ r.state[t] = "Active")
<1> DEFINE next == IF k.ready = <<>> THEN Idle ELSE Head(k.ready)
           rest == IF k.ready = <<>> THEN <<>> ELSE Tail(k.ready)
           r == SwitchToNext(k)
<1>1. \/ r = [k EXCEPT !.ready = rest, !.current = next]
      \/ /\ r = [k EXCEPT !.ready = rest, !.current = next, !.state = [k.state EXCEPT ![next] = "Active"]]
         /\ next # Idle
  BY DEF SwitchToNext, WideType
<1>2. next # Idle => k.ready # <<>> /\ next = Head(k.ready)
  OBVIOUS
<1> HIDE DEF next, rest, r
<1>3. /\ r.wake = k.wake /\ r.suspended = k.suspended /\ r.sleeping = k.sleeping
      /\ r.intr = k.intr /\ r.writes = k.writes /\ r.slot = k.slot
      /\ r.ticks = k.ticks /\ r.rtc = k.rtc
  BY <1>1 DEF WideType
<1>4. r.state = k.state \/ (next # Idle /\ r.state = [k.state EXCEPT ![next] = "Active"])
  BY <1>1 DEF WideType
<1>5. \A t \in Threads : r.state[t] = k.state[t] \/
        (next # Idle /\ t = next /\ r.state[t] = "Active")
  BY <1>4 DEF WideType
<1> QED
  BY <1>2, <1>3, <1>5 DEF r

LEMMA DispatchSwitches ==
  ASSUME NEW k, Settled(k), NEW doTick \in BOOLEAN,
         k.current \in k.sleeping => doTick = FALSE /\ k.ticks[k.current] > 0,
         NEW r \in Dispatch(k, doTick)
  PROVE  Switched(k, r)
<1> DEFINE a == TickSleepers(k, doTick)
<1>1. /\ Settled(a) /\ a \in WideType /\ k \in WideType
      /\ a.current = k.current /\ a.sleeping = k.sleeping
      /\ doTick = FALSE => a = k
  BY TickSleepersKeeps DEF Settled
<1>2. /\ a.wake = k.wake /\ a.suspended = k.suspended /\ a.state = k.state
      /\ a.intr = k.intr /\ a.writes = k.writes /\ a.slot = k.slot
  BY <1>1, TickSleepersFields
<1>3. PICK w \in SetToSeqs(Due(a)) : r = SwitchToNext(Requeue(WakeDue(a, w)))
  BY Zenon DEF Dispatch
<1>4. a.current \notin Due(a)
  BY <1>1 DEF Due
<1> HIDE DEF a
<1> DEFINE D == Due(a)
           b == WakeDue(a, w)
<1>5. Settled(b) /\ b \in WideType /\ \A t \in b.sleeping : b.ticks[t] > 0
  BY <1>1, <1>3, <1>4, WakeDueKeeps DEF Settled
<1>6. /\ b.wake = a.wake /\ b.suspended = a.suspended /\ b.sleeping = a.sleeping \ D
      /\ b.current = a.current
      /\ b.state = [t \in Threads |-> IF t \in D THEN "Ready" ELSE a.state[t]]
      /\ b.intr = [t \in Threads |-> a.intr[t] /\ t \notin D]
      /\ b.writes = [t \in Threads |-> a.writes[t] /\ t \notin D]
      /\ b.slot = [t \in Threads |->
           IF t \in D /\ a.writes[t] /\ a.slot[t] # NoSlot THEN 0 ELSE a.slot[t]]
  BY <1>1, WakeDueFields
<1> HIDE DEF b
<1> DEFINE c == Requeue(b)
<1>7. Parked(c) /\ c \in WideType
  BY <1>5, RequeueKeeps DEF Parked
<1>8. /\ c.wake = b.wake /\ c.sleeping = b.sleeping
      /\ c.intr = b.intr /\ c.writes = b.writes /\ c.slot = b.slot
      /\ \A t \in Threads :
           /\ t # b.current => c.state[t] = b.state[t]
           /\ t \in c.suspended <=>
                t \in b.suspended \/ (t = b.current /\ b.state[t] = "Suspending")
      /\ b.current \in Threads => c.state[b.current] \in {"Sleeping", "Suspended", "Ready"}
  BY <1>5, RequeueFields
<1> HIDE DEF c
<1>9. /\ r.wake = c.wake /\ r.suspended = c.suspended /\ r.sleeping = c.sleeping
      /\ r.intr = c.intr /\ r.writes = c.writes /\ r.slot = c.slot
      /\ \A t \in Threads : r.state[t] = c.state[t] \/
           (c.ready # <<>> /\ t = Head(c.ready) /\ r.state[t] = "Active")
  <2>1. r = SwitchToNext(c)
    BY <1>3 DEF b, c
  <2> QED
    BY <1>7, <2>1, SwitchToNextFields
<1>10. D \subseteq a.sleeping /\ \A t \in D : a.state[t] = "Sleeping" /\ t # a.current
  BY <1>1, <1>4 DEF Due, Settled, Told, WideType
<1>11. c.ready # <<>> => c.state[Head(c.ready)] = "Ready"
  <2> SUFFICES ASSUME c.ready # <<>>
               PROVE  c.state[Head(c.ready)] = "Ready"
    OBVIOUS
  <2>1. c.ready \in Seq(Threads) /\ IsInjective(c.ready)
    BY <1>7 DEF WideType, Parked, Disjoint
  <2>2. Head(c.ready) \in ToSet(c.ready) /\ Head(c.ready) \in Threads
    BY <2>1, TailAsSet, ToSetOfSeq
  <2> QED
    BY <1>7, <2>2 DEF Parked, Told
<1>12. ASSUME NEW t \in Threads
       PROVE  Dead(r, t) <=> Dead(k, t)
  <2>1. Dead(r, t) <=> c.state[t] = "Finalized"
    BY <1>9, <1>11 DEF Dead
  <2>2. CASE t = k.current
    <3>1. k.state[t] # "Finalized"
      BY <1>1, <2>2 DEF Settled, CurrentLives
    <3> QED
      BY <1>1, <1>6, <1>8, <2>1, <2>2, <3>1 DEF Dead
  <2>3. CASE t # k.current
    BY <1>1, <1>2, <1>6, <1>8, <1>10, <2>1, <2>3 DEF Dead
  <2> QED
    BY <2>2, <2>3
<1>13. ASSUME NEW t \in Threads
       PROVE  t \in r.suspended <=>
                t \in k.suspended \/ (t = k.current /\ k.state[t] = "Suspending")
  BY <1>1, <1>2, <1>4, <1>6, <1>8, <1>9
<1>14. r.wake = k.wake /\ r.sleeping = k.sleeping \ D
  BY <1>1, <1>2, <1>6, <1>8, <1>9
<1>15. r.intr = b.intr /\ r.writes = b.writes /\ r.slot = b.slot
  BY <1>8, <1>9
<1>16. k.intr \in [Threads -> BOOLEAN] /\ k.writes \in [Threads -> BOOLEAN]
  BY <1>1 DEF WideType
<1> HIDE DEF D
<1>17. ASSUME NEW t \in Threads, t \notin D
       PROVE  r.intr[t] = k.intr[t] /\ r.writes[t] = k.writes[t] /\ r.slot[t] = k.slot[t]
  BY <1>2, <1>6, <1>15, <1>16, <1>17
<1>18. ASSUME NEW t \in D, t \in Threads, k.writes[t], k.slot[t] # NoSlot
       PROVE  r.slot[t] = 0
  BY <1>2, <1>6, <1>15, <1>18
<1>19. D \subseteq k.sleeping
  BY <1>1, <1>10
<1>20. ASSUME NEW t \in D, t \in Threads
       PROVE  ~r.writes[t]
  BY <1>6, <1>15, <1>20
<1>21. ASSUME NEW t \in Threads, Unborn(k, t)
       PROVE  Unborn(r, t)
  <2>1. t # k.current /\ k.state[t] = "Unknown" /\ t # Main
    BY <1>1, <1>21 DEF Settled, CurrentLives, Unborn
  <2>2. c.state[t] = "Unknown"
    BY <1>1, <1>2, <1>6, <1>8, <1>10, <2>1
  <2> QED
    BY <1>9, <1>11, <2>1, <2>2 DEF Unborn
<1> QED
  BY <1>12, <1>13, <1>14, <1>17, <1>18, <1>19, <1>20, <1>21 DEF Switched

LEMMA FakeTickSwitches ==
  ASSUME NEW k, Settled(k),
         k.current \in k.sleeping => k.ticks[k.current] > 0,
         NEW r \in FakeTick(k)
  PROVE  Switched(k, r)
<1> DEFINE v == IF k.rtc = "raised" THEN "latched" ELSE k.rtc
           f == [k EXCEPT !.rtc = v]
<1>1. k \in WideType
  BY DEF Settled
<1>2. v \in {"clear", "raised", "latched"}
  BY <1>1 DEF WideType
<1>3. r \in Dispatch(f, FALSE)
  BY DEF FakeTick
<1> HIDE DEF v
<1>4. /\ Settled(f) /\ f.current = k.current /\ f.sleeping = k.sleeping /\ f.ticks = k.ticks
  BY <1>1, <1>2, ClockKeeps
<1>5. /\ f.wake = k.wake /\ f.suspended = k.suspended /\ f.state = k.state
      /\ f.intr = k.intr /\ f.writes = k.writes /\ f.slot = k.slot
  BY <1>1 DEF WideType
<1> HIDE DEF f
<1>6. Switched(f, r)
  BY <1>3, <1>4, DispatchSwitches
<1> QED
  BY <1>4, <1>5, <1>6 DEF Switched, Dead, Unborn

\* The timer interrupt, and a switch from a state in which nobody suspends,
\* only wake sleepers.
LEMMA TickHandlerSwitches ==
  ASSUME NEW k, Sound(k), NEW r \in TickHandler(k)
  PROVE  Switched(k, r)
<1> DEFINE f == [k EXCEPT !.rtc = "clear"]
           doTick == (k.rtc = "raised")
<1>1. Settled(k) /\ k \in WideType /\ k.current \notin k.sleeping
  BY DEF Sound, Settled
<1>2. r \in Dispatch(f, doTick) /\ doTick \in BOOLEAN
  BY Zenon DEF TickHandler
<1>3. Settled(f) /\ f.current = k.current /\ f.sleeping = k.sleeping /\ f.ticks = k.ticks
  BY <1>1, ClockKeeps
<1>4. /\ f.wake = k.wake /\ f.suspended = k.suspended /\ f.state = k.state
      /\ f.intr = k.intr /\ f.writes = k.writes /\ f.slot = k.slot
  BY <1>1 DEF WideType
<1> HIDE DEF f, doTick
<1>5. Switched(f, r)
  BY <1>1, <1>2, <1>3, DispatchSwitches
<1> QED
  BY <1>3, <1>4, <1>5 DEF Switched, Dead, Unborn

-----------------------------------------------------------------------------
(* How sleepers count: only a tick of the clock brings a sleeper nearer to *)
(* its end.                                                                *)

\* A switch with a tick takes one from every sleeper and wakes those whose last
\* tick it was; a switch without one wakes nobody.
LEMMA DispatchCounts ==
  ASSUME NEW k, Settled(k), NEW doTick \in BOOLEAN,
         k.current \in k.sleeping => doTick = FALSE,
         \A t \in k.sleeping : k.ticks[t] > 0,
         NEW r \in Dispatch(k, doTick)
  PROVE  /\ r.rtc = k.rtc
         /\ doTick = FALSE => r.sleeping = k.sleeping /\ r.ticks = k.ticks
         /\ doTick = TRUE =>
              \A t \in k.sleeping : IF k.ticks[t] = 1
                                    THEN t \notin r.sleeping
                                    ELSE t \in r.sleeping /\ r.ticks[t] = k.ticks[t] - 1
<1> DEFINE a == TickSleepers(k, doTick)
           ticked == [t \in Threads |-> IF t \in k.sleeping /\ k.ticks[t] > 0
                                        THEN k.ticks[t] - 1 ELSE k.ticks[t]]
<1>1. Settled(a) /\ a \in WideType /\ k \in WideType
  BY TickSleepersKeeps DEF Settled
<1>2. /\ a.sleeping = k.sleeping /\ a.current = k.current /\ a.rtc = k.rtc
      /\ a.ticks = IF doTick THEN ticked ELSE k.ticks
  BY <1>1, TickSleepersFields
<1>3. PICK w \in SetToSeqs(Due(a)) : r = SwitchToNext(Requeue(WakeDue(a, w)))
  BY Zenon DEF Dispatch
<1>4. \A t \in Threads : ticked[t] = IF t \in k.sleeping /\ k.ticks[t] > 0
                                     THEN k.ticks[t] - 1 ELSE k.ticks[t]
  OBVIOUS
<1>5. k.sleeping \subseteq Threads /\ \A t \in Threads : k.ticks[t] \in Nat
  BY <1>1 DEF WideType
<1>6. doTick = FALSE => a.ticks = k.ticks
  BY <1>2
<1> HIDE DEF a, ticked
<1> DEFINE D == Due(a)
           b == WakeDue(a, w)
           c == Requeue(b)
<1>7. a.current \notin D
  <2>1. CASE k.current \in k.sleeping
    BY <1>2, <1>5, <1>6, <2>1 DEF Due
  <2>2. CASE k.current \notin k.sleeping
    BY <1>2, <2>2 DEF Due
  <2> QED
    BY <2>1, <2>2
<1>8. /\ b.sleeping = k.sleeping \ D /\ b.ticks = a.ticks /\ b.rtc = k.rtc
      /\ Settled(b) /\ b \in WideType /\ \A t \in b.sleeping : b.ticks[t] > 0
  <2>1. b.sleeping = a.sleeping \ D /\ b.ticks = a.ticks /\ b.rtc = a.rtc
    BY <1>1, WakeDueFields
  <2>2. Settled(b) /\ \A t \in b.sleeping : b.ticks[t] > 0
    BY <1>1, <1>3, <1>7, WakeDueKeeps
  <2> QED
    BY <1>2, <2>1, <2>2 DEF Settled
<1> HIDE DEF b
<1>9. /\ c.sleeping = b.sleeping /\ c.ticks = b.ticks /\ c.rtc = b.rtc
      /\ c \in WideType
  BY <1>8, RequeueFields, RequeueKeeps DEF Parked
<1> HIDE DEF c
<1>10. r.sleeping = c.sleeping /\ r.ticks = c.ticks /\ r.rtc = c.rtc
  <2>1. r = SwitchToNext(c)
    BY <1>3 DEF b, c
  <2> QED
    BY <1>9, <2>1, SwitchToNextFields
<1>11. r.sleeping = k.sleeping \ D /\ r.ticks = a.ticks /\ r.rtc = k.rtc
  BY <1>8, <1>9, <1>10
<1>12. doTick = FALSE => D = {}
  BY <1>2, <1>5, <1>6 DEF Due
<1>13. ASSUME doTick = TRUE, NEW t \in k.sleeping
       PROVE  IF k.ticks[t] = 1 THEN t \notin r.sleeping
              ELSE t \in r.sleeping /\ r.ticks[t] = k.ticks[t] - 1
  <2>1. a.ticks[t] = k.ticks[t] - 1 /\ k.ticks[t] \in Nat
    BY <1>2, <1>4, <1>5, <1>13
  <2>2. t \in D <=> a.ticks[t] = 0
    BY <1>2 DEF Due
  <2>3. t \in D <=> k.ticks[t] = 1
    BY <2>1, <2>2
  <2> HIDE DEF D
  <2> QED
    BY <1>11, <2>1, <2>3
<1> QED
  BY <1>6, <1>11, <1>12, <1>13

\* FakeTick wakes nobody, and leaves the clock's flag read.
LEMMA FakeTickCounts ==
  ASSUME NEW k, Settled(k), \A t \in k.sleeping : k.ticks[t] > 0,
         NEW r \in FakeTick(k)
  PROVE  r.sleeping = k.sleeping /\ r.ticks = k.ticks /\ r.rtc # "raised"
<1> DEFINE v == IF k.rtc = "raised" THEN "latched" ELSE k.rtc
           f == [k EXCEPT !.rtc = v]
<1>1. k \in WideType
  BY DEF Settled
<1>2. v \in {"clear", "latched"}
  BY <1>1 DEF WideType
<1>3. r \in Dispatch(f, FALSE)
  BY DEF FakeTick
<1> HIDE DEF v
<1>4. Settled(f) /\ f.sleeping = k.sleeping /\ f.ticks = k.ticks
  BY <1>1, <1>2, ClockKeeps
<1>5. f.rtc = v
  BY <1>1 DEF WideType
<1> HIDE DEF f
<1>6. r.rtc = f.rtc /\ r.sleeping = f.sleeping /\ r.ticks = f.ticks
  BY <1>3, <1>4, DispatchCounts
<1> QED
  BY <1>2, <1>4, <1>5, <1>6

\* The handler of the timer interrupt counts when the clock has fired.
LEMMA TickHandlerCounts ==
  ASSUME NEW k, Sound(k), NEW r \in TickHandler(k)
  PROVE  /\ r.rtc # "raised"
         /\ k.rtc # "raised" => r.sleeping = k.sleeping /\ r.ticks = k.ticks
         /\ k.rtc = "raised" =>
              \A t \in k.sleeping : IF k.ticks[t] = 1
                                    THEN t \notin r.sleeping
                                    ELSE t \in r.sleeping /\ r.ticks[t] = k.ticks[t] - 1
<1> DEFINE f == [k EXCEPT !.rtc = "clear"]
           doTick == (k.rtc = "raised")
<1>1. /\ Settled(k) /\ k \in WideType /\ k.current \notin k.sleeping
      /\ \A t \in k.sleeping : k.ticks[t] > 0
  BY DEF Sound, Settled
<1>2. r \in Dispatch(f, doTick) /\ doTick \in BOOLEAN
  BY Zenon DEF TickHandler
<1>3. Settled(f) /\ f.current = k.current /\ f.sleeping = k.sleeping /\ f.ticks = k.ticks
  BY <1>1, ClockKeeps
<1>4. f.rtc = "clear"
  BY <1>1 DEF WideType
<1>5. (doTick = TRUE <=> k.rtc = "raised") /\ (doTick = FALSE <=> k.rtc # "raised")
  OBVIOUS
<1> HIDE DEF f, doTick
<1>6. /\ r.rtc = f.rtc
      /\ doTick = FALSE => r.sleeping = f.sleeping /\ r.ticks = f.ticks
      /\ doTick = TRUE =>
           \A t \in f.sleeping : IF f.ticks[t] = 1
                                 THEN t \notin r.sleeping
                                 ELSE t \in r.sleeping /\ r.ticks[t] = f.ticks[t] - 1
  <2>1. f.current \in f.sleeping => doTick = FALSE
    BY <1>1, <1>3
  <2>2. \A t \in f.sleeping : f.ticks[t] > 0
    BY <1>1, <1>3
  <2> QED
    BY <1>2, <1>3, <2>1, <2>2, DispatchCounts, Zenon
<1> QED
  BY <1>3, <1>4, <1>5, <1>6

-----------------------------------------------------------------------------
(* What each function does to one thread, and that it spares the others.   *)

\* What a step does to the threads other than c: it wakes sleepers, and nothing else.
Spared(k, r, c) == \A t \in Threads \ {c} :
  /\ r.wake[t] = k.wake[t]
  /\ t \in r.suspended <=> t \in k.suspended
  /\ t \in r.sleeping =>
       t \in k.sleeping /\ r.intr[t] = k.intr[t] /\ r.writes[t] = k.writes[t]
  /\ t \in r.sleeping \/ t \notin k.sleeping => r.slot[t] = k.slot[t]
  /\ t \in k.sleeping /\ t \notin r.sleeping /\ k.writes[t] /\ k.slot[t] # NoSlot =>
       r.slot[t] = 0
  /\ r.writes[t] => k.writes[t] /\ (t \in k.sleeping => t \in r.sleeping)
  /\ Dead(r, t) <=> Dead(k, t)
  /\ Unborn(k, t) => Unborn(r, t)

LEMMA SwitchSpares ==
  ASSUME NEW k, Sound(k), NEW r \in FakeTick(k) \cup TickHandler(k)
  PROVE  Sound(r) /\ Spared(k, r, NoThread)
<1>1. Settled(k) /\ k.current \notin k.sleeping /\ \A t \in Threads : k.state[t] # "Suspending"
  BY DEF Sound
<1>2. Switched(k, r)
  BY <1>1, FakeTickSwitches, TickHandlerSwitches
<1>3. Sound(r)
  BY <1>1, FakeTickKeeps, TickHandlerKeeps
<1> QED
  BY <1>1, <1>2, <1>3 DEF Switched, Spared

\* Suspend on the calling thread, when it blocks: its WakeCount was at most one
\* and is spent.
LEMMA SuspendSelfBlocks ==
  ASSUME NEW k, Sound(k), k.current \in Threads, ~StaysAwake(k, k.current),
         NEW r \in FakeTick(SuspendSelf(k))
  PROVE  LET c == k.current IN
         /\ Sound(r) /\ Spared(k, r, c)
         /\ c \in r.suspended /\ r.wake[c] = 0
         /\ r.sleeping = k.sleeping /\ r.ticks = k.ticks
         /\ r.writes[c] => k.writes[c]
<1> DEFINE c == k.current
           s == SuspendSelf(k)
           wake == [k.wake EXCEPT ![c] = IF k.wake[c] > 0 THEN k.wake[c] - 1 ELSE k.wake[c]]
<1>1. Settled(s) /\ s.current \notin s.sleeping
  BY SuspendSelfKeeps
<1>2. k \in SchedType /\ c \notin k.sleeping
  BY DEF Sound
<1>3. UseWake(k, c) = [k EXCEPT !.wake = wake]
  BY <1>2 DEF UseWake, SchedType
<1>4. s = [k EXCEPT !.wake = wake, !.state = [k.state EXCEPT ![c] = "Suspending"]]
  BY <1>2, <1>3 DEF SuspendSelf, SchedType
<1>5. wake[c] = 0
  BY <1>2, <1>3 DEF StaysAwake, SchedType
<1> HIDE DEF wake
<1>6. /\ s.wake = wake /\ s.suspended = k.suspended /\ s.sleeping = k.sleeping
      /\ s.current = c /\ s.intr = k.intr /\ s.writes = k.writes /\ s.slot = k.slot
      /\ s.state = [k.state EXCEPT ![c] = "Suspending"] /\ s.ticks = k.ticks
  BY <1>2, <1>4 DEF SchedType
<1>7. /\ s.state[c] = "Suspending"
      /\ \A t \in Threads \ {c} : s.state[t] = k.state[t] /\ s.wake[t] = k.wake[t]
  BY <1>2, <1>6 DEF SchedType, wake
<1> HIDE DEF s
<1>8. Sound(r) /\ Switched(s, r)
  BY <1>1, FakeTickKeeps, FakeTickSwitches DEF s
<1>9. \A t \in Threads \ {c} : (Dead(s, t) <=> Dead(k, t)) /\ (Unborn(k, t) => Unborn(s, t))
  BY <1>7 DEF Dead, Unborn
<1>10. Spared(k, r, c)
  BY <1>6, <1>7, <1>8, <1>9 DEF Switched, Spared
<1>11. c \in r.suspended /\ r.wake[c] = 0 /\ (r.writes[c] => k.writes[c])
  BY <1>5, <1>6, <1>7, <1>8 DEF Switched
<1>12. r.sleeping = k.sleeping /\ r.ticks = k.ticks
  <2>1. \A t \in s.sleeping : s.ticks[t] > 0
    BY <1>6 DEF Sound
  <2> QED
    BY <1>1, <1>6, <2>1, FakeTickCounts DEF s
<1> QED
  BY <1>8, <1>10, <1>11, <1>12

\* TicksSleep on the calling thread, when it blocks
LEMMA SleepSelfBlocks ==
  ASSUME NEW k, Sound(k), k.current \in Threads, ~StaysAwake(k, k.current),
         NEW n \in Nat, n > 0, NEW i \in BOOLEAN,
         NEW r \in FakeTick(TicksSleep(k, k.current, n, i))
  PROVE  LET c == k.current IN
         /\ Sound(r) /\ Spared(k, r, c)
         /\ c \notin r.suspended /\ r.wake[c] = 0
         /\ c \in r.sleeping => r.intr[c] = i /\ r.writes[c] /\ r.slot[c] \notin {NoSlot, 0}
         /\ c \notin r.sleeping => r.slot[c] = 0
         /\ ~Dead(r, c)
         /\ r.sleeping = k.sleeping \cup {c} /\ r.ticks = [k.ticks EXCEPT ![c] = n]
<1> DEFINE c == k.current
           s == TicksSleep(k, c, n, i)
           wake == [k.wake EXCEPT ![c] = IF k.wake[c] > 0 THEN k.wake[c] - 1 ELSE k.wake[c]]
           state == [k.state EXCEPT ![c] = "Sleeping"]
           ready == Without(k.ready, c)
           suspended == k.suspended \ {c}
           sleeping == k.sleeping \cup {c}
           ticks == [k.ticks EXCEPT ![c] = n]
           intr == [k.intr EXCEPT ![c] = i]
           writes == [k.writes EXCEPT ![c] = TRUE]
           slot == [k.slot EXCEPT ![c] = Placeholder]
<1>1. Settled(s) /\ s.ticks[s.current] > 0
  BY SleepSelfKeeps
<1>2. k \in SchedType /\ c \notin k.suspended /\ c \notin k.sleeping
  BY DEF Sound, Settled
<1>3. UseWake(k, c) = [k EXCEPT !.wake = wake]
  BY <1>2 DEF UseWake, SchedType
<1>4. s = [k EXCEPT !.wake = wake, !.ready = ready, !.suspended = suspended,
                    !.sleeping = sleeping, !.state = state, !.ticks = ticks,
                    !.intr = intr, !.writes = writes, !.slot = slot]
  BY <1>2, <1>3 DEF TicksSleep, SchedType
<1>5. wake[c] = 0
  BY <1>2, <1>3 DEF StaysAwake, SchedType
<1>6. \A t \in Threads \ {c} :
        /\ wake[t] = k.wake[t] /\ state[t] = k.state[t] /\ intr[t] = k.intr[t]
        /\ writes[t] = k.writes[t] /\ slot[t] = k.slot[t]
  BY <1>2 DEF SchedType
<1>7. state[c] = "Sleeping" /\ intr[c] = i /\ writes[c] = TRUE /\ slot[c] = Placeholder
  BY <1>2 DEF SchedType
<1> HIDE DEF wake, state, ready, suspended, ticks, intr, writes, slot, s, sleeping
<1>8. /\ s.wake = wake /\ s.suspended = suspended /\ s.sleeping = sleeping
      /\ s.current = c /\ s.intr = intr /\ s.writes = writes /\ s.slot = slot
      /\ s.state = state /\ s.ticks = ticks
  BY <1>2, <1>4 DEF SchedType
<1>9. suspended = k.suspended /\ sleeping = k.sleeping \cup {c}
  BY <1>2 DEF suspended, sleeping
<1>10. Sound(r) /\ Switched(s, r)
  BY <1>1, FakeTickKeeps, FakeTickSwitches DEF s
<1>11. \A t \in Threads : s.state[t] # "Suspending"
  BY <1>6, <1>7, <1>8 DEF Sound
<1>12. \A t \in Threads \ {c} : (Dead(s, t) <=> Dead(k, t)) /\ (Unborn(k, t) => Unborn(s, t))
  BY <1>6, <1>8 DEF Dead, Unborn
<1>13. Spared(k, r, c)
  BY <1>6, <1>8, <1>9, <1>10, <1>11, <1>12 DEF Switched, Spared
<1>14. c \notin r.suspended /\ r.wake[c] = 0 /\ ~Dead(r, c)
  BY <1>2, <1>5, <1>7, <1>8, <1>9, <1>10, <1>11 DEF Switched, Dead, Unborn
<1>15. Placeholder \notin {NoSlot, 0}
  BY DEF Placeholder, NoSlot
<1>16. c \in r.sleeping => r.intr[c] = i /\ r.writes[c] /\ r.slot[c] \notin {NoSlot, 0}
  BY <1>7, <1>8, <1>10, <1>15 DEF Switched
<1>17. c \notin r.sleeping => r.slot[c] = 0
  BY <1>7, <1>8, <1>9, <1>10, <1>15 DEF Switched
<1>18. r.sleeping = sleeping /\ r.ticks = ticks
  <2>1. k.sleeping \subseteq Threads /\ k.ticks \in [Threads -> Nat]
    BY <1>2 DEF SchedType
  <2>2. \A t \in k.sleeping : k.ticks[t] > 0
    BY DEF Sound
  <2>3. \A t \in sleeping : ticks[t] > 0
    BY <2>1, <2>2 DEF sleeping, ticks
  <2> QED
    BY <1>1, <1>8, <2>3, FakeTickCounts DEF s
<1>19. ticks = [k.ticks EXCEPT ![c] = n]
  BY DEF ticks
<1> QED
  BY <1>9, <1>10, <1>13, <1>14, <1>16, <1>17, <1>18, <1>19

\* Resume wakes the one thread it is given, if it is suspended or in an
\* interruptible sleep, and counts it in any case.  A sleeper finds the time it
\* had left in its slot.
LEMMA ResumeWakes ==
  ASSUME NEW k, Sound(k), NEW t \in Threads, NEW prepend \in BOOLEAN,
         t \in k.sleeping => k.intr[t]
  PROVE  LET r == Resume(k, t, prepend) IN
         /\ Sound(r) /\ Spared(k, r, t)
         /\ r.suspended = k.suspended \ {t} /\ r.sleeping = k.sleeping \ {t}
         /\ r.current = k.current
         /\ r.wake[t] = k.wake[t] + 1
         /\ Dead(r, t) <=> Dead(k, t)
         /\ t \notin k.sleeping => r.slot[t] = k.slot[t]
         /\ t \in k.sleeping /\ k.writes[t] /\ k.slot[t] # NoSlot => r.slot[t] # 0
<1> DEFINE wake == [k.wake EXCEPT ![t] = k.wake[t] + 1]
           counted == [k EXCEPT !.wake = wake]
           slot == [k.slot EXCEPT ![t] =
                      IF k.writes[t] /\ k.slot[t] # NoSlot THEN k.ticks[t] ELSE k.slot[t]]
           intr == [k.intr EXCEPT ![t] = FALSE]
           writes == [k.writes EXCEPT ![t] = FALSE]
           ticks == [k.ticks EXCEPT ![t] = 0]
           state == [k.state EXCEPT ![t] = "Ready"]
           ready == Enqueue(k.ready, t, prepend)
           suspended == k.suspended \ {t}
           sleeping == k.sleeping \ {t}
           r == Resume(k, t, prepend)
<1>1. /\ k \in SchedType /\ Told(k, {k.current})
      /\ \A u \in k.sleeping : k.ticks[u] > 0
  BY DEF Sound, Settled
<1>2. counted = [k EXCEPT !.wake[t] = @ + 1]
  BY <1>1 DEF SchedType
<1>3. wake[t] = k.wake[t] + 1 /\ \A u \in Threads \ {t} : wake[u] = k.wake[u]
  BY <1>1 DEF SchedType
<1>4. \A u \in Threads \ {t} : /\ slot[u] = k.slot[u] /\ intr[u] = k.intr[u]
                               /\ writes[u] = k.writes[u] /\ state[u] = k.state[u]
  BY <1>1 DEF SchedType
<1>5. state[t] = "Ready" /\ (k.writes[t] /\ k.slot[t] # NoSlot => slot[t] = k.ticks[t])
  BY <1>1 DEF SchedType
<1>6. Sound(r)
  BY ResumeKeeps
<1>7. CASE ~Resumable(k, t)
  <2>1. r = counted
    BY <1>2, <1>7 DEF Resume
  <2>2. t \notin k.suspended \cup k.sleeping
    BY <1>7 DEF Resumable
  <2> HIDE DEF wake, r
  <2>3. /\ r.suspended = k.suspended /\ r.sleeping = k.sleeping /\ r.current = k.current
        /\ r.state = k.state /\ r.wake = wake /\ r.slot = k.slot /\ r.intr = k.intr
        /\ r.writes = k.writes
    BY <1>1, <2>1 DEF SchedType
  <2>4. Spared(k, r, t)
    BY <1>3, <2>3 DEF Spared, Dead, Unborn
  <2> QED
    BY <1>3, <1>6, <2>2, <2>3, <2>4 DEF Dead, r
<1>8. CASE Resumable(k, t) /\ k.state[t] = "Sleeping"
  <2>1. t \in k.sleeping /\ k.ticks[t] > 0
    BY <1>1, <1>8 DEF Told
  <2>2. r = [k EXCEPT !.wake = wake, !.slot = slot, !.intr = intr,
                      !.writes = writes, !.ticks = ticks,
                      !.suspended = suspended, !.sleeping = sleeping,
                      !.state = state, !.ready = ready]
    BY <1>1, <1>2, <1>8 DEF Resume, SchedType
  <2> HIDE DEF wake, slot, intr, writes, ticks, state, ready, r, counted
  <2>3. /\ r.suspended = suspended /\ r.sleeping = sleeping /\ r.current = k.current
        /\ r.state = state /\ r.wake = wake /\ r.slot = slot /\ r.intr = intr
        /\ r.writes = writes
    BY <1>1, <2>2 DEF SchedType
  <2>4. Spared(k, r, t)
    BY <1>3, <1>4, <2>3 DEF Spared, Dead, Unborn
  <2>5. ~Dead(r, t) /\ ~Dead(k, t)
    BY <1>5, <1>8, <2>3 DEF Dead
  <2>6. k.writes[t] /\ k.slot[t] # NoSlot => r.slot[t] # 0
    BY <1>5, <2>1, <2>3
  <2> QED
    BY <1>3, <1>6, <2>1, <2>3, <2>4, <2>5, <2>6 DEF r
<1>9. CASE Resumable(k, t) /\ k.state[t] # "Sleeping"
  <2>1. t \notin k.sleeping /\ k.state[t] = "Suspended"
    BY <1>1, <1>9 DEF Told, Resumable
  <2>2. r = [k EXCEPT !.wake = wake, !.suspended = suspended, !.sleeping = sleeping,
                      !.state = state, !.ready = ready]
    BY <1>1, <1>2, <1>9 DEF Resume, SchedType
  <2> HIDE DEF wake, slot, intr, writes, ticks, state, ready, r, counted
  <2>3. /\ r.suspended = suspended /\ r.sleeping = sleeping /\ r.current = k.current
        /\ r.state = state /\ r.wake = wake /\ r.slot = k.slot /\ r.intr = k.intr
        /\ r.writes = k.writes
    BY <1>1, <2>2 DEF SchedType
  <2>4. Spared(k, r, t)
    BY <1>3, <1>4, <2>3 DEF Spared, Dead, Unborn
  <2>5. ~Dead(r, t) /\ ~Dead(k, t)
    BY <1>5, <2>1, <2>3 DEF Dead
  <2> QED
    BY <1>3, <1>6, <2>1, <2>3, <2>4, <2>5 DEF r
<1> QED
  BY <1>7, <1>8, <1>9

\* QuickResume wakes that thread too, and the switch that follows spares it.
LEMMA QuickResumeWakes ==
  ASSUME NEW k, Sound(k), NEW t \in Threads, t \in k.sleeping => k.intr[t],
         NEW r \in QuickResume(k, t)
  PROVE  /\ Sound(r) /\ Spared(k, r, t)
         /\ t \notin r.suspended \cup r.sleeping
         /\ r.wake[t] = k.wake[t] + 1
         /\ Dead(r, t) <=> Dead(k, t)
         /\ t \notin k.sleeping => r.slot[t] = k.slot[t]
         /\ t \in k.sleeping /\ k.writes[t] /\ k.slot[t] # NoSlot => r.slot[t] # 0
<1> DEFINE woken == Resume(k, t, TRUE)
<1>1. TRUE \in BOOLEAN
  OBVIOUS
<1>2. /\ Sound(woken) /\ Spared(k, woken, t)
      /\ woken.suspended = k.suspended \ {t} /\ woken.sleeping = k.sleeping \ {t}
      /\ woken.wake[t] = k.wake[t] + 1
      /\ Dead(woken, t) <=> Dead(k, t)
      /\ t \notin k.sleeping => woken.slot[t] = k.slot[t]
      /\ t \in k.sleeping /\ k.writes[t] /\ k.slot[t] # NoSlot => woken.slot[t] # 0
  BY <1>1, ResumeWakes
<1>3. r = woken \/ r \in Dispatch(woken, TRUE)
  BY Zenon DEF QuickResume
<1> HIDE DEF woken
<1>4. CASE r = woken
  BY <1>2, <1>4
<1>5. CASE r \in Dispatch(woken, TRUE)
  <2>1. /\ Settled(woken) /\ woken.current \notin woken.sleeping
        /\ \A u \in Threads : woken.state[u] # "Suspending"
    BY <1>2 DEF Sound
  <2>2. Sound(r) /\ Switched(woken, r)
    BY <1>1, <1>5, <2>1, DispatchKeeps, DispatchSwitches
  <2>3. Spared(k, r, t)
    BY <1>2, <2>1, <2>2 DEF Spared, Switched
  <2>4. /\ t \notin r.suspended \cup r.sleeping /\ r.wake[t] = woken.wake[t]
        /\ r.slot[t] = woken.slot[t]
        /\ Dead(r, t) <=> Dead(woken, t)
    BY <1>2, <2>1, <2>2 DEF Switched
  <2> QED
    BY <1>2, <2>2, <2>3, <2>4
<1> QED
  BY <1>3, <1>4, <1>5

\* Finalize takes the thread off every list for good.
LEMMA FinalizeSpares ==
  ASSUME NEW k, Sound(k), NEW t \in Threads, NEW r \in Finalize(k, t)
  PROVE  /\ Sound(r) /\ Spared(k, r, t)
         /\ t \notin r.suspended \cup r.sleeping
         /\ r.wake[t] = k.wake[t] /\ Dead(r, t)
         /\ r.sleeping = k.sleeping \ {t} /\ r.ticks = k.ticks
<1> DEFINE state == [k.state EXCEPT ![t] = "Finalized"]
           ready == Without(k.ready, t)
           suspended == k.suspended \ {t}
           sleeping == k.sleeping \ {t}
           g == Removed(k, t)
           left == [g EXCEPT !.current = NoThread]
<1>1. /\ k \in SchedType /\ k \in WideType /\ Settled(k)
      /\ \A u \in Threads : k.state[u] # "Suspending"
      /\ k.current \notin ToSet(k.ready) \cup k.suspended \cup k.sleeping
  BY DEF Sound, Settled
<1>2. g = [k EXCEPT !.state = state, !.ready = ready, !.suspended = suspended,
                    !.sleeping = sleeping]
  BY <1>1 DEF Removed, SchedType
<1>3. state[t] = "Finalized" /\ \A u \in Threads \ {t} : state[u] = k.state[u]
  BY <1>1 DEF SchedType
<1> HIDE DEF state, ready, suspended, sleeping, g
<1>4. /\ g.suspended = suspended /\ g.sleeping = sleeping /\ g.state = state
      /\ g.wake = k.wake /\ g.intr = k.intr /\ g.writes = k.writes /\ g.slot = k.slot
      /\ g.current = k.current /\ g.ticks = k.ticks
  BY <1>1, <1>2 DEF SchedType
<1>5. Sound(r)
  BY FinalizeKeeps
<1>6. suspended = k.suspended \ {t} /\ sleeping = k.sleeping \ {t}
  BY DEF suspended, sleeping
<1>7. CASE t # k.current
  <2>1. r = g
    BY <1>7 DEF Finalize, g
  <2>2. Spared(k, r, t)
    BY <1>3, <1>4, <1>6, <2>1 DEF Spared, Dead, Unborn
  <2> QED
    BY <1>3, <1>4, <1>5, <1>6, <2>1, <2>2 DEF Dead
<1>8. CASE t = k.current
  <2>1. r \in FakeTick(left)
    BY <1>8 DEF Finalize, g
  <2>2. left = [k EXCEPT !.state = state, !.ready = ready, !.suspended = suspended,
                         !.sleeping = sleeping, !.current = NoThread]
    BY <1>1, <1>2 DEF SchedType
  <2> HIDE DEF left
  <2>3. /\ left.suspended = suspended /\ left.sleeping = sleeping /\ left.state = state
        /\ left.wake = k.wake /\ left.intr = k.intr /\ left.writes = k.writes
        /\ left.slot = k.slot /\ left.current = NoThread /\ left.ready = ready
        /\ left.ticks = k.ticks
    BY <1>1, <2>2 DEF SchedType
  <2>4. Settled(left) /\ left.current \notin left.sleeping
    <3>1. ready = k.ready /\ suspended = k.suspended /\ sleeping = k.sleeping
      BY <1>1, <1>8 DEF Without, ready, suspended, sleeping
    <3>2. state \in [Threads -> States]
      BY <1>1 DEF SchedType, States, state
    <3>3. left \in WideType
      BY <1>1, <2>2, <3>1, <3>2 DEF WideType
    <3>4. Disjoint(left) /\ CurrentLives(left)
      BY <1>1, <2>3, <3>1, ThreadAssumption DEF Disjoint, Settled, CurrentLives
    <3>5. Told(left, {left.current})
      BY <1>1, <1>3, <1>8, <2>3, <3>1 DEF Told, Settled
    <3>6. left.current \notin ToSet(left.ready) \cup left.suspended \cup left.sleeping
      BY <1>1, <2>3, <3>1, ToSetOfSeq, ThreadAssumption DEF WideType
    <3> QED
      BY <3>3, <3>4, <3>5, <3>6 DEF Settled
  <2>5. Switched(left, r)
    BY <2>1, <2>4, FakeTickSwitches
  <2>6. \A u \in Threads : /\ left.state[u] # "Suspending"
                           /\ u # t => (Dead(left, u) <=> Dead(k, u)) /\ (Unborn(k, u) => Unborn(left, u))
    BY <1>1, <1>3, <2>3 DEF Dead, Unborn
  <2>7. Spared(k, r, t)
    BY <1>6, <2>3, <2>5, <2>6 DEF Switched, Spared
  <2>8. t \notin r.suspended \cup r.sleeping /\ r.wake[t] = k.wake[t] /\ Dead(r, t)
    BY <1>3, <1>6, <2>3, <2>5, <2>6 DEF Switched, Dead
  <2>9. r.sleeping = k.sleeping \ {t} /\ r.ticks = k.ticks
    <3>1. \A u \in left.sleeping : left.ticks[u] > 0
      BY <1>6, <2>3 DEF Sound
    <3> QED
      BY <1>6, <2>1, <2>3, <2>4, <3>1, FakeTickCounts
  <2> QED
    BY <1>5, <2>7, <2>8, <2>9
<1> QED
  BY <1>7, <1>8

\* Changes of a wake count, a slot or the clock block and wake nobody.
LEMMA UseWakeSpares ==
  ASSUME NEW k, Sound(k), NEW t \in Threads
  PROVE  LET r == UseWake(k, t) IN
         /\ Sound(r) /\ Spared(k, r, t)
         /\ r.suspended = k.suspended /\ r.sleeping = k.sleeping
         /\ r.wake[t] = IF k.wake[t] > 0 THEN k.wake[t] - 1 ELSE 0
         /\ r.slot = k.slot /\ r.intr = k.intr /\ r.writes = k.writes /\ r.state = k.state
         /\ r.ticks = k.ticks /\ r.current = k.current
<1> DEFINE wake == [k.wake EXCEPT ![t] = IF k.wake[t] > 0 THEN k.wake[t] - 1 ELSE k.wake[t]]
           r == UseWake(k, t)
<1>1. k \in SchedType
  BY DEF Sound
<1>2. r = [k EXCEPT !.wake = wake]
  BY <1>1 DEF UseWake, SchedType
<1>3. /\ wake[t] = IF k.wake[t] > 0 THEN k.wake[t] - 1 ELSE 0
      /\ \A u \in Threads \ {t} : wake[u] = k.wake[u]
  BY <1>1 DEF SchedType
<1>4. Sound(r)
  BY UseWakeKeeps
<1> HIDE DEF wake, r
<1>5. /\ r.suspended = k.suspended /\ r.sleeping = k.sleeping /\ r.state = k.state
      /\ r.wake = wake /\ r.intr = k.intr /\ r.writes = k.writes /\ r.slot = k.slot
      /\ r.ticks = k.ticks /\ r.current = k.current
  BY <1>1, <1>2 DEF SchedType
<1>6. Spared(k, r, t)
  BY <1>3, <1>5 DEF Spared, Dead, Unborn
<1> QED
  BY <1>3, <1>4, <1>5, <1>6 DEF r

LEMMA PopSlotSpares ==
  ASSUME NEW k, Sound(k), NEW t \in Threads
  PROVE  LET r == PopSlot(k, t) IN
         /\ Sound(r) /\ Spared(k, r, t)
         /\ r.suspended = k.suspended /\ r.sleeping = k.sleeping
         /\ r.wake = k.wake /\ r.state = k.state
         /\ r.writes = k.writes /\ r.ticks = k.ticks
<1> DEFINE slot == [k.slot EXCEPT ![t] = NoSlot]
           r == PopSlot(k, t)
<1>1. k \in SchedType
  BY DEF Sound
<1>2. r = [k EXCEPT !.slot = slot]
  BY <1>1 DEF PopSlot, SchedType
<1>3. \A u \in Threads \ {t} : slot[u] = k.slot[u]
  BY <1>1 DEF SchedType
<1>4. Sound(r)
  BY PopSlotKeeps
<1> HIDE DEF slot, r
<1>5. /\ r.suspended = k.suspended /\ r.sleeping = k.sleeping /\ r.state = k.state
      /\ r.wake = k.wake /\ r.intr = k.intr /\ r.writes = k.writes /\ r.slot = slot
      /\ r.ticks = k.ticks
  BY <1>1, <1>2 DEF SchedType
<1>6. Spared(k, r, t)
  BY <1>3, <1>5 DEF Spared, Dead, Unborn
<1> QED
  BY <1>4, <1>5, <1>6 DEF r

LEMMA RaiseSpares ==
  ASSUME NEW k, Sound(k)
  PROVE  /\ Sound(Raise(k)) /\ Spared(k, Raise(k), NoThread)
         /\ Raise(k).sleeping = k.sleeping /\ Raise(k).ticks = k.ticks
<1>1. k \in SchedType
  BY DEF Sound
<1>2. Raise(k) = [k EXCEPT !.rtc = "raised"]
  BY DEF Raise
<1>3. Sound(Raise(k))
  BY <1>2, ClockKeeps
<1> DEFINE r == Raise(k)
<1>4. /\ r.suspended = k.suspended /\ r.sleeping = k.sleeping /\ r.state = k.state
      /\ r.wake = k.wake /\ r.intr = k.intr /\ r.writes = k.writes /\ r.slot = k.slot
      /\ r.ticks = k.ticks
  BY <1>1, <1>2 DEF SchedType
<1> HIDE DEF r
<1>5. Spared(k, r, NoThread)
  BY <1>4 DEF Spared, Dead, Unborn
<1> QED
  BY <1>3, <1>4, <1>5 DEF r

\* The timer interrupt, or a device's, switches from a sound state.
LEMMA DispatchSpares ==
  ASSUME NEW k, Sound(k), NEW doTick \in BOOLEAN, NEW r \in Dispatch(k, doTick)
  PROVE  Sound(r) /\ Spared(k, r, NoThread)
<1>1. Settled(k) /\ k.current \notin k.sleeping /\ \A t \in Threads : k.state[t] # "Suspending"
  BY DEF Sound
<1>2. Switched(k, r) /\ Sound(r)
  BY <1>1, DispatchSwitches, DispatchKeeps
<1> QED
  BY <1>1, <1>2 DEF Switched, Spared

\* A thread that is created is suspended at first.
LEMMA EnableSpares ==
  ASSUME NEW k, Sound(k), NEW t \in Threads, t # Main, k.state[t] = "Unknown"
  PROVE  LET r == Enable(k, t) IN
         /\ Sound(r) /\ Spared(k, r, t)
         /\ r.suspended = k.suspended \cup {t} /\ r.sleeping = k.sleeping
         /\ r.current = k.current /\ r.writes = k.writes /\ r.ticks = k.ticks
         /\ t \notin k.sleeping /\ t # k.current
<1> DEFINE state == [k.state EXCEPT ![t] = "Suspended"]
           suspended == k.suspended \cup {t}
           r == Enable(k, t)
<1>1. k \in SchedType /\ Told(k, {k.current}) /\ CurrentLives(k)
  BY DEF Sound, Settled
<1>2. r = [k EXCEPT !.suspended = suspended, !.state = state]
  BY <1>1 DEF Enable, SchedType
<1>3. \A u \in Threads \ {t} : state[u] = k.state[u]
  BY <1>1 DEF SchedType
<1>4. Sound(r)
  BY EnableKeeps
<1> HIDE DEF state, suspended, r
<1>5. /\ r.suspended = suspended /\ r.sleeping = k.sleeping /\ r.state = state
      /\ r.wake = k.wake /\ r.intr = k.intr /\ r.writes = k.writes /\ r.slot = k.slot
      /\ r.ticks = k.ticks /\ r.current = k.current
  BY <1>1, <1>2 DEF SchedType
<1>6. t \notin k.sleeping /\ t # k.current
  BY <1>1 DEF Told, CurrentLives
<1>7. suspended = k.suspended \cup {t}
  BY DEF suspended
<1>8. Spared(k, r, t)
  BY <1>3, <1>5, <1>7 DEF Spared, Dead, Unborn
<1> QED
  BY <1>4, <1>5, <1>6, <1>7, <1>8 DEF r

\* Suspend on another thread spends its WakeCount, and blocks it unless some
\* are left.
LEMMA SuspendOtherSpares ==
  ASSUME NEW k, Sound(k), NEW t \in Threads, t # k.current
  PROVE  LET r == SuspendOther(k, t) IN
         /\ Sound(r) /\ Spared(k, r, t)
         /\ r.sleeping \subseteq k.sleeping /\ k.sleeping \subseteq r.sleeping \cup {t}
         /\ r.slot = k.slot /\ r.ticks = k.ticks /\ r.current = k.current
         /\ k.suspended \subseteq r.suspended
         /\ t \in k.sleeping => t \in r.sleeping \cup r.suspended
         /\ \/ t \in r.suspended
            \/ t \notin ToSet(k.ready) \cup k.sleeping /\ r.state = k.state
            \/ r.wake[t] > 0
<1> DEFINE u == UseWake(k, t)
           r == SuspendOther(k, t)
<1>1. Sound(r)
  BY SuspendOtherKeeps
<1>2. /\ Sound(u) /\ Spared(k, u, t) /\ k \in SchedType
      /\ u.suspended = k.suspended /\ u.sleeping = k.sleeping /\ u.ticks = k.ticks
      /\ u.slot = k.slot /\ u.intr = k.intr /\ u.writes = k.writes /\ u.state = k.state
      /\ u.current = k.current
  BY UseWakeSpares DEF Sound
<1>3. CASE StaysAwake(k, t) \/ t \notin ToSet(k.ready) \cup k.sleeping
  <2>1. r = u
    BY <1>3 DEF SuspendOther
  <2>2. StaysAwake(k, t) => u.wake[t] > 0
    BY DEF StaysAwake
  <2> HIDE DEF u, r
  <2> QED
    BY <1>1, <1>2, <1>3, <2>1, <2>2 DEF r
<1>4. CASE ~StaysAwake(k, t) /\ t \in ToSet(k.ready) \cup k.sleeping
  <2> DEFINE state == [k.state EXCEPT ![t] = "Suspended"]
             ready == Without(k.ready, t)
             suspended == k.suspended \cup {t}
             sleeping == k.sleeping \ {t}
  <2>1. PICK wake \in [Threads -> Nat] : u = [k EXCEPT !.wake = wake]
    BY UseWakeKeeps
  <2>2. r = [k EXCEPT !.wake = wake, !.ready = ready, !.sleeping = sleeping,
                      !.suspended = suspended, !.state = state]
    BY <1>2, <1>4, <2>1 DEF SuspendOther, SchedType
  <2>3. \A v \in Threads \ {t} : state[v] = k.state[v]
    BY <1>2 DEF SchedType
  <2>4. u.wake = wake
    BY <1>2, <2>1 DEF SchedType
  <2> HIDE DEF state, ready, u, r
  <2>5. /\ r.suspended = suspended /\ r.sleeping = sleeping /\ r.state = state
        /\ r.wake = wake /\ r.intr = k.intr /\ r.writes = k.writes /\ r.slot = k.slot
        /\ r.ticks = k.ticks /\ r.current = k.current
    BY <1>2, <2>2 DEF SchedType
  <2>6. Spared(k, r, t)
    BY <1>2, <2>3, <2>4, <2>5 DEF Spared, Dead, Unborn
  <2> QED
    BY <1>1, <2>5, <2>6 DEF r
<1> QED
  BY <1>3, <1>4

\* TicksSleep on another thread, when it does block, sets its time and nothing
\* that is for a thread inside TicksSleep.
Asleep(k, r, t, n) ==
  /\ r.sleeping = k.sleeping \cup {t} /\ r.ticks = [k.ticks EXCEPT ![t] = n]
  /\ r.slot = k.slot /\ r.writes = k.writes /\ r.current = k.current

LEMMA SleepOtherSpares ==
  ASSUME NEW k, Sound(k), NEW t \in Threads, t # k.current, Known(k, t),
         NEW n \in Nat, n > 0, NEW i \in BOOLEAN, NEW r, r = TicksSleep(k, t, n, i)
  PROVE  /\ Sound(r) /\ Spared(k, r, t)
         /\ Asleep(k, r, t, n) /\ ~Dead(k, t)
<1> DEFINE state == [k.state EXCEPT ![t] = "Sleeping"]
           ready == Without(k.ready, t)
           suspended == k.suspended \ {t}
           sleeping == k.sleeping \cup {t}
           ticks == [k.ticks EXCEPT ![t] = n]
           intr == [k.intr EXCEPT ![t] = i]
           u == UseWake(k, t)
<1>1. Sound(r)
  BY SleepOtherKeeps
<1>2. /\ Spared(k, u, t) /\ k \in SchedType /\ Told(k, {k.current})
      /\ u.suspended = k.suspended /\ u.sleeping = k.sleeping
      /\ u.slot = k.slot /\ u.intr = k.intr /\ u.writes = k.writes /\ u.state = k.state
  BY UseWakeSpares DEF Sound, Settled
<1>3. PICK wake \in [Threads -> Nat] : u = [k EXCEPT !.wake = wake]
  BY UseWakeKeeps
<1>4. u.wake = wake
  BY <1>2, <1>3 DEF SchedType
<1>5. r = [k EXCEPT !.wake = wake, !.ready = ready, !.suspended = suspended,
                    !.sleeping = sleeping, !.state = state, !.ticks = ticks,
                    !.intr = intr]
  BY <1>2, <1>3 DEF TicksSleep, SchedType
<1>6. /\ ticks = [k.ticks EXCEPT ![t] = n]
      /\ \A v \in Threads \ {t} : intr[v] = k.intr[v] /\ state[v] = k.state[v]
  BY <1>2 DEF SchedType
<1>7. ~Dead(k, t)
  BY <1>2 DEF Known, Told, Dead
<1>8. sleeping = k.sleeping \cup {t} /\ suspended = k.suspended \ {t}
  OBVIOUS
<1> HIDE DEF state, ready, suspended, sleeping, ticks, intr, u
<1>9. /\ r.suspended = suspended /\ r.sleeping = sleeping /\ r.state = state
      /\ r.wake = wake /\ r.intr = intr /\ r.writes = k.writes /\ r.slot = k.slot
      /\ r.ticks = ticks /\ r.current = k.current
  BY <1>2, <1>5 DEF SchedType
<1>10. Spared(k, r, t)
  BY <1>2, <1>4, <1>6, <1>8, <1>9 DEF Spared, Dead, Unborn
<1> QED
  BY <1>1, <1>6, <1>7, <1>8, <1>9, <1>10 DEF Asleep

\* Resume on any thread: what a thread in an uninterruptible sleep gets is
\* counted and no more.
LEMMA ResumeSpares ==
  ASSUME NEW k, Sound(k), NEW t \in Threads, NEW prepend \in BOOLEAN
  PROVE  LET r == Resume(k, t, prepend) IN
         /\ Sound(r) /\ Spared(k, r, t)
         /\ r.suspended = k.suspended \ {t}
         /\ r.sleeping \subseteq k.sleeping /\ k.sleeping \subseteq r.sleeping \cup {t}
         /\ t \in r.sleeping => r.slot[t] = k.slot[t]
         /\ \A u \in r.sleeping : r.ticks[u] = k.ticks[u]
         /\ r.current = k.current
         /\ r.wake[t] = k.wake[t] + 1
         /\ Dead(r, t) <=> Dead(k, t)
         /\ Unborn(k, t) => Unborn(r, t)
         /\ r.writes[t] => k.writes[t] /\ (t \in k.sleeping => t \in r.sleeping)
<1> DEFINE wake == [k.wake EXCEPT ![t] = k.wake[t] + 1]
           counted == [k EXCEPT !.wake = wake]
           slot == [k.slot EXCEPT ![t] =
                      IF k.writes[t] /\ k.slot[t] # NoSlot THEN k.ticks[t] ELSE k.slot[t]]
           intr == [k.intr EXCEPT ![t] = FALSE]
           writes == [k.writes EXCEPT ![t] = FALSE]
           ticks == [k.ticks EXCEPT ![t] = 0]
           state == [k.state EXCEPT ![t] = "Ready"]
           ready == Enqueue(k.ready, t, prepend)
           suspended == k.suspended \ {t}
           sleeping == k.sleeping \ {t}
           r == Resume(k, t, prepend)
<1>1. k \in SchedType /\ Told(k, {k.current})
  BY DEF Sound, Settled
<1>2. counted = [k EXCEPT !.wake[t] = @ + 1]
  BY <1>1 DEF SchedType
<1>3. wake[t] = k.wake[t] + 1 /\ \A u \in Threads \ {t} : wake[u] = k.wake[u]
  BY <1>1 DEF SchedType
<1>4. /\ \A u \in Threads \ {t} : /\ slot[u] = k.slot[u] /\ intr[u] = k.intr[u]
                                  /\ writes[u] = k.writes[u] /\ state[u] = k.state[u]
                                  /\ ticks[u] = k.ticks[u]
      /\ state[t] = "Ready" /\ writes[t] = FALSE
  BY <1>1 DEF SchedType
<1>5. k.sleeping \subseteq Threads
  BY <1>1 DEF SchedType
<1>6. Sound(r)
  BY ResumeKeeps
<1>7. CASE ~Resumable(k, t)
  <2>1. r = counted
    BY <1>2, <1>7 DEF Resume
  <2>2. t \notin k.suspended
    BY <1>7 DEF Resumable
  <2> HIDE DEF wake, r
  <2>3. /\ r.suspended = k.suspended /\ r.sleeping = k.sleeping /\ r.current = k.current
        /\ r.state = k.state /\ r.wake = wake /\ r.slot = k.slot /\ r.intr = k.intr
        /\ r.writes = k.writes /\ r.ticks = k.ticks
    BY <1>1, <2>1 DEF SchedType
  <2>4. Spared(k, r, t)
    BY <1>3, <2>3 DEF Spared, Dead, Unborn
  <2> QED
    BY <1>3, <1>6, <2>2, <2>3, <2>4 DEF Dead, Unborn, r
<1>8. CASE Resumable(k, t) /\ k.state[t] = "Sleeping"
  <2>1. r = [k EXCEPT !.wake = wake, !.slot = slot, !.intr = intr,
                      !.writes = writes, !.ticks = ticks,
                      !.suspended = suspended, !.sleeping = sleeping,
                      !.state = state, !.ready = ready]
    BY <1>1, <1>2, <1>8 DEF Resume, SchedType
  <2> HIDE DEF wake, slot, intr, writes, ticks, state, ready, r, counted
  <2>2. /\ r.suspended = suspended /\ r.sleeping = sleeping /\ r.current = k.current
        /\ r.state = state /\ r.wake = wake /\ r.slot = slot /\ r.intr = intr
        /\ r.writes = writes /\ r.ticks = ticks
    BY <1>1, <2>1 DEF SchedType
  <2>3. Spared(k, r, t)
    BY <1>3, <1>4, <2>2 DEF Spared, Dead, Unborn
  <2>4. ~Dead(r, t) /\ ~Dead(k, t) /\ ~Unborn(k, t)
    BY <1>4, <1>8, <2>2 DEF Dead, Unborn
  <2> QED
    BY <1>3, <1>4, <1>5, <1>6, <2>2, <2>3, <2>4 DEF r
<1>9. CASE Resumable(k, t) /\ k.state[t] # "Sleeping"
  <2>1. t \notin k.sleeping /\ k.state[t] = "Suspended"
    BY <1>1, <1>9 DEF Told, Resumable
  <2>2. r = [k EXCEPT !.wake = wake, !.suspended = suspended, !.sleeping = sleeping,
                      !.state = state, !.ready = ready]
    BY <1>1, <1>2, <1>9 DEF Resume, SchedType
  <2> HIDE DEF wake, slot, intr, writes, ticks, state, ready, r, counted
  <2>3. /\ r.suspended = suspended /\ r.sleeping = sleeping /\ r.current = k.current
        /\ r.state = state /\ r.wake = wake /\ r.slot = k.slot /\ r.intr = k.intr
        /\ r.writes = k.writes /\ r.ticks = k.ticks
    BY <1>1, <2>2 DEF SchedType
  <2>4. Spared(k, r, t)
    BY <1>3, <1>4, <2>3 DEF Spared, Dead, Unborn
  <2>5. ~Dead(r, t) /\ ~Dead(k, t) /\ ~Unborn(k, t)
    BY <1>4, <2>1, <2>3 DEF Dead, Unborn
  <2> QED
    BY <1>3, <1>6, <2>1, <2>3, <2>4, <2>5 DEF r
<1> QED
  BY <1>7, <1>8, <1>9

\* The scheduler that has been started is sound, and nobody is blocked.
LEMMA StartedIsSound ==
  ASSUME NEW k \in StartedScheds
  PROVE  /\ Sound(k) /\ k.suspended = {} /\ k.sleeping = {} /\ k.current = Main
         /\ \A t \in Threads : k.wake[t] \in 0..1 /\ ~Dead(k, t)
<1> DEFINE state == [t \in Threads |-> IF t = Main THEN "Active" ELSE "Ready"]
           wake == [t \in Threads |-> IF t = Main THEN 0 ELSE 1]
<1>1. PICK q \in SetToSeqs(Threads \ {Main}) :
        k = [InitSched EXCEPT !.ready = q, !.state = state, !.wake = wake]
  BY Zenon DEF StartedScheds
<1>2. IsFiniteSet(Threads \ {Main}) /\ Main \in Threads
  BY ThreadAssumption, FS_Subset
<1>3. q \in Seq(Threads \ {Main}) /\ IsInjective(q) /\ ToSet(q) = Threads \ {Main}
  BY <1>1, <1>2, OrderAsSet
<1>4. q \in Seq(Threads)
  BY <1>3, SeqMonotonic
<1>5. /\ state \in [Threads -> States] /\ wake \in [Threads -> Nat]
      /\ \A t \in Threads : wake[t] \in 0..1
      /\ \A t \in Threads : state[t] = IF t = Main THEN "Active" ELSE "Ready"
  BY DEF States
<1> HIDE DEF state, wake
<1>6. k = [ready |-> q, suspended |-> {}, sleeping |-> {}, current |-> Main,
           state |-> state, wake |-> wake, ticks |-> [t \in Threads |-> 0],
           intr |-> [t \in Threads |-> FALSE], writes |-> [t \in Threads |-> FALSE],
           slot |-> [t \in Threads |-> NoSlot], rtc |-> "clear"]
  BY <1>1 DEF InitSched
<1>7. /\ k.ready = q /\ k.suspended = {} /\ k.sleeping = {} /\ k.current = Main
      /\ k.state = state /\ k.wake = wake
  BY <1>6
<1>8. k \in SchedType
  BY <1>2, <1>4, <1>5, <1>6 DEF SchedType, NoSlot
<1>9. k \in WideType
  BY <1>8 DEF SchedType, WideType
<1> HIDE DEF InitSched
<1>10. Disjoint(k) /\ Told(k, {k.current}) /\ CurrentLives(k)
  BY <1>2, <1>3, <1>5, <1>7 DEF Disjoint, Told, CurrentLives
<1>11. Sound(k)
  BY <1>2, <1>3, <1>5, <1>7, <1>8, <1>9, <1>10 DEF Sound, Settled
<1> QED
  BY <1>5, <1>7, <1>11 DEF Dead

=============================================================================
