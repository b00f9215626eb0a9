----------------------------- MODULE QueueProofs -----------------------------
\* What the operations on queues do to their elements: lemmas for the proofs
\* about the components that keep them.
EXTENDS Queues, SequencesExt, SequenceTheorems, FiniteSetTheorems, TLAPS

\* Insertion at the tail.
LEMMA AppendQueue ==
    ASSUME NEW S, NEW q \in Seq(S), NEW x \in S
    PROVE  /\ Append(q, x) \in Seq(S)
           /\ \A y : Contains(Append(q, x), y) <=> Contains(q, y) \/ y = x
           /\ Distinct(q) /\ ~Contains(q, x) => Distinct(Append(q, x))
<1>1. /\ Append(q, x) \in Seq(S)
      /\ Len(Append(q, x)) = Len(q) + 1
      /\ \A i \in 1..Len(q) : Append(q, x)[i] = q[i]
      /\ Append(q, x)[Len(q) + 1] = x
  BY AppendProperties
<1>2. Len(q) \in Nat
  BY LenProperties
<1>3. \A y : Contains(Append(q, x), y) <=> Contains(q, y) \/ y = x
  BY <1>1, <1>2 DEF Contains
<1>4. ASSUME Distinct(q), ~Contains(q, x) PROVE Distinct(Append(q, x))
  BY <1>1, <1>2, <1>4 DEF Distinct, Contains
<1> QED
  BY <1>1, <1>3, <1>4

\* Taking the head off.
LEMMA TailQueue ==
    ASSUME NEW S, NEW q \in Seq(S), q # <<>>
    PROVE  /\ Head(q) \in S /\ Contains(q, Head(q))
           /\ Tail(q) \in Seq(S)
           /\ \A y : Contains(q, y) <=> Contains(Tail(q), y) \/ y = Head(q)
           /\ Distinct(q) => Distinct(Tail(q)) /\ ~Contains(Tail(q), Head(q))
<1>1. /\ Head(q) \in S /\ Tail(q) \in Seq(S)
      /\ Len(Tail(q)) = Len(q) - 1
      /\ \A i \in 1..Len(Tail(q)) : Tail(q)[i] = q[i + 1]
  BY HeadTailProperties
<1>2. Len(q) \in Nat /\ Len(q) >= 1 /\ Head(q) = q[1]
  BY EmptySeq, LenProperties
<1>3. \A y : Contains(q, y) <=> Contains(Tail(q), y) \/ y = Head(q)
  <2> TAKE y
  <2>1. ASSUME NEW i \in 1..Len(q), q[i] = y, i # 1 PROVE Contains(Tail(q), y)
    <3>1. i - 1 \in 1..Len(Tail(q)) /\ Tail(q)[i - 1] = y
      BY <1>1, <1>2, <2>1
    <3> QED BY <3>1 DEF Contains
  <2>2. ASSUME NEW i \in 1..Len(Tail(q)), Tail(q)[i] = y PROVE Contains(q, y)
    <3>1. i + 1 \in 1..Len(q) /\ q[i + 1] = y
      BY <1>1, <1>2, <2>2
    <3> QED BY <3>1 DEF Contains
  <2>3. Contains(q, Head(q))
    BY <1>2 DEF Contains
  <2> QED BY <1>2, <2>1, <2>2, <2>3 DEF Contains
<1>4. ASSUME Distinct(q) PROVE Distinct(Tail(q)) /\ ~Contains(Tail(q), Head(q))
  BY <1>1, <1>2, <1>4 DEF Distinct, Contains
<1> QED
  BY <1>1, <1>3, <1>4

\* Where the elements go when one of them is removed.
LEMMA UnlinkIndices ==
    ASSUME NEW S, NEW q \in Seq(S), NEW x, Contains(q, x)
    PROVE  /\ Unlink(q, x) \in Seq(S) /\ Len(Unlink(q, x)) = Len(q) - 1
           /\ \E k \in 1..Len(q) :
                /\ q[k] = x
                /\ \A i \in 1..(Len(q) - 1) : Unlink(q, x)[i] = IF i < k THEN q[i] ELSE q[i + 1]
<1> DEFINE k == CHOOSE i \in 1..Len(q) : q[i] = x
           u == Unlink(q, x)
<1>1. k \in 1..Len(q) /\ q[k] = x
  BY DEF Contains
<1>2. Len(q) \in Nat /\ \A i \in 1..Len(q) : q[i] \in S
  BY LenProperties, ElementOfSeq
<1>3. u = SubSeq(q, 1, k - 1) \o SubSeq(q, k + 1, Len(q))
  BY DEF Unlink, Contains
<1> HIDE DEF k, u
<1> DEFINE a == SubSeq(q, 1, k - 1)
           b == SubSeq(q, k + 1, Len(q))
<1>4. /\ a \in Seq(S) /\ Len(a) = k - 1
      /\ \A i \in 1..(k - 1) : a[i] = q[i]
  <2>1. k - 1 \in Int /\ 1 \in Int /\ \A i \in 1..(k - 1) : q[i] \in S
    BY <1>1, <1>2
  <2>2. /\ a \in Seq(S) /\ Len(a) = IF 1 <= k - 1 THEN (k - 1) - 1 + 1 ELSE 0
        /\ \A i \in 1..((k - 1) - 1 + 1) : a[i] = q[1 + i - 1]
    BY <2>1, SubSeqProperties
  <2> QED BY <1>1, <1>2, <2>2
<1>5. /\ b \in Seq(S) /\ Len(b) = Len(q) - k
      /\ \A i \in 1..(Len(q) - k) : b[i] = q[k + i]
  <2>1. k + 1 \in Int /\ Len(q) \in Int /\ \A i \in (k + 1)..Len(q) : q[i] \in S
    BY <1>1, <1>2
  <2>2. /\ b \in Seq(S)
        /\ Len(b) = IF k + 1 <= Len(q) THEN Len(q) - (k + 1) + 1 ELSE 0
        /\ \A i \in 1..(Len(q) - (k + 1) + 1) : b[i] = q[(k + 1) + i - 1]
    BY <2>1, SubSeqProperties
  <2> QED BY <1>1, <1>2, <2>2
<1> HIDE DEF a, b
<1>6. /\ u \in Seq(S) /\ Len(u) = Len(q) - 1
      /\ \A i \in 1..(Len(q) - 1) : u[i] = IF i < k THEN q[i] ELSE q[i + 1]
  <2>1. u = a \o b
    BY <1>3 DEF a, b
  <2>2. /\ a \o b \in Seq(S) /\ Len(a \o b) = Len(a) + Len(b)
        /\ \A i \in 1..(Len(a) + Len(b)) :
             (a \o b)[i] = IF i <= Len(a) THEN a[i] ELSE b[i - Len(a)]
    BY <1>4, <1>5, ConcatProperties
  <2>3. Len(u) = Len(q) - 1
    BY <1>1, <1>2, <1>4, <1>5, <2>1, <2>2
  <2>4. ASSUME NEW i \in 1..(Len(q) - 1)
        PROVE u[i] = IF i < k THEN q[i] ELSE q[i + 1]
    <3>1. CASE i < k
      BY <1>1, <1>2, <1>4, <1>5, <2>1, <2>2, <3>1
    <3>2. CASE ~(i < k)
      <4>1. u[i] = b[i - (k - 1)]
        BY <1>1, <1>2, <1>4, <1>5, <2>1, <2>2, <3>2
      <4>2. i - (k - 1) \in 1..(Len(q) - k) /\ k + (i - (k - 1)) = i + 1
        BY <1>1, <1>2, <3>2
      <4> QED BY <1>5, <3>2, <4>1, <4>2
    <3> QED BY <3>1, <3>2
  <2> QED BY <2>1, <2>2, <2>3, <2>4
<1> QED BY <1>1, <1>6 DEF u

\* Removal from anywhere in the queue.
LEMMA UnlinkQueue ==
    ASSUME NEW S, NEW q \in Seq(S), NEW x
    PROVE  /\ Unlink(q, x) \in Seq(S)
           /\ \A y : Contains(Unlink(q, x), y) => Contains(q, y)
           /\ \A y : Contains(q, y) /\ y # x => Contains(Unlink(q, x), y)
           /\ Distinct(q) => Distinct(Unlink(q, x)) /\ ~Contains(Unlink(q, x), x)
           /\ Len(Unlink(q, x)) <= Len(q)
<1>0. Len(q) \in Nat
  BY LenProperties
<1>1. CASE ~Contains(q, x)
  BY <1>0, <1>1 DEF Unlink, Contains
<1>2. CASE Contains(q, x)
  <2> DEFINE u == Unlink(q, x)
  <2>1. /\ u \in Seq(S) /\ Len(u) = Len(q) - 1
        /\ \E k \in 1..Len(q) :
             q[k] = x /\ \A i \in 1..(Len(q) - 1) : u[i] = IF i < k THEN q[i] ELSE q[i + 1]
    BY <1>2, UnlinkIndices
  <2> HIDE DEF u
  <2>2. PICK k \in 1..Len(q) :
          q[k] = x /\ \A i \in 1..(Len(q) - 1) : u[i] = IF i < k THEN q[i] ELSE q[i + 1]
    BY <2>1
  <2>3. \A y : Contains(u, y) => Contains(q, y)
    BY <1>0, <2>1, <2>2 DEF Contains
  <2>4. ASSUME NEW y, Contains(q, y), y # x PROVE Contains(u, y)
    <3>1. PICK i \in 1..Len(q) : q[i] = y
      BY <2>4 DEF Contains
    <3>2. CASE i < k
      BY <1>0, <2>1, <2>2, <3>1, <3>2 DEF Contains
    <3>3. CASE i > k
      <4>1. i - 1 \in 1..Len(u) /\ u[i - 1] = y
        BY <1>0, <2>1, <2>2, <3>1, <3>3
      <4> QED BY <4>1 DEF Contains
    <3> QED BY <1>0, <2>2, <2>4, <3>1, <3>2, <3>3
  <2>5. ASSUME Distinct(q) PROVE Distinct(u) /\ ~Contains(u, x)
    <3>1. ~Contains(u, x)
      <4> SUFFICES ASSUME NEW i \in 1..Len(u), u[i] = x PROVE FALSE
        BY DEF Contains
      <4>1. CASE i < k
        BY <1>0, <2>1, <2>2, <2>5, <4>1 DEF Distinct
      <4>2. CASE i >= k
        BY <1>0, <2>1, <2>2, <2>5, <4>2 DEF Distinct
      <4> QED BY <1>0, <2>1, <4>1, <4>2
    <3>2. Distinct(u)
      BY <1>0, <2>1, <2>2, <2>5 DEF Distinct
    <3> QED BY <3>1, <3>2
  <2>6. Len(u) <= Len(q)
    BY <1>0, <2>1
  <2> QED BY <2>1, <2>3, <2>4, <2>5, <2>6 DEF u
<1> QED BY <1>1, <1>2

\* The empty queue.
LEMMA EmptyQueue ==
    /\ \A S : <<>> \in Seq(S)
    /\ \A y : ~Contains(<<>>, y)
    /\ Distinct(<<>>)
    /\ \A y : Unlink(<<>>, y) = <<>>
BY EmptySeq DEF Contains, Distinct, Unlink

\* One queue behind the other.
LEMMA ConcatQueue ==
    ASSUME NEW S, NEW p \in Seq(S), NEW q \in Seq(S)
    PROVE  /\ p \o q \in Seq(S)
           /\ \A y : Contains(p \o q, y) <=> Contains(p, y) \/ Contains(q, y)
           /\ Distinct(p \o q) <=> /\ Distinct(p) /\ Distinct(q)
                                  /\ \A y \in S : ~(Contains(p, y) /\ Contains(q, y))
<1> DEFINE m == Len(p)
           n == Len(q)
<1>1. /\ p \o q \in Seq(S) /\ Len(p \o q) = m + n
      /\ \A i \in 1..(m + n) : (p \o q)[i] = IF i <= m THEN p[i] ELSE q[i - m]
  BY ConcatProperties
<1>2. /\ m \in Nat /\ n \in Nat
      /\ \A i \in 1..m : p[i] \in S
      /\ \A i \in 1..n : q[i] \in S
  BY LenProperties, ElementOfSeq
<1> HIDE DEF m, n
<1>3. /\ \A i \in 1..m : i \in 1..(m + n) /\ (p \o q)[i] = p[i]
      /\ \A i \in 1..n : m + i \in 1..(m + n) /\ (p \o q)[m + i] = q[i]
  BY <1>1, <1>2
<1>4. \A y : Contains(p \o q, y) <=> Contains(p, y) \/ Contains(q, y)
  <2> TAKE y
  <2>1. ASSUME NEW i \in 1..(m + n), (p \o q)[i] = y, i > m PROVE Contains(q, y)
    <3>1. i - m \in 1..n /\ q[i - m] = y
      BY <1>1, <1>2, <2>1
    <3> QED BY <3>1 DEF Contains, n
  <2>2. ASSUME NEW i \in 1..(m + n), (p \o q)[i] = y, ~(i > m) PROVE Contains(p, y)
    <3>1. i \in 1..m /\ p[i] = y
      BY <1>1, <1>2, <2>2
    <3> QED BY <3>1 DEF Contains, m
  <2>3. Contains(p \o q, y) => Contains(p, y) \/ Contains(q, y)
    BY <1>1, <2>1, <2>2 DEF Contains
  <2>4. Contains(p, y) \/ Contains(q, y) => Contains(p \o q, y)
    BY <1>1, <1>3 DEF Contains, m, n
  <2> QED BY <2>3, <2>4
<1>5. ASSUME Distinct(p \o q)
      PROVE  /\ Distinct(p) /\ Distinct(q)
             /\ \A y \in S : ~(Contains(p, y) /\ Contains(q, y))
  <2>1. Distinct(p)
    BY <1>1, <1>3, <1>5 DEF Distinct, m
  <2>2. Distinct(q)
    <3>1. ASSUME NEW i \in 1..n, NEW j \in 1..n, q[i] = q[j] PROVE i = j
      <4>1. m + i \in 1..(m + n) /\ m + j \in 1..(m + n) /\ (p \o q)[m + i] = (p \o q)[m + j]
        BY <1>3, <3>1
      <4>2. m + i = m + j
        BY <1>1, <1>5, <4>1 DEF Distinct
      <4> QED BY <1>2, <4>2
    <3> QED BY <3>1 DEF Distinct, n
  <2>3. ASSUME NEW i \in 1..m, NEW j \in 1..n, p[i] = q[j] PROVE FALSE
    <3>1. i \in 1..(m + n) /\ m + j \in 1..(m + n) /\ (p \o q)[i] = (p \o q)[m + j]
      BY <1>3, <2>3
    <3>2. i = m + j
      BY <1>1, <1>5, <3>1 DEF Distinct
    <3> QED BY <1>2, <3>2
  <2> QED BY <2>1, <2>2, <2>3 DEF Contains, m, n
<1>6. ASSUME Distinct(p), Distinct(q), \A y \in S : ~(Contains(p, y) /\ Contains(q, y))
      PROVE  Distinct(p \o q)
  <2>1. \A i \in 1..m, j \in 1..n : p[i] # q[j]
    BY <1>2, <1>6 DEF Contains, m, n
  <2>2. ASSUME NEW i \in 1..(m + n), NEW j \in 1..(m + n), (p \o q)[i] = (p \o q)[j]
        PROVE  i = j
    <3>1. CASE i <= m /\ j <= m
      BY <1>1, <1>2, <1>6, <2>2, <3>1 DEF Distinct, m
    <3>2. CASE i > m /\ j > m
      <4>1. i - m \in 1..n /\ j - m \in 1..n /\ q[i - m] = q[j - m]
        BY SMTT(30), <1>1, <1>2, <2>2, <3>2
      <4> QED BY <1>2, <1>6, <4>1 DEF Distinct, n
    <3>3. CASE i <= m /\ j > m
      BY <1>1, <1>2, <2>1, <2>2, <3>3
    <3>4. CASE i > m /\ j <= m
      BY <1>1, <1>2, <2>1, <2>2, <3>4
    <3> QED BY <1>2, <3>1, <3>2, <3>3, <3>4
  <2> QED BY <1>1, <2>2 DEF Distinct
<1> QED BY <1>1, <1>4, <1>5, <1>6

\* Insertion at the head.
LEMMA PushQueue ==
    ASSUME NEW S, NEW q \in Seq(S), NEW x \in S
    PROVE  /\ <<x>> \o q \in Seq(S)
           /\ \A y : Contains(<<x>> \o q, y) <=> Contains(q, y) \/ y = x
           /\ Distinct(q) /\ ~Contains(q, x) => Distinct(<<x>> \o q)
<1>1. /\ <<x>> \in Seq(S) /\ Distinct(<<x>>)
      /\ \A y : Contains(<<x>>, y) <=> y = x
  BY DEF Contains, Distinct
<1>2. /\ <<x>> \o q \in Seq(S)
      /\ \A y : Contains(<<x>> \o q, y) <=> Contains(<<x>>, y) \/ Contains(q, y)
      /\ Distinct(<<x>>) /\ Distinct(q) /\ (\A y \in S : ~(Contains(<<x>>, y) /\ Contains(q, y)))
           => Distinct(<<x>> \o q)
  BY <1>1, ConcatQueue
<1> QED BY <1>1, <1>2

\* Removal from a queue that links everything once.
LEMMA UnlinkDistinct ==
    ASSUME NEW S, NEW q \in Seq(S), Distinct(q), NEW x
    PROVE  /\ Unlink(q, x) \in Seq(S) /\ Distinct(Unlink(q, x))
           /\ \A y : Contains(Unlink(q, x), y) <=> Contains(q, y) /\ y # x
BY UnlinkQueue

\* The elements of a queue.
LEMMA SetOfQueue ==
    ASSUME NEW S, NEW q \in Seq(S)
    PROVE  \A y : y \in Range(q) <=> Contains(q, y)
BY DEF Range, Contains

\* The elements of a queue as a set.
LEMMA RangeQueue ==
    ASSUME NEW S, NEW q \in Seq(S)
    PROVE  /\ \A y : y \in Range(q) <=> Contains(q, y)
           /\ \A y : Contains(q, y) => y \in S
           /\ q # <<>> => \E y \in S : Contains(q, y)
BY LenProperties, ElementOfSeq, TailQueue DEF Range, Contains

\* A finite set in some order.
LEMMA OrderQueue ==
    ASSUME NEW S, IsFiniteSet(S), NEW q \in SetToSeqs(S)
    PROVE  /\ q \in Seq(S) /\ Distinct(q) /\ Len(q) = Cardinality(S)
           /\ \A y : Contains(q, y) <=> y \in S
<1> DEFINE n == Cardinality(S)
<1>1. n \in Nat
  BY FS_CardinalityType
<1>2. q \in [1..n -> S] /\ \A i, j \in 1..n : i # j => q[i] # q[j]
  BY DEF SetToSeqs
<1> HIDE DEF n
<1>3. q \in Seq(S) /\ Len(q) = n
  BY <1>1, <1>2, SeqDef
<1>4. IsFiniteSet(1..n) /\ Cardinality(1..n) = n
  BY <1>1, FS_Interval
<1>5. q \in Injection(1..n, S)
  BY <1>2 DEF Injection, IsInjective
<1>6. q \in Surjection(1..n, S)
  BY <1>4, <1>5, FS_Injection DEF n
<1>7. \A y : Contains(q, y) <=> y \in S
  BY <1>2, <1>3, <1>6 DEF Surjection, Contains
<1> QED BY <1>2, <1>3, <1>7 DEF Distinct, n

-----------------------------------------------------------------------------
(* The order of the elements *)

Before(q, x, y) == \E i, j \in 1..Len(q) : q[i] = x /\ q[j] = y /\ i < j

\* Whatever is inserted at the tail comes behind everything else.
LEMMA AppendOrder ==
    ASSUME NEW S, NEW q \in Seq(S), NEW z \in S
    PROVE  \A x, y : Before(Append(q, z), x, y) <=>
                       Before(q, x, y) \/ (Contains(q, x) /\ y = z)
<1> DEFINE a == Append(q, z)
<1>1. /\ Len(a) = Len(q) + 1 /\ Len(q) \in Nat
      /\ \A i \in 1..Len(q) : a[i] = q[i]
      /\ a[Len(q) + 1] = z
  BY AppendProperties, LenProperties
<1> HIDE DEF a
<1> SUFFICES ASSUME NEW x, NEW y
             PROVE  Before(a, x, y) <=> Before(q, x, y) \/ (Contains(q, x) /\ y = z)
  BY DEF a
<1>2. ASSUME Before(a, x, y) PROVE Before(q, x, y) \/ (Contains(q, x) /\ y = z)
  <2>1. PICK i \in 1..Len(a), j \in 1..Len(a) : a[i] = x /\ a[j] = y /\ i < j
    BY <1>2 DEF Before
  <2>2. i \in 1..Len(q) /\ q[i] = x
    BY <1>1, <2>1
  <2>3. CASE j = Len(q) + 1
    BY <1>1, <2>1, <2>2, <2>3 DEF Contains
  <2>4. CASE j \in 1..Len(q)
    BY <1>1, <2>1, <2>2, <2>4 DEF Before
  <2> QED BY <1>1, <2>1, <2>3, <2>4
<1>3. ASSUME Before(q, x, y) PROVE Before(a, x, y)
  BY <1>1, <1>3 DEF Before
<1>4. ASSUME Contains(q, x), y = z PROVE Before(a, x, y)
  BY <1>1, <1>4 DEF Before, Contains
<1> QED BY <1>2, <1>3, <1>4

\* A removal leaves the others in their order.
LEMMA UnlinkOrder ==
    ASSUME NEW S, NEW q \in Seq(S), NEW z
    PROVE  /\ \A x, y : Before(Unlink(q, z), x, y) => Before(q, x, y)
           /\ Distinct(q) => \A x, y : Before(q, x, y) /\ x # z /\ y # z => Before(Unlink(q, z), x, y)
<1>0. Len(q) \in Nat
  BY LenProperties
<1>1. CASE ~Contains(q, z)
  BY <1>1 DEF Unlink, Contains
<1>2. CASE Contains(q, z)
  <2> DEFINE u == Unlink(q, z)
  <2>1. /\ Len(u) = Len(q) - 1
        /\ \E k \in 1..Len(q) :
             q[k] = z /\ \A i \in 1..(Len(q) - 1) : u[i] = IF i < k THEN q[i] ELSE q[i + 1]
    BY <1>2, UnlinkIndices
  <2> HIDE DEF u
  <2>2. PICK k \in 1..Len(q) :
          q[k] = z /\ \A i \in 1..(Len(q) - 1) : u[i] = IF i < k THEN q[i] ELSE q[i + 1]
    BY <2>1
  <2>3. ASSUME NEW x, NEW y, Before(u, x, y) PROVE Before(q, x, y)
    <3>1. PICK i \in 1..Len(u), j \in 1..Len(u) : u[i] = x /\ u[j] = y /\ i < j
      BY <2>3 DEF Before
    <3>2. \E m \in 1..Len(q) : q[m] = x /\ m <= i + 1 /\ m >= i /\ (i >= k => m = i + 1) /\ (i < k => m = i)
      BY SMTT(30), <1>0, <2>1, <2>2, <3>1
    <3>3. \E n \in 1..Len(q) : q[n] = y /\ n >= j /\ (j >= k => n = j + 1)
      BY <1>0, <2>1, <2>2, <3>1
    <3> QED BY <1>0, <2>1, <3>1, <3>2, <3>3 DEF Before
  <2>4. ASSUME Distinct(q), NEW x, NEW y, Before(q, x, y), x # z, y # z PROVE Before(u, x, y)
    <3>1. PICK i \in 1..Len(q), j \in 1..Len(q) : q[i] = x /\ q[j] = y /\ i < j
      BY <2>4 DEF Before
    <3>2. i # k /\ j # k
      BY <2>2, <2>4, <3>1
    <3>3. \A n \in 1..Len(q) : n # k =>
            \E m \in 1..Len(u) : u[m] = q[n] /\ m = IF n < k THEN n ELSE n - 1
      <4> SUFFICES ASSUME NEW n \in 1..Len(q), n # k
                   PROVE  \E m \in 1..Len(u) : u[m] = q[n] /\ m = IF n < k THEN n ELSE n - 1
        OBVIOUS
      <4>1. CASE n < k
        BY <1>0, <2>1, <2>2, <4>1
      <4>2. CASE n > k
        <5>1. n - 1 \in 1..Len(u) /\ u[n - 1] = q[n]
          BY <1>0, <2>1, <2>2, <4>2
        <5> QED BY <4>2, <5>1
      <4> QED BY <4>1, <4>2
    <3>4. PICK m \in 1..Len(u) : u[m] = x /\ m = IF i < k THEN i ELSE i - 1
      BY <3>1, <3>2, <3>3
    <3>5. PICK n \in 1..Len(u) : u[n] = y /\ n = IF j < k THEN j ELSE j - 1
      BY <3>1, <3>2, <3>3
    <3> QED BY <1>0, <2>1, <3>1, <3>2, <3>4, <3>5 DEF Before
  <2> QED BY <2>3, <2>4 DEF u
<1> QED BY <1>1, <1>2

\* Taking the head off leaves the others in their order; the head was first.
LEMMA TailOrder ==
    ASSUME NEW S, NEW q \in Seq(S), q # <<>>
    PROVE  /\ \A x, y : Before(Tail(q), x, y) => Before(q, x, y)
           /\ \A y : Contains(Tail(q), y) => Before(q, Head(q), y)
<1>1. /\ Len(Tail(q)) = Len(q) - 1 /\ Len(q) \in Nat /\ Len(q) >= 1 /\ Head(q) = q[1]
      /\ \A i \in 1..Len(Tail(q)) : Tail(q)[i] = q[i + 1]
  BY HeadTailProperties, LenProperties, EmptySeq
<1>2. ASSUME NEW x, NEW y, Before(Tail(q), x, y) PROVE Before(q, x, y)
  <2>1. PICK i \in 1..Len(Tail(q)), j \in 1..Len(Tail(q)) : Tail(q)[i] = x /\ Tail(q)[j] = y /\ i < j
    BY <1>2 DEF Before
  <2>2. i + 1 \in 1..Len(q) /\ j + 1 \in 1..Len(q) /\ q[i + 1] = x /\ q[j + 1] = y /\ i + 1 < j + 1
    BY <1>1, <2>1
  <2> QED BY <2>2 DEF Before
<1>3. ASSUME NEW y, Contains(Tail(q), y) PROVE Before(q, Head(q), y)
  <2>1. PICK i \in 1..Len(Tail(q)) : Tail(q)[i] = y
    BY <1>3 DEF Contains
  <2>2. i + 1 \in 1..Len(q) /\ 1 \in 1..Len(q) /\ q[i + 1] = y /\ 1 < i + 1
    BY <1>1, <2>1
  <2> QED BY <1>1, <2>2 DEF Before
<1> QED BY <1>2, <1>3

\* The least of some numbers.
LEMMA LeastNumber ==
    ASSUME NEW T, T \subseteq Nat, T # {} PROVE \E m \in T : \A n \in T : m <= n
<1>1. PICK R : IsWellFoundedOn(R, Nat) /\ R = {s \in Nat \X Nat : s[1] < s[2]}
  BY NatLessThanWellFounded DEF OpToRel
<1>2. PICK m \in T : \A n \in T : ~(<<n, m>> \in R)
  BY <1>1, WFMin
<1>3. \A n \in T : ~(n < m)
  BY <1>1, <1>2
<1> QED BY <1>2, <1>3

-----------------------------------------------------------------------------
(* Totals *)

\* A function that adds up the elements of a queue ends at its total.
LEMMA TotalIs ==
    ASSUME NEW S, NEW q \in Seq(S), NEW f \in [S -> Int], NEW h \in [0..Len(q) -> Int],
           h[0] = 0, \A i \in 1..Len(q) : h[i] = h[i - 1] + f[q[i]]
    PROVE  Total(q, f) = h[Len(q)]
<1> DEFINE n == Len(q)
           Up(g) == g = [i \in 0..n |-> IF i = 0 THEN 0 ELSE g[i - 1] + f[q[i]]]
<1>1. n \in Nat /\ \A i \in 1..n : q[i] \in S
  BY LenProperties, ElementOfSeq
<1> HIDE DEF n
<1>2. Up(h)
  BY <1>1 DEF n
<1>3. ASSUME NEW g, Up(g) PROVE g[n] = h[n]
  <2> DEFINE T == {i \in 0..n : g[i] # h[i]}
  <2>1. T = {}
    <3> SUFFICES ASSUME T # {} PROVE FALSE
      OBVIOUS
    <3>1. PICK m \in T : \A i \in T : m <= i
      <4>1. T \subseteq Nat
        BY <1>1
      <4> QED BY <4>1, LeastNumber
    <3>2. \A i \in 0..n : g[i] = IF i = 0 THEN 0 ELSE g[i - 1] + f[q[i]]
      BY <1>3
    <3>3. m # 0
      BY <3>1, <3>2 DEF n
    <3>4. m - 1 \in 0..n /\ m \in 1..n
      BY <1>1, <3>1, <3>3
    <3>5. g[m - 1] = h[m - 1]
      BY <3>1, <3>4
    <3>6. g[m] = h[m]
      BY <3>2, <3>3, <3>4, <3>5 DEF n
    <3> QED BY <3>1, <3>6
  <2> QED BY <1>1, <2>1
<1>4. Total(q, f) = (CHOOSE g : Up(g))[n]
  BY DEF Total, n
<1> HIDE DEF Up
<1> QED BY <1>2, <1>3, <1>4 DEF n

\* There is such a function.
LEMMA TotalHas ==
    ASSUME NEW S, NEW q \in Seq(S), NEW f \in [S -> Nat]
    PROVE  \E h \in [0..Len(q) -> Nat] :
             /\ h[0] = 0 /\ \A i \in 1..Len(q) : h[i] = h[i - 1] + f[q[i]]
             /\ Total(q, f) = h[Len(q)]
<1> DEFINE n == Len(q)
           Adds(h, m) == h \in [0..m -> Nat] /\ h[0] = 0 /\ \A i \in 1..m : h[i] = h[i - 1] + f[q[i]]
           T == {m \in 0..n : ~\E h : Adds(h, m)}
<1>1. n \in Nat /\ \A i \in 1..n : f[q[i]] \in Nat
  BY LenProperties, ElementOfSeq
<1> HIDE DEF n, Adds
<1>2. T = {}
  <2> SUFFICES ASSUME T # {} PROVE FALSE
    OBVIOUS
  <2>1. PICK m \in T : \A i \in T : m <= i
    <3>1. T \subseteq Nat
      BY <1>1
    <3> QED BY <3>1, LeastNumber
  <2>2. m # 0
    <3>1. Adds([i \in 0..0 |-> 0], 0)
      BY DEF Adds
    <3> QED BY <2>1, <3>1
  <2>3. m - 1 \in 0..n /\ m \in 1..n
    BY <1>1, <2>1, <2>2
  <2>4. PICK h : Adds(h, m - 1)
    BY <2>1, <2>3
  <2> DEFINE g == [i \in 0..m |-> IF i = m THEN h[m - 1] + f[q[m]] ELSE h[i]]
  <2>5. h[m - 1] \in Nat /\ g \in [0..m -> Nat]
    BY <1>1, <2>3, <2>4 DEF Adds
  <2>6. g[0] = 0 /\ \A i \in 1..m : g[i] = g[i - 1] + f[q[i]]
    BY <1>1, <2>3, <2>4 DEF Adds
  <2> HIDE DEF g
  <2> QED BY <2>1, <2>5, <2>6 DEF Adds
<1>3. PICK h : Adds(h, n)
  BY <1>1, <1>2
<1>4. h \in [0..Len(q) -> Int] /\ f \in [S -> Int]
  BY <1>3 DEF n, Adds
<1>5. Total(q, f) = h[Len(q)]
  BY <1>3, <1>4, TotalIs DEF n, Adds
<1> QED BY <1>3, <1>5 DEF n, Adds

LEMMA TotalEmpty ==
    ASSUME NEW S, NEW f \in [S -> Nat]
    PROVE  Total(<<>>, f) = 0
<1>1. <<>> \in Seq(S) /\ Len(<<>>) = 0
  OBVIOUS
<1> QED BY <1>1, TotalHas

LEMMA AppendTotal ==
    ASSUME NEW S, NEW q \in Seq(S), NEW x \in S, NEW f \in [S -> Nat]
    PROVE  Total(Append(q, x), f) = Total(q, f) + f[x]
<1> DEFINE n == Len(q)
           a == Append(q, x)
<1>1. /\ a \in Seq(S) /\ Len(a) = n + 1 /\ n \in Nat
      /\ \A i \in 1..n : a[i] = q[i]
      /\ a[n + 1] = x
  BY AppendProperties, LenProperties
<1>2. PICK h \in [0..n -> Nat] : /\ h[0] = 0 /\ \A i \in 1..n : h[i] = h[i - 1] + f[q[i]]
                                 /\ Total(q, f) = h[n]
  BY TotalHas
<1> HIDE DEF n, a
<1> DEFINE g == [i \in 0..(n + 1) |-> IF i = n + 1 THEN h[n] + f[x] ELSE h[i]]
<1>3. g \in [0..Len(a) -> Int] /\ g[0] = 0 /\ g[Len(a)] = Total(q, f) + f[x]
  BY <1>1, <1>2
<1>4. ASSUME NEW i \in 1..Len(a) PROVE g[i] = g[i - 1] + f[a[i]]
  <2>1. CASE i = n + 1
    <3>1. g[i] = h[n] + f[x] /\ g[i - 1] = h[n] /\ a[i] = x
      BY <1>1, <2>1
    <3> QED BY <3>1
  <2>2. CASE i # n + 1
    <3>1. i \in 1..n /\ i - 1 \in 0..n
      BY <1>1, <2>2
    <3>2. g[i] = h[i] /\ g[i - 1] = h[i - 1] /\ a[i] = q[i]
      BY <1>1, <3>1
    <3> QED BY <1>2, <3>1, <3>2
  <2> QED BY <2>1, <2>2
<1>5. f \in [S -> Int]
  OBVIOUS
<1> HIDE DEF g
<1> QED BY ZenonT(60), <1>1, <1>3, <1>4, <1>5, TotalIs DEF a

LEMMA TailTotal ==
    ASSUME NEW S, NEW q \in Seq(S), q # <<>>, NEW f \in [S -> Nat]
    PROVE  Total(q, f) = f[Head(q)] + Total(Tail(q), f)
<1> DEFINE n == Len(q)
           a == Tail(q)
<1>1. /\ a \in Seq(S) /\ Len(a) = n - 1 /\ n \in Nat /\ n >= 1 /\ Head(q) = q[1] /\ q[1] \in S
      /\ \A i \in 1..(n - 1) : a[i] = q[i + 1]
  BY HeadTailProperties, LenProperties, EmptySeq, ElementOfSeq
<1> HIDE DEF n, a
<1>2. PICK h \in [0..(n - 1) -> Nat] :
        /\ h[0] = 0 /\ \A i \in 1..(n - 1) : h[i] = h[i - 1] + f[a[i]]
        /\ Total(a, f) = h[n - 1]
  <2>1. \E h \in [0..Len(a) -> Nat] :
          /\ h[0] = 0 /\ \A i \in 1..Len(a) : h[i] = h[i - 1] + f[a[i]]
          /\ Total(a, f) = h[Len(a)]
    BY <1>1, TotalHas
  <2> QED BY <1>1, <2>1
<1> DEFINE g == [i \in 0..n |-> IF i = 0 THEN 0 ELSE f[q[1]] + h[i - 1]]
<1>3. g \in [0..n -> Int] /\ g[0] = 0 /\ g[n] = f[q[1]] + Total(a, f)
  BY <1>1, <1>2
<1>4. ASSUME NEW i \in 1..n PROVE g[i] = g[i - 1] + f[q[i]]
  <2>1. CASE i = 1
    BY <1>1, <1>2, <2>1
  <2>2. CASE i # 1
    <3>1. PICK j \in 1..(n - 1) : i = j + 1 /\ a[j] = q[i]
      <4>1. i - 1 \in 1..(n - 1) /\ i = (i - 1) + 1
        BY <1>1, <2>2
      <4> QED BY <1>1, <4>1
    <3>2. j \in 0..(n - 1) /\ j - 1 \in 0..(n - 1) /\ j \in 0..n /\ j + 1 \in 0..n
      BY <1>1
    <3>3. h[j] = h[j - 1] + f[q[i]]
      BY <1>2, <3>1
    <3>4. h[j] \in Nat /\ h[j - 1] \in Nat /\ f[q[1]] \in Nat
      BY <1>1, <1>2, <3>2
    <3>5. g[j + 1] = f[q[1]] + h[j] /\ g[j] = f[q[1]] + h[j - 1]
      <4>1. j + 1 # 0 /\ j # 0 /\ (j + 1) - 1 = j
        BY <1>1
      <4> QED BY <3>2, <4>1
    <3>6. f[q[i]] \in Nat
      BY <1>1, <3>1, ElementOfSeq
    <3> HIDE DEF g
    <3>7. i - 1 = j
      BY <3>1
    <3> QED BY <3>1, <3>3, <3>4, <3>5, <3>6, <3>7
  <2> QED BY <2>1, <2>2
<1>5. f \in [S -> Int]
  OBVIOUS
<1> HIDE DEF g
<1> QED BY <1>1, <1>3, <1>4, <1>5, TotalIs DEF n, a

\* What an element that is not in the queue has does not matter; what one that is
\* has changes the total by as much.
LEMMA ChangeTotal ==
    ASSUME NEW S, NEW q \in Seq(S), Distinct(q), NEW f \in [S -> Nat], NEW g \in [S -> Nat],
           NEW x \in S, \A y \in S \ {x} : g[y] = f[y]
    PROVE  /\ Total(q, f) \in Nat
           /\ Total(q, g) = IF Contains(q, x) THEN Total(q, f) - f[x] + g[x] ELSE Total(q, f)
<1> DEFINE n == Len(q)
<1>1. n \in Nat /\ \A i \in 1..n : q[i] \in S
  BY LenProperties, ElementOfSeq
<1>2. PICK h \in [0..n -> Nat] : /\ h[0] = 0 /\ \A i \in 1..n : h[i] = h[i - 1] + f[q[i]]
                                 /\ Total(q, f) = h[n]
  BY TotalHas
<1>3. g \in [S -> Int]
  OBVIOUS
<1>4. CASE ~Contains(q, x)
  <2>1. \A i \in 1..n : g[q[i]] = f[q[i]]
    BY <1>1, <1>4 DEF Contains
  <2>2. h \in [0..n -> Int] /\ \A i \in 1..n : h[i] = h[i - 1] + g[q[i]]
    BY <1>2, <2>1
  <2>3. Total(q, g) = h[n]
    BY <1>2, <1>3, <2>2, TotalIs
  <2> QED BY <1>1, <1>2, <1>4, <2>3
<1>5. CASE Contains(q, x)
  <2>1. PICK k \in 1..n : q[k] = x
    BY <1>5 DEF Contains
  <2>2. \A i \in 1..n : i # k => q[i] # x
    BY <2>1 DEF Distinct
  <2> HIDE DEF n
  <2> DEFINE e == [i \in 0..n |-> IF i < k THEN h[i] ELSE h[i] - f[x] + g[x]]
  <2>3. e \in [0..n -> Int] /\ e[0] = 0 /\ e[n] = h[n] - f[x] + g[x]
    BY SMTT(30), <1>1, <1>2, <2>1
  <2>4. ASSUME NEW i \in 1..n PROVE e[i] = e[i - 1] + g[q[i]]
    <3>1. h[i] = h[i - 1] + f[q[i]] /\ h[i] \in Nat /\ h[i - 1] \in Nat
      BY <1>1, <1>2
    <3>2. f[q[i]] \in Nat /\ g[q[i]] \in Nat /\ f[x] \in Nat /\ g[x] \in Nat
      BY <1>1
    <3>3. /\ e[i] = IF i < k THEN h[i] ELSE h[i] - f[x] + g[x]
          /\ e[i - 1] = IF i - 1 < k THEN h[i - 1] ELSE h[i - 1] - f[x] + g[x]
      <4>1. i \in 0..n /\ i - 1 \in 0..n
        BY <1>1
      <4> QED BY <4>1
    <3>4. i # k => g[q[i]] = f[q[i]]
      BY <1>1, <2>2
    <3> HIDE DEF e
    <3>5. CASE i < k
      <4>1. i - 1 < k
        BY <1>1, <2>1, <3>5
      <4> QED BY <3>1, <3>3, <3>4, <3>5, <4>1
    <3>6. CASE i = k
      <4>1. i - 1 < k /\ ~(i < k)
        BY <1>1, <2>1, <3>6
      <4>2. e[i] = h[i] - f[x] + g[x] /\ e[i - 1] = h[i - 1]
        BY <3>3, <4>1
      <4>3. q[i] = x
        BY <2>1, <3>6
      <4> QED BY <3>1, <3>2, <4>2, <4>3
    <3>7. CASE i > k
      <4>1. ~(i - 1 < k) /\ ~(i < k)
        BY <1>1, <2>1, <3>7
      <4>2. e[i] = h[i] - f[x] + g[x] /\ e[i - 1] = h[i - 1] - f[x] + g[x]
        BY <3>3, <4>1
      <4>3. g[q[i]] = f[q[i]]
        BY <1>1, <2>1, <3>4, <3>7
      <4> QED BY SMTT(30), <3>1, <3>2, <4>2, <4>3
    <3> QED BY <1>1, <2>1, <3>5, <3>6, <3>7
  <2> HIDE DEF e
  <2>5. Total(q, g) = e[n]
    BY <1>3, <2>3, <2>4, TotalIs DEF n
  <2> QED BY <1>1, <1>2, <1>5, <2>3, <2>5
<1> QED BY <1>4, <1>5

-----------------------------------------------------------------------------
(* Queues behind each other *)

LEMMA AppendConcat ==
    ASSUME NEW S, NEW p \in Seq(S), NEW q \in Seq(S), NEW x \in S
    PROVE  p \o Append(q, x) = Append(p \o q, x)
<1>1. <<x>> \in Seq(S) /\ p \o q \in Seq(S)
  BY ConcatProperties
<1>2. Append(q, x) = q \o <<x>> /\ Append(p \o q, x) = (p \o q) \o <<x>>
  BY <1>1, AppendIsConcat
<1> QED BY <1>1, <1>2, ConcatAssociative

LEMMA TailConcat ==
    ASSUME NEW S, NEW p \in Seq(S), NEW q \in Seq(S), p # <<>>
    PROVE  /\ p \o q # <<>> /\ Head(p \o q) = Head(p)
           /\ Tail(p \o q) = Tail(p) \o q
<1> DEFINE a == p \o q
           t == Tail(p)
<1>1. /\ a \in Seq(S) /\ Len(a) = Len(p) + Len(q)
      /\ \A i \in 1..(Len(p) + Len(q)) : a[i] = IF i <= Len(p) THEN p[i] ELSE q[i - Len(p)]
  BY ConcatProperties
<1>2. Len(p) \in Nat /\ Len(p) >= 1 /\ Len(q) \in Nat
  BY EmptySeq, LenProperties
<1>3. a # <<>>
  BY <1>1, <1>2, EmptySeq
<1>4. /\ t \in Seq(S) /\ Len(t) = Len(p) - 1
      /\ \A i \in 1..Len(t) : t[i] = p[i + 1]
  BY HeadTailProperties
<1>5. /\ Tail(a) \in Seq(S) /\ Len(Tail(a)) = Len(a) - 1
      /\ \A i \in 1..Len(Tail(a)) : Tail(a)[i] = a[i + 1]
  BY <1>1, <1>3, HeadTailProperties
<1>6. /\ t \o q \in Seq(S) /\ Len(t \o q) = Len(t) + Len(q)
      /\ \A i \in 1..(Len(t) + Len(q)) : (t \o q)[i] = IF i <= Len(t) THEN t[i] ELSE q[i - Len(t)]
  BY <1>4, ConcatProperties
<1>7. Head(a) = Head(p)
  BY <1>1, <1>2, <1>3
<1> HIDE DEF a, t
<1>8. ASSUME NEW i \in 1..Len(Tail(a)) PROVE Tail(a)[i] = (t \o q)[i]
  <2>1. CASE i <= Len(t)
    BY <1>1, <1>2, <1>4, <1>5, <1>6, <2>1
  <2>2. CASE i > Len(t)
    <3>1. i + 1 \in 1..(Len(p) + Len(q)) /\ ~(i + 1 <= Len(p)) /\ i + 1 - Len(p) = i - Len(t)
      BY <1>1, <1>2, <1>4, <1>5, <2>2
    <3>2. Tail(a)[i] = q[i + 1 - Len(p)]
      BY <1>1, <1>5, <3>1
    <3>3. i \in 1..(Len(t) + Len(q)) /\ ~(i <= Len(t))
      BY <1>1, <1>2, <1>4, <1>5, <2>2
    <3> QED BY <1>6, <3>1, <3>2, <3>3
  <2> QED BY <1>1, <1>2, <1>4, <1>5, <2>1, <2>2
<1>9. Tail(a) = t \o q
  <2>1. Len(Tail(a)) = Len(t \o q)
    BY <1>1, <1>2, <1>4, <1>5, <1>6
  <2> QED BY <1>5, <1>6, <1>8, <2>1, SeqEqual
<1> QED BY <1>3, <1>7, <1>9 DEF a, t

\* Three queues, one behind the other.
LEMMA ThreeQueues ==
    ASSUME NEW S, NEW p \in Seq(S), NEW q \in Seq(S), NEW r \in Seq(S)
    PROVE  /\ p \o q \in Seq(S) /\ p \o q \o r \in Seq(S)
           /\ Len(p \o q \o r) = Len(p) + Len(q) + Len(r)
           /\ \A y : Contains(p \o q \o r, y) <=> Contains(p, y) \/ Contains(q, y) \/ Contains(r, y)
           /\ Distinct(p \o q \o r) => \A y \in S : /\ Contains(p, y) => ~Contains(q, y) /\ ~Contains(r, y)
                                                   /\ Contains(q, y) => ~Contains(r, y)
           /\ Distinct(p \o q \o r) => Distinct(p) /\ Distinct(q) /\ Distinct(r)
<1> DEFINE s == p \o q
<1>1. /\ s \in Seq(S) /\ Len(s) = Len(p) + Len(q)
      /\ \A y : Contains(s, y) <=> Contains(p, y) \/ Contains(q, y)
      /\ Distinct(s) <=> /\ Distinct(p) /\ Distinct(q)
                         /\ \A y \in S : ~(Contains(p, y) /\ Contains(q, y))
  BY ConcatQueue, ConcatProperties
<1> HIDE DEF s
<1>2. /\ s \o r \in Seq(S) /\ Len(s \o r) = Len(s) + Len(r)
      /\ \A y : Contains(s \o r, y) <=> Contains(s, y) \/ Contains(r, y)
      /\ Distinct(s \o r) <=> /\ Distinct(s) /\ Distinct(r)
                              /\ \A y \in S : ~(Contains(s, y) /\ Contains(r, y))
  <2>1. Len(s \o r) = Len(s) + Len(r)
    BY <1>1, ConcatProperties
  <2> QED BY <1>1, <2>1, ConcatQueue
<1>3. p \o q \o r = s \o r
  BY DEF s
<1>4. p \o q \in Seq(S) /\ s \o r \in Seq(S) /\ Len(s \o r) = Len(p) + Len(q) + Len(r)
  BY <1>1, <1>2 DEF s
<1>5. \A y : Contains(s \o r, y) <=> Contains(p, y) \/ Contains(q, y) \/ Contains(r, y)
  BY <1>1, <1>2
<1> QED BY <1>1, <1>2, <1>3, <1>4, <1>5

\* Who waits in the first queue waits in no other.
LEMMA ThreeApart ==
    ASSUME NEW S, NEW p \in Seq(S), NEW q \in Seq(S), NEW r \in Seq(S),
           Distinct(p \o q \o r), NEW y \in S
    PROVE  /\ Contains(p, y) => ~Contains(q, y) /\ ~Contains(r, y)
           /\ Contains(q, y) => ~Contains(r, y)
<1>1. /\ p \o q \in Seq(S) /\ Distinct(p \o q) /\ ~(Contains(p \o q, y) /\ Contains(r, y))
      /\ Contains(p \o q, y) <=> Contains(p, y) \/ Contains(q, y)
  <2>1. p \o q \in Seq(S) /\ (Contains(p \o q, y) <=> Contains(p, y) \/ Contains(q, y))
    BY ConcatQueue
  <2>2. Distinct(p \o q) /\ ~(Contains(p \o q, y) /\ Contains(r, y))
    BY <2>1, ConcatQueue
  <2> QED BY <2>1, <2>2
<1>2. ~(Contains(p, y) /\ Contains(q, y))
  BY <1>1, ConcatQueue
<1> QED BY <1>1, <1>2
=============================================================================
