-------------------------- MODULE DataStructureProofs --------------------------
(***************************************************************************)
(* What the operations of data_structures.c do, for every memory size and  *)
(* every queue.  On queues: where their elements are.  On a well-formed    *)
(* buddy tree: it stays well formed, Allocate adds one leaf, Deallocate    *)
(* removes one, two leaves are apart, and Allocate finds the spots that    *)
(* are large enough.                                                       *)
(***************************************************************************)
EXTENDS BuddyTree, Queues, SequenceTheorems, WellFoundedInduction, TLAPS

-----------------------------------------------------------------------------
(* Queues.                                                                 *)

(* r is q with x put in at position k.                                     *)
PutAt(q, r, x, k) ==
  /\ k \in 1 .. Len(q) + 1
  /\ Len(r) = Len(q) + 1
  /\ r[k] = x
  /\ \A i \in 1 .. Len(q) :
       /\ i < k => r[i] = q[i]
       /\ i >= k => r[i + 1] = q[i]

PutIn(q, r, x) == \E k \in 1 .. Len(q) + 1 : PutAt(q, r, x, k)

Distinct(q) == \A i, j \in 1 .. Len(q) : q[i] = q[j] => i = j

SortedBy(q, key) == \A i, j \in 1 .. Len(q) : i <= j => key[q[i]] <= key[q[j]]

-----------------------------------------------------------------------------
(* A set of numbers has a least element.                                   *)
LEMMA LeastElement ==
  ASSUME NEW M, M \subseteq Nat, M # {}
  PROVE  Min(M) \in M /\ \A m \in M : Min(M) <= m
<1> DEFINE R == {ss \in Nat \X Nat : ss[1] < ss[2]}
<1>1. IsWellFoundedOn(R, Nat)
  BY NatLessThanWellFounded DEF OpToRel
<1> HIDE DEF R
<1>2. PICK x \in M : \A y \in M : ~ (<<y, x>> \in R)
  BY <1>1, WFMin
<1>3. ASSUME NEW y \in M PROVE x <= y
  <2>1. x \in Nat /\ y \in Nat
    OBVIOUS
  <2>2. y < x => <<y, x>> \in R
    BY <2>1 DEF R
  <2>3. QED
    BY <1>2, <2>1, <2>2
<1>4. QED
  BY <1>2, <1>3 DEF Min

(* InsertAt of the library puts one element in.                            *)
LEMMA InsertAtPuts ==
  ASSUME NEW S, NEW q \in Seq(S), NEW x \in S, NEW k \in 1 .. Len(q) + 1
  PROVE  InsertAt(q, k, x) \in Seq(S) /\ PutAt(q, InsertAt(q, k, x), x, k)
<1> DEFINE a == SubSeq(q, 1, k - 1)
           b == SubSeq(q, k, Len(q))
<1>1. k \in Int /\ Len(q) \in Nat /\ k - 1 \in Int
  BY LenProperties
<1>2. /\ a \in Seq(S) /\ Len(a) = k - 1
      /\ \A i \in 1 .. k - 1 : a[i] = q[i]
  BY <1>1, SubSeqProperties, ElementOfSeq, k - 1 <= Len(q)
<1>3. /\ b \in Seq(S) /\ Len(b) = Len(q) - k + 1
      /\ \A i \in 1 .. Len(q) - k + 1 : b[i] = q[k + i - 1]
  BY <1>1, SubSeqProperties, ElementOfSeq
<1>4. /\ <<x>> \in Seq(S) /\ Len(<<x>>) = 1 /\ <<x>>[1] = x
  OBVIOUS
<1> HIDE DEF a, b
<1> DEFINE c == a \o <<x>>
<1>5. /\ c \in Seq(S) /\ Len(c) = k /\ c[k] = x
      /\ \A i \in 1 .. k - 1 : c[i] = q[i]
  BY <1>1, <1>2, <1>4, ConcatProperties
<1> HIDE DEF c
<1> DEFINE r == c \o b
<1>6. /\ r \in Seq(S) /\ Len(r) = Len(q) + 1
      /\ \A i \in 1 .. Len(q) + 1 : r[i] = IF i <= k THEN c[i] ELSE b[i - k]
  <2>1. /\ r \in Seq(S) /\ Len(r) = Len(c) + Len(b)
        /\ \A i \in 1 .. Len(c) + Len(b) :
             r[i] = IF i <= Len(c) THEN c[i] ELSE b[i - Len(c)]
    BY <1>3, <1>5, ConcatProperties
  <2>2. Len(c) = k /\ Len(c) + Len(b) = Len(q) + 1
    BY <1>1, <1>3, <1>5
  <2> HIDE DEF r
  <2>3. QED
    BY <2>1, <2>2
<1>7. r[k] = x
  BY <1>1, <1>5, <1>6
<1> HIDE DEF r
<1>8. \A i \in 1 .. Len(q) : i < k => r[i] = q[i]
  BY <1>1, <1>5, <1>6
<1>9. ASSUME NEW i \in 1 .. Len(q), i >= k
      PROVE  r[i + 1] = q[i]
  <2>1. i + 1 - k \in 1 .. Len(q) - k + 1 /\ k + (i + 1 - k) - 1 = i
    BY <1>1, <1>9
  <2>2. b[i + 1 - k] = q[i]
    BY <1>3, <2>1
  <2>3. i + 1 \in 1 .. Len(q) + 1 /\ ~(i + 1 <= k)
    BY <1>1, <1>9
  <2>4. r[i + 1] = b[i + 1 - k]
    BY <1>6, <2>3
  <2>5. QED
    BY <2>2, <2>4
<1>10. InsertAt(q, k, x) = r
  BY DEF InsertAt, r, c, a, b
<1>11. QED
  BY <1>6, <1>7, <1>8, <1>9, <1>10 DEF PutAt

(* Putting in and taking out, seen from the elements.                      *)
LEMMA PutInFacts ==
  ASSUME NEW S, NEW q \in Seq(S), NEW r \in Seq(S), NEW x \in S, PutIn(q, r, x)
  PROVE  /\ Len(r) = Len(q) + 1
         /\ \A y : Contains(r, y) <=> Contains(q, y) \/ y = x
         /\ Distinct(r) <=> Distinct(q) /\ ~Contains(q, x)
<1>1. PICK k \in 1 .. Len(q) + 1 : PutAt(q, r, x, k)
  BY DEF PutIn
<1>2. /\ k \in Int /\ Len(q) \in Nat /\ Len(r) = Len(q) + 1
      /\ k \in 1 .. Len(r) /\ r[k] = x
      /\ \A i \in 1 .. Len(q) : i < k => r[i] = q[i]
      /\ \A i \in 1 .. Len(q) : i >= k => r[i + 1] = q[i]
  BY <1>1, LenProperties DEF PutAt
<1> DEFINE to(i) == IF i < k THEN i ELSE i + 1
<1>3. ASSUME NEW i \in 1 .. Len(q)
      PROVE  to(i) \in 1 .. Len(r) /\ to(i) # k /\ r[to(i)] = q[i]
  BY <1>2
<1>4. ASSUME NEW j \in 1 .. Len(r), j # k
      PROVE  \E i \in 1 .. Len(q) : to(i) = j
  <2>1. CASE j < k
    <3>1. j \in 1 .. Len(q) /\ to(j) = j
      BY <1>2, <2>1
    <3>2. QED
      BY <3>1
  <2>2. CASE j > k
    <3>1. j - 1 \in 1 .. Len(q) /\ to(j - 1) = j
      BY <1>2, <2>2
    <3>2. QED
      BY <3>1
  <2>3. QED
    BY <1>2, <1>4, <2>1, <2>2
<1>5. \A i, j \in 1 .. Len(q) : to(i) = to(j) => i = j
  BY <1>2
<1> HIDE DEF to
<1>6. ASSUME NEW y PROVE Contains(r, y) <=> Contains(q, y) \/ y = x
  <2>1. ASSUME NEW j \in 1 .. Len(r), r[j] = y
        PROVE  Contains(q, y) \/ y = x
    <3>1. CASE j = k
      BY <1>2, <2>1, <3>1
    <3>2. CASE j # k
      <4>1. PICK i \in 1 .. Len(q) : to(i) = j
        BY <1>4, <3>2
      <4>2. q[i] = y
        BY <1>3, <2>1, <4>1
      <4>3. QED
        BY <4>2 DEF Contains
    <3>3. QED
      BY <3>1, <3>2
  <2>2. ASSUME NEW i \in 1 .. Len(q), q[i] = y
        PROVE  Contains(r, y)
    BY <1>3, <2>2 DEF Contains
  <2>3. x = y => Contains(r, y)
    BY <1>2 DEF Contains
  <2>4. QED
    BY <2>1, <2>2, <2>3 DEF Contains
<1>7. ASSUME Distinct(r) PROVE Distinct(q) /\ ~Contains(q, x)
  BY <1>2, <1>3, <1>5, <1>7 DEF Distinct, Contains
<1>8. ASSUME Distinct(q), ~Contains(q, x) PROVE Distinct(r)
  <2>1. SUFFICES ASSUME NEW i \in 1 .. Len(r), NEW j \in 1 .. Len(r), r[i] = r[j]
                 PROVE  i = j
    BY DEF Distinct
  <2>2. \A l \in 1 .. Len(r) : r[l] = x => l = k
    BY <1>3, <1>4, <1>8 DEF Contains
  <2>3. CASE i # k /\ j # k
    <3>1. PICK a \in 1 .. Len(q) : to(a) = i
      BY <1>4, <2>3
    <3>2. PICK b \in 1 .. Len(q) : to(b) = j
      BY <1>4, <2>3
    <3>3. q[a] = q[b]
      BY <1>3, <2>1, <3>1, <3>2
    <3>4. a = b
      BY <1>8, <3>3 DEF Distinct
    <3>5. QED
      BY <3>1, <3>2, <3>4
  <2>4. QED
    BY <1>2, <2>1, <2>2, <2>3
<1>9. QED
  BY <1>2, <1>6, <1>7, <1>8

(* A sorted queue stays sorted without one of its elements.                *)
LEMMA SortedWithout ==
  ASSUME NEW S, NEW q \in Seq(S), NEW r \in Seq(S), NEW x \in S, PutIn(q, r, x),
         NEW key, SortedBy(r, key)
  PROVE  SortedBy(q, key)
<1>1. PICK k \in 1 .. Len(q) + 1 : PutAt(q, r, x, k)
  BY DEF PutIn
<1>2. /\ k \in Int /\ Len(q) \in Nat /\ Len(r) = Len(q) + 1
      /\ \A i \in 1 .. Len(q) : i < k => r[i] = q[i]
      /\ \A i \in 1 .. Len(q) : i >= k => r[i + 1] = q[i]
  BY <1>1, LenProperties DEF PutAt
<1>3. SUFFICES ASSUME NEW i \in 1 .. Len(q), NEW j \in 1 .. Len(q), i <= j
               PROVE  key[q[i]] <= key[q[j]]
  BY DEF SortedBy
<1> /\ i \in 1 .. Len(r) /\ j \in 1 .. Len(r) /\ i + 1 \in 1 .. Len(r) /\ j + 1 \in 1 .. Len(r)
    /\ i <= j /\ i + 1 <= j + 1 /\ i <= j + 1
  BY <1>2, <1>3
<1>4. CASE j < k
  <2>1. r[i] = q[i] /\ r[j] = q[j]
    BY <1>2, <1>3, <1>4
  <2>2. QED
    BY <2>1 DEF SortedBy
<1>5. CASE i >= k
  <2>1. r[i + 1] = q[i] /\ r[j + 1] = q[j]
    BY <1>2, <1>3, <1>5
  <2>2. QED
    BY <2>1 DEF SortedBy
<1>6. CASE i < k /\ j >= k
  <2>1. r[i] = q[i] /\ r[j + 1] = q[j]
    BY <1>2, <1>3, <1>6
  <2>2. QED
    BY <2>1 DEF SortedBy
<1>7. QED
  BY <1>2, <1>4, <1>5, <1>6

-----------------------------------------------------------------------------
(* The operations of a plain queue.                                        *)
LEMMA EnqueuePuts ==
  ASSUME NEW S, NEW q \in Seq(S), NEW x \in S
  PROVE  /\ enqueue(q, x) \in Seq(S) /\ enqueue(q, x) # <<>>
         /\ PutIn(q, enqueue(q, x), x)
         /\ Head(enqueue(q, x)) = IF q = <<>> THEN x ELSE Head(q)
<1> DEFINE r == Append(q, x)
<1>1. /\ r \in Seq(S) /\ r # <<>> /\ Len(r) = Len(q) + 1
      /\ \A i \in 1 .. Len(q) : r[i] = q[i]
      /\ r[Len(q) + 1] = x
      /\ Len(q) \in Nat
  BY AppendProperties, LenProperties
<1>2. Head(r) = IF q = <<>> THEN x ELSE Head(q)
  BY HeadTailAppend
<1> HIDE DEF r
<1>3. PutAt(q, r, x, Len(q) + 1)
  BY <1>1 DEF PutAt
<1>4. Len(q) + 1 \in 1 .. Len(q) + 1
  BY <1>1
<1>5. QED
  BY <1>1, <1>2, <1>3, <1>4 DEF PutIn, enqueue, r

(* dequeue takes the front out, and nothing from an empty queue.           *)
LEMMA DequeueTakes ==
  ASSUME NEW S, NEW q \in Seq(S)
  PROVE  /\ dequeue(q) \in Seq(S)
         /\ q # <<>> => /\ Head(q) \in S /\ Head(q) = q[1] /\ Contains(q, Head(q))
                        /\ PutIn(dequeue(q), q, Head(q))
         /\ q = <<>> => dequeue(q) = <<>>
<1>1. CASE q = <<>>
  BY <1>1 DEF dequeue
<1>2. CASE q # <<>>
  <2>1. /\ Tail(q) \in Seq(S) /\ Len(Tail(q)) = Len(q) - 1
        /\ \A i \in 1 .. Len(Tail(q)) : Tail(q)[i] = q[i + 1]
        /\ Head(q) \in S /\ Len(q) \in Nat /\ Len(q) >= 1
    BY <1>2, HeadTailProperties, EmptySeq, LenProperties
  <2>2. Head(q) = q[1]
    BY <1>2
  <2>3. PutAt(Tail(q), q, Head(q), 1)
    BY <2>1, <2>2 DEF PutAt
  <2>4. Contains(q, Head(q))
    BY <2>1, <2>2 DEF Contains
  <2>5. 1 \in 1 .. Len(Tail(q)) + 1
    BY <2>1
  <2>6. QED
    BY <1>2, <2>1, <2>2, <2>3, <2>4, <2>5 DEF PutIn, dequeue
<1>3. QED
  BY <1>1, <1>2

-----------------------------------------------------------------------------
(* The operations of a priority queue.                                     *)
LEMMA EnqueuePriorityPuts ==
  ASSUME NEW S, NEW q \in Seq(S), NEW x \in S, NEW key \in [S -> Int]
  PROVE  LET r == enqueuePriority(q, x, key)
         IN /\ r \in Seq(S) /\ PutIn(q, r, x)
            /\ SortedBy(q, key) => SortedBy(r, key)
<1> DEFINE r == enqueuePriority(q, x, key)
           first == q = <<>> \/ key[q[1]] >= key[x]
           later == {i \in 2 .. Len(q) : key[q[i]] > key[x]}
           k == IF first THEN 1 ELSE Min(later \cup {Len(q) + 1})
<1>1. /\ Len(q) \in Nat /\ key[x] \in Int
      /\ \A i \in 1 .. Len(q) : q[i] \in S /\ key[q[i]] \in Int
      /\ q # <<>> => 1 \in 1 .. Len(q)
  BY LenProperties, ElementOfSeq, EmptySeq
<1>2. /\ first => k = 1
      /\ ~first => /\ k \in later \cup {Len(q) + 1}
                   /\ \A m \in later \cup {Len(q) + 1} : k <= m
  <2>1. later \cup {Len(q) + 1} \subseteq Nat /\ later \cup {Len(q) + 1} # {}
    BY <1>1
  <2> HIDE DEF later, first
  <2>2. QED
    BY <2>1, LeastElement
<1>3. r = InsertAt(q, k, x)
  <2>1. CASE first
    <3>1. SubSeq(q, 1, 0) = <<>> /\ SubSeq(q, 1, Len(q)) = q
      BY SubSeqEmpty, SubSeqFull
    <3>2. <<x>> \in Seq(S) /\ <<>> \o <<x>> = <<x>>
      BY ConcatEmptySeq
    <3>3. r = <<x>> \o q
      BY <2>1 DEF enqueuePriority
    <3>4. InsertAt(q, 1, x) = <<x>> \o q
      BY <3>1, <3>2 DEF InsertAt
    <3>5. QED
      BY <1>2, <2>1, <3>3, <3>4
  <2>2. CASE ~first
    BY <2>2 DEF enqueuePriority
  <2>3. QED
    BY <2>1, <2>2
<1> HIDE DEF k, r
<1>4. k \in 1 .. Len(q) + 1
  BY <1>1, <1>2
<1>5. r \in Seq(S) /\ PutAt(q, r, x, k)
  BY <1>3, <1>4, InsertAtPuts
<1>6. ASSUME SortedBy(q, key) PROVE SortedBy(r, key)
  <2>1. ASSUME NEW i \in 1 .. Len(q)
        PROVE  /\ i < k => key[q[i]] <= key[x]
               /\ i >= k => key[x] <= key[q[i]]
    <3>1. CASE first
      <4>1. k = 1 /\ q # <<>> /\ key[q[1]] >= key[x]
        BY <1>1, <1>2, <3>1
      <4>2. key[q[1]] <= key[q[i]]
        BY <1>1, <1>6, <4>1 DEF SortedBy
      <4>3. QED
        BY <1>1, <4>1, <4>2
    <3>2. CASE ~first
      <4>1. CASE i < k
        <5>1. i = 1 => key[q[i]] <= key[x]
          BY <1>1, <3>2
        <5>2. i # 1 => i \in 2 .. Len(q) /\ i \notin later
          BY <1>1, <1>2, <1>4, <3>2, <4>1
        <5>3. QED
          BY <1>1, <1>4, <4>1, <5>1, <5>2
      <4>2. CASE i >= k
        <5>1. k \in later
          BY <1>1, <1>2, <1>4, <3>2, <4>2
        <5>2. key[q[k]] > key[x] /\ k \in 1 .. Len(q)
          BY <1>1, <5>1
        <5>3. key[q[k]] <= key[q[i]]
          BY <1>6, <4>2, <5>2 DEF SortedBy
        <5>4. QED
          BY <1>1, <1>4, <4>2, <5>2, <5>3
      <4>3. QED
        BY <1>1, <1>4, <4>1, <4>2
    <3>3. QED
      BY <3>1, <3>2
  <2>2. SUFFICES ASSUME NEW i \in 1 .. Len(r), NEW j \in 1 .. Len(r), i <= j
                 PROVE  key[r[i]] <= key[r[j]]
    BY DEF SortedBy
  <2>3. /\ Len(r) = Len(q) + 1 /\ r[k] = x
        /\ \A l \in 1 .. Len(q) : l < k => r[l] = q[l]
        /\ \A l \in 1 .. Len(q) : l >= k => r[l + 1] = q[l]
    BY <1>5 DEF PutAt
  <2>4. ASSUME NEW l \in 1 .. Len(r), l < k
        PROVE  l \in 1 .. Len(q) /\ r[l] = q[l]
    BY <1>1, <1>4, <2>3, <2>4
  <2>5. ASSUME NEW l \in 1 .. Len(r), l > k
        PROVE  l - 1 \in 1 .. Len(q) /\ l - 1 >= k /\ r[l] = q[l - 1]
    <3>1. l - 1 \in 1 .. Len(q) /\ l - 1 >= k /\ (l - 1) + 1 = l
      BY <1>1, <1>4, <2>3, <2>5
    <3>2. QED
      BY <2>3, <3>1
  <2>6. CASE i < k /\ j < k
    <3>1. r[i] = q[i] /\ r[j] = q[j] /\ i \in 1 .. Len(q) /\ j \in 1 .. Len(q)
      BY <2>4, <2>6
    <3>2. QED
      BY <1>6, <2>2, <3>1 DEF SortedBy
  <2>7. CASE i > k
    <3>1. /\ r[i] = q[i - 1] /\ r[j] = q[j - 1] /\ i - 1 <= j - 1
          /\ i - 1 \in 1 .. Len(q) /\ j - 1 \in 1 .. Len(q)
      BY <1>1, <1>4, <2>2, <2>3, <2>5, <2>7
    <3>2. QED
      BY <1>6, <3>1 DEF SortedBy
  <2>8. CASE i < k /\ j > k
    <3>1. /\ key[q[i]] <= key[x] /\ key[x] <= key[q[j - 1]]
          /\ r[i] = q[i] /\ r[j] = q[j - 1]
          /\ i \in 1 .. Len(q) /\ j - 1 \in 1 .. Len(q)
      BY <1>1, <1>4, <2>1, <2>4, <2>5, <2>8
    <3>2. QED
      BY <1>1, <3>1
  <2>9. CASE i < k /\ j = k
    <3>1. r[i] = q[i] /\ i \in 1 .. Len(q)
      BY <2>4, <2>9
    <3>2. QED
      BY <2>1, <2>3, <2>9, <3>1
  <2>10. CASE i = k /\ j > k
    <3>1. r[j] = q[j - 1] /\ j - 1 \in 1 .. Len(q) /\ j - 1 >= k
      BY <2>5, <2>10
    <3>2. QED
      BY <2>1, <2>3, <2>10, <3>1
  <2>11. CASE i = k /\ j = k
    BY <1>1, <2>3, <2>11
  <2>12. QED
    BY <1>1, <1>4, <2>2, <2>3, <2>6, <2>7, <2>8, <2>9, <2>10, <2>11
<1>7. PutIn(q, r, x)
  BY <1>4, <1>5 DEF PutIn
<1>8. QED
  BY <1>5, <1>6, <1>7 DEF r

(* removeNodePriority takes one node of the process out, if there is one.  *)
LEMMA RemoveNodeTakes ==
  ASSUME NEW S, NEW q \in Seq(S), NEW x \in S
  PROVE  LET r == removeNodePriority(q, x)
         IN /\ r \in Seq(S)
            /\ Contains(q, x) => PutIn(r, q, x)
            /\ ~Contains(q, x) => r = q
<1> DEFINE r == removeNodePriority(q, x)
           places == {i \in 1 .. Len(q) : q[i] = x}
           k == Min(places)
<1>1. Len(q) \in Nat /\ \A i \in 1 .. Len(q) : q[i] \in S
  BY LenProperties, ElementOfSeq
<1>2. CASE ~Contains(q, x)
  BY <1>2 DEF removeNodePriority, RemoveFirst, Contains
<1>3. CASE Contains(q, x)
  <2>1. places \subseteq Nat /\ places # {}
    BY <1>1, <1>3 DEF Contains
  <2>2. k \in 1 .. Len(q) /\ q[k] = x
    BY <2>1, LeastElement
  <2>3. r = SubSeq(q, 1, k - 1) \o SubSeq(q, k + 1, Len(q))
    BY <1>3, <2>1 DEF removeNodePriority, RemoveFirst, Contains, RemoveAt, SelectInSeq
  <2> HIDE DEF k, r, places
  <2> DEFINE a == SubSeq(q, 1, k - 1)
             b == SubSeq(q, k + 1, Len(q))
  <2>4. /\ a \in Seq(S) /\ Len(a) = k - 1
        /\ \A i \in 1 .. k - 1 : a[i] = q[i]
    <3>1. k - 1 \in Int /\ \A i \in 1 .. k - 1 : q[i] \in S /\ 1 + i - 1 = i
      BY <1>1, <2>2
    <3>2. k - 1 = 0 \/ 1 <= k - 1
      BY <1>1, <2>2
    <3>3. QED
      BY <2>2, <3>1, <3>2, SubSeqProperties
  <2>5. /\ b \in Seq(S) /\ Len(b) = Len(q) - k
        /\ \A i \in 1 .. Len(q) - k : b[i] = q[k + i]
    BY <1>1, <2>2, SubSeqProperties
  <2> HIDE DEF a, b
  <2>6. /\ r \in Seq(S) /\ Len(r) = Len(q) - 1
        /\ \A i \in 1 .. Len(q) - 1 : r[i] = IF i <= k - 1 THEN a[i] ELSE b[i - (k - 1)]
    <3>1. r = a \o b
      BY <2>3 DEF a, b
    <3>2. /\ r \in Seq(S) /\ Len(r) = Len(a) + Len(b)
          /\ \A i \in 1 .. Len(a) + Len(b) : r[i] = IF i <= Len(a) THEN a[i] ELSE b[i - Len(a)]
      BY <2>4, <2>5, <3>1, ConcatProperties
    <3>3. k \in Int /\ Len(a) + Len(b) = Len(q) - 1
      BY <1>1, <2>2, <2>4, <2>5
    <3>4. QED
      BY <2>4, <3>2, <3>3
  <2>7. ASSUME NEW i \in 1 .. Len(r)
        PROVE  /\ i < k => q[i] = r[i]
               /\ i >= k => q[i + 1] = r[i]
    <3>1. CASE i < k
      BY <1>1, <2>2, <2>4, <2>6, <3>1
    <3>2. CASE i >= k
      <4>1. r[i] = b[i - (k - 1)] /\ i - (k - 1) \in 1 .. Len(q) - k /\ k + (i - (k - 1)) = i + 1
        BY <1>1, <2>2, <2>6, <3>2
      <4>2. QED
        BY <1>1, <2>2, <2>5, <3>2, <4>1
    <3>3. QED
      BY <1>1, <2>2, <3>1, <3>2
  <2>8. Len(q) = Len(r) + 1 /\ k \in 1 .. Len(r) + 1
    BY <1>1, <2>2, <2>6
  <2>9. PutAt(r, q, x, k)
    BY <2>2, <2>7, <2>8 DEF PutAt
  <2>10. QED
    BY <1>3, <2>6, <2>8, <2>9 DEF PutIn, r
<1>4. QED
  BY <1>2, <1>3

-----------------------------------------------------------------------------
(* The first occupied level is -1 only if there is none.                   *)
LEMMA FirstOccupied ==
  ASSUME NEW mlq, DOMAIN mlq \subseteq Nat
  PROVE  LET level == multiLevelisEmpty(mlq)
         IN /\ level = -1 <=> \A l \in DOMAIN mlq : mlq[l] = <<>>
            /\ level # -1 => /\ level \in DOMAIN mlq /\ mlq[level] # <<>>
                             /\ \A l \in DOMAIN mlq : mlq[l] # <<>> => level <= l
<1> DEFINE occupied == {l \in DOMAIN mlq : mlq[l] # <<>>}
<1>1. occupied \subseteq Nat
  OBVIOUS
<1>2. occupied # {} => Min(occupied) \in occupied /\ \A l \in occupied : Min(occupied) <= l
  <2> HIDE DEF occupied
  <2>1. QED
    BY <1>1, LeastElement
<1>3. Min(occupied) \in Nat => Min(occupied) # -1
  OBVIOUS
<1>4. CASE occupied = {}
  BY <1>4 DEF multiLevelisEmpty
<1>5. CASE occupied # {}
  <2>1. multiLevelisEmpty(mlq) = Min(occupied)
    BY <1>5 DEF multiLevelisEmpty
  <2>2. QED
    BY <1>1, <1>2, <1>3, <1>5, <2>1
<1>6. QED
  BY <1>4, <1>5

-----------------------------------------------------------------------------
(* The buddy tree.                                                         *)

(* Halving a span that is not 1 gives a span, and loses nothing.           *)
LEMMA Halving ==
  ASSUME NEW s \in Spans
  PROVE  /\ s \in Nat /\ s >= 1 /\ s <= 2 * MemorySize
         /\ s # 1 => s \div 2 \in Spans /\ s = 2 * (s \div 2)
         /\ s \div 2 < s
BY BuddyAssumption

(* The numbers a node is made of.                                          *)
LEMMA NodeFields ==
  ASSUME NEW n \in Node
  PROVE  n.span \in Spans /\ n.span \in Nat /\ n.span >= 1 /\ n.pos \in Nat
<1>1. n.span \in Spans /\ n.pos \in 0 .. 2 * MemorySize
  BY DEF Node
<1>2. n.span \in Nat /\ n.span >= 1
  BY <1>1, Halving
<1>3. n.pos \in Nat
  BY <1>1, BuddyAssumption
<1>4. QED
  BY <1>1, <1>2, <1>3

(* A node is determined by its interval.                                   *)
LEMMA SameInterval ==
  ASSUME NEW m \in Node, NEW n \in Node, Within(m, n), Within(n, m)
  PROVE  m = n
<1>1. m.pos = n.pos /\ m.span = n.span
  BY NodeFields DEF Within
<1>2. QED
  BY <1>1 DEF Node

(* Nesting is transitive, and what is inside two blocks keeps them from    *)
(* being apart.                                                            *)
LEMMA WithinTrans ==
  ASSUME NEW a \in Node, NEW b \in Node, NEW c \in Node
  PROVE  /\ Within(a, b) /\ Within(b, c) => Within(a, c)
         /\ Within(a, a)
         /\ Within(a, b) /\ Within(a, c) => ~Apart(b, c)
         /\ Within(a, b) /\ Apart(b, c) => Apart(a, c)
         /\ Apart(b, c) => Apart(c, b)
BY NodeFields DEF Within, Apart

(* The halves of a node that has a child in the tree are nodes inside it,  *)
(* and they are apart.                                                     *)
LEMMA Halves ==
  ASSUME NEW t, WellFormed(t), NEW n \in t, IsInternal(t, n)
  PROVE  /\ n.span # 1
         /\ Left(n) \in Node /\ Right(n) \in Node
         /\ Within(Left(n), n) /\ Within(Right(n), n)
         /\ Apart(Left(n), Right(n)) /\ Apart(Right(n), Left(n))
         /\ Left(n).span = n.span \div 2 /\ Right(n).span = n.span \div 2
<1>1. n \in Node /\ Within(n, Root)
  BY DEF WellFormed
<1>2. n.span \div 2 \in Spans
  BY DEF IsInternal, WellFormed, Node, Left, Right
<1>3. n.span # 1
  BY <1>2, BuddyAssumption
<1>4. /\ n.span = 2 * (n.span \div 2)
      /\ n.span \in Nat /\ n.pos \in Nat
      /\ n.pos + n.span <= 2 * MemorySize
  <2>1. n.span \in Spans /\ n.span \in Nat /\ n.pos \in Nat
    BY <1>1, NodeFields
  <2>2. n.span = 2 * (n.span \div 2)
    BY <2>1, <1>3, BuddyAssumption
  <2>3. n.pos + n.span <= 0 + 2 * MemorySize
    BY <1>1 DEF Within, Root
  <2>4. QED
    BY <2>1, <2>2, <2>3, BuddyAssumption
<1>5. n.span \div 2 \in Nat /\ n.span \div 2 >= 1
  BY <1>2, Halving
<1>6. Left(n) \in Node /\ Right(n) \in Node
  BY <1>2, <1>4, <1>5, BuddyAssumption DEF Node, Left, Right
<1>7. QED
  BY <1>3, <1>4, <1>5, <1>6 DEF Left, Right, Within, Apart

(* Two leaves are apart.                                                   *)
LEMMA LeavesApart ==
  ASSUME NEW t, WellFormed(t), NEW a \in Leaves(t), NEW b \in Leaves(t), a # b
  PROVE  Apart(a, b)
<1>1. a \in t /\ b \in t /\ ~IsInternal(t, a) /\ ~IsInternal(t, b)
  BY DEF Leaves
<1>2. ~Within(a, b)
  BY <1>1 DEF WellFormed, Linked, IsInternal
<1>3. ~Within(b, a)
  BY <1>1 DEF WellFormed, Linked, IsInternal
<1>4. QED
  BY <1>1, <1>2, <1>3 DEF WellFormed, Nested

-----------------------------------------------------------------------------
(* A spot is a free block: a node not in the tree, around which the nodes  *)
(* of the tree either lie apart from it or contain it, the latter with a   *)
(* child (perhaps the spot itself) that contains it as well.               *)
LEMMA SpotIsFree ==
  ASSUME NEW t, WellFormed(t), NEW c \in Spots(t)
  PROVE  /\ c \in Node \ t /\ Within(c, Root)
         /\ \A m \in t : Within(c, m) \/ Apart(m, c)
         /\ \A m \in t : Within(c, m) =>
              /\ IsInternal(t, m)
              /\ \E d \in {Left(m), Right(m)} : d \in t \cup {c} /\ Within(c, d)
<1>1. CASE t = {}
  <2>1. c = Root
    BY <1>1 DEF Spots
  <2>2. Root \in Node /\ Within(Root, Root)
    BY BuddyAssumption DEF Root, Node, Within
  <2>3. QED
    BY <1>1, <2>1, <2>2
<1>2. CASE t # {}
  <2>1. PICK n \in Internal(t) : c \in {Left(n), Right(n)} \ t
    <3>1. c \in UNION {{Left(n), Right(n)} : n \in Internal(t)} /\ c \notin t
      BY <1>2 DEF Spots
    <3>2. \E n \in Internal(t) : c \in {Left(n), Right(n)}
      BY <3>1, Zenon
    <3>3. QED
      BY <3>1, <3>2
  <2>2. n \in t /\ IsInternal(t, n) /\ n \in Node
    BY <2>1 DEF Internal, WellFormed
  <2>3. PICK d \in {Left(n), Right(n)} : d \in t
    BY <2>2 DEF IsInternal
  <2>4. d # c /\ Apart(d, c) /\ Within(c, n) /\ c \in Node /\ d \in Node
    BY <2>1, <2>2, <2>3, Halves
  <2>5. Root \in Node /\ Within(n, Root)
    BY <2>2, BuddyAssumption DEF Root, Node, WellFormed
  <2>6. Within(c, Root)
    BY <2>2, <2>4, <2>5, WithinTrans
  <2>7. ASSUME NEW m \in t
        PROVE  \/ Apart(m, c) /\ ~Within(c, m)
               \/ Within(n, m)
    <3>1. m \in Node
      BY DEF WellFormed
    <3>2. Within(m, n) \/ Within(n, m) \/ Apart(m, n)
      BY <2>2 DEF WellFormed, Nested
    <3>3. CASE Within(n, m)
      BY <3>3
    <3>4. CASE Apart(m, n)
      BY <2>2, <2>4, <3>1, <3>4, WithinTrans
    <3>5. CASE Within(m, n) /\ m # n
      <4>1. PICK e \in {Left(n), Right(n)} : e \in t /\ Within(m, e)
        BY <2>2, <3>5 DEF WellFormed, Linked
      <4>2. e = d
        BY <2>1, <2>3, <4>1
      <4>3. Apart(m, c)
        BY <2>4, <3>1, <4>1, <4>2, WithinTrans
      <4>4. ~Within(c, m)
        BY <2>4, <3>1, <4>3, NodeFields DEF Within, Apart
      <4>5. QED
        BY <4>3, <4>4
    <3>6. CASE m = n
      BY <2>2, <3>6, WithinTrans
    <3>7. QED
      BY <3>2, <3>3, <3>4, <3>5, <3>6
  <2>8. ASSUME NEW m \in t, Within(c, m)
        PROVE  /\ IsInternal(t, m)
               /\ \E e \in {Left(m), Right(m)} : e \in t \cup {c} /\ Within(c, e)
    <3>1. m \in Node /\ Within(n, m)
      BY <2>4, <2>7, <2>8 DEF WellFormed
    <3>2. CASE m = n
      BY <2>1, <2>2, <2>4, <3>2, WithinTrans
    <3>3. CASE m # n
      <4>1. PICK e \in {Left(m), Right(m)} : e \in t /\ Within(n, e)
        BY <2>2, <3>1, <3>3 DEF WellFormed, Linked
      <4>2. e \in Node /\ Within(c, e)
        BY <2>2, <2>4, <4>1, WithinTrans DEF WellFormed
      <4>3. QED
        BY <4>1, <4>2 DEF IsInternal
    <3>4. QED
      BY <3>2, <3>3
  <2>9. ASSUME NEW m \in t
        PROVE  Within(c, m) \/ Apart(m, c)
    BY <2>2, <2>4, <2>7, WithinTrans DEF WellFormed
  <2>10. QED
    BY <2>1, <2>4, <2>6, <2>8, <2>9
<1>3. QED
  BY <1>1, <1>2

-----------------------------------------------------------------------------
(* The chain from a node c down to span sp: nested nodes inside c, the     *)
(* block of span sp at the end, every other one with its left child.       *)
LEMMA ChainNodes ==
  ASSUME NEW c \in Node, NEW sp \in Spans, sp <= c.span
  PROVE  /\ \A k \in Chain(c, sp) :
              k \in Node /\ Within(k, c) /\ k.pos = c.pos /\ sp <= k.span
         /\ [span |-> sp, pos |-> c.pos] \in Chain(c, sp)
         /\ c \in Chain(c, sp)
         /\ \A a, b \in Chain(c, sp) : Within(a, b) \/ Within(b, a)
         /\ \A a, b \in Chain(c, sp) :
              a # b /\ Within(a, b) => Left(b) \in Chain(c, sp) /\ Within(a, Left(b))
         /\ \A k \in Chain(c, sp) : k.span # sp => Left(k) \in Chain(c, sp)
<1>1. c.span \in Spans /\ c.pos \in 0 .. 2 * MemorySize /\ c = [span |-> c.span, pos |-> c.pos]
  BY DEF Node
<1>2. c.span \in Nat /\ c.pos \in Nat /\ sp \in Nat /\ sp >= 1
  BY NodeFields, Halving
<1>3. ASSUME NEW s \in Spans, sp <= s, s <= c.span
      PROVE  [span |-> s, pos |-> c.pos] \in Chain(c, sp)
  BY <1>3 DEF Chain
<1>4. ASSUME NEW k \in Chain(c, sp)
      PROVE  /\ k.span \in Spans /\ sp <= k.span /\ k.span <= c.span
             /\ k = [span |-> k.span, pos |-> c.pos]
             /\ k \in Node /\ k.pos = c.pos
             /\ k.span \in Nat /\ k.span >= 1
  <2>1. PICK s \in Spans : sp <= s /\ s <= c.span /\ k = [span |-> s, pos |-> c.pos]
    BY DEF Chain
  <2>2. s \in Nat /\ s >= 1
    BY Halving
  <2>3. QED
    BY <1>1, <2>1, <2>2 DEF Node
<1>5. ASSUME NEW k \in Chain(c, sp)
      PROVE  k \in Node /\ Within(k, c) /\ k.pos = c.pos /\ sp <= k.span
  BY <1>2, <1>4 DEF Within
<1>6. ASSUME NEW a \in Chain(c, sp), NEW b \in Chain(c, sp)
      PROVE  Within(a, b) <=> a.span <= b.span
  BY <1>2, <1>4 DEF Within
<1>7. ASSUME NEW k \in Chain(c, sp), NEW s \in Spans, sp <= s, s < k.span
      PROVE  Left(k) \in Chain(c, sp) /\ s <= Left(k).span
  <2>1. k.span \in Spans /\ k.span <= c.span /\ k.span \in Nat /\ k.pos = c.pos
    BY <1>4
  <2>2. s \in Nat /\ s >= 1
    BY Halving
  <2>3. k.span # 1
    BY <1>7, <2>1, <2>2
  <2>4. s <= k.span \div 2
    BY <1>7, <2>1, BuddyAssumption
  <2>5. k.span \div 2 \in Spans /\ k.span \div 2 \in Nat /\ k.span \div 2 <= k.span
    BY <2>1, <2>3, Halving
  <2>6. sp <= k.span \div 2 /\ k.span \div 2 <= c.span
    BY <1>2, <1>7, <2>1, <2>2, <2>4, <2>5
  <2>7. QED
    BY <1>3, <2>1, <2>4, <2>5, <2>6 DEF Left
<1>8. ASSUME NEW a \in Chain(c, sp), NEW b \in Chain(c, sp), a # b, Within(a, b)
      PROVE  Left(b) \in Chain(c, sp) /\ Within(a, Left(b))
  <2>1. a.span <= b.span /\ a.span # b.span
    BY <1>4, <1>6, <1>8
  <2>2. a.span \in Spans /\ sp <= a.span /\ a.span < b.span
    BY <1>4, <2>1
  <2>3. QED
    BY <1>6, <1>7, <2>2
<1>9. ASSUME NEW k \in Chain(c, sp), k.span # sp
      PROVE  Left(k) \in Chain(c, sp)
  BY <1>2, <1>4, <1>7, <1>9
<1>10. ASSUME NEW a \in Chain(c, sp), NEW b \in Chain(c, sp)
       PROVE  Within(a, b) \/ Within(b, a)
  BY <1>4, <1>6
<1>11. [span |-> sp, pos |-> c.pos] \in Chain(c, sp) /\ c \in Chain(c, sp)
  BY <1>1, <1>2, <1>3
<1>12. QED
  BY <1>5, <1>8, <1>9, <1>10, <1>11

(* How the nodes of a new chain lie with respect to the tree: a tree node  *)
(* contains the spot or is apart from the whole chain.                     *)
LEMMA ChainInTree ==
  ASSUME NEW t, WellFormed(t), NEW c \in Spots(t), NEW sp \in Spans, sp <= c.span,
         NEW k \in Chain(c, sp), NEW m \in t
  PROVE  /\ Within(k, m) \/ Apart(m, k)
         /\ Within(k, m) => Within(c, m)
         /\ ~Within(m, k)
<1>1. c \in Node /\ c \notin t /\ (Within(c, m) \/ Apart(m, c))
  BY SpotIsFree
<1>2. k \in Node /\ Within(k, c)
  BY <1>1, ChainNodes
<1>3. m \in Node
  BY DEF WellFormed
<1>4. Within(c, m) => Within(k, m)
  BY <1>1, <1>2, <1>3, WithinTrans
<1>5. Apart(m, c) => Apart(m, k) /\ ~Within(k, m)
  BY <1>1, <1>2, <1>3, WithinTrans
<1>6. ~Within(m, k)
  <2>1. SUFFICES ASSUME Within(m, k) PROVE FALSE
    OBVIOUS
  <2>2. Within(m, c)
    BY <1>1, <1>2, <1>3, <2>1, WithinTrans
  <2>3. ~Apart(m, c)
    BY <1>1, <1>3, <2>2, WithinTrans
  <2>4. m = c
    BY <1>1, <1>3, <2>2, <2>3, SameInterval
  <2>5. QED
    BY <1>1, <2>4
<1>7. QED
  BY <1>1, <1>4, <1>5, <1>6

-----------------------------------------------------------------------------
(* Growing a well-formed tree by a chain keeps it well formed.             *)
LEMMA GrowWellFormed ==
  ASSUME NEW t, WellFormed(t), NEW c \in Spots(t), NEW sp \in Spans, sp <= c.span
  PROVE  WellFormed(t \cup Chain(c, sp))
<1> DEFINE C == Chain(c, sp)
           u == t \cup C
<1>1. c \in Node /\ Within(c, Root) /\ Root \in Node
  BY SpotIsFree, BuddyAssumption DEF Root, Node
<1>2. /\ \A k \in C : k \in Node /\ Within(k, c)
      /\ c \in C
      /\ \A a, b \in C : Within(a, b) \/ Within(b, a)
      /\ \A a, b \in C : a # b /\ Within(a, b) => Left(b) \in C /\ Within(a, Left(b))
  BY <1>1, ChainNodes
<1>3. \A k \in C, m \in t : /\ Within(k, m) \/ Apart(m, k)
                            /\ Within(k, m) => Within(c, m)
                            /\ ~Within(m, k)
  BY ChainInTree
<1>4. t \subseteq Node /\ \A n \in t : Within(n, Root)
  BY DEF WellFormed
<1>5. u \subseteq Node /\ \A n \in u : n \in Node /\ Within(n, Root)
  BY <1>1, <1>2, <1>4, WithinTrans
<1>6. Nested(u)
  <2>1. SUFFICES ASSUME NEW m \in u, NEW n \in u
                 PROVE  Within(m, n) \/ Within(n, m) \/ Apart(m, n)
    BY DEF Nested
  <2>2. CASE m \in t /\ n \in t
    BY <2>2 DEF WellFormed, Nested
  <2>3. CASE m \in t /\ n \in C
    BY <1>3, <2>3
  <2>4. CASE m \in C /\ n \in t
    BY <1>3, <1>5, <2>4, WithinTrans
  <2>5. CASE m \in C /\ n \in C
    BY <1>2, <2>5
  <2>6. QED
    BY <2>2, <2>3, <2>4, <2>5
<1>7. Linked(u)
  <2>1. SUFFICES ASSUME NEW m \in u, NEW n \in u, m # n, Within(m, n)
                 PROVE  \E d \in {Left(n), Right(n)} : d \in u /\ Within(m, d)
    BY DEF Linked
  <2>2. CASE m \in t /\ n \in t
    BY <2>1, <2>2 DEF WellFormed, Linked
  <2>3. CASE m \in t /\ n \in C
    BY <1>3, <2>1, <2>3
  <2>4. CASE m \in C /\ n \in t
    <3>1. Within(c, n)
      BY <1>3, <2>1, <2>4
    <3>2. PICK d \in {Left(n), Right(n)} : d \in t \cup {c} /\ Within(c, d)
      BY <2>4, <3>1, SpotIsFree
    <3>3. d \in u
      BY <1>2, <3>2
    <3>4. Within(m, d)
      BY <1>1, <1>2, <1>5, <2>4, <3>2, <3>3, WithinTrans
    <3>5. QED
      BY <3>3, <3>4
  <2>5. CASE m \in C /\ n \in C
    BY <1>2, <2>1, <2>5
  <2>6. QED
    BY <2>2, <2>3, <2>4, <2>5
<1>8. QED
  BY <1>5, <1>6, <1>7 DEF WellFormed

(* Growing by a chain adds one leaf, the block at its end, and turns no    *)
(* older leaf into an inner node.                                          *)
LEMMA GrowLeaves ==
  ASSUME NEW t, WellFormed(t), NEW c \in Spots(t), NEW sp \in Spans, sp <= c.span
  PROVE  Leaves(t \cup Chain(c, sp)) = Leaves(t) \cup {[span |-> sp, pos |-> c.pos]}
<1> DEFINE C == Chain(c, sp)
           u == t \cup C
           b == [span |-> sp, pos |-> c.pos]
<1>1. WellFormed(u)
  BY GrowWellFormed
<1>2. c \in Node
  BY SpotIsFree
<1>3. /\ \A k \in C : k \in Node /\ k.pos = c.pos /\ sp <= k.span
      /\ b \in C
      /\ \A k \in C : k.span # sp => Left(k) \in C
  BY <1>2, ChainNodes
<1>4. \A k \in C, m \in t : (Within(k, m) => Within(c, m)) /\ ~Within(m, k)
  BY ChainInTree
<1>5. ASSUME NEW x \in t
      PROVE  IsInternal(u, x) <=> IsInternal(t, x)
  <2>1. ASSUME IsInternal(u, x), ~IsInternal(t, x)
        PROVE  FALSE
    <3>1. PICK k \in {Left(x), Right(x)} : k \in C
      BY <2>1 DEF IsInternal
    <3>2. Within(k, x)
      BY <1>1, <2>1, Halves
    <3>3. Within(c, x)
      BY <1>4, <3>1, <3>2
    <3>4. QED
      BY <2>1, <3>3, SpotIsFree
  <2>2. QED
    BY <2>1 DEF IsInternal
<1>6. ASSUME NEW k \in C, k # b
      PROVE  IsInternal(u, k)
  <2>1. k.span # sp
    BY <1>3, <1>6 DEF Node
  <2>2. QED
    BY <1>3, <2>1 DEF IsInternal
<1>7. ~IsInternal(u, b)
  <2>1. SUFFICES ASSUME IsInternal(u, b) PROVE FALSE
    OBVIOUS
  <2>2. PICK d \in {Left(b), Right(b)} : d \in u
    BY <2>1 DEF IsInternal
  <2>3. b \in u /\ b.span = sp
    BY <1>3
  <2>4. Within(d, b) /\ d.span = sp \div 2
    BY <1>1, <2>1, <2>3, Halves
  <2>5. d \in C
    BY <1>3, <1>4, <2>2, <2>4
  <2>6. sp <= sp \div 2
    BY <1>3, <2>4, <2>5
  <2>7. QED
    BY <2>6, Halving
<1>8. b \in u /\ u = t \cup C
  BY <1>3
<1>9. ASSUME NEW x \in u
      PROVE  x \in Leaves(u) <=> x \in Leaves(t) \cup {b}
  <2>1. CASE x \in t
    <3>1. x # b
      BY <1>3, <1>4, <2>1, WithinTrans
    <3>2. QED
      BY <1>5, <2>1, <3>1 DEF Leaves
  <2>2. CASE x \in C /\ x \notin t
    BY <1>6, <1>7, <2>2 DEF Leaves
  <2>3. QED
    BY <2>1, <2>2
<1>10. Leaves(u) \subseteq u /\ Leaves(t) \cup {b} \subseteq u
  BY <1>8 DEF Leaves
<1>11. QED
  BY <1>9, <1>10

(* Allocate on a well-formed tree: the tree stays well formed and gains    *)
(* one leaf, the block handed out, which is a node inside memory, large    *)
(* enough for the request and no larger than rounding up makes it.         *)
LEMMA AllocateCorrect ==
  ASSUME NEW t, WellFormed(t), NEW size \in Nat, NEW r \in Allocate(t, size)
  PROVE  /\ WellFormed(r.tree)
         /\ Leaves(r.tree) = Leaves(t) \cup {r.block}
         /\ r.block \in Node /\ r.block \notin Leaves(t)
         /\ Within(r.block, Root)
         /\ r.block.span \in BlockSpan(size)
<1>1. PICK sp \in BlockSpan(size), c \in FirstSpot(t, size) :
        r = [block |-> [span |-> sp, pos |-> c.pos], tree |-> t \cup Chain(c, sp)]
  BY DEF Allocate
<1>2. c \in Spots(t) /\ 2 * size <= c.span
  BY DEF FirstSpot, Eligible
<1>3. c \in Node /\ Within(c, Root) /\ Root \in Node
  BY <1>2, SpotIsFree, BuddyAssumption DEF Root, Node
<1>4. c.span \in Spans
  BY <1>3, NodeFields
<1>5. sp \in Spans /\ sp <= c.span
  BY <1>2, <1>4 DEF BlockSpan
<1>6. r.block = [span |-> sp, pos |-> c.pos] /\ r.tree = t \cup Chain(c, sp)
  BY <1>1
<1>7. r.block \in Chain(c, sp) /\ r.block \in Node /\ Within(r.block, c)
  BY <1>3, <1>5, <1>6, ChainNodes
<1>8. r.block \notin t
  <2>1. \A m \in t : ~Within(m, r.block)
    BY <1>2, <1>5, <1>7, ChainInTree
  <2>2. QED
    BY <1>7, <2>1, WithinTrans
<1>9. Within(r.block, Root)
  BY <1>3, <1>7, WithinTrans
<1>10. WellFormed(r.tree) /\ Leaves(r.tree) = Leaves(t) \cup {r.block}
  BY <1>2, <1>5, <1>6, GrowWellFormed, GrowLeaves
<1>11. QED
  BY <1>6, <1>7, <1>8, <1>9, <1>10 DEF Leaves

-----------------------------------------------------------------------------
(* Deallocate on a well-formed tree: the tree stays well formed, the block *)
(* given back is no longer a leaf, every other leaf stays one, and no      *)
(* inner node is left behind as a new leaf.  Giving back what is no leaf   *)
(* changes nothing in that.                                                *)
LEMMA DeallocateCorrect ==
  ASSUME NEW t, WellFormed(t), NEW b
  PROVE  /\ WellFormed(Deallocate(t, b))
         /\ Leaves(Deallocate(t, b)) = Leaves(t) \ {b}
<1> DEFINE u == Deallocate(t, b)
<1>1. u \subseteq t /\ t \subseteq Node /\ Leaves(t) \subseteq t
  BY DEF Deallocate, WellFormed, Leaves
<1>2. ASSUME NEW l \in Leaves(t) \ {b}, NEW n \in t, Within(l, n)
      PROVE  n \in u
  BY <1>2 DEF Deallocate
<1>3. ASSUME NEW n \in u
      PROVE  \E l \in Leaves(t) \ {b} : Within(l, n)
  BY DEF Deallocate
<1>4. Linked(u)
  <2>1. SUFFICES ASSUME NEW m \in u, NEW n \in u, m # n, Within(m, n)
                 PROVE  \E d \in {Left(n), Right(n)} : d \in u /\ Within(m, d)
    BY DEF Linked
  <2>2. m \in t /\ n \in t /\ m \in Node /\ n \in Node
    BY <1>1
  <2>3. PICK d \in {Left(n), Right(n)} : d \in t /\ Within(m, d)
    BY <2>1, <2>2 DEF WellFormed, Linked
  <2>4. PICK l \in Leaves(t) \ {b} : Within(l, m)
    BY <1>3
  <2>5. Within(l, d)
    BY <1>1, <2>2, <2>3, <2>4, WithinTrans
  <2>6. QED
    BY <1>2, <2>3, <2>5
<1>5. WellFormed(u)
  BY <1>1, <1>4 DEF WellFormed, Nested
<1>6. ASSUME NEW x \in Leaves(t) \ {b}
      PROVE  x \in Leaves(u)
  <2>1. x \in t /\ x \in Node /\ ~IsInternal(t, x)
    BY <1>1 DEF Leaves
  <2>2. x \in u
    BY <1>2, <2>1, WithinTrans
  <2>3. ~IsInternal(u, x)
    BY <1>1, <2>1 DEF IsInternal
  <2>4. QED
    BY <2>2, <2>3 DEF Leaves
<1>7. ASSUME NEW x \in Leaves(u)
      PROVE  x \in Leaves(t) \ {b}
  <2>1. x \in u /\ ~IsInternal(u, x) /\ x \in t /\ x \in Node
    BY <1>1 DEF Leaves
  <2>2. PICK l \in Leaves(t) \ {b} : Within(l, x)
    BY <1>3, <2>1
  <2>3. CASE l = x
    BY <2>2, <2>3
  <2>4. CASE l # x
    <3>1. l \in t
      BY <1>1
    <3>2. PICK d \in {Left(x), Right(x)} : d \in t /\ Within(l, d)
      BY <2>1, <2>2, <2>4, <3>1 DEF WellFormed, Linked
    <3>3. d \in u
      BY <1>2, <3>2
    <3>4. QED
      BY <2>1, <3>3 DEF IsInternal
  <2>5. QED
    BY <2>3, <2>4
<1>8. QED
  BY <1>5, <1>6, <1>7

-----------------------------------------------------------------------------
(* A well-formed tree without a leaf is empty: all free memory is one      *)
(* block again.                                                            *)
LEMMA NoLeafNoTree ==
  ASSUME NEW t, WellFormed(t), Leaves(t) = {}
  PROVE  t = {}
<1> SUFFICES ASSUME t # {} PROVE FALSE
  OBVIOUS
<1> DEFINE M == {n.span : n \in t}
<1>1. \A n \in t : n.span \in Spans /\ n.span \in Nat \ {0}
  BY NodeFields, BuddyAssumption DEF WellFormed
<1>2. M \subseteq Nat /\ M # {}
  BY <1>1
<1>3. PICK n \in t : \A m \in t : n.span <= m.span
  <2>1. PICK s \in M : \A k \in M : s <= k
    <3> HIDE DEF M
    <3>1. QED
      BY <1>2, LeastElement
  <2>2. QED
    BY <2>1
<1>4. PICK d \in {Left(n), Right(n)} : d \in t
  BY DEF Leaves, IsInternal
<1>5. d.span = n.span \div 2 /\ n.span <= d.span
  BY <1>3, <1>4 DEF Left, Right
<1>6. QED
  BY <1>1, <1>5

(* The least span that is large enough for a request that fits in memory.  *)
LEMMA SpanExists ==
  ASSUME NEW size \in Nat, size <= MemorySize
  PROVE  BlockSpan(size) # {}
<1> DEFINE M == {s \in Spans : 2 * size <= s}
<1>1. M \subseteq Nat /\ M # {}
  <2>1. 2 * MemorySize \in Spans /\ 2 * size <= 2 * MemorySize
    BY BuddyAssumption
  <2>2. QED
    BY <2>1, BuddyAssumption
<1>2. PICK s \in M : \A m \in M : s <= m
  BY <1>1, LeastElement
<1>3. QED
  BY <1>2 DEF BlockSpan

(* Empty memory has room for every request that fits in it.                *)
LEMMA RoomInEmpty ==
  ASSUME NEW size \in Nat, size <= MemorySize
  PROVE  Allocate({}, size) # {}
<1>1. Spots({}) = {Root} /\ Root.span = 2 * MemorySize
  BY DEF Spots, Root
<1>2. 2 * size <= 2 * MemorySize
  BY BuddyAssumption
<1>3. Root \in FirstSpot({}, size)
  BY <1>1, <1>2 DEF FirstSpot, Eligible
<1>4. PICK c : c \in FirstSpot({}, size)
  BY <1>3
<1>5. PICK sp : sp \in BlockSpan(size)
  BY SpanExists
<1>6. PICK t : t = {}
  OBVIOUS
<1> DEFINE Outcome(s, d) == [block |-> [span |-> s, pos |-> d.pos], tree |-> t \cup Chain(d, s)]
<1>7. Allocate(t, size) = {Outcome(s, d) : s \in BlockSpan(size), d \in FirstSpot(t, size)}
  BY DEF Allocate
<1> HIDE DEF Outcome
<1>8. Outcome(sp, c) \in {Outcome(s, d) : s \in BlockSpan(size), d \in FirstSpot(t, size)}
  BY <1>4, <1>5, <1>6
<1>9. QED
  BY <1>6, <1>7, <1>8

-----------------------------------------------------------------------------
(* The tree hangs from the root.  Allocate and Deallocate keep that.       *)
Rooted(t) == t = {} \/ Root \in t

LEMMA AllocateRooted ==
  ASSUME NEW t, WellFormed(t), Rooted(t), NEW size \in Nat, NEW r \in Allocate(t, size)
  PROVE  Rooted(r.tree)
<1>1. PICK sp \in BlockSpan(size), c \in FirstSpot(t, size) :
        r = [block |-> [span |-> sp, pos |-> c.pos], tree |-> t \cup Chain(c, sp)]
  BY DEF Allocate
<1>2. c \in Spots(t) /\ 2 * size <= c.span
  BY DEF FirstSpot, Eligible
<1>3. c \in Node /\ c.span \in Spans
  BY <1>2, SpotIsFree, NodeFields
<1>4. sp \in Spans /\ sp <= c.span
  BY <1>2, <1>3 DEF BlockSpan
<1>5. r.tree = t \cup Chain(c, sp)
  BY <1>1
<1>6. CASE t = {}
  <2>1. c = Root
    BY <1>2, <1>6 DEF Spots
  <2>2. c \in Chain(c, sp)
    BY <1>3, <1>4, ChainNodes
  <2>3. QED
    BY <1>5, <2>1, <2>2 DEF Rooted
<1>7. CASE t # {}
  BY <1>5, <1>7 DEF Rooted
<1>8. QED
  BY <1>6, <1>7

LEMMA DeallocateRooted ==
  ASSUME NEW t, WellFormed(t), Rooted(t), NEW b
  PROVE  Rooted(Deallocate(t, b))
<1> DEFINE u == Deallocate(t, b)
<1>1. u \subseteq t
  BY DEF Deallocate
<1>2. ASSUME NEW n \in u PROVE Root \in u
  <2>1. PICK l \in Leaves(t) \ {b} : Within(l, n)
    BY DEF Deallocate
  <2>2. l \in t /\ Root \in t
    BY <1>1 DEF Leaves, Rooted
  <2>3. QED
    BY <2>1, <2>2 DEF WellFormed, Deallocate
<1>3. QED
  BY <1>1, <1>2 DEF Rooted

-----------------------------------------------------------------------------
(* Two places inside a node, one in each half, with the node the least one *)
(* around both: the descent goes to the left half first, and to a missing  *)
(* half last.                                                              *)
LEMMA Parting ==
  ASSUME NEW t, WellFormed(t), NEW n \in t, IsInternal(t, n), NEW c \in Spots(t), NEW d \in Spots(t),
         Within(c, n), Within(d, n),
         ~(Within(c, Left(n)) /\ Within(d, Left(n))), ~(Within(c, Right(n)) /\ Within(d, Right(n))),
         \/ d \in {Left(n), Right(n)}
         \/ c \notin {Left(n), Right(n)} /\ c.pos < d.pos
  PROVE  Before(t, c, d)
<1>1. n \in Internal(t) /\ n \in Node /\ c \in Node /\ d \in Node
  BY SpotIsFree DEF Internal, WellFormed
<1>2. ASSUME NEW m \in Internal(t), Within(c, m), Within(d, m)
      PROVE  n.span <= m.span
  <2>1. m \in t /\ m \in Node
    BY DEF Internal, WellFormed
  <2>2. ~Apart(m, n)
    BY <1>1, <1>2, <2>1, WithinTrans
  <2>3. CASE Within(n, m)
    BY <1>1, <2>1, <2>3, NodeFields DEF Within
  <2>4. CASE Within(m, n) /\ m # n
    <3>1. PICK e \in {Left(n), Right(n)} : e \in t /\ Within(m, e)
      BY <2>1, <2>4 DEF WellFormed, Linked
    <3>2. e \in Node
      BY <3>1 DEF WellFormed
    <3>3. Within(c, e) /\ Within(d, e)
      BY <1>1, <1>2, <2>1, <3>1, <3>2, WithinTrans
    <3>4. QED
      BY <3>1, <3>3
  <2>5. CASE m = n
    BY <1>1, <2>5, NodeFields
  <2>6. QED
    BY <2>1, <2>2, <2>3, <2>4, <2>5 DEF WellFormed, Nested
<1>3. QED
  BY <1>1, <1>2 DEF Before

(* Below every inner node with an eligible spot, one of them is reached    *)
(* before all the others.  Otherwise take a least such node: of its halves *)
(* that are in the tree the first one with an eligible spot has a first    *)
(* one, and it is the first of the whole node.                             *)
First(t, size, n, c) ==
  /\ c \in Eligible(t, size) /\ Within(c, n)
  /\ \A d \in Eligible(t, size) \ {c} : Within(d, n) => Before(t, c, d)

LEMMA HalfOf ==
  ASSUME NEW t, WellFormed(t), NEW n \in t, IsInternal(t, n), NEW c \in Spots(t), Within(c, n)
  PROVE  \E e \in {Left(n), Right(n)} :
           /\ Within(c, e)
           /\ e = c \/ e \in Internal(t)
           /\ e.span < n.span
<1>1. PICK e \in {Left(n), Right(n)} : e \in t \cup {c} /\ Within(c, e)
  BY SpotIsFree
<1>2. e \in t => e \in Internal(t)
  BY <1>1, SpotIsFree DEF Internal
<1>3. e.span = n.span \div 2 /\ n.span \in Spans
  BY <1>1, Halves, NodeFields DEF WellFormed
<1>4. e.span < n.span
  BY <1>3, Halving
<1>5. QED
  BY <1>1, <1>2, <1>4

LEMMA FirstExists ==
  ASSUME NEW t, WellFormed(t), NEW size, NEW o \in Internal(t), NEW b \in Eligible(t, size), Within(b, o)
  PROVE  \E c : First(t, size, o, c)
<1> DEFINE Has(n) == \E c \in Eligible(t, size) : Within(c, n)
           Bad == {n \in Internal(t) : Has(n) /\ ~ \E c : First(t, size, n, c)}
           M == {n.span : n \in Bad}
<1> SUFFICES ASSUME Bad # {} PROVE FALSE
  OBVIOUS
<1>1. \A n \in Internal(t) : n \in t /\ n \in Node /\ IsInternal(t, n) /\ n.span \in Nat
  BY NodeFields DEF Internal, WellFormed
<1>2. \A c \in Eligible(t, size) : c \in Spots(t) /\ c \in Node /\ c \notin t
  BY SpotIsFree DEF Eligible
<1>3. PICK n \in Bad : \A m \in Bad : n.span <= m.span
  <2>1. M \subseteq Nat /\ M # {}
    BY <1>1
  <2>2. PICK s \in M : \A m \in M : s <= m
    <3> HIDE DEF M
    <3>1. QED
      BY <2>1, LeastElement
  <2>3. QED
    BY <2>2
<1>4. n \in t /\ n \in Node /\ IsInternal(t, n) /\ n.span \in Nat /\ Has(n)
  BY <1>1, <1>3
<1>5. ASSUME NEW e \in {Left(n), Right(n)}, e \in Internal(t), Has(e)
      PROVE  \E c : First(t, size, e, c)
  <2>1. e.span < n.span /\ e.span \in Nat
    <3>1. e.span = n.span \div 2 /\ n.span \in Spans
      BY <1>4, Halves, NodeFields
    <3>2. QED
      BY <1>1, <1>5, <3>1, Halving
  <2>2. e \notin Bad
    BY <1>3, <1>4, <2>1
  <2>3. QED
    BY <1>5, <2>2
<1> DEFINE L == Left(n)
           R == Right(n)
<1>6. L \in Node /\ R \in Node /\ Within(L, n) /\ Within(R, n) /\ Apart(L, R) /\ Apart(R, L)
  BY <1>4, Halves
<1>7. ASSUME NEW c \in Eligible(t, size), Within(c, n)
      PROVE  \/ Within(c, L) /\ ~Within(c, R) /\ (c = L \/ (L \in Internal(t) /\ Has(L)))
             \/ Within(c, R) /\ ~Within(c, L) /\ (c = R \/ (R \in Internal(t) /\ Has(R)))
  <2>1. PICK e \in {L, R} : Within(c, e) /\ (e = c \/ e \in Internal(t))
    BY <1>2, <1>4, <1>7, HalfOf
  <2>2. ~(Within(c, L) /\ Within(c, R))
    BY <1>2, <1>6, WithinTrans
  <2>3. Has(e)
    BY <2>1
  <2>4. QED
    BY <2>1, <2>2, <2>3
<1>8. CASE L \in Internal(t) /\ Has(L)
  <2>1. PICK c : First(t, size, L, c)
    BY <1>5, <1>8
  <2>2. c \in Eligible(t, size) /\ Within(c, L) /\ c \in Node /\ c \notin t
    BY <1>2, <2>1 DEF First
  <2>3. Within(c, n) /\ ~Within(c, R) /\ c \notin {L, R}
    <3>1. L \in t
      BY <1>1, <1>8
    <3>2. QED
      BY <1>4, <1>6, <2>2, <3>1, WithinTrans
  <2>4. ASSUME NEW d \in Eligible(t, size) \ {c}, Within(d, n)
        PROVE  Before(t, c, d)
    <3>1. CASE Within(d, L)
      BY <2>1, <3>1 DEF First
    <3>2. CASE Within(d, R) /\ ~Within(d, L)
      <4>1. c.pos < d.pos
        BY <1>2, <1>6, <2>2, <3>2, NodeFields DEF Within, Left, Right
      <4>2. QED
        BY <1>2, <1>4, <2>2, <2>3, <2>4, <3>2, <4>1, Parting
    <3>3. QED
      BY <1>7, <2>4, <3>1, <3>2
  <2>5. First(t, size, n, c)
    BY <2>2, <2>3, <2>4 DEF First
  <2>6. QED
    BY <1>3, <2>5
<1>9. CASE ~(L \in Internal(t) /\ Has(L)) /\ R \in Internal(t) /\ Has(R)
  <2>1. PICK c : First(t, size, R, c)
    BY <1>5, <1>9
  <2>2. c \in Eligible(t, size) /\ Within(c, R) /\ c \in Node
    BY <1>2, <2>1 DEF First
  <2>3. Within(c, n) /\ ~Within(c, L)
    BY <1>4, <1>6, <2>2, WithinTrans
  <2>4. ASSUME NEW d \in Eligible(t, size) \ {c}, Within(d, n)
        PROVE  Before(t, c, d)
    <3>1. CASE Within(d, R)
      BY <2>1, <3>1 DEF First
    <3>2. CASE d = L /\ ~Within(d, R)
      BY <1>2, <1>4, <2>2, <2>3, <2>4, <3>2, Parting
    <3>3. QED
      BY <1>7, <1>9, <2>4, <3>1, <3>2
  <2>5. First(t, size, n, c)
    BY <2>2, <2>3, <2>4 DEF First
  <2>6. QED
    BY <1>3, <2>5
<1>10. CASE ~(L \in Internal(t) /\ Has(L)) /\ ~(R \in Internal(t) /\ Has(R))
  <2>1. PICK c \in Eligible(t, size) : Within(c, n)
    BY <1>4
  <2>2. \A d \in Eligible(t, size) : Within(d, n) => d \in {L, R} \ t
    BY <1>2, <1>7, <1>10
  <2>3. L \in t \/ R \in t
    BY <1>4 DEF IsInternal
  <2>4. First(t, size, n, c)
    BY <2>1, <2>2, <2>3 DEF First
  <2>5. QED
    BY <1>3, <2>4
<1>11. QED
  BY <1>8, <1>9, <1>10

(* Where there is a spot that is large enough, the descent finds one.      *)
LEMMA EligibleServed ==
  ASSUME NEW t, WellFormed(t), Rooted(t), NEW size \in Nat, size <= MemorySize, Eligible(t, size) # {}
  PROVE  Allocate(t, size) # {}
<1>1. CASE t = {}
  BY <1>1, RoomInEmpty
<1>2. CASE t # {}
  <2>1. PICK b : b \in Eligible(t, size)
    OBVIOUS
  <2>2. b \in Spots(t) /\ Root \in t
    BY <1>2, <2>1 DEF Eligible, Rooted
  <2>3. Within(b, Root) /\ Root \in Internal(t)
    BY <2>2, SpotIsFree DEF Internal
  <2>4. PICK c : First(t, size, Root, c)
    BY <2>1, <2>3, FirstExists
  <2>5. \A d \in Eligible(t, size) : Within(d, Root)
    BY SpotIsFree DEF Eligible
  <2>6. c \in FirstSpot(t, size)
    BY <2>4, <2>5 DEF First, FirstSpot
  <2>7. PICK sp : sp \in BlockSpan(size)
    BY SpanExists
  <2> DEFINE Outcome(s, d) == [block |-> [span |-> s, pos |-> d.pos], tree |-> t \cup Chain(d, s)]
  <2>8. Allocate(t, size) = {Outcome(s, d) : s \in BlockSpan(size), d \in FirstSpot(t, size)}
    BY DEF Allocate
  <2> HIDE DEF Outcome
  <2>9. Outcome(sp, c) \in {Outcome(s, d) : s \in BlockSpan(size), d \in FirstSpot(t, size)}
    BY <2>6, <2>7
  <2>10. QED
    BY <2>8, <2>9
<1>3. QED
  BY <1>1, <1>2

(* Where a request is refused, so is every request for a block that is not *)
(* smaller.                                                                *)
LEMMA NoRoomForMore ==
  ASSUME NEW t, WellFormed(t), Rooted(t), NEW a \in Nat, NEW b \in Nat,
         a <= MemorySize, b <= MemorySize,
         \A r \in BlockSpan(a), s \in BlockSpan(b) : r <= s,
         Allocate(t, a) = {}
  PROVE  Allocate(t, b) = {}
<1>1. PICK r \in BlockSpan(a) : TRUE
  BY SpanExists
<1>2. PICK s \in BlockSpan(b) : TRUE
  BY SpanExists
<1>3. r \in Nat /\ s \in Nat /\ r <= s /\ 2 * a <= r
  BY BuddyAssumption DEF BlockSpan
<1>4. ASSUME NEW c \in Eligible(t, b) PROVE c \in Eligible(t, a)
  <2>1. c \in Spots(t) /\ 2 * b <= c.span
    BY DEF Eligible
  <2>2. c.span \in Spans /\ c.span \in Nat
    BY <2>1, SpotIsFree, NodeFields
  <2>3. s <= c.span
    BY <2>1, <2>2 DEF BlockSpan
  <2>4. 2 * a <= c.span
    BY <1>3, <2>2, <2>3
  <2>5. QED
    BY <2>1, <2>4 DEF Eligible
<1>5. Eligible(t, b) = {}
  BY <1>4, EligibleServed
<1>6. QED
  BY <1>5 DEF FirstSpot, Allocate

===============================================================================
