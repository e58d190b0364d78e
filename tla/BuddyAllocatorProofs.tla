------------------------- MODULE BuddyAllocatorProofs -------------------------
(***************************************************************************)
(* The safety of the buddy allocator for any memory size, any set of       *)
(* processes and any sequence of allocations and frees, and that it        *)
(* refuses a request only when no aligned block of its size is free.       *)
(***************************************************************************)
EXTENDS BuddyAllocator, DataStructureProofs

(* The span a request is rounded up to is large enough and wastes less     *)
(* than half of itself.                                                    *)
LEMMA Rounding ==
  ASSUME NEW size \in Nat, NEW sp \in BlockSpan(size)
  PROVE  /\ sp \in Spans
         /\ size <= sp \div 2
         /\ sp \div 2 < 2 * size \/ sp \div 2 = 0
<1>1. sp \in Spans /\ 2 * size <= sp /\ \A t \in Spans : 2 * size <= t => sp <= t
  BY DEF BlockSpan
<1>2. sp \in Nat /\ sp >= 1 /\ sp \div 2 < sp
  BY <1>1, Halving
<1>3. CASE sp = 1
  BY <1>1, <1>3
<1>4. CASE sp # 1
  <2>1. sp \div 2 \in Spans /\ sp = 2 * (sp \div 2)
    BY <1>1, <1>4, Halving
  <2>2. sp \div 2 \in Nat
    BY <2>1, Halving
  <2>3. ~(2 * size <= sp \div 2)
    BY <1>1, <1>2, <2>1, <2>2
  <2>4. QED
    BY <1>1, <2>1, <2>2, <2>3
<1>5. QED
  BY <1>3, <1>4

-----------------------------------------------------------------------------
(* Acquire: the new block is a leaf of its own.                            *)
LEMMA AcquireKeepsInv ==
  ASSUME IndInv, NEW p \in Procs, NEW size \in 0 .. MemorySize, Acquire(p, size)
  PROVE  IndInv'
<1>1. size \in Nat
  BY BuddyAssumption
<1>2. PICK r \in Allocate(tree, size) :
        tree' = r.tree /\ memoryNode' = [memoryNode EXCEPT ![p] = r.block]
  BY DEF Acquire
<1>3. memoryNode[p] = NULL /\ memSize' = [memSize EXCEPT ![p] = size]
  BY DEF Acquire
<1>4. /\ WellFormed(r.tree)
      /\ Leaves(r.tree) = Leaves(tree) \cup {r.block}
      /\ r.block \in Node /\ r.block \notin Leaves(tree)
      /\ r.block.span \in BlockSpan(size)
  BY <1>1, AllocateCorrect DEF IndInv
<1>5. r.block # NULL
  BY <1>4, NullAssumption
<1>6. /\ memoryNode \in [Procs -> Node \cup {NULL}]
      /\ memSize \in [Procs -> 0 .. MemorySize]
  BY DEF IndInv, TypeOK
<1>7. /\ memoryNode'[p] = r.block
      /\ \A q \in Procs \ {p} : memoryNode'[q] = memoryNode[q] /\ memSize'[q] = memSize[q]
      /\ memSize'[p] = size
  BY <1>2, <1>3, <1>6
<1>8. Holders' = Holders \cup {p} /\ p \notin Holders
  BY <1>3, <1>5, <1>7 DEF Holders
<1>9. TypeOK'
  BY <1>2, <1>3, <1>4, <1>6 DEF TypeOK, WellFormed
<1>10. WellFormed(tree)'
  BY <1>2, <1>4 DEF WellFormed, Nested, Linked
<1>11. LeavesAreHeld'
  <2>1. Leaves(tree)' = {memoryNode[q] : q \in Holders} \cup {r.block}
    BY <1>2, <1>4 DEF IndInv, LeavesAreHeld, Leaves, IsInternal
  <2>2. \A q \in Holders : q \in Procs \ {p}
    BY <1>8 DEF Holders
  <2>3. {memoryNode'[q] : q \in Holders'} = {memoryNode[q] : q \in Holders} \cup {r.block}
    BY <1>7, <1>8, <2>2
  <2>4. QED
    BY <2>1, <2>3 DEF LeavesAreHeld
<1>12. \A q \in Holders' : memoryNode'[q].span \in BlockSpan(memSize'[q])
  BY <1>4, <1>7, <1>8 DEF IndInv, Holders
<1>13. \A q, s \in Holders' : memoryNode'[q] = memoryNode'[s] => q = s
  <2>1. \A q \in Holders : memoryNode[q] # r.block
    BY <1>4 DEF IndInv, LeavesAreHeld
  <2>2. QED
    BY <1>7, <1>8, <2>1 DEF IndInv, Holders
<1>14. (\A q \in Holders : memoryNode[q].span \in BlockSpan(memSize[q]))'
  BY <1>12 DEF BlockSpan
<1>15. QED
  BY <1>9, <1>10, <1>11, <1>13, <1>14 DEF IndInv

(* Release: the block given back was a leaf, and no other holder has it.   *)
LEMMA ReleaseKeepsInv ==
  ASSUME IndInv, NEW p \in Procs, Release(p)
  PROVE  IndInv'
<1>1. /\ p \in Holders
      /\ tree' = Deallocate(tree, memoryNode[p])
      /\ memoryNode' = [memoryNode EXCEPT ![p] = NULL]
      /\ memSize' = [memSize EXCEPT ![p] = 0]
  BY DEF Release, Holders
<1>2. memoryNode[p] \in Leaves(tree)
  BY <1>1 DEF IndInv, LeavesAreHeld
<1>3. /\ WellFormed(Deallocate(tree, memoryNode[p]))
      /\ Leaves(Deallocate(tree, memoryNode[p])) = Leaves(tree) \ {memoryNode[p]}
  BY <1>2, DeallocateCorrect DEF IndInv
<1>4. /\ memoryNode \in [Procs -> Node \cup {NULL}]
      /\ memSize \in [Procs -> 0 .. MemorySize]
  BY DEF IndInv, TypeOK
<1>5. /\ memoryNode'[p] = NULL
      /\ \A q \in Procs \ {p} : memoryNode'[q] = memoryNode[q] /\ memSize'[q] = memSize[q]
  BY <1>1, <1>4
<1>6. Holders' = Holders \ {p}
  BY <1>5 DEF Holders
<1>7. TypeOK'
  BY <1>1, <1>3, <1>4, BuddyAssumption DEF TypeOK, WellFormed
<1>8. WellFormed(tree)'
  BY <1>1, <1>3 DEF WellFormed, Nested, Linked
<1>9. LeavesAreHeld'
  <2>1. Leaves(tree)' = {memoryNode[q] : q \in Holders} \ {memoryNode[p]}
    BY <1>1, <1>3 DEF IndInv, LeavesAreHeld, Leaves, IsInternal
  <2>2. \A q \in Holders \ {p} : q \in Procs /\ memoryNode[q] # memoryNode[p]
    BY <1>1 DEF IndInv, Holders
  <2>3. {memoryNode'[q] : q \in Holders'} = {memoryNode[q] : q \in Holders} \ {memoryNode[p]}
    BY <1>1, <1>5, <1>6, <2>2
  <2>4. QED
    BY <2>1, <2>3 DEF LeavesAreHeld
<1>10. (\A q \in Holders : memoryNode[q].span \in BlockSpan(memSize[q]))'
  BY <1>5, <1>6 DEF IndInv, Holders, BlockSpan
<1>11. \A q, s \in Holders' : memoryNode'[q] = memoryNode'[s] => q = s
  BY <1>5, <1>6 DEF IndInv, Holders
<1>12. QED
  BY <1>7, <1>8, <1>9, <1>10, <1>11 DEF IndInv

(* The allocator starts in, and never leaves, the inductive invariant.     *)
THEOREM Inductive == Spec => []IndInv
<1>1. Init => IndInv
  <2>1. SUFFICES ASSUME Init PROVE IndInv
    OBVIOUS
  <2>2. TypeOK
    BY <2>1, BuddyAssumption DEF Init, TypeOK
  <2>3. Holders = {} /\ tree = {}
    BY <2>1 DEF Init, Holders
  <2>4. WellFormed(tree)
    BY <2>3 DEF WellFormed, Nested, Linked
  <2>5. LeavesAreHeld
    BY <2>3 DEF LeavesAreHeld, Leaves
  <2>6. QED
    BY <2>2, <2>3, <2>4, <2>5 DEF IndInv
<1>2. IndInv /\ [Next]_vars => IndInv'
  <2>1. SUFFICES ASSUME IndInv, [Next]_vars PROVE IndInv'
    OBVIOUS
  <2>2. CASE Next
    <3>1. PICK p \in Procs :
            \/ \E size \in 0 .. MemorySize : Acquire(p, size)
            \/ Release(p)
      BY <2>2 DEF Next
    <3>2. CASE \E size \in 0 .. MemorySize : Acquire(p, size)
      BY <2>1, <3>2, AcquireKeepsInv
    <3>3. CASE Release(p)
      BY <2>1, <3>3, ReleaseKeepsInv
    <3>4. QED
      BY <3>1, <3>2, <3>3
  <2>3. CASE UNCHANGED vars
    BY <2>1, <2>3 DEF vars, IndInv, TypeOK, WellFormed, Nested, Linked, LeavesAreHeld,
                      Leaves, IsInternal, Holders, BlockSpan
  <2>4. QED
    BY <2>1, <2>2, <2>3
<1>3. QED
  BY <1>1, <1>2, PTL DEF Spec

-----------------------------------------------------------------------------
(* Every variable keeps its type.                                          *)
THEOREM TypeCorrect == Spec => []TypeOK
<1>1. IndInv => TypeOK
  BY DEF IndInv
<1>2. QED
  BY <1>1, Inductive, PTL

(* The leaves are always exactly the blocks handed out: no block is lost,  *)
(* none is freed while held, and free memory is fully coalesced.           *)
THEOREM LeavesCorrect == Spec => []LeavesAreHeld
<1>1. IndInv => LeavesAreHeld
  BY DEF IndInv
<1>2. QED
  BY <1>1, Inductive, PTL

(* No two processes ever hold overlapping memory.                          *)
THEOREM Disjointness == Spec => []BlocksDisjoint
<1>1. IndInv => BlocksDisjoint
  <2>1. SUFFICES ASSUME IndInv, NEW p \in Holders, NEW q \in Holders, p # q
                 PROVE  Apart(memoryNode[p], memoryNode[q])
    BY DEF BlocksDisjoint
  <2>2. memoryNode[p] \in Leaves(tree) /\ memoryNode[q] \in Leaves(tree)
    BY <2>1 DEF IndInv, LeavesAreHeld
  <2>3. memoryNode[p] # memoryNode[q]
    BY <2>1 DEF IndInv
  <2>4. QED
    BY <2>1, <2>2, <2>3, LeavesApart DEF IndInv
<1>2. QED
  BY <1>1, Inductive, PTL

(* Every block lies inside memory, is large enough for its request, and is *)
(* no larger than rounding up to a power of two makes it.                  *)
THEOREM Fits == Spec => []BlockFits
<1>1. IndInv => BlockFits
  <2>1. SUFFICES ASSUME IndInv, NEW p \in Holders
                 PROVE  /\ 0 <= startIndx(memoryNode[p])
                        /\ endIndx(memoryNode[p]) < MemorySize
                        /\ memSize[p] <= data(memoryNode[p])
                        /\ data(memoryNode[p]) < 2 * memSize[p] \/ data(memoryNode[p]) = 0
    BY DEF BlockFits
  <2> DEFINE b == memoryNode[p]
  <2>2. b \in Leaves(tree) /\ b.span \in BlockSpan(memSize[p])
    BY <2>1 DEF IndInv, LeavesAreHeld
  <2>3. b \in Node /\ Within(b, Root)
    BY <2>1, <2>2 DEF Leaves, IndInv, WellFormed
  <2>4. b.pos \in Nat /\ b.span \in Nat
    BY <2>3, NodeFields
  <2>5. b.pos + b.span <= 2 * MemorySize /\ MemorySize \in Nat
    <3>1. b.pos + b.span <= 0 + 2 * MemorySize
      BY <2>3 DEF Within, Root
    <3>2. QED
      BY <2>4, <3>1, BuddyAssumption
  <2>6. memSize[p] \in Nat
    BY <2>1, BuddyAssumption DEF IndInv, TypeOK, Holders
  <2>7. memSize[p] <= b.span \div 2 /\ (b.span \div 2 < 2 * memSize[p] \/ b.span \div 2 = 0)
    BY <2>2, <2>6, Rounding
  <2>8. 0 <= b.pos \div 2 /\ b.pos \div 2 + b.span \div 2 - 1 < MemorySize
    BY <2>4, <2>5
  <2>9. QED
    BY <2>7, <2>8 DEF data, startIndx, endIndx
<1>2. QED
  BY <1>1, Inductive, PTL

-----------------------------------------------------------------------------
(* Positions are multiples of spans.                                       *)
Multiple(x, s) == \E j \in Nat : x = j * s

(* A multiple of a span is one of its half as well, ...                    *)
LEMMA HalfMultiple ==
  ASSUME NEW s \in Spans, s # 1, NEW x \in Nat, Multiple(x, s)
  PROVE  Multiple(x, s \div 2)
<1>1. PICK j \in Nat : x = j * s
  BY DEF Multiple
<1>2. PICK h \in Nat : h = s \div 2 /\ s = 2 * h
  BY Halving
<1>3. x = (2 * j) * h /\ 2 * j \in Nat
  BY <1>1, <1>2
<1>4. QED
  BY <1>2, <1>3 DEF Multiple

(* ... and so one of every smaller span.                                   *)
LEMMA SmallerMultiple ==
  ASSUME NEW a \in Spans, NEW b \in Spans, a <= b, NEW x \in Nat, Multiple(x, b)
  PROVE  Multiple(x, a)
<1> DEFINE M == {s \in Spans : a <= s /\ Multiple(x, s)}
<1>1. M \subseteq Nat /\ M # {}
  BY Halving
<1>2. PICK s \in M : \A m \in M : s <= m
  <2> HIDE DEF M
  <2>1. QED
    BY <1>1, LeastElement
<1>3. CASE s = a
  BY <1>3
<1>4. CASE s # a
  <2>1. s \in Nat /\ a \in Nat /\ a >= 1 /\ a < s /\ s \in Spans /\ Multiple(x, s)
    <3>1. s \in Spans /\ a <= s /\ Multiple(x, s)
      OBVIOUS
    <3>2. s \in Nat /\ a \in Nat /\ a >= 1
      BY <3>1, Halving
    <3>3. QED
      BY <1>4, <3>1, <3>2
  <2>2. a <= s \div 2 /\ s \div 2 \in Spans /\ s \div 2 < s
    BY <2>1, Halving, BuddyAssumption
  <2>3. s \div 2 \in M /\ s \div 2 \in Nat
    BY <2>1, <2>2, HalfMultiple, Halving
  <2>4. QED
    BY <1>2, <2>1, <2>2, <2>3
<1>5. QED
  BY <1>3, <1>4

(* A span is a multiple of every smaller one.                              *)
LEMMA SpanMultiple ==
  ASSUME NEW a \in Spans, NEW b \in Spans, a <= b
  PROVE  Multiple(b, a)
<1>1. b \in Nat
  BY Halving
<1>2. b = 1 * b /\ 1 \in Nat
  BY <1>1
<1>3. Multiple(b, b)
  BY <1>2 DEF Multiple
<1>4. QED
  BY <1>1, <1>3, SmallerMultiple

LEMMA SumMultiple ==
  ASSUME NEW s \in Nat, NEW x \in Nat, NEW y \in Nat, Multiple(x, s), Multiple(y, s)
  PROVE  Multiple(x + y, s)
<1>1. PICK i \in Nat, j \in Nat : x = i * s /\ y = j * s
  BY DEF Multiple
<1>2. x + y = (i + j) * s /\ i + j \in Nat
  BY <1>1
<1>3. QED
  BY <1>2 DEF Multiple

(* Two multiples of a span are at least the span apart.                    *)
LEMMA MultiplesApart ==
  ASSUME NEW s \in Nat, NEW x \in Nat, NEW y \in Nat, Multiple(x, s), Multiple(y, s), x < y
  PROVE  x + s <= y
<1>1. PICK i \in Nat, j \in Nat : x = i * s /\ y = j * s
  BY DEF Multiple
<1>2. CASE i < j
  <2>1. PICK k \in Nat : j = i + 1 + k
    <3>1. j - i - 1 \in Nat /\ j = i + 1 + (j - i - 1)
      BY <1>2
    <3>2. QED
      BY <3>1
  <2>2. y = x + s + k * s
    BY <1>1, <2>1
  <2>3. k * s \in Nat
    OBVIOUS
  <2>4. QED
    BY <2>2, <2>3
<1>3. CASE i >= j
  <2>1. PICK k \in Nat : i = j + k
    <3>1. i - j \in Nat /\ i = j + (i - j)
      BY <1>3
    <3>2. QED
      BY <3>1
  <2>2. x = y + k * s
    BY <1>1, <2>1
  <2>3. k * s \in Nat
    OBVIOUS
  <2>4. QED
    BY <2>2, <2>3
<1>4. QED
  BY <1>2, <1>3

-----------------------------------------------------------------------------
(* Every node is aligned to its own size.                                  *)
Aligned(t) == \A n \in t : Multiple(n.pos, n.span)

(* A spot is aligned, and so is every block at its left end.               *)
LEMMA SpotAligned ==
  ASSUME NEW t, WellFormed(t), Aligned(t), NEW c \in Spots(t), NEW s \in Spans, s <= c.span
  PROVE  Multiple(c.pos, s)
<1>1. c \in Node
  BY SpotIsFree
<1>2. c.span \in Spans /\ c.pos \in Nat
  BY <1>1, NodeFields
<1>3. Multiple(c.pos, c.span)
  <2>1. CASE t = {}
    <3>1. c.pos = 0
      BY <2>1 DEF Spots, Root
    <3>2. PICK k \in Nat : k = c.span
      BY <1>2, Halving
    <3>3. 0 = 0 * k
      BY <3>2
    <3>4. QED
      BY <3>1, <3>2, <3>3 DEF Multiple
  <2>2. CASE t # {}
    <3>1. PICK n \in Internal(t) : c \in {Left(n), Right(n)}
      <4>1. c \in UNION {{Left(n), Right(n)} : n \in Internal(t)}
        BY <2>2 DEF Spots
      <4>2. QED
        BY <4>1, Zenon
    <3>2. n \in t /\ n \in Node /\ IsInternal(t, n)
      BY <3>1 DEF Internal, WellFormed
    <3>3. n.span \in Spans /\ n.span # 1 /\ n.pos \in Nat /\ c.span = n.span \div 2
      BY <3>1, <3>2, Halves, NodeFields
    <3>4. Multiple(n.pos, c.span)
      BY <3>2, <3>3, HalfMultiple DEF Aligned
    <3>5. CASE c = Left(n)
      BY <3>4, <3>5 DEF Left
    <3>6. CASE c = Right(n)
      <4>1. c.pos = n.pos + c.span /\ c.span \in Nat
        BY <1>2, <3>6, Halving DEF Right
      <4>2. Multiple(c.span, c.span)
        BY <1>2, <4>1, SpanMultiple
      <4>3. QED
        BY <3>3, <3>4, <4>1, <4>2, SumMultiple
    <3>7. QED
      BY <3>1, <3>5, <3>6
  <2>3. QED
    BY <2>1, <2>2
<1>4. QED
  BY <1>2, <1>3, SmallerMultiple

(* Allocate and Deallocate keep the tree aligned.                          *)
LEMMA AllocateAligned ==
  ASSUME NEW t, WellFormed(t), Aligned(t), NEW size \in Nat, NEW r \in Allocate(t, size)
  PROVE  Aligned(r.tree)
<1>1. PICK sp \in BlockSpan(size), c \in FirstSpot(t, size) :
        r = [block |-> [span |-> sp, pos |-> c.pos], tree |-> t \cup Chain(c, sp)]
  BY DEF Allocate
<1>2. c \in Spots(t)
  BY DEF FirstSpot, Eligible
<1>3. r.tree = t \cup Chain(c, sp)
  BY <1>1
<1>4. ASSUME NEW n \in Chain(c, sp) PROVE Multiple(n.pos, n.span)
  <2>1. n.pos = c.pos /\ n.span \in Spans /\ n.span <= c.span
    BY DEF Chain
  <2>2. QED
    BY <1>2, <2>1, SpotAligned
<1>5. QED
  BY <1>3, <1>4 DEF Aligned

LEMMA DeallocateAligned ==
  ASSUME NEW t, Aligned(t), NEW b
  PROVE  Aligned(Deallocate(t, b))
BY DEF Deallocate, Aligned

-----------------------------------------------------------------------------
(* Every node has a leaf in it.                                            *)
LEMMA LeafWithin ==
  ASSUME NEW t, WellFormed(t), NEW o \in t
  PROVE  \E l \in Leaves(t) : Within(l, o)
<1> DEFINE In == {n \in t : Within(n, o)}
           M == {n.span : n \in In}
<1>1. \A n \in t : n \in Node /\ n.span \in Nat
  BY NodeFields DEF WellFormed
<1>2. o \in In
  BY <1>1, WithinTrans
<1>3. PICK n \in In : \A m \in In : n.span <= m.span
  <2>1. M \subseteq Nat /\ M # {}
    BY <1>1, <1>2
  <2>2. PICK s \in M : \A m \in M : s <= m
    <3> HIDE DEF M
    <3>1. QED
      BY <2>1, LeastElement
  <2>3. QED
    BY <2>2
<1>4. CASE IsInternal(t, n)
  <2>1. PICK e \in {Left(n), Right(n)} : e \in t
    BY <1>4 DEF IsInternal
  <2>2. Within(e, n) /\ e \in Node /\ e.span = n.span \div 2
    BY <1>3, <1>4, <2>1, Halves
  <2>3. e \in In
    BY <1>1, <1>3, <2>1, <2>2, WithinTrans
  <2>4. n.span \in Spans /\ e.span \in Nat
    BY <1>1, <1>3, <2>1, NodeFields
  <2>5. e.span < n.span
    BY <2>2, <2>4, Halving
  <2>6. QED
    BY <1>1, <1>3, <2>3, <2>4, <2>5
<1>5. QED
  BY <1>3, <1>4 DEF Leaves

(* An aligned block that no leaf touches lies in a spot: go down from the  *)
(* root to the least node around it.  That is no leaf and not the block    *)
(* itself; one of its halves is around the block, and is not in the tree.  *)
LEMMA FreeBlockInSpot ==
  ASSUME NEW t, WellFormed(t), Rooted(t), Aligned(t), NEW x \in Node, Within(x, Root),
         Multiple(x.pos, x.span), \A l \in Leaves(t) : Apart(l, x)
  PROVE  \E c \in Spots(t) : x.span <= c.span
<1>1. CASE t = {}
  <2>1. Root \in Spots(t)
    BY <1>1 DEF Spots
  <2>2. x.span <= Root.span
    BY NodeFields, Halving DEF Root
  <2>3. QED
    BY <2>1, <2>2
<1>2. CASE t # {}
  <2> DEFINE Around == {n \in t : Within(x, n)}
             M == {n.span : n \in Around}
  <2>1. \A n \in t : n \in Node /\ n.span \in Nat
    BY NodeFields DEF WellFormed
  <2>2. Root \in Around
    BY <1>2 DEF Rooted
  <2>3. PICK n \in Around : \A m \in Around : n.span <= m.span
    <3>1. M \subseteq Nat /\ M # {}
      BY <2>1, <2>2
    <3>2. PICK s \in M : \A m \in M : s <= m
      <4> HIDE DEF M
      <4>1. QED
        BY <3>1, LeastElement
    <3>3. QED
      BY <3>2
  <2>4. n \in t /\ n \in Node /\ Within(x, n)
    BY <2>1, <2>3
  <2>5. PICK l \in Leaves(t) : Within(l, n)
    BY <2>4, LeafWithin
  <2>6. l \in t /\ l \in Node /\ Apart(l, x)
    BY <2>1 DEF Leaves
  <2>7. n # x /\ IsInternal(t, n)
    <3>1. ~Apart(x, x) /\ ~Apart(l, l)
      BY <2>6, NodeFields DEF Apart
    <3>2. n # x
      <4>1. n = x => ~Apart(l, x)
        BY <2>5, <2>6, NodeFields DEF Within, Apart
      <4>2. QED
        BY <2>6, <4>1
    <3>3. n \notin Leaves(t)
      <4>1. Apart(n, x) => FALSE
        BY <2>4, NodeFields DEF Within, Apart
      <4>2. QED
        BY <4>1
    <3>4. QED
      BY <2>4, <3>2, <3>3 DEF Leaves
  <2>8. PICK h \in Spans : /\ h = n.span \div 2 /\ n.span = 2 * h /\ h \in Nat /\ h < n.span
                           /\ x.span <= h
    <3>1. x.span < n.span
      <4>1. ~Within(n, x)
        BY <2>4, <2>7, SameInterval
      <4>2. QED
        BY <2>4, <4>1, NodeFields DEF Within
    <3>2. x.span <= n.span \div 2
      BY <2>4, <3>1, NodeFields, BuddyAssumption
    <3>3. n.span # 1 /\ n.span \in Spans
      BY <2>4, <2>7, Halves, NodeFields
    <3>4. QED
      BY <3>2, <3>3, Halving
  <2>9. /\ Left(n) \in Node /\ Left(n).pos = n.pos /\ Left(n).span = h
        /\ Right(n) \in Node /\ Right(n).pos = n.pos + h /\ Right(n).span = h
    BY <2>4, <2>7, <2>8, Halves DEF Left, Right
  <2>10. PICK e \in {Left(n), Right(n)} : Within(x, e)
    <3>1. n.pos \in Nat /\ x.pos \in Nat /\ x.span \in Nat /\ x.span \in Spans /\ n.span \in Spans
      BY <2>4, NodeFields
    <3>2. PICK mid \in Nat : mid = n.pos + h
      BY <2>8, <3>1
    <3>3. Multiple(mid, x.span)
      <4>1. Multiple(n.pos, x.span)
        <5>1. x.span <= n.span
          BY <2>8, <3>1
        <5>2. QED
          BY <2>4, <3>1, <5>1, SmallerMultiple DEF Aligned
      <4>2. Multiple(h, x.span)
        BY <2>8, <3>1, SpanMultiple
      <4>3. QED
        BY <2>8, <3>1, <3>2, <4>1, <4>2, SumMultiple
    <3>4. CASE x.pos < mid
      <4>1. x.pos + x.span <= mid
        BY <3>1, <3>2, <3>3, <3>4, MultiplesApart
      <4>2. Within(x, Left(n))
        BY <2>4, <2>9, <3>2, <4>1 DEF Within
      <4>3. QED
        BY <4>2
    <3>5. CASE mid <= x.pos
      <4>1. PICK r : r = Right(n)
        OBVIOUS
      <4>2. r.pos = mid /\ r.span = h
        BY <2>9, <3>2, <4>1
      <4>3. x.pos + x.span <= n.pos + n.span
        BY <2>4 DEF Within
      <4>4. x.pos + x.span <= mid + h
        <5>1. n.span = h + h /\ h \in Nat
          BY <2>8
        <5>2. PICK a \in Nat, b \in Nat, w \in Nat : a = n.pos /\ b = x.pos /\ w = x.span
          BY <3>1
        <5>3. b + w <= a + (h + h)
          BY <4>3, <5>1, <5>2
        <5>4. mid = a + h
          BY <3>2, <5>2
        <5>5. b + w <= mid + h
          BY <5>1, <5>2, <5>3, <5>4
        <5>6. QED
          BY <5>2, <5>5
      <4>5. Within(x, r)
        BY <3>5, <4>2, <4>4 DEF Within
      <4>6. QED
        BY <4>1, <4>5
    <3>6. QED
      BY <3>1, <3>2, <3>4, <3>5
  <2>11. e \notin t
    <3>1. e.span = h
      BY <2>9, <2>10
    <3>2. e \in t => e \in Around
      BY <2>10
    <3>3. QED
      BY <2>1, <2>3, <2>4, <2>8, <3>1, <3>2
  <2>12. e \in Spots(t)
    <3>1. n \in Internal(t)
      BY <2>4, <2>7 DEF Internal
    <3>2. e \in UNION {{Left(m), Right(m)} : m \in Internal(t)}
      BY <2>10, <3>1
    <3>3. QED
      BY <1>2, <2>11, <3>2 DEF Spots
  <2>13. QED
    BY <2>8, <2>9, <2>10, <2>12
<1>3. QED
  BY <1>1, <1>2

(* The allocator's tree is rooted and aligned.                             *)
TreeInv == IndInv /\ Rooted(tree) /\ Aligned(tree)

THEOREM TreeInvHolds == Spec => []TreeInv
<1>1. Init => Rooted(tree) /\ Aligned(tree)
  BY DEF Init, Rooted, Aligned
<1>2. TreeInv /\ [Next]_vars => Rooted(tree)' /\ Aligned(tree)'
  <2>1. SUFFICES ASSUME TreeInv, [Next]_vars
                 PROVE  Rooted(tree') /\ Aligned(tree')
    BY DEF Rooted, Aligned
  <2>2. WellFormed(tree) /\ Rooted(tree) /\ Aligned(tree)
    BY <2>1 DEF TreeInv, IndInv
  <2>3. CASE \E p \in Procs, size \in 0 .. MemorySize : Acquire(p, size)
    <3>1. PICK p \in Procs, size \in 0 .. MemorySize : Acquire(p, size)
      BY <2>3
    <3>2. PICK r \in Allocate(tree, size) : tree' = r.tree
      BY <3>1 DEF Acquire
    <3>3. size \in Nat
      BY BuddyAssumption
    <3>4. QED
      BY <2>2, <3>2, <3>3, AllocateAligned, AllocateRooted
  <2>4. CASE \E p \in Procs : Release(p)
    <3>1. PICK b : tree' = Deallocate(tree, b)
      BY <2>4 DEF Release
    <3>2. QED
      BY <2>2, <3>1, DeallocateAligned, DeallocateRooted
  <2>5. CASE UNCHANGED vars
    BY <2>2, <2>5 DEF vars
  <2>6. QED
    BY <2>1, <2>3, <2>4, <2>5 DEF Next
<1>3. QED
  BY <1>1, <1>2, Inductive, PTL DEF Spec, TreeInv

(* Allocate refuses a request only when no aligned block of the size it is *)
(* rounded up to is free.                                                  *)
THEOREM Refusals == Spec => []RefusalJustified
<1>1. TreeInv => RefusalJustified
  <2>1. SUFFICES ASSUME TreeInv, NEW size \in 0 .. MemorySize, NEW sp \in BlockSpan(size),
                        NEW k \in 0 .. 2 * MemorySize, (k + 1) * sp <= 2 * MemorySize,
                        \A p \in Holders : Apart(memoryNode[p], [span |-> sp, pos |-> k * sp])
                 PROVE  Allocate(tree, size) # {}
    BY DEF RefusalJustified
  <2>2. /\ size \in Nat /\ size <= MemorySize /\ k \in Nat /\ MemorySize \in Nat
        /\ sp \in Spans /\ 2 * size <= sp /\ sp \in Nat /\ sp >= 1
    BY BuddyAssumption, Halving DEF BlockSpan
  <2>3. PICK q \in Nat : q = k * sp
    BY <2>2
  <2>4. q + sp <= 2 * MemorySize
    BY <2>1, <2>2, <2>3
  <2>5. PICK x : x = [span |-> sp, pos |-> q]
    OBVIOUS
  <2>6. x \in Node /\ x.span = sp /\ x.pos = q
    BY <2>2, <2>3, <2>4, <2>5 DEF Node
  <2>7. Within(x, Root) /\ Multiple(x.pos, x.span)
    BY <2>2, <2>3, <2>4, <2>6 DEF Within, Root, Multiple
  <2>8. WellFormed(tree) /\ Rooted(tree) /\ Aligned(tree) /\ Leaves(tree) = {memoryNode[p] : p \in Holders}
    BY <2>1 DEF TreeInv, IndInv, LeavesAreHeld
  <2>9. \A l \in Leaves(tree) : Apart(l, x)
    BY <2>1, <2>3, <2>5, <2>8
  <2>10. PICK c \in Spots(tree) : sp <= c.span
    BY <2>6, <2>7, <2>8, <2>9, FreeBlockInSpot
  <2>11. c \in Eligible(tree, size)
    <3>1. c.span \in Nat
      BY <2>8, SpotIsFree, NodeFields
    <3>2. QED
      BY <2>2, <2>10, <3>1 DEF Eligible
  <2>12. QED
    BY <2>2, <2>8, <2>11, EligibleServed
<1>2. QED
  BY <1>1, TreeInvHolds, PTL

=============================================================================
