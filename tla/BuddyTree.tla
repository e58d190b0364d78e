------------------------------ MODULE BuddyTree ------------------------------
(***************************************************************************)
(* The buddy-system tree of data_structures.c, as operators over one value *)
(* (the set of nodes reachable from treeRoot).                             *)
(*                                                                         *)
(* A node stands for a power-of-two block.  The tree is lazy: a child      *)
(* exists only while some allocated block lies in it, the allocated blocks *)
(* are exactly the leaves, and treeRoot is NULL (the empty set) when       *)
(* nothing is allocated.                                                   *)
(*                                                                         *)
(* Positions are counted in half bytes.  The code gives a request of zero  *)
(* bytes a node with data = 0 below a node with data = 1, as its left or   *)
(* its right child; both have the same startIndx, so bytes alone would not *)
(* tell them apart.  In half bytes they are two ordinary blocks of span 1. *)
(***************************************************************************)
EXTENDS Integers, FiniteSets

CONSTANTS MemorySize,   \* bytes managed by the tree
          Spans         \* the powers of two 1, 2, 4, ..., 2 * MemorySize

(* Spans holds the sizes reached by halving 2 * MemorySize down to 1, and  *)
(* nothing in between.                                                     *)
ASSUME BuddyAssumption ==
  /\ MemorySize \in Nat \ {0}
  /\ Spans \subseteq Nat \ {0}
  /\ 1 \in Spans
  /\ 2 * MemorySize \in Spans
  /\ \A s \in Spans : s <= 2 * MemorySize
  /\ \A s \in Spans \ {1} : s \div 2 \in Spans /\ s = 2 * (s \div 2)
  /\ \A s, t \in Spans : s < t => s <= t \div 2

-----------------------------------------------------------------------------
(* Nodes.  data, startIndx and endIndx are the fields of struct treeNode.  *)

Node == [span : Spans, pos : 0 .. 2 * MemorySize]

Root == [span |-> 2 * MemorySize, pos |-> 0]

data(n)      == n.span \div 2
startIndx(n) == n.pos \div 2
endIndx(n)   == startIndx(n) + data(n) - 1

(* Slip: the right half is placed a whole block away.                      *)
RightTooFar(n) == [span |-> n.span \div 2, pos |-> n.pos + n.span]

Left(n)  == [span |-> n.span \div 2, pos |-> n.pos]
Right(n) == [span |-> n.span \div 2, pos |-> n.pos + n.span \div 2]

(* b lies inside a; a and b have no position in common.                    *)
Within(b, a) == a.pos <= b.pos /\ b.pos + b.span <= a.pos + a.span
Apart(a, b)  == a.pos + a.span <= b.pos \/ b.pos + b.span <= a.pos

IsInternal(tree, n) == Left(n) \in tree \/ Right(n) \in tree

Internal(tree) == {n \in tree : IsInternal(tree, n)}
Leaves(tree)   == {n \in tree : ~IsInternal(tree, n)}

(* Slips: a child is handed out again although it exists; only left        *)
(* children are looked for.                                                *)
SpotsTaken(tree) ==
  IF tree = {} THEN {Root} ELSE UNION {{Left(n), Right(n)} : n \in Internal(tree)}

SpotsLeft(tree) ==
  IF tree = {} THEN {Root} ELSE {Left(n) : n \in Internal(tree)} \ tree

-----------------------------------------------------------------------------
(* Allocation.  A spot is a place where the tree can grow: the missing     *)
(* child of an internal node, or the root of an empty tree.  A spot is a   *)
(* maximal free block.                                                     *)

Spots(tree) ==
  IF tree = {} THEN {Root}
  ELSE (UNION {{Left(n), Right(n)} : n \in Internal(tree)}) \ tree

(* Slip: a request for a power of two is rounded up to the next one.       *)
SpanAbove(size) ==
  {s \in Spans : 2 * size < s /\ \A t \in Spans : 2 * size < t => s <= t}

(* The block size for a request: nextPowerOf2, in half bytes (a set with   *)
(* one element).                                                           *)
BlockSpan(size) ==
  {s \in Spans : 2 * size <= s /\ \A t \in Spans : 2 * size <= t => s <= t}

Eligible(tree, size) == {c \in Spots(tree) : 2 * size <= c.span}

(* The recursive descent reaches spot c before spot d.  It goes left first *)
(* where both children exist; where one child is missing it searches the   *)
(* existing child first and fills the missing one only if that fails.      *)
Before(tree, c, d) ==
  \E n \in Internal(tree) :
     /\ Within(c, n) /\ Within(d, n)
     /\ \A m \in Internal(tree) : Within(c, m) /\ Within(d, m) => n.span <= m.span
     /\ \/ d \in {Left(n), Right(n)}
        \/ c \notin {Left(n), Right(n)} /\ c.pos < d.pos

FirstSpot(tree, size) ==
  {c \in Eligible(tree, size) :
     \A d \in Eligible(tree, size) \ {c} : Before(tree, c, d)}

(* Slip: the block is hung below the spot without the nodes in between.    *)
ChainEnds(c, sp) == {c, [span |-> sp, pos |-> c.pos]}

(* The nodes allocateRoot creates: from the spot down its left edge to a   *)
(* block of the wanted span.                                               *)
Chain(c, sp) == {[span |-> s, pos |-> c.pos] : s \in {t \in Spans : sp <= t /\ t <= c.span}}

(* The outcome of Allocate: the block handed out and the tree with it, or  *)
(* nothing at all where the code returns NULL.                             *)
Allocate(tree, size) ==
  {[block |-> [span |-> sp, pos |-> c.pos], tree |-> tree \cup Chain(c, sp)] :
     sp \in BlockSpan(size), c \in FirstSpot(tree, size)}

(* Slip: the ancestors are left in place.                                  *)
DeallocateLeaf(tree, b) == tree \ {b}

(* Deallocate frees the leaf b and then every ancestor that is left        *)
(* without a child: what remains is the nodes above some other leaf.       *)
Deallocate(tree, b) == {n \in tree : \E l \in Leaves(tree) \ {b} : Within(l, n)}

-----------------------------------------------------------------------------
(* The shape of every tree that Allocate and Deallocate build: two nodes   *)
(* are nested or apart, and a node below n lies below one of n's children. *)

Nested(t) == \A m, n \in t : Within(m, n) \/ Within(n, m) \/ Apart(m, n)

Linked(t) ==
  \A m, n \in t :
    m # n /\ Within(m, n) =>
      \E d \in {Left(n), Right(n)} : d \in t /\ Within(m, d)

WellFormed(t) ==
  /\ t \subseteq Node
  /\ \A n \in t : Within(n, Root)
  /\ Nested(t)
  /\ Linked(t)

=============================================================================
