--------------------------- MODULE BuddyAllocator ---------------------------
(***************************************************************************)
(* The buddy allocator in use: processes obtain one block each             *)
(* (pcb->memoryNode = Allocate(pcb->memSize)) and give it back when they   *)
(* finish (Deallocate(pcb->memoryNode)).  The schedulers never ask for     *)
(* more than MemorySize and never ask again while they hold a block.       *)
(***************************************************************************)
EXTENDS BuddyTree

CONSTANTS Procs,    \* the processes that use memory
          NULL      \* memoryNode of a process that holds nothing

ASSUME NullAssumption == NULL \notin Node

VARIABLES tree,        \* nodes reachable from treeRoot
          memoryNode,  \* memoryNode of each pcb
          memSize      \* bytes each pcb asked for

vars == <<tree, memoryNode, memSize>>

Holders == {p \in Procs : memoryNode[p] # NULL}

TypeOK ==
  /\ tree \subseteq Node
  /\ memoryNode \in [Procs -> Node \cup {NULL}]
  /\ memSize \in [Procs -> 0 .. MemorySize]

Init ==
  /\ tree = {}
  /\ memoryNode = [p \in Procs |-> NULL]
  /\ memSize = [p \in Procs |-> 0]

(* A request that fits is served; one that does not leaves no trace.       *)
Acquire(p, size) ==
  /\ memoryNode[p] = NULL
  /\ \E r \in Allocate(tree, size) :
       /\ tree' = r.tree
       /\ memoryNode' = [memoryNode EXCEPT ![p] = r.block]
  /\ memSize' = [memSize EXCEPT ![p] = size]

Release(p) ==
  /\ memoryNode[p] # NULL
  /\ tree' = Deallocate(tree, memoryNode[p])
  /\ memoryNode' = [memoryNode EXCEPT ![p] = NULL]
  /\ memSize' = [memSize EXCEPT ![p] = 0]

Next == \E p \in Procs :
          \/ \E size \in 0 .. MemorySize : Acquire(p, size)
          \/ Release(p)

Spec == Init /\ [][Next]_vars

-----------------------------------------------------------------------------
(* No two processes ever hold overlapping memory: the blocks of the tree   *)
(* handed out by allocateTree and allocateRoot stay disjoint, whatever was *)
(* allocated and freed before.                                             *)
BlocksDisjoint ==
  \A p, q \in Holders : p # q => Apart(memoryNode[p], memoryNode[q])

(* A holder's block lies inside memory, is large enough, and wastes less   *)
(* than half of itself (nextPowerOf2 rounds up, not further).              *)
BlockFits ==
  \A p \in Holders :
    /\ 0 <= startIndx(memoryNode[p])
    /\ endIndx(memoryNode[p]) < MemorySize
    /\ memSize[p] <= data(memoryNode[p])
    /\ data(memoryNode[p]) < 2 * memSize[p] \/ data(memoryNode[p]) = 0

(* The leaves of the tree are exactly the blocks handed out: Deallocate    *)
(* forgets no block, strands no node (all free memory coalesces), and      *)
(* frees no block a process still holds.                                   *)
LeavesAreHeld == Leaves(tree) = {memoryNode[p] : p \in Holders}

(* Allocate refuses a request only when every aligned block of its size    *)
(* overlaps memory that is in use: the descent of allocateTree, which      *)
(* tries at most one missing child per node, never misses a free block.    *)
RefusalJustified ==
  \A size \in 0 .. MemorySize :
    Allocate(tree, size) = {} =>
      \A sp \in BlockSpan(size), k \in 0 .. 2 * MemorySize :
        (k + 1) * sp <= 2 * MemorySize =>
          \E p \in Holders : ~Apart(memoryNode[p], [span |-> sp, pos |-> k * sp])

(* The inductive invariant behind the properties above: blocks are exactly *)
(* the leaves of a well-formed tree, one leaf per holder, of the span its  *)
(* request was rounded up to.                                              *)
IndInv ==
  /\ TypeOK
  /\ WellFormed(tree)
  /\ LeavesAreHeld
  /\ \A p \in Holders : memoryNode[p].span \in BlockSpan(memSize[p])
  /\ \A p, q \in Holders : memoryNode[p] = memoryNode[q] => p = q

=============================================================================
