------------------------------ MODULE LinkedLists ------------------------------
(***************************************************************************)
(* The lists of data_structures.c as they lie on the heap.  A Node         *)
(* <<dataPtr, nextNode>> and a PrioNode <<dataPtr, priority, nextNode>>    *)
(* are both served by chunks of three words, and nothing else is of that   *)
(* size while the scheduler runs.  Pointers are chunk numbers, 0 is NULL.  *)
(*                                                                         *)
(* A heap is a record: cell (the chunks' words), freed (the chunks that    *)
(* were freed, last first), used (how many chunks have ever been used),    *)
(* front and rear (of each list).  The third word of a new Node is never   *)
(* set, nor is it set by enqueuePriority in an empty queue.                *)
(***************************************************************************)
EXTENDS Integers, Sequences

CONSTANTS Chunks,   \* bound: how many chunks the heap has
          Lists     \* the lists

Unset == -1         \* what free and malloc leave in the first two words

EmptyHeap ==
  [cell |-> [c \in 1 .. Chunks |-> <<0, 0, 0>>], freed |-> <<>>, used |-> 0,
   front |-> [l \in Lists |-> 0], rear |-> [l \in Lists |-> 0]]

dataPtr(h, c) == h.cell[c][1]

(* The word that is nextNode: the second of a Node, the third of a PrioNode. *)
NodeNext == 2
PrioNext == 3

-----------------------------------------------------------------------------
(* malloc and free of the C library: fresh chunks are zero, the chunk      *)
(* freed last is given out first, and its third word is as it was.         *)

malloc(h) == IF h.freed = <<>> THEN h.used + 1 ELSE Head(h.freed)

Allocated(h) ==
  IF h.freed = <<>> THEN [h EXCEPT !.used = @ + 1] ELSE [h EXCEPT !.freed = Tail(@)]

free(h, c) ==
  [h EXCEPT !.freed = <<c>> \o @, !.cell[c] = <<Unset, Unset, @[3]>>]

-----------------------------------------------------------------------------
(* Slip: the new node's nextNode is not set.                               *)
enqueueUnterminated(h, list, data) ==
  LET link   == malloc(h)
      filled == [Allocated(h) EXCEPT !.cell[link][1] = data, !.rear[list] = link]
  IN IF h.front[list] = 0 THEN [filled EXCEPT !.front[list] = link]
     ELSE [filled EXCEPT !.cell[h.rear[list]][NodeNext] = link]

enqueue(h, list, data) ==
  LET link   == malloc(h)
      filled == [Allocated(h) EXCEPT !.cell[link] = <<data, 0, @[3]>>, !.rear[list] = link]
  IN IF h.front[list] = 0 THEN [filled EXCEPT !.front[list] = link]
     ELSE [filled EXCEPT !.cell[h.rear[list]][NodeNext] = link]

dequeue(h, list) ==
  LET deqNode == h.front[list]
  IN IF deqNode = 0 THEN h
     ELSE free([h EXCEPT !.front[list] = h.cell[deqNode][NodeNext]], deqNode)

enqueuePriority(h, list, data, priority) ==
  LET temp   == malloc(h)
      filled == [Allocated(h) EXCEPT !.cell[temp] = <<data, priority, @[3]>>]
      first  == h.front[list]
      next(c) == h.cell[c][PrioNext]
      start[c \in 1 .. Chunks] ==
        IF next(c) # 0 /\ h.cell[next(c)][2] <= priority THEN start[next(c)] ELSE c
  IN IF first = 0 THEN [filled EXCEPT !.front[list] = temp]
     ELSE IF h.cell[first][2] >= priority
     THEN [filled EXCEPT !.cell[temp][PrioNext] = first, !.front[list] = temp]
     ELSE [filled EXCEPT !.cell[temp][PrioNext] = next(start[first]),
                         !.cell[start[first]][PrioNext] = temp]

(* Slip: the node is not freed.                                            *)
dequeuePriorityKept(h, list) ==
  LET deleted == h.front[list]
  IN IF deleted = 0 THEN h ELSE [h EXCEPT !.front[list] = h.cell[deleted][PrioNext]]

dequeuePriority(h, list) ==
  LET deleted == h.front[list]
  IN IF deleted = 0 THEN h
     ELSE free([h EXCEPT !.front[list] = h.cell[deleted][PrioNext]], deleted)

removeNodePriority(h, list, data) ==
  LET next(c) == h.cell[c][PrioNext]
      (* The last node before one with this data, or the last of all.      *)
      previous[c \in 1 .. Chunks] ==
        IF next(c) = 0 \/ dataPtr(h, next(c)) = data THEN c ELSE previous[next(c)]
      first == h.front[list]
  IN IF first = 0 THEN h
     ELSE IF dataPtr(h, first) = data THEN dequeuePriority(h, list)
     ELSE LET before == previous[first]
              deleted == next(before)
          IN IF deleted = 0 THEN h
             ELSE free([h EXCEPT !.cell[before][PrioNext] = next(deleted)], deleted)

-----------------------------------------------------------------------------
(* From chunk c on, following the given word, the data are those of seq;   *)
(* after them the chain ends, or goes on with a node of stray.             *)
Chain(h, c, word, seq, stray) ==
  LET node[i \in 0 .. Len(seq)] ==
        IF i = 0 THEN c ELSE IF node[i - 1] \in 1 .. Chunks THEN h.cell[node[i - 1]][word] ELSE 0
      is(pointer, data) == pointer \in 1 .. Chunks /\ dataPtr(h, pointer) = data
  IN /\ \A i \in 1 .. Len(seq) : is(node[i - 1], seq[i])
     /\ IF stray = 0 THEN node[Len(seq)] = 0 ELSE is(node[Len(seq)], stray)

=============================================================================
