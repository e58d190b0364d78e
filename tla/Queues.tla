-------------------------------- MODULE Queues --------------------------------
(***************************************************************************)
(* The queues of data_structures.c over sequences, front first.  A Queue   *)
(* is a plain FIFO; a PriorityQueue keeps with each node the priority it   *)
(* was inserted with, which no caller changes afterwards, so it is given   *)
(* here by a function from processes to keys.                              *)
(***************************************************************************)
EXTENDS Integers, SequencesExt

enqueue(q, x) == Append(q, x)

(* dequeue and dequeuePriority: an empty queue is left alone.              *)
dequeue(q) == IF q = <<>> THEN q ELSE Tail(q)

(* peek and peekPriority: none is what the caller keeps if there is no     *)
(* front.                                                                  *)
peek(q, none) == IF q = <<>> THEN none ELSE Head(q)

(* Before the head if the head's key is not smaller; otherwise after the   *)
(* head and everything that follows it with a key not larger.              *)
enqueuePriority(q, x, key) ==
  IF q = <<>> \/ key[q[1]] >= key[x]
  THEN <<x>> \o q
  ELSE LET later == {i \in 2 .. Len(q) : key[q[i]] > key[x]}
       IN InsertAt(q, Min(later \cup {Len(q) + 1}), x)

(* Slip: whatever is in front is removed.                                  *)
removeFront(q, x) == dequeue(q)

removeNodePriority(q, x) == RemoveFirst(q, x)

-----------------------------------------------------------------------------
(* A MultiLevelQueue: a plain queue per level, 0 the most urgent.           *)

enqueueMultiLevel(mlq, x, level) == [mlq EXCEPT ![level] = enqueue(@, x)]

dequeueMultiLevel(mlq, level) == [mlq EXCEPT ![level] = dequeue(@)]

(* Slip: a level further down is taken to be the first.                    *)
multiLevelLast(mlq) ==
  LET occupied == {l \in DOMAIN mlq : mlq[l] # <<>>}
  IN IF occupied = {} THEN -1 ELSE Max(occupied)

(* The first occupied level, -1 if there is none.                          *)
multiLevelisEmpty(mlq) ==
  LET occupied == {l \in DOMAIN mlq : mlq[l] # <<>>}
  IN IF occupied = {} THEN -1 ELSE Min(occupied)

-----------------------------------------------------------------------------
(* Where x is in q.                                                        *)
Positions(q, x) == {i \in DOMAIN q : q[i] = x}

=============================================================================
