-------------------------------- MODULE MCHeap --------------------------------
(* Instances of the whole program with its lists on the heap.              *)
EXTENDS SchedulerHeap, MCFiles

(* Three equal processes that fit into memory together, waiting for one    *)
(* that needs all of it; or processes that run long.                       *)
HeapFiles ==
  Files(1 .. 2, {<<1, 1, 1>>, <<2, 0, 4>>, <<2, 1, 1>>, <<5, 1, 1>>})
===============================================================================
