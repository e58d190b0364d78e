----------------------------- MODULE SchedulerHeap -----------------------------
(***************************************************************************)
(* SchedulerMain with its lists on a heap: every step also makes the calls *)
(* of malloc, free and the list functions that the code makes in it, in    *)
(* the code's order.  Log lines are kept in two lists of their own, whose  *)
(* nodes come from the same chunks.                                        *)
(***************************************************************************)
EXTENDS SchedulerMain

CONSTANT Chunks

(* The ready queue's levels are lists 0 .. LastLevel; then come            *)
InBuffer   == LastLevel + 1
InFinished == LastLevel + 2
InFeedback == LastLevel + 3     \* reconstructing_buffer
InOutput   == LastLevel + 4     \* outputQueue
InMemory   == LastLevel + 5     \* memoryQueue

Heap == INSTANCE LinkedLists WITH Lists <- 0 .. LastLevel + 5

ASSUME HeapAssumption == Chunks \in Nat

VARIABLES heap,
          walk    \* ptr of the scan of Memory_Buffer: a chunk

heapVars == <<mainVars, heap, walk>>

Call(function, list, process, key) ==
  [call |-> function, list |-> list, data |-> process, key |-> key]

Make(h, c) ==
  CASE c.call = "enqueue"            -> Heap!enqueue(h, c.list, c.data)
    [] c.call = "dequeue"            -> Heap!dequeue(h, c.list)
    [] c.call = "enqueuePriority"    -> Heap!enqueuePriority(h, c.list, c.data, c.key)
    [] c.call = "dequeuePriority"    -> Heap!dequeuePriority(h, c.list)
    [] c.call = "removeNodePriority" -> Heap!removeNodePriority(h, c.list, c.data)

Put(list, p)       == Call("enqueue", list, p, 0)
Take(list)         == Call("dequeue", list, 0, 0)
PutBy(list, p, k)  == Call("enqueuePriority", list, p, k)
TakeBy(list)       == Call("dequeuePriority", list, 0, 0)

OutputLine == Put(InOutput, 0)
MemoryLine == Put(InMemory, 0)

-----------------------------------------------------------------------------
(* The calls of each step.                                                 *)

(* Into the ready queue.                                                   *)
Enter(p) ==
  CASE schedAlgorithm = "RR"   -> Put(0, p)
    [] schedAlgorithm = "HPF"  -> PutBy(0, p, input[p].priority)
    [] schedAlgorithm = "SJF"  -> PutBy(0, p, input[p].executionTime)
    [] schedAlgorithm = "MLFL" -> Put(input[p].priority, p)

BufferKey(p) ==
  CASE schedAlgorithm = "RR"  -> 1
    [] schedAlgorithm = "SJF" -> input[p].executionTime
    [] OTHER                  -> input[p].priority

AdmitCalls ==
  (IF schedAlgorithm = "HPF" THEN <<Enter(New), MemoryLine>> ELSE <<MemoryLine, Enter(New)>>)
    \o (IF currentPCB \notin {NULL, currentPCB'} THEN <<OutputLine>> ELSE <<>>)
    \o (IF currentPCB' = New THEN <<OutputLine>> ELSE <<>>)

FinishCalls ==
  LET leave == CASE schedAlgorithm = "RR"   -> Take(0)
                 [] schedAlgorithm = "MLFL" -> Take(currentOccupiedLevel)
                 [] OTHER -> Call("removeNodePriority", 0, currentPCB, 0)
  IN <<MemoryLine, OutputLine, leave, Put(InFinished, currentPCB)>>

(* Slip: out of the buffer before into the ready queue.                    *)
ScanCallsSwapped == <<MemoryLine, TakeBy(InBuffer), Enter(Head(ptr))>>

ScanCalls == <<MemoryLine, Enter(Head(ptr)), TakeBy(InBuffer)>>

PickCalls ==
  (IF schedAlgorithm = "SJF" THEN <<TakeBy(0)>> ELSE <<>>) \o <<OutputLine>>

SwitchCalls ==
  LET level == IF schedAlgorithm = "RR" THEN 0 ELSE currentOccupiedLevel
      down  == CASE schedAlgorithm = "RR" -> Put(0, currentPCB)
                 [] schedAlgorithm = "MLFL" /\ level < LastLevel -> Put(level + 1, currentPCB)
                 [] OTHER -> PutBy(InFeedback, currentPCB, input[currentPCB].priority)
  IN <<OutputLine, Take(level), down>> \o (IF currentPCB' = NULL THEN <<>> ELSE <<OutputLine>>)

(* Slip: a log line between taking out and putting in.                     *)
RefillCallsSplit == <<TakeBy(InFeedback), OutputLine, Enter(Head(reconstructing_buffer))>>

RefillCalls == <<TakeBy(InFeedback), Enter(Head(reconstructing_buffer))>>

Admits == current_process_count' # current_process_count

Calls ==
  CASE schedPc = "receive" /\ Memory_Buffer' # Memory_Buffer -> <<PutBy(InBuffer, New, BufferKey(New))>>
    [] schedPc = "receive" /\ Admits                    -> AdmitCalls
    [] schedPc = "dispatch" /\ schedPc' = "scan"        -> FinishCalls
    [] schedPc = "scan" /\ Admits                       -> ScanCalls
    [] schedPc = "scan" /\ currentPCB' # NULL           -> PickCalls
    [] schedPc = "quantum" /\ ready' # ready            -> SwitchCalls
    [] schedPc' = "refill"                              -> RefillCalls
    [] schedPc = "refill" /\ schedPc' = "spin"          -> <<OutputLine>>
    [] OTHER -> <<>>

HeapInit == MainInit /\ heap = Heap!EmptyHeap /\ walk = 0

HeapNext ==
  /\ MainNext
  /\ heap.used + Len(Calls) <= Chunks
  /\ heap' = FoldLeft(Make, heap, Calls)
  /\ walk' = CASE schedPc = "dispatch" /\ schedPc' = "scan" -> heap'.front[InBuffer]
               [] schedPc = "scan" /\ ptr # <<>>            -> heap'.cell[walk][Heap!PrioNext]
               [] OTHER                                     -> walk

HeapSafety == HeapInit /\ [][HeapNext]_heapVars

-----------------------------------------------------------------------------
Pointed(p) == IF p = NULL THEN 0 ELSE p

(* No node is leaked, freed twice or in two lists: every chunk ever used   *)
(* is free, or the node of a log line or of a process in one list.         *)
NodesAccounted ==
  LET lines  == {c \in 1 .. heap.used : Heap!dataPtr(heap, c) = 0}
      queued == FlattenSeq([l \in 1 .. LastLevel + 1 |-> ready[l - 1]])
  IN /\ Cardinality(ToSet(heap.freed)) = Len(heap.freed)
     /\ heap.used = Len(heap.freed) + Cardinality(lines)
                      + Len(queued \o Memory_Buffer \o reconstructing_buffer \o finishedProcesses)

(* Each list on the heap, followed node by node, is the sequence by which  *)
(* the other modules represent it, and a Queue's rear is its last node.    *)
(* In particular an insertion into an empty priority queue, which leaves   *)
(* nextNode as malloc found it ("q->front = temp", data_structures.c),     *)
(* ends the list there, but for the node that MLFL's strayNode predicts.   *)
ListsIntact ==
  LET readyNext == IF schedAlgorithm \in {"RR", "MLFL"} THEN Heap!NodeNext ELSE Heap!PrioNext
      rearIs(l, seq) == seq # <<>> => Heap!dataPtr(heap, heap.rear[l]) = Last(seq)
  IN /\ \A l \in Levels :
          /\ Heap!Chain(heap, heap.front[l], readyNext, ready[l], 0)
          /\ schedAlgorithm \in {"RR", "MLFL"} => rearIs(l, ready[l])
     /\ Heap!Chain(heap, heap.front[InBuffer], Heap!PrioNext, Memory_Buffer, 0)
     /\ Heap!Chain(heap, heap.front[InFinished], Heap!NodeNext, finishedProcesses, 0)
     /\ rearIs(InFinished, finishedProcesses)
     /\ Heap!Chain(heap, heap.front[InFeedback], Heap!PrioNext, reconstructing_buffer, Pointed(strayNode))

(* The scan of the memory buffer reads nextNode of nodes it has just freed *)
(* ("ptr = ptr->nextNode", scheduler.c), while other nodes are allocated:  *)
(* it still sees the processes that were in the buffer when it began.      *)
ScanReadsIntact ==
  schedPc = "scan" => Heap!Chain(heap, walk, Heap!PrioNext, ptr, 0)

(* What MLFL claims of the links that the nodes of its levels keep from    *)
(* the reconstruction buffer is what is on the heap: every process has one *)
(* chunk, however often its node is freed and allocated.                   *)
StaleNextRight ==
  schedAlgorithm = "MLFL" /\ schedPc # "broken" =>
    \A c \in 1 .. heap.used :
      LET p == Heap!dataPtr(heap, c)
          kept == heap.cell[c][Heap!PrioNext]
      IN InQueue(p) =>
           Pointed(staleNext[p]) = IF kept = 0 THEN 0 ELSE Heap!dataPtr(heap, kept)

=============================================================================
