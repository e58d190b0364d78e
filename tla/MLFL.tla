---------------------------------- MODULE MLFL ----------------------------------
(***************************************************************************)
(* scheduler_MLFL: a queue per priority level.  The front of the first     *)
(* occupied level runs; after quantum ticks it goes one level down, and    *)
(* from the last level into reconstructing_buffer, from where all return   *)
(* to the level of their priority once all levels are empty.               *)
(*                                                                         *)
(* One process has one list node, freed and allocated again (the same      *)
(* chunk: SchedulerHeap) whenever it moves.  A node of the buffer has its  *)
(* nextNode where a node of a level has nothing, so the chunk keeps the    *)
(* link while the process is in a level.  enqueuePriority does not set the *)
(* nextNode of a node that it puts into an empty queue: the old link is    *)
(* the buffer's again.                                                     *)
(***************************************************************************)
EXTENDS RoundRobin

VARIABLES currentOccupiedLevel,   \* the level of currentPCB, -1 if none
          reconstructing_buffer,  \* the nodes that belong there
          staleNext,              \* the nextNode a process's node has kept
          strayNode               \* the node after the buffer's last, NULL if
                                  \* the list ends there as it should

feedbackVars == <<currentOccupiedLevel, reconstructing_buffer, staleNext, strayNode>>

MLVL_Queue == ready

MLFLInit ==
  /\ currentOccupiedLevel = -1
  /\ reconstructing_buffer = <<>>
  /\ staleNext = [p \in Procs |-> NULL]
  /\ strayNode = NULL

priorityKey == [p \in Procs |-> input[p].priority]

(* Put into the level of its priority.                                     *)
AtItsLevel(levels, p) == enqueueMultiLevel(levels, p, input[p].priority)

MLFLReceive ==
  /\ \/ ReceiveTooBig /\ UNCHANGED currentOccupiedLevel
     \/ ReceiveNoRoom(priorityKey) /\ UNCHANGED currentOccupiedLevel
     \/ /\ ReceiveAdmit(AtItsLevel(MLVL_Queue, New), currentOccupiedLevel = -1)
        /\ currentOccupiedLevel' = IF currentOccupiedLevel = -1
                                   THEN multiLevelisEmpty(ready')
                                   ELSE currentOccupiedLevel
     \/ ReceiveDone /\ UNCHANGED currentOccupiedLevel
  /\ UNCHANGED <<quantum_passed, reconstructing_buffer, staleNext, strayNode>>

(* An idle iteration ends at once, and total_cycles does not count it.     *)
MLFLDispatch ==
  /\ \/ (Return \/ Idle("spin") \/ Continue("quantum")) /\ UNCHANGED quantum_passed
     \/ Finish(dequeueMultiLevel(MLVL_Queue, currentOccupiedLevel)) /\ quantum_passed' = 0
  /\ UNCHANGED feedbackVars

(* p runs next.  One that is found in another level than the process before *)
(* is taken to be new.                                                     *)
RunFront(pcbs, p, sameLevel) == IF sameLevel THEN StartOrResume(pcbs, p) ELSE Start(pcbs, p)

MLFLScan ==
  LET level == multiLevelisEmpty(MLVL_Queue)
      front == peek(MLVL_Queue[level], NULL)
  IN /\ \/ ScanAdmit(AtItsLevel(MLVL_Queue, Head(ptr))) /\ UNCHANGED currentOccupiedLevel
        \/ ScanSkip /\ UNCHANGED currentOccupiedLevel
        \/ PickNobody("quantum") /\ currentOccupiedLevel' = -1
        \/ /\ Pick(front, RunFront(pcb, front, level = currentOccupiedLevel), ready, "quantum")
           /\ currentOccupiedLevel' = level
     /\ UNCHANGED <<quantum_passed, reconstructing_buffer, staleNext, strayNode>>

-----------------------------------------------------------------------------
(* The quantum is over: currentPCB moves down, and the front of the first  *)
(* occupied level runs, if there is one.                                   *)

(* The walk of the buffer has left it: what follows is undefined.  The     *)
(* program runs for ever or runs a process that is queued elsewhere.       *)
Broken == SchedTo("broken") /\ UNCHANGED <<bodyVars, quantum_passed, feedbackVars>>

(* enqueuePriority for the buffer.                                         *)
Buffer(p) ==
  /\ reconstructing_buffer' = enqueuePriority(reconstructing_buffer, p, priorityKey)
  /\ strayNode' = IF reconstructing_buffer = <<>> THEN staleNext[p] ELSE strayNode
  /\ UNCHANGED staleNext

(* It looks at nodes behind the buffer's first.                            *)
Walks(p) == reconstructing_buffer # <<>> /\ Last(enqueuePriority(reconstructing_buffer, p, priorityKey)) = p

SwitchTo(levels) ==
  LET level == multiLevelisEmpty(levels)
      next  == peek(levels[level], NULL)
  IN /\ ready' = levels
     /\ currentOccupiedLevel' = level
     /\ IF level = -1
        THEN /\ currentPCB' = NULL
             /\ pcb' = Stop(pcb, currentPCB)
             /\ UNCHANGED quantum_passed
        ELSE /\ currentPCB' = next
             /\ pcb' = RunFront(Stop(pcb, currentPCB), next, level = currentOccupiedLevel)
             /\ quantum_passed' = 0

(* To the next level.                                                      *)
Demote ==
  /\ schedPc = "quantum" /\ quantum_passed = quantum
  /\ currentOccupiedLevel < LastLevel
  /\ SwitchTo(enqueueMultiLevel(dequeueMultiLevel(MLVL_Queue, currentOccupiedLevel),
                                peek(MLVL_Queue[currentOccupiedLevel], NULL), currentOccupiedLevel + 1))
  /\ SchedTo("run")
  /\ UNCHANGED <<reconstructing_buffer, staleNext, strayNode>>
  /\ UNCHANGED <<tree, Memory_Buffer, finishedProcesses, countVars, ptr, cycleVars>>

(* From the last level into the buffer.                                    *)
Shelve ==
  /\ schedPc = "quantum" /\ quantum_passed = quantum
  /\ currentOccupiedLevel = LastLevel
  /\ LET p == peek(MLVL_Queue[LastLevel], NULL)
     IN IF strayNode # NULL /\ Walks(p)
        THEN Broken
        ELSE /\ Buffer(p)
             /\ SwitchTo(dequeueMultiLevel(MLVL_Queue, LastLevel))
             /\ SchedTo("run")
             /\ UNCHANGED <<tree, Memory_Buffer, finishedProcesses, countVars, ptr, cycleVars>>

KeepLevel ==
  /\ schedPc = "quantum" /\ quantum_passed # quantum
  /\ SchedTo("run")
  /\ UNCHANGED <<bodyVars, quantum_passed, feedbackVars>>

-----------------------------------------------------------------------------
(* The end of the iteration.                                               *)

MLFLCharge ==
  /\ currentPCB # NULL \/ reconstructing_buffer = <<>>
  /\ RRCharge
  /\ UNCHANGED feedbackVars

(* All levels are empty: the processes of the buffer go back to their      *)
(* levels, one by one.  The first of them will run.                        *)
Refill ==
  /\ reconstructing_buffer # <<>>
  /\ \/ schedPc = "run" /\ currentPCB = NULL /\ currentPCB' = Head(reconstructing_buffer)
     \/ schedPc = "refill" /\ UNCHANGED currentPCB
  /\ LET p == Head(reconstructing_buffer)
     IN /\ ready' = AtItsLevel(MLVL_Queue, p)
        /\ staleNext' = [staleNext EXCEPT ![p] = peek(Tail(reconstructing_buffer), strayNode)]
  /\ reconstructing_buffer' = dequeue(reconstructing_buffer)
  /\ SchedTo("refill")
  /\ UNCHANGED <<tree, pcb, Memory_Buffer, finishedProcesses, countVars, ptr, cycleVars,
                 quantum_passed, currentOccupiedLevel, strayNode>>

(* The list goes on behind the last process that belongs there.            *)
RefillStrays ==
  /\ schedPc = "refill" /\ reconstructing_buffer = <<>> /\ strayNode # NULL
  /\ Broken

(* It is charged this tick.  quantum_passed is left as it was: quantum if  *)
(* a quantum has just ended, 0 after a finish.                             *)
Reconstruct ==
  /\ schedPc = "refill" /\ reconstructing_buffer = <<>> /\ strayNode = NULL
  /\ currentOccupiedLevel' = multiLevelisEmpty(MLVL_Queue)
  /\ pcb' = [Resume(pcb, currentPCB) EXCEPT ![currentPCB].remainingTime = @ - 1]
  /\ total_cycles' = total_cycles + 1
  /\ SchedTo("spin")
  /\ UNCHANGED <<tree, queueVars, currentPCB, countVars, ptr, idle_cycles,
                 quantum_passed, reconstructing_buffer, staleNext, strayNode>>

MLFLBody ==
  \/ MLFLReceive \/ MLFLDispatch \/ MLFLScan
  \/ Demote \/ Shelve \/ KeepLevel
  \/ MLFLCharge \/ Refill \/ RefillStrays \/ Reconstruct

-----------------------------------------------------------------------------
(* While a tick passes, the running process is the front of the level      *)
(* currentOccupiedLevel, which the next finish or end of quantum dequeues  *)
(* without looking; and nobody runs only if nobody is left, neither in a   *)
(* level nor in the buffer.                                                *)
FrontOfLevelRuns ==
  schedPc = "spin" =>
    IF currentPCB = NULL
    THEN currentOccupiedLevel = -1 /\ NobodyReady /\ reconstructing_buffer = <<>>
    ELSE currentOccupiedLevel # -1 /\ currentPCB = peek(MLVL_Queue[currentOccupiedLevel], NULL)

(* The buffer is a list of the processes put there and of no others        *)
(* ("reconstruct the multilevel if found any processes that haven't done   *)
(* yet", scheduler.c).                                                     *)
BufferSound == strayNode = NULL

=============================================================================
