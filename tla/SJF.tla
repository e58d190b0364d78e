---------------------------------- MODULE SJF ----------------------------------
(***************************************************************************)
(* scheduler_SJF: shortest job first, not preemptive.  A process that      *)
(* starts as it arrives stays in SJF_Queue while it runs; one that is      *)
(* picked later is taken out of it.                                        *)
(***************************************************************************)
EXTENDS Scheduler

SJF_Queue == ready[0]

executionTime == [p \in Procs |-> input[p].executionTime]

SJFReceive ==
  \/ ReceiveTooBig
  \/ ReceiveNoRoom(executionTime)
  \/ ReceiveAdmit(OneQueue(enqueuePriority(SJF_Queue, New, executionTime)), currentPCB = NULL)
  \/ ReceiveDone

SJFDispatch ==
  \/ Return
  \/ Idle("run")
  \/ Continue("run")
  \/ Finish(OneQueue(removeNodePriority(SJF_Queue, currentPCB)))

SJFScan ==
  \/ ScanAdmit(OneQueue(enqueuePriority(SJF_Queue, Head(ptr), executionTime)))
  \/ ScanSkip
  \/ PickNobody("run")
  \/ Pick(peek(SJF_Queue, NULL), Start(pcb, peek(SJF_Queue, NULL)), OneQueue(dequeue(SJF_Queue)), "run")

SJFBody == SJFReceive \/ SJFDispatch \/ SJFScan \/ Charge

-----------------------------------------------------------------------------
(* Whoever gets the CPU when another process finishes is the shortest of   *)
(* all that are admitted by the end of that tick ("Shortest Job First",    *)
(* types.h).  A free CPU goes to the first that arrives, even if a shorter *)
(* one arrives in the same tick.                                           *)
ShortestRuns ==
  schedPc = "spin" /\ currentPCB # NULL /\ pcb[currentPCB].startTime = currClk
  /\ (\E p \in ToSet(finishedProcesses) : pcb[p].finishTime = currClk) =>
    \A p \in ToSet(SJF_Queue) : input[currentPCB].executionTime <= input[p].executionTime

=============================================================================
