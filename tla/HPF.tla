---------------------------------- MODULE HPF ----------------------------------
(***************************************************************************)
(* scheduler_HPF: highest priority first (0 is the highest), preemptive.   *)
(* The running process stays in HPF_Queue, not always at its front.        *)
(***************************************************************************)
EXTENDS Scheduler

HPF_Queue == ready[0]

priority == [p \in Procs |-> input[p].priority]

(* Slip: a running process is left alone.                                  *)
PreemptsNever == currentPCB = NULL

(* A new process takes a free CPU, or takes it from a process of lower     *)
(* priority that is not already done.                                      *)
Preempts ==
  \/ currentPCB = NULL
  \/ /\ input[New].priority < input[currentPCB].priority
     /\ pcb[currentPCB].remainingTime # 0

HPFReceive ==
  \/ ReceiveTooBig
  \/ ReceiveNoRoom(priority)
  \/ ReceiveAdmit(OneQueue(enqueuePriority(HPF_Queue, New, priority)), Preempts)
  \/ ReceiveDone

HPFDispatch ==
  \/ Return
  \/ Idle("run")
  \/ Continue("run")
  \/ Finish(OneQueue(removeNodePriority(HPF_Queue, currentPCB)))

(* A blocked process gets a new startTime as well when it is resumed.      *)
HPFScan ==
  \/ ScanAdmit(OneQueue(enqueuePriority(HPF_Queue, Head(ptr), priority)))
  \/ ScanSkip
  \/ PickNobody("run")
  \/ Pick(peek(HPF_Queue, NULL), Start(pcb, peek(HPF_Queue, NULL)), ready, "run")

HPFBody == HPFReceive \/ HPFDispatch \/ HPFScan \/ Charge

-----------------------------------------------------------------------------
(* While a tick passes the CPU is with a process of the highest priority   *)
(* among all that are admitted, preempted ones included ("Highest Priority *)
(* First", types.h).                                                       *)
PriorityRespected ==
  schedPc = "spin" =>
    \A p \in ToSet(HPF_Queue) : input[currentPCB].priority <= input[p].priority

=============================================================================
