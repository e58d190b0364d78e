------------------------------ MODULE RoundRobin ------------------------------
(***************************************************************************)
(* scheduler_RR: the front of RR_Queue runs; after quantum ticks it goes   *)
(* to the rear if another process is in the queue.                         *)
(***************************************************************************)
EXTENDS Scheduler

CONSTANT quantum
ASSUME QuantumAssumption == quantum \in Nat \ {0}

VARIABLE quantum_passed

RR_Queue == ready[0]

(* The memory buffer is kept with one key for all.                         *)
bufferKey == [p \in Procs |-> 1]

(* Run p, resumed unless it has not run before.                            *)
StartOrResume(pcbs, p) ==
  IF pcbs[p].state = "Ready" THEN Start(pcbs, p) ELSE Resume(pcbs, p)

RRReceive ==
  /\ \/ ReceiveTooBig
     \/ ReceiveNoRoom(bufferKey)
     \/ ReceiveAdmit(OneQueue(enqueue(RR_Queue, New)), currentPCB = NULL)
     \/ ReceiveDone
  /\ UNCHANGED quantum_passed

(* Slip: the quantum is not counted anew after a finish.                   *)
RRDispatchOn ==
  /\ Return \/ Idle("quantum") \/ Continue("quantum") \/ Finish(OneQueue(dequeue(RR_Queue)))
  /\ UNCHANGED quantum_passed

RRDispatch ==
  \/ (Return \/ Idle("quantum") \/ Continue("quantum")) /\ UNCHANGED quantum_passed
  \/ Finish(OneQueue(dequeue(RR_Queue))) /\ quantum_passed' = 0

RRScan ==
  /\ \/ ScanAdmit(OneQueue(enqueue(RR_Queue, Head(ptr))))
     \/ ScanSkip
     \/ PickNobody("quantum")
     \/ Pick(peek(RR_Queue, NULL), StartOrResume(pcb, peek(RR_Queue, NULL)), ready, "quantum")
  /\ UNCHANGED quantum_passed

(* The quantum is over and somebody else is in the queue.                  *)
Rotate ==
  /\ schedPc = "quantum" /\ quantum_passed = quantum
  /\ Len(RR_Queue) >= 2
  /\ LET rotated == enqueue(dequeue(RR_Queue), peek(RR_Queue, NULL))
     IN ready' = OneQueue(rotated) /\ currentPCB' = peek(rotated, NULL)
  /\ pcb' = StartOrResume(Stop(pcb, currentPCB), currentPCB')
  /\ quantum_passed' = 0
  /\ SchedTo("run")
  /\ UNCHANGED <<tree, Memory_Buffer, finishedProcesses, countVars, ptr, cycleVars>>

(* Slip: the quantum is not counted anew for the only process.             *)
KeepCPUOn ==
  /\ schedPc = "quantum"
  /\ quantum_passed = quantum => Len(RR_Queue) < 2
  /\ SchedTo("run")
  /\ UNCHANGED <<bodyVars, quantum_passed>>

(* The quantum is over for the only process, or is not over.               *)
KeepCPU ==
  /\ schedPc = "quantum"
  /\ quantum_passed = quantum => Len(RR_Queue) < 2
  /\ quantum_passed' = IF quantum_passed = quantum THEN 0 ELSE quantum_passed
  /\ SchedTo("run")
  /\ UNCHANGED bodyVars

(* Slip: the quantum is not counted.                                       *)
RRChargeOnly == Charge /\ UNCHANGED quantum_passed

RRCharge ==
  /\ Charge
  /\ quantum_passed' = IF currentPCB = NULL THEN quantum_passed ELSE quantum_passed + 1

RRBody == RRReceive \/ RRDispatch \/ RRScan \/ Rotate \/ KeepCPU \/ RRCharge

-----------------------------------------------------------------------------
(* The running process is the front of RR_Queue: finishing and rotating    *)
(* dequeue the front and take it to be the process that ran.               *)
FrontRuns == schedPc # "scan" => currentPCB = peek(RR_Queue, NULL)

=============================================================================
