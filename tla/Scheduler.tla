------------------------------- MODULE Scheduler -------------------------------
(***************************************************************************)
(* What the scheduling algorithms of scheduler.c have in common: the data  *)
(* they work on and the steps that are the same in each.  A step that      *)
(* differs only in a queue or a key takes it as a parameter.               *)
(*                                                                         *)
(* Between two accesses to shared state the scheduler is sequential; its   *)
(* loop body is cut where the code has a loop or a branch of its own:      *)
(* receive, dispatch, scan, quantum (round robin and multi-level feedback),*)
(* run, refill (multi-level feedback).                                     *)
(***************************************************************************)
EXTENDS TickEnv, BuddyTree, Queues

CONSTANTS NULL,      \* the null pointer
          LastLevel  \* the lowest level of a multi-level queue (10)

(* The levels of a multi-level queue, the most urgent first.               *)
Levels == 0 .. LastLevel

ASSUME LevelAssumption == LastLevel \in Nat

ASSUME NullAssumption == NULL \notin Procs /\ NULL \notin Node

(* What an input file may say: "0 : Highest, 10: Lowest" (types.h) for a  *)
(* priority, and no negative numbers.                                      *)
ASSUME FileAssumption ==
  \A in \in Inputs : \A p \in Procs :
    /\ in[p].priority \in Levels
    /\ in[p].executionTime \in Nat
    /\ in[p].memSize \in Nat

VARIABLES tree,                   \* the buddy tree, from treeRoot
          pcb,                    \* the process control blocks
          ready,                  \* the algorithm's queue (e.g. RR_Queue), at
                                  \* level 0; multi-level feedback uses them all
          Memory_Buffer,          \* processes waiting for memory
          finishedProcesses,
          currentPCB,
          process_count,          \* processes in the file, less the rejected
          current_process_count,  \* processes admitted so far
          ptr,                    \* what the scan of Memory_Buffer has left
          idle_cycles,
          total_cycles

queueVars == <<ready, Memory_Buffer, finishedProcesses>>
countVars == <<process_count, current_process_count>>
cycleVars == <<idle_cycles, total_cycles>>
bodyVars  == <<tree, pcb, queueVars, currentPCB, countVars, ptr, cycleVars>>

States == {"none", "Ready", "Blocked", "Running", "Finished"}

(* A pcb exists from the moment the scheduler has received it ("none"      *)
(* before); startTime and finishTime are 0 until they are set.             *)
BodyInit ==
  /\ tree = {}
  /\ pcb = [p \in Procs |-> [state |-> "none", remainingTime |-> input[p].executionTime,
                             startTime |-> 0, finishTime |-> 0, memoryNode |-> NULL]]
  /\ ready = [l \in Levels |-> <<>>]
  /\ Memory_Buffer = <<>> /\ finishedProcesses = <<>>
  /\ currentPCB = NULL
  /\ process_count = N /\ current_process_count = 0
  /\ ptr = <<>>
  /\ idle_cycles = 0 /\ total_cycles = 0

(* ready with its only queue replaced.                                      *)
OneQueue(queue) == [ready EXCEPT ![0] = queue]

InQueue(p)  == \E l \in Levels : Contains(ready[l], p)
NobodyReady == \A l \in Levels : ready[l] = <<>>

-----------------------------------------------------------------------------
(* saveProcessState, the fields its callers really change.                 *)
saveProcessState(pcbs, p, state, finishTime) ==
  [pcbs EXCEPT ![p].state = state, ![p].finishTime = finishTime]

(* Received; createProcess has set its state.                              *)
Receive(pcbs, p) == [pcbs EXCEPT ![p].state = "Ready"]

(* Admitted: given its block, forked and stopped.                          *)
Admit(pcbs, p, block) ==
  saveProcessState([pcbs EXCEPT ![p].memoryNode = block], p, "Ready", 0)

(* Put on the CPU as a newly started process.                              *)
Start(pcbs, p) ==
  [saveProcessState(pcbs, p, "Running", 0) EXCEPT ![p].startTime = currClk]

(* Slip: as if it were new.                                                *)
ResumeAnew(pcbs, p) == Start(pcbs, p)

Resume(pcbs, p) == saveProcessState(pcbs, p, "Running", 0)

(* Slip: the process is not stopped.                                       *)
StopNot(pcbs, p) == pcbs

Stop(pcbs, p) == saveProcessState(pcbs, p, "Blocked", 0)

-----------------------------------------------------------------------------
(* The receive loop, for the process at the head of the message queue.     *)

New == Head(msgq)

(* Slip: a rejected process is counted as admitted as well.                *)
ReceiveTooBigCounted ==
  /\ SchedTake
  /\ input[New].memSize > MemorySize
  /\ process_count' = process_count - 1
  /\ current_process_count' = current_process_count + 1
  /\ pcb' = Receive(pcb, New)
  /\ UNCHANGED <<tree, queueVars, currentPCB, ptr, cycleVars>>

(* It asks for more memory than there is: cancelled.                       *)
ReceiveTooBig ==
  /\ SchedTake
  /\ input[New].memSize > MemorySize
  /\ process_count' = process_count - 1
  /\ pcb' = Receive(pcb, New)
  /\ UNCHANGED <<tree, queueVars, currentPCB, current_process_count, ptr, cycleVars>>

(* There is no block for it now: it waits in the memory buffer.            *)
ReceiveNoRoom(key) ==
  /\ SchedTake
  /\ input[New].memSize <= MemorySize
  /\ Allocate(tree, input[New].memSize) = {}
  /\ Memory_Buffer' = enqueuePriority(Memory_Buffer, New, key)
  /\ pcb' = Receive(pcb, New)
  /\ UNCHANGED <<tree, ready, finishedProcesses, currentPCB, countVars, ptr, cycleVars>>

(* It gets a block and joins a queue, and the CPU if takesCPU: whoever had *)
(* it is stopped.  queues is what ready becomes.                           *)
ReceiveAdmit(queues, takesCPU) ==
  /\ SchedTake
  /\ input[New].memSize <= MemorySize
  /\ \E r \in Allocate(tree, input[New].memSize) :
       /\ tree' = r.tree
       /\ LET admitted == Admit(pcb, New, r.block)
              stopped  == IF currentPCB = NULL THEN admitted ELSE Stop(admitted, currentPCB)
          IN pcb' = IF takesCPU THEN Start(stopped, New) ELSE admitted
  /\ currentPCB' = IF takesCPU THEN New ELSE currentPCB
  /\ ready' = queues
  /\ current_process_count' = current_process_count + 1
  /\ UNCHANGED <<Memory_Buffer, finishedProcesses, process_count, ptr, cycleVars>>

(* Slip: not all messages of the tick are taken ("if" for "while").        *)
ReceiveSome ==
  /\ schedPc = "receive"
  /\ SchedTo("dispatch")
  /\ UNCHANGED bodyVars

ReceiveDone ==
  /\ schedPc = "receive" /\ msgq = <<>>
  /\ SchedTo("dispatch")
  /\ UNCHANGED bodyVars

-----------------------------------------------------------------------------
(* The dispatch.  next is the label a tick without a finish goes on to.    *)

Return ==
  /\ schedPc = "dispatch" /\ currentPCB = NULL
  /\ process_count = current_process_count
  /\ SchedTo("returned")
  /\ UNCHANGED bodyVars

(* Slip: the idle tick is not counted.                                     *)
IdleUncounted(next) ==
  /\ schedPc = "dispatch" /\ currentPCB = NULL
  /\ process_count # current_process_count
  /\ SchedTo(next)
  /\ UNCHANGED bodyVars

Idle(next) ==
  /\ schedPc = "dispatch" /\ currentPCB = NULL
  /\ process_count # current_process_count
  /\ idle_cycles' = idle_cycles + 1
  /\ SchedTo(next)
  /\ UNCHANGED <<tree, pcb, queueVars, currentPCB, countVars, ptr, total_cycles>>

Continue(next) ==
  /\ schedPc = "dispatch" /\ currentPCB # NULL
  /\ pcb[currentPCB].remainingTime # 0
  /\ SchedTo(next)
  /\ UNCHANGED bodyVars

(* Slip: a process is taken to be done one tick early.                     *)
FinishEarly(queues) ==
  /\ schedPc = "dispatch" /\ currentPCB # NULL
  /\ pcb[currentPCB].remainingTime <= 1
  /\ tree' = Deallocate(tree, pcb[currentPCB].memoryNode)
  /\ pcb' = saveProcessState(pcb, currentPCB, "Finished", currClk)
  /\ ready' = queues
  /\ finishedProcesses' = enqueue(finishedProcesses, currentPCB)
  /\ currentPCB' = NULL
  /\ ptr' = Memory_Buffer
  /\ SchedTo("scan")
  /\ UNCHANGED <<Memory_Buffer, countVars, cycleVars>>

(* The running process is done: its block is freed, it leaves the queue,   *)
(* and the scan of the memory buffer begins.                               *)
Finish(queues) ==
  /\ schedPc = "dispatch" /\ currentPCB # NULL
  /\ pcb[currentPCB].remainingTime = 0
  /\ tree' = Deallocate(tree, pcb[currentPCB].memoryNode)
  /\ pcb' = saveProcessState(pcb, currentPCB, "Finished", currClk)
  /\ ready' = queues
  /\ finishedProcesses' = enqueue(finishedProcesses, currentPCB)
  /\ currentPCB' = NULL
  /\ ptr' = Memory_Buffer
  /\ SchedTo("scan")
  /\ UNCHANGED <<Memory_Buffer, countVars, cycleVars>>

(* The scan walks the nodes the buffer had when it began.  A process that  *)
(* gets a block joins the queue, but what is taken out of the buffer is    *)
(* its front.                                                              *)
ScanAdmit(queues) ==
  /\ schedPc = "scan" /\ ptr # <<>>
  /\ \E r \in Allocate(tree, input[Head(ptr)].memSize) :
       /\ tree' = r.tree
       /\ pcb' = Admit(pcb, Head(ptr), r.block)
  /\ ready' = queues
  /\ Memory_Buffer' = dequeue(Memory_Buffer)
  /\ current_process_count' = current_process_count + 1
  /\ ptr' = Tail(ptr)
  /\ UNCHANGED <<tickVars, finishedProcesses, currentPCB, process_count, cycleVars>>

ScanSkip ==
  /\ schedPc = "scan" /\ ptr # <<>>
  /\ Allocate(tree, input[Head(ptr)].memSize) = {}
  /\ pcb' = [pcb EXCEPT ![Head(ptr)].memoryNode = NULL]
  /\ ptr' = Tail(ptr)
  /\ UNCHANGED <<tickVars, tree, queueVars, currentPCB, countVars, cycleVars>>

(* Slip: the queue is not looked at.                                       *)
PickNobodyEver(next) ==
  /\ schedPc = "scan" /\ ptr = <<>>
  /\ SchedTo(next)
  /\ UNCHANGED bodyVars

(* Nobody is left to run.                                                  *)
PickNobody(next) ==
  /\ schedPc = "scan" /\ ptr = <<>> /\ NobodyReady
  /\ SchedTo(next)
  /\ UNCHANGED bodyVars

(* p runs next, newly started or resumed; queues is what stays behind.     *)
Pick(p, pcbs, queues, next) ==
  /\ schedPc = "scan" /\ ptr = <<>> /\ ~NobodyReady
  /\ currentPCB' = p
  /\ pcb' = pcbs
  /\ ready' = queues
  /\ SchedTo(next)
  /\ UNCHANGED <<tree, Memory_Buffer, finishedProcesses, countVars, ptr, cycleVars>>

(* The end of the iteration: the running process is charged one tick.      *)
Charge ==
  /\ schedPc = "run"
  /\ pcb' = IF currentPCB = NULL THEN pcb
            ELSE [pcb EXCEPT ![currentPCB].remainingTime = @ - 1]
  /\ total_cycles' = total_cycles + 1
  /\ SchedTo("spin")
  /\ UNCHANGED <<tree, queueVars, currentPCB, countVars, ptr, idle_cycles>>

-----------------------------------------------------------------------------
(* What holds of every algorithm.                                          *)

PCB == [state : States, remainingTime : Int, startTime : Nat, finishTime : Nat,
        memoryNode : Node \cup {NULL}]

SchedPcs == HeadPcs \cup {"dispatch", "scan", "quantum", "run", "refill", "broken"}

BodyTypeOK ==
  /\ input \in Inputs
  /\ clk \in 0 .. MaxClk /\ genClk \in 0 .. clk /\ currClk \in 0 .. clk
  /\ sem \in Nat
  /\ msgq \in Seq(Procs)
  /\ genPc \in GenPcs /\ schedPc \in SchedPcs
  /\ genNext \in 1 .. N + 1 /\ processes_sent \in 0 .. N
  /\ tree \subseteq Node
  /\ pcb \in [Procs -> PCB]
  /\ ready \in [Levels -> Seq(Procs)]
  /\ {Memory_Buffer, finishedProcesses, ptr} \subseteq Seq(Procs)
  /\ currentPCB \in Procs \cup {NULL}
  /\ process_count \in 0 .. N /\ current_process_count \in 0 .. N
  /\ idle_cycles \in Nat /\ total_cycles \in Nat

TooBig(p) == input[p].memSize > MemorySize
Received  == {p \in Procs : pcb[p].state # "none"}

(* The CPU spins through a tick without a process only if no process at    *)
(* all waits for it, be it in the queue or for memory.                     *)
WorkConserving ==
  schedPc = "spin" /\ currentPCB = NULL =>
    NobodyReady /\ Memory_Buffer = <<>> /\ tree = {}

(* The algorithm returns only when every process of the input file has     *)
(* finished or was rejected, and all memory is free again.  It knows this  *)
(* from two counters only.                                                 *)
ExitComplete ==
  schedPc \in {"returned", "exited"} =>
    /\ \A p \in Procs : pcb[p].state = "Finished" \/ (TooBig(p) /\ p \in Received)
    /\ tree = {}

Busy == LET used[n \in 0 .. N] ==
              IF n = 0 THEN 0
              ELSE used[n - 1] + input[n].executionTime - pcb[n].remainingTime
        IN used[N]

(* A process starts no earlier than it arrives, finishes no earlier than   *)
(* its execution time after that, and has then been charged exactly its    *)
(* execution time: the waiting time in the log is never negative, and      *)
(* nobody is charged beyond his execution time.  If that is 0 it may       *)
(* finish in the tick in which it starts.                                  *)
TimesConsistent ==
  \A p \in Procs :
    LET start == input[p].arrivalTime
    IN /\ input[p].executionTime > 0 => pcb[p].remainingTime >= 0
       /\ pcb[p].state \in {"Running", "Blocked", "Finished"} => start <= pcb[p].startTime
       /\ pcb[p].state = "Finished" =>
            /\ pcb[p].remainingTime = 0
            /\ input[p].executionTime > 0 => pcb[p].startTime < pcb[p].finishTime
            /\ start + input[p].executionTime <= pcb[p].finishTime

Phase(p) ==
  CASE pcb[p].state = "none"                                -> "unseen"
    [] pcb[p].state = "Ready" /\ TooBig(p)                  -> "rejected"
    [] pcb[p].state = "Ready" /\ ~TooBig(p) /\ ~InQueue(p) -> "waiting"
    [] pcb[p].state = "Ready" /\ ~TooBig(p) /\ InQueue(p)  -> "ready"
    [] pcb[p].state = "Running"                             -> "running"
    [] pcb[p].state = "Blocked"                             -> "blocked"
    [] pcb[p].state = "Finished"                            -> "finished"

Lifecycle == INSTANCE ProcessLifecycle WITH phase <- [p \in Procs |-> Phase(p)]

(* Every process goes through the states of ProcessLifecycle, two never    *)
(* run at once, and none is admitted or finished twice.                    *)
FollowsLifecycle == Lifecycle!Spec

Protocol == INSTANCE TickServer
  WITH received <- Received,
       schedPc  <- IF schedPc \in HeadPcs THEN schedPc ELSE "work"

(* Seen from outside, the algorithm is a tick server: it takes every       *)
(* message of a tick before its own work, and returns only once it has     *)
(* taken every process of the input file.                                  *)
ServesTicks == Protocol!ServerSafety

=============================================================================
