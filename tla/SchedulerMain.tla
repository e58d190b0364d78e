----------------------------- MODULE SchedulerMain -----------------------------
(***************************************************************************)
(* The whole program: clock, generator and scheduler, the scheduler        *)
(* running the algorithm its command line names (main's switch on          *)
(* schedAlgorithm).                                                        *)
(***************************************************************************)
EXTENDS HPF, SJF, MLFL

CONSTANT Algorithms   \* those considered, among "SJF", "HPF", "RR", "MLFL"

VARIABLE schedAlgorithm

mainVars == <<tickVars, bodyVars, quantum_passed, feedbackVars, schedAlgorithm>>

MainInit ==
  /\ TickInit /\ BodyInit /\ MLFLInit
  /\ quantum_passed = 0
  /\ schedAlgorithm \in Algorithms

Body ==
  /\ \/ schedAlgorithm = "SJF"  /\ SJFBody /\ UNCHANGED <<quantum_passed, feedbackVars>>
     \/ schedAlgorithm = "HPF"  /\ HPFBody /\ UNCHANGED <<quantum_passed, feedbackVars>>
     \/ schedAlgorithm = "RR"   /\ RRBody /\ UNCHANGED feedbackVars
     \/ schedAlgorithm = "MLFL" /\ MLFLBody
  /\ UNCHANGED schedAlgorithm

(* What does not touch the scheduler's own data.                           *)
Aside(step) == step /\ UNCHANGED <<bodyVars, quantum_passed, feedbackVars, schedAlgorithm>>

LoopHead == SchedRead \/ SchedDown \/ SchedSpin \/ SchedExit

MainNext ==
  \/ Body
  \/ Aside(Generator)
  \/ Aside(ClockTick)
  \/ Aside(LoopHead)
  \/ Aside(Ended)

MainSafety == MainInit /\ [][MainNext]_mainVars

(* The kernel runs every process that can run, and the clock keeps going.  *)
MainSpec ==
  /\ MainSafety
  /\ WF_mainVars(Aside(Generator))
  /\ WF_mainVars(Aside(ClockTick))
  /\ WF_mainVars(Aside(LoopHead) \/ Body)

-----------------------------------------------------------------------------
MainTypeOK ==
  /\ BodyTypeOK
  /\ schedAlgorithm \in Algorithms
  /\ quantum_passed \in 0 .. quantum
  /\ currentOccupiedLevel \in Levels \cup {-1}
  /\ reconstructing_buffer \in Seq(Procs)
  /\ staleNext \in [Procs -> Procs \cup {NULL}] /\ strayNode \in Procs \cup {NULL}

(* Who has been admitted and has not finished.  Under SJF the process on   *)
(* the CPU may have left the queue.                                        *)
Admitted ==
  {p \in Procs : InQueue(p) \/ Contains(reconstructing_buffer, p) \/ p = currentPCB}

(* Where p is: in which list at which position, or on the CPU only.        *)
Places(p) ==
  (UNION {{<<"ready", l, i>> : i \in Positions(ready[l], p)} : l \in Levels})
  \cup {<<"memory", 0, i>> : i \in Positions(Memory_Buffer, p)}
  \cup {<<"feedback", 0, i>> : i \in Positions(reconstructing_buffer, p)}
  \cup {<<"finished", 0, i>> : i \in Positions(finishedProcesses, p)}
  \cup (IF p = currentPCB /\ ~InQueue(p) THEN {<<"cpu", 0, 0>>} ELSE {})

(* A received process that was not rejected is in exactly one place: the   *)
(* memory buffer, a queue or the CPU, or the finished list ("Insert into   *)
(* scheduler queue and remove from memory buffer", scheduler.c).           *)
NoProcessLost ==
  \A p \in Received : Cardinality(Places(p)) = IF TooBig(p) THEN 0 ELSE 1

(* Memory is held by exactly the processes in a queue or on the CPU, one   *)
(* block each: no finish leaks a block, and no two share one.              *)
AdmittedHoldMemory ==
  /\ Leaves(tree) = {pcb[p].memoryNode : p \in Admitted}
  /\ \A p, q \in Admitted : pcb[p].memoryNode = pcb[q].memoryNode => p = q

(* While a tick passes, round robin runs the front of its queue, HPF a     *)
(* process of the highest priority among all it has admitted ("Highest     *)
(* Priority First", types.h), preempted ones included, SJF the shortest    *)
(* there was when the CPU became free, and multi-level feedback the front  *)
(* of a level.                                                             *)
RightOneRuns ==
  /\ schedAlgorithm = "RR"   => FrontRuns
  /\ schedAlgorithm = "HPF"  => PriorityRespected
  /\ schedAlgorithm = "SJF"  => ShortestRuns
  /\ schedAlgorithm = "MLFL" => FrontOfLevelRuns

(* Every tick is counted once: as idle, or charged to a process, or it is  *)
(* the tick in which a process finished and nobody was left to run, which  *)
(* the code counts as neither.  total_cycles counts them all, under        *)
(* multi-level feedback all but the idle ones.                             *)
TicksAddUp ==
  schedPc = "spin" =>
    LET ticks == currClk + 1
    IN /\ total_cycles = ticks - (IF schedAlgorithm = "MLFL" THEN idle_cycles ELSE 0)
       /\ idle_cycles + Busy <= ticks
       /\ ticks <= idle_cycles + Busy + Len(finishedProcesses)

(* startTime is "changed only when the process starts for the first time"  *)
(* (types.h): under round robin and SJF, whoever has started keeps its     *)
(* startTime to the end, and is never set back to where it would get a new *)
(* one.  The other two set it again when they resume a process.            *)
Started(p) == pcb[p].state \in {"Running", "Blocked", "Finished"}

StartTimeKept ==
  [][\A p \in Procs :
       schedAlgorithm \in {"RR", "SJF"} /\ Started(p) =>
         Started(p)' /\ pcb'[p].startTime = pcb[p].startTime]_mainVars

(* The program comes to its end.                                           *)
Termination == <>(genPc = "done" /\ schedPc = "exited")

=============================================================================
