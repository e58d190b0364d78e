------------------------------ MODULE MCRecorded ------------------------------
(* The whole program on the input file it is shipped with, to be compared  *)
(* with the logs it is shipped with.                                       *)
EXTENDS SchedulerMain

MCSpans == {1, 2, 4, 8, 16, 32, 64, 128, 256, 512, 1024, 2048}

(* bin/processes.txt.                                                      *)
Line(a, e, p, m) == [arrivalTime |-> a, executionTime |-> e, priority |-> p, memSize |-> m]

RecordedFile ==
  {<<Line(4, 11, 9, 197), Line(7, 2, 8, 216), Line(8, 28, 0, 145), Line(13, 7, 6, 193),
     Line(22, 7, 8, 34)>>}

(* The finish times of bin/*_scheduler.log and the first bytes of the      *)
(* blocks of bin/*_memory.log, by process.                                 *)
RecordedFinish ==
  [RR |-> <<32, 11, 59, 39, 46>>, HPF |-> <<59, 44, 36, 43, 51>>, SJF |-> <<15, 17, 59, 24, 31>>,
   MLFL |-> <<59, 46, 37, 44, 53>>]
RecordedStart ==
  [RR |-> <<0, 256, 512, 256, 768>>, HPF |-> <<0, 256, 512, 768, 512>>,
   SJF |-> <<0, 256, 512, 768, 0>>, MLFL |-> <<0, 256, 512, 768, 512>>]

(* On the shipped input file the program produces the shipped logs: same   *)
(* finish times, same blocks, and four idle cycles (the 93% of the .perf   *)
(* files, over 59 ticks).                                                  *)
RunsAsRecorded ==
  schedPc = "returned" =>
    /\ [p \in Procs |-> pcb[p].finishTime] = RecordedFinish[schedAlgorithm]
    /\ [p \in Procs |-> startIndx(pcb[p].memoryNode)] = RecordedStart[schedAlgorithm]
    /\ [p \in Procs |-> data(pcb[p].memoryNode)] = <<256, 256, 256, 256, 64>>
    /\ idle_cycles = 4
===============================================================================
