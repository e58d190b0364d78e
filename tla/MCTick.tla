-------------------------------- MODULE MCTick --------------------------------
(* Three processes with every non-decreasing choice of arrival times, the  *)
(* order in which the input files list them.                               *)
EXTENDS TickServer

Last == 4

MCInputs == {f \in [Procs -> [arrivalTime : 1 .. Last]] :
               \A i, j \in Procs : i < j => f[i].arrivalTime <= f[j].arrivalTime}
===============================================================================
