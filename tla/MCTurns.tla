-------------------------------- MODULE MCTurns --------------------------------
(* Instances of the whole program with the history of turns.               *)
EXTENDS SchedulerTurns, MCFiles
===============================================================================
