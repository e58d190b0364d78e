-------------------------------- MODULE MCMain --------------------------------
(* Instances of the whole program.                                         *)
EXTENDS SchedulerMain, MCFiles
===============================================================================
