-------------------------------- MODULE MCChild --------------------------------
(* Instances of the whole program with the children it schedules.          *)
EXTENDS ChildProcess, MCFiles

(* Short and long, urgent and not; one may have to wait for memory.        *)
FamilyFiles == FromOne(Files(1 .. 2, {<<1, 1, 1>>, <<3, 1, 1>>, <<2, 0, 1>>}))
===============================================================================
