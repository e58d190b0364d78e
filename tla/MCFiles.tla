-------------------------------- MODULE MCFiles --------------------------------
(* Input files for the instances of the whole program.  A file lists its   *)
(* processes by arrival time, each with a profile: execution time,         *)
(* priority and size.                                                      *)
EXTENDS Scheduler

MCSpans == {s \in {1, 2, 4, 8} : s <= 2 * MemorySize}

Lines(arrivals, profiles) ==
  {[arrivalTime |-> a, executionTime |-> f[1], priority |-> f[2], memSize |-> f[3]] :
     a \in arrivals, f \in profiles}

Files(arrivals, profiles) ==
  {file \in [Procs -> Lines(arrivals, profiles)] :
     \A i, j \in Procs : i < j => file[i].arrivalTime <= file[j].arrivalTime}

(* Those whose first process arrives at 1: the others are idle until then. *)
FromOne(files) == {file \in files : file[1].arrivalTime = 1}

(* Short and long, urgent and not, half of the memory or all of it, and    *)
(* one that asks for more than there is.  With two levels and quantum 2,   *)
(* those of runtime 3 and 5 go through all levels that are below them, and *)
(* through the reconstruction buffer.                                      *)
MixedFiles ==
  FromOne(Files(1 .. 4, {<<1, 1, 1>>, <<2, 0, 2>>, <<3, 1, 1>>, <<5, 0, 1>>, <<1, 0, 3>>}))

(* More processes than memory has room for, short and urgent or long.      *)
CrowdFiles == Files(1 .. 2, {<<1, 0, 1>>, <<3, 1, 1>>})

(* Two block sizes.                                                        *)
TwoSizeFiles == Files({1}, {<<1, 0, 1>>, <<1, 0, 2>>})

(* Processes that go through the reconstruction buffer several times.      *)
LongFiles == Files({1}, {<<6, 1, 1>>})
===============================================================================
