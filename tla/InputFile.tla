------------------------------- MODULE InputFile -------------------------------
(***************************************************************************)
(* readInputFile (process_generator.c): it reads the file once to count    *)
(* the processes and allocate an array of that size, and a second time to  *)
(* fill the array.  The two passes tell comments from processes            *)
(* differently: the first by any '#', and it counts line ends; the second  *)
(* by a '#' in the first column, and it takes lines.                       *)
(***************************************************************************)
EXTENDS Integers, Sequences

CONSTANT MaxLines   \* bound: lines in a file

ASSUME FileAssumption == MaxLines \in Nat

(* "process" has no '#', "comment" begins with one, "noted" has one later. *)
Kinds == {"process", "comment", "noted"}

VARIABLES file, terminated,   \* its lines; is there a line end after the last
          pass,               \* "count", "read" or "done"
          line,               \* the line that is read next
          processCount,
          processInfoArray    \* what has been stored: the line it is from

fileVars == <<file, terminated, pass, line, processCount, processInfoArray>>

Init ==
  /\ file \in UNION {[1 .. n -> Kinds] : n \in 0 .. MaxLines}
  /\ terminated \in BOOLEAN
  /\ file = <<>> => terminated
  /\ pass = "count" /\ line = 1
  /\ processCount = 0 /\ processInfoArray = <<>>

(* Slip: comments are counted.                                             *)
CountedComments(l) == l < Len(file) \/ terminated

(* A line end that the first pass sees; it skips one behind a '#'.         *)
Counted(l) == file[l] = "process" /\ (l < Len(file) \/ terminated)

CountLine ==
  /\ pass = "count" /\ line <= Len(file)
  /\ processCount' = processCount + (IF Counted(line) THEN 1 ELSE 0)
  /\ line' = line + 1
  /\ UNCHANGED <<file, terminated, pass, processInfoArray>>

Rewind ==
  /\ pass = "count" /\ line > Len(file)
  /\ pass' = "read" /\ line' = 1
  /\ UNCHANGED <<file, terminated, processCount, processInfoArray>>

SkipLine ==
  /\ pass = "read" /\ line <= Len(file) /\ file[line] = "comment"
  /\ line' = line + 1
  /\ UNCHANGED <<file, terminated, pass, processCount, processInfoArray>>

StoreLine ==
  /\ pass = "read" /\ line <= Len(file) /\ file[line] # "comment"
  /\ processInfoArray' = Append(processInfoArray, line)
  /\ line' = line + 1
  /\ UNCHANGED <<file, terminated, pass, processCount>>

Close ==
  /\ pass = "read" /\ line > Len(file)
  /\ pass' = "done"
  /\ UNCHANGED <<file, terminated, line, processCount, processInfoArray>>

Returned == pass = "done" /\ UNCHANGED fileVars

Next == CountLine \/ Rewind \/ SkipLine \/ StoreLine \/ Close \/ Returned

Spec == Init /\ [][Next]_fileVars

-----------------------------------------------------------------------------
(* The files test_generator.c writes: every line ends, and a comment has a *)
(* line to itself.                                                         *)
Plain == terminated /\ \A l \in DOMAIN file : file[l] # "noted"

(* The count that is returned, which is also the size of the array ("Count *)
(* the number of processes, skip comments", process_generator.c), is the   *)
(* number of processes stored, and of no file does the array have cells    *)
(* that stay unset.  Other files than those test_generator.c writes store  *)
(* processes behind the end of the array, which are then not sent.         *)
CountExact ==
  pass = "done" =>
    /\ processCount <= Len(processInfoArray)
    /\ Plain => processCount = Len(processInfoArray)

===============================================================================
