----------------------------- MODULE ChildProcess -----------------------------
(***************************************************************************)
(* SchedulerMain with the processes it schedules (process.c).  A child is  *)
(* forked and stopped at its admission, continued and stopped as its pcb   *)
(* changes state, and waited for at the end.  It counts the clock changes  *)
(* it sees itself; the scheduler never looks at that count.                *)
(***************************************************************************)
EXTENDS SchedulerMain

VARIABLES childPc,        \* where each child is in its main
          stopped,        \* stopped by SIGSTOP and not continued since
          remainingtime,  \* of process.c
          childClk        \* its currClk

childVars == <<childPc, stopped, remainingtime, childClk>>
familyVars == <<mainVars, childVars>>

ChildInit ==
  /\ childPc = [p \in Procs |-> "none"]
  /\ stopped = [p \in Procs |-> FALSE]
  /\ remainingtime = [p \in Procs |-> input[p].executionTime]
  /\ childClk = [p \in Procs |-> -1]

-----------------------------------------------------------------------------
(* The child: process.c, main.                                             *)

(* while (remainingtime > 0): read the clock and count.                    *)
ChildCount(p) ==
  /\ childPc[p] = "loop" /\ ~stopped[p] /\ remainingtime[p] > 0
  /\ childClk' = [childClk EXCEPT ![p] = clk]
  /\ remainingtime' = [remainingtime EXCEPT ![p] = @ - 1]
  /\ childPc' = [childPc EXCEPT ![p] = "spin"]
  /\ UNCHANGED stopped

ChildSpin(p) ==
  /\ childPc[p] = "spin" /\ ~stopped[p] /\ clk # childClk[p]
  /\ childPc' = [childPc EXCEPT ![p] = "loop"]
  /\ UNCHANGED <<stopped, remainingtime, childClk>>

ChildExit(p) ==
  /\ childPc[p] = "loop" /\ ~stopped[p] /\ remainingtime[p] <= 0
  /\ childPc' = [childPc EXCEPT ![p] = "exited"]
  /\ UNCHANGED <<stopped, remainingtime, childClk>>

Child(p) == ChildCount(p) \/ ChildSpin(p) \/ ChildExit(p)

-----------------------------------------------------------------------------
(* What saveProcessState sends.                                            *)

Born == Admitted' \ Admitted

(* Slip: a process that runs again is not continued.                       *)
SignalsNoCont ==
  stopped' = [p \in Procs |->
    IF p \in Born THEN pcb'[p].state # "Running"
    ELSE IF pcb'[p].state = pcb[p].state THEN stopped[p]
    ELSE stopped[p] \/ pcb'[p].state = "Blocked"]

(* Slip: a blocked process is not stopped.                                 *)
SignalsNoStop ==
  stopped' = [p \in Procs |->
    IF p \in Born THEN pcb'[p].state # "Running"
    ELSE IF pcb'[p].state = pcb[p].state THEN stopped[p]
    ELSE FALSE]

(* SIGSTOP after fork and when blocked, SIGCONT when running or finished.  *)
Signals ==
  stopped' = [p \in Procs |->
    IF p \in Born THEN pcb'[p].state # "Running"
    ELSE IF pcb'[p].state = pcb[p].state THEN stopped[p]
    ELSE pcb'[p].state = "Blocked"]

(* Before its first SIGSTOP a child may have come to its loop and counted  *)
(* the current tick already.                                               *)
Fork ==
  \E quick \in SUBSET {p \in Born : input[p].executionTime > 0} :
    /\ childPc' = [p \in Procs |-> IF p \in quick THEN "spin"
                                   ELSE IF p \in Born THEN "loop" ELSE childPc[p]]
    /\ childClk' = [p \in Procs |-> IF p \in quick THEN clk ELSE childClk[p]]
    /\ remainingtime' = [p \in Procs |-> IF p \in quick THEN remainingtime[p] - 1 ELSE remainingtime[p]]

(* freeAllResources: waitpid, which with WUNTRACED returns for a stopped   *)
(* child as well, has returned for every finished process.                 *)
Reaped == \A p \in ToSet(finishedProcesses) : childPc[p] = "exited" \/ stopped[p]

(* Prompt: the children are done with a tick before the next, as well.     *)
ChildrenSettled ==
  \A p \in Procs : childPc[p] \in {"loop", "spin"} /\ ~stopped[p] =>
                     childPc[p] = "spin" /\ childClk[p] = clk

Undisturbed(step) == step /\ UNCHANGED childVars

Scheduling ==
  \/ Body /\ Signals /\ Fork
  \/ Undisturbed(Aside(SchedRead \/ SchedDown \/ SchedSpin))
  \/ Undisturbed(Aside(SchedExit) /\ Reaped)

Ticking == Undisturbed(Aside(ClockTick) /\ (Prompt => ChildrenSettled))

FamilyNext ==
  \/ Scheduling
  \/ Undisturbed(Aside(Generator))
  \/ Ticking
  \/ \E p \in Procs : Child(p) /\ UNCHANGED mainVars
  \/ Undisturbed(Aside(Ended))

FamilySafety == MainInit /\ ChildInit /\ [][FamilyNext]_familyVars

(* The kernel runs every process that is not stopped.                      *)
FamilySpec ==
  /\ FamilySafety
  /\ WF_familyVars(Undisturbed(Aside(Generator)))
  /\ WF_familyVars(Ticking)
  /\ WF_familyVars(Scheduling)
  /\ \A p \in Procs : WF_familyVars(Child(p) /\ UNCHANGED mainVars)

-----------------------------------------------------------------------------
HasWork(p) == childPc[p] \in {"loop", "spin"} /\ remainingtime[p] > 0

(* There are two counts of one thing, the child's and the scheduler's.     *)
(* When the scheduler declares a process finished, and frees its memory,   *)
(* the child has done all its work.                                        *)
DoneWhenFinished ==
  \A p \in Procs : pcb[p].state = "Finished" => ~HasWork(p)

(* While a tick passes at most one child computes, the one that is charged *)
(* for the tick: the others are stopped or done.                           *)
OneComputes ==
  schedPc = "spin" => {p \in Procs : HasWork(p) /\ ~stopped[p]} \subseteq {currentPCB}

(* The program comes to its end and so does every child it has forked      *)
(* ("Wait for each process so it doesn't become zombie", scheduler.c): none *)
(* is left stopped, although waitpid with WUNTRACED lets a stopped one     *)
(* pass, or spinning on a clock that has been killed.                      *)
ChildrenEnd ==
  <>(genPc = "done" /\ \A p \in Procs : childPc[p] \in {"none", "exited"})

=============================================================================
