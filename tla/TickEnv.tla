-------------------------------- MODULE TickEnv --------------------------------
(***************************************************************************)
(* The processes around a scheduler and the loop it shares with them: the  *)
(* clock (clk.c), the process generator (process_generator.c) and the head *)
(* and tail of the scheduler's loop (scheduler.c).  They share one clock   *)
(* word, one System V semaphore and one System V message queue.            *)
(*                                                                         *)
(* Every access to shared state is an action of its own.  Each process     *)
(* reads the clock once per iteration and works with that copy, which may  *)
(* be stale by the time it is used.                                        *)
(***************************************************************************)
EXTENDS Integers, Sequences, FiniteSets

CONSTANTS N,           \* number of processes in the input file
          Inputs,      \* the input files considered, as arrays of records
          SEM_UP_VAL,  \* credit given to the scheduler after the last arrival
          MsgCap,      \* messages the queue holds before msgsnd blocks
          MaxClk,      \* bound: the clock stops at this tick
          Prompt       \* TRUE: everyone is done with a tick before the next

Procs == 1 .. N

ASSUME TickAssumption ==
  /\ N \in Nat \ {0}
  /\ SEM_UP_VAL \in Nat \ {0}
  /\ MsgCap \in Nat \ {0}
  /\ MaxClk \in Nat
  /\ Prompt \in BOOLEAN
  /\ \A in \in Inputs : \A p \in Procs : in[p].arrivalTime \in Nat

VARIABLES input,           \* process_array: the input file being run
          clk,             \* the shared clock word
          sem,             \* the clock semaphore
          msgq,            \* process message queue, oldest first
          genPc,           \* where the generator is
          genClk,          \* the generator's currClk
          genNext,         \* the generator's i: processes below it are done
          processes_sent,
          schedPc,         \* where the scheduler is
          currClk          \* the scheduler's currClk

clkVars   == <<input, clk>>
genVars   == <<genPc, genClk, genNext, processes_sent>>
schedHead == <<schedPc, currClk>>
tickVars  == <<clkVars, sem, msgq, genVars, schedHead>>

GenPcs   == {"read", "send", "final", "spin", "wait", "done"}
HeadPcs  == {"read", "down", "receive", "spin", "returned", "exited"}

TickInit ==
  /\ input \in Inputs
  /\ clk = 0 /\ sem = 0 /\ msgq = <<>>
  /\ genPc = "read" /\ genClk = 0 /\ genNext = 1 /\ processes_sent = 0
  /\ schedPc = "read" /\ currClk = 0

-----------------------------------------------------------------------------
(* The generator.                                                          *)

GenRead ==
  /\ genPc = "read"
  /\ genPc' = "send" /\ genClk' = clk /\ genNext' = 1
  /\ UNCHANGED <<clkVars, sem, msgq, processes_sent, schedHead>>

(* What the for loop has still to send at this tick.                       *)
Due == {i \in genNext .. N : input[i].arrivalTime = genClk}

(* Slips: i is not advanced past the process just sent; the for loop is    *)
(* left after one message.                                                 *)
GenResend ==
  /\ genPc = "send"
  /\ Len(msgq) < MsgCap
  /\ \E i \in Due : msgq' = Append(msgq, i) /\ genNext' = i
  /\ processes_sent' = processes_sent + 1
  /\ genPc' = IF processes_sent' = N THEN "final" ELSE "send"
  /\ UNCHANGED <<clkVars, sem, genClk, schedHead>>

GenSendFirst ==
  /\ genPc = "send"
  /\ Len(msgq) < MsgCap
  /\ \E i \in Due : (\A j \in Due : i <= j) /\ msgq' = Append(msgq, i)
  /\ genNext' = N + 1
  /\ processes_sent' = processes_sent + 1
  /\ genPc' = IF processes_sent' = N THEN "final" ELSE "send"
  /\ UNCHANGED <<clkVars, sem, genClk, schedHead>>

GenSend ==
  /\ genPc = "send"
  /\ Len(msgq) < MsgCap
  /\ \E i \in Due :
       /\ \A j \in Due : i <= j
       /\ msgq' = Append(msgq, i)
       /\ genNext' = i + 1
  /\ processes_sent' = processes_sent + 1
  /\ genPc' = IF processes_sent' = N THEN "final" ELSE "send"
  /\ UNCHANGED <<clkVars, sem, genClk, schedHead>>

(* Slip: the scheduler gets no credit.                                     *)
GenFinalNoUp ==
  /\ genPc = "final"
  /\ genPc' = "wait"
  /\ UNCHANGED <<clkVars, sem, msgq, genClk, genNext, processes_sent, schedHead>>

(* All are sent: let the scheduler run on without the generator.           *)
GenFinal ==
  /\ genPc = "final"
  /\ sem' = sem + SEM_UP_VAL
  /\ genPc' = "wait"
  /\ UNCHANGED <<clkVars, msgq, genClk, genNext, processes_sent, schedHead>>

GenUp ==
  /\ genPc = "send" /\ Due = {}
  /\ sem' = sem + 1
  /\ genPc' = "spin"
  /\ UNCHANGED <<clkVars, msgq, genClk, genNext, processes_sent, schedHead>>

GenSpin ==
  /\ genPc = "spin" /\ clk # genClk
  /\ genPc' = "read"
  /\ UNCHANGED <<clkVars, sem, msgq, genClk, genNext, processes_sent, schedHead>>

(* waitpid(scheduler) returns; clearResources kills the clock.             *)
GenExit ==
  /\ genPc = "wait" /\ schedPc = "exited"
  /\ genPc' = "done"
  /\ UNCHANGED <<clkVars, sem, msgq, genClk, genNext, processes_sent, schedHead>>

Generator == GenRead \/ GenSend \/ GenFinal \/ GenUp \/ GenSpin \/ GenExit

-----------------------------------------------------------------------------
(* The head and tail of the scheduler's loop.                              *)

SchedRead ==
  /\ schedPc = "read"
  /\ schedPc' = "down" /\ currClk' = clk
  /\ UNCHANGED <<clkVars, sem, msgq, genVars>>

(* Slip: down does not take anything.                                      *)
SchedDownFree ==
  /\ schedPc = "down" /\ sem > 0
  /\ schedPc' = "receive"
  /\ UNCHANGED <<clkVars, sem, msgq, genVars, currClk>>

SchedDown ==
  /\ schedPc = "down" /\ sem > 0
  /\ schedPc' = "receive" /\ sem' = sem - 1
  /\ UNCHANGED <<clkVars, msgq, genVars, currClk>>

(* msgrcv, once.                                                           *)
SchedTake ==
  /\ schedPc = "receive" /\ msgq # <<>>
  /\ msgq' = Tail(msgq)
  /\ UNCHANGED <<clkVars, sem, genVars, schedHead>>

SchedSpin ==
  /\ schedPc = "spin" /\ clk # currClk
  /\ schedPc' = "read"
  /\ UNCHANGED <<clkVars, sem, msgq, genVars, currClk>>

(* main after the algorithm returned: logs, waits for the children, exits. *)
SchedExit ==
  /\ schedPc = "returned"
  /\ schedPc' = "exited"
  /\ UNCHANGED <<clkVars, sem, msgq, genVars, currClk>>

SchedTo(pc) == schedPc' = pc /\ UNCHANGED <<clkVars, sem, msgq, genVars, currClk>>

-----------------------------------------------------------------------------
(* The clock ticks on its own.  Prompt restricts it to the ticks at which  *)
(* the generator and the scheduler have nothing left to do until then:     *)
(* they spin on the clock, or are blocked, or are gone.                    *)

GenSettled ==
  \/ genPc = "spin" /\ clk = genClk
  \/ genPc = "send" /\ Due # {} /\ Len(msgq) >= MsgCap
  \/ genPc = "wait" /\ schedPc # "exited"

SchedSettled ==
  \/ schedPc = "spin" /\ clk = currClk
  \/ schedPc = "down" /\ sem = 0
  \/ schedPc \in {"returned", "exited"}

ClockTick ==
  /\ clk < MaxClk /\ genPc # "done"
  /\ Prompt => GenSettled /\ SchedSettled
  /\ clk' = clk + 1
  /\ UNCHANGED <<input, sem, msgq, genVars, schedHead>>

(* Everything has ended: the generator was the last process to leave.      *)
Ended == genPc = "done" /\ UNCHANGED tickVars

=============================================================================
