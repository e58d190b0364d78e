------------------------------ MODULE TickServer ------------------------------
(***************************************************************************)
(* The tick protocol with the least that a scheduling algorithm promises   *)
(* it: in every iteration it takes all the messages that are there, then   *)
(* does some work of its own, and it returns only once it has taken every  *)
(* process of the input file.  Each algorithm implements this              *)
(* specification.                                                          *)
(***************************************************************************)
EXTENDS TickEnv

VARIABLE received       \* the processes the scheduler has taken

serverVars == <<tickVars, received>>

ServerInit == TickInit /\ received = {}

Take ==
  /\ SchedTake
  /\ received' = received \cup {Head(msgq)}

Drained == schedPc = "receive" /\ msgq = <<>> /\ SchedTo("work") /\ UNCHANGED received

(* The work of one iteration; what the algorithm does is left open.        *)
Work ==
  /\ schedPc = "work"
  /\ SchedTo("spin")
  /\ UNCHANGED received

Return ==
  /\ schedPc = "work" /\ received = Procs
  /\ SchedTo("returned")
  /\ UNCHANGED received

Loop == (SchedRead \/ SchedDown \/ SchedSpin) /\ UNCHANGED received
Exit == SchedExit /\ UNCHANGED received

Server == Loop \/ Take \/ Drained \/ Work \/ Return \/ Exit

ServerNext ==
  \/ (Generator \/ ClockTick) /\ UNCHANGED received
  \/ Server
  \/ Ended /\ UNCHANGED received

ServerSafety == ServerInit /\ [][ServerNext]_serverVars

(* The kernel runs every process that can run.                             *)
ServerSpec ==
  /\ ServerSafety
  /\ WF_serverVars(Generator /\ UNCHANGED received)
  /\ WF_serverVars(ClockTick /\ UNCHANGED received)
  /\ WF_serverVars(Server)

-----------------------------------------------------------------------------
(* Whatever the speeds of the clock, the generator and the scheduler, no   *)
(* process is sent twice or lost on the way: what was sent is in the queue *)
(* or was taken, once.                                                     *)
SentOnce ==
  /\ Cardinality(received) + Len(msgq) = processes_sent
  /\ \A i \in DOMAIN msgq :
       /\ msgq[i] \notin received
       /\ \A j \in DOMAIN msgq : msgq[i] = msgq[j] => i = j

(* When the generator has finished a tick it has sent every process that   *)
(* arrives up to that tick ("Send a process at its arrival time",          *)
(* process_generator.c).  It compares arrival times with its own copy of   *)
(* the clock for equality, so this needs every tick to be seen.            *)
AllDueSent ==
  genPc = "spin" =>
    processes_sent = Cardinality({p \in Procs : input[p].arrivalTime <= genClk})

(* A process is taken at the tick it arrives: the scheduler's copy of the  *)
(* clock, read before it waits on the semaphore, is not stale by then.     *)
TakenOnArrival ==
  [][Take => currClk = input[Head(msgq)].arrivalTime]_serverVars

(* Every process of the input file is eventually taken.                    *)
AllTaken == <>(received = Procs)

=============================================================================
