---------------------------- MODULE SchedulerTurns ----------------------------
(***************************************************************************)
(* SchedulerMain with history variables: how long processes wait for the   *)
(* CPU and how long they keep it, in ticks.                                *)
(***************************************************************************)
EXTENDS SchedulerMain

VARIABLES waited,    \* for each process in a queue, since it last had the CPU
          turn,      \* for the current process, since it got the CPU
          inverted   \* since a level above the current one is occupied

turnVars == <<mainVars, waited, turn, inverted>>

TurnsInit ==
  /\ MainInit
  /\ waited = [p \in Procs |-> 0] /\ turn = 0 /\ inverted = 0

(* The scheduler begins to wait for the next tick.                         *)
TickServed == schedPc # "spin" /\ schedPc' = "spin"

PassedOver(p) == InQueue(p) /\ p # currentPCB

HigherOccupied == \E l \in Levels : l < currentOccupiedLevel /\ ready[l] # <<>>

TurnsNext ==
  /\ MainNext
  /\ turn' = (IF currentPCB' = currentPCB THEN turn ELSE 0)
               + (IF TickServed /\ currentPCB' # NULL THEN 1 ELSE 0)
  /\ IF TickServed
     THEN /\ waited' = [p \in Procs |-> IF PassedOver(p)' THEN waited[p] + 1 ELSE 0]
          /\ inverted' = IF HigherOccupied' THEN inverted + 1 ELSE 0
     ELSE UNCHANGED <<waited, inverted>>

TurnsSafety == TurnsInit /\ [][TurnsNext]_turnVars

(* The fairness of MainSpec.                                               *)
TurnsSpec ==
  /\ TurnsSafety
  /\ WF_turnVars(TurnsNext /\ Aside(Generator))
  /\ WF_turnVars(TurnsNext /\ Aside(ClockTick))
  /\ WF_turnVars(TurnsNext /\ (Aside(LoopHead) \/ Body))

-----------------------------------------------------------------------------
(* Round robin starves nobody: between two turns of an admitted process    *)
(* every other process that holds memory then has the CPU for at most one  *)
(* quantum.  Whoever arrives or is let in from the memory buffer meanwhile *)
(* goes behind it, and a process that finishes costs no tick of its own.   *)
BoundedWait ==
  schedAlgorithm = "RR" =>
    \A p \in Procs : waited[p] <= quantum * (Min({N, MemorySize}) - 1)

(* A process that is not done gives the CPU to another one only at the end *)
(* of a quantum of its own ("run it for its quanta", scheduler.c); one     *)
(* that was alone may have had several.                                    *)
QuantumKept ==
  [][/\ schedAlgorithm = "RR"
     /\ currentPCB # NULL /\ currentPCB' \notin {NULL, currentPCB}
     => turn % quantum = 0]_turnVars

(* Multi-level feedback looks at the levels again at the end of a quantum  *)
(* at the latest: while a more urgent level is occupied, a less urgent one *)
(* keeps the CPU for no longer than that.                                  *)
InversionBounded == inverted <= quantum

=============================================================================
