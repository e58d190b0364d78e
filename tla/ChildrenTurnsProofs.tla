-------------------------- MODULE ChildrenTurnsProofs --------------------------
(***************************************************************************)
(* Of those that follow the scheduler.  First the children: the two counts *)
(* of the ticks a process has had, the child's own and the scheduler's,    *)
(* and who computes, for any input file and any algorithm, as long as      *)
(* everybody, the children included, is done with a tick before the next.  *)
(* Then whose turn it is: how long a level above the current one waits,    *)
(* how long a process stays on the CPU under round robin, and how long it  *)
(* waits for it.                                                           *)
(***************************************************************************)
EXTENDS ChildProcess, SchedulerTurns, SchedulerSafetyProofs

Forked(p) == p \in Admitted \/ Done(p)

ChildTyped ==
  /\ childPc \in [Procs -> {"none", "loop", "spin", "exited"}]
  /\ stopped \in [Procs -> BOOLEAN]
  /\ remainingtime \in [Procs -> Int]
  /\ childClk \in [Procs -> Int]
  /\ \A p \in Procs : childClk[p] <= clk

(* The state in the process control block says whether the child has been  *)
(* forked and whether it is stopped.                                       *)
ForkInv ==
  \A p \in Procs :
    /\ childPc[p] # "none" <=> Forked(p)
    /\ childPc[p] = "none" => /\ remainingtime[p] = input[p].executionTime
                              /\ pcb[p].remainingTime = input[p].executionTime
    /\ Forked(p) => (stopped[p] = TRUE <=> pcb[p].state \in {"Ready", "Blocked"})

(* What each of them has counted of the current tick.                      *)
Seen(p)    == childPc[p] = "spin" /\ childClk[p] = clk
Paid(p) == schedPc = "spin" /\ currClk = clk /\ p = currentPCB

(* The child is never behind the scheduler, but for the tick that it still *)
(* has to count.  It may be ahead: what it counted in a tick before it was *)
(* preempted is charged to nobody.                                         *)
CountInv ==
  \A p \in Procs :
    childPc[p] \in {"loop", "spin"} =>
      remainingtime[p] <= pcb[p].remainingTime + (IF Paid(p) THEN 1 ELSE 0)
                                               - (IF Seen(p) THEN 1 ELSE 0)

ChildInv == ChildTyped /\ ForkInv /\ CountInv

-----------------------------------------------------------------------------
(* Who has been forked.                                                    *)

(* What the invariants say of a process's state and place.                 *)
LEMMA ForkedFacts ==
  ASSUME UsualInv, SafeInv, NEW p \in Procs
  PROVE  /\ p \in Admitted => pcb[p].state \in {"Ready", "Blocked", "Running"} /\ ~Done(p)
         /\ p \in Admitted /\ pcb[p].state = "Ready" => InQueue(p) /\ ~TooBig(p)
         /\ pcb[p].state \in {"Running", "Blocked"} => p \in Admitted
         /\ Done(p) <=> pcb[p].state = "Finished"
         /\ pcb[p].state \in States
<1>1. pcb[p].state \in States
  BY DEF UsualInv, CommonInv, DataInv, DataTyped, PCB
<1>2. StateInv /\ PlaceInv /\ OnlyReceived
  BY DEF SafeInv, UsualInv, CommonInv, DataInv
<1>3. p \in Admitted <=> InQueue(p) \/ Shelved(p) \/ p = currentPCB
  BY DEF Admitted, Shelved
<1>4. p \in Admitted => pcb[p].state \in {"Ready", "Blocked", "Running"} /\ ~Done(p)
  BY <1>2, <1>3 DEF StateInv
<1>5. p \in Admitted /\ pcb[p].state = "Ready" => InQueue(p) /\ ~TooBig(p)
  <2>1. SUFFICES ASSUME p \in Admitted, pcb[p].state = "Ready" PROVE InQueue(p) /\ ~TooBig(p)
    OBVIOUS
  <2>2. InQueue(p)
    BY <1>2, <1>3, <2>1 DEF StateInv
  <2>3. p \in Accepted
    BY <1>2, <2>2 DEF OnlyReceived, Listed
  <2>4. QED
    BY <2>2, <2>3 DEF Accepted
<1>6. pcb[p].state \in {"Running", "Blocked"} => p \in Admitted
  <2>1. SUFFICES ASSUME pcb[p].state \in {"Running", "Blocked"} PROVE p \in Admitted
    OBVIOUS
  <2>2. p \in Accepted
    <3>1. p \notin Rejected /\ p \in Received
      BY <1>2, <2>1 DEF StateInv, Received
    <3>2. QED
      BY <3>1 DEF Accepted, Rejected
  <2>3. ~Waiting(p) /\ ~Done(p)
    BY <1>2, <2>1 DEF StateInv
  <2>4. QED
    BY <1>2, <1>3, <2>2, <2>3 DEF PlaceInv, Active
<1>7. Done(p) <=> pcb[p].state = "Finished"
  BY <1>2 DEF StateInv
<1>8. QED
  BY <1>1, <1>4, <1>5, <1>6, <1>7

(* The same after a step.                                                  *)
LEMMA ForkedNext ==
  ASSUME UsualInv', SafeInv', NEW p \in Procs
  PROVE  /\ p \in Admitted' => pcb'[p].state \in {"Ready", "Blocked", "Running"} /\ ~Done(p)'
         /\ pcb'[p].state \in {"Running", "Blocked"} => p \in Admitted'
         /\ Done(p)' <=> pcb'[p].state = "Finished"
         /\ pcb'[p].state \in States
         /\ pcb'[p].state = "Running" => p = currentPCB'
<1>1. pcb'[p].state \in States
  BY DEF UsualInv, CommonInv, DataInv, DataTyped, PCB
<1>2. StateInv' /\ PlaceInv'
  BY DEF SafeInv
<1>3. p \in Admitted' <=> InQueue(p)' \/ Shelved(p)' \/ p = currentPCB'
  BY DEF Admitted, Shelved
<1>4. p \in Admitted' => pcb'[p].state \in {"Ready", "Blocked", "Running"} /\ ~Done(p)'
  BY <1>2, <1>3 DEF StateInv
<1>5. pcb'[p].state \in {"Running", "Blocked"} => p \in Admitted'
  <2>1. SUFFICES ASSUME pcb'[p].state \in {"Running", "Blocked"} PROVE p \in Admitted'
    OBVIOUS
  <2>2. p \in Accepted'
    <3>1. p \notin Rejected' /\ p \in Received'
      BY <1>2, <2>1 DEF StateInv, Received
    <3>2. QED
      BY <3>1 DEF Accepted, Rejected
  <2>3. ~Waiting(p)' /\ ~Done(p)'
    BY <1>2, <2>1 DEF StateInv
  <2>4. QED
    BY <1>2, <1>3, <2>2, <2>3 DEF PlaceInv, Active
<1>6. Done(p)' <=> pcb'[p].state = "Finished"
  BY <1>2 DEF StateInv
<1>7. pcb'[p].state = "Running" => p = currentPCB'
  BY <1>2 DEF StateInv
<1>8. QED
  BY <1>1, <1>4, <1>5, <1>6, <1>7

(* Who is ready stays ready or runs.                                       *)
LEMMA ReadyRuns ==
  ASSUME LifeStep, NEW p \in Procs, Phase(p) = "ready"
  PROVE  Phase(p)' \in {"ready", "running"}
<1>1. View[p] = "ready" /\ View'[p] = Phase(p)' /\ DOMAIN View = Procs
  BY DEF View
<1>2. CASE View' = View
  BY <1>1, <1>2
<1>3. CASE Lifecycle!Next
  <2>1. PICK q \in Procs :
          \/ Lifecycle!Reject(q) \/ Lifecycle!Defer(q) \/ Lifecycle!Admit(q)
          \/ Lifecycle!Run(q) \/ Lifecycle!Block(q) \/ Lifecycle!Finish(q)
          \/ \E r \in Procs : Lifecycle!Switch(q, r)
    BY <1>3 DEF Lifecycle!Next
  <2>2. \/ View[q] # "ready" /\ \E a : View' = [View EXCEPT ![q] = a]
        \/ View' = [View EXCEPT ![q] = "running"]
        \/ \E r \in Procs : /\ View[q] = "running"
                            /\ View' = [View EXCEPT ![q] = "blocked", ![r] = "running"]
    <3>1. CASE Lifecycle!Reject(q) \/ Lifecycle!Defer(q) \/ Lifecycle!Admit(q)
      BY <3>1 DEF Lifecycle!Reject, Lifecycle!Defer, Lifecycle!Admit, View
    <3>2. CASE Lifecycle!Run(q)
      BY <3>2 DEF Lifecycle!Run, View
    <3>3. CASE Lifecycle!Block(q) \/ Lifecycle!Finish(q)
      BY <3>3 DEF Lifecycle!Block, Lifecycle!Finish, View
    <3>4. CASE \E r \in Procs : Lifecycle!Switch(q, r)
      BY <3>4 DEF Lifecycle!Switch, View
    <3>5. QED
      BY <2>1, <3>1, <3>2, <3>3, <3>4
  <2>3. View'[p] \in {"ready", "running"}
    BY <1>1, <2>2
  <2>4. QED
    BY <1>1, <2>3
<1>4. QED
  BY <1>2, <1>3 DEF LifeStep

-----------------------------------------------------------------------------
(* The steps of the scheduler.                                             *)

LEMMA BodyTimely ==
  ASSUME UsualInv, SafeInv, TimeInv, OnTime, Body
  PROVE  TimelyStep
BY RRTimely, HPFTimely, SJFTimely, MLFLTimely DEF Body, UsualInv

(* What a step does to a process that is forked, or not.                   *)
LEMMA ForkMoves ==
  ASSUME UsualInv, UsualInv', SafeInv, SafeInv', TimelyStep, LifeStep, NEW p \in Procs
  PROVE  /\ Forked(p) => Forked(p)'
         /\ Forked(p)' /\ ~Forked(p) <=> p \in Born
         /\ Forked(p) /\ pcb'[p].state # pcb[p].state => pcb'[p].state # "Ready"
         /\ Forked(p) => pcb[p].state # "none"
         /\ ~Forked(p) => pcb'[p].remainingTime = pcb[p].remainingTime
         /\ \/ pcb'[p].remainingTime = pcb[p].remainingTime
            \/ /\ pcb'[p].remainingTime = pcb[p].remainingTime - 1
               /\ schedPc' = "spin" /\ p = currentPCB'
<1>1. \/ Stays(p) \/ GetsReady(p) \/ GetsCPU(p) \/ LosesCPU(p) \/ Completes(p) \/ IsCharged(p)
  BY DEF TimelyStep
<1>2. /\ p \in Admitted => pcb[p].state \in {"Ready", "Blocked", "Running"} /\ ~Done(p)
      /\ p \in Admitted /\ pcb[p].state = "Ready" => InQueue(p) /\ ~TooBig(p)
      /\ pcb[p].state \in {"Running", "Blocked"} => p \in Admitted
      /\ Done(p) <=> pcb[p].state = "Finished"
      /\ pcb[p].state \in States
  BY ForkedFacts
<1>3. /\ p \in Admitted' => pcb'[p].state \in {"Ready", "Blocked", "Running"} /\ ~Done(p)'
      /\ pcb'[p].state \in {"Running", "Blocked"} => p \in Admitted'
      /\ Done(p)' <=> pcb'[p].state = "Finished"
      /\ pcb'[p].state \in States
      /\ pcb'[p].state = "Running" => p = currentPCB'
  BY ForkedNext
<1>4. pcb[p].state \in {"Running", "Blocked"} =>
        pcb'[p].state \in {"Running", "Blocked", "Finished"}
  BY <1>1 DEF Stays, GetsReady, GetsCPU, LosesCPU, Completes, IsCharged
<1>5. pcb[p].state = "Finished" <=> pcb'[p].state = "Finished" /\ pcb[p].state # "Running"
  BY <1>1 DEF Stays, GetsReady, GetsCPU, LosesCPU, Completes, IsCharged
<1>6. pcb[p].state = "Ready" /\ p \in Admitted => p \in Admitted'
  <2>1. SUFFICES ASSUME pcb[p].state = "Ready", p \in Admitted PROVE p \in Admitted'
    OBVIOUS
  <2>2. Phase(p) = "ready"
    BY <1>2, <2>1, PhaseFacts
  <2>3. Phase(p)' \in {"ready", "running"}
    BY <2>2, ReadyRuns
  <2>4. InQueue(p)' \/ pcb'[p].state = "Running"
    BY <1>3, <2>3, PhaseNext DEF States
  <2>5. QED
    BY <1>3, <2>4 DEF Admitted
<1>7. Forked(p) => Forked(p)'
  BY <1>2, <1>3, <1>4, <1>5, <1>6 DEF Forked
<1>8. Forked(p)' /\ ~Forked(p) <=> p \in Born
  <2>1. Done(p)' => Forked(p)
    BY <1>2, <1>3, <1>5 DEF Forked
  <2>2. Done(p) => p \notin Admitted'
    BY <1>2, <1>3, <1>5
  <2>3. QED
    BY <2>1, <2>2 DEF Forked, Born
<1>9. Forked(p) => pcb[p].state # "none"
  BY <1>2 DEF Forked
<1>10. Forked(p) /\ pcb'[p].state # pcb[p].state => pcb'[p].state # "Ready"
  BY <1>1, <1>9 DEF Stays, GetsReady, GetsCPU, LosesCPU, Completes, IsCharged
<1>11. \/ pcb'[p].remainingTime = pcb[p].remainingTime
       \/ /\ pcb'[p].remainingTime = pcb[p].remainingTime - 1
          /\ schedPc' = "spin" /\ p = currentPCB' /\ p \in Admitted
  BY <1>1, <1>2, <1>3 DEF Stays, GetsReady, GetsCPU, LosesCPU, Completes, IsCharged
<1>12. QED
  BY <1>7, <1>8, <1>9, <1>10, <1>11 DEF Forked

(* A step of the algorithm, the signals it sends, and the children it      *)
(* forks.                                                                  *)
LEMMA BodyForks ==
  ASSUME UsualInv, UsualInv', SafeInv, SafeInv', TimelyStep, LifeStep, ChildInv,
         input' = input, Signals, Fork
  PROVE  ForkInv'
<1>1. SUFFICES ASSUME NEW p \in Procs
               PROVE  /\ childPc'[p] # "none" <=> Forked(p)'
                      /\ childPc'[p] = "none" => /\ remainingtime'[p] = input[p].executionTime
                                                 /\ pcb'[p].remainingTime = input[p].executionTime
                      /\ Forked(p)' => (stopped'[p] = TRUE <=> pcb'[p].state \in {"Ready", "Blocked"})
  BY DEF ForkInv
<1>2. /\ childPc[p] # "none" <=> Forked(p)
      /\ childPc[p] = "none" => /\ remainingtime[p] = input[p].executionTime
                                /\ pcb[p].remainingTime = input[p].executionTime
      /\ Forked(p) => (stopped[p] = TRUE <=> pcb[p].state \in {"Ready", "Blocked"})
  BY DEF ChildInv, ForkInv
<1>3. /\ Forked(p) => Forked(p)'
      /\ Forked(p)' /\ ~Forked(p) <=> p \in Born
      /\ Forked(p) /\ pcb'[p].state # pcb[p].state => pcb'[p].state # "Ready"
      /\ ~Forked(p) => pcb'[p].remainingTime = pcb[p].remainingTime
  BY ForkMoves
<1>4. /\ childPc'[p] = "none" <=> childPc[p] = "none" /\ p \notin Born
      /\ p \notin Born => remainingtime'[p] = remainingtime[p]
  BY DEF Fork
<1>5. /\ p \in Born => (stopped'[p] = TRUE <=> pcb'[p].state # "Running")
      /\ p \notin Born /\ pcb'[p].state = pcb[p].state => stopped'[p] = stopped[p]
      /\ p \notin Born /\ pcb'[p].state # pcb[p].state =>
           (stopped'[p] = TRUE <=> pcb'[p].state = "Blocked")
  <2>1. stopped'[p] = IF p \in Born THEN pcb'[p].state # "Running"
                      ELSE IF pcb'[p].state = pcb[p].state THEN stopped[p]
                      ELSE pcb'[p].state = "Blocked"
    BY DEF Signals
  <2>2. QED
    BY <2>1
<1>6. p \in Born => pcb'[p].state \in {"Ready", "Blocked", "Running"}
  BY ForkedNext DEF Born
<1>7. childPc'[p] # "none" <=> Forked(p)'
  BY <1>2, <1>3, <1>4
<1>8. childPc'[p] = "none" => /\ remainingtime'[p] = input[p].executionTime
                              /\ pcb'[p].remainingTime = input[p].executionTime
  BY <1>2, <1>3, <1>4
<1>9. Forked(p)' => (stopped'[p] = TRUE <=> pcb'[p].state \in {"Ready", "Blocked"})
  BY <1>2, <1>3, <1>5, <1>6
<1>10. QED
  BY <1>7, <1>8, <1>9

(* The counts: who is charged a tick is the current process from then on.  *)
LEMMA BodyCounts ==
  ASSUME UsualInv, UsualInv', SafeInv, SafeInv', TimelyStep, LifeStep, ChildInv, InTick,
         schedPc \notin {"read", "down", "spin", "returned", "exited"},
         UNCHANGED <<input, clk, currClk>>, Fork
  PROVE  CountInv'
<1>1. SUFFICES ASSUME NEW p \in Procs, childPc'[p] \in {"loop", "spin"}
               PROVE  remainingtime'[p] <= pcb'[p].remainingTime + (IF Paid(p)' THEN 1 ELSE 0)
                                                                 - (IF Seen(p)' THEN 1 ELSE 0)
  BY DEF CountInv
<1>2. /\ pcb[p].remainingTime \in Int /\ pcb'[p].remainingTime \in Int
      /\ remainingtime[p] \in Int
  BY DEF ChildInv, ChildTyped, UsualInv, CommonInv, DataInv, DataTyped, PCB
<1>3. ~Paid(p) /\ currClk' = clk'
  BY DEF Paid, InTick
<1>4. /\ Forked(p)' /\ ~Forked(p) <=> p \in Born
      /\ ~Forked(p) => pcb'[p].remainingTime = pcb[p].remainingTime
      /\ \/ pcb'[p].remainingTime = pcb[p].remainingTime
         \/ pcb'[p].remainingTime = pcb[p].remainingTime - 1 /\ Paid(p)'
  BY <1>3, ForkMoves DEF Paid
<1>5. CASE p \in Born
  <2>1. remainingtime[p] = pcb'[p].remainingTime
    BY <1>4, <1>5 DEF ChildInv, ForkInv
  <2>2. \/ childPc'[p] = "spin" /\ remainingtime'[p] = remainingtime[p] - 1
        \/ childPc'[p] = "loop" /\ remainingtime'[p] = remainingtime[p]
    BY <1>5 DEF Fork
  <2>3. QED
    BY <1>2, <2>1, <2>2 DEF Seen
<1>6. CASE p \notin Born
  <2>1. /\ childPc'[p] = childPc[p] /\ childClk'[p] = childClk[p]
        /\ remainingtime'[p] = remainingtime[p]
    BY <1>6 DEF Fork
  <2>2. Seen(p)' <=> Seen(p)
    BY <2>1 DEF Seen
  <2>3. remainingtime[p] <= pcb[p].remainingTime - (IF Seen(p) THEN 1 ELSE 0)
    BY <1>1, <1>2, <1>3, <2>1 DEF ChildInv, CountInv
  <2>4. QED
    BY <1>2, <1>4, <2>1, <2>2, <2>3
<1>7. QED
  BY <1>5, <1>6

(* The types.                                                              *)
LEMMA BodyTypes ==
  ASSUME ChildTyped, Fork, Signals, clk' = clk, clk \in Nat
  PROVE  ChildTyped'
<1>1. /\ childPc \in [Procs -> {"none", "loop", "spin", "exited"}]
      /\ remainingtime \in [Procs -> Int] /\ childClk \in [Procs -> Int]
      /\ \A p \in Procs : childClk[p] <= clk
  BY DEF ChildTyped
<1>2. PICK quick : /\ childPc' = [p \in Procs |-> IF p \in quick THEN "spin"
                                                  ELSE IF p \in Born THEN "loop" ELSE childPc[p]]
                   /\ childClk' = [p \in Procs |-> IF p \in quick THEN clk ELSE childClk[p]]
                   /\ remainingtime' = [p \in Procs |-> IF p \in quick THEN remainingtime[p] - 1
                                                        ELSE remainingtime[p]]
  BY DEF Fork
<1>3. childPc' \in [Procs -> {"none", "loop", "spin", "exited"}]
  BY <1>1, <1>2
<1>4. childClk' \in [Procs -> Int] /\ \A p \in Procs : childClk'[p] <= clk
  BY <1>1, <1>2
<1>5. remainingtime' \in [Procs -> Int]
  BY <1>1, <1>2
<1>6. stopped' \in [Procs -> BOOLEAN]
  <2>1. \A p \in Procs : stopped[p] \in BOOLEAN
    BY DEF ChildTyped
  <2>2. ASSUME NEW p \in Procs
        PROVE  (IF p \in Born THEN pcb'[p].state # "Running"
                ELSE IF pcb'[p].state = pcb[p].state THEN stopped[p]
                ELSE pcb'[p].state = "Blocked") \in BOOLEAN
    BY <2>1
  <2>3. QED
    BY <2>2 DEF Signals
<1>7. QED
  BY <1>3, <1>4, <1>5, <1>6 DEF ChildTyped

LEMMA BodyChildren ==
  ASSUME UsualInv, UsualInv', SafeInv, SafeInv', ScanTakesFront, TimeInv, OnTime, InTick,
         ChildInv, Body, Signals, Fork
  PROVE  ChildInv'
<1>1. TimelyStep /\ LifeStep
  BY BodyTimely, BodySafe
<1>2. schedPc \notin {"read", "down", "spin", "returned", "exited"}
      /\ UNCHANGED <<input, clk, currClk>>
  BY BodyOnTick
<1>3. clk \in Nat
  BY TimeTypes DEF UsualInv
<1>4. QED
  BY <1>1, <1>2, <1>3, BodyForks, BodyCounts, BodyTypes DEF ChildInv

-----------------------------------------------------------------------------
(* The other steps.                                                        *)

(* What touches no process and no child, and leaves the clock alone.       *)
LEMMA HeadKeeps ==
  ASSUME ChildInv, UNCHANGED <<childVars, bodyVars, input, clk, reconstructing_buffer>>,
         schedPc' = "spin" => schedPc = "spin" /\ currClk' = currClk,
         schedPc = "spin" => (schedPc' = "spin" /\ currClk' = currClk) \/ currClk # clk
  PROVE  ChildInv'
<1>1. UNCHANGED <<childPc, stopped, remainingtime, childClk, pcb, ready, finishedProcesses,
                  currentPCB>>
  BY DEF childVars, bodyVars, queueVars
<1>2. ChildTyped'
  BY <1>1 DEF ChildInv, ChildTyped
<1>3. \A p \in Procs : Forked(p)' <=> Forked(p)
  BY <1>1 DEF Forked, Admitted, InQueue, Done
<1>4. ForkInv'
  BY <1>1, <1>3 DEF ChildInv, ForkInv
<1>5. \A p \in Procs : (Paid(p)' <=> Paid(p)) /\ (Seen(p)' <=> Seen(p))
  BY <1>1 DEF Paid, Seen
<1>6. CountInv'
  BY <1>1, <1>5 DEF ChildInv, CountInv
<1>7. QED
  BY <1>2, <1>4, <1>6 DEF ChildInv

(* The clock goes on only when every child that is not stopped has counted *)
(* the tick.                                                               *)
LEMMA TickKeeps ==
  ASSUME Prompt, UsualInv, SafeInv, ChildInv, Ticking
  PROVE  ChildInv'
<1>1. /\ UNCHANGED <<childPc, stopped, remainingtime, childClk, pcb, ready, finishedProcesses,
                     currentPCB, input, schedPc, currClk, reconstructing_buffer>>
      /\ clk' = clk + 1 /\ ChildrenSettled
  BY DEF Ticking, Undisturbed, Aside, ClockTick, childVars, bodyVars, queueVars, feedbackVars,
         schedHead
<1>2. clk \in Nat /\ currClk \in Nat /\ currClk <= clk
  BY TimeTypes DEF UsualInv
<1>3. \A p \in Procs : childClk[p] \in Int /\ childClk[p] <= clk
  BY DEF ChildInv, ChildTyped
<1>4. ChildTyped'
  BY <1>1, <1>2, <1>3 DEF ChildInv, ChildTyped
<1>5. \A p \in Procs : Forked(p)' <=> Forked(p)
  BY <1>1 DEF Forked, Admitted, InQueue, Done
<1>6. ForkInv'
  BY <1>1, <1>5 DEF ChildInv, ForkInv
<1>7. ASSUME NEW p \in Procs, childPc[p] \in {"loop", "spin"}
      PROVE  remainingtime[p] <= pcb[p].remainingTime
  <2>1. remainingtime[p] <= pcb[p].remainingTime + (IF Paid(p) THEN 1 ELSE 0)
                                                 - (IF Seen(p) THEN 1 ELSE 0)
    BY <1>7 DEF ChildInv, CountInv
  <2>2. pcb[p].remainingTime \in Int /\ remainingtime[p] \in Int
    BY DEF ChildInv, ChildTyped, UsualInv, CommonInv, DataInv, DataTyped, PCB
  <2>3. Paid(p) => Seen(p)
    <3>1. SUFFICES ASSUME Paid(p) PROVE Seen(p)
      OBVIOUS
    <3>2. pcb[p].state = "Running" /\ Forked(p)
      BY <3>1 DEF Paid, SafeInv, StateInv, Forked, Admitted
    <3>3. stopped[p] # TRUE /\ stopped[p] \in BOOLEAN
      BY <3>2 DEF ChildInv, ForkInv, ChildTyped
    <3>4. QED
      BY <1>1, <1>7, <3>3 DEF ChildrenSettled, Seen
  <2>4. QED
    BY <2>1, <2>2, <2>3
<1>8. CountInv'
  <2>1. \A p \in Procs : ~Paid(p)' /\ ~Seen(p)'
    BY <1>1, <1>2, <1>3 DEF Paid, Seen
  <2>2. \A p \in Procs : pcb[p].remainingTime \in Int /\ remainingtime[p] \in Int
    BY DEF ChildInv, ChildTyped, UsualInv, CommonInv, DataInv, DataTyped, PCB
  <2>3. QED
    BY <1>1, <1>7, <2>1, <2>2 DEF CountInv
<1>9. QED
  BY <1>4, <1>6, <1>8 DEF ChildInv

(* A step of a child.                                                      *)
LEMMA ChildKeeps ==
  ASSUME UsualInv, ChildInv, NEW c \in Procs, Child(c), UNCHANGED mainVars
  PROVE  ChildInv'
<1>1. UNCHANGED <<pcb, ready, finishedProcesses, currentPCB, input, clk, schedPc, currClk,
                  reconstructing_buffer>>
  BY DEF mainVars, tickVars, clkVars, schedHead, bodyVars, queueVars, feedbackVars
<1>2. /\ clk \in Nat
      /\ childPc \in [Procs -> {"none", "loop", "spin", "exited"}]
      /\ remainingtime \in [Procs -> Int] /\ childClk \in [Procs -> Int]
      /\ \A p \in Procs : childClk[p] <= clk
  BY TimeTypes DEF UsualInv, ChildInv, ChildTyped
<1>3. /\ childPc[c] # "none" /\ childPc'[c] # "none" /\ stopped' = stopped
      /\ \A p \in Procs \ {c} : /\ childPc'[p] = childPc[p]
                                /\ remainingtime'[p] = remainingtime[p]
                                /\ childClk'[p] = childClk[p]
      /\ \/ ~Seen(c) /\ Seen(c)' /\ remainingtime'[c] = remainingtime[c] - 1
            /\ childPc[c] = "loop"
         \/ ~Seen(c) /\ ~Seen(c)' /\ remainingtime'[c] = remainingtime[c]
            /\ childPc[c] = "spin"
         \/ childPc'[c] = "exited"
  BY <1>1, <1>2 DEF Child, ChildCount, ChildSpin, ChildExit, Seen
<1>4. ChildTyped'
  <2>1. /\ childPc' \in [Procs -> {"none", "loop", "spin", "exited"}]
        /\ remainingtime' \in [Procs -> Int] /\ childClk' \in [Procs -> Int]
        /\ \A p \in Procs : childClk'[p] <= clk
    BY <1>2 DEF Child, ChildCount, ChildSpin, ChildExit
  <2>2. QED
    BY <1>1, <1>3, <2>1 DEF ChildInv, ChildTyped
<1>5. \A p \in Procs : Forked(p)' <=> Forked(p)
  BY <1>1 DEF Forked, Admitted, InQueue, Done
<1>6. ForkInv'
  BY <1>1, <1>3, <1>5 DEF ChildInv, ForkInv
<1>7. CountInv'
  <2>1. SUFFICES ASSUME NEW p \in Procs, childPc'[p] \in {"loop", "spin"}
                 PROVE  remainingtime'[p] <= pcb[p].remainingTime + (IF Paid(p) THEN 1 ELSE 0)
                                                                  - (IF Seen(p)' THEN 1 ELSE 0)
    <3>1. \A p \in Procs : Paid(p)' <=> Paid(p)
      BY <1>1 DEF Paid
    <3>2. QED
      BY <1>1, <3>1 DEF CountInv
  <2>2. pcb[p].remainingTime \in Int /\ remainingtime[p] \in Int
    BY <1>2 DEF UsualInv, CommonInv, DataInv, DataTyped, PCB
  <2>3. childPc[p] \in {"loop", "spin"} =>
          remainingtime[p] <= pcb[p].remainingTime + (IF Paid(p) THEN 1 ELSE 0)
                                                   - (IF Seen(p) THEN 1 ELSE 0)
    BY DEF ChildInv, CountInv
  <2>4. CASE p = c
    BY <1>3, <2>1, <2>2, <2>3, <2>4
  <2>5. CASE p # c
    <3>1. Seen(p)' <=> Seen(p)
      BY <1>1, <1>3, <2>5 DEF Seen
    <3>2. QED
      BY <1>3, <2>1, <2>2, <2>3, <2>5, <3>1
  <2>6. QED
    BY <2>4, <2>5
<1>8. QED
  BY <1>4, <1>6, <1>7 DEF ChildInv

(* Every step of the program and its children.                             *)
LEMMA FamilyStep ==
  ASSUME Prompt, UsualInv, UsualInv', SafeInv, SafeInv', ScanTakesFront, TimeInv, OnTime,
         InTick, ChildInv, [FamilyNext]_familyVars
  PROVE  ChildInv'
<1>1. CASE Body /\ Signals /\ Fork
  BY <1>1, BodyChildren
<1>2. CASE Undisturbed(Aside(SchedRead \/ SchedDown \/ SchedSpin))
           \/ Undisturbed(Aside(SchedExit) /\ Reaped)
  <2>1. UNCHANGED <<childVars, bodyVars, feedbackVars, clkVars>>
    BY <1>2 DEF Undisturbed, Aside, SchedRead, SchedDown, SchedSpin, SchedExit
  <2>2. /\ schedPc' # "spin"
        /\ schedPc = "spin" => currClk # clk
    BY <1>2 DEF Undisturbed, Aside, SchedRead, SchedDown, SchedSpin, SchedExit
  <2>3. QED
    BY <2>1, <2>2, HeadKeeps DEF feedbackVars, clkVars
<1>3. CASE Undisturbed(Aside(Generator))
  <2>1. UNCHANGED <<childVars, bodyVars, feedbackVars, clkVars, schedHead>>
    BY <1>3 DEF Undisturbed, Aside, Generator, GenRead, GenSend, GenFinal, GenUp, GenSpin, GenExit
  <2>2. QED
    BY <2>1, HeadKeeps DEF feedbackVars, clkVars, schedHead
<1>4. CASE Ticking
  BY <1>4, TickKeeps
<1>5. CASE \E p \in Procs : Child(p) /\ UNCHANGED mainVars
  BY <1>5, ChildKeeps
<1>6. CASE Undisturbed(Aside(Ended)) \/ UNCHANGED familyVars
  <2>1. UNCHANGED <<childVars, bodyVars, feedbackVars, tickVars>>
    BY <1>6 DEF Undisturbed, Aside, Ended, familyVars, mainVars
  <2>2. QED
    BY <2>1, HeadKeeps DEF feedbackVars, tickVars, clkVars, schedHead
<1>7. QED
  BY <1>1, <1>2, <1>3, <1>4, <1>5, <1>6 DEF FamilyNext, Scheduling

(* What the children do is no step of the program as it was proved about.  *)
LEMMA FamilyMain ==
  ASSUME [FamilyNext]_familyVars
  PROVE  [MainNext]_mainVars
BY DEF FamilyNext, Scheduling, Undisturbed, Ticking, familyVars, MainNext, LoopHead, Aside

(* At the start no child has been forked.                                  *)
LEMMA ChildStart ==
  ASSUME MainInit, ChildInit
  PROVE  ChildInv /\ InTick
<1>1. UsualInv /\ SafeInv
  BY UsualInit, SafeInit
<1>2. /\ schedPc = "read" /\ clk = 0 /\ input \in Inputs
      /\ \A p \in Procs : pcb[p].state = "none" /\ pcb[p].remainingTime = input[p].executionTime
  BY DEF MainInit, TickInit, BodyInit
<1>3. \A p \in Procs : ~Forked(p)
  BY <1>1, <1>2, ForkedFacts DEF Forked
<1>4. \A p \in Procs : input[p].executionTime \in Int
  BY <1>2, FileAssumption
<1>5. ChildTyped
  BY <1>2, <1>4 DEF ChildInit, ChildTyped
<1>6. ForkInv
  BY <1>2, <1>3 DEF ForkInv, ChildInit
<1>7. CountInv
  BY DEF ChildInit, CountInv
<1>8. QED
  BY <1>2, <1>5, <1>6, <1>7 DEF ChildInv, InTick

-----------------------------------------------------------------------------
(* The inductive invariant.                                                *)
THEOREM ChildInvHolds ==
  ASSUME Prompt, MsgCap >= N
  PROVE  FamilySafety /\ []ScanTakesFront => [](ChildInv /\ UsualInv /\ SafeInv /\ TimeInv)
<1>1. MainInit /\ ChildInit => ChildInv /\ InTick
  BY ChildStart
<1>2. [FamilyNext]_familyVars => [MainNext]_mainVars
  BY FamilyMain
<1>3. MainInit => Served!ServerInit
  BY UsualInit
<1>4. UsualInv /\ [MainNext]_mainVars => [Served!ServerNext]_(Served!serverVars)
  BY UsualStep DEF AsSeen
<1>5. Served!ServerSafety => []Served!LockStep
  BY Served!LockStepHolds, TickAssumption DEF Procs, Served!Procs
<1>6. Served!ServerSafety => []Served!SentExactly
  BY Served!SentExactlyHolds, TickAssumption DEF Procs, Served!Procs
<1>7. UsualInv /\ Served!LockStep => OnTime
  BY ReceivedOnTime DEF UsualInv
<1>8. UsualInv /\ Served!SentExactly /\ Served!LockStep /\ InTick /\ [MainNext]_mainVars => InTick'
  BY WorksInTick DEF UsualInv
<1>9. UsualInv /\ UsualInv' /\ SafeInv /\ SafeInv' /\ ScanTakesFront /\ TimeInv /\ OnTime
      /\ InTick /\ ChildInv /\ [FamilyNext]_familyVars => ChildInv'
  BY FamilyStep
<1>10. MainSafety /\ []ScanTakesFront => []TimeInv
  BY TimeInvHolds
<1>11. QED
  BY <1>1, <1>2, <1>3, <1>4, <1>5, <1>6, <1>7, <1>8, <1>9, <1>10, UsualInvHolds, SafeInvHolds, PTL
     DEF FamilySafety, MainSafety, Served!ServerSafety

(* When the scheduler, which only counts for itself, declares a process    *)
(* finished and frees its memory, the child has done all its work; and it  *)
(* gets none afterwards.                                                   *)
THEOREM DoneHolds ==
  ASSUME Prompt, MsgCap >= N
  PROVE  FamilySafety /\ []ScanTakesFront => []DoneWhenFinished
<1>1. ASSUME ChildInv, UsualInv, SafeInv, TimeInv
      PROVE  DoneWhenFinished
  <2>1. SUFFICES ASSUME NEW p \in Procs, pcb[p].state = "Finished",
                        childPc[p] \in {"loop", "spin"}
                 PROVE  ~(remainingtime[p] > 0)
    BY DEF DoneWhenFinished, HasWork
  <2>2. pcb[p].remainingTime = 0
    BY <1>1, <2>1 DEF TimeInv
  <2>3. ~Paid(p)
    BY <1>1, <2>1 DEF Paid, SafeInv, StateInv
  <2>4. remainingtime[p] \in Int
    BY <1>1 DEF ChildInv, ChildTyped
  <2>5. remainingtime[p] <= 0 - (IF Seen(p) THEN 1 ELSE 0)
    BY <1>1, <2>1, <2>2, <2>3 DEF ChildInv, CountInv
  <2>6. QED
    BY <2>4, <2>5
<1>2. QED
  BY <1>1, ChildInvHolds, PTL

(* While a tick passes nobody computes but the process that is charged for *)
(* it: SIGSTOP and SIGCONT, sent from saveProcessState, keep the children  *)
(* in step with the process control blocks.                                *)
THEOREM OneHolds ==
  ASSUME Prompt, MsgCap >= N
  PROVE  FamilySafety /\ []ScanTakesFront => []OneComputes
<1>1. ASSUME ChildInv, UsualInv, SafeInv, DoneWhenFinished
      PROVE  OneComputes
  <2>1. SUFFICES ASSUME NEW p \in Procs, HasWork(p), ~stopped[p]
                 PROVE  p = currentPCB
    BY DEF OneComputes
  <2>2. Forked(p)
    BY <1>1, <2>1 DEF HasWork, ChildInv, ForkInv
  <2>3. pcb[p].state \notin {"Ready", "Blocked"}
    BY <1>1, <2>1, <2>2 DEF ChildInv, ForkInv
  <2>4. pcb[p].state # "Finished"
    BY <1>1, <2>1 DEF DoneWhenFinished
  <2>5. pcb[p].state = "Running"
    BY <1>1, <2>2, <2>3, <2>4, ForkedFacts DEF Forked
  <2>6. QED
    BY <1>1, <2>5 DEF SafeInv, StateInv
<1>2. QED
  BY <1>1, ChildInvHolds, DoneHolds, PTL

(* With sizes in order both hold whatever happens.                         *)
THEOREM ChildrenInOrder ==
  ASSUME SizesInOrder, Prompt, MsgCap >= N
  PROVE  FamilySafety => []DoneWhenFinished /\ []OneComputes
<1>1. [FamilyNext]_familyVars => [MainNext]_mainVars
  BY FamilyMain
<1>2. MainSafety => []ScanTakesFront
  BY FrontInOrder
<1>3. QED
  BY <1>1, <1>2, DoneHolds, OneHolds, PTL DEF FamilySafety, MainSafety

-----------------------------------------------------------------------------
(* What the other algorithms leave alone, and what multi-level feedback    *)
(* makes of it: once the quantum of the current process is over it looks   *)
(* at the levels again, and so it does when a process finishes and after a *)
(* refill; in between the two numbers grow together.                       *)
InversionInv ==
  /\ inverted \in Nat /\ inverted <= quantum
  /\ schedAlgorithm # "MLFL" => currentOccupiedLevel = -1 /\ inverted = 0
  /\ schedAlgorithm = "MLFL" /\ schedPc \notin {"scan", "refill", "broken"} =>
       \/ inverted <= quantum_passed
       \/ schedPc \in {"quantum", "run"} /\ ~HigherOccupied

(* Round robin: whole quanta of the current process, and what has passed   *)
(* of the next.                                                            *)
TurnInv ==
  schedAlgorithm = "RR" =>
    /\ currentPCB = NULL => quantum_passed = 0
    /\ \E k \in Nat : turn = k * quantum + quantum_passed

(* Round robin: at position i of the queue a process has waited for no more *)
(* than a quantum of each of those that may have been in front of it, and  *)
(* for what has passed of the current one; who is not in the queue does    *)
(* not wait, or is done.                                                   *)
Allowed(i) == quantum * (Min({N, MemorySize}) - i)

WaitInv ==
  schedAlgorithm = "RR" =>
    /\ \A p \in Procs : waited[p] <= Allowed(1)
    /\ \A p \in Procs : ~InQueue(p) /\ ~Done(p) => waited[p] = 0
    /\ \A i \in 1 .. Len(RR_Queue) :
         waited[RR_Queue[i]] <= Allowed(i) + (IF i = 1 THEN 0 ELSE quantum_passed)
    /\ quantum_passed > 0 /\ currentPCB # NULL => waited[currentPCB] = 0

(* After a look at the levels nobody above the current one is left out.    *)
LEMMA NoneHigher ==
  ASSUME ready' \in Queues, currentOccupiedLevel' = multiLevelisEmpty(ready')
  PROVE  ~HigherOccupied'
<1>1. PICK levels \in Queues, l \in Int : levels = ready' /\ l = currentOccupiedLevel'
  <2>1. multiLevelisEmpty(ready') = -1 \/ multiLevelisEmpty(ready') \in Levels
    BY FirstLevel
  <2>2. QED
    BY <2>1 DEF Levels
<1>2. /\ l = -1 <=> \A k \in Levels : levels[k] = <<>>
      /\ l # -1 => \A k \in Levels : levels[k] # <<>> => l <= k
  BY <1>1, FirstLevel
<1>3. \A k \in Levels : levels[k] # <<>> => ~(k < l)
  BY <1>2 DEF Levels
<1>4. QED
  BY <1>1, <1>3 DEF HigherOccupied

(* Without a current level nobody is above it.                             *)
LEMMA NoneAtAll ==
  ASSUME currentOccupiedLevel' = -1
  PROVE  ~HigherOccupied'
BY DEF HigherOccupied, Levels

(* The steps of multi-level feedback.                                      *)
LEMMA MLFLInverted ==
  ASSUME CommonInv, MLFLInv, MLFLInv', CommonInv', InversionInv, MLFLBody, TurnsNext,
         schedAlgorithm = "MLFL", schedAlgorithm' = "MLFL"
  PROVE  InversionInv'
<1>1. /\ quantum_passed \in 0 .. quantum /\ quantum_passed' \in 0 .. quantum
      /\ inverted \in Nat /\ quantum \in Nat \ {0}
      /\ ready' \in Queues
  <2>1. ready' \in Queues
    BY DEF CommonInv, DataInv, DataTyped, Queues
  <2>2. QED
    BY <2>1, QuantumAssumption DEF MLFLInv, FeedbackTyped, InversionInv
<1>2. inverted' = IF TickServed THEN (IF HigherOccupied' THEN inverted + 1 ELSE 0) ELSE inverted
  BY DEF TurnsNext
<1>3. CASE MLFLReceive
  <2>1. /\ schedPc = "receive" /\ schedPc' \in {"receive", "dispatch"}
        /\ quantum_passed' = quantum_passed
    BY <1>3 DEF MLFLReceive, ReceiveTooBig, ReceiveNoRoom, ReceiveAdmit, ReceiveDone, SchedTake,
       SchedTo, schedHead
  <2>2. QED
    BY <1>1, <1>2, <2>1 DEF InversionInv, TickServed
<1>4. CASE MLFLDispatch
  <2>1. CASE Return \/ Continue("quantum")
    <3>1. /\ schedPc = "dispatch" /\ schedPc' \in {"returned", "quantum"}
          /\ quantum_passed' = quantum_passed
      BY <1>4, <2>1 DEF MLFLDispatch, Return, Continue, Finish, SchedTo
    <3>2. QED
      BY <1>1, <1>2, <3>1 DEF InversionInv, TickServed
  <2>2. CASE Idle("spin")
    <3>1. /\ schedPc = "dispatch" /\ schedPc' = "spin" /\ currentPCB = NULL
          /\ currentOccupiedLevel' = currentOccupiedLevel
      BY <1>4, <2>2 DEF MLFLDispatch, Idle, SchedTo, feedbackVars
    <3>2. currentOccupiedLevel = -1
      BY <3>1 DEF MLFLInv, LevelInv
    <3>3. ~HigherOccupied'
      BY <3>1, <3>2, NoneAtAll
    <3>4. TickServed
      BY <3>1 DEF TickServed
    <3>5. inverted' = 0
      BY <1>2, <3>3, <3>4
    <3>6. inverted' <= quantum /\ inverted' <= quantum_passed'
      BY <1>1, <3>5
    <3>7. QED
      BY <1>1, <3>5, <3>6, schedAlgorithm' = "MLFL" DEF InversionInv
  <2>3. CASE Finish(dequeueMultiLevel(MLVL_Queue, currentOccupiedLevel))
    <3>1. schedPc = "dispatch" /\ schedPc' = "scan"
      BY <2>3 DEF Finish, SchedTo
    <3>2. QED
      BY <1>1, <1>2, <3>1 DEF InversionInv, TickServed
  <2>4. QED
    BY <1>4, <2>1, <2>2, <2>3 DEF MLFLDispatch
<1>5. CASE MLFLScan
  <2>1. schedPc = "scan" /\ schedPc' \in {"scan", "quantum"}
    BY <1>5 DEF MLFLScan, ScanAdmit, ScanSkip, PickNobody, Pick, SchedTo, tickVars, schedHead
  <2>2. schedPc' = "quantum" => currentOccupiedLevel' \in {-1, multiLevelisEmpty(ready')}
    BY <1>5 DEF MLFLScan, ScanAdmit, ScanSkip, PickNobody, Pick, SchedTo, tickVars, schedHead,
       MLVL_Queue
  <2>3. schedPc' = "quantum" => ~HigherOccupied'
    BY <1>1, <2>2, NoneHigher, NoneAtAll
  <2>4. QED
    BY <1>1, <1>2, <2>1, <2>3 DEF InversionInv, TickServed
<1>6. CASE Demote \/ Shelve
  <2>1. CASE schedPc' = "broken"
    <3>1. ~TickServed
      BY <2>1 DEF TickServed
    <3>2. QED
      BY <1>1, <1>2, <2>1, <3>1 DEF InversionInv
  <2>2. CASE schedPc' # "broken"
    <3>1. schedPc' = "run" /\ \E levels : SwitchTo(levels)
      BY <1>6, <2>2 DEF Demote, Shelve, Broken, SchedTo
    <3>2. currentOccupiedLevel' = multiLevelisEmpty(ready')
      BY <3>1 DEF SwitchTo
    <3>3. QED
      BY <1>1, <1>2, <3>1, <3>2, NoneHigher DEF InversionInv, TickServed
  <2>3. QED
    BY <2>1, <2>2
<1>7. CASE KeepLevel
  <2>1. /\ schedPc = "quantum" /\ schedPc' = "run" /\ quantum_passed' = quantum_passed
        /\ HigherOccupied' <=> HigherOccupied
    BY <1>7 DEF KeepLevel, SchedTo, bodyVars, queueVars, feedbackVars, HigherOccupied
  <2>2. QED
    BY <1>1, <1>2, <2>1 DEF InversionInv, TickServed
<1>8. CASE MLFLCharge
  <2>1. /\ schedPc = "run" /\ schedPc' = "spin"
        /\ quantum_passed' = IF currentPCB = NULL THEN quantum_passed ELSE quantum_passed + 1
        /\ HigherOccupied' <=> HigherOccupied
        /\ currentOccupiedLevel' = currentOccupiedLevel
    BY <1>8 DEF MLFLCharge, RRCharge, Charge, SchedTo, queueVars, feedbackVars, HigherOccupied
  <2>2. currentPCB = NULL => ~HigherOccupied'
    BY <2>1, NoneAtAll DEF MLFLInv, LevelInv
  <2>3. QED
    BY <1>1, <1>2, <2>1, <2>2 DEF InversionInv, TickServed
<1>9. CASE Refill \/ RefillStrays
  <2>1. schedPc' \in {"refill", "broken"}
    BY <1>9 DEF Refill, RefillStrays, Broken, SchedTo
  <2>2. QED
    BY <1>1, <1>2, <2>1 DEF InversionInv, TickServed
<1>10. CASE Reconstruct
  <2>1. /\ schedPc = "refill" /\ schedPc' = "spin" /\ ready' = ready
        /\ currentOccupiedLevel' = multiLevelisEmpty(ready)
    BY <1>10 DEF Reconstruct, SchedTo, queueVars, MLVL_Queue
  <2>2. ~HigherOccupied'
    BY <1>1, <2>1, NoneHigher
  <2>3. QED
    BY <1>1, <1>2, <2>1, <2>2 DEF InversionInv, TickServed
<1>11. QED
  BY <1>3, <1>4, <1>5, <1>6, <1>7, <1>8, <1>9, <1>10 DEF MLFLBody

(* Every step.                                                             *)
LEMMA InversionStep ==
  ASSUME UsualInv, UsualInv', InversionInv, [TurnsNext]_turnVars
  PROVE  InversionInv'
<1>1. CASE TurnsNext /\ Body /\ schedAlgorithm = "MLFL"
  BY <1>1, MLFLInverted DEF Body, UsualInv
<1>2. CASE TurnsNext /\ Body /\ schedAlgorithm # "MLFL"
  <2>1. currentOccupiedLevel' = currentOccupiedLevel /\ schedAlgorithm' = schedAlgorithm
    BY <1>2 DEF Body, feedbackVars
  <2>2. ~HigherOccupied'
    BY <1>2, <2>1, NoneAtAll DEF InversionInv
  <2>3. inverted' = 0
    BY <1>2, <2>2 DEF TurnsNext, InversionInv
  <2>4. QED
    BY <1>2, <2>1, <2>3, QuantumAssumption DEF InversionInv
<1>3. CASE TurnsNext /\ ~Body
  <2>1. CASE UNCHANGED <<inverted, schedAlgorithm, currentOccupiedLevel, quantum_passed, schedPc,
                         ready>>
    BY <2>1 DEF InversionInv, HigherOccupied
  <2>2. /\ UNCHANGED <<schedAlgorithm, currentOccupiedLevel, quantum_passed, ready>>
        /\ \/ schedPc' = schedPc
           \/ /\ schedPc \in {"read", "down", "spin", "returned"}
              /\ schedPc' \in {"read", "down", "receive", "exited"}
    BY <1>3 DEF TurnsNext, MainNext, Aside, Generator, GenRead, GenSend, GenFinal, GenUp, GenSpin,
       GenExit, ClockTick, LoopHead, SchedRead, SchedDown, SchedSpin, SchedExit, Ended,
       schedHead, bodyVars, queueVars, feedbackVars, tickVars
  <2>3. inverted' = inverted
    BY <1>3, <2>2 DEF TurnsNext, TickServed
  <2>4. QED
    BY <2>1, <2>2, <2>3 DEF InversionInv
<1>4. CASE UNCHANGED turnVars
  BY <1>4 DEF turnVars, mainVars, feedbackVars, tickVars, schedHead, bodyVars, queueVars,
     InversionInv, HigherOccupied
<1>5. QED
  BY <1>1, <1>2, <1>3, <1>4

LEMMA TurnsMain ==
  ASSUME [TurnsNext]_turnVars
  PROVE  [MainNext]_mainVars
BY DEF TurnsNext, turnVars

THEOREM InversionHolds == TurnsSafety => []InversionBounded
<1>1. TurnsInit => MainInit /\ InversionInv
  BY QuantumAssumption
     DEF TurnsInit, MainInit, MLFLInit, TickInit, InversionInv
<1>2. [TurnsNext]_turnVars => [MainNext]_mainVars
  BY TurnsMain
<1>3. UsualInv /\ UsualInv' /\ InversionInv /\ [TurnsNext]_turnVars => InversionInv'
  BY InversionStep
<1>4. InversionInv => InversionBounded
  BY DEF InversionInv, InversionBounded
<1>5. QED
  BY <1>1, <1>2, <1>3, <1>4, UsualInvHolds, PTL DEF TurnsSafety, MainSafety

-----------------------------------------------------------------------------
(* Whole multiples of the quantum.                                         *)
LEMMA WholeQuanta ==
  ASSUME NEW k \in Nat
  PROVE  /\ (k * quantum) % quantum = 0
         /\ k * quantum \in Nat
         /\ (k + 1) * quantum = k * quantum + quantum
<1>1. PICK m \in Nat \ {0} : m = quantum
  BY QuantumAssumption
<1>2. (k * m) % m = 0
  OBVIOUS
<1>3. k * m \in Nat /\ (k + 1) * m = k * m + m
  OBVIOUS
<1>4. QED
  BY <1>1, <1>2, <1>3

(* What a step of round robin does to the quantum: it is counted up by a   *)
(* tick, or counted anew, after a finish or at its end.  The CPU goes from *)
(* one process to another only at its end.                                 *)
LEMMA QuantumMoves ==
  ASSUME CommonInv, RRInv, TurnInv, RRBody
  PROVE  \/ /\ ~TickServed /\ quantum_passed' = quantum_passed
            /\ currentPCB' = currentPCB \/ currentPCB = NULL
         \/ ~TickServed /\ quantum_passed' = 0 /\ currentPCB' = NULL /\ currentPCB # NULL
         \/ ~TickServed /\ quantum_passed = quantum /\ quantum_passed' = 0
         \/ /\ TickServed /\ currentPCB' = currentPCB
            /\ quantum_passed' = IF currentPCB = NULL THEN quantum_passed ELSE quantum_passed + 1
<1>1. CASE RRReceive
  <2>1. /\ schedPc = "receive" /\ schedPc' \in {"receive", "dispatch"}
        /\ quantum_passed' = quantum_passed
    BY <1>1 DEF RRReceive, ReceiveTooBig, ReceiveNoRoom, ReceiveAdmit, ReceiveDone, SchedTake,
       SchedTo, schedHead
  <2>2. currentPCB' = currentPCB \/ currentPCB = NULL
    BY <1>1 DEF RRReceive, ReceiveTooBig, ReceiveNoRoom, ReceiveAdmit, ReceiveDone, bodyVars
  <2>3. QED
    BY <2>1, <2>2 DEF TickServed
<1>2. CASE (Return \/ Idle("quantum") \/ Continue("quantum")) /\ UNCHANGED quantum_passed
  BY <1>2 DEF Return, Idle, Continue, SchedTo, bodyVars, TickServed
<1>3. CASE Finish(OneQueue(dequeue(RR_Queue))) /\ quantum_passed' = 0
  BY <1>3 DEF Finish, SchedTo, TickServed
<1>4. CASE RRScan
  <2>1. schedPc = "scan" /\ schedPc' \in {"scan", "quantum"} /\ quantum_passed' = quantum_passed
    BY <1>4 DEF RRScan, ScanAdmit, ScanSkip, PickNobody, Pick, SchedTo, tickVars, schedHead
  <2>2. currentPCB = NULL
    BY <2>1 DEF CommonInv, DataInv
  <2>3. QED
    BY <2>1, <2>2 DEF TickServed
<1>5. CASE Rotate
  BY <1>5 DEF Rotate, SchedTo, TickServed
<1>6. CASE KeepCPU
  BY <1>6 DEF KeepCPU, SchedTo, bodyVars, TickServed
<1>7. CASE RRCharge
  BY <1>7 DEF RRCharge, Charge, SchedTo, TickServed
<1>8. QED
  BY <1>1, <1>2, <1>3, <1>4, <1>5, <1>6, <1>7 DEF RRBody, RRDispatch

(* Every step counts the turn with the quantum.                            *)
LEMMA TurnStep ==
  ASSUME UsualInv, TurnInv, [TurnsNext]_turnVars
  PROVE  TurnInv'
<1>1. CASE TurnsNext /\ Body /\ schedAlgorithm = "RR"
  <2>1. CommonInv /\ RRInv /\ RRBody /\ schedAlgorithm' = "RR"
    BY <1>1 DEF Body, UsualInv
  <2>2. /\ quantum_passed \in Nat /\ quantum \in Nat \ {0}
        /\ currentPCB = NULL => quantum_passed = 0
    BY <1>1, <2>1, QuantumAssumption DEF RRInv, TurnInv
  <2>3. PICK k \in Nat : turn = k * quantum + quantum_passed
    BY <1>1 DEF TurnInv
  <2>4. turn' = (IF currentPCB' = currentPCB THEN turn ELSE 0)
                  + (IF TickServed /\ currentPCB' # NULL THEN 1 ELSE 0)
    BY <1>1 DEF TurnsNext
  <2>5. k * quantum \in Nat /\ (k + 1) * quantum = k * quantum + quantum /\ 0 * quantum = 0
        /\ turn \in Nat
    BY <2>2, <2>3, WholeQuanta
  <2>6. CASE ~TickServed /\ quantum_passed' = quantum_passed
             /\ (currentPCB' = currentPCB \/ currentPCB = NULL)
    <3>1. turn' = turn \/ (turn' = 0 /\ quantum_passed' = 0)
      BY <2>2, <2>4, <2>5, <2>6
    <3>2. currentPCB' = NULL => quantum_passed' = 0
      BY <2>2, <2>6
    <3>3. turn' = k * quantum + quantum_passed' \/ turn' = 0 * quantum + quantum_passed'
      BY <2>3, <2>5, <2>6, <3>1
    <3>4. QED
      BY <2>1, <3>2, <3>3 DEF TurnInv
  <2>7. CASE ~TickServed /\ quantum_passed' = 0 /\ currentPCB' = NULL /\ currentPCB # NULL
    <3>1. turn' = 0 * quantum + quantum_passed'
      BY <2>4, <2>5, <2>7
    <3>2. QED
      BY <2>1, <2>7, <3>1 DEF TurnInv
  <2>8. CASE ~TickServed /\ quantum_passed = quantum /\ quantum_passed' = 0
    <3>1. turn' = turn \/ turn' = 0
      BY <2>4, <2>5, <2>8
    <3>2. turn' = (k + 1) * quantum + quantum_passed' \/ turn' = 0 * quantum + quantum_passed'
      BY <2>2, <2>3, <2>5, <2>8, <3>1
    <3>3. QED
      BY <2>1, <2>8, <3>2 DEF TurnInv
  <2>9. CASE /\ TickServed /\ currentPCB' = currentPCB
             /\ quantum_passed' = IF currentPCB = NULL THEN quantum_passed ELSE quantum_passed + 1
    <3>1. turn' = k * quantum + quantum_passed'
      BY <2>2, <2>3, <2>4, <2>5, <2>9
    <3>2. QED
      BY <2>1, <2>2, <2>9, <3>1 DEF TurnInv
  <2>10. QED
    BY <1>1, <2>1, <2>6, <2>7, <2>8, <2>9, QuantumMoves
<1>2. CASE TurnsNext /\ Body /\ schedAlgorithm # "RR"
  BY <1>2 DEF Body, TurnInv
<1>3. CASE TurnsNext /\ ~Body
  <2>1. /\ UNCHANGED <<schedAlgorithm, currentPCB, quantum_passed>>
        /\ \/ schedPc' = schedPc
           \/ /\ schedPc \in {"read", "down", "spin", "returned"}
              /\ schedPc' \in {"read", "down", "receive", "exited"}
    BY <1>3 DEF TurnsNext, MainNext, Aside, Generator, GenRead, GenSend, GenFinal, GenUp, GenSpin,
       GenExit, ClockTick, LoopHead, SchedRead, SchedDown, SchedSpin, SchedExit, Ended,
       schedHead, bodyVars, tickVars
  <2>2. ~TickServed
    BY <2>1 DEF TickServed
  <2>3. turn' = turn + 0
    BY <1>3, <2>1, <2>2 DEF TurnsNext
  <2>4. schedAlgorithm = "RR" => turn \in Nat
    <3>1. \A k \in Nat : k * quantum + quantum_passed \in Nat \/ schedAlgorithm # "RR"
      BY WholeQuanta DEF UsualInv, RRInv
    <3>2. QED
      BY <3>1 DEF TurnInv
  <2>5. schedAlgorithm = "RR" => turn' = turn
    BY <2>3, <2>4
  <2>6. QED
    BY <2>1, <2>5 DEF TurnInv
<1>4. CASE UNCHANGED turnVars
  BY <1>4 DEF turnVars, mainVars, bodyVars, TurnInv
<1>5. QED
  BY <1>1, <1>2, <1>3, <1>4

(* The invariants of the program hold with the history, too.               *)
LEMMA TurnsUsual == TurnsSafety => MainSafety
<1>1. TurnsInit => MainInit
  BY DEF TurnsInit
<1>2. QED
  BY <1>1, TurnsMain, PTL DEF TurnsSafety, MainSafety

(* Round robin: a process that is not done gives the CPU to another one    *)
(* only at the end of a quantum of its own.                                *)
THEOREM QuantumHolds == TurnsSafety => QuantumKept
<1>1. TurnsInit => TurnInv
  <2>1. 0 = 0 * quantum + 0
    BY QuantumAssumption
  <2>2. QED
    BY <2>1 DEF TurnsInit, MainInit, BodyInit, TurnInv
<1>2. UsualInv /\ TurnInv /\ [TurnsNext]_turnVars => TurnInv'
  BY TurnStep
<1>3. UsualInv /\ TurnInv /\ [TurnsNext]_turnVars
        => [/\ schedAlgorithm = "RR"
            /\ currentPCB # NULL /\ currentPCB' \notin {NULL, currentPCB}
            => turn % quantum = 0]_turnVars
  <2>1. SUFFICES ASSUME UsualInv, TurnInv, TurnsNext, schedAlgorithm = "RR",
                        currentPCB # NULL, currentPCB' \notin {NULL, currentPCB}
                 PROVE  turn % quantum = 0
    BY DEF turnVars
  <2>2. Body
    BY <2>1 DEF TurnsNext, MainNext, Aside, bodyVars
  <2>3. CommonInv /\ RRInv /\ RRBody
    BY <2>1, <2>2 DEF Body, UsualInv
  <2>4. quantum_passed = quantum
    BY <2>1, <2>3, QuantumMoves
  <2>5. PICK k \in Nat : turn = k * quantum + quantum_passed
    BY <2>1 DEF TurnInv
  <2>6. turn = (k + 1) * quantum
    BY <2>4, <2>5, WholeQuanta
  <2>7. QED
    BY <2>6, WholeQuanta
<1>4. QED
  BY <1>1, <1>2, <1>3, TurnsUsual, UsualInvHolds, PTL DEF TurnsSafety, QuantumKept

-----------------------------------------------------------------------------
(* Round robin, how long a process waits.                                  *)
LEMMA AllowedFacts ==
  /\ Min({N, MemorySize}) \in Nat \ {0}
  /\ Min({N, MemorySize}) <= N /\ Min({N, MemorySize}) <= MemorySize
  /\ Min({N, MemorySize}) \in {N, MemorySize}
  /\ Allowed(1) \in Nat
  /\ \A i \in 1 .. Min({N, MemorySize}) : /\ Allowed(i) \in Nat
                                          /\ Allowed(i + 1) = Allowed(i) - quantum
                                          /\ Allowed(i) <= Allowed(1)
                                          /\ i # 1 => Allowed(i) <= Allowed(1) - quantum
<1> DEFINE K == Min({N, MemorySize})
<1>1. {N, MemorySize} \subseteq Nat /\ N # 0 /\ MemorySize # 0
  BY TickAssumption, BuddyAssumption
<1>2. K \in {N, MemorySize} /\ K \in Nat \ {0} /\ K <= N /\ K <= MemorySize
  BY <1>1, LeastElement
<1> HIDE DEF K
<1>3. PICK m \in Nat \ {0}, k \in Nat \ {0} : m = quantum /\ k = K
  BY <1>2, QuantumAssumption
<1>4. \A i \in 1 .. k : /\ m * (k - i) \in Nat
                        /\ m * (k - (i + 1)) = m * (k - i) - m
                        /\ m * (k - i) <= m * (k - 1)
                        /\ i # 1 => m * (k - i) <= m * (k - 1) - m
  <2>1. SUFFICES ASSUME NEW i \in 1 .. k
                 PROVE  /\ m * (k - i) \in Nat
                        /\ m * (k - (i + 1)) = m * (k - i) - m
                        /\ m * (k - i) <= m * (k - 1)
                        /\ i # 1 => m * (k - i) <= m * (k - 1) - m
    OBVIOUS
  <2>2. m * (k - (i + 1)) = m * (k - i) - m
    OBVIOUS
  <2>3. m * (k - 1) = m * (k - i) + m * (i - 1)
    OBVIOUS
  <2>4. m * (k - i) \in Nat /\ m * (i - 1) \in Nat
    OBVIOUS
  <2>5. i # 1 => m * (i - 1) >= m
    OBVIOUS
  <2>6. m * (k - 1) \in Int
    OBVIOUS
  <2>7. QED
    BY <2>2, <2>3, <2>4, <2>5, <2>6
<1>5. QED
  BY <1>2, <1>3, <1>4 DEF Allowed, K

(* The queue of round robin is the only one.                               *)
LEMMA OnlyQueue ==
  ASSUME CommonInv, RRInv
  PROVE  /\ RR_Queue \in Seq(Procs) /\ Len(RR_Queue) \in Nat
         /\ \A p : InQueue(p) <=> \E i \in 1 .. Len(RR_Queue) : RR_Queue[i] = p
         /\ schedPc # "scan" => /\ RR_Queue = <<>> => currentPCB = NULL
                                /\ RR_Queue # <<>> => /\ currentPCB = RR_Queue[1]
                                                      /\ currentPCB # NULL
<1>1. RR_Queue \in Seq(Procs)
  BY OneQueueFacts, EmptySeq DEF RR_Queue
<1>2. \A p : InQueue(p) <=> Contains(RR_Queue, p)
  BY OneLevelFacts DEF RRInv, RR_Queue, InQueue, InLevels
<1>3. schedPc # "scan" => currentPCB = IF RR_Queue = <<>> THEN NULL ELSE Head(RR_Queue)
  BY DEF RRInv, FrontRuns, peek
<1>4. RR_Queue # <<>> => Head(RR_Queue) = RR_Queue[1] /\ Head(RR_Queue) \in Procs
  BY <1>1, DequeueTakes
<1>5. QED
  BY <1>1, <1>2, <1>3, <1>4, NullAssumption DEF Contains

(* So it is if it is replaced.                                             *)
LEMMA SoleQueue ==
  ASSUME CommonInv, RRInv, NEW queue \in Seq(Procs), ready' = OneQueue(queue)
  PROVE  /\ RR_Queue' = queue
         /\ \A p : InQueue(p)' <=> \E i \in 1 .. Len(queue) : queue[i] = p
<1>1. ready'[0] = queue /\ 0 \in Levels /\ \A l \in Levels \ {0} : ready'[l] = <<>>
  BY OneQueueFacts DEF RRInv, OneLevel
<1>2. \A p : ~Contains(<<>>, p)
  BY DEF Contains
<1>3. \A p : InQueue(p)' <=> Contains(queue, p)
  BY <1>1, <1>2 DEF InQueue
<1>4. QED
  BY <1>1, <1>3 DEF RR_Queue, Contains

(* What a step of round robin does to its queue: nothing, or somebody      *)
(* joins it at the rear, or the front leaves it, or goes to the rear.      *)
LEMMA QueueMoves ==
  ASSUME CommonInv, RRInv, TurnInv, SafeInv, schedAlgorithm = "RR", RRBody
  PROVE  \/ /\ ~TickServed /\ UNCHANGED <<ready, finishedProcesses>>
            /\ \/ quantum_passed' = quantum_passed /\ currentPCB' = currentPCB
               \/ quantum_passed' = 0 /\ (quantum_passed = 0 \/ Len(RR_Queue) < 2)
         \/ /\ ~TickServed /\ UNCHANGED <<finishedProcesses, quantum_passed>>
            /\ currentPCB' = currentPCB \/ quantum_passed = 0
            /\ \E p \in Procs : /\ ~InQueue(p) /\ ~Done(p)
                                /\ ready' = OneQueue(Append(RR_Queue, p))
         \/ /\ ~TickServed /\ RR_Queue # <<>>
            /\ ready' = OneQueue(Tail(RR_Queue))
            /\ finishedProcesses' = Append(finishedProcesses, Head(RR_Queue))
            /\ quantum_passed' = 0 /\ currentPCB' = NULL
         \/ /\ ~TickServed /\ quantum_passed = quantum /\ Len(RR_Queue) >= 2
            /\ schedPc # "scan"
            /\ ready' = OneQueue(Append(Tail(RR_Queue), Head(RR_Queue)))
            /\ UNCHANGED finishedProcesses /\ quantum_passed' = 0
         \/ /\ TickServed /\ schedPc # "scan"
            /\ UNCHANGED <<ready, finishedProcesses, currentPCB>>
            /\ quantum_passed' = IF currentPCB = NULL THEN quantum_passed ELSE quantum_passed + 1
<1>1. /\ currentPCB = NULL => quantum_passed = 0
      /\ finishedProcesses \in Seq(Procs)
      /\ \A p \in Procs : InQueue(p) => pcb[p].state # "none"
      /\ schedPc = "scan" => currentPCB = NULL
  BY DEF TurnInv, CommonInv, DataInv, DataTyped, OnlyReceived, Listed, Accepted, Received
<1>2. CASE ReceiveTooBig \/ ReceiveNoRoom(bufferKey) \/ ReceiveDone
  <2>1. /\ schedPc = "receive" /\ schedPc' \in {"receive", "dispatch"}
        /\ UNCHANGED <<ready, finishedProcesses, currentPCB>>
    BY <1>2 DEF ReceiveTooBig, ReceiveNoRoom, ReceiveDone, SchedTake, SchedTo, schedHead,
       bodyVars, queueVars
  <2>2. CASE quantum_passed' = quantum_passed
    BY <2>1, <2>2 DEF TickServed
  <2>3. QED
    BY <1>2, <2>1, <2>2 DEF RRBody, RRReceive, RRDispatch, Return, Idle, Continue, Finish, RRScan,
       ScanAdmit, ScanSkip, PickNobody, Pick, Rotate, KeepCPU, RRCharge, Charge
<1>3. CASE RRReceive /\ ReceiveAdmit(OneQueue(enqueue(RR_Queue, New)), currentPCB = NULL)
  <2>1. /\ schedPc = "receive" /\ schedPc' = "receive"
        /\ UNCHANGED <<finishedProcesses, quantum_passed>>
        /\ currentPCB' = IF currentPCB = NULL THEN New ELSE currentPCB
        /\ ready' = OneQueue(Append(RR_Queue, New))
    BY <1>3 DEF RRReceive, ReceiveAdmit, SchedTake, schedHead, enqueue
  <2>2. New \in Procs /\ pcb[New].state = "none"
    <3> DEFINE queues == OneQueue(enqueue(RR_Queue, New))
               takes == currentPCB = NULL
    <3>1. takes \in BOOLEAN /\ ReceiveAdmit(queues, takes)
      BY <1>3
    <3> HIDE DEF queues, takes
    <3>2. QED
      BY <3>1, AdmitOthers
  <2>3. ~InQueue(New) /\ ~Done(New)
    BY <1>1, <2>2 DEF SafeInv, StateInv
  <2>4. QED
    BY <1>1, <2>1, <2>2, <2>3 DEF TickServed
<1>4. CASE RRDispatch /\ (Return \/ Idle("quantum") \/ Continue("quantum"))
  <2>1. /\ schedPc = "dispatch" /\ schedPc' \in {"returned", "quantum"}
        /\ UNCHANGED <<ready, finishedProcesses, currentPCB>>
    BY <1>4 DEF Return, Idle, Continue, SchedTo, bodyVars, queueVars
  <2>2. quantum_passed' = quantum_passed
    BY <1>4, <2>1 DEF RRDispatch, Finish, SchedTo
  <2>3. QED
    BY <2>1, <2>2 DEF TickServed
<1>5. CASE Finish(OneQueue(dequeue(RR_Queue))) /\ quantum_passed' = 0
  <2>1. /\ schedPc = "dispatch" /\ schedPc' = "scan" /\ currentPCB # NULL /\ currentPCB' = NULL
        /\ finishedProcesses' = Append(finishedProcesses, currentPCB)
        /\ ready' = OneQueue(dequeue(RR_Queue))
    BY <1>5 DEF Finish, SchedTo, enqueue
  <2>2. RR_Queue # <<>> /\ currentPCB = Head(RR_Queue)
    BY <2>1 DEF RRInv, FrontRuns, peek
  <2>3. QED
    BY <1>5, <2>1, <2>2 DEF TickServed, dequeue
<1>6. CASE RRScan
  <2>1. /\ schedPc = "scan" /\ schedPc' \in {"scan", "quantum"}
        /\ UNCHANGED <<finishedProcesses, quantum_passed>> /\ quantum_passed = 0
    BY <1>1, <1>6 DEF RRScan, ScanAdmit, ScanSkip, PickNobody, Pick, SchedTo, tickVars, schedHead,
       bodyVars, queueVars
  <2>2. CASE ready' = ready
    BY <2>1, <2>2 DEF TickServed
  <2>3. CASE ScanAdmit(OneQueue(enqueue(RR_Queue, Head(ptr))))
    <3>1. ready' = OneQueue(Append(RR_Queue, Head(ptr))) /\ ptr # <<>>
      BY <2>3 DEF ScanAdmit, enqueue
    <3>2. Head(ptr) \in Procs /\ Contains(ptr, Head(ptr))
      BY <3>1, DequeueTakes DEF CommonInv, DataInv, DataTyped
    <3>3. Waiting(Head(ptr))
      BY <2>1, <3>2 DEF SafeInv, ListsInv
    <3>4. ~InQueue(Head(ptr)) /\ ~Done(Head(ptr))
      BY <3>2, <3>3 DEF SafeInv, PlaceInv, StateInv, Active
    <3>5. QED
      BY <2>1, <3>1, <3>2, <3>4 DEF TickServed
  <2>4. QED
    BY <1>6, <2>2, <2>3 DEF RRScan, ScanSkip, PickNobody, Pick, bodyVars, queueVars
<1>7. CASE Rotate
  <2>1. /\ schedPc = "quantum" /\ schedPc' = "run" /\ quantum_passed = quantum
        /\ Len(RR_Queue) >= 2 /\ quantum_passed' = 0 /\ UNCHANGED finishedProcesses
        /\ ready' = OneQueue(enqueue(dequeue(RR_Queue), peek(RR_Queue, NULL)))
    BY <1>7 DEF Rotate, SchedTo
  <2>2. RR_Queue # <<>>
    BY <2>1
  <2>3. QED
    BY <2>1, <2>2 DEF TickServed, enqueue, dequeue, peek
<1>8. CASE KeepCPU
  <2>1. /\ schedPc = "quantum" /\ schedPc' = "run"
        /\ UNCHANGED <<ready, finishedProcesses, currentPCB>>
        /\ quantum_passed = quantum => Len(RR_Queue) < 2
        /\ quantum_passed' = IF quantum_passed = quantum THEN 0 ELSE quantum_passed
    BY <1>8 DEF KeepCPU, SchedTo, bodyVars, queueVars
  <2>2. QED
    BY <2>1 DEF TickServed
<1>9. CASE RRCharge
  BY <1>9 DEF RRCharge, Charge, SchedTo, queueVars, TickServed
<1>10. QED
  BY <1>2, <1>3, <1>4, <1>5, <1>6, <1>7, <1>8, <1>9 DEF RRBody, RRReceive, RRDispatch

(* The queue is never longer than the processes that fit into memory.      *)
RoundFits == Len(RR_Queue) <= Min({N, MemorySize})

(* Nobody waits longer: the queue is the same, or the current process gets *)
(* a new quantum while nobody is behind it.                                *)
LEMMA WaitSame ==
  ASSUME WaitInv, UNCHANGED <<waited, ready, finishedProcesses>>,
         \/ quantum_passed' = quantum_passed /\ currentPCB' = currentPCB
         \/ quantum_passed' = 0 /\ (quantum_passed = 0 \/ Len(RR_Queue) < 2),
         schedAlgorithm = "RR", schedAlgorithm' = "RR"
  PROVE  WaitInv'
<1>1. RR_Queue' = RR_Queue /\ \A p : (InQueue(p)' <=> InQueue(p)) /\ (Done(p)' <=> Done(p))
  BY DEF RR_Queue, InQueue, Done
<1>2. /\ \A p \in Procs : waited'[p] <= Allowed(1)
      /\ \A p \in Procs : ~InQueue(p)' /\ ~Done(p)' => waited'[p] = 0
  BY <1>1 DEF WaitInv
<1>3. quantum_passed' > 0 /\ currentPCB' # NULL => waited'[currentPCB'] = 0
  BY DEF WaitInv
<1>4. \A i \in 1 .. Len(RR_Queue)' :
        waited'[RR_Queue'[i]] <= Allowed(i) + (IF i = 1 THEN 0 ELSE quantum_passed')
  <2>1. \A i \in 1 .. Len(RR_Queue) :
          waited[RR_Queue[i]] <= Allowed(i) + (IF i = 1 THEN 0 ELSE quantum_passed)
    BY DEF WaitInv
  <2>2. CASE quantum_passed' = quantum_passed
    BY <1>1, <2>1, <2>2
  <2>3. CASE quantum_passed' = 0 /\ Len(RR_Queue) < 2
    <3>1. \A i \in 1 .. Len(RR_Queue) : i = 1
      BY <2>3 DEF RR_Queue
    <3>2. QED
      BY <1>1, <2>1, <3>1
  <2>4. QED
    BY <2>2, <2>3
<1>5. QED
  BY <1>1, <1>2, <1>3, <1>4 DEF WaitInv, Allowed

(* Whoever joins has not waited yet.                                       *)
LEMMA WaitJoins ==
  ASSUME CommonInv, RRInv, waited \in [Procs -> Nat], WaitInv, RoundFits',
         UNCHANGED <<waited, finishedProcesses, quantum_passed>>,
         currentPCB' = currentPCB \/ quantum_passed = 0,
         NEW p \in Procs, ~InQueue(p), ~Done(p), ready' = OneQueue(Append(RR_Queue, p)),
         schedAlgorithm = "RR", schedAlgorithm' = "RR"
  PROVE  WaitInv'
<1> DEFINE queue == RR_Queue
           new == RR_Queue'
<1>1. queue \in Seq(Procs) /\ Len(queue) \in Nat /\ quantum_passed \in Nat
  BY OnlyQueue DEF RRInv
<1>2. Append(queue, p) \in Seq(Procs)
  BY <1>1, AppendProperties
<1>3. /\ new = Append(queue, p)
      /\ \A q : InQueue(q) <=> \E i \in 1 .. Len(queue) : queue[i] = q
      /\ \A q : InQueue(q)' <=> \E i \in 1 .. Len(new) : new[i] = q
      /\ \A q : Done(q)' <=> Done(q)
  BY <1>2, OnlyQueue, SoleQueue DEF Done
<1>4. waited[p] = 0 /\ Len(new) <= Min({N, MemorySize})
  BY DEF WaitInv, RoundFits
<1> HIDE DEF queue, new
<1>5. /\ Len(new) = Len(queue) + 1 /\ new[Len(queue) + 1] = p
      /\ \A i \in 1 .. Len(queue) : new[i] = queue[i]
  BY <1>1, <1>3
<1>6. \A i \in 1 .. Len(new) :
        waited'[new[i]] <= Allowed(i) + (IF i = 1 THEN 0 ELSE quantum_passed')
  <2>1. SUFFICES ASSUME NEW i \in 1 .. Len(new)
                 PROVE  waited[new[i]] <= Allowed(i) + (IF i = 1 THEN 0 ELSE quantum_passed)
    OBVIOUS
  <2>2. CASE i \in 1 .. Len(queue)
    BY <1>5, <2>2 DEF WaitInv, queue
  <2>3. CASE i = Len(queue) + 1
    <3>1. i \in 1 .. Min({N, MemorySize})
      BY <1>1, <1>4, <1>5, <2>3, AllowedFacts
    <3>2. Allowed(i) \in Nat
      BY <3>1, AllowedFacts
    <3>3. QED
      BY <1>1, <1>4, <1>5, <2>3, <3>2
  <2>4. QED
    BY <1>1, <1>5, <2>2, <2>3
<1>7. \A q \in Procs : ~InQueue(q)' /\ ~Done(q)' => waited'[q] = 0
  <2>1. \A q : InQueue(q) => InQueue(q)'
    BY <1>1, <1>3, <1>5
  <2>2. QED
    BY <1>3, <2>1 DEF WaitInv
<1>8. /\ \A q \in Procs : waited'[q] <= Allowed(1)
      /\ quantum_passed' > 0 /\ currentPCB' # NULL => waited'[currentPCB'] = 0
  BY DEF WaitInv
<1>9. QED
  BY <1>6, <1>7, <1>8 DEF WaitInv, Allowed, new

(* The front leaves: everybody else is one place nearer to it.             *)
LEMMA WaitLeaves ==
  ASSUME CommonInv, RRInv, waited \in [Procs -> Nat], WaitInv, RoundFits, UNCHANGED waited,
         RR_Queue # <<>>, ready' = OneQueue(Tail(RR_Queue)),
         finishedProcesses' = Append(finishedProcesses, Head(RR_Queue)),
         quantum_passed' = 0, currentPCB' = NULL,
         schedAlgorithm = "RR", schedAlgorithm' = "RR"
  PROVE  WaitInv'
<1> DEFINE queue == RR_Queue
           new == RR_Queue'
<1>1. /\ queue \in Seq(Procs) /\ Len(queue) \in Nat /\ quantum_passed \in 0 .. quantum
      /\ finishedProcesses \in Seq(Procs) /\ quantum \in Nat
  BY OnlyQueue, QuantumAssumption DEF RRInv, CommonInv, DataInv, DataTyped
<1>2. Tail(queue) \in Seq(Procs)
  BY <1>1, HeadTailProperties
<1>3. new = Tail(queue) /\ \A q : InQueue(q)' <=> \E i \in 1 .. Len(new) : new[i] = q
  BY <1>2, SoleQueue
<1>4. \A q : InQueue(q) <=> \E i \in 1 .. Len(queue) : queue[i] = q
  BY OnlyQueue
<1>5. /\ Len(queue) <= Min({N, MemorySize}) /\ queue # <<>>
      /\ finishedProcesses' = Append(finishedProcesses, Head(queue))
  BY DEF RoundFits
<1>6. \A q : Done(q)' <=> Done(q) \/ q = Head(queue)
  <2>1. Head(queue) \in Procs
    BY <1>1, <1>5, HeadTailProperties
  <2>2. PICK list \in Seq(Procs), front \in Procs :
          list = finishedProcesses /\ front = Head(queue)
    BY <1>1, <2>1
  <2>3. \A q : Contains(Append(list, front), q) <=> Contains(list, q) \/ q = front
    <3> DEFINE longer == Append(list, front)
    <3>1. longer \in Seq(Procs) /\ PutIn(list, longer, front)
      BY <2>2, EnqueuePuts DEF enqueue
    <3> HIDE DEF longer
    <3>2. \A q : Contains(longer, q) <=> Contains(list, q) \/ q = front
      BY <2>2, <3>1, PutInFacts
    <3>3. QED
      BY <3>2 DEF longer
  <2>4. QED
    BY <1>5, <2>2, <2>3 DEF Done
<1> HIDE DEF queue, new
<1>7. /\ Len(new) = Len(queue) - 1 /\ Head(queue) = queue[1]
      /\ \A i \in 1 .. Len(new) : new[i] = queue[i + 1]
  BY <1>1, <1>3, <1>5, HeadTailProperties
<1>8. \A i \in 1 .. Len(new) :
        waited'[new[i]] <= Allowed(i) + (IF i = 1 THEN 0 ELSE quantum_passed')
  <2>1. SUFFICES ASSUME NEW i \in 1 .. Len(new)
                 PROVE  waited[new[i]] <= Allowed(i) + 0
    OBVIOUS
  <2>2. i + 1 \in 1 .. Len(queue) /\ i + 1 # 1 /\ i \in 1 .. Min({N, MemorySize})
    BY <1>1, <1>5, <1>7, AllowedFacts
  <2>3. waited[queue[i + 1]] <= Allowed(i + 1) + quantum_passed
    BY <2>2 DEF WaitInv, queue
  <2>4. Allowed(i + 1) = Allowed(i) - quantum /\ Allowed(i) \in Nat
    BY <2>2, AllowedFacts
  <2>5. waited[queue[i + 1]] \in Nat
    BY <1>1, <2>2
  <2>6. waited[queue[i + 1]] <= Allowed(i) + 0
    BY <1>1, <2>3, <2>4, <2>5
  <2>7. QED
    BY <1>7, <2>6
<1>9. \A q \in Procs : ~InQueue(q)' /\ ~Done(q)' => waited'[q] = 0
  <2>1. ASSUME NEW q, InQueue(q), q # Head(queue) PROVE InQueue(q)'
    <3>1. PICK i \in 1 .. Len(queue) : queue[i] = q
      BY <1>4, <2>1
    <3>2. i # 1
      BY <1>7, <2>1, <3>1
    <3>3. i - 1 \in 1 .. Len(new) /\ new[i - 1] = q
      BY <1>1, <1>7, <3>1, <3>2
    <3>4. QED
      BY <1>3, <3>3
  <2>2. QED
    BY <1>6, <2>1 DEF WaitInv
<1>10. /\ \A q \in Procs : waited'[q] <= Allowed(1)
       /\ ~(quantum_passed' > 0)
  BY DEF WaitInv
<1>11. QED
  BY <1>8, <1>9, <1>10 DEF WaitInv, Allowed, new

(* The front goes to the rear at the end of its quantum: it has not        *)
(* waited, and the others are one place nearer to the front.               *)
LEMMA WaitRotates ==
  ASSUME CommonInv, RRInv, waited \in [Procs -> Nat], WaitInv, RoundFits,
         UNCHANGED <<waited, finishedProcesses>>,
         quantum_passed = quantum, Len(RR_Queue) >= 2, schedPc # "scan",
         ready' = OneQueue(Append(Tail(RR_Queue), Head(RR_Queue))),
         quantum_passed' = 0,
         schedAlgorithm = "RR", schedAlgorithm' = "RR"
  PROVE  WaitInv'
<1> DEFINE queue == RR_Queue
           front == Head(queue)
           new == RR_Queue'
<1>1. /\ queue \in Seq(Procs) /\ Len(queue) \in Nat /\ quantum \in Nat \ {0}
      /\ queue # <<>> /\ Len(queue) >= 2
  BY OnlyQueue, QuantumAssumption DEF RRInv, CommonInv, DataInv, DataTyped
<1>2. Tail(queue) \in Seq(Procs) /\ front \in Procs /\ Append(Tail(queue), front) \in Seq(Procs)
  BY <1>1, HeadTailProperties, AppendProperties
<1>3. /\ new = Append(Tail(queue), front)
      /\ \A q : InQueue(q)' <=> \E i \in 1 .. Len(new) : new[i] = q
  BY <1>2, SoleQueue
<1>4. /\ \A q : InQueue(q) <=> \E i \in 1 .. Len(queue) : queue[i] = q
      /\ \A q : Done(q)' <=> Done(q)
      /\ front = currentPCB /\ currentPCB # NULL
  BY <1>1, OnlyQueue DEF Done
<1>5. waited[front] = 0 /\ Len(queue) <= Min({N, MemorySize})
  BY <1>1, <1>4 DEF WaitInv, RoundFits
<1> HIDE DEF queue, front, new
<1>6. /\ Len(new) = Len(queue) /\ front = queue[1] /\ new[Len(queue)] = front
      /\ \A i \in 1 .. Len(queue) - 1 : new[i] = queue[i + 1]
  BY <1>1, <1>2, <1>3, HeadTailProperties DEF front
<1>7. \A i \in 1 .. Len(new) :
        waited'[new[i]] <= Allowed(i) + (IF i = 1 THEN 0 ELSE quantum_passed')
  <2>1. SUFFICES ASSUME NEW i \in 1 .. Len(new)
                 PROVE  waited[new[i]] <= Allowed(i) + 0
    OBVIOUS
  <2>2. i \in 1 .. Min({N, MemorySize}) /\ Allowed(i) \in Nat
    <3>1. i \in 1 .. Min({N, MemorySize})
      BY <1>1, <1>5, <1>6, AllowedFacts
    <3>2. QED
      BY <3>1, AllowedFacts
  <2>3. CASE i \in 1 .. Len(queue) - 1
    <3>1. i + 1 \in 1 .. Len(queue) /\ i + 1 # 1
      BY <1>1, <2>3
    <3>2. waited[queue[i + 1]] <= Allowed(i + 1) + quantum
      BY <3>1 DEF WaitInv, queue
    <3>3. Allowed(i + 1) = Allowed(i) - quantum
      BY <2>2, AllowedFacts
    <3>4. waited[queue[i + 1]] \in Nat
      BY <1>1, <3>1
    <3>5. waited[queue[i + 1]] <= Allowed(i) + 0
      BY <1>1, <2>2, <3>2, <3>3, <3>4
    <3>6. QED
      BY <1>6, <2>3, <3>5
  <2>4. CASE i = Len(queue)
    BY <1>5, <1>6, <2>2, <2>4
  <2>5. QED
    BY <1>1, <1>6, <2>3, <2>4
<1>8. \A q \in Procs : ~InQueue(q)' /\ ~Done(q)' => waited'[q] = 0
  <2>1. ASSUME NEW q, InQueue(q) PROVE InQueue(q)'
    <3>1. PICK i \in 1 .. Len(queue) : queue[i] = q
      BY <1>4, <2>1
    <3>2. CASE i = 1
      <4>1. Len(queue) \in 1 .. Len(new) /\ new[Len(queue)] = q
        BY <1>1, <1>6, <3>1, <3>2
      <4>2. QED
        BY <1>3, <4>1
    <3>3. CASE i # 1
      <4>1. i - 1 \in 1 .. Len(new) /\ i - 1 \in 1 .. Len(queue) - 1 /\ new[i - 1] = q
        BY <1>1, <1>6, <3>1, <3>3
      <4>2. QED
        BY <1>3, <4>1
    <3>4. QED
      BY <3>2, <3>3
  <2>2. QED
    BY <1>4, <2>1 DEF WaitInv
<1>9. /\ \A q \in Procs : waited'[q] <= Allowed(1)
      /\ ~(quantum_passed' > 0)
  BY DEF WaitInv
<1>10. QED
  BY <1>7, <1>8, <1>9 DEF WaitInv, Allowed, new

(* A tick: all but the front have waited for one more.                     *)
LEMMA WaitTick ==
  ASSUME CommonInv, RRInv, quantum_passed' <= quantum,
         waited \in [Procs -> Nat], WaitInv, RoundFits,
         UNCHANGED <<ready, finishedProcesses, currentPCB>>, schedPc # "scan",
         quantum_passed' = IF currentPCB = NULL THEN quantum_passed ELSE quantum_passed + 1,
         waited' = [p \in Procs |-> IF PassedOver(p)' THEN waited[p] + 1 ELSE 0],
         schedAlgorithm = "RR", schedAlgorithm' = "RR"
  PROVE  WaitInv'
<1> DEFINE queue == RR_Queue
<1>1. /\ queue \in Seq(Procs) /\ Len(queue) \in Nat /\ quantum_passed \in Nat
      /\ quantum \in Nat
      /\ \A q : InQueue(q) <=> \E i \in 1 .. Len(queue) : queue[i] = q
      /\ queue = <<>> => currentPCB = NULL
      /\ queue # <<>> => currentPCB = queue[1] /\ currentPCB # NULL
  BY OnlyQueue, QuantumAssumption DEF RRInv
<1>2. /\ RR_Queue' = queue
      /\ \A q : (InQueue(q)' <=> InQueue(q)) /\ (Done(q)' <=> Done(q))
      /\ \A q : PassedOver(q)' <=> InQueue(q) /\ q # currentPCB
  BY DEF RR_Queue, InQueue, Done, PassedOver
<1>3. Len(queue) <= Min({N, MemorySize})
  BY DEF RoundFits
<1>4. \A q \in Procs : waited'[q] = IF InQueue(q) /\ q # currentPCB THEN waited[q] + 1 ELSE 0
  BY <1>2
<1> HIDE DEF queue
<1>5. ASSUME NEW i \in 1 .. Len(queue)
      PROVE  /\ Allowed(i) \in Nat /\ Allowed(i) <= Allowed(1)
             /\ i # 1 => Allowed(i) <= Allowed(1) - quantum
             /\ waited'[queue[i]] <= Allowed(i) + (IF i = 1 THEN 0 ELSE quantum_passed')
             /\ i # 1 => waited'[queue[i]] <= Allowed(i) + quantum
             /\ i = 1 => waited'[queue[i]] = 0
  <2>1. i \in 1 .. Min({N, MemorySize})
    BY <1>1, <1>3, AllowedFacts
  <2>2. /\ Allowed(i) \in Nat /\ Allowed(i) <= Allowed(1)
        /\ i # 1 => Allowed(i) <= Allowed(1) - quantum
    BY <2>1, AllowedFacts
  <2>3. queue # <<>> /\ queue[i] \in Procs /\ waited[queue[i]] \in Nat
    BY <1>1
  <2>4. quantum_passed' = quantum_passed + 1
    BY <1>1, <2>3
  <2>5. waited[queue[i]] <= Allowed(i) + (IF i = 1 THEN 0 ELSE quantum_passed)
    BY DEF WaitInv, queue
  <2>6. waited'[queue[i]] \in {0, waited[queue[i]] + 1}
    BY <1>4, <2>3
  <2>7. i = 1 => waited'[queue[i]] = 0
    BY <1>1, <1>4, <2>3
  <2>8. i # 1 => waited'[queue[i]] <= Allowed(i) + (quantum_passed + 1)
    BY <1>1, <2>2, <2>3, <2>5, <2>6
  <2>9. i # 1 => waited'[queue[i]] <= Allowed(i) + quantum
    <3>1. waited'[queue[i]] \in Nat /\ quantum_passed + 1 <= quantum
      BY <2>3, <2>4, <2>6
    <3>2. QED
      BY <1>1, <2>2, <2>8, <3>1
  <2>10. i = 1 => waited'[queue[i]] <= Allowed(i) + 0
    BY <2>2, <2>7
  <2>11. QED
    BY <2>2, <2>4, <2>7, <2>8, <2>9, <2>10
<1>6. \A q \in Procs : waited'[q] <= Allowed(1)
  <2>1. SUFFICES ASSUME NEW q \in Procs PROVE waited'[q] <= Allowed(1)
    OBVIOUS
  <2>2. CASE InQueue(q)
    <3>1. PICK i \in 1 .. Len(queue) : queue[i] = q
      BY <1>1, <2>2
    <3>2. CASE i = 1
      <4>1. waited'[q] = 0 /\ Allowed(1) \in Nat
        BY <1>5, <3>1, <3>2
      <4>2. QED
        BY <4>1
    <3>3. CASE i # 1
      <4>1. /\ waited'[q] <= Allowed(i) + quantum /\ Allowed(i) <= Allowed(1) - quantum
            /\ Allowed(i) \in Nat
        BY <1>5, <3>1, <3>3
      <4>2. waited'[q] \in Nat
        BY <1>4
      <4>3. Allowed(1) \in Nat
        BY AllowedFacts
      <4>4. QED
        BY <1>1, <4>1, <4>2, <4>3
    <3>4. QED
      BY <3>2, <3>3
  <2>3. CASE ~InQueue(q)
    <3>1. waited'[q] = 0 /\ Allowed(1) \in Nat
      BY <1>4, <2>3, AllowedFacts
    <3>2. QED
      BY <3>1
  <2>4. QED
    BY <2>2, <2>3
<1>7. currentPCB' # NULL => waited'[currentPCB'] = 0
  BY <1>4 DEF CommonInv, DataInv, DataTyped
<1>8. \A q \in Procs : ~InQueue(q)' /\ ~Done(q)' => waited'[q] = 0
  BY <1>2, <1>4
<1>9. QED
  BY <1>2, <1>5, <1>6, <1>7, <1>8 DEF WaitInv, Allowed

(* Every step.                                                             *)
LEMMA WaitStep ==
  ASSUME UsualInv, UsualInv', SafeInv, TurnInv, waited \in [Procs -> Nat], WaitInv,
         schedAlgorithm = "RR" => RoundFits /\ RoundFits',
         [TurnsNext]_turnVars
  PROVE  WaitInv'
<1>1. CASE TurnsNext /\ Body /\ schedAlgorithm = "RR"
  <2>1. /\ CommonInv /\ RRInv /\ RRBody /\ schedAlgorithm' = "RR" /\ RoundFits /\ RoundFits'
        /\ quantum_passed' <= quantum
    BY <1>1, QuantumAssumption DEF Body, UsualInv, RRInv
  <2>2. IF TickServed
        THEN waited' = [p \in Procs |-> IF PassedOver(p)' THEN waited[p] + 1 ELSE 0]
        ELSE waited' = waited
    BY <1>1 DEF TurnsNext
  <2>3. CASE /\ ~TickServed /\ UNCHANGED <<ready, finishedProcesses>>
             /\ \/ quantum_passed' = quantum_passed /\ currentPCB' = currentPCB
                \/ quantum_passed' = 0 /\ (quantum_passed = 0 \/ Len(RR_Queue) < 2)
    BY <1>1, <2>1, <2>2, <2>3, WaitSame
  <2>4. CASE /\ ~TickServed /\ UNCHANGED <<finishedProcesses, quantum_passed>>
             /\ currentPCB' = currentPCB \/ quantum_passed = 0
             /\ \E p \in Procs : /\ ~InQueue(p) /\ ~Done(p)
                                 /\ ready' = OneQueue(Append(RR_Queue, p))
    BY <1>1, <2>1, <2>2, <2>4, WaitJoins
  <2>5. CASE /\ ~TickServed /\ RR_Queue # <<>>
             /\ ready' = OneQueue(Tail(RR_Queue))
             /\ finishedProcesses' = Append(finishedProcesses, Head(RR_Queue))
             /\ quantum_passed' = 0 /\ currentPCB' = NULL
    BY <1>1, <2>1, <2>2, <2>5, WaitLeaves
  <2>6. CASE /\ ~TickServed /\ quantum_passed = quantum /\ Len(RR_Queue) >= 2
             /\ schedPc # "scan"
             /\ ready' = OneQueue(Append(Tail(RR_Queue), Head(RR_Queue)))
             /\ UNCHANGED finishedProcesses /\ quantum_passed' = 0
    BY <1>1, <2>1, <2>2, <2>6, WaitRotates
  <2>7. CASE /\ TickServed /\ schedPc # "scan"
             /\ UNCHANGED <<ready, finishedProcesses, currentPCB>>
             /\ quantum_passed' = IF currentPCB = NULL THEN quantum_passed ELSE quantum_passed + 1
    BY <1>1, <2>1, <2>2, <2>7, WaitTick
  <2>8. QED
    BY <1>1, <2>1, <2>3, <2>4, <2>5, <2>6, <2>7, QueueMoves
<1>2. CASE TurnsNext /\ Body /\ schedAlgorithm # "RR"
  BY <1>2 DEF Body, WaitInv
<1>3. CASE TurnsNext /\ ~Body
  <2>1. /\ UNCHANGED <<schedAlgorithm, ready, finishedProcesses, currentPCB, quantum_passed>>
        /\ \/ schedPc' = schedPc
           \/ /\ schedPc \in {"read", "down", "spin", "returned"}
              /\ schedPc' \in {"read", "down", "receive", "exited"}
    BY <1>3 DEF TurnsNext, MainNext, Aside, Generator, GenRead, GenSend, GenFinal, GenUp, GenSpin,
       GenExit, ClockTick, LoopHead, SchedRead, SchedDown, SchedSpin, SchedExit, Ended,
       schedHead, bodyVars, queueVars, tickVars
  <2>2. waited' = waited
    BY <1>3, <2>1 DEF TurnsNext, TickServed
  <2>3. QED
    BY <2>1, <2>2, WaitSame DEF WaitInv
<1>4. CASE UNCHANGED turnVars
  BY <1>4, WaitSame DEF turnVars, mainVars, bodyVars, queueVars, WaitInv
<1>5. QED
  BY <1>1, <1>2, <1>3, <1>4

LEMMA WaitTyped ==
  ASSUME waited \in [Procs -> Nat], [TurnsNext]_turnVars
  PROVE  waited' \in [Procs -> Nat]
BY DEF TurnsNext, turnVars

-----------------------------------------------------------------------------
(* How many processes fit into memory: each has a block of its own, of at  *)
(* least a byte unless it asks for none.                                   *)
WholeBytes == \A in \in Inputs : \A p \in Procs : in[p].memSize # 0

LeafInv == schedAlgorithm = "RR" => \A n \in Leaves(tree) : n.span >= 2

LEMMA CountFrom ==
  ASSUME NEW n \in Nat
  PROVE  /\ Cardinality(1 .. n) = n
         /\ IsFiniteSet(0 .. n - 1) /\ Cardinality(0 .. n - 1) = n
<1>1. Cardinality(1 .. n) = IF 1 > n THEN 0 ELSE n - 1 + 1
  BY 1 \in Int, n \in Int, FS_Interval
<1>2. n - 1 \in Int
  OBVIOUS
<1>3. /\ IsFiniteSet(0 .. n - 1)
      /\ Cardinality(0 .. n - 1) = IF 0 > n - 1 THEN 0 ELSE n - 1 - 0 + 1
  BY <1>2, 0 \in Int, FS_Interval
<1>4. /\ (IF 1 > n THEN 0 ELSE n - 1 + 1) = n
      /\ (IF 0 > n - 1 THEN 0 ELSE n - 1 - 0 + 1) = n
  OBVIOUS
<1>5. QED
  BY <1>1, <1>3, <1>4

(* A queue without repetitions is no longer than there are processes.      *)
LEMMA NoMoreThan ==
  ASSUME NEW q \in Seq(Procs), Distinct(q)
  PROVE  Len(q) <= N
<1>1. Len(q) \in Nat /\ \A i \in 1 .. Len(q) : q[i] \in Procs
  BY LenProperties
<1>2. [i \in 1 .. Len(q) |-> q[i]] \in Injection(1 .. Len(q), Procs)
  BY <1>1 DEF Injection, IsInjective, Distinct
<1>3. IsFiniteSet(Procs) /\ Cardinality(Procs) = N
  BY FS_Interval, TickAssumption DEF Procs
<1> PICK n \in Nat : n = Len(q)
  BY <1>1
<1>4. Cardinality(1 .. n) = n
  BY CountFrom
<1>5. QED
  BY <1>2, <1>3, <1>4, FS_Injection

(* Different leaves of a whole byte or more begin at different bytes.      *)
LEMMA LeafBytes ==
  ASSUME WellFormed(tree), \A n \in Leaves(tree) : n.span >= 2,
         NEW a \in Leaves(tree), NEW b \in Leaves(tree)
  PROVE  /\ startIndx(a) \in 0 .. MemorySize - 1
         /\ a # b => startIndx(a) # startIndx(b)
<1>1. /\ a \in Node /\ b \in Node /\ a.span >= 2 /\ b.span >= 2
      /\ Within(a, Root)
      /\ a # b => Apart(a, b)
  BY LeavesApart DEF WellFormed, Leaves
<1>2. PICK i, j, s, t, m : /\ i = a.pos /\ j = b.pos /\ s = a.span /\ t = b.span
                           /\ m = MemorySize
  OBVIOUS
<1>3. i \in Nat /\ j \in Nat /\ s \in Nat /\ t \in Nat /\ m \in Nat
  BY <1>1, <1>2, NodeFields, BuddyAssumption
<1>4. i + s <= 2 * m
  BY <1>1, <1>2, <1>3 DEF Within, Root
<1>5. a # b => i + s <= j \/ j + t <= i
  BY <1>1, <1>2 DEF Apart
<1>6. i \div 2 \in 0 .. m - 1 /\ (a # b => i \div 2 # j \div 2)
  BY <1>1, <1>2, <1>3, <1>4, <1>5
<1>7. QED
  BY <1>2, <1>6 DEF startIndx

(* So the queue of round robin is no longer than the memory has bytes.     *)
LEMMA RoundIsShort ==
  ASSUME CommonInv, RRInv, SafeInv, \A n \in Leaves(tree) : n.span >= 2
  PROVE  Len(RR_Queue) <= MemorySize
<1> DEFINE queue == RR_Queue
           start == [i \in 1 .. Len(queue) |-> startIndx(pcb[queue[i]].memoryNode)]
<1>1. /\ queue \in Seq(Procs) /\ Len(queue) \in Nat
      /\ \A i \in 1 .. Len(queue) : InQueue(queue[i])
  BY OnlyQueue
<1>2. Distinct(queue) /\ WellFormed(tree)
  BY LevelAssumption DEF SafeInv, ListsInv, Singly, RR_Queue, Levels, CommonInv, DataInv
<1> HIDE DEF queue
<1>3. \A i \in 1 .. Len(queue) : queue[i] \in Admitted
  BY <1>1 DEF Admitted
<1>4. /\ \A i \in 1 .. Len(queue) : pcb[queue[i]].memoryNode \in Leaves(tree)
      /\ \A i, j \in 1 .. Len(queue) :
           pcb[queue[i]].memoryNode = pcb[queue[j]].memoryNode => i = j
  BY <1>2, <1>3 DEF SafeInv, MemoryInv, AdmittedHoldMemory, Distinct
<1>5. start \in Injection(1 .. Len(queue), 0 .. MemorySize - 1)
  BY <1>2, <1>4, LeafBytes DEF Injection, IsInjective
<1> PICK n \in Nat, m \in Nat : n = Len(queue) /\ m = MemorySize
  BY <1>1, BuddyAssumption
<1>6. /\ Cardinality(1 .. n) = n
      /\ IsFiniteSet(0 .. m - 1) /\ Cardinality(0 .. m - 1) = m
  BY CountFrom
<1>7. QED
  BY <1>5, <1>6, FS_Injection DEF queue

LEMMA LeafStep ==
  ASSUME WholeBytes, UsualInv, LeafInv, [MainNext]_mainVars
  PROVE  LeafInv'
<1>1. SUFFICES ASSUME schedAlgorithm = "RR", schedAlgorithm' = "RR"
               PROVE  \A n \in Leaves(tree)' : n.span >= 2
  BY DEF LeafInv, MainNext, Body, Aside, mainVars
<1>2. WellFormed(tree) /\ \A n \in Leaves(tree) : n.span >= 2
  BY <1>1 DEF UsualInv, CommonInv, DataInv, LeafInv
<1>3. ASSUME NEW p \in Procs, NEW r \in Allocate(tree, input[p].memSize), tree' = r.tree
      PROVE  \A n \in Leaves(tree)' : n.span >= 2
  <2>1. input[p].memSize \in Nat \ {0}
    BY FileAssumption DEF WholeBytes, UsualInv, CommonInv, TickTyped
  <2>2. Leaves(tree') = Leaves(tree) \cup {r.block} /\ r.block.span \in BlockSpan(input[p].memSize)
    BY <1>2, <1>3, <2>1, AllocateCorrect
  <2>3. r.block.span >= 2
    <3>1. PICK size \in Nat \ {0}, span \in Nat : /\ size = input[p].memSize
                                                  /\ span = r.block.span
                                                  /\ 2 * size <= span
      BY <2>1, <2>2, BuddyAssumption DEF BlockSpan
    <3>2. QED
      BY <3>1
  <2>4. QED
    BY <1>2, <2>2, <2>3
<1>4. ASSUME NEW b, tree' = Deallocate(tree, b)
      PROVE  \A n \in Leaves(tree)' : n.span >= 2
  BY <1>2, <1>4, DeallocateCorrect
<1>5. CASE RRBody
  <2>1. CASE \E queues, takes : ReceiveAdmit(queues, takes)
    <3>1. msgq # <<>> /\ \E r \in Allocate(tree, input[New].memSize) : tree' = r.tree
      BY <2>1 DEF ReceiveAdmit, SchedTake
    <3>2. New \in Procs
      BY <3>1, DequeueTakes DEF New, UsualInv, CommonInv, TickTyped
    <3>3. QED
      BY <1>3, <3>1, <3>2
  <2>2. CASE \E queues : ScanAdmit(queues)
    <3>1. ptr # <<>> /\ \E r \in Allocate(tree, input[Head(ptr)].memSize) : tree' = r.tree
      BY <2>2 DEF ScanAdmit
    <3>2. Head(ptr) \in Procs
      BY <3>1, DequeueTakes DEF UsualInv, CommonInv, DataInv, DataTyped
    <3>3. QED
      BY <1>3, <3>1, <3>2
  <2>3. CASE \E queues : Finish(queues)
    BY <1>4, <2>3 DEF Finish
  <2>4. CASE tree' = tree
    BY <1>2, <2>4
  <2>5. QED
    BY <1>5, <2>1, <2>2, <2>3, <2>4 DEF RRBody, RRReceive, RRDispatch, RRScan, ReceiveTooBig,
       ReceiveNoRoom, ReceiveDone, Return, Idle, Continue, ScanSkip, PickNobody, Pick, Rotate,
       KeepCPU, RRCharge, Charge, bodyVars
<1>6. CASE tree' = tree
  BY <1>2, <1>6
<1>7. QED
  BY <1>1, <1>5, <1>6 DEF MainNext, Body, Aside, mainVars, bodyVars

(* Round robin starves nobody.  A process that asks for no byte at all     *)
(* still gets a node of the tree, so that more of them than there are      *)
(* bytes could be admitted; the bound is then that of the input file.      *)
THEOREM WaitHolds ==
  ASSUME WholeBytes \/ N <= MemorySize
  PROVE  TurnsSafety /\ []ScanTakesFront => []BoundedWait
<1> DEFINE Typed == waited \in [Procs -> Nat]
           Leaf == WholeBytes => LeafInv
           Room == schedAlgorithm = "RR" => RoundFits
<1>1. TurnsInit => /\ Typed /\ Leaf /\ TurnInv /\ WaitInv
  <2>1. SUFFICES ASSUME TurnsInit PROVE Typed /\ Leaf /\ TurnInv /\ WaitInv
    OBVIOUS
  <2>2. /\ waited = [p \in Procs |-> 0] /\ turn = 0 /\ tree = {} /\ quantum_passed = 0
        /\ RR_Queue = <<>>
    BY <2>1, LevelAssumption DEF TurnsInit, MainInit, BodyInit, RR_Queue, Levels
  <2>3. 0 = 0 * quantum + 0 /\ Allowed(1) \in Nat
    BY QuantumAssumption, AllowedFacts
  <2>4. Len(RR_Queue) = 0
    BY <2>2
  <2>5. QED
    BY <2>2, <2>3, <2>4 DEF TurnInv, WaitInv, LeafInv, Leaves
<1>2. Typed /\ [TurnsNext]_turnVars => Typed'
  BY WaitTyped
<1>3. UsualInv /\ Leaf /\ [TurnsNext]_turnVars => Leaf'
  BY TurnsMain, LeafStep
<1>4. UsualInv /\ TurnInv /\ [TurnsNext]_turnVars => TurnInv'
  BY TurnStep
<1>5. UsualInv /\ SafeInv /\ Leaf => Room
  <2>1. SUFFICES ASSUME UsualInv, SafeInv, Leaf, schedAlgorithm = "RR"
                 PROVE  RoundFits
    OBVIOUS
  <2>2. CommonInv /\ RRInv
    BY <2>1 DEF UsualInv
  <2>3. RR_Queue \in Seq(Procs) /\ Distinct(RR_Queue) /\ Len(RR_Queue) \in Nat
    BY <2>1, <2>2, OnlyQueue, LevelAssumption DEF SafeInv, ListsInv, Singly, RR_Queue, Levels
  <2>4. Len(RR_Queue) <= N
    BY <2>3, NoMoreThan
  <2>5. Len(RR_Queue) <= MemorySize
    <3>1. CASE WholeBytes
      BY <2>1, <2>2, <3>1, RoundIsShort DEF LeafInv
    <3>2. CASE N <= MemorySize
      BY <2>3, <2>4, <3>2, TickAssumption, BuddyAssumption
    <3>3. QED
      BY <3>1, <3>2
  <2>6. QED
    BY <2>4, <2>5, AllowedFacts DEF RoundFits
<1>6. /\ UsualInv /\ UsualInv' /\ SafeInv /\ TurnInv /\ Typed /\ WaitInv /\ Room /\ Room'
      /\ [TurnsNext]_turnVars
      => WaitInv'
  <2>1. SUFFICES ASSUME UsualInv, UsualInv', SafeInv, TurnInv, Typed, WaitInv, Room, Room',
                        [TurnsNext]_turnVars
                 PROVE  WaitInv'
    OBVIOUS
  <2>2. schedAlgorithm' = schedAlgorithm
    BY <2>1 DEF TurnsNext, MainNext, Body, Aside, turnVars, mainVars
  <2>3. QED
    BY <2>1, <2>2, WaitStep
<1>7. WaitInv => BoundedWait
  BY DEF WaitInv, BoundedWait, Allowed
<1> HIDE DEF Typed, Leaf, Room
<1>8. QED
  BY <1>1, <1>2, <1>3, <1>4, <1>5, <1>6, <1>7, TurnsUsual, UsualInvHolds, SafeInvHolds, PTL
     DEF TurnsSafety

(* With sizes in order, which is one block size for all under round robin, *)
(* without that hypothesis.                                                *)
THEOREM WaitInOrder ==
  ASSUME SizesInOrder, WholeBytes \/ N <= MemorySize
  PROVE  TurnsSafety => []BoundedWait
BY TurnsUsual, FrontInOrder, WaitHolds, PTL

=============================================================================
