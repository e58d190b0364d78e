-------------------------- MODULE SchedulerMainProofs --------------------------
(***************************************************************************)
(* What holds of the whole program whatever the input file, the speed of   *)
(* the clock and the algorithm, even when a process is lost by the scan of *)
(* the memory buffer.                                                      *)
(* First what the steps that the algorithms share keep: the types, the     *)
(* shape of the buddy tree, and the counters on which the return depends,  *)
(* and that each of them is, seen from outside, a step of a tick server.   *)
(* Then the algorithms, one after the other.                               *)
(***************************************************************************)
EXTENDS SchedulerMain, DataStructureProofs, FiniteSetTheorems, TLAPS

Served == INSTANCE TickServerProofs
  WITH received <- Received,
       schedPc  <- IF schedPc \in HeadPcs THEN schedPc ELSE "work"

Rejected == {p \in Received : TooBig(p)}
Accepted == {p \in Received : ~TooBig(p)}

Listed(p) ==
  \/ InQueue(p) \/ p = currentPCB
  \/ Contains(Memory_Buffer, p) \/ Contains(ptr, p) \/ Contains(finishedProcesses, p)

(* What is in a list or on the CPU has been received and not rejected.     *)
OnlyReceived == \A p \in Procs : Listed(p) => p \in Accepted

(* What the two counters say, and why the scan, which takes the front out  *)
(* of the memory buffer for every process it admits, never finds it empty. *)
Counted ==
  /\ process_count = N - Cardinality(Rejected)
  /\ current_process_count + Len(Memory_Buffer) = Cardinality(Accepted)
  /\ schedPc = "scan" => Len(ptr) <= Len(Memory_Buffer)

TickTyped ==
  /\ input \in Inputs
  /\ clk \in 0 .. MaxClk /\ genClk \in 0 .. clk /\ currClk \in 0 .. clk
  /\ sem \in Nat
  /\ msgq \in Seq(Procs)
  /\ genPc \in GenPcs /\ schedPc \in SchedPcs
  /\ genNext \in 1 .. N + 1 /\ processes_sent \in 0 .. N

DataTyped ==
  /\ pcb \in [Procs -> PCB]
  /\ ready \in [Levels -> Seq(Procs)]
  /\ Memory_Buffer \in Seq(Procs) /\ finishedProcesses \in Seq(Procs) /\ ptr \in Seq(Procs)
  /\ currentPCB \in Procs \cup {NULL}
  /\ current_process_count \in Nat
  /\ idle_cycles \in Nat /\ total_cycles \in Nat

(* What every algorithm keeps of the scheduler's own data ...              *)
DataInv ==
  /\ DataTyped
  /\ WellFormed(tree)
  /\ OnlyReceived
  /\ Counted
  /\ schedPc = "scan" => currentPCB = NULL

(* ... and of the rest.                                                    *)
CommonInv == TickTyped /\ DataInv /\ Served!SentInv

-----------------------------------------------------------------------------
(* The received processes are finitely many, and all if they are N.        *)
LEMMA FinitelyMany ==
  ASSUME DataTyped
  PROVE  /\ IsFiniteSet(Received) /\ IsFiniteSet(Rejected) /\ IsFiniteSet(Accepted)
         /\ Cardinality(Rejected) \in Nat /\ Cardinality(Accepted) \in Nat
         /\ Cardinality(Rejected) + Cardinality(Accepted) = Cardinality(Received)
         /\ Cardinality(Received) <= N
         /\ Cardinality(Received) = N => Received = Procs
<1>1. IsFiniteSet(Procs) /\ Cardinality(Procs) = N
  BY FS_Interval, TickAssumption DEF Procs
<1>2. Received \in SUBSET Procs
  BY DEF Received
<1>3. IsFiniteSet(Received) /\ Cardinality(Received) <= N
      /\ (Cardinality(Received) = N => Received = Procs)
  BY <1>1, <1>2, FS_Subset
<1>4. Rejected \in SUBSET Received /\ Accepted \in SUBSET Received
  BY DEF Rejected, Accepted
<1>5. IsFiniteSet(Rejected) /\ IsFiniteSet(Accepted)
  BY <1>3, <1>4, FS_Subset
<1>6. Cardinality(Rejected) \in Nat /\ Cardinality(Accepted) \in Nat
  BY <1>5, FS_CardinalityType
<1>7. Rejected \cup Accepted = Received /\ Rejected \cap Accepted = {}
  BY DEF Rejected, Accepted
<1>8. Cardinality(Rejected \cap Accepted) = 0
  BY <1>7, FS_EmptySet
<1>9. Cardinality(Rejected \cup Accepted)
        = Cardinality(Rejected) + Cardinality(Accepted) - Cardinality(Rejected \cap Accepted)
  BY <1>5, FS_Union
<1>10. Cardinality(Received)
         = Cardinality(Rejected) + Cardinality(Accepted) - Cardinality(Rejected \cap Accepted)
  BY <1>7, <1>9
<1>11. Cardinality(Rejected) + Cardinality(Accepted) = Cardinality(Received)
  BY <1>6, <1>8, <1>10
<1>12. QED
  BY <1>3, <1>5, <1>6, <1>11

(* The counters stay within their ranges, and are equal only if every      *)
(* process of the file has been received and none waits for memory.        *)
LEMMA CountersInRange ==
  ASSUME DataTyped, Counted
  PROVE  /\ process_count \in 0 .. N /\ current_process_count \in 0 .. N
         /\ process_count = current_process_count
              => Received = Procs /\ Memory_Buffer = <<>>
<1>1. /\ Cardinality(Rejected) \in Nat /\ Cardinality(Accepted) \in Nat
      /\ Cardinality(Rejected) + Cardinality(Accepted) = Cardinality(Received)
      /\ Cardinality(Received) <= N
      /\ Cardinality(Received) = N => Received = Procs
  BY FinitelyMany
<1>2. Len(Memory_Buffer) \in Nat /\ (Len(Memory_Buffer) = 0 => Memory_Buffer = <<>>)
  BY LenProperties, EmptySeq DEF DataTyped
<1>3. QED
  BY <1>1, <1>2, TickAssumption DEF Counted, DataTyped

(* What is between the start and the end of an iteration's own work is     *)
(* seen from outside as one label.                                         *)
LEMMA TypesTogether ==
  ASSUME CommonInv
  PROVE  BodyTypeOK
<1>1. process_count \in 0 .. N /\ current_process_count \in 0 .. N
  BY CountersInRange DEF CommonInv, DataInv
<1>2. tree \subseteq Node
  BY DEF CommonInv, DataInv, WellFormed
<1>3. QED
  BY <1>1, <1>2 DEF CommonInv, DataInv, DataTyped, TickTyped, BodyTypeOK

-----------------------------------------------------------------------------
(* What the operators on process control blocks do: p is in the state      *)
(* given, has as much left to run as before, and nobody else is concerned. *)
Changes(old, new, p, state) ==
  /\ new \in [Procs -> PCB]
  /\ \A q \in Procs \ {p} : new[q] = old[q]
  /\ new[p].state = state
  /\ new[p].remainingTime = old[p].remainingTime

(* saveProcessState.                                                       *)
LEMMA SaveFacts ==
  ASSUME NEW pcbs \in [Procs -> PCB], NEW p \in Procs,
         NEW state \in States, NEW time \in Nat
  PROVE  LET new == saveProcessState(pcbs, p, state, time)
         IN /\ Changes(pcbs, new, p, state)
            /\ new[p].startTime = pcbs[p].startTime
            /\ new[p].memoryNode = pcbs[p].memoryNode
            /\ new[p].finishTime = time
BY DEF saveProcessState, Changes, PCB

(* A process that is received is Ready.                                    *)
LEMMA ReceiveFacts ==
  ASSUME NEW pcbs \in [Procs -> PCB], NEW p \in Procs
  PROVE  Changes(pcbs, Receive(pcbs, p), p, "Ready")
BY DEF Receive, Changes, PCB, States

(* One that is admitted is Ready and has its block.                        *)
LEMMA AdmitFacts ==
  ASSUME NEW pcbs \in [Procs -> PCB], NEW p \in Procs, NEW block \in Node
  PROVE  LET new == Admit(pcbs, p, block)
         IN /\ Changes(pcbs, new, p, "Ready")
            /\ new[p].startTime = pcbs[p].startTime
            /\ new[p].finishTime = 0
            /\ new[p].memoryNode = block
<1> DEFINE given == [pcbs EXCEPT ![p].memoryNode = block]
<1>1. /\ given \in [Procs -> PCB]
      /\ \A q \in Procs \ {p} : given[q] = pcbs[q]
      /\ given[p].remainingTime = pcbs[p].remainingTime
      /\ given[p].startTime = pcbs[p].startTime
      /\ given[p].memoryNode = block
  BY DEF PCB
<1> HIDE DEF given
<1>2. LET new == saveProcessState(given, p, "Ready", 0)
      IN /\ Changes(given, new, p, "Ready")
         /\ new[p].startTime = given[p].startTime
         /\ new[p].finishTime = 0
         /\ new[p].memoryNode = given[p].memoryNode
  BY <1>1, SaveFacts DEF States
<1>3. Admit(pcbs, p, block) = saveProcessState(given, p, "Ready", 0)
  BY DEF Admit, given
<1>4. QED
  BY <1>1, <1>2, <1>3 DEF Changes

(* One that is started runs from the current tick on.                      *)
LEMMA StartFacts ==
  ASSUME NEW pcbs \in [Procs -> PCB], NEW p \in Procs, currClk \in Nat
  PROVE  LET new == Start(pcbs, p)
         IN /\ Changes(pcbs, new, p, "Running")
            /\ new[p].startTime = currClk
            /\ new[p].finishTime = 0
            /\ new[p].memoryNode = pcbs[p].memoryNode
<1> DEFINE saved == saveProcessState(pcbs, p, "Running", 0)
<1>1. /\ Changes(pcbs, saved, p, "Running")
      /\ saved[p].finishTime = 0
      /\ saved[p].memoryNode = pcbs[p].memoryNode
  BY SaveFacts DEF States
<1> HIDE DEF saved
<1>2. Start(pcbs, p) = [saved EXCEPT ![p].startTime = currClk]
  BY DEF Start, saved
<1>3. QED
  BY <1>1, <1>2 DEF Changes, PCB

(* One that is resumed keeps its startTime.                                *)
LEMMA ResumeFacts ==
  ASSUME NEW pcbs \in [Procs -> PCB], NEW p \in Procs
  PROVE  LET new == Resume(pcbs, p)
         IN /\ Changes(pcbs, new, p, "Running")
            /\ new[p].startTime = pcbs[p].startTime
            /\ new[p].memoryNode = pcbs[p].memoryNode
BY SaveFacts DEF Resume, States

(* So does one that is stopped.                                            *)
LEMMA StopFacts ==
  ASSUME NEW pcbs \in [Procs -> PCB], NEW p \in Procs
  PROVE  LET new == Stop(pcbs, p)
         IN /\ Changes(pcbs, new, p, "Blocked")
            /\ new[p].startTime = pcbs[p].startTime
            /\ new[p].memoryNode = pcbs[p].memoryNode
BY SaveFacts DEF Stop, States

-----------------------------------------------------------------------------
(* Seen from outside.                                                      *)

(* A step that is one of the tick server's, or a stutter, keeps what       *)
(* TickServerProofs shows of it.                                           *)
LEMMA ViewKeeps ==
  ASSUME Served!SentInv, [Served!ServerNext]_Served!serverVars
  PROVE  Served!SentInv'
BY Served!SentStep, TickAssumption DEF Procs, Served!Procs

(* A step that leaves clock and generator alone keeps their types.         *)
LEMMA TicksKept ==
  ASSUME TickTyped, UNCHANGED <<clkVars, sem, genVars, currClk>>,
         msgq' \in Seq(Procs), schedPc' \in SchedPcs
  PROVE  TickTyped'
BY DEF TickTyped, clkVars, genVars

(* The labels between the start and the end of an iteration's own work.    *)
WorkPcs == SchedPcs \ HeadPcs

(* Which labels those are.                                                 *)
LEMMA Labels ==
  /\ WorkPcs = {"dispatch", "scan", "quantum", "run", "refill", "broken"}
  /\ HeadPcs \subseteq SchedPcs /\ "work" \notin HeadPcs
BY DEF WorkPcs, SchedPcs, HeadPcs

(* A step of an iteration's own work that receives nobody: nothing happens *)
(* as seen from outside, or the work is done.                              *)
LEMMA WorksOn ==
  ASSUME CommonInv, schedPc \in WorkPcs, schedPc' \in WorkPcs \cup {"spin"},
         UNCHANGED <<clkVars, sem, msgq, genVars, currClk>>, Received' = Received
  PROVE  /\ [Served!ServerNext]_Served!serverVars
         /\ TickTyped' /\ Served!SentInv'
<1>1. TickTyped'
  <2>1. schedPc' \in SchedPcs
    BY Labels DEF WorkPcs, SchedPcs, HeadPcs
  <2>2. TickTyped /\ msgq' \in Seq(Procs)
    BY DEF CommonInv, TickTyped
  <2>3. QED
    BY <2>1, <2>2, TicksKept
<1>2. CASE schedPc' = "spin"
  <2>1. Served!Work
    BY <1>2, Labels DEF WorkPcs, HeadPcs, Served!Work, Served!SchedTo, Served!clkVars, Served!genVars,
       clkVars, genVars
  <2>2. QED
    BY <1>1, <2>1, ViewKeeps DEF CommonInv, Served!ServerNext, Served!Server
<1>3. CASE schedPc' \in WorkPcs
  <2>1. UNCHANGED Served!serverVars
    BY <1>3 DEF WorkPcs, Served!serverVars, Served!tickVars, Served!clkVars,
       Served!genVars, Served!schedHead, clkVars, genVars
  <2>2. QED
    BY <1>1, <2>1, ViewKeeps DEF CommonInv
<1>4. QED
  BY <1>2, <1>3

(* The front of the message queue is received: it was not before, and      *)
(* nobody else is.                                                         *)
LEMMA TakesNew ==
  ASSUME CommonInv, SchedTake, pcb' \in [Procs -> PCB], pcb'[New].state # "none",
         \A q \in Procs \ {New} : pcb'[q].state = "none" <=> pcb[q].state = "none"
  PROVE  /\ New \in Procs /\ New \notin Received
         /\ Received' = Received \cup {New}
         /\ Served!Take
         /\ TickTyped' /\ Served!SentInv'
         /\ IF TooBig(New)
            THEN /\ Rejected' = Rejected \cup {New} /\ Accepted' = Accepted
                 /\ Cardinality(Rejected') = Cardinality(Rejected) + 1
            ELSE /\ Rejected' = Rejected /\ Accepted' = Accepted \cup {New}
                 /\ Cardinality(Accepted') = Cardinality(Accepted) + 1
<1>1. /\ schedPc = "receive" /\ msgq # <<>> /\ msgq' = Tail(msgq)
      /\ UNCHANGED <<clkVars, sem, genVars, schedPc, currClk>>
  BY DEF SchedTake, schedHead
<1>2. /\ msgq \in Seq(Procs) /\ msgq' \in Seq(Procs) /\ Head(msgq) = msgq[1]
      /\ 1 \in DOMAIN msgq /\ New \in Procs
  BY <1>1 DEF CommonInv, TickTyped, New
<1>3. New \notin Received
  BY <1>2 DEF CommonInv, Served!SentInv, Served!SentOnce, New
<1>4. Received' = Received \cup {New}
  BY <1>2 DEF Received
<1>5. Served!Take
  BY <1>1, <1>4, Labels DEF HeadPcs, Served!Take, Served!SchedTake, Served!clkVars, Served!genVars,
     Served!schedHead, clkVars, genVars, New
<1>6. Served!SentInv'
  BY <1>5, ViewKeeps DEF CommonInv, Served!ServerNext, Served!Server
<1>7. TickTyped'
  BY <1>1, <1>2, TicksKept DEF CommonInv, TickTyped
<1>8. \A p : TooBig(p)' <=> TooBig(p)
  BY <1>1 DEF TooBig, clkVars
<1>9. IsFiniteSet(Rejected) /\ IsFiniteSet(Accepted)
  BY FinitelyMany DEF CommonInv, DataInv
<1>10. CASE TooBig(New)
  <2>1. Rejected' = Rejected \cup {New} /\ Accepted' = Accepted /\ New \notin Rejected
    BY <1>3, <1>4, <1>8, <1>10 DEF Rejected, Accepted
  <2>2. Cardinality(Rejected \cup {New}) = Cardinality(Rejected) + 1
    BY <1>9, <2>1, FS_AddElement
  <2>3. QED
    BY <1>2, <1>3, <1>4, <1>5, <1>6, <1>7, <1>10, <2>1, <2>2
<1>11. CASE ~TooBig(New)
  <2>1. Accepted' = Accepted \cup {New} /\ Rejected' = Rejected /\ New \notin Accepted
    BY <1>3, <1>4, <1>8, <1>11 DEF Rejected, Accepted
  <2>2. Cardinality(Accepted \cup {New}) = Cardinality(Accepted) + 1
    BY <1>9, <2>1, FS_AddElement
  <2>3. QED
    BY <1>2, <1>3, <1>4, <1>5, <1>6, <1>7, <1>11, <2>1, <2>2
<1>12. QED
  BY <1>10, <1>11

-----------------------------------------------------------------------------
(* The levels of a queue.                                                  *)

Queues == [Levels -> Seq(Procs)]

InLevels(levels, p) == \E l \in Levels : Contains(levels[l], p)

(* new is old with p put into one of the levels.                           *)
Enters(old, new, p) ==
  /\ new \in Queues
  /\ \E l \in Levels : /\ PutIn(old[l], new[l], p)
                       /\ \A k \in Levels \ {l} : new[k] = old[k]

(* Who is in a level then.                                                 *)
LEMMA EntersFacts ==
  ASSUME NEW old \in Queues, NEW new, NEW p \in Procs, Enters(old, new, p)
  PROVE  \A q : InLevels(new, q) <=> InLevels(old, q) \/ q = p
<1>1. PICK l \in Levels : /\ PutIn(old[l], new[l], p)
                          /\ \A k \in Levels \ {l} : new[k] = old[k]
  BY DEF Enters
<1>2. old[l] \in Seq(Procs) /\ new[l] \in Seq(Procs)
  BY DEF Enters, Queues
<1>3. \A q : Contains(new[l], q) <=> Contains(old[l], q) \/ q = p
  BY <1>1, <1>2, PutInFacts
<1>4. QED
  BY <1>1, <1>3 DEF InLevels

-----------------------------------------------------------------------------
(* The steps that receive.                                                 *)

(* One that asks for more memory than there is: process_count is one less, *)
(* as is due.                                                              *)
LEMMA TooBigKeeps ==
  ASSUME CommonInv, ReceiveTooBig
  PROVE  CommonInv' /\ Served!Take
<1>1. /\ SchedTake /\ pcb' = Receive(pcb, New) /\ process_count' = process_count - 1
      /\ UNCHANGED <<input, tree, ready, Memory_Buffer, finishedProcesses, currentPCB,
                     current_process_count, ptr, idle_cycles, total_cycles, schedPc>>
      /\ schedPc = "receive" /\ TooBig(New) \in BOOLEAN
  BY DEF ReceiveTooBig, queueVars, cycleVars, SchedTake, schedHead, clkVars, TooBig
<1>2. msgq \in Seq(Procs) /\ msgq # <<>> /\ New \in Procs
  BY <1>1 DEF CommonInv, TickTyped, SchedTake, New
<1>3. TooBig(New)
  BY DEF ReceiveTooBig, TooBig
<1>4. Changes(pcb, pcb', New, "Ready")
  BY <1>1, <1>2, ReceiveFacts DEF CommonInv, DataInv, DataTyped
<1>5. /\ Rejected' = Rejected \cup {New} /\ Accepted' = Accepted
      /\ Cardinality(Rejected') = Cardinality(Rejected) + 1
      /\ Served!Take /\ TickTyped' /\ Served!SentInv'
  BY <1>1, <1>3, <1>4, TakesNew DEF Changes
<1>6. DataTyped'
  BY <1>1, <1>4 DEF CommonInv, DataInv, DataTyped, Changes
<1>7. OnlyReceived'
  BY <1>1, <1>5 DEF CommonInv, DataInv, OnlyReceived, Listed, InQueue
<1>8. Counted'
  <2>1. Cardinality(Rejected) \in Nat
    BY FinitelyMany DEF CommonInv, DataInv
  <2>2. QED
    BY <1>1, <1>5, <2>1, TickAssumption DEF CommonInv, DataInv, Counted
<1>9. QED
  BY <1>1, <1>5, <1>6, <1>7, <1>8 DEF CommonInv, DataInv

(* One that has to wait for memory.                                        *)
LEMMA NoRoomKeeps ==
  ASSUME CommonInv, NEW key \in [Procs -> Int], ReceiveNoRoom(key)
  PROVE  CommonInv' /\ Served!Take
<1>1. /\ SchedTake /\ pcb' = Receive(pcb, New)
      /\ Memory_Buffer' = enqueuePriority(Memory_Buffer, New, key)
      /\ UNCHANGED <<input, tree, ready, finishedProcesses, currentPCB, process_count,
                     current_process_count, ptr, idle_cycles, total_cycles, schedPc>>
      /\ schedPc = "receive"
  BY DEF ReceiveNoRoom, cycleVars, countVars, SchedTake, schedHead, clkVars
<1>2. msgq \in Seq(Procs) /\ msgq # <<>> /\ New \in Procs
  BY <1>1 DEF CommonInv, TickTyped, SchedTake, New
<1>3. ~TooBig(New)
  <2>1. input[New].memSize \in Nat
    BY <1>2, FileAssumption DEF CommonInv, TickTyped
  <2>2. QED
    BY <2>1, BuddyAssumption DEF ReceiveNoRoom, TooBig
<1>4. Changes(pcb, pcb', New, "Ready")
  BY <1>1, <1>2, ReceiveFacts DEF CommonInv, DataInv, DataTyped
<1>5. /\ Rejected' = Rejected /\ Accepted' = Accepted \cup {New}
      /\ Cardinality(Accepted') = Cardinality(Accepted) + 1
      /\ Served!Take /\ TickTyped' /\ Served!SentInv'
  BY <1>1, <1>3, <1>4, TakesNew DEF Changes
<1>6. Memory_Buffer \in Seq(Procs) /\ Len(Memory_Buffer) \in Nat
  BY DEF CommonInv, DataInv, DataTyped
<1>7. Memory_Buffer' \in Seq(Procs) /\ PutIn(Memory_Buffer, Memory_Buffer', New)
  BY <1>1, <1>2, <1>6, EnqueuePriorityPuts
<1>8. /\ Len(Memory_Buffer') = Len(Memory_Buffer) + 1
      /\ \A q : Contains(Memory_Buffer', q) <=> Contains(Memory_Buffer, q) \/ q = New
  BY <1>2, <1>6, <1>7, PutInFacts
<1>9. DataTyped'
  BY <1>1, <1>4, <1>7 DEF CommonInv, DataInv, DataTyped, Changes
<1>10. OnlyReceived'
  BY <1>1, <1>5, <1>8 DEF CommonInv, DataInv, OnlyReceived, Listed, InQueue
<1>11. Counted'
  <2>1. Cardinality(Accepted) \in Nat /\ current_process_count \in Nat
    BY FinitelyMany DEF CommonInv, DataInv, DataTyped
  <2>2. QED
    BY <1>1, <1>5, <1>6, <1>8, <2>1 DEF CommonInv, DataInv, Counted
<1>12. QED
  BY <1>1, <1>5, <1>9, <1>10, <1>11 DEF CommonInv, DataInv

(* The new process and, if it gets the CPU, the one that had it.           *)
LEMMA AdmitPcbs ==
  ASSUME CommonInv, NEW queues, NEW takesCPU \in BOOLEAN, ReceiveAdmit(queues, takesCPU)
  PROVE  /\ New \in Procs /\ New # currentPCB
         /\ pcb' \in [Procs -> PCB]
         /\ WellFormed(tree')
         /\ pcb'[New].state = IF takesCPU THEN "Running" ELSE "Ready"
         /\ pcb'[New].remainingTime = pcb[New].remainingTime
         /\ takesCPU => pcb'[New].startTime = currClk
         /\ \A q \in Procs \ {New} :
              IF takesCPU /\ q = currentPCB
              THEN /\ pcb'[q].state = "Blocked"
                   /\ pcb'[q].remainingTime = pcb[q].remainingTime
                   /\ pcb'[q].startTime = pcb[q].startTime
                   /\ pcb'[q].memoryNode = pcb[q].memoryNode
              ELSE pcb'[q] = pcb[q]
         /\ \E r \in Allocate(tree, input[New].memSize) :
              tree' = r.tree /\ pcb'[New].memoryNode = r.block
<1>1. /\ New \in Procs /\ input[New].memSize \in Nat /\ currClk \in Nat
      /\ pcb \in [Procs -> PCB] /\ currentPCB \in Procs \cup {NULL}
      /\ WellFormed(tree)
  <2>1. SchedTake /\ input \in Inputs /\ msgq \in Seq(Procs)
    BY DEF CommonInv, TickTyped, ReceiveAdmit
  <2>2. New \in Procs
    BY <2>1 DEF SchedTake, New
  <2>3. QED
    BY <2>1, <2>2, FileAssumption DEF CommonInv, TickTyped, DataInv, DataTyped
<1>2. New # currentPCB
  <2>1. New \notin Received
    <3>1. msgq # <<>> /\ msgq \in Seq(Procs)
      BY DEF ReceiveAdmit, SchedTake, CommonInv, TickTyped
    <3>2. 1 \in DOMAIN msgq /\ New = msgq[1]
      BY <3>1 DEF New
    <3>3. QED
      BY <3>2 DEF CommonInv, Served!SentInv, Served!SentOnce
  <2>2. QED
    BY <1>1, <2>1 DEF CommonInv, DataInv, OnlyReceived, Listed, Accepted
<1>3. PICK r \in Allocate(tree, input[New].memSize) :
        /\ tree' = r.tree
        /\ LET admitted == Admit(pcb, New, r.block)
               stopped  == IF currentPCB = NULL THEN admitted ELSE Stop(admitted, currentPCB)
           IN pcb' = IF takesCPU THEN Start(stopped, New) ELSE admitted
  BY DEF ReceiveAdmit
<1>4. r.block \in Node /\ WellFormed(r.tree)
  BY <1>1, AllocateCorrect
<1> DEFINE admitted == Admit(pcb, New, r.block)
           stopped  == IF currentPCB = NULL THEN admitted ELSE Stop(admitted, currentPCB)
<1>5. /\ Changes(pcb, admitted, New, "Ready")
      /\ admitted[New].memoryNode = r.block
  BY <1>1, <1>4, AdmitFacts
<1> HIDE DEF admitted
<1>6. CASE ~takesCPU
  <2>1. pcb' = admitted
    BY <1>3, <1>6 DEF admitted
  <2>2. QED
    BY <1>1, <1>2, <1>3, <1>4, <1>5, <1>6, <2>1 DEF Changes
<1>7. CASE takesCPU
  <2>1. /\ stopped \in [Procs -> PCB]
        /\ \A q \in Procs \ {currentPCB} : stopped[q] = admitted[q]
        /\ currentPCB # NULL =>
             /\ stopped[currentPCB].state = "Blocked"
             /\ stopped[currentPCB].remainingTime = admitted[currentPCB].remainingTime
             /\ stopped[currentPCB].startTime = admitted[currentPCB].startTime
             /\ stopped[currentPCB].memoryNode = admitted[currentPCB].memoryNode
    <3>1. CASE currentPCB = NULL
      BY <1>5, <3>1 DEF Changes
    <3>2. CASE currentPCB # NULL
      <4>1. currentPCB \in Procs /\ stopped = Stop(admitted, currentPCB)
        BY <1>1, <3>2
      <4>2. admitted \in [Procs -> PCB]
        BY <1>5 DEF Changes
      <4> HIDE DEF stopped
      <4>3. QED
        BY <4>1, <4>2, StopFacts DEF Changes
    <3>3. QED
      BY <3>1, <3>2
  <2>2. pcb' = Start(stopped, New)
    BY <1>3, <1>7 DEF admitted
  <2> HIDE DEF stopped
  <2>3. /\ Changes(stopped, pcb', New, "Running") /\ pcb'[New].startTime = currClk
        /\ pcb'[New].memoryNode = stopped[New].memoryNode
    BY <1>1, <2>1, <2>2, StartFacts
  <2>4. stopped[New] = admitted[New]
    BY <1>1, <1>2, <2>1
  <2>5. ASSUME NEW q \in Procs \ {New}
        PROVE  IF takesCPU /\ q = currentPCB
               THEN /\ pcb'[q].state = "Blocked"
                    /\ pcb'[q].remainingTime = pcb[q].remainingTime
                    /\ pcb'[q].startTime = pcb[q].startTime
                    /\ pcb'[q].memoryNode = pcb[q].memoryNode
               ELSE pcb'[q] = pcb[q]
    <3>1. pcb'[q] = stopped[q] /\ admitted[q] = pcb[q] /\ q # NULL
      BY <1>5, <2>3, NullAssumption DEF Changes
    <3>2. QED
      BY <1>7, <2>1, <3>1
  <2>6. pcb'[New].memoryNode = r.block /\ pcb'[New].remainingTime = pcb[New].remainingTime
    BY <1>5, <2>3, <2>4 DEF Changes
  <2>7. QED
    BY <1>1, <1>2, <1>3, <1>4, <1>7, <2>3, <2>5, <2>6 DEF Changes
<1>8. QED
  BY <1>6, <1>7

(* One that is admitted.                                                   *)
LEMMA AdmitKeeps ==
  ASSUME CommonInv, NEW queues, NEW takesCPU \in BOOLEAN, ReceiveAdmit(queues, takesCPU),
         Enters(ready, queues, New)
  PROVE  CommonInv' /\ Served!Take
<1>1. /\ SchedTake /\ ready' = queues /\ currentPCB' = IF takesCPU THEN New ELSE currentPCB
      /\ current_process_count' = current_process_count + 1
      /\ UNCHANGED <<input, Memory_Buffer, finishedProcesses, process_count, ptr,
                     idle_cycles, total_cycles, schedPc>>
      /\ schedPc = "receive"
  BY DEF ReceiveAdmit, cycleVars, countVars, SchedTake, schedHead, clkVars
<1>2. /\ New \in Procs /\ New # currentPCB /\ pcb' \in [Procs -> PCB] /\ WellFormed(tree')
      /\ pcb'[New].state # "none"
      /\ \A q \in Procs \ {New} : pcb'[q].state = "none" <=> pcb[q].state = "none"
  <2>1. currentPCB \in Procs => pcb[currentPCB].state # "none"
    BY DEF CommonInv, DataInv, OnlyReceived, Listed, Accepted, Received
  <2>2. \A q \in Procs \ {New} :
          \/ pcb'[q] = pcb[q] \/ (q = currentPCB /\ pcb'[q].state = "Blocked")
    BY AdmitPcbs
  <2>3. pcb'[New].state \in {"Running", "Ready"}
    BY AdmitPcbs
  <2>4. QED
    BY <2>1, <2>2, <2>3, AdmitPcbs
<1>3. ~TooBig(New)
  <2>1. input[New].memSize \in Nat
    BY <1>2, FileAssumption DEF CommonInv, TickTyped
  <2>2. QED
    BY <2>1, BuddyAssumption DEF ReceiveAdmit, TooBig
<1>4. /\ Rejected' = Rejected /\ Accepted' = Accepted \cup {New}
      /\ Cardinality(Accepted') = Cardinality(Accepted) + 1
      /\ Served!Take /\ TickTyped' /\ Served!SentInv'
  BY <1>1, <1>2, <1>3, TakesNew
<1>5. ready \in Queues /\ \A q : InLevels(queues, q) <=> InLevels(ready, q) \/ q = New
  BY <1>2, EntersFacts DEF CommonInv, DataInv, DataTyped, Queues
<1>6. DataTyped'
  BY <1>1, <1>2 DEF CommonInv, DataInv, DataTyped, Enters, Queues
<1>7. OnlyReceived'
  <2>1. ASSUME NEW p \in Procs, Listed(p)' PROVE Listed(p) \/ p = New
    BY <1>1, <1>5, <2>1 DEF Listed, InQueue, InLevels
  <2>2. QED
    BY <1>4, <2>1 DEF OnlyReceived, CommonInv, DataInv
<1>8. Counted'
  <2>1. /\ Cardinality(Accepted) \in Nat /\ current_process_count \in Nat
        /\ Len(Memory_Buffer) \in Nat
    BY FinitelyMany DEF CommonInv, DataInv, DataTyped
  <2>2. QED
    BY <1>1, <1>4, <2>1 DEF CommonInv, DataInv, Counted
<1>9. QED
  BY <1>1, <1>2, <1>4, <1>6, <1>7, <1>8 DEF CommonInv, DataInv

(* No message is left.                                                     *)
LEMMA DoneKeeps ==
  ASSUME CommonInv, ReceiveDone
  PROVE  CommonInv' /\ Served!Drained
<1>1. /\ schedPc = "receive" /\ msgq = <<>> /\ schedPc' = "dispatch"
      /\ UNCHANGED <<clkVars, sem, msgq, genVars, currClk, bodyVars>>
  BY DEF ReceiveDone, SchedTo
<1>2. UNCHANGED <<input, tree, pcb, ready, Memory_Buffer, finishedProcesses, currentPCB,
                  process_count, current_process_count, ptr, idle_cycles, total_cycles>>
  BY <1>1 DEF clkVars, bodyVars, queueVars, countVars, cycleVars
<1>3. Received' = Received /\ Rejected' = Rejected /\ Accepted' = Accepted
  BY <1>2 DEF Received, Rejected, Accepted, TooBig
<1>4. Served!Drained
  BY <1>1, <1>3 DEF HeadPcs, Served!Drained, Served!SchedTo, Served!clkVars, Served!genVars,
     clkVars, genVars
<1>5. Served!SentInv'
  BY <1>4, ViewKeeps DEF CommonInv, Served!ServerNext, Served!Server
<1>6. TickTyped'
  BY <1>1, TicksKept DEF CommonInv, TickTyped, SchedPcs
<1>7. DataInv'
  BY <1>1, <1>2, <1>3 DEF CommonInv, DataInv, DataTyped, OnlyReceived, Listed, InQueue, Counted
<1>8. QED
  BY <1>4, <1>5, <1>6, <1>7 DEF CommonInv

-----------------------------------------------------------------------------
(* The steps of an iteration's own work.                                   *)

AsSeen == Served!ServerNext \/ UNCHANGED Served!serverVars

(* A step that changes neither memory nor the lists outside the queue.     *)
LEMMA MoveKeeps ==
  ASSUME CommonInv,
         schedPc \in WorkPcs, schedPc' \in (WorkPcs \cup {"spin"}) \ {"scan"},
         UNCHANGED <<clkVars, sem, msgq, genVars, currClk>>,
         UNCHANGED <<tree, Memory_Buffer, finishedProcesses, countVars, ptr>>,
         idle_cycles' \in Nat, total_cycles' \in Nat,
         pcb' \in [Procs -> PCB], Received' = Received,
         ready' \in Queues, currentPCB' \in Procs \cup {NULL},
         \A p \in Procs : InLevels(ready', p) \/ p = currentPCB' => p \in Accepted
  PROVE  CommonInv' /\ AsSeen
<1>1. TickTyped' /\ Served!SentInv' /\ AsSeen
  BY WorksOn DEF AsSeen
<1>2. \A p : TooBig(p)' <=> TooBig(p)
  BY DEF TooBig, clkVars
<1>3. Rejected' = Rejected /\ Accepted' = Accepted
  BY <1>2 DEF Rejected, Accepted
<1>4. DataTyped'
  BY DEF CommonInv, DataInv, DataTyped, Queues, countVars
<1>5. OnlyReceived'
  BY <1>3 DEF CommonInv, DataInv, OnlyReceived, Listed, InQueue, InLevels
<1>6. Counted' /\ WellFormed(tree')
  BY <1>3 DEF CommonInv, DataInv, Counted, countVars
<1>7. QED
  BY <1>1, <1>4, <1>5, <1>6 DEF CommonInv, DataInv

(* The same where only the label moves, or the cycles are counted.         *)
LEMMA LabelKeeps ==
  ASSUME CommonInv, NEW next \in (WorkPcs \cup {"spin"}) \ {"scan"},
         schedPc \in WorkPcs, SchedTo(next),
         UNCHANGED <<tree, pcb, queueVars, currentPCB, countVars, ptr>>,
         idle_cycles' \in Nat, total_cycles' \in Nat
  PROVE  CommonInv' /\ AsSeen
<1>1. UNCHANGED <<Memory_Buffer, finishedProcesses>> /\ ready' = ready
  BY DEF queueVars
<1>2. Received' = Received
  BY DEF Received
<1>3. /\ pcb' \in [Procs -> PCB] /\ ready' \in Queues /\ currentPCB' \in Procs \cup {NULL}
      /\ \A p \in Procs : InLevels(ready', p) \/ p = currentPCB' => p \in Accepted
  BY <1>1 DEF CommonInv, DataInv, DataTyped, OnlyReceived, Listed, InQueue, InLevels, Queues
<1>4. QED
  BY <1>1, <1>2, <1>3, MoveKeeps DEF SchedTo

(* A tick without a finish, and a scan that finds nobody.                  *)
LEMMA WaitKeeps ==
  ASSUME CommonInv, NEW next \in (WorkPcs \cup {"spin"}) \ {"scan"},
         Idle(next) \/ Continue(next) \/ PickNobody(next)
  PROVE  CommonInv' /\ AsSeen
<1>1. schedPc \in WorkPcs /\ SchedTo(next)
  BY Labels DEF Idle, Continue, PickNobody
<1>2. /\ UNCHANGED <<tree, pcb, queueVars, currentPCB, countVars, ptr>>
      /\ idle_cycles' \in {idle_cycles, idle_cycles + 1} /\ total_cycles' = total_cycles
  BY DEF Idle, Continue, PickNobody, bodyVars, cycleVars
<1>3. idle_cycles' \in Nat /\ total_cycles' \in Nat
  BY <1>2 DEF CommonInv, DataInv, DataTyped
<1>4. QED
  BY <1>1, <1>2, <1>3, LabelKeeps

(* The algorithm returns: its two counters are equal only if every process *)
(* has been received and none waits for memory.                            *)
LEMMA ReturnKeeps ==
  ASSUME CommonInv, Return
  PROVE  CommonInv' /\ Served!Return /\ Received = Procs /\ Memory_Buffer = <<>>
<1>1. /\ schedPc = "dispatch" /\ schedPc' = "returned"
      /\ process_count = current_process_count
      /\ UNCHANGED <<clkVars, sem, msgq, genVars, currClk, bodyVars>>
  BY DEF Return, SchedTo
<1>2. UNCHANGED <<input, tree, pcb, ready, Memory_Buffer, finishedProcesses, currentPCB,
                  process_count, current_process_count, ptr, idle_cycles, total_cycles>>
  BY <1>1 DEF clkVars, bodyVars, queueVars, countVars, cycleVars
<1>3. Received = Procs /\ Memory_Buffer = <<>>
  BY <1>1, CountersInRange DEF CommonInv, DataInv
<1>4. Received' = Received /\ Rejected' = Rejected /\ Accepted' = Accepted
  BY <1>2 DEF Received, Rejected, Accepted, TooBig
<1>5. Served!Return
  BY <1>1, <1>3, <1>4 DEF HeadPcs, Served!Return, Served!SchedTo, Served!clkVars, Served!genVars,
     clkVars, genVars, Procs, Served!Procs
<1>6. Served!SentInv'
  BY <1>5, ViewKeeps DEF CommonInv, Served!ServerNext, Served!Server
<1>7. TickTyped'
  <2>1. "returned" \in SchedPcs
    BY DEF SchedPcs, HeadPcs
  <2>2. msgq' \in Seq(Procs)
    BY <1>1 DEF CommonInv, TickTyped
  <2>3. QED
    BY <1>1, <2>1, <2>2, TicksKept DEF CommonInv
<1>8. DataInv'
  BY <1>1, <1>2, <1>4 DEF CommonInv, DataInv, DataTyped, OnlyReceived, Listed, InQueue, Counted
<1>9. QED
  BY <1>3, <1>5, <1>6, <1>7, <1>8 DEF CommonInv

(* A finish: the block is freed, the process is put on the finished list.  *)
LEMMA FinishKeeps ==
  ASSUME CommonInv, NEW queues \in Queues, Finish(queues),
         \A p \in Procs : InLevels(queues, p) => InLevels(ready, p)
  PROVE  /\ CommonInv' /\ AsSeen
         /\ Changes(pcb, pcb', currentPCB, "Finished")
         /\ pcb'[currentPCB].startTime = pcb[currentPCB].startTime
         /\ pcb'[currentPCB].memoryNode = pcb[currentPCB].memoryNode
         /\ pcb'[currentPCB].finishTime = currClk
         /\ Leaves(tree') = Leaves(tree) \ {pcb[currentPCB].memoryNode}
         /\ PutIn(finishedProcesses, finishedProcesses', currentPCB)
<1>1. /\ schedPc = "dispatch" /\ currentPCB # NULL
      /\ tree' = Deallocate(tree, pcb[currentPCB].memoryNode)
      /\ pcb' = saveProcessState(pcb, currentPCB, "Finished", currClk)
      /\ ready' = queues /\ finishedProcesses' = enqueue(finishedProcesses, currentPCB)
      /\ currentPCB' = NULL /\ ptr' = Memory_Buffer /\ schedPc' = "scan"
      /\ UNCHANGED <<clkVars, sem, msgq, genVars, currClk>>
      /\ UNCHANGED <<input, Memory_Buffer, process_count, current_process_count,
                     idle_cycles, total_cycles>>
  BY DEF Finish, SchedTo, clkVars, countVars, cycleVars
<1>2. /\ currentPCB \in Procs /\ currClk \in Nat /\ pcb \in [Procs -> PCB]
      /\ finishedProcesses \in Seq(Procs) /\ Memory_Buffer \in Seq(Procs)
  BY <1>1 DEF CommonInv, TickTyped, DataInv, DataTyped
<1>3. /\ Changes(pcb, pcb', currentPCB, "Finished")
      /\ pcb'[currentPCB].startTime = pcb[currentPCB].startTime
      /\ pcb'[currentPCB].memoryNode = pcb[currentPCB].memoryNode
      /\ pcb'[currentPCB].finishTime = currClk
  BY <1>1, <1>2, SaveFacts DEF States
<1>4. WellFormed(tree') /\ Leaves(tree') = Leaves(tree) \ {pcb[currentPCB].memoryNode}
  BY <1>1, DeallocateCorrect DEF CommonInv, DataInv
<1>5. /\ finishedProcesses' \in Seq(Procs)
      /\ PutIn(finishedProcesses, finishedProcesses', currentPCB)
  BY <1>1, <1>2, EnqueuePuts
<1>6. \A q : Contains(finishedProcesses', q) <=> Contains(finishedProcesses, q) \/ q = currentPCB
  BY <1>2, <1>5, PutInFacts
<1>7. Received' = Received
  <2>1. currentPCB \in Received
    BY <1>2 DEF CommonInv, DataInv, OnlyReceived, Listed, Accepted
  <2>2. \A q \in Procs : pcb'[q].state = "none" <=> pcb[q].state = "none"
    BY <1>3, <2>1 DEF Changes, Received
  <2>3. QED
    BY <2>2 DEF Received
<1>8. \A p : TooBig(p)' <=> TooBig(p)
  BY <1>1 DEF TooBig
<1>9. Rejected' = Rejected /\ Accepted' = Accepted
  BY <1>7, <1>8 DEF Rejected, Accepted
<1>10. TickTyped' /\ Served!SentInv' /\ AsSeen
  BY <1>1, <1>7, WorksOn, Labels DEF AsSeen
<1>11. DataTyped'
  BY <1>1, <1>2, <1>3, <1>5 DEF CommonInv, DataInv, DataTyped, Queues, Changes
<1>12. OnlyReceived'
  <2>1. ASSUME NEW p \in Procs, Listed(p)' PROVE Listed(p)
    BY <1>1, <1>6, <2>1, NullAssumption DEF Listed, InQueue, InLevels
  <2>2. QED
    BY <1>9, <2>1 DEF OnlyReceived, CommonInv, DataInv
<1>13. Counted'
  <2>1. Len(Memory_Buffer) \in Nat
    BY <1>2
  <2>2. QED
    BY <1>1, <1>9, <2>1 DEF CommonInv, DataInv, Counted
<1>14. QED
  BY <1>1, <1>3, <1>4, <1>5, <1>10, <1>11, <1>12, <1>13 DEF CommonInv, DataInv

(* The scan admits a process and takes the front out of the memory buffer, *)
(* which is not empty.                                                     *)
LEMMA ScanAdmitKeeps ==
  ASSUME CommonInv, NEW queues, ScanAdmit(queues), Enters(ready, queues, Head(ptr))
  PROVE  /\ CommonInv' /\ AsSeen
         /\ Head(ptr) \in Accepted
         /\ Changes(pcb, pcb', Head(ptr), "Ready")
         /\ pcb'[Head(ptr)].startTime = pcb[Head(ptr)].startTime
         /\ pcb'[Head(ptr)].finishTime = 0
         /\ \E r \in Allocate(tree, input[Head(ptr)].memSize) :
              tree' = r.tree /\ pcb'[Head(ptr)].memoryNode = r.block
<1>1. /\ schedPc = "scan" /\ ptr # <<>> /\ ptr' = Tail(ptr)
      /\ ready' = queues /\ Memory_Buffer' = dequeue(Memory_Buffer)
      /\ current_process_count' = current_process_count + 1
      /\ UNCHANGED <<clkVars, sem, msgq, genVars, currClk>>
      /\ UNCHANGED <<input, schedPc, finishedProcesses, currentPCB, process_count,
                     idle_cycles, total_cycles>>
  BY DEF ScanAdmit, tickVars, schedHead, clkVars, cycleVars
<1>2. /\ ptr \in Seq(Procs) /\ Memory_Buffer \in Seq(Procs) /\ pcb \in [Procs -> PCB]
      /\ input \in Inputs /\ ready \in Queues
  BY DEF CommonInv, TickTyped, DataInv, DataTyped, Queues
<1> DEFINE p == Head(ptr)
<1>3. /\ p \in Procs /\ Contains(ptr, p) /\ ptr' = dequeue(ptr) /\ ptr' \in Seq(Procs)
      /\ PutIn(ptr', ptr, p)
  BY <1>1, <1>2, DequeueTakes DEF dequeue
<1>4. /\ Len(ptr) = Len(ptr') + 1
      /\ \A q : Contains(ptr, q) <=> Contains(ptr', q) \/ q = p
  BY <1>2, <1>3, PutInFacts
<1>5. /\ Len(ptr') \in Nat /\ Len(ptr) \in Nat /\ Len(Memory_Buffer) \in Nat
      /\ Len(ptr) <= Len(Memory_Buffer)
  BY <1>1, <1>2, <1>3 DEF CommonInv, DataInv, Counted
<1>6. Memory_Buffer # <<>>
  BY <1>4, <1>5, EmptySeq
<1>7. /\ Memory_Buffer' \in Seq(Procs)
      /\ PutIn(Memory_Buffer', Memory_Buffer, Head(Memory_Buffer))
      /\ Head(Memory_Buffer) \in Procs
  BY <1>1, <1>2, <1>6, DequeueTakes
<1>8. /\ Len(Memory_Buffer) = Len(Memory_Buffer') + 1 /\ Len(Memory_Buffer') \in Nat
      /\ \A q : Contains(Memory_Buffer', q) => Contains(Memory_Buffer, q)
  BY <1>2, <1>7, PutInFacts
<1>9. p \in Accepted /\ p \in Received /\ input[p].memSize \in Nat
  BY <1>2, <1>3, FileAssumption DEF CommonInv, DataInv, OnlyReceived, Listed, Accepted
<1>10. PICK r \in Allocate(tree, input[p].memSize) :
         tree' = r.tree /\ pcb' = Admit(pcb, p, r.block)
  BY DEF ScanAdmit
<1>11. WellFormed(tree') /\ r.block \in Node
  BY <1>9, <1>10, AllocateCorrect DEF CommonInv, DataInv
<1> HIDE DEF p
<1>12. /\ Changes(pcb, pcb', p, "Ready") /\ pcb'[p].memoryNode = r.block
       /\ pcb'[p].startTime = pcb[p].startTime /\ pcb'[p].finishTime = 0
  BY <1>2, <1>3, <1>10, <1>11, AdmitFacts
<1>13. Received' = Received
  BY <1>9, <1>12 DEF Changes, Received
<1>14. \A q : TooBig(q)' <=> TooBig(q)
  BY <1>1 DEF TooBig
<1>15. Rejected' = Rejected /\ Accepted' = Accepted
  BY <1>13, <1>14 DEF Rejected, Accepted
<1>16. TickTyped' /\ Served!SentInv' /\ AsSeen
  BY <1>1, <1>13, WorksOn, Labels DEF AsSeen
<1>17. \A q : InLevels(queues, q) <=> InLevels(ready, q) \/ q = p
  BY <1>2, <1>3, EntersFacts DEF p
<1>18. DataTyped'
  BY <1>1, <1>3, <1>7, <1>12 DEF CommonInv, DataInv, DataTyped, Queues, Changes, Enters
<1>19. OnlyReceived'
  <2>1. ASSUME NEW q \in Procs, Listed(q)' PROVE Listed(q) \/ q = p
    BY <1>1, <1>4, <1>8, <1>17, <2>1 DEF Listed, InQueue, InLevels
  <2>2. QED
    BY <1>9, <1>15, <2>1 DEF OnlyReceived, CommonInv, DataInv
<1>20. Counted'
  <2>1. Cardinality(Accepted) \in Nat /\ current_process_count \in Nat
    BY FinitelyMany DEF CommonInv, DataInv, DataTyped
  <2>2. QED
    BY <1>1, <1>4, <1>5, <1>8, <1>15, <2>1 DEF CommonInv, DataInv, Counted
<1>21. QED
  BY <1>1, <1>9, <1>10, <1>11, <1>12, <1>16, <1>18, <1>19, <1>20 DEF CommonInv, DataInv, p

(* The scan passes over a process for which there is no room.              *)
LEMMA ScanSkipKeeps ==
  ASSUME CommonInv, ScanSkip
  PROVE  /\ CommonInv' /\ AsSeen
         /\ Head(ptr) \in Accepted
         /\ pcb' \in [Procs -> PCB]
         /\ \A q \in Procs : /\ pcb'[q].state = pcb[q].state
                             /\ pcb'[q].remainingTime = pcb[q].remainingTime
                             /\ pcb'[q].startTime = pcb[q].startTime
                             /\ pcb'[q].finishTime = pcb[q].finishTime
                             /\ q # Head(ptr) => pcb'[q].memoryNode = pcb[q].memoryNode
<1>1. /\ schedPc = "scan" /\ ptr # <<>> /\ ptr' = Tail(ptr)
      /\ pcb' = [pcb EXCEPT ![Head(ptr)].memoryNode = NULL]
      /\ UNCHANGED <<clkVars, sem, msgq, genVars, currClk>>
      /\ UNCHANGED <<input, schedPc, tree, ready, Memory_Buffer, finishedProcesses, currentPCB,
                     process_count, current_process_count, idle_cycles, total_cycles>>
  BY DEF ScanSkip, tickVars, schedHead, clkVars, queueVars, countVars, cycleVars
<1>2. /\ ptr \in Seq(Procs) /\ pcb \in [Procs -> PCB] /\ Memory_Buffer \in Seq(Procs)
  BY DEF CommonInv, DataInv, DataTyped
<1>3. /\ Head(ptr) \in Procs /\ Contains(ptr, Head(ptr)) /\ ptr' = dequeue(ptr)
      /\ ptr' \in Seq(Procs) /\ PutIn(ptr', ptr, Head(ptr))
  BY <1>1, <1>2, DequeueTakes DEF dequeue
<1>4. /\ Len(ptr) = Len(ptr') + 1 /\ Len(ptr') \in Nat
      /\ \A q : Contains(ptr, q) <=> Contains(ptr', q) \/ q = Head(ptr)
  BY <1>2, <1>3, PutInFacts
<1>5. /\ pcb' \in [Procs -> PCB]
      /\ \A q \in Procs : /\ pcb'[q].state = pcb[q].state
                          /\ pcb'[q].remainingTime = pcb[q].remainingTime
                          /\ pcb'[q].startTime = pcb[q].startTime
                          /\ pcb'[q].finishTime = pcb[q].finishTime
                          /\ q # Head(ptr) => pcb'[q].memoryNode = pcb[q].memoryNode
  BY <1>1, <1>2, <1>3 DEF PCB
<1>6. Received' = Received
  BY <1>5 DEF Received
<1>7. \A q : TooBig(q)' <=> TooBig(q)
  BY <1>1 DEF TooBig
<1>8. Rejected' = Rejected /\ Accepted' = Accepted
  BY <1>6, <1>7 DEF Rejected, Accepted
<1>9. TickTyped' /\ Served!SentInv' /\ AsSeen
  BY <1>1, <1>6, WorksOn, Labels DEF AsSeen
<1>10. DataTyped'
  BY <1>1, <1>3, <1>5 DEF CommonInv, DataInv, DataTyped
<1>11. OnlyReceived'
  BY <1>1, <1>4, <1>8 DEF CommonInv, DataInv, OnlyReceived, Listed, InQueue
<1>12. Counted'
  <2>1. Len(Memory_Buffer) \in Nat
    BY <1>2
  <2>2. QED
    BY <1>1, <1>4, <1>8, <2>1 DEF CommonInv, DataInv, Counted
<1>13. Head(ptr) \in Accepted
  BY <1>3 DEF CommonInv, DataInv, OnlyReceived, Listed
<1>14. QED
  BY <1>1, <1>5, <1>9, <1>10, <1>11, <1>12, <1>13 DEF CommonInv, DataInv

(* The end of the scan gives the CPU to p.                                 *)
LEMMA PickKeeps ==
  ASSUME CommonInv, NEW p \in Procs, NEW pcbs, NEW queues \in Queues,
         NEW next \in WorkPcs \ {"scan"}, Pick(p, pcbs, queues, next),
         InLevels(ready, p), \A q \in Procs : InLevels(queues, q) => InLevels(ready, q),
         Changes(pcb, pcbs, p, "Running")
  PROVE  CommonInv' /\ AsSeen
<1>1. /\ schedPc = "scan" /\ pcb' = pcbs /\ currentPCB' = p /\ ready' = queues
      /\ schedPc' = next
      /\ UNCHANGED <<clkVars, sem, msgq, genVars, currClk>>
      /\ UNCHANGED <<tree, Memory_Buffer, finishedProcesses, countVars, ptr>>
      /\ UNCHANGED <<idle_cycles, total_cycles>>
  BY DEF Pick, SchedTo, cycleVars
<1>2. idle_cycles' \in Nat /\ total_cycles' \in Nat
  BY <1>1 DEF CommonInv, DataInv, DataTyped
<1>3. \A q \in Procs : InLevels(ready, q) => q \in Accepted
  BY DEF CommonInv, DataInv, OnlyReceived, Listed, InQueue, InLevels
<1>4. Received' = Received
  <2>1. pcb[p].state # "none"
    BY <1>3 DEF Accepted, Received
  <2>2. \A q \in Procs : pcb'[q].state = "none" <=> pcb[q].state = "none"
    BY <1>1, <2>1 DEF Changes
  <2>3. QED
    BY <2>2 DEF Received
<1>5. pcb' \in [Procs -> PCB]
  BY <1>1 DEF Changes
<1>6. \A q \in Procs : InLevels(ready', q) \/ q = currentPCB' => q \in Accepted
  BY <1>1, <1>3
<1>7. schedPc \in WorkPcs
  BY <1>1, Labels
<1>8. QED
  BY <1>1, <1>2, <1>4, <1>5, <1>6, <1>7, MoveKeeps

(* The running process has one tick less to go.                            *)
Charged(pcbs) ==
  /\ pcbs \in [Procs -> PCB]
  /\ \A q \in Procs :
       /\ pcbs[q].state = pcb[q].state
       /\ pcbs[q].startTime = pcb[q].startTime
       /\ pcbs[q].finishTime = pcb[q].finishTime
       /\ pcbs[q].memoryNode = pcb[q].memoryNode
       /\ q # currentPCB => pcbs[q].remainingTime = pcb[q].remainingTime

(* The end of an iteration.                                                *)
LEMMA ChargeKeeps ==
  ASSUME CommonInv, Charge
  PROVE  /\ CommonInv' /\ AsSeen
         /\ Charged(pcb')
         /\ currentPCB # NULL => pcb'[currentPCB].remainingTime = pcb[currentPCB].remainingTime - 1
<1>1. /\ schedPc = "run" /\ schedPc' = "spin"
      /\ pcb' = IF currentPCB = NULL THEN pcb
                ELSE [pcb EXCEPT ![currentPCB].remainingTime = @ - 1]
      /\ UNCHANGED <<clkVars, sem, msgq, genVars, currClk>>
      /\ UNCHANGED <<tree, Memory_Buffer, finishedProcesses, countVars, ptr>>
      /\ UNCHANGED <<ready, currentPCB>>
      /\ idle_cycles' = idle_cycles /\ total_cycles' = total_cycles + 1
  BY DEF Charge, SchedTo, queueVars
<1>2. /\ pcb \in [Procs -> PCB] /\ currentPCB \in Procs \cup {NULL} /\ ready \in Queues
      /\ idle_cycles \in Nat /\ total_cycles \in Nat
  BY DEF CommonInv, DataInv, DataTyped, Queues
<1>3. /\ Charged(pcb')
      /\ currentPCB # NULL => pcb'[currentPCB].remainingTime = pcb[currentPCB].remainingTime - 1
  <2>1. CASE currentPCB = NULL
    BY <1>1, <1>2, <2>1 DEF Charged
  <2>2. CASE currentPCB # NULL
    BY <1>1, <1>2, <2>2 DEF Charged, PCB
  <2>3. QED
    BY <2>1, <2>2
<1>4. Received' = Received
  BY <1>3 DEF Received, Charged
<1>5. \A q \in Procs : InLevels(ready', q) \/ q = currentPCB' => q \in Accepted
  BY <1>1 DEF CommonInv, DataInv, OnlyReceived, Listed, InQueue, InLevels
<1>6. /\ schedPc \in WorkPcs /\ schedPc' \in (WorkPcs \cup {"spin"}) \ {"scan"}
      /\ idle_cycles' \in Nat /\ total_cycles' \in Nat
      /\ pcb' \in [Procs -> PCB] /\ ready' \in Queues /\ currentPCB' \in Procs \cup {NULL}
  BY <1>1, <1>2, <1>3, Labels DEF Charged
<1>7. CommonInv' /\ AsSeen
  BY <1>1, <1>4, <1>5, <1>6, MoveKeeps
<1>8. QED
  BY <1>3, <1>7

(* The clock, the generator and the head of the loop.                      *)
LEMMA AsideKeeps ==
  ASSUME CommonInv, UNCHANGED bodyVars,
         Generator \/ ClockTick \/ SchedRead \/ SchedDown \/ SchedSpin \/ SchedExit
           \/ UNCHANGED tickVars
  PROVE  CommonInv' /\ AsSeen
<1>1. UNCHANGED <<tree, pcb, ready, Memory_Buffer, finishedProcesses, currentPCB,
                  process_count, current_process_count, ptr, idle_cycles, total_cycles>>
  BY DEF bodyVars, queueVars, countVars, cycleVars
<1>2. Received' = Received
  BY <1>1 DEF Received
<1>3. AsSeen
  <2>1. CASE Generator
    BY <1>2, <2>1 DEF AsSeen, Served!ServerNext, HeadPcs,
       Generator, GenRead, GenSend, GenFinal, GenUp, GenSpin, GenExit, Due,
       clkVars, genVars, schedHead,
       Served!Generator, Served!GenRead, Served!GenSend, Served!GenFinal, Served!GenUp,
       Served!GenSpin, Served!GenExit, Served!Due,
       Served!clkVars, Served!genVars, Served!schedHead
  <2>2. CASE ClockTick
    BY <1>2, <2>2 DEF AsSeen, Served!ServerNext, HeadPcs, ClockTick, GenSettled, SchedSettled,
       Due, genVars, schedHead, Served!ClockTick, Served!GenSettled, Served!SchedSettled,
       Served!Due, Served!genVars, Served!schedHead
  <2>3. CASE SchedRead \/ SchedDown \/ SchedSpin
    <3>1. Served!Loop
      BY <1>2, <2>3 DEF HeadPcs, SchedRead, SchedDown, SchedSpin, clkVars, genVars,
         Served!Loop, Served!SchedRead, Served!SchedDown, Served!SchedSpin,
         Served!clkVars, Served!genVars
    <3>2. QED
      BY <3>1 DEF AsSeen, Served!ServerNext, Served!Server
  <2>4. CASE SchedExit
    <3>1. Served!Exit
      BY <1>2, <2>4 DEF HeadPcs, SchedExit, clkVars, genVars,
         Served!Exit, Served!SchedExit, Served!clkVars, Served!genVars
    <3>2. QED
      BY <3>1 DEF AsSeen, Served!ServerNext, Served!Server
  <2>5. CASE UNCHANGED tickVars
    BY <1>2, <2>5 DEF AsSeen, tickVars, clkVars, genVars, schedHead,
       Served!serverVars, Served!tickVars, Served!clkVars, Served!genVars, Served!schedHead
  <2>6. QED
    BY <2>1, <2>2, <2>3, <2>4, <2>5
<1>4. Served!SentInv'
  BY <1>3, ViewKeeps DEF CommonInv, AsSeen
<1>5. schedPc' \in HeadPcs \/ schedPc' = schedPc
  BY DEF Generator, GenRead, GenSend, GenFinal, GenUp, GenSpin, GenExit, ClockTick,
     SchedRead, SchedDown, SchedSpin, SchedExit, schedHead, tickVars, HeadPcs
<1>6. TickTyped'
  <2>1. /\ input' \in Inputs /\ genClk' \in Nat /\ genClk' <= clk' /\ genNext' \in 1 .. N + 1
        /\ processes_sent' \in Nat /\ genPc' \in GenPcs /\ msgq' \in Seq(Procs)
    BY <1>4 DEF Served!SentInv, Served!Typed, Served!SentPast, Served!GenPcs, GenPcs,
       Served!Procs, Procs
  <2>2. processes_sent' <= N
    <3>1. /\ Received' \in SUBSET Procs
          /\ Served!Cardinality(Received') + Len(msgq') = processes_sent'
          /\ \A i \in DOMAIN msgq' :
               /\ msgq'[i] \notin Received'
               /\ \A j \in DOMAIN msgq' : msgq'[i] = msgq'[j] => i = j
      BY <1>4 DEF Served!SentInv, Served!Typed, Served!SentOnce, Served!Procs, Procs
    <3>2. Served!Cardinality(Received') + Len(msgq') <= N
      BY <2>1, <3>1, Served!SentAtMostAll, TickAssumption DEF Procs, Served!Procs
    <3>3. QED
      BY <3>1, <3>2
  <2>3. clk' \in 0 .. MaxClk /\ currClk' \in 0 .. clk' /\ sem' \in Nat
    BY TickAssumption DEF CommonInv, TickTyped, Generator, GenRead, GenSend, GenFinal, GenUp, GenSpin,
       GenExit, ClockTick, SchedRead, SchedDown, SchedSpin, SchedExit, clkVars, schedHead,
       tickVars
  <2>4. schedPc' \in SchedPcs
    BY <1>5, Labels DEF CommonInv, TickTyped
  <2>5. QED
    BY <2>1, <2>2, <2>3, <2>4 DEF TickTyped
<1>7. UNCHANGED input
  BY DEF Generator, GenRead, GenSend, GenFinal, GenUp, GenSpin, GenExit, ClockTick,
     SchedRead, SchedDown, SchedSpin, SchedExit, clkVars, tickVars
<1>8. Rejected' = Rejected /\ Accepted' = Accepted
  BY <1>2, <1>7 DEF Rejected, Accepted, TooBig
<1>9. schedPc' # "scan" \/ schedPc' = schedPc
  BY <1>5 DEF HeadPcs
<1>10. DataInv'
  BY <1>1, <1>8, <1>9 DEF CommonInv, DataInv, DataTyped, OnlyReceived, Listed, InQueue, Counted
<1>11. QED
  BY <1>3, <1>4, <1>6, <1>10 DEF CommonInv

(* At the start.                                                           *)
LEMMA CommonInit ==
  ASSUME TickInit, BodyInit
  PROVE  CommonInv /\ Served!ServerInit
<1>1. /\ input \in Inputs /\ clk = 0 /\ sem = 0 /\ msgq = <<>>
      /\ genPc = "read" /\ genClk = 0 /\ genNext = 1 /\ processes_sent = 0
      /\ schedPc = "read" /\ currClk = 0
  BY DEF TickInit
<1>2. /\ tree = {} /\ ready = [l \in Levels |-> <<>>]
      /\ pcb = [p \in Procs |-> [state |-> "none", remainingTime |-> input[p].executionTime,
                                 startTime |-> 0, finishTime |-> 0, memoryNode |-> NULL]]
      /\ Memory_Buffer = <<>> /\ finishedProcesses = <<>> /\ currentPCB = NULL
      /\ process_count = N /\ current_process_count = 0 /\ ptr = <<>>
      /\ idle_cycles = 0 /\ total_cycles = 0
  BY DEF BodyInit
<1>3. Received = {}
  BY <1>2 DEF Received
<1>4. Served!ServerInit
  BY <1>1, <1>3 DEF Served!ServerInit, Served!TickInit, HeadPcs
<1>5. Served!SentInv
  BY <1>4, Served!SentInit, TickAssumption DEF Procs, Served!Procs
<1>6. TickTyped
  BY <1>1, TickAssumption DEF TickTyped, GenPcs, SchedPcs, HeadPcs
<1>7. DataTyped
  <2>1. pcb \in [Procs -> PCB]
    BY <1>1, <1>2, FileAssumption DEF PCB, States
  <2>2. QED
    BY <1>2, <2>1 DEF DataTyped
<1>8. Rejected = {} /\ Accepted = {}
  BY <1>3 DEF Rejected, Accepted
<1>9. WellFormed(tree)
  BY <1>2 DEF WellFormed, Nested, Linked
<1>10. OnlyReceived
  BY <1>2, NullAssumption DEF OnlyReceived, Listed, InQueue, Contains
<1>11. Counted
  BY <1>1, <1>2, <1>8, FS_EmptySet, TickAssumption DEF Counted
<1>12. QED
  BY <1>1, <1>4, <1>5, <1>6, <1>7, <1>9, <1>10, <1>11 DEF CommonInv, DataInv

-----------------------------------------------------------------------------
(* Three of the algorithms use one level only.                             *)
OneLevel == \A l \in Levels \ {0} : ready[l] = <<>>

(* Round robin: the quantum is counted anew before it can be exceeded.     *)
RRInv ==
  /\ OneLevel
  /\ FrontRuns
  /\ quantum_passed \in 0 .. quantum
  /\ schedPc = "run" => quantum_passed < quantum
  /\ schedPc \notin {"refill", "broken"}

(* Whoever has been on the CPU keeps its startTime; of those that have     *)
(* finished, those that are in no queue again.                             *)
StartKept ==
  \A p \in Procs :
    \/ pcb[p].state \in {"Running", "Blocked"}
    \/ pcb[p].state = "Finished" /\ ~InQueue(p)
    => pcb'[p].startTime = pcb[p].startTime

-----------------------------------------------------------------------------
(* An algorithm with one queue replaces level 0 and leaves the others      *)
(* alone.                                                                  *)
LEMMA OneQueueFacts ==
  ASSUME CommonInv, NEW queue \in Seq(Procs)
  PROVE  /\ ready \in Queues /\ ready[0] \in Seq(Procs) /\ 0 \in Levels
         /\ OneQueue(queue) \in Queues
         /\ OneQueue(queue)[0] = queue
         /\ \A l \in Levels \ {0} : OneQueue(queue)[l] = ready[l]
         /\ \A p \in Procs : PutIn(ready[0], queue, p) => Enters(ready, OneQueue(queue), p)
<1>1. 0 \in Levels
  BY LevelAssumption DEF Levels
<1>2. ready \in [Levels -> Seq(Procs)]
  BY DEF CommonInv, DataInv, DataTyped
<1>3. /\ OneQueue(queue) \in Queues
      /\ OneQueue(queue)[0] = queue
      /\ \A l \in Levels \ {0} : OneQueue(queue)[l] = ready[l]
  BY <1>1, <1>2 DEF OneQueue, Queues
<1>4. \A p \in Procs : PutIn(ready[0], queue, p) => Enters(ready, OneQueue(queue), p)
  BY <1>1, <1>3 DEF Enters
<1>5. QED
  BY <1>1, <1>2, <1>3, <1>4 DEF Queues

(* Then who is in a level is in level 0, and nobody is ready if it is      *)
(* empty.                                                                  *)
LEMMA OneLevelFacts ==
  ASSUME CommonInv, OneLevel
  PROVE  /\ \A p : InLevels(ready, p) <=> Contains(ready[0], p)
         /\ NobodyReady <=> ready[0] = <<>>
<1>1. 0 \in Levels
  BY LevelAssumption DEF Levels
<1>2. \A p : ~Contains(<<>>, p)
  BY DEF Contains
<1>3. QED
  BY <1>1, <1>2 DEF OneLevel, InLevels, NobodyReady

(* What the receive steps leave alone, or change.                          *)
LEMMA ReceiveSame ==
  ASSUME CommonInv, ReceiveDone \/ ReceiveTooBig \/ \E key \in [Procs -> Int] : ReceiveNoRoom(key)
  PROVE  /\ schedPc = "receive" /\ schedPc' \in {"receive", "dispatch"}
         /\ UNCHANGED <<input, clk, currClk, ready, currentPCB, finishedProcesses>>
         /\ pcb' \in [Procs -> PCB]
         /\ \A p \in Procs : \/ pcb'[p] = pcb[p]
                             \/ /\ pcb[p].state = "none" /\ pcb'[p].state = "Ready"
                                /\ pcb'[p].remainingTime = pcb[p].remainingTime
<1>1. CASE ReceiveDone
  BY <1>1 DEF ReceiveDone, SchedTo, clkVars, bodyVars, queueVars, CommonInv, DataInv, DataTyped
<1>2. CASE ReceiveTooBig \/ \E key \in [Procs -> Int] : ReceiveNoRoom(key)
  <2>1. /\ SchedTake /\ pcb' = Receive(pcb, New)
        /\ UNCHANGED <<ready, currentPCB, finishedProcesses>>
    BY <1>2 DEF ReceiveTooBig, ReceiveNoRoom, queueVars
  <2>2. /\ schedPc = "receive" /\ msgq # <<>> /\ UNCHANGED <<input, clk, schedPc, currClk>>
    BY <2>1 DEF SchedTake, clkVars, schedHead
  <2>3. msgq \in Seq(Procs) /\ pcb \in [Procs -> PCB]
    BY DEF CommonInv, TickTyped, DataInv, DataTyped
  <2>4. 1 \in DOMAIN msgq /\ New = msgq[1] /\ New \in Procs
    BY <2>2, <2>3 DEF New
  <2>5. pcb[New].state = "none"
    BY <2>4 DEF CommonInv, Served!SentInv, Served!SentOnce, Received
  <2>6. Changes(pcb, pcb', New, "Ready")
    BY <2>1, <2>3, <2>4, ReceiveFacts
  <2>7. QED
    BY <2>1, <2>2, <2>5, <2>6 DEF Changes
<1>3. QED
  BY <1>1, <1>2

(* The new process was nowhere before; nobody else starts.                 *)
LEMMA AdmitOthers ==
  ASSUME CommonInv, NEW queues, NEW takesCPU \in BOOLEAN, ReceiveAdmit(queues, takesCPU)
  PROVE  /\ schedPc = "receive" /\ schedPc' = "receive" /\ ready' = queues
         /\ currentPCB' = IF takesCPU THEN New ELSE currentPCB
         /\ UNCHANGED <<input, clk, currClk, finishedProcesses>>
         /\ New \in Procs /\ pcb[New].state = "none"
         /\ StartKept
<1>1. /\ schedPc = "receive" /\ schedPc' = "receive" /\ ready' = queues
      /\ currentPCB' = IF takesCPU THEN New ELSE currentPCB
      /\ UNCHANGED <<input, clk, currClk, finishedProcesses>>
  BY DEF ReceiveAdmit, SchedTake, schedHead, clkVars
<1>2. New \in Procs /\ pcb[New].state = "none"
  <2>1. SchedTake /\ msgq \in Seq(Procs)
    BY DEF ReceiveAdmit, CommonInv, TickTyped
  <2>2. 1 \in DOMAIN msgq /\ New = msgq[1] /\ New \in Procs
    BY <2>1 DEF New, SchedTake
  <2>3. QED
    BY <2>2 DEF CommonInv, Served!SentInv, Served!SentOnce, Received
<1>3. \A q \in Procs \ {New} : pcb'[q].startTime = pcb[q].startTime
  BY AdmitPcbs
<1>4. QED
  BY <1>1, <1>2, <1>3 DEF StartKept

-----------------------------------------------------------------------------
(* Round robin.                                                            *)

(* A process that has been on the CPU is resumed with the startTime it     *)
(* had.                                                                    *)
LEMMA StartOrResumeFacts ==
  ASSUME NEW pcbs \in [Procs -> PCB], NEW p \in Procs, currClk \in Nat
  PROVE  LET new == StartOrResume(pcbs, p)
         IN /\ Changes(pcbs, new, p, "Running")
            /\ pcbs[p].state # "Ready" => new[p].startTime = pcbs[p].startTime
            /\ new[p].startTime \in {currClk, pcbs[p].startTime}
            /\ new[p].memoryNode = pcbs[p].memoryNode
BY StartFacts, ResumeFacts DEF StartOrResume

(* Round robin appends, so the front of its queue stays the running        *)
(* process, or is the new one.                                             *)
LEMMA RRReceiveKeeps ==
  ASSUME CommonInv, RRInv, RRReceive
  PROVE  CommonInv' /\ AsSeen /\ RRInv' /\ StartKept
<1>1. UNCHANGED quantum_passed
  BY DEF RRReceive
<1>2. bufferKey \in [Procs -> Int]
  BY DEF bufferKey
<1>3. CASE ReceiveTooBig \/ ReceiveNoRoom(bufferKey) \/ ReceiveDone
  <2>1. CommonInv' /\ AsSeen
    BY <1>2, <1>3, TooBigKeeps, NoRoomKeeps, DoneKeeps DEF AsSeen, Served!ServerNext, Served!Server
  <2>2. /\ schedPc = "receive" /\ schedPc' \in {"receive", "dispatch"}
        /\ UNCHANGED <<ready, currentPCB>> /\ StartKept
    BY <1>2, <1>3, ReceiveSame DEF StartKept
  <2>3. QED
    BY <1>1, <2>1, <2>2 DEF RRInv, OneLevel, FrontRuns, RR_Queue
<1>4. CASE ReceiveAdmit(OneQueue(enqueue(RR_Queue, New)), currentPCB = NULL)
  <2> DEFINE queue == enqueue(RR_Queue, New)
             queues == OneQueue(queue)
             takes == currentPCB = NULL
  <2>1. takes \in BOOLEAN /\ ReceiveAdmit(queues, takes)
    BY <1>4
  <2> HIDE DEF queues
  <2>2. /\ schedPc = "receive" /\ schedPc' = "receive" /\ ready' = queues
        /\ currentPCB' = IF takes THEN New ELSE currentPCB
        /\ New \in Procs /\ StartKept
    BY <2>1, AdmitOthers
  <2> HIDE DEF takes
  <2>4. RR_Queue \in Seq(Procs)
    BY OneQueueFacts, EmptySeq DEF RR_Queue
  <2>5. /\ queue \in Seq(Procs) /\ queue # <<>> /\ PutIn(RR_Queue, queue, New)
        /\ Head(queue) = IF RR_Queue = <<>> THEN New ELSE Head(RR_Queue)
    BY <2>2, <2>4, EnqueuePuts
  <2> HIDE DEF queue
  <2>6. /\ Enters(ready, queues, New) /\ queues[0] = queue
        /\ \A l \in Levels \ {0} : queues[l] = ready[l]
    BY <2>2, <2>5, OneQueueFacts DEF RR_Queue, queues
  <2>7. CommonInv' /\ AsSeen
    BY <2>1, <2>6, AdmitKeeps DEF AsSeen, Served!ServerNext, Served!Server
  <2>8. FrontRuns'
    <3>1. currentPCB = IF RR_Queue = <<>> THEN NULL ELSE Head(RR_Queue)
      BY <2>2 DEF RRInv, FrontRuns, peek
    <3>2. RR_Queue # <<>> => Head(RR_Queue) # NULL
      BY <2>4, NullAssumption, DequeueTakes
    <3>3. currentPCB' = Head(queue)
      BY <2>2, <2>5, <3>1, <3>2 DEF takes
    <3>4. QED
      BY <2>2, <2>5, <2>6, <3>3 DEF FrontRuns, peek, RR_Queue
  <2>9. QED
    BY <1>1, <2>2, <2>6, <2>7, <2>8 DEF RRInv, OneLevel
<1>5. QED
  BY <1>3, <1>4 DEF RRReceive

(* A finish takes away the front, which is the process that ran.           *)
LEMMA RRDispatchKeeps ==
  ASSUME CommonInv, RRInv, RRDispatch
  PROVE  CommonInv' /\ AsSeen /\ RRInv' /\ StartKept
<1>1. CASE Return /\ UNCHANGED quantum_passed
  <2>1. CommonInv' /\ AsSeen
    BY <1>1, ReturnKeeps DEF AsSeen, Served!ServerNext, Served!Server
  <2>2. schedPc' = "returned" /\ UNCHANGED <<ready, currentPCB, pcb, quantum_passed>>
        /\ schedPc = "dispatch"
    BY <1>1 DEF Return, SchedTo, bodyVars, queueVars
  <2>3. QED
    BY <2>1, <2>2 DEF RRInv, OneLevel, FrontRuns, RR_Queue, StartKept
<1>2. CASE (Idle("quantum") \/ Continue("quantum")) /\ UNCHANGED quantum_passed
  <2>1. CommonInv' /\ AsSeen
    BY <1>2, WaitKeeps, Labels
  <2>2. schedPc' = "quantum" /\ UNCHANGED <<ready, currentPCB, pcb, quantum_passed>>
        /\ schedPc = "dispatch"
    BY <1>2 DEF Idle, Continue, SchedTo, bodyVars, queueVars
  <2>3. QED
    BY <2>1, <2>2 DEF RRInv, OneLevel, FrontRuns, RR_Queue, StartKept
<1>3. CASE Finish(OneQueue(dequeue(RR_Queue))) /\ quantum_passed' = 0
  <2> DEFINE queue == dequeue(RR_Queue)
             queues == OneQueue(queue)
  <2>1. /\ currentPCB \in Procs /\ schedPc' = "scan" /\ ready' = queues
    BY <1>3 DEF Finish, SchedTo, CommonInv, DataInv, DataTyped
  <2>2. RR_Queue \in Seq(Procs)
    BY OneQueueFacts, EmptySeq DEF RR_Queue
  <2>3. /\ queue \in Seq(Procs)
        /\ RR_Queue # <<>> => PutIn(queue, RR_Queue, Head(RR_Queue)) /\ Head(RR_Queue) \in Procs
        /\ RR_Queue = <<>> => queue = <<>>
    BY <2>2, DequeueTakes
  <2> HIDE DEF queue
  <2>4. \A q : Contains(queue, q) => Contains(RR_Queue, q)
    BY <2>2, <2>3, PutInFacts
  <2>5. /\ queues \in Queues /\ queues[0] = queue
        /\ \A l \in Levels \ {0} : queues[l] = ready[l]
    BY <2>3, OneQueueFacts
  <2>6. Finish(queues)
    BY <1>3 DEF queue
  <2> HIDE DEF queues
  <2>7. \A p \in Procs : InLevels(queues, p) => InLevels(ready, p)
    BY <2>4, <2>5, OneQueueFacts DEF InLevels, RR_Queue
  <2>8. /\ CommonInv' /\ AsSeen /\ Changes(pcb, pcb', currentPCB, "Finished")
        /\ pcb'[currentPCB].startTime = pcb[currentPCB].startTime
    BY <2>5, <2>6, <2>7, FinishKeeps
  <2>9. StartKept
    BY <2>1, <2>8 DEF StartKept, Changes
  <2>10. QED
    BY <1>3, <2>1, <2>5, <2>8, <2>9, QuantumAssumption DEF RRInv, OneLevel, FrontRuns
<1>4. QED
  BY <1>1, <1>2, <1>3 DEF RRDispatch

(* After a finish the scan gives the CPU to the new front.                 *)
LEMMA RRScanKeeps ==
  ASSUME CommonInv, RRInv, RRScan
  PROVE  CommonInv' /\ AsSeen /\ RRInv' /\ StartKept
<1>1. UNCHANGED quantum_passed
  BY DEF RRScan
<1>2. RR_Queue \in Seq(Procs) /\ ready \in Queues /\ pcb \in [Procs -> PCB] /\ currClk \in Nat
  BY OneQueueFacts, EmptySeq DEF RR_Queue, CommonInv, TickTyped, DataInv, DataTyped
<1>3. CASE ScanAdmit(OneQueue(enqueue(RR_Queue, Head(ptr))))
  <2> DEFINE p == Head(ptr)
             queue == enqueue(RR_Queue, p)
             queues == OneQueue(queue)
  <2>1. ScanAdmit(queues) /\ schedPc = "scan" /\ schedPc' = "scan" /\ ready' = queues
    BY <1>3 DEF ScanAdmit, tickVars, schedHead
  <2>2. p \in Procs
    BY <2>1, DequeueTakes DEF ScanAdmit, CommonInv, DataInv, DataTyped
  <2> HIDE DEF p
  <2>3. queue \in Seq(Procs) /\ PutIn(RR_Queue, queue, p)
    BY <1>2, <2>2, EnqueuePuts
  <2> HIDE DEF queue
  <2>4. /\ Enters(ready, queues, p)
        /\ \A l \in Levels \ {0} : queues[l] = ready[l]
    BY <2>2, <2>3, OneQueueFacts DEF RR_Queue
  <2> HIDE DEF queues
  <2>5. /\ CommonInv' /\ AsSeen /\ Changes(pcb, pcb', p, "Ready")
        /\ pcb'[p].startTime = pcb[p].startTime
    BY <2>1, <2>4, ScanAdmitKeeps DEF p
  <2>6. StartKept
    BY <2>5 DEF StartKept, Changes
  <2>7. QED
    BY <1>1, <2>1, <2>4, <2>5, <2>6 DEF RRInv, OneLevel, FrontRuns
<1>4. CASE ScanSkip
  <2>1. schedPc = "scan" /\ schedPc' = "scan" /\ ready' = ready
    BY <1>4 DEF ScanSkip, tickVars, schedHead, queueVars
  <2>2. CommonInv' /\ AsSeen /\ StartKept
    BY <1>4, ScanSkipKeeps DEF StartKept
  <2>3. QED
    BY <1>1, <2>1, <2>2 DEF RRInv, OneLevel, FrontRuns
<1>5. CASE PickNobody("quantum")
  <2>1. CommonInv' /\ AsSeen
    BY <1>5, WaitKeeps, Labels
  <2>2. /\ schedPc = "scan" /\ schedPc' = "quantum" /\ NobodyReady
        /\ UNCHANGED <<ready, currentPCB, pcb>>
    BY <1>5 DEF PickNobody, SchedTo, bodyVars, queueVars
  <2>3. RR_Queue = <<>> /\ currentPCB = NULL
    BY <2>2, OneLevelFacts DEF RRInv, RR_Queue, CommonInv, DataInv
  <2>4. QED
    BY <1>1, <2>1, <2>2, <2>3 DEF RRInv, OneLevel, FrontRuns, peek, RR_Queue, StartKept
<1>6. CASE Pick(peek(RR_Queue, NULL), StartOrResume(pcb, peek(RR_Queue, NULL)), ready, "quantum")
  <2> DEFINE p == peek(RR_Queue, NULL)
             pcbs == StartOrResume(pcb, p)
  <2>1. /\ Pick(p, pcbs, ready, "quantum") /\ schedPc = "scan" /\ schedPc' = "quantum"
        /\ ~NobodyReady /\ currentPCB' = p /\ pcb' = pcbs /\ ready' = ready
    BY <1>6 DEF Pick, SchedTo
  <2>2. RR_Queue # <<>>
    BY <2>1, OneLevelFacts DEF RRInv, RR_Queue
  <2>3. p \in Procs /\ Contains(RR_Queue, p)
    BY <1>2, <2>2, DequeueTakes DEF peek
  <2>4. InLevels(ready, p)
    BY <2>3, OneLevelFacts DEF RRInv, RR_Queue
  <2> HIDE DEF p
  <2>5. /\ Changes(pcb, pcbs, p, "Running")
        /\ pcb[p].state # "Ready" => pcbs[p].startTime = pcb[p].startTime
    BY <1>2, <2>3, StartOrResumeFacts
  <2> HIDE DEF pcbs
  <2>6. CommonInv' /\ AsSeen
    BY <1>2, <2>1, <2>3, <2>4, <2>5, PickKeeps, Labels
  <2>7. StartKept
    BY <2>1, <2>5 DEF StartKept, Changes
  <2>8. QED
    BY <1>1, <2>1, <2>6, <2>7 DEF RRInv, OneLevel, FrontRuns, RR_Queue, p
<1>7. QED
  BY <1>3, <1>4, <1>5, <1>6 DEF RRScan

(* The end of a quantum: the process that ran goes from the front to the   *)
(* rear.                                                                   *)
LEMMA RotateKeeps ==
  ASSUME CommonInv, RRInv, Rotate
  PROVE  CommonInv' /\ AsSeen /\ RRInv' /\ StartKept
<1> DEFINE front == peek(RR_Queue, NULL)
           rest == dequeue(RR_Queue)
           rotated == enqueue(rest, front)
           next == peek(rotated, NULL)
<1>1. /\ schedPc = "quantum" /\ schedPc' = "run" /\ Len(RR_Queue) >= 2
      /\ ready' = OneQueue(rotated) /\ currentPCB' = next
      /\ pcb' = StartOrResume(Stop(pcb, currentPCB), next)
      /\ quantum_passed' = 0
      /\ UNCHANGED <<clkVars, sem, msgq, genVars, currClk>>
      /\ UNCHANGED <<tree, Memory_Buffer, finishedProcesses, countVars, ptr, cycleVars>>
  BY DEF Rotate, SchedTo
<1>2. RR_Queue \in Seq(Procs) /\ pcb \in [Procs -> PCB] /\ currClk \in Nat
  BY OneQueueFacts, EmptySeq DEF RR_Queue, CommonInv, TickTyped, DataInv, DataTyped
<1>3. RR_Queue # <<>>
  BY <1>1, EmptySeq
<1>4. /\ front \in Procs /\ Contains(RR_Queue, front) /\ rest \in Seq(Procs)
      /\ PutIn(rest, RR_Queue, front)
  BY <1>2, <1>3, DequeueTakes DEF peek
<1>5. currentPCB = front
  BY <1>1 DEF RRInv, FrontRuns
<1> HIDE DEF front, rest
<1>6. rotated \in Seq(Procs) /\ rotated # <<>> /\ PutIn(rest, rotated, front)
  BY <1>4, EnqueuePuts
<1> HIDE DEF rotated
<1>7. next \in Procs /\ Contains(rotated, next)
  BY <1>6, DequeueTakes DEF peek
<1>8. \A q : Contains(rotated, q) <=> Contains(RR_Queue, q)
  <2>1. \A q : Contains(rotated, q) <=> Contains(rest, q) \/ q = front
    BY <1>4, <1>6, PutInFacts
  <2>2. \A q : Contains(RR_Queue, q) <=> Contains(rest, q) \/ q = front
    BY <1>2, <1>4, PutInFacts
  <2>3. QED
    BY <2>1, <2>2
<1>9. /\ ready' \in Queues /\ ready'[0] = rotated
      /\ \A l \in Levels \ {0} : ready'[l] = ready[l]
  BY <1>1, <1>6, OneQueueFacts
<1>10. \A q \in Procs : InLevels(ready', q) \/ q = currentPCB' => q \in Accepted
  <2>1. \A q \in Procs : Contains(RR_Queue, q) => q \in Accepted
    BY OneLevelFacts DEF RRInv, RR_Queue, CommonInv, DataInv, OnlyReceived, Listed, InQueue, InLevels
  <2>2. \A q : InLevels(ready', q) => Contains(rotated, q)
    <3>1. \A q : ~Contains(<<>>, q)
      BY DEF Contains
    <3>2. QED
      BY <1>9, <3>1 DEF InLevels, RRInv, OneLevel
  <2>3. QED
    BY <1>1, <1>7, <1>8, <2>1, <2>2
<1> HIDE DEF next
<1>11. /\ pcb' \in [Procs -> PCB] /\ StartKept
       /\ \A q \in Procs : q \notin {front, next} => pcb'[q].state = pcb[q].state
       /\ pcb'[next].state = "Running"
       /\ next # front => pcb'[front].state = "Blocked"
  <2> DEFINE stopped == Stop(pcb, front)
  <2>1. /\ Changes(pcb, stopped, front, "Blocked")
        /\ stopped[front].startTime = pcb[front].startTime
    BY <1>2, <1>4, StopFacts
  <2> HIDE DEF stopped
  <2>2. /\ Changes(stopped, pcb', next, "Running")
        /\ stopped[next].state # "Ready" => pcb'[next].startTime = stopped[next].startTime
    BY <1>1, <1>2, <1>5, <1>7, <2>1, StartOrResumeFacts DEF Changes, stopped
  <2>3. QED
    BY <1>2, <1>4, <1>7, <2>1, <2>2 DEF Changes, StartKept
<1>12. Received' = Received
  <2>1. pcb[front].state # "none" /\ pcb[next].state # "none"
    BY <1>1, <1>4, <1>5, <1>7, <1>8, OneLevelFacts DEF RRInv, RR_Queue, CommonInv, DataInv,
       OnlyReceived, Listed, Accepted, Received, InQueue, InLevels
  <2>2. pcb'[next].state # "none" /\ pcb'[front].state # "none"
    BY <1>11
  <2>3. QED
    BY <1>11, <2>1, <2>2 DEF Received
<1>13. CommonInv' /\ AsSeen
  <2>1. idle_cycles' \in Nat /\ total_cycles' \in Nat
    BY <1>1 DEF CommonInv, DataInv, DataTyped, cycleVars
  <2>2. schedPc \in WorkPcs /\ schedPc' \in (WorkPcs \cup {"spin"}) \ {"scan"}
    BY <1>1, Labels
  <2>3. currentPCB' \in Procs \cup {NULL}
    BY <1>1, <1>7
  <2>4. QED
    BY <1>1, <1>9, <1>10, <1>11, <1>12, <2>1, <2>2, <2>3, MoveKeeps
<1>14. RRInv'
  BY <1>1, <1>9, QuantumAssumption DEF RRInv, OneLevel, FrontRuns, RR_Queue, next
<1>15. QED
  BY <1>11, <1>13, <1>14

(* The rest of the iteration counts the quantum.                           *)
LEMMA RRRestKeeps ==
  ASSUME CommonInv, RRInv, KeepCPU \/ RRCharge
  PROVE  CommonInv' /\ AsSeen /\ RRInv' /\ StartKept
<1>1. CASE KeepCPU
  <2>1. /\ schedPc = "quantum" /\ SchedTo("run") /\ schedPc' = "run"
        /\ quantum_passed' = IF quantum_passed = quantum THEN 0 ELSE quantum_passed
        /\ UNCHANGED <<tree, pcb, queueVars, currentPCB, countVars, ptr, ready,
                       idle_cycles, total_cycles>>
    BY <1>1 DEF KeepCPU, bodyVars, cycleVars, queueVars, SchedTo
  <2>2. CommonInv' /\ AsSeen
    <3>1. idle_cycles' \in Nat /\ total_cycles' \in Nat
      BY <2>1 DEF CommonInv, DataInv, DataTyped
    <3>2. QED
      BY <2>1, <3>1, LabelKeeps, Labels
  <2>3. QED
    BY <2>1, <2>2, QuantumAssumption DEF RRInv, OneLevel, FrontRuns, RR_Queue, StartKept
<1>2. CASE RRCharge
  <2>1. CommonInv' /\ AsSeen /\ StartKept
    BY <1>2, ChargeKeeps DEF RRCharge, Charged, StartKept
  <2>2. /\ schedPc = "run" /\ schedPc' = "spin" /\ UNCHANGED <<ready, currentPCB>>
        /\ quantum_passed' = IF currentPCB = NULL THEN quantum_passed ELSE quantum_passed + 1
    BY <1>2 DEF RRCharge, Charge, SchedTo, queueVars
  <2>3. QED
    BY <2>1, <2>2, QuantumAssumption DEF RRInv, OneLevel, FrontRuns, RR_Queue
<1>3. QED
  BY <1>1, <1>2

(* Every step of round robin.                                              *)
LEMMA RRKeeps ==
  ASSUME CommonInv, RRInv, RRBody
  PROVE  CommonInv' /\ AsSeen /\ RRInv' /\ StartKept
BY RRReceiveKeeps, RRDispatchKeeps, RRScanKeeps, RotateKeeps, RRRestKeeps DEF RRBody

-----------------------------------------------------------------------------
(* The two algorithms with a priority queue.                               *)

(* A priority queue with one process more is a queue of level 0, in order. *)
LEMMA EnqueueOne ==
  ASSUME CommonInv, OneLevel, NEW key \in [Procs -> Int], NEW p \in Procs
  PROVE  LET queue  == enqueuePriority(ready[0], p, key)
             levels == OneQueue(queue)
         IN /\ Enters(ready, levels, p)
            /\ levels[0] = queue
            /\ \A l \in Levels \ {0} : levels[l] = <<>>
            /\ \A q : Contains(queue, q) <=> Contains(ready[0], q) \/ q = p
            /\ SortedBy(ready[0], key) => SortedBy(queue, key)
<1> DEFINE queue == enqueuePriority(ready[0], p, key)
<1>1. ready[0] \in Seq(Procs)
  BY OneQueueFacts, EmptySeq
<1>2. /\ queue \in Seq(Procs) /\ PutIn(ready[0], queue, p)
      /\ SortedBy(ready[0], key) => SortedBy(queue, key)
  BY <1>1, EnqueuePriorityPuts
<1> HIDE DEF queue
<1>3. \A q : Contains(queue, q) <=> Contains(ready[0], q) \/ q = p
  BY <1>1, <1>2, PutInFacts
<1>4. /\ Enters(ready, OneQueue(queue), p) /\ OneQueue(queue)[0] = queue
      /\ \A l \in Levels \ {0} : OneQueue(queue)[l] = ready[l]
  BY <1>2, OneQueueFacts
<1>5. QED
  BY <1>2, <1>3, <1>4 DEF queue, OneLevel

(* A priority queue with a process taken out is one as well.               *)
LEMMA RemoveOne ==
  ASSUME CommonInv, OneLevel, NEW p \in Procs
  PROVE  LET queue  == removeNodePriority(ready[0], p)
             levels == OneQueue(queue)
         IN /\ levels \in Queues
            /\ levels[0] = queue
            /\ \A l \in Levels \ {0} : levels[l] = <<>>
            /\ levels = ready \/ Enters(levels, ready, p)
            /\ \A q : InLevels(levels, q) => InLevels(ready, q)
            /\ \A q : Contains(queue, q) => Contains(ready[0], q)
            /\ \A key \in [Procs -> Int] : SortedBy(ready[0], key) => SortedBy(queue, key)
<1> DEFINE queue == removeNodePriority(ready[0], p)
           levels == OneQueue(queue)
<1>1. ready[0] \in Seq(Procs) /\ ready \in Queues /\ 0 \in Levels
  BY OneQueueFacts, EmptySeq
<1>2. /\ queue \in Seq(Procs)
      /\ queue = ready[0] \/ PutIn(queue, ready[0], p)
  BY <1>1, RemoveNodeTakes
<1> HIDE DEF queue
<1>3. \A q : Contains(queue, q) => Contains(ready[0], q)
  BY <1>1, <1>2, PutInFacts
<1>4. ASSUME NEW key \in [Procs -> Int], SortedBy(ready[0], key) PROVE SortedBy(queue, key)
  BY <1>1, <1>2, <1>4, SortedWithout
<1>5. /\ levels \in Queues /\ levels[0] = queue
      /\ \A l \in Levels \ {0} : levels[l] = ready[l]
  BY <1>2, OneQueueFacts
<1> HIDE DEF levels
<1>6. levels = ready \/ Enters(levels, ready, p)
  <2>1. CASE queue = ready[0]
    <3>1. \A l \in Levels : levels[l] = ready[l]
      BY <1>5, <2>1
    <3>2. QED
      BY <1>1, <1>5, <3>1 DEF Queues
  <2>2. CASE PutIn(queue, ready[0], p)
    BY <1>1, <1>5, <2>2 DEF Enters
  <2>3. QED
    BY <1>2, <2>1, <2>2
<1>7. \A q : InLevels(levels, q) => InLevels(ready, q)
  BY <1>1, <1>3, <1>5 DEF InLevels
<1>8. QED
  BY <1>3, <1>4, <1>5, <1>6, <1>7 DEF queue, levels, OneLevel

(* The front of a sorted queue has the least key.                          *)
LEMMA FrontLeast ==
  ASSUME NEW S, NEW q \in Seq(S), q # <<>>, NEW key, SortedBy(q, key)
  PROVE  Head(q) \in S /\ Contains(q, Head(q)) /\ \A p : Contains(q, p) => key[Head(q)] <= key[p]
<1>1. Head(q) \in S /\ Contains(q, Head(q)) /\ Head(q) = q[1]
  BY DequeueTakes
<1>2. Len(q) \in Nat \ {0}
  BY EmptySeq
<1>3. ASSUME NEW p, Contains(q, p) PROVE key[Head(q)] <= key[p]
  <2>1. PICK i \in 1 .. Len(q) : q[i] = p
    BY <1>3 DEF Contains
  <2>2. 1 \in 1 .. Len(q) /\ 1 <= i
    BY <1>2
  <2>3. QED
    BY <1>1, <2>1, <2>2 DEF SortedBy
<1>4. QED
  BY <1>1, <1>3

-----------------------------------------------------------------------------
(* Highest priority first.  The process on the CPU has the highest         *)
(* priority, unless it is done and about to finish.                        *)
HPFInv ==
  /\ OneLevel
  /\ SortedBy(HPF_Queue, priority)
  /\ schedPc # "scan" /\ currentPCB = NULL => HPF_Queue = <<>>
  /\ currentPCB # NULL =>
       \/ schedPc \in {"receive", "dispatch"} /\ pcb[currentPCB].remainingTime = 0
       \/ \A p \in Procs : Contains(HPF_Queue, p) =>
            input[currentPCB].priority <= input[p].priority
  /\ schedPc \notin {"refill", "broken", "quantum"}

(* The key of the queue is the priority in the file.                       *)
LEMMA PriorityKeys ==
  ASSUME CommonInv
  PROVE  /\ priority \in [Procs -> Int]
         /\ \A p \in Procs : priority[p] = input[p].priority /\ input[p].priority \in Int
<1>1. \A p \in Procs : input[p].priority \in Int
  BY FileAssumption, LevelAssumption DEF CommonInv, TickTyped, Levels
<1>2. QED
  BY <1>1 DEF priority

(* A new process is compared with the running one, not with the queue:     *)
(* that is enough, because nobody in the queue is ahead of the running     *)
(* one.                                                                    *)
LEMMA HPFReceiveKeeps ==
  ASSUME CommonInv, HPFInv, HPFReceive
  PROVE  CommonInv' /\ AsSeen /\ HPFInv'
<1>1. priority \in [Procs -> Int]
  BY PriorityKeys
<1>2. CASE ReceiveTooBig \/ ReceiveNoRoom(priority) \/ ReceiveDone
  <2>1. CommonInv' /\ AsSeen
    BY <1>1, <1>2, TooBigKeeps, NoRoomKeeps, DoneKeeps DEF AsSeen, Served!ServerNext, Served!Server
  <2>2. /\ schedPc = "receive" /\ schedPc' \in {"receive", "dispatch"}
        /\ UNCHANGED <<input, ready, currentPCB>>
        /\ \A p \in Procs : pcb'[p].remainingTime = pcb[p].remainingTime
    BY <1>1, <1>2, ReceiveSame
  <2>3. priority' = priority /\ HPF_Queue' = HPF_Queue
    BY <2>2 DEF priority, HPF_Queue
  <2>4. currentPCB \in Procs \cup {NULL}
    BY DEF CommonInv, DataInv, DataTyped
  <2>5. QED
    BY <2>1, <2>2, <2>3, <2>4 DEF HPFInv, OneLevel
<1>3. CASE ReceiveAdmit(OneQueue(enqueuePriority(HPF_Queue, New, priority)), Preempts)
  <2> DEFINE queue == enqueuePriority(HPF_Queue, New, priority)
             queues == OneQueue(queue)
             takes == Preempts
  <2>1. takes \in BOOLEAN /\ ReceiveAdmit(queues, takes)
    BY <1>3 DEF Preempts
  <2> HIDE DEF queues
  <2>2. /\ schedPc = "receive" /\ schedPc' = "receive" /\ ready' = queues
        /\ currentPCB' = IF takes THEN New ELSE currentPCB
        /\ New \in Procs /\ UNCHANGED input
    BY <2>1, AdmitOthers
  <2>3. /\ Enters(ready, queues, New) /\ queues[0] = queue
        /\ \A l \in Levels \ {0} : queues[l] = <<>>
        /\ \A q : Contains(queue, q) <=> Contains(HPF_Queue, q) \/ q = New
        /\ SortedBy(queue, priority)
    BY <1>1, <2>2, EnqueueOne DEF HPFInv, HPF_Queue, queues
  <2> HIDE DEF queue
  <2>4. CommonInv' /\ AsSeen
    BY <2>1, <2>3, AdmitKeeps DEF AsSeen, Served!ServerNext, Served!Server
  <2>5. HPF_Queue' = queue /\ priority' = priority
    BY <2>2, <2>3 DEF HPF_Queue, priority
  <2>6. \A p \in Procs : input[p].priority \in Int
    BY PriorityKeys
  <2>7. currentPCB \in Procs \cup {NULL}
    BY DEF CommonInv, DataInv, DataTyped
  <2>8. /\ currentPCB' # NULL
        /\ \/ schedPc' \in {"receive", "dispatch"} /\ pcb'[currentPCB'].remainingTime = 0
           \/ \A p \in Procs : Contains(queue, p) =>
                input[currentPCB'].priority <= input[p].priority
    <3>1. CASE currentPCB = NULL
      <4>1. takes /\ HPF_Queue = <<>>
        BY <2>2, <3>1 DEF Preempts, HPFInv
      <4>2. \A p : ~Contains(<<>>, p)
        BY DEF Contains
      <4>3. \A p : Contains(queue, p) => p = New
        BY <2>3, <4>1, <4>2
      <4> HIDE DEF takes
      <4>4. QED
        BY <2>2, <2>6, <4>1, <4>3, NullAssumption
    <3>2. CASE currentPCB # NULL /\ takes
      <4>1. /\ input[New].priority < input[currentPCB].priority
            /\ pcb[currentPCB].remainingTime # 0
        BY <3>2 DEF Preempts
      <4>2. \A p \in Procs : Contains(HPF_Queue, p) =>
              input[currentPCB].priority <= input[p].priority
        BY <3>2, <4>1 DEF HPFInv
      <4>3. currentPCB' = New /\ currentPCB \in Procs
        BY <2>2, <2>7, <3>2
      <4>4. ASSUME NEW p \in Procs, Contains(queue, p)
            PROVE  input[New].priority <= input[p].priority
        <5>1. CASE p = New
          BY <2>6, <5>1
        <5>2. CASE Contains(HPF_Queue, p)
          BY <2>2, <2>6, <4>1, <4>2, <4>3, <5>2
        <5>3. QED
          BY <2>3, <4>4, <5>1, <5>2
      <4>5. QED
        BY <2>2, <4>3, <4>4, NullAssumption
    <3>3. CASE currentPCB # NULL /\ ~takes
      <4>1. currentPCB' = currentPCB /\ currentPCB \in Procs
        BY <2>2, <2>7, <3>3
      <4>2. pcb'[currentPCB].remainingTime = pcb[currentPCB].remainingTime
        BY <2>1, <4>1, AdmitPcbs
      <4>3. CASE pcb[currentPCB].remainingTime = 0
        BY <2>2, <4>1, <4>2, <4>3, NullAssumption
      <4>4. CASE pcb[currentPCB].remainingTime # 0
        <5>1. ~(input[New].priority < input[currentPCB].priority)
          BY <3>3, <4>4 DEF Preempts
        <5>2. input[currentPCB].priority <= input[New].priority
          BY <2>2, <2>6, <4>1, <5>1
        <5>3. \A p \in Procs : Contains(queue, p) =>
                input[currentPCB].priority <= input[p].priority
          BY <2>3, <3>3, <4>4, <5>2 DEF HPFInv
        <5>4. QED
          BY <3>3, <4>1, <5>3
      <4>5. QED
        BY <4>3, <4>4
    <3>4. QED
      BY <3>1, <3>2, <3>3
  <2>9. OneLevel'
    BY <2>2, <2>3 DEF OneLevel
  <2> HIDE DEF takes
  <2>10. HPFInv'
    BY <2>2, <2>3, <2>5, <2>8, <2>9 DEF HPFInv
  <2>11. QED
    BY <2>4, <2>10
<1>4. QED
  BY <1>2, <1>3 DEF HPFReceive

(* The process that is done leaves the queue wherever it is in it.         *)
LEMMA HPFDispatchKeeps ==
  ASSUME CommonInv, HPFInv, HPFDispatch
  PROVE  CommonInv' /\ AsSeen /\ HPFInv'
<1>1. priority \in [Procs -> Int]
  BY PriorityKeys
<1>2. CASE Return \/ Idle("run") \/ Continue("run")
  <2>1. CommonInv' /\ AsSeen
    BY <1>2, ReturnKeeps, WaitKeeps, Labels DEF AsSeen, Served!ServerNext, Served!Server
  <2>2. /\ schedPc = "dispatch" /\ schedPc' \in {"returned", "run"}
        /\ UNCHANGED <<input, ready, currentPCB, pcb>>
        /\ currentPCB # NULL => pcb[currentPCB].remainingTime # 0
    BY <1>2 DEF Return, Idle, Continue, SchedTo, bodyVars, queueVars, clkVars
  <2>3. priority' = priority /\ HPF_Queue' = HPF_Queue
    BY <2>2 DEF priority, HPF_Queue
  <2>4. QED
    BY <2>1, <2>2, <2>3 DEF HPFInv, OneLevel
<1>3. CASE Finish(OneQueue(removeNodePriority(HPF_Queue, currentPCB)))
  <2> DEFINE queue == removeNodePriority(HPF_Queue, currentPCB)
             queues == OneQueue(queue)
  <2>1. /\ currentPCB \in Procs /\ schedPc' = "scan" /\ ready' = queues /\ currentPCB' = NULL
        /\ UNCHANGED input
    BY <1>3 DEF Finish, SchedTo, CommonInv, DataInv, DataTyped, clkVars
  <2>2. Finish(queues)
    BY <1>3
  <2>3. /\ queues \in Queues /\ queues[0] = queue
        /\ \A l \in Levels \ {0} : queues[l] = <<>>
        /\ \A q : InLevels(queues, q) => InLevels(ready, q)
        /\ SortedBy(queue, priority)
    BY <1>1, <2>1, RemoveOne DEF HPFInv, HPF_Queue
  <2> HIDE DEF queue, queues
  <2>4. CommonInv' /\ AsSeen
    BY <2>2, <2>3, FinishKeeps
  <2>5. HPF_Queue' = queue /\ priority' = priority
    BY <2>1, <2>3 DEF HPF_Queue, priority
  <2>6. QED
    BY <2>1, <2>3, <2>4, <2>5 DEF HPFInv, OneLevel
<1>4. QED
  BY <1>2, <1>3 DEF HPFDispatch

(* After a finish the scan gives the CPU to the front, which is the least. *)
LEMMA HPFScanKeeps ==
  ASSUME CommonInv, HPFInv, HPFScan
  PROVE  CommonInv' /\ AsSeen /\ HPFInv'
<1>1. /\ priority \in [Procs -> Int]
      /\ \A p \in Procs : priority[p] = input[p].priority
  BY PriorityKeys
<1>2. HPF_Queue \in Seq(Procs) /\ ready \in Queues /\ pcb \in [Procs -> PCB] /\ currClk \in Nat
  BY OneQueueFacts, EmptySeq DEF HPF_Queue, CommonInv, TickTyped, DataInv, DataTyped
<1>3. schedPc = "scan" /\ currentPCB = NULL /\ input' = input
  BY DEF HPFScan, ScanAdmit, ScanSkip, PickNobody, Pick, CommonInv, DataInv, SchedTo, tickVars, clkVars
<1>4. CASE ScanAdmit(OneQueue(enqueuePriority(HPF_Queue, Head(ptr), priority)))
  <2> DEFINE p == Head(ptr)
             queue == enqueuePriority(HPF_Queue, p, priority)
             queues == OneQueue(queue)
  <2>1. /\ ScanAdmit(queues) /\ schedPc' = "scan" /\ ready' = queues
        /\ currentPCB' = NULL
    BY <1>3, <1>4 DEF ScanAdmit, tickVars, schedHead
  <2>2. p \in Procs
    BY <2>1, DequeueTakes DEF ScanAdmit, CommonInv, DataInv, DataTyped
  <2>3. /\ Enters(ready, queues, p) /\ queues[0] = queue
        /\ \A l \in Levels \ {0} : queues[l] = <<>>
        /\ SortedBy(queue, priority)
    BY <1>1, <2>2, EnqueueOne DEF HPFInv, HPF_Queue
  <2> HIDE DEF queue, queues
  <2>4. CommonInv' /\ AsSeen
    BY <2>1, <2>3, ScanAdmitKeeps
  <2>5. HPF_Queue' = queue /\ priority' = priority
    BY <1>3, <2>1, <2>3 DEF HPF_Queue, priority
  <2>6. QED
    BY <2>1, <2>3, <2>4, <2>5 DEF HPFInv, OneLevel
<1>5. CASE ScanSkip
  <2>1. /\ schedPc' = "scan" /\ ready' = ready /\ currentPCB' = NULL
    BY <1>3, <1>5 DEF ScanSkip, tickVars, schedHead, queueVars
  <2>2. CommonInv' /\ AsSeen
    BY <1>5, ScanSkipKeeps
  <2>3. HPF_Queue' = HPF_Queue /\ priority' = priority
    BY <1>3, <2>1 DEF HPF_Queue, priority
  <2>4. QED
    BY <2>1, <2>2, <2>3 DEF HPFInv, OneLevel
<1>6. CASE PickNobody("run")
  <2>1. CommonInv' /\ AsSeen
    BY <1>6, WaitKeeps, Labels
  <2>2. schedPc' = "run" /\ NobodyReady /\ ready' = ready /\ currentPCB' = NULL
    BY <1>3, <1>6 DEF PickNobody, SchedTo, bodyVars, queueVars
  <2>3. HPF_Queue = <<>> /\ HPF_Queue' = HPF_Queue /\ priority' = priority
    BY <1>3, <2>2, OneLevelFacts DEF HPFInv, HPF_Queue, priority
  <2>4. QED
    BY <2>1, <2>2, <2>3 DEF HPFInv, OneLevel
<1>7. CASE Pick(peek(HPF_Queue, NULL), Start(pcb, peek(HPF_Queue, NULL)), ready, "run")
  <2> DEFINE p == peek(HPF_Queue, NULL)
             pcbs == Start(pcb, p)
  <2>1. /\ Pick(p, pcbs, ready, "run") /\ schedPc' = "run"
        /\ ~NobodyReady /\ currentPCB' = p /\ ready' = ready
    BY <1>7 DEF Pick, SchedTo
  <2>2. HPF_Queue # <<>>
    BY <2>1, OneLevelFacts DEF HPFInv, HPF_Queue
  <2>3. /\ p \in Procs /\ Contains(HPF_Queue, p)
        /\ \A q : Contains(HPF_Queue, q) => priority[p] <= priority[q]
    BY <1>2, <2>2, FrontLeast DEF peek, HPFInv
  <2>4. InLevels(ready, p)
    BY <2>3, OneLevelFacts DEF HPFInv, HPF_Queue
  <2> HIDE DEF p
  <2>5. Changes(pcb, pcbs, p, "Running")
    BY <1>2, <2>3, StartFacts
  <2> HIDE DEF pcbs
  <2>6. CommonInv' /\ AsSeen
    BY <1>2, <2>1, <2>3, <2>4, <2>5, PickKeeps, Labels
  <2>7. HPF_Queue' = HPF_Queue /\ priority' = priority
    BY <1>3, <2>1 DEF HPF_Queue, priority
  <2>8. \A q \in Procs : Contains(HPF_Queue, q) => input[p].priority <= input[q].priority
    BY <1>1, <2>3
  <2>9. p # NULL
    BY <2>3, NullAssumption
  <2>10. QED
    BY <1>3, <2>1, <2>6, <2>7, <2>8, <2>9 DEF HPFInv, OneLevel
<1>8. QED
  BY <1>4, <1>5, <1>6, <1>7 DEF HPFScan

(* Every step of highest priority first.                                   *)
LEMMA HPFKeeps ==
  ASSUME CommonInv, HPFInv, HPFBody
  PROVE  CommonInv' /\ AsSeen /\ HPFInv'
<1>1. CASE Charge
  <2>1. CommonInv' /\ AsSeen
    BY <1>1, ChargeKeeps
  <2>2. schedPc = "run" /\ schedPc' = "spin" /\ UNCHANGED <<input, ready, currentPCB>>
    BY <1>1 DEF Charge, SchedTo, queueVars, clkVars
  <2>3. HPF_Queue' = HPF_Queue /\ priority' = priority
    BY <2>2 DEF HPF_Queue, priority
  <2>4. QED
    BY <2>1, <2>2, <2>3 DEF HPFInv, OneLevel
<1>2. QED
  BY <1>1, HPFReceiveKeeps, HPFDispatchKeeps, HPFScanKeeps DEF HPFBody

-----------------------------------------------------------------------------
(* Shortest job first.  Once a process has finished in this tick, whoever  *)
(* has got the CPU is the shortest of all; and nobody is ever stopped.     *)
FinishedBefore ==
  \A p \in Procs : Contains(finishedProcesses, p) =>
    /\ pcb[p].finishTime <= currClk
    /\ schedPc \in {"down", "receive", "dispatch"} => pcb[p].finishTime < currClk
    /\ schedPc = "read" => pcb[p].finishTime < clk

ShortestNow ==
  \A p, q \in Procs :
    /\ schedPc \in {"run", "spin"} /\ currentPCB # NULL
    /\ Contains(finishedProcesses, p) /\ pcb[p].finishTime = currClk
    /\ Contains(SJF_Queue, q)
    => input[currentPCB].executionTime <= input[q].executionTime

SJFInv ==
  /\ OneLevel
  /\ SortedBy(SJF_Queue, executionTime)
  /\ \A p \in Procs : pcb[p].state # "Blocked" /\ (pcb[p].state = "Running" => p = currentPCB)
  /\ FinishedBefore
  /\ ShortestNow
  /\ schedPc \notin {"refill", "broken", "quantum"}

(* The key of the queue is the execution time in the file.                 *)
LEMMA TimeKeys ==
  ASSUME CommonInv
  PROVE  /\ executionTime \in [Procs -> Int]
         /\ \A p \in Procs : executionTime[p] = input[p].executionTime
<1>1. \A p \in Procs : input[p].executionTime \in Int
  BY FileAssumption DEF CommonInv, TickTyped
<1>2. QED
  BY <1>1 DEF executionTime

(* Nobody is preempted: a new process gets the CPU only if it is free.     *)
LEMMA SJFReceiveKeeps ==
  ASSUME CommonInv, SJFInv, SJFReceive
  PROVE  CommonInv' /\ AsSeen /\ SJFInv' /\ StartKept
<1>1. executionTime \in [Procs -> Int]
  BY TimeKeys
<1>2. \A p \in Procs : Contains(finishedProcesses, p) => pcb[p].state # "none"
  BY DEF CommonInv, DataInv, OnlyReceived, Listed, Accepted, Received
<1>3. CASE ReceiveTooBig \/ ReceiveNoRoom(executionTime) \/ ReceiveDone
  <2>1. CommonInv' /\ AsSeen
    BY <1>1, <1>3, TooBigKeeps, NoRoomKeeps, DoneKeeps DEF AsSeen, Served!ServerNext, Served!Server
  <2>2. /\ schedPc = "receive" /\ schedPc' \in {"receive", "dispatch"}
        /\ UNCHANGED <<input, clk, currClk, ready, currentPCB, finishedProcesses>>
        /\ \A p \in Procs : \/ pcb'[p] = pcb[p]
                            \/ pcb[p].state = "none" /\ pcb'[p].state = "Ready"
    BY <1>1, <1>3, ReceiveSame
  <2>3. executionTime' = executionTime /\ SJF_Queue' = SJF_Queue
    BY <2>2 DEF executionTime, SJF_Queue
  <2>4. FinishedBefore' /\ ShortestNow'
    BY <1>2, <2>2 DEF SJFInv, FinishedBefore, ShortestNow
  <2>5. StartKept
    BY <2>2 DEF StartKept
  <2>6. QED
    BY <2>1, <2>2, <2>3, <2>4, <2>5 DEF SJFInv, OneLevel
<1>4. CASE ReceiveAdmit(OneQueue(enqueuePriority(SJF_Queue, New, executionTime)), currentPCB = NULL)
  <2> DEFINE queue == enqueuePriority(SJF_Queue, New, executionTime)
             queues == OneQueue(queue)
             takes == currentPCB = NULL
  <2>1. takes \in BOOLEAN /\ ReceiveAdmit(queues, takes)
    BY <1>4
  <2> HIDE DEF queues
  <2>2. /\ schedPc = "receive" /\ schedPc' = "receive" /\ ready' = queues
        /\ currentPCB' = IF takes THEN New ELSE currentPCB
        /\ UNCHANGED <<input, clk, currClk, finishedProcesses>>
        /\ New \in Procs /\ pcb[New].state = "none" /\ StartKept
    BY <2>1, AdmitOthers
  <2>3. /\ Enters(ready, queues, New) /\ queues[0] = queue
        /\ \A l \in Levels \ {0} : queues[l] = <<>>
        /\ SortedBy(queue, executionTime)
    BY <1>1, <2>2, EnqueueOne DEF SJFInv, SJF_Queue, queues
  <2> HIDE DEF queue
  <2>4. CommonInv' /\ AsSeen
    BY <2>1, <2>3, AdmitKeeps DEF AsSeen, Served!ServerNext, Served!Server
  <2>5. SJF_Queue' = queue /\ executionTime' = executionTime
    BY <2>2, <2>3 DEF SJF_Queue, executionTime
  <2>6. /\ \A q \in Procs \ {New} : pcb'[q] = pcb[q]
        /\ pcb'[New].state = IF takes THEN "Running" ELSE "Ready"
    <3>1. \A q \in Procs : ~(takes /\ q = currentPCB)
      BY NullAssumption
    <3> HIDE DEF takes
    <3>2. QED
      BY <2>1, <3>1, AdmitPcbs
  <2>7. \A p \in Procs : /\ pcb'[p].state # "Blocked"
                         /\ pcb'[p].state = "Running" => p = currentPCB'
    BY <2>2, <2>6, NullAssumption DEF SJFInv
  <2>8. FinishedBefore' /\ ShortestNow'
    BY <1>2, <2>2, <2>6 DEF SJFInv, FinishedBefore, ShortestNow
  <2> HIDE DEF takes
  <2>9. OneLevel'
    BY <2>2, <2>3 DEF OneLevel
  <2>10. SJFInv'
    BY <2>2, <2>3, <2>5, <2>7, <2>8, <2>9 DEF SJFInv
  <2>11. QED
    BY <2>2, <2>4, <2>10
<1>5. QED
  BY <1>3, <1>4 DEF SJFReceive

(* The finish time of the process that is done is the tick that is         *)
(* running.                                                                *)
LEMMA SJFDispatchKeeps ==
  ASSUME CommonInv, SJFInv, SJFDispatch
  PROVE  CommonInv' /\ AsSeen /\ SJFInv' /\ StartKept
<1>1. executionTime \in [Procs -> Int]
  BY TimeKeys
<1>2. /\ currClk \in Int
      /\ \A p \in Procs : pcb[p].finishTime \in Int
  BY DEF CommonInv, TickTyped, DataInv, DataTyped, PCB
<1>3. CASE Return \/ Idle("run") \/ Continue("run")
  <2>1. CommonInv' /\ AsSeen
    BY <1>3, ReturnKeeps, WaitKeeps, Labels DEF AsSeen, Served!ServerNext, Served!Server
  <2>2. /\ schedPc = "dispatch" /\ schedPc' \in {"returned", "run"}
        /\ UNCHANGED <<input, clk, currClk, ready, finishedProcesses, currentPCB, pcb>>
    BY <1>3 DEF Return, Idle, Continue, SchedTo, bodyVars, queueVars, clkVars
  <2>3. executionTime' = executionTime /\ SJF_Queue' = SJF_Queue
    BY <2>2 DEF executionTime, SJF_Queue
  <2>4. FinishedBefore'
    BY <2>2 DEF SJFInv, FinishedBefore
  <2>5. ShortestNow'
    BY <1>2, <2>2 DEF SJFInv, FinishedBefore, ShortestNow
  <2>6. QED
    BY <2>1, <2>2, <2>3, <2>4, <2>5 DEF SJFInv, OneLevel, StartKept
<1>4. CASE Finish(OneQueue(removeNodePriority(SJF_Queue, currentPCB)))
  <2> DEFINE queue == removeNodePriority(SJF_Queue, currentPCB)
             queues == OneQueue(queue)
  <2>1. /\ currentPCB \in Procs /\ schedPc = "dispatch" /\ schedPc' = "scan"
        /\ ready' = queues /\ currentPCB' = NULL
        /\ UNCHANGED <<input, clk, currClk>>
    BY <1>4 DEF Finish, SchedTo, CommonInv, DataInv, DataTyped, clkVars
  <2>2. Finish(queues)
    BY <1>4
  <2>3. /\ queues \in Queues /\ queues[0] = queue
        /\ \A l \in Levels \ {0} : queues[l] = <<>>
        /\ \A q : InLevels(queues, q) => InLevels(ready, q)
        /\ SortedBy(queue, executionTime)
    BY <1>1, <2>1, RemoveOne DEF SJFInv, SJF_Queue
  <2> HIDE DEF queue, queues
  <2>4. /\ CommonInv' /\ AsSeen /\ Changes(pcb, pcb', currentPCB, "Finished")
        /\ pcb'[currentPCB].startTime = pcb[currentPCB].startTime
        /\ pcb'[currentPCB].finishTime = currClk
        /\ PutIn(finishedProcesses, finishedProcesses', currentPCB)
    BY <2>2, <2>3, FinishKeeps
  <2>5. SJF_Queue' = queue /\ executionTime' = executionTime
    BY <2>1, <2>3 DEF SJF_Queue, executionTime
  <2>6. \A q : Contains(finishedProcesses', q) <=> Contains(finishedProcesses, q) \/ q = currentPCB
    BY <2>1, <2>4, PutInFacts DEF CommonInv, DataInv, DataTyped
  <2>7. FinishedBefore'
    <3>1. ASSUME NEW p \in Procs, Contains(finishedProcesses', p)
          PROVE  pcb'[p].finishTime <= currClk
      <4>1. CASE p = currentPCB
        BY <1>2, <2>4, <4>1
      <4>2. CASE p # currentPCB
        BY <2>4, <2>6, <3>1, <4>2 DEF SJFInv, FinishedBefore, Changes
      <4>3. QED
        BY <4>1, <4>2
    <3>2. QED
      BY <2>1, <3>1 DEF FinishedBefore
  <2>8. ShortestNow' /\ OneLevel'
    BY <2>1, <2>3 DEF ShortestNow, OneLevel
  <2>9. StartKept /\ \A p \in Procs : pcb'[p].state \notin {"Blocked", "Running"}
    BY <2>4 DEF StartKept, SJFInv, Changes
  <2>10. QED
    BY <2>1, <2>3, <2>4, <2>5, <2>7, <2>8, <2>9 DEF SJFInv
<1>5. QED
  BY <1>3, <1>4 DEF SJFDispatch

(* After a finish the scan gives the CPU to the front, which is the        *)
(* shortest.                                                               *)
LEMMA SJFScanKeeps ==
  ASSUME CommonInv, SJFInv, SJFScan
  PROVE  CommonInv' /\ AsSeen /\ SJFInv' /\ StartKept
<1>1. /\ executionTime \in [Procs -> Int]
      /\ \A p \in Procs : executionTime[p] = input[p].executionTime
  BY TimeKeys
<1>2. /\ SJF_Queue \in Seq(Procs) /\ ready \in Queues /\ pcb \in [Procs -> PCB]
      /\ currClk \in Nat /\ 0 <= currClk
  BY OneQueueFacts, EmptySeq DEF SJF_Queue, CommonInv, TickTyped, DataInv, DataTyped
<1>3. /\ schedPc = "scan" /\ currentPCB = NULL
      /\ UNCHANGED <<input, clk, currClk, finishedProcesses>>
  BY DEF SJFScan, ScanAdmit, ScanSkip, PickNobody, Pick, CommonInv, DataInv, SchedTo, tickVars,
     clkVars, schedHead, bodyVars, queueVars
<1>4. \A p \in Procs : pcb[p].state \notin {"Blocked", "Running"}
  BY <1>3, NullAssumption DEF SJFInv
<1>5. CASE ScanAdmit(OneQueue(enqueuePriority(SJF_Queue, Head(ptr), executionTime)))
  <2> DEFINE p == Head(ptr)
             queue == enqueuePriority(SJF_Queue, p, executionTime)
             queues == OneQueue(queue)
  <2>1. /\ ScanAdmit(queues) /\ schedPc' = "scan" /\ ready' = queues
        /\ currentPCB' = NULL
    BY <1>3, <1>5 DEF ScanAdmit, tickVars, schedHead
  <2>2. p \in Procs
    BY <2>1, DequeueTakes DEF ScanAdmit, CommonInv, DataInv, DataTyped
  <2>3. /\ Enters(ready, queues, p) /\ queues[0] = queue
        /\ \A l \in Levels \ {0} : queues[l] = <<>>
        /\ SortedBy(queue, executionTime)
    BY <1>1, <2>2, EnqueueOne DEF SJFInv, SJF_Queue
  <2> HIDE DEF queue, queues
  <2>4. /\ CommonInv' /\ AsSeen /\ Changes(pcb, pcb', p, "Ready") /\ pcb'[p].finishTime = 0
        /\ pcb'[p].startTime = pcb[p].startTime
    BY <2>1, <2>3, ScanAdmitKeeps
  <2>5. SJF_Queue' = queue /\ executionTime' = executionTime
    BY <1>3, <2>1, <2>3 DEF SJF_Queue, executionTime
  <2>6. StartKept /\ \A q \in Procs : pcb'[q].state \notin {"Blocked", "Running"}
    BY <1>4, <2>4 DEF StartKept, Changes
  <2>7. FinishedBefore'
    <3>1. ASSUME NEW q \in Procs, Contains(finishedProcesses, q)
          PROVE  pcb'[q].finishTime <= currClk
      BY <1>2, <2>4, <3>1 DEF SJFInv, FinishedBefore, Changes
    <3>2. QED
      BY <1>3, <2>1, <3>1 DEF FinishedBefore
  <2>8. ShortestNow' /\ OneLevel'
    BY <2>1, <2>3 DEF ShortestNow, OneLevel
  <2>9. QED
    BY <2>1, <2>3, <2>4, <2>5, <2>6, <2>7, <2>8 DEF SJFInv
<1>6. CASE ScanSkip
  <2>1. schedPc' = "scan" /\ ready' = ready /\ currentPCB' = NULL
    BY <1>3, <1>6 DEF ScanSkip, tickVars, schedHead, queueVars
  <2>2. /\ CommonInv' /\ AsSeen
        /\ \A q \in Procs : /\ pcb'[q].state = pcb[q].state
                            /\ pcb'[q].startTime = pcb[q].startTime
                            /\ pcb'[q].finishTime = pcb[q].finishTime
    BY <1>6, ScanSkipKeeps
  <2>3. SJF_Queue' = SJF_Queue /\ executionTime' = executionTime
    BY <1>3, <2>1 DEF SJF_Queue, executionTime
  <2>4. FinishedBefore' /\ ShortestNow' /\ OneLevel' /\ StartKept
    BY <1>3, <2>1, <2>2 DEF SJFInv, FinishedBefore, ShortestNow, OneLevel, StartKept
  <2>5. QED
    BY <1>4, <2>1, <2>2, <2>3, <2>4 DEF SJFInv
<1>7. CASE PickNobody("run")
  <2>1. CommonInv' /\ AsSeen
    BY <1>7, WaitKeeps, Labels
  <2>2. /\ schedPc' = "run" /\ ready' = ready /\ currentPCB' = NULL /\ pcb' = pcb
    BY <1>3, <1>7 DEF PickNobody, SchedTo, bodyVars, queueVars
  <2>3. SJF_Queue' = SJF_Queue /\ executionTime' = executionTime
    BY <1>3, <2>2 DEF SJF_Queue, executionTime
  <2>4. FinishedBefore' /\ ShortestNow' /\ OneLevel' /\ StartKept
    BY <1>3, <2>2 DEF SJFInv, FinishedBefore, ShortestNow, OneLevel, StartKept
  <2>5. QED
    BY <1>4, <2>1, <2>2, <2>3, <2>4 DEF SJFInv
<1>8. CASE Pick(peek(SJF_Queue, NULL), Start(pcb, peek(SJF_Queue, NULL)),
                OneQueue(dequeue(SJF_Queue)), "run")
  <2> DEFINE p == peek(SJF_Queue, NULL)
             pcbs == Start(pcb, p)
             queue == dequeue(SJF_Queue)
             queues == OneQueue(queue)
  <2>1. /\ Pick(p, pcbs, queues, "run") /\ schedPc' = "run"
        /\ ~NobodyReady /\ currentPCB' = p /\ ready' = queues /\ pcb' = pcbs
    BY <1>8 DEF Pick, SchedTo
  <2>2. SJF_Queue # <<>>
    BY <2>1, OneLevelFacts DEF SJFInv, SJF_Queue
  <2>3. /\ p \in Procs /\ Contains(SJF_Queue, p)
        /\ \A q : Contains(SJF_Queue, q) => executionTime[p] <= executionTime[q]
    BY <1>2, <2>2, FrontLeast DEF peek, SJFInv
  <2>4. queue \in Seq(Procs) /\ PutIn(queue, SJF_Queue, p)
    BY <1>2, <2>2, DequeueTakes DEF peek
  <2> HIDE DEF p, queue
  <2>5. /\ \A q : Contains(queue, q) => Contains(SJF_Queue, q)
        /\ SortedBy(queue, executionTime)
    BY <1>2, <2>3, <2>4, PutInFacts, SortedWithout DEF SJFInv
  <2>6. /\ queues \in Queues /\ queues[0] = queue
        /\ \A l \in Levels \ {0} : queues[l] = <<>>
    BY <2>4, OneQueueFacts DEF SJFInv, OneLevel
  <2> HIDE DEF queues
  <2>7. /\ InLevels(ready, p)
        /\ \A q \in Procs : InLevels(queues, q) => InLevels(ready, q)
    <3>1. \A q : ~Contains(<<>>, q)
      BY DEF Contains
    <3>2. QED
      BY <2>3, <2>5, <2>6, <3>1, OneLevelFacts DEF SJFInv, SJF_Queue, InLevels
  <2>8. Changes(pcb, pcbs, p, "Running") /\ pcbs[p].finishTime = 0
    BY <1>2, <2>3, StartFacts
  <2> HIDE DEF pcbs
  <2>9. CommonInv' /\ AsSeen
    BY <2>1, <2>3, <2>6, <2>7, <2>8, PickKeeps, Labels
  <2>10. SJF_Queue' = queue /\ executionTime' = executionTime
    BY <1>3, <2>1, <2>6 DEF SJF_Queue, executionTime
  <2>11. StartKept /\ \A q \in Procs : /\ pcb'[q].state # "Blocked"
                                       /\ pcb'[q].state = "Running" => q = p
    <3>1. InQueue(p)
      BY <2>7 DEF InLevels, InQueue
    <3>2. QED
      BY <1>4, <2>1, <2>8, <3>1 DEF StartKept, Changes
  <2>12. FinishedBefore'
    <3>1. ASSUME NEW q \in Procs, Contains(finishedProcesses, q)
          PROVE  pcb'[q].finishTime <= currClk
      BY <1>2, <2>1, <2>8, <3>1 DEF SJFInv, FinishedBefore, Changes
    <3>2. QED
      BY <1>3, <2>1, <3>1 DEF FinishedBefore
  <2>13. ShortestNow'
    <3>1. \A q \in Procs : Contains(queue, q) => input[p].executionTime <= input[q].executionTime
      BY <1>1, <2>3, <2>5
    <3>2. QED
      BY <1>3, <2>1, <2>10, <3>1 DEF ShortestNow
  <2>14. OneLevel'
    BY <2>1, <2>6 DEF OneLevel
  <2>15. QED
    BY <2>1, <2>5, <2>9, <2>10, <2>11, <2>12, <2>13, <2>14 DEF SJFInv
<1>9. QED
  BY <1>5, <1>6, <1>7, <1>8 DEF SJFScan

(* Every step of shortest job first.                                       *)
LEMMA SJFKeeps ==
  ASSUME CommonInv, SJFInv, SJFBody
  PROVE  CommonInv' /\ AsSeen /\ SJFInv' /\ StartKept
<1>1. CASE Charge
  <2>1. CommonInv' /\ AsSeen /\ Charged(pcb')
    BY <1>1, ChargeKeeps
  <2>2. /\ schedPc = "run" /\ schedPc' = "spin"
        /\ UNCHANGED <<input, clk, currClk, ready, finishedProcesses, currentPCB>>
    BY <1>1 DEF Charge, SchedTo, queueVars, clkVars
  <2>3. SJF_Queue' = SJF_Queue /\ executionTime' = executionTime
    BY <2>2 DEF SJF_Queue, executionTime
  <2>4. FinishedBefore' /\ ShortestNow' /\ StartKept
    BY <2>1, <2>2 DEF SJFInv, FinishedBefore, ShortestNow, StartKept, Charged, SJF_Queue
  <2>5. QED
    BY <2>1, <2>2, <2>3, <2>4 DEF SJFInv, OneLevel, Charged
<1>2. QED
  BY <1>1, SJFReceiveKeeps, SJFDispatchKeeps, SJFScanKeeps DEF SJFBody

-----------------------------------------------------------------------------
(* Multi-level feedback.                                                   *)

FeedbackTyped ==
  /\ quantum_passed \in 0 .. quantum
  /\ currentOccupiedLevel \in Levels \cup {-1}
  /\ reconstructing_buffer \in Seq(Procs)
  /\ staleNext \in [Procs -> Procs \cup {NULL}]
  /\ strayNode \in Procs \cup {NULL}

(* The buffer is in the order of the levels to which its processes return. *)
BufferInv ==
  /\ SortedBy(reconstructing_buffer, priorityKey)
  /\ \A p \in Procs : Contains(reconstructing_buffer, p) => p \in Accepted

(* A quantum can end only for a process, which then loses the CPU or has   *)
(* just returned from the buffer.                                          *)
QuantumInv ==
  /\ schedPc = "scan" => quantum_passed = 0
  /\ schedPc = "quantum" /\ currentPCB = NULL => quantum_passed = 0
  /\ schedPc = "run" /\ currentPCB # NULL => quantum_passed < quantum

(* The running process is the front of its level, outside the scan, which  *)
(* has just taken one away, and the refill, which sets the level last.     *)
LevelInv ==
  schedPc \notin {"scan", "refill", "broken"} =>
    IF currentPCB = NULL
    THEN currentOccupiedLevel = -1 /\ NobodyReady
    ELSE /\ currentOccupiedLevel \in Levels
         /\ ready[currentOccupiedLevel] # <<>>
         /\ currentPCB = Head(ready[currentOccupiedLevel])

(* The CPU is free over the end of an iteration only if the buffer is      *)
(* empty.                                                                  *)
IdleInv ==
  currentPCB = NULL /\ schedPc \notin {"scan", "quantum", "run", "broken"} =>
    reconstructing_buffer = <<>>

(* In the refill the running process is the front of the first occupied    *)
(* level, and nobody behind it in the buffer belongs to an earlier one.    *)
RefillInv ==
  schedPc = "refill" =>
    /\ currentPCB # NULL
    /\ ready[input[currentPCB].priority] # <<>>
    /\ currentPCB = Head(ready[input[currentPCB].priority])
    /\ \A l \in Levels : ready[l] # <<>> => input[currentPCB].priority <= l
    /\ \A p \in Procs : Contains(reconstructing_buffer, p) =>
         input[currentPCB].priority <= input[p].priority

MLFLInv ==
  FeedbackTyped /\ BufferInv /\ QuantumInv /\ LevelInv /\ IdleInv /\ RefillInv

(* Who is put into a level.                                                *)
LEMMA LevelPut ==
  ASSUME NEW levels \in Queues, NEW p \in Procs, NEW l \in Levels
  PROVE  LET new == enqueueMultiLevel(levels, p, l)
         IN /\ Enters(levels, new, p)
            /\ \A k \in Levels \ {l} : new[k] = levels[k]
            /\ new[l] # <<>>
            /\ Head(new[l]) = IF levels[l] = <<>> THEN p ELSE Head(levels[l])
<1> DEFINE new == enqueueMultiLevel(levels, p, l)
           queue == enqueue(levels[l], p)
<1>1. levels[l] \in Seq(Procs)
  BY DEF Queues
<1>2. /\ queue \in Seq(Procs) /\ queue # <<>> /\ PutIn(levels[l], queue, p)
      /\ Head(queue) = IF levels[l] = <<>> THEN p ELSE Head(levels[l])
  BY <1>1, EnqueuePuts
<1>3. new = [levels EXCEPT ![l] = queue]
  BY DEF enqueueMultiLevel
<1> HIDE DEF new, queue
<1>4. /\ new \in Queues /\ new[l] = queue
      /\ \A k \in Levels \ {l} : new[k] = levels[k]
  BY <1>2, <1>3 DEF Queues
<1>5. QED
  BY <1>2, <1>4 DEF Enters, new

(* Who is taken from the front of a level.                                 *)
LEMMA LevelTake ==
  ASSUME NEW levels \in Queues, NEW l \in Levels
  PROVE  LET new == dequeueMultiLevel(levels, l)
         IN /\ new \in Queues
            /\ \A k \in Levels \ {l} : new[k] = levels[k]
            /\ \A q : InLevels(new, q) => InLevels(levels, q)
<1> DEFINE new == dequeueMultiLevel(levels, l)
           queue == dequeue(levels[l])
<1>1. levels[l] \in Seq(Procs)
  BY DEF Queues
<1>2. /\ queue \in Seq(Procs)
      /\ levels[l] # <<>> => Head(levels[l]) \in Procs /\ PutIn(queue, levels[l], Head(levels[l]))
      /\ levels[l] = <<>> => queue = <<>>
  BY <1>1, DequeueTakes
<1>3. new = [levels EXCEPT ![l] = queue]
  BY DEF dequeueMultiLevel
<1> HIDE DEF new, queue
<1>4. /\ new \in Queues /\ new[l] = queue
      /\ \A k \in Levels \ {l} : new[k] = levels[k]
  BY <1>2, <1>3 DEF Queues
<1>5. \A q : Contains(queue, q) => Contains(levels[l], q)
  BY <1>1, <1>2, PutInFacts
<1>6. QED
  BY <1>4, <1>5 DEF InLevels, new

(* The front of the first level that is not empty.                         *)
LEMMA FirstLevel ==
  ASSUME NEW levels \in Queues
  PROVE  LET level == multiLevelisEmpty(levels)
             front == peek(levels[level], NULL)
         IN /\ level = -1 <=> \A l \in Levels : levels[l] = <<>>
            /\ level # -1 =>
                 /\ level \in Levels /\ levels[level] # <<>>
                 /\ front = Head(levels[level]) /\ front \in Procs /\ front # NULL
                 /\ InLevels(levels, front)
                 /\ \A l \in Levels : levels[l] # <<>> => level <= l
<1> DEFINE level == multiLevelisEmpty(levels)
           front == peek(levels[level], NULL)
<1>1. DOMAIN levels = Levels /\ Levels \subseteq Nat
  BY DEF Queues, Levels
<1>2. /\ level = -1 <=> \A l \in Levels : levels[l] = <<>>
      /\ level # -1 => /\ level \in Levels /\ levels[level] # <<>>
                       /\ \A l \in Levels : levels[l] # <<>> => level <= l
  BY <1>1, FirstOccupied
<1> HIDE DEF level
<1>3. ASSUME level # -1
      PROVE  /\ front = Head(levels[level]) /\ front \in Procs /\ front # NULL
             /\ InLevels(levels, front)
  <2>1. level \in Levels /\ levels[level] # <<>> /\ levels[level] \in Seq(Procs)
    BY <1>2, <1>3 DEF Queues
  <2>2. front = Head(levels[level]) /\ front \in Procs /\ Contains(levels[level], front)
    BY <2>1, DequeueTakes DEF peek
  <2>3. QED
    BY <2>1, <2>2, NullAssumption DEF InLevels
<1>4. QED
  BY <1>2, <1>3 DEF level

(* The priority in the file is a level; and the types the lemmas below     *)
(* need.                                                                   *)
LEMMA LevelKeys ==
  ASSUME CommonInv
  PROVE  /\ priorityKey \in [Procs -> Int]
         /\ \A p \in Procs : priorityKey[p] = input[p].priority /\ input[p].priority \in Levels
         /\ ready \in Queues /\ pcb \in [Procs -> PCB] /\ currClk \in Nat
         /\ currentPCB \in Procs \cup {NULL}
         /\ -1 \notin Levels /\ LastLevel \in Levels /\ Levels \subseteq Int
<1>1. \A p \in Procs : input[p].priority \in Levels
  BY FileAssumption DEF CommonInv, TickTyped
<1>2. Levels \subseteq Int /\ -1 \notin Levels /\ LastLevel \in Levels
  BY LevelAssumption DEF Levels
<1>3. /\ ready \in Queues /\ pcb \in [Procs -> PCB] /\ currClk \in Nat
      /\ currentPCB \in Procs \cup {NULL}
  BY DEF CommonInv, TickTyped, DataInv, DataTyped, Queues
<1>4. QED
  BY <1>1, <1>2, <1>3 DEF priorityKey

(* Nobody is forgotten.                                                    *)
LEMMA AcceptedKept ==
  ASSUME input' = input,
         \A q \in Procs : pcb[q].state # "none" => pcb'[q].state # "none"
  PROVE  Accepted \subseteq Accepted'
BY DEF Accepted, Received, TooBig

(* A new process joins the end of its level, and gets the CPU only if no   *)
(* level is occupied: the running process stays the front of its level.    *)
LEMMA MLFLReceiveKeeps ==
  ASSUME CommonInv, MLFLInv, MLFLReceive
  PROVE  CommonInv' /\ AsSeen /\ MLFLInv'
<1>1. UNCHANGED <<quantum_passed, reconstructing_buffer, staleNext, strayNode>>
  BY DEF MLFLReceive
<1>2. /\ priorityKey \in [Procs -> Int] /\ ready \in Queues /\ -1 \notin Levels
      /\ \A p \in Procs : input[p].priority \in Levels
      /\ currentPCB \in Procs \cup {NULL}
  BY LevelKeys
<1>3. CASE (ReceiveTooBig \/ ReceiveNoRoom(priorityKey) \/ ReceiveDone) /\ UNCHANGED currentOccupiedLevel
  <2>1. CommonInv' /\ AsSeen
    BY <1>2, <1>3, TooBigKeeps, NoRoomKeeps, DoneKeeps DEF AsSeen, Served!ServerNext, Served!Server
  <2>2. /\ schedPc = "receive" /\ schedPc' \in {"receive", "dispatch"}
        /\ UNCHANGED <<input, ready, currentPCB>>
        /\ \A p \in Procs : pcb[p].state # "none" => pcb'[p].state # "none"
    BY <1>2, <1>3, ReceiveSame
  <2>3. Accepted \subseteq Accepted' /\ priorityKey' = priorityKey
    BY <2>2, AcceptedKept DEF priorityKey
  <2>4. BufferInv' /\ FeedbackTyped'
    BY <1>1, <1>3, <2>3 DEF MLFLInv, BufferInv, FeedbackTyped
  <2>5. LevelInv' /\ IdleInv'
    BY <1>1, <1>3, <2>2 DEF MLFLInv, LevelInv, IdleInv, NobodyReady
  <2>6. QuantumInv' /\ RefillInv'
    BY <2>2 DEF QuantumInv, RefillInv
  <2>7. QED
    BY <2>1, <2>4, <2>5, <2>6 DEF MLFLInv
<1>4. CASE /\ ReceiveAdmit(AtItsLevel(MLVL_Queue, New), currentOccupiedLevel = -1)
           /\ currentOccupiedLevel' = IF currentOccupiedLevel = -1
                                      THEN multiLevelisEmpty(ready')
                                      ELSE currentOccupiedLevel
  <2> DEFINE queues == AtItsLevel(MLVL_Queue, New)
             takes == currentOccupiedLevel = -1
             level == input[New].priority
  <2>1. /\ takes \in BOOLEAN /\ ReceiveAdmit(queues, takes)
        /\ currentOccupiedLevel' = IF takes THEN multiLevelisEmpty(ready') ELSE currentOccupiedLevel
    BY <1>4
  <2> HIDE DEF queues
  <2>2. /\ schedPc = "receive" /\ schedPc' = "receive" /\ ready' = queues
        /\ currentPCB' = IF takes THEN New ELSE currentPCB
        /\ input' = input /\ New \in Procs
    BY <2>1, AdmitOthers
  <2>3. takes <=> currentPCB = NULL
    BY <1>2, <2>2 DEF MLFLInv, LevelInv
  <2>4. /\ takes => NobodyReady
        /\ ~takes => /\ currentOccupiedLevel \in Levels
                     /\ ready[currentOccupiedLevel] # <<>>
                     /\ currentPCB = Head(ready[currentOccupiedLevel])
    BY <1>2, <2>2 DEF MLFLInv, LevelInv
  <2> HIDE DEF takes
  <2>5. /\ level \in Levels /\ queues \in Queues /\ Enters(ready, queues, New)
        /\ \A k \in Levels \ {level} : queues[k] = ready[k]
        /\ queues[level] # <<>>
        /\ Head(queues[level]) = IF ready[level] = <<>> THEN New ELSE Head(ready[level])
    <3>1. queues = enqueueMultiLevel(ready, New, level) /\ level \in Levels
      BY <1>2, <2>2 DEF queues, AtItsLevel, MLVL_Queue
    <3> HIDE DEF level
    <3>2. /\ Enters(ready, queues, New)
          /\ \A k \in Levels \ {level} : queues[k] = ready[k]
          /\ queues[level] # <<>>
          /\ Head(queues[level]) = IF ready[level] = <<>> THEN New ELSE Head(ready[level])
      BY <1>2, <2>2, <3>1, LevelPut
    <3>3. QED
      BY <3>1, <3>2 DEF Enters
  <2> HIDE DEF level
  <2>6. CommonInv' /\ AsSeen
    BY <2>1, <2>5, AdmitKeeps DEF AsSeen, Served!ServerNext, Served!Server
  <2>7. \A q \in Procs : pcb[q].state # "none" => pcb'[q].state # "none"
    BY <2>1, AdmitPcbs
  <2>8. Accepted \subseteq Accepted' /\ priorityKey' = priorityKey
    BY <2>2, <2>7, AcceptedKept DEF priorityKey
  <2>9. /\ currentPCB' # NULL /\ currentOccupiedLevel' \in Levels
        /\ queues[currentOccupiedLevel'] # <<>>
        /\ currentPCB' = Head(queues[currentOccupiedLevel'])
    <3>1. CASE takes
      <4>1. \A k \in Levels : queues[k] # <<>> <=> k = level
        BY <2>4, <2>5, <3>1 DEF NobodyReady
      <4>2. multiLevelisEmpty(queues) = level
        BY <1>2, <2>5, <4>1, FirstLevel
      <4>3. QED
        BY <2>1, <2>2, <2>4, <2>5, <3>1, <4>2, NullAssumption DEF NobodyReady
    <3>2. CASE ~takes
      BY <2>1, <2>2, <2>3, <2>4, <2>5, <3>2
    <3>3. QED
      BY <3>1, <3>2
  <2>10. LevelInv' /\ IdleInv' /\ QuantumInv' /\ RefillInv'
    BY <2>2, <2>9 DEF LevelInv, IdleInv, QuantumInv, RefillInv
  <2>11. BufferInv' /\ FeedbackTyped'
    BY <1>1, <2>8, <2>9 DEF MLFLInv, BufferInv, FeedbackTyped
  <2>12. QED
    BY <2>6, <2>10, <2>11 DEF MLFLInv
<1>5. QED
  BY <1>3, <1>4 DEF MLFLReceive

(* A finish dequeues the level of the running process without looking, and *)
(* is right to do so.                                                      *)
LEMMA MLFLDispatchKeeps ==
  ASSUME CommonInv, MLFLInv, MLFLDispatch
  PROVE  CommonInv' /\ AsSeen /\ MLFLInv'
<1>1. UNCHANGED <<currentOccupiedLevel, reconstructing_buffer, staleNext, strayNode>>
  BY DEF MLFLDispatch, feedbackVars
<1>2. CASE (Return \/ Idle("spin") \/ Continue("quantum")) /\ UNCHANGED quantum_passed
  <2>1. CommonInv' /\ AsSeen
    BY <1>2, ReturnKeeps, WaitKeeps, Labels DEF AsSeen, Served!ServerNext, Served!Server
  <2>2. /\ schedPc = "dispatch" /\ schedPc' \in {"returned", "spin", "quantum"}
        /\ schedPc' = "quantum" => currentPCB # NULL
        /\ UNCHANGED <<input, ready, currentPCB, pcb>>
    BY <1>2 DEF Return, Idle, Continue, SchedTo, bodyVars, queueVars, clkVars
  <2>3. Accepted \subseteq Accepted' /\ priorityKey' = priorityKey
    BY <2>2, AcceptedKept DEF priorityKey
  <2>4. BufferInv' /\ FeedbackTyped'
    BY <1>1, <1>2, <2>3 DEF MLFLInv, BufferInv, FeedbackTyped
  <2>5. LevelInv' /\ IdleInv'
    BY <1>1, <1>2, <2>2 DEF MLFLInv, LevelInv, IdleInv, NobodyReady
  <2>6. QuantumInv' /\ RefillInv'
    BY <2>2 DEF QuantumInv, RefillInv
  <2>7. QED
    BY <2>1, <2>4, <2>5, <2>6 DEF MLFLInv
<1>3. CASE Finish(dequeueMultiLevel(MLVL_Queue, currentOccupiedLevel)) /\ quantum_passed' = 0
  <2> DEFINE queues == dequeueMultiLevel(MLVL_Queue, currentOccupiedLevel)
  <2>1. Finish(queues)
    BY <1>3
  <2> HIDE DEF queues
  <2>2. /\ currentPCB \in Procs /\ currentPCB # NULL /\ schedPc = "dispatch"
        /\ schedPc' = "scan" /\ ready' = queues /\ input' = input
    BY <2>1 DEF Finish, SchedTo, CommonInv, DataInv, DataTyped, clkVars
  <2>3. currentOccupiedLevel \in Levels
    BY <2>2 DEF MLFLInv, LevelInv
  <2>4. queues \in Queues /\ \A q : InLevels(queues, q) => InLevels(ready, q)
    BY <2>3, LevelTake, LevelKeys DEF queues, MLVL_Queue
  <2>5. CommonInv' /\ AsSeen /\ Changes(pcb, pcb', currentPCB, "Finished")
    BY <2>1, <2>4, FinishKeeps
  <2>6. Accepted \subseteq Accepted' /\ priorityKey' = priorityKey
    BY <2>2, <2>5, AcceptedKept DEF priorityKey, Changes
  <2>7. BufferInv' /\ FeedbackTyped'
    BY <1>1, <1>3, <2>6, QuantumAssumption DEF MLFLInv, BufferInv, FeedbackTyped
  <2>8. LevelInv' /\ IdleInv' /\ QuantumInv' /\ RefillInv'
    BY <1>3, <2>2 DEF LevelInv, IdleInv, QuantumInv, RefillInv
  <2>9. QED
    BY <2>5, <2>7, <2>8 DEF MLFLInv
<1>4. QED
  BY <1>2, <1>3 DEF MLFLDispatch


(* p is running then, started or resumed.                                  *)
LEMMA RunFrontFacts ==
  ASSUME NEW pcbs \in [Procs -> PCB], NEW p \in Procs, NEW sameLevel, currClk \in Nat
  PROVE  LET new == RunFront(pcbs, p, sameLevel)
         IN Changes(pcbs, new, p, "Running") /\ new[p].memoryNode = pcbs[p].memoryNode
BY StartFacts, StartOrResumeFacts DEF RunFront

(* After a finish the scan gives the CPU to the front of the first         *)
(* occupied level.                                                         *)
LEMMA MLFLScanKeeps ==
  ASSUME CommonInv, MLFLInv, MLFLScan
  PROVE  CommonInv' /\ AsSeen /\ MLFLInv'
<1> DEFINE level == multiLevelisEmpty(MLVL_Queue)
           front == peek(MLVL_Queue[level], NULL)
           pcbs == RunFront(pcb, front, level = currentOccupiedLevel)
<1>1. UNCHANGED <<quantum_passed, reconstructing_buffer, staleNext, strayNode>>
  BY DEF MLFLScan
<1>2. /\ priorityKey \in [Procs -> Int] /\ ready \in Queues /\ -1 \notin Levels
      /\ \A p \in Procs : input[p].priority \in Levels
      /\ pcb \in [Procs -> PCB] /\ currClk \in Nat
  BY LevelKeys
<1>3. /\ schedPc = "scan" /\ currentPCB = NULL /\ input' = input /\ quantum_passed = 0
  BY DEF MLFLScan, ScanAdmit, ScanSkip, PickNobody, Pick, CommonInv, DataInv, SchedTo, tickVars,
     clkVars, MLFLInv, QuantumInv
<1>4. CASE ScanAdmit(AtItsLevel(MLVL_Queue, Head(ptr))) /\ UNCHANGED currentOccupiedLevel
  <2> DEFINE p == Head(ptr)
             queues == AtItsLevel(MLVL_Queue, p)
  <2>1. ScanAdmit(queues) /\ schedPc' = "scan"
    BY <1>3, <1>4 DEF ScanAdmit, tickVars, schedHead
  <2>2. p \in Procs
    BY <2>1, DequeueTakes DEF ScanAdmit, CommonInv, DataInv, DataTyped
  <2>3. Enters(ready, queues, p)
    BY <1>2, <2>2, LevelPut DEF AtItsLevel, MLVL_Queue
  <2> HIDE DEF queues
  <2>4. CommonInv' /\ AsSeen /\ Changes(pcb, pcb', p, "Ready")
    BY <2>1, <2>3, ScanAdmitKeeps
  <2>5. Accepted \subseteq Accepted' /\ priorityKey' = priorityKey
    BY <1>3, <2>4, AcceptedKept DEF priorityKey, Changes
  <2>6. BufferInv' /\ FeedbackTyped'
    BY <1>1, <1>4, <2>5 DEF MLFLInv, BufferInv, FeedbackTyped
  <2>7. LevelInv' /\ IdleInv' /\ QuantumInv' /\ RefillInv'
    BY <1>1, <1>3, <2>1 DEF LevelInv, IdleInv, QuantumInv, RefillInv
  <2>8. QED
    BY <2>4, <2>6, <2>7 DEF MLFLInv
<1>5. CASE ScanSkip /\ UNCHANGED currentOccupiedLevel
  <2>1. schedPc' = "scan"
    BY <1>3, <1>5 DEF ScanSkip, tickVars, schedHead
  <2>2. CommonInv' /\ AsSeen /\ \A q \in Procs : pcb'[q].state = pcb[q].state
    BY <1>5, ScanSkipKeeps
  <2>3. Accepted \subseteq Accepted' /\ priorityKey' = priorityKey
    BY <1>3, <2>2, AcceptedKept DEF priorityKey
  <2>4. BufferInv' /\ FeedbackTyped'
    BY <1>1, <1>5, <2>3 DEF MLFLInv, BufferInv, FeedbackTyped
  <2>5. LevelInv' /\ IdleInv' /\ QuantumInv' /\ RefillInv'
    BY <1>1, <1>3, <2>1 DEF LevelInv, IdleInv, QuantumInv, RefillInv
  <2>6. QED
    BY <2>2, <2>4, <2>5 DEF MLFLInv
<1>6. CASE PickNobody("quantum") /\ currentOccupiedLevel' = -1
  <2>1. CommonInv' /\ AsSeen
    BY <1>6, WaitKeeps, Labels
  <2>2. /\ schedPc' = "quantum" /\ NobodyReady /\ UNCHANGED <<ready, pcb, currentPCB>>
    BY <1>6 DEF PickNobody, SchedTo, bodyVars, queueVars
  <2>3. Accepted \subseteq Accepted' /\ priorityKey' = priorityKey
    BY <1>3, <2>2, AcceptedKept DEF priorityKey
  <2>4. BufferInv' /\ FeedbackTyped'
    BY <1>1, <1>6, <2>3 DEF MLFLInv, BufferInv, FeedbackTyped
  <2>5. LevelInv' /\ IdleInv' /\ QuantumInv' /\ RefillInv'
    BY <1>1, <1>3, <1>6, <2>2 DEF LevelInv, IdleInv, QuantumInv, RefillInv, NobodyReady
  <2>6. QED
    BY <2>1, <2>4, <2>5 DEF MLFLInv
<1>7. CASE Pick(front, pcbs, ready, "quantum") /\ currentOccupiedLevel' = level
  <2>1. /\ Pick(front, pcbs, ready, "quantum") /\ schedPc' = "quantum" /\ ~NobodyReady
        /\ currentPCB' = front /\ pcb' = pcbs /\ ready' = ready
    BY <1>7 DEF Pick, SchedTo
  <2>2. /\ level \in Levels /\ ready[level] # <<>>
        /\ front = Head(ready[level]) /\ front \in Procs /\ front # NULL
        /\ InLevels(ready, front)
    BY <1>2, <2>1, FirstLevel DEF NobodyReady, MLVL_Queue
  <2> HIDE DEF front, level
  <2>3. Changes(pcb, pcbs, front, "Running")
    BY <1>2, <2>2, RunFrontFacts
  <2> HIDE DEF pcbs
  <2>4. CommonInv' /\ AsSeen
    BY <1>2, <2>1, <2>2, <2>3, PickKeeps, Labels
  <2>5. Accepted \subseteq Accepted' /\ priorityKey' = priorityKey
    BY <1>3, <2>1, <2>3, AcceptedKept DEF priorityKey, Changes
  <2>6. BufferInv' /\ FeedbackTyped'
    BY <1>1, <1>7, <2>2, <2>5 DEF MLFLInv, BufferInv, FeedbackTyped
  <2>7. LevelInv' /\ IdleInv' /\ QuantumInv' /\ RefillInv'
    BY <1>7, <2>1, <2>2 DEF LevelInv, IdleInv, QuantumInv, RefillInv
  <2>8. QED
    BY <2>4, <2>6, <2>7 DEF MLFLInv
<1>8. QED
  BY <1>4, <1>5, <1>6, <1>7 DEF MLFLScan

(* What the end of a quantum does to the CPU, once the levels are those    *)
(* that the processes stay in.                                             *)
LEMMA SwitchKeeps ==
  ASSUME CommonInv, MLFLInv, NEW levels \in Queues, SwitchTo(levels), SchedTo("run"),
         schedPc = "quantum", currentPCB \in Procs,
         \A p \in Procs : InLevels(levels, p) => p \in Accepted,
         UNCHANGED <<tree, Memory_Buffer, finishedProcesses, countVars, ptr, cycleVars>>
  PROVE  /\ CommonInv' /\ AsSeen /\ LevelInv' /\ Received' = Received /\ input' = input
         /\ currentOccupiedLevel' \in Levels \cup {-1}
         /\ currentPCB' = NULL \/ quantum_passed' = 0
         /\ quantum_passed' \in {0, quantum_passed}
<1> DEFINE level == multiLevelisEmpty(levels)
           next == peek(levels[level], NULL)
           stopped == Stop(pcb, currentPCB)
           running == RunFront(stopped, next, level = currentOccupiedLevel)
<1>1. /\ ready' = levels /\ currentOccupiedLevel' = level
      /\ IF level = -1
         THEN currentPCB' = NULL /\ pcb' = stopped /\ UNCHANGED quantum_passed
         ELSE currentPCB' = next /\ pcb' = running /\ quantum_passed' = 0
  BY DEF SwitchTo
<1>2. pcb \in [Procs -> PCB] /\ currClk \in Nat /\ currentPCB \in Accepted
  BY LevelKeys DEF CommonInv, DataInv, OnlyReceived, Listed
<1>3. Changes(pcb, stopped, currentPCB, "Blocked")
  BY <1>2, StopFacts
<1>4. /\ level = -1 <=> \A l \in Levels : levels[l] = <<>>
      /\ level # -1 =>
           /\ level \in Levels /\ levels[level] # <<>>
           /\ next = Head(levels[level]) /\ next \in Procs /\ next # NULL
           /\ InLevels(levels, next)
  BY FirstLevel
<1> HIDE DEF level, next, stopped
<1>5. ASSUME level # -1
      PROVE  Changes(stopped, running, next, "Running")
  BY <1>2, <1>3, <1>4, <1>5, RunFrontFacts DEF Changes
<1> HIDE DEF running
<1>6. level # -1 => next \in Accepted
  BY <1>4
<1>7. pcb' \in [Procs -> PCB] /\ Received' = Received
  <2>1. \A q \in Accepted : q \in Procs /\ pcb[q].state # "none"
    BY DEF Accepted, Received
  <2>2. CASE level = -1
    BY <1>1, <1>2, <1>3, <2>1, <2>2 DEF Changes, Received
  <2>3. CASE level # -1
    BY <1>1, <1>2, <1>3, <1>5, <1>6, <2>1, <2>3 DEF Changes, Received
  <2>4. QED
    BY <2>2, <2>3
<1>8. UNCHANGED <<clkVars, sem, msgq, genVars, currClk>> /\ schedPc' = "run" /\ input' = input
  BY DEF SchedTo, clkVars
<1>9. idle_cycles' \in Nat /\ total_cycles' \in Nat
  BY DEF CommonInv, DataInv, DataTyped, cycleVars
<1>10. \A p \in Procs : InLevels(ready', p) \/ p = currentPCB' => p \in Accepted
  BY <1>1, <1>6, NullAssumption
<1>11. ready' \in Queues /\ currentPCB' \in Procs \cup {NULL}
  BY <1>1, <1>4
<1>12. CommonInv' /\ AsSeen
  BY <1>7, <1>8, <1>9, <1>10, <1>11, MoveKeeps, Labels
<1>13. LevelInv'
  BY <1>1, <1>4 DEF LevelInv, NobodyReady
<1>14. QED
  BY <1>1, <1>4, <1>7, <1>8, <1>12, <1>13

(* The end of a quantum above the last level.                              *)
LEMMA DemoteKeeps ==
  ASSUME CommonInv, MLFLInv, Demote
  PROVE  CommonInv' /\ AsSeen /\ MLFLInv'
<1> DEFINE level == currentOccupiedLevel
           p == peek(MLVL_Queue[level], NULL)
           rest == dequeueMultiLevel(MLVL_Queue, level)
           levels == enqueueMultiLevel(rest, p, level + 1)
<1>1. /\ schedPc = "quantum" /\ schedPc' = "run" /\ quantum_passed = quantum /\ level < LastLevel
      /\ SwitchTo(levels) /\ SchedTo("run")
      /\ UNCHANGED <<reconstructing_buffer, staleNext, strayNode>>
      /\ UNCHANGED <<tree, Memory_Buffer, finishedProcesses, countVars, ptr, cycleVars>>
  BY DEF Demote, SchedTo
<1>2. ready \in Queues /\ currentPCB \in Procs \cup {NULL} /\ quantum # 0
  BY LevelKeys, QuantumAssumption
<1>3. /\ currentPCB # NULL /\ currentPCB \in Procs /\ level \in Levels
      /\ ready[level] # <<>> /\ p = currentPCB
  BY <1>1, <1>2 DEF MLFLInv, QuantumInv, LevelInv, peek, MLVL_Queue
<1>4. level + 1 \in Levels
  BY <1>1, <1>3, LevelAssumption DEF Levels
<1>5. rest \in Queues /\ \A q : InLevels(rest, q) => InLevels(ready, q)
  BY <1>2, <1>3, LevelTake DEF MLVL_Queue
<1> HIDE DEF p, rest
<1>6. Enters(rest, levels, p)
  BY <1>3, <1>4, <1>5, LevelPut
<1> HIDE DEF levels
<1>7. levels \in Queues /\ \A q \in Procs : InLevels(levels, q) => InLevels(ready, q) \/ q = p
  BY <1>3, <1>5, <1>6, EntersFacts DEF Enters
<1>8. \A q \in Procs : InLevels(levels, q) => q \in Accepted
  BY <1>3, <1>7 DEF CommonInv, DataInv, OnlyReceived, Listed, InLevels, InQueue
<1>9. /\ CommonInv' /\ AsSeen /\ LevelInv' /\ Received' = Received /\ input' = input
      /\ currentOccupiedLevel' \in Levels \cup {-1}
      /\ currentPCB' = NULL \/ quantum_passed' = 0
      /\ quantum_passed' \in {0, quantum_passed}
  BY <1>1, <1>3, <1>7, <1>8, SwitchKeeps
<1>10. Accepted' = Accepted /\ priorityKey' = priorityKey
  BY <1>9 DEF Accepted, TooBig, priorityKey
<1>11. BufferInv' /\ FeedbackTyped'
  BY <1>1, <1>9, <1>10, QuantumAssumption DEF MLFLInv, BufferInv, FeedbackTyped
<1>12. IdleInv' /\ QuantumInv' /\ RefillInv'
  BY <1>1, <1>9, QuantumAssumption DEF IdleInv, QuantumInv, RefillInv
<1>13. QED
  BY <1>9, <1>11, <1>12 DEF MLFLInv

(* The walk through the buffer has left it.                                *)
LEMMA BrokenKeeps ==
  ASSUME CommonInv, MLFLInv, Broken, schedPc \in WorkPcs
  PROVE  CommonInv' /\ AsSeen /\ MLFLInv'
<1>1. /\ UNCHANGED <<tree, pcb, queueVars, currentPCB, countVars, ptr, cycleVars>>
      /\ UNCHANGED <<quantum_passed, currentOccupiedLevel, reconstructing_buffer, staleNext, strayNode>>
      /\ SchedTo("broken") /\ schedPc' = "broken" /\ input' = input
  BY DEF Broken, bodyVars, feedbackVars, SchedTo, clkVars
<1>2. idle_cycles' \in Nat /\ total_cycles' \in Nat
  BY <1>1 DEF CommonInv, DataInv, DataTyped, cycleVars
<1>3. CommonInv' /\ AsSeen
  BY <1>1, <1>2, LabelKeeps, Labels
<1>4. Accepted \subseteq Accepted' /\ priorityKey' = priorityKey
  BY <1>1, AcceptedKept DEF priorityKey
<1>5. BufferInv' /\ FeedbackTyped'
  BY <1>1, <1>4 DEF MLFLInv, BufferInv, FeedbackTyped
<1>6. LevelInv' /\ IdleInv' /\ QuantumInv' /\ RefillInv'
  BY <1>1 DEF LevelInv, IdleInv, QuantumInv, RefillInv
<1>7. QED
  BY <1>3, <1>5, <1>6 DEF MLFLInv

(* The end of a quantum in the last level.                                 *)
LEMMA ShelveKeeps ==
  ASSUME CommonInv, MLFLInv, Shelve
  PROVE  CommonInv' /\ AsSeen /\ MLFLInv'
<1> DEFINE p == peek(MLVL_Queue[LastLevel], NULL)
           levels == dequeueMultiLevel(MLVL_Queue, LastLevel)
           buffer == enqueuePriority(reconstructing_buffer, p, priorityKey)
<1>1. /\ schedPc = "quantum" /\ quantum_passed = quantum /\ currentOccupiedLevel = LastLevel
      /\ \/ Broken
         \/ /\ Buffer(p) /\ SwitchTo(levels) /\ SchedTo("run")
            /\ UNCHANGED <<tree, Memory_Buffer, finishedProcesses, countVars, ptr, cycleVars>>
  BY DEF Shelve
<1>2. CASE Broken
  BY <1>1, <1>2, BrokenKeeps, Labels
<1>3. CASE /\ Buffer(p) /\ SwitchTo(levels) /\ SchedTo("run")
           /\ UNCHANGED <<tree, Memory_Buffer, finishedProcesses, countVars, ptr, cycleVars>>
  <2>1. /\ ready \in Queues /\ currentPCB \in Procs \cup {NULL} /\ quantum # 0
        /\ priorityKey \in [Procs -> Int] /\ LastLevel \in Levels
    BY LevelKeys, QuantumAssumption
  <2>2. currentPCB # NULL /\ currentPCB \in Procs /\ p = currentPCB
    BY <1>1, <2>1 DEF MLFLInv, QuantumInv, LevelInv, peek, MLVL_Queue
  <2>3. levels \in Queues /\ \A q : InLevels(levels, q) => InLevels(ready, q)
    BY <2>1, LevelTake DEF MLVL_Queue
  <2>4. /\ reconstructing_buffer' = buffer
        /\ strayNode' = IF reconstructing_buffer = <<>> THEN staleNext[p] ELSE strayNode
        /\ UNCHANGED staleNext
    BY <1>3 DEF Buffer
  <2> HIDE DEF p, levels
  <2>5. \A q \in Procs : InLevels(levels, q) => q \in Accepted
    BY <2>3 DEF CommonInv, DataInv, OnlyReceived, Listed, InLevels, InQueue
  <2>6. /\ CommonInv' /\ AsSeen /\ LevelInv' /\ Received' = Received /\ input' = input
        /\ currentOccupiedLevel' \in Levels \cup {-1}
        /\ currentPCB' = NULL \/ quantum_passed' = 0
        /\ quantum_passed' \in {0, quantum_passed}
    BY <1>1, <1>3, <2>2, <2>3, <2>5, SwitchKeeps
  <2>7. Accepted' = Accepted /\ priorityKey' = priorityKey /\ p \in Accepted
    BY <2>2, <2>6 DEF Accepted, TooBig, priorityKey, CommonInv, DataInv, OnlyReceived, Listed
  <2>8. reconstructing_buffer \in Seq(Procs) /\ SortedBy(reconstructing_buffer, priorityKey)
    BY DEF MLFLInv, FeedbackTyped, BufferInv
  <2>9. /\ buffer \in Seq(Procs) /\ PutIn(reconstructing_buffer, buffer, p)
        /\ SortedBy(buffer, priorityKey)
    BY <2>1, <2>2, <2>8, EnqueuePriorityPuts
  <2> HIDE DEF buffer
  <2>10. \A q : Contains(buffer, q) => Contains(reconstructing_buffer, q) \/ q = p
    BY <2>2, <2>8, <2>9, PutInFacts
  <2>11. BufferInv'
    BY <2>4, <2>7, <2>9, <2>10 DEF MLFLInv, BufferInv
  <2>12. FeedbackTyped'
    BY <2>2, <2>4, <2>6, <2>9, QuantumAssumption DEF MLFLInv, FeedbackTyped
  <2>13. schedPc' = "run"
    BY <1>3 DEF SchedTo
  <2>14. IdleInv' /\ QuantumInv' /\ RefillInv'
    BY <2>6, <2>13, QuantumAssumption DEF IdleInv, QuantumInv, RefillInv
  <2>15. QED
    BY <2>6, <2>11, <2>12, <2>14 DEF MLFLInv
<1>4. QED
  BY <1>1, <1>2, <1>3


(* The quantum is not over.                                                *)
LEMMA KeepLevelKeeps ==
  ASSUME CommonInv, MLFLInv, KeepLevel
  PROVE  CommonInv' /\ AsSeen /\ MLFLInv'
<1>1. /\ UNCHANGED <<tree, pcb, queueVars, currentPCB, countVars, ptr, cycleVars>>
      /\ UNCHANGED <<quantum_passed, currentOccupiedLevel, reconstructing_buffer, staleNext, strayNode>>
      /\ SchedTo("run") /\ schedPc = "quantum" /\ schedPc' = "run" /\ input' = input
      /\ quantum_passed # quantum
  BY DEF KeepLevel, bodyVars, feedbackVars, SchedTo, clkVars
<1>2. idle_cycles' \in Nat /\ total_cycles' \in Nat
  BY <1>1 DEF CommonInv, DataInv, DataTyped, cycleVars
<1>3. CommonInv' /\ AsSeen
  BY <1>1, <1>2, LabelKeeps, Labels
<1>4. Accepted \subseteq Accepted' /\ priorityKey' = priorityKey
  BY <1>1, AcceptedKept DEF priorityKey
<1>5. BufferInv' /\ FeedbackTyped'
  BY <1>1, <1>4 DEF MLFLInv, BufferInv, FeedbackTyped
<1>6. LevelInv' /\ IdleInv' /\ RefillInv'
  BY <1>1 DEF MLFLInv, LevelInv, IdleInv, RefillInv, NobodyReady, queueVars
<1>7. QuantumInv'
  BY <1>1, QuantumAssumption DEF MLFLInv, FeedbackTyped, QuantumInv
<1>8. QED
  BY <1>3, <1>5, <1>6, <1>7 DEF MLFLInv

(* The end of an iteration that needs no refill.                           *)
LEMMA MLFLChargeKeeps ==
  ASSUME CommonInv, MLFLInv, MLFLCharge
  PROVE  CommonInv' /\ AsSeen /\ MLFLInv'
<1>1. /\ Charge
      /\ UNCHANGED <<currentOccupiedLevel, reconstructing_buffer, staleNext, strayNode>>
      /\ quantum_passed' = IF currentPCB = NULL THEN quantum_passed ELSE quantum_passed + 1
      /\ currentPCB # NULL \/ reconstructing_buffer = <<>>
  BY DEF MLFLCharge, RRCharge, feedbackVars
<1>2. /\ schedPc = "run" /\ schedPc' = "spin"
      /\ UNCHANGED <<input, ready, currentPCB>>
  BY <1>1 DEF Charge, SchedTo, clkVars, queueVars
<1>3. CommonInv' /\ AsSeen /\ Charged(pcb')
  BY <1>1, ChargeKeeps
<1>4. Accepted \subseteq Accepted' /\ priorityKey' = priorityKey
  BY <1>2, <1>3, AcceptedKept DEF priorityKey, Charged
<1>5. quantum_passed' \in 0 .. quantum
  BY <1>1, <1>2, QuantumAssumption DEF MLFLInv, FeedbackTyped, QuantumInv
<1>6. BufferInv' /\ FeedbackTyped'
  BY <1>1, <1>4, <1>5 DEF MLFLInv, BufferInv, FeedbackTyped
<1>7. LevelInv' /\ IdleInv' /\ QuantumInv' /\ RefillInv'
  BY <1>1, <1>2 DEF MLFLInv, LevelInv, IdleInv, RefillInv, QuantumInv, NobodyReady
<1>8. QED
  BY <1>3, <1>6, <1>7 DEF MLFLInv

(* The buffer is in the order of the levels, so the first process taken    *)
(* from it stays the front of the first occupied level.                    *)
LEMMA RefillKeeps ==
  ASSUME CommonInv, MLFLInv, Refill
  PROVE  CommonInv' /\ AsSeen /\ MLFLInv'
<1> DEFINE p == Head(reconstructing_buffer)
           level == input[p].priority
           levels == AtItsLevel(MLVL_Queue, p)
           rest == dequeue(reconstructing_buffer)
           first == IF schedPc = "run" THEN p ELSE currentPCB
<1>1. /\ reconstructing_buffer # <<>> /\ schedPc \in {"run", "refill"}
      /\ schedPc = "run" => currentPCB = NULL
      /\ currentPCB' = first /\ ready' = levels /\ reconstructing_buffer' = rest
      /\ staleNext' = [staleNext EXCEPT ![p] = peek(Tail(reconstructing_buffer), strayNode)]
      /\ SchedTo("refill") /\ schedPc' = "refill" /\ input' = input
      /\ UNCHANGED <<tree, pcb, Memory_Buffer, finishedProcesses, countVars, ptr, cycleVars,
                     quantum_passed, currentOccupiedLevel, strayNode>>
  BY DEF Refill, SchedTo, clkVars
<1>2. /\ ready \in Queues /\ priorityKey \in [Procs -> Int] /\ pcb \in [Procs -> PCB]
      /\ \A q \in Procs : priorityKey[q] = input[q].priority /\ input[q].priority \in Levels
      /\ Levels \subseteq Int /\ currentPCB \in Procs \cup {NULL}
  BY LevelKeys
<1>3. /\ reconstructing_buffer \in Seq(Procs) /\ SortedBy(reconstructing_buffer, priorityKey)
      /\ \A q \in Procs : Contains(reconstructing_buffer, q) => q \in Accepted
      /\ strayNode \in Procs \cup {NULL} /\ staleNext \in [Procs -> Procs \cup {NULL}]
  BY DEF MLFLInv, BufferInv, FeedbackTyped
<1>4. /\ p \in Procs /\ Contains(reconstructing_buffer, p) /\ rest \in Seq(Procs)
      /\ PutIn(rest, reconstructing_buffer, p)
      /\ \A q : Contains(reconstructing_buffer, q) => priorityKey[p] <= priorityKey[q]
  BY <1>1, <1>2, <1>3, DequeueTakes, FrontLeast
<1>5. rest = Tail(reconstructing_buffer)
  BY <1>1 DEF dequeue
<1> HIDE DEF p, rest
<1>6. /\ \A q : Contains(rest, q) => Contains(reconstructing_buffer, q)
      /\ SortedBy(rest, priorityKey)
  BY <1>2, <1>3, <1>4, PutInFacts, SortedWithout
<1>7. level \in Levels
  BY <1>2, <1>4
<1>8. /\ Enters(ready, levels, p)
      /\ \A k \in Levels \ {level} : levels[k] = ready[k]
      /\ levels[level] # <<>>
      /\ Head(levels[level]) = IF ready[level] = <<>> THEN p ELSE Head(ready[level])
  BY <1>2, <1>4, <1>7, LevelPut DEF AtItsLevel, MLVL_Queue
<1> HIDE DEF levels
<1>9. levels \in Queues /\ \A q : InLevels(levels, q) => InLevels(ready, q) \/ q = p
  BY <1>2, <1>4, <1>8, EntersFacts DEF Enters
<1>10. p \in Accepted
  BY <1>3, <1>4
<1>11. first \in Accepted /\ first \in Procs /\ first # NULL
  <2>1. schedPc = "refill" => currentPCB # NULL
    BY DEF MLFLInv, RefillInv
  <2>2. schedPc = "refill" => currentPCB \in Procs /\ currentPCB \in Accepted
    BY <1>2, <2>1 DEF CommonInv, DataInv, OnlyReceived, Listed
  <2>3. QED
    BY <1>1, <1>4, <1>10, <2>1, <2>2, NullAssumption
<1>12. CommonInv' /\ AsSeen
  <2>1. \A q \in Procs : InLevels(ready', q) \/ q = currentPCB' => q \in Accepted
    BY <1>1, <1>9, <1>10, <1>11 DEF CommonInv, DataInv, OnlyReceived, Listed, InLevels, InQueue
  <2>2. /\ UNCHANGED <<clkVars, sem, msgq, genVars, currClk>> /\ Received' = Received
        /\ idle_cycles' \in Nat /\ total_cycles' \in Nat
    BY <1>1 DEF SchedTo, Received, CommonInv, DataInv, DataTyped, cycleVars
  <2>3. ready' \in Queues /\ currentPCB' \in Procs \cup {NULL} /\ pcb' \in [Procs -> PCB]
    BY <1>1, <1>2, <1>9, <1>11
  <2>4. QED
    BY <1>1, <2>1, <2>2, <2>3, MoveKeeps, Labels
<1>13. Accepted' = Accepted /\ priorityKey' = priorityKey
  BY <1>1 DEF Accepted, Received, TooBig, priorityKey
<1>14. FeedbackTyped'
  <2>1. peek(Tail(reconstructing_buffer), strayNode) \in Procs \cup {NULL}
    BY <1>3, <1>4, <1>5, DequeueTakes DEF peek
  <2>2. QED
    BY <1>1, <1>3, <1>4, <2>1 DEF MLFLInv, FeedbackTyped
<1>15. BufferInv'
  BY <1>1, <1>3, <1>6, <1>13 DEF BufferInv
<1>16. LevelInv' /\ IdleInv' /\ QuantumInv'
  BY <1>1, <1>11 DEF LevelInv, IdleInv, QuantumInv
<1>17. RefillInv'
  <2>1. CASE schedPc = "run"
    <3>1. \A l \in Levels : ready[l] = <<>>
      BY <1>1, <2>1 DEF MLFLInv, LevelInv, NobodyReady
    <3>2. /\ first = p /\ levels[level] # <<>> /\ Head(levels[level]) = p
          /\ \A l \in Levels : levels[l] # <<>> => l = level
      BY <1>7, <1>8, <2>1, <3>1
    <3>3. \A q \in Procs : Contains(rest, q) => level <= input[q].priority
      BY <1>2, <1>4, <1>6
    <3>4. QED
      BY <1>1, <1>2, <1>7, <1>11, <3>2, <3>3 DEF RefillInv
  <2>2. CASE schedPc = "refill"
    <3> DEFINE lead == input[currentPCB].priority
    <3>1. /\ currentPCB \in Procs /\ first = currentPCB /\ lead \in Levels
          /\ ready[lead] # <<>> /\ currentPCB = Head(ready[lead])
          /\ \A l \in Levels : ready[l] # <<>> => lead <= l
          /\ \A q \in Procs : Contains(reconstructing_buffer, q) => lead <= input[q].priority
      BY <1>2, <2>2 DEF MLFLInv, RefillInv
    <3> HIDE DEF lead
    <3>2. lead <= level
      BY <1>4, <3>1
    <3>3. levels[lead] # <<>> /\ Head(levels[lead]) = currentPCB
      BY <1>7, <1>8, <3>1
    <3>4. \A l \in Levels : levels[l] # <<>> => lead <= l
      BY <1>7, <1>8, <3>1, <3>2
    <3>5. \A q \in Procs : Contains(rest, q) => lead <= input[q].priority
      BY <1>6, <3>1
    <3>6. QED
      BY <1>1, <1>11, <3>1, <3>3, <3>4, <3>5 DEF RefillInv, lead
  <2>3. QED
    BY <1>1, <2>1, <2>2
<1>18. QED
  BY <1>12, <1>14, <1>15, <1>16, <1>17 DEF MLFLInv

(* The first of them runs, in its level.                                   *)
LEMMA ReconstructKeeps ==
  ASSUME CommonInv, MLFLInv, Reconstruct
  PROVE  CommonInv' /\ AsSeen /\ MLFLInv'
<1> DEFINE level == input[currentPCB].priority
           resumed == Resume(pcb, currentPCB)
<1>1. /\ schedPc = "refill" /\ reconstructing_buffer = <<>>
      /\ currentOccupiedLevel' = multiLevelisEmpty(ready)
      /\ pcb' = [resumed EXCEPT ![currentPCB].remainingTime = @ - 1]
      /\ total_cycles' = total_cycles + 1
      /\ SchedTo("spin") /\ schedPc' = "spin" /\ input' = input
      /\ UNCHANGED <<tree, ready, Memory_Buffer, finishedProcesses, currentPCB, countVars, ptr,
                     idle_cycles, quantum_passed, reconstructing_buffer, staleNext, strayNode>>
  BY DEF Reconstruct, SchedTo, clkVars, queueVars, MLVL_Queue
<1>2. /\ ready \in Queues /\ pcb \in [Procs -> PCB]
      /\ \A q \in Procs : input[q].priority \in Levels
      /\ Levels \subseteq Int /\ currentPCB \in Procs \cup {NULL} /\ -1 \notin Levels
  BY LevelKeys
<1>3. /\ currentPCB \in Procs /\ currentPCB # NULL /\ level \in Levels
      /\ ready[level] # <<>> /\ currentPCB = Head(ready[level])
      /\ \A l \in Levels : ready[l] # <<>> => level <= l
  BY <1>1, <1>2 DEF MLFLInv, RefillInv
<1>4. multiLevelisEmpty(ready) = level
  <2>1. multiLevelisEmpty(ready) # -1
    BY <1>2, <1>3, FirstLevel
  <2>2. /\ multiLevelisEmpty(ready) \in Levels
        /\ level <= multiLevelisEmpty(ready) /\ multiLevelisEmpty(ready) <= level
    BY <1>2, <1>3, <2>1, FirstLevel
  <2> DEFINE found == multiLevelisEmpty(ready)
  <2> HIDE DEF found, level
  <2>3. found \in Int /\ level \in Int /\ level <= found /\ found <= level
    BY <1>2, <1>3, <2>2 DEF found
  <2>4. found = level
    BY <2>3
  <2>5. QED
    BY <2>4 DEF found
<1>5. /\ pcb' \in [Procs -> PCB] /\ currentPCB \in Accepted
      /\ \A q \in Procs : pcb[q].state # "none" => pcb'[q].state # "none"
      /\ \A q \in Procs : pcb'[q].state # "none" => pcb[q].state # "none"
  <2>1. Changes(pcb, resumed, currentPCB, "Running")
    BY <1>2, <1>3, ResumeFacts
  <2>2. currentPCB \in Accepted
    BY <1>3 DEF CommonInv, DataInv, OnlyReceived, Listed
  <2> HIDE DEF resumed
  <2>3. resumed \in [Procs -> PCB]
    BY <2>1 DEF Changes
  <2>4. /\ pcb' \in [Procs -> PCB]
        /\ \A q \in Procs : pcb'[q].state = resumed[q].state
    <3> DEFINE charged == [resumed[currentPCB] EXCEPT !.remainingTime = @ - 1]
    <3>1. charged \in PCB /\ charged.state = resumed[currentPCB].state
      BY <1>3, <2>3 DEF PCB
    <3>2. pcb' = [resumed EXCEPT ![currentPCB] = charged]
      BY <1>1
    <3> HIDE DEF charged
    <3>3. QED
      BY <1>3, <2>3, <3>1, <3>2
  <2>5. pcb[currentPCB].state # "none"
    BY <2>2 DEF Accepted, Received
  <2>6. QED
    BY <2>1, <2>2, <2>4, <2>5 DEF Changes
<1>6. Received' = Received
  BY <1>5 DEF Received
<1> HIDE DEF resumed
<1>7. CommonInv' /\ AsSeen
  <2>1. \A q \in Procs : InLevels(ready', q) \/ q = currentPCB' => q \in Accepted
    BY <1>1, <1>5 DEF CommonInv, DataInv, OnlyReceived, Listed, InLevels, InQueue
  <2>2. /\ UNCHANGED <<clkVars, sem, msgq, genVars, currClk>>
        /\ idle_cycles' \in Nat /\ total_cycles' \in Nat
    BY <1>1 DEF SchedTo, CommonInv, DataInv, DataTyped
  <2>3. QED
    BY <1>1, <1>2, <1>5, <1>6, <2>1, <2>2, MoveKeeps, Labels
<1>8. Accepted' = Accepted /\ priorityKey' = priorityKey
  BY <1>1, <1>6 DEF Accepted, TooBig, priorityKey
<1>9. BufferInv' /\ FeedbackTyped'
  BY <1>1, <1>3, <1>4, <1>8 DEF MLFLInv, BufferInv, FeedbackTyped
<1> HIDE DEF level
<1>10. LevelInv' /\ IdleInv' /\ QuantumInv' /\ RefillInv'
  BY <1>1, <1>3, <1>4 DEF LevelInv, IdleInv, QuantumInv, RefillInv
<1>11. QED
  BY <1>7, <1>9, <1>10 DEF MLFLInv

(* Every step of multi-level feedback.                                     *)
LEMMA MLFLKeeps ==
  ASSUME CommonInv, MLFLInv, MLFLBody
  PROVE  CommonInv' /\ AsSeen /\ MLFLInv'
<1>1. CASE RefillStrays
  BY <1>1, BrokenKeeps, Labels DEF RefillStrays
<1>2. QED
  BY <1>1, MLFLReceiveKeeps, MLFLDispatchKeeps, MLFLScanKeeps, DemoteKeeps, ShelveKeeps,
     KeepLevelKeeps, MLFLChargeKeeps, RefillKeeps, ReconstructKeeps DEF MLFLBody


-----------------------------------------------------------------------------
(* The whole program.                                                      *)

UsualInv ==
  /\ CommonInv
  /\ FeedbackTyped
  /\ schedAlgorithm \in Algorithms
  /\ schedAlgorithm = "RR"   => RRInv
  /\ schedAlgorithm = "HPF"  => HPFInv
  /\ schedAlgorithm = "SJF"  => SJFInv
  /\ schedAlgorithm = "MLFL" => MLFLInv

(* What the clock, the generator and the loop do to the scheduler's label  *)
(* and its copy of the clock.                                              *)
AsideMoves ==
  \/ /\ UNCHANGED <<schedPc, currClk>> /\ clk' \in {clk, clk + 1}
  \/ schedPc = "read" /\ schedPc' = "down" /\ currClk' = clk /\ clk' = clk
  \/ schedPc = "down" /\ schedPc' = "receive" /\ UNCHANGED <<clk, currClk>>
  \/ schedPc = "spin" /\ clk # currClk /\ schedPc' = "read" /\ UNCHANGED <<clk, currClk>>
  \/ schedPc = "returned" /\ schedPc' = "exited" /\ UNCHANGED <<clk, currClk>>

(* Such a step is one of the tick server's and keeps every invariant.      *)
LEMMA AsidesKeep ==
  ASSUME UsualInv, UNCHANGED <<bodyVars, quantum_passed, feedbackVars, schedAlgorithm>>,
         Generator \/ ClockTick \/ LoopHead \/ UNCHANGED tickVars
  PROVE  UsualInv' /\ AsSeen
<1>1. /\ UNCHANGED <<tree, pcb, ready, Memory_Buffer, finishedProcesses, currentPCB,
                     process_count, current_process_count, ptr, idle_cycles, total_cycles>>
      /\ UNCHANGED <<quantum_passed, currentOccupiedLevel, reconstructing_buffer, staleNext,
                     strayNode, schedAlgorithm>>
  BY DEF bodyVars, queueVars, countVars, cycleVars, feedbackVars
<1>2. CommonInv' /\ AsSeen
  BY AsideKeeps DEF UsualInv, LoopHead
<1>3. input' = input /\ AsideMoves
  BY DEF AsideMoves, Generator, GenRead, GenSend, GenFinal, GenUp, GenSpin, GenExit, ClockTick,
     LoopHead, SchedRead, SchedDown, SchedSpin, SchedExit, schedHead, tickVars, clkVars
<1>4. /\ schedPc' = schedPc \/ schedPc' \in {"read", "down", "receive", "exited"}
      /\ schedPc' # schedPc => schedPc \in {"read", "down", "spin", "returned"}
  BY <1>3 DEF AsideMoves
<1>5. /\ priority' = priority /\ executionTime' = executionTime /\ priorityKey' = priorityKey
      /\ HPF_Queue' = HPF_Queue /\ SJF_Queue' = SJF_Queue /\ Accepted' = Accepted
  BY <1>1, <1>3 DEF priority, executionTime, priorityKey, HPF_Queue, SJF_Queue, Accepted,
     Received, TooBig
<1>6. FeedbackTyped'
  BY <1>1 DEF UsualInv, FeedbackTyped
<1>7. RRInv => RRInv'
  BY <1>1, <1>4 DEF RRInv, OneLevel, FrontRuns, RR_Queue
<1>8. HPFInv => HPFInv'
  BY <1>1, <1>3, <1>4, <1>5 DEF HPFInv, OneLevel
<1>9. ASSUME SJFInv PROVE SJFInv'
  <2>1. /\ clk \in Int /\ currClk \in Int /\ currClk <= clk
        /\ \A p \in Procs : pcb[p].finishTime \in Int
    BY DEF UsualInv, CommonInv, TickTyped, DataInv, DataTyped, PCB
  <2>2. FinishedBefore'
    BY <1>1, <1>3, <1>9, <2>1 DEF SJFInv, FinishedBefore, AsideMoves
  <2>3. ShortestNow'
    BY <1>1, <1>3, <1>5, <1>9 DEF SJFInv, ShortestNow, AsideMoves
  <2>4. OneLevel' /\ schedPc' \notin {"refill", "broken", "quantum"}
    BY <1>1, <1>4, <1>9 DEF SJFInv, OneLevel
  <2>5. QED
    BY <1>1, <1>5, <1>9, <2>2, <2>3, <2>4 DEF SJFInv
<1>10. MLFLInv => MLFLInv'
  <2>1. BufferInv => BufferInv'
    BY <1>1, <1>5 DEF BufferInv
  <2>2. (LevelInv => LevelInv') /\ (IdleInv => IdleInv')
    BY <1>1, <1>4 DEF LevelInv, IdleInv, NobodyReady
  <2>3. (QuantumInv => QuantumInv') /\ (RefillInv => RefillInv')
    BY <1>1, <1>3, <1>4 DEF QuantumInv, RefillInv
  <2>4. QED
    BY <1>6, <2>1, <2>2, <2>3 DEF MLFLInv
<1>11. QED
  BY <1>1, <1>2, <1>6, <1>7, <1>8, <1>9, <1>10 DEF UsualInv

(* So does a step of the algorithm that is running; under round robin and  *)
(* shortest job first it leaves every startTime alone.                     *)
LEMMA BodyKeeps ==
  ASSUME UsualInv, Body
  PROVE  /\ UsualInv' /\ AsSeen
         /\ schedAlgorithm \in {"RR", "SJF"} => StartKept
<1>1. schedAlgorithm' = schedAlgorithm
  BY DEF Body
<1>2. CASE schedAlgorithm = "SJF" /\ SJFBody /\ UNCHANGED <<quantum_passed, feedbackVars>>
  <2>1. CommonInv' /\ AsSeen /\ SJFInv' /\ StartKept
    BY <1>2, SJFKeeps DEF UsualInv
  <2>2. FeedbackTyped'
    BY <1>2 DEF UsualInv, FeedbackTyped, feedbackVars
  <2>3. QED
    BY <1>1, <1>2, <2>1, <2>2 DEF UsualInv
<1>3. CASE schedAlgorithm = "HPF" /\ HPFBody /\ UNCHANGED <<quantum_passed, feedbackVars>>
  <2>1. CommonInv' /\ AsSeen /\ HPFInv'
    BY <1>3, HPFKeeps DEF UsualInv
  <2>2. FeedbackTyped'
    BY <1>3 DEF UsualInv, FeedbackTyped, feedbackVars
  <2>3. QED
    BY <1>1, <1>3, <2>1, <2>2 DEF UsualInv
<1>4. CASE schedAlgorithm = "RR" /\ RRBody /\ UNCHANGED feedbackVars
  <2>1. CommonInv' /\ AsSeen /\ RRInv' /\ StartKept
    BY <1>4, RRKeeps DEF UsualInv
  <2>2. FeedbackTyped'
    BY <1>4, <2>1 DEF UsualInv, FeedbackTyped, feedbackVars, RRInv
  <2>3. QED
    BY <1>1, <1>4, <2>1, <2>2 DEF UsualInv
<1>5. CASE schedAlgorithm = "MLFL" /\ MLFLBody
  <2>1. CommonInv' /\ AsSeen /\ MLFLInv'
    BY <1>5, MLFLKeeps DEF UsualInv
  <2>2. FeedbackTyped'
    BY <2>1 DEF MLFLInv
  <2>3. QED
    BY <1>1, <1>5, <2>1, <2>2 DEF UsualInv
<1>6. QED
  BY <1>2, <1>3, <1>4, <1>5 DEF Body

(* At the start.                                                           *)
LEMMA UsualInit ==
  ASSUME MainInit
  PROVE  UsualInv /\ Served!ServerInit
<1>1. CommonInv /\ Served!ServerInit
  BY CommonInit DEF MainInit
<1>2. /\ schedPc = "read" /\ currentPCB = NULL /\ \A l \in Levels : ready[l] = <<>>
      /\ finishedProcesses = <<>> /\ \A p \in Procs : pcb[p].state = "none"
      /\ quantum_passed = 0 /\ schedAlgorithm \in Algorithms
      /\ currentOccupiedLevel = -1 /\ reconstructing_buffer = <<>>
      /\ staleNext = [p \in Procs |-> NULL] /\ strayNode = NULL
  BY DEF MainInit, TickInit, BodyInit, MLFLInit
<1>3. ready[0] = <<>>
  BY <1>2, LevelAssumption DEF Levels
<1>4. /\ \A p : ~Contains(<<>>, p)
      /\ \A key : SortedBy(<<>>, key)
  BY DEF Contains, SortedBy
<1>5. <<>> \in Seq(Procs)
  BY EmptySeq
<1>6. FeedbackTyped
  BY <1>2, <1>5, QuantumAssumption DEF FeedbackTyped
<1>7. RRInv
  BY <1>2, <1>3, QuantumAssumption DEF RRInv, OneLevel, FrontRuns, RR_Queue, peek
<1>8. HPFInv
  BY <1>2, <1>3, <1>4 DEF HPFInv, OneLevel, HPF_Queue
<1>9. SJFInv
  BY <1>2, <1>3, <1>4 DEF SJFInv, OneLevel, SJF_Queue, FinishedBefore, ShortestNow
<1>10. MLFLInv
  BY <1>2, <1>4, <1>6 DEF MLFLInv, BufferInv, QuantumInv, LevelInv, IdleInv, RefillInv, NobodyReady
<1>11. QED
  BY <1>1, <1>2, <1>6, <1>7, <1>8, <1>9, <1>10 DEF UsualInv

(* Every step of the program.                                              *)
LEMMA UsualStep ==
  ASSUME UsualInv, [MainNext]_mainVars
  PROVE  /\ UsualInv' /\ AsSeen
         /\ schedAlgorithm \in {"RR", "SJF"} => StartKept
<1>1. CASE Body
  BY <1>1, BodyKeeps
<1>2. CASE Aside(Generator) \/ Aside(ClockTick) \/ Aside(LoopHead) \/ Aside(Ended)
  BY <1>2, AsidesKeep DEF Aside, Ended, StartKept, bodyVars
<1>3. CASE UNCHANGED mainVars
  <2>1. /\ UNCHANGED <<bodyVars, quantum_passed, feedbackVars, schedAlgorithm>>
        /\ UNCHANGED tickVars
    BY <1>3 DEF mainVars
  <2>2. QED
    BY <2>1, AsidesKeep DEF StartKept, bodyVars
<1>4. QED
  BY <1>1, <1>2, <1>3 DEF MainNext

(* The inductive invariant.                                                *)
THEOREM UsualInvHolds == MainSafety => []UsualInv
<1>1. MainInit => UsualInv
  BY UsualInit
<1>2. UsualInv /\ [MainNext]_mainVars => UsualInv'
  BY UsualStep
<1>3. QED
  BY <1>1, <1>2, PTL DEF MainSafety

(* TickServer seen through its proofs is TickServer.                       *)
LEMMA SameProtocol ==
  /\ Served!ServerInit => Protocol!ServerInit
  /\ Served!ServerNext => Protocol!ServerNext
  /\ UNCHANGED Served!serverVars => UNCHANGED Protocol!serverVars
BY DEF
     Served!ServerInit, Protocol!ServerInit, Served!TickInit, Protocol!TickInit,
     Served!ServerNext, Protocol!ServerNext, Served!Server, Protocol!Server,
     Served!Generator, Protocol!Generator, Served!GenRead, Protocol!GenRead,
     Served!GenSend, Protocol!GenSend, Served!GenFinal, Protocol!GenFinal, Served!GenUp,
     Protocol!GenUp, Served!GenSpin, Protocol!GenSpin, Served!GenExit, Protocol!GenExit,
     Served!ClockTick, Protocol!ClockTick, Served!Loop, Protocol!Loop, Served!Take,
     Protocol!Take, Served!SchedTake, Protocol!SchedTake, Served!Drained, Protocol!Drained,
     Served!Work, Protocol!Work, Served!Return, Protocol!Return, Served!Exit,
     Protocol!Exit, Served!SchedRead, Protocol!SchedRead, Served!SchedDown,
     Protocol!SchedDown, Served!SchedSpin, Protocol!SchedSpin, Served!SchedExit,
     Protocol!SchedExit, Served!SchedTo, Protocol!SchedTo, Served!Ended, Protocol!Ended,
     Served!Due, Protocol!Due, Served!GenSettled, Protocol!GenSettled, Served!SchedSettled,
     Protocol!SchedSettled, Served!serverVars, Protocol!serverVars, Served!tickVars,
     Protocol!tickVars, Served!clkVars, Protocol!clkVars, Served!genVars, Protocol!genVars,
     Served!schedHead, Protocol!schedHead, Served!Procs, Protocol!Procs

(* Seen from outside, whatever the algorithm, the program is a tick        *)
(* server: each of its steps is one of TickServer's, or a stutter.         *)
THEOREM ImplementsTickServer == MainSafety => ServesTicks
<1>1. MainInit => Protocol!ServerInit
  BY UsualInit, SameProtocol
<1>2. UsualInv /\ [MainNext]_mainVars => [Protocol!ServerNext]_(Protocol!serverVars)
  BY UsualStep, SameProtocol DEF AsSeen
<1>3. QED
  BY <1>1, <1>2, UsualInvHolds, PTL DEF MainSafety, ServesTicks, Protocol!ServerSafety


(* Every variable stays within its type, whatever the algorithm: the two   *)
(* counters are never negative or beyond the number of processes, the      *)
(* clock copies are never ahead of the clock, and the quantum is never     *)
(* exceeded.                                                               *)
THEOREM TypesHold == MainSafety => []MainTypeOK
<1>1. UsualInv => MainTypeOK
  BY TypesTogether DEF UsualInv, FeedbackTyped, MainTypeOK
<1>2. QED
  BY <1>1, UsualInvHolds, PTL

(* While a tick passes, the process on the CPU is the one its algorithm is *)
(* named for: the front of the queue under round robin, one of the highest *)
(* priority under HPF, the shortest of those there when the CPU became     *)
(* free under SJF, the front of its level under multi-level feedback.      *)
THEOREM RightOneHolds == MainSafety => []RightOneRuns
<1>1. ASSUME UsualInv PROVE RightOneRuns
  <2>1. schedAlgorithm = "RR" => FrontRuns
    BY <1>1 DEF UsualInv, RRInv
  <2>2. /\ HPF_Queue \in Seq(Procs) /\ SJF_Queue \in Seq(Procs)
        /\ finishedProcesses \in Seq(Procs)
    BY <1>1, OneQueueFacts, EmptySeq DEF UsualInv, CommonInv, DataInv, DataTyped, HPF_Queue, SJF_Queue
  <2>3. ASSUME NEW q \in Seq(Procs)
        PROVE  \A p : p \in ToSet(q) => p \in Procs /\ Contains(q, p)
    BY <2>3 DEF ToSet, Contains
  <2>4. schedAlgorithm = "HPF" => PriorityRespected
    <3>1. SUFFICES ASSUME schedAlgorithm = "HPF", schedPc = "spin",
                          NEW p \in ToSet(HPF_Queue)
                   PROVE  input[currentPCB].priority <= input[p].priority
      BY DEF PriorityRespected
    <3>2. HPFInv /\ p \in Procs /\ Contains(HPF_Queue, p)
      BY <1>1, <2>2, <2>3, <3>1 DEF UsualInv
    <3>3. currentPCB # NULL
      BY <3>1, <3>2 DEF HPFInv, Contains
    <3>4. QED
      BY <3>1, <3>2, <3>3 DEF HPFInv
  <2>5. schedAlgorithm = "SJF" => ShortestRuns
    <3>1. SUFFICES ASSUME schedAlgorithm = "SJF", schedPc = "spin", currentPCB # NULL,
                          NEW q \in ToSet(finishedProcesses), pcb[q].finishTime = currClk,
                          NEW p \in ToSet(SJF_Queue)
                   PROVE  input[currentPCB].executionTime <= input[p].executionTime
      BY DEF ShortestRuns
    <3>2. /\ SJFInv /\ p \in Procs /\ Contains(SJF_Queue, p)
          /\ q \in Procs /\ Contains(finishedProcesses, q)
      BY <1>1, <2>2, <2>3, <3>1 DEF UsualInv
    <3>3. QED
      BY <3>1, <3>2 DEF SJFInv, ShortestNow
  <2>6. schedAlgorithm = "MLFL" => FrontOfLevelRuns
    <3>1. SUFFICES ASSUME MLFLInv, schedPc = "spin" PROVE FrontOfLevelRuns
      BY <1>1 DEF UsualInv, FrontOfLevelRuns
    <3>2. -1 \notin Levels
      BY <1>1, LevelKeys DEF UsualInv
    <3>3. QED
      BY <3>1, <3>2 DEF MLFLInv, LevelInv, IdleInv, FrontOfLevelRuns, peek, MLVL_Queue
  <2>7. QED
    BY <2>1, <2>4, <2>5, <2>6 DEF RightOneRuns
<1>2. QED
  BY <1>1, UsualInvHolds, PTL

=============================================================================
