------------------------- MODULE SchedulerSafetyProofs -------------------------
(***************************************************************************)
(* What holds of the whole program as long as the scan of the memory       *)
(* buffer admits nobody but the front of it.  The scan takes out the front *)
(* whomever it admits: when it admits another process, that one is in two  *)
(* places from then on, and the front in none (the run "lost").            *)
(* Then that the times in the process control blocks are right, and at the *)
(* end, whatever the scan admits, that every tick is counted.              *)
(***************************************************************************)
EXTENDS SchedulerMainProofs

(* The process that the scan is about to admit is the front of the buffer. *)
ScanTakesFront ==
  schedPc = "scan" /\ ptr # <<>> /\ Allocate(tree, input[Head(ptr)].memSize) # {}
    => Head(Memory_Buffer) = Head(ptr)

Active(p)  == InQueue(p) \/ p = currentPCB
Waiting(p) == Contains(Memory_Buffer, p)
Shelved(p) == Contains(reconstructing_buffer, p)
Done(p)    == Contains(finishedProcesses, p)

(* Nobody is twice in a queue, be it in one level or in two.               *)
Singly(levels) ==
  /\ \A l \in Levels : Distinct(levels[l])
  /\ \A k, l \in Levels, p \in Procs :
       Contains(levels[k], p) /\ Contains(levels[l], p) => k = l

(* The scan walks processes that are still in the buffer.                  *)
ListsInv ==
  /\ Singly(ready)
  /\ Distinct(Memory_Buffer) /\ Distinct(reconstructing_buffer) /\ Distinct(finishedProcesses)
  /\ schedPc = "scan" => Distinct(ptr) /\ \A p \in Procs : Contains(ptr, p) => Waiting(p)

(* The state in a process control block says where the process is, and     *)
(* who is on the CPU; but during a refill the process that will run is not *)
(* resumed yet.                                                            *)
StateInv ==
  \A p \in Procs :
    /\ Waiting(p) => pcb[p].state = "Ready"
    /\ Shelved(p) => pcb[p].state = "Blocked"
    /\ Done(p) <=> pcb[p].state = "Finished"
    /\ InQueue(p) => pcb[p].state \in {"Ready", "Blocked", "Running"}
    /\ p = currentPCB => \/ pcb[p].state = "Running"
                         \/ pcb[p].state = "Blocked" /\ schedPc \in {"refill", "broken"}
    /\ pcb[p].state = "Running" => p = currentPCB
    /\ p \in Rejected => pcb[p].state = "Ready"

PlaceInv ==
  \A p \in Procs :
    /\ p \in Accepted => Active(p) \/ Waiting(p) \/ Shelved(p) \/ Done(p)
    /\ Active(p) => ~Waiting(p) /\ ~Shelved(p)

(* A process waits for memory only while another one holds some, but for   *)
(* the scan that has just got it back.                                     *)
MemoryInv ==
  /\ AdmittedHoldMemory
  /\ tree = {} /\ Memory_Buffer # <<>> => schedPc = "scan" /\ ptr # <<>>

(* A CPU without a process has nobody to run, and when the algorithm       *)
(* returns everybody has come and nobody waits.                            *)
RestInv ==
  /\ currentPCB = NULL /\ schedPc # "scan" => NobodyReady
  /\ schedPc \in {"returned", "exited"} =>
       Received = Procs /\ Memory_Buffer = <<>> /\ currentPCB = NULL
  /\ schedAlgorithm # "MLFL" => reconstructing_buffer = <<>>
  /\ schedAlgorithm = "HPF" /\ currentPCB # NULL => InQueue(currentPCB)

SafeInv == ListsInv /\ StateInv /\ PlaceInv /\ MemoryInv /\ RestInv

-----------------------------------------------------------------------------
(* Lists without repetition.                                               *)

(* One more process in a queue.                                            *)
LEMMA SinglyPut ==
  ASSUME NEW old \in Queues, NEW new, NEW p \in Procs, Enters(old, new, p)
  PROVE  Singly(new) <=> Singly(old) /\ ~InLevels(old, p)
<1>1. PICK l \in Levels : /\ PutIn(old[l], new[l], p)
                          /\ \A k \in Levels \ {l} : new[k] = old[k]
  BY DEF Enters
<1>2. old[l] \in Seq(Procs) /\ new[l] \in Seq(Procs)
  BY DEF Enters, Queues
<1>3. /\ Distinct(new[l]) <=> Distinct(old[l]) /\ ~Contains(old[l], p)
      /\ \A q : Contains(new[l], q) <=> Contains(old[l], q) \/ q = p
  BY <1>1, <1>2, PutInFacts
<1>4. ASSUME Singly(new) PROVE Singly(old) /\ ~InLevels(old, p)
  <2>1. \A k \in Levels : Distinct(old[k])
    BY <1>1, <1>3, <1>4 DEF Singly
  <2>2. \A k \in Levels : \A q : Contains(old[k], q) => Contains(new[k], q)
    BY <1>1, <1>3
  <2>3. ASSUME NEW k \in Levels, Contains(old[k], p) PROVE FALSE
    <3>1. Contains(new[k], p) /\ Contains(new[l], p)
      BY <1>3, <2>2, <2>3
    <3>2. k = l
      BY <1>4, <3>1 DEF Singly
    <3>3. QED
      BY <1>3, <1>4, <2>3, <3>2 DEF Singly
  <2>4. QED
    BY <1>4, <2>1, <2>2, <2>3 DEF Singly, InLevels
<1>5. ASSUME Singly(old), ~InLevels(old, p) PROVE Singly(new)
  <2>1. \A k \in Levels : Distinct(new[k])
    BY <1>1, <1>3, <1>5 DEF Singly, InLevels
  <2>2. ASSUME NEW k \in Levels, NEW m \in Levels, NEW q \in Procs,
               Contains(new[k], q), Contains(new[m], q)
        PROVE  k = m
    <3>1. CASE q = p
      BY <1>1, <1>5, <2>2, <3>1 DEF InLevels
    <3>2. CASE q # p
      <4>1. Contains(old[k], q) /\ Contains(old[m], q)
        BY <1>1, <1>3, <2>2, <3>2
      <4>2. QED
        BY <1>5, <4>1 DEF Singly
    <3>3. QED
      BY <3>1, <3>2
  <2>3. QED
    BY <2>1, <2>2 DEF Singly
<1>6. QED
  BY <1>4, <1>5

(* One process less in a queue: it is gone, and nobody else is.            *)
LEMMA SinglyTake ==
  ASSUME NEW old \in Queues, NEW new \in Queues, NEW p \in Procs, Enters(new, old, p), Singly(old)
  PROVE  Singly(new) /\ \A q : InLevels(new, q) <=> InLevels(old, q) /\ q # p
BY SinglyPut, EntersFacts

(* One process less in a list.                                             *)
LEMMA DistinctTake ==
  ASSUME NEW q \in Seq(Procs), NEW r \in Seq(Procs), NEW p \in Procs, PutIn(r, q, p), Distinct(q)
  PROVE  Distinct(r) /\ \A x : Contains(r, x) <=> Contains(q, x) /\ x # p
BY PutInFacts

-----------------------------------------------------------------------------
(* Processes seen as in ProcessLifecycle.                                  *)

View == [p \in Procs |-> Phase(p)]

(* A step of ProcessLifecycle, or none.                                    *)
LifeStep == Lifecycle!Next \/ View' = View

(* What a process looks like depends on its state and on its place.        *)
LEMMA PhaseFacts ==
  ASSUME NEW p \in Procs
  PROVE  /\ pcb[p].state = "none" => Phase(p) = "unseen"
         /\ pcb[p].state = "Ready" /\ TooBig(p) => Phase(p) = "rejected"
         /\ pcb[p].state = "Ready" /\ ~TooBig(p) /\ ~InQueue(p) => Phase(p) = "waiting"
         /\ pcb[p].state = "Ready" /\ ~TooBig(p) /\ InQueue(p) => Phase(p) = "ready"
         /\ pcb[p].state = "Running" => Phase(p) = "running"
         /\ pcb[p].state = "Blocked" => Phase(p) = "blocked"
         /\ pcb[p].state = "Finished" => Phase(p) = "finished"
BY DEF Phase

(* The same after a step.                                                  *)
LEMMA PhaseNext ==
  ASSUME NEW p \in Procs
  PROVE  /\ pcb'[p].state = "none" => Phase(p)' = "unseen"
         /\ pcb'[p].state = "Ready" /\ TooBig(p)' => Phase(p)' = "rejected"
         /\ pcb'[p].state = "Ready" /\ ~TooBig(p)' /\ ~InQueue(p)' => Phase(p)' = "waiting"
         /\ pcb'[p].state = "Ready" /\ ~TooBig(p)' /\ InQueue(p)' => Phase(p)' = "ready"
         /\ pcb'[p].state = "Running" => Phase(p)' = "running"
         /\ pcb'[p].state = "Blocked" => Phase(p)' = "blocked"
         /\ pcb'[p].state = "Finished" => Phase(p)' = "finished"
BY DEF Phase

(* Who keeps its state and, if it is ready, its place, looks the same.     *)
LEMMA PhaseKept ==
  ASSUME NEW p \in Procs, CommonInv, input' = input, pcb'[p].state = pcb[p].state,
         pcb[p].state = "Ready" /\ ~TooBig(p) => (InQueue(p)' <=> InQueue(p))
  PROVE  Phase(p)' = Phase(p)
<1>1. pcb[p].state \in States
  BY DEF CommonInv, DataInv, DataTyped, PCB
<1>2. TooBig(p)' <=> TooBig(p)
  BY DEF TooBig
<1>3. QED
  BY <1>1, <1>2, PhaseFacts, PhaseNext DEF States

(* Only one process looks different: which step that is.                   *)
LEMMA OneMoves ==
  ASSUME NEW p \in Procs, \A q \in Procs \ {p} : Phase(q)' = Phase(q),
         \/ Phase(p)' = Phase(p)
         \/ Phase(p) = "unseen" /\ Phase(p)' \in {"rejected", "waiting", "ready"}
         \/ Phase(p) = "waiting" /\ Phase(p)' = "ready"
         \/ Phase(p) = "running" /\ Phase(p)' \in {"blocked", "finished"}
         \/ /\ Phase(p) \in {"unseen", "ready", "blocked"} /\ Phase(p)' = "running"
            /\ \A q \in Procs : Phase(q) # "running"
  PROVE  LifeStep
<1>1. View \in [Procs -> {Phase(q) : q \in Procs}] /\ View[p] = Phase(p)
  BY DEF View
<1>2. View' = [View EXCEPT ![p] = Phase(p)']
  BY DEF View
<1>3. CASE Phase(p)' = Phase(p)
  BY <1>3 DEF LifeStep, View
<1>4. CASE Phase(p) = "unseen" /\ Phase(p)' = "rejected"
  BY <1>1, <1>2, <1>4 DEF LifeStep, View, Lifecycle!Next, Lifecycle!Reject
<1>5. CASE Phase(p) = "unseen" /\ Phase(p)' = "waiting"
  BY <1>1, <1>2, <1>5 DEF LifeStep, View, Lifecycle!Next, Lifecycle!Defer
<1>6. CASE Phase(p) \in {"unseen", "waiting"} /\ Phase(p)' = "ready"
  BY <1>1, <1>2, <1>6 DEF LifeStep, View, Lifecycle!Next, Lifecycle!Admit
<1>7. CASE Phase(p) = "running" /\ Phase(p)' = "blocked"
  BY <1>1, <1>2, <1>7 DEF LifeStep, View, Lifecycle!Next, Lifecycle!Block
<1>8. CASE Phase(p) = "running" /\ Phase(p)' = "finished"
  BY <1>1, <1>2, <1>8 DEF LifeStep, View, Lifecycle!Next, Lifecycle!Finish
<1>9. CASE /\ Phase(p) \in {"unseen", "ready", "blocked"} /\ Phase(p)' = "running"
           /\ \A q \in Procs : Phase(q) # "running"
  BY <1>1, <1>2, <1>9 DEF LifeStep, View, Lifecycle!Next, Lifecycle!Run, Lifecycle!MayRun,
     Lifecycle!Running
<1>10. QED
  BY <1>3, <1>4, <1>5, <1>6, <1>7, <1>8, <1>9

(* Two change places on the CPU.                                           *)
LEMMA TwoSwitch ==
  ASSUME NEW p \in Procs, NEW r \in Procs, p # r,
         \A q \in Procs \ {p, r} : Phase(q)' = Phase(q),
         Phase(p) = "running" /\ Phase(p)' = "blocked",
         Phase(r) \in {"unseen", "ready", "blocked"} /\ Phase(r)' = "running"
  PROVE  LifeStep
<1>1. View[p] = Phase(p) /\ View[r] = Phase(r)
  BY DEF View
<1>2. View' = [View EXCEPT ![p] = "blocked", ![r] = "running"]
  BY DEF View
<1>3. Lifecycle!Switch(p, r)
  BY <1>1, <1>2 DEF View, Lifecycle!Switch, Lifecycle!MayRun
<1>4. QED
  BY <1>3 DEF LifeStep, Lifecycle!Next

-----------------------------------------------------------------------------
(* The steps, whatever the algorithm.                                      *)

Extras == <<reconstructing_buffer, schedAlgorithm>>

(* Who is received, rejected, admitted after a step that leaves the states *)
(* as they were known to be.                                               *)
LEMMA SameSets ==
  ASSUME input' = input,
         \A q \in Procs : pcb'[q].state = "none" <=> pcb[q].state = "none"
  PROVE  /\ Received' = Received /\ Rejected' = Rejected /\ Accepted' = Accepted
         /\ \A q : TooBig(q)' <=> TooBig(q)
BY DEF Received, Rejected, Accepted, TooBig

(* Only the label moves, and what is left to run, or the counters.         *)
LEMMA LabelSafe ==
  ASSUME CommonInv, SafeInv,
         UNCHANGED <<input, tree, ready, Memory_Buffer, finishedProcesses, currentPCB, ptr>>,
         UNCHANGED Extras,
         \A q \in Procs : /\ pcb'[q].state = pcb[q].state
                          /\ pcb'[q].memoryNode = pcb[q].memoryNode,
         schedPc = "scan" /\ schedPc' # "scan" =>
           ptr = <<>> /\ (currentPCB = NULL => NobodyReady),
         schedPc # "scan" => schedPc' # "scan",
         schedPc \in {"refill", "broken"} => schedPc' \in {"refill", "broken"},
         schedPc' \in {"returned", "exited"} =>
           \/ schedPc \in {"returned", "exited"}
           \/ Received = Procs /\ Memory_Buffer = <<>> /\ currentPCB = NULL
  PROVE  SafeInv' /\ LifeStep
<1>1. Received' = Received /\ Rejected' = Rejected /\ Accepted' = Accepted
  BY SameSets
<1>2. UNCHANGED <<reconstructing_buffer, schedAlgorithm>>
  BY DEF Extras
<1>3. \A q : /\ InQueue(q)' <=> InQueue(q)
             /\ Waiting(q)' <=> Waiting(q)
             /\ Shelved(q)' <=> Shelved(q)
             /\ Done(q)' <=> Done(q)
  BY <1>2 DEF InQueue, Waiting, Shelved, Done
<1>4. ListsInv'
  BY <1>2, <1>3 DEF SafeInv, ListsInv, Singly
<1>5. StateInv'
  BY <1>1, <1>3 DEF SafeInv, StateInv
<1>6. PlaceInv'
  BY <1>1, <1>3 DEF SafeInv, PlaceInv, Active
<1>7. MemoryInv'
  <2>1. Admitted' = Admitted
    BY <1>2, <1>3 DEF Admitted
  <2>2. \A q \in Admitted : pcb'[q].memoryNode = pcb[q].memoryNode
    BY DEF Admitted
  <2>3. QED
    BY <2>1, <2>2 DEF SafeInv, MemoryInv, AdmittedHoldMemory
<1>8. RestInv'
  BY <1>1, <1>2, <1>3 DEF SafeInv, RestInv, NobodyReady
<1>9. LifeStep
  <2>1. \A q \in Procs : Phase(q)' = Phase(q)
    BY <1>3, PhaseKept
  <2>2. QED
    BY <2>1 DEF LifeStep, View
<1>10. QED
  BY <1>4, <1>5, <1>6, <1>7, <1>8, <1>9 DEF SafeInv

(* The process at the head of the message queue is nowhere yet.            *)
LEMMA NewFacts ==
  ASSUME CommonInv, SafeInv, SchedTake
  PROVE  /\ New \in Procs /\ New # NULL
         /\ schedPc = "receive" /\ schedPc' = "receive" /\ input' = input
         /\ pcb[New].state = "none" /\ New \notin Received
         /\ ~Active(New) /\ ~InQueue(New) /\ ~Waiting(New) /\ ~Shelved(New) /\ ~Done(New)
         /\ New \notin Admitted
         /\ currentPCB \in Procs \cup {NULL}
         /\ input[New].memSize \in Nat
<1>1. /\ schedPc = "receive" /\ schedPc' = "receive" /\ input' = input
      /\ msgq # <<>> /\ msgq \in Seq(Procs)
  BY DEF SchedTake, schedHead, clkVars, CommonInv, TickTyped
<1>2. 1 \in DOMAIN msgq /\ New = msgq[1] /\ New \in Procs
  BY <1>1 DEF New
<1>3. pcb[New].state = "none" /\ New \notin Received
  BY <1>2 DEF CommonInv, Served!SentInv, Served!SentOnce, Received
<1>4. ~Listed(New)
  BY <1>2, <1>3 DEF CommonInv, DataInv, OnlyReceived, Accepted
<1>5. ~Shelved(New)
  BY <1>2, <1>3 DEF SafeInv, StateInv
<1>6. ~Active(New) /\ ~InQueue(New) /\ ~Waiting(New) /\ ~Done(New) /\ New \notin Admitted
  BY <1>4, <1>5 DEF Listed, Active, Waiting, Done, Admitted, Shelved
<1>7. currentPCB \in Procs \cup {NULL} /\ input[New].memSize \in Nat
  BY <1>2, FileAssumption DEF CommonInv, TickTyped, DataInv, DataTyped
<1>8. QED
  BY <1>1, <1>2, <1>3, <1>5, <1>6, <1>7, NullAssumption

(* One that asks for too much.                                             *)
LEMMA TooBigSafe ==
  ASSUME CommonInv, SafeInv, ReceiveTooBig, UNCHANGED Extras
  PROVE  SafeInv' /\ LifeStep
<1>1. /\ SchedTake /\ pcb' = Receive(pcb, New) /\ TooBig(New)
      /\ UNCHANGED <<tree, ready, Memory_Buffer, finishedProcesses, currentPCB, ptr>>
      /\ UNCHANGED <<reconstructing_buffer, schedAlgorithm>>
  BY DEF ReceiveTooBig, queueVars, Extras, TooBig
<1>2. New \in Procs
  BY <1>1, NewFacts
<1> PICK n \in Procs : n = New
  BY <1>2
<1>3. /\ n # NULL
      /\ schedPc = "receive" /\ schedPc' = "receive" /\ input' = input
      /\ pcb[n].state = "none" /\ n \notin Received
      /\ ~Active(n) /\ ~InQueue(n) /\ ~Waiting(n) /\ ~Shelved(n) /\ ~Done(n)
      /\ n \notin Admitted
  BY <1>1, NewFacts
<1>4. Changes(pcb, pcb', n, "Ready")
  BY <1>1, <1>3, ReceiveFacts DEF CommonInv, DataInv, DataTyped
<1>5. \A q \in Procs \ {n} : pcb'[q] = pcb[q]
  BY <1>4 DEF Changes
<1>6. pcb'[n].state = "Ready"
  BY <1>4 DEF Changes
<1>7. /\ \A q : TooBig(q)' <=> TooBig(q)
      /\ Received' = Received \cup {n}
      /\ Rejected' = Rejected \cup {n} /\ Accepted' = Accepted
  BY <1>1, <1>3, <1>5, <1>6 DEF TooBig, Received, Rejected, Accepted
<1>8. \A q : /\ InQueue(q)' <=> InQueue(q)
             /\ Waiting(q)' <=> Waiting(q)
             /\ Shelved(q)' <=> Shelved(q)
             /\ Done(q)' <=> Done(q)
  BY <1>1 DEF InQueue, Waiting, Shelved, Done
<1>9. ListsInv'
  BY <1>1, <1>3 DEF SafeInv, ListsInv, Singly
<1>10. StateInv'
  <2>1. n # currentPCB
    BY <1>3 DEF Active
  <2>2. QED
    BY <1>1, <1>3, <1>5, <1>6, <1>7, <1>8, <2>1 DEF SafeInv, StateInv
<1>11. PlaceInv'
  BY <1>1, <1>7, <1>8 DEF SafeInv, PlaceInv, Active
<1>12. MemoryInv'
  <2>1. Admitted' = Admitted
    BY <1>1, <1>8 DEF Admitted
  <2>2. \A q \in Admitted : pcb'[q].memoryNode = pcb[q].memoryNode
    BY <1>3, <1>5 DEF Admitted
  <2>3. QED
    BY <1>1, <1>3, <2>1, <2>2 DEF SafeInv, MemoryInv, AdmittedHoldMemory
<1>13. RestInv'
  BY <1>1, <1>3, <1>8 DEF SafeInv, RestInv, NobodyReady
<1>14. LifeStep
  <2>1. \A q \in Procs \ {n} : Phase(q)' = Phase(q)
    BY <1>3, <1>5, <1>8, PhaseKept
  <2>2. Phase(n) = "unseen" /\ Phase(n)' = "rejected"
    BY <1>1, <1>3, <1>6, <1>7, PhaseFacts, PhaseNext
  <2>3. QED
    BY <1>3, <2>1, <2>2, OneMoves
<1>15. QED
  BY <1>9, <1>10, <1>11, <1>12, <1>13, <1>14 DEF SafeInv

-----------------------------------------------------------------------------
(* Memory.                                                                 *)

(* Who holds memory does not change.                                       *)
LEMMA MemorySame ==
  ASSUME AdmittedHoldMemory, tree' = tree, Admitted' = Admitted,
         \A q \in Admitted : pcb'[q].memoryNode = pcb[q].memoryNode
  PROVE  AdmittedHoldMemory'
BY DEF AdmittedHoldMemory

(* One more process holds a block, which nobody held.                      *)
LEMMA MemoryAdds ==
  ASSUME CommonInv, AdmittedHoldMemory, NEW n \in Procs, n \notin Admitted,
         NEW r \in Allocate(tree, input[n].memSize),
         tree' = r.tree, pcb'[n].memoryNode = r.block,
         \A q \in Procs \ {n} : pcb'[q].memoryNode = pcb[q].memoryNode,
         Admitted' = Admitted \cup {n}
  PROVE  AdmittedHoldMemory' /\ tree' # {}
<1>1. input[n].memSize \in Nat /\ WellFormed(tree)
  BY FileAssumption DEF CommonInv, TickTyped, DataInv
<1>2. Leaves(tree') = Leaves(tree) \cup {pcb'[n].memoryNode} /\ pcb'[n].memoryNode \notin Leaves(tree)
  BY <1>1, AllocateCorrect
<1>3. \A q \in Admitted : q \in Procs /\ q # n /\ pcb'[q].memoryNode = pcb[q].memoryNode
  BY DEF Admitted
<1>4. Leaves(tree') = {pcb'[p].memoryNode : p \in Admitted'}
  BY <1>2, <1>3 DEF AdmittedHoldMemory
<1>5. \A p, q \in Admitted' : pcb'[p].memoryNode = pcb'[q].memoryNode => p = q
  BY <1>2, <1>3 DEF AdmittedHoldMemory
<1>6. AdmittedHoldMemory'
  BY <1>4, <1>5 DEF AdmittedHoldMemory
<1>7. tree' # {}
  BY <1>2 DEF Leaves
<1>8. QED
  BY <1>6, <1>7

(* One process gives its block back.                                       *)
LEMMA MemoryDrops ==
  ASSUME AdmittedHoldMemory, NEW n \in Admitted,
         Leaves(tree') = Leaves(tree) \ {pcb[n].memoryNode},
         \A q \in Procs : pcb'[q].memoryNode = pcb[q].memoryNode,
         Admitted' = Admitted \ {n}
  PROVE  AdmittedHoldMemory'
<1>1. \A q \in Admitted : q \in Procs /\ pcb'[q].memoryNode = pcb[q].memoryNode
  BY DEF Admitted
<1>2. Leaves(tree') = {pcb'[p].memoryNode : p \in Admitted'}
  BY <1>1 DEF AdmittedHoldMemory
<1>3. \A p, q \in Admitted' : pcb'[p].memoryNode = pcb'[q].memoryNode => p = q
  BY <1>1 DEF AdmittedHoldMemory
<1>4. QED
  BY <1>2, <1>3 DEF AdmittedHoldMemory

(* Memory is not empty while somebody holds some.                          *)
LEMMA MemoryHeld ==
  ASSUME AdmittedHoldMemory, NEW p \in Admitted
  PROVE  tree # {}
BY DEF AdmittedHoldMemory, Leaves

(* Nor when a process that fits is refused.                                *)
LEMMA MemoryFull ==
  ASSUME CommonInv, NEW p \in Procs, ~TooBig(p), Allocate(tree, input[p].memSize) = {}
  PROVE  tree # {}
<1>1. input[p].memSize \in Nat /\ input[p].memSize <= MemorySize
  BY FileAssumption, BuddyAssumption DEF CommonInv, TickTyped, TooBig
<1>2. QED
  BY <1>1, RoomInEmpty

(* The process on the CPU is the only one that is running.                 *)
LEMMA NobodyRuns ==
  ASSUME CommonInv, StateInv, currentPCB = NULL \/ pcb[currentPCB].state = "Blocked"
  PROVE  \A q \in Procs : Phase(q) # "running"
<1>1. TAKE q \in Procs
<1>2. pcb[q].state \in States
  BY DEF CommonInv, DataInv, DataTyped, PCB
<1>3. pcb[q].state # "Running"
  BY NullAssumption DEF StateInv
<1>4. QED
  BY <1>2, <1>3, PhaseFacts DEF States

-----------------------------------------------------------------------------
(* The steps that let a process in.                                        *)

(* One that has to wait for memory.                                        *)
LEMMA NoRoomSafe ==
  ASSUME CommonInv, SafeInv, NEW key \in [Procs -> Int], ReceiveNoRoom(key), UNCHANGED Extras
  PROVE  SafeInv' /\ LifeStep
<1>1. /\ SchedTake /\ pcb' = Receive(pcb, New)
      /\ Allocate(tree, input[New].memSize) = {}
      /\ Memory_Buffer' = enqueuePriority(Memory_Buffer, New, key)
      /\ UNCHANGED <<tree, ready, finishedProcesses, currentPCB, ptr>>
      /\ UNCHANGED <<reconstructing_buffer, schedAlgorithm>>
  BY DEF ReceiveNoRoom, Extras
<1>2. New \in Procs
  BY <1>1, NewFacts
<1> PICK n \in Procs : n = New
  BY <1>2
<1>3. /\ n # NULL
      /\ schedPc = "receive" /\ schedPc' = "receive" /\ input' = input
      /\ pcb[n].state = "none" /\ n \notin Received
      /\ ~Active(n) /\ ~InQueue(n) /\ ~Waiting(n) /\ ~Shelved(n) /\ ~Done(n)
      /\ n \notin Admitted /\ input[n].memSize \in Nat
  BY <1>1, NewFacts
<1>4. ~TooBig(n)
  BY <1>3, BuddyAssumption DEF ReceiveNoRoom, TooBig
<1>5. Changes(pcb, pcb', n, "Ready")
  BY <1>1, ReceiveFacts DEF CommonInv, DataInv, DataTyped
<1>6. /\ \A q \in Procs \ {n} : pcb'[q] = pcb[q]
      /\ pcb'[n].state = "Ready"
  BY <1>5 DEF Changes
<1>7. /\ \A q : TooBig(q)' <=> TooBig(q)
      /\ Rejected' = Rejected /\ Accepted' = Accepted \cup {n}
      /\ Received' = Received \cup {n}
  BY <1>3, <1>4, <1>6 DEF TooBig, Received, Rejected, Accepted
<1>8. Memory_Buffer \in Seq(Procs)
  BY DEF CommonInv, DataInv, DataTyped
<1>9. Memory_Buffer' \in Seq(Procs) /\ PutIn(Memory_Buffer, Memory_Buffer', n)
  BY <1>1, <1>8, EnqueuePriorityPuts
<1>10. /\ Distinct(Memory_Buffer') <=> Distinct(Memory_Buffer) /\ ~Contains(Memory_Buffer, n)
       /\ \A q : Contains(Memory_Buffer', q) <=> Contains(Memory_Buffer, q) \/ q = n
  BY <1>8, <1>9, PutInFacts
<1>11. \A q : /\ InQueue(q)' <=> InQueue(q)
              /\ Waiting(q)' <=> Waiting(q) \/ q = n
              /\ Shelved(q)' <=> Shelved(q)
              /\ Done(q)' <=> Done(q)
  BY <1>1, <1>10 DEF InQueue, Waiting, Shelved, Done
<1>12. n # currentPCB
  BY <1>3 DEF Active
<1>13. ListsInv'
  BY <1>1, <1>3, <1>10 DEF SafeInv, ListsInv, Singly, Waiting
<1>14. StateInv'
  BY <1>1, <1>3, <1>6, <1>7, <1>11, <1>12 DEF SafeInv, StateInv
<1>15. PlaceInv'
  BY <1>1, <1>3, <1>7, <1>11, <1>12 DEF SafeInv, PlaceInv, Active
<1>16. MemoryInv'
  <2>1. Admitted' = Admitted
    BY <1>1, <1>11 DEF Admitted
  <2>2. \A q \in Admitted : pcb'[q].memoryNode = pcb[q].memoryNode
    BY <1>3, <1>6 DEF Admitted
  <2>3. AdmittedHoldMemory'
    BY <1>1, <2>1, <2>2, MemorySame DEF SafeInv, MemoryInv
  <2>4. tree # {}
    BY <1>1, <1>4, MemoryFull
  <2>5. QED
    BY <1>1, <2>3, <2>4 DEF MemoryInv
<1>17. RestInv'
  BY <1>1, <1>3, <1>11 DEF SafeInv, RestInv, NobodyReady
<1>18. LifeStep
  <2>1. \A q \in Procs \ {n} : Phase(q)' = Phase(q)
    BY <1>3, <1>6, <1>11, PhaseKept
  <2>2. Phase(n) = "unseen" /\ Phase(n)' = "waiting"
    BY <1>3, <1>4, <1>6, <1>7, <1>11, PhaseFacts, PhaseNext
  <2>3. QED
    BY <2>1, <2>2, OneMoves
<1>19. QED
  BY <1>13, <1>14, <1>15, <1>16, <1>17, <1>18 DEF SafeInv

(* One that is admitted as it arrives.                                     *)
LEMMA AdmitSafe ==
  ASSUME CommonInv, SafeInv, NEW queues, NEW takesCPU \in BOOLEAN,
         ReceiveAdmit(queues, takesCPU), UNCHANGED Extras,
         Enters(ready, queues, New),
         currentPCB = NULL => takesCPU,
         takesCPU /\ currentPCB # NULL => InQueue(currentPCB)
  PROVE  SafeInv' /\ LifeStep
<1>1. /\ SchedTake /\ input[New].memSize <= MemorySize
      /\ currentPCB' = IF takesCPU THEN New ELSE currentPCB
      /\ ready' = queues
      /\ UNCHANGED <<Memory_Buffer, finishedProcesses, ptr>>
      /\ UNCHANGED <<reconstructing_buffer, schedAlgorithm>>
  BY DEF ReceiveAdmit, Extras
<1>2. New \in Procs
  BY <1>1, NewFacts
<1> PICK n \in Procs : n = New
  BY <1>2
<1> PICK c \in Procs \cup {NULL} : c = currentPCB
  BY <1>1, NewFacts
<1>3. /\ n # NULL
      /\ schedPc = "receive" /\ schedPc' = "receive" /\ input' = input
      /\ pcb[n].state = "none" /\ n \notin Received
      /\ ~Active(n) /\ ~InQueue(n) /\ ~Waiting(n) /\ ~Shelved(n) /\ ~Done(n)
      /\ n \notin Admitted /\ input[n].memSize \in Nat
  BY <1>1, NewFacts
<1>4. /\ n # c
      /\ pcb'[n].state = IF takesCPU THEN "Running" ELSE "Ready"
      /\ \A q \in Procs \ {n} :
           IF takesCPU /\ q = c
           THEN /\ pcb'[q].state = "Blocked"
                /\ pcb'[q].memoryNode = pcb[q].memoryNode
           ELSE pcb'[q] = pcb[q]
      /\ \E r \in Allocate(tree, input[n].memSize) :
           tree' = r.tree /\ pcb'[n].memoryNode = r.block
  BY AdmitPcbs
<1>5. ~TooBig(n)
  BY <1>1, <1>3, BuddyAssumption DEF TooBig
<1>6. /\ c # NULL => pcb[c].state = "Running"
      /\ c # NULL => c \in Received
  BY <1>3 DEF SafeInv, StateInv, Received
<1>7. /\ \A q : TooBig(q)' <=> TooBig(q)
      /\ Rejected' = Rejected /\ Accepted' = Accepted \cup {n}
      /\ Received' = Received \cup {n}
  <2>1. \A q : TooBig(q)' <=> TooBig(q)
    BY <1>3 DEF TooBig
  <2>2. \A q \in Procs : pcb'[q].state # "none" <=> pcb[q].state # "none" \/ q = n
    <3>1. ASSUME NEW q \in Procs PROVE pcb'[q].state # "none" <=> pcb[q].state # "none" \/ q = n
      <4>1. CASE q = n
        BY <1>4, <4>1
      <4>2. CASE q = c
        BY <1>4, <1>6, <4>2, NullAssumption
      <4>3. CASE q # n /\ q # c
        BY <1>4, <4>3
      <4>4. QED
        BY <4>1, <4>2, <4>3
    <3>2. QED
      BY <3>1
  <2>3. Received' = Received \cup {n}
    BY <2>2 DEF Received
  <2>4. QED
    BY <1>5, <2>1, <2>3 DEF Rejected, Accepted
<1>8. ready \in Queues /\ queues \in Queues
  BY DEF CommonInv, DataInv, DataTyped, Queues, Enters
<1>9. /\ Singly(queues) <=> Singly(ready) /\ ~InLevels(ready, n)
      /\ \A q : InLevels(queues, q) <=> InLevels(ready, q) \/ q = n
  BY <1>8, SinglyPut, EntersFacts
<1>10. \A q : /\ InQueue(q)' <=> InQueue(q) \/ q = n
              /\ Waiting(q)' <=> Waiting(q)
              /\ Shelved(q)' <=> Shelved(q)
              /\ Done(q)' <=> Done(q)
  BY <1>1, <1>9 DEF InQueue, InLevels, Waiting, Shelved, Done
<1>11. ListsInv'
  BY <1>1, <1>3, <1>9 DEF SafeInv, ListsInv, InQueue, InLevels
<1>12. StateInv'
  <2>1. takesCPU /\ c # NULL => InQueue(c) /\ ~Waiting(c) /\ ~Shelved(c) /\ ~Done(c) /\ c \notin Rejected
    BY <1>6 DEF SafeInv, PlaceInv, StateInv, Active
  <2>2. CASE takesCPU
    <3>1. currentPCB' = n
      BY <1>1, <2>2
    <3>2. \A q \in Procs \ {n, c} : pcb'[q] = pcb[q]
      BY <1>4
    <3>3. pcb'[n].state = "Running" /\ (c # NULL => pcb'[c].state = "Blocked")
      BY <1>4, <2>2
    <3>4. \A q \in Procs \ {n, c} : pcb[q].state # "Running"
      BY DEF SafeInv, StateInv
    <3>5. SUFFICES ASSUME NEW q \in Procs
                   PROVE  /\ Waiting(q) => pcb'[q].state = "Ready"
                          /\ Shelved(q) => pcb'[q].state = "Blocked"
                          /\ Done(q) <=> pcb'[q].state = "Finished"
                          /\ InQueue(q) \/ q = n => pcb'[q].state \in {"Ready", "Blocked", "Running"}
                          /\ q = n <=> pcb'[q].state = "Running"
                          /\ q \in Rejected => pcb'[q].state = "Ready"
      BY <1>7, <1>10, <3>1, <3>3 DEF StateInv
    <3>6. CASE q = n
      BY <1>3, <3>3, <3>6 DEF Rejected
    <3>7. CASE q = c
      BY <1>4, <2>1, <2>2, <3>3, <3>7, NullAssumption
    <3>8. CASE q # n /\ q # c
      BY <3>2, <3>4, <3>8 DEF SafeInv, StateInv
    <3>9. QED
      BY <3>6, <3>7, <3>8
  <2>3. CASE ~takesCPU
    <3>1. currentPCB' = c /\ n # c
      BY <1>1, <1>4, <2>3
    <3>2. \A q \in Procs \ {n} : pcb'[q] = pcb[q]
      BY <1>4, <2>3
    <3>3. pcb'[n].state = "Ready"
      BY <1>4, <2>3
    <3>4. QED
      BY <1>3, <1>7, <1>10, <3>1, <3>2, <3>3 DEF SafeInv, StateInv
  <2>4. QED
    BY <2>2, <2>3
<1>13. \A q \in Procs : Active(q)' <=> Active(q) \/ q = n
  <2>1. takesCPU /\ c # NULL => InQueue(c)
    OBVIOUS
  <2>2. QED
    BY <1>1, <1>10, <2>1, NullAssumption DEF Active
<1>14. PlaceInv'
  BY <1>3, <1>7, <1>10, <1>13 DEF SafeInv, PlaceInv
<1>15. MemoryInv'
  <2>1. Admitted' = Admitted \cup {n}
    BY <1>10, <1>13 DEF Admitted, Active, Shelved
  <2>2. \A q \in Procs \ {n} : pcb'[q].memoryNode = pcb[q].memoryNode
    BY <1>4
  <2>3. AdmittedHoldMemory' /\ tree' # {}
    BY <1>3, <1>4, <2>1, <2>2, MemoryAdds DEF SafeInv, MemoryInv
  <2>4. QED
    BY <2>3 DEF MemoryInv
<1>16. RestInv'
  <2>1. currentPCB' # NULL
    BY <1>1, <1>3
  <2>2. QED
    BY <1>1, <1>3, <1>10, <2>1 DEF SafeInv, RestInv
<1>17. LifeStep
  <2>1. \A q \in Procs \ {n, c} : Phase(q)' = Phase(q)
    BY <1>3, <1>4, <1>10, PhaseKept
  <2>2. Phase(n) = "unseen"
    BY <1>3, PhaseFacts
  <2>3. CASE ~takesCPU
    <3>1. \A q \in Procs \ {n} : Phase(q)' = Phase(q)
      BY <1>3, <1>4, <1>10, <2>3, PhaseKept
    <3>2. Phase(n)' = "ready"
      BY <1>4, <1>5, <1>7, <1>10, <2>3, PhaseNext
    <3>3. QED
      BY <2>2, <3>1, <3>2, OneMoves
  <2>4. CASE takesCPU /\ c = NULL
    <3>1. Phase(n)' = "running"
      BY <1>4, <2>4, PhaseNext
    <3>2. \A q \in Procs : Phase(q) # "running"
      BY <2>4, NobodyRuns DEF SafeInv
    <3>3. \A q \in Procs \ {n} : Phase(q)' = Phase(q)
      BY <2>1, <2>4, NullAssumption
    <3>4. QED
      BY <2>2, <3>1, <3>2, <3>3, OneMoves
  <2>5. CASE takesCPU /\ c # NULL
    <3>1. Phase(n)' = "running"
      BY <1>4, <2>5, PhaseNext
    <3>2. c \in Procs /\ Phase(c) = "running" /\ Phase(c)' = "blocked"
      BY <1>4, <1>6, <2>5, PhaseFacts, PhaseNext
    <3>3. QED
      BY <1>4, <2>1, <2>2, <3>1, <3>2, TwoSwitch
  <2>6. QED
    BY <2>3, <2>4, <2>5
<1>18. QED
  BY <1>11, <1>12, <1>14, <1>15, <1>16, <1>17 DEF SafeInv

-----------------------------------------------------------------------------
(* The steps after a process has finished.                                 *)

(* The finish itself.  Under SJF the process may have left the queue       *)
(* before.                                                                 *)
LEMMA FinishSafe ==
  ASSUME CommonInv, SafeInv, NEW queues \in Queues, Finish(queues), UNCHANGED Extras,
         Enters(queues, ready, currentPCB) \/ (queues = ready /\ ~InQueue(currentPCB))
  PROVE  SafeInv' /\ LifeStep
<1>1. /\ schedPc = "dispatch" /\ schedPc' = "scan" /\ input' = input
      /\ currentPCB # NULL /\ currentPCB' = NULL
      /\ ready' = queues /\ ptr' = Memory_Buffer
      /\ UNCHANGED <<Memory_Buffer, reconstructing_buffer, schedAlgorithm>>
  BY DEF Finish, Extras, SchedTo, clkVars
<1>2. currentPCB \in Procs /\ ready \in Queues /\ pcb \in [Procs -> PCB]
  BY <1>1 DEF CommonInv, DataInv, DataTyped, Queues
<1> PICK c \in Procs : c = currentPCB
  BY <1>2
<1>3. \A q : InLevels(queues, q) => InLevels(ready, q)
  BY <1>2, EntersFacts
<1>4. /\ Changes(pcb, pcb', c, "Finished")
      /\ pcb'[c].memoryNode = pcb[c].memoryNode
      /\ Leaves(tree') = Leaves(tree) \ {pcb[c].memoryNode}
      /\ PutIn(finishedProcesses, finishedProcesses', c)
      /\ finishedProcesses' \in Seq(Procs)
  BY <1>3, FinishKeeps DEF CommonInv, DataInv, DataTyped
<1>5. /\ \A q \in Procs \ {c} : pcb'[q] = pcb[q]
      /\ pcb'[c].state = "Finished"
  BY <1>4 DEF Changes
<1>6. pcb[c].state = "Running" /\ ~Waiting(c) /\ ~Shelved(c) /\ ~Done(c) /\ c \notin Rejected
  <2>1. pcb[c].state = "Running"
    BY <1>1 DEF SafeInv, StateInv
  <2>2. QED
    BY <2>1 DEF SafeInv, StateInv
<1>7. Received' = Received /\ Rejected' = Rejected /\ Accepted' = Accepted
  BY <1>1, <1>5, <1>6, SameSets
<1>8. finishedProcesses \in Seq(Procs)
  BY DEF CommonInv, DataInv, DataTyped
<1>9. /\ Distinct(finishedProcesses') <=> Distinct(finishedProcesses) /\ ~Contains(finishedProcesses, c)
      /\ \A q : Contains(finishedProcesses', q) <=> Contains(finishedProcesses, q) \/ q = c
  BY <1>4, <1>8, PutInFacts
<1>10. Singly(queues) /\ \A q : InLevels(queues, q) <=> InLevels(ready, q) /\ q # c
  <2>1. Singly(ready)
    BY DEF SafeInv, ListsInv
  <2>2. CASE Enters(queues, ready, c)
    BY <1>2, <2>1, <2>2, SinglyTake
  <2>3. CASE queues = ready /\ ~InQueue(c)
    BY <2>1, <2>3 DEF InQueue, InLevels
  <2>4. QED
    BY <2>2, <2>3
<1>11. \A q : /\ InQueue(q)' <=> InQueue(q) /\ q # c
              /\ Waiting(q)' <=> Waiting(q)
              /\ Shelved(q)' <=> Shelved(q)
              /\ Done(q)' <=> Done(q) \/ q = c
  BY <1>1, <1>9, <1>10 DEF InQueue, InLevels, Waiting, Shelved, Done
<1>12. \A q \in Procs : Active(q)' <=> Active(q) /\ q # c
  BY <1>1, <1>11, NullAssumption DEF Active
<1>13. ListsInv'
  <2>1. \A q \in Procs : Contains(ptr', q) => Waiting(q)'
    BY <1>1 DEF Waiting
  <2>2. QED
    BY <1>1, <1>6, <1>9, <1>10, <2>1 DEF SafeInv, ListsInv, Done
<1>14. StateInv'
  <2>1. SUFFICES ASSUME NEW q \in Procs
                 PROVE  /\ Waiting(q) => pcb'[q].state = "Ready"
                        /\ Shelved(q) => pcb'[q].state = "Blocked"
                        /\ Done(q) \/ q = c <=> pcb'[q].state = "Finished"
                        /\ InQueue(q) /\ q # c => pcb'[q].state \in {"Ready", "Blocked", "Running"}
                        /\ pcb'[q].state # "Running"
                        /\ q \in Rejected => pcb'[q].state = "Ready"
    BY <1>1, <1>7, <1>11, NullAssumption DEF StateInv
  <2>2. CASE q = c
    BY <1>5, <1>6, <2>2
  <2>3. CASE q # c
    BY <1>5, <2>3 DEF SafeInv, StateInv
  <2>4. QED
    BY <2>2, <2>3
<1>15. PlaceInv'
  BY <1>7, <1>11, <1>12 DEF SafeInv, PlaceInv
<1>16. MemoryInv'
  <2>1. c \in Admitted /\ Admitted' = Admitted \ {c}
    BY <1>6, <1>11, <1>12 DEF Admitted, Active, Shelved
  <2>2. \A q \in Procs : pcb'[q].memoryNode = pcb[q].memoryNode
    BY <1>4, <1>5
  <2>3. AdmittedHoldMemory'
    BY <1>4, <2>1, <2>2, MemoryDrops DEF SafeInv, MemoryInv
  <2>4. QED
    BY <1>1, <2>3 DEF MemoryInv
<1>17. RestInv'
  BY <1>1 DEF SafeInv, RestInv
<1>18. LifeStep
  <2>1. \A q \in Procs \ {c} : Phase(q)' = Phase(q)
    BY <1>1, <1>5, <1>11, PhaseKept
  <2>2. Phase(c) = "running" /\ Phase(c)' = "finished"
    BY <1>5, <1>6, PhaseFacts, PhaseNext
  <2>3. QED
    BY <2>1, <2>2, OneMoves
<1>19. QED
  BY <1>13, <1>14, <1>15, <1>16, <1>17, <1>18 DEF SafeInv

(* One that waits gets a block: it is the front of the buffer, which is    *)
(* taken out.                                                              *)
LEMMA ScanAdmitSafe ==
  ASSUME CommonInv, SafeInv, ScanTakesFront, NEW queues, ScanAdmit(queues), UNCHANGED Extras,
         Enters(ready, queues, Head(ptr))
  PROVE  SafeInv' /\ LifeStep
<1>1. /\ schedPc = "scan" /\ schedPc' = "scan" /\ input' = input /\ ptr # <<>>
      /\ Allocate(tree, input[Head(ptr)].memSize) # {}
      /\ ready' = queues /\ ptr' = Tail(ptr)
      /\ Memory_Buffer' = dequeue(Memory_Buffer)
      /\ UNCHANGED <<finishedProcesses, currentPCB, reconstructing_buffer, schedAlgorithm>>
  BY DEF ScanAdmit, Extras, tickVars, schedHead, clkVars
<1>2. /\ ptr \in Seq(Procs) /\ Memory_Buffer \in Seq(Procs) /\ ready \in Queues
      /\ queues \in Queues /\ pcb \in [Procs -> PCB]
  BY DEF CommonInv, DataInv, DataTyped, Queues, Enters
<1>3. Head(ptr) \in Procs /\ Contains(ptr, Head(ptr))
  BY <1>1, <1>2, DequeueTakes
<1> PICK h \in Procs : h = Head(ptr)
  BY <1>3
<1>4. /\ h \in Accepted
      /\ Changes(pcb, pcb', h, "Ready")
      /\ \E r \in Allocate(tree, input[h].memSize) : tree' = r.tree /\ pcb'[h].memoryNode = r.block
  BY ScanAdmitKeeps
<1>5. /\ \A q \in Procs \ {h} : pcb'[q] = pcb[q]
      /\ pcb'[h].state = "Ready"
  BY <1>4 DEF Changes
<1>6. Waiting(h) /\ pcb[h].state = "Ready"
  BY <1>1, <1>3 DEF SafeInv, ListsInv, StateInv
<1>7. ~Active(h) /\ ~InQueue(h) /\ ~Shelved(h) /\ ~Done(h) /\ h \notin Admitted
  <2>1. ~Active(h) /\ ~Shelved(h) /\ ~Done(h)
    BY <1>6 DEF SafeInv, PlaceInv, StateInv
  <2>2. QED
    BY <2>1 DEF Active, Shelved, Admitted
<1>8. ~TooBig(h) /\ currentPCB = NULL
  BY <1>1, <1>4 DEF Accepted, CommonInv, DataInv
<1>9. Received' = Received /\ Rejected' = Rejected /\ Accepted' = Accepted
      /\ \A q : TooBig(q)' <=> TooBig(q)
  BY <1>1, <1>5, <1>6, SameSets
<1>10. PutIn(Tail(ptr), ptr, h) /\ Tail(ptr) \in Seq(Procs)
  <2>1. dequeue(ptr) = Tail(ptr)
    BY <1>1 DEF dequeue
  <2>2. QED
    BY <1>1, <1>2, <2>1, DequeueTakes
<1>11. Memory_Buffer # <<>> /\ Head(Memory_Buffer) = h
  <2>1. Memory_Buffer # <<>>
    BY <1>6 DEF Waiting, Contains
  <2>2. QED
    BY <1>1, <2>1 DEF ScanTakesFront
<1>12. PutIn(Memory_Buffer', Memory_Buffer, h) /\ Memory_Buffer' \in Seq(Procs)
  BY <1>1, <1>2, <1>11, DequeueTakes
<1>13. /\ Distinct(ptr')
       /\ \A q : Contains(ptr', q) <=> Contains(ptr, q) /\ q # h
       /\ Distinct(Memory_Buffer')
       /\ \A q : Contains(Memory_Buffer', q) <=> Contains(Memory_Buffer, q) /\ q # h
  <2>1. Distinct(ptr) /\ Distinct(Memory_Buffer)
    BY <1>1 DEF SafeInv, ListsInv
  <2>2. Distinct(Tail(ptr)) /\ \A q : Contains(Tail(ptr), q) <=> Contains(ptr, q) /\ q # h
    BY <1>2, <1>10, <2>1, DistinctTake
  <2>3. /\ Distinct(Memory_Buffer')
        /\ \A q : Contains(Memory_Buffer', q) <=> Contains(Memory_Buffer, q) /\ q # h
    BY <1>2, <1>12, <2>1, DistinctTake
  <2>4. QED
    BY <1>1, <2>2, <2>3
<1>14. Singly(queues) /\ \A q : InLevels(queues, q) <=> InLevels(ready, q) \/ q = h
  BY <1>2, <1>7, SinglyPut, EntersFacts DEF SafeInv, ListsInv, InQueue, InLevels
<1>15. \A q : /\ InQueue(q)' <=> InQueue(q) \/ q = h
              /\ Waiting(q)' <=> Waiting(q) /\ q # h
              /\ Shelved(q)' <=> Shelved(q)
              /\ Done(q)' <=> Done(q)
  BY <1>1, <1>13, <1>14 DEF InQueue, InLevels, Waiting, Shelved, Done
<1>16. \A q : Active(q)' <=> Active(q) \/ q = h
  BY <1>1, <1>15 DEF Active
<1>17. ListsInv'
  <2>1. \A q \in Procs : Contains(ptr', q) => Waiting(q)'
    BY <1>1, <1>13, <1>15 DEF SafeInv, ListsInv
  <2>2. QED
    BY <1>1, <1>13, <1>14, <2>1 DEF SafeInv, ListsInv
<1>18. StateInv'
  <2>1. SUFFICES ASSUME NEW q \in Procs
                 PROVE  /\ Waiting(q) /\ q # h => pcb'[q].state = "Ready"
                        /\ Shelved(q) => pcb'[q].state = "Blocked"
                        /\ Done(q) <=> pcb'[q].state = "Finished"
                        /\ InQueue(q) \/ q = h => pcb'[q].state \in {"Ready", "Blocked", "Running"}
                        /\ pcb'[q].state # "Running"
                        /\ q \in Rejected => pcb'[q].state = "Ready"
    BY <1>1, <1>8, <1>9, <1>15, NullAssumption DEF StateInv
  <2>2. CASE q = h
    BY <1>5, <1>7, <2>2
  <2>3. CASE q # h
    BY <1>5, <1>8, <2>3, NullAssumption DEF SafeInv, StateInv
  <2>4. QED
    BY <2>2, <2>3
<1>19. PlaceInv'
  BY <1>7, <1>9, <1>15, <1>16 DEF SafeInv, PlaceInv
<1>20. MemoryInv'
  <2>1. Admitted' = Admitted \cup {h}
    BY <1>15, <1>16 DEF Admitted, Active, Shelved
  <2>2. \A q \in Procs \ {h} : pcb'[q].memoryNode = pcb[q].memoryNode
    BY <1>5
  <2>3. AdmittedHoldMemory' /\ tree' # {}
    BY <1>4, <1>7, <2>1, <2>2, MemoryAdds DEF SafeInv, MemoryInv
  <2>4. QED
    BY <2>3 DEF MemoryInv
<1>21. RestInv'
  BY <1>1, <1>8 DEF SafeInv, RestInv
<1>22. LifeStep
  <2>1. \A q \in Procs \ {h} : Phase(q)' = Phase(q)
    BY <1>1, <1>5, <1>15, PhaseKept
  <2>2. Phase(h) = "waiting" /\ Phase(h)' = "ready"
    BY <1>5, <1>6, <1>7, <1>8, <1>9, <1>15, PhaseFacts, PhaseNext
  <2>3. QED
    BY <2>1, <2>2, OneMoves
<1>23. QED
  BY <1>17, <1>18, <1>19, <1>20, <1>21, <1>22 DEF SafeInv

(* One that waits gets no block: memory is not empty then.                 *)
LEMMA ScanSkipSafe ==
  ASSUME CommonInv, SafeInv, ScanSkip, UNCHANGED Extras
  PROVE  SafeInv' /\ LifeStep
<1>1. /\ schedPc = "scan" /\ schedPc' = "scan" /\ input' = input /\ ptr # <<>>
      /\ Allocate(tree, input[Head(ptr)].memSize) = {}
      /\ ptr' = Tail(ptr)
      /\ UNCHANGED <<tree, ready, Memory_Buffer, finishedProcesses, currentPCB>>
      /\ UNCHANGED <<reconstructing_buffer, schedAlgorithm>>
  BY DEF ScanSkip, Extras, tickVars, schedHead, clkVars, queueVars
<1>2. ptr \in Seq(Procs)
  BY DEF CommonInv, DataInv, DataTyped
<1>3. Head(ptr) \in Procs /\ Contains(ptr, Head(ptr))
  BY <1>1, <1>2, DequeueTakes
<1> PICK h \in Procs : h = Head(ptr)
  BY <1>3
<1>4. /\ h \in Accepted
      /\ \A q \in Procs : /\ pcb'[q].state = pcb[q].state
                          /\ q # h => pcb'[q].memoryNode = pcb[q].memoryNode
  BY ScanSkipKeeps
<1>5. Waiting(h) /\ pcb[h].state = "Ready"
  BY <1>1, <1>3 DEF SafeInv, ListsInv, StateInv
<1>6. h \notin Admitted
  BY <1>5 DEF SafeInv, PlaceInv, StateInv, Active, Shelved, Admitted
<1>7. Received' = Received /\ Rejected' = Rejected /\ Accepted' = Accepted
  BY <1>1, <1>4, SameSets
<1>8. PutIn(Tail(ptr), ptr, h) /\ Tail(ptr) \in Seq(Procs)
  <2>1. dequeue(ptr) = Tail(ptr)
    BY <1>1 DEF dequeue
  <2>2. QED
    BY <1>1, <1>2, <2>1, DequeueTakes
<1>9. Distinct(ptr') /\ \A q : Contains(ptr', q) <=> Contains(ptr, q) /\ q # h
  BY <1>1, <1>2, <1>8, DistinctTake DEF SafeInv, ListsInv
<1>10. \A q : /\ InQueue(q)' <=> InQueue(q)
              /\ Waiting(q)' <=> Waiting(q)
              /\ Shelved(q)' <=> Shelved(q)
              /\ Done(q)' <=> Done(q)
  BY <1>1 DEF InQueue, Waiting, Shelved, Done
<1>11. ListsInv'
  BY <1>1, <1>9, <1>10 DEF SafeInv, ListsInv, Singly
<1>12. StateInv'
  BY <1>1, <1>4, <1>7, <1>10 DEF SafeInv, StateInv
<1>13. PlaceInv'
  BY <1>1, <1>7, <1>10 DEF SafeInv, PlaceInv, Active
<1>14. MemoryInv'
  <2>1. Admitted' = Admitted
    BY <1>1, <1>10 DEF Admitted
  <2>2. \A q \in Admitted : pcb'[q].memoryNode = pcb[q].memoryNode
    BY <1>4, <1>6 DEF Admitted
  <2>3. AdmittedHoldMemory'
    BY <1>1, <2>1, <2>2, MemorySame DEF SafeInv, MemoryInv
  <2>4. tree' # {}
    BY <1>1, <1>4, MemoryFull DEF Accepted
  <2>5. QED
    BY <2>3, <2>4 DEF MemoryInv
<1>15. RestInv'
  BY <1>1 DEF SafeInv, RestInv, CommonInv, DataInv
<1>16. LifeStep
  <2>1. \A q \in Procs : Phase(q)' = Phase(q)
    BY <1>1, <1>4, <1>10, PhaseKept
  <2>2. QED
    BY <2>1 DEF LifeStep, View
<1>17. QED
  BY <1>11, <1>12, <1>13, <1>14, <1>15, <1>16 DEF SafeInv

(* The process that runs next has been chosen.                             *)
LEMMA PickSafe ==
  ASSUME CommonInv, SafeInv, NEW p \in Procs, NEW pcbs, NEW queues \in Queues,
         NEW next \in {"quantum", "run"}, Pick(p, pcbs, queues, next), UNCHANGED Extras,
         InLevels(ready, p), Changes(pcb, pcbs, p, "Running"),
         pcbs[p].memoryNode = pcb[p].memoryNode,
         queues = ready \/ (schedAlgorithm # "HPF" /\ Enters(queues, ready, p))
  PROVE  SafeInv' /\ LifeStep
<1>1. /\ schedPc = "scan" /\ schedPc' \in {"quantum", "run"} /\ input' = input
      /\ currentPCB' = p /\ pcb' = pcbs /\ ready' = queues
      /\ UNCHANGED <<tree, Memory_Buffer, finishedProcesses>>
      /\ UNCHANGED <<reconstructing_buffer, schedAlgorithm>>
  BY DEF Pick, Extras, SchedTo, clkVars
<1>2. /\ \A q \in Procs \ {p} : pcb'[q] = pcb[q]
      /\ pcb'[p].state = "Running" /\ pcb'[p].memoryNode = pcb[p].memoryNode
  BY <1>1 DEF Changes
<1>3. currentPCB = NULL /\ p # NULL /\ InQueue(p) /\ ready \in Queues
  BY <1>1, NullAssumption DEF CommonInv, DataInv, DataTyped, Queues, InQueue, InLevels
<1>4. /\ pcb[p].state \in {"Ready", "Blocked"} /\ p \in Accepted
      /\ ~Waiting(p) /\ ~Shelved(p) /\ ~Done(p)
  <2>1. p \in Accepted
    BY <1>3 DEF CommonInv, DataInv, OnlyReceived, Listed
  <2>2. pcb[p].state \in {"Ready", "Blocked"}
    BY <1>3 DEF SafeInv, StateInv
  <2>3. QED
    BY <1>3, <2>1, <2>2 DEF SafeInv, PlaceInv, StateInv, Active
<1>5. Received' = Received /\ Rejected' = Rejected /\ Accepted' = Accepted
  BY <1>1, <1>2, <1>4, SameSets
<1>6. Singly(queues) /\ \A q : InLevels(queues, q) \/ q = p <=> InLevels(ready, q)
  <2>1. Singly(ready)
    BY DEF SafeInv, ListsInv
  <2>2. CASE queues = ready
    BY <1>3, <2>1, <2>2
  <2>3. CASE Enters(queues, ready, p)
    BY <1>3, <2>1, <2>3, SinglyTake
  <2>4. QED
    BY <2>2, <2>3
<1>7. \A q : /\ InQueue(q)' \/ q = p <=> InQueue(q)
             /\ Waiting(q)' <=> Waiting(q)
             /\ Shelved(q)' <=> Shelved(q)
             /\ Done(q)' <=> Done(q)
  BY <1>1, <1>6 DEF InQueue, InLevels, Waiting, Shelved, Done
<1>8. \A q \in Procs : Active(q)' <=> Active(q)
  BY <1>1, <1>3, <1>7, NullAssumption DEF Active
<1>9. ListsInv'
  BY <1>1, <1>6 DEF SafeInv, ListsInv
<1>10. StateInv'
  <2>1. SUFFICES ASSUME NEW q \in Procs
                 PROVE  /\ Waiting(q) => pcb'[q].state = "Ready"
                        /\ Shelved(q) => pcb'[q].state = "Blocked"
                        /\ Done(q) <=> pcb'[q].state = "Finished"
                        /\ InQueue(q) => pcb'[q].state \in {"Ready", "Blocked", "Running"}
                        /\ q = p <=> pcb'[q].state = "Running"
                        /\ q \in Rejected => pcb'[q].state = "Ready"
    BY <1>1, <1>5, <1>7 DEF StateInv
  <2>2. CASE q = p
    BY <1>2, <1>4, <2>2 DEF Accepted, Rejected
  <2>3. CASE q # p
    BY <1>2, <1>3, <2>3, NullAssumption DEF SafeInv, StateInv
  <2>4. QED
    BY <2>2, <2>3
<1>11. PlaceInv'
  BY <1>5, <1>7, <1>8 DEF SafeInv, PlaceInv
<1>12. MemoryInv'
  <2>1. Admitted' = Admitted /\ p \in Admitted
    BY <1>3, <1>7, <1>8 DEF Admitted, Active, Shelved
  <2>2. \A q \in Admitted : pcb'[q].memoryNode = pcb[q].memoryNode
    BY <1>2 DEF Admitted
  <2>3. AdmittedHoldMemory' /\ tree' # {}
    BY <1>1, <2>1, <2>2, MemorySame, MemoryHeld DEF SafeInv, MemoryInv
  <2>4. QED
    BY <2>3 DEF MemoryInv
<1>13. RestInv'
  <2>1. schedAlgorithm = "HPF" => InQueue(p)'
    BY <1>1, <1>3 DEF InQueue
  <2>2. QED
    BY <1>1, <1>3, <2>1 DEF SafeInv, RestInv
<1>14. LifeStep
  <2>1. \A q \in Procs \ {p} : Phase(q)' = Phase(q)
    BY <1>1, <1>2, <1>7, PhaseKept
  <2>2. Phase(p) \in {"ready", "blocked"} /\ Phase(p)' = "running"
    BY <1>2, <1>3, <1>4, PhaseFacts, PhaseNext DEF Accepted
  <2>3. \A q \in Procs : Phase(q) # "running"
    BY <1>3, NobodyRuns DEF SafeInv
  <2>4. QED
    BY <2>1, <2>2, <2>3, OneMoves
<1>15. QED
  BY <1>9, <1>10, <1>11, <1>12, <1>13, <1>14 DEF SafeInv

-----------------------------------------------------------------------------
(* The end of a quantum.                                                   *)

(* One process is stopped and then one, maybe the same, is run.            *)
LEMMA HandsOver ==
  ASSUME NEW old \in [Procs -> PCB], NEW new, NEW c \in Procs, NEW p \in Procs,
         Changes(Stop(old, c), new, p, "Running"),
         new[p].memoryNode = Stop(old, c)[p].memoryNode
  PROVE  \A q \in Procs :
           /\ new[q].memoryNode = old[q].memoryNode
           /\ new[q].state = IF q = p THEN "Running" ELSE IF q = c THEN "Blocked" ELSE old[q].state
<1> DEFINE stopped == Stop(old, c)
<1>1. Changes(old, stopped, c, "Blocked") /\ stopped[c].memoryNode = old[c].memoryNode
  BY StopFacts
<1> HIDE DEF stopped
<1>2. Changes(stopped, new, p, "Running") /\ new[p].memoryNode = stopped[p].memoryNode
  BY DEF stopped
<1>3. QED
  BY <1>1, <1>2 DEF Changes

(* The process on the CPU leaves its place in the queue for another one    *)
(* there, or for the buffer of multi-level feedback, and the next one, if  *)
(* there is one, gets the CPU.                                             *)
LEMMA SwitchSafe ==
  ASSUME CommonInv, SafeInv, schedPc = "quantum", schedPc' = "run",
         UNCHANGED <<input, tree, Memory_Buffer, finishedProcesses, schedAlgorithm>>,
         NEW c \in Procs, c = currentPCB, NEW next \in Procs \cup {NULL}, next = currentPCB',
         NEW rest \in Queues, Enters(rest, ready, c),
         \/ Enters(rest, ready', c) /\ reconstructing_buffer' = reconstructing_buffer
         \/ /\ ready' = rest /\ schedAlgorithm = "MLFL"
            /\ reconstructing_buffer \in Seq(Procs) /\ reconstructing_buffer' \in Seq(Procs)
            /\ PutIn(reconstructing_buffer, reconstructing_buffer', c),
         IF next = NULL THEN \A l \in Levels : ready'[l] = <<>> ELSE InLevels(ready', next),
         \A q \in Procs :
           /\ pcb'[q].memoryNode = pcb[q].memoryNode
           /\ pcb'[q].state = IF q = next THEN "Running"
                              ELSE IF q = c THEN "Blocked" ELSE pcb[q].state
  PROVE  SafeInv' /\ LifeStep
<1>1. ready \in Queues /\ Singly(ready)
  BY DEF CommonInv, DataInv, DataTyped, Queues, SafeInv, ListsInv
<1>2. /\ Singly(rest) /\ ~InLevels(rest, c) /\ InLevels(ready, c)
      /\ \A q : InLevels(ready, q) <=> InLevels(rest, q) \/ q = c
  BY <1>1, SinglyPut, EntersFacts
<1>3. /\ pcb[c].state = "Running" /\ InQueue(c) /\ Active(c)
      /\ ~Waiting(c) /\ ~Shelved(c) /\ ~Done(c) /\ c \in Accepted /\ c \in Admitted
  <2>1. pcb[c].state = "Running" /\ InQueue(c) /\ Active(c)
    BY <1>2 DEF SafeInv, StateInv, InQueue, InLevels, Active
  <2>2. c \in Accepted
    BY DEF CommonInv, DataInv, OnlyReceived, Listed
  <2>3. QED
    BY <2>1, <2>2 DEF SafeInv, PlaceInv, StateInv, Admitted
<1>4. /\ \/ Shelved(c)' /\ ~InLevels(ready', c)
         \/ ~Shelved(c)' /\ InLevels(ready', c)
      /\ \A q : q # c => /\ Shelved(q)' <=> Shelved(q)
                         /\ InLevels(ready', q) <=> InLevels(ready, q)
      /\ Singly(ready') /\ Distinct(reconstructing_buffer')
      /\ schedAlgorithm # "MLFL" => reconstructing_buffer' = reconstructing_buffer
  <2>1. CASE Enters(rest, ready', c) /\ reconstructing_buffer' = reconstructing_buffer
    <3>1. /\ Singly(ready')
          /\ \A q : InLevels(ready', q) <=> InLevels(rest, q) \/ q = c
      BY <1>2, <2>1, SinglyPut, EntersFacts
    <3>2. \A q : Shelved(q)' <=> Shelved(q)
      BY <2>1 DEF Shelved
    <3>3. QED
      BY <1>2, <1>3, <2>1, <3>1, <3>2 DEF SafeInv, ListsInv
  <2>2. CASE /\ ready' = rest /\ schedAlgorithm = "MLFL"
             /\ reconstructing_buffer \in Seq(Procs) /\ reconstructing_buffer' \in Seq(Procs)
             /\ PutIn(reconstructing_buffer, reconstructing_buffer', c)
    <3>1. /\ Distinct(reconstructing_buffer')
            <=> Distinct(reconstructing_buffer) /\ ~Contains(reconstructing_buffer, c)
          /\ \A q : Contains(reconstructing_buffer', q) <=> Contains(reconstructing_buffer, q) \/ q = c
      BY <2>2, PutInFacts
    <3>2. QED
      BY <1>2, <1>3, <2>2, <3>1 DEF SafeInv, ListsInv, Shelved
  <2>3. QED
    BY <2>1, <2>2
<1>5. next # NULL /\ next # c => /\ pcb[next].state \in {"Ready", "Blocked"} /\ InQueue(next)
                                 /\ next \in Accepted /\ Active(next)
                                 /\ ~Waiting(next) /\ ~Shelved(next) /\ ~Done(next)
  <2>1. SUFFICES ASSUME next # NULL, next # c
                 PROVE  /\ pcb[next].state \in {"Ready", "Blocked"} /\ InQueue(next)
                        /\ next \in Accepted /\ Active(next)
                        /\ ~Waiting(next) /\ ~Shelved(next) /\ ~Done(next)
    OBVIOUS
  <2>2. next \in Procs /\ InQueue(next) /\ Active(next)
    BY <1>4, <2>1 DEF InQueue, InLevels, Active
  <2>3. pcb[next].state \in {"Ready", "Blocked"}
    BY <2>1, <2>2 DEF SafeInv, StateInv
  <2>4. next \in Accepted
    BY <2>2 DEF CommonInv, DataInv, OnlyReceived, Listed
  <2>5. QED
    BY <2>2, <2>3, <2>4 DEF SafeInv, PlaceInv, StateInv
<1>6. next = c => InLevels(ready', c)
  BY NullAssumption
<1>7. Received' = Received /\ Rejected' = Rejected /\ Accepted' = Accepted
  <2>1. ASSUME NEW q \in Procs PROVE pcb'[q].state = "none" <=> pcb[q].state = "none"
    BY <1>3, <1>5, NullAssumption
  <2>2. QED
    BY <2>1, SameSets
<1>8. \A q : /\ InQueue(q)' <=> InLevels(ready', q)
             /\ InQueue(q) <=> InLevels(ready, q)
             /\ Waiting(q)' <=> Waiting(q)
             /\ Done(q)' <=> Done(q)
  BY DEF InQueue, InLevels, Waiting, Done
<1>9. \A q \in Procs : Active(q)' <=> InLevels(ready', q)
  BY <1>8, NullAssumption DEF Active
<1>10. \A q \in Procs \ {c} : Active(q) <=> InLevels(ready, q)
  BY <1>8 DEF Active
<1>11. ListsInv'
  BY <1>4 DEF SafeInv, ListsInv
<1>12. StateInv'
  <2>1. SUFFICES ASSUME NEW q \in Procs
                 PROVE  /\ Waiting(q) => pcb'[q].state = "Ready"
                        /\ Shelved(q)' => pcb'[q].state = "Blocked"
                        /\ Done(q) <=> pcb'[q].state = "Finished"
                        /\ InLevels(ready', q) => pcb'[q].state \in {"Ready", "Blocked", "Running"}
                        /\ q = next <=> pcb'[q].state = "Running"
                        /\ q \in Rejected => pcb'[q].state = "Ready"
    BY <1>7, <1>8 DEF StateInv
  <2>2. CASE q = c
    BY <1>3, <1>4, <1>6, <2>2 DEF Accepted, Rejected
  <2>3. CASE q = next /\ q # c
    BY <1>4, <1>5, <2>3, NullAssumption DEF Accepted, Rejected
  <2>4. CASE q # next /\ q # c
    BY <1>4, <1>8, <2>4 DEF SafeInv, StateInv
  <2>5. QED
    BY <2>2, <2>3, <2>4
<1>13. PlaceInv'
  <2>1. SUFFICES ASSUME NEW q \in Procs
                 PROVE  /\ q \in Accepted =>
                             InLevels(ready', q) \/ Waiting(q) \/ Shelved(q)' \/ Done(q)
                        /\ InLevels(ready', q) => ~Waiting(q) /\ ~Shelved(q)'
    BY <1>7, <1>8, <1>9 DEF PlaceInv
  <2>2. CASE q = c
    BY <1>3, <1>4, <2>2
  <2>3. CASE q # c
    BY <1>4, <1>10, <2>3 DEF SafeInv, PlaceInv
  <2>4. QED
    BY <2>2, <2>3
<1>14. MemoryInv'
  <2>1. Admitted' = {q \in Procs : InLevels(ready', q) \/ Shelved(q)'}
    BY <1>8, <1>9 DEF Admitted, Active, Shelved
  <2>2. Admitted = {q \in Procs : Active(q) \/ Shelved(q)}
    BY DEF Admitted, Active, Shelved
  <2>3. ASSUME NEW q \in Procs PROVE q \in Admitted' <=> q \in Admitted
    BY <1>3, <1>4, <1>10, <2>1, <2>2
  <2>4. Admitted' = Admitted
    BY <2>1, <2>2, <2>3
  <2>5. \A q \in Admitted : pcb'[q].memoryNode = pcb[q].memoryNode
    BY DEF Admitted
  <2>6. AdmittedHoldMemory' /\ tree' # {}
    BY <1>3, <2>4, <2>5, MemorySame, MemoryHeld DEF SafeInv, MemoryInv
  <2>7. QED
    BY <2>6 DEF MemoryInv
<1>15. RestInv'
  <2>1. currentPCB' = NULL => NobodyReady'
    BY DEF NobodyReady
  <2>2. currentPCB' # NULL => InQueue(currentPCB)'
    BY DEF InQueue, InLevels
  <2>3. QED
    BY <1>4, <2>1, <2>2 DEF SafeInv, RestInv
<1>16. LifeStep
  <2>1. \A q \in Procs \ {c, next} : Phase(q)' = Phase(q)
    BY <1>4, <1>8, PhaseKept
  <2>2. Phase(c) = "running"
    BY <1>3, PhaseFacts
  <2>3. CASE next = NULL
    <3>1. Phase(c)' = "blocked"
      BY <2>3, NullAssumption, PhaseNext
    <3>2. \A q \in Procs \ {c} : Phase(q)' = Phase(q)
      BY <2>1, <2>3, NullAssumption
    <3>3. QED
      BY <2>2, <3>1, <3>2, OneMoves
  <2>4. CASE next = c
    <3>1. Phase(c)' = "running"
      BY <2>4, PhaseNext
    <3>2. \A q \in Procs \ {c} : Phase(q)' = Phase(q)
      BY <2>1, <2>4
    <3>3. QED
      BY <2>2, <3>1, <3>2, OneMoves
  <2>5. CASE next # NULL /\ next # c
    <3>1. next \in Procs /\ Phase(next) \in {"ready", "blocked"}
      BY <1>5, <2>5, PhaseFacts DEF Accepted
    <3>2. Phase(next)' = "running" /\ Phase(c)' = "blocked"
      BY <2>5, <3>1, PhaseNext
    <3>3. QED
      BY <2>1, <2>2, <2>5, <3>1, <3>2, TwoSwitch
  <2>6. QED
    BY <2>3, <2>4, <2>5
<1>17. QED
  BY <1>11, <1>12, <1>13, <1>14, <1>15, <1>16 DEF SafeInv

-----------------------------------------------------------------------------
(* The refill of the levels.                                               *)

(* One process more goes from the buffer back to its level; the first of   *)
(* them is taken to be the running one, before it is resumed.              *)
LEMMA RefillSafe ==
  ASSUME CommonInv, SafeInv, FeedbackTyped, RefillInv, Refill,
         schedAlgorithm = "MLFL", schedAlgorithm' = schedAlgorithm
  PROVE  SafeInv' /\ LifeStep
<1>1. /\ schedPc \in {"run", "refill"} /\ schedPc' = "refill" /\ input' = input
      /\ reconstructing_buffer # <<>>
      /\ ready' = AtItsLevel(ready, Head(reconstructing_buffer))
      /\ reconstructing_buffer' = dequeue(reconstructing_buffer)
      /\ UNCHANGED <<tree, pcb, Memory_Buffer, finishedProcesses, ptr>>
  BY DEF Refill, SchedTo, clkVars, MLVL_Queue
<1>2. /\ reconstructing_buffer \in Seq(Procs) /\ ready \in Queues
      /\ reconstructing_buffer' \in Seq(Procs)
      /\ Head(reconstructing_buffer) \in Procs
      /\ Contains(reconstructing_buffer, Head(reconstructing_buffer))
      /\ PutIn(reconstructing_buffer', reconstructing_buffer, Head(reconstructing_buffer))
  BY <1>1, DequeueTakes, LevelKeys DEF FeedbackTyped
<1> PICK h \in Procs : h = Head(reconstructing_buffer)
  BY <1>2
<1>3. /\ currentPCB' \in Procs
      /\ \/ currentPCB = NULL /\ currentPCB' = h
         \/ currentPCB # NULL /\ currentPCB' = currentPCB
  BY <1>1, <1>2 DEF Refill, RefillInv, CommonInv, DataInv, DataTyped
<1>4. Enters(ready, ready', h)
  BY <1>1, <1>2, LevelPut, LevelKeys DEF AtItsLevel
<1>5. /\ Shelved(h) /\ pcb[h].state = "Blocked" /\ h \in Accepted
      /\ ~Active(h) /\ ~InQueue(h) /\ ~Waiting(h)
  <2>1. Shelved(h) /\ pcb[h].state = "Blocked"
    BY <1>2 DEF Shelved, SafeInv, StateInv
  <2>2. h \in Accepted
    BY <2>1 DEF SafeInv, StateInv, Accepted, Received, Rejected
  <2>3. QED
    BY <2>1, <2>2 DEF SafeInv, PlaceInv, StateInv, Active
<1>6. /\ Distinct(reconstructing_buffer')
      /\ \A q : Contains(reconstructing_buffer', q) <=> Contains(reconstructing_buffer, q) /\ q # h
  <2>1. Distinct(reconstructing_buffer)
    BY DEF SafeInv, ListsInv
  <2>2. QED
    BY <1>2, <2>1, DistinctTake
<1>7. Singly(ready') /\ \A q : InLevels(ready', q) <=> InLevels(ready, q) \/ q = h
  <2>1. Singly(ready) /\ ~InLevels(ready, h)
    BY <1>5 DEF SafeInv, ListsInv, InQueue, InLevels
  <2>2. QED
    BY <1>2, <1>4, <2>1, SinglyPut, EntersFacts
<1>8. \A q : /\ InQueue(q)' <=> InQueue(q) \/ q = h
             /\ Waiting(q)' <=> Waiting(q)
             /\ Shelved(q)' <=> Shelved(q) /\ q # h
             /\ Done(q)' <=> Done(q)
  BY <1>1, <1>6, <1>7 DEF InQueue, InLevels, Waiting, Shelved, Done
<1>9. Received' = Received /\ Rejected' = Rejected /\ Accepted' = Accepted
  BY <1>1, SameSets
<1>10. \A q \in Procs : Active(q)' <=> Active(q) \/ q = h
  BY <1>3, <1>8, NullAssumption DEF Active
<1>11. ListsInv'
  BY <1>1, <1>6, <1>7 DEF SafeInv, ListsInv
<1>12. StateInv'
  <2>1. SUFFICES ASSUME NEW q \in Procs
                 PROVE  /\ Waiting(q) => pcb[q].state = "Ready"
                        /\ Shelved(q) => pcb[q].state = "Blocked"
                        /\ Done(q) <=> pcb[q].state = "Finished"
                        /\ InQueue(q) \/ q = h => pcb[q].state \in {"Ready", "Blocked", "Running"}
                        /\ q = currentPCB' => pcb[q].state \in {"Running", "Blocked"}
                        /\ pcb[q].state = "Running" => q = currentPCB'
                        /\ q \in Rejected => pcb[q].state = "Ready"
    BY <1>1, <1>8, <1>9 DEF StateInv
  <2>2. q = currentPCB => pcb[q].state \in {"Running", "Blocked"}
    BY DEF SafeInv, StateInv
  <2>3. QED
    BY <1>3, <1>5, <2>2, NullAssumption DEF SafeInv, StateInv
<1>13. PlaceInv'
  BY <1>5, <1>8, <1>9, <1>10 DEF SafeInv, PlaceInv
<1>14. MemoryInv'
  <2>1. Admitted' = {q \in Procs : Active(q)' \/ Shelved(q)'}
    BY DEF Admitted, Active, Shelved
  <2>2. Admitted = {q \in Procs : Active(q) \/ Shelved(q)}
    BY DEF Admitted, Active, Shelved
  <2>3. Admitted' = Admitted
    BY <1>5, <1>8, <1>10, <2>1, <2>2
  <2>4. AdmittedHoldMemory'
    BY <1>1, <2>3, MemorySame DEF SafeInv, MemoryInv
  <2>5. QED
    BY <1>1, <2>4 DEF SafeInv, MemoryInv
<1>15. RestInv'
  BY <1>1, <1>3, NullAssumption DEF SafeInv, RestInv
<1>16. LifeStep
  <2>1. \A q \in Procs \ {h} : Phase(q)' = Phase(q)
    BY <1>1, <1>8, PhaseKept
  <2>2. Phase(h)' = Phase(h)
    BY <1>1, <1>5, PhaseFacts, PhaseNext
  <2>3. QED
    BY <2>1, <2>2, OneMoves
<1>17. QED
  BY <1>11, <1>12, <1>13, <1>14, <1>15, <1>16 DEF SafeInv

(* The running process is resumed at last, and charged its tick.           *)
LEMMA ReconstructSafe ==
  ASSUME CommonInv, SafeInv, RefillInv, Reconstruct, schedAlgorithm' = schedAlgorithm
  PROVE  SafeInv' /\ LifeStep
<1>1. /\ schedPc = "refill" /\ schedPc' = "spin" /\ input' = input
      /\ pcb' = [Resume(pcb, currentPCB) EXCEPT ![currentPCB].remainingTime = @ - 1]
      /\ UNCHANGED <<tree, ready, Memory_Buffer, finishedProcesses, currentPCB, ptr>>
      /\ UNCHANGED <<reconstructing_buffer, schedAlgorithm>>
  BY DEF Reconstruct, SchedTo, clkVars, queueVars
<1>2. currentPCB \in Procs /\ pcb \in [Procs -> PCB]
  BY <1>1 DEF RefillInv, CommonInv, DataInv, DataTyped
<1> PICK c \in Procs : c = currentPCB
  BY <1>2
<1>3. /\ \A q \in Procs \ {c} : pcb'[q] = pcb[q]
      /\ pcb'[c].state = "Running" /\ pcb'[c].memoryNode = pcb[c].memoryNode
  <2> DEFINE resumed == Resume(pcb, c)
  <2>1. Changes(pcb, resumed, c, "Running") /\ resumed[c].memoryNode = pcb[c].memoryNode
    BY <1>2, ResumeFacts
  <2> HIDE DEF resumed
  <2>2. pcb' = [resumed EXCEPT ![c].remainingTime = @ - 1]
    BY <1>1 DEF resumed
  <2>3. QED
    BY <2>1, <2>2 DEF Changes, PCB
<1>4. /\ pcb[c].state \in {"Running", "Blocked"} /\ Active(c) /\ c \in Accepted
      /\ ~Waiting(c) /\ ~Shelved(c) /\ ~Done(c)
  <2>1. pcb[c].state \in {"Running", "Blocked"} /\ Active(c)
    BY DEF SafeInv, StateInv, Active
  <2>2. c \in Accepted
    BY DEF CommonInv, DataInv, OnlyReceived, Listed
  <2>3. QED
    BY <2>1, <2>2 DEF SafeInv, PlaceInv, StateInv
<1>5. Received' = Received /\ Rejected' = Rejected /\ Accepted' = Accepted
  BY <1>1, <1>3, <1>4, SameSets
<1>6. \A q : /\ InQueue(q)' <=> InQueue(q)
             /\ Waiting(q)' <=> Waiting(q)
             /\ Shelved(q)' <=> Shelved(q)
             /\ Done(q)' <=> Done(q)
  BY <1>1 DEF InQueue, Waiting, Shelved, Done
<1>7. ListsInv'
  BY <1>1 DEF SafeInv, ListsInv, Singly
<1>8. StateInv'
  <2>1. SUFFICES ASSUME NEW q \in Procs
                 PROVE  /\ Waiting(q) => pcb'[q].state = "Ready"
                        /\ Shelved(q) => pcb'[q].state = "Blocked"
                        /\ Done(q) <=> pcb'[q].state = "Finished"
                        /\ InQueue(q) => pcb'[q].state \in {"Ready", "Blocked", "Running"}
                        /\ q = c <=> pcb'[q].state = "Running"
                        /\ q \in Rejected => pcb'[q].state = "Ready"
    BY <1>1, <1>5, <1>6 DEF StateInv
  <2>2. CASE q = c
    BY <1>3, <1>4, <2>2 DEF Accepted, Rejected
  <2>3. CASE q # c
    BY <1>3, <2>3 DEF SafeInv, StateInv
  <2>4. QED
    BY <2>2, <2>3
<1>9. PlaceInv'
  BY <1>1, <1>5, <1>6 DEF SafeInv, PlaceInv, Active
<1>10. MemoryInv'
  <2>1. Admitted' = Admitted
    BY <1>1, <1>6 DEF Admitted
  <2>2. \A q \in Admitted : pcb'[q].memoryNode = pcb[q].memoryNode
    BY <1>3 DEF Admitted
  <2>3. AdmittedHoldMemory'
    BY <1>1, <2>1, <2>2, MemorySame DEF SafeInv, MemoryInv
  <2>4. QED
    BY <1>1, <2>3 DEF SafeInv, MemoryInv
<1>11. RestInv'
  BY <1>1, <1>6, NullAssumption DEF SafeInv, RestInv
<1>12. LifeStep
  <2>1. \A q \in Procs \ {c} : Phase(q)' = Phase(q)
    BY <1>1, <1>3, <1>6, PhaseKept
  <2>2. Phase(c)' = "running"
    BY <1>3, PhaseNext
  <2>3. CASE pcb[c].state = "Running"
    <3>1. Phase(c) = "running"
      BY <2>3, PhaseFacts
    <3>2. QED
      BY <2>1, <2>2, <3>1, OneMoves
  <2>4. CASE pcb[c].state = "Blocked"
    <3>1. Phase(c) = "blocked"
      BY <2>4, PhaseFacts
    <3>2. \A q \in Procs : Phase(q) # "running"
      BY <2>4, NobodyRuns DEF SafeInv
    <3>3. QED
      BY <2>1, <2>2, <3>1, <3>2, OneMoves
  <2>5. QED
    BY <1>4, <2>3, <2>4
<1>13. QED
  BY <1>7, <1>8, <1>9, <1>10, <1>11, <1>12 DEF SafeInv

-----------------------------------------------------------------------------
(* Every step of the algorithms is one of these.                           *)

(* The steps that only wait, move on, return or charge a tick.             *)
LEMMA WaitSafe ==
  ASSUME CommonInv, SafeInv, NEW next \in {"quantum", "run", "spin"}, UNCHANGED Extras,
         Return \/ ReceiveDone \/ Idle(next) \/ Continue(next) \/ PickNobody(next) \/ Charge
  PROVE  SafeInv' /\ LifeStep
<1>1. CASE Charge
  <2>1. Charged(pcb')
    BY <1>1, ChargeKeeps
  <2>2. /\ schedPc = "run" /\ schedPc' = "spin"
        /\ UNCHANGED <<input, tree, ready, Memory_Buffer, finishedProcesses, currentPCB, ptr>>
    BY <1>1 DEF Charge, SchedTo, clkVars, queueVars
  <2>3. QED
    BY <2>1, <2>2, LabelSafe DEF Charged
<1>2. CASE Return
  <2>1. /\ schedPc = "dispatch" /\ schedPc' = "returned" /\ pcb' = pcb /\ currentPCB = NULL
        /\ UNCHANGED <<input, tree, ready, Memory_Buffer, finishedProcesses, currentPCB, ptr>>
    BY <1>2 DEF Return, SchedTo, clkVars, bodyVars, queueVars
  <2>2. Received = Procs /\ Memory_Buffer = <<>>
    BY <1>2, ReturnKeeps
  <2>3. QED
    BY <2>1, <2>2, LabelSafe
<1>3. CASE ReceiveDone \/ Idle(next) \/ Continue(next)
  <2>1. /\ schedPc \in {"receive", "dispatch"} /\ schedPc' \in {"dispatch", "quantum", "run", "spin"}
        /\ pcb' = pcb
        /\ UNCHANGED <<input, tree, ready, Memory_Buffer, finishedProcesses, currentPCB, ptr>>
    BY <1>3 DEF ReceiveDone, Idle, Continue, SchedTo, clkVars, bodyVars, queueVars
  <2>2. QED
    BY <2>1, LabelSafe
<1>4. CASE PickNobody(next)
  <2>1. /\ schedPc = "scan" /\ schedPc' \in {"quantum", "run", "spin"} /\ ptr = <<>> /\ NobodyReady
        /\ pcb' = pcb
        /\ UNCHANGED <<input, tree, ready, Memory_Buffer, finishedProcesses, currentPCB, ptr>>
    BY <1>4 DEF PickNobody, SchedTo, clkVars, bodyVars, queueVars
  <2>2. QED
    BY <2>1, LabelSafe
<1>5. QED
  BY <1>1, <1>2, <1>3, <1>4

(* One process less in the only queue.                                     *)
LEMMA TakeOne ==
  ASSUME CommonInv, NEW queue \in Seq(Procs), NEW p \in Procs, PutIn(queue, ready[0], p)
  PROVE  OneQueue(queue) \in Queues /\ Enters(OneQueue(queue), ready, p)
BY OneQueueFacts DEF Enters

(* A process removed from the only queue, if it is there.                  *)
LEMMA RemoveWhere ==
  ASSUME CommonInv, OneLevel, NEW p \in Procs
  PROVE  LET queues == OneQueue(removeNodePriority(ready[0], p))
         IN /\ queues \in Queues
            /\ Enters(queues, ready, p) \/ (queues = ready /\ ~InQueue(p))
<1> DEFINE queue == removeNodePriority(ready[0], p)
<1>1. ready \in Queues /\ ready[0] \in Seq(Procs)
  BY OneQueueFacts, EmptySeq
<1>2. /\ queue \in Seq(Procs)
      /\ Contains(ready[0], p) => PutIn(queue, ready[0], p)
      /\ ~Contains(ready[0], p) => queue = ready[0]
  BY <1>1, RemoveNodeTakes
<1> HIDE DEF queue
<1>3. CASE Contains(ready[0], p)
  BY <1>2, <1>3, TakeOne DEF queue
<1>4. CASE ~Contains(ready[0], p)
  <2>1. OneQueue(queue) = ready
    BY <1>1, <1>2, <1>4 DEF OneQueue, Queues
  <2>2. ~InQueue(p)
    BY <1>4, OneLevelFacts DEF InQueue, InLevels
  <2>3. QED
    BY <1>1, <2>1, <2>2 DEF queue
<1>5. QED
  BY <1>3, <1>4

(* Round robin, but for the end of a quantum.                              *)
LEMMA RRStepSafe ==
  ASSUME CommonInv, SafeInv, ScanTakesFront, RRInv, RRReceive \/ RRDispatch \/ RRScan,
         UNCHANGED Extras
  PROVE  SafeInv' /\ LifeStep
<1>1. RR_Queue \in Seq(Procs) /\ ready \in Queues /\ pcb \in [Procs -> PCB] /\ currClk \in Nat
  BY OneQueueFacts, EmptySeq DEF RR_Queue, CommonInv, TickTyped, DataInv, DataTyped
<1>2. bufferKey \in [Procs -> Int]
  BY DEF bufferKey
<1>3. CASE ReceiveTooBig \/ ReceiveNoRoom(bufferKey)
  BY <1>2, <1>3, TooBigSafe, NoRoomSafe
<1>4. CASE ReceiveDone \/ Return \/ Idle("quantum") \/ Continue("quantum") \/ PickNobody("quantum")
  BY <1>4, WaitSafe
<1>5. CASE ReceiveAdmit(OneQueue(enqueue(RR_Queue, New)), currentPCB = NULL)
  <2> DEFINE takes == currentPCB = NULL
  <2>1. New \in Procs
    BY <1>5, NewFacts DEF ReceiveAdmit
  <2>2. enqueue(RR_Queue, New) \in Seq(Procs) /\ PutIn(RR_Queue, enqueue(RR_Queue, New), New)
    BY <1>1, <2>1, EnqueuePuts
  <2>3. Enters(ready, OneQueue(enqueue(RR_Queue, New)), New)
    BY <2>1, <2>2, OneQueueFacts DEF RR_Queue
  <2>4. takes \in BOOLEAN /\ ReceiveAdmit(OneQueue(enqueue(RR_Queue, New)), takes)
    BY <1>5
  <2>5. (currentPCB = NULL => takes) /\ ~(takes /\ currentPCB # NULL)
    OBVIOUS
  <2> HIDE DEF takes
  <2>6. QED
    BY <2>3, <2>4, <2>5, AdmitSafe
<1>6. CASE Finish(OneQueue(dequeue(RR_Queue)))
  <2>1. currentPCB \in Procs /\ schedPc = "dispatch"
    BY <1>6 DEF Finish, CommonInv, DataInv, DataTyped
  <2>2. RR_Queue # <<>> /\ Head(RR_Queue) = currentPCB
    BY <2>1, NullAssumption DEF RRInv, FrontRuns, peek
  <2>3. dequeue(RR_Queue) \in Seq(Procs) /\ PutIn(dequeue(RR_Queue), RR_Queue, currentPCB)
    BY <1>1, <2>2, DequeueTakes
  <2>4. OneQueue(dequeue(RR_Queue)) \in Queues /\ Enters(OneQueue(dequeue(RR_Queue)), ready, currentPCB)
    BY <2>1, <2>3, TakeOne DEF RR_Queue
  <2>5. QED
    BY <1>6, <2>4, FinishSafe
<1>7. CASE ScanAdmit(OneQueue(enqueue(RR_Queue, Head(ptr))))
  <2>1. Head(ptr) \in Procs
    BY <1>7, DequeueTakes DEF ScanAdmit, CommonInv, DataInv, DataTyped
  <2>2. enqueue(RR_Queue, Head(ptr)) \in Seq(Procs) /\ PutIn(RR_Queue, enqueue(RR_Queue, Head(ptr)), Head(ptr))
    BY <1>1, <2>1, EnqueuePuts
  <2>3. Enters(ready, OneQueue(enqueue(RR_Queue, Head(ptr))), Head(ptr))
    BY <2>1, <2>2, OneQueueFacts DEF RR_Queue
  <2>4. QED
    BY <1>7, <2>3, ScanAdmitSafe
<1>8. CASE ScanSkip
  BY <1>8, ScanSkipSafe
<1>9. CASE Pick(peek(RR_Queue, NULL), StartOrResume(pcb, peek(RR_Queue, NULL)), ready, "quantum")
  <2> DEFINE p == peek(RR_Queue, NULL)
             pcbs == StartOrResume(pcb, p)
  <2>1. RR_Queue # <<>>
    BY <1>9, OneLevelFacts DEF Pick, RRInv, RR_Queue
  <2>2. p \in Procs /\ Contains(RR_Queue, p)
    BY <1>1, <2>1, DequeueTakes DEF peek
  <2>3. InLevels(ready, p)
    BY <2>2, OneLevelFacts DEF RRInv, RR_Queue
  <2>4. Pick(p, pcbs, ready, "quantum")
    BY <1>9
  <2> HIDE DEF p
  <2>5. Changes(pcb, pcbs, p, "Running") /\ pcbs[p].memoryNode = pcb[p].memoryNode
    BY <1>1, <2>2, StartOrResumeFacts
  <2> HIDE DEF pcbs
  <2>6. QED
    BY <1>1, <2>2, <2>3, <2>4, <2>5, PickSafe
<1>10. QED
  BY <1>3, <1>4, <1>5, <1>6, <1>7, <1>8, <1>9 DEF RRReceive, RRDispatch, RRScan

(* Highest priority first.  A new process takes the CPU only from one that *)
(* is in the queue and stays there.                                        *)
LEMMA HPFSafe ==
  ASSUME CommonInv, SafeInv, ScanTakesFront, HPFInv, HPFBody, UNCHANGED Extras,
         schedAlgorithm = "HPF"
  PROVE  SafeInv' /\ LifeStep
<1>1. HPF_Queue \in Seq(Procs) /\ ready \in Queues /\ pcb \in [Procs -> PCB] /\ currClk \in Nat
  BY OneQueueFacts, EmptySeq DEF HPF_Queue, CommonInv, TickTyped, DataInv, DataTyped
<1>2. priority \in [Procs -> Int] /\ OneLevel
  BY PriorityKeys DEF HPFInv
<1>3. CASE ReceiveTooBig \/ ReceiveNoRoom(priority)
  BY <1>2, <1>3, TooBigSafe, NoRoomSafe
<1>4. CASE ReceiveDone \/ Return \/ Idle("run") \/ Continue("run") \/ PickNobody("run") \/ Charge
  BY <1>4, WaitSafe
<1>5. CASE ReceiveAdmit(OneQueue(enqueuePriority(HPF_Queue, New, priority)), Preempts)
  <2> DEFINE queues == OneQueue(enqueuePriority(HPF_Queue, New, priority))
             takes == Preempts
  <2>1. New \in Procs
    BY <1>5, NewFacts DEF ReceiveAdmit
  <2>2. Enters(ready, queues, New)
    BY <1>2, <2>1, EnqueueOne DEF HPF_Queue
  <2> HIDE DEF queues
  <2>3. takes \in BOOLEAN /\ ReceiveAdmit(queues, takes) /\ (currentPCB = NULL => takes)
    BY <1>5 DEF Preempts, queues
  <2> HIDE DEF takes
  <2>4. currentPCB # NULL => InQueue(currentPCB)
    BY DEF SafeInv, RestInv
  <2>5. QED
    BY <2>2, <2>3, <2>4, AdmitSafe
<1>6. CASE Finish(OneQueue(removeNodePriority(HPF_Queue, currentPCB)))
  <2>1. currentPCB \in Procs
    BY <1>6 DEF Finish, CommonInv, DataInv, DataTyped
  <2>2. QED
    BY <1>2, <1>6, <2>1, RemoveWhere, FinishSafe DEF HPF_Queue
<1>7. CASE ScanAdmit(OneQueue(enqueuePriority(HPF_Queue, Head(ptr), priority)))
  <2>1. Head(ptr) \in Procs
    BY <1>7, DequeueTakes DEF ScanAdmit, CommonInv, DataInv, DataTyped
  <2>2. Enters(ready, OneQueue(enqueuePriority(HPF_Queue, Head(ptr), priority)), Head(ptr))
    BY <1>2, <2>1, EnqueueOne DEF HPF_Queue
  <2>3. QED
    BY <1>7, <2>2, ScanAdmitSafe
<1>8. CASE ScanSkip
  BY <1>8, ScanSkipSafe
<1>9. CASE Pick(peek(HPF_Queue, NULL), Start(pcb, peek(HPF_Queue, NULL)), ready, "run")
  <2> DEFINE p == peek(HPF_Queue, NULL)
             pcbs == Start(pcb, p)
  <2>1. HPF_Queue # <<>>
    BY <1>2, <1>9, OneLevelFacts DEF Pick, HPF_Queue
  <2>2. p \in Procs /\ Contains(HPF_Queue, p)
    BY <1>1, <2>1, DequeueTakes DEF peek
  <2>3. InLevels(ready, p)
    BY <1>2, <2>2, OneLevelFacts DEF HPF_Queue
  <2>4. Pick(p, pcbs, ready, "run")
    BY <1>9
  <2> HIDE DEF p
  <2>5. Changes(pcb, pcbs, p, "Running") /\ pcbs[p].memoryNode = pcb[p].memoryNode
    BY <1>1, <2>2, StartFacts
  <2> HIDE DEF pcbs
  <2>6. QED
    BY <1>1, <2>2, <2>3, <2>4, <2>5, PickSafe
<1>10. QED
  BY <1>3, <1>4, <1>5, <1>6, <1>7, <1>8, <1>9 DEF HPFBody, HPFReceive, HPFDispatch, HPFScan

(* Shortest job first: who is picked leaves the queue.                     *)
LEMMA SJFSafe ==
  ASSUME CommonInv, SafeInv, ScanTakesFront, SJFInv, SJFBody, UNCHANGED Extras,
         schedAlgorithm = "SJF"
  PROVE  SafeInv' /\ LifeStep
<1>1. SJF_Queue \in Seq(Procs) /\ ready \in Queues /\ pcb \in [Procs -> PCB] /\ currClk \in Nat
  BY OneQueueFacts, EmptySeq DEF SJF_Queue, CommonInv, TickTyped, DataInv, DataTyped
<1>2. executionTime \in [Procs -> Int] /\ OneLevel
  BY TimeKeys DEF SJFInv
<1>3. CASE ReceiveTooBig \/ ReceiveNoRoom(executionTime)
  BY <1>2, <1>3, TooBigSafe, NoRoomSafe
<1>4. CASE ReceiveDone \/ Return \/ Idle("run") \/ Continue("run") \/ PickNobody("run") \/ Charge
  BY <1>4, WaitSafe
<1>5. CASE ReceiveAdmit(OneQueue(enqueuePriority(SJF_Queue, New, executionTime)), currentPCB = NULL)
  <2> DEFINE queues == OneQueue(enqueuePriority(SJF_Queue, New, executionTime))
             takes == currentPCB = NULL
  <2>1. New \in Procs
    BY <1>5, NewFacts DEF ReceiveAdmit
  <2>2. Enters(ready, queues, New)
    BY <1>2, <2>1, EnqueueOne DEF SJF_Queue
  <2> HIDE DEF queues
  <2>3. /\ takes \in BOOLEAN /\ ReceiveAdmit(queues, takes)
        /\ (currentPCB = NULL => takes) /\ ~(takes /\ currentPCB # NULL)
    BY <1>5 DEF queues
  <2> HIDE DEF takes
  <2>4. QED
    BY <2>2, <2>3, AdmitSafe
<1>6. CASE Finish(OneQueue(removeNodePriority(SJF_Queue, currentPCB)))
  <2>1. currentPCB \in Procs
    BY <1>6 DEF Finish, CommonInv, DataInv, DataTyped
  <2>2. QED
    BY <1>2, <1>6, <2>1, RemoveWhere, FinishSafe DEF SJF_Queue
<1>7. CASE ScanAdmit(OneQueue(enqueuePriority(SJF_Queue, Head(ptr), executionTime)))
  <2>1. Head(ptr) \in Procs
    BY <1>7, DequeueTakes DEF ScanAdmit, CommonInv, DataInv, DataTyped
  <2>2. Enters(ready, OneQueue(enqueuePriority(SJF_Queue, Head(ptr), executionTime)), Head(ptr))
    BY <1>2, <2>1, EnqueueOne DEF SJF_Queue
  <2>3. QED
    BY <1>7, <2>2, ScanAdmitSafe
<1>8. CASE ScanSkip
  BY <1>8, ScanSkipSafe
<1>9. CASE Pick(peek(SJF_Queue, NULL), Start(pcb, peek(SJF_Queue, NULL)),
                OneQueue(dequeue(SJF_Queue)), "run")
  <2> DEFINE p == peek(SJF_Queue, NULL)
             pcbs == Start(pcb, p)
             queues == OneQueue(dequeue(SJF_Queue))
  <2>1. SJF_Queue # <<>>
    BY <1>2, <1>9, OneLevelFacts DEF Pick, SJF_Queue
  <2>2. /\ p \in Procs /\ Contains(SJF_Queue, p)
        /\ dequeue(SJF_Queue) \in Seq(Procs) /\ PutIn(dequeue(SJF_Queue), SJF_Queue, p)
    BY <1>1, <2>1, DequeueTakes DEF peek
  <2>3. InLevels(ready, p)
    BY <1>2, <2>2, OneLevelFacts DEF SJF_Queue
  <2>4. Pick(p, pcbs, queues, "run")
    BY <1>9
  <2> HIDE DEF p
  <2>5. queues \in Queues /\ Enters(queues, ready, p)
    BY <2>2, TakeOne DEF SJF_Queue
  <2> HIDE DEF queues
  <2>6. Changes(pcb, pcbs, p, "Running") /\ pcbs[p].memoryNode = pcb[p].memoryNode
    BY <1>1, <2>2, StartFacts
  <2> HIDE DEF pcbs
  <2>7. QED
    BY <2>2, <2>3, <2>4, <2>5, <2>6, PickSafe
<1>10. QED
  BY <1>3, <1>4, <1>5, <1>6, <1>7, <1>8, <1>9 DEF SJFBody, SJFReceive, SJFDispatch, SJFScan

(* The end of a quantum under round robin.                                 *)
LEMMA RotateSafe ==
  ASSUME CommonInv, SafeInv, RRInv, Rotate, UNCHANGED Extras
  PROVE  SafeInv' /\ LifeStep
<1> DEFINE front == peek(RR_Queue, NULL)
           rest == dequeue(RR_Queue)
           rotated == enqueue(rest, front)
           next == peek(rotated, NULL)
<1>1. /\ schedPc = "quantum" /\ schedPc' = "run" /\ Len(RR_Queue) >= 2
      /\ ready' = OneQueue(rotated) /\ currentPCB' = next
      /\ pcb' = StartOrResume(Stop(pcb, currentPCB), next)
      /\ UNCHANGED <<input, tree, Memory_Buffer, finishedProcesses>>
      /\ UNCHANGED <<reconstructing_buffer, schedAlgorithm>>
  BY DEF Rotate, SchedTo, clkVars, Extras
<1>2. RR_Queue \in Seq(Procs) /\ pcb \in [Procs -> PCB] /\ currClk \in Nat
  BY OneQueueFacts, EmptySeq DEF RR_Queue, CommonInv, TickTyped, DataInv, DataTyped
<1>3. RR_Queue # <<>>
  BY <1>1, EmptySeq
<1>4. front \in Procs /\ rest \in Seq(Procs) /\ PutIn(rest, RR_Queue, front)
  BY <1>2, <1>3, DequeueTakes DEF peek
<1>5. currentPCB = front
  BY <1>1 DEF RRInv, FrontRuns
<1> HIDE DEF front, rest
<1>6. rotated \in Seq(Procs) /\ rotated # <<>> /\ PutIn(rest, rotated, front)
  BY <1>4, EnqueuePuts
<1> HIDE DEF rotated
<1>7. next \in Procs /\ Contains(rotated, next)
  BY <1>6, DequeueTakes DEF peek
<1>8. OneQueue(rest) \in Queues /\ Enters(OneQueue(rest), ready, front)
  BY <1>4, TakeOne DEF RR_Queue
<1>9. Enters(OneQueue(rest), ready', front) /\ InLevels(ready', next)
  <2>1. /\ OneQueue(rest)[0] = rest /\ ready' \in Queues /\ ready'[0] = rotated /\ 0 \in Levels
        /\ \A l \in Levels \ {0} : OneQueue(rest)[l] = ready'[l]
    BY <1>1, <1>4, <1>6, OneQueueFacts
  <2>2. QED
    BY <1>6, <1>7, <2>1 DEF Enters, InLevels
<1> HIDE DEF next
<1>10. \A q \in Procs :
         /\ pcb'[q].memoryNode = pcb[q].memoryNode
         /\ pcb'[q].state = IF q = next THEN "Running" ELSE IF q = front THEN "Blocked" ELSE pcb[q].state
  <2>1. Stop(pcb, front) \in [Procs -> PCB]
    BY <1>2, <1>4, StopFacts DEF Changes
  <2>2. /\ Changes(Stop(pcb, front), pcb', next, "Running")
        /\ pcb'[next].memoryNode = Stop(pcb, front)[next].memoryNode
    BY <1>1, <1>2, <1>5, <1>7, <2>1, StartOrResumeFacts
  <2>3. QED
    BY <1>2, <1>4, <1>7, <2>2, HandsOver
<1>11. next # NULL
  BY <1>7, NullAssumption
<1>12. QED
  BY <1>1, <1>4, <1>5, <1>7, <1>8, <1>9, <1>10, <1>11, SwitchSafe

(* Every step of round robin.                                              *)
LEMMA RRSafe ==
  ASSUME CommonInv, SafeInv, ScanTakesFront, RRInv, RRBody, UNCHANGED Extras
  PROVE  SafeInv' /\ LifeStep
<1>1. CASE RRReceive \/ RRDispatch \/ RRScan
  BY <1>1, RRStepSafe
<1>2. CASE Rotate
  BY <1>2, RotateSafe
<1>3. CASE KeepCPU
  <2>1. /\ schedPc = "quantum" /\ schedPc' = "run" /\ pcb' = pcb
        /\ UNCHANGED <<input, tree, ready, Memory_Buffer, finishedProcesses, currentPCB, ptr>>
    BY <1>3 DEF KeepCPU, SchedTo, clkVars, bodyVars, queueVars
  <2>2. QED
    BY <2>1, LabelSafe
<1>4. CASE RRCharge
  BY <1>4, WaitSafe DEF RRCharge
<1>5. QED
  BY <1>1, <1>2, <1>3, <1>4 DEF RRBody

-----------------------------------------------------------------------------
(* The front of a level leaves it.                                         *)
LEMMA LevelLess ==
  ASSUME NEW levels \in Queues, NEW l \in Levels, levels[l] # <<>>
  PROVE  LET new == dequeueMultiLevel(levels, l)
         IN new \in Queues /\ Enters(new, levels, Head(levels[l]))
<1> DEFINE new == dequeueMultiLevel(levels, l)
<1>1. levels[l] \in Seq(Procs)
  BY DEF Queues
<1>2. dequeue(levels[l]) \in Seq(Procs) /\ PutIn(dequeue(levels[l]), levels[l], Head(levels[l]))
  BY <1>1, DequeueTakes
<1>3. new \in Queues /\ \A k \in Levels \ {l} : new[k] = levels[k]
  BY LevelTake
<1>4. new[l] = dequeue(levels[l])
  BY DEF dequeueMultiLevel, Queues
<1> HIDE DEF new
<1>5. QED
  BY <1>2, <1>3, <1>4 DEF Enters, new

(* Multi-level feedback goes astray: nothing is said of what comes then.   *)
LEMMA BrokenSafe ==
  ASSUME CommonInv, SafeInv, Broken, schedPc \in {"quantum", "refill"},
         schedAlgorithm' = schedAlgorithm
  PROVE  SafeInv' /\ LifeStep
<1>1. /\ schedPc' = "broken" /\ pcb' = pcb /\ UNCHANGED Extras
      /\ UNCHANGED <<input, tree, ready, Memory_Buffer, finishedProcesses, currentPCB, ptr>>
  BY DEF Broken, SchedTo, clkVars, bodyVars, queueVars, feedbackVars, Extras
<1>2. QED
  BY <1>1, LabelSafe

(* Multi-level feedback, but for the end of a quantum and the refill.      *)
LEMMA MLFLStepSafe ==
  ASSUME CommonInv, SafeInv, ScanTakesFront, MLFLInv, MLFLReceive \/ MLFLDispatch \/ MLFLScan,
         schedAlgorithm = "MLFL", schedAlgorithm' = schedAlgorithm
  PROVE  SafeInv' /\ LifeStep
<1>1. UNCHANGED Extras
  BY DEF MLFLReceive, MLFLDispatch, MLFLScan, feedbackVars, Extras
<1>2. /\ priorityKey \in [Procs -> Int] /\ ready \in Queues /\ -1 \notin Levels
      /\ \A p \in Procs : input[p].priority \in Levels
      /\ pcb \in [Procs -> PCB] /\ currClk \in Nat
  BY LevelKeys
<1>3. CASE ReceiveTooBig \/ ReceiveNoRoom(priorityKey)
  BY <1>1, <1>2, <1>3, TooBigSafe, NoRoomSafe
<1>4. CASE ReceiveDone \/ Return \/ Idle("spin") \/ Continue("quantum") \/ PickNobody("quantum")
  BY <1>1, <1>4, WaitSafe
<1>5. CASE ReceiveAdmit(AtItsLevel(MLVL_Queue, New), currentOccupiedLevel = -1)
  <2> DEFINE queues == AtItsLevel(MLVL_Queue, New)
             takes == currentOccupiedLevel = -1
  <2>1. New \in Procs /\ schedPc = "receive"
    BY <1>5, NewFacts DEF ReceiveAdmit
  <2>2. Enters(ready, queues, New)
    BY <1>2, <2>1, LevelPut DEF AtItsLevel, MLVL_Queue
  <2> HIDE DEF queues
  <2>3. takes \in BOOLEAN /\ ReceiveAdmit(queues, takes)
    BY <1>5 DEF queues
  <2>4. takes <=> currentPCB = NULL
    BY <1>2, <2>1 DEF MLFLInv, LevelInv
  <2> HIDE DEF takes
  <2>5. QED
    BY <1>1, <2>2, <2>3, <2>4, AdmitSafe
<1>6. CASE Finish(dequeueMultiLevel(MLVL_Queue, currentOccupiedLevel))
  <2> DEFINE l == currentOccupiedLevel
             queues == dequeueMultiLevel(ready, l)
  <2>1. /\ currentPCB \in Procs /\ l \in Levels
        /\ ready[l] # <<>> /\ currentPCB = Head(ready[l])
    BY <1>6 DEF Finish, MLFLInv, LevelInv, CommonInv, DataInv, DataTyped
  <2> HIDE DEF l
  <2>2. queues \in Queues /\ Enters(queues, ready, currentPCB)
    BY <1>2, <2>1, LevelLess
  <2>3. QED
    BY <1>1, <1>6, <2>2, FinishSafe DEF MLVL_Queue, l
<1>7. CASE ScanAdmit(AtItsLevel(MLVL_Queue, Head(ptr)))
  <2>1. Head(ptr) \in Procs
    BY <1>7, DequeueTakes DEF ScanAdmit, CommonInv, DataInv, DataTyped
  <2>2. Enters(ready, AtItsLevel(MLVL_Queue, Head(ptr)), Head(ptr))
    BY <1>2, <2>1, LevelPut DEF AtItsLevel, MLVL_Queue
  <2>3. QED
    BY <1>1, <1>7, <2>2, ScanAdmitSafe
<1>8. CASE ScanSkip
  BY <1>1, <1>8, ScanSkipSafe
<1>9. CASE LET level == multiLevelisEmpty(MLVL_Queue)
               front == peek(MLVL_Queue[level], NULL)
           IN Pick(front, RunFront(pcb, front, level = currentOccupiedLevel), ready, "quantum")
  <2> DEFINE level == multiLevelisEmpty(MLVL_Queue)
             front == peek(MLVL_Queue[level], NULL)
             pcbs == RunFront(pcb, front, level = currentOccupiedLevel)
  <2>1. Pick(front, pcbs, ready, "quantum")
    BY <1>9
  <2>2. front \in Procs /\ InLevels(ready, front)
    BY <1>2, <2>1, FirstLevel DEF Pick, NobodyReady, MLVL_Queue
  <2> HIDE DEF front, level
  <2>3. Changes(pcb, pcbs, front, "Running") /\ pcbs[front].memoryNode = pcb[front].memoryNode
    BY <1>2, <2>2, RunFrontFacts
  <2> HIDE DEF pcbs
  <2>4. QED
    BY <1>1, <1>2, <2>1, <2>2, <2>3, PickSafe
<1>10. QED
  BY <1>3, <1>4, <1>5, <1>6, <1>7, <1>8, <1>9 DEF MLFLReceive, MLFLDispatch, MLFLScan

(* Who runs after the end of a quantum, once the levels are those that the *)
(* processes stay in.                                                      *)
LEMMA SwitchToFacts ==
  ASSUME NEW levels \in Queues, NEW c \in Procs, c = currentPCB, SwitchTo(levels),
         pcb \in [Procs -> PCB], currClk \in Nat
  PROVE  /\ ready' = levels /\ currentPCB' \in Procs \cup {NULL}
         /\ IF currentPCB' = NULL THEN \A l \in Levels : ready'[l] = <<>>
                                  ELSE InLevels(ready', currentPCB')
         /\ \A q \in Procs :
              /\ pcb'[q].memoryNode = pcb[q].memoryNode
              /\ pcb'[q].state = IF q = currentPCB' THEN "Running"
                                 ELSE IF q = c THEN "Blocked" ELSE pcb[q].state
<1> DEFINE level == multiLevelisEmpty(levels)
           next == peek(levels[level], NULL)
           stopped == Stop(pcb, c)
           running == RunFront(stopped, next, level = currentOccupiedLevel)
<1>1. /\ ready' = levels
      /\ IF level = -1 THEN currentPCB' = NULL /\ pcb' = stopped
                       ELSE currentPCB' = next /\ pcb' = running
  BY DEF SwitchTo
<1>2. /\ level = -1 <=> \A l \in Levels : levels[l] = <<>>
      /\ level # -1 => next \in Procs /\ next # NULL /\ InLevels(levels, next)
  BY FirstLevel
<1>3. Changes(pcb, stopped, c, "Blocked") /\ stopped[c].memoryNode = pcb[c].memoryNode
  BY StopFacts
<1> HIDE DEF level, next
<1>4. CASE level = -1
  <2> HIDE DEF stopped
  <2>1. QED
    BY <1>1, <1>2, <1>3, <1>4, NullAssumption DEF Changes
<1>5. CASE level # -1
  <2>1. Stop(pcb, c) \in [Procs -> PCB]
    BY <1>3 DEF Changes
  <2>2. /\ Changes(Stop(pcb, c), running, next, "Running")
        /\ running[next].memoryNode = Stop(pcb, c)[next].memoryNode
    BY <1>2, <1>5, <2>1, RunFrontFacts
  <2> HIDE DEF running
  <2>3. \A q \in Procs :
          /\ running[q].memoryNode = pcb[q].memoryNode
          /\ running[q].state = IF q = next THEN "Running" ELSE IF q = c THEN "Blocked" ELSE pcb[q].state
    BY <1>2, <1>5, <2>2, HandsOver
  <2>4. QED
    BY <1>1, <1>2, <1>5, <2>3
<1>6. QED
  BY <1>4, <1>5

(* The end of a quantum above the last level.                              *)
LEMMA DemoteSafe ==
  ASSUME CommonInv, SafeInv, MLFLInv, Demote, schedAlgorithm' = schedAlgorithm
  PROVE  SafeInv' /\ LifeStep
<1> DEFINE level == currentOccupiedLevel
           front == peek(ready[level], NULL)
           rest == dequeueMultiLevel(ready, level)
           levels == enqueueMultiLevel(rest, front, level + 1)
<1>1. /\ schedPc = "quantum" /\ schedPc' = "run" /\ level < LastLevel
      /\ quantum_passed = quantum /\ SwitchTo(levels)
      /\ UNCHANGED <<input, tree, Memory_Buffer, finishedProcesses>>
      /\ UNCHANGED <<reconstructing_buffer, schedAlgorithm>>
  BY DEF Demote, SchedTo, clkVars, MLVL_Queue
<1>2. /\ ready \in Queues /\ pcb \in [Procs -> PCB] /\ currClk \in Nat
      /\ currentPCB \in Procs \cup {NULL} /\ quantum # 0
  BY LevelKeys, QuantumAssumption
<1>3. /\ currentPCB \in Procs /\ level \in Levels
      /\ ready[level] # <<>> /\ currentPCB = Head(ready[level])
  BY <1>1, <1>2 DEF MLFLInv, QuantumInv, LevelInv
<1>4. front = currentPCB /\ level + 1 \in Levels
  BY <1>1, <1>3, LevelAssumption DEF peek, Levels
<1> HIDE DEF level, front
<1>5. rest \in Queues /\ Enters(rest, ready, front)
  BY <1>2, <1>3, <1>4, LevelLess
<1> HIDE DEF rest
<1>6. Enters(rest, levels, front)
  BY <1>3, <1>4, <1>5, LevelPut
<1> HIDE DEF levels
<1>7. levels \in Queues
  BY <1>6 DEF Enters
<1> PICK next : next = currentPCB'
  OBVIOUS
<1>8. /\ ready' = levels /\ next \in Procs \cup {NULL}
      /\ IF next = NULL THEN \A l \in Levels : ready'[l] = <<>>
                        ELSE InLevels(ready', next)
      /\ \A q \in Procs :
           /\ pcb'[q].memoryNode = pcb[q].memoryNode
           /\ pcb'[q].state = IF q = next THEN "Running"
                              ELSE IF q = front THEN "Blocked" ELSE pcb[q].state
  BY <1>1, <1>2, <1>3, <1>4, <1>7, SwitchToFacts
<1>9. QED
  BY <1>1, <1>3, <1>4, <1>5, <1>6, <1>8, SwitchSafe

(* The end of a quantum in the last level.                                 *)
LEMMA ShelveSafe ==
  ASSUME CommonInv, SafeInv, MLFLInv, Shelve, schedAlgorithm = "MLFL",
         schedAlgorithm' = schedAlgorithm
  PROVE  SafeInv' /\ LifeStep
<1> DEFINE front == peek(ready[LastLevel], NULL)
           rest == dequeueMultiLevel(ready, LastLevel)
<1>1. CASE Broken
  BY <1>1, BrokenSafe DEF Shelve
<1>2. CASE /\ Buffer(front) /\ SwitchTo(rest) /\ SchedTo("run")
           /\ UNCHANGED <<tree, Memory_Buffer, finishedProcesses, countVars, ptr, cycleVars>>
  <2>1. /\ schedPc = "quantum" /\ schedPc' = "run" /\ currentOccupiedLevel = LastLevel
        /\ quantum_passed = quantum /\ SwitchTo(rest)
        /\ reconstructing_buffer' = enqueuePriority(reconstructing_buffer, front, priorityKey)
        /\ UNCHANGED <<input, tree, Memory_Buffer, finishedProcesses>>
    BY <1>2 DEF Shelve, Buffer, SchedTo, clkVars
  <2>2. /\ ready \in Queues /\ pcb \in [Procs -> PCB] /\ currClk \in Nat
        /\ currentPCB \in Procs \cup {NULL} /\ quantum # 0
        /\ priorityKey \in [Procs -> Int] /\ LastLevel \in Levels
    BY LevelKeys, QuantumAssumption
  <2>3. /\ currentPCB \in Procs
        /\ ready[LastLevel] # <<>> /\ currentPCB = Head(ready[LastLevel])
        /\ reconstructing_buffer \in Seq(Procs)
    BY <2>1, <2>2 DEF MLFLInv, QuantumInv, LevelInv, FeedbackTyped
  <2>4. front = currentPCB
    BY <2>3 DEF peek
  <2> HIDE DEF front
  <2>5. rest \in Queues /\ Enters(rest, ready, front)
    BY <2>2, <2>3, <2>4, LevelLess
  <2> HIDE DEF rest
  <2>6. /\ reconstructing_buffer' \in Seq(Procs)
        /\ PutIn(reconstructing_buffer, reconstructing_buffer', front)
    BY <2>1, <2>2, <2>3, <2>4, EnqueuePriorityPuts
  <2> PICK next : next = currentPCB'
    OBVIOUS
  <2>7. /\ ready' = rest /\ next \in Procs \cup {NULL}
        /\ IF next = NULL THEN \A l \in Levels : ready'[l] = <<>>
                          ELSE InLevels(ready', next)
        /\ \A q \in Procs :
             /\ pcb'[q].memoryNode = pcb[q].memoryNode
             /\ pcb'[q].state = IF q = next THEN "Running"
                                ELSE IF q = front THEN "Blocked" ELSE pcb[q].state
    BY <2>1, <2>2, <2>3, <2>4, <2>5, SwitchToFacts
  <2>8. QED
    BY <2>1, <2>3, <2>4, <2>5, <2>6, <2>7, SwitchSafe
<1>3. QED
  BY <1>1, <1>2 DEF Shelve, MLVL_Queue

(* Every step of multi-level feedback.                                     *)
LEMMA MLFLSafe ==
  ASSUME CommonInv, SafeInv, ScanTakesFront, MLFLInv, MLFLBody,
         schedAlgorithm = "MLFL", schedAlgorithm' = schedAlgorithm
  PROVE  SafeInv' /\ LifeStep
<1>1. CASE MLFLReceive \/ MLFLDispatch \/ MLFLScan
  BY <1>1, MLFLStepSafe
<1>2. CASE Demote
  BY <1>2, DemoteSafe
<1>3. CASE Shelve
  BY <1>3, ShelveSafe
<1>4. CASE KeepLevel
  <2>1. /\ schedPc = "quantum" /\ schedPc' = "run" /\ pcb' = pcb /\ UNCHANGED Extras
        /\ UNCHANGED <<input, tree, ready, Memory_Buffer, finishedProcesses, currentPCB, ptr>>
    BY <1>4 DEF KeepLevel, SchedTo, clkVars, bodyVars, queueVars, feedbackVars, Extras
  <2>2. QED
    BY <2>1, LabelSafe
<1>5. CASE MLFLCharge
  BY <1>5, WaitSafe DEF MLFLCharge, RRCharge, feedbackVars, Extras
<1>6. CASE Refill
  BY <1>6, RefillSafe DEF MLFLInv
<1>7. CASE RefillStrays
  BY <1>7, BrokenSafe DEF RefillStrays
<1>8. CASE Reconstruct
  BY <1>8, ReconstructSafe DEF MLFLInv
<1>9. QED
  BY <1>1, <1>2, <1>3, <1>4, <1>5, <1>6, <1>7, <1>8 DEF MLFLBody

-----------------------------------------------------------------------------
(* The whole program.                                                      *)

(* The clock, the generator and the head of the loop.                      *)
LEMMA AsideSafe ==
  ASSUME CommonInv, SafeInv, UNCHANGED <<bodyVars, quantum_passed, feedbackVars, schedAlgorithm>>,
         Generator \/ ClockTick \/ LoopHead \/ UNCHANGED tickVars
  PROVE  SafeInv' /\ LifeStep
<1>1. input' = input /\ AsideMoves
  BY DEF AsideMoves, Generator, GenRead, GenSend, GenFinal, GenUp, GenSpin, GenExit, ClockTick,
     LoopHead, SchedRead, SchedDown, SchedSpin, SchedExit, schedHead, tickVars, clkVars
<1>2. \/ schedPc' = schedPc
      \/ schedPc = "read" /\ schedPc' = "down"
      \/ schedPc = "down" /\ schedPc' = "receive"
      \/ schedPc = "spin" /\ schedPc' = "read"
      \/ schedPc = "returned" /\ schedPc' = "exited"
  BY <1>1 DEF AsideMoves
<1>3. /\ UNCHANGED <<input, tree, ready, Memory_Buffer, finishedProcesses, currentPCB, ptr>>
      /\ UNCHANGED Extras /\ pcb' = pcb
  BY <1>1 DEF bodyVars, queueVars, feedbackVars, Extras
<1>4. /\ schedPc = "scan" => schedPc' = "scan"
      /\ schedPc # "scan" => schedPc' # "scan"
      /\ schedPc \in {"refill", "broken"} => schedPc' \in {"refill", "broken"}
      /\ schedPc' \in {"returned", "exited"} => schedPc \in {"returned", "exited"}
  BY <1>2
<1>5. QED
  BY <1>3, <1>4, LabelSafe

(* The algorithm that is running.                                          *)
LEMMA BodySafe ==
  ASSUME UsualInv, SafeInv, ScanTakesFront, Body
  PROVE  SafeInv' /\ LifeStep
<1>1. CommonInv /\ schedAlgorithm' = schedAlgorithm
  BY DEF UsualInv, Body
<1>2. UNCHANGED feedbackVars => UNCHANGED Extras
  BY <1>1 DEF feedbackVars, Extras
<1>3. CASE schedAlgorithm = "SJF" /\ SJFBody /\ UNCHANGED <<quantum_passed, feedbackVars>>
  BY <1>1, <1>2, <1>3, SJFSafe DEF UsualInv
<1>4. CASE schedAlgorithm = "HPF" /\ HPFBody /\ UNCHANGED <<quantum_passed, feedbackVars>>
  BY <1>1, <1>2, <1>4, HPFSafe DEF UsualInv
<1>5. CASE schedAlgorithm = "RR" /\ RRBody /\ UNCHANGED feedbackVars
  BY <1>1, <1>2, <1>5, RRSafe DEF UsualInv
<1>6. CASE schedAlgorithm = "MLFL" /\ MLFLBody
  BY <1>1, <1>6, MLFLSafe DEF UsualInv
<1>7. QED
  BY <1>3, <1>4, <1>5, <1>6 DEF Body

(* At the start.                                                           *)
LEMMA SafeInit ==
  ASSUME MainInit
  PROVE  SafeInv /\ Lifecycle!Init
<1>1. /\ schedPc = "read" /\ currentPCB = NULL /\ tree = {}
      /\ \A l \in Levels : ready[l] = <<>>
      /\ Memory_Buffer = <<>> /\ finishedProcesses = <<>> /\ reconstructing_buffer = <<>>
      /\ \A p \in Procs : pcb[p].state = "none"
  BY DEF MainInit, TickInit, BodyInit, MLFLInit
<1>2. (\A p : ~Contains(<<>>, p)) /\ Distinct(<<>>)
  BY DEF Contains, Distinct
<1>3. Received = {} /\ Rejected = {} /\ Accepted = {}
  BY <1>1 DEF Received, Rejected, Accepted
<1>4. \A p \in Procs : ~Active(p) /\ ~InQueue(p) /\ ~Waiting(p) /\ ~Shelved(p) /\ ~Done(p)
  BY <1>1, <1>2, NullAssumption DEF Active, InQueue, Waiting, Shelved, Done
<1>5. ListsInv
  BY <1>1, <1>2 DEF ListsInv, Singly
<1>6. StateInv
  BY <1>1, <1>3, <1>4, NullAssumption DEF StateInv
<1>7. PlaceInv
  BY <1>3, <1>4 DEF PlaceInv
<1>8. MemoryInv
  <2>1. Admitted = {}
    BY <1>4 DEF Admitted, Active, Shelved
  <2>2. Leaves(tree) = {}
    BY <1>1 DEF Leaves
  <2>3. QED
    BY <1>1, <2>1, <2>2 DEF MemoryInv, AdmittedHoldMemory
<1>9. RestInv
  BY <1>1, NullAssumption DEF RestInv, NobodyReady
<1>10. Lifecycle!Init
  BY <1>1, PhaseFacts DEF Lifecycle!Init
<1>11. QED
  BY <1>5, <1>6, <1>7, <1>8, <1>9, <1>10 DEF SafeInv

(* Every step of the program.                                              *)
LEMMA SafeStep ==
  ASSUME UsualInv, SafeInv, ScanTakesFront, [MainNext]_mainVars
  PROVE  SafeInv' /\ LifeStep
<1>1. CASE Body
  BY <1>1, BodySafe
<1>2. CASE Aside(Generator) \/ Aside(ClockTick) \/ Aside(LoopHead) \/ Aside(Ended)
  BY <1>2, AsideSafe DEF Aside, Ended, UsualInv
<1>3. CASE UNCHANGED mainVars
  <2>1. /\ UNCHANGED <<bodyVars, quantum_passed, feedbackVars, schedAlgorithm>>
        /\ UNCHANGED tickVars
    BY <1>3 DEF mainVars
  <2>2. QED
    BY <2>1, AsideSafe DEF UsualInv
<1>4. QED
  BY <1>1, <1>2, <1>3 DEF MainNext

(* The inductive invariant.                                                *)
THEOREM SafeInvHolds == MainSafety /\ []ScanTakesFront => []SafeInv
<1>1. MainInit => SafeInv
  BY SafeInit
<1>2. UsualInv /\ SafeInv /\ ScanTakesFront /\ [MainNext]_mainVars => SafeInv'
  BY SafeStep
<1>3. QED
  BY <1>1, <1>2, UsualInvHolds, PTL DEF MainSafety

(* The phases of a process that has started: it does not leave them.       *)
Going == {"running", "blocked", "finished"}

LEMMA GoesOn ==
  ASSUME LifeStep, NEW p \in Procs, Phase(p) \in Going
  PROVE  Phase(p)' \in Going
<1>1. /\ DOMAIN View = Procs /\ View[p] = Phase(p) /\ View'[p] = Phase(p)'
      /\ View[p] \notin {"unseen", "waiting"}
  BY DEF View, Going
<1>2. CASE View' = View
  BY <1>1, <1>2
<1>3. CASE Lifecycle!Next
  <2>1. PICK q \in Procs :
          \/ Lifecycle!Reject(q) \/ Lifecycle!Defer(q) \/ Lifecycle!Admit(q)
          \/ Lifecycle!Run(q) \/ Lifecycle!Block(q) \/ Lifecycle!Finish(q)
          \/ \E r \in Procs : Lifecycle!Switch(q, r)
    BY <1>3 DEF Lifecycle!Next
  <2>2. CASE \/ Lifecycle!Reject(q) \/ Lifecycle!Defer(q) \/ Lifecycle!Admit(q)
             \/ Lifecycle!Run(q) \/ Lifecycle!Block(q) \/ Lifecycle!Finish(q)
    BY <1>1, <2>2 DEF View, Going, Lifecycle!Reject, Lifecycle!Defer, Lifecycle!Admit,
       Lifecycle!Run, Lifecycle!Block, Lifecycle!Finish
  <2>3. CASE \E r \in Procs : Lifecycle!Switch(q, r)
    BY <1>1, <2>3 DEF View, Going, Lifecycle!Switch
  <2>4. QED
    BY <2>1, <2>2, <2>3
<1>4. QED
  BY <1>2, <1>3 DEF LifeStep

(* A process goes through the states of ProcessLifecycle: no two are on    *)
(* the CPU at once, and nobody is admitted twice or finishes twice.        *)
THEOREM LifecycleHolds == MainSafety /\ []ScanTakesFront => FollowsLifecycle
<1>1. MainInit => Lifecycle!Init
  BY SafeInit
<1>2. UsualInv /\ SafeInv /\ ScanTakesFront /\ [MainNext]_mainVars => [Lifecycle!Next]_View
  BY SafeStep DEF LifeStep
<1>3. QED
  BY <1>1, <1>2, UsualInvHolds, SafeInvHolds, PTL
     DEF MainSafety, FollowsLifecycle, Lifecycle!Spec, View

(* Under round robin and SJF whoever has started keeps its startTime, and  *)
(* is never again one that has not: a process that the scan lets in twice  *)
(* would be set back to "Ready" and start anew.                            *)
THEOREM StartTimesHold == MainSafety /\ []ScanTakesFront => StartTimeKept
<1>1. ASSUME UsualInv, SafeInv, ScanTakesFront, [MainNext]_mainVars
      PROVE  [\A p \in Procs :
                schedAlgorithm \in {"RR", "SJF"} /\ Started(p) =>
                  Started(p)' /\ pcb'[p].startTime = pcb[p].startTime]_mainVars
  <2>1. UsualInv' /\ LifeStep /\ (schedAlgorithm \in {"RR", "SJF"} => StartKept)
    BY <1>1, UsualStep, SafeStep
  <2>2. SUFFICES ASSUME NEW p \in Procs, schedAlgorithm \in {"RR", "SJF"}, Started(p)
                 PROVE  Started(p)' /\ pcb'[p].startTime = pcb[p].startTime
    OBVIOUS
  <2>3. pcb'[p].startTime = pcb[p].startTime
    <3>1. pcb[p].state = "Finished" => ~InQueue(p)
      BY <1>1 DEF SafeInv, StateInv
    <3>2. QED
      BY <2>1, <2>2, <3>1 DEF StartKept, Started
  <2>4. Phase(p) \in Going
    BY <2>2, PhaseFacts DEF Started, Going
  <2>5. Phase(p)' \in Going
    BY <2>1, <2>4, GoesOn
  <2>6. pcb'[p].state \in States
    BY <2>1 DEF UsualInv, CommonInv, DataInv, DataTyped, PCB
  <2>7. Started(p)'
    BY <2>5, <2>6, PhaseNext DEF Started, Going, States
  <2>8. QED
    BY <2>3, <2>7
<1>2. QED
  BY <1>1, UsualInvHolds, SafeInvHolds, PTL DEF MainSafety, StartTimeKept

-----------------------------------------------------------------------------
(* What follows from the invariant.                                        *)

(* In a list without repetition whoever is there is at one position.       *)
LEMMA OnePosition ==
  ASSUME NEW q \in Seq(Procs), Distinct(q), NEW p
  PROVE  /\ ~Contains(q, p) => Positions(q, p) = {}
         /\ Contains(q, p) => \E i : Positions(q, p) = {i}
<1>1. DOMAIN q = 1 .. Len(q)
  BY LenProperties
<1>2. ~Contains(q, p) => Positions(q, p) = {}
  BY <1>1 DEF Positions, Contains
<1>3. ASSUME Contains(q, p) PROVE \E i : Positions(q, p) = {i}
  <2>1. PICK i \in 1 .. Len(q) : q[i] = p
    BY <1>3 DEF Contains
  <2>2. Positions(q, p) = {i}
    BY <1>1, <2>1 DEF Positions, Distinct
  <2>3. QED
    BY <2>2
<1>4. QED
  BY <1>2, <1>3

(* What being in a place means.                                            *)
LEMMA PlacesAre ==
  ASSUME NEW p, NEW x
  PROVE  x \in Places(p) <=>
           \/ \E l \in Levels : \E i \in Positions(ready[l], p) : x = <<"ready", l, i>>
           \/ \E i \in Positions(Memory_Buffer, p) : x = <<"memory", 0, i>>
           \/ \E i \in Positions(reconstructing_buffer, p) : x = <<"feedback", 0, i>>
           \/ \E i \in Positions(finishedProcesses, p) : x = <<"finished", 0, i>>
           \/ p = currentPCB /\ ~InQueue(p) /\ x = <<"cpu", 0, 0>>
BY DEF Places

(* A rejected process is nowhere, any other received one in one place.     *)
LEMMA OnePlace ==
  ASSUME UsualInv, SafeInv, NEW p \in Received
  PROVE  Cardinality(Places(p)) = IF TooBig(p) THEN 0 ELSE 1
<1>1. /\ p \in Procs /\ ready \in [Levels -> Seq(Procs)]
      /\ Memory_Buffer \in Seq(Procs) /\ finishedProcesses \in Seq(Procs)
      /\ reconstructing_buffer \in Seq(Procs)
  BY DEF Received, UsualInv, CommonInv, DataInv, DataTyped, FeedbackTyped
<1>2. /\ \A l \in Levels : Distinct(ready[l]) /\ ready[l] \in Seq(Procs)
      /\ Distinct(Memory_Buffer) /\ Distinct(reconstructing_buffer) /\ Distinct(finishedProcesses)
  BY <1>1 DEF SafeInv, ListsInv, Singly
<1>3. /\ ~Waiting(p) => Positions(Memory_Buffer, p) = {}
      /\ Waiting(p)  => \E i : Positions(Memory_Buffer, p) = {i}
      /\ ~Shelved(p) => Positions(reconstructing_buffer, p) = {}
      /\ Shelved(p)  => \E i : Positions(reconstructing_buffer, p) = {i}
      /\ ~Done(p)    => Positions(finishedProcesses, p) = {}
      /\ Done(p)     => \E i : Positions(finishedProcesses, p) = {i}
  BY <1>1, <1>2, OnePosition DEF Waiting, Shelved, Done
<1>4. ~InQueue(p) => \A l \in Levels : Positions(ready[l], p) = {}
  BY <1>2, OnePosition DEF InQueue
<1>5. CASE TooBig(p)
  <2>1. p \in Rejected /\ p \notin Accepted
    BY <1>5 DEF Rejected, Accepted
  <2>2. ~Shelved(p)
    BY <1>1, <2>1 DEF SafeInv, StateInv
  <2>3. ~InQueue(p) /\ p # currentPCB /\ ~Waiting(p) /\ ~Done(p)
    BY <1>1, <2>1 DEF UsualInv, CommonInv, DataInv, OnlyReceived, Listed, Waiting, Done
  <2>4. Places(p) = {}
    BY <1>3, <1>4, <2>2, <2>3 DEF Places
  <2>5. QED
    BY <1>5, <2>4, FS_EmptySet
<1>6. CASE ~TooBig(p)
  <2>1. InQueue(p) \/ p = currentPCB \/ Waiting(p) \/ Shelved(p) \/ Done(p)
    BY <1>1, <1>6 DEF SafeInv, PlaceInv, Active, Accepted
  <2>2. /\ InQueue(p) \/ p = currentPCB => ~Waiting(p) /\ ~Shelved(p) /\ ~Done(p)
        /\ Waiting(p) => ~Shelved(p) /\ ~Done(p)
        /\ Shelved(p) => ~Done(p)
    BY <1>1 DEF SafeInv, PlaceInv, StateInv, Active
  <2>3. \E x : Places(p) = {x}
    <3>1. CASE InQueue(p)
      <4>1. PICK l \in Levels : Contains(ready[l], p)
        BY <3>1 DEF InQueue
      <4>2. \A k \in Levels \ {l} : ~Contains(ready[k], p)
        BY <1>1, <4>1 DEF SafeInv, ListsInv, Singly
      <4>3. PICK i : Positions(ready[l], p) = {i}
        BY <1>2, <4>1, OnePosition
      <4>4. \A k \in Levels \ {l} : Positions(ready[k], p) = {}
        BY <1>2, <4>2, OnePosition
      <4>5. Places(p) = {<<"ready", l, i>>}
        BY <1>3, <2>2, <3>1, <4>3, <4>4, PlacesAre
      <4>6. QED
        BY <4>5
    <3>2. CASE ~InQueue(p) /\ p = currentPCB
      <4>1. Places(p) = {<<"cpu", 0, 0>>}
        BY <1>3, <1>4, <2>2, <3>2, PlacesAre
      <4>2. QED
        BY <4>1
    <3>3. CASE Waiting(p)
      <4>1. PICK i : Positions(Memory_Buffer, p) = {i}
        BY <1>3, <3>3
      <4>2. Places(p) = {<<"memory", 0, i>>}
        BY <1>3, <1>4, <2>2, <3>3, <4>1, PlacesAre
      <4>3. QED
        BY <4>2
    <3>4. CASE Shelved(p)
      <4>1. PICK i : Positions(reconstructing_buffer, p) = {i}
        BY <1>3, <3>4
      <4>2. Places(p) = {<<"feedback", 0, i>>}
        BY <1>3, <1>4, <2>2, <3>4, <4>1, PlacesAre
      <4>3. QED
        BY <4>2
    <3>5. CASE Done(p)
      <4>1. PICK i : Positions(finishedProcesses, p) = {i}
        BY <1>3, <3>5
      <4>2. Places(p) = {<<"finished", 0, i>>}
        BY <1>3, <1>4, <2>2, <3>5, <4>1, PlacesAre
      <4>3. QED
        BY <4>2
    <3>6. QED
      BY <2>1, <3>1, <3>2, <3>3, <3>4, <3>5
  <2>4. QED
    BY <1>6, <2>3, FS_Singleton
<1>7. QED
  BY <1>5, <1>6

(* Nobody is in a queue, on the CPU or in the feedback buffer: the memory  *)
(* is free.                                                                *)
LEMMA NobodyNoTree ==
  ASSUME CommonInv, SafeInv, NobodyReady, currentPCB = NULL, reconstructing_buffer = <<>>
  PROVE  Admitted = {} /\ tree = {}
<1>1. \A p \in Procs : ~InQueue(p) /\ ~Contains(reconstructing_buffer, p) /\ p # currentPCB
  BY NullAssumption DEF NobodyReady, InQueue, Contains
<1>2. Admitted = {}
  BY <1>1 DEF Admitted
<1>3. Leaves(tree) = {}
  BY <1>2 DEF SafeInv, MemoryInv, AdmittedHoldMemory
<1>4. QED
  BY <1>2, <1>3, NoLeafNoTree DEF CommonInv, DataInv

(* A CPU without a process, outside the scan and the moments when multi-   *)
(* level feedback has yet to look at its buffer.                           *)
LEMMA NobodyLeft ==
  ASSUME UsualInv, SafeInv, currentPCB = NULL, schedPc \in {"spin", "returned", "exited"}
  PROVE  NobodyReady /\ Admitted = {} /\ tree = {}
<1>1. NobodyReady
  BY DEF SafeInv, RestInv
<1>2. reconstructing_buffer = <<>>
  <2>1. CASE schedAlgorithm = "MLFL"
    BY <2>1 DEF UsualInv, MLFLInv, IdleInv
  <2>2. CASE schedAlgorithm # "MLFL"
    BY <2>2 DEF SafeInv, RestInv
  <2>3. QED
    BY <2>1, <2>2
<1>3. QED
  BY <1>1, <1>2, NobodyNoTree DEF UsualInv

(* A tick passes without a process on the CPU only if nobody waits.        *)
LEMMA NoTickWasted ==
  ASSUME UsualInv, SafeInv
  PROVE  WorkConserving
<1>1. SUFFICES ASSUME schedPc = "spin", currentPCB = NULL
               PROVE  NobodyReady /\ Memory_Buffer = <<>> /\ tree = {}
  BY DEF WorkConserving
<1>2. NobodyReady /\ tree = {}
  BY <1>1, NobodyLeft
<1>3. Memory_Buffer = <<>>
  BY <1>1, <1>2 DEF SafeInv, MemoryInv
<1>4. QED
  BY <1>2, <1>3

(* When the algorithm has returned, all is done.                           *)
LEMMA AllDone ==
  ASSUME UsualInv, SafeInv
  PROVE  ExitComplete
<1>1. SUFFICES ASSUME schedPc \in {"returned", "exited"}
               PROVE  /\ \A p \in Procs : \/ pcb[p].state = "Finished"
                                          \/ TooBig(p) /\ p \in Received
                      /\ tree = {}
  BY DEF ExitComplete
<1>2. Received = Procs /\ Memory_Buffer = <<>> /\ currentPCB = NULL
  BY <1>1 DEF SafeInv, RestInv
<1>3. Admitted = {} /\ tree = {}
  BY <1>1, <1>2, NobodyLeft
<1>4. ASSUME NEW p \in Procs, ~TooBig(p) PROVE pcb[p].state = "Finished"
  <2>1. p \in Accepted
    BY <1>2, <1>4 DEF Accepted
  <2>2. ~Active(p) /\ ~Shelved(p) /\ ~Waiting(p)
    BY <1>2, <1>3 DEF Admitted, Active, Shelved, Waiting, Contains
  <2>3. Done(p)
    BY <2>1, <2>2 DEF SafeInv, PlaceInv
  <2>4. QED
    BY <2>3 DEF SafeInv, StateInv
<1>5. QED
  BY <1>2, <1>3, <1>4

(* Nobody is lost and nobody is in two places.                             *)
THEOREM NobodyLost == MainSafety /\ []ScanTakesFront => []NoProcessLost
<1>1. UsualInv /\ SafeInv => NoProcessLost
  BY OnePlace DEF NoProcessLost
<1>2. QED
  BY <1>1, UsualInvHolds, SafeInvHolds, PTL

(* The leaves of the buddy tree are the blocks of the processes that are   *)
(* in a queue or on the CPU, one each.                                     *)
THEOREM MemoryHeldRight == MainSafety /\ []ScanTakesFront => []AdmittedHoldMemory
<1>1. SafeInv => AdmittedHoldMemory
  BY DEF SafeInv, MemoryInv
<1>2. QED
  BY <1>1, SafeInvHolds, PTL

(* No tick is wasted while a process could run.                            *)
THEOREM WorkConservingHolds == MainSafety /\ []ScanTakesFront => []WorkConserving
<1>1. UsualInv /\ SafeInv => WorkConserving
  BY NoTickWasted
<1>2. QED
  BY <1>1, UsualInvHolds, SafeInvHolds, PTL

(* The counters tell the algorithm the truth: it returns only when all are *)
(* finished or rejected, and then the memory is free.                      *)
THEOREM ExitCompleteHolds == MainSafety /\ []ScanTakesFront => []ExitComplete
<1>1. UsualInv /\ SafeInv => ExitComplete
  BY AllDone
<1>2. QED
  BY <1>1, UsualInvHolds, SafeInvHolds, PTL

-----------------------------------------------------------------------------
(* Files for which the scan takes the front: those in which a process that *)
(* waits behind another one never asks for a smaller block.  When there is *)
(* no room for one process, there is then none for those behind it.        *)

(* What the algorithm sorts the memory buffer by.                          *)
WaitKey(algorithm, in) ==
  [p \in Procs |-> IF algorithm = "RR" THEN 1
                   ELSE IF algorithm = "SJF" THEN in[p].executionTime ELSE in[p].priority]

(* Whoever fits in memory and is not put before p asks for a block that is *)
(* not smaller than that of p.                                             *)
SizesInOrder ==
  \A in \in Inputs, algorithm \in Algorithms, p, q \in Procs :
    /\ in[p].memSize <= MemorySize /\ in[q].memSize <= MemorySize
    /\ WaitKey(algorithm, in)[p] <= WaitKey(algorithm, in)[q]
    => \A r \in BlockSpan(in[p].memSize), s \in BlockSpan(in[q].memSize) : r <= s

(* For example, all ask for a block of the same size.  Round robin, which  *)
(* has one key for all, needs this.                                        *)
LEMMA OneSizeInOrder ==
  ASSUME \A in \in Inputs, p, q \in Procs :
           in[p].memSize <= MemorySize /\ in[q].memSize <= MemorySize =>
             BlockSpan(in[p].memSize) = BlockSpan(in[q].memSize)
  PROVE  SizesInOrder
<1>1. SUFFICES ASSUME NEW in \in Inputs, NEW p \in Procs, NEW q \in Procs,
                      in[p].memSize <= MemorySize, in[q].memSize <= MemorySize,
                      NEW r \in BlockSpan(in[p].memSize), NEW s \in BlockSpan(in[q].memSize)
               PROVE  r <= s
  BY DEF SizesInOrder
<1>2. s \in BlockSpan(in[p].memSize)
  BY <1>1
<1>3. QED
  BY <1>2 DEF BlockSpan

NoRoomFor(p) == Allocate(tree, input[p].memSize) = {}

(* The scan is in step with the buffer until there is no room for anybody  *)
(* it has left.                                                            *)
ScanInv ==
  schedPc = "scan" /\ ptr # <<>> =>
    ptr = Memory_Buffer \/ \A p \in Procs : Contains(ptr, p) => NoRoomFor(p)

OrderInv ==
  /\ Rooted(tree)
  /\ SortedBy(Memory_Buffer, WaitKey(schedAlgorithm, input))
  /\ ScanInv

LEMMA WaitKeyTyped ==
  ASSUME input \in Inputs
  PROVE  WaitKey(schedAlgorithm, input) \in [Procs -> Int]
<1>1. \A p \in Procs : input[p].executionTime \in Int /\ input[p].priority \in Int
  BY FileAssumption, LevelAssumption DEF Levels
<1>2. QED
  BY <1>1 DEF WaitKey

(* The front of a list and what is behind it.                              *)
LEMMA Behind ==
  ASSUME NEW S, NEW q \in Seq(S), q # <<>>
  PROVE  /\ Head(q) \in S /\ Contains(q, Head(q)) /\ Tail(q) \in Seq(S)
         /\ \A x : Contains(Tail(q), x) => Contains(q, x)
         /\ \A key : SortedBy(q, key) =>
              /\ SortedBy(Tail(q), key)
              /\ \A x : Contains(q, x) => key[Head(q)] <= key[x]
<1>1. /\ Len(q) \in Nat /\ Len(q) >= 1 /\ Head(q) = q[1] /\ Head(q) \in S
      /\ Tail(q) \in Seq(S) /\ Len(Tail(q)) = Len(q) - 1
      /\ \A i \in 1 .. Len(q) - 1 : Tail(q)[i] = q[i + 1]
  OBVIOUS
<1>2. \A x : Contains(q, x) <=> \E i \in 1 .. Len(q) : q[i] = x
  BY DEF Contains
<1>3. \A x : Contains(Tail(q), x) <=> \E i \in 1 .. Len(q) - 1 : q[i + 1] = x
  BY <1>1 DEF Contains
<1>4. ASSUME NEW key, SortedBy(q, key) PROVE SortedBy(Tail(q), key)
  BY <1>1, <1>4 DEF SortedBy
<1>5. ASSUME NEW key, SortedBy(q, key), NEW x, Contains(q, x) PROVE key[Head(q)] <= key[x]
  BY <1>1, <1>2, <1>5 DEF SortedBy
<1>6. QED
  BY <1>1, <1>2, <1>3, <1>4, <1>5

(* The process the scan looks at fits in memory, and so do those behind.   *)
LEMMA ScannedFits ==
  ASSUME UsualInv, ptr # <<>>
  PROVE  /\ Head(ptr) \in Procs /\ Contains(ptr, Head(ptr))
         /\ \A p \in Procs : Contains(ptr, p) => ~TooBig(p)
<1>1. ptr \in Seq(Procs)
  BY DEF UsualInv, CommonInv, DataInv, DataTyped
<1>2. Head(ptr) \in Procs /\ Contains(ptr, Head(ptr))
  BY <1>1, Behind
<1>3. QED
  BY <1>2 DEF UsualInv, CommonInv, DataInv, OnlyReceived, Listed, Accepted

(* No room for the front of the buffer is no room for anybody in it.       *)
LEMMA NoRoomBehind ==
  ASSUME SizesInOrder, UsualInv, OrderInv, ptr # <<>>, ptr = Memory_Buffer, NoRoomFor(Head(ptr)),
         NEW q \in Procs, Contains(ptr, q)
  PROVE  NoRoomFor(q)
<1> DEFINE p == Head(ptr)
           key == WaitKey(schedAlgorithm, input)
<1>1. /\ WellFormed(tree) /\ input \in Inputs /\ schedAlgorithm \in Algorithms
      /\ ptr \in Seq(Procs)
  BY DEF UsualInv, CommonInv, TickTyped, DataInv, DataTyped
<1>2. p \in Procs /\ ~TooBig(p) /\ ~TooBig(q)
  BY ScannedFits
<1>3. /\ input[p].memSize \in Nat /\ input[q].memSize \in Nat /\ MemorySize \in Nat
  BY <1>1, <1>2, FileAssumption, BuddyAssumption
<1>4. input[p].memSize <= MemorySize /\ input[q].memSize <= MemorySize
  BY <1>2, <1>3 DEF TooBig
<1>5. key[p] <= key[q]
  <2>1. SortedBy(ptr, key)
    BY DEF OrderInv
  <2> HIDE DEF key
  <2>2. QED
    BY <1>1, <2>1, Behind
<1>6. \A r \in BlockSpan(input[p].memSize), s \in BlockSpan(input[q].memSize) : r <= s
  BY <1>1, <1>2, <1>4, <1>5 DEF SizesInOrder
<1>7. QED
  BY <1>1, <1>3, <1>4, <1>6, NoRoomForMore DEF OrderInv, NoRoomFor

(* What the algorithms do to the tree and to the memory buffer.            *)
LEMMA BufferMoves ==
  ASSUME Body
  PROVE  /\ input' = input /\ schedAlgorithm' = schedAlgorithm
         /\ \/ ReceiveNoRoom(WaitKey(schedAlgorithm, input))
            \/ \E queues, takesCPU : ReceiveAdmit(queues, takesCPU)
            \/ \E queues : Finish(queues)
            \/ \E queues : ScanAdmit(queues)
            \/ ScanSkip
            \/ schedPc' # "scan" /\ UNCHANGED <<tree, Memory_Buffer>>
<1> DEFINE key == WaitKey(schedAlgorithm, input)
           Quiet == schedPc' # "scan" /\ UNCHANGED <<input, tree, Memory_Buffer>>
           Busily == \/ ReceiveNoRoom(key)
                     \/ \E queues, takesCPU : ReceiveAdmit(queues, takesCPU)
                     \/ \E queues : Finish(queues)
                     \/ \E queues : ScanAdmit(queues)
                     \/ ScanSkip
<1>1. Busily => input' = input
  BY DEF ReceiveNoRoom, ReceiveAdmit, Finish, ScanAdmit, ScanSkip, SchedTake, SchedTo, schedHead,
     tickVars, clkVars
<1>2. ReceiveTooBig \/ ReceiveDone => Quiet
  BY DEF ReceiveTooBig, ReceiveDone, SchedTake, SchedTo, schedHead, clkVars, bodyVars, queueVars
<1>3. ASSUME NEW next \in {"spin", "run", "quantum"},
             Idle(next) \/ Continue(next) \/ PickNobody(next)
             \/ (\E p, pcbs, queues : Pick(p, pcbs, queues, next))
      PROVE  Quiet
  BY <1>3 DEF Idle, Continue, PickNobody, Pick, SchedTo, schedHead, clkVars, bodyVars, queueVars
<1>4. Return \/ Charge => Quiet
  BY DEF Return, Charge, SchedTo, schedHead, clkVars, bodyVars, queueVars
<1> HIDE DEF key
<1>5. CASE schedAlgorithm = "SJF" /\ SJFBody
  <2>1. key = executionTime
    BY <1>5 DEF key, WaitKey, executionTime
  <2>2. Busily \/ Quiet
    BY <1>2, <1>3, <1>4, <1>5, <2>1 DEF SJFBody, SJFReceive, SJFDispatch, SJFScan
  <2>3. QED
    BY <1>1, <2>2 DEF Body, key
<1>6. CASE schedAlgorithm = "HPF" /\ HPFBody
  <2>1. key = priority
    BY <1>6 DEF key, WaitKey, priority
  <2>2. Busily \/ Quiet
    BY <1>2, <1>3, <1>4, <1>6, <2>1 DEF HPFBody, HPFReceive, HPFDispatch, HPFScan
  <2>3. QED
    BY <1>1, <2>2 DEF Body, key
<1>7. CASE schedAlgorithm = "RR" /\ RRBody
  <2>1. key = bufferKey
    BY <1>7 DEF key, WaitKey, bufferKey
  <2> SUFFICES Busily \/ Quiet
    BY <1>1 DEF Body, key
  <2>2. CASE RRReceive \/ RRDispatch \/ RRScan
    BY <1>2, <1>3, <1>4, <2>1, <2>2 DEF RRReceive, RRDispatch, RRScan
  <2>3. CASE Rotate \/ KeepCPU \/ RRCharge
    BY <1>4, <2>3 DEF Rotate, KeepCPU, RRCharge, SchedTo, schedHead, clkVars, bodyVars, queueVars
  <2>4. QED
    BY <1>7, <2>2, <2>3 DEF RRBody
<1>8. CASE schedAlgorithm = "MLFL" /\ MLFLBody
  <2>1. key = priorityKey
    BY <1>8 DEF key, WaitKey, priorityKey
  <2> SUFFICES Busily \/ Quiet
    BY <1>1 DEF Body, key
  <2>2. CASE MLFLReceive \/ MLFLDispatch \/ MLFLScan
    BY <1>2, <1>3, <1>4, <2>1, <2>2 DEF MLFLReceive, MLFLDispatch, MLFLScan
  <2>3. CASE Demote \/ Shelve \/ KeepLevel
    BY <2>3 DEF Demote, Shelve, KeepLevel, Broken, SchedTo, schedHead, clkVars, bodyVars, queueVars
  <2>4. CASE MLFLCharge \/ Refill \/ RefillStrays \/ Reconstruct
    BY <1>4, <2>4 DEF MLFLCharge, RRCharge, Refill, RefillStrays, Broken, Reconstruct, SchedTo,
       schedHead, clkVars, bodyVars, queueVars
  <2>5. QED
    BY <1>8, <2>2, <2>3, <2>4 DEF MLFLBody
<1>9. QED
  BY <1>5, <1>6, <1>7, <1>8 DEF Body

(* The steps of the algorithms keep the order, the scan in step, and the   *)
(* tree hung from the root.                                                *)
LEMMA OrderStep ==
  ASSUME SizesInOrder, UsualInv, OrderInv, Body
  PROVE  OrderInv'
<1> DEFINE key == WaitKey(schedAlgorithm, input)
<1>1. /\ WellFormed(tree) /\ Rooted(tree) /\ SortedBy(Memory_Buffer, key)
      /\ Memory_Buffer \in Seq(Procs) /\ ptr \in Seq(Procs)
      /\ msgq \in Seq(Procs) /\ input \in Inputs /\ key \in [Procs -> Int]
  BY WaitKeyTyped DEF OrderInv, UsualInv, CommonInv, TickTyped, DataInv, DataTyped
<1>2. key' = key
  BY BufferMoves DEF WaitKey
<1> HIDE DEF key
<1>3. ASSUME Rooted(tree)', SortedBy(Memory_Buffer', key), ScanInv'
      PROVE  OrderInv'
  BY <1>2, <1>3 DEF OrderInv, key
<1>4. \A p \in Procs : input[p].memSize \in Nat
  BY <1>1, FileAssumption
<1>5. CASE ReceiveNoRoom(key)
  <2>1. /\ msgq # <<>> /\ Memory_Buffer' = enqueuePriority(Memory_Buffer, New, key)
        /\ tree' = tree /\ schedPc' # "scan"
    BY <1>5 DEF ReceiveNoRoom, SchedTake, schedHead
  <2>2. New \in Procs
    BY <1>1, <2>1 DEF New
  <2>3. SortedBy(Memory_Buffer', key)
    BY <1>1, <2>1, <2>2, EnqueuePriorityPuts
  <2>4. QED
    BY <1>1, <1>3, <2>1, <2>3 DEF ScanInv, Rooted
<1>6. ASSUME NEW queues, NEW takesCPU, ReceiveAdmit(queues, takesCPU) PROVE OrderInv'
  <2>1. /\ msgq # <<>> /\ Memory_Buffer' = Memory_Buffer /\ schedPc' # "scan"
        /\ \E r \in Allocate(tree, input[New].memSize) : tree' = r.tree
    BY <1>6 DEF ReceiveAdmit, SchedTake, schedHead
  <2>2. New \in Procs
    BY <1>1, <2>1 DEF New
  <2>3. Rooted(tree')
    BY <1>1, <1>4, <2>1, <2>2, AllocateRooted
  <2>4. QED
    BY <1>1, <1>3, <2>1, <2>3 DEF ScanInv, Rooted
<1>7. ASSUME NEW queues, Finish(queues) PROVE OrderInv'
  <2>1. /\ tree' = Deallocate(tree, pcb[currentPCB].memoryNode)
        /\ Memory_Buffer' = Memory_Buffer /\ ptr' = Memory_Buffer
    BY <1>7 DEF Finish
  <2>2. Rooted(tree')
    BY <1>1, <2>1, DeallocateRooted
  <2>3. QED
    BY <1>1, <1>3, <2>1, <2>2 DEF ScanInv, Rooted
<1>8. ASSUME NEW queues, ScanAdmit(queues) PROVE OrderInv'
  <2>1. /\ schedPc = "scan" /\ ptr # <<>>
        /\ \E r \in Allocate(tree, input[Head(ptr)].memSize) : tree' = r.tree
        /\ ptr' = Tail(ptr) /\ Memory_Buffer' = dequeue(Memory_Buffer)
    BY <1>8 DEF ScanAdmit
  <2>2. Head(ptr) \in Procs /\ Contains(ptr, Head(ptr))
    BY <2>1, ScannedFits
  <2>3. ptr = Memory_Buffer
    BY <2>1, <2>2 DEF OrderInv, ScanInv, NoRoomFor
  <2>4. Memory_Buffer' = ptr' /\ SortedBy(Memory_Buffer', key)
    BY <1>1, <2>1, <2>3, Behind DEF dequeue
  <2>5. Rooted(tree')
    BY <1>1, <1>4, <2>1, <2>2, AllocateRooted
  <2>6. QED
    BY <1>3, <2>4, <2>5 DEF ScanInv, Rooted
<1>9. CASE ScanSkip
  <2>1. /\ schedPc = "scan" /\ ptr # <<>> /\ NoRoomFor(Head(ptr)) /\ ptr' = Tail(ptr)
        /\ tree' = tree /\ Memory_Buffer' = Memory_Buffer
    BY <1>9 DEF ScanSkip, queueVars, NoRoomFor
  <2>2. \A p \in Procs : Contains(ptr, p) => NoRoomFor(p)
    BY <2>1, NoRoomBehind DEF OrderInv, ScanInv
  <2>3. \A p \in Procs : Contains(ptr', p) => NoRoomFor(p)'
    BY <1>1, <2>1, <2>2, Behind, BufferMoves DEF NoRoomFor
  <2>4. QED
    BY <1>1, <1>3, <2>1, <2>3 DEF ScanInv, Rooted
<1>10. CASE schedPc' # "scan" /\ UNCHANGED <<tree, Memory_Buffer>>
  BY <1>1, <1>3, <1>10 DEF ScanInv, Rooted
<1>11. QED
  BY <1>5, <1>6, <1>7, <1>8, <1>9, <1>10, BufferMoves DEF key

(* And so do all the others.                                               *)
LEMMA OrderKept ==
  ASSUME SizesInOrder, UsualInv, OrderInv, [MainNext]_mainVars
  PROVE  OrderInv'
<1>1. ASSUME UNCHANGED <<bodyVars, quantum_passed, feedbackVars, schedAlgorithm>>,
             Generator \/ ClockTick \/ LoopHead \/ UNCHANGED tickVars
      PROVE  OrderInv'
  <2>1. UNCHANGED <<tree, ptr, Memory_Buffer, schedAlgorithm>>
    BY <1>1 DEF bodyVars, queueVars
  <2>2. input' = input /\ (schedPc' = schedPc \/ schedPc' # "scan")
    BY <1>1 DEF Generator, GenRead, GenSend, GenFinal, GenUp, GenSpin, GenExit, ClockTick,
       LoopHead, SchedRead, SchedDown, SchedSpin, SchedExit, schedHead, tickVars, clkVars
  <2>3. WaitKey(schedAlgorithm, input)' = WaitKey(schedAlgorithm, input)
    BY <2>1, <2>2 DEF WaitKey
  <2>4. ScanInv'
    BY <2>1, <2>2 DEF OrderInv, ScanInv, NoRoomFor
  <2>5. QED
    BY <2>1, <2>3, <2>4 DEF OrderInv, Rooted, SortedBy
<1>2. CASE Aside(Generator) \/ Aside(ClockTick) \/ Aside(LoopHead) \/ Aside(Ended)
  BY <1>1, <1>2 DEF Aside, Ended
<1>3. CASE UNCHANGED mainVars
  <2>1. /\ UNCHANGED <<bodyVars, quantum_passed, feedbackVars, schedAlgorithm>>
        /\ UNCHANGED tickVars
    BY <1>3 DEF mainVars
  <2>2. QED
    BY <1>1, <2>1
<1>4. QED
  BY <1>2, <1>3, OrderStep DEF MainNext

(* With sizes in order the scan admits nobody but the front.               *)
THEOREM FrontInOrder ==
  ASSUME SizesInOrder
  PROVE  MainSafety => []ScanTakesFront
<1>1. MainInit => OrderInv
  BY DEF MainInit, TickInit, BodyInit, OrderInv, ScanInv, Rooted, SortedBy
<1>2. UsualInv /\ OrderInv /\ [MainNext]_mainVars => OrderInv'
  BY OrderKept
<1>3. UsualInv /\ OrderInv => ScanTakesFront
  BY ScannedFits DEF OrderInv, ScanInv, ScanTakesFront, NoRoomFor
<1>4. QED
  BY <1>1, <1>2, <1>3, UsualInvHolds, PTL DEF MainSafety

(* So all of the above holds then of the program as it is: nobody is lost, *)
(* memory is held by whom it should be, no tick is wasted, the program     *)
(* ends when all is done, every process goes through the states of         *)
(* ProcessLifecycle, and none gets a second startTime under round robin    *)
(* and SJF.                                                                *)
THEOREM SafeInOrder ==
  ASSUME SizesInOrder
  PROVE  MainSafety =>
           /\ []NoProcessLost
           /\ []AdmittedHoldMemory
           /\ []WorkConserving
           /\ []ExitComplete
           /\ FollowsLifecycle
           /\ StartTimeKept
BY FrontInOrder, NobodyLost, MemoryHeldRight, WorkConservingHolds, ExitCompleteHolds,
   LifecycleHolds, StartTimesHold, PTL

-----------------------------------------------------------------------------
(* Times.  If everybody is prompt, a process is received in the tick in    *)
(* which it arrives.                                                       *)

(* The tick that is to be charged next; while the scheduler waits for it,  *)
(* the next one.                                                           *)
Now == IF schedPc = "spin" THEN currClk + 1 ELSE IF schedPc = "read" THEN clk ELSE currClk

(* Where the process on the CPU is known to have something left to do.     *)
Unfinished == {"scan", "quantum", "run", "refill", "broken"}

OnTime == schedPc = "receive" /\ msgq # <<>> => input[New].arrivalTime = currClk

(* No process has been charged more ticks than have passed since it came,  *)
(* and one that has been charged its last tick started before now.         *)
TimeInv ==
  \A p \in Procs :
    LET state == pcb[p].state
        left  == pcb[p].remainingTime
        start == pcb[p].startTime
    IN /\ state = "none" => left = input[p].executionTime
       /\ state # "none" =>
            /\ input[p].arrivalTime <= currClk
            /\ input[p].arrivalTime + input[p].executionTime - left <= Now
       /\ state \in {"Running", "Blocked"} => input[p].arrivalTime <= start /\ start <= currClk
       /\ input[p].executionTime > 0 =>
            /\ state \in {"Ready", "Blocked"} => left > 0
            /\ state = "Running" =>
                 /\ left >= 0 /\ (schedPc \in Unfinished => left > 0)
                 /\ left = 0 => start < Now
            /\ state = "Finished" => start < pcb[p].finishTime
       /\ state = "Finished" =>
            /\ left = 0 /\ input[p].arrivalTime <= start
            /\ input[p].arrivalTime + input[p].executionTime <= pcb[p].finishTime

(* What a step may do to the times of p.                                   *)
Stays(p) ==
  /\ pcb'[p].state = pcb[p].state
  /\ pcb'[p].remainingTime = pcb[p].remainingTime
  /\ pcb'[p].startTime = pcb[p].startTime
  /\ pcb'[p].finishTime = pcb[p].finishTime
  /\ pcb[p].state = "Running" /\ schedPc' \in Unfinished =>
       schedPc \in Unfinished \/ pcb[p].remainingTime # 0

GetsReady(p) ==
  /\ pcb[p].state \in {"none", "Ready"} /\ pcb'[p].state = "Ready"
  /\ pcb'[p].remainingTime = pcb[p].remainingTime
  /\ input[p].arrivalTime <= currClk

GetsCPU(p) ==
  /\ pcb'[p].state = "Running"
  /\ pcb'[p].remainingTime = pcb[p].remainingTime
  /\ \/ pcb[p].state \in {"none", "Ready"} /\ pcb'[p].startTime = currClk
     \/ pcb[p].state \in {"Blocked", "Running"} /\ pcb'[p].startTime \in {currClk, pcb[p].startTime}
  /\ pcb[p].state = "Running" => schedPc \in Unfinished
  /\ input[p].arrivalTime <= currClk

LosesCPU(p) ==
  /\ pcb[p].state = "Running" /\ pcb'[p].state = "Blocked"
  /\ pcb'[p].remainingTime = pcb[p].remainingTime
  /\ pcb'[p].startTime = pcb[p].startTime
  /\ schedPc \in Unfinished \/ pcb[p].remainingTime # 0

Completes(p) ==
  /\ pcb[p].state = "Running" /\ pcb'[p].state = "Finished"
  /\ pcb[p].remainingTime = 0 /\ pcb'[p].remainingTime = 0
  /\ pcb'[p].startTime = pcb[p].startTime
  /\ pcb'[p].finishTime = currClk /\ schedPc = "dispatch"

IsCharged(p) ==
  /\ pcb[p].state \in {"Running", "Blocked"} /\ pcb'[p].state = "Running"
  /\ pcb'[p].remainingTime = pcb[p].remainingTime - 1
  /\ pcb'[p].startTime = pcb[p].startTime
  /\ schedPc \in Unfinished /\ schedPc' = "spin"

TimelyStep ==
  /\ input' = input /\ currClk <= currClk' /\ Now <= Now'
  /\ \A p \in Procs : \/ Stays(p) \/ GetsReady(p) \/ GetsCPU(p)
                      \/ LosesCPU(p) \/ Completes(p) \/ IsCharged(p)

(* The types of what TimeInv is about.                                     *)
LEMMA TimeTypes ==
  ASSUME CommonInv
  PROVE  /\ currClk \in Nat /\ clk \in Nat /\ Now \in Nat /\ currClk <= Now
         /\ pcb \in [Procs -> PCB] /\ input \in Inputs /\ currClk <= clk
         /\ \A p \in Procs :
              /\ input[p].arrivalTime \in Nat /\ input[p].executionTime \in Nat
              /\ pcb[p].remainingTime \in Int /\ pcb[p].startTime \in Nat
              /\ pcb[p].finishTime \in Nat
              /\ pcb[p].state \in States
<1>1. /\ clk \in 0 .. MaxClk /\ currClk \in 0 .. clk /\ pcb \in [Procs -> PCB] /\ input \in Inputs
  BY DEF CommonInv, TickTyped, DataInv, DataTyped
<1>2. \A p \in Procs : input[p].arrivalTime \in Nat /\ input[p].executionTime \in Nat
  BY <1>1, TickAssumption, FileAssumption
<1>3. MaxClk \in Nat
  BY TickAssumption
<1>4. QED
  BY <1>1, <1>2, <1>3 DEF Now, PCB

(* Such a step keeps the times in order.                                   *)
LEMMA TimelyKeeps ==
  ASSUME CommonInv, CommonInv', TimeInv, TimelyStep
  PROVE  TimeInv'
<1> PICK now, next : now = Now /\ next = Now'
  OBVIOUS
<1>1. /\ input' = input /\ currClk <= currClk' /\ now <= next
      /\ currClk \in Nat /\ now \in Nat /\ currClk <= now
      /\ currClk' \in Nat /\ next \in Nat /\ currClk' <= next
  <2>1. /\ clk' \in 0 .. MaxClk /\ currClk' \in 0 .. clk' /\ MaxClk \in Nat
    BY TickAssumption DEF CommonInv, TickTyped
  <2>2. Now' \in {currClk', currClk' + 1, clk'}
    BY DEF Now
  <2>3. currClk' \in Nat /\ next \in Nat /\ currClk' <= next
    <3>1. PICK k, c : k = clk' /\ c = currClk'
      OBVIOUS
    <3>2. k \in 0 .. MaxClk /\ c \in 0 .. k /\ MaxClk \in Nat /\ next \in {c, c + 1, k}
      BY <2>1, <2>2, <3>1
    <3>3. c \in Nat /\ next \in Nat /\ c <= next
      BY <3>2
    <3>4. QED
      BY <3>1, <3>3
  <2>4. QED
    BY <2>3, TimeTypes DEF TimelyStep
<1>2. schedPc = "dispatch" => now = currClk
  BY DEF Now
<1>3. schedPc \in Unfinished /\ schedPc' = "spin" => now = currClk /\ next = currClk' + 1
  BY DEF Now, Unfinished
<1>4. SUFFICES ASSUME NEW p \in Procs
               PROVE  LET state == pcb'[p].state
                          left  == pcb'[p].remainingTime
                          start == pcb'[p].startTime
                      IN /\ state = "none" => left = input[p].executionTime
                         /\ state # "none" =>
                              /\ input[p].arrivalTime <= currClk'
                              /\ input[p].arrivalTime + input[p].executionTime - left <= next
                         /\ state \in {"Running", "Blocked"} =>
                              input[p].arrivalTime <= start /\ start <= currClk'
                         /\ input[p].executionTime > 0 =>
                              /\ state \in {"Ready", "Blocked"} => left > 0
                              /\ state = "Running" =>
                                   /\ left >= 0 /\ (schedPc' \in Unfinished => left > 0)
                                   /\ left = 0 => start < next
                              /\ state = "Finished" => start < pcb'[p].finishTime
                         /\ state = "Finished" =>
                              /\ left = 0 /\ input[p].arrivalTime <= start
                              /\ input[p].arrivalTime + input[p].executionTime
                                   <= pcb'[p].finishTime
  BY <1>1 DEF TimeInv
<1>5. LET state == pcb[p].state
          left  == pcb[p].remainingTime
          start == pcb[p].startTime
      IN /\ state = "none" => left = input[p].executionTime
         /\ state # "none" =>
              /\ input[p].arrivalTime <= currClk
              /\ input[p].arrivalTime + input[p].executionTime - left <= now
         /\ state \in {"Running", "Blocked"} => input[p].arrivalTime <= start /\ start <= currClk
         /\ input[p].executionTime > 0 =>
              /\ state \in {"Ready", "Blocked"} => left > 0
              /\ state = "Running" =>
                   /\ left >= 0 /\ (schedPc \in Unfinished => left > 0)
                   /\ left = 0 => start < now
              /\ state = "Finished" => start < pcb[p].finishTime
         /\ state = "Finished" =>
              /\ left = 0 /\ input[p].arrivalTime <= start
              /\ input[p].arrivalTime + input[p].executionTime <= pcb[p].finishTime
  BY DEF TimeInv
<1>6. /\ input[p].arrivalTime \in Nat /\ input[p].executionTime \in Nat
      /\ pcb[p].remainingTime \in Int /\ pcb[p].startTime \in Nat /\ pcb[p].finishTime \in Nat
      /\ pcb[p].state \in States
  BY TimeTypes
<1>7. CASE Stays(p)
  BY <1>1, <1>5, <1>6, <1>7 DEF Stays
<1>8. CASE GetsReady(p)
  BY <1>1, <1>5, <1>6, <1>8 DEF GetsReady
<1>9. CASE GetsCPU(p)
  BY <1>1, <1>5, <1>6, <1>9 DEF GetsCPU
<1>10. CASE LosesCPU(p)
  BY <1>1, <1>5, <1>6, <1>10 DEF LosesCPU
<1>11. CASE Completes(p)
  BY <1>1, <1>2, <1>5, <1>6, <1>11 DEF Completes
<1>12. CASE IsCharged(p)
  <2>1. /\ pcb[p].state \in {"Running", "Blocked"} /\ pcb'[p].state = "Running"
        /\ pcb'[p].remainingTime = pcb[p].remainingTime - 1
        /\ pcb'[p].startTime = pcb[p].startTime
        /\ schedPc \in Unfinished /\ schedPc' \notin Unfinished
        /\ now = currClk /\ next = currClk' + 1
    BY <1>3, <1>12 DEF IsCharged, Unfinished
  <2>2. QED
    BY <1>1, <1>5, <1>6, <2>1
<1>13. QED
  BY <1>7, <1>8, <1>9, <1>10, <1>11, <1>12 DEF TimelyStep

(* The steps that move no time: some processes change, the others stay.    *)
LEMMA SomeTimely ==
  ASSUME CommonInv, StateInv, UNCHANGED <<input, clk, currClk>>,
         schedPc \notin {"read", "spin"},
         \/ schedPc' \notin Unfinished \/ schedPc \in Unfinished
         \/ currentPCB = NULL \/ pcb[currentPCB].remainingTime # 0,
         NEW S \in SUBSET Procs,
         \A q \in Procs \ S : /\ pcb'[q].state = pcb[q].state
                              /\ pcb'[q].remainingTime = pcb[q].remainingTime
                              /\ pcb'[q].startTime = pcb[q].startTime
                              /\ pcb'[q].finishTime = pcb[q].finishTime,
         \A q \in S : GetsReady(q) \/ GetsCPU(q) \/ LosesCPU(q) \/ Completes(q) \/ IsCharged(q)
  PROVE  TimelyStep
<1>1. ASSUME NEW q \in Procs \ S PROVE Stays(q)
  <2>1. pcb[q].state = "Running" => q = currentPCB /\ q # NULL
    BY NullAssumption DEF StateInv
  <2>2. QED
    BY <2>1 DEF Stays
<1>2. Now <= Now'
  <2>1. PICK k, c : k = clk /\ c = currClk
    OBVIOUS
  <2>2. k \in Nat /\ c \in Nat /\ c <= k
    BY <2>1, TimeTypes
  <2>3. Now = c /\ Now' \in {c, c + 1, k}
    BY <2>1 DEF Now
  <2>4. QED
    BY <2>2, <2>3
<1>3. currClk <= currClk'
  BY TimeTypes
<1>4. QED
  BY <1>1, <1>2, <1>3 DEF TimelyStep

(* Nobody changes.                                                         *)
LEMMA NoneTimely ==
  ASSUME CommonInv, StateInv, UNCHANGED <<input, clk, currClk>>,
         schedPc \notin {"read", "spin"},
         \/ schedPc' \notin Unfinished \/ schedPc \in Unfinished
         \/ currentPCB = NULL \/ pcb[currentPCB].remainingTime # 0,
         \A q \in Procs : /\ pcb'[q].state = pcb[q].state
                          /\ pcb'[q].remainingTime = pcb[q].remainingTime
                          /\ pcb'[q].startTime = pcb[q].startTime
                          /\ pcb'[q].finishTime = pcb[q].finishTime
  PROVE  TimelyStep
<1> PICK S \in SUBSET Procs : S = {}
  OBVIOUS
<1>1. \A q \in Procs \ S : /\ pcb'[q].state = pcb[q].state
                           /\ pcb'[q].remainingTime = pcb[q].remainingTime
                           /\ pcb'[q].startTime = pcb[q].startTime
                           /\ pcb'[q].finishTime = pcb[q].finishTime
  OBVIOUS
<1>2. \A q \in S : FALSE
  OBVIOUS
<1>3. QED
  BY <1>1, <1>2, SomeTimely

(* One process changes.                                                    *)
LEMMA OneTimely ==
  ASSUME CommonInv, StateInv, UNCHANGED <<input, clk, currClk>>,
         schedPc \notin {"read", "spin"},
         \/ schedPc' \notin Unfinished \/ schedPc \in Unfinished
         \/ currentPCB = NULL \/ pcb[currentPCB].remainingTime # 0,
         NEW p \in Procs, \A q \in Procs \ {p} : pcb'[q] = pcb[q],
         GetsReady(p) \/ GetsCPU(p) \/ LosesCPU(p) \/ Completes(p) \/ IsCharged(p)
  PROVE  TimelyStep
<1> PICK S \in SUBSET Procs : S = {p}
  OBVIOUS
<1>1. \A q \in Procs \ S : pcb'[q] = pcb[q]
  OBVIOUS
<1>2. \A q \in S : GetsReady(q) \/ GetsCPU(q) \/ LosesCPU(q) \/ Completes(q) \/ IsCharged(q)
  OBVIOUS
<1>3. QED
  BY <1>1, <1>2, SomeTimely

(* The steps that do not receive, start or finish anybody.                 *)
LEMMA WaitTimely ==
  ASSUME CommonInv, StateInv, NEW next \in {"quantum", "run", "spin"},
         ReceiveDone \/ Return \/ Idle(next) \/ Continue(next) \/ PickNobody(next) \/ ScanSkip
  PROVE  TimelyStep
<1>1. CASE ReceiveDone \/ Return
  <2>1. /\ schedPc \in {"receive", "dispatch"} /\ schedPc' \in {"dispatch", "returned"}
        /\ UNCHANGED <<input, clk, currClk, pcb>>
    BY <1>1 DEF ReceiveDone, Return, SchedTo, clkVars, bodyVars
  <2>2. QED
    BY <2>1, NoneTimely DEF Unfinished
<1>2. CASE Idle(next) \/ Continue(next)
  <2>1. /\ schedPc = "dispatch" /\ UNCHANGED <<input, clk, currClk, pcb>>
        /\ currentPCB = NULL \/ pcb[currentPCB].remainingTime # 0
    BY <1>2 DEF Idle, Continue, SchedTo, clkVars, bodyVars
  <2>2. QED
    BY <2>1, NoneTimely
<1>3. CASE PickNobody(next)
  <2>1. schedPc = "scan" /\ UNCHANGED <<input, clk, currClk, pcb>>
    BY <1>3 DEF PickNobody, SchedTo, clkVars, bodyVars
  <2>2. QED
    BY <2>1, NoneTimely DEF Unfinished
<1>4. CASE ScanSkip
  <2>1. schedPc = "scan" /\ UNCHANGED <<input, clk, currClk>>
    BY <1>4 DEF ScanSkip, tickVars, clkVars, schedHead
  <2>2. \A q \in Procs : /\ pcb'[q].state = pcb[q].state
                         /\ pcb'[q].remainingTime = pcb[q].remainingTime
                         /\ pcb'[q].startTime = pcb[q].startTime
                         /\ pcb'[q].finishTime = pcb[q].finishTime
    BY <1>4, ScanSkipKeeps
  <2>3. QED
    BY <2>1, <2>2, NoneTimely DEF Unfinished
<1>5. QED
  BY <1>1, <1>2, <1>3, <1>4

(* A process that is received has just arrived.                            *)
LEMMA ReceiveTimely ==
  ASSUME CommonInv, SafeInv, OnTime,
         ReceiveTooBig \/ \E key \in [Procs -> Int] : ReceiveNoRoom(key)
  PROVE  TimelyStep
<1>1. /\ SchedTake /\ pcb' = Receive(pcb, New) /\ UNCHANGED <<input, clk, currClk, schedPc>>
      /\ schedPc = "receive" /\ msgq # <<>>
  BY DEF ReceiveTooBig, ReceiveNoRoom, SchedTake, clkVars, schedHead
<1>2. New \in Procs /\ pcb[New].state = "none"
  BY <1>1, NewFacts
<1> PICK n \in Procs : n = New
  BY <1>2
<1>3. Changes(pcb, pcb', n, "Ready")
  BY <1>1, ReceiveFacts DEF CommonInv, DataInv, DataTyped
<1>4. input[n].arrivalTime <= currClk
  BY <1>1, TimeTypes DEF OnTime
<1>5. GetsReady(n)
  BY <1>2, <1>3, <1>4 DEF GetsReady, Changes
<1>6. QED
  BY <1>1, <1>3, <1>5, OneTimely DEF Changes, SafeInv, Unfinished

(* So has one that is admitted at once; whom it takes the CPU from is not  *)
(* done.                                                                   *)
LEMMA AdmitTimely ==
  ASSUME CommonInv, SafeInv, OnTime, NEW queues, NEW takesCPU \in BOOLEAN,
         ReceiveAdmit(queues, takesCPU),
         takesCPU /\ currentPCB # NULL => pcb[currentPCB].remainingTime # 0
  PROVE  TimelyStep
<1>1. /\ SchedTake /\ UNCHANGED <<input, clk, currClk, schedPc>>
      /\ schedPc = "receive" /\ msgq # <<>>
  BY DEF ReceiveAdmit, SchedTake, clkVars, schedHead
<1>2. New \in Procs /\ pcb[New].state = "none" /\ currentPCB \in Procs \cup {NULL}
  BY <1>1, NewFacts
<1> PICK n \in Procs : n = New
  BY <1>2
<1>3. /\ n # currentPCB
      /\ pcb'[n].state = IF takesCPU THEN "Running" ELSE "Ready"
      /\ pcb'[n].remainingTime = pcb[n].remainingTime
      /\ takesCPU => pcb'[n].startTime = currClk
      /\ \A q \in Procs \ {n} :
           IF takesCPU /\ q = currentPCB
           THEN /\ pcb'[q].state = "Blocked"
                /\ pcb'[q].remainingTime = pcb[q].remainingTime
                /\ pcb'[q].startTime = pcb[q].startTime
           ELSE pcb'[q] = pcb[q]
  BY AdmitPcbs
<1>4. input[n].arrivalTime <= currClk
  BY <1>1, TimeTypes DEF OnTime
<1>5. GetsReady(n) \/ GetsCPU(n)
  BY <1>2, <1>3, <1>4 DEF GetsReady, GetsCPU
<1>6. CASE takesCPU /\ currentPCB # NULL
  <2>1. currentPCB \in Procs /\ pcb[currentPCB].state = "Running"
    BY <1>1, <1>2, <1>6 DEF SafeInv, StateInv
  <2>2. LosesCPU(currentPCB)
    BY <1>3, <1>6, <2>1 DEF LosesCPU
  <2>3. QED
    BY <1>1, <1>3, <1>5, <2>1, <2>2, SomeTimely, {n, currentPCB} \in SUBSET Procs DEF SafeInv, Unfinished
<1>7. CASE ~(takesCPU /\ currentPCB # NULL)
  <2>1. \A q \in Procs \ {n} : pcb'[q] = pcb[q]
    BY <1>3, <1>7, NullAssumption
  <2>2. QED
    BY <1>1, <1>5, <2>1, OneTimely DEF SafeInv, Unfinished
<1>8. QED
  BY <1>6, <1>7

(* The process that finishes was charged its last tick.                    *)
LEMMA FinishTimely ==
  ASSUME CommonInv, SafeInv, NEW queues, Finish(queues)
  PROVE  TimelyStep
<1>1. /\ schedPc = "dispatch" /\ currentPCB # NULL /\ pcb[currentPCB].remainingTime = 0
      /\ pcb' = saveProcessState(pcb, currentPCB, "Finished", currClk)
      /\ schedPc' = "scan" /\ UNCHANGED <<input, clk, currClk>> /\ currentPCB' = NULL
  BY DEF Finish, SchedTo, clkVars
<1>2. /\ currentPCB \in Procs /\ pcb \in [Procs -> PCB] /\ currClk \in Nat
      /\ pcb[currentPCB].state = "Running"
  BY <1>1, TimeTypes DEF CommonInv, DataInv, DataTyped, SafeInv, StateInv
<1> PICK c \in Procs : c = currentPCB
  BY <1>2
<1>3. /\ Changes(pcb, pcb', c, "Finished")
      /\ pcb'[c].startTime = pcb[c].startTime
      /\ pcb'[c].finishTime = currClk
  BY <1>1, <1>2, SaveFacts DEF States
<1>4. Completes(c)
  BY <1>1, <1>2, <1>3 DEF Completes, Changes
<1>5. \A q \in Procs \ {c} : Stays(q)
  <2>1. \A q \in Procs \ {c} : pcb'[q] = pcb[q] /\ pcb[q].state # "Running"
    BY <1>3 DEF Changes, SafeInv, StateInv
  <2>2. QED
    BY <2>1 DEF Stays
<1>6. currClk <= currClk' /\ Now <= Now'
  BY <1>1, <1>2 DEF Now
<1>7. QED
  BY <1>1, <1>4, <1>5, <1>6 DEF TimelyStep

(* The process that the scan admits was waiting.                           *)
LEMMA ScanAdmitTimely ==
  ASSUME CommonInv, SafeInv, TimeInv, NEW queues, ScanAdmit(queues)
  PROVE  TimelyStep
<1>1. /\ schedPc = "scan" /\ ptr # <<>> /\ UNCHANGED <<input, clk, currClk>>
      /\ ptr \in Seq(Procs) /\ pcb \in [Procs -> PCB] /\ input \in Inputs /\ WellFormed(tree)
  BY DEF ScanAdmit, tickVars, clkVars, schedHead, CommonInv, TickTyped, DataInv, DataTyped
<1>2. Head(ptr) \in Procs /\ Contains(ptr, Head(ptr))
  BY <1>1, DequeueTakes
<1> PICK p \in Procs : p = Head(ptr)
  BY <1>2
<1>3. pcb[p].state = "Ready" /\ input[p].memSize \in Nat
  BY <1>1, <1>2, FileAssumption DEF SafeInv, ListsInv, StateInv
<1>4. PICK r \in Allocate(tree, input[p].memSize) : pcb' = Admit(pcb, p, r.block)
  BY DEF ScanAdmit
<1>5. r.block \in Node
  BY <1>1, <1>3, AllocateCorrect
<1>6. Changes(pcb, pcb', p, "Ready")
  BY <1>1, <1>4, <1>5, AdmitFacts
<1>7. GetsReady(p)
  BY <1>3, <1>6 DEF GetsReady, Changes, TimeInv
<1>8. QED
  BY <1>1, <1>6, <1>7, OneTimely DEF Changes, SafeInv, Unfinished

(* p gets the CPU: now, if it is new, and otherwise perhaps as if it were. *)
Runs(old, new, p) ==
  /\ Changes(old, new, p, "Running")
  /\ \/ new[p].startTime = currClk
     \/ old[p].state # "Ready" /\ new[p].startTime = old[p].startTime

(* However the CPU is given to it.                                         *)
LEMMA RunsFacts ==
  ASSUME NEW old \in [Procs -> PCB], NEW p \in Procs, currClk \in Nat
  PROVE  /\ Runs(old, Start(old, p), p)
         /\ Runs(old, StartOrResume(old, p), p)
         /\ \A sameLevel : Runs(old, RunFront(old, p, sameLevel), p)
<1>1. Runs(old, Start(old, p), p)
  BY StartFacts DEF Runs
<1>2. Runs(old, StartOrResume(old, p), p)
  <2>1. CASE old[p].state = "Ready"
    BY <1>1, <2>1 DEF StartOrResume
  <2>2. CASE old[p].state # "Ready"
    BY <2>2, StartOrResumeFacts DEF Runs
  <2>3. QED
    BY <2>1, <2>2
<1>3. QED
  BY <1>1, <1>2 DEF RunFront

(* The CPU is free, and one that is in the queue gets it.                  *)
LEMMA PickTimely ==
  ASSUME CommonInv, SafeInv, TimeInv, NEW p \in Procs, NEW pcbs, NEW queues,
         NEW next, Pick(p, pcbs, queues, next), InLevels(ready, p), Runs(pcb, pcbs, p)
  PROVE  TimelyStep
<1>1. /\ schedPc = "scan" /\ pcb' = pcbs /\ UNCHANGED <<input, clk, currClk>>
      /\ currentPCB = NULL
  BY DEF Pick, SchedTo, clkVars, CommonInv, DataInv
<1>2. InQueue(p)
  BY DEF InQueue, InLevels
<1>3. pcb[p].state \in {"Ready", "Blocked"}
  BY <1>1, <1>2, NullAssumption DEF SafeInv, StateInv
<1>4. input[p].arrivalTime <= currClk
  BY <1>3 DEF TimeInv
<1>5. GetsCPU(p)
  BY <1>1, <1>3, <1>4 DEF GetsCPU, Runs, Changes
<1>6. QED
  BY <1>1, <1>5, OneTimely DEF Runs, Changes, SafeInv

(* The process on the CPU is charged.                                      *)
LEMMA ChargeTimely ==
  ASSUME CommonInv, SafeInv, Charge
  PROVE  TimelyStep
<1>1. /\ schedPc = "run" /\ schedPc' = "spin" /\ UNCHANGED <<input, clk, currClk>>
      /\ pcb' = IF currentPCB = NULL THEN pcb
                ELSE [pcb EXCEPT ![currentPCB].remainingTime = @ - 1]
      /\ currentPCB \in Procs \cup {NULL} /\ pcb \in [Procs -> PCB]
  BY DEF Charge, SchedTo, clkVars, CommonInv, DataInv, DataTyped
<1>2. CASE currentPCB = NULL
  BY <1>1, <1>2, NoneTimely DEF SafeInv
<1>3. CASE currentPCB # NULL
  <2>1. currentPCB \in Procs
    BY <1>1, <1>3
  <2> PICK c \in Procs : c = currentPCB
    BY <2>1
  <2>2. pcb[c].state = "Running"
    BY <1>1 DEF SafeInv, StateInv
  <2>3. pcb' = [pcb EXCEPT ![c].remainingTime = @ - 1]
    BY <1>1, <1>3
  <2>4. /\ \A q \in Procs \ {c} : pcb'[q] = pcb[q]
        /\ pcb'[c].state = pcb[c].state /\ pcb'[c].startTime = pcb[c].startTime
        /\ pcb'[c].remainingTime = pcb[c].remainingTime - 1
    BY <1>1, <2>3 DEF PCB
  <2>5. IsCharged(c)
    BY <1>1, <2>2, <2>4 DEF IsCharged, Unfinished
  <2>6. QED
    BY <1>1, <2>4, <2>5, OneTimely DEF SafeInv, Unfinished
<1>4. QED
  BY <1>2, <1>3

(* The CPU goes from c to the next, which may be c again, or to nobody.    *)
LEMMA SwitchTimely ==
  ASSUME CommonInv, SafeInv, TimeInv, schedPc = "quantum", UNCHANGED <<input, clk, currClk>>,
         NEW c \in Procs, c = currentPCB, NEW next \in Procs \cup {NULL},
         IF next = NULL THEN pcb' = Stop(pcb, c)
                        ELSE InQueue(next) /\ Runs(Stop(pcb, c), pcb', next)
  PROVE  TimelyStep
<1>1. pcb \in [Procs -> PCB] /\ pcb[c].state = "Running"
  BY DEF CommonInv, DataInv, DataTyped, SafeInv, StateInv
<1> DEFINE stopped == Stop(pcb, c)
<1>2. Changes(pcb, stopped, c, "Blocked") /\ stopped[c].startTime = pcb[c].startTime
  BY <1>1, StopFacts
<1>3. CASE next = NULL
  <2>1. LosesCPU(c)
    BY <1>1, <1>2, <1>3 DEF LosesCPU, Changes, Unfinished
  <2>2. QED
    BY <1>2, <1>3, <2>1, OneTimely DEF Changes, SafeInv, Unfinished
<1>4. CASE next # NULL
  <2>1. next \in Procs /\ InQueue(next) /\ Runs(stopped, pcb', next)
    BY <1>4
  <2> HIDE DEF stopped
  <2>2. pcb[next].state \in {"Ready", "Blocked", "Running"} /\ input[next].arrivalTime <= currClk
    BY <2>1 DEF SafeInv, StateInv, TimeInv
  <2>3. GetsCPU(next)
    BY <1>1, <1>2, <2>1, <2>2 DEF GetsCPU, Runs, Changes, Unfinished
  <2>4. CASE next = c
    BY <1>2, <2>1, <2>3, <2>4, OneTimely DEF Runs, Changes, SafeInv, Unfinished
  <2>5. CASE next # c
    <3>1. LosesCPU(c)
      BY <1>1, <1>2, <2>1, <2>5 DEF LosesCPU, Runs, Changes, Unfinished
    <3>2. \A q \in Procs \ {c, next} : pcb'[q] = pcb[q]
      BY <1>2, <2>1 DEF Runs, Changes
    <3>3. {c, next} \in SUBSET Procs
      BY <2>1
    <3>4. QED
      BY <2>3, <3>1, <3>2, <3>3, SomeTimely DEF SafeInv, Unfinished
  <2>6. QED
    BY <2>4, <2>5
<1>5. QED
  BY <1>3, <1>4

(* Every step of round robin.                                              *)
LEMMA RRTimely ==
  ASSUME CommonInv, SafeInv, TimeInv, OnTime, RRInv, RRBody
  PROVE  TimelyStep
<1>1. RR_Queue \in Seq(Procs) /\ pcb \in [Procs -> PCB] /\ currClk \in Nat
  BY OneQueueFacts, EmptySeq DEF RR_Queue, CommonInv, TickTyped, DataInv, DataTyped
<1>2. bufferKey \in [Procs -> Int]
  BY DEF bufferKey
<1>3. CASE ReceiveTooBig \/ ReceiveNoRoom(bufferKey)
  BY <1>2, <1>3, ReceiveTimely
<1>4. CASE ReceiveAdmit(OneQueue(enqueue(RR_Queue, New)), currentPCB = NULL)
  <2> DEFINE takes == currentPCB = NULL
  <2>1. takes \in BOOLEAN /\ ReceiveAdmit(OneQueue(enqueue(RR_Queue, New)), takes)
        /\ ~(takes /\ currentPCB # NULL)
    BY <1>4
  <2> HIDE DEF takes
  <2>2. QED
    BY <2>1, AdmitTimely
<1>5. CASE \/ ReceiveDone \/ Return \/ Idle("quantum") \/ Continue("quantum")
           \/ PickNobody("quantum") \/ ScanSkip
  BY <1>5, WaitTimely DEF SafeInv
<1>6. CASE \/ Finish(OneQueue(dequeue(RR_Queue)))
           \/ ScanAdmit(OneQueue(enqueue(RR_Queue, Head(ptr))))
  BY <1>6, FinishTimely, ScanAdmitTimely
<1>7. CASE Pick(peek(RR_Queue, NULL), StartOrResume(pcb, peek(RR_Queue, NULL)), ready, "quantum")
  <2> DEFINE p == peek(RR_Queue, NULL)
             pcbs == StartOrResume(pcb, p)
  <2>1. RR_Queue # <<>>
    BY <1>7, OneLevelFacts DEF Pick, RRInv, RR_Queue
  <2>2. p \in Procs /\ InLevels(ready, p)
    BY <1>1, <2>1, DequeueTakes, OneLevelFacts DEF peek, RRInv, RR_Queue
  <2>3. Pick(p, pcbs, ready, "quantum")
    BY <1>7
  <2> HIDE DEF p
  <2>4. Runs(pcb, pcbs, p)
    BY <1>1, <2>2, RunsFacts
  <2> HIDE DEF pcbs
  <2>5. QED
    BY <2>2, <2>3, <2>4, PickTimely
<1>8. CASE Rotate
  <2> DEFINE front == peek(RR_Queue, NULL)
             rest == dequeue(RR_Queue)
             rotated == enqueue(rest, front)
             next == peek(rotated, NULL)
  <2>1. /\ schedPc = "quantum" /\ UNCHANGED <<input, clk, currClk>> /\ Len(RR_Queue) >= 2
        /\ pcb' = StartOrResume(Stop(pcb, currentPCB), next)
    BY <1>8 DEF Rotate, SchedTo, clkVars
  <2>2. RR_Queue # <<>> /\ currentPCB = front
    BY <2>1, EmptySeq DEF RRInv, FrontRuns
  <2>3. front \in Procs /\ rest \in Seq(Procs) /\ PutIn(rest, RR_Queue, front)
    BY <1>1, <2>2, DequeueTakes DEF peek
  <2> HIDE DEF front, rest
  <2>4. rotated \in Seq(Procs) /\ rotated # <<>> /\ PutIn(rest, rotated, front)
    BY <2>3, EnqueuePuts
  <2> HIDE DEF rotated
  <2>5. next \in Procs /\ Contains(rotated, next)
    BY <2>4, DequeueTakes DEF peek
  <2> HIDE DEF next
  <2>6. Contains(RR_Queue, next)
    BY <1>1, <2>3, <2>4, <2>5, PutInFacts
  <2>7. InQueue(next) /\ next # NULL
    BY <2>5, <2>6, LevelAssumption, NullAssumption DEF InQueue, Levels, RR_Queue
  <2>8. Stop(pcb, front) \in [Procs -> PCB]
    BY <1>1, <2>3, StopFacts DEF Changes
  <2>9. Runs(Stop(pcb, front), pcb', next)
    BY <1>1, <2>1, <2>2, <2>5, <2>8, RunsFacts
  <2>10. QED
    BY <2>1, <2>2, <2>3, <2>5, <2>7, <2>9, SwitchTimely
<1>9. CASE KeepCPU
  <2>1. schedPc = "quantum" /\ UNCHANGED <<input, clk, currClk, pcb>>
    BY <1>9 DEF KeepCPU, SchedTo, clkVars, bodyVars
  <2>2. QED
    BY <2>1, NoneTimely DEF SafeInv, Unfinished
<1>10. CASE RRCharge
  BY <1>10, ChargeTimely DEF RRCharge
<1>11. QED
  BY <1>3, <1>4, <1>5, <1>6, <1>7, <1>8, <1>9, <1>10 DEF RRBody, RRReceive, RRDispatch, RRScan

(* Every step of highest priority first.                                   *)
LEMMA HPFTimely ==
  ASSUME CommonInv, SafeInv, TimeInv, OnTime, HPFInv, HPFBody
  PROVE  TimelyStep
<1>1. /\ HPF_Queue \in Seq(Procs) /\ pcb \in [Procs -> PCB] /\ currClk \in Nat
      /\ priority \in [Procs -> Int]
  BY OneQueueFacts, PriorityKeys, EmptySeq
     DEF HPF_Queue, CommonInv, TickTyped, DataInv, DataTyped
<1>2. CASE ReceiveTooBig \/ ReceiveNoRoom(priority)
  BY <1>1, <1>2, ReceiveTimely
<1>3. CASE ReceiveAdmit(OneQueue(enqueuePriority(HPF_Queue, New, priority)), Preempts)
  <2>1. Preempts \in BOOLEAN
    BY DEF Preempts
  <2>2. Preempts /\ currentPCB # NULL => pcb[currentPCB].remainingTime # 0
    BY DEF Preempts
  <2>3. QED
    BY <1>3, <2>1, <2>2, AdmitTimely
<1>4. CASE ReceiveDone \/ Return \/ Idle("run") \/ Continue("run") \/ PickNobody("run") \/ ScanSkip
  BY <1>4, WaitTimely DEF SafeInv
<1>5. CASE \/ Finish(OneQueue(removeNodePriority(HPF_Queue, currentPCB)))
           \/ ScanAdmit(OneQueue(enqueuePriority(HPF_Queue, Head(ptr), priority)))
  BY <1>5, FinishTimely, ScanAdmitTimely
<1>6. CASE Pick(peek(HPF_Queue, NULL), Start(pcb, peek(HPF_Queue, NULL)), ready, "run")
  <2> DEFINE p == peek(HPF_Queue, NULL)
             pcbs == Start(pcb, p)
  <2>1. HPF_Queue # <<>>
    BY <1>6, OneLevelFacts DEF Pick, HPFInv, HPF_Queue
  <2>2. p \in Procs /\ InLevels(ready, p)
    BY <1>1, <2>1, DequeueTakes, OneLevelFacts DEF peek, HPFInv, HPF_Queue
  <2>3. Pick(p, pcbs, ready, "run")
    BY <1>6
  <2> HIDE DEF p
  <2>4. Runs(pcb, pcbs, p)
    BY <1>1, <2>2, RunsFacts
  <2> HIDE DEF pcbs
  <2>5. QED
    BY <2>2, <2>3, <2>4, PickTimely
<1>7. CASE Charge
  BY <1>7, ChargeTimely
<1>8. QED
  BY <1>2, <1>3, <1>4, <1>5, <1>6, <1>7 DEF HPFBody, HPFReceive, HPFDispatch, HPFScan

(* Every step of shortest job first.                                       *)
LEMMA SJFTimely ==
  ASSUME CommonInv, SafeInv, TimeInv, OnTime, SJFInv, SJFBody
  PROVE  TimelyStep
<1>1. /\ SJF_Queue \in Seq(Procs) /\ pcb \in [Procs -> PCB] /\ currClk \in Nat
      /\ executionTime \in [Procs -> Int]
  BY OneQueueFacts, TimeKeys, EmptySeq
     DEF SJF_Queue, CommonInv, TickTyped, DataInv, DataTyped
<1>2. CASE ReceiveTooBig \/ ReceiveNoRoom(executionTime)
  BY <1>1, <1>2, ReceiveTimely
<1>3. CASE ReceiveAdmit(OneQueue(enqueuePriority(SJF_Queue, New, executionTime)), currentPCB = NULL)
  <2> DEFINE takes == currentPCB = NULL
  <2>1. /\ takes \in BOOLEAN /\ ~(takes /\ currentPCB # NULL)
        /\ ReceiveAdmit(OneQueue(enqueuePriority(SJF_Queue, New, executionTime)), takes)
    BY <1>3
  <2> HIDE DEF takes
  <2>2. QED
    BY <2>1, AdmitTimely
<1>4. CASE ReceiveDone \/ Return \/ Idle("run") \/ Continue("run") \/ PickNobody("run") \/ ScanSkip
  BY <1>4, WaitTimely DEF SafeInv
<1>5. CASE \/ Finish(OneQueue(removeNodePriority(SJF_Queue, currentPCB)))
           \/ ScanAdmit(OneQueue(enqueuePriority(SJF_Queue, Head(ptr), executionTime)))
  BY <1>5, FinishTimely, ScanAdmitTimely
<1>6. CASE Pick(peek(SJF_Queue, NULL), Start(pcb, peek(SJF_Queue, NULL)),
                OneQueue(dequeue(SJF_Queue)), "run")
  <2> DEFINE p == peek(SJF_Queue, NULL)
             pcbs == Start(pcb, p)
             queues == OneQueue(dequeue(SJF_Queue))
  <2>1. SJF_Queue # <<>>
    BY <1>6, OneLevelFacts DEF Pick, SJFInv, SJF_Queue
  <2>2. p \in Procs /\ InLevels(ready, p)
    BY <1>1, <2>1, DequeueTakes, OneLevelFacts DEF peek, SJFInv, SJF_Queue
  <2>3. Pick(p, pcbs, queues, "run")
    BY <1>6
  <2> HIDE DEF p, queues
  <2>4. Runs(pcb, pcbs, p)
    BY <1>1, <2>2, RunsFacts
  <2> HIDE DEF pcbs
  <2>5. QED
    BY <2>2, <2>3, <2>4, PickTimely
<1>7. CASE Charge
  BY <1>7, ChargeTimely
<1>8. QED
  BY <1>2, <1>3, <1>4, <1>5, <1>6, <1>7 DEF SJFBody, SJFReceive, SJFDispatch, SJFScan

(* Who gets the CPU at the end of a quantum of multi-level feedback.       *)
LEMMA SwitchToTimes ==
  ASSUME NEW levels \in Queues, NEW c \in Procs, c = currentPCB, SwitchTo(levels),
         pcb \in [Procs -> PCB], currClk \in Nat
  PROVE  \/ currentPCB' = NULL /\ pcb' = Stop(pcb, c)
         \/ /\ currentPCB' \in Procs /\ currentPCB' # NULL /\ InLevels(levels, currentPCB')
            /\ Runs(Stop(pcb, c), pcb', currentPCB')
<1> DEFINE level == multiLevelisEmpty(levels)
           next == peek(levels[level], NULL)
           running == RunFront(Stop(pcb, c), next, level = currentOccupiedLevel)
<1>1. IF level = -1 THEN currentPCB' = NULL /\ pcb' = Stop(pcb, c)
                    ELSE currentPCB' = next /\ pcb' = running
  BY DEF SwitchTo
<1>2. level # -1 => next \in Procs /\ next # NULL /\ InLevels(levels, next)
  BY FirstLevel
<1>3. Stop(pcb, c) \in [Procs -> PCB]
  BY StopFacts DEF Changes
<1> HIDE DEF next
<1>4. next \in Procs => Runs(Stop(pcb, c), running, next)
  BY <1>3, RunsFacts
<1>5. QED
  BY <1>1, <1>2, <1>4

(* The steps of multi-level feedback that the others have as well.         *)
LEMMA MLFLStepTimely ==
  ASSUME CommonInv, SafeInv, TimeInv, OnTime, MLFLInv, MLFLReceive \/ MLFLDispatch \/ MLFLScan
  PROVE  TimelyStep
<1>1. /\ priorityKey \in [Procs -> Int]
      /\ ready \in Queues /\ pcb \in [Procs -> PCB] /\ currClk \in Nat
      /\ currentPCB \in Procs \cup {NULL} /\ -1 \notin Levels
  BY LevelKeys
<1>2. CASE ReceiveTooBig \/ ReceiveNoRoom(priorityKey)
  BY <1>1, <1>2, ReceiveTimely
<1>3. CASE ReceiveAdmit(AtItsLevel(MLVL_Queue, New), currentOccupiedLevel = -1)
  <2> DEFINE takes == currentOccupiedLevel = -1
  <2>1. takes \in BOOLEAN /\ ReceiveAdmit(AtItsLevel(MLVL_Queue, New), takes)
    BY <1>3
  <2>2. schedPc = "receive"
    BY <2>1 DEF ReceiveAdmit, SchedTake
  <2>3. ~(takes /\ currentPCB # NULL)
    BY <1>1, <2>2 DEF MLFLInv, LevelInv
  <2> HIDE DEF takes
  <2>4. QED
    BY <2>1, <2>3, AdmitTimely
<1>4. CASE \/ ReceiveDone \/ Return \/ Idle("spin") \/ Continue("quantum")
           \/ PickNobody("quantum") \/ ScanSkip
  BY <1>4, WaitTimely DEF SafeInv
<1>5. CASE \/ Finish(dequeueMultiLevel(MLVL_Queue, currentOccupiedLevel))
           \/ ScanAdmit(AtItsLevel(MLVL_Queue, Head(ptr)))
  BY <1>5, FinishTimely, ScanAdmitTimely
<1>6. ASSUME NEW front, front = peek(MLVL_Queue[multiLevelisEmpty(MLVL_Queue)], NULL),
             NEW sameLevel, Pick(front, RunFront(pcb, front, sameLevel), ready, "quantum")
      PROVE  TimelyStep
  <2> DEFINE pcbs == RunFront(pcb, front, sameLevel)
  <2>1. ~NobodyReady /\ Pick(front, pcbs, ready, "quantum")
    BY <1>6 DEF Pick
  <2>2. front \in Procs /\ InLevels(ready, front)
    BY <1>1, <1>6, <2>1, FirstLevel DEF NobodyReady, MLVL_Queue
  <2>3. Runs(pcb, pcbs, front)
    BY <1>1, <2>2, RunsFacts
  <2> HIDE DEF pcbs
  <2>4. QED
    BY <2>1, <2>2, <2>3, PickTimely
<1>7. QED
  BY <1>2, <1>3, <1>4, <1>5, <1>6 DEF MLFLReceive, MLFLDispatch, MLFLScan

(* The ends of a quantum.                                                  *)
LEMMA QuantumTimely ==
  ASSUME CommonInv, SafeInv, TimeInv, MLFLInv, Demote \/ Shelve \/ KeepLevel
  PROVE  TimelyStep
<1>1. /\ ready \in Queues /\ pcb \in [Procs -> PCB] /\ currClk \in Nat
      /\ currentPCB \in Procs \cup {NULL} /\ quantum # 0 /\ LastLevel \in Levels
  BY LevelKeys, QuantumAssumption
<1>2. ASSUME NEW levels \in Queues, SwitchTo(levels), SchedTo("run"), schedPc = "quantum",
             currentPCB \in Procs,
             \A p \in Procs : InLevels(levels, p) => InLevels(ready, p)
      PROVE  TimelyStep
  <2> PICK next : next = currentPCB'
    OBVIOUS
  <2>1. \/ next = NULL /\ pcb' = Stop(pcb, currentPCB)
        \/ /\ next \in Procs /\ next # NULL /\ InLevels(levels, next)
           /\ Runs(Stop(pcb, currentPCB), pcb', next)
    BY <1>1, <1>2, SwitchToTimes
  <2>2. next # NULL => InQueue(next)
    BY <1>2, <2>1 DEF InQueue, InLevels
  <2>3. UNCHANGED <<input, clk, currClk>>
    BY <1>2 DEF SchedTo, clkVars
  <2>4. QED
    BY <1>2, <2>1, <2>2, <2>3, SwitchTimely
<1>3. ASSUME schedPc = "quantum", quantum_passed = quantum
      PROVE  /\ currentPCB \in Procs /\ currentOccupiedLevel \in Levels
             /\ ready[currentOccupiedLevel] # <<>>
             /\ currentPCB = Head(ready[currentOccupiedLevel])
  BY <1>1, <1>3 DEF MLFLInv, QuantumInv, LevelInv
<1>4. CASE Demote
  <2> DEFINE level == currentOccupiedLevel
             front == peek(ready[level], NULL)
             rest == dequeueMultiLevel(ready, level)
             levels == enqueueMultiLevel(rest, front, level + 1)
  <2>1. /\ schedPc = "quantum" /\ level < LastLevel /\ quantum_passed = quantum
        /\ SwitchTo(levels) /\ SchedTo("run")
    BY <1>4 DEF Demote, MLVL_Queue
  <2>2. /\ front = currentPCB /\ front \in Procs /\ level \in Levels /\ level + 1 \in Levels
        /\ ready[level] # <<>> /\ front = Head(ready[level])
    BY <1>3, <2>1, LevelAssumption DEF peek, Levels
  <2> HIDE DEF front, level
  <2>3. rest \in Queues /\ Enters(rest, ready, front)
    BY <1>1, <2>2, LevelLess
  <2> HIDE DEF rest
  <2>4. Enters(rest, levels, front)
    BY <2>2, <2>3, LevelPut
  <2> HIDE DEF levels
  <2>5. levels \in Queues /\ \A p \in Procs : InLevels(levels, p) => InLevels(ready, p)
    BY <1>1, <2>2, <2>3, <2>4, EntersFacts DEF Enters
  <2>6. QED
    BY <1>2, <2>1, <2>2, <2>5
<1>5. CASE Broken /\ schedPc = "quantum"
  BY <1>5, NoneTimely DEF Broken, SchedTo, clkVars, bodyVars, SafeInv, Unfinished
<1>6. CASE Shelve /\ ~Broken
  <2> DEFINE rest == dequeueMultiLevel(ready, LastLevel)
  <2>1. /\ schedPc = "quantum" /\ quantum_passed = quantum /\ currentOccupiedLevel = LastLevel
        /\ SwitchTo(rest) /\ SchedTo("run")
    BY <1>6 DEF Shelve, MLVL_Queue
  <2>2. rest \in Queues /\ \A p \in Procs : InLevels(rest, p) => InLevels(ready, p)
    BY <1>1, LevelTake
  <2> HIDE DEF rest
  <2>3. QED
    BY <1>2, <1>3, <2>1, <2>2
<1>7. CASE KeepLevel
  <2>1. schedPc = "quantum" /\ UNCHANGED <<input, clk, currClk, pcb>>
    BY <1>7 DEF KeepLevel, SchedTo, clkVars, bodyVars
  <2>2. QED
    BY <2>1, NoneTimely DEF SafeInv, Unfinished
<1>8. QED
  BY <1>4, <1>5, <1>6, <1>7 DEF Shelve

(* The refill: the process that will run is resumed and charged at once.   *)
LEMMA RefillTimely ==
  ASSUME CommonInv, SafeInv, RefillInv, Refill \/ RefillStrays \/ Reconstruct
  PROVE  TimelyStep
<1>1. CASE Refill \/ RefillStrays
  <2>1. schedPc \in {"run", "refill"} /\ UNCHANGED <<input, clk, currClk, pcb>>
    BY <1>1 DEF Refill, RefillStrays, Broken, SchedTo, clkVars, bodyVars
  <2>2. QED
    BY <2>1, NoneTimely DEF SafeInv, Unfinished
<1>2. CASE Reconstruct
  <2>1. /\ schedPc = "refill" /\ schedPc' = "spin" /\ UNCHANGED <<input, clk, currClk>>
        /\ pcb' = [Resume(pcb, currentPCB) EXCEPT ![currentPCB].remainingTime = @ - 1]
    BY <1>2 DEF Reconstruct, SchedTo, clkVars
  <2>2. currentPCB \in Procs /\ pcb \in [Procs -> PCB]
    BY <2>1 DEF RefillInv, CommonInv, DataInv, DataTyped
  <2> PICK c \in Procs : c = currentPCB
    BY <2>2
  <2> DEFINE resumed == Resume(pcb, c)
  <2>3. Changes(pcb, resumed, c, "Running") /\ resumed[c].startTime = pcb[c].startTime
    BY <2>2, ResumeFacts
  <2>4. pcb' = [resumed EXCEPT ![c].remainingTime = @ - 1]
    BY <2>1
  <2>5. pcb[c].state \in {"Running", "Blocked"}
    BY <2>1 DEF SafeInv, StateInv
  <2> HIDE DEF resumed
  <2>6. /\ \A q \in Procs \ {c} : pcb'[q] = pcb[q]
        /\ pcb'[c].state = "Running" /\ pcb'[c].startTime = pcb[c].startTime
        /\ pcb'[c].remainingTime = pcb[c].remainingTime - 1
    BY <2>3, <2>4 DEF Changes, PCB
  <2>7. IsCharged(c)
    BY <2>1, <2>5, <2>6 DEF IsCharged, Unfinished
  <2>8. QED
    BY <2>1, <2>6, <2>7, OneTimely DEF SafeInv, Unfinished
<1>3. QED
  BY <1>1, <1>2

(* Every step of multi-level feedback.                                     *)
LEMMA MLFLTimely ==
  ASSUME CommonInv, SafeInv, TimeInv, OnTime, MLFLInv, MLFLBody
  PROVE  TimelyStep
<1>1. CASE MLFLReceive \/ MLFLDispatch \/ MLFLScan
  BY <1>1, MLFLStepTimely
<1>2. CASE Demote \/ Shelve \/ KeepLevel
  BY <1>2, QuantumTimely
<1>3. CASE MLFLCharge
  BY <1>3, ChargeTimely DEF MLFLCharge, RRCharge
<1>4. CASE Refill \/ RefillStrays \/ Reconstruct
  BY <1>4, RefillTimely DEF MLFLInv
<1>5. QED
  BY <1>1, <1>2, <1>3, <1>4 DEF MLFLBody

(* What is not the algorithm's touches no process.  The clock goes on, and *)
(* the scheduler reads it.                                                 *)
LEMMA AsideTimely ==
  ASSUME CommonInv, UNCHANGED bodyVars, Generator \/ ClockTick \/ LoopHead \/ UNCHANGED tickVars
  PROVE  TimelyStep
<1>1. input' = input /\ pcb' = pcb
  BY DEF bodyVars, Generator, GenRead, GenSend, GenFinal, GenUp, GenSpin, GenExit, ClockTick,
     LoopHead, SchedRead, SchedDown, SchedSpin, SchedExit, tickVars, clkVars
<1>2. \/ schedPc' = schedPc /\ currClk' = currClk /\ clk' \in {clk, clk + 1}
      \/ schedPc = "read" /\ schedPc' = "down" /\ currClk' = clk /\ clk' = clk
      \/ schedPc = "down" /\ schedPc' = "receive" /\ UNCHANGED <<clk, currClk>>
      \/ schedPc = "spin" /\ schedPc' = "read" /\ clk # currClk /\ UNCHANGED <<clk, currClk>>
      \/ schedPc = "returned" /\ schedPc' = "exited" /\ UNCHANGED <<clk, currClk>>
  BY DEF Generator, GenRead, GenSend, GenFinal, GenUp, GenSpin, GenExit, ClockTick,
     LoopHead, SchedRead, SchedDown, SchedSpin, SchedExit, schedHead, tickVars, clkVars
<1>3. \A p \in Procs : Stays(p)
  <2>1. schedPc' \in Unfinished => schedPc \in Unfinished
    BY <1>2 DEF Unfinished
  <2>2. QED
    BY <1>1, <2>1 DEF Stays
<1>4. currClk <= currClk' /\ Now <= Now'
  <2>1. PICK c, k, d, l : c = currClk /\ k = clk /\ d = currClk' /\ l = clk'
    OBVIOUS
  <2>2. c \in Nat /\ k \in Nat /\ c <= k
    BY <2>1, TimeTypes
  <2>3. QED
    BY <1>2, <2>1, <2>2 DEF Now
<1>5. QED
  BY <1>1, <1>3, <1>4 DEF TimelyStep

(* Every step of the program keeps the times in order.                     *)
LEMMA TimeStep ==
  ASSUME UsualInv, UsualInv', SafeInv, TimeInv, OnTime, [MainNext]_mainVars
  PROVE  TimeInv'
<1>1. CommonInv /\ CommonInv'
  BY DEF UsualInv
<1>2. CASE Body
  BY <1>1, <1>2, RRTimely, HPFTimely, SJFTimely, MLFLTimely, TimelyKeeps DEF Body, UsualInv
<1>3. CASE Aside(Generator) \/ Aside(ClockTick) \/ Aside(LoopHead) \/ Aside(Ended)
  BY <1>1, <1>3, AsideTimely, TimelyKeeps DEF Aside, Ended
<1>4. CASE UNCHANGED mainVars
  <2>1. UNCHANGED bodyVars /\ UNCHANGED tickVars
    BY <1>4 DEF mainVars
  <2>2. QED
    BY <1>1, <2>1, AsideTimely, TimelyKeeps
<1>5. QED
  BY <1>2, <1>3, <1>4 DEF MainNext

(* At the start nobody has come.                                           *)
LEMMA TimeInit ==
  ASSUME MainInit
  PROVE  TimeInv
BY DEF MainInit, BodyInit, TimeInv

(* If everybody is prompt, what is in the queue has just arrived.          *)
LEMMA ReceivedOnTime ==
  ASSUME CommonInv, Served!LockStep
  PROVE  OnTime
<1>1. SUFFICES ASSUME schedPc = "receive", msgq # <<>>
               PROVE  input[New].arrivalTime = currClk
  BY DEF OnTime
<1>2. "receive" \in HeadPcs
  BY DEF HeadPcs
<1>3. Served!InStep /\ ~Served!Behind
  BY <1>1, <1>2 DEF Served!LockStep, Served!Left, Served!Behind
<1>4. Served!Working
  BY <1>1, <1>2, <1>3 DEF Served!LockStep, Served!InStep, Served!GenPcs
<1>5. 1 \in DOMAIN msgq /\ New = msgq[1]
  BY <1>1 DEF CommonInv, TickTyped, New
<1>6. QED
  BY <1>3, <1>4, <1>5 DEF Served!InStep, Served!Working

(* The order of the times is kept, whatever the algorithm.                 *)
THEOREM TimeInvHolds ==
  ASSUME Prompt, MsgCap >= N
  PROVE  MainSafety /\ []ScanTakesFront => []TimeInv
<1>1. MainInit => Served!ServerInit
  BY UsualInit
<1>2. UsualInv /\ [MainNext]_mainVars => [Served!ServerNext]_(Served!serverVars)
  BY UsualStep DEF AsSeen
<1>3. Served!ServerSafety => []Served!LockStep
  BY Served!LockStepHolds, TickAssumption DEF Procs, Served!Procs
<1>4. UsualInv /\ Served!LockStep => OnTime
  BY ReceivedOnTime DEF UsualInv
<1>5. MainInit => TimeInv
  BY TimeInit
<1>6. UsualInv /\ UsualInv' /\ SafeInv /\ TimeInv /\ OnTime /\ [MainNext]_mainVars => TimeInv'
  BY TimeStep
<1>7. QED
  BY <1>1, <1>2, <1>3, <1>4, <1>5, <1>6, UsualInvHolds, SafeInvHolds, PTL
     DEF MainSafety, Served!ServerSafety

(* The times in a process control block are right: nobody starts before it *)
(* arrives or is charged beyond its execution time, and whoever has        *)
(* finished was charged exactly that, in at least as many ticks.           *)
THEOREM TimesHold ==
  ASSUME Prompt, MsgCap >= N
  PROVE  MainSafety /\ []ScanTakesFront => []TimesConsistent
<1>1. UsualInv /\ TimeInv => TimesConsistent
  <2>1. SUFFICES ASSUME CommonInv, TimeInv, NEW p \in Procs
                 PROVE  LET start == input[p].arrivalTime
                        IN /\ input[p].executionTime > 0 => pcb[p].remainingTime >= 0
                           /\ pcb[p].state \in {"Running", "Blocked", "Finished"} =>
                                start <= pcb[p].startTime
                           /\ pcb[p].state = "Finished" =>
                                /\ pcb[p].remainingTime = 0
                                /\ input[p].executionTime > 0 =>
                                     pcb[p].startTime < pcb[p].finishTime
                                /\ start + input[p].executionTime <= pcb[p].finishTime
    BY DEF TimesConsistent, UsualInv
  <2>2. /\ input[p].arrivalTime \in Nat /\ input[p].executionTime \in Nat
        /\ pcb[p].remainingTime \in Int /\ pcb[p].startTime \in Nat
        /\ pcb[p].finishTime \in Nat /\ pcb[p].state \in States
    BY <2>1, TimeTypes
  <2>3. QED
    BY <2>1, <2>2 DEF TimeInv, States
<1>2. QED
  BY <1>1, UsualInvHolds, TimeInvHolds, PTL

(* With sizes in order the times are right whatever happens.               *)
THEOREM TimesInOrder ==
  ASSUME SizesInOrder, Prompt, MsgCap >= N
  PROVE  MainSafety => []TimesConsistent
BY FrontInOrder, TimesHold, PTL

-----------------------------------------------------------------------------
(* That every tick is counted.  Busy first, the sum over all processes of  *)
(* the ticks they have got: what becomes of it if one gets one more.       *)

(* What Busy adds up, for any file and any process control blocks.         *)
Used(inputs, pcbs) ==
  LET used[n \in 0 .. N] ==
        IF n = 0 THEN 0
        ELSE used[n - 1] + inputs[n].executionTime - pcbs[n].remainingTime
  IN used[N]

(* A table of the sums up to n.                                            *)
Sums(f, inputs, pcbs, n) ==
  /\ f \in [0 .. n -> Int]
  /\ f[0] = 0
  /\ \A k \in 1 .. n : f[k] = f[k - 1] + inputs[k].executionTime - pcbs[k].remainingTime

(* There is one, and it is the only one.                                   *)
LEMMA SumsExist ==
  ASSUME NEW inputs, NEW pcbs,
         \A p \in Procs : inputs[p].executionTime \in Int /\ pcbs[p].remainingTime \in Int
  PROVE  \E f : Sums(f, inputs, pcbs, N)
<1> DEFINE without == {n \in 0 .. N : ~ \E f : Sums(f, inputs, pcbs, n)}
<1>1. SUFFICES ASSUME without # {} PROVE FALSE
  BY TickAssumption
<1>2. PICK n \in without : \A m \in without : n <= m
  <2>1. without \subseteq Nat
    OBVIOUS
  <2> HIDE DEF without
  <2>2. QED
    BY <1>1, <2>1, LeastElement
<1>3. n \in 0 .. N /\ N \in Nat
  BY TickAssumption
<1>4. n # 0
  <2>1. Sums([k \in 0 .. 0 |-> 0], inputs, pcbs, 0)
    BY DEF Sums
  <2>2. QED
    BY <1>2, <2>1
<1>5. n - 1 \in 0 .. N /\ n - 1 \notin without
  BY <1>2, <1>3, <1>4
<1>6. PICK f : Sums(f, inputs, pcbs, n - 1)
  BY <1>5
<1>7. n \in Procs
  BY <1>3, <1>4 DEF Procs
<1> DEFINE g == [k \in 0 .. n |->
                   IF k = n THEN f[n - 1] + inputs[n].executionTime - pcbs[n].remainingTime
                   ELSE f[k]]
<1>8. Sums(g, inputs, pcbs, n)
  BY <1>3, <1>4, <1>6, <1>7 DEF Sums
<1>9. QED
  BY <1>2, <1>8

LEMMA UsedIs ==
  ASSUME NEW inputs, NEW pcbs, NEW f, Sums(f, inputs, pcbs, N),
         \A p \in Procs : inputs[p].executionTime \in Int /\ pcbs[p].remainingTime \in Int
  PROVE  Used(inputs, pcbs) = f[N] /\ Used(inputs, pcbs) \in Int
<1> DEFINE Table(g) ==
             g = [n \in 0 .. N |->
                    IF n = 0 THEN 0
                    ELSE g[n - 1] + inputs[n].executionTime - pcbs[n].remainingTime]
<1>1. N \in Nat
  BY TickAssumption
<1>2. Table(f)
  BY <1>1 DEF Sums
<1>3. ASSUME NEW g, Table(g) PROVE g = f
  <2>1. DOMAIN g = 0 .. N /\ DOMAIN f = 0 .. N
    BY <1>3 DEF Sums
  <2>2. /\ g[0] = 0
        /\ \A n \in 0 .. N \ {0} :
              g[n] = g[n - 1] + inputs[n].executionTime - pcbs[n].remainingTime
    BY <1>1, <1>3
  <2> DEFINE differs == {n \in 0 .. N : g[n] # f[n]}
  <2>3. ASSUME differs # {} PROVE FALSE
    <3>1. PICK n \in differs : \A m \in differs : n <= m
      <4>1. differs \subseteq Nat
        OBVIOUS
      <4> HIDE DEF differs
      <4>2. QED
        BY <2>3, <4>1, LeastElement
    <3>2. n \in 0 .. N /\ n # 0 /\ n - 1 \in 0 .. N /\ n - 1 \notin differs
      BY <1>1, <2>2, <3>1 DEF Sums
    <3>3. n \in 1 .. N /\ g[n - 1] = f[n - 1]
      BY <1>1, <3>2
    <3>4. QED
      BY <2>2, <3>1, <3>2, <3>3 DEF Sums
  <2>4. \A n \in 0 .. N : g[n] = f[n]
    BY <2>3
  <2>5. g = [n \in 0 .. N |-> g[n]] /\ f = [n \in 0 .. N |-> f[n]]
    BY <1>3, <2>1 DEF Sums
  <2>6. QED
    BY <2>4, <2>5
<1>4. Used(inputs, pcbs) = f[N]
  BY <1>2, <1>3 DEF Used, Table
<1>5. QED
  BY <1>1, <1>4 DEF Sums

(* If one process has a tick less left, and it is one of them, the sum is  *)
(* one more.                                                               *)
LEMMA UsedMore ==
  ASSUME NEW inputs, NEW old, NEW new, NEW c \in 1 .. N + 1,
         \A p \in Procs : /\ inputs[p].executionTime \in Int
                          /\ old[p].remainingTime \in Int /\ new[p].remainingTime \in Int
                          /\ p # c => new[p].remainingTime = old[p].remainingTime
                          /\ p = c => new[p].remainingTime = old[p].remainingTime - 1
  PROVE  Used(inputs, new) = Used(inputs, old) + (IF c \in Procs THEN 1 ELSE 0)
<1>1. PICK f : Sums(f, inputs, old, N)
  BY SumsExist
<1> DEFINE g == [n \in 0 .. N |-> IF n < c THEN f[n] ELSE f[n] + 1]
<1>2. N \in Nat /\ f \in [0 .. N -> Int]
  BY <1>1, TickAssumption DEF Sums
<1>3. g \in [0 .. N -> Int] /\ g[0] = 0
  BY <1>1, <1>2 DEF Sums
<1>4. ASSUME NEW n \in 1 .. N
      PROVE  g[n] = g[n - 1] + inputs[n].executionTime - new[n].remainingTime
  <2>1. /\ f[n] = f[n - 1] + inputs[n].executionTime - old[n].remainingTime
        /\ f[n] \in Int /\ f[n - 1] \in Int /\ n - 1 \in 0 .. N /\ n \in 0 .. N
        /\ inputs[n].executionTime \in Int /\ old[n].remainingTime \in Int
        /\ new[n].remainingTime = IF n = c THEN old[n].remainingTime - 1 ELSE old[n].remainingTime
    BY <1>1, <1>2 DEF Sums, Procs
  <2>2. /\ g[n] = IF n < c THEN f[n] ELSE f[n] + 1
        /\ g[n - 1] = IF n - 1 < c THEN f[n - 1] ELSE f[n - 1] + 1
    BY <1>2, <2>1
  <2>3. PICK e, r : e = inputs[n].executionTime /\ r = old[n].remainingTime
    OBVIOUS
  <2> HIDE DEF g
  <2>4. PICK x, y : x = f[n] /\ y = f[n - 1]
    OBVIOUS
  <2>5. x = y + e - r /\ x \in Int /\ y \in Int /\ e \in Int /\ r \in Int /\ n \in Nat /\ c \in Nat
    BY <1>2, <2>1, <2>3, <2>4
  <2>6. /\ g[n] = IF n < c THEN x ELSE x + 1
        /\ g[n - 1] = IF n - 1 < c THEN y ELSE y + 1
        /\ new[n].remainingTime = IF n = c THEN r - 1 ELSE r
    BY <2>1, <2>2, <2>3, <2>4
  <2>7. (IF n < c THEN x ELSE x + 1)
          = (IF n - 1 < c THEN y ELSE y + 1) + e - (IF n = c THEN r - 1 ELSE r)
    BY <2>5
  <2>8. QED
    BY <2>3, <2>6, <2>7
<1>5. Sums(g, inputs, new, N)
  BY <1>3, <1>4 DEF Sums
<1>6. Used(inputs, old) = f[N] /\ Used(inputs, new) = g[N]
  <2> HIDE DEF g
  <2>1. QED
    BY <1>1, <1>5, UsedIs
<1>7. QED
  BY <1>2, <1>6 DEF Procs

(* While the scheduler works its copy of the clock is right.  If it is     *)
(* blocked, it may stay so for ever, with the copy it has.                 *)
InTick ==
  /\ schedPc \notin {"read", "down", "spin", "returned", "exited"} => currClk = clk
  /\ schedPc = "down" => currClk = clk \/ (sem = 0 /\ genPc \in {"wait", "done"})

(* The algorithms work between the semaphore and the wait for the next     *)
(* tick.                                                                   *)
LEMMA BodyOnTick ==
  ASSUME Body
  PROVE  /\ schedPc \notin {"read", "down", "spin", "returned", "exited"}
         /\ UNCHANGED <<input, clk, genPc, currClk>>
<1> DEFINE Works == schedPc \in {"receive", "dispatch", "scan", "quantum", "run", "refill"}
           Still == UNCHANGED <<input, clk, genPc, currClk>>
<1>1. ReceiveTooBig \/ ReceiveDone \/ (\E key : ReceiveNoRoom(key))
      \/ (\E queues, takesCPU : ReceiveAdmit(queues, takesCPU)) => Works /\ Still
  BY DEF ReceiveTooBig, ReceiveDone, ReceiveNoRoom, ReceiveAdmit, SchedTake, SchedTo, schedHead,
         clkVars, genVars
<1>2. (\E next : Idle(next) \/ Continue(next) \/ PickNobody(next)
                 \/ (\E p, pcbs, queues : Pick(p, pcbs, queues, next))) => Works /\ Still
  BY DEF Idle, Continue, PickNobody, Pick, SchedTo, clkVars, genVars
<1>3. Return \/ Charge \/ (\E queues : Finish(queues)) => Works /\ Still
  BY DEF Return, Charge, Finish, SchedTo, clkVars, genVars
<1>4. ScanSkip \/ (\E queues : ScanAdmit(queues)) => Works /\ Still
  BY DEF ScanSkip, ScanAdmit, tickVars, clkVars, genVars, schedHead
<1>5. Works /\ Still
  <2> HIDE DEF Works, Still
  <2>1. CASE SJFBody
    BY <1>1, <1>2, <1>3, <1>4, <2>1 DEF SJFBody, SJFReceive, SJFDispatch, SJFScan
  <2>2. CASE HPFBody
    BY <1>1, <1>2, <1>3, <1>4, <2>2 DEF HPFBody, HPFReceive, HPFDispatch, HPFScan
  <2>3. CASE RRReceive \/ RRDispatch \/ RRScan
    BY <1>1, <1>2, <1>3, <1>4, <2>3 DEF RRReceive, RRDispatch, RRScan
  <2>4. CASE Rotate \/ KeepCPU \/ RRCharge
    BY <1>3, <2>4 DEF Rotate, KeepCPU, RRCharge, SchedTo, clkVars, genVars, Works, Still
  <2>5. CASE MLFLReceive \/ MLFLDispatch \/ MLFLScan
    BY <1>1, <1>2, <1>3, <1>4, <2>5 DEF MLFLReceive, MLFLDispatch, MLFLScan
  <2>6. CASE Demote \/ Shelve \/ KeepLevel
    BY <2>6 DEF Demote, Shelve, KeepLevel, Broken, SchedTo, clkVars, genVars, Works, Still
  <2>7. CASE MLFLCharge \/ Refill \/ RefillStrays \/ Reconstruct
    BY <1>3, <2>7 DEF MLFLCharge, RRCharge, Refill, RefillStrays, Broken, Reconstruct, SchedTo,
       clkVars, genVars, Works, Still
  <2>8. QED
    BY <2>1, <2>2, <2>3, <2>4, <2>5, <2>6, <2>7 DEF Body, RRBody, MLFLBody
<1>6. QED
  BY <1>5

(* While the scheduler works no tick passes, if everybody is prompt.       *)
LEMMA WorksInTick ==
  ASSUME Prompt, MsgCap >= N, CommonInv, Served!SentExactly, Served!LockStep, InTick,
         [MainNext]_mainVars
  PROVE  InTick'
<1>1. CASE Body
  <2>1. /\ schedPc \notin {"read", "down", "spin", "returned", "exited"}
        /\ UNCHANGED <<clk, currClk>>
    BY <1>1, BodyOnTick
  <2>2. QED
    BY <2>1 DEF InTick
<1>2. CASE Generator
  <2>1. /\ UNCHANGED <<clk, schedPc, currClk>>
        /\ genPc \in {"wait", "done"} => genPc' \in {"wait", "done"} /\ sem' = sem
    BY <1>2 DEF Generator, GenRead, GenSend, GenFinal, GenUp, GenSpin, GenExit, clkVars, schedHead
  <2>2. QED
    BY <2>1 DEF InTick
<1>3. CASE ClockTick
  <2>1. /\ UNCHANGED <<schedPc, currClk, sem, genPc>> /\ GenSettled /\ SchedSettled
    BY <1>3 DEF ClockTick, genVars, schedHead
  <2>2. schedPc \in {"spin", "returned", "exited"} \/ (schedPc = "down" /\ sem = 0)
    BY <2>1 DEF SchedSettled
  <2>3. schedPc = "down" => genPc = "wait"
    <3>1. SUFFICES ASSUME schedPc = "down", genPc # "wait" PROVE FALSE
      OBVIOUS
    <3>2. CASE genPc = "spin" /\ clk = genClk
      BY <2>2, <3>1, <3>2
         DEF Served!LockStep, Served!Left, Served!InStep, Served!Working, HeadPcs
    <3>3. CASE genPc = "send" /\ Due # {} /\ Len(msgq) >= MsgCap
      <4>1. Len(msgq) < MsgCap
        BY <3>3, Served!RoomToSend, TickAssumption
           DEF CommonInv, Due, Served!Due, Procs, Served!Procs
      <4>2. Len(msgq) \in Nat /\ MsgCap \in Nat
        BY TickAssumption DEF CommonInv, TickTyped
      <4>3. QED
        BY <3>3, <4>1, <4>2
    <3>4. QED
      BY <2>1, <3>1, <3>2, <3>3 DEF GenSettled
  <2>4. QED
    BY <2>1, <2>2, <2>3 DEF InTick
<1>4. CASE LoopHead
  <2>1. UNCHANGED <<clk, genPc>>
    BY <1>4 DEF LoopHead, SchedRead, SchedDown, SchedSpin, SchedExit, clkVars, genVars
  <2>2. CASE SchedRead
    BY <2>1, <2>2 DEF SchedRead, InTick
  <2>3. CASE SchedDown
    BY <2>1, <2>3 DEF SchedDown, InTick
  <2>4. CASE SchedSpin \/ SchedExit
    BY <2>1, <2>4 DEF SchedSpin, SchedExit, InTick
  <2>5. QED
    BY <1>4, <2>2, <2>3, <2>4 DEF LoopHead
<1>5. CASE Aside(Ended) \/ UNCHANGED mainVars
  <2>1. UNCHANGED <<clk, schedPc, currClk, sem, genPc>>
    BY <1>5 DEF Aside, Ended, mainVars, tickVars, clkVars, genVars, schedHead
  <2>2. QED
    BY <2>1 DEF InTick
<1>6. QED
  BY <1>1, <1>2, <1>3, <1>4, <1>5 DEF MainNext, Aside


-----------------------------------------------------------------------------
(* How the steps of the algorithms count.                                  *)

CPUFree == schedPc \in {"quantum", "run"} /\ currentPCB = NULL

(* This tick will not be charged to a process, unless one is found.        *)
Unused == schedPc = "scan" \/ (CPUFree /\ reconstructing_buffer = <<>>)

SameTimes(pcbs) == \A p \in Procs : pcbs[p].remainingTime = pcb[p].remainingTime

(* No tick is counted, nor has a process got one.                          *)
CountsNothing ==
  /\ UNCHANGED <<idle_cycles, total_cycles, finishedProcesses>> /\ SameTimes(pcb')
  /\ schedPc \notin {"read", "spin"} /\ schedPc' \notin {"read", "spin"}
  /\ Unused' => Unused
  /\ schedAlgorithm # "MLFL" /\ CPUFree => CPUFree'

(* The tick is counted as idle; under multi-level feedback it is over.     *)
CountsIdle ==
  /\ idle_cycles' = idle_cycles + 1
  /\ UNCHANGED <<total_cycles, finishedProcesses>> /\ SameTimes(pcb')
  /\ schedPc = "dispatch"
  /\ IF schedAlgorithm = "MLFL" THEN schedPc' = "spin" ELSE CPUFree'

CountsFinish ==
  /\ UNCHANGED <<idle_cycles, total_cycles>> /\ SameTimes(pcb')
  /\ Len(finishedProcesses') = Len(finishedProcesses) + 1
  /\ schedPc = "dispatch" /\ schedPc' = "scan"

(* The tick ends, charged to a process or to nobody.                       *)
CountsTick ==
  /\ total_cycles' = total_cycles + 1
  /\ UNCHANGED <<idle_cycles, finishedProcesses>>
  /\ schedPc' = "spin"
  /\ \/ Unused /\ CPUFree /\ SameTimes(pcb')
     \/ /\ schedPc \in {"run", "refill"}
        /\ schedAlgorithm # "MLFL" => ~CPUFree
        /\ \E c \in Procs : \A p \in Procs :
             pcb'[p].remainingTime = pcb[p].remainingTime - (IF p = c THEN 1 ELSE 0)

CountStep ==
  /\ CountsNothing \/ CountsIdle \/ CountsFinish \/ CountsTick
  /\ UNCHANGED <<input, currClk, schedAlgorithm>>
  /\ schedAlgorithm # "MLFL" => UNCHANGED reconstructing_buffer

(* The receive loop.                                                       *)
LEMMA ReceiveCounts ==
  ASSUME CommonInv, NEW key, NEW queues, NEW takesCPU \in BOOLEAN,
         ReceiveTooBig \/ ReceiveNoRoom(key) \/ ReceiveAdmit(queues, takesCPU) \/ ReceiveDone
  PROVE  CountsNothing
<1>1. pcb \in [Procs -> PCB]
  BY DEF CommonInv, DataInv, DataTyped
<1>2. ASSUME NEW q PROVE SameTimes(Receive(pcb, q))
  BY <1>1 DEF SameTimes, Receive, PCB
<1>3. /\ UNCHANGED <<idle_cycles, total_cycles, finishedProcesses>> /\ SameTimes(pcb')
      /\ schedPc = "receive" /\ schedPc' \in {"receive", "dispatch"}
  <2>1. CASE ReceiveTooBig \/ ReceiveNoRoom(key)
    BY <1>2, <2>1 DEF ReceiveTooBig, ReceiveNoRoom, SchedTake, schedHead, queueVars, cycleVars
  <2>2. CASE ReceiveDone
    BY <2>2 DEF ReceiveDone, SchedTo, bodyVars, queueVars, cycleVars, SameTimes
  <2>3. CASE ReceiveAdmit(queues, takesCPU)
    <3>1. SameTimes(pcb')
      BY <2>3, AdmitPcbs DEF SameTimes
    <3>2. QED
      BY <2>3, <3>1 DEF ReceiveAdmit, SchedTake, schedHead, cycleVars
  <2>4. QED
    BY <2>1, <2>2, <2>3
<1>4. QED
  BY <1>3 DEF CountsNothing, Unused, CPUFree

(* The dispatch.                                                           *)
LEMMA DispatchCounts ==
  ASSUME CommonInv, NEW next, NEW queues
  PROVE  /\ Return => CountsNothing
         /\ Continue(next) /\ next \in {"quantum", "run"} => CountsNothing
         /\ Idle(next) /\ next \in (IF schedAlgorithm = "MLFL" THEN {"spin"} ELSE {"quantum", "run"})
              => CountsIdle
         /\ Finish(queues) => CountsFinish
<1>1. pcb \in [Procs -> PCB] /\ currentPCB \in Procs \cup {NULL}
      /\ finishedProcesses \in Seq(Procs)
  BY DEF CommonInv, DataInv, DataTyped
<1>2. ASSUME Return PROVE CountsNothing
  BY <1>2 DEF Return, SchedTo, bodyVars, queueVars, cycleVars, SameTimes, CountsNothing, Unused, CPUFree
<1>3. ASSUME Continue(next), next \in {"quantum", "run"} PROVE CountsNothing
  BY <1>3 DEF Continue, SchedTo, bodyVars, queueVars, cycleVars, SameTimes, CountsNothing, Unused, CPUFree
<1>4. ASSUME Idle(next),
             next \in (IF schedAlgorithm = "MLFL" THEN {"spin"} ELSE {"quantum", "run"})
      PROVE  CountsIdle
  BY <1>4 DEF Idle, SchedTo, queueVars, cycleVars, SameTimes, CountsIdle, CPUFree
<1>5. ASSUME Finish(queues) PROVE CountsFinish
  <2>1. currentPCB \in Procs
    BY <1>1, <1>5 DEF Finish
  <2>2. SameTimes(pcb')
    BY <1>1, <1>5, <2>1 DEF Finish, saveProcessState, SameTimes, PCB
  <2>3. Len(finishedProcesses') = Len(finishedProcesses) + 1
    BY <1>1, <1>5, <2>1 DEF Finish, enqueue
  <2>4. QED
    BY <1>5, <2>2, <2>3 DEF Finish, SchedTo, cycleVars, CountsFinish
<1>6. QED
  BY <1>2, <1>3, <1>4, <1>5

(* The scan.                                                               *)
LEMMA ScanCounts ==
  ASSUME CommonInv, NEW queues, NEW next \in {"quantum", "run"},
         \/ ScanAdmit(queues) \/ ScanSkip \/ PickNobody(next)
         \/ \E p, pcbs, left : Pick(p, pcbs, left, next) /\ SameTimes(pcbs)
  PROVE  CountsNothing
<1>1. pcb \in [Procs -> PCB]
  BY DEF CommonInv, DataInv, DataTyped
<1>2. /\ UNCHANGED <<idle_cycles, total_cycles, finishedProcesses>> /\ SameTimes(pcb')
      /\ schedPc = "scan" /\ schedPc' \in {"scan", "quantum", "run"}
  <2>1. CASE ScanAdmit(queues)
    <3>1. PICK p, block : pcb' = Admit(pcb, p, block)
      BY <2>1 DEF ScanAdmit
    <3>2. SameTimes(Admit(pcb, p, block))
      BY <1>1 DEF Admit, saveProcessState, SameTimes, PCB
    <3>3. QED
      BY <2>1, <3>1, <3>2 DEF ScanAdmit, tickVars, schedHead, cycleVars
  <2>2. CASE ScanSkip
    BY <1>1, <2>2 DEF ScanSkip, SameTimes, PCB, tickVars, schedHead, cycleVars, queueVars
  <2>3. CASE PickNobody(next)
    BY <2>3 DEF PickNobody, SchedTo, bodyVars, queueVars, cycleVars, SameTimes
  <2>4. CASE \E p, pcbs, left : Pick(p, pcbs, left, next) /\ SameTimes(pcbs)
    BY <2>4 DEF Pick, SchedTo, cycleVars
  <2>5. QED
    BY <2>1, <2>2, <2>3, <2>4
<1>3. QED
  BY <1>2 DEF CountsNothing, Unused, CPUFree

(* The end of the tick.                                                    *)
LEMMA ChargeCounts ==
  ASSUME CommonInv, Charge,
         currentPCB = NULL => reconstructing_buffer = <<>>
  PROVE  CountsTick
<1>1. pcb \in [Procs -> PCB] /\ currentPCB \in Procs \cup {NULL}
  BY DEF CommonInv, DataInv, DataTyped
<1>2. /\ total_cycles' = total_cycles + 1 /\ schedPc = "run" /\ schedPc' = "spin"
      /\ UNCHANGED <<idle_cycles, finishedProcesses>>
  BY DEF Charge, SchedTo, queueVars
<1>3. CASE currentPCB = NULL
  <2>1. SameTimes(pcb')
    BY <1>3 DEF Charge, SameTimes
  <2>2. QED
    BY <1>2, <1>3, <2>1 DEF CountsTick, Unused, CPUFree
<1>4. CASE currentPCB \in Procs
  <2>1. currentPCB # NULL
    BY <1>4, NullAssumption
  <2>2. \A p \in Procs : pcb'[p].remainingTime
                           = pcb[p].remainingTime - (IF p = currentPCB THEN 1 ELSE 0)
    BY <1>1, <1>4, <2>1 DEF Charge, PCB
  <2>3. QED
    BY <1>2, <1>4, <2>1, <2>2 DEF CountsTick, CPUFree
<1>5. QED
  BY <1>1, <1>3, <1>4


(* A process that is stopped, resumed or started keeps its remaining time. *)
LEMMA MoveTimes ==
  ASSUME CommonInv
  PROVE  /\ \A p \in Procs : /\ SameTimes(Start(pcb, p)) /\ SameTimes(StartOrResume(pcb, p))
                             /\ \A same : SameTimes(RunFront(pcb, p, same))
         /\ \A p, c \in Procs : /\ SameTimes(Stop(pcb, c))
                                /\ SameTimes(StartOrResume(Stop(pcb, c), p))
                                /\ \A same : SameTimes(RunFront(Stop(pcb, c), p, same))
<1>1. pcb \in [Procs -> PCB] /\ currClk \in Nat
  BY TimeTypes
<1>2. ASSUME NEW old \in [Procs -> PCB], NEW new, NEW p \in Procs, NEW state,
             SameTimes(old), Changes(old, new, p, state)
      PROVE  SameTimes(new)
  BY <1>2 DEF SameTimes, Changes
<1>3. SameTimes(pcb)
  BY DEF SameTimes
<1>4. ASSUME NEW old \in [Procs -> PCB], SameTimes(old), NEW p \in Procs, NEW same
      PROVE  /\ SameTimes(Start(old, p)) /\ SameTimes(StartOrResume(old, p))
             /\ SameTimes(RunFront(old, p, same))
  <2>1. Changes(old, Start(old, p), p, "Running")
    BY <1>1, <1>4, StartFacts
  <2>2. Changes(old, StartOrResume(old, p), p, "Running")
    BY <1>1, <1>4, StartOrResumeFacts
  <2>3. Changes(old, RunFront(old, p, same), p, "Running")
    BY <1>1, <1>4, RunFrontFacts
  <2>4. QED
    BY <1>2, <1>4, <2>1, <2>2, <2>3
<1>5. ASSUME NEW c \in Procs
      PROVE  Stop(pcb, c) \in [Procs -> PCB] /\ SameTimes(Stop(pcb, c))
  <2>1. Changes(pcb, Stop(pcb, c), c, "Blocked")
    BY <1>1, StopFacts
  <2>2. QED
    BY <1>1, <1>2, <1>3, <2>1 DEF Changes
<1>6. QED
  BY <1>1, <1>3, <1>4, <1>5

(* With one level in use somebody is ready if the queue is not empty.      *)
LEMMA SoleLevel ==
  ASSUME ready \in Queues, OneLevel
  PROVE  ready[0] \in Seq(Procs) /\ (~NobodyReady => ready[0] # <<>>)
<1>1. 0 \in Levels
  BY LevelAssumption DEF Levels
<1>2. QED
  BY <1>1 DEF Queues, OneLevel, NobodyReady

(* Shortest job first, and highest priority first.                         *)
LEMMA SJFCounts ==
  ASSUME UsualInv, SJFBody, schedAlgorithm = "SJF", reconstructing_buffer = <<>>
  PROVE  CountsNothing \/ CountsIdle \/ CountsFinish \/ CountsTick
<1>1. CommonInv /\ ready \in Queues /\ SJFInv
  BY LevelKeys DEF UsualInv
<1>2. CASE SJFReceive
  BY <1>1, <1>2, ReceiveCounts DEF SJFReceive
<1>3. CASE SJFDispatch
  BY <1>1, <1>3, DispatchCounts DEF SJFDispatch
<1>4. CASE SJFScan
  <2>1. ASSUME NEW queues, NEW p, NEW left, Pick(p, Start(pcb, p), left, "run"), p = peek(SJF_Queue, NULL)
        PROVE  CountsNothing
    <3>1. SJF_Queue \in Seq(Procs) /\ SJF_Queue # <<>>
      BY <1>1, <2>1, SoleLevel DEF Pick, SJFInv, SJF_Queue
    <3>2. p \in Procs
      BY <2>1, <3>1 DEF peek
    <3>3. QED
      BY <1>1, <2>1, <3>2, MoveTimes, ScanCounts
  <2>2. QED
    BY <1>1, <1>4, <2>1, ScanCounts DEF SJFScan
<1>5. CASE Charge
  BY <1>1, <1>5, ChargeCounts
<1>6. QED
  BY <1>2, <1>3, <1>4, <1>5 DEF SJFBody

LEMMA HPFCounts ==
  ASSUME UsualInv, HPFBody, schedAlgorithm = "HPF", reconstructing_buffer = <<>>
  PROVE  CountsNothing \/ CountsIdle \/ CountsFinish \/ CountsTick
<1>1. CommonInv /\ ready \in Queues /\ HPFInv
  BY LevelKeys DEF UsualInv
<1>2. CASE HPFReceive
  <2>1. Preempts \in BOOLEAN
    BY DEF Preempts
  <2>2. QED
    BY <1>1, <1>2, <2>1, ReceiveCounts DEF HPFReceive
<1>3. CASE HPFDispatch
  BY <1>1, <1>3, DispatchCounts DEF HPFDispatch
<1>4. CASE HPFScan
  <2>1. ASSUME NEW p, Pick(p, Start(pcb, p), ready, "run"), p = peek(HPF_Queue, NULL)
        PROVE  CountsNothing
    <3>1. HPF_Queue \in Seq(Procs) /\ HPF_Queue # <<>>
      BY <1>1, <2>1, SoleLevel DEF Pick, HPFInv, HPF_Queue
    <3>2. p \in Procs
      BY <2>1, <3>1 DEF peek
    <3>3. QED
      BY <1>1, <2>1, <3>2, MoveTimes, ScanCounts
  <2>2. QED
    BY <1>1, <1>4, <2>1, ScanCounts DEF HPFScan
<1>5. CASE Charge
  BY <1>1, <1>5, ChargeCounts
<1>6. QED
  BY <1>2, <1>3, <1>4, <1>5 DEF HPFBody


(* Round robin.                                                            *)
LEMMA RRCounts ==
  ASSUME UsualInv, RRBody, schedAlgorithm = "RR", reconstructing_buffer = <<>>,
         UNCHANGED reconstructing_buffer
  PROVE  CountsNothing \/ CountsIdle \/ CountsFinish \/ CountsTick
<1>1. /\ CommonInv /\ ready \in Queues /\ RRInv /\ pcb \in [Procs -> PCB]
      /\ currentPCB \in Procs \cup {NULL}
  BY LevelKeys DEF UsualInv
<1>2. CASE RRReceive
  BY <1>1, <1>2, ReceiveCounts DEF RRReceive
<1>3. CASE RRDispatch
  BY <1>1, <1>3, DispatchCounts DEF RRDispatch
<1>4. CASE RRScan
  <2>1. ASSUME NEW p, Pick(p, StartOrResume(pcb, p), ready, "quantum"), p = peek(RR_Queue, NULL)
        PROVE  CountsNothing
    <3>1. RR_Queue \in Seq(Procs) /\ RR_Queue # <<>>
      BY <1>1, <2>1, SoleLevel DEF Pick, RRInv, RR_Queue
    <3>2. p \in Procs
      BY <2>1, <3>1 DEF peek
    <3>3. QED
      BY <1>1, <2>1, <3>2, MoveTimes, ScanCounts
  <2>2. QED
    BY <1>1, <1>4, <2>1, ScanCounts DEF RRScan
<1>5. CASE Rotate
  <2>1. RR_Queue \in Seq(Procs) /\ Len(RR_Queue) >= 2 /\ schedPc = "quantum"
    BY <1>1, <1>5, SoleLevel DEF Rotate, RRInv, RR_Queue
  <2>2. RR_Queue # <<>> /\ currentPCB = Head(RR_Queue) /\ currentPCB \in Procs
    BY <1>1, <2>1 DEF RRInv, FrontRuns, peek
  <2>3. Tail(RR_Queue) # <<>> /\ Tail(RR_Queue) \in Seq(Procs)
    <3>1. ASSUME NEW q \in Seq(Procs), Len(q) >= 2
          PROVE  Tail(q) # <<>> /\ Tail(q) \in Seq(Procs)
      <4>1. Len(Tail(q)) = Len(q) - 1 /\ Tail(q) \in Seq(Procs)
        BY <3>1
      <4>2. Len(Tail(q)) # 0 /\ Len(<<>>) = 0
        BY <3>1, <4>1
      <4>3. QED
        BY <4>1, <4>2
    <3>2. QED
      BY <2>1, <3>1
  <2>4. currentPCB' \in Procs
    BY <1>5, <2>2, <2>3 DEF Rotate, enqueue, dequeue, peek
  <2>5. SameTimes(pcb')
    BY <1>1, <1>5, <2>2, <2>4, MoveTimes DEF Rotate
  <2>6. QED
    BY <1>5, <2>2, <2>4, <2>5, NullAssumption
       DEF Rotate, SchedTo, cycleVars, CountsNothing, Unused, CPUFree
<1>6. CASE KeepCPU
  BY <1>6 DEF KeepCPU, SchedTo, bodyVars, queueVars, cycleVars, SameTimes, CountsNothing, Unused, CPUFree
<1>7. CASE RRCharge
  BY <1>1, <1>7, ChargeCounts DEF RRCharge
<1>8. QED
  BY <1>2, <1>3, <1>4, <1>5, <1>6, <1>7 DEF RRBody

(* Multi-level feedback.                                                   *)
LEMMA DemoteCounts ==
  ASSUME UsualInv, Demote, schedAlgorithm = "MLFL"
  PROVE  CountsNothing
<1> DEFINE level == currentOccupiedLevel
           p == peek(MLVL_Queue[level], NULL)
           rest == dequeueMultiLevel(MLVL_Queue, level)
           levels == enqueueMultiLevel(rest, p, level + 1)
<1>1. CommonInv /\ MLFLInv /\ ready \in Queues /\ pcb \in [Procs -> PCB] /\ currClk \in Nat
      /\ currentPCB \in Procs \cup {NULL}
  BY LevelKeys DEF UsualInv
<1>2. /\ schedPc = "quantum" /\ schedPc' = "run" /\ quantum_passed = quantum /\ level < LastLevel
      /\ SwitchTo(levels) /\ ready' = levels
      /\ UNCHANGED <<idle_cycles, total_cycles, finishedProcesses, reconstructing_buffer>>
  BY DEF Demote, SchedTo, SwitchTo, cycleVars
<1>3. /\ currentPCB \in Procs /\ level \in Levels /\ ready[level] # <<>> /\ p = currentPCB
  BY <1>1, <1>2, QuantumAssumption DEF MLFLInv, QuantumInv, LevelInv, peek, MLVL_Queue
<1>4. level + 1 \in Levels
  BY <1>2, <1>3, LevelAssumption DEF Levels
<1>5. rest \in Queues
  BY <1>1, <1>3, LevelTake DEF MLVL_Queue
<1> HIDE DEF p, rest
<1>6. levels[level + 1] # <<>> /\ Enters(rest, levels, p)
  BY <1>3, <1>4, <1>5, LevelPut
<1> HIDE DEF levels
<1>7. levels \in Queues
  BY <1>3, <1>5, <1>6, EntersFacts DEF Enters
<1>8. multiLevelisEmpty(levels) # -1
  BY <1>4, <1>6, <1>7, FirstLevel
<1>9. LET next == peek(levels[multiLevelisEmpty(levels)], NULL)
      IN /\ next \in Procs /\ currentPCB' = next
         /\ \E same : pcb' = RunFront(Stop(pcb, currentPCB), next, same)
  BY <1>2, <1>7, <1>8, FirstLevel DEF SwitchTo
<1>10. SameTimes(pcb') /\ currentPCB' \in Procs
  BY <1>1, <1>3, <1>9, MoveTimes
<1>11. QED
  BY <1>2, <1>10, NullAssumption DEF CountsNothing, Unused, CPUFree

LEMMA ShelveCounts ==
  ASSUME UsualInv, Shelve, schedAlgorithm = "MLFL"
  PROVE  CountsNothing
<1> DEFINE p == peek(MLVL_Queue[LastLevel], NULL)
           levels == dequeueMultiLevel(MLVL_Queue, LastLevel)
<1>1. /\ CommonInv /\ MLFLInv /\ ready \in Queues /\ currentPCB \in Procs \cup {NULL}
      /\ priorityKey \in [Procs -> Int] /\ LastLevel \in Levels
  BY LevelKeys DEF UsualInv
<1>2. schedPc = "quantum" /\ quantum_passed = quantum /\ currentOccupiedLevel = LastLevel
  BY DEF Shelve
<1>3. currentPCB \in Procs /\ p = currentPCB
  BY <1>1, <1>2, QuantumAssumption DEF MLFLInv, QuantumInv, LevelInv, peek, MLVL_Queue
<1>4. CASE Broken
  BY <1>2, <1>4 DEF Broken, SchedTo, bodyVars, queueVars, cycleVars, SameTimes, CountsNothing, Unused, CPUFree
<1>5. CASE ~Broken
  <2>1. /\ Buffer(p) /\ SwitchTo(levels) /\ schedPc' = "run"
        /\ UNCHANGED <<idle_cycles, total_cycles, finishedProcesses>>
    BY <1>5 DEF Shelve, SchedTo, cycleVars
  <2>2. levels \in Queues
    BY <1>1, LevelTake DEF MLVL_Queue
  <2>3. reconstructing_buffer' # <<>>
    <3> DEFINE buffer == enqueuePriority(reconstructing_buffer, p, priorityKey)
    <3>1. reconstructing_buffer \in Seq(Procs) /\ SortedBy(reconstructing_buffer, priorityKey)
      BY <1>1 DEF MLFLInv, FeedbackTyped, BufferInv
    <3>2. buffer \in Seq(Procs) /\ PutIn(reconstructing_buffer, buffer, p)
      BY <1>1, <1>3, <3>1, EnqueuePriorityPuts
    <3>3. reconstructing_buffer' = buffer
      BY <2>1 DEF Buffer
    <3> HIDE DEF buffer, p
    <3>4. Len(buffer) = Len(reconstructing_buffer) + 1
      BY <1>3, <3>1, <3>2, PutInFacts
    <3>5. QED
      BY <3>1, <3>2, <3>3, <3>4
  <2> HIDE DEF levels, p
  <2>4. SameTimes(pcb')
    BY <1>1, <1>3, <2>1, <2>2, FirstLevel, MoveTimes DEF SwitchTo
  <2>5. QED
    BY <1>2, <2>1, <2>3, <2>4 DEF CountsNothing, Unused, CPUFree
<1>6. QED
  BY <1>4, <1>5


LEMMA MLFLCounts ==
  ASSUME UsualInv, MLFLBody, schedAlgorithm = "MLFL"
  PROVE  CountsNothing \/ CountsIdle \/ CountsFinish \/ CountsTick
<1>1. /\ CommonInv /\ MLFLInv /\ ready \in Queues /\ pcb \in [Procs -> PCB] /\ currClk \in Nat
      /\ currentPCB \in Procs \cup {NULL}
  BY LevelKeys DEF UsualInv
<1>2. CASE MLFLReceive
  BY <1>1, <1>2, ReceiveCounts DEF MLFLReceive
<1>3. CASE MLFLDispatch
  BY <1>1, <1>3, DispatchCounts DEF MLFLDispatch
<1>4. CASE MLFLScan
  <2> DEFINE level == multiLevelisEmpty(MLVL_Queue)
             front == peek(MLVL_Queue[level], NULL)
  <2>1. ASSUME NEW p, NEW same, p = front, Pick(p, RunFront(pcb, p, same), ready, "quantum")
        PROVE  CountsNothing
    <3>1. level # -1
      BY <1>1, <2>1, FirstLevel DEF Pick, NobodyReady, MLVL_Queue
    <3>2. p \in Procs
      BY <1>1, <2>1, <3>1, FirstLevel DEF MLVL_Queue
    <3> HIDE DEF level, front
    <3>3. QED
      BY <1>1, <2>1, <3>2, MoveTimes, ScanCounts
  <2>2. QED
    BY <1>1, <1>4, <2>1, ScanCounts DEF MLFLScan
<1>5. CASE Demote \/ Shelve
  BY <1>5, DemoteCounts, ShelveCounts
<1>6. CASE KeepLevel
  BY <1>6 DEF KeepLevel, SchedTo, bodyVars, queueVars, cycleVars, feedbackVars, SameTimes,
              CountsNothing, Unused, CPUFree
<1>7. CASE MLFLCharge
  BY <1>1, <1>7, ChargeCounts DEF MLFLCharge, RRCharge
<1>8. CASE Refill
  BY <1>8 DEF Refill, SchedTo, cycleVars, SameTimes, CountsNothing, Unused, CPUFree
<1>9. CASE RefillStrays
  BY <1>9 DEF RefillStrays, Broken, SchedTo, bodyVars, queueVars, cycleVars, feedbackVars, SameTimes,
              CountsNothing, Unused, CPUFree
<1>10. CASE Reconstruct
  <2>1. currentPCB \in Procs
    BY <1>1, <1>10 DEF Reconstruct, MLFLInv, RefillInv
  <2>2. \A p \in Procs : pcb'[p].remainingTime
                           = pcb[p].remainingTime - (IF p = currentPCB THEN 1 ELSE 0)
    <3>1. Resume(pcb, currentPCB) \in [Procs -> PCB] /\ SameTimes(Resume(pcb, currentPCB))
      <4>1. Changes(pcb, Resume(pcb, currentPCB), currentPCB, "Running")
        BY <1>1, <2>1, SaveFacts DEF Resume, States
      <4>2. QED
        BY <4>1 DEF Changes, SameTimes
    <3>2. pcb' = [Resume(pcb, currentPCB) EXCEPT ![currentPCB].remainingTime = @ - 1]
      BY <1>10 DEF Reconstruct
    <3>3. QED
      BY <1>1, <2>1, <3>1, <3>2 DEF SameTimes, PCB
  <2>3. QED
    BY <1>10, <2>1, <2>2 DEF Reconstruct, SchedTo, queueVars, CountsTick
<1>11. QED
  BY <1>2, <1>3, <1>4, <1>5, <1>6, <1>7, <1>8, <1>9, <1>10 DEF MLFLBody

(* Every step of an algorithm counts as one of these.                      *)
LEMMA BodyCountsTicks ==
  ASSUME UsualInv, Body, schedAlgorithm # "MLFL" => reconstructing_buffer = <<>>
  PROVE  CountStep
<1>1. UNCHANGED <<input, currClk, schedAlgorithm>>
  BY BodyOnTick DEF Body
<1>2. CASE schedAlgorithm = "SJF" /\ SJFBody /\ UNCHANGED feedbackVars
  BY <1>1, <1>2, SJFCounts DEF CountStep, feedbackVars
<1>3. CASE schedAlgorithm = "HPF" /\ HPFBody /\ UNCHANGED feedbackVars
  BY <1>1, <1>3, HPFCounts DEF CountStep, feedbackVars
<1>4. CASE schedAlgorithm = "RR" /\ RRBody /\ UNCHANGED feedbackVars
  BY <1>1, <1>4, RRCounts DEF CountStep, feedbackVars
<1>5. CASE schedAlgorithm = "MLFL" /\ MLFLBody
  BY <1>1, <1>5, MLFLCounts DEF CountStep
<1>6. QED
  BY <1>2, <1>3, <1>4, <1>5 DEF Body


-----------------------------------------------------------------------------
(* The ticks add up: so far, in the middle of a tick, too.  What has been  *)
(* counted may be one ahead after an idle tick was counted at its          *)
(* beginning, and one behind once a process has finished.                  *)
Feedback == schedAlgorithm = "MLFL"

CountedSoFar == idle_cycles + Used(input, pcb)

CountingInv ==
  /\ schedPc = "spin" => clk \in {currClk, currClk + 1}
  /\ ~Feedback => reconstructing_buffer = <<>>
  /\ total_cycles + (IF Feedback THEN idle_cycles ELSE 0) = Now
  /\ Now + (IF Unused THEN 1 ELSE 0) <= CountedSoFar + Len(finishedProcesses)
  /\ CountedSoFar <= Now + (IF CPUFree /\ ~Feedback THEN 1 ELSE 0)

(* What the sum becomes.                                                   *)
LEMMA UsedStep ==
  ASSUME NEW inputs, NEW old, NEW new, NEW S,
         \A p \in Procs : /\ inputs[p].executionTime \in Int
                          /\ old[p].remainingTime \in Int /\ new[p].remainingTime \in Int
  PROVE  /\ Used(inputs, old) \in Int
         /\ (\A p \in Procs : new[p].remainingTime = old[p].remainingTime)
              => Used(inputs, new) = Used(inputs, old)
         /\ (\E c \in Procs : \A p \in Procs :
               new[p].remainingTime = old[p].remainingTime - (IF p = c THEN 1 ELSE 0))
              => Used(inputs, new) = Used(inputs, old) + 1
<1>1. N \in Nat /\ N + 1 \notin Procs /\ \A p \in Procs : p \in 1 .. N + 1
  BY TickAssumption DEF Procs
<1>2. Used(inputs, old) \in Int
  BY SumsExist, UsedIs
<1>3. ASSUME \A p \in Procs : new[p].remainingTime = old[p].remainingTime
      PROVE  Used(inputs, new) = Used(inputs, old)
  <2>1. N + 1 \in 1 .. N + 1
    BY <1>1
  <2>2. Used(inputs, new) = Used(inputs, old) + (IF N + 1 \in Procs THEN 1 ELSE 0)
    BY <1>1, <1>3, <2>1, UsedMore
  <2>3. QED
    BY <1>1, <1>2, <2>2
<1>4. ASSUME NEW c \in Procs,
             \A p \in Procs :
               new[p].remainingTime = old[p].remainingTime - (IF p = c THEN 1 ELSE 0)
      PROVE  Used(inputs, new) = Used(inputs, old) + 1
  <2>1. \A p \in Procs : /\ p # c => new[p].remainingTime = old[p].remainingTime
                         /\ p = c => new[p].remainingTime = old[p].remainingTime - 1
    BY <1>4
  <2>2. Used(inputs, new) = Used(inputs, old) + (IF c \in Procs THEN 1 ELSE 0)
    BY <1>1, <2>1, UsedMore
  <2>3. QED
    BY <2>2
<1>5. QED
  BY <1>2, <1>3, <1>4

(* A step of the algorithm.                                                *)
LEMMA BodyAddsUp ==
  ASSUME UsualInv, UsualInv', InTick, CountingInv, Body
  PROVE  CountingInv'
<1>1. CountStep
  BY BodyCountsTicks DEF CountingInv, Feedback
<1>2. /\ currClk \in Nat /\ idle_cycles \in Nat /\ total_cycles \in Nat
      /\ finishedProcesses \in Seq(Procs) /\ input \in Inputs
      /\ \A p \in Procs : input[p].executionTime \in Int /\ pcb[p].remainingTime \in Int
      /\ schedPc \notin {"read", "down", "spin"} /\ currClk = clk /\ clk' = clk
  BY BodyOnTick, TimeTypes DEF UsualInv, CommonInv, DataInv, DataTyped, InTick
<1>3. /\ \A p \in Procs : pcb'[p].remainingTime \in Int
      /\ finishedProcesses' \in Seq(Procs)
  BY DEF UsualInv, CommonInv, DataInv, DataTyped, PCB
<1>4. /\ Now = currClk /\ input' = input /\ currClk' = currClk /\ Feedback' = Feedback
      /\ Now' = IF schedPc' = "spin" THEN currClk + 1 ELSE IF schedPc' = "read" THEN clk ELSE currClk
  BY <1>1, <1>2 DEF Now, CountStep, Feedback
<1>5. PICK t, i, n, b, f, F :
        /\ t = total_cycles /\ i = idle_cycles /\ n = currClk /\ b = Used(input, pcb)
        /\ f = Len(finishedProcesses) /\ F = Len(finishedProcesses')
  OBVIOUS
<1>6. /\ t \in Nat /\ i \in Nat /\ n \in Nat /\ b \in Int /\ f \in Nat /\ F \in Nat
      /\ SameTimes(pcb') => Used(input, pcb') = b
      /\ (\E c \in Procs : \A p \in Procs :
            pcb'[p].remainingTime = pcb[p].remainingTime - (IF p = c THEN 1 ELSE 0))
           => Used(input, pcb') = b + 1
  BY <1>2, <1>3, <1>5, UsedStep DEF SameTimes
<1>7. /\ t + (IF Feedback THEN i ELSE 0) = n
      /\ n + (IF Unused THEN 1 ELSE 0) <= i + b + f
      /\ i + b <= n + (IF CPUFree /\ ~Feedback THEN 1 ELSE 0)
  BY <1>4, <1>5 DEF CountingInv, CountedSoFar
<1>8. schedPc' = "spin" => clk' \in {currClk', currClk' + 1}
  BY <1>2, <1>4
<1>9. ~Feedback' => reconstructing_buffer' = <<>>
  BY <1>1, <1>4 DEF CountStep, CountingInv, Feedback
<1> DEFINE Adds ==
             /\ total_cycles' + (IF Feedback THEN idle_cycles' ELSE 0) = Now'
             /\ Now' + (IF Unused' THEN 1 ELSE 0) <= idle_cycles' + Used(input, pcb') + F
             /\ idle_cycles' + Used(input, pcb') <= Now' + (IF CPUFree' /\ ~Feedback THEN 1 ELSE 0)
<1>10. CASE CountsNothing
  <2>1. /\ total_cycles' = t /\ idle_cycles' = i /\ Now' = n /\ F = f /\ Used(input, pcb') = b
        /\ Unused' => Unused
        /\ ~Feedback /\ CPUFree => CPUFree'
    BY <1>2, <1>4, <1>5, <1>6, <1>10 DEF CountsNothing, Feedback
  <2>2. Adds
    BY <1>6, <1>7, <2>1
  <2>3. QED
    BY <1>4, <1>5, <1>8, <1>9, <2>2 DEF CountingInv, CountedSoFar
<1>11. CASE CountsIdle
  <2>1. /\ total_cycles' = t /\ idle_cycles' = i + 1 /\ F = f /\ Used(input, pcb') = b
        /\ ~Unused /\ ~CPUFree
        /\ Feedback => Now' = n + 1 /\ ~Unused'
        /\ ~Feedback => Now' = n /\ CPUFree'
    BY <1>2, <1>4, <1>5, <1>6, <1>11 DEF CountsIdle, Feedback, Unused, CPUFree
  <2>2. Adds
    BY <1>6, <1>7, <2>1
  <2>3. QED
    BY <1>4, <1>5, <1>8, <1>9, <2>2 DEF CountingInv, CountedSoFar
<1>12. CASE CountsFinish
  <2>1. /\ total_cycles' = t /\ idle_cycles' = i /\ Now' = n /\ F = f + 1 /\ Used(input, pcb') = b
        /\ ~CPUFree
    BY <1>2, <1>4, <1>5, <1>6, <1>12 DEF CountsFinish, CPUFree
  <2>2. Adds
    BY <1>6, <1>7, <2>1
  <2>3. QED
    BY <1>4, <1>5, <1>8, <1>9, <2>2 DEF CountingInv, CountedSoFar
<1>13. CASE CountsTick
  <2>1. /\ total_cycles' = t + 1 /\ idle_cycles' = i /\ Now' = n + 1 /\ F = f
        /\ ~Unused' /\ ~CPUFree'
        /\ \/ Unused /\ Used(input, pcb') = b
           \/ (~Feedback => ~CPUFree) /\ Used(input, pcb') = b + 1
    BY <1>2, <1>4, <1>5, <1>6, <1>13 DEF CountsTick, CPUFree, Unused, Feedback
  <2>2. Adds
    BY <1>6, <1>7, <2>1
  <2>3. QED
    BY <1>4, <1>5, <1>8, <1>9, <2>2 DEF CountingInv, CountedSoFar
<1>14. QED
  BY <1>1, <1>10, <1>11, <1>12, <1>13 DEF CountStep

(* The rest of the program.                                                *)
LEMMA RestAddsUp ==
  ASSUME Prompt, UsualInv, InTick, CountingInv, [MainNext]_mainVars, ~Body
  PROVE  CountingInv'
<1>1. /\ UNCHANGED <<input, total_cycles, idle_cycles, pcb, finishedProcesses, reconstructing_buffer,
                     schedAlgorithm, currentPCB>>
      /\ Generator \/ ClockTick \/ LoopHead \/ Ended \/ UNCHANGED tickVars
  <2>1. UNCHANGED <<total_cycles, idle_cycles, pcb, finishedProcesses, reconstructing_buffer,
                    schedAlgorithm, currentPCB>>
    BY DEF MainNext, Aside, mainVars, bodyVars, queueVars, cycleVars, feedbackVars
  <2>2. Generator \/ ClockTick \/ LoopHead \/ Ended \/ UNCHANGED tickVars
    BY DEF MainNext, Aside, mainVars
  <2>3. input' = input
    BY <2>2 DEF Generator, GenRead, GenSend, GenFinal, GenUp, GenSpin, GenExit, ClockTick, LoopHead,
                SchedRead, SchedDown, SchedSpin, SchedExit, Ended, tickVars, clkVars
  <2>4. QED
    BY <2>1, <2>2, <2>3
<1>2. currClk \in Nat /\ clk \in Nat
  BY TimeTypes DEF UsualInv
<1>3. \/ UNCHANGED <<schedPc, currClk, clk>>
      \/ schedPc \in {"down", "returned", "exited"} /\ UNCHANGED <<schedPc, currClk>>
      \/ schedPc = "spin" /\ clk = currClk /\ clk' = clk + 1 /\ UNCHANGED <<schedPc, currClk>>
      \/ schedPc = "read" /\ schedPc' = "down" /\ currClk' = clk /\ clk' = clk
      \/ schedPc = "down" /\ schedPc' = "receive" /\ UNCHANGED <<currClk, clk>>
      \/ schedPc = "spin" /\ schedPc' = "read" /\ clk # currClk /\ UNCHANGED <<currClk, clk>>
      \/ schedPc = "returned" /\ schedPc' = "exited" /\ UNCHANGED <<currClk, clk>>
  <2>1. CASE Generator
    BY <2>1 DEF Generator, GenRead, GenSend, GenFinal, GenUp, GenSpin, GenExit, clkVars, schedHead
  <2>2. CASE ClockTick
    BY <2>2 DEF ClockTick, SchedSettled, schedHead
  <2>3. CASE LoopHead
    BY <2>3 DEF LoopHead, SchedRead, SchedDown, SchedSpin, SchedExit, clkVars
  <2>4. CASE Ended \/ UNCHANGED tickVars
    BY <2>4 DEF Ended, tickVars, clkVars, schedHead
  <2>5. QED
    BY <1>1, <2>1, <2>2, <2>3, <2>4
<1>4. /\ Now' = Now
      /\ schedPc' = "spin" => clk' \in {currClk', currClk' + 1}
      /\ Unused' = Unused /\ CPUFree' = CPUFree
  <2>1. Now' = Now /\ (schedPc' = "spin" => clk' \in {currClk', currClk' + 1})
    BY <1>2, <1>3 DEF CountingInv, Now
  <2>2. schedPc' = schedPc \/ {schedPc, schedPc'} \subseteq HeadPcs
    BY <1>3 DEF HeadPcs
  <2>3. Unused' = Unused /\ CPUFree' = CPUFree
    BY <1>1, <2>2 DEF Unused, CPUFree, HeadPcs
  <2>4. QED
    BY <2>1, <2>3
<1>5. CountedSoFar' = CountedSoFar /\ Feedback' = Feedback
  BY <1>1 DEF CountedSoFar, Feedback
<1>6. QED
  BY <1>1, <1>4, <1>5 DEF CountingInv

(* Every tick is counted once, as idle or for one process, but that in     *)
(* which a process finishes and nobody is left.                            *)
THEOREM TicksAddUpHolds ==
  ASSUME Prompt, MsgCap >= N
  PROVE  MainSafety => []TicksAddUp
<1>1. MainInit => CountingInv /\ InTick
  <2>1. SUFFICES ASSUME MainInit PROVE CountingInv /\ InTick
    OBVIOUS
  <2>2. /\ schedPc = "read" /\ clk = 0 /\ total_cycles = 0 /\ idle_cycles = 0
        /\ reconstructing_buffer = <<>> /\ finishedProcesses = <<>> /\ input \in Inputs
        /\ \A p \in Procs : pcb[p].remainingTime = input[p].executionTime
    BY <2>1 DEF MainInit, TickInit, BodyInit, MLFLInit
  <2>3. Used(input, pcb) = 0
    <3>1. N \in Nat /\ \A p \in Procs : input[p].executionTime \in Int
      BY <2>2, TickAssumption, FileAssumption
    <3>2. Sums([n \in 0 .. N |-> 0], input, pcb, N)
      BY <2>2, <3>1 DEF Sums, Procs
    <3>3. Used(input, pcb) = [n \in 0 .. N |-> 0][N]
      BY <2>2, <3>1, <3>2, UsedIs
    <3>4. QED
      BY <3>1, <3>3
  <2>4. CountingInv
    BY <2>2, <2>3 DEF CountingInv, CountedSoFar, Now, Unused, CPUFree
  <2>5. QED
    BY <2>2, <2>4 DEF InTick
<1>2. MainInit => Served!ServerInit
  BY UsualInit
<1>3. UsualInv /\ [MainNext]_mainVars => [Served!ServerNext]_(Served!serverVars)
  BY UsualStep DEF AsSeen
<1>4. Served!ServerSafety => []Served!LockStep
  BY Served!LockStepHolds, TickAssumption DEF Procs, Served!Procs
<1>5. Served!ServerSafety => []Served!SentExactly
  BY Served!SentExactlyHolds, TickAssumption DEF Procs, Served!Procs
<1>6. UsualInv /\ Served!SentExactly /\ Served!LockStep /\ InTick /\ [MainNext]_mainVars => InTick'
  BY WorksInTick DEF UsualInv
<1>7. UsualInv /\ UsualInv' /\ InTick /\ CountingInv /\ [MainNext]_mainVars => CountingInv'
  BY BodyAddsUp, RestAddsUp
<1>8. UsualInv /\ CountingInv => TicksAddUp
  <2>1. SUFFICES ASSUME UsualInv, CountingInv PROVE TicksAddUp
    OBVIOUS
  <2>2. Busy = Used(input, pcb)
    BY DEF Busy, Used
  <2>3. currClk \in Nat /\ idle_cycles \in Nat /\ total_cycles \in Nat
    BY <2>1, TimeTypes DEF UsualInv, CommonInv, DataInv, DataTyped
  <2>4. ASSUME schedPc = "spin"
        PROVE  /\ total_cycles + (IF Feedback THEN idle_cycles ELSE 0) = currClk + 1
               /\ currClk + 1 <= idle_cycles + Busy + Len(finishedProcesses)
               /\ idle_cycles + Busy <= currClk + 1
    <3>1. Now = currClk + 1 /\ ~Unused /\ ~CPUFree
      BY <2>4 DEF Now, Unused, CPUFree
    <3>2. Used(input, pcb) \in Int /\ Len(finishedProcesses) \in Nat
      <4>1. \A p \in Procs : input[p].executionTime \in Int /\ pcb[p].remainingTime \in Int
        BY <2>1, TimeTypes DEF UsualInv
      <4>2. QED
        BY <2>1, <4>1, UsedStep DEF UsualInv, CommonInv, DataInv, DataTyped
    <3>3. QED
      BY <2>1, <2>2, <2>3, <3>1, <3>2 DEF CountingInv, CountedSoFar
  <2>5. schedPc = "spin" =>
          total_cycles = (currClk + 1) - (IF schedAlgorithm = "MLFL" THEN idle_cycles ELSE 0)
    BY <2>3, <2>4 DEF Feedback
  <2>6. QED
    BY <2>4, <2>5 DEF TicksAddUp
<1>9. QED
  BY <1>1, <1>2, <1>3, <1>4, <1>5, <1>6, <1>7, <1>8, UsualInvHolds, PTL
     DEF MainSafety, Served!ServerSafety

=============================================================================
