--------------------------- MODULE TickServerProofs ---------------------------
(***************************************************************************)
(* No process is sent twice or lost between the generator and the          *)
(* scheduler, for any input file, any capacity of the message queue and    *)
(* any speed of the clock, whether or not everybody is prompt.             *)
(***************************************************************************)
EXTENDS TickServer, FiniteSetTheorems, TLAPS

(* What has left the generator.                                            *)
Sent == received \cup {msgq[i] : i \in DOMAIN msgq}

Typed ==
  /\ input \in Inputs
  /\ clk \in Nat /\ genClk \in Nat /\ genNext \in 1 .. N + 1
  /\ processes_sent \in Nat
  /\ genPc \in GenPcs
  /\ msgq \in Seq(Procs)
  /\ received \subseteq Procs

(* What has been sent arrived no later than the generator's clock says.    *)
(* While it goes through the file, what arrives right then has been sent   *)
(* only if it is behind it in the file; and once a new tick is about to be *)
(* read, all of it is of the past.  So the loop that starts again from the *)
(* first line in every tick finds nothing twice.                           *)
SentPast ==
  /\ genClk <= clk
  /\ \A p \in Sent :
       /\ input[p].arrivalTime <= genClk
       /\ genPc = "send" /\ input[p].arrivalTime = genClk => p < genNext
       /\ genPc = "read" => input[p].arrivalTime < clk

SentInv == Typed /\ SentPast /\ SentOnce

(* Arrival times are numbers.                                              *)
LEMMA ArrivalTime ==
  ASSUME NEW in \in Inputs, NEW p \in Procs
  PROVE  in[p].arrivalTime \in Nat
BY TickAssumption

-----------------------------------------------------------------------------
(* The step that sends: what it sends has not been sent before.            *)
LEMMA SendKeeps ==
  ASSUME SentInv, GenSend, UNCHANGED received
  PROVE  SentInv'
<1>1. PICK i \in genNext .. N : /\ input[i].arrivalTime = genClk
                                /\ msgq' = Append(msgq, i) /\ genNext' = i + 1
  BY DEF GenSend, Due
<1>2. /\ genPc = "send" /\ genPc' \in {"final", "send"}
      /\ processes_sent' = processes_sent + 1
      /\ UNCHANGED <<input, clk, genClk, received>>
  BY DEF GenSend, clkVars
<1>3. i \in Procs /\ i \notin Sent /\ i \in Nat
  BY <1>1, <1>2, TickAssumption DEF SentInv, SentPast, Typed, Procs
<1>4. msgq \in Seq(Procs)
  BY DEF SentInv, Typed
<1>5. /\ msgq' \in Seq(Procs) /\ Len(msgq') = Len(msgq) + 1
      /\ DOMAIN msgq = 1 .. Len(msgq) /\ DOMAIN msgq' = 1 .. Len(msgq) + 1
      /\ \A k \in 1 .. Len(msgq) : msgq'[k] = msgq[k]
      /\ msgq'[Len(msgq) + 1] = i
      /\ Len(msgq) \in Nat
  BY <1>1, <1>3, <1>4
<1>6. Sent' \subseteq Sent \cup {i}
  BY <1>2, <1>5 DEF Sent
<1>7. Typed'
  BY <1>1, <1>2, <1>3, <1>5, TickAssumption DEF SentInv, Typed, GenPcs
<1>8. SentPast'
  <2>1. genClk' <= clk' /\ genPc' # "read"
    BY <1>2 DEF SentInv, SentPast
  <2>2. ASSUME NEW p \in Sent'
        PROVE  /\ input[p].arrivalTime <= genClk
               /\ input[p].arrivalTime = genClk => p < i + 1
    <3>1. CASE p = i
      BY <1>1, <1>3, <3>1 DEF SentInv, Typed
    <3>2. CASE p \in Sent
      <4>1. p \in Procs
        BY <3>2, <1>4 DEF Sent, SentInv, Typed
      <4>2. QED
        BY <1>1, <1>2, <3>2, <4>1, TickAssumption DEF SentInv, SentPast, Typed, Procs
    <3>3. QED
      BY <1>6, <3>1, <3>2
  <2>3. QED
    BY <1>1, <1>2, <2>1, <2>2 DEF SentPast
<1>9. SentOnce'
  <2>1. Cardinality(received') + Len(msgq') = processes_sent'
    <3>1. Cardinality(received) \in Nat
      <4>1. IsFiniteSet(Procs)
        BY FS_Interval, TickAssumption DEF Procs
      <4>2. IsFiniteSet(received)
        BY <4>1, FS_Subset DEF SentInv, Typed
      <4>3. QED
        BY <4>2, FS_CardinalityType
    <3>2. QED
      BY <1>2, <1>5, <3>1 DEF SentInv, SentOnce
  <2>2. ASSUME NEW k \in DOMAIN msgq' PROVE msgq'[k] \notin received'
    BY <1>2, <1>3, <1>5, <2>2 DEF SentInv, SentOnce, Sent
  <2>3. ASSUME NEW k \in DOMAIN msgq', NEW j \in DOMAIN msgq', msgq'[k] = msgq'[j]
        PROVE  k = j
    <3>1. \A l \in DOMAIN msgq : msgq[l] # i
      BY <1>3 DEF Sent
    <3>2. CASE k \in DOMAIN msgq /\ j \in DOMAIN msgq
      BY <1>5, <2>3, <3>2 DEF SentInv, SentOnce
    <3>3. CASE k = Len(msgq) + 1 \/ j = Len(msgq) + 1
      BY <1>5, <2>3, <3>1, <3>3
    <3>4. QED
      BY <1>5, <3>2, <3>3
  <2>4. QED
    BY <2>1, <2>2, <2>3 DEF SentOnce
<1>10. QED
  BY <1>7, <1>8, <1>9 DEF SentInv

(* The step that takes: what is taken moves from the queue to received.    *)
LEMMA TakeKeeps ==
  ASSUME SentInv, Take
  PROVE  SentInv'
<1>1. /\ msgq # <<>> /\ msgq' = Tail(msgq)
      /\ received' = received \cup {Head(msgq)}
      /\ UNCHANGED <<input, clk, genPc, genClk, genNext, processes_sent>>
  BY DEF Take, SchedTake, clkVars, genVars
<1>2. msgq \in Seq(Procs)
  BY DEF SentInv, Typed
<1>3. /\ Head(msgq) = msgq[1] /\ Head(msgq) \in Procs
      /\ msgq' \in Seq(Procs) /\ Len(msgq') = Len(msgq) - 1
      /\ DOMAIN msgq = 1 .. Len(msgq) /\ DOMAIN msgq' = 1 .. Len(msgq) - 1
      /\ \A k \in 1 .. Len(msgq) - 1 : msgq'[k] = msgq[k + 1]
      /\ Len(msgq) \in Nat /\ 1 \in DOMAIN msgq
  BY <1>1, <1>2
<1>4. Head(msgq) \notin received
  BY <1>3 DEF SentInv, SentOnce
<1>5. Sent' \subseteq Sent
  BY <1>1, <1>3 DEF Sent
<1>6. Typed'
  BY <1>1, <1>3 DEF SentInv, Typed
<1>7. SentPast'
  BY <1>1, <1>5 DEF SentInv, SentPast
<1>8. SentOnce'
  <2>1. IsFiniteSet(Procs)
    BY FS_Interval, TickAssumption DEF Procs
  <2>2. IsFiniteSet(received)
    BY <2>1, FS_Subset DEF SentInv, Typed
  <2>3. Cardinality(received) \in Nat /\ Cardinality(received') = Cardinality(received) + 1
    BY <1>1, <1>4, <2>2, FS_CardinalityType, FS_AddElement
  <2>4. Cardinality(received') + Len(msgq') = processes_sent'
    BY <1>1, <1>3, <2>3 DEF SentInv, SentOnce
  <2>5. ASSUME NEW k \in DOMAIN msgq' PROVE msgq'[k] \notin received'
    <3>1. k + 1 \in DOMAIN msgq /\ msgq'[k] = msgq[k + 1] /\ k + 1 # 1
      BY <1>3, <2>5
    <3>2. msgq[k + 1] # msgq[1] /\ msgq[k + 1] \notin received
      BY <1>3, <3>1 DEF SentInv, SentOnce
    <3>3. QED
      BY <1>1, <1>3, <3>1, <3>2
  <2>6. ASSUME NEW k \in DOMAIN msgq', NEW j \in DOMAIN msgq', msgq'[k] = msgq'[j]
        PROVE  k = j
    <3>1. /\ k + 1 \in DOMAIN msgq /\ j + 1 \in DOMAIN msgq
          /\ msgq[k + 1] = msgq[j + 1]
      BY <1>3, <2>6
    <3>2. k + 1 = j + 1
      BY <3>1 DEF SentInv, SentOnce
    <3>3. QED
      BY <1>3, <3>2
  <2>7. QED
    BY <2>4, <2>5, <2>6 DEF SentOnce
<1>9. QED
  BY <1>6, <1>7, <1>8 DEF SentInv

(* Everything else moves no message.                                       *)
LEMMA OthersKeep ==
  ASSUME SentInv, UNCHANGED <<input, msgq, received, processes_sent>>,
         \/ GenRead \/ GenFinal \/ GenUp \/ GenSpin \/ GenExit
         \/ ClockTick
         \/ UNCHANGED <<clkVars, genVars>>
  PROVE  SentInv'
<1>1. Sent' = Sent /\ (SentOnce' <=> SentOnce)
  BY DEF Sent, SentOnce
<1>2. Sent \subseteq Procs
  BY DEF Sent, SentInv, Typed
<1>3. Typed
  BY DEF SentInv
<1>4. \A p \in Procs : input[p].arrivalTime \in Nat
  BY <1>3, ArrivalTime DEF Typed
<1>5. CASE GenRead
  <2>1. genPc' = "send" /\ genClk' = clk /\ genNext' = 1 /\ UNCHANGED clk /\ genPc = "read"
    BY <1>5 DEF GenRead, clkVars
  <2>2. Typed'
    BY <1>3, <2>1, TickAssumption DEF Typed, GenPcs
  <2>3. SentPast'
    BY <1>1, <1>2, <1>3, <1>4, <2>1 DEF SentInv, SentPast, Typed
  <2>4. QED
    BY <1>1, <2>2, <2>3 DEF SentInv
<1>6. CASE GenFinal \/ GenUp \/ GenSpin \/ GenExit
  <2>1. /\ UNCHANGED <<clk, genClk, genNext>>
        /\ genPc' \in GenPcs \ {"send"}
        /\ genPc' = "read" => clk # genClk
    BY <1>6 DEF GenFinal, GenUp, GenSpin, GenExit, clkVars, GenPcs
  <2>2. Typed'
    BY <1>3, <2>1 DEF Typed
  <2>3. SentPast'
    BY <1>1, <1>2, <1>3, <1>4, <2>1 DEF SentInv, SentPast, Typed
  <2>4. QED
    BY <1>1, <2>2, <2>3 DEF SentInv
<1>7. CASE ClockTick
  <2>1. clk' = clk + 1 /\ UNCHANGED <<genPc, genClk, genNext>>
    BY <1>7 DEF ClockTick, genVars
  <2>2. Typed'
    BY <1>3, <2>1 DEF Typed
  <2>3. SentPast'
    BY <1>1, <1>2, <1>3, <1>4, <2>1 DEF SentInv, SentPast, Typed
  <2>4. QED
    BY <1>1, <2>2, <2>3 DEF SentInv
<1>8. CASE UNCHANGED <<clkVars, genVars>>
  BY <1>1, <1>8 DEF SentInv, SentPast, Typed, clkVars, genVars
<1>9. QED
  BY <1>5, <1>6, <1>7, <1>8

-----------------------------------------------------------------------------
(* The invariant holds at the start and is kept by every step.             *)
LEMMA SentInit ==
  ASSUME ServerInit
  PROVE  SentInv
<1>1. /\ input \in Inputs /\ clk = 0 /\ genClk = 0 /\ genNext = 1 /\ processes_sent = 0
      /\ msgq = <<>> /\ received = {} /\ genPc = "read"
  BY DEF ServerInit, TickInit
<1>2. Sent = {}
  BY <1>1 DEF Sent
<1>3. Cardinality(received) = 0 /\ Len(msgq) = 0
  BY <1>1, FS_EmptySet
<1>4. SentOnce
  BY <1>1, <1>3 DEF SentOnce
<1>5. Typed /\ SentPast
  BY <1>1, <1>2, TickAssumption DEF Typed, SentPast, GenPcs
<1>6. QED
  BY <1>4, <1>5 DEF SentInv

(* Every step keeps the invariant.                                         *)
LEMMA SentStep ==
  ASSUME SentInv, [ServerNext]_serverVars
  PROVE  SentInv'
<1>1. CASE Generator /\ UNCHANGED received
  <2>1. CASE GenSend
    BY <1>1, <2>1, SendKeeps
  <2>2. CASE GenRead \/ GenFinal \/ GenUp \/ GenSpin \/ GenExit
    <3>1. UNCHANGED <<input, msgq, received, processes_sent>>
      BY <1>1, <2>2 DEF GenRead, GenFinal, GenUp, GenSpin, GenExit, clkVars
    <3>2. QED
      BY <2>2, <3>1, OthersKeep
  <2>3. QED
    BY <1>1, <2>1, <2>2 DEF Generator
<1>2. CASE ClockTick /\ UNCHANGED received
  <2>1. UNCHANGED <<input, msgq, received, processes_sent>>
    BY <1>2 DEF ClockTick, genVars
  <2>2. QED
    BY <1>2, <2>1, OthersKeep
<1>3. CASE Take
  BY <1>3, TakeKeeps
<1>4. CASE \/ Loop \/ Drained \/ Work \/ Return \/ Exit
           \/ (Ended /\ UNCHANGED received) \/ UNCHANGED serverVars
  <2>1. UNCHANGED <<clkVars, genVars, msgq, received>>
    BY <1>4 DEF Loop, Drained, Work, Return, Exit, Ended, SchedRead, SchedDown, SchedSpin,
                SchedExit, SchedTo, serverVars, tickVars
  <2>2. UNCHANGED <<input, msgq, received, processes_sent>>
    BY <2>1 DEF clkVars, genVars
  <2>3. QED
    BY <2>1, <2>2, OthersKeep
<1>5. QED
  BY <1>1, <1>2, <1>3, <1>4 DEF ServerNext, Server

(* No more is sent than the file has.                                      *)
LEMMA SentAtMostAll ==
  ASSUME NEW taken \in SUBSET Procs, NEW queue \in Seq(Procs),
         \A i \in DOMAIN queue :
           /\ queue[i] \notin taken
           /\ \A j \in DOMAIN queue : queue[i] = queue[j] => i = j
  PROVE  Cardinality(taken) + Len(queue) <= N
<1>1. Len(queue) \in Nat /\ DOMAIN queue = 1 .. Len(queue)
  OBVIOUS
<1> DEFINE waiting == {queue[i] : i \in DOMAIN queue}
<1>2. IsFiniteSet(Procs) /\ Cardinality(Procs) = N
  BY FS_Interval, TickAssumption DEF Procs
<1>3. waiting \subseteq Procs
  BY <1>1
<1>4. IsFiniteSet(taken) /\ IsFiniteSet(waiting)
  BY <1>2, <1>3, FS_Subset
<1>5. Cardinality(waiting) = Len(queue)
  <2>1. queue \in [1 .. Len(queue) -> waiting]
    BY <1>1
  <2>2. \A i, j \in 1 .. Len(queue) : queue[i] = queue[j] => i = j
    BY <1>1
  <2>3. \A x \in waiting : \E i \in 1 .. Len(queue) : queue[i] = x
    BY <1>1
  <2> HIDE DEF waiting
  <2>4. queue \in Bijection(1 .. Len(queue), waiting)
    BY <2>1, <2>2, <2>3 DEF Bijection, Injection, Surjection, IsInjective
  <2>5. ExistsBijection(1 .. Len(queue), waiting)
    BY <2>4 DEF ExistsBijection
  <2>6. QED
    BY <1>1, <2>5, FS_CountingElements
<1>6. taken \cap waiting = {}
  OBVIOUS
<1> HIDE DEF waiting
<1>7. Cardinality(taken \cup waiting) = Cardinality(taken) + Cardinality(waiting)
  <2>1. Cardinality(taken) \in Nat /\ Cardinality(waiting) \in Nat
    BY <1>4, FS_CardinalityType
  <2>2. Cardinality(taken \cap waiting) = 0
    BY <1>6, FS_EmptySet
  <2>3. Cardinality(taken \cup waiting)
          = Cardinality(taken) + Cardinality(waiting) - Cardinality(taken \cap waiting)
    BY <1>4, FS_Union
  <2>4. QED
    BY <2>1, <2>2, <2>3
<1>8. Cardinality(taken \cup waiting) <= N
  BY <1>2, <1>3, FS_Subset
<1>9. QED
  BY <1>5, <1>7, <1>8

(* The invariant holds of every behaviour, fair or not.                    *)
THEOREM SentInvHolds == ServerSafety => []SentInv
BY SentInit, SentStep, PTL DEF ServerSafety

(* Whatever the speeds of the clock, the generator and the scheduler, what *)
(* was sent is in the queue or was taken, once.                            *)
THEOREM MessagesSentOnce == ServerSafety => []SentOnce
<1>1. SentInv => SentOnce
  BY DEF SentInv
<1>2. QED
  BY <1>1, SentInvHolds, PTL

-----------------------------------------------------------------------------
(* If everybody is prompt and there is room for all messages, the          *)
(* generator sees every tick: what it has sent at any moment is exactly    *)
(* what has arrived, in the order of the file.                             *)
Unsent(p) == input[p].arrivalTime = genClk /\ genNext <= p

SentExactly ==
  /\ processes_sent = Cardinality(Sent)
  /\ genPc = "read" => Sent = {p \in Procs : input[p].arrivalTime < clk}
  /\ genPc = "send" =>
       /\ genClk = clk
       /\ Sent = {p \in Procs : input[p].arrivalTime <= genClk /\ ~Unsent(p)}
  /\ genPc = "spin" =>
       /\ Sent = {p \in Procs : input[p].arrivalTime <= genClk}
       /\ clk \in {genClk, genClk + 1}

(* What has been sent is finite.                                           *)
LEMMA FiniteSent ==
  ASSUME Typed
  PROVE  /\ Sent \subseteq Procs /\ IsFiniteSet(Sent)
         /\ IsFiniteSet(Procs) /\ Cardinality(Procs) = N
<1>1. IsFiniteSet(Procs) /\ Cardinality(Procs) = N
  BY FS_Interval, TickAssumption DEF Procs
<1>2. Sent \subseteq Procs
  BY DEF Typed, Sent
<1>3. QED
  BY <1>1, <1>2, FS_Subset

(* Sending keeps the account of what is due.                               *)
LEMMA SendExact ==
  ASSUME SentInv, SentExactly, GenSend, UNCHANGED received
  PROVE  SentExactly'
<1>1. PICK i \in Due : /\ \A j \in Due : i <= j
                      /\ msgq' = Append(msgq, i) /\ genNext' = i + 1
  BY DEF GenSend
<1>2. /\ genPc = "send" /\ genPc' \in {"final", "send"}
      /\ processes_sent' = processes_sent + 1
      /\ UNCHANGED <<input, clk, genClk, received>>
  BY DEF GenSend, clkVars
<1>3. /\ i \in Procs /\ i \in Nat /\ input[i].arrivalTime = genClk /\ genNext <= i
      /\ genNext \in 1 .. N + 1
  BY <1>1, TickAssumption DEF Due, Procs, SentInv, Typed
<1>4. i \notin Sent
  BY <1>2, <1>3 DEF SentExactly, Unsent
<1>5. Sent' = Sent \cup {i}
  <2>1. msgq \in Seq(Procs)
    BY DEF SentInv, Typed
  <2>2. /\ DOMAIN msgq = 1 .. Len(msgq) /\ DOMAIN msgq' = 1 .. Len(msgq) + 1
        /\ Len(msgq) \in Nat
        /\ \A k \in 1 .. Len(msgq) : msgq'[k] = msgq[k]
        /\ msgq'[Len(msgq) + 1] = i
    BY <1>1, <1>3, <2>1
  <2>3. {msgq'[k] : k \in DOMAIN msgq'} = {msgq[k] : k \in DOMAIN msgq} \cup {i}
    BY <2>2
  <2>4. QED
    BY <1>2, <2>3 DEF Sent
<1>6. processes_sent' = Cardinality(Sent')
  <2>1. IsFiniteSet(Sent)
    BY FiniteSent DEF SentInv
  <2>2. QED
    BY <1>2, <1>4, <1>5, <2>1, FS_AddElement DEF SentExactly
<1>7. Sent' = {p \in Procs : input[p].arrivalTime <= genClk
                            /\ ~(input[p].arrivalTime = genClk /\ i + 1 <= p)}
  <2>1. Sent = {p \in Procs : input[p].arrivalTime <= genClk /\ ~Unsent(p)}
    BY <1>2 DEF SentExactly
  <2>2. ASSUME NEW p \in Procs, input[p].arrivalTime = genClk
        PROVE  (p \in Sent \/ p = i) <=> ~(i + 1 <= p)
    <3>1. p \in Nat /\ p <= N
      BY TickAssumption DEF Procs
    <3>2. genNext <= p => p \in Due
      BY <1>3, <2>2, <3>1, TickAssumption DEF Due
    <3>3. p \in Sent <=> ~(genNext <= p)
      BY <1>3, <2>1, <2>2, <3>1, TickAssumption DEF SentInv, SentPast, Typed, Unsent
    <3>4. QED
      BY <1>1, <1>3, <3>1, <3>2, <3>3
  <2>3. ASSUME NEW p \in Procs, input[p].arrivalTime # genClk
        PROVE  (p \in Sent \/ p = i) <=> input[p].arrivalTime <= genClk
    BY <1>3, <2>1, <2>3 DEF Unsent
  <2>4. input[i].arrivalTime <= genClk
    BY <1>3, TickAssumption DEF SentInv, Typed
  <2>5. Sent \subseteq Procs
    BY <2>1
  <2>6. QED
    BY <1>3, <1>5, <2>1, <2>2, <2>3, <2>4, <2>5
<1>8. clk = genClk
  BY <1>2 DEF SentExactly
<1>9. QED
  BY <1>1, <1>2, <1>6, <1>7, <1>8 DEF SentExactly, Unsent

(* The generator is never held up by a full queue.                         *)
LEMMA RoomToSend ==
  ASSUME SentInv, SentExactly, MsgCap >= N, genPc = "send", Due # {}
  PROVE  Len(msgq) < MsgCap
<1>1. PICK i \in Procs : i \notin Sent
  <2>1. PICK i \in Due : TRUE
    OBVIOUS
  <2>2. i \in Procs /\ Unsent(i)
    BY <2>1, TickAssumption DEF Due, Procs, SentInv, Typed, Unsent
  <2>3. QED
    BY <2>2 DEF SentExactly
<1>2. IsFiniteSet(Sent) /\ IsFiniteSet(Procs) /\ Cardinality(Procs) = N /\ Sent \subseteq Procs
  BY FiniteSent DEF SentInv
<1>3. Cardinality(Sent) <= N /\ Cardinality(Sent) # N
  BY <1>1, <1>2, FS_Subset
<1>4. Cardinality(received) \in Nat
  <2>1. IsFiniteSet(received)
    BY <1>2, FS_Subset DEF SentInv, Typed
  <2>2. QED
    BY <2>1, FS_CardinalityType
<1>5. Len(msgq) \in Nat /\ Cardinality(received) + Len(msgq) = Cardinality(Sent)
  BY DEF SentInv, SentOnce, SentExactly, Typed
<1>6. QED
  BY <1>3, <1>4, <1>5, TickAssumption

(* So does every other step.                                               *)
LEMMA OthersExact ==
  ASSUME SentInv, SentExactly, Prompt, MsgCap >= N,
         UNCHANGED <<input, processes_sent>>, Sent' = Sent,
         \/ GenRead \/ GenFinal \/ GenUp \/ GenSpin \/ GenExit
         \/ ClockTick
         \/ UNCHANGED <<clkVars, genVars>>
  PROVE  SentExactly'
<1>1. /\ genClk \in Nat /\ clk \in Nat /\ genNext \in Nat
      /\ \A p \in Procs : input[p].arrivalTime \in Nat /\ p \in Nat /\ p >= 1
  BY TickAssumption, ArrivalTime DEF SentInv, Typed, Procs
<1>2. CASE GenRead
  BY <1>1, <1>2 DEF GenRead, SentExactly, Unsent, clkVars
<1>3. CASE GenFinal \/ GenExit
  BY <1>3 DEF GenFinal, GenExit, SentExactly
<1>4. CASE GenUp
  <2>1. /\ genPc = "send" /\ genPc' = "spin" /\ Due = {}
        /\ UNCHANGED <<clk, genClk>>
    BY <1>4 DEF GenUp, clkVars
  <2>2. \A p \in Procs : ~Unsent(p)
    BY <1>1, <2>1, TickAssumption DEF Due, Unsent, Procs
  <2>3. QED
    BY <2>1, <2>2 DEF SentExactly
<1>5. CASE GenSpin
  <2>1. genPc = "spin" /\ genPc' = "read" /\ clk # genClk /\ UNCHANGED <<clk, genClk>>
    BY <1>5 DEF GenSpin, clkVars
  <2>2. clk = genClk + 1 /\ Sent = {p \in Procs : input[p].arrivalTime <= genClk}
    BY <2>1 DEF SentExactly
  <2>3. Sent = {p \in Procs : input[p].arrivalTime < clk}
    BY <1>1, <2>2
  <2>4. QED
    BY <2>1, <2>3 DEF SentExactly
<1>6. CASE ClockTick
  <2>1. GenSettled /\ clk' = clk + 1 /\ UNCHANGED <<genPc, genClk, genNext>>
    BY <1>6 DEF ClockTick, genVars
  <2>2. (genPc = "spin" /\ clk = genClk) \/ genPc = "wait"
    BY <2>1, <1>1, RoomToSend, TickAssumption DEF GenSettled, SentInv, Typed
  <2>3. QED
    BY <1>1, <2>1, <2>2 DEF SentExactly
<1>7. CASE UNCHANGED <<clkVars, genVars>>
  BY <1>7 DEF clkVars, genVars, SentExactly, Unsent
<1>8. QED
  BY <1>2, <1>3, <1>4, <1>5, <1>6, <1>7

(* If everyone is done with a tick before the next, and no send blocks,    *)
(* what has been sent is exactly what was due.                             *)
THEOREM SentExactlyHolds ==
  ASSUME Prompt, MsgCap >= N
  PROVE  ServerSafety => []SentExactly
<1>1. ServerInit => SentExactly
  <2>1. SUFFICES ASSUME ServerInit PROVE SentExactly
    OBVIOUS
  <2>2. /\ input \in Inputs /\ clk = 0 /\ processes_sent = 0
        /\ msgq = <<>> /\ received = {} /\ genPc = "read"
    BY <2>1 DEF ServerInit, TickInit
  <2>3. Sent = {}
    BY <2>2 DEF Sent
  <2>4. \A p \in Procs : ~(input[p].arrivalTime < clk)
    BY <2>2, ArrivalTime
  <2>5. QED
    BY <2>2, <2>3, <2>4, FS_EmptySet DEF SentExactly
<1>2. SentInv /\ SentExactly /\ [ServerNext]_serverVars => SentExactly'
  <2>1. SUFFICES ASSUME SentInv, SentExactly, [ServerNext]_serverVars PROVE SentExactly'
    OBVIOUS
  <2>2. CASE Generator /\ UNCHANGED received
    <3>1. CASE GenSend
      BY <2>1, <2>2, <3>1, SendExact
    <3>2. CASE GenRead \/ GenFinal \/ GenUp \/ GenSpin \/ GenExit
      <4>1. UNCHANGED <<input, msgq, received, processes_sent>>
        BY <2>2, <3>2 DEF GenRead, GenFinal, GenUp, GenSpin, GenExit, clkVars
      <4>2. Sent' = Sent
        BY <4>1 DEF Sent
      <4>3. QED
        BY <2>1, <3>2, <4>1, <4>2, OthersExact
    <3>3. QED
      BY <2>2, <3>1, <3>2 DEF Generator
  <2>3. CASE ClockTick /\ UNCHANGED received
    <3>1. UNCHANGED <<input, msgq, received, processes_sent>>
      BY <2>3 DEF ClockTick, genVars
    <3>2. Sent' = Sent
      BY <3>1 DEF Sent
    <3>3. QED
      BY <2>1, <2>3, <3>1, <3>2, OthersExact
  <2>4. CASE Take
    <3>1. /\ msgq # <<>> /\ msgq' = Tail(msgq) /\ received' = received \cup {Head(msgq)}
          /\ UNCHANGED <<clkVars, genVars>>
      BY <2>4 DEF Take, SchedTake
    <3>2. msgq \in Seq(Procs)
      BY <2>1 DEF SentInv, Typed
    <3>3. {msgq[k] : k \in DOMAIN msgq} = {Head(msgq)} \cup {msgq'[k] : k \in DOMAIN msgq'}
      <4>1. /\ DOMAIN msgq = 1 .. Len(msgq) /\ DOMAIN msgq' = 1 .. Len(msgq) - 1
            /\ Head(msgq) = msgq[1] /\ Len(msgq) \in Nat \ {0}
            /\ \A k \in 1 .. Len(msgq) - 1 : msgq'[k] = msgq[k + 1]
        BY <3>1, <3>2
      <4>2. \A k \in 2 .. Len(msgq) : k - 1 \in DOMAIN msgq' /\ msgq[k] = msgq'[k - 1]
        BY <4>1
      <4>3. ASSUME NEW k \in DOMAIN msgq
            PROVE  msgq[k] = Head(msgq) \/ \E j \in DOMAIN msgq' : msgq[k] = msgq'[j]
        BY <4>1, <4>2
      <4>4. ASSUME NEW k \in DOMAIN msgq'
            PROVE  \E j \in DOMAIN msgq : msgq'[k] = msgq[j]
        BY <4>1
      <4>5. 1 \in DOMAIN msgq
        BY <4>1
      <4>6. QED
        BY <4>1, <4>3, <4>4, <4>5
    <3>4. Sent' = Sent /\ UNCHANGED <<input, processes_sent>>
      BY <3>1, <3>3 DEF Sent, clkVars, genVars
    <3>5. QED
      BY <2>1, <3>1, <3>4, OthersExact
  <2>5. CASE \/ Loop \/ Drained \/ Work \/ Return \/ Exit
             \/ (Ended /\ UNCHANGED received) \/ UNCHANGED serverVars
    <3>1. UNCHANGED <<clkVars, genVars, msgq, received>>
      BY <2>5 DEF Loop, Drained, Work, Return, Exit, Ended, SchedRead, SchedDown, SchedSpin,
                  SchedExit, SchedTo, serverVars, tickVars
    <3>2. Sent' = Sent /\ UNCHANGED <<input, processes_sent>>
      BY <3>1 DEF Sent, clkVars, genVars
    <3>3. QED
      BY <2>1, <3>1, <3>2, OthersExact
  <2>6. QED
    BY <2>1, <2>2, <2>3, <2>4, <2>5 DEF ServerNext, Server
<1>3. QED
  BY <1>1, <1>2, SentInvHolds, PTL DEF ServerSafety

(* If everybody is prompt, and the message queue has room for all, every   *)
(* process is sent by the end of the tick in which it arrives, although    *)
(* the generator only compares its copy of the clock for equality.         *)
THEOREM DueAreSent ==
  ASSUME Prompt, MsgCap >= N
  PROVE  ServerSafety => []AllDueSent
<1>1. SentExactly => AllDueSent
  BY DEF SentExactly, AllDueSent
<1>2. QED
  BY <1>1, SentExactlyHolds, PTL

-----------------------------------------------------------------------------
(* In step.  Within a tick the scheduler is first behind: it has not got   *)
(* past the semaphore yet, because the generator has not opened it or has  *)
(* just done so; then it works, with a copy of the clock that is right,    *)
(* and takes all that is in the queue.  Only when all has been sent, and   *)
(* the generator is gone, is that given up, with the queue empty.          *)
Left == schedPc \in {"returned", "exited"}

Behind ==
  \/ schedPc = "read"
  \/ schedPc = "down" /\ currClk = clk
  \/ schedPc = "spin" /\ currClk # clk

Working ==
  /\ currClk = clk
  /\ \/ schedPc = "receive"
     \/ schedPc \in {"work", "spin"} /\ msgq = <<>>

InStep ==
  /\ \A k \in DOMAIN msgq : input[msgq[k]].arrivalTime = clk
  /\ sem \in Nat
  /\ genPc \in {"read", "send", "final"} => sem = 0 /\ Behind
  /\ genPc = "read" \/ (genPc = "spin" /\ genClk # clk)
       => sem = 0 /\ Behind /\ msgq = <<>>
  /\ genPc = "spin" /\ genClk = clk => (sem = 1 /\ Behind) \/ (sem = 0 /\ Working)
  /\ genPc \in {"wait", "done"} => (sem >= 1 /\ Behind) \/ Working \/ msgq = <<>>

LockStep ==
  /\ genPc \in GenPcs
  /\ currClk \in Nat /\ currClk <= clk
  /\ Left \/ InStep

(* The generator keeps step with the clock.                                *)
LEMMA GeneratorInStep ==
  ASSUME SentInv, SentExactly, LockStep, Generator, UNCHANGED received
  PROVE  LockStep'
<1>1. UNCHANGED <<clk, input, schedPc, currClk>>
  BY DEF Generator, GenRead, GenSend, GenFinal, GenUp, GenSpin, GenExit, clkVars, schedHead
<1>2. genPc' \in GenPcs
  BY DEF Generator, GenRead, GenSend, GenFinal, GenUp, GenSpin, GenExit, GenPcs
<1>3. CASE Left
  BY <1>1, <1>2, <1>3 DEF LockStep, Left
<1>4. CASE ~Left
  <2>1. InStep
    BY <1>4 DEF LockStep
  <2>2. CASE GenRead
    <3>1. genPc = "read" /\ genPc' = "send" /\ UNCHANGED <<sem, msgq>>
      BY <2>2 DEF GenRead
    <3>2. QED
      BY <1>1, <1>2, <2>1, <3>1 DEF LockStep, InStep, Behind
  <2>3. CASE GenSend
    <3>1. PICK i \in Due : msgq' = Append(msgq, i)
      BY <2>3 DEF GenSend
    <3>2. genPc = "send" /\ genPc' \in {"send", "final"} /\ UNCHANGED sem
      BY <2>3 DEF GenSend
    <3>3. i \in Procs /\ input[i].arrivalTime = clk /\ msgq \in Seq(Procs)
      BY <3>1, <3>2, TickAssumption DEF Due, SentExactly, SentInv, Typed, Procs
    <3>4. \A k \in DOMAIN msgq' : input[msgq'[k]].arrivalTime = clk
      BY <2>1, <3>1, <3>3 DEF InStep
    <3>5. QED
      BY <1>1, <1>2, <2>1, <3>2, <3>4 DEF LockStep, InStep, Behind
  <2>4. CASE GenFinal
    <3>1. /\ genPc = "final" /\ genPc' = "wait" /\ sem' = sem + SEM_UP_VAL
          /\ UNCHANGED msgq
      BY <2>4 DEF GenFinal
    <3>2. sem = 0 /\ sem' \in Nat /\ sem' >= 1
      BY <2>1, <3>1, TickAssumption DEF InStep
    <3>3. QED
      BY <1>1, <1>2, <2>1, <3>1, <3>2 DEF LockStep, InStep, Behind
  <2>5. CASE GenUp
    <3>1. /\ genPc = "send" /\ genPc' = "spin" /\ sem' = sem + 1
          /\ UNCHANGED <<msgq, genClk>>
      BY <2>5 DEF GenUp
    <3>2. sem = 0 /\ sem' = 1 /\ genClk = clk
      BY <2>1, <3>1 DEF InStep, SentExactly
    <3>3. QED
      BY <1>1, <1>2, <2>1, <3>1, <3>2 DEF LockStep, InStep, Behind
  <2>6. CASE GenSpin
    <3>1. genPc = "spin" /\ genClk # clk /\ genPc' = "read" /\ UNCHANGED <<sem, msgq>>
      BY <2>6 DEF GenSpin
    <3>2. QED
      BY <1>1, <1>2, <2>1, <3>1 DEF LockStep, InStep, Behind
  <2>7. CASE GenExit
    BY <1>4, <2>7 DEF GenExit, Left
  <2>8. QED
    BY <2>2, <2>3, <2>4, <2>5, <2>6, <2>7 DEF Generator
<1>5. QED
  BY <1>3, <1>4

(* The clock ticks only when both are done with the tick.                  *)
LEMMA TickInStep ==
  ASSUME SentInv, SentExactly, LockStep, Prompt, MsgCap >= N, ClockTick
  PROVE  LockStep'
<1>1. /\ clk' = clk + 1 /\ GenSettled /\ SchedSettled
      /\ UNCHANGED <<input, sem, msgq, genPc, genClk, schedPc, currClk>>
  BY DEF ClockTick, genVars, schedHead
<1>2. clk \in Nat /\ clk' \in Nat /\ currClk \in Nat /\ currClk <= clk
  BY <1>1 DEF SentInv, Typed, LockStep
<1>3. (genPc = "spin" /\ clk = genClk) \/ genPc = "wait"
  BY <1>1, RoomToSend, TickAssumption DEF GenSettled, SentInv, Typed
<1>4. CASE Left
  BY <1>1, <1>2, <1>4 DEF LockStep, Left
<1>5. CASE ~Left
  <2>1. InStep /\ sem \in Nat
    BY <1>5 DEF LockStep, InStep
  <2>2. (schedPc = "spin" /\ clk = currClk) \/ (schedPc = "down" /\ sem = 0)
    BY <1>1, <1>5 DEF SchedSettled, Left
  <2>3. ~(sem >= 1 /\ Behind)
    BY <2>1, <2>2 DEF Behind
  <2>4. Working => msgq = <<>> /\ schedPc = "spin"
    BY <2>2 DEF Working
  <2>5. msgq = <<>>
    BY <1>3, <2>1, <2>3, <2>4 DEF InStep
  <2>6. CASE genPc = "wait"
    BY <1>1, <1>2, <2>1, <2>5, <2>6 DEF LockStep, InStep
  <2>7. CASE genPc = "spin" /\ clk = genClk
    <3>1. sem = 0 /\ schedPc = "spin" /\ currClk = clk
      BY <2>1, <2>2, <2>3, <2>4, <2>7 DEF InStep
    <3>2. genClk' # clk' /\ Behind'
      BY <1>1, <1>2, <2>7, <3>1 DEF Behind
    <3>3. QED
      BY <1>1, <1>2, <2>5, <2>7, <3>1, <3>2 DEF LockStep, InStep
  <2>8. QED
    BY <1>3, <2>6, <2>7
<1>6. QED
  BY <1>4, <1>5

(* The scheduler keeps step with the clock.                                *)
LEMMA ServerInStep ==
  ASSUME SentInv, LockStep, Server
  PROVE  LockStep'
<1>1. UNCHANGED <<input, clk, genPc, genClk>>
  BY DEF Server, Loop, Take, Drained, Work, Return, Exit, SchedRead, SchedDown, SchedSpin,
         SchedTake, SchedExit, SchedTo, clkVars, genVars
<1>2. clk \in Nat /\ genPc \in GenPcs /\ currClk \in Nat /\ currClk <= clk
  BY DEF SentInv, Typed, LockStep
<1>3. CASE SchedRead
  <2>1. schedPc = "read" /\ schedPc' = "down" /\ currClk' = clk /\ UNCHANGED <<sem, msgq>>
    BY <1>3 DEF SchedRead
  <2>2. InStep /\ ~Working
    BY <2>1 DEF LockStep, Left, Working
  <2>3. Behind'
    BY <1>1, <2>1 DEF Behind
  <2>4. QED
    BY <1>1, <1>2, <2>1, <2>2, <2>3 DEF LockStep, InStep
<1>4. CASE SchedDown
  <2>1. /\ schedPc = "down" /\ sem > 0 /\ schedPc' = "receive" /\ sem' = sem - 1
        /\ UNCHANGED <<msgq, currClk>>
    BY <1>4 DEF SchedDown
  <2>2. InStep /\ ~Working /\ sem # 0 /\ sem \in Nat
    BY <2>1 DEF LockStep, InStep, Left, Working
  <2>3. Behind => Working'
    BY <1>1, <2>1 DEF Behind, Working
  <2>4. QED
    BY <1>1, <1>2, <2>1, <2>2, <2>3 DEF LockStep, InStep, GenPcs
<1>5. CASE SchedSpin
  <2>1. /\ schedPc = "spin" /\ clk # currClk /\ schedPc' = "read"
        /\ UNCHANGED <<sem, msgq, currClk>>
    BY <1>5 DEF SchedSpin
  <2>2. InStep /\ ~Working
    BY <2>1 DEF LockStep, Left, Working
  <2>3. Behind'
    BY <2>1 DEF Behind
  <2>4. QED
    BY <1>1, <1>2, <2>1, <2>2, <2>3 DEF LockStep, InStep
<1>6. CASE Take
  <2>1. /\ schedPc = "receive" /\ msgq # <<>> /\ msgq' = Tail(msgq)
        /\ UNCHANGED <<sem, schedPc, currClk>>
    BY <1>6 DEF Take, SchedTake, schedHead
  <2>2. InStep /\ ~Behind
    BY <2>1 DEF LockStep, Left, Behind
  <2>3. Working => Working'
    BY <1>1, <2>1 DEF Working
  <2>4. msgq \in Seq(Procs)
    BY DEF SentInv, Typed
  <2>5. \A k \in DOMAIN msgq' : k + 1 \in DOMAIN msgq /\ msgq'[k] = msgq[k + 1]
    BY <2>1, <2>4
  <2>6. \A k \in DOMAIN msgq' : input[msgq'[k]].arrivalTime = clk
    BY <2>2, <2>5 DEF InStep
  <2>7. QED
    BY <1>1, <1>2, <2>1, <2>2, <2>3, <2>6 DEF LockStep, InStep
<1>7. CASE Drained \/ Work
  <2>1. /\ \/ schedPc = "receive" /\ msgq = <<>> /\ schedPc' = "work"
           \/ schedPc = "work" /\ schedPc' = "spin"
        /\ UNCHANGED <<sem, msgq, currClk>>
    BY <1>7 DEF Drained, Work, SchedTo
  <2>2. InStep /\ ~Behind
    BY <2>1 DEF LockStep, Left, Behind
  <2>3. Working => Working'
    BY <1>1, <2>1 DEF Working
  <2>4. QED
    BY <1>1, <1>2, <2>1, <2>2, <2>3 DEF LockStep, InStep
<1>8. CASE Return \/ Exit
  <2>1. Left' /\ UNCHANGED currClk
    BY <1>8 DEF Return, Exit, SchedTo, SchedExit, Left
  <2>2. QED
    BY <1>1, <1>2, <2>1 DEF LockStep
<1>9. QED
  BY <1>3, <1>4, <1>5, <1>6, <1>7, <1>8 DEF Server, Loop

(* Then the clock, the generator and the scheduler are never a tick apart. *)
THEOREM LockStepHolds ==
  ASSUME Prompt, MsgCap >= N
  PROVE  ServerSafety => []LockStep
<1>1. ServerInit => LockStep
  BY DEF ServerInit, TickInit, LockStep, InStep, Behind, GenPcs
<1>2. SentInv /\ SentExactly /\ LockStep /\ [ServerNext]_serverVars => LockStep'
  <2>1. SUFFICES ASSUME SentInv, SentExactly, LockStep, [ServerNext]_serverVars
                 PROVE  LockStep'
    OBVIOUS
  <2>2. CASE Generator /\ UNCHANGED received
    BY <2>1, <2>2, GeneratorInStep
  <2>3. CASE ClockTick /\ UNCHANGED received
    BY <2>1, <2>3, TickInStep
  <2>4. CASE Server
    BY <2>1, <2>4, ServerInStep
  <2>5. CASE (Ended /\ UNCHANGED received) \/ UNCHANGED serverVars
    <3>1. UNCHANGED <<input, clk, sem, msgq, genPc, genClk, schedPc, currClk>>
      BY <2>5 DEF Ended, serverVars, tickVars, clkVars, genVars, schedHead
    <3>2. QED
      BY <2>1, <3>1 DEF LockStep, Left, InStep, Behind, Working
  <2>6. QED
    BY <2>1, <2>2, <2>3, <2>4, <2>5 DEF ServerNext
<1>3. QED
  BY <1>1, <1>2, SentInvHolds, SentExactlyHolds, PTL DEF ServerSafety

(* Under the same conditions every process is taken in the tick in which   *)
(* it arrives: the copy of the clock that the scheduler made before it     *)
(* waited on the semaphore is right when it receives.                      *)
THEOREM TakenInItsTick ==
  ASSUME Prompt, MsgCap >= N
  PROVE  ServerSafety => TakenOnArrival
<1>1. SentInv /\ LockStep /\ [ServerNext]_serverVars
        => [Take => currClk = input[Head(msgq)].arrivalTime]_serverVars
  <2>1. SUFFICES ASSUME SentInv, LockStep, Take
                 PROVE  currClk = input[Head(msgq)].arrivalTime
    OBVIOUS
  <2>2. schedPc = "receive" /\ msgq # <<>> /\ msgq \in Seq(Procs)
    BY <2>1 DEF Take, SchedTake, SentInv, Typed
  <2>3. InStep /\ ~Behind
    BY <2>1, <2>2 DEF LockStep, Left, Behind
  <2>4. Working
    BY <2>1, <2>2, <2>3 DEF LockStep, InStep, GenPcs
  <2>5. 1 \in DOMAIN msgq /\ Head(msgq) = msgq[1]
    BY <2>2
  <2>6. QED
    BY <2>3, <2>4, <2>5 DEF InStep, Working
<1>2. QED
  BY <1>1, SentInvHolds, LockStepHolds, PTL DEF ServerSafety, TakenOnArrival

===============================================================================
