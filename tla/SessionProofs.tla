----------------------------- MODULE SessionProofs -----------------------------
(***************************************************************************)
(* The scheduler's queues are freed at most once, unless Ctrl-C is pressed *)
(* while main is between testing and setting freed_flag, and then at most  *)
(* twice; a generator that exits leaves no object in the kernel but the    *)
(* segment of a clock that had not stored shmid; and the clock of a first  *)
(* session wipes out no credit.                                            *)
(***************************************************************************)
EXTENDS Session, TLAPS

(* A call of freeAllResources that has found the flag unset has a freeing  *)
(* due: the one the scheduler is in, and the one it returns to after its   *)
(* handler.  Those due and those done are no more than the flag lets       *)
(* through: one, or two when main was interrupted between testing the flag *)
(* and setting it.                                                         *)
Due(label) == IF label \in {"mark", "freeing"} THEN 1 ELSE 0

FreedInv ==
  /\ DOMAIN pc = Roles
  /\ frees \in Nat
  /\ freed_flag \in BOOLEAN
  /\ ~freed_flag => frees = 0 /\ pc["sched"] # "freeing" /\ resume # "freeing"
  /\ resume = "mark" => "mark" \in gaps
  /\ frees + Due(pc["sched"]) + Due(resume) <= IF "mark" \in gaps THEN 2 ELSE 1

(* What makes no freeing due, nor touches the scheduler's own data, keeps  *)
(* the invariant.                                                          *)
LEMMA Apart ==
  ASSUME FreedInv, UNCHANGED <<freed_flag, frees, resume>>,
         "mark" \in gaps' <=> "mark" \in gaps,
         DOMAIN pc' = Roles,
         pc'["sched"] \notin {"mark", "freeing"} \/ pc'["sched"] = pc["sched"]
  PROVE  FreedInv'
BY DEF FreedInv, Due

(* The generator may fork the scheduler, and otherwise leaves it alone.    *)
LEMMA GeneratorKeeps ==
  ASSUME FreedInv, Generator
  PROVE  FreedInv'
<1>1. DOMAIN pc = Roles /\ "sched" \in Roles /\ "gen" \in Roles /\ "clk" \in Roles
  BY DEF FreedInv, Roles
<1>2. /\ UNCHANGED <<freed_flag, frees, resume, gaps>>
      /\ DOMAIN pc' = Roles
      /\ pc'["sched"] = "forked" \/ pc'["sched"] = pc["sched"]
  <2>1. CASE GenSignal \/ initMessageQueue \/ ForkClk \/ StoreClkPid \/ ForkSched
    BY <1>1, <2>1 DEF GenSignal, initMessageQueue, ForkClk, StoreClkPid, ForkSched, Move,
                      Go, schedData, faults
  <2>2. CASE initClkSem \/ StoreSemId \/ initClk("gen", "tick") \/ GenRead \/ GenUp
    BY <1>1, <2>2 DEF initClkSem, StoreSemId, initClk, GenRead, GenUp, Move, Go,
                      schedData, faults
  <2>3. CASE GenSpin \/ GenWait \/ GenInterrupted
    BY <1>1, <2>3 DEF GenSpin, GenWait, GenInterrupted, Move, Go, schedData, faults
  <2>4. CASE clearResources
    BY <1>1, <2>4 DEF clearResources, ClearKill, ClearNoChild, ClearWait, ClearSem,
                      ClearSemFails, ClearMsgq, Move, Go, schedData, faults
  <2>5. QED
    BY <2>1, <2>2, <2>3, <2>4 DEF Generator
<1>3. QED
  BY <1>2, Apart

(* The clock does nothing to the scheduler.                                *)
LEMMA ClockKeeps ==
  ASSUME FreedInv, Clock
  PROVE  FreedInv'
<1>1. DOMAIN pc = Roles /\ "sched" \in Roles /\ "clk" \in Roles
  BY DEF FreedInv, Roles
<1>2. /\ UNCHANGED <<freed_flag, frees, resume>>
      /\ DOMAIN pc' = Roles /\ pc'["sched"] = pc["sched"]
  BY <1>1 DEF Clock, ClkExec, ClkSetVal, ClkSignal, ClkShmget, ClkShmid, ClkReset, ClkTick,
              ClkInterrupted, ClkCleanup, ClkCopyInterrupted, Move, Go, schedData
<1>3. "mark" \in gaps' <=> "mark" \in gaps
  <2>1. CASE ClkCleanup
    BY <2>1 DEF ClkCleanup, TakenIn
  <2>2. CASE ClkExec \/ ClkSetVal \/ ClkSignal \/ ClkShmget \/ ClkShmid \/ ClkReset
             \/ ClkTick \/ ClkCopyInterrupted
    BY <2>2 DEF ClkExec, ClkSetVal, ClkSignal, ClkShmget, ClkShmid, ClkReset, ClkTick,
                ClkCopyInterrupted, faults
  <2>3. QED
    BY <2>1, <2>2 DEF Clock, ClkInterrupted
<1>4. QED
  BY <1>2, <1>3, Apart

(* The scheduler before and in its loop.                                   *)
LEMMA LoopKeeps ==
  ASSUME FreedInv,
         \/ SchedExec \/ SchedSemget \/ initClk("sched", "signal") \/ SchedSignal
         \/ SchedQueues \/ SchedStart \/ SchedRead \/ SchedDown \/ SchedDownFails \/ SchedBody
         \/ Crash \/ SchedSpin \/ SchedKilled \/ SchedCopyInterrupted
  PROVE  FreedInv'
<1>1. DOMAIN pc = Roles /\ "sched" \in Roles
  BY DEF FreedInv, Roles
<1>2. /\ UNCHANGED <<freed_flag, frees, resume, gaps>>
      /\ DOMAIN pc' = Roles /\ pc'["sched"] \notin {"mark", "freeing"}
  <2>1. CASE SchedExec \/ SchedSemget \/ initClk("sched", "signal") \/ SchedSignal
    BY <1>1, <2>1 DEF SchedExec, SchedSemget, initClk, SchedSignal, Move, Go, schedData, faults
  <2>2. CASE SchedQueues \/ SchedStart \/ SchedRead \/ SchedDown \/ SchedDownFails
    BY <1>1, <2>2 DEF SchedQueues, SchedStart, SchedRead, SchedDown, SchedDownFails, Move,
                      Go, schedData, faults
  <2>3. CASE SchedBody \/ Crash \/ SchedSpin \/ SchedKilled \/ SchedCopyInterrupted
    BY <1>1, <2>3 DEF SchedBody, Crash, SchedSpin, SchedKilled, SchedCopyInterrupted,
                      SchedTakes, Move, Go, schedData, faults
  <2>4. QED
    BY <2>1, <2>2, <2>3
<1>3. QED
  BY <1>2, Apart

(* The calls of freeAllResources, by main and by the handler, and what     *)
(* each goes on with.                                                      *)
LEMMA FreeingKeeps ==
  ASSUME FreedInv, SchedLogs \/ freeAllResources \/ SIGINT_Handler \/ SIGINT_HandlerNested
  PROVE  FreedInv'
<1>1. DOMAIN pc = Roles /\ "sched" \in Roles
  BY DEF FreedInv, Roles
<1> USE DEF FreedInv, Due, At, Go, faults
<1>2. CASE SchedLogs
  BY <1>1, <1>2 DEF SchedLogs, Move
<1>3. CASE FreeAgain
  BY <1>1, <1>3 DEF FreeAgain
<1>4. CASE FreeFirst
  BY <1>1, <1>4 DEF FreeFirst, Move, schedData
<1>5. CASE FreeMark
  BY <1>1, <1>5 DEF FreeMark, Move
<1>6. CASE FreeQueues
  BY <1>1, <1>6 DEF FreeQueues
<1>7. CASE FreeTwice
  BY <1>1, <1>7 DEF FreeTwice
<1>8. CASE SIGINT_Handler
  BY <1>1, <1>8 DEF SIGINT_Handler, SchedTakes
<1>9. CASE SIGINT_HandlerNested
  BY <1>1, <1>9 DEF SIGINT_HandlerNested, SchedTakes, TakenIn
<1>10. QED
  BY <1>2, <1>3, <1>4, <1>5, <1>6, <1>7, <1>8, <1>9 DEF freeAllResources

(* FreedInv is inductive: no step of anybody breaks it.                    *)
THEOREM FreedInvHolds == Spec => []FreedInv
<1>1. Init => FreedInv
  <2>1. SUFFICES ASSUME Init PROVE FreedInv
    OBVIOUS
  <2>2. DOMAIN pc = Roles /\ pc["sched"] = "none"
    BY <2>1 DEF Init, Roles
  <2>3. freed_flag \in BOOLEAN /\ frees = 0 /\ resume = "exited"
    BY <2>1 DEF Init
  <2>4. Due(pc["sched"]) = 0 /\ Due(resume) = 0
    BY <2>2, <2>3 DEF Due
  <2>5. frees \in Nat /\ frees + Due(pc["sched"]) + Due(resume) <= IF "mark" \in gaps THEN 2 ELSE 1
    BY <2>3, <2>4
  <2>6. QED
    BY <2>2, <2>3, <2>5, Zenon DEF FreedInv
<1>2. FreedInv /\ [Next]_vars => FreedInv'
  <2>1. SUFFICES ASSUME FreedInv, [Next]_vars PROVE FreedInv'
    OBVIOUS
  <2>2. CASE Generator
    BY <2>1, <2>2, GeneratorKeeps
  <2>3. CASE Clock
    BY <2>1, <2>3, ClockKeeps
  <2>4. CASE Scheduler
    BY <2>1, <2>4, LoopKeeps, FreeingKeeps DEF Scheduler, SchedInterrupted
  <2>5. CASE Interrupt
    BY <2>1, <2>5 DEF Interrupt, FreedInv, Due, schedData
  <2>6. CASE KillAll
    <3>1. DOMAIN pc' = Roles /\ pc'["sched"] = "none"
      BY <2>6 DEF KillAll, Roles
    <3>2. freed_flag' \in BOOLEAN /\ frees' = 0 /\ resume' = "exited"
      BY <2>6 DEF KillAll
    <3>3. Due(pc["sched"])' = 0 /\ Due(resume)' = 0
      BY <3>1, <3>2 DEF Due
    <3>4. (/\ frees \in Nat
           /\ frees + Due(pc["sched"]) + Due(resume) <= IF "mark" \in gaps THEN 2 ELSE 1)'
      BY <3>2, <3>3
    <3>5. QED
      BY <3>1, <3>2, <3>4, Zenon DEF FreedInv
  <2>7. CASE UNCHANGED vars
    BY <2>1, <2>7 DEF vars, schedData, faults, FreedInv, Due
  <2>8. QED
    BY <2>1, <2>2, <2>3, <2>4, <2>5, <2>6, <2>7 DEF Next
<1>3. QED
  BY <1>1, <1>2, PTL DEF Spec, Safety

(* The queues are freed once, by main or by the handler, whatever the      *)
(* number of interrupts and restarts and the length of the session; twice  *)
(* only if a SIGINT came between main's test of freed_flag and its setting.*)
THEOREM QueuesFreedOnce == Spec => []FreedOnce
<1>1. FreedInv => FreedOnce
  BY DEF FreedInv, FreedOnce, Due
<1>2. QED
  BY <1>1, FreedInvHolds, PTL

-----------------------------------------------------------------------------
(* What is in the kernel.  The places of the three processes, by what they *)
(* still do: the generator makes the queue and the semaphore, serves, then *)
(* clears; the clock has not yet, or has, a shared word; the scheduler may *)
(* still make the semaphore and the queue, or not any more.                *)
Making   == {"signal", "msgget", "fork clk", "clk_pid", "fork sched", "semget", "semid",
             "attach"}
Serving  == {"tick", "up", "spin", "wait"}
Clearing == {"kill", "wait clk", "rm sem", "rm msgq", "exited", "failed", "stuck"}
NoWord   == {"none", "forked", "semget", "signal", "shmget", "shmid"}
WithWord == {"reset", "ticking"}
Starting == {"none", "forked", "semget", "attach", "signal", "queues"}
Looping  == {"start", "read", "down", "body", "spin", "logs", "free", "mark", "freeing",
             "exited", "stuck"}

(* The types.                                                              *)
Places ==
  /\ DOMAIN pc = Roles
  /\ pc["sched"] \in Starting \cup Looping
  /\ resume \in Looping
  /\ objects \subseteq {"msgq", "sem", "shm"}
  /\ clk_pid \in BOOLEAN /\ clk_sem_id \in BOOLEAN
  /\ kills \in Nat /\ interrupts \in Nat

(* The kernel never lets a semaphore become negative.                      *)
Counted == semval \in Nat

(* Who has not been forked yet is not there.                               *)
InOrder ==
  /\ pc["gen"] \in {"signal", "msgget", "fork clk"} => pc["clk"] = "none"
  /\ pc["gen"] \in {"signal", "msgget", "fork clk", "clk_pid", "fork sched"}
       => pc["sched"] = "none"
  /\ pc["gen"] \in {"semget", "semid", "attach"} \cup Serving => pc["sched"] # "none"
  /\ clk_sem_id # FALSE => pc["sched"] # "none"

(* Who handles a SIGINT is at one of the handler's places.                 *)
InHandler ==
  /\ "gen" \in handling => pc["gen"] \in Clearing
  /\ "sched" \in handling => pc["sched"] \in {"free", "mark", "freeing", "exited", "stuck"}

(* On a clean kernel the shared word is there only while the clock is, or  *)
(* after one that was ended in the gap; so who gives credit finds a clock  *)
(* that has set the semaphore.                                             *)
CleanStart ==
  /\ "shmid" \in gaps => pc["clk"] = "exited"
  /\ "shm" \in objects => pc["clk"] \in {"shmid"} \cup WithWord \/ "shmid" \in gaps
  /\ pc["gen"] \in Serving => pc["clk"] \in {"shmid", "exited"} \cup WithWord
  /\ pc["clk"] \in {"none", "forked", "semget"} => semval = 0

(* A clock that has not come to its own word yet: whoever reads the word   *)
(* reads what a killed session has left, the same value each time.  Were   *)
(* it the tick of the last message, the scheduler would wait for the next. *)
OldWord ==
  /\ pc["gen"] \in Serving => "shm" \in objects
  /\ pc["gen"] \in {"up", "spin"} => genClk = clk
  /\ pc["gen"] = "wait" => clk = LastArrival
  /\ pc["sched"] \in {"signal", "queues"} \cup Looping => "shm" \in objects
  /\ pc["sched"] \in {"down", "body", "spin"} => currClk = clk
  /\ pc["sched"] \in {"logs", "free", "mark", "freeing", "exited"} => clk >= LastFinish

(* Before anybody presses Ctrl-C the generator clears when the scheduler   *)
(* has ended by itself, and then the clock has a word to remove.           *)
Undisturbed ==
  /\ handling = {}
  /\ pending \subseteq {"clk"}
  /\ pending # {} => pc["gen"] \in Clearing
  /\ pc["gen"] \in {"fork sched", "semget", "semid", "attach"} \cup Serving \cup Clearing
       => clk_pid
  /\ pc["clk"] = "exited" => "shm" \notin objects /\ pc["gen"] \in Clearing
  /\ pc["gen"] \in Clearing => pc["sched"] = "exited" /\ pc["clk"] \in WithWord \cup {"exited"}
  /\ pc["clk"] \in NoWord \cup WithWord \cup {"exited"} /\ pc["sched"] # "stuck"
  /\ pc["sched"] \in {"free", "mark", "freeing"} => resume = "exited"
  /\ queues = "freed" => pc["sched"] = "exited"
  /\ pc["sched"] \in {"attach", "signal", "queues"} \cup Looping /\ pc["gen"] \notin Clearing
       => "sem" \in objects
  /\ pc["clk"] \in NoWord => OldWord

(* The scheduler makes no object any more: it has made them, or it takes   *)
(* a SIGINT before it makes one, which ends it.                            *)
MakesNone == pc["sched"] \in Looping \/ "sched" \in pending

(* What the generator has removed, nobody makes again.                     *)
Emptied ==
  /\ pc["gen"] \in Clearing \/ "gen" \in pending => pc["sched"] = "none" \/ MakesNone
  /\ pc["gen"] \in {"rm sem", "rm msgq", "exited"} => pc["clk"] = "exited"
  /\ pc["gen"] \in {"rm msgq", "exited"} => clk_sem_id /\ "sem" \notin objects
  /\ pc["gen"] = "exited" => objects \subseteq LeftOver

Quiet == interrupts = 0 /\ LastArrival < LastFinish

ObjectsInv ==
  /\ Places /\ Counted /\ InOrder /\ InHandler
  /\ kills = 0 => CleanStart
  /\ Quiet => Undisturbed
  /\ kills = 0 \/ Quiet => Emptied

(* What a fork changes, and what it leaves alone.                          *)
LEMMA ForkFacts ==
  ASSUME DOMAIN pc = Roles, ForkSched
  PROVE  /\ DOMAIN pc' = Roles
         /\ "gen" \notin pending \ handling
         /\ pc["gen"] = "fork sched" /\ pc'["gen"] = "semget"
         /\ pc'["clk"] = pc["clk"] /\ pc'["sched"] = "forked"
         /\ UNCHANGED <<pending, handling, objects, semval, clk, clk_pid, clk_sem_id>>
         /\ UNCHANGED <<reaped, genClk, currClk, freed_flag, queues, frees, resume>>
         /\ UNCHANGED <<interrupts, kills, gaps>>
<1>1. DOMAIN pc' = Roles /\ pc["gen"] = "fork sched" /\ pc'["gen"] = "semget"
  BY DEF ForkSched, Roles, At
<1>2. pc'["clk"] = pc["clk"] /\ pc'["sched"] = "forked"
  BY DEF ForkSched, Roles
<1> QED
  BY <1>1, <1>2 DEF ForkSched, At, Able, signals, kernel, genData, schedData, faults

(* Who is let through has found the semaphore up.                          *)
LEMMA DownFacts ==
  ASSUME DOMAIN pc = Roles, Counted, SchedDown
  PROVE  /\ semval # 0
         /\ pc'["clk"] = pc["clk"] /\ pc'["gen"] = pc["gen"]
         /\ UNCHANGED <<objects, kills, gaps>>
<1>1. semval > 0 /\ UNCHANGED <<objects, kills, gaps>>
  BY DEF SchedDown, faults
<1>2. semval # 0
  BY <1>1 DEF Counted
<1>3. pc'["clk"] = pc["clk"] /\ pc'["gen"] = pc["gen"]
  BY DEF SchedDown, Move, Go, Roles
<1> QED
  BY <1>1, <1>2, <1>3

(* A bound that counts up is not zero.                                     *)
LEMMA FaultsCount ==
  ASSUME kills \in Nat, interrupts \in Nat
  PROVE  /\ Interrupt => interrupts' \in Nat /\ interrupts' # 0 /\ kills' = kills
         /\ KillAll => kills' \in Nat /\ kills' # 0 /\ interrupts' = interrupts
BY DEF Interrupt, KillAll

(* The types are kept by every step.                                       *)
LEMMA PlacesStep ==
  ASSUME ObjectsInv, [Next]_vars
  PROVE  Places'
<1> USE DEF ObjectsInv, Places, Making, Serving, Clearing, NoWord, WithWord,
            Starting, Looping, Roles, Move, At, Able, Go, signals, kernel,
            genData, schedData, faults
<1>1. CASE GenSignal \/ initMessageQueue
  <2>1. CASE GenSignal
    BY <2>1 DEF GenSignal
  <2>2. CASE initMessageQueue
    BY <2>2 DEF initMessageQueue, Create
  <2>3. QED
    BY <1>1, <2>1, <2>2
<1>2. CASE ForkClk \/ StoreClkPid
  <2>1. CASE ForkClk
    BY <2>1 DEF ForkClk
  <2>2. CASE StoreClkPid
    BY <2>2 DEF StoreClkPid
  <2>3. QED
    BY <1>2, <2>1, <2>2
<1>3. CASE ForkSched
  BY <1>3, ForkFacts
<1>4. CASE initClkSem \/ StoreSemId \/ initClk("gen", "tick") \/ GenRead
  <2>1. CASE initClkSem
    BY <2>1 DEF initClkSem, Create
  <2>2. CASE StoreSemId
    BY <2>2 DEF StoreSemId
  <2>3. CASE initClk("gen", "tick")
    BY <2>3 DEF initClk
  <2>4. CASE GenRead
    BY <2>4 DEF GenRead
  <2>5. QED
    BY <1>4, <2>1, <2>2, <2>3, <2>4
<1>5. CASE GenUp \/ GenSpin \/ GenWait
  <2>1. CASE GenUp
    BY <2>1 DEF GenUp
  <2>2. CASE GenSpin
    BY <2>2 DEF GenSpin
  <2>3. CASE GenWait
    BY <2>3 DEF GenWait, Gone
  <2>4. QED
    BY <1>5, <2>1, <2>2, <2>3
<1>6. CASE ClearKill \/ ClearNoChild \/ ClearWait \/ ClearSem \/ ClearSemFails \/ ClearMsgq
  <2>1. CASE ClearKill
    BY <2>1 DEF ClearKill, Gone, Alive
  <2>2. CASE ClearNoChild
    BY <2>2 DEF ClearNoChild
  <2>3. CASE ClearWait
    BY <2>3 DEF ClearWait
  <2>4. CASE ClearSem
    BY <2>4 DEF ClearSem, Remove
  <2>5. CASE ClearSemFails
    BY <2>5 DEF ClearSemFails
  <2>6. CASE ClearMsgq
    BY <2>6 DEF ClearMsgq, Remove
  <2>7. QED
    BY <1>6, <2>1, <2>2, <2>3, <2>4, <2>5, <2>6
<1>7. CASE GenInterrupted
  BY <1>7 DEF GenInterrupted
<1>8. CASE ClkExec \/ ClkSetVal \/ ClkSignal \/ ClkShmget \/ ClkShmid \/ ClkReset \/ ClkTick
  <2>1. CASE ClkExec
    BY <2>1 DEF ClkExec
  <2>2. CASE ClkSetVal
    BY <2>2 DEF ClkSetVal, Create
  <2>3. CASE ClkSignal
    BY <2>3 DEF ClkSignal
  <2>4. CASE ClkShmget
    BY <2>4 DEF ClkShmget, Create
  <2>5. CASE ClkShmid
    BY <2>5 DEF ClkShmid
  <2>6. CASE ClkReset
    BY <2>6 DEF ClkReset
  <2>7. CASE ClkTick
    BY <2>7 DEF ClkTick
  <2>8. QED
    BY <1>8, <2>1, <2>2, <2>3, <2>4, <2>5, <2>6, <2>7
<1>9. CASE ClkInterrupted
  <2>1. CASE ClkCleanup
    BY <2>1, <1>9 DEF ClkCleanup, Remove, TakenIn, ClkInterrupted
  <2>2. CASE ClkCopyInterrupted
    BY <2>2, <1>9 DEF ClkCopyInterrupted, Gone, Alive, ClkInterrupted
  <2>3. QED
    BY <1>9, <2>1, <2>2 DEF ClkInterrupted
<1>10. CASE SchedExec \/ SchedSemget \/ initClk("sched", "signal") \/ SchedSignal \/ SchedQueues \/ SchedStart \/ SchedRead
  <2>1. CASE SchedExec
    BY <2>1 DEF SchedExec
  <2>2. CASE SchedSemget
    BY <2>2 DEF SchedSemget, Create
  <2>3. CASE initClk("sched", "signal")
    BY <2>3 DEF initClk
  <2>4. CASE SchedSignal
    BY <2>4 DEF SchedSignal
  <2>5. CASE SchedQueues
    BY <2>5 DEF SchedQueues, Create
  <2>6. CASE SchedStart
    BY <2>6 DEF SchedStart
  <2>7. CASE SchedRead
    BY <2>7 DEF SchedRead
  <2>8. QED
    BY <1>10, <2>1, <2>2, <2>3, <2>4, <2>5, <2>6, <2>7
<1>11. CASE SchedDown
  BY <1>11 DEF SchedDown
<1>12. CASE SchedDownFails \/ SchedBody \/ Crash \/ SchedSpin \/ SchedLogs
  <2>1. CASE SchedDownFails
    BY <2>1 DEF SchedDownFails
  <2>2. CASE SchedBody
    BY <2>2 DEF SchedBody
  <2>3. CASE Crash
    BY <2>3 DEF Crash
  <2>4. CASE SchedSpin
    BY <2>4 DEF SchedSpin
  <2>5. CASE SchedLogs
    BY <2>5 DEF SchedLogs
  <2>6. QED
    BY <1>12, <2>1, <2>2, <2>3, <2>4, <2>5
<1>13. CASE FreeAgain \/ FreeFirst \/ FreeMark \/ FreeQueues \/ FreeTwice
  <2>1. CASE FreeAgain
    BY <2>1 DEF FreeAgain
  <2>2. CASE FreeFirst
    BY <2>2 DEF FreeFirst
  <2>3. CASE FreeMark
    BY <2>3 DEF FreeMark
  <2>4. CASE FreeQueues
    BY <2>4 DEF FreeQueues
  <2>5. CASE FreeTwice
    BY <2>5 DEF FreeTwice
  <2>6. QED
    BY <1>13, <2>1, <2>2, <2>3, <2>4, <2>5
<1>14. CASE SchedKilled \/ SchedCopyInterrupted \/ SIGINT_Handler \/ SIGINT_HandlerNested
  <2>1. CASE SchedKilled
    BY <2>1 DEF SchedKilled, SchedTakes
  <2>2. CASE SchedCopyInterrupted
    BY <2>2 DEF SchedCopyInterrupted, Gone, Alive
  <2>3. CASE SIGINT_Handler
    BY <2>3 DEF SIGINT_Handler, SchedTakes
  <2>4. CASE SIGINT_HandlerNested
    BY <2>4 DEF SIGINT_HandlerNested, SchedTakes, TakenIn
  <2>5. QED
    BY <1>14, <2>1, <2>2, <2>3, <2>4
<1>15. CASE Interrupt
  BY <1>15, FaultsCount DEF Interrupt, Gone, Alive
<1>16. CASE KillAll
  BY <1>16, FaultsCount DEF KillAll
<1>17. CASE UNCHANGED vars
  BY <1>17 DEF vars
<1> HIDE DEF ObjectsInv, Places
<1> QED
  BY <1>1, <1>2, <1>3, <1>4, <1>5, <1>6, <1>7, <1>8, <1>9, <1>10, <1>11, <1>12,
     <1>13, <1>14, <1>15, <1>16, <1>17
     DEF Next, Generator, clearResources, Clock, Scheduler, freeAllResources, SchedInterrupted

(* The semaphore counts.                                                   *)
LEMMA CountedStep ==
  ASSUME ObjectsInv, [Next]_vars
  PROVE  Counted'
<1>1. semval \in Nat /\ SEM_UP_VAL \in Nat
  BY SessionAssumption DEF ObjectsInv, Counted
<1>2. CASE GenUp
  BY <1>1, <1>2 DEF GenUp, Counted
<1>3. CASE initClkSem \/ ClkSetVal \/ SchedSemget
  BY <1>1, <1>3 DEF initClkSem, ClkSetVal, SchedSemget, Counted
<1>4. CASE SchedDown
  BY <1>1, <1>4 DEF SchedDown, Counted
<1>5. CASE UNCHANGED semval
  BY <1>1, <1>5 DEF Counted
<1>6. CASE GenSignal \/ initMessageQueue \/ ForkClk \/ StoreClkPid \/ ForkSched \/ StoreSemId
  BY <1>5, <1>6 DEF GenSignal, initMessageQueue, ForkClk, StoreClkPid, ForkSched,
                    StoreSemId, kernel
<1>7. CASE initClk("gen", "tick") \/ GenRead \/ GenSpin \/ GenWait \/ GenInterrupted
  BY <1>5, <1>7 DEF initClk, GenRead, GenSpin, GenWait, GenInterrupted, kernel
<1>8. CASE clearResources
  BY <1>5, <1>8 DEF clearResources, ClearKill, ClearNoChild, ClearWait, ClearSem,
                    ClearSemFails, ClearMsgq, kernel
<1>9. CASE ClkExec \/ ClkSignal \/ ClkShmget \/ ClkShmid \/ ClkReset \/ ClkTick \/ ClkInterrupted
  BY <1>5, <1>9 DEF ClkExec, ClkSignal, ClkShmget, ClkShmid, ClkReset, ClkTick,
                    ClkInterrupted, ClkCleanup, ClkCopyInterrupted, kernel
<1>10. CASE \/ SchedExec \/ initClk("sched", "signal") \/ SchedSignal \/ SchedQueues
            \/ SchedStart \/ SchedRead \/ SchedDownFails \/ SchedBody \/ Crash
            \/ SchedSpin \/ SchedLogs
  BY <1>5, <1>10 DEF SchedExec, initClk, SchedSignal, SchedQueues, SchedStart, SchedRead,
                     SchedDownFails, SchedBody, Crash, SchedSpin, SchedLogs, kernel
<1>11. CASE freeAllResources
  BY <1>5, <1>11 DEF freeAllResources, FreeAgain, FreeFirst, FreeMark, FreeQueues,
                     FreeTwice, kernel
<1>12. CASE SchedInterrupted
  BY <1>5, <1>12 DEF SchedInterrupted, SchedKilled, SchedCopyInterrupted, SIGINT_Handler,
                     SIGINT_HandlerNested, kernel
<1>13. CASE Interrupt \/ KillAll \/ UNCHANGED vars
  BY <1>5, <1>13 DEF Interrupt, KillAll, vars, kernel
<1> QED
  BY <1>2, <1>3, <1>4, <1>6, <1>7, <1>8, <1>9, <1>10, <1>11, <1>12, <1>13
     DEF Next, Generator, Clock, Scheduler

(* Nobody is there before it is forked.                                    *)
LEMMA InOrderStep ==
  ASSUME ObjectsInv, [Next]_vars
  PROVE  InOrder'
<1> USE DEF ObjectsInv, Places, InOrder, Making, Serving, Clearing, NoWord,
            WithWord, Starting, Looping, Roles, Move, At, Able, Go, signals,
            kernel, genData, schedData, faults
<1>1. CASE GenSignal \/ initMessageQueue
  <2>1. CASE GenSignal
    BY <2>1 DEF GenSignal
  <2>2. CASE initMessageQueue
    BY <2>2 DEF initMessageQueue, Create
  <2>3. QED
    BY <1>1, <2>1, <2>2
<1>2. CASE ForkClk \/ StoreClkPid
  <2>1. CASE ForkClk
    BY <2>1 DEF ForkClk
  <2>2. CASE StoreClkPid
    BY <2>2 DEF StoreClkPid
  <2>3. QED
    BY <1>2, <2>1, <2>2
<1>3. CASE ForkSched
  BY <1>3, ForkFacts
<1>4. CASE initClkSem \/ StoreSemId \/ initClk("gen", "tick") \/ GenRead
  <2>1. CASE initClkSem
    BY <2>1 DEF initClkSem, Create
  <2>2. CASE StoreSemId
    BY <2>2 DEF StoreSemId
  <2>3. CASE initClk("gen", "tick")
    BY <2>3 DEF initClk
  <2>4. CASE GenRead
    BY <2>4 DEF GenRead
  <2>5. QED
    BY <1>4, <2>1, <2>2, <2>3, <2>4
<1>5. CASE GenUp \/ GenSpin \/ GenWait
  <2>1. CASE GenUp
    BY <2>1 DEF GenUp
  <2>2. CASE GenSpin
    BY <2>2 DEF GenSpin
  <2>3. CASE GenWait
    BY <2>3 DEF GenWait, Gone
  <2>4. QED
    BY <1>5, <2>1, <2>2, <2>3
<1>6. CASE ClearKill \/ ClearNoChild \/ ClearWait \/ ClearSem \/ ClearSemFails \/ ClearMsgq
  <2>1. CASE ClearKill
    BY <2>1 DEF ClearKill, Gone, Alive
  <2>2. CASE ClearNoChild
    BY <2>2 DEF ClearNoChild
  <2>3. CASE ClearWait
    BY <2>3 DEF ClearWait
  <2>4. CASE ClearSem
    BY <2>4 DEF ClearSem, Remove
  <2>5. CASE ClearSemFails
    BY <2>5 DEF ClearSemFails
  <2>6. CASE ClearMsgq
    BY <2>6 DEF ClearMsgq, Remove
  <2>7. QED
    BY <1>6, <2>1, <2>2, <2>3, <2>4, <2>5, <2>6
<1>7. CASE GenInterrupted
  BY <1>7 DEF GenInterrupted
<1>8. CASE ClkExec \/ ClkSetVal \/ ClkSignal \/ ClkShmget \/ ClkShmid \/ ClkReset \/ ClkTick
  <2>1. CASE ClkExec
    BY <2>1 DEF ClkExec
  <2>2. CASE ClkSetVal
    BY <2>2 DEF ClkSetVal, Create
  <2>3. CASE ClkSignal
    BY <2>3 DEF ClkSignal
  <2>4. CASE ClkShmget
    BY <2>4 DEF ClkShmget, Create
  <2>5. CASE ClkShmid
    BY <2>5 DEF ClkShmid
  <2>6. CASE ClkReset
    BY <2>6 DEF ClkReset
  <2>7. CASE ClkTick
    BY <2>7 DEF ClkTick
  <2>8. QED
    BY <1>8, <2>1, <2>2, <2>3, <2>4, <2>5, <2>6, <2>7
<1>9. CASE ClkInterrupted
  <2>1. CASE ClkCleanup
    BY <2>1, <1>9 DEF ClkCleanup, Remove, TakenIn, ClkInterrupted
  <2>2. CASE ClkCopyInterrupted
    BY <2>2, <1>9 DEF ClkCopyInterrupted, Gone, Alive, ClkInterrupted
  <2>3. QED
    BY <1>9, <2>1, <2>2 DEF ClkInterrupted
<1>10. CASE SchedExec \/ SchedSemget \/ initClk("sched", "signal") \/ SchedSignal \/ SchedQueues \/ SchedStart \/ SchedRead
  <2>1. CASE SchedExec
    BY <2>1 DEF SchedExec
  <2>2. CASE SchedSemget
    BY <2>2 DEF SchedSemget, Create
  <2>3. CASE initClk("sched", "signal")
    BY <2>3 DEF initClk
  <2>4. CASE SchedSignal
    BY <2>4 DEF SchedSignal
  <2>5. CASE SchedQueues
    BY <2>5 DEF SchedQueues, Create
  <2>6. CASE SchedStart
    BY <2>6 DEF SchedStart
  <2>7. CASE SchedRead
    BY <2>7 DEF SchedRead
  <2>8. QED
    BY <1>10, <2>1, <2>2, <2>3, <2>4, <2>5, <2>6, <2>7
<1>11. CASE SchedDown
  BY <1>11 DEF SchedDown
<1>12. CASE SchedDownFails \/ SchedBody \/ Crash \/ SchedSpin \/ SchedLogs
  <2>1. CASE SchedDownFails
    BY <2>1 DEF SchedDownFails
  <2>2. CASE SchedBody
    BY <2>2 DEF SchedBody
  <2>3. CASE Crash
    BY <2>3 DEF Crash
  <2>4. CASE SchedSpin
    BY <2>4 DEF SchedSpin
  <2>5. CASE SchedLogs
    BY <2>5 DEF SchedLogs
  <2>6. QED
    BY <1>12, <2>1, <2>2, <2>3, <2>4, <2>5
<1>13. CASE FreeAgain \/ FreeFirst \/ FreeMark \/ FreeQueues \/ FreeTwice
  <2>1. CASE FreeAgain
    BY <2>1 DEF FreeAgain
  <2>2. CASE FreeFirst
    BY <2>2 DEF FreeFirst
  <2>3. CASE FreeMark
    BY <2>3 DEF FreeMark
  <2>4. CASE FreeQueues
    BY <2>4 DEF FreeQueues
  <2>5. CASE FreeTwice
    BY <2>5 DEF FreeTwice
  <2>6. QED
    BY <1>13, <2>1, <2>2, <2>3, <2>4, <2>5
<1>14. CASE SchedKilled \/ SchedCopyInterrupted \/ SIGINT_Handler \/ SIGINT_HandlerNested
  <2>1. CASE SchedKilled
    BY <2>1 DEF SchedKilled, SchedTakes
  <2>2. CASE SchedCopyInterrupted
    BY <2>2 DEF SchedCopyInterrupted, Gone, Alive
  <2>3. CASE SIGINT_Handler
    BY <2>3 DEF SIGINT_Handler, SchedTakes
  <2>4. CASE SIGINT_HandlerNested
    BY <2>4 DEF SIGINT_HandlerNested, SchedTakes, TakenIn
  <2>5. QED
    BY <1>14, <2>1, <2>2, <2>3, <2>4
<1>15. CASE Interrupt
  BY <1>15, FaultsCount DEF Interrupt, Gone, Alive
<1>16. CASE KillAll
  BY <1>16, FaultsCount DEF KillAll
<1>17. CASE UNCHANGED vars
  BY <1>17 DEF vars
<1> HIDE DEF ObjectsInv, Places, InOrder
<1> QED
  BY <1>1, <1>2, <1>3, <1>4, <1>5, <1>6, <1>7, <1>8, <1>9, <1>10, <1>11, <1>12,
     <1>13, <1>14, <1>15, <1>16, <1>17
     DEF Next, Generator, clearResources, Clock, Scheduler, freeAllResources, SchedInterrupted

(* A handler runs at the handler's places.                                 *)
LEMMA InHandlerStep ==
  ASSUME ObjectsInv, [Next]_vars
  PROVE  InHandler'
<1> USE DEF ObjectsInv, Places, InOrder, InHandler, Making, Serving, Clearing,
            NoWord, WithWord, Starting, Looping, Roles, Move, At, Able, Go,
            signals, kernel, genData, schedData, faults
<1>1. CASE GenSignal \/ initMessageQueue
  <2>1. CASE GenSignal
    BY <2>1 DEF GenSignal
  <2>2. CASE initMessageQueue
    BY <2>2 DEF initMessageQueue, Create
  <2>3. QED
    BY <1>1, <2>1, <2>2
<1>2. CASE ForkClk \/ StoreClkPid
  <2>1. CASE ForkClk
    BY <2>1 DEF ForkClk
  <2>2. CASE StoreClkPid
    BY <2>2 DEF StoreClkPid
  <2>3. QED
    BY <1>2, <2>1, <2>2
<1>3. CASE ForkSched
  BY <1>3, ForkFacts
<1>4. CASE initClkSem \/ StoreSemId \/ initClk("gen", "tick") \/ GenRead
  <2>1. CASE initClkSem
    BY <2>1 DEF initClkSem, Create
  <2>2. CASE StoreSemId
    BY <2>2 DEF StoreSemId
  <2>3. CASE initClk("gen", "tick")
    BY <2>3 DEF initClk
  <2>4. CASE GenRead
    BY <2>4 DEF GenRead
  <2>5. QED
    BY <1>4, <2>1, <2>2, <2>3, <2>4
<1>5. CASE GenUp \/ GenSpin \/ GenWait
  <2>1. CASE GenUp
    BY <2>1 DEF GenUp
  <2>2. CASE GenSpin
    BY <2>2 DEF GenSpin
  <2>3. CASE GenWait
    BY <2>3 DEF GenWait, Gone
  <2>4. QED
    BY <1>5, <2>1, <2>2, <2>3
<1>6. CASE ClearKill \/ ClearNoChild \/ ClearWait \/ ClearSem \/ ClearSemFails \/ ClearMsgq
  <2>1. CASE ClearKill
    BY <2>1 DEF ClearKill, Gone, Alive
  <2>2. CASE ClearNoChild
    BY <2>2 DEF ClearNoChild
  <2>3. CASE ClearWait
    BY <2>3 DEF ClearWait
  <2>4. CASE ClearSem
    BY <2>4 DEF ClearSem, Remove
  <2>5. CASE ClearSemFails
    BY <2>5 DEF ClearSemFails
  <2>6. CASE ClearMsgq
    BY <2>6 DEF ClearMsgq, Remove
  <2>7. QED
    BY <1>6, <2>1, <2>2, <2>3, <2>4, <2>5, <2>6
<1>7. CASE GenInterrupted
  BY <1>7 DEF GenInterrupted
<1>8. CASE ClkExec \/ ClkSetVal \/ ClkSignal \/ ClkShmget \/ ClkShmid \/ ClkReset \/ ClkTick
  <2>1. CASE ClkExec
    BY <2>1 DEF ClkExec
  <2>2. CASE ClkSetVal
    BY <2>2 DEF ClkSetVal, Create
  <2>3. CASE ClkSignal
    BY <2>3 DEF ClkSignal
  <2>4. CASE ClkShmget
    BY <2>4 DEF ClkShmget, Create
  <2>5. CASE ClkShmid
    BY <2>5 DEF ClkShmid
  <2>6. CASE ClkReset
    BY <2>6 DEF ClkReset
  <2>7. CASE ClkTick
    BY <2>7 DEF ClkTick
  <2>8. QED
    BY <1>8, <2>1, <2>2, <2>3, <2>4, <2>5, <2>6, <2>7
<1>9. CASE ClkInterrupted
  <2>1. CASE ClkCleanup
    BY <2>1, <1>9 DEF ClkCleanup, Remove, TakenIn, ClkInterrupted
  <2>2. CASE ClkCopyInterrupted
    BY <2>2, <1>9 DEF ClkCopyInterrupted, Gone, Alive, ClkInterrupted
  <2>3. QED
    BY <1>9, <2>1, <2>2 DEF ClkInterrupted
<1>10. CASE SchedExec \/ SchedSemget \/ initClk("sched", "signal") \/ SchedSignal \/ SchedQueues \/ SchedStart \/ SchedRead
  <2>1. CASE SchedExec
    BY <2>1 DEF SchedExec
  <2>2. CASE SchedSemget
    BY <2>2 DEF SchedSemget, Create
  <2>3. CASE initClk("sched", "signal")
    BY <2>3 DEF initClk
  <2>4. CASE SchedSignal
    BY <2>4 DEF SchedSignal
  <2>5. CASE SchedQueues
    BY <2>5 DEF SchedQueues, Create
  <2>6. CASE SchedStart
    BY <2>6 DEF SchedStart
  <2>7. CASE SchedRead
    BY <2>7 DEF SchedRead
  <2>8. QED
    BY <1>10, <2>1, <2>2, <2>3, <2>4, <2>5, <2>6, <2>7
<1>11. CASE SchedDown
  BY <1>11 DEF SchedDown
<1>12. CASE SchedDownFails \/ SchedBody \/ Crash \/ SchedSpin \/ SchedLogs
  <2>1. CASE SchedDownFails
    BY <2>1 DEF SchedDownFails
  <2>2. CASE SchedBody
    BY <2>2 DEF SchedBody
  <2>3. CASE Crash
    BY <2>3 DEF Crash
  <2>4. CASE SchedSpin
    BY <2>4 DEF SchedSpin
  <2>5. CASE SchedLogs
    BY <2>5 DEF SchedLogs
  <2>6. QED
    BY <1>12, <2>1, <2>2, <2>3, <2>4, <2>5
<1>13. CASE FreeAgain \/ FreeFirst \/ FreeMark \/ FreeQueues \/ FreeTwice
  <2>1. CASE FreeAgain
    BY <2>1 DEF FreeAgain
  <2>2. CASE FreeFirst
    BY <2>2 DEF FreeFirst
  <2>3. CASE FreeMark
    BY <2>3 DEF FreeMark
  <2>4. CASE FreeQueues
    BY <2>4 DEF FreeQueues
  <2>5. CASE FreeTwice
    BY <2>5 DEF FreeTwice
  <2>6. QED
    BY <1>13, <2>1, <2>2, <2>3, <2>4, <2>5
<1>14. CASE SchedKilled \/ SchedCopyInterrupted \/ SIGINT_Handler \/ SIGINT_HandlerNested
  <2>1. CASE SchedKilled
    BY <2>1 DEF SchedKilled, SchedTakes
  <2>2. CASE SchedCopyInterrupted
    BY <2>2 DEF SchedCopyInterrupted, Gone, Alive
  <2>3. CASE SIGINT_Handler
    BY <2>3 DEF SIGINT_Handler, SchedTakes
  <2>4. CASE SIGINT_HandlerNested
    BY <2>4 DEF SIGINT_HandlerNested, SchedTakes, TakenIn
  <2>5. QED
    BY <1>14, <2>1, <2>2, <2>3, <2>4
<1>15. CASE Interrupt
  BY <1>15, FaultsCount DEF Interrupt, Gone, Alive
<1>16. CASE KillAll
  BY <1>16, FaultsCount DEF KillAll
<1>17. CASE UNCHANGED vars
  BY <1>17 DEF vars
<1> HIDE DEF ObjectsInv, Places, InOrder, InHandler
<1> QED
  BY <1>1, <1>2, <1>3, <1>4, <1>5, <1>6, <1>7, <1>8, <1>9, <1>10, <1>11, <1>12,
     <1>13, <1>14, <1>15, <1>16, <1>17
     DEF Next, Generator, clearResources, Clock, Scheduler, freeAllResources, SchedInterrupted

(* On a clean kernel the word is the clock's.                              *)
LEMMA CleanStep ==
  ASSUME ObjectsInv, [Next]_vars
  PROVE  kills' = 0 => CleanStart'
<1> USE DEF ObjectsInv, Places, Counted, InOrder, CleanStart, Making, Serving,
            Clearing, NoWord, WithWord, Starting, Looping, Roles, Move, At, Able,
            Go, signals, kernel, genData, schedData, faults
<1>1. CASE GenSignal \/ initMessageQueue
  <2>1. CASE GenSignal
    BY <2>1 DEF GenSignal
  <2>2. CASE initMessageQueue
    BY <2>2 DEF initMessageQueue, Create
  <2>3. QED
    BY <1>1, <2>1, <2>2
<1>2. CASE ForkClk \/ StoreClkPid
  <2>1. CASE ForkClk
    BY <2>1 DEF ForkClk
  <2>2. CASE StoreClkPid
    BY <2>2 DEF StoreClkPid
  <2>3. QED
    BY <1>2, <2>1, <2>2
<1>3. CASE ForkSched
  BY <1>3, ForkFacts
<1>4. CASE initClkSem \/ StoreSemId \/ initClk("gen", "tick") \/ GenRead
  <2>1. CASE initClkSem
    BY <2>1 DEF initClkSem, Create
  <2>2. CASE StoreSemId
    BY <2>2 DEF StoreSemId
  <2>3. CASE initClk("gen", "tick")
    BY <2>3 DEF initClk
  <2>4. CASE GenRead
    BY <2>4 DEF GenRead
  <2>5. QED
    BY <1>4, <2>1, <2>2, <2>3, <2>4
<1>5. CASE GenUp \/ GenSpin \/ GenWait
  <2>1. CASE GenUp
    BY <2>1 DEF GenUp
  <2>2. CASE GenSpin
    BY <2>2 DEF GenSpin
  <2>3. CASE GenWait
    BY <2>3 DEF GenWait, Gone
  <2>4. QED
    BY <1>5, <2>1, <2>2, <2>3
<1>6. CASE ClearKill \/ ClearNoChild \/ ClearWait \/ ClearSem \/ ClearSemFails \/ ClearMsgq
  <2>1. CASE ClearKill
    BY <2>1 DEF ClearKill, Gone, Alive
  <2>2. CASE ClearNoChild
    BY <2>2 DEF ClearNoChild
  <2>3. CASE ClearWait
    BY <2>3 DEF ClearWait
  <2>4. CASE ClearSem
    BY <2>4 DEF ClearSem, Remove
  <2>5. CASE ClearSemFails
    BY <2>5 DEF ClearSemFails
  <2>6. CASE ClearMsgq
    BY <2>6 DEF ClearMsgq, Remove
  <2>7. QED
    BY <1>6, <2>1, <2>2, <2>3, <2>4, <2>5, <2>6
<1>7. CASE GenInterrupted
  BY <1>7 DEF GenInterrupted
<1>8. CASE ClkExec \/ ClkSetVal \/ ClkSignal \/ ClkShmget \/ ClkShmid \/ ClkReset \/ ClkTick
  <2>1. CASE ClkExec
    BY <2>1 DEF ClkExec
  <2>2. CASE ClkSetVal
    BY <2>2 DEF ClkSetVal, Create
  <2>3. CASE ClkSignal
    BY <2>3 DEF ClkSignal
  <2>4. CASE ClkShmget
    BY <2>4 DEF ClkShmget, Create
  <2>5. CASE ClkShmid
    BY <2>5 DEF ClkShmid
  <2>6. CASE ClkReset
    BY <2>6 DEF ClkReset
  <2>7. CASE ClkTick
    BY <2>7 DEF ClkTick
  <2>8. QED
    BY <1>8, <2>1, <2>2, <2>3, <2>4, <2>5, <2>6, <2>7
<1>9. CASE ClkInterrupted
  <2>1. CASE ClkCleanup
    BY <2>1, <1>9 DEF ClkCleanup, Remove, TakenIn, ClkInterrupted
  <2>2. CASE ClkCopyInterrupted
    BY <2>2, <1>9 DEF ClkCopyInterrupted, Gone, Alive, ClkInterrupted
  <2>3. QED
    BY <1>9, <2>1, <2>2 DEF ClkInterrupted
<1>10. CASE SchedExec \/ SchedSemget \/ initClk("sched", "signal") \/ SchedSignal \/ SchedQueues \/ SchedStart \/ SchedRead
  <2>1. CASE SchedExec
    BY <2>1 DEF SchedExec
  <2>2. CASE SchedSemget
    BY <2>2 DEF SchedSemget, Create
  <2>3. CASE initClk("sched", "signal")
    BY <2>3 DEF initClk
  <2>4. CASE SchedSignal
    BY <2>4 DEF SchedSignal
  <2>5. CASE SchedQueues
    BY <2>5 DEF SchedQueues, Create
  <2>6. CASE SchedStart
    BY <2>6 DEF SchedStart
  <2>7. CASE SchedRead
    BY <2>7 DEF SchedRead
  <2>8. QED
    BY <1>10, <2>1, <2>2, <2>3, <2>4, <2>5, <2>6, <2>7
<1>11. CASE SchedDown
  BY <1>11, DownFacts
<1>12. CASE SchedDownFails \/ SchedBody \/ Crash \/ SchedSpin \/ SchedLogs
  <2>1. CASE SchedDownFails
    BY <2>1 DEF SchedDownFails
  <2>2. CASE SchedBody
    BY <2>2 DEF SchedBody
  <2>3. CASE Crash
    BY <2>3 DEF Crash
  <2>4. CASE SchedSpin
    BY <2>4 DEF SchedSpin
  <2>5. CASE SchedLogs
    BY <2>5 DEF SchedLogs
  <2>6. QED
    BY <1>12, <2>1, <2>2, <2>3, <2>4, <2>5
<1>13. CASE FreeAgain \/ FreeFirst \/ FreeMark \/ FreeQueues \/ FreeTwice
  <2>1. CASE FreeAgain
    BY <2>1 DEF FreeAgain
  <2>2. CASE FreeFirst
    BY <2>2 DEF FreeFirst
  <2>3. CASE FreeMark
    BY <2>3 DEF FreeMark
  <2>4. CASE FreeQueues
    BY <2>4 DEF FreeQueues
  <2>5. CASE FreeTwice
    <3>1. pc'["gen"] = pc["gen"] /\ pc'["clk"] = pc["clk"]
      BY <2>5 DEF FreeTwice
    <3>2. UNCHANGED <<objects, semval, kills, gaps>>
      BY <2>5 DEF FreeTwice
    <3>3. QED
      BY <3>1, <3>2
  <2>6. QED
    BY <1>13, <2>1, <2>2, <2>3, <2>4, <2>5
<1>14. CASE SchedKilled \/ SchedCopyInterrupted \/ SIGINT_Handler \/ SIGINT_HandlerNested
  <2>1. CASE SchedKilled
    BY <2>1 DEF SchedKilled, SchedTakes
  <2>2. CASE SchedCopyInterrupted
    BY <2>2 DEF SchedCopyInterrupted, Gone, Alive
  <2>3. CASE SIGINT_Handler
    BY <2>3 DEF SIGINT_Handler, SchedTakes
  <2>4. CASE SIGINT_HandlerNested
    BY <2>4 DEF SIGINT_HandlerNested, SchedTakes, TakenIn
  <2>5. QED
    BY <1>14, <2>1, <2>2, <2>3, <2>4
<1>15. CASE Interrupt
  BY <1>15, FaultsCount DEF Interrupt, Gone, Alive
<1>16. CASE KillAll
  BY <1>16, FaultsCount DEF KillAll
<1>17. CASE UNCHANGED vars
  BY <1>17 DEF vars
<1> HIDE DEF ObjectsInv, Places, Counted, InOrder, CleanStart
<1> QED
  BY <1>1, <1>2, <1>3, <1>4, <1>5, <1>6, <1>7, <1>8, <1>9, <1>10, <1>11, <1>12,
     <1>13, <1>14, <1>15, <1>16, <1>17
     DEF Next, Generator, clearResources, Clock, Scheduler, freeAllResources, SchedInterrupted

(* A session that nobody interrupts.                                       *)
LEMMA UndisturbedStep ==
  ASSUME ObjectsInv, [Next]_vars
  PROVE  Quiet' => Undisturbed'
<1> USE DEF ObjectsInv, Places, InOrder, Undisturbed, OldWord, Quiet, Making,
            Serving, Clearing, NoWord, WithWord, Starting, Looping, Roles, Move,
            At, Able, Go, signals, kernel, genData, schedData, faults
<1>1. CASE GenSignal
  BY <1>1, SessionAssumption DEF GenSignal
<1>2. CASE initMessageQueue
  BY <1>2, SessionAssumption DEF initMessageQueue, Create
<1>3. CASE ForkClk \/ StoreClkPid
  <2>1. CASE ForkClk
    BY <2>1, SessionAssumption DEF ForkClk
  <2>2. CASE StoreClkPid
    BY <2>2, SessionAssumption DEF StoreClkPid
  <2>3. QED
    BY <1>3, <2>1, <2>2
<1>4. CASE ForkSched
  BY <1>4, SessionAssumption, ForkFacts
<1>5. CASE initClkSem \/ StoreSemId
  <2>1. CASE initClkSem
    BY <2>1, SessionAssumption DEF initClkSem, Create
  <2>2. CASE StoreSemId
    BY <2>2, SessionAssumption DEF StoreSemId
  <2>3. QED
    BY <1>5, <2>1, <2>2
<1>6. CASE initClk("gen", "tick")
  <2>1. /\ "shm" \in objects /\ "gen" \notin pending \ handling
        /\ pc["gen"] = "attach" /\ pc'["gen"] = "tick"
        /\ pc'["clk"] = pc["clk"] /\ pc'["sched"] = pc["sched"]
    BY <1>6 DEF initClk
  <2>2. UNCHANGED <<signals, kernel, genData, schedData, faults>>
    BY <1>6 DEF initClk
  <2>3. QED
    BY <2>1, <2>2
<1>7. CASE GenRead
  BY <1>7, SessionAssumption DEF GenRead
<1>8. CASE GenUp
  <2>1. /\ DOMAIN pc' = Roles /\ pc["gen"] = "up"
        /\ pc'["gen"] = IF genClk = LastArrival THEN "wait" ELSE "spin"
        /\ pc'["clk"] = pc["clk"] /\ pc'["sched"] = pc["sched"]
    BY <1>8 DEF GenUp
  <2>2. UNCHANGED <<signals, objects, clk, genData, schedData, faults>>
    BY <1>8 DEF GenUp
  <2>3. QED
    BY <2>1, <2>2
<1>9. CASE GenSpin
  BY <1>9, SessionAssumption DEF GenSpin
<1>10. CASE GenWait
  BY <1>10, SessionAssumption DEF GenWait, Gone
<1>11. CASE ClearKill
  BY <1>11, SessionAssumption DEF ClearKill, Gone, Alive
<1>12. CASE ClearNoChild
  BY <1>12, SessionAssumption DEF ClearNoChild
<1>13. CASE ClearWait
  BY <1>13, SessionAssumption DEF ClearWait
<1>14. CASE ClearSem
  BY <1>14, SessionAssumption DEF ClearSem, Remove
<1>15. CASE ClearSemFails
  BY <1>15, SessionAssumption DEF ClearSemFails
<1>16. CASE ClearMsgq
  BY <1>16, SessionAssumption DEF ClearMsgq, Remove
<1>17. CASE GenInterrupted
  BY <1>17, SessionAssumption DEF GenInterrupted
<1>18. CASE ClkExec
  <2>1. /\ pc["clk"] = "forked" /\ pc'["clk"] = "semget"
        /\ pc'["gen"] = pc["gen"] /\ pc'["sched"] = pc["sched"]
    BY <1>18 DEF ClkExec
  <2>2. UNCHANGED <<signals, kernel, genData, schedData, faults>>
    BY <1>18 DEF ClkExec
  <2>3. QED
    BY <2>1, <2>2
<1>19. CASE ClkSetVal
  BY <1>19, SessionAssumption DEF ClkSetVal, Create
<1>20. CASE ClkSignal
  <2>1. /\ pc["clk"] = "signal" /\ pc'["clk"] = "shmget"
        /\ pc'["gen"] = pc["gen"] /\ pc'["sched"] = pc["sched"]
    BY <1>20 DEF ClkSignal
  <2>2. UNCHANGED <<signals, kernel, genData, schedData, faults>>
    BY <1>20 DEF ClkSignal
  <2>3. QED
    BY <2>1, <2>2
<1>21. CASE ClkShmget \/ ClkShmid
  <2>1. CASE ClkShmget
    <3>1. /\ pc["clk"] = "shmget" /\ pc'["clk"] = "shmid"
          /\ pc'["gen"] = pc["gen"] /\ pc'["sched"] = pc["sched"]
      BY <2>1 DEF ClkShmget
    <3>2. /\ objects' = objects \cup {"shm"}
          /\ "shm" \in objects => clk' = clk
          /\ UNCHANGED <<signals, genData, schedData, faults>>
      BY <2>1 DEF ClkShmget, Create
    <3>3. QED
      BY <3>1, <3>2
  <2>2. CASE ClkShmid
    BY <2>2, SessionAssumption DEF ClkShmid
  <2>3. QED
    BY <1>21, <2>1, <2>2
<1>22. CASE ClkReset
  BY <1>22, SessionAssumption DEF ClkReset
<1>23. CASE ClkTick
  BY <1>23, SessionAssumption DEF ClkTick
<1>24. CASE ClkInterrupted
  <2>1. CASE ClkCleanup
    BY <2>1, <1>24, SessionAssumption DEF ClkCleanup, Remove, TakenIn, ClkInterrupted
  <2>2. CASE ClkCopyInterrupted
    BY <2>2, <1>24, SessionAssumption DEF ClkCopyInterrupted, Gone, Alive, ClkInterrupted
  <2>3. QED
    BY <1>24, <2>1, <2>2 DEF ClkInterrupted
<1>25. CASE SchedExec
  BY <1>25, SessionAssumption DEF SchedExec
<1>26. CASE SchedSemget
  BY <1>26, SessionAssumption DEF SchedSemget, Create
<1>27. CASE initClk("sched", "signal")
  BY <1>27, SessionAssumption DEF initClk
<1>28. CASE SchedSignal
  BY <1>28, SessionAssumption DEF SchedSignal
<1>29. CASE SchedQueues \/ SchedStart
  <2>1. CASE SchedQueues
    BY <2>1, SessionAssumption DEF SchedQueues, Create
  <2>2. CASE SchedStart
    BY <2>2, SessionAssumption DEF SchedStart
  <2>3. QED
    BY <1>29, <2>1, <2>2
<1>30. CASE SchedRead
  BY <1>30, SessionAssumption DEF SchedRead
<1>31. CASE SchedDown
  BY <1>31, SessionAssumption DEF SchedDown
<1>32. CASE SchedDownFails
  BY <1>32, SessionAssumption DEF SchedDownFails
<1>33. CASE SchedBody
  BY <1>33, SessionAssumption DEF SchedBody
<1>34. CASE Crash
  BY <1>34, SessionAssumption DEF Crash
<1>35. CASE SchedSpin
  BY <1>35, SessionAssumption DEF SchedSpin
<1>36. CASE SchedLogs
  BY <1>36, SessionAssumption DEF SchedLogs
<1>37. CASE FreeAgain
  BY <1>37, SessionAssumption DEF FreeAgain
<1>38. CASE FreeFirst \/ FreeMark
  <2>1. CASE FreeFirst
    BY <2>1, SessionAssumption DEF FreeFirst
  <2>2. CASE FreeMark
    BY <2>2, SessionAssumption DEF FreeMark
  <2>3. QED
    BY <1>38, <2>1, <2>2
<1>39. CASE FreeQueues \/ FreeTwice
  <2>1. CASE FreeQueues
    BY <2>1, SessionAssumption DEF FreeQueues
  <2>2. CASE FreeTwice
    BY <2>2, SessionAssumption DEF FreeTwice
  <2>3. QED
    BY <1>39, <2>1, <2>2
<1>40. CASE SchedKilled
  BY <1>40, SessionAssumption DEF SchedKilled, SchedTakes
<1>41. CASE SchedCopyInterrupted
  BY <1>41, SessionAssumption DEF SchedCopyInterrupted, Gone, Alive
<1>42. CASE SIGINT_Handler
  BY <1>42, SessionAssumption DEF SIGINT_Handler, SchedTakes
<1>43. CASE SIGINT_HandlerNested
  BY <1>43, SessionAssumption DEF SIGINT_HandlerNested, SchedTakes, TakenIn
<1>44. CASE Interrupt
  BY <1>44, SessionAssumption, FaultsCount DEF Interrupt, Gone, Alive
<1>45. CASE KillAll
  BY <1>45, SessionAssumption, FaultsCount DEF KillAll
<1>46. CASE UNCHANGED vars
  BY <1>46, SessionAssumption DEF vars
<1> HIDE DEF ObjectsInv, Places, InOrder, Undisturbed, OldWord, Quiet
<1> QED
  BY <1>1, <1>2, <1>3, <1>4, <1>5, <1>6, <1>7, <1>8, <1>9, <1>10, <1>11, <1>12,
     <1>13, <1>14, <1>15, <1>16, <1>17, <1>18, <1>19, <1>20, <1>21, <1>22,
     <1>23, <1>24, <1>25, <1>26, <1>27, <1>28, <1>29, <1>30, <1>31, <1>32,
     <1>33, <1>34, <1>35, <1>36, <1>37, <1>38, <1>39, <1>40, <1>41, <1>42,
     <1>43, <1>44, <1>45, <1>46
     DEF Next, Generator, clearResources, Clock, Scheduler, freeAllResources, SchedInterrupted

(* What has been removed stays removed.                                    *)
LEMMA EmptiedStep ==
  ASSUME ObjectsInv, [Next]_vars
  PROVE  kills' = 0 \/ Quiet' => Emptied'
<1> USE DEF ObjectsInv, Places, InOrder, InHandler, CleanStart, Undisturbed,
            Quiet, Emptied, MakesNone, LeftOver, Making, Serving, Clearing, NoWord,
            WithWord, Starting, Looping, Roles, Move, At, Able, Go, signals,
            kernel, genData, schedData, faults
<1>1. CASE GenSignal \/ initMessageQueue
  <2>1. CASE GenSignal
    BY <2>1 DEF GenSignal
  <2>2. CASE initMessageQueue
    BY <2>2 DEF initMessageQueue, Create
  <2>3. QED
    BY <1>1, <2>1, <2>2
<1>2. CASE ForkClk \/ StoreClkPid
  <2>1. CASE ForkClk
    BY <2>1 DEF ForkClk
  <2>2. CASE StoreClkPid
    BY <2>2 DEF StoreClkPid
  <2>3. QED
    BY <1>2, <2>1, <2>2
<1>3. CASE ForkSched
  BY <1>3, ForkFacts
<1>4. CASE initClkSem \/ StoreSemId \/ initClk("gen", "tick") \/ GenRead
  <2>1. CASE initClkSem
    BY <2>1 DEF initClkSem, Create
  <2>2. CASE StoreSemId
    BY <2>2 DEF StoreSemId
  <2>3. CASE initClk("gen", "tick")
    BY <2>3 DEF initClk
  <2>4. CASE GenRead
    BY <2>4 DEF GenRead
  <2>5. QED
    BY <1>4, <2>1, <2>2, <2>3, <2>4
<1>5. CASE GenUp \/ GenSpin \/ GenWait
  <2>1. CASE GenUp
    <3>1. /\ pc["gen"] = "up" /\ pc'["gen"] \in {"wait", "spin"}
          /\ pc'["clk"] = pc["clk"] /\ pc'["sched"] = pc["sched"]
      BY <2>1 DEF GenUp
    <3>2. UNCHANGED <<signals, objects, clk, genData, schedData, faults>>
      BY <2>1 DEF GenUp
    <3>3. QED
      BY <3>1, <3>2
  <2>2. CASE GenSpin
    BY <2>2 DEF GenSpin
  <2>3. CASE GenWait
    BY <2>3 DEF GenWait, Gone
  <2>4. QED
    BY <1>5, <2>1, <2>2, <2>3
<1>6. CASE ClearKill \/ ClearNoChild \/ ClearWait \/ ClearSem \/ ClearSemFails \/ ClearMsgq
  <2>1. CASE ClearKill
    BY <2>1 DEF ClearKill, Gone, Alive
  <2>2. CASE ClearNoChild
    BY <2>2 DEF ClearNoChild
  <2>3. CASE ClearWait
    BY <2>3 DEF ClearWait
  <2>4. CASE ClearSem
    BY <2>4 DEF ClearSem, Remove
  <2>5. CASE ClearSemFails
    BY <2>5 DEF ClearSemFails
  <2>6. CASE ClearMsgq
    BY <2>6 DEF ClearMsgq, Remove
  <2>7. QED
    BY <1>6, <2>1, <2>2, <2>3, <2>4, <2>5, <2>6
<1>7. CASE GenInterrupted
  <2>1. /\ "gen" \in pending /\ pc'["gen"] \in {"failed", "kill"}
        /\ pc'["clk"] = pc["clk"] /\ pc'["sched"] = pc["sched"]
    BY <1>7 DEF GenInterrupted
  <2>2. pending' = pending \ {"gen"}
    BY <1>7 DEF GenInterrupted
  <2>3. UNCHANGED <<kernel, genData, schedData, faults>>
    BY <1>7 DEF GenInterrupted
  <2>4. QED
    BY <2>1, <2>2, <2>3
<1>8. CASE ClkExec \/ ClkSetVal \/ ClkSignal \/ ClkShmget \/ ClkShmid \/ ClkReset \/ ClkTick
  <2>1. CASE ClkExec
    BY <2>1 DEF ClkExec
  <2>2. CASE ClkSetVal
    BY <2>2 DEF ClkSetVal, Create
  <2>3. CASE ClkSignal
    BY <2>3 DEF ClkSignal
  <2>4. CASE ClkShmget
    BY <2>4 DEF ClkShmget, Create
  <2>5. CASE ClkShmid
    BY <2>5 DEF ClkShmid
  <2>6. CASE ClkReset
    BY <2>6 DEF ClkReset
  <2>7. CASE ClkTick
    BY <2>7 DEF ClkTick
  <2>8. QED
    BY <1>8, <2>1, <2>2, <2>3, <2>4, <2>5, <2>6, <2>7
<1>9. CASE ClkInterrupted
  <2>1. CASE ClkCleanup
    BY <2>1, <1>9 DEF ClkCleanup, Remove, TakenIn, ClkInterrupted
  <2>2. CASE ClkCopyInterrupted
    BY <2>2, <1>9 DEF ClkCopyInterrupted, Gone, Alive, ClkInterrupted
  <2>3. QED
    BY <1>9, <2>1, <2>2 DEF ClkInterrupted
<1>10. CASE SchedExec \/ SchedSemget \/ initClk("sched", "signal") \/ SchedSignal \/ SchedQueues \/ SchedStart \/ SchedRead
  <2>1. CASE SchedExec
    BY <2>1 DEF SchedExec
  <2>2. CASE SchedSemget
    BY <2>2 DEF SchedSemget, Create
  <2>3. CASE initClk("sched", "signal")
    BY <2>3 DEF initClk
  <2>4. CASE SchedSignal
    BY <2>4 DEF SchedSignal
  <2>5. CASE SchedQueues
    BY <2>5 DEF SchedQueues, Create
  <2>6. CASE SchedStart
    BY <2>6 DEF SchedStart
  <2>7. CASE SchedRead
    BY <2>7 DEF SchedRead
  <2>8. QED
    BY <1>10, <2>1, <2>2, <2>3, <2>4, <2>5, <2>6, <2>7
<1>11. CASE SchedDown
  BY <1>11 DEF SchedDown
<1>12. CASE SchedDownFails \/ SchedBody \/ Crash \/ SchedSpin \/ SchedLogs
  <2>1. CASE SchedDownFails
    BY <2>1 DEF SchedDownFails
  <2>2. CASE SchedBody
    BY <2>2 DEF SchedBody
  <2>3. CASE Crash
    BY <2>3 DEF Crash
  <2>4. CASE SchedSpin
    BY <2>4 DEF SchedSpin
  <2>5. CASE SchedLogs
    BY <2>5 DEF SchedLogs
  <2>6. QED
    BY <1>12, <2>1, <2>2, <2>3, <2>4, <2>5
<1>13. CASE FreeAgain \/ FreeFirst \/ FreeMark \/ FreeQueues \/ FreeTwice
  <2>1. CASE FreeAgain
    BY <2>1 DEF FreeAgain
  <2>2. CASE FreeFirst
    BY <2>2 DEF FreeFirst
  <2>3. CASE FreeMark
    BY <2>3 DEF FreeMark
  <2>4. CASE FreeQueues
    BY <2>4 DEF FreeQueues
  <2>5. CASE FreeTwice
    BY <2>5 DEF FreeTwice
  <2>6. QED
    BY <1>13, <2>1, <2>2, <2>3, <2>4, <2>5
<1>14. CASE SchedKilled \/ SchedCopyInterrupted \/ SIGINT_Handler \/ SIGINT_HandlerNested
  <2>1. CASE SchedKilled
    BY <2>1 DEF SchedKilled, SchedTakes
  <2>2. CASE SchedCopyInterrupted
    BY <2>2 DEF SchedCopyInterrupted, Gone, Alive
  <2>3. CASE SIGINT_Handler
    BY <2>3 DEF SIGINT_Handler, SchedTakes
  <2>4. CASE SIGINT_HandlerNested
    BY <2>4 DEF SIGINT_HandlerNested, SchedTakes, TakenIn
  <2>5. QED
    BY <1>14, <2>1, <2>2, <2>3, <2>4
<1>15. CASE Interrupt
  BY <1>15, FaultsCount DEF Interrupt, Gone, Alive
<1>16. CASE KillAll
  BY <1>16, FaultsCount DEF KillAll
<1>17. CASE UNCHANGED vars
  BY <1>17 DEF vars
<1> HIDE DEF ObjectsInv, Places, InOrder, InHandler, CleanStart, Undisturbed, Quiet, Emptied, MakesNone, LeftOver
<1> QED
  BY <1>1, <1>2, <1>3, <1>4, <1>5, <1>6, <1>7, <1>8, <1>9, <1>10, <1>11, <1>12,
     <1>13, <1>14, <1>15, <1>16, <1>17
     DEF Next, Generator, clearResources, Clock, Scheduler, freeAllResources, SchedInterrupted

(* ObjectsInv is inductive.                                                *)
THEOREM ObjectsInvHolds == Spec => []ObjectsInv
<1>1. Init => ObjectsInv
  <2>1. SUFFICES ASSUME Init PROVE ObjectsInv
    OBVIOUS
  <2>2. DOMAIN pc = Roles /\ pc["gen"] = "signal" /\ pc["clk"] = "none" /\ pc["sched"] = "none"
    BY <2>1 DEF Init, Roles
  <2>3. Places /\ Counted /\ InOrder /\ InHandler
    BY <2>1, <2>2 DEF Init, Places, Counted, InOrder, InHandler, Serving, Clearing, Starting, Looping
  <2>4. CleanStart
    BY <2>1, <2>2 DEF Init, CleanStart, Serving
  <2>5. Undisturbed
    BY <2>1, <2>2 DEF Init, Undisturbed, OldWord, Serving, Clearing, Looping, NoWord
  <2>6. Emptied
    BY <2>1, <2>2 DEF Init, Emptied, Clearing
  <2>7. QED
    BY <2>3, <2>4, <2>5, <2>6 DEF ObjectsInv
<1>2. ObjectsInv /\ [Next]_vars => ObjectsInv'
  BY PlacesStep, CountedStep, InOrderStep, InHandlerStep, CleanStep, UndisturbedStep, EmptiedStep
     DEF ObjectsInv
<1>3. QED
  BY <1>1, <1>2, PTL DEF Spec, Safety

(* The generator leaves no object in the kernel, for every number of       *)
(* interrupts and of killed sessions, at every point of the program: in a  *)
(* first session whatever happens, and in a later one that nobody          *)
(* interrupts and that has work after the tick of the last message.        *)
THEOREM NothingLeftHolds == Spec => []NothingLeft
<1>1. ObjectsInv => NothingLeft
  BY DEF ObjectsInv, NothingLeft, Emptied, Quiet
<1>2. QED
  BY <1>1, ObjectsInvHolds, PTL

(* The clock wipes out no credit of a first session: when it sets the      *)
(* semaphore to 0 nobody has raised it.                                    *)
THEOREM CreditsKeptHolds == Spec => CreditsKept
<1>1. ObjectsInv =>
        [kills = 0 /\ pc["clk"] = "semget" /\ pc'["clk"] = "signal" => semval = 0]_vars
  BY DEF ObjectsInv, CleanStart
<1>2. QED
  BY <1>1, ObjectsInvHolds, PTL DEF CreditsKept

===============================================================================
