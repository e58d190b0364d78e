-------------------------------- MODULE Session --------------------------------
(***************************************************************************)
(* One session of the program, from the command line to the last process   *)
(* gone: who creates and who removes which System V object, what Ctrl-C    *)
(* (SIGINT to the foreground group) does to each process at each point,    *)
(* and what a session finds that was started after one was killed.         *)
(*                                                                         *)
(* The work of the scheduler is abstracted to its loop: SchedulerMain has  *)
(* it.  A process takes a signal before its next step; while it handles    *)
(* SIGINT, a further one is held back.  Where the signal can come between  *)
(* a call and what the process does about it (a test and the flag it sets, *)
(* a call and the store of the id it returns, on which the handler relies) *)
(* these are two steps; the two gaps that change what is promised are      *)
(* recorded in gaps.  An id that is still 0 belongs to no object.          *)
(***************************************************************************)
EXTENDS Integers

CONSTANTS SEM_UP_VAL,
          LastArrival,    \* tick of the last message
          LastFinish,     \* tick from which the algorithm may return
          MaxClk,         \* bound: the clock stops at this tick
          MaxInterrupts,  \* bound: how often Ctrl-C is pressed
          InterruptAt,    \* where the generator is when it is pressed
          MaxKills        \* bound: how often all processes are killed

ASSUME SessionAssumption ==
  /\ SEM_UP_VAL \in Nat \ {0}
  /\ LastArrival \in Nat /\ LastFinish \in Nat /\ MaxClk \in Nat
  /\ LastArrival <= LastFinish /\ LastFinish < MaxClk
  /\ MaxInterrupts \in Nat /\ MaxKills \in Nat

Roles == {"gen", "clk", "sched"}

VARIABLES pc,           \* where each process is in its main: at the call it makes next
          handling,    \* who is in its SIGINT handler
          pending,     \* who has a SIGINT it has not taken
          objects,     \* System V objects in the kernel
          semval, clk, \* the value of the semaphore and of the shared word
          clk_pid, clk_sem_id, \* the generator has stored the ids of these
          reaped,      \* the clock has been waited for
          genClk, currClk,
          freed_flag,  \* of freeAllResources
          queues,      \* the scheduler's queues: "none", "live" or "freed"
          frees,       \* how often they have been freed
          resume,      \* where the scheduler goes on after its handler
          interrupts, kills,
          gaps         \* history: in which gaps a SIGINT has been taken

kernel  == <<objects, semval, clk>>
signals == <<handling, pending>>
genData == <<clk_pid, clk_sem_id, reaped, genClk>>
schedData == <<currClk, freed_flag, queues, frees, resume>>
faults  == <<interrupts, kills, gaps>>
vars    == <<pc, signals, kernel, genData, schedData, faults>>

Init ==
  /\ pc = [r \in Roles |-> IF r = "gen" THEN "signal" ELSE "none"]
  /\ handling = {} /\ pending = {}
  /\ clk_pid = FALSE /\ clk_sem_id = FALSE /\ reaped = FALSE /\ genClk = 0
  /\ currClk = 0 /\ freed_flag = FALSE /\ queues = "none" /\ frees = 0
  /\ resume = "exited"
  /\ objects = {} /\ semval = 0 /\ clk = 0
  /\ interrupts = 0 /\ kills = 0 /\ gaps = {}

Gone(r)  == pc[r] \in {"none", "exited", "failed"}
Alive    == {r \in Roles : ~Gone(r)}
Able(r)  == r \notin pending \ handling
At(r, label) == Able(r) /\ pc[r] = label
Go(r, label) == pc' = [pc EXCEPT ![r] = label]
Move(r, from, to) == At(r, from) /\ Go(r, to)

Create(object) == objects' = objects \cup {object}
Remove(object) == objects' = objects \ {object}
TakenIn(r, gap) == gaps' = IF pc[r] = gap THEN gaps \cup {gap} ELSE gaps

-----------------------------------------------------------------------------
(* The generator: process_generator.c, main.                               *)

GenSignal ==
  /\ Move("gen", "signal", "msgget")
  /\ UNCHANGED <<signals, kernel, genData, schedData, faults>>

initMessageQueue ==
  /\ Move("gen", "msgget", "fork clk")
  /\ Create("msgq")
  /\ UNCHANGED <<signals, semval, clk, genData, schedData, faults>>

(* The forked copy still has the generator's handler until it calls execv. *)
ForkClk ==
  /\ At("gen", "fork clk")
  /\ pc' = [pc EXCEPT !.gen = "clk_pid", !.clk = "forked"]
  /\ UNCHANGED <<signals, kernel, genData, schedData, faults>>

StoreClkPid ==
  /\ Move("gen", "clk_pid", "fork sched")
  /\ clk_pid' = TRUE
  /\ UNCHANGED <<signals, kernel, clk_sem_id, reaped, genClk, schedData, faults>>

ForkSched ==
  /\ At("gen", "fork sched")
  /\ pc' = [pc EXCEPT !.gen = "semget", !.sched = "forked"]
  /\ UNCHANGED <<signals, kernel, genData, schedData, faults>>

initClkSem ==
  /\ Move("gen", "semget", "semid")
  /\ Create("sem")
  /\ semval' = IF "sem" \in objects THEN semval ELSE 0
  /\ UNCHANGED <<signals, clk, genData, schedData, faults>>

StoreSemId ==
  /\ Move("gen", "semid", "attach")
  /\ clk_sem_id' = TRUE
  /\ UNCHANGED <<signals, kernel, clk_pid, reaped, genClk, schedData, faults>>

(* Slip: the clock is not waited for (its word is taken to be there).      *)
initClkNoWait(r, next) ==
  /\ Move(r, "attach", next)
  /\ UNCHANGED <<signals, kernel, genData, schedData, faults>>

(* Waits for the shared word, as a sign that the clock exists.             *)
initClk(r, next) ==
  /\ Move(r, "attach", next)
  /\ "shm" \in objects
  /\ UNCHANGED <<signals, kernel, genData, schedData, faults>>

GenRead ==
  /\ Move("gen", "tick", "up")
  /\ genClk' = clk
  /\ UNCHANGED <<signals, kernel, clk_pid, clk_sem_id, reaped, schedData, faults>>

(* Slip: after the last message the scheduler gets no more than before.    *)
GenUpOne ==
  /\ At("gen", "up")
  /\ Go("gen", IF genClk = LastArrival THEN "wait" ELSE "spin")
  /\ semval' = semval + 1
  /\ UNCHANGED <<signals, objects, clk, genData, schedData, faults>>

(* Where the scheduler is due to run on by itself, it gets the credit.     *)
GenUp ==
  /\ At("gen", "up")
  /\ IF genClk = LastArrival
       THEN Go("gen", "wait") /\ semval' = semval + SEM_UP_VAL
       ELSE Go("gen", "spin") /\ semval' = semval + 1
  /\ UNCHANGED <<signals, objects, clk, genData, schedData, faults>>

GenSpin ==
  /\ Move("gen", "spin", "tick")
  /\ clk # genClk
  /\ UNCHANGED <<signals, kernel, genData, schedData, faults>>

(* waitpid(scheduler) has returned: clearResources(0), outside the handler. *)
GenWait ==
  /\ Move("gen", "wait", "kill")
  /\ Gone("sched")
  /\ UNCHANGED <<signals, kernel, genData, schedData, faults>>

(* clearResources.  Until the clock is forked and its id stored, clk_pid   *)
(* is 0, and kill reaches the whole group.                                 *)
ClearKill ==
  /\ Move("gen", "kill", "wait clk")
  /\ pending' = pending \cup (IF clk_pid THEN {"clk"} \cap Alive ELSE Alive)
  /\ UNCHANGED <<handling, kernel, genData, schedData, faults>>

(* waitpid fails, for ever, without a child to wait for; and if it waits   *)
(* for any child of the group, it never returns the 0 that is waited for.  *)
ClearNoChild ==
  /\ Move("gen", "wait clk", "stuck")
  /\ reaped \/ ~clk_pid
  /\ UNCHANGED <<signals, kernel, genData, schedData, faults>>

(* Slip: clearResources does not wait for the clock.                       *)
ClearWaitNot ==
  /\ Move("gen", "wait clk", "rm sem")
  /\ clk_pid /\ ~reaped
  /\ reaped' = TRUE
  /\ UNCHANGED <<signals, kernel, clk_pid, clk_sem_id, genClk, schedData, faults>>

ClearWait ==
  /\ Move("gen", "wait clk", "rm sem")
  /\ clk_pid /\ ~reaped /\ pc["clk"] = "exited"
  /\ reaped' = TRUE
  /\ UNCHANGED <<signals, kernel, clk_pid, clk_sem_id, genClk, schedData, faults>>

ClearSem ==
  /\ Move("gen", "rm sem", "rm msgq")
  /\ clk_sem_id /\ Remove("sem")
  /\ UNCHANGED <<signals, semval, clk, genData, schedData, faults>>

(* destroySem with an id that is still 0: semctl fails, exit(-1).          *)
ClearSemFails ==
  /\ Move("gen", "rm sem", "failed")
  /\ ~clk_sem_id
  /\ UNCHANGED <<signals, kernel, genData, schedData, faults>>

ClearMsgq ==
  /\ Move("gen", "rm msgq", "exited")
  /\ Remove("msgq")
  /\ UNCHANGED <<signals, semval, clk, genData, schedData, faults>>

(* Slip: a further SIGINT is not held back.                                *)
GenInterruptedAgain ==
  /\ "gen" \in pending \ handling
  /\ Go("gen", IF pc["gen"] = "signal" THEN "failed" ELSE "kill")
  /\ pending' = pending \ {"gen"}
  /\ UNCHANGED <<handling, kernel, genData, schedData, faults>>

(* SIGINT kills the generator until it has set its handler.                *)
GenInterrupted ==
  /\ "gen" \in pending \ handling
  /\ IF pc["gen"] = "signal"
       THEN Go("gen", "failed") /\ UNCHANGED handling
       ELSE Go("gen", "kill") /\ handling' = handling \cup {"gen"}
  /\ pending' = pending \ {"gen"}
  /\ UNCHANGED <<kernel, genData, schedData, faults>>

clearResources ==
  ClearKill \/ ClearNoChild \/ ClearWait \/ ClearSem \/ ClearSemFails \/ ClearMsgq

Generator ==
  \/ GenSignal \/ initMessageQueue \/ ForkClk \/ StoreClkPid \/ ForkSched
  \/ initClkSem \/ StoreSemId \/ initClk("gen", "tick") \/ GenRead \/ GenUp \/ GenSpin
  \/ GenWait \/ clearResources \/ GenInterrupted

-----------------------------------------------------------------------------
(* The clock: clk.c, main and cleanup.                                     *)

ClkExec ==
  /\ Move("clk", "forked", "semget")
  /\ UNCHANGED <<signals, kernel, genData, schedData, faults>>

ClkSetVal ==
  /\ Move("clk", "semget", "signal")
  /\ Create("sem") /\ semval' = 0
  /\ UNCHANGED <<signals, clk, genData, schedData, faults>>

ClkSignal ==
  /\ Move("clk", "signal", "shmget")
  /\ UNCHANGED <<signals, kernel, genData, schedData, faults>>

(* A segment that is there already keeps its word.                         *)
ClkShmget ==
  /\ Move("clk", "shmget", "shmid")
  /\ Create("shm")
  /\ clk' = IF "shm" \in objects THEN clk ELSE 0
  /\ UNCHANGED <<signals, semval, genData, schedData, faults>>

ClkShmid ==
  /\ Move("clk", "shmid", "reset")
  /\ UNCHANGED <<signals, kernel, genData, schedData, faults>>

ClkReset ==
  /\ Move("clk", "reset", "ticking")
  /\ clk' = 0
  /\ UNCHANGED <<signals, objects, semval, genData, schedData, faults>>

(* The clock sleeps 10 s before its first tick and 100 ms before each: by  *)
(* then the others wait for it, or for each other, or are gone.            *)
Settled ==
  /\ \/ pc["gen"] = "spin" /\ genClk = clk
     \/ pc["gen"] = "wait" /\ ~Gone("sched")
     \/ pc["gen"] \in {"exited", "failed", "stuck"}
  /\ \/ pc["sched"] = "spin" /\ currClk = clk
     \/ pc["sched"] = "down" /\ semval = 0
     \/ pc["sched"] \in {"exited", "stuck"}

ClkTick ==
  /\ At("clk", "ticking") /\ clk < MaxClk /\ Settled
  /\ clk' = clk + 1
  /\ UNCHANGED <<pc, signals, objects, semval, genData, schedData, faults>>

(* SIGINT ends the clock.  Until it has set its handler, and while shmid   *)
(* is 0, nothing is removed, be the segment there or not.                  *)
ClkCleanup ==
  /\ pc["clk"] \notin {"none", "forked", "exited", "stuck"}
  /\ IF pc["clk"] \in {"reset", "ticking"} THEN Remove("shm") ELSE UNCHANGED objects
  /\ Go("clk", "exited")
  /\ TakenIn("clk", "shmid")
  /\ pending' = pending \ {"clk"}
  /\ UNCHANGED <<handling, semval, clk, genData, schedData, interrupts, kills>>

(* In the forked copy it is clearResources that runs, with clk_pid 0: it   *)
(* signals the group, and waits for children that it has not.              *)
ClkCopyInterrupted ==
  /\ pc["clk"] = "forked"
  /\ Go("clk", "stuck")
  /\ handling' = handling \cup {"clk"}
  /\ pending' = Alive \ {"clk"}
  /\ UNCHANGED <<kernel, genData, schedData, faults>>

ClkInterrupted == "clk" \in pending \ handling /\ (ClkCleanup \/ ClkCopyInterrupted)

Clock ==
  \/ ClkExec \/ ClkSetVal \/ ClkSignal \/ ClkShmget \/ ClkShmid \/ ClkReset
  \/ ClkTick \/ ClkInterrupted

-----------------------------------------------------------------------------
(* The scheduler: scheduler.c, main, with a loop that stands for any       *)
(* algorithm's.                                                            *)

SchedExec ==
  /\ Move("sched", "forked", "semget")
  /\ UNCHANGED <<signals, kernel, genData, schedData, faults>>

SchedSemget ==
  /\ Move("sched", "semget", "attach")
  /\ Create("sem")
  /\ semval' = IF "sem" \in objects THEN semval ELSE 0
  /\ UNCHANGED <<signals, clk, genData, schedData, faults>>

SchedSignal ==
  /\ Move("sched", "signal", "queues")
  /\ UNCHANGED <<signals, kernel, genData, schedData, faults>>

(* createQueue and the like, and getProcessMessageQueue; a SIGINT among    *)
(* these is as one before them, since the handler crashes.                 *)
SchedQueues ==
  /\ Move("sched", "queues", "start")
  /\ Create("msgq")
  /\ queues' = "live"
  /\ UNCHANGED <<signals, semval, clk, genData, currClk, freed_flag, frees, resume, faults>>

(* The algorithm is read from the arguments, and creates its own queue.    *)
SchedStart ==
  /\ Move("sched", "start", "read")
  /\ UNCHANGED <<signals, kernel, genData, schedData, faults>>

SchedRead ==
  /\ Move("sched", "read", "down")
  /\ currClk' = clk
  /\ UNCHANGED <<signals, kernel, genData, freed_flag, queues, frees, resume, faults>>

SchedDown ==
  /\ Move("sched", "down", "body")
  /\ "sem" \in objects /\ semval > 0
  /\ semval' = semval - 1
  /\ UNCHANGED <<signals, objects, clk, genData, schedData, faults>>

(* The semaphore has been removed: semop fails, exit(-1).                  *)
SchedDownFails ==
  /\ Move("sched", "down", "exited")
  /\ "sem" \notin objects
  /\ UNCHANGED <<signals, kernel, genData, schedData, faults>>

(* The loop body, and the logs, walk the queues; if those have been freed, *)
(* that may as well crash.                                                 *)
Crash ==
  /\ At("sched", "body") \/ At("sched", "logs")
  /\ queues = "freed"
  /\ Go("sched", "exited")
  /\ UNCHANGED <<signals, kernel, genData, schedData, faults>>

SchedBody ==
  /\ Move("sched", "body", IF currClk >= LastFinish THEN "logs" ELSE "spin")
  /\ UNCHANGED <<signals, kernel, genData, schedData, faults>>

SchedSpin ==
  /\ Move("sched", "spin", "read")
  /\ clk # currClk
  /\ UNCHANGED <<signals, kernel, genData, schedData, faults>>

SchedLogs ==
  /\ Move("sched", "logs", "free")
  /\ resume' = "exited"
  /\ UNCHANGED <<signals, kernel, genData, currClk, freed_flag, queues, frees, faults>>

(* freeAllResources: a second call returns at once.                        *)
FreeAgain ==
  /\ At("sched", "free") /\ freed_flag
  /\ Go("sched", resume)
  /\ handling' = handling \ {"sched"}
  /\ resume' = "exited"
  /\ UNCHANGED <<pending, kernel, genData, currClk, freed_flag, queues, frees, faults>>

(* The test of the flag, and its setting: a SIGINT between the two finds   *)
(* the flag as it was.                                                     *)
FreeFirst ==
  /\ Move("sched", "free", "mark") /\ ~freed_flag
  /\ UNCHANGED <<signals, kernel, genData, schedData, faults>>

(* Slip: the flag is not set.                                              *)
FreeMarkNot ==
  /\ Move("sched", "mark", "freeing")
  /\ UNCHANGED <<signals, kernel, genData, schedData, faults>>

FreeMark ==
  /\ Move("sched", "mark", "freeing")
  /\ freed_flag' = TRUE
  /\ UNCHANGED <<signals, kernel, genData, currClk, queues, frees, resume, faults>>

FreeQueues ==
  /\ At("sched", "freeing")
  /\ Go("sched", resume)
  /\ queues' = "freed" /\ frees' = frees + 1
  /\ handling' = handling \ {"sched"}
  /\ resume' = "exited"
  /\ UNCHANGED <<pending, kernel, genData, currClk, freed_flag, faults>>

(* Freeing what is free already need not come to its end: it may crash, or *)
(* wait for ever for a child that has been waited for.                     *)
FreeTwice ==
  /\ At("sched", "freeing") /\ queues = "freed"
  /\ Go("sched", "exited") \/ Go("sched", "stuck")
  /\ frees' = frees + 1
  /\ UNCHANGED <<signals, kernel, genData, currClk, freed_flag, queues, resume, faults>>

freeAllResources == FreeAgain \/ FreeFirst \/ FreeMark \/ FreeQueues \/ FreeTwice

SchedTakes(label) ==
  /\ "sched" \in pending \ handling
  /\ Go("sched", label)
  /\ pending' = pending \ {"sched"}

(* SIGINT kills the scheduler until it has set its handler; and that       *)
(* crashes on the queue of round robin, which stands for the algorithm     *)
(* until the arguments are read, or on that of multi-level feedback, when  *)
(* it has not been created.                                                *)
SchedKilled ==
  /\ pc["sched"] \in {"semget", "attach", "signal", "queues", "start"}
  /\ SchedTakes("exited")
  /\ UNCHANGED <<handling, kernel, genData, schedData, faults>>

(* In the forked copy it is clearResources that runs; the clock is not the *)
(* copy's child.                                                           *)
SchedCopyInterrupted ==
  /\ pc["sched"] = "forked"
  /\ "sched" \in pending \ handling
  /\ Go("sched", "stuck")
  /\ handling' = handling \cup {"sched"}
  /\ pending' = (pending \ {"sched"}) \cup ({"clk"} \cap Alive)
  /\ UNCHANGED <<kernel, genData, schedData, faults>>

(* SIGINT_Handler, from wherever the loop is; if that is a down that waits, *)
(* semop fails after the handler and down exits.  The queues of HPF and    *)
(* SJF need not be there.                                                  *)
SIGINT_Handler ==
  /\ pc["sched"] \in {"start", "read", "down", "body", "spin", "logs"}
  /\ SchedTakes("free")
  /\ handling' = handling \cup {"sched"}
  /\ \/ resume' = pc["sched"]
     \/ pc["sched"] = "down" /\ semval = 0 /\ resume' = "exited"
  /\ UNCHANGED <<kernel, genData, currClk, freed_flag, queues, frees, faults>>

(* The same while main is in freeAllResources: the outer call goes on      *)
(* after the inner one has returned.                                       *)
SIGINT_HandlerNested ==
  /\ pc["sched"] \in {"free", "mark", "freeing"}
  /\ SchedTakes("free")
  /\ handling' = handling \cup {"sched"}
  /\ resume' = pc["sched"]
  /\ TakenIn("sched", "mark")
  /\ UNCHANGED <<kernel, genData, currClk, freed_flag, queues, frees, interrupts, kills>>

SchedInterrupted ==
  SchedKilled \/ SchedCopyInterrupted \/ SIGINT_Handler \/ SIGINT_HandlerNested

Scheduler ==
  \/ SchedExec \/ SchedSemget \/ initClk("sched", "signal") \/ SchedSignal
  \/ SchedQueues \/ SchedStart \/ SchedRead \/ SchedDown \/ SchedDownFails \/ SchedBody \/ Crash \/ SchedSpin
  \/ SchedLogs \/ freeAllResources \/ SchedInterrupted

-----------------------------------------------------------------------------
(* The environment.                                                        *)

(* Ctrl-C.                                                                 *)
Interrupt ==
  /\ interrupts < MaxInterrupts
  /\ pc["gen"] \in InterruptAt
  /\ interrupts' = interrupts + 1
  /\ pending' = pending \cup Alive
  /\ UNCHANGED <<pc, handling, kernel, genData, schedData, kills, gaps>>

(* The terminal is closed, or everything killed; what is in the kernel     *)
(* stays, and the program is started again.                                *)
KillAll ==
  /\ kills < MaxKills /\ pc["gen"] \notin {"exited", "failed"}
  /\ kills' = kills + 1
  /\ pc' = [r \in Roles |-> IF r = "gen" THEN "signal" ELSE "none"]
  /\ handling' = {} /\ pending' = {}
  /\ clk_pid' = FALSE /\ clk_sem_id' = FALSE /\ reaped' = FALSE /\ genClk' = 0
  /\ currClk' = 0 /\ freed_flag' = FALSE /\ queues' = "none" /\ frees' = 0
  /\ resume' = "exited" /\ gaps' = {}
  /\ UNCHANGED <<kernel, interrupts>>

Over == \A r \in Roles : Gone(r)

Next == Generator \/ Clock \/ Scheduler \/ Interrupt \/ KillAll

Safety == Init /\ [][Next]_vars

(* The kernel runs every process that can run; nobody needs press Ctrl-C.  *)
Spec == Safety /\ WF_vars(Generator) /\ WF_vars(Clock) /\ WF_vars(Scheduler)

-----------------------------------------------------------------------------
(* Nobody's credit is wiped out: when the clock sets the semaphore to 0,   *)
(* it has that value, since who gives credit has made sure that "the clock *)
(* exists" (initClk, headers.h).  That is so on a clean kernel: after a    *)
(* killed session its shared word passes for a clock.                      *)
CreditsKept ==
  [][kills = 0 /\ pc["clk"] = "semget" /\ pc'["clk"] = "signal" => semval = 0]_vars

(* Main and the handler do not both free the queues, unless main was       *)
(* interrupted just between testing freed_flag and setting it; and even    *)
(* then nobody frees them a third time.                                    *)
FreedOnce == frees <= IF "mark" \in gaps THEN 2 ELSE 1

(* The generator, the last to leave, leaves no object in the kernel, be it *)
(* its own or one that it found there after a session that was killed.     *)
(* The one exception is the segment of a clock that was told to end before *)
(* it had stored shmid.  A session started after a killed one may leave    *)
(* more if it is interrupted, or if the scheduler has no work at all after *)
(* the tick of the last message: then both take the old shared word for    *)
(* that tick, and are through before the clock has got to it.              *)
LeftOver == IF "shmid" \in gaps THEN {"shm"} ELSE {}

NothingLeft ==
  /\ pc["gen"] = "exited"
  /\ kills = 0 \/ (interrupts = 0 /\ LastArrival < LastFinish)
  => objects \subseteq LeftOver

(* A session nobody interrupts ends with every process.                    *)
EndsByItself == <>(interrupts > 0 \/ kills > 0 \/ Over)

(* Whatever else happens, a generator that is told to end while it runs    *)
(* its loop, or waits for the scheduler, ends: it has both children then.  *)
InterruptHeeded ==
  (pc["gen"] \in {"tick", "up", "spin", "wait"} /\ "gen" \in pending)
    ~> (Gone("gen") \/ kills > 0)

(* Ctrl-C ends every process: clearResources "destroys the clock and       *)
(* signals all child processes to terminate" (process_generator.c).        *)
InterruptEnds == (interrupts > 0) ~> Over

=============================================================================
