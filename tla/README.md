# A verification project for the OS scheduler simulator

The program (`src/Scheduler`) simulates CPU scheduling with real Linux
processes. A *process generator* reads a file of processes and hands each one,
at its arrival time, to a *scheduler*, which gives them memory from a *buddy
allocator* and the CPU by one of four algorithms. A *clock* process counts
ticks in shared memory. This directory models that program in TLA+, checks the
models with TLC and proves part of what they say with TLAPS.

## Inventory

| Part | Code | State | Operations |
| --- | --- | --- | --- |
| Clock | `clk.c`, `headers.h` | one shared word | create and reset the word, increment it every 100 ms, remove it on SIGINT |
| Process generator | `process_generator.c` | process array, `currClk`, `processes_sent` | read the file in two passes; start the others; per tick: send what arrives, `up` the semaphore, spin until the next tick; after the last arrival: `up` by `SEM_UP_VAL`, wait for the scheduler, clean up |
| Scheduler loop | `scheduler.c` | PCBs, queue of the algorithm, `Memory_Buffer`, `finishedProcesses`, `currentPCB`, counters | per tick: read the clock, `down`, receive, finish and scan the buffer, pick, charge a tick, spin |
| SJF, HPF, RR, MLFL | `scheduler.c:502-1268` | as above, plus `quantum_passed`, levels, reconstruction buffer | differ in queue, preemption, quantum |
| Queues | `data_structures.c:17-264` | linked lists | FIFO, priority, multi-level |
| Buddy allocator | `data_structures.c:266-449` | `treeRoot` | `Allocate`, `Deallocate` |
| Child process | `process.c` | `remainingtime`, `currClk` | counts clock changes; stopped and continued by signals |
| Start, shutdown, signals | `main`, `clearResources`, `freeAllResources`, the SIGINT handlers | System V objects, heap | create and attach, store the ids, free everything, once |
| Logs and statistics | `scheduler.c:182-498` | two lists of lines | format, average, write |
| Helpers | `test_generator.c`, `test.c`, `Makefile` | | |

The clock, the generator, the scheduler and its children run concurrently. They
share the clock word (no lock), a System V semaphore (the generator's `up`
releases one iteration of the scheduler), a System V message queue (generator to
scheduler) and signals (scheduler to children, terminal to all). Hard to get
right are: copies of the clock that are stale when used; a tick that is missed
altogether; the change from one `up` per tick to one large `up` after the last
arrival; processes that wait for memory and are let in only when another
finishes; preemption of a process that is done but not yet finished; the return,
decided by two counters; list nodes that are read after they are freed or before
they are set; two counts of one process's work; Ctrl-C anywhere; kernel objects
that outlive a session; and the allocator after a long mix of sizes.
`PROJECT.json` lists each hazard at its line with the properties that cover it.

What makes each part correct:

* clock, generator, message queue: every process is sent once, at its arrival
  tick, and taken in that tick;
* scheduler: one process on the CPU; no process lost or admitted twice; CPU idle
  only when nobody waits; right choice per algorithm; nobody waits without bound;
  accounts add up; the program ends, and only when all is done and all memory free;
* queues: the lists hold the processes put into them, and no node is leaked or
  freed twice;
* allocator: blocks disjoint, large enough, inside memory, no leak, full
  coalescing, no refusal without reason;
* children: done when declared finished, one computing at a time, all ended;
* session: nobody's credit lost at the start, nothing freed twice or left behind
  at the end (but in two gaps of the handlers), ended when told to.

## Modules

| Module | Models | Notes |
| --- | --- | --- |
| `BuddyTree` | allocator as operators on a set of nodes | non-recursive, used by the proofs and by the scheduler |
| `BuddyAllocator` | processes that allocate and free | specification with invariants |
| `BuddyCode` | `nextPowerOf2`, `allocateRoot`, `allocateTree`, `Deallocate_` as written | recursive, TLC only; compared with `BuddyTree` |
| `Queues` | FIFO, priority and multi-level queue on sequences | |
| `TickEnv` | clock, generator, head and tail of the scheduler loop | one action per access to shared state |
| `TickServer` | `TickEnv` with the least a scheduler promises | abstract specification of the tick protocol |
| `ProcessLifecycle` | states of a process, one on the CPU | abstract specification of the scheduling |
| `Scheduler` | steps the algorithms share, and what holds for all | the refinement mappings to the two abstract specifications |
| `RoundRobin`, `HPF`, `SJF`, `MLFL` | the four algorithms | each instantiates the common steps |
| `SchedulerMain` | the whole program, algorithm chosen by `schedAlgorithm` | |
| `SchedulerTurns` | `SchedulerMain` with history variables | for the bounds on waiting, turns and inversion |
| `LinkedLists` | the list functions node by node on a heap with `malloc` and `free` | |
| `SchedulerHeap` | `SchedulerMain` with its lists on that heap | each step makes the list calls of the code in the code's order |
| `ChildProcess` | `SchedulerMain` with the children it forks, stops and continues | |
| `Session` | start, end, SIGINT and restart of clock, generator and scheduler | the scheduling is reduced to its loop |
| `InputFile` | the two passes of `readInputFile` | |
| `DataStructureProofs` | operators of `BuddyTree` and `Queues` | TLAPS: what they return and preserve |
| `BuddyAllocatorProofs`, `TickServerProofs`, `SessionProofs`, `InputFileProofs` | | TLAPS: invariants of the modules they are named for |
| `SchedulerMainProofs` | the steps the algorithms share, the algorithms, the program | TLAPS: common invariant, invariant per algorithm, refinement of `TickServer` |
| `SchedulerSafetyProofs` | the program while the scan loses nobody | TLAPS: nobody lost, memory, exit, times, refinement of `ProcessLifecycle`; the ticks add up |
| `ChildrenTurnsProofs` | `ChildProcess` and `SchedulerTurns` | TLAPS: the children's count, who computes, the bounds on turns and waiting |
| `MCBuddy`, `MCTick`, `MCFiles`, `MCMain`, `MCTurns`, `MCHeap`, `MCChild`, `MCSession`, `MCRecorded` | | instances for TLC; `MCFiles` holds the input files |

Several modules hold operators commented *Slip*. They are not used by any
specification: each is a definition with a plausible mistake in it, kept to see
that the property it is meant for notices the mistake (`PROJECT.json`,
`mutants`).

### State and actions

* A node of the buddy tree is a record of span and position in *half bytes*.
  The code serves a request of zero bytes by a node with `data = 0`; both
  children of a one byte node have the same `startIndx`, so bytes cannot tell
  them apart, half bytes can.
* `TickEnv` keeps `clk`, `sem` and `msgq` as shared state. `GenRead`, `GenSend`,
  `GenUp`, `GenSpin`, `GenFinal`, `GenExit` are the generator's loop and
  `SchedRead`, `SchedDown`, `SchedTake`, `SchedSpin`, `SchedExit` the
  scheduler's; `genClk` and `currClk` are their copies of the clock.
* In `Scheduler` the body of one iteration runs through the labels receive,
  dispatch, scan, quantum (RR and MLFL) and run. `ReceiveTooBig`,
  `ReceiveNoRoom` and `ReceiveAdmit` are the three outcomes of one turn of the
  receive loop, `Return`, `Idle`, `Continue` and `Finish` those of the test of
  `currentPCB`, `ScanAdmit` and `ScanSkip` one turn of the buffer scan,
  `PickNobody` and `Pick` its end, `Charge` the end of the iteration. Nothing
  between two labels touches shared state, so cutting the body there loses no
  interleaving.
* `ready` is the algorithm's queue. Multi-level feedback uses all its levels,
  the others level 0. `Demote` and `Shelve` are the end of a quantum above and in
  the last level. Once all levels are empty, `Refill` brings the processes of
  `reconstructing_buffer` back, one per step (label *refill*), and `Reconstruct`
  ends the iteration.
* `enqueuePriority` does not set `nextNode` of a node put into an empty queue.
  Every process has, under MLFL, one chunk for its node, which keeps the link it
  last had in the buffer: `staleNext`; `strayNode` is the node the buffer's list
  goes on with when it should end. When the code would walk there, the model goes
  to the label *broken* and stops, because what follows is undefined. The claim
  about the chunks is not taken on trust: it is `StaleNextRight` on the heap of
  `SchedulerHeap`.
* `input` is the file being run; Init chooses it among the files of the instance.
  A PCB records what changes: state, remaining time, start and finish time, block.
* In `ChildProcess`, `Fork` lets a new child run up to its first spin before its
  SIGSTOP arrives; `Signals` derives the stops and continues from the change of
  the PCB's state, as `saveProcessState` does.
* In `Session`, a process stands at the call it makes next; `pending` and
  `handling` are its SIGINT. A handler reads what main stores, so a call and the
  store of what it returns are two steps wherever a handler uses it: `ForkClk` and
  `StoreClkPid` (label *clk_pid*), `initClkSem` and `StoreSemId` (*semid*),
  `ClkShmget` and `ClkShmid` (*shmid*); so are the test of `freed_flag` and its
  setting, `FreeFirst` and `FreeMark` (*mark*), and the creation of the queues and
  the reading of `schedAlgorithm` (*start*), by which the handler chooses what to
  free. The history variable `gaps` records that SIGINT was taken at *mark* or at
  *shmid*, the two places after which the session keeps less than it promises.
  `FreeTwice` is a second run of `freeAllResources` over freed memory: it may end,
  crash or wait for ever. `KillAll` kills everybody and starts the program again
  with the kernel objects that are left.

### What is abstracted

* Messages are process numbers; the text of log lines, floating point and PIDs are
  left out. In `SchedulerMain`, `fork` and the signals appear as the state they
  leave; `ChildProcess` has the children themselves.
* In `SchedulerMain` a list is a sequence. `SchedulerHeap` shows that the lists on
  the heap are those sequences, with a C library that gives out the chunk freed
  last and leaves its third word alone, as glibc does for chunks of this size,
  although nodes are read after they were freed (the scan of the memory buffer)
  and links are left unset.
* Input files list their processes by arrival time, starting at tick 1 or later, as
  `test_generator.c` writes them, with a positive execution time and a priority
  that is a level. At least one process of a file can be admitted. The proofs about
  the scheduler assume less (`FileAssumption`): priorities are levels, times and
  sizes are not negative.
* In `TickEnv` and the modules above it everybody is attached before the first
  tick (the clock sleeps ten seconds for that); `Session` has the start.
* In `Session` an id that is still 0 belongs to no System V object (the kernel does
  give the id 0, to the first object it makes). The clock's `shmctl` and `exit` are
  one step, both in its handler; so are the generator's last `msgctl` and `exit`,
  since a SIGINT between them makes it wait for ever, as one just before does. Under
  HPF and SJF the handler finds no queue where the algorithm is to make one, and
  frees none. The store of `proc_msgq` needs no step of
  its own: a generator interrupted there waits for ever for a clock it has not got.

## Runs

Twelve runs; the first nine pass.

| Run | Instance | Shows |
| --- | --- | --- |
| `buddy` | 8 bytes, 4 processes, all sizes 0..8 | blocks disjoint and fitting; leaves are exactly what is held; refusals justified; the inductive invariant of the proofs; the recursive code agrees with the operators on every reachable tree (`CodeAgrees`) |
| `tick` | 3 processes, all arrivals in 1..4 | sent once and on time, taken on arrival, all taken, by any well-behaved scheduler |
| `mixed` | 3 processes of five profiles, arrivals 1..4, memory of 2 bytes, quantum 2, two levels, all algorithms | the scheduler's invariants (`NoProcessLost`, `AdmittedHoldMemory`, `WorkConserving`, `ExitComplete`, `TicksAddUp`, `TimesConsistent`, `RightOneRuns`), `StartTimeKept` (who has started keeps its start time and never starts again), and that the program implements `ProcessLifecycle` and `TickServer` |
| `turns` | 6 processes, memory for 4, quantum 2, all algorithms | RR: nobody waits longer than a quantum of each other process that fits, nobody loses the CPU within a quantum; MLFL: a more urgent level waits for one quantum at most; the program ends under all four |
| `heap` | 4 processes, memory of 4 bytes, quantum 1, all algorithms | no node leaked or freed twice, lists and buffer scan as the other modules take them, MLFL's stale links as `MLFL` predicts |
| `children` | 3 children, all algorithms | a finished process has done its work, one child computes at a time, every child ends |
| `session` | Ctrl-C up to twice at any moment, up to one kill of all and restart | queues freed once, nothing left in the kernel (but for what `gaps` accounts for), no credit lost, ends by itself, and when told to while running |
| `input` | all files of up to 4 lines | the two passes agree on plain files; no cell of the array is ever left unset |
| `recorded` | the shipped `bin/processes.txt`, 1024 bytes, quantum 5, 11 levels | the model reproduces finish times, blocks and idle cycles of the shipped logs of all four algorithms |
| `lost` | RR, SJF, HPF; four processes of two sizes | violation of `NoProcessLost` |
| `stale_link` | MLFL, two long processes | violation of `BufferSound` |
| `interrupt_ends` | Ctrl-C once while all run | violation of `InterruptEnds` |

### Bounds and why they are enough

* `buddy`: 8 bytes give four levels below the root (8, 4, 2, 1 and the empty
  block); four holders can fill two levels unevenly, so every case of the descent
  (two children, left only, right only, exact fit, full) occurs.
* `tick`: three processes give no, one or several arrivals in one tick, gaps, and
  arrivals after the semaphore's last `up`.
* `mixed`: memory for two small or one large process, so one or two can wait for
  memory; profiles make every pair preempt or not; one is too large; runtimes 3 and
  5 take a process through both levels and the reconstruction buffer. Files begin
  at tick 1: an earlier idle stretch is all a later first arrival adds. The front
  of the memory buffer always fits here when a later one does, which four processes
  of two sizes are needed to break: that is `lost`. So `NoProcessLost` in `mixed`
  says that nothing *else* loses a process.
* `turns`: six processes in memory for four: two wait for memory while four share
  the CPU, and newcomers from the buffer join meanwhile.
* Two levels (`LastLevel = 1`) instead of eleven give a first, a last and a step
  between them; `recorded` has all eleven. Quantum 1 and 2 are the smallest with
  and without a tick inside a quantum.
* `heap`: three equal processes that wait together for one that has all memory make
  the scan walk several freed nodes; runtime 5 makes a process re-enter the
  reconstruction buffer. `Chunks` (60) cuts nothing: no behaviour has
  more than 60 chunks in use, and a larger bound finds the same states.
* `session`: two interrupts reach a handler within a handler and a handler within
  the ordinary end, and two one after the other; what `FreedOnce` and `NothingLeft`
  say is proved for any number. One kill leaves any subset of objects that can be left.
* `input`: four lines have every pair of line kinds in first, inner and last place;
  the theorem covers all lengths.
* `MaxClk` stops the clock after the longest schedule of an instance, `SEM_UP_VAL`
  (10000 in the code) is above the ticks left in it, `MsgCap` is the number of
  processes (a System V queue holds some 290 of these messages). More messages in
  one tick than the queue takes, or a schedule longer than the credit, is a deadlock
  of the model as of the code.

Deadlock is checked except in `tick` (an abstract server may work for ever and
reach `MaxClk`), `heap` (MLFL may stop at *broken*), and `session` and
`interrupt_ends` (after a Ctrl-C at a bad moment processes do wait for ever).

### Prompt clock, fairness

The clock is not synchronised with its users (the code that would do so is
commented out). The code relies on 100 ms being long. `Prompt = TRUE` states that:
the clock ticks only when generator and scheduler (and, in `ChildProcess`, the
children) spin on it, are blocked, stopped or gone. Within a tick all
interleavings remain. `Settled` is the same for `Session`, where the clock also
sleeps ten seconds before its first tick. All runs assume it; without it a tick
may be missed and its arrivals never sent. What does not need it is proved
without it (`MessagesSentOnce`).

Liveness (`AllTaken`, `Termination`, `ChildrenEnd`, `EndsByItself`,
`InterruptHeeded`) assumes weak fairness of the clock, the generator, the scheduler
and each child as processes: the kernel runs each of them when it can run. Nothing
is assumed of single actions within a process, nor that anybody presses Ctrl-C.

## Proofs

Eight modules, checked by tlapm. Their theorems hold for every value of the
constants that the named assumptions allow.

**Allocator** (`DataStructureProofs`, `BuddyAllocatorProofs`): every power-of-two memory
size (`BuddyAssumption`: `Spans` are the sizes reached by halving), every set of
processes and every NULL that is not a node (`NullAssumption`). That blocks are
disjoint needs that they are leaves, that leaves are disjoint needs that two nodes
of the tree are nested or apart, and that freeing leaves no stray leaf needs that
whatever lies below a node lies below one of its children. `IndInv` says all that:
types; a `WellFormed` tree (inside the root, `Nested`, `Linked`); the leaves are
exactly the blocks held (`LeavesAreHeld`); one leaf per holder; each of the span its
request was rounded up to. A *spot* (missing child of an inner node, or the root of
the empty tree) is a node around which tree nodes either contain it, with a child
that does so too, or lie apart (`SpotIsFree`). The nodes `allocateRoot` adds are a
chain inside the spot (`ChainNodes`, `ChainInTree`), so growing keeps the tree well
formed and adds exactly one leaf (`GrowWellFormed`, `GrowLeaves`,
`AllocateCorrect`). Freeing keeps the nodes above another leaf, hence every link
below them (`DeallocateCorrect`). Theorems: `Inductive`, `TypeCorrect`,
`LeavesCorrect`, `Disjointness`, `Fits`.

`Refusals` (`RefusalJustified`) has two halves. An aligned block that touches no
leaf lies in a spot (`FreeBlockInSpot`): of the inner nodes around it take the least;
the half of it that is around the block is not in the tree. And where an eligible
spot exists the descent takes one (`EligibleServed`): `allocateTree` visits the spots
in an order that has a first element below every inner node (`FirstExists`, by a
least counterexample, since induction over the tree is out of reach). Both need
that a non-empty tree has the root and that positions are multiples of spans
(`TreeInv`, `TreeInvHolds`), which `IndInv` does not say.

**Tick protocol** (`TickServerProofs`), for every set of input files, any number of
processes and any credit:

* `MessagesSentOnce`: `ServerSafety => []SentOnce`, for every queue capacity and
  *any* speed of the clock. The generator starts over from the first line of the
  file at every tick; that it finds nothing twice needs `SentPast`: what was sent
  arrived no later than the generator's clock, was behind the place in the file if
  it arrived just then, and is of the past when a new tick is about to be read.
* `DueAreSent`: `ServerSafety => []AllDueSent`, if everybody is prompt and the queue
  has room for all (`Prompt`, `MsgCap >= N`). Invariant `SentExactly`: at each
  place of the loop, what has been sent is exactly what has arrived but for what the
  loop still has to come to; no tick is skipped.
* `TakenInItsTick`: `ServerSafety => TakenOnArrival` under the same two conditions.
  Invariant `LockStep`: within a tick the scheduler is first *behind* the
  semaphore, then *working* with a copy of the clock that is right, and the queue
  holds only this tick's processes.

Both conditions are needed: without the first a tick can be missed, without the
second generator and scheduler wait for each other over a tick.

**Session** (`SessionProofs`), for any number of interrupts and restarts:
`QueuesFreedOnce`, `Spec => []FreedOnce`: the queues are freed once; or, if SIGINT was
taken between the test of `freed_flag` and its setting, at most twice. `FreedInv`
counts what has been freed together with what is *due*, a freeing that the scheduler,
or the call it returns to after its handler, has decided on: there is one, and a
second only by way of that gap, since whoever tests the flag after it is set returns.
`NothingLeftHolds` (`NothingLeft`) and `CreditsKeptHolds` (`CreditsKept`) follow from
`ObjectsInv`. The first allows one object to be left, the segment of a clock that
took SIGINT before it had stored `shmid` (`LeftOver`).
`ObjectsInv` says that what the generator has removed nobody makes again (`Emptied`): when it
begins to clear, the scheduler has made its objects, or takes a SIGINT before it
can. On a clean kernel the shared word exists only while the clock does, so who has
passed `initClk` finds a semaphore that the clock has set already (`CleanStart`).
After a killed session the old word is there at once; then a session that nobody
interrupts removes everything if some process outlasts the tick of the last message
(`LastArrival < LastFinish`), because a scheduler that reads the old word waits for
it to change, and only this session's clock changes it (`OldWord`, `Undisturbed`).
That condition is needed: TLC shows both other cases.

**Input file** (`InputFileProofs`): `CountsAgree`, `Spec => []CountExact`, for files
of any length. `PassInv` equates each pass's count with the number of lines of its
kind among those read, and the theorem compares the two sets.

**Scheduler, whatever happens** (`SchedulerMainProofs`): for every
input file with priorities within the levels and no negative numbers
(`FileAssumption`), every number of processes, quantum, number of levels, memory
size and speed of the clock, all four algorithms, and even if the scan of the memory
buffer loses a process. `UsualInv` (`UsualInvHolds`) is `CommonInv`, shown step by
step for the steps the algorithms share, and a part for each algorithm:

* `CommonInv`: types; a `WellFormed` tree; whoever is in a list or on the CPU has
  been received and was not rejected (`OnlyReceived`); `process_count` is the file
  less the rejected, and `current_process_count` plus the length of the memory
  buffer is the number of accepted ones (`Counted`): that is why a comparison of two
  counters tells the algorithm that everything has come, and it survives a lost
  process because the scan dequeues once per admission; and `SentInv` of
  `TickServerProofs`, so that a message is never about a process already received.
* `RRInv`, `HPFInv`, `SJFInv`, `MLFLInv`: that the queues are sorted by their keys,
  that the process on the CPU is the front of its queue or level (RR, MLFL), no less
  urgent than anybody queued once the tick's finish has been dealt with (HPF), or was
  the shortest when it was picked (SJF); that a quantum is counted anew before it
  can be exceeded. For MLFL also that a refill of the levels, sorted as the buffer
  is, leaves its first process at the front of the first occupied level
  (`RefillInv`), and that a CPU left free at the end of a tick leaves an empty
  buffer (`IdleInv`).

Theorems: `TypesHold` (`MainTypeOK`), `RightOneHolds` (`RightOneRuns`) and
`ImplementsTickServer`: `MainSafety => ServesTicks`, every step of the program is one of `TickServer` or a stutter, so what
is proved of the tick protocol holds of the whole program.

**Scheduler, while nobody is lost** (`SchedulerSafetyProofs`). The run `lost` shows
that `NoProcessLost` is false in general. `ScanTakesFront` says exactly what goes
right in all other executions: the process the scan is about to admit is the front
of the buffer. `SafeInvHolds`, `MainSafety /\ []ScanTakesFront => []SafeInv`, where
`SafeInv` says that

* nobody is twice in a list or in two levels, and the scan walks processes that are
  still in the buffer (`ListsInv`);
* the state in a control block says where its process is, and *Running* is the one
  on the CPU (`StateInv`);
* an accepted process is in the levels or on the CPU, or waits for memory, or is in
  the feedback buffer, or is finished (`PlaceInv`);
* the leaves of the tree are the blocks of the admitted, one each, and nobody waits
  for memory while all of it is free, but for a scan that has just begun
  (`MemoryInv`): empty memory has room for all that fits (`RoomInEmpty`);
* a free CPU has empty queues, and after the return everybody has come and nobody
  waits (`RestInv`).

From it, under the same condition, `NobodyLost` (`NoProcessLost`), `MemoryHeldRight`
(`AdmittedHoldMemory`), `WorkConservingHolds` (`WorkConserving`), `ExitCompleteHolds`
(`ExitComplete`; a tree without leaves is empty, `NoLeafNoTree`), and
`LifecycleHolds`: each step of the program is a step of `ProcessLifecycle` or a
stutter. `StartTimesHold` (`StartTimeKept`) combines the two: by the lifecycle whoever
has started stays running, blocked or finished, and under RR and SJF no step sets the
start time of such a process (`StartKept`). It needs the condition: a process that
the scan lets in twice is set back to *Ready* and gets a second start time.
`SafeInOrder` discharges the condition for the files in which a process that
waits behind another never asks for a smaller block (`SizesInOrder`; what the buffer
is sorted by, `WaitKey`, depends on the algorithm: the execution time, the priority,
or under round robin one key for all, where the condition says that all blocks have
one size). The tree keeps its root (`Rooted`), so that a request is refused only when
no spot is large enough, and then every larger request is refused too
(`NoRoomForMore`); the buffer stays sorted; hence the scan is in step with the buffer
until there is no room for anybody it has left (`OrderInv`), and these six properties
hold of `MainSafety` as it is. The files of `turns` are of this kind, those of `mixed`
are not, and without the condition the run `lost` loses a process.

`TimesHold` (`TimesConsistent`) needs the clock as well: `Prompt` and a message queue
with room for all, so that a process is received in the tick in which it arrives
(`LockStepHolds`, `ReceivedOnTime`). `TimeInv` is about the tick that is to be charged
next (`Now`): nobody has been charged more ticks than have passed since he came, who
was charged his last tick started before now, and a process on the CPU has something
left while the scheduler is at one of the labels between the dispatch and the charge.
Each action is shown to do one of six things to each process (`TimelyStep`: it stays,
gets ready, gets the CPU, loses it, completes, is charged), and these keep `TimeInv`
(`TimelyKeeps`). `TimesInOrder` states it without the condition on the scan for files
with sizes in order.

`TicksAddUpHolds` (`TicksAddUp`) needs the clock, but not the condition on the scan.
`Busy` is a sum over all processes, written as a recursive function: that it has
exactly one value (`SumsExist`, `UsedIs`), and one more if one process has a tick
less left (`UsedMore`), is shown by least counterexamples. Each step of an algorithm
does one of four things to the counts (`CountStep`: nothing, an idle tick, a finish,
the end of a tick, charged or not), and these keep `CountingInv`, which says by how
much the count may be ahead or behind in the middle of a tick: one ahead after an
idle tick was counted at its beginning, one behind for each finished process, and
the finish that has just happened is not used up while the CPU is free. `InTick`
says that the scheduler's copy of the clock is right while it works (`WorksInTick`).

**Children** (`ChildrenTurnsProofs`): `DoneHolds` (`DoneWhenFinished`) and `OneHolds`
(`OneComputes`), if everybody is prompt, the children included, the queue has room
for all, and the scan admits the front it takes out. `ForkInv`: the state in the
control block says whether the child exists and whether it is stopped. `CountInv`:
the child is never behind the scheduler's count, but for the tick of the process on
the CPU that the child still has to count; it may be ahead, since what it counted
before it was preempted within a tick is charged to nobody. `ChildrenInOrder`
discharges the condition on the scan for files with sizes in order.

**Turns** (`ChildrenTurnsProofs`): for every speed of the clock.

* `InversionHolds` (`InversionBounded`): while a higher level is occupied the ticks of
  the current process and `quantum_passed` grow together (`InversionInv`), also after
  a reconstruction, which leaves `quantum_passed` as it was: too large if anything.
* `QuantumHolds` (`QuantumKept`): what has passed of a turn is a number of quanta and
  `quantum_passed` (`TurnInv`).
* `WaitHolds` (`BoundedWait`): at position *i* of the queue a process has waited for
  no more than a quantum of each process that may have been in front of it, and for
  what has passed of the current one (`WaitInv`). The queue is never longer than
  `Min({N, MemorySize})` (`RoundFits`): every process in it has a leaf of its own,
  and leaves of at least a byte start at different bytes. Hence the assumption
  `WholeBytes \/ N <= MemorySize`: requests of zero bytes get half a byte in the
  model, a node of size 0 in the code, and more of them fit. `WaitInOrder` is the
  same for files with sizes in order, without the condition on the scan.

Only model-checked: the agreement of the recursive code with `BuddyTree`
(`CodeAgrees`: `RECURSIVE` operators are out of the prover's reach); the lists on the
heap (`NodesAccounted`, `ListsIntact`, `ScanReadsIntact`, `StaleNextRight`: each step
folds a sequence of calls into the heap, and walks lists by recursive functions whose
value depends on the shape of the list, which calls for induction over data); what
the logs say (`RunsAsRecorded`, about one recorded run); and all liveness.

## Known departures

Where the code does other than it says. The first three are the violation runs and
were seen in the compiled program as well; the next two are gaps of a few
instructions, shown by TLC when `FreedOnce` and `NothingLeft` are checked without the
cases that `gaps` makes.

* **A process is lost** (`scheduler.c:633`, `785`, `931`, `1130`). The scan of the
  memory buffer admits the process it looks at but removes the front. With sizes
  512, 512, 512 and 1024 arriving together, process 3 is allocated twice and
  process 4 never runs.
* **The reconstruction buffer does not end** (`scheduler.c:1187`, from
  `data_structures.c:114`): two processes of priority 10 and runtime 6 under
  `-sch 4 -q 1` make the scheduler loop for ever.
* **Ctrl-C does not end the scheduler** (`scheduler.c:161`): its handler frees the
  queues and returns into a loop that waits for the clock, which has ended.
* **The queues are freed twice** (`scheduler.c:106`): a Ctrl-C that main takes between
  testing `freed_flag` and setting it makes the handler free everything, and main
  after it, although the test is there "to check if this function was entered more
  than once" (`scheduler.c:105`).
* **The clock leaves its segment** (`clk.c:38`): its handler is set before `shmid`
  has an id, so a Ctrl-C between the creation of the segment and the store ends the
  clock without removing it, although the handler is there to "clear the resources
  before exit" (`clk.c:12`); the generator only detaches from it.
* HPF and MLFL overwrite `startTime` when they resume a process
  (`scheduler.c:644`, `1167`, `1223`), although it is "changed only when the process
  starts for the first time" (`types.h`). `StartTimeKept` is about RR and SJF.
* Equal keys in a priority queue: the newcomer goes before the head but behind all
  others (`data_structures.c:124`). In RR's memory buffer, with one key for all, the
  front is thus the latest of those who wait.
* A process of execution time 0 that has to wait for the CPU is charged below zero
  and never finishes (`scheduler.c:663`). Of such a process `TimesConsistent` says neither that
  its remaining time is not negative nor that it finishes after the tick it starts in.
* SJF gives a free CPU to the first message of a tick, not to the shortest process
  of that tick (`scheduler.c:720`).
* The generator tests arrival times for equality with a polled clock: the arrivals
  of a tick it does not see are never sent (`process_generator.c:279`).
* After a reconstruction `quantum_passed` is left from the turn before, which makes
  that turn short (`scheduler.c:1254`). `QuantumKept` is about RR.
* `idle_cycles` counts one of several branches that leave the CPU idle, so the
  utilisation of the log is too high (`TicksAddUp` bounds the error).
* If all processes are rejected, `generateSchedulerPerf` dereferences NULL
  (`scheduler.c:470`).
* A child that reaches its loop before its first SIGSTOP counts that tick, and so
  ends one tick before the scheduler's count says so (`DoneWhenFinished` allows it).
* Ctrl-C before the clock has been forked and its pid stored, or while the generator already cleans up
  after an ordinary end, makes `clearResources` wait for ever for a child it does
  not have. A session started after a killed one runs on the stale clock word until
  the new clock resets it. `InterruptHeeded` and `NothingLeft` exclude just these.
* `readInputFile` counts line ends and stores lines: a last line without an end, or
  a process with a comment behind it, is stored beyond the array and never sent.

## Not modelled, and the plan

Not modelled: the text, files and floating point of logs and statistics (what they
are computed from is in `SchedulerMain`); a `fork` that fails; a priority outside
the levels, where the code's array access is undefined; blank lines in the input
file; messages left in the queue by a killed session; what SIGINT does to the
children; `test_generator.c`, `test.c` and the build.

Open: a proof about the lists on the heap.
