--------------------------- MODULE ProcessLifecycle ---------------------------
(***************************************************************************)
(* What every scheduling algorithm promises about a process: the states it *)
(* goes through, and that at no moment two processes have the CPU.  A      *)
(* process handed over to the scheduler is rejected for good, or waits for *)
(* memory, is ready, runs, may be blocked and run again, and finishes      *)
(* once.                                                                   *)
(***************************************************************************)
CONSTANT Procs

VARIABLE phase

Phases == {"unseen", "rejected", "waiting", "ready", "running", "blocked", "finished"}

Running == {p \in Procs : phase[p] = "running"}

Init == phase = [p \in Procs |-> "unseen"]

Reject(p) == phase[p] = "unseen" /\ phase' = [phase EXCEPT ![p] = "rejected"]

Defer(p) == phase[p] = "unseen" /\ phase' = [phase EXCEPT ![p] = "waiting"]

Admit(p) ==
  /\ phase[p] \in {"unseen", "waiting"}
  /\ phase' = [phase EXCEPT ![p] = "ready"]

(* A process may be admitted and given the CPU in one step.                *)
MayRun(p) == phase[p] \in {"unseen", "ready", "blocked"}

Run(p) ==
  /\ Running = {} /\ MayRun(p)
  /\ phase' = [phase EXCEPT ![p] = "running"]

Switch(p, q) ==
  /\ phase[p] = "running" /\ MayRun(q)
  /\ phase' = [phase EXCEPT ![p] = "blocked", ![q] = "running"]

(* The CPU is left without a process for a moment.                          *)
Block(p) == phase[p] = "running" /\ phase' = [phase EXCEPT ![p] = "blocked"]

Finish(p) == phase[p] = "running" /\ phase' = [phase EXCEPT ![p] = "finished"]

Next ==
  \E p \in Procs :
    \/ Reject(p) \/ Defer(p) \/ Admit(p) \/ Run(p) \/ Block(p) \/ Finish(p)
    \/ \E q \in Procs : Switch(p, q)

Spec == Init /\ [][Next]_phase

=============================================================================
