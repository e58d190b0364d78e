------------------------------- MODULE MCSession -------------------------------
(* Instances of one session: when Ctrl-C is considered.                    *)
EXTENDS Session

Anytime == {"signal", "msgget", "fork clk", "clk_pid", "fork sched", "semget", "semid", "attach",
            "tick", "up", "spin", "wait", "kill", "wait clk", "rm sem", "rm msgq"}
WhileRunning == {"tick", "up", "spin", "wait"}
===============================================================================
