---------------------------- MODULE GoldfishTick ----------------------------
(***************************************************************************)
(* What the timer of the goldfish kernel has to bring about in the end: a  *)
(* turn for every task of the WRR class (task_tick_wrr(), called by        *)
(* scheduler_tick()), and a load average that follows the number of active *)
(* tasks (calc_load_account_active() and calc_global_load()).  The two     *)
(* share no state: a behaviour is one of them, the other stays as it       *)
(* starts, and each has its own fairness.                                  *)
(***************************************************************************)
EXTENDS GoldfishWrr, LoadAvg

VARIABLE part

tickVars == <<part, vars, loadAvgVars>>

TickInit == part \in {"wrr", "load"} /\ Init /\ LoadAvgInit

TickNext ==
  /\ UNCHANGED part
  /\ \/ part = "wrr" /\ Next /\ UNCHANGED loadAvgVars
     \/ part = "load" /\ LoadAvgNext /\ UNCHANGED vars

\* Timer interrupts keep coming, an interrupt's return path acts on
\* TIF_NEED_RESCHED, and a task that announced it will sleep or die goes on
\* to call schedule().  Nobody is forced to sleep, fork, exit or yield.
WrrFairness ==
  /\ WF_vars(part = "wrr" /\ scheduler_tick)
  /\ WF_vars(part = "wrr" /\ preempt_schedule)
  /\ WF_vars(part = "wrr" /\ schedule)

\* LoadAvgFairness while this is the part that moves
AverageFairness ==
  /\ WF_loadAvgVars(part = "load" /\ TimeStep)
  /\ \A c \in Cpus : /\ WF_loadAvgVars(part = "load" /\ CpuStep(c))
                     /\ WF_loadAvgVars(part = "load" /\ ExitIdle(c) /\ rq[c].nr_running > 0)

TickSpec == TickInit /\ [][TickNext]_tickVars /\ WrrFairness /\ AverageFairness
=============================================================================
