----------------------------- MODULE LoadTegra -----------------------------
(***************************************************************************)
(* The global load average of the tegra kernel (kernel/sched.c), which has *)
(* one idle counter and no sample window: each CPU's change since its last *)
(* sample goes into calc_load_tasks, or into calc_load_tasks_idle when it  *)
(* stops its tick, and any other CPU's sample folds that in.  CPUs leave   *)
(* and come back.  Every step is one access to what the CPUs share.  Times *)
(* are relative to jiffies.                                                *)
(***************************************************************************)
EXTENDS Integers, FiniteSets, Functions

CONSTANTS
  LoadCpus,
  LoadPeriod, Late,       \* ticks between samples; ticks (10) the average comes after them
  MaxJump,               \* ticks jiffies may advance at once when every CPU is idle
  MaxActive, MaxTaskChanges, MaxPeriods, MaxHotplug \* bounds

ASSUME LoadAssumption ==
  /\ IsFiniteSet(LoadCpus)
  /\ LoadPeriod \in Nat \ {0} /\ Late \in Nat /\ MaxJump \in Nat

VARIABLES
  cpuLoad,               \* nr_running, nr_uninterruptible, calc_load_active, update, nohz, online
  folding,               \* what a CPU has folded and not yet added
  load_tasks, load_tasks_idle, load_update,
  keeper,           \* where do_timer() is, and the ticks it was called with
  blocked,          \* tasks in uninterruptible sleep
  budget            \* what is left of the bounds

globalVars == <<load_tasks, load_tasks_idle, load_update>>
loadTegraVars == <<cpuLoad, folding, globalVars, keeper, blocked, budget>>

ActiveOf(r) == r.nr_running + r.nr_uninterruptible
Online == {c \in LoadCpus : cpuLoad[c].online}
RunnableOn == [c \in LoadCpus |-> cpuLoad[c].nr_running]
Runnable == SumFunctionOnSet(RunnableOn, LoadCpus)
NoFold == [at |-> "none", delta |-> 0]

LoadInit ==
  /\ cpuLoad = [c \in LoadCpus |-> [nr_running |-> 0, nr_uninterruptible |-> 0, calc_load_active |-> 0,
                               update |-> LoadPeriod, nohz |-> FALSE, online |-> TRUE]]
  /\ folding = [c \in LoadCpus |-> NoFold]
  /\ load_tasks = 0 /\ load_tasks_idle = 0 /\ load_update = LoadPeriod
  /\ keeper = [at |-> "none", ticks |-> 0] /\ blocked = 0
  /\ budget = [changes |-> MaxTaskChanges, periods |-> MaxPeriods, hotplug |-> MaxHotplug]

Busy(c) == cpuLoad[c].online /\ ~cpuLoad[c].nohz /\ folding[c] = NoFold

\* A task blocks on c, is woken on c wherever it slept, or starts or ends
TaskChange(c) ==
  /\ Busy(c)
  /\ \/ /\ cpuLoad[c].nr_running > 0 /\ blocked' = blocked + 1
        /\ cpuLoad' = [cpuLoad EXCEPT ![c].nr_running = @ - 1, ![c].nr_uninterruptible = @ + 1]
     \/ /\ blocked > 0 /\ blocked' = blocked - 1
        /\ cpuLoad' = [cpuLoad EXCEPT ![c].nr_running = @ + 1, ![c].nr_uninterruptible = @ - 1]
     \/ /\ Runnable + blocked < MaxActive /\ UNCHANGED blocked
        /\ cpuLoad' = [cpuLoad EXCEPT ![c].nr_running = @ + 1]
     \/ /\ cpuLoad[c].nr_running > 0 /\ UNCHANGED blocked
        /\ cpuLoad' = [cpuLoad EXCEPT ![c].nr_running = @ - 1]
  /\ budget.changes > 0 /\ budget' = [budget EXCEPT !.changes = @ - 1]
  /\ UNCHANGED <<folding, globalVars, keeper>>

-----------------------------------------------------------------------------
(* Samples *)

calc_load_fold_active(c, at) ==
  /\ folding' = [folding EXCEPT ![c] = [at |-> at, delta |-> ActiveOf(cpuLoad[c]) - cpuLoad[c].calc_load_active]]
  /\ cpuLoad' = [cpuLoad EXCEPT ![c].calc_load_active = ActiveOf(cpuLoad[c]),
                      ![c].nohz = (at = "idle"),
                      ![c].update = IF at = "idle" THEN @ ELSE @ + LoadPeriod]
  /\ UNCHANGED <<globalVars, keeper, blocked, budget>>

\* calc_load_account_idle(), when c stops its tick
AccountIdle(c) ==
  /\ Busy(c) /\ cpuLoad[c].nr_running = 0
  /\ calc_load_fold_active(c, "idle")

\* calc_load_account_active(), from c's tick
AccountActive(c) ==
  /\ Busy(c) /\ cpuLoad[c].update <= 0
  /\ calc_load_fold_active(c, "fold")

AddIdleDelta(c) ==
  /\ folding[c].at = "idle" /\ folding' = [folding EXCEPT ![c] = NoFold]
  /\ load_tasks_idle' = load_tasks_idle + folding[c].delta
  /\ UNCHANGED <<cpuLoad, load_tasks, load_update, keeper, blocked, budget>>

\* atomic_long_xchg() of calc_load_fold_idle(), then atomic_long_add()
FoldIdle(c) ==
  /\ folding[c].at = "fold" /\ load_tasks_idle' = 0
  /\ folding' = [folding EXCEPT ![c] = [at |-> "add", delta |-> @.delta + load_tasks_idle]]
  /\ UNCHANGED <<cpuLoad, load_tasks, load_update, keeper, blocked, budget>>

AddDelta(c) ==
  /\ folding[c].at = "add" /\ folding' = [folding EXCEPT ![c] = NoFold]
  /\ load_tasks' = load_tasks + folding[c].delta
  /\ UNCHANGED <<cpuLoad, load_tasks_idle, load_update, keeper, blocked, budget>>

LeaveIdle(c) ==
  /\ cpuLoad[c].online /\ cpuLoad[c].nohz /\ folding[c] = NoFold
  /\ cpuLoad' = [cpuLoad EXCEPT ![c].nohz = FALSE]
  /\ UNCHANGED <<folding, globalVars, keeper, blocked, budget>>

-----------------------------------------------------------------------------
(* Hotplug, all CPUs stopped *)

\* calc_global_load_remove()
Removed(c) == cpuLoad[c].calc_load_active

migrate_nr_uninterruptible(r, c, dest) ==
  [r EXCEPT ![dest].nr_uninterruptible = @ + r[c].nr_uninterruptible, ![c].nr_uninterruptible = 0]

\* CPU_DYING: migrate_tasks() has moved what could run
CpuDies(c, dest) ==
  /\ Busy(c) /\ c # dest /\ cpuLoad[dest].online /\ \A d \in Online : folding[d] = NoFold
  /\ keeper.at = "none"
  /\ budget.hotplug > 0 /\ budget' = [budget EXCEPT !.hotplug = @ - 1]
  /\ cpuLoad' = [migrate_nr_uninterruptible(cpuLoad, c, dest) EXCEPT
              ![dest].nr_running = @ + cpuLoad[c].nr_running, ![c].nr_running = 0,
              ![c].calc_load_active = 0, ![c].online = FALSE]
  /\ load_tasks' = load_tasks - Removed(c)
  /\ UNCHANGED <<folding, load_tasks_idle, load_update, keeper, blocked>>

\* CPU_UP_PREPARE: rq->calc_load_update = calc_load_update
CpuComes(c) ==
  /\ ~cpuLoad[c].online
  /\ cpuLoad' = [cpuLoad EXCEPT ![c].online = TRUE, ![c].nohz = FALSE, ![c].update = load_update]
  /\ UNCHANGED <<folding, globalVars, keeper, blocked, budget>>

-----------------------------------------------------------------------------
(* do_timer() *)

\* a sample that is overdue by a period or more is as good as one that is due
Sooner(t, k) == IF t - k < -LoadPeriod THEN -LoadPeriod ELSE t - k

TimerTicks ==
  /\ keeper.at = "none" /\ \A c \in LoadCpus : Busy(c) => cpuLoad[c].update > 0
  /\ \E ticks \in 1 .. (IF \A c \in Online : cpuLoad[c].nohz THEN MaxJump ELSE 1) :
       /\ keeper' = [at |-> "nohz", ticks |-> ticks]
       /\ load_update' = load_update - ticks
       /\ cpuLoad' = [c \in LoadCpus |-> [cpuLoad[c] EXCEPT !.update = Sooner(@, ticks)]]
  /\ UNCHANGED <<folding, load_tasks, load_tasks_idle, blocked, budget>>

\* Mutant: the periods that were slept through are not counted.
NoneSlept(ticks) == 0
PeriodsSlept(ticks) == ticks \div LoadPeriod

\* calc_global_nohz(): the idle counter, and the periods slept through
GlobalNohz ==
  /\ keeper.at = "nohz" /\ keeper' = [keeper EXCEPT !.at = "load"]
  /\ IF load_update > 0 THEN UNCHANGED <<globalVars, budget>>
     ELSE /\ load_tasks' = load_tasks + load_tasks_idle
          /\ load_tasks_idle' = 0
          /\ load_update' = load_update + PeriodsSlept(keeper.ticks) * LoadPeriod
          /\ UNCHANGED budget
  /\ UNCHANGED <<cpuLoad, folding, blocked>>

\* calc_global_load()
GlobalLoad ==
  /\ keeper.at = "load" /\ keeper' = [at |-> "none", ticks |-> 0]
  /\ IF load_update + Late > 0 THEN UNCHANGED <<load_update, budget>>
     ELSE /\ load_update' = load_update + LoadPeriod
          /\ budget.periods > 0 /\ budget' = [budget EXCEPT !.periods = @ - 1]
  /\ UNCHANGED <<cpuLoad, folding, load_tasks, load_tasks_idle, blocked>>

LoadNext ==
  \/ \E c \in LoadCpus : \/ TaskChange(c) \/ AccountIdle(c) \/ AccountActive(c)
                         \/ AddIdleDelta(c) \/ FoldIdle(c) \/ AddDelta(c) \/ LeaveIdle(c)
                         \/ CpuComes(c) \/ \E dest \in LoadCpus : CpuDies(c, dest)
  \/ TimerTicks \/ GlobalNohz \/ GlobalLoad

LoadTegraSpec == LoadInit /\ [][LoadNext]_loadTegraVars

-----------------------------------------------------------------------------
(* Properties *)

ActiveNow == [c \in LoadCpus |-> ActiveOf(cpuLoad[c])]
Sampled == [c \in LoadCpus |-> cpuLoad[c].calc_load_active]
Folded == [c \in LoadCpus |-> folding[c].delta]

\* However long every CPU slept, the average is afterwards aged for all periods that are
\* over and for none that is not: the next one is at most a period ahead ("pick up the
\* final one", calc_global_nohz()).
AgesKeepUp == keeper.at = "none" => load_update \in (1 - Late) .. LoadPeriod

\* Every task that is runnable or in uninterruptible sleep is counted by a CPU that is
\* there ("keep the global sum constant after CPU-down"), and what the CPUs have
\* sampled is in calc_load_tasks, in the idle counter, or on the way into one of them,
\* once; and no period is missed or made up when the average is aged.
LoadCounted ==
  /\ SumFunctionOnSet(ActiveNow, Online) = Runnable + blocked
  /\ load_tasks + load_tasks_idle + SumFunctionOnSet(Folded, LoadCpus) = SumFunctionOnSet(Sampled, LoadCpus)
  /\ AgesKeepUp

=============================================================================
