------------------------------ MODULE LoadAvg ------------------------------
(***************************************************************************)
(* The global load average of the goldfish kernel (kernel/sched/core.c,    *)
(* "Global load-average calculations", with CONFIG_NO_HZ): every CPU folds *)
(* the change of its active tasks into calc_load_tasks once in LOAD_FREQ   *)
(* ticks, or, when it stops its tick, into one of two idle counters that   *)
(* the timekeeper folds in ten ticks after the sample window opened.       *)
(*                                                                         *)
(* Each step is what happens between two accesses to what CPUs share.      *)
(* Times are relative to jiffies: t > 0 is time_before(jiffies, t).  The   *)
(* average itself (avenrun) is in LoadMath; the tick code that calls in    *)
(* here is external.                                                       *)
(***************************************************************************)
EXTENDS Integers, FiniteSets, Functions

CONSTANTS
  Cpus,
  LOAD_FREQ, Window,  \* ticks between two samples; ticks a sample may take
  MaxLate,            \* ticks a busy CPU's sample may be late
  MaxSleep,           \* ticks jiffies may jump when every CPU is idle
  MaxTasks,
  MaxDrift            \* bound on nr_uninterruptible, of which only the sum is exact

ASSUME LoadAvgAssumption ==
  /\ IsFiniteSet(Cpus)
  /\ {LOAD_FREQ, Window, MaxLate, MaxSleep, MaxTasks, MaxDrift} \subseteq Nat /\ LOAD_FREQ > 0

VARIABLES
  rq,                 \* what a run queue counts and samples, see Rq
  op,                 \* what a CPU is in the middle of, see Op
  calc_load_tasks, calc_load_update, calc_load_idle, calc_load_idx,
  tk,                 \* the timekeeper in calc_global_load()
  young               \* the idle counters written in the window that is open

cpuVars == <<rq, op>>
loadVars == <<calc_load_tasks, calc_load_update, calc_load_idle, calc_load_idx>>
loadAvgVars == <<cpuVars, loadVars, tk, young>>

Rq == [nr_running : 0 .. MaxTasks, nr_uninterruptible : -MaxDrift .. MaxDrift,
       calc_load_active : Int, update : Int, nohz : BOOLEAN,
       ticked : BOOLEAN]  \* one tick in a jiffy
Op == [at : {"none", "time", "add", "exit"}, n : Int, i : {0, 1}, young : BOOLEAN]
NoOp == [at |-> "none", n |-> 0, i |-> 0, young |-> FALSE]
time_before(t) == t > 0
Active(r) == r.nr_running + r.nr_uninterruptible
Sum(f) == SumFunctionOnSet(f, Cpus)
ActiveTasks == Sum([c \in Cpus |-> Active(rq[c])])

LoadAvgInit ==
  /\ rq = [c \in Cpus |-> [nr_running |-> 0, nr_uninterruptible |-> 0, calc_load_active |-> 0,
                           update |-> LOAD_FREQ, nohz |-> FALSE,
                           ticked |-> FALSE]]
  /\ op = [c \in Cpus |-> NoOp]
  /\ calc_load_tasks = 0 /\ calc_load_update = LOAD_FREQ
  /\ calc_load_idle = [i \in {0, 1} |-> 0] /\ calc_load_idx = 0
  /\ tk = "none" /\ young = {}

-----------------------------------------------------------------------------
(* Tasks *)

Runs(c) == ~rq[c].nohz /\ op[c].at = "none"

Change(c, running, uninterruptible) ==
  /\ rq[c].nr_uninterruptible + uninterruptible \in -MaxDrift .. MaxDrift
  /\ rq' = [rq EXCEPT ![c].nr_running = @ + running, ![c].nr_uninterruptible = @ + uninterruptible]
  /\ UNCHANGED <<op, loadVars, tk, young>>

\* a task leaves run queue c, for an uninterruptible sleep or another
Block(c) ==
  /\ Runs(c) /\ rq[c].nr_running > 0
  /\ Change(c, -1, 0) \/ Change(c, -1, 1)

\* a task is woken on c, wherever it slept
Wake(c) ==
  \/ ActiveTasks < MaxTasks /\ Change(c, 1, 0)
  \/ Sum([d \in Cpus |-> rq[d].nr_uninterruptible]) > 0 /\ Change(c, 1, -1)

-----------------------------------------------------------------------------
(* A CPU folds its change *)

\* calc_load_account_active(), from the tick of a busy CPU
calc_load_account_active(c) ==
  /\ Runs(c) /\ ~rq[c].ticked /\ ~time_before(rq[c].update)
  /\ rq' = [rq EXCEPT ![c].calc_load_active = Active(rq[c]), ![c].update = @ + LOAD_FREQ,
                     ![c].ticked = TRUE]
  /\ calc_load_tasks' = calc_load_tasks + Active(rq[c]) - rq[c].calc_load_active
  /\ UNCHANGED <<op, calc_load_update, calc_load_idle, calc_load_idx, tk, young>>

\* calc_load_enter_idle(): the change, then the index; then the time
EnterIdle(c) ==
  /\ Runs(c) /\ rq[c].nr_running = 0
  /\ LET delta == Active(rq[c]) - rq[c].calc_load_active
     IN  /\ rq' = [rq EXCEPT ![c].calc_load_active = Active(rq[c]), ![c].nohz = TRUE]
         /\ op' = [op EXCEPT ![c] = IF delta = 0 THEN NoOp
                                    ELSE [NoOp EXCEPT !.at = "time", !.n = delta, !.i = calc_load_idx]]
  /\ UNCHANGED <<loadVars, tk, young>>

calc_load_write_idx(i) == IF time_before(calc_load_update) THEN i ELSE 1 - i

ReadTime(c) ==
  /\ op[c].at = "time"
  /\ op' = [op EXCEPT ![c].at = "add", ![c].i = calc_load_write_idx(@),
                      ![c].young = ~time_before(calc_load_update) /\ op[c].i = calc_load_idx]
  /\ UNCHANGED <<rq, loadVars, tk, young>>

AddIdle(c) ==
  /\ op[c].at = "add"
  /\ calc_load_idle' = [calc_load_idle EXCEPT ![op[c].i] = @ + op[c].n]
  /\ young' = young \cup (IF op[c].young THEN {op[c].i} ELSE {})
  /\ op' = [op EXCEPT ![c] = NoOp]
  /\ UNCHANGED <<rq, calc_load_tasks, calc_load_update, calc_load_idx, tk>>

\* calc_load_exit_idle()
ExitIdle(c) ==
  /\ rq[c].nohz /\ op[c].at = "none"
  /\ rq' = [rq EXCEPT ![c].nohz = FALSE]
  /\ op' = [op EXCEPT ![c].at = IF time_before(rq[c].update) THEN "none" ELSE "exit"]
  /\ UNCHANGED <<loadVars, tk, young>>

\* "We woke inside or after the sample window": skip it
SyncUp(c) ==
  /\ op[c].at = "exit"
  /\ rq' = [rq EXCEPT ![c].update =
       calc_load_update + IF time_before(calc_load_update + Window) THEN LOAD_FREQ ELSE 0]
  /\ op' = [op EXCEPT ![c] = NoOp]
  /\ UNCHANGED <<loadVars, tk, young>>

-----------------------------------------------------------------------------
(* The timekeeper *)

\* how long a CPU that sleeps is overdue does not matter, SyncUp sets it anew
Earlier(t, k) == IF t < k THEN 0 ELSE t - k

\* do_timer(), no CPU with its interrupts off: only when every CPU is idle may jiffies jump
Jiffies ==
  /\ tk = "none"
  /\ \A c \in Cpus : op[c].at = "none" /\ (rq[c].nohz \/ rq[c].ticked \/ rq[c].update > -MaxLate)
  /\ \E k \in 1 .. (IF \A c \in Cpus : rq[c].nohz THEN MaxSleep ELSE 1) :
       /\ calc_load_update' = calc_load_update - k
       /\ rq' = [c \in Cpus |-> [rq[c] EXCEPT !.ticked = FALSE, !.update = IF rq[c].nohz THEN Earlier(@, k) ELSE @ - k]]
  /\ tk' = IF time_before(calc_load_update' + Window) THEN "none" ELSE "fold"
  /\ UNCHANGED <<op, calc_load_tasks, calc_load_idle, calc_load_idx, young>>

\* Mutant: both counters are emptied.
FoldBoth(idx) == [i \in {0, 1} |-> 0]

\* calc_load_fold_idle(): what the counter that is read is changed to
Emptied(idx) == [calc_load_idle EXCEPT ![idx] = 0]

\* calc_global_load(): sample, then open the next window
calc_global_load ==
  \/ /\ tk = "fold"
     /\ calc_load_idle' = Emptied(calc_load_idx)
     /\ calc_load_tasks' = calc_load_tasks + calc_load_idle[calc_load_idx]
     /\ tk' = "move"
     /\ UNCHANGED <<cpuVars, calc_load_update, calc_load_idx, young>>
  \/ /\ tk = "move"
     /\ calc_load_update' = calc_load_update + LOAD_FREQ
     /\ tk' = IF time_before(calc_load_update' + Window) THEN "flip" ELSE "nohz"
     /\ UNCHANGED <<cpuVars, calc_load_tasks, calc_load_idle, calc_load_idx, young>>

\* Mutant: the index stays.
NotFlipped == calc_load_idx

\* calc_load_idx++, of which the last bit is used
Flipped == 1 - calc_load_idx

\* calc_global_nohz(): catch up, then flip
calc_global_nohz ==
  \/ /\ tk = "nohz"
     /\ calc_load_update' =
          calc_load_update + LOAD_FREQ * (1 + (-calc_load_update - Window) \div LOAD_FREQ)
     /\ tk' = "flip"
     /\ UNCHANGED <<cpuVars, calc_load_tasks, calc_load_idle, calc_load_idx, young>>
  \/ /\ tk = "flip"
     /\ calc_load_idx' = Flipped /\ young' = {}
     /\ op' = [c \in Cpus |-> [op[c] EXCEPT !.young = FALSE]]
     /\ tk' = "none"
     /\ UNCHANGED <<rq, calc_load_tasks, calc_load_update, calc_load_idle>>

CpuStep(c) ==
  \/ calc_load_account_active(c) \/ ReadTime(c) \/ AddIdle(c) \/ SyncUp(c)
TimeStep == Jiffies \/ calc_global_load \/ calc_global_nohz

LoadAvgNext ==
  \/ \E c \in Cpus : Block(c) \/ Wake(c) \/ EnterIdle(c) \/ ExitIdle(c) \/ CpuStep(c)
  \/ TimeStep

\* time goes on, a busy CPU gets its tick, and an idle one with a task wakes up
LoadAvgFairness ==
  /\ WF_loadAvgVars(TimeStep)
  /\ \A c \in Cpus : WF_loadAvgVars(CpuStep(c)) /\ WF_loadAvgVars(ExitIdle(c) /\ rq[c].nr_running > 0)

LoadAvgSpec == LoadAvgInit /\ [][LoadAvgNext]_loadAvgVars /\ LoadAvgFairness

-----------------------------------------------------------------------------
(* Properties *)

Pending(c) == IF op[c].at \in {"time", "add"} THEN op[c].n ELSE 0
SampledOn == [c \in Cpus |-> rq[c].calc_load_active]

\* The idle counter that is folded holds nothing that was written in the window
\* that is open: a CPU that goes idle inside the window does not take its
\* sample back (calc_load_write_idx(), calc_load_read_idx()).
OldIdleFolded == tk = "fold" => calc_load_idx \notin young

\* No change of a CPU is lost or counted twice on its way into calc_load_tasks,
\* whichever counter it goes through (calc_load_fold_active(),
\* calc_load_enter_idle(), calc_load_fold_idle()): "being late doesn't loose
\* the delta"; nor is one counted too early.
DeltasConserved ==
  /\ calc_load_tasks + calc_load_idle[0] + calc_load_idle[1] + Sum([c \in Cpus |-> Pending(c)]) = Sum(SampledOn)
  /\ OldIdleFolded

\* Once the number of active tasks stays the same, calc_load_tasks comes to be
\* that number, idle CPUs or not.
LoadSettles ==
  \A n \in 0 .. MaxTasks : <>[](ActiveTasks = n) => <>[](calc_load_tasks = n)

=============================================================================
