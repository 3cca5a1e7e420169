---------------------------- MODULE WaitInactive ----------------------------
(***************************************************************************)
(* wait_task_inactive() of the tegra kernel (kernel/sched.c) beside the    *)
(* task p it waits for, which runs, blocks, is preempted and is woken.     *)
(* __schedule() is split where its run queue's lock is dropped: for        *)
(* pre_schedule() and idle_balance(), and in the context switch, as ARM    *)
(* switches with interrupts enabled (__ARCH_WANT_INTERRUPTS_ON_CTXSW).     *)
(* Which CPU p is on makes no difference: task_running() reads p->on_cpu.  *)
(***************************************************************************)
EXTENDS Integers

CONSTANTS
  MaxRuns, MaxWaits, MaxNvcsw \* bounds

ASSUME InactiveAssumption == MaxRuns \in Nat /\ MaxWaits \in Nat /\ MaxNvcsw \in Nat

VARIABLES
  p,       \* the task: state, on_rq, on_cpu, nvcsw, and where it is in __schedule()
  lock,    \* whether __schedule() holds the run queue's lock
  waker,   \* where try_to_wake_up() is, which holds p->pi_lock
  waiter,  \* where wait_task_inactive() is, and what it has returned
  runs     \* how often p was switched in

inactiveVars == <<p, lock, waker, waiter, runs>>

NotWoken == "none"
Back == "returned"

InactiveInit ==
  /\ p = [state |-> "R", on_rq |-> TRUE, on_cpu |-> TRUE, nvcsw |-> 1, at |-> "run", voluntary |-> FALSE]
  /\ lock = FALSE /\ waker = NotWoken /\ runs = 1
  /\ \E match \in BOOLEAN :
       waiter = [at |-> Back, match |-> match, ncsw |-> 0, runs |-> 0, same |-> FALSE, left |-> MaxWaits]

-----------------------------------------------------------------------------
(* p *)

\* set_current_state(), to sleep or to run on
SetState ==
  /\ p.at = "run"
  /\ \E state \in {"R", "S"} : p.state # state /\ p' = [p EXCEPT !.state = state]
  /\ UNCHANGED <<lock, waker, waiter, runs>>

\* __schedule() up to put_prev_task(), by p itself or by a preemption
Deactivate ==
  /\ p.at = "run" /\ ~lock /\ lock' = TRUE
  /\ \E preempted, signal_pending \in BOOLEAN :
       LET voluntary == p.state # "R" /\ ~preempted
       IN  p' = [p EXCEPT !.at = "deactivated", !.voluntary = voluntary,
                          !.state = IF voluntary /\ signal_pending THEN "R" ELSE @,
                          !.on_rq = @ /\ (~voluntary \/ signal_pending)]
  /\ UNCHANGED <<waker, waiter, runs>>

\* pre_schedule() and idle_balance() drop the lock
DropLock ==
  /\ p.at = "deactivated" /\ lock
  /\ lock' = FALSE /\ p' = [p EXCEPT !.at = "unlocked"]
  /\ UNCHANGED <<waker, waiter, runs>>

\* prev and next are the same, or next->on_cpu is set and the lock released
PickNext ==
  /\ \/ p.at = "deactivated"
     \/ p.at = "unlocked" /\ ~lock
  /\ lock' = FALSE
  /\ \/ p.on_rq /\ p' = [p EXCEPT !.at = "run"]
     \/ /\ p.nvcsw < MaxNvcsw
        /\ p' = [p EXCEPT !.at = "switching", !.nvcsw = @ + IF p.voluntary THEN 1 ELSE 0]
  /\ UNCHANGED <<waker, waiter, runs>>

finish_lock_switch ==
  /\ p.at = "switching"
  /\ p' = [p EXCEPT !.at = "off", !.on_cpu = FALSE]
  /\ UNCHANGED <<lock, waker, waiter, runs>>

\* p is next: prepare_lock_switch()
SwitchIn ==
  /\ p.at = "off" /\ p.on_rq /\ ~lock /\ runs < MaxRuns
  /\ p' = [p EXCEPT !.at = "run", !.on_cpu = TRUE]
  /\ runs' = runs + 1
  /\ UNCHANGED <<lock, waker, waiter>>

-----------------------------------------------------------------------------
(* try_to_wake_up() *)

WakeUp == [p EXCEPT !.on_rq = TRUE, !.state = "R"]

try_to_wake_up ==
  /\ runs < MaxRuns
  /\ \/ waker = NotWoken /\ p.state = "S" /\ waker' = "remote" /\ UNCHANGED p
     \* p->on_rq && ttwu_remote(): its run queue is locked
     \/ /\ waker = "remote" /\ ~lock
        /\ IF p.on_rq THEN p' = [p EXCEPT !.state = "R"] /\ waker' = NotWoken
                      ELSE waker' = "cpu" /\ UNCHANGED p
     \* p->on_cpu: ttwu_activate_remote(), with the run queue locked
     \/ /\ waker = "cpu" /\ p.on_cpu /\ ~lock /\ p' = WakeUp /\ waker' = NotWoken
     \/ waker = "cpu" /\ ~p.on_cpu /\ p' = [p EXCEPT !.state = "waking"] /\ waker' = "queue"
     \/ waker = "queue" /\ ~lock /\ p' = WakeUp /\ waker' = NotWoken
  /\ UNCHANGED <<lock, waiter, runs>>

-----------------------------------------------------------------------------
(* wait_task_inactive() *)

Matches == ~waiter.match \/ p.state = "S"

BeginWait ==
  /\ waiter.at = Back /\ waiter.left > 0
  /\ waiter' = [waiter EXCEPT !.at = "spin", !.left = @ - 1, !.same = FALSE]
  /\ UNCHANGED <<p, lock, waker, runs>>

\* what a call leaves: its result, and since when p has not run if it is right
Returns(ncsw) ==
  [waiter EXCEPT !.at = Back, !.ncsw = ncsw, !.runs = runs,
                 !.same = ncsw # 0 /\ ncsw = waiter.ncsw /\ runs # waiter.runs]

\* while (task_running(rq, p)), without a lock
Spin ==
  /\ waiter.at = "spin"
  /\ waiter' = IF ~p.on_cpu THEN [waiter EXCEPT !.at = "lock"]
               ELSE IF waiter.match /\ p.state # "S" THEN Returns(0) ELSE waiter
  /\ UNCHANGED <<p, lock, waker, runs>>

\* Mutant: a task that is not running is taken to be off the run queue.
NotRunning == ~p.on_cpu

OffRunQueue == ~p.on_cpu /\ ~p.on_rq

\* task_rq_lock() and what follows: give up, go back, or done
Look ==
  /\ waiter.at = "lock" /\ ~lock /\ waker = NotWoken
  /\ waiter' = IF ~Matches THEN Returns(0)
               ELSE IF OffRunQueue THEN Returns(p.nvcsw)
               ELSE [waiter EXCEPT !.at = "spin"]
  /\ UNCHANGED <<p, lock, waker, runs>>

InactiveNext ==
  \/ SetState \/ Deactivate \/ DropLock \/ PickNext \/ finish_lock_switch \/ SwitchIn
  \/ try_to_wake_up
  \/ BeginWait \/ Spin \/ Look

-----------------------------------------------------------------------------
(* Properties *)

\* "If a second call a short while later returns the same number, the caller
\* can be sure that @p has remained unscheduled the whole time": wherever
\* __schedule() drops the lock, every run of p that ends off the run queue has
\* changed nvcsw (wait_task_inactive()).
SameCountNotRun == ~waiter.same

=============================================================================
