---------------------------- MODULE GoldfishWrr ----------------------------
(***************************************************************************)
(* The WRR scheduling class in the goldfish kernel (Project2/goldfish,     *)
(* Linux 3.4.67, one CPU, CONFIG_PREEMPT, CONFIG_RT_GROUP_SCHED):          *)
(* kernel/sched/wrr.c and the parts of core.c and rt.c that call it or     *)
(* compete with it.                                                        *)
(*                                                                         *)
(* Every action below runs under rq->lock with interrupts off, so on one   *)
(* CPU it is atomic.  The RT class is its set of queued tasks, ordered by  *)
(* prio, and a throttling flag; the fair class (fair.c) and the rt_mutex   *)
(* and cgroup code outside the repository are external and appear as the   *)
(* choices they leave open.  A cgroup path matters only through its second *)
(* character: '\0' (the root), 'b' (background) or anything else.          *)
(***************************************************************************)
EXTENDS WrrRunList

CONSTANTS
  Tasks,             \* slots for user tasks
  Idle,              \* rq->idle
  InitTask,          \* the task alive at the start
  Groups, Root, BgGroups,  \* cgroups; the root; those whose path starts "/b"
  RtGroups,          \* groups with rt_runtime # 0
  MAX_RT_PRIO,       \* prios below it are RT (100 in sched.h)
  MAX_PRIO,          \* prio of the idle task (140)
  RtPriorities,      \* sched_priority values given to RT policies
  StaticPrios,       \* NICE_TO_PRIO of the nice values in use
  DEFAULT_PRIO,      \* NICE_TO_PRIO(0)
  WaiterPrios,       \* prios of tasks that block on an rt_mutex
  Policies,          \* policies sched_setscheduler() is called with
  ResetFlags,        \* with SCHED_RESET_ON_FORK or without it
  WRR_FG_TIMESLICE, WRR_BG_TIMESLICE

ASSUME GoldfishAssumption ==
  /\ IsFiniteSet(Tasks) /\ InitTask \in Tasks /\ Idle \notin Tasks
  /\ Root \in Groups /\ BgGroups \subseteq Groups \ {Root}
  /\ RtGroups \subseteq Groups
  /\ MAX_RT_PRIO \in Nat \ {0} /\ MAX_PRIO \in Nat
  /\ RtPriorities \subseteq 1 .. (MAX_RT_PRIO - 1)
  /\ StaticPrios \subseteq MAX_RT_PRIO .. (MAX_PRIO - 1) /\ DEFAULT_PRIO \in StaticPrios
  /\ WaiterPrios \subseteq 0 .. (MAX_PRIO - 1)
  /\ Policies \subseteq {"normal", "wrr", "rt"} /\ ResetFlags \subseteq BOOLEAN
  /\ WRR_FG_TIMESLICE \in Nat \ {0} /\ WRR_BG_TIMESLICE \in Nat \ {0}

VARIABLES
  state,        \* "none", "new" (forked, not yet woken), "running", "sleeping", "dead"
  on_rq, policy, rt_priority, static_prio, prio, sched_class,
  reset_on_fork,
  waiter,       \* prio of the top waiter on an rt_mutex the task owns, or MAX_PRIO
  group,        \* p->sched_task_group
  weight, time_slice,  \* p->wrr
  wrr,          \* rq->wrr: queue, total_weight, wrr_nr_running
  nr_running, curr,
  need_resched, \* TIF_NEED_RESCHED of rq->curr
  rt_throttled

taskVars == <<state, policy, rt_priority, static_prio, prio, reset_on_fork, waiter>>
wrrVars == <<wrr, weight, time_slice>>
vars == <<taskVars, on_rq, sched_class, group, wrrVars, nr_running, curr,
          need_resched, rt_throttled>>

Exists(p) == state[p] # "none"
Prios == 0 .. MAX_PRIO

TypeOK ==
  /\ state \in [Tasks -> {"none", "new", "running", "sleeping", "dead"}]
  /\ on_rq \in [Tasks -> BOOLEAN]
  /\ policy \in [Tasks -> {"normal", "wrr", "rt"}]
  /\ rt_priority \in [Tasks -> RtPriorities \cup {0}]
  /\ static_prio \in [Tasks -> StaticPrios]
  /\ prio \in [Tasks -> Prios]
  /\ sched_class \in [Tasks -> {"fair", "wrr", "rt"}]
  /\ reset_on_fork \in [Tasks -> BOOLEAN]
  /\ waiter \in [Tasks -> WaiterPrios \cup {MAX_PRIO}]
  /\ group \in [Tasks -> Groups]
  /\ weight \in [Tasks -> {1, 10}]
  /\ time_slice \in [Tasks -> Nat]
  /\ wrr \in [queue : Seq(Tasks), total_weight : Nat, wrr_nr_running : Nat]
  /\ nr_running \in Nat
  /\ curr \in Tasks \cup {Idle}
  /\ need_resched \in BOOLEAN
  /\ rt_throttled \in BOOLEAN

-----------------------------------------------------------------------------
(* Priorities, classes, groups *)

rt_prio(n) == n < MAX_RT_PRIO
PrioOf(t) == IF t = Idle THEN MAX_PRIO ELSE prio[t]
ClassOf(t) == IF t = Idle THEN "idle" ELSE sched_class[t]

normal_prio(pol, rtp, static) == IF pol = "rt" THEN MAX_RT_PRIO - 1 - rtp ELSE static

\* rt_mutex_getprio() (external): the better of the top waiter and normal_prio.
rt_mutex_getprio(w, normal) == IF w < normal THEN w ELSE normal

\* The class __setscheduler() and rt_mutex_setprio() choose: the policy is
\* looked at before the (possibly boosted) prio.
ClassFor(pol, pr) == IF pol = "wrr" THEN "wrr" ELSE IF rt_prio(pr) THEN "rt" ELSE "fair"

\* rt -> wrr -> fair -> idle along sched_class->next.
ClassOrder == [idle |-> 0, fair |-> 1, wrr |-> 2, rt |-> 3]

WeightOf(g) == IF g \in BgGroups THEN 1 ELSE 10
Timeslice(w) == IF w = 1 THEN WRR_BG_TIMESLICE ELSE WRR_FG_TIMESLICE

-----------------------------------------------------------------------------
(* Dequeueing and enqueueing a task *)

\* enqueue_wrr_entity() first adapts weight and slice to the group of p; the
\* slice is refilled only when the weight changes.
EnqueuedWeight(c, w, g) == IF c = "wrr" THEN WeightOf(g) ELSE w

\* Mutant: the slice of the old group is kept.
EnqueuedSliceKept(c, w, s, g) == s

EnqueuedSlice(c, w, s, g) ==
  IF c = "wrr" /\ w # WeightOf(g) THEN Timeslice(WeightOf(g)) ELSE s

\* Mutant: a task that changes class is not dequeued from the old one.
ReinsertNoDequeue(p, c, g, head) ==
  /\ sched_class' = [sched_class EXCEPT ![p] = c]
  /\ group' = [group EXCEPT ![p] = g]
  /\ IF on_rq[p] /\ c # sched_class[p]
     THEN LET w == EnqueuedWeight(c, weight[p], g)
          IN  /\ wrr' = IF c = "wrr" THEN enqueue_wrr_entity(wrr, p, w, head) ELSE wrr
              /\ weight' = [weight EXCEPT ![p] = w]
              /\ time_slice' = [time_slice EXCEPT ![p] = EnqueuedSlice(c, weight[p], @, g)]
     ELSE UNCHANGED wrrVars
  /\ UNCHANGED <<on_rq, nr_running, curr, rt_throttled>>

\* Mutant: the weight is adapted before the dequeue instead of at the enqueue.
ReinsertNewWeight(p, c, g, head) ==
  /\ sched_class' = [sched_class EXCEPT ![p] = c]
  /\ group' = [group EXCEPT ![p] = g]
  /\ IF on_rq[p]
     THEN LET w   == EnqueuedWeight(c, weight[p], g)
              out == IF sched_class[p] = "wrr" THEN dequeue_wrr_entity(wrr, p, w) ELSE wrr
          IN  /\ wrr' = IF c = "wrr" THEN enqueue_wrr_entity(out, p, w, head) ELSE out
              /\ weight' = [weight EXCEPT ![p] = w]
              /\ time_slice' = [time_slice EXCEPT ![p] = EnqueuedSlice(c, weight[p], @, g)]
     ELSE UNCHANGED wrrVars
  /\ UNCHANGED <<on_rq, nr_running, curr, rt_throttled>>

\* dequeue_task(p); a change of class to c or of group to g; enqueue_task(p):
\* the pattern of every operation that changes a queued task.
Reinsert(p, c, g, head) ==
  /\ sched_class' = [sched_class EXCEPT ![p] = c]
  /\ group' = [group EXCEPT ![p] = g]
  /\ IF on_rq[p]
     THEN LET w   == EnqueuedWeight(c, weight[p], g)
              out == IF sched_class[p] = "wrr"
                     THEN dequeue_wrr_entity(wrr, p, weight[p]) ELSE wrr
          IN  /\ wrr' = IF c = "wrr" THEN enqueue_wrr_entity(out, p, w, head) ELSE out
              /\ weight' = [weight EXCEPT ![p] = w]
              /\ time_slice' = [time_slice EXCEPT ![p] = EnqueuedSlice(c, weight[p], @, g)]
     ELSE UNCHANGED wrrVars
  /\ UNCHANGED <<on_rq, nr_running, curr, rt_throttled>>

\* activate_task(p) and p->on_rq = 1, with weight w and slice s before it.
Activate(p, w, s) ==
  /\ on_rq' = [on_rq EXCEPT ![p] = TRUE]
  /\ weight' = [weight EXCEPT ![p] = EnqueuedWeight(sched_class[p], w, group[p])]
  /\ time_slice' = [time_slice EXCEPT ![p] = EnqueuedSlice(sched_class[p], w, s, group[p])]
  /\ wrr' = IF sched_class[p] = "wrr"
            THEN enqueue_wrr_entity(wrr, p, WeightOf(group[p]), FALSE) ELSE wrr
  /\ nr_running' = nr_running + 1
  /\ UNCHANGED <<sched_class, group, curr, rt_throttled>>

-----------------------------------------------------------------------------
(* Preemption: may resched_task(rq->curr) be called?  The set of answers.   *)

check_preempt_curr(c, pr) ==
  IF c # ClassOf(curr) THEN {ClassOrder[c] > ClassOrder[ClassOf(curr)]}
  ELSE IF c = "rt" THEN {pr < PrioOf(curr)}
  ELSE IF c = "wrr" THEN {FALSE}
  ELSE BOOLEAN  \* check_preempt_wakeup() of fair.c

switched_to(p, c, pr) ==
  IF ~on_rq[p] THEN {FALSE}
  ELSE IF c = "rt" THEN {curr # p /\ pr < PrioOf(curr)}
  ELSE IF c = "wrr" THEN {curr # p /\ ~rt_prio(PrioOf(curr))}
  ELSE IF curr = p THEN {TRUE} ELSE check_preempt_curr(c, pr)  \* switched_to_fair()

prio_changed(p, c, oldprio, pr) ==
  IF c = "wrr" \/ ~on_rq[p] THEN {FALSE}
  ELSE IF curr = p THEN {oldprio < pr}
  ELSE IF c = "rt" THEN {pr < PrioOf(curr)}
  ELSE check_preempt_curr(c, pr)  \* prio_changed_fair()

check_class_changed(p, c, pr) ==
  IF c # sched_class[p] THEN switched_to(p, c, pr)
  ELSE IF pr # prio[p] THEN prio_changed(p, c, prio[p], pr)
  ELSE {FALSE}

Resched(answers) == \E b \in answers : need_resched' = (need_resched \/ b)

-----------------------------------------------------------------------------
(* Changing the parameters of a task *)

\* __sched_setscheduler(p, pol, rtp).  Refused: a priority that does not fit
\* the policy, RT in a group without RT runtime.  No effect: nothing to change.
sched_setscheduler(p, pol, rtp, reset) ==
  LET normal == normal_prio(pol, rtp, static_prio[p])
      pr     == rt_mutex_getprio(waiter[p], normal)
      c      == ClassFor(pol, pr)
  IN  /\ Exists(p)
      /\ (pol = "rt") = (rtp # 0)
      /\ ~(pol = policy[p] /\ (pol = "rt" => rtp = rt_priority[p]))
      /\ pol = "rt" => group[p] \in RtGroups
      /\ policy' = [policy EXCEPT ![p] = pol]
      /\ rt_priority' = [rt_priority EXCEPT ![p] = rtp]
      /\ prio' = [prio EXCEPT ![p] = pr]
      /\ reset_on_fork' = [reset_on_fork EXCEPT ![p] = reset]
      /\ Reinsert(p, c, group[p], FALSE)
      /\ Resched(check_class_changed(p, c, pr))
      /\ UNCHANGED <<state, static_prio, waiter>>

\* normalize_rt_tasks() for one task: SysRq-n turns an RT task into a normal
\* one.  rt_task() looks at the prio, so a boosted WRR task qualifies.
normalize_task(p) ==
  LET pr == rt_mutex_getprio(waiter[p], static_prio[p])
      c  == ClassFor("normal", pr)
  IN  /\ Exists(p) /\ rt_prio(prio[p])
      /\ policy' = [policy EXCEPT ![p] = "normal"]
      /\ rt_priority' = [rt_priority EXCEPT ![p] = 0]
      /\ prio' = [prio EXCEPT ![p] = pr]
      /\ Reinsert(p, c, group[p], FALSE)
      /\ need_resched' = (need_resched \/ on_rq[p])
      /\ UNCHANGED <<state, static_prio, reset_on_fork, waiter>>

\* A waiter comes to or leaves an rt_mutex p owns (external); when that
\* changes its priority, rt_mutex_setprio(p, pr).
rt_mutex_setprio(p, w) ==
  LET pr == rt_mutex_getprio(w, normal_prio(policy[p], rt_priority[p], static_prio[p]))
      c  == ClassFor(policy[p], pr)
  IN  /\ Exists(p) /\ waiter[p] # w
      /\ waiter' = [waiter EXCEPT ![p] = w]
      /\ IF pr = prio[p]
         THEN UNCHANGED <<prio, sched_class, group, wrrVars, on_rq, nr_running,
                          curr, rt_throttled, need_resched>>
         ELSE /\ prio' = [prio EXCEPT ![p] = pr]
              /\ Reinsert(p, c, group[p], prio[p] < pr)
              /\ Resched(check_class_changed(p, c, pr))
      /\ UNCHANGED <<state, policy, rt_priority, static_prio, reset_on_fork>>

\* set_user_nice(p): under an RT policy only static_prio changes; otherwise p
\* is dequeued and enqueued again and prio follows unless it is RT-boosted.
set_user_nice(p, static) ==
  LET pr == IF rt_prio(prio[p]) THEN prio[p] ELSE static
  IN  /\ Exists(p) /\ static # static_prio[p]
      /\ static_prio' = [static_prio EXCEPT ![p] = static]
      /\ IF policy[p] = "rt"
         THEN UNCHANGED <<prio, sched_class, group, wrrVars, on_rq, nr_running,
                          curr, rt_throttled, need_resched>>
         ELSE /\ prio' = [prio EXCEPT ![p] = pr]
              /\ Reinsert(p, sched_class[p], group[p], FALSE)
              /\ Resched({on_rq[p] /\ (pr < prio[p] \/ (pr > prio[p] /\ curr = p))})
      /\ UNCHANGED <<state, policy, rt_priority, reset_on_fork, waiter>>

\* cpu_cgroup_can_attach() and cpu_cgroup_attach() -> sched_move_task(p).
cpu_cgroup_attach(p, g) ==
  /\ Exists(p) /\ g # group[p]
  /\ rt_prio(prio[p]) => g \in RtGroups
  /\ Reinsert(p, sched_class[p], g, FALSE)
  /\ UNCHANGED <<taskVars, need_resched>>

-----------------------------------------------------------------------------
(* Fork, sleep, wake-up, exit *)

\* copy_process() copies curr (external); sched_fork() then resets the copy.
\* A child that is not RT is put in the fair class whatever its policy.
sched_fork(child) ==
  LET reset  == reset_on_fork[curr]
      pol    == IF reset /\ policy[curr] = "rt" THEN "normal" ELSE policy[curr]
      static == IF reset /\ (policy[curr] = "rt" \/ static_prio[curr] < DEFAULT_PRIO)
                THEN DEFAULT_PRIO ELSE static_prio[curr]
      rtp    == IF pol = "rt" THEN rt_priority[curr] ELSE 0
      pr     == IF reset THEN static ELSE normal_prio(pol, rtp, static)
  IN  /\ curr # Idle /\ state[curr] = "running" /\ state[child] = "none"
      /\ state' = [state EXCEPT ![child] = "new"]
      /\ policy' = [policy EXCEPT ![child] = pol]
      /\ rt_priority' = [rt_priority EXCEPT ![child] = rtp]
      /\ static_prio' = [static_prio EXCEPT ![child] = static]
      /\ prio' = [prio EXCEPT ![child] = pr]
      /\ sched_class' = [sched_class EXCEPT ![child] =
                           IF rt_prio(pr) THEN sched_class[curr] ELSE "fair"]
      /\ reset_on_fork' = [reset_on_fork EXCEPT ![child] = FALSE]
      /\ waiter' = [waiter EXCEPT ![child] = MAX_PRIO]
      /\ group' = [group EXCEPT ![child] = group[curr]]
      /\ weight' = [weight EXCEPT ![child] = weight[curr]]
      /\ time_slice' = [time_slice EXCEPT ![child] = time_slice[curr]]
      /\ UNCHANGED <<on_rq, wrr, nr_running, curr, need_resched, rt_throttled>>

\* Sets the WRR weight and slice of every new task, then activates it.
wake_up_new_task(p) ==
  /\ state[p] = "new"
  /\ state' = [state EXCEPT ![p] = "running"]
  /\ Activate(p, WeightOf(group[p]), Timeslice(WeightOf(group[p])))
  /\ Resched(check_preempt_curr(sched_class[p], prio[p]))
  /\ UNCHANGED <<policy, rt_priority, static_prio, prio, reset_on_fork, waiter>>

\* curr announces that it will sleep; schedule() follows later, so a wake-up
\* or a preemption can come in between.
SetCurrentState ==
  /\ curr # Idle /\ state[curr] = "running"
  /\ state' = [state EXCEPT ![curr] = "sleeping"]
  /\ UNCHANGED <<policy, rt_priority, static_prio, prio, reset_on_fork, waiter,
                 on_rq, sched_class, group, wrrVars, nr_running, curr,
                 need_resched, rt_throttled>>

\* A task still on the run queue is only marked running (ttwu_remote).
try_to_wake_up(p) ==
  /\ state[p] = "sleeping"
  /\ state' = [state EXCEPT ![p] = "running"]
  /\ IF on_rq[p]
     THEN UNCHANGED <<on_rq, sched_class, group, wrrVars, nr_running, curr, rt_throttled>>
     ELSE Activate(p, weight[p], time_slice[p])
  /\ Resched(check_preempt_curr(sched_class[p], prio[p]))
  /\ UNCHANGED <<policy, rt_priority, static_prio, prio, reset_on_fork, waiter>>

\* do_exit() (external): cpu_cgroup_exit() moves curr to the root group, then
\* TASK_DEAD is set with preemption disabled and schedule() called.
Exit ==
  /\ curr # Idle /\ state[curr] = "running"
  /\ state' = [state EXCEPT ![curr] = "dead"]
  /\ Reinsert(curr, sched_class[curr], Root, FALSE)
  /\ UNCHANGED <<policy, rt_priority, static_prio, prio, reset_on_fork, waiter,
                 need_resched>>

-----------------------------------------------------------------------------
(* Choosing the next task *)

\* The tasks pick_next_task() can return, given the WRR run queue r, the
\* tasks on the run queue and their number.
pick_next_task(r, queued, nr) ==
  LET Of(c) == {p \in Tasks : queued[p] /\ sched_class[p] = c}
      BestRt == {p \in Of("rt") : \A q \in Of("rt") : prio[p] <= prio[q]}
  IN  IF nr = Cardinality(Of("fair")) /\ Of("fair") # {} THEN Of("fair")
      ELSE IF Of("rt") # {} /\ ~rt_throttled THEN BestRt
      ELSE IF r.wrr_nr_running # 0 THEN {Head(r.queue)}
      ELSE IF Of("fair") # {} THEN Of("fair")
      ELSE {Idle}

\* The rest of __schedule() once prev is dealt with.
Switch(r, queued, nr) ==
  /\ wrr' = r /\ on_rq' = queued /\ nr_running' = nr
  /\ curr' \in pick_next_task(r, queued, nr)
  /\ need_resched' = FALSE
  /\ UNCHANGED <<policy, rt_priority, static_prio, prio, reset_on_fork, waiter,
                 sched_class, group, weight, time_slice, rt_throttled>>

\* Mutant: prev->state is not read again under rq->lock, so a task that was
\* woken since it announced its sleep is deactivated.
ScheduleStale ==
  /\ curr # Idle
  /\ state' = [state EXCEPT ![curr] = IF @ = "dead" THEN "none" ELSE @]
  /\ Switch(IF sched_class[curr] = "wrr"
            THEN dequeue_wrr_entity(wrr, curr, weight[curr]) ELSE wrr,
            [on_rq EXCEPT ![curr] = FALSE], nr_running - 1)

\* schedule() called by a task about to sleep or to die: deactivate_task(),
\* unless a signal is pending for the sleeper.
schedule ==
  /\ curr # Idle /\ state[curr] \in {"sleeping", "dead"}
  /\ \/ /\ state' = [state EXCEPT ![curr] = IF @ = "dead" THEN "none" ELSE @]
        /\ Switch(IF sched_class[curr] = "wrr"
                  THEN dequeue_wrr_entity(wrr, curr, weight[curr]) ELSE wrr,
                  [on_rq EXCEPT ![curr] = FALSE], nr_running - 1)
     \/ /\ state[curr] = "sleeping"
        /\ state' = [state EXCEPT ![curr] = "running"]
        /\ Switch(wrr, on_rq, nr_running)

\* preempt_schedule() with PREEMPT_ACTIVE, the return to user mode, and the
\* idle loop: whatever its state, curr stays on the run queue.
preempt_schedule ==
  /\ need_resched /\ (curr # Idle => state[curr] # "dead")
  /\ Switch(wrr, on_rq, nr_running)
  /\ UNCHANGED state

\* sched_yield(): to the tail of the run list, then schedule().
sched_yield ==
  /\ curr # Idle /\ state[curr] = "running"
  /\ Switch(IF sched_class[curr] = "wrr" THEN requeue_task_wrr(wrr, curr) ELSE wrr,
            on_rq, nr_running)
  /\ UNCHANGED state

\* Mutant: the task keeps its place when its slice ends.
TaskTickNoRequeue ==
  LET left == time_slice[curr] - 1
  IN  /\ curr # Idle /\ sched_class[curr] = "wrr"
      /\ time_slice' = [time_slice EXCEPT ![curr] =
                          IF left = 0 THEN Timeslice(weight[curr]) ELSE left]
      /\ IF left = 0 /\ Len(wrr.queue) > 1
         THEN need_resched' = TRUE /\ UNCHANGED wrr
         ELSE UNCHANGED <<wrr, need_resched>>
      /\ UNCHANGED <<taskVars, on_rq, sched_class, group, weight, nr_running,
                     curr, rt_throttled>>

\* Timer tick while a WRR task runs: at the end of its slice the task gets a
\* new one and, unless it is alone, goes to the tail and is rescheduled.
task_tick_wrr ==
  LET left == time_slice[curr] - 1
  IN  /\ curr # Idle /\ sched_class[curr] = "wrr"
      /\ time_slice' = [time_slice EXCEPT ![curr] =
                          IF left = 0 THEN Timeslice(weight[curr]) ELSE left]
      /\ IF left = 0 /\ Len(wrr.queue) > 1
         THEN wrr' = requeue_task_wrr(wrr, curr) /\ need_resched' = TRUE
         ELSE UNCHANGED <<wrr, need_resched>>
      /\ UNCHANGED <<taskVars, on_rq, sched_class, group, weight, nr_running,
                     curr, rt_throttled>>

\* Tick while an RT task runs: its runtime may be used up (the class is then
\* throttled), or a SCHED_RR slice may end with an equal waiting.
task_tick_rt ==
  /\ curr # Idle /\ sched_class[curr] = "rt"
  /\ \/ rt_throttled' = TRUE
     \/ /\ \E p \in Tasks \ {curr} :
             on_rq[p] /\ sched_class[p] = "rt" /\ prio[p] = prio[curr]
        /\ UNCHANGED rt_throttled
  /\ need_resched' = TRUE
  /\ UNCHANGED <<taskVars, on_rq, sched_class, group, wrrVars, nr_running, curr>>

\* Tick while a fair task runs (external): another fair task may be due.
task_tick_fair ==
  /\ curr # Idle /\ sched_class[curr] = "fair" /\ ~need_resched
  /\ \E p \in Tasks \ {curr} : on_rq[p] /\ sched_class[p] = "fair"
  /\ need_resched' = TRUE
  /\ UNCHANGED <<taskVars, on_rq, sched_class, group, wrrVars, nr_running, curr,
                 rt_throttled>>

\* The RT period timer ends the throttling.
do_sched_rt_period_timer ==
  /\ rt_throttled /\ rt_throttled' = FALSE
  /\ need_resched' = (need_resched \/
       \E p \in Tasks : on_rq[p] /\ sched_class[p] = "rt" /\ prio[p] < PrioOf(curr))
  /\ UNCHANGED <<taskVars, on_rq, sched_class, group, wrrVars, nr_running, curr>>

-----------------------------------------------------------------------------
Init ==
  /\ state = [p \in Tasks |-> IF p = InitTask THEN "running" ELSE "none"]
  /\ on_rq = [p \in Tasks |-> p = InitTask]
  /\ policy = [p \in Tasks |-> "normal"]
  /\ rt_priority = [p \in Tasks |-> 0]
  /\ static_prio = [p \in Tasks |-> DEFAULT_PRIO]
  /\ prio = [p \in Tasks |-> DEFAULT_PRIO]
  /\ sched_class = [p \in Tasks |-> "fair"]
  /\ reset_on_fork = [p \in Tasks |-> FALSE]
  /\ waiter = [p \in Tasks |-> MAX_PRIO]
  /\ group = [p \in Tasks |-> Root]
  /\ weight = [p \in Tasks |-> 10]
  /\ time_slice = [p \in Tasks |-> WRR_FG_TIMESLICE]
  /\ wrr = init_wrr_rq
  /\ nr_running = 1 /\ curr = InitTask
  /\ need_resched = FALSE /\ rt_throttled = FALSE

Requests(p) ==
  \/ \E pol \in Policies, rtp \in RtPriorities \cup {0}, reset \in ResetFlags :
       sched_setscheduler(p, pol, rtp, reset)
  \/ normalize_task(p)
  \/ \E w \in WaiterPrios \cup {MAX_PRIO} : rt_mutex_setprio(p, w)
  \/ \E static \in StaticPrios : set_user_nice(p, static)
  \/ \E g \in Groups : cpu_cgroup_attach(p, g)

scheduler_tick == task_tick_wrr \/ task_tick_rt \/ task_tick_fair

Next ==
  \/ \E p \in Tasks : Requests(p) \/ sched_fork(p) \/ wake_up_new_task(p) \/ try_to_wake_up(p)
  \/ SetCurrentState \/ Exit \/ sched_yield
  \/ schedule \/ preempt_schedule
  \/ scheduler_tick \/ do_sched_rt_period_timer

Spec == Init /\ [][Next]_vars

-----------------------------------------------------------------------------
(* Properties *)

Queued(p) == on_rq[p] /\ sched_class[p] = "wrr"

\* The run list holds exactly the tasks that are on the run queue in the WRR
\* class, each once, and the two counters agree with it: no sequence of class,
\* group and priority changes, preemptions, sleeps and wake-ups leaves a task
\* linked in a list it left, or unlinked while it should run.
RunQueueExact ==
  /\ \A p \in Tasks : Queued(p) <=> \E i \in DOMAIN wrr.queue : wrr.queue[i] = p
  /\ \A i, j \in DOMAIN wrr.queue : i # j => wrr.queue[i] # wrr.queue[j]
  /\ wrr.wrr_nr_running = Len(wrr.queue)
  /\ nr_running = Cardinality({p \in Tasks : on_rq[p]})

\* rq->wrr.total_weight is the sum of the weights of the queued tasks, though
\* weights change while tasks are queued and what dequeue_wrr_entity() takes
\* away is the weight at that time, not the one added by enqueue_wrr_entity().
WeightAccounting ==
  wrr.total_weight = Cardinality({p \in Tasks : Queued(p) /\ weight[p] = 1})
                   + 10 * Cardinality({p \in Tasks : Queued(p) /\ weight[p] = 10})

\* get_rr_interval_wrr(): foreground is the root group only.
get_rr_interval_wrr(p) ==
  IF group[p] = Root THEN WRR_FG_TIMESLICE ELSE WRR_BG_TIMESLICE

\* "WRR will assign more execution time unit for foreground tasks and less
\* time for background tasks" (the report): a queued task has the weight of
\* its group, and a slice that is neither 0 (the tick would wrap it round)
\* nor longer than its group allows, however it came to the class.  And what
\* sched_rr_get_interval() reports, worked out from the group, is what the
\* next refill gives; only for the two groups the report uses, as for any
\* other enqueue_wrr_entity() and get_rr_interval_wrr() disagree.
SliceFits ==
  \A p \in Tasks : Queued(p) =>
    /\ weight[p] = WeightOf(group[p]) /\ time_slice[p] \in 1 .. Timeslice(weight[p])
    /\ group[p] \in {Root} \cup BgGroups => get_rr_interval_wrr(p) = Timeslice(weight[p])

\* No wake-up is lost between a task's announcement that it will sleep and its
\* schedule(): a runnable task is on the run queue, and so is the running one.
NoLostTask ==
  /\ \A p \in Tasks : state[p] = "running" => on_rq[p]
  /\ curr # Idle => on_rq[curr]

\* A WRR task never waits behind a fair or the idle task unless a reschedule
\* is already pending, whichever way the two came to be queued.
WrrBeforeFair ==
  wrr.queue # << >> /\ ClassOf(curr) \in {"fair", "idle"} => need_resched

\* Round robin: once nobody moves tasks between groups, renices or boosts
\* them, every queued WRR task gets the CPU or leaves the queue; and it never
\* has to wait for a fair task.
WrrServed ==
  /\ []WrrBeforeFair
  /\ <>[][UNCHANGED <<group, static_prio, waiter>>]_vars =>
       \A p \in Tasks : Queued(p) ~> (curr = p \/ ~Queued(p))

=============================================================================
