------------------------------ MODULE TegraWrr ------------------------------
(***************************************************************************)
(* Where WRR tasks run in the tegra kernel (Project2/tergra, Linux 3.1.10, *)
(* SMP, CONFIG_HOTPLUG_CPU, no cpusets): kernel/sched_wrr.c and the parts  *)
(* of sched.c that wake, move, switch and requeue tasks on several CPUs.   *)
(*                                                                         *)
(* A step is what one CPU does under the run queue locks it needs.  What   *)
(* it does between taking and dropping a lock, or without one, is kept in  *)
(* busy[c]: interrupts are off on c until it is done.  rq->lock is held    *)
(* from __schedule() to finish_lock_switch(), and p->pi_lock throughout a  *)
(* wake-up.  The fair class is the set of its tasks, and what fair.c, the  *)
(* CPU stopper, the cgroup core and the hotplug core do is external.  RT   *)
(* tasks, fork and exit are left to other modules; slices are left out: a  *)
(* tick may end one or not.                                                *)
(***************************************************************************)
EXTENDS WrrRunList, Integers, SequencesExt

CONSTANTS
  Tasks, Idle, Stopper,  \* rq->idle and rq->stop of every CPU
  NR_CPUS,
  HotCpus,           \* CPUs that may be taken down
  Masks,             \* masks sched_setaffinity() is called with
  Groups, Root, BgGroups,
  MaxRequests        \* bound on the changes of class, affinity, cgroup and CPUs

CPUs == 0 .. NR_CPUS - 1

ASSUME TegraAssumption ==
  /\ IsFiniteSet(Tasks) /\ Idle \notin Tasks /\ Stopper \notin Tasks \cup {Idle}
  /\ NR_CPUS \in Nat \ {0}
  /\ HotCpus \subseteq CPUs \ {0} /\ Masks \subseteq SUBSET CPUs
  /\ Root \in Groups /\ BgGroups \subseteq Groups \ {Root}
  /\ MaxRequests \in Nat

VARIABLES
  state,         \* "running", "sleeping" (about to or asleep), "waking"
  on_rq, on_cpu, task_cpu, cpus_allowed, sched_class,
  group,         \* what task_group(p) returns
  weight,        \* p->wrr.weight
  rq,            \* per CPU: wrr and nr_running (the stopper not counted)
  curr, need_resched,
  wake_list,     \* tasks woken from other CPUs, the latest first
  ipi,           \* a reschedule IPI is on its way
  cpu_online, cpu_active,
  stop_works,    \* works queued for the stopper of each CPU
  busy,          \* what a CPU is in the middle of
  changing,      \* tasks between activate_task() and check_class_changed()
  moving,        \* tasks whose new cgroup is set and sched_move_task() is due
  hot,           \* the hotplug operation in progress
  requests       \* changes asked for so far

taskVars == <<state, on_rq, on_cpu, task_cpu, cpus_allowed, sched_class, weight>>
cpuVars == <<rq, curr, need_resched, wake_list, ipi, stop_works, busy>>
hotVars == <<cpu_online, cpu_active, hot>>
vars == <<taskVars, group, cpuVars, hotVars, changing, moving, requests>>

NoOp == [op |-> "none"]
Ops ==
  {NoOp} \cup [op : {"switch"}, p : Tasks \cup {Idle, Stopper}]
    \cup [op : {"remote", "spin"}, p : Tasks]
    \cup [op : {"select"}, p : Tasks, result : CPUs, minimum_weight : Int, next : 0 .. NR_CPUS]
    \cup [op : {"pull"}, src : CPUs]
Works == {[op |-> "stop_machine"]} \cup [op : {"migrate"}, p : Tasks, dest : CPUs]

TypeOK ==
  /\ state \in [Tasks -> {"running", "sleeping", "waking"}]
  /\ on_rq \in [Tasks -> BOOLEAN] /\ on_cpu \in [Tasks -> BOOLEAN]
  /\ task_cpu \in [Tasks -> CPUs] /\ cpus_allowed \in [Tasks -> SUBSET CPUs]
  /\ sched_class \in [Tasks -> {"fair", "wrr"}]
  /\ group \in [Tasks -> Groups] /\ weight \in [Tasks -> {1, 10}]
  /\ DOMAIN rq = CPUs
  /\ \A c \in CPUs :
       /\ rq[c].wrr.queue \in Seq(Tasks) /\ rq[c].nr_running \in Nat
       /\ rq[c].wrr.wrr_nr_running \in Nat /\ rq[c].wrr.total_weight \in Int
  /\ curr \in [CPUs -> Tasks \cup {Idle, Stopper}]
  /\ need_resched \in [CPUs -> BOOLEAN] /\ ipi \in [CPUs -> BOOLEAN]
  /\ \A c \in CPUs : wake_list[c] \in Seq(Tasks) /\ stop_works[c] \in Seq(Works)
  /\ cpu_online \subseteq CPUs /\ cpu_active \subseteq CPUs
  /\ busy \in [CPUs -> Ops]
  /\ changing \subseteq Tasks /\ moving \subseteq Tasks
  /\ requests \in 0 .. MaxRequests
  /\ hot \in [phase : {"none", "prepare", "stop", "dying", "starting"}, c : CPUs]

-----------------------------------------------------------------------------
(* Locks *)

LockFree(c) == busy[c].op # "switch" /\ \A p \in changing : task_cpu[p] # c

PiLockFree(p) ==
  p \notin changing /\ \A c \in CPUs : busy[c].op \in {"remote", "spin", "select"} => busy[c].p # p

\* task_rq_lock(p).
TaskLockFree(p) == PiLockFree(p) /\ LockFree(task_cpu[p])

\* c runs with interrupts on: it takes part in no stop_machine() that has begun.
CanAct(c) == c \in cpu_online /\ busy[c] = NoOp /\ hot.phase # "dying"

-----------------------------------------------------------------------------
(* Run queues *)

FirstOf(S) == CHOOSE c \in S : \A d \in S : c <= d
WeightOf(g) == IF g \in BgGroups THEN 1 ELSE 10

\* nr_running is raised by activate_task() for every task, and once more by
\* enqueue_task_wrr() for a WRR task.
Counted(p) == IF sched_class[p] = "wrr" THEN 2 ELSE 1

activate_task(r, p) ==
  [wrr        |-> IF sched_class[p] = "wrr"
                  THEN enqueue_wrr_entity(r.wrr, p, WeightOf(group[p]), FALSE) ELSE r.wrr,
   nr_running |-> r.nr_running + Counted(p)]

deactivate_task(r, p) ==
  [wrr        |-> IF sched_class[p] = "wrr"
                  THEN dequeue_wrr_entity(r.wrr, p, weight[p]) ELSE r.wrr,
   nr_running |-> r.nr_running - Counted(p)]

\* enqueue_wrr_entity() gives the task the weight of its group first.
Weighed(S) == [p \in Tasks |-> IF p \in S /\ sched_class[p] = "wrr"
                               THEN WeightOf(group[p]) ELSE weight[p]]

ClassOrder == [idle |-> 0, fair |-> 1, wrr |-> 2, stop |-> 4]
ClassOf(t) == IF t = Idle THEN "idle" ELSE IF t = Stopper THEN "stop" ELSE sched_class[t]

\* May check_preempt_curr(rq of c, p) call resched_task()?
check_preempt_curr(c, p) ==
  IF sched_class[p] # ClassOf(curr[c])
  THEN {ClassOrder[sched_class[p]] > ClassOrder[ClassOf(curr[c])]}
  ELSE IF sched_class[p] = "wrr" THEN {FALSE} ELSE BOOLEAN  \* fair.c

Resched(c, answers) ==
  \E b \in answers : need_resched' = [need_resched EXCEPT ![c] = @ \/ b]

\* deactivate_task(src), set_task_cpu(), activate_task(dst), check_preempt_curr().
Move(p, src, dst) ==
  /\ LET left == [rq EXCEPT ![src] = deactivate_task(rq[src], p)]
     IN  rq' = [left EXCEPT ![dst] = activate_task(left[dst], p)]
  /\ task_cpu' = [task_cpu EXCEPT ![p] = dst]
  /\ weight' = Weighed({p})
  /\ Resched(dst, check_preempt_curr(dst, p))

-----------------------------------------------------------------------------
(* Affinity *)

\* do_set_cpus_allowed(): set_cpus_allowed_wrr() does nothing.
do_set_cpus_allowed(p, mask) ==
  IF sched_class[p] = "wrr" THEN cpus_allowed
  ELSE [cpus_allowed EXCEPT ![p] = mask]

\* select_fallback_rq(): the CPU and the masks after it.  Without an allowed
\* CPU cpuset_cpus_allowed_fallback() (external) allows every CPU.
select_fallback_rq(p) ==
  IF cpus_allowed[p] \cap cpu_active # {}
  THEN [dest |-> FirstOf(cpus_allowed[p] \cap cpu_active), allowed |-> cpus_allowed]
  ELSE [dest |-> FirstOf(cpu_active), allowed |-> do_set_cpus_allowed(p, CPUs)]

set_cpus_allowed_ptr(p, mask) ==
  /\ hot.phase # "dying" /\ TaskLockFree(p)
  /\ mask # cpus_allowed[p] /\ mask \cap cpu_active # {}
  /\ cpus_allowed' = do_set_cpus_allowed(p, mask)
  /\ IF task_cpu[p] \in mask \/ ~on_rq[p]
     THEN UNCHANGED <<stop_works, need_resched>>
     ELSE /\ stop_works' = [stop_works EXCEPT ![task_cpu[p]] =
               Append(@, [op |-> "migrate", p |-> p, dest |-> FirstOf(cpu_active \cap mask)])]
          /\ need_resched' = [need_resched EXCEPT ![task_cpu[p]] = TRUE]
  /\ UNCHANGED <<state, on_rq, on_cpu, task_cpu, sched_class, weight, group, rq, curr,
                 wake_list, ipi, busy, hotVars, changing, moving>>

\* __migrate_task(p, src, dest), with masks as they are now.
MigrateTo(p, src, dest, allowed) ==
  /\ cpus_allowed' = allowed
  /\ IF dest \in cpu_active /\ task_cpu[p] = src /\ dest \in allowed[p] /\ on_rq[p]
     THEN Move(p, src, dest)
     ELSE UNCHANGED <<rq, task_cpu, weight, need_resched>>

\* The stopper of c runs a migration.
migration_cpu_stop(c) ==
  LET w == Head(stop_works[c])
  IN  /\ CanAct(c) /\ curr[c] = Stopper /\ stop_works[c] # << >> /\ w.op = "migrate"
      /\ PiLockFree(w.p) /\ LockFree(c) /\ LockFree(w.dest)
      /\ MigrateTo(w.p, c, w.dest, cpus_allowed)
      /\ stop_works' = [stop_works EXCEPT ![c] = Tail(@)]
      /\ UNCHANGED <<state, on_rq, on_cpu, sched_class, group, curr, wake_list, ipi, busy,
                     hotVars, changing, moving>>

-----------------------------------------------------------------------------
(* Sleeping and waking *)

\* A running task announces that it will sleep.
SetCurrentState(c) ==
  /\ CanAct(c) /\ curr[c] \in Tasks /\ state[curr[c]] = "running"
  /\ state' = [state EXCEPT ![curr[c]] = "sleeping"]
  /\ UNCHANGED <<on_rq, on_cpu, task_cpu, cpus_allowed, sched_class, weight, group,
                 cpuVars, hotVars, changing, moving>>

\* CPU c takes p->pi_lock and reads p->on_rq.
try_to_wake_up(c, p) ==
  /\ CanAct(c) /\ PiLockFree(p) /\ state[p] = "sleeping"
  /\ busy' = [busy EXCEPT ![c] = [op |-> IF on_rq[p] THEN "remote" ELSE "spin", p |-> p]]
  /\ UNCHANGED <<taskVars, group, rq, curr, need_resched, wake_list, ipi, stop_works,
                 hotVars, changing, moving>>

\* Under the lock of its run queue p may turn out to have left it.
ttwu_remote(c) ==
  LET p == busy[c].p
  IN  /\ busy[c].op = "remote" /\ LockFree(task_cpu[p])
      /\ IF on_rq[p]
         THEN /\ state' = [state EXCEPT ![p] = "running"]
              /\ Resched(task_cpu[p], check_preempt_curr(task_cpu[p], p))
              /\ busy' = [busy EXCEPT ![c] = NoOp]
         ELSE /\ busy' = [busy EXCEPT ![c] = [op |-> "spin", p |-> p]]
              /\ UNCHANGED <<state, need_resched>>
      /\ UNCHANGED <<on_rq, on_cpu, task_cpu, cpus_allowed, sched_class, weight, group,
                     rq, curr, wake_list, ipi, stop_works, hotVars, changing, moving>>

\* set_task_cpu() and ttwu_queue(): the result of the class's select_task_rq()
\* is replaced when it is not allowed or offline; another CPU's task goes on
\* that CPU's wake_list, with an IPI if the list was empty.
Queue(c, p, result) ==
  LET valid == result \in cpus_allowed[p] /\ result \in cpu_online
      f     == select_fallback_rq(p)
      dest  == IF valid THEN result ELSE f.dest
  IN  /\ cpus_allowed' = IF valid THEN cpus_allowed ELSE f.allowed
      /\ task_cpu' = [task_cpu EXCEPT ![p] = dest]
      /\ IF dest = c
         THEN /\ LockFree(c)
              /\ rq' = [rq EXCEPT ![c] = activate_task(@, p)]
              /\ weight' = Weighed({p})
              /\ on_rq' = [on_rq EXCEPT ![p] = TRUE]
              /\ Resched(c, check_preempt_curr(c, p))
              /\ state' = [state EXCEPT ![p] = "running"]
              /\ UNCHANGED <<wake_list, ipi>>
         ELSE /\ wake_list' = [wake_list EXCEPT ![dest] = <<p>> \o @]
              /\ ipi' = [ipi EXCEPT ![dest] = @ \/ wake_list[dest] = << >>]
              /\ state' = [state EXCEPT ![p] = "waking"]
              /\ UNCHANGED <<rq, weight, on_rq, need_resched>>
      /\ busy' = [busy EXCEPT ![c] = NoOp]

\* Mutant: the wake-up does not wait until p is off its CPU.
TtwuNoWait(c) ==
  LET p == busy[c].p
  IN  /\ busy[c].op = "spin"
      /\ IF sched_class[p] = "wrr" /\ Cardinality(cpus_allowed[p]) # 1
         THEN /\ busy' = [busy EXCEPT ![c] =
                   [op |-> "select", p |-> p, result |-> task_cpu[p],
                    minimum_weight |-> rq[task_cpu[p]].wrr.total_weight, next |-> 0]]
              /\ state' = [state EXCEPT ![p] = "waking"]
              /\ UNCHANGED <<task_cpu, cpus_allowed, rq, weight, on_rq, need_resched,
                             wake_list, ipi>>
         ELSE \E result \in IF sched_class[p] = "wrr" THEN {task_cpu[p]} ELSE CPUs :
                Queue(c, p, result)
      /\ UNCHANGED <<on_cpu, sched_class, group, curr, stop_works, hotVars, changing, moving>>

\* The wake-up goes on once p is off its CPU.  A fair task may be put on any
\* CPU (external); a WRR task with a choice starts the search for the least
\* total_weight, which looks at the other CPUs without their locks.
ttwu_wait(c) ==
  LET p == busy[c].p
  IN  /\ busy[c].op = "spin" /\ ~on_cpu[p]
      /\ IF sched_class[p] = "wrr" /\ Cardinality(cpus_allowed[p]) # 1
         THEN /\ busy' = [busy EXCEPT ![c] =
                   [op |-> "select", p |-> p, result |-> task_cpu[p],
                    minimum_weight |-> rq[task_cpu[p]].wrr.total_weight, next |-> 0]]
              /\ state' = [state EXCEPT ![p] = "waking"]
              /\ UNCHANGED <<task_cpu, cpus_allowed, rq, weight, on_rq, need_resched,
                             wake_list, ipi>>
         ELSE \E result \in IF sched_class[p] = "wrr" THEN {task_cpu[p]} ELSE CPUs :
                Queue(c, p, result)
      /\ UNCHANGED <<on_cpu, sched_class, group, curr, stop_works, hotVars, changing, moving>>

\* One round of the loop of select_task_rq_wrr().
select_task_rq_wrr(c) ==
  LET b == busy[c]
      better == /\ b.next \in cpu_online /\ b.next \in cpus_allowed[b.p]
                /\ rq[b.next].wrr.total_weight < b.minimum_weight
  IN  /\ b.op = "select"
      /\ IF b.next < NR_CPUS
         THEN /\ busy' = [busy EXCEPT ![c] =
                   [b EXCEPT !.next = @ + 1,
                             !.result = IF better THEN b.next ELSE @,
                             !.minimum_weight = IF better THEN rq[b.next].wrr.total_weight ELSE @]]
              /\ UNCHANGED <<state, task_cpu, cpus_allowed, rq, weight, on_rq, need_resched,
                             wake_list, ipi>>
         ELSE Queue(c, b.p, b.result)
      /\ UNCHANGED <<on_cpu, sched_class, group, curr, stop_works, hotVars, changing, moving>>

\* sched_ttwu_do_pending() on CPU c: the run queue after i rounds of the loop, and the end.
DoPending(c) ==
  LET list == ToSet(wake_list[c])
      woken[i \in 0 .. Len(wake_list[c])] ==
        IF i = 0 THEN rq[c] ELSE activate_task(woken[i - 1], wake_list[c][i])
  IN  /\ rq' = [rq EXCEPT ![c] = woken[Len(wake_list[c])]]
      /\ weight' = Weighed(list)
      /\ on_rq' = [p \in Tasks |-> on_rq[p] \/ p \in list]
      /\ state' = [p \in Tasks |-> IF p \in list THEN "running" ELSE state[p]]
      /\ wake_list' = [wake_list EXCEPT ![c] = << >>]

scheduler_ipi(c) ==
  /\ CanAct(c) /\ ipi[c] /\ LockFree(c)
  /\ DoPending(c)
  /\ ipi' = [ipi EXCEPT ![c] = FALSE]
  /\ Resched(c, UNION {check_preempt_curr(c, p) : p \in ToSet(wake_list[c])} \cup
                (IF wake_list[c] = << >> THEN {FALSE} ELSE {}))
  /\ UNCHANGED <<on_cpu, task_cpu, cpus_allowed, sched_class, group, curr, stop_works,
                 busy, hotVars, changing, moving>>

-----------------------------------------------------------------------------
(* schedule() and the tick *)

FairOn(c, queued) == {p \in Tasks : queued[p] /\ task_cpu[p] = c /\ sched_class[p] = "fair"}

\* The tasks pick_next_task() may return; the stop class comes first.
pick_next_task(c, r, queued, works) ==
  IF works # << >> THEN {Stopper}
  ELSE IF r.nr_running = Cardinality(FairOn(c, queued)) /\ FairOn(c, queued) # {}
       THEN FairOn(c, queued)
  ELSE IF r.wrr.wrr_nr_running # 0 THEN {Head(r.wrr.queue)}
  ELSE IF FairOn(c, queued) # {} THEN FairOn(c, queued)
  ELSE {Idle}

\* From pick_next_task() into context_switch(): the lock stays held.
Switch(c, r, queued) ==
  \E next \in pick_next_task(c, r, queued, stop_works[c]) :
    /\ rq' = [rq EXCEPT ![c] = r] /\ on_rq' = queued
    /\ curr' = [curr EXCEPT ![c] = next]
    /\ need_resched' = [need_resched EXCEPT ![c] = FALSE]
    /\ on_cpu' = [p \in Tasks |-> on_cpu[p] \/ p = next]
    /\ busy' = [busy EXCEPT ![c] = IF next = curr[c] THEN NoOp
                                   ELSE [op |-> "switch", p |-> curr[c]]]
    /\ UNCHANGED <<task_cpu, cpus_allowed, sched_class, weight, group, wake_list, ipi,
                   stop_works, hotVars, changing, moving>>

\* schedule() of a task about to sleep, or of a stopper without work; a
\* signal may keep the task awake.
schedule(c) ==
  /\ CanAct(c) /\ LockFree(c)
  /\ \/ /\ curr[c] \in Tasks /\ state[curr[c]] = "sleeping"
        /\ \/ /\ Switch(c, deactivate_task(rq[c], curr[c]), [on_rq EXCEPT ![curr[c]] = FALSE])
              /\ UNCHANGED state
           \/ /\ state' = [state EXCEPT ![curr[c]] = "running"]
              /\ Switch(c, rq[c], on_rq)
     \/ /\ curr[c] = Stopper /\ stop_works[c] = << >>
        /\ Switch(c, rq[c], on_rq) /\ UNCHANGED state

preempt_schedule(c) ==
  /\ CanAct(c) /\ LockFree(c) /\ need_resched[c] /\ curr[c] # Stopper
  /\ Switch(c, rq[c], on_rq) /\ UNCHANGED state

\* prev->on_cpu = 0 and the lock is dropped.
finish_task_switch(c) ==
  /\ busy[c].op = "switch"
  /\ on_cpu' = [p \in Tasks |-> on_cpu[p] /\ p # busy[c].p]
  /\ busy' = [busy EXCEPT ![c] = NoOp]
  /\ UNCHANGED <<state, on_rq, task_cpu, cpus_allowed, sched_class, weight, group, rq, curr,
                 need_resched, wake_list, ipi, stop_works, hotVars, changing, moving>>

\* pull_wrr_task(c) goes on with the first other online CPU from src on.
Pull(c, src) ==
  LET Left == {d \in cpu_online \ {c} : d >= src}
  IN  IF Left = {} THEN NoOp ELSE [op |-> "pull", src |-> FirstOf(Left)]

\* The tick of the class of curr[c]: at the end of its slice a WRR task goes to
\* the tail unless it is alone; a fair task may have to give way (external).
task_tick(c) ==
  \/ UNCHANGED <<rq, need_resched>>
  \/ /\ curr[c] \in Tasks /\ sched_class[curr[c]] = "wrr" /\ Len(rq[c].wrr.queue) > 1
     /\ rq' = [rq EXCEPT ![c].wrr = requeue_task_wrr(@, curr[c])]
     /\ need_resched' = [need_resched EXCEPT ![c] = TRUE]
  \/ /\ curr[c] \in FairOn(c, on_rq) /\ Cardinality(FairOn(c, on_rq)) > 1
     /\ need_resched' = [need_resched EXCEPT ![c] = TRUE]
     /\ UNCHANGED rq

\* The tick; a CPU without WRR tasks then tries to pull one.
scheduler_tick(c) ==
  /\ CanAct(c) /\ LockFree(c)
  /\ task_tick(c)
  /\ busy' = [busy EXCEPT ![c] = IF rq[c].wrr.wrr_nr_running = 0 THEN Pull(c, 0) ELSE NoOp]
  /\ UNCHANGED <<taskVars, group, curr, wake_list, ipi, stop_works, hotVars, changing, moving>>

\* One round of the loop of pull_wrr_task(), under both run queue locks: the
\* first task of the queue that does not run and may run here is moved.
pull_wrr_task(c) ==
  LET src == busy[c].src
      q   == rq[src].wrr.queue
      Fit == {i \in DOMAIN q : ~on_cpu[q[i]] /\ c \in cpus_allowed[q[i]] /\ on_rq[q[i]]}
  IN  /\ busy[c].op = "pull" /\ LockFree(c) /\ LockFree(src)
      /\ IF Fit = {}
         THEN /\ busy' = [busy EXCEPT ![c] = Pull(c, src + 1)]
              /\ UNCHANGED <<rq, task_cpu, weight, need_resched>>
         ELSE /\ busy' = [busy EXCEPT ![c] = NoOp]
              /\ Move(q[FirstOf(Fit)], src, c)
      /\ UNCHANGED <<state, on_rq, on_cpu, cpus_allowed, sched_class, group, curr, wake_list,
                     ipi, stop_works, hotVars, changing, moving>>

\* pull_task() of fair.c (external): load balancing moves a fair task to c.
LoadBalance(c, p) ==
  LET src == task_cpu[p]
  IN  /\ CanAct(c) /\ c \in cpu_active /\ src # c /\ LockFree(c) /\ LockFree(src)
      /\ sched_class[p] = "fair" /\ on_rq[p] /\ ~on_cpu[p] /\ c \in cpus_allowed[p]
      /\ Move(p, src, c)
      /\ UNCHANGED <<state, on_rq, on_cpu, cpus_allowed, sched_class, group, curr, wake_list,
                     ipi, stop_works, busy, hotVars, changing, moving>>

-----------------------------------------------------------------------------
(* Class and group changes *)

\* __sched_setscheduler() up to activate_task(), both locks held.
sched_setscheduler(p) ==
  LET c    == task_cpu[p]
      to   == IF sched_class[p] = "wrr" THEN "fair" ELSE "wrr"
      out  == IF on_rq[p] THEN deactivate_task(rq[c], p) ELSE rq[c]
  IN  /\ hot.phase # "dying" /\ TaskLockFree(p)
      /\ sched_class' = [sched_class EXCEPT ![p] = to]
      /\ rq' = [rq EXCEPT ![c] =
           IF ~on_rq[p] THEN out
           ELSE IF to = "wrr"
           THEN [wrr |-> enqueue_wrr_entity(out.wrr, p, WeightOf(group[p]), FALSE),
                 nr_running |-> out.nr_running + 2]
           ELSE [out EXCEPT !.nr_running = @ + 1]]
      /\ weight' = [weight EXCEPT ![p] = IF on_rq[p] /\ to = "wrr" THEN WeightOf(group[p]) ELSE @]
      /\ changing' = changing \cup {p}
      /\ UNCHANGED <<state, on_rq, on_cpu, task_cpu, cpus_allowed, group, curr, need_resched,
                     wake_list, ipi, stop_works, busy, hotVars, moving>>

\* A queued task that does not run gets the weight of its group again.
switched_to_wrr(p, c) ==
  LET other == on_rq[p] /\ curr[c] # p
  IN  /\ Resched(c, {other /\ curr[c] # Stopper})
      /\ weight' = [weight EXCEPT ![p] = IF other THEN WeightOf(group[p]) ELSE @]

\* switched_to_fair() of sched_fair.c (external).
switched_to_fair(p, c) ==
  /\ Resched(c, IF ~on_rq[p] THEN {FALSE} ELSE IF curr[c] = p THEN {TRUE}
                ELSE check_preempt_curr(c, p))
  /\ UNCHANGED weight

check_class_changed(p) ==
  /\ p \in changing
  /\ changing' = changing \ {p}
  /\ IF sched_class[p] = "wrr" THEN switched_to_wrr(p, task_cpu[p])
     ELSE switched_to_fair(p, task_cpu[p])
  /\ UNCHANGED <<state, on_rq, on_cpu, task_cpu, cpus_allowed, sched_class, group, rq,
                 curr, wake_list, ipi, stop_works, busy, hotVars, moving>>

\* cgroup_attach_task() (external) sets p->cgroups, which task_group() reads,
\* under no lock of the scheduler, ...
SetCgroup(p, g) ==
  /\ hot.phase # "dying" /\ p \notin moving /\ g # group[p]
  /\ group' = [group EXCEPT ![p] = g]
  /\ moving' = moving \cup {p}
  /\ UNCHANGED <<taskVars, cpuVars, hotVars, changing>>

\* ... and then calls cpu_cgroup_attach_task().
sched_move_task(p) ==
  LET c == task_cpu[p]
  IN  /\ hot.phase # "dying" /\ p \in moving /\ TaskLockFree(p)
      /\ moving' = moving \ {p}
      /\ IF on_rq[p]
         THEN /\ rq' = [rq EXCEPT ![c] = activate_task(deactivate_task(@, p), p)]
              /\ weight' = Weighed({p})
         ELSE UNCHANGED <<rq, weight>>
      /\ UNCHANGED <<state, on_rq, on_cpu, task_cpu, cpus_allowed, sched_class, group, curr,
                     need_resched, wake_list, ipi, stop_works, busy, hotVars, changing>>

-----------------------------------------------------------------------------
(* CPU hotplug; the core of it (kernel/cpu.c) is external *)

NoHot == [phase |-> "none", c |-> 0]

\* CPU_DOWN_PREPARE.
sched_cpu_inactive(c) ==
  /\ hot = NoHot /\ c \in cpu_online
  /\ cpu_active' = cpu_active \ {c}
  /\ hot' = [phase |-> "prepare", c |-> c]
  /\ UNCHANGED <<taskVars, group, cpuVars, cpu_online, changing, moving>>

\* CPU_DOWN_FAILED: another subsystem refused.
sched_cpu_active ==
  /\ hot.phase = "prepare"
  /\ cpu_active' = cpu_active \cup {hot.c}
  /\ hot' = NoHot
  /\ UNCHANGED <<taskVars, group, cpuVars, cpu_online, changing, moving>>

\* stop_machine() (external): a work for the stopper of every online CPU.
StopMachine ==
  /\ hot.phase = "prepare"
  /\ hot' = [hot EXCEPT !.phase = "stop"]
  /\ stop_works' = [c \in CPUs |-> IF c \in cpu_online
                      THEN Append(stop_works[c], [op |-> "stop_machine"]) ELSE stop_works[c]]
  /\ need_resched' = [c \in CPUs |-> need_resched[c] \/ c \in cpu_online]
  /\ UNCHANGED <<taskVars, group, rq, curr, wake_list, ipi, busy, cpu_online, cpu_active,
                 changing, moving>>

\* Mutant: the wake_list of the dying CPU is forgotten.
DyingNoPending ==
  /\ hot.phase = "stop" /\ changing = {}
  /\ \A c \in cpu_online :
       busy[c] = NoOp /\ curr[c] = Stopper /\ Head(stop_works[c]).op = "stop_machine"
  /\ cpu_online' = cpu_online \ {hot.c}
  /\ hot' = [hot EXCEPT !.phase = "dying"]
  /\ UNCHANGED <<state, on_rq, weight, rq, wake_list, on_cpu, task_cpu, cpus_allowed, sched_class, group, curr, need_resched, ipi,
                 stop_works, busy, cpu_active, changing, moving>>

\* CPU_DYING, first part, with every CPU stopped: the CPU is offline, and its
\* wake_list is emptied (sched_ttwu_pending).
migration_call ==
  /\ hot.phase = "stop" /\ changing = {}
  /\ \A c \in cpu_online :
       busy[c] = NoOp /\ curr[c] = Stopper /\ Head(stop_works[c]).op = "stop_machine"
  /\ cpu_online' = cpu_online \ {hot.c}
  /\ hot' = [hot EXCEPT !.phase = "dying"]
  /\ DoPending(hot.c)
  /\ UNCHANGED <<on_cpu, task_cpu, cpus_allowed, sched_class, group, curr, need_resched, ipi,
                 stop_works, busy, cpu_active, changing, moving>>

\* One round of the loop of migrate_tasks().
migrate_tasks ==
  LET c == hot.c
  IN  /\ hot.phase = "dying" /\ rq[c].nr_running # 0
      /\ \E p \in pick_next_task(c, rq[c], on_rq, << >>) :
           LET f == select_fallback_rq(p) IN MigrateTo(p, c, f.dest, f.allowed)
      /\ UNCHANGED <<state, on_rq, on_cpu, sched_class, group, curr, wake_list, ipi, stop_works,
                     busy, hotVars, changing, moving>>

\* The CPU is empty: it dies with the works left for its stopper (external)
\* and the others go on.
CpuDead ==
  /\ hot.phase = "dying" /\ rq[hot.c].nr_running = 0
  /\ hot' = NoHot
  /\ stop_works' = [c \in CPUs |-> IF c = hot.c THEN << >>
                      ELSE IF c \in cpu_online THEN Tail(stop_works[c]) ELSE stop_works[c]]
  /\ curr' = [curr EXCEPT ![hot.c] = Idle]
  /\ need_resched' = [need_resched EXCEPT ![hot.c] = FALSE]
  /\ ipi' = [ipi EXCEPT ![hot.c] = FALSE]
  /\ UNCHANGED <<taskVars, group, rq, wake_list, busy, cpu_online, cpu_active, changing, moving>>

\* CPU_STARTING: sched_cpu_active() comes before set_cpu_online() (external).
CpuStarting(c) ==
  /\ hot = NoHot /\ c \notin cpu_online
  /\ cpu_active' = cpu_active \cup {c}
  /\ hot' = [phase |-> "starting", c |-> c]
  /\ UNCHANGED <<taskVars, group, cpuVars, cpu_online, changing, moving>>

CpuOnline ==
  /\ hot.phase = "starting"
  /\ cpu_online' = cpu_online \cup {hot.c}
  /\ hot' = NoHot
  /\ UNCHANGED <<taskVars, group, cpuVars, cpu_active, changing, moving>>

-----------------------------------------------------------------------------
\* The tasks sleep, in either class (with several, not all fair) and allowed
\* everywhere; all CPUs are online or only those that stay so.
Init ==
  /\ state = [p \in Tasks |-> "sleeping"]
  /\ on_rq = [p \in Tasks |-> FALSE] /\ on_cpu = [p \in Tasks |-> FALSE]
  /\ task_cpu = [p \in Tasks |-> 0] /\ cpus_allowed = [p \in Tasks |-> CPUs]
  /\ sched_class \in [Tasks -> {"fair", "wrr"}]
  /\ Cardinality(Tasks) > 1 => \E p \in Tasks : sched_class[p] = "wrr"
  /\ group = [p \in Tasks |-> Root] /\ weight = [p \in Tasks |-> 10]
  /\ rq = [c \in CPUs |-> [wrr |-> init_wrr_rq, nr_running |-> 0]]
  /\ curr = [c \in CPUs |-> Idle] /\ need_resched = [c \in CPUs |-> FALSE]
  /\ wake_list = [c \in CPUs |-> << >>] /\ ipi = [c \in CPUs |-> FALSE]
  /\ cpu_online \in {CPUs, CPUs \ HotCpus} /\ cpu_active = cpu_online
  /\ stop_works = [c \in CPUs |-> << >>] /\ busy = [c \in CPUs |-> NoOp]
  /\ changing = {} /\ moving = {} /\ hot = NoHot /\ requests = 0

\* What is asked of the scheduler from outside.
Request ==
  \/ \E p \in Tasks : sched_setscheduler(p)
  \/ \E p \in Tasks, mask \in Masks : set_cpus_allowed_ptr(p, mask)
  \/ \E p \in Tasks, g \in Groups : SetCgroup(p, g)
  \/ \E c \in HotCpus : sched_cpu_inactive(c) \/ CpuStarting(c)

\* What goes on by itself on CPU c once it was begun.
Progress(c) ==
  \/ ttwu_remote(c) \/ ttwu_wait(c) \/ select_task_rq_wrr(c) \/ pull_wrr_task(c)
  \/ finish_task_switch(c) \/ migration_cpu_stop(c) \/ schedule(c) \/ preempt_schedule(c)
  \/ scheduler_ipi(c)

Hotplug == StopMachine \/ migration_call \/ migrate_tasks \/ CpuDead \/ CpuOnline

Next ==
  \/ requests < MaxRequests /\ Request /\ requests' = requests + 1
  \/ /\ \/ \E c \in CPUs : Progress(c) \/ SetCurrentState(c) \/ scheduler_tick(c)
        \/ \E c \in CPUs, p \in Tasks : try_to_wake_up(c, p) \/ LoadBalance(c, p)
        \/ \E p \in Tasks : check_class_changed(p) \/ sched_move_task(p)
        \/ Hotplug \/ sched_cpu_active
     /\ UNCHANGED requests

Spec == Init /\ [][Next]_vars

\* With every CPU stopped nothing keeps the dying one from going on.
FairSpec == Spec /\ WF_vars(Hotplug /\ UNCHANGED requests)

\* Tasks are interchangeable.
TaskSymmetry == Permutations(Tasks)

-----------------------------------------------------------------------------
(* Properties *)

\* A task executes on at most one CPU, the one whose run queue it is on.
OneCpu ==
  \A p \in Tasks, c \in CPUs :
    curr[c] = p \/ busy[c] = [op |-> "switch", p |-> p] =>
      on_cpu[p] /\ (curr[c] = p => on_rq[p] /\ task_cpu[p] = c)
      /\ \A d \in CPUs \ {c} : curr[d] # p /\ busy[d] # [op |-> "switch", p |-> p]

\* The WRR run list of a CPU holds exactly the queued WRR tasks of that CPU,
\* each once, wrr_nr_running agrees with it, and nr_running counts a fair task
\* once and a WRR task twice: pulls, migrations, remote wake-ups, class changes
\* and hotplug, in any order, leave no task linked on a CPU it left, nor
\* executing on two: a wake-up that finds its task still switching out waits
\* for on_cpu, and pulls and migrations leave running tasks alone.
RunQueuesExact ==
  /\ TypeOK /\ OneCpu
  /\ \A c \in CPUs :
       LET On(cl) == {p \in Tasks : on_rq[p] /\ task_cpu[p] = c /\ sched_class[p] = cl}
       IN  /\ ToSet(rq[c].wrr.queue) = On("wrr")
           /\ Len(rq[c].wrr.queue) = Cardinality(On("wrr"))
           /\ rq[c].wrr.wrr_nr_running = Len(rq[c].wrr.queue)
           /\ rq[c].nr_running = Cardinality(On("fair")) + 2 * Cardinality(On("wrr"))

\* p is on the wake_list of CPU c, which knows of it.
Listed(p, c) == p \in ToSet(wake_list[c]) /\ ipi[c]

\* A task being woken is on the wake_list of its CPU with an IPI on the way,
\* or some CPU is still placing it; a runnable one is queued.
NoLostWakeup ==
  \A p \in Tasks :
    /\ state[p] = "running" => on_rq[p]
    /\ state[p] = "waking" =>
         Listed(p, task_cpu[p]) \/ \E c \in CPUs : busy[c].op = "select" /\ busy[c].p = p

\* No task is stranded on a CPU that is down, and no wake-up is lost: a CPU
\* that is neither online nor about to be, and that is done dying, has nothing
\* queued or listed, though wake-ups and migrations chose it while it was
\* going down.
NothingStranded ==
  /\ NoLostWakeup
  /\ \A c \in CPUs \ (cpu_online \cup cpu_active) : hot = [phase |-> "dying", c |-> c] \/
       /\ wake_list[c] = << >>
       /\ \A p \in Tasks : on_rq[p] => task_cpu[p] # c

\* "with force if needed" (sched.c:6349): taking a CPU down ends.
HotplugEnds == hot.phase = "dying" ~> hot.phase # "dying"

=============================================================================
