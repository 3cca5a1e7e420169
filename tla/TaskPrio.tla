------------------------------ MODULE TaskPrio ------------------------------
(***************************************************************************)
(* The priority of a task in the tegra kernel (kernel/sched.c): policy,    *)
(* nice value, priority inheritance, fork and the SysRq that makes all     *)
(* tasks normal, each of which rewrites prio, normal_prio and the class.   *)
(* Every step holds the task's pi_lock and run queue lock, or has a child  *)
(* nobody can see yet.  rt_mutexes are external: top is the priority of    *)
(* the highest waiter that p holds up, MAX_PRIO when there is none.        *)
(***************************************************************************)
EXTENDS Integers

CONSTANTS
  Procs,        \* tasks, some of which are not forked yet
  MAX_RT_PRIO, MAX_PRIO, Nice0, \* Nice0: NICE_TO_PRIO(0)
  MaxChanges    \* bound

\* Real-time priorities come before those of nice values, and these before MAX_PRIO.
ASSUME PrioAssumption ==
  /\ MAX_RT_PRIO \in Nat \ {0} /\ MAX_PRIO \in Nat /\ Nice0 \in Nat /\ MaxChanges \in Nat
  /\ MAX_RT_PRIO < Nice0 /\ Nice0 + 1 < MAX_PRIO

VARIABLES
  proc,         \* what a task_struct says, and where the task is queued, see Dead
  top,
  unreverted,   \* history: children that a fork has reset but for the real-time priority they still have
  changes

prioVars == <<proc, top, unreverted, changes>>

Policies == {"normal", "fifo", "wrr"}
NotQueued == [class |-> "none", prio |-> 0]
Dead == [alive |-> FALSE, policy |-> "normal", rt_priority |-> 0, static_prio |-> Nice0,
         normal_prio |-> Nice0, prio |-> Nice0, class |-> "fair", reset |-> FALSE, queue |-> NotQueued]
rt_prio(x) == x < MAX_RT_PRIO
Higher(a, b) == IF a < b THEN a ELSE b
NicePrios == Nice0 - 1 .. Nice0 + 1
RtPriorities == 1 .. MAX_RT_PRIO - 1

PrioInit ==
  /\ \E q \in Procs : proc = [r \in Procs |-> [Dead EXCEPT !.alive = (r = q)]]
  /\ top = [q \in Procs |-> MAX_PRIO]
  /\ unreverted = {}
  /\ changes = 0

-----------------------------------------------------------------------------

\* the list that the class of a queued task has it in
QueueOf(q) == [class |-> q.class, prio |-> IF q.class = "rt" THEN q.prio ELSE MAX_PRIO]
enqueue_task(q) == [q EXCEPT !.queue = QueueOf(q)]
Queued(q) == q.queue # NotQueued

\* dequeue_task() before a change, and enqueue_task() after it if it was queued
Requeued(old, new) == IF Queued(old) THEN enqueue_task(new) ELSE new

SchedClass(policy, prio) == IF policy = "wrr" THEN "wrr" ELSE IF rt_prio(prio) THEN "rt" ELSE "fair"
normal_prio(q) == IF q.policy = "fifo" THEN MAX_RT_PRIO - 1 - q.rt_priority ELSE q.static_prio

\* rt_mutex_getprio()
Inherited(r, normal) == Higher(top[r], normal)

\* Mutant: who holds a mutex that others wait for loses their priority.
Uninherited(r, q, policy, rt_priority) ==
  LET set == [q EXCEPT !.policy = policy, !.rt_priority = rt_priority]
  IN  [set EXCEPT !.normal_prio = normal_prio(set), !.prio = normal_prio(set),
                  !.class = SchedClass(policy, normal_prio(set))]

__setscheduler(r, q, policy, rt_priority) ==
  LET set  == [q EXCEPT !.policy = policy, !.rt_priority = rt_priority]
      prio == Inherited(r, normal_prio(set))
  IN  [set EXCEPT !.normal_prio = normal_prio(set), !.prio = prio, !.class = SchedClass(policy, prio)]

Change(r, new) ==
  /\ proc[r].alive /\ changes < MaxChanges /\ changes' = changes + 1
  /\ proc' = [proc EXCEPT ![r] = new]

\* __sched_setscheduler(); p may have a policy of its own and the same
setscheduler(r) ==
  \E policy \in Policies, rt_priority \in RtPriorities \cup {0}, reset \in BOOLEAN :
    /\ (policy = "fifo") = (rt_priority # 0)
    /\ proc[r].policy # policy \/ (policy = "fifo" /\ proc[r].rt_priority # rt_priority)
    /\ Change(r, Requeued(proc[r], __setscheduler(r, [proc[r] EXCEPT !.reset = reset], policy, rt_priority)))
    /\ unreverted' = unreverted \ {r} /\ UNCHANGED top

\* effective_prio(): kept when the task is, or was boosted to be, real-time
effective_prio(q) ==
  LET normal == [q EXCEPT !.normal_prio = normal_prio(q)]
  IN  IF rt_prio(q.prio) THEN normal ELSE [normal EXCEPT !.prio = normal.normal_prio]

\* set_user_nice(), from nice() or setpriority()
Reniced(q, static) ==
  IF q.static_prio = static THEN q
  ELSE IF q.policy = "fifo" THEN [q EXCEPT !.static_prio = static]
  ELSE Requeued(q, effective_prio([q EXCEPT !.static_prio = static]))

set_user_nice(r) ==
  \E static \in NicePrios : Change(r, Reniced(proc[r], static)) /\ UNCHANGED <<top, unreverted>>

\* a waiter comes or goes, and rt_mutex_adjust_prio() calls this if prio is another
rt_mutex_setprio(r) ==
  \E waiter \in 0 .. MAX_PRIO :
    LET prio == Higher(waiter, proc[r].normal_prio)
        new  == [proc[r] EXCEPT !.prio = prio, !.class = SchedClass(proc[r].policy, prio)]
    IN  /\ top[r] # waiter /\ top' = [top EXCEPT ![r] = waiter] /\ unreverted' = unreverted \ {r}
        /\ Change(r, IF proc[r].prio = prio THEN proc[r] ELSE Requeued(proc[r], new))

\* normalize_rt_tasks(), one task after the other
normalize_task(r) ==
  /\ Change(r, IF rt_prio(proc[r].prio)
               THEN Requeued(proc[r], __setscheduler(r, proc[r], "normal", 0))
               ELSE IF proc[r].static_prio < Nice0 THEN Reniced(proc[r], Nice0) ELSE proc[r])
  /\ unreverted' = (IF rt_prio(proc[r].prio) THEN unreverted \ {r} ELSE unreverted)
  /\ UNCHANGED top

\* "Revert to default priority/policy on fork if requested"
Reverted(q) ==
  LET normal == IF q.policy = "fifo" THEN [q EXCEPT !.policy = "normal", !.normal_prio = q.static_prio] ELSE q
  IN  IF ~q.reset THEN q
      ELSE [(IF q.static_prio < Nice0
             THEN [normal EXCEPT !.static_prio = Nice0, !.normal_prio = Nice0] ELSE normal)
            EXCEPT !.reset = FALSE]

\* "Make sure we do not leak PI boosting priority to the child"
ChildPrio(parent) == parent.normal_prio

\* sched_fork() by the running parent, and wake_up_new_task() which queues the child
sched_fork(parent, child) ==
  LET q     == Reverted(proc[parent])
      prio  == ChildPrio(proc[parent])
      class == IF ~rt_prio(prio) THEN "fair" ELSE IF q.policy = "wrr" THEN "wrr" ELSE q.class
      new   == [q EXCEPT !.prio = prio, !.class = class, !.queue = NotQueued]
  IN  /\ ~proc[child].alive /\ proc[parent].alive /\ Queued(proc[parent])
      /\ changes < MaxChanges /\ changes' = changes + 1
      /\ proc' = [proc EXCEPT ![child] = enqueue_task(new)]
      /\ unreverted' = unreverted \cup (IF proc[parent].reset /\ rt_prio(prio) THEN {child} ELSE {})
      /\ UNCHANGED top

\* p blocks or is woken
Sleep(r) == Change(r, [proc[r] EXCEPT !.queue = IF Queued(proc[r]) THEN NotQueued ELSE QueueOf(proc[r])])
            /\ UNCHANGED <<top, unreverted>>

PrioNext ==
  \/ \E r \in Procs :
       setscheduler(r) \/ set_user_nice(r) \/ rt_mutex_setprio(r) \/ normalize_task(r) \/ Sleep(r)
  \/ \E r, s \in Procs : sched_fork(r, s)

-----------------------------------------------------------------------------
(* Properties *)

Alive == {r \in Procs : proc[r].alive}

\* A queued task is in the list of its class and priority, from which it will
\* be picked and dequeued, whatever was changed while it was queued.
QueuedByPrio == \A r \in Alive : Queued(proc[r]) => proc[r].queue = QueueOf(proc[r])

\* A task has a real-time priority only if it is that of its policy or a waiter's.
Justified(r) == rt_prio(proc[r].prio) => proc[r].prio = Inherited(r, normal_prio(proc[r]))

\* A real-time waiter's priority is never lost by setting the policy or the
\* nice value of the holder, and no task, a child of a boosted one least of
\* all, keeps a real-time priority that is neither its own nor a waiter's
\* (rt_mutex_getprio(), effective_prio(), sched_fork()), but for the child that
\* a fork with sched_reset_on_fork left with its parent's, see ForkReverts.
BoostKept ==
  \A r \in Alive :
    /\ rt_prio(top[r]) => proc[r].prio <= top[r]
    /\ r \notin unreverted => Justified(r)

\* While it is queued the task is queued by its priority, whatever rewrites that; and a
\* boost lasts exactly as long as its reason, which a child whose policy was reset does
\* not have (rt_mutex_setprio(), __setscheduler(), set_user_nice(), sched_fork()).
PrioritiesSound == QueuedByPrio /\ BoostKept

\* "Revert to default priority/policy on fork if requested" (sched.c:2874): with its
\* policy the child of a SCHED_FIFO task loses the real-time priority.  Violated:
\* sched_fork() then sets prio from current->normal_prio, which nothing reverted.
ForkReverts == \A r \in Alive : Justified(r)

PrioSpec == PrioInit /\ [][PrioNext]_prioVars
=============================================================================
