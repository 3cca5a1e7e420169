------------------------------ MODULE RtGroups ------------------------------
(***************************************************************************)
(* The run queue of the goldfish kernel's real-time class with task groups *)
(* (kernel/sched/rt.c, CONFIG_RT_GROUP_SCHED, one CPU): every task group   *)
(* has an rt_rq, which is an entity of its parent's rt_rq whose priority   *)
(* is that of its best task; a group that has used up its runtime is taken *)
(* off until its period timer replenishes it, unless a task in it holds a  *)
(* lock that a better task waits for.                                       *)
(*                                                                         *)
(* Every action holds the run queue's lock from start to end.  The lists,  *)
(* bitmaps and counters of all rt_rqs are the value of one variable, and   *)
(* each function of the code is an operator from such a value to the next. *)
(* The rt_mutex code is external: it sets pi[t], the priority of the best  *)
(* waiter for a lock of t, together with t's priority.  Tasks of all other *)
(* classes run as Other when they are not in Tasks.  Execution time is     *)
(* charged in small units chosen by Deltas.                                *)
(***************************************************************************)
EXTENDS Integers, FiniteSets, SequencesExt, TLC

CONSTANTS
  Tasks, Groups, Root,
  Homes,           \* the groups tasks are put into
  Parent,          \* the parent of every group but Root
  MAX_RT_PRIO,     \* smaller is better; MAX_RT_PRIO stands for no RT priority
  Period, RUNTIME_INF,
  WaiterPrios,     \* the priorities of tasks waiting for a lock
  Runtimes,        \* the runtimes a group can be given
  InitRuntime,     \* the runtime each group starts with
  SysctlWrites,    \* values written to sched_rt_runtime_us: TRUE is a limit, FALSE is -1
  StartEnabled,    \* whether there is a limit at first
  Deltas,          \* time charged to the current task in one step
  MaxWrites,       \* bound on the changes of a limit
  MaxTime,         \* bound on the time an rt_rq has accrued
  Other            \* a task of another class, the idle task included

ASSUME GroupsAssumption ==
  /\ Root \in Groups /\ Parent \in [Groups \ {Root} -> Groups]
  /\ Tasks \cap Groups = {} /\ Other \notin Tasks \cup Groups
  /\ MAX_RT_PRIO \in Nat \ {0} /\ {MaxTime, MaxWrites} \subseteq Nat /\ Deltas \subseteq Nat
  /\ Period \in Nat \ {0} /\ RUNTIME_INF \in Nat
  /\ Runtimes \subseteq Nat /\ InitRuntime \in [Groups -> Nat] /\ Homes \subseteq Groups
  /\ WaiterPrios \subseteq 0 .. MAX_RT_PRIO - 1

VARIABLES
  task,      \* what a task_struct says: normal_prio, best waiter, group, on_rq
  rt_rq,     \* the rt_rq of every group, with its group's bandwidth timer
  curr,
  resched,   \* TIF_NEED_RESCHED of curr
  enabled,   \* rt_bandwidth_enabled()
  writes     \* changes of a limit so far

limits == <<enabled, writes>>
rtGroupVars == <<task, rt_rq, curr, resched, limits>>

Prios == 0 .. MAX_RT_PRIO - 1
Task == [norm : 0 .. MAX_RT_PRIO, pi : 0 .. MAX_RT_PRIO, group : Groups, on_rq : BOOLEAN]
RtRq == [active : [Prios -> Seq(Tasks \cup Groups)], bitmap : SUBSET Prios, highest : 0 .. MAX_RT_PRIO,
         boosted : Nat, time : 0 .. MaxTime, throttled : BOOLEAN, runtime : Nat, timer : BOOLEAN]
init_rt_rq(runtime) ==
  [active |-> [p \in Prios |-> <<>>], bitmap |-> {}, highest |-> MAX_RT_PRIO, boosted |-> 0,
   time |-> 0, throttled |-> FALSE, runtime |-> runtime, timer |-> FALSE]
Lesser(a, b) == IF a < b THEN a ELSE b

-----------------------------------------------------------------------------
(* Reading: q is a value of rt_rq, k one of task *)

prio(k, t) == IF t = Other THEN MAX_RT_PRIO ELSE Lesser(k[t].norm, k[t].pi)
rt_class(k, t) == prio(k, t) < MAX_RT_PRIO

rt_rq_of_se(k, e) == IF e \in Tasks THEN k[e].group ELSE Parent[e]

\* the entity of a task or group and those above it, the lowest first
Stack(k, e) ==
  LET up[x \in Groups] == IF x = Root THEN <<>> ELSE <<x>> \o up[Parent[x]]
  IN  IF e \in Tasks THEN <<e>> \o up[k[e].group] ELSE up[e]

rt_nr_running(r) == FoldFunction(LAMBDA s, n : Len(s) + n, 0, r.active)
OnList(r, e) == \E p \in Prios : Contains(r.active[p], e)
on_rt_rq(q, k, e) == OnList(q[rt_rq_of_se(k, e)], e)

\* Mutant: a boosted task does not free its group.
ThrottledRegardless(r) == r.throttled
rt_rq_throttled(r) == r.throttled /\ r.boosted = 0

rt_se_boosted(q, k, e) == IF e \in Groups THEN q[e].boosted > 0 ELSE prio(k, e) # k[e].norm
rt_se_prio(q, k, e) == IF e \in Groups THEN q[e].highest ELSE prio(k, e)
sched_find_first_bit(bitmap) == CHOOSE p \in bitmap \cup {MAX_RT_PRIO} : \A o \in bitmap : p <= o

-----------------------------------------------------------------------------
(* Linking and unlinking one entity *)

start_rt_bandwidth(r) ==
  IF ~enabled \/ r.runtime = RUNTIME_INF THEN r ELSE [r EXCEPT !.timer = TRUE]

\* an entity is linked and counted: priority, boost, bandwidth timer
Link(q, k, e, head) ==
  LET p == rt_se_prio(q, k, e)
  IN  [q EXCEPT ![rt_rq_of_se(k, e)] = start_rt_bandwidth(
        [@ EXCEPT !.active[p] = IF head THEN <<e>> \o @ ELSE Append(@, e),
                  !.bitmap = @ \cup {p},
                  !.highest = Lesser(@, p),
                  !.boosted = @ + (IF rt_se_boosted(q, k, e) THEN 1 ELSE 0)])]

__enqueue_rt_entity(q, k, e, head) ==
  IF e \in Groups /\ (rt_rq_throttled(q[e]) \/ rt_nr_running(q[e]) = 0)
  THEN q ELSE Link(q, k, e, head)

\* Mutant: the best priority is worked out anew only when the rt_rq is empty.
KeepHighest(r, p) == IF rt_nr_running(r) = 0 THEN [r EXCEPT !.highest = MAX_RT_PRIO] ELSE r

dec_rt_prio(r, p) ==
  IF rt_nr_running(r) = 0 THEN [r EXCEPT !.highest = MAX_RT_PRIO]
  ELSE IF p = r.highest THEN [r EXCEPT !.highest = sched_find_first_bit(r.bitmap)]
  ELSE r

dec_rt_group(r, boosted) == [r EXCEPT !.boosted = @ - (IF boosted THEN 1 ELSE 0)]

__dequeue_rt_entity(q, k, e) ==
  LET p == rt_se_prio(q, k, e)
      Unlinked(r) == [r EXCEPT !.active = [o \in Prios |-> Remove(@[o], e)]]
      Cleared(r) == IF r.active[p] = <<>> THEN [r EXCEPT !.bitmap = @ \ {p}] ELSE r
  IN  [q EXCEPT ![rt_rq_of_se(k, e)] =
         dec_rt_group(dec_rt_prio(Cleared(Unlinked(@)), p), rt_se_boosted(q, k, e))]

-----------------------------------------------------------------------------
(* The stack of an entity *)

\* top down: the priority of an upper entity depends on the lower ones
dequeue_rt_stack(q, k, e) ==
  FoldLeft(LAMBDA s, x : IF on_rt_rq(s, k, x) THEN __dequeue_rt_entity(s, k, x) ELSE s,
           q, Reverse(Stack(k, e)))

enqueue_rt_entity(q, k, e, head) ==
  FoldLeft(LAMBDA s, x : __enqueue_rt_entity(s, k, x, head), dequeue_rt_stack(q, k, e), Stack(k, e))

\* the groups above that still have something to run are put back
dequeue_rt_entity(q, k, e) ==
  FoldLeft(LAMBDA s, x : IF x \in Groups THEN __enqueue_rt_entity(s, k, x, FALSE) ELSE s,
           dequeue_rt_stack(q, k, e), Stack(k, e))

\* what sched_rt_rq_enqueue() and _dequeue() do to the lists; Root has no entity
sched_rt_rq_enqueue(q, k, g) ==
  IF rt_nr_running(q[g]) > 0 /\ g # Root /\ ~on_rt_rq(q, k, g)
  THEN enqueue_rt_entity(q, k, g, FALSE) ELSE q

sched_rt_rq_dequeue(q, k, g) ==
  IF g # Root /\ on_rt_rq(q, k, g) THEN dequeue_rt_entity(q, k, g) ELSE q

-----------------------------------------------------------------------------
(* Charging the current task *)

\* the group has run past its runtime: it is throttled, unless it has none of its own
Exceeds(r) == ~r.throttled /\ r.runtime < Period /\ r.runtime # RUNTIME_INF /\ r.time > r.runtime
Overrun(r) == IF ~Exceeds(r) THEN r
              ELSE IF r.runtime # 0 THEN [r EXCEPT !.throttled = TRUE] ELSE [r EXCEPT !.time = 0]

\* one rt_rq is charged d and, if that throttles it, dequeued
Charge(q, k, g, d) ==
  LET charged == [q EXCEPT ![g].time = @ + d]
      after == [charged EXCEPT ![g] = Overrun(@)]
  IN  IF Exceeds(charged[g]) /\ rt_rq_throttled(after[g]) THEN sched_rt_rq_dequeue(after, k, g) ELSE after

Charged(q, g) == q[g].runtime # RUNTIME_INF
Ancestors(k, e) == LET s == Stack(k, e) IN [i \in DOMAIN s |-> rt_rq_of_se(k, s[i])]

update_curr_rt(q, k, d) ==
  IF ~rt_class(k, curr) \/ ~enabled THEN q
  ELSE FoldLeft(LAMBDA s, g : IF Charged(s, g) THEN Charge(s, k, g, d) ELSE s, q, Ancestors(k, curr))

\* update_curr_rt() asks for a reschedule
UsedUp(q, k) ==
  /\ rt_class(k, curr) /\ enabled
  /\ \E i \in DOMAIN Ancestors(k, curr) : LET g == Ancestors(k, curr)[i] IN Charged(q, g) /\ rt_rq_throttled(q[g])

\* no time passes where it would leave the bounds
Spent == IF \A g \in Groups, d \in Deltas : rt_rq[g].time + d <= MaxTime THEN Deltas ELSE {0}

-----------------------------------------------------------------------------
(* The class's operations on a task *)

dequeue_task_rt(q, k, t, d) == dequeue_rt_entity(update_curr_rt(q, k, d), k, t)

requeue_rt_entity(q, k, e, head) ==
  IF ~on_rt_rq(q, k, e) THEN q
  ELSE LET p == rt_se_prio(q, k, e)
           Moved(r) == [o \in Prios |-> Remove(r.active[o], e)]
       IN  [q EXCEPT ![rt_rq_of_se(k, e)].active =
             [Moved(q[rt_rq_of_se(k, e)]) EXCEPT ![p] = IF head THEN <<e>> \o @ ELSE Append(@, e)]]

requeue_task_rt(q, k, t, head) ==
  FoldLeft(LAMBDA s, x : requeue_rt_entity(s, k, x, head), q, Stack(k, t))

\* down from the root: the first entity of the best list, to the task
_pick_next_task_rt(q) ==
  LET down[depth \in 0 .. Cardinality(Groups), g \in Groups] ==
        LET e == Head(q[g].active[sched_find_first_bit(q[g].bitmap)])
        IN  IF e \in Tasks \/ depth = 0 THEN e ELSE down[depth - 1, e]
  IN  IF rt_nr_running(q[Root]) = 0 \/ rt_rq_throttled(q[Root]) THEN Other
      ELSE down[Cardinality(Groups), Root]

-----------------------------------------------------------------------------
(* Steps *)

RtGroupsInit ==
  /\ \E home \in [Tasks -> Homes] :
       task = [t \in Tasks |-> [norm |-> MAX_RT_PRIO, pi |-> MAX_RT_PRIO, group |-> home[t], on_rq |-> FALSE]]
  /\ rt_rq = [g \in Groups |-> init_rt_rq(InitRuntime[g])]
  /\ curr = Other /\ resched = FALSE /\ enabled = StartEnabled /\ writes = 0

\* a task wakes up: enqueue_task_rt() and check_preempt_curr(); a task of a
\* better class preempts as well as a better task of the same class
Wake(t) ==
  /\ ~task[t].on_rq
  /\ task' = [task EXCEPT ![t].on_rq = TRUE]
  /\ rt_rq' = IF rt_class(task, t) THEN enqueue_rt_entity(rt_rq, task, t, FALSE) ELSE rt_rq
  /\ resched' = (resched \/ prio(task, t) < prio(task, curr))
  /\ UNCHANGED <<curr, limits>>

\* __schedule(), the current task staying runnable or going to sleep; put_prev_task_rt()
\* finds the clock where the dequeue left it.  The fair class picks by rules of its own.
Switch(k, q) ==
  LET best == _pick_next_task_rt(q)
  IN  \E next \in IF best # Other THEN {best}
                  ELSE {Other} \cup {t \in Tasks : k[t].on_rq /\ ~rt_class(k, t)} :
        /\ task' = k /\ rt_rq' = q /\ curr' = next
        /\ resched' = FALSE /\ UNCHANGED limits

Block(d) ==
  /\ curr # Other
  /\ Switch([task EXCEPT ![curr].on_rq = FALSE],
            IF rt_class(task, curr) THEN dequeue_task_rt(rt_rq, task, curr, d) ELSE rt_rq)

Preempt(d) == (resched \/ ~rt_class(task, curr)) /\ Switch(task, update_curr_rt(rt_rq, task, d))

\* sched_yield(): the schedule() that follows is left to Preempt
Yield ==
  /\ rt_class(task, curr)
  /\ rt_rq' = requeue_task_rt(rt_rq, task, curr, FALSE)
  /\ resched' = TRUE /\ UNCHANGED <<task, curr, limits>>

\* some entity of the current task's stack shares its list with another
Shares(q) ==
  \E i \in DOMAIN Stack(task, curr), p \in Prios :
    LET e == Stack(task, curr)[i]  s == q[rt_rq_of_se(task, e)].active[p]
    IN  Contains(s, e) /\ Len(s) > 1

\* task_tick_rt(); the time slice of an RR task may be over
Tick(d, expired) ==
  /\ rt_class(task, curr) /\ (expired => task[curr].norm < MAX_RT_PRIO)
  /\ LET q == update_curr_rt(rt_rq, task, d)
         turn == expired /\ Shares(q)
     IN  /\ rt_rq' = IF turn THEN requeue_task_rt(q, task, curr, FALSE) ELSE q
         /\ resched' = (resched \/ UsedUp(q, task) \/ turn)
  /\ UNCHANGED <<task, curr, limits>>

\* a task is taken off its queue, changed and put back, as every change of
\* priority, policy or group does it; put_prev_task_rt() charges a running task again
Off(t, d) ==
  IF task[t].on_rq /\ rt_class(task, t) THEN dequeue_task_rt(rt_rq, task, t, d) ELSE rt_rq

OffUsedUp(t, d) ==
  /\ task[t].on_rq /\ rt_class(task, t)
  /\ \/ UsedUp(update_curr_rt(rt_rq, task, d), task)
     \/ curr = t /\ UsedUp(Off(t, d), task)

Back(q, k, t, head) ==
  IF k[t].on_rq /\ rt_class(k, t) THEN enqueue_rt_entity(q, k, t, head) ELSE q

\* check_class_changed(): switched_to_rt(), prio_changed_rt(); a running task
\* that leaves the class makes way, too
ClassChanged(k, t) ==
  /\ k[t].on_rq
  /\ IF curr = t THEN prio(task, t) < prio(k, t) ELSE prio(k, t) < prio(k, curr)

Changed(k, t, d, head) ==
  /\ task' = k /\ rt_rq' = Back(Off(t, d), k, t, head)
  /\ resched' = (resched \/ OffUsedUp(t, d) \/ ClassChanged(k, t))
  /\ UNCHANGED <<curr, limits>>

\* rt_mutex_setprio(): a task that loses its boost goes to the head
rt_mutex_setprio(t, p, d) ==
  LET k == [task EXCEPT ![t].pi = p]
  IN  /\ prio(k, t) # prio(task, t)
      /\ Changed(k, t, d, prio(task, t) < prio(k, t))

\* the best waiter changes, the task's priority does not
OtherWaiter(t, p) ==
  LET k == [task EXCEPT ![t].pi = p]
  IN  k # task /\ prio(k, t) = prio(task, t) /\ task' = k /\ UNCHANGED <<rt_rq, curr, resched, limits>>

\* SetPriority(), no RT policy in a group without runtime
SetPriority(t, norm, d) ==
  /\ norm # task[t].norm
  /\ ~(enabled /\ norm < MAX_RT_PRIO /\ rt_rq[task[t].group].runtime = 0)
  /\ Changed([task EXCEPT ![t].norm = norm], t, d, FALSE)

\* the cpu cgroup's attach, after sched_rt_can_attach(): sched_move_task()
sched_move_task(t, g, d) ==
  LET k == [task EXCEPT ![t].group = g]
  IN  /\ g # task[t].group
      /\ ~(rt_class(task, t) /\ rt_rq[g].runtime = 0)
      /\ task' = k /\ rt_rq' = Back(Off(t, d), k, t, FALSE)
      /\ resched' = (resched \/ OffUsedUp(t, d))
      /\ UNCHANGED <<curr, limits>>

\* nothing is left for the timer to do
Idle(r) ==
  \/ r.time = 0 /\ rt_nr_running(r) = 0
  \/ ~r.throttled /\ (~enabled \/ r.runtime = RUNTIME_INF)

\* a group's time is paid back
Replenish(r, overrun) ==
  LET left == r.time - Lesser(r.time, overrun * r.runtime)
  IN  [r EXCEPT !.time = left, !.throttled = @ /\ ~(r.time > 0 /\ left < r.runtime)]

\* sched_rt_period_timer() and do_sched_rt_period_timer()
sched_rt_period_timer(g, overrun) ==
  /\ rt_rq[g].timer
  /\ LET r == rt_rq[g]
         paid == [Replenish(r, overrun) EXCEPT !.timer = ~Idle(Replenish(r, overrun))]
         enqueue == IF r.time > 0 THEN r.throttled /\ ~paid.throttled
                    ELSE rt_nr_running(r) > 0 /\ ~rt_rq_throttled(r)
         q == [rt_rq EXCEPT ![g] = paid]
     IN  /\ rt_rq' = IF enqueue THEN sched_rt_rq_enqueue(q, task, g) ELSE q
         /\ resched' = (resched \/ (enqueue /\ rt_nr_running(r) > 0 /\ r.highest < prio(task, curr)))
  /\ UNCHANGED <<task, curr, limits>>

\* SetGroupRuntime(), what the tests of the tree leave possible; the test for
\* RT tasks finds them for the root only
SetGroupRuntime(g, runtime) ==
  /\ ~(enabled /\ runtime = 0 /\ g = Root /\ \E t \in Tasks : rt_class(task, t))
  /\ runtime # rt_rq[g].runtime
  /\ rt_rq' = [rt_rq EXCEPT ![g].runtime = runtime]
  /\ UNCHANGED <<task, curr, resched, enabled>>

SetSysctlLimit(v) == v # enabled /\ enabled' = v /\ UNCHANGED <<task, rt_rq, curr, resched>>

SetLimit ==
  /\ writes < MaxWrites /\ writes' = writes + 1
  /\ \/ \E g \in Groups \ {Root}, r \in Runtimes : SetGroupRuntime(g, r)
     \/ \E v \in SysctlWrites : SetSysctlLimit(v)

OnTask(t, d) ==
  \/ \E p \in WaiterPrios \cup {MAX_RT_PRIO} : rt_mutex_setprio(t, p, d)
  \/ \E p \in 0 .. MAX_RT_PRIO : SetPriority(t, p, d)
  \/ \E g \in Homes : sched_move_task(t, g, d)

RtGroupsNext ==
  \/ \E t \in Tasks : Wake(t)
  \/ \E t \in Tasks, p \in WaiterPrios \cup {MAX_RT_PRIO} : OtherWaiter(t, p)
  \/ \E d \in Spent : Block(d) \/ Preempt(d) \/ \E t \in Tasks : OnTask(t, d)
  \/ \E d \in Spent, expired \in BOOLEAN : Tick(d, expired)
  \/ Yield
  \/ \E g \in Groups, n \in 1 .. 2 : sched_rt_period_timer(g, n)
  \/ SetLimit

RtGroupsSpec == RtGroupsInit /\ [][RtGroupsNext]_rtGroupVars

-----------------------------------------------------------------------------
(* Properties *)

Entities(g) == {t \in Tasks : task[t].group = g} \cup {h \in Groups \ {Root} : Parent[h] = g}
Queued(g) == {e \in Entities(g) : OnList(rt_rq[g], e)}

\* The values of every variable (struct rt_rq, sched.h).
GroupTypes ==
  /\ task \in [Tasks -> Task] /\ curr \in Tasks \cup {Other}
  /\ resched \in BOOLEAN /\ enabled \in BOOLEAN /\ rt_rq \in [Groups -> RtRq]

\* A task of the class is queued when it is runnable, and a group exactly while
\* it has something to run and is not throttled: nothing is stranded below a
\* group that was left off, and no empty group is left on
\* (__enqueue_rt_entity(), dequeue_rt_entity(), sched_rt_rq_dequeue()).
GroupsLinked ==
  /\ \A t \in Tasks : OnList(rt_rq[task[t].group], t) = (task[t].on_rq /\ rt_class(task, t))
  /\ \A g \in Groups \ {Root} :
       OnList(rt_rq[Parent[g]], g) = (rt_nr_running(rt_rq[g]) > 0 /\ ~rt_rq_throttled(rt_rq[g]))

\* What may run is linked, and every entity is on the list of its present
\* priority: no list holds one twice, the bitmap names exactly the lists in use
\* and highest_prio.curr the best of them, although a group's priority moves with
\* the tasks in it (dequeue_rt_stack(), __dequeue_rt_entity(), dec_rt_prio()).
ListsFollowPriorities ==
  /\ GroupTypes /\ GroupsLinked
  /\ \A g \in Groups : LET r == rt_rq[g] IN
       /\ r.bitmap = {p \in Prios : r.active[p] # <<>>}
       /\ r.highest = sched_find_first_bit(r.bitmap)
       /\ \A p \in Prios : /\ IsInjective(r.active[p])
                           /\ \A e \in ToSet(r.active[p]) : rt_se_prio(rt_rq, task, e) = p

\* While nobody changes the limits a throttled rt_rq with something to run has a
\* period timer that will give it time again (start_rt_bandwidth(),
\* do_sched_rt_period_timer()).
ThrottledHasTimer ==
  \A g \in Groups :
    writes = 0 /\ rt_rq[g].throttled /\ rt_nr_running(rt_rq[g]) > 0 => rt_rq[g].timer

\* rt_nr_boosted counts the queued entities that are boosted, and a task boosted
\* by a waiter is never passed over for a worse one, throttled groups or not, once
\* the reschedule that was asked for is done.  A task that is not boosted waits for
\* a timer that is running, as long as nobody has written a limit: a limit may be
\* written without one (inc_rt_group(), rt_rq_throttled(), prio_changed_rt()).
BoostedRuns ==
  /\ \A g \in Groups :
       rt_rq[g].boosted = Cardinality({e \in Queued(g) : rt_se_boosted(rt_rq, task, e)})
  /\ ~resched => \A t \in Tasks :
       task[t].on_rq /\ prio(task, t) # task[t].norm => prio(task, curr) <= prio(task, t)
  /\ ThrottledHasTimer

=============================================================================
