----------------------------- MODULE RtPushPull -----------------------------
(***************************************************************************)
(* How the tegra kernel keeps the highest real-time tasks running:         *)
(* kernel/sched_rt.c (Linux 3.1.10, SMP, CONFIG_PREEMPT), the overload     *)
(* mask, highest_prio.next, the list of pushable tasks, push_rt_task() and *)
(* pull_rt_task(), with the calls of sched.c that reach them.              *)
(*                                                                         *)
(* A step is what CPU e does under the run queue locks it holds.  With     *)
(* CONFIG_PREEMPT double_lock_balance() always drops the first lock, so    *)
(* op[e] says what e is in the middle of: in "pull" and "push" it holds    *)
(* the lock of op[e].rq, in "pull_lock" and "push_lock" it waits for two   *)
(* locks and holds none; interrupts are off on e throughout.               *)
(* One root domain, every CPU online, no groups; the order among tasks of  *)
(* one priority is left out (any of them may be first).  prio is below     *)
(* MAX_RT_PRIO for RT tasks and MAX_RT_PRIO for a fair task.  cpupri holds *)
(* highest_prio.curr of every CPU and is external (sched_cpupri.c).        *)
(***************************************************************************)
EXTENDS Integers, FiniteSets, TLC

CONSTANTS
  Tasks, Other,      \* Other stands for the idle task and for fair tasks that never become RT
  NR_CPUS, MAX_RT_PRIO,
  Masks,             \* masks sched_setaffinity() is called with
  MaxRequests        \* bound on the changes of class, priority and affinity

CPUs == 0 .. NR_CPUS - 1
RT_MAX_TRIES == 3

ASSUME RtAssumption ==
  /\ IsFiniteSet(Tasks) /\ Other \notin Tasks
  /\ NR_CPUS \in Nat \ {0} /\ MAX_RT_PRIO \in Nat \ {0}
  /\ Masks \subseteq (SUBSET CPUs) \ {{}} /\ CPUs \in Masks
  /\ MaxRequests \in Nat

VARIABLES
  state,         \* "running" (p->on_rq), "sleeping", "waking"
  prio, cpus_allowed, task_cpu,
  rq,            \* per CPU: queued RT tasks and what struct rt_rq caches about them
  curr, need_resched,
  post_sched,    \* rq->post_schedule
  op,            \* what a CPU is in the middle of
  requests       \* changes asked for so far

pushPullVars == <<state, prio, cpus_allowed, task_cpu, rq, curr, need_resched, post_sched, op, requests>>

NoOp == [op |-> "none"]
RtRq == [queue : SUBSET Tasks, next : 0 .. MAX_RT_PRIO, migratory : Int,
         overloaded : BOOLEAN, pushable : SUBSET Tasks]

LockFree(c) == \A e \in CPUs : ~(op[e].op \in {"pull", "push"} /\ op[e].rq = c)
\* double_lock_balance(): this run queue's lock, dropped before, and the other one
DoubleLockFree(c, d) == LockFree(c) /\ LockFree(d)

\* p->pi_lock, which sched_setscheduler() keeps while it pulls or pushes
PiLockFree(p) ==
  \A e \in CPUs : ~(op[e] # NoOp /\ op[e].then.k \in {"prio", "from", "to"} /\ op[e].then.p = p)
CanAct(c) == op[c] = NoOp /\ LockFree(c)

-----------------------------------------------------------------------------
(* The priorities of a run queue *)

PrioOf(t) == IF t = Other THEN MAX_RT_PRIO ELSE prio[t]
rt_task(t) == PrioOf(t) < MAX_RT_PRIO
nr_cpus_allowed(t) == Cardinality(cpus_allowed[t])
migratable(t) == t # Other /\ nr_cpus_allowed(t) > 1

MinPrio(ts) == IF ts = {} THEN MAX_RT_PRIO ELSE CHOOSE n \in 0 .. MAX_RT_PRIO :
                 (\E t \in ts : prio[t] = n) /\ (\A t \in ts : n <= prio[t])
First(ts) == {t \in ts : prio[t] = MinPrio(ts)}
Highest(r) == MinPrio(r.queue)   \* highest_prio.curr

pick_rt_task(c, q, cpu) == {t \in q : t # curr[c] /\ cpu \in cpus_allowed[t] /\ migratable(t)}
next_prio(c, q) == MinPrio(pick_rt_task(c, q, c))

\* cpupri_find(): the allowed CPUs of the lowest level below the task
cpupri_find(t) ==
  LET lower == {c \in cpus_allowed[t] : Highest(rq[c]) > prio[t]}
  IN  {c \in lower : \A d \in lower : Highest(rq[d]) <= Highest(rq[c])}

\* n is the priority p is queued with
inc_rt_prio_smp(r, c, p, n) ==
  LET prev == Highest(r)  rest == next_prio(c, r.queue)
  IN  CASE n < prev -> prev
        [] n = prev -> n
        [] n > prev /\ n < r.next ->
             IF pick_rt_task(c, {p}, c) # {} /\ n < rest THEN n ELSE rest
        [] OTHER -> r.next

dec_rt_prio_smp(r, c, p) ==
  LET q == r.queue \ {p}
  IN  IF q # {} /\ prio[p] <= r.next THEN next_prio(c, q) ELSE r.next

update_rt_migration(r) == [r EXCEPT !.overloaded = r.migratory # 0 /\ Cardinality(r.queue) > 1]

enqueue_task_rt(r, c, p, n) ==
  update_rt_migration(
    [r EXCEPT !.queue = @ \cup {p}, !.next = inc_rt_prio_smp(r, c, p, n),
              !.migratory = IF migratable(p) THEN @ + 1 ELSE @,
              !.pushable = IF p # curr[c] /\ migratable(p) THEN @ \cup {p} ELSE @])

dequeue_task_rt(r, c, p) ==
  update_rt_migration(
    [r EXCEPT !.queue = @ \ {p}, !.next = dec_rt_prio_smp(r, c, p),
              !.migratory = IF migratable(p) THEN @ - 1 ELSE @,
              !.pushable = @ \ {p}])

\* deactivate_task(), set_task_cpu() and activate_task() under both locks
Migrate(p, from, to) ==
  /\ rq' = [rq EXCEPT ![from] = dequeue_task_rt(@, from, p), ![to] = enqueue_task_rt(@, to, p, prio[p])]
  /\ task_cpu' = [task_cpu EXCEPT ![p] = to]

Resched(cs) == need_resched' = [c \in CPUs |-> need_resched[c] \/ c \in cs]

-----------------------------------------------------------------------------
(* Waking up *)

\* find_lowest_rq() as CPU e runs it: the empty set stands for -1
find_lowest_rq(e, p) ==
  LET lowest == cpupri_find(p)
  IN  IF nr_cpus_allowed(p) = 1 THEN {}
      ELSE IF task_cpu[p] \in lowest THEN {task_cpu[p]}
      ELSE IF e \in lowest THEN {e} ELSE lowest

select_task_rq_rt(e, p) ==
  LET c == task_cpu[p]  t == curr[c]
      crowded == rt_task(t) /\ migratable(p) /\ (nr_cpus_allowed(t) < 2 \/ prio[t] <= prio[p])
  IN  IF crowded /\ find_lowest_rq(e, p) # {} THEN find_lowest_rq(e, p) ELSE {c}

\* try_to_wake_up() by CPU e, which waits until p is off its CPU; the CPU is
\* chosen without a run queue lock.  A fair task wakes where it slept.
try_to_wake_up(e, p) ==
  /\ op[e] = NoOp /\ state[p] = "sleeping" /\ PiLockFree(p)
  /\ curr[task_cpu[p]] # p
  /\ state' = [state EXCEPT ![p] = "waking"]
  /\ \E c \in IF rt_task(p) THEN select_task_rq_rt(e, p) ELSE {task_cpu[p]} :
       task_cpu' = [task_cpu EXCEPT ![p] = c]
  /\ UNCHANGED <<prio, cpus_allowed, rq, curr, need_resched, post_sched, op, requests>>

check_preempt_equal_prio(c, p) ==
  /\ nr_cpus_allowed(curr[c]) # 1
  /\ nr_cpus_allowed(p) = 1 \/ cpupri_find(p) = {}
  /\ cpupri_find(curr[c]) # {}

check_preempt_curr_rt(c, p) ==
  \/ prio[p] < PrioOf(curr[c])
  \/ prio[p] = PrioOf(curr[c]) /\ ~need_resched[c] /\ check_preempt_equal_prio(c, p)

\* task_woken_rt() pushes when the task has to wait and nothing else will
task_woken_rt(c, p) ==
  LET t == curr[c]
  IN  /\ t # p /\ ~need_resched'[c] /\ rq'[c].pushable # {} /\ migratable(p)
      /\ rt_task(t) /\ (nr_cpus_allowed(t) < 2 \/ prio[t] <= prio[p])

Push(c, then) == [op |-> "push", rq |-> c, p |-> Other, then |-> then]

\* ttwu_do_activate() on CPU c, by the waker itself or from the wake list
ttwu_do_activate(c, p) ==
  /\ CanAct(c) /\ state[p] = "waking" /\ task_cpu[p] = c
  /\ state' = [state EXCEPT ![p] = "running"]
  /\ IF rt_task(p)
     THEN /\ rq' = [rq EXCEPT ![c] = enqueue_task_rt(@, c, p, prio[p])]
          /\ Resched(IF check_preempt_curr_rt(c, p) THEN {c} ELSE {})
          /\ op' = [op EXCEPT ![c] = IF task_woken_rt(c, p) THEN Push(c, [k |-> "woken"]) ELSE NoOp]
     ELSE UNCHANGED <<rq, need_resched, op>>
  /\ UNCHANGED <<prio, cpus_allowed, task_cpu, curr, post_sched, requests>>

-----------------------------------------------------------------------------
(* Switching *)

Pull(q, c, then) ==
  [op |-> "pull", rq |-> c, then |-> then,
   cpu |-> IF \E d \in CPUs : q[d].overloaded THEN 0 ELSE NR_CPUS]   \* rt_overloaded()

\* put_prev_task_rt(): the pushable tasks when the previous task no longer runs
put_prev_task_rt(r, prev) ==
  IF prev \in r.queue /\ migratable(prev) THEN r.pushable \cup {prev} ELSE r.pushable

\* put_prev_task() and pick_next_task(), then context_switch(); r is the run queue
Pick(c, r) ==
  LET prev == curr[c]
      pushable == put_prev_task_rt(r, prev)
      fair == {t \in Tasks : state'[t] = "running" /\ ~rt_task(t) /\ task_cpu[t] = c}
  IN  \E next \in IF r.queue = {} THEN {Other} \cup fair ELSE First(r.queue) :
        /\ curr' = [curr EXCEPT ![c] = next]
        /\ rq' = [rq EXCEPT ![c] = [r EXCEPT !.pushable = pushable \ {next}]]
        /\ post_sched' = [post_sched EXCEPT ![c] = r.queue # {} /\ pushable \ {next} # {}]
        /\ need_resched' = [need_resched EXCEPT ![c] = FALSE]
        /\ op' = [op EXCEPT ![c] = NoOp]

\* __schedule() up to pre_schedule(); the task going to sleep leaves the queue
schedule(c) ==
  LET prev == curr[c]
  IN  /\ CanAct(c) /\ ~post_sched[c]
      /\ \E sleeps \in IF prev \in Tasks THEN BOOLEAN ELSE {FALSE} :
           LET r == IF sleeps /\ rt_task(prev) THEN dequeue_task_rt(rq[c], c, prev) ELSE rq[c]
           IN  /\ state' = IF sleeps THEN [state EXCEPT ![prev] = "sleeping"] ELSE state
               /\ IF rt_task(prev) /\ Highest(r) > prio[prev]
                  THEN /\ rq' = [rq EXCEPT ![c] = r]
                       /\ op' = [op EXCEPT ![c] = Pull(rq', c, [k |-> "schedule"])]
                       /\ UNCHANGED <<curr, need_resched, post_sched>>
                  ELSE Pick(c, r)
      /\ UNCHANGED <<prio, cpus_allowed, task_cpu, requests>>

\* post_schedule(), after the lock of the switch was dropped and taken again
post_schedule(c) ==
  /\ CanAct(c) /\ post_sched[c]
  /\ IF rt_task(curr[c])
     THEN op' = [op EXCEPT ![c] = Push(c, [k |-> "post"])] /\ UNCHANGED post_sched
     ELSE post_sched' = [post_sched EXCEPT ![c] = FALSE] /\ UNCHANGED op
  /\ UNCHANGED <<state, prio, cpus_allowed, task_cpu, rq, curr, need_resched, requests>>

\* task_tick_rt() at the end of a SCHED_RR slice, when others share the priority
task_tick_rt(c) ==
  /\ CanAct(c) /\ rt_task(curr[c])
  /\ \E t \in rq[c].queue \ {curr[c]} : prio[t] = prio[curr[c]]
  /\ Resched({c})
  /\ UNCHANGED <<state, prio, cpus_allowed, task_cpu, rq, curr, post_sched, op, requests>>

-----------------------------------------------------------------------------
(* Pushing *)

\* Mutant: any push counts as one of the task.
NothingPushed(e, ret) == ret = 0

\* switched_to_rt(): the push has not taken its task to another CPU
StillHere(e, ret) == ret = 0 \/ task_cpu'[op[e].then.p] = op[e].rq

\* the end of push_rt_task(): ret is what it returns and cs the CPUs it asks to
\* reschedule.  push_rt_tasks() goes on while ret is 1; switched_to_rt() calls it once
\* and then preempts, unless its task has changed CPUs
PushReturns(e, ret, cs) ==
  LET c == op[e].rq  then == op[e].then
      preempts == then.k = "to" /\ prio[then.p] < PrioOf(curr[c]) /\ StillHere(e, ret)
  IN  /\ op' = [op EXCEPT ![e] = IF then.k # "to" /\ ret = 1 THEN Push(c, then) ELSE NoOp]
      /\ post_sched' = IF then.k = "post" /\ ret = 0 THEN [post_sched EXCEPT ![c] = FALSE] ELSE post_sched
      /\ Resched(cs \cup IF preempts THEN {c} ELSE {})

\* no CPU was found or the task is gone: drop it from the pushable tasks, or retry with another
PushFailed(e, p) ==
  LET c == op[e].rq  firsts == First(rq[c].pushable)
  IN  /\ UNCHANGED task_cpu
      /\ \/ p \in firsts /\ rq' = [rq EXCEPT ![c].pushable = @ \ {p}] /\ PushReturns(e, 1, {})
         \/ firsts = {} /\ UNCHANGED rq /\ PushReturns(e, 1, {})
         \/ \E t \in firsts \ {p} :
              /\ op' = [op EXCEPT ![e] = [Push(c, op[e].then) EXCEPT !.p = t]]
              /\ UNCHANGED <<rq, need_resched, post_sched>>

\* find_lock_lowest_rq(): look for a CPU and go for its lock for the n-th time, or give up
LockLowest(e, p, n) ==
  LET targets == find_lowest_rq(e, p) \ {op[e].rq}
  IN  IF n > RT_MAX_TRIES \/ targets = {} THEN PushFailed(e, p)
      ELSE /\ \E d \in targets :
                op' = [op EXCEPT ![e] = [op |-> "push_lock", rq |-> op[e].rq, p |-> p, cpu |-> d,
                                         tries |-> n, then |-> op[e].then]]
           /\ UNCHANGED <<task_cpu, rq, need_resched, post_sched>>

\* push_rt_task() up to the locks; p is Other unless it retries with a task
push_rt_task(e) ==
  LET c == op[e].rq
      next == IF op[e].p # Other THEN {op[e].p}
              ELSE IF rq[c].overloaded THEN First(rq[c].pushable) ELSE {}
  IN  /\ op[e].op = "push"
      /\ \/ next = {} /\ PushReturns(e, 0, {}) /\ UNCHANGED <<task_cpu, rq>>
         \/ \E p \in next :
              IF prio[p] < PrioOf(curr[c])
              THEN PushReturns(e, 0, {c}) /\ UNCHANGED <<task_cpu, rq>>
              ELSE LockLowest(e, p, 1)
      /\ UNCHANGED <<state, prio, cpus_allowed, curr, requests>>

\* Mutant: nothing is looked at again once both locks are held.
NeverMoved(c, p, d) == FALSE

\* what may have happened to the task while no lock was held
Moved(c, p, d) == task_cpu[p] # c \/ d \notin cpus_allowed[p] \/ curr[c] = p \/ state[p] # "running"

\* with both locks: is the task still there and the CPU still lower?
push_locked(e) ==
  LET c == op[e].rq  p == op[e].p  d == op[e].cpu
  IN  /\ op[e].op = "push_lock" /\ DoubleLockFree(c, d)
      /\ CASE Moved(c, p, d) -> PushFailed(e, p)
           [] ~Moved(c, p, d) /\ Highest(rq[d]) > prio[p] -> Migrate(p, c, d) /\ PushReturns(e, 1, {d})
           [] OTHER -> LockLowest(e, p, op[e].tries + 1)
      /\ UNCHANGED <<state, prio, cpus_allowed, curr, requests>>

-----------------------------------------------------------------------------
(* Pulling *)

\* where pull_rt_task() was called: __schedule(), prio_changed_rt() or switched_from_rt(),
\* the last one followed by switched_to_fair()
PullReturns(e) ==
  LET c == op[e].rq  then == op[e].then
  IN  CASE then.k = "schedule" -> Pick(c, rq[c])
        [] then.k # "schedule" ->
             /\ Resched(IF curr[c] = then.p /\ (then.k = "from" \/ prio[then.p] > Highest(rq[c]))
                        THEN {c} ELSE {})
             /\ op' = [op EXCEPT ![e] = NoOp]
             /\ UNCHANGED <<rq, curr, post_sched>>

\* one turn of the loop over the overloaded CPUs, before any other lock is taken
pull_rt_task(e) ==
  LET c == op[e].rq  k == op[e].cpu
      skip == k = c \/ ~rq[k].overloaded \/ rq[k].next >= Highest(rq[c])
  IN  /\ op[e].op = "pull"
      /\ IF k = NR_CPUS THEN state' = state /\ PullReturns(e)
         ELSE /\ op' = [op EXCEPT ![e] = IF skip THEN [@ EXCEPT !.cpu = k + 1]
                                         ELSE [@ EXCEPT !.op = "pull_lock"]]
              /\ UNCHANGED <<state, rq, curr, need_resched, post_sched>>
      /\ UNCHANGED <<prio, cpus_allowed, task_cpu, requests>>

\* with both locks: pull the highest task that waits there, unless it is about to preempt
pull_locked(e) ==
  LET c == op[e].rq  k == op[e].cpu
      best == IF Cardinality(rq[k].queue) <= 1 THEN {}
              ELSE First(pick_rt_task(k, rq[k].queue, c))
      pulls == {p \in best : prio[p] < Highest(rq[c]) /\ prio[p] >= PrioOf(curr[k])}
  IN  /\ op[e].op = "pull_lock" /\ DoubleLockFree(c, k)
      /\ IF pulls = {} THEN UNCHANGED <<rq, task_cpu>> ELSE \E p \in pulls : Migrate(p, k, c)
      /\ op' = [op EXCEPT ![e] = [@ EXCEPT !.op = "pull", !.cpu = k + 1]]
      /\ UNCHANGED <<state, prio, cpus_allowed, curr, need_resched, post_sched, requests>>

-----------------------------------------------------------------------------
(* Changes of class, priority and affinity *)

Request == requests < MaxRequests /\ requests' = requests + 1

\* __sched_setscheduler() by CPU e from task_rq_lock() on: dequeue, set, enqueue,
\* then prio_changed_rt(), switched_from_rt() or switched_to_rt()
sched_setscheduler(e, p, new) ==
  LET c == task_cpu[p]  old == prio[p]
      queued == state[p] = "running"  running == curr[c] = p
      wasRt == old < MAX_RT_PRIO  isRt == new < MAX_RT_PRIO
      r == IF queued /\ wasRt THEN dequeue_task_rt(rq[c], c, p) ELSE rq[c]
      q == [rq EXCEPT ![c] = IF queued /\ isRt THEN enqueue_task_rt(r, c, p, new) ELSE r]
      then == CASE queued /\ wasRt /\ isRt /\ running /\ old < new -> Pull(q, c, [k |-> "prio", p |-> p])
                [] queued /\ ~isRt /\ r.queue = {} -> Pull(q, c, [k |-> "from", p |-> p])
                [] queued /\ ~wasRt /\ ~running /\ q[c].overloaded -> Push(c, [k |-> "to", p |-> p])
                [] OTHER -> NoOp
      preempts == IF running THEN wasRt /\ (~isRt \/ new > Highest(r)) ELSE new < PrioOf(curr[c])
  IN  /\ Request /\ op[e] = NoOp /\ LockFree(c) /\ PiLockFree(p)
      /\ new # old /\ state[p] # "waking"
      /\ prio' = [prio EXCEPT ![p] = new]
      /\ rq' = q
      /\ op' = [op EXCEPT ![e] = then]
      /\ Resched(IF queued /\ then = NoOp /\ preempts THEN {c} ELSE {})
      /\ UNCHANGED <<state, cpus_allowed, task_cpu, curr, post_sched>>

\* set_cpus_allowed_ptr(), to a mask that keeps the task where it is
set_cpus_allowed_rt(e, p, mask) ==
  LET c == task_cpu[p]  w == Cardinality(mask)  old == nr_cpus_allowed(p)
      listed == CASE p = curr[c] -> rq[c].pushable
                  [] p # curr[c] /\ w > 1 -> rq[c].pushable \cup {p}
                  [] OTHER -> rq[c].pushable \ {p}
      migratory == rq[c].migratory + (IF w > 1 THEN 1 ELSE 0) - (IF old > 1 THEN 1 ELSE 0)
  IN  /\ Request /\ op[e] = NoOp /\ LockFree(c) /\ PiLockFree(p)
      /\ state[p] # "waking" /\ c \in mask /\ mask # cpus_allowed[p]
      /\ cpus_allowed' = [cpus_allowed EXCEPT ![p] = mask]
      /\ IF state[p] = "running" /\ rt_task(p) /\ w # old
         THEN rq' = [rq EXCEPT ![c] = update_rt_migration(
                [rq[c] EXCEPT !.pushable = listed, !.migratory = migratory])]
         ELSE UNCHANGED rq
      /\ UNCHANGED <<state, prio, task_cpu, curr, need_resched, post_sched, op>>

-----------------------------------------------------------------------------

PushPullInit ==
  /\ state = [p \in Tasks |-> "sleeping"]
  /\ prio \in [Tasks -> 0 .. MAX_RT_PRIO]
  /\ cpus_allowed \in [Tasks -> Masks]
  /\ task_cpu = [p \in Tasks |-> CHOOSE c \in cpus_allowed[p] : TRUE]
  /\ rq = [c \in CPUs |-> [queue |-> {}, next |-> MAX_RT_PRIO, migratory |-> 0,
                           overloaded |-> FALSE, pushable |-> {}]]
  /\ curr = [c \in CPUs |-> Other] /\ need_resched = [c \in CPUs |-> FALSE]
  /\ post_sched = [c \in CPUs |-> FALSE] /\ op = [e \in CPUs |-> NoOp]
  /\ requests = 0

CpuStep(e) ==
  \/ schedule(e) \/ post_schedule(e) \/ task_tick_rt(e)
  \/ push_rt_task(e) \/ push_locked(e) \/ pull_rt_task(e) \/ pull_locked(e)
  \/ \E p \in Tasks : try_to_wake_up(e, p) \/ ttwu_do_activate(e, p)
  \/ \E p \in Tasks, new \in 0 .. MAX_RT_PRIO : sched_setscheduler(e, p, new)
  \/ \E p \in Tasks, mask \in Masks : set_cpus_allowed_rt(e, p, mask)

PushPullNext == \E e \in CPUs : CpuStep(e)

PushPullSpec == PushPullInit /\ [][PushPullNext]_pushPullVars

-----------------------------------------------------------------------------
(* Properties *)

\* Whatever is on the list of pushable tasks passes the BUG_ON()s of
\* pick_next_pushable_task(), and what every run queue counts and caches while tasks
\* are moved between CPUs, re-classed and re-pinned is exact: the migratory tasks,
\* the overload flag other CPUs read without the lock, and one queue per task.
CachesExact ==
  \A c \in CPUs :
    /\ rq[c] \in RtRq
    /\ \A p \in rq[c].pushable :
         task_cpu[p] = c /\ curr[c] # p /\ migratable(p) /\ state[p] = "running" /\ rt_task(p)
    /\ rq[c].migratory = Cardinality({p \in rq[c].queue : migratable(p)})
    /\ rq[c].overloaded = (rq[c].migratory > 0 /\ Cardinality(rq[c].queue) > 1)
    /\ rq[c].queue = {p \in Tasks : state[p] = "running" /\ rt_task(p) /\ task_cpu[p] = c}

\* Double locking drops the first lock: still, a queued task only moves while it waits,
\* to a CPU it may use, where it is the highest RT task (find_lock_lowest_rq()).
MovesAreSound ==
  [][\A p \in Tasks : state[p] = "running" /\ task_cpu'[p] # task_cpu[p] =>
       /\ curr[task_cpu[p]] # p /\ rt_task(p) /\ task_cpu'[p] \in cpus_allowed[p]
       /\ prio[p] < Highest(rq[task_cpu'[p]])]_pushPullVars

\* Pushing and pulling with locks that are dropped in between: what the run queues cache
\* of their tasks stays exact, and whatever is moved may be moved and gains by it.
PushableSound == []CachesExact /\ MovesAreSound

\* Nobody is at work on the run queue of CPU c, and c is not about to schedule.
Settled(c) == ~need_resched[c] /\ \A e \in CPUs : op[e] = NoOp \/ op[e].rq # c

\* A CPU that goes on with what it runs has dealt with every task another CPU could
\* take: each was pushed away or given up after a search ("there's nowhere to push").
\* Requests are left out: set_cpus_allowed_rt() makes a task pushable and pushes nothing.
WaitersHandled ==
  requests = 0 => \A c \in CPUs : Settled(c) /\ ~post_sched[c] => rq[c].pushable = {}

OnPull(e, c, kinds) == op[e].op \in {"pull", "pull_lock"} /\ op[e].rq = c /\ op[e].then.k \in kinds
LeftToPush(c) ==
  {p \in Tasks : \E e \in CPUs : op[e] # NoOp /\ op[e].rq = c /\ op[e].then = [k |-> "to", p |-> p]}

\* CPU c knows of the highest task queued on it: it runs it or something higher, it is
\* asked to schedule, it is in __schedule(), or a pull that asks it to is under way.  The
\* task switched_to_rt() is still pushing counts afterwards.
Told(c) ==
  \/ need_resched[c]
  \/ \E e \in CPUs : OnPull(e, c, {"schedule"})
  \/ \E e \in CPUs : OnPull(e, c, {"prio", "from"}) /\ curr[c] = op[e].then.p
  \/ \A t \in rq[c].queue : prio[t] < PrioOf(curr[c]) => t \in LeftToPush(c)

\* prio_changed_rt() or switched_from_rt() is pulling to c, and c has meanwhile scheduled.
PulledLate(c) ==
  \E e \in CPUs : op[e].op = "pull_lock" /\ OnPull(e, c, {"prio", "from"}) /\ curr[c] # op[e].then.p

\* No step makes a CPU run something lower than what it queues without telling it: not a
\* wake-up, a push or a pull with locks dropped half way, a switch of class or priority
\* of the task that runs or of one that waits.  The one exception is PulledLate.
EachTold == [][\A c \in CPUs : ~Told(c)' => ~Told(c) \/ PulledLate(c)]_pushPullVars

\* No RT task that waits is forgotten: not by the CPU it waits on, and not by the pushes.
NothingForgotten == []WaitersHandled /\ EachTold

\* What pull_rt_task() and its callers are for ("If there's a higher priority task waiting
\* to run then reschedule"): a CPU on which all is done runs the highest task it queues.
HigherPreempts == \A c \in CPUs : Settled(c) => PrioOf(curr[c]) <= Highest(rq[c])
Symmetry == Permutations(Tasks)
=============================================================================
