--------------------------- MODULE BalanceProofs ---------------------------
(***************************************************************************)
(* Where tasks may be, for any number of CPUs and tasks: what the caches   *)
(* of the real-time run queues say while tasks are pushed and pulled, and  *)
(* that no waiting task is forgotten (RtPushPull), and the CPUs a task is  *)
(* allowed on while masks and cpuset change (Affinity).                    *)
(***************************************************************************)
EXTENDS RtPushPull, Affinity, DataProofs

-----------------------------------------------------------------------------
(* Pushing and pulling *)

Queued(c) == {p \in Tasks : state[p] = "running" /\ rt_task(p) /\ task_cpu[p] = c}

\* A run queue that counts and caches what it has to of the tasks Q.
ExactFor(r, Q) ==
  /\ r \in RtRq /\ r.queue = Q
  /\ r.migratory = Cardinality({p \in Q : migratable(p)})
  /\ r.overloaded = (r.migratory > 0 /\ Cardinality(Q) > 1)

\* Pushable tasks wait.
WaitFor(r, c) == \A p \in r.pushable : p \in r.queue /\ migratable(p) /\ p # curr[c]

QueuesExact == \A c \in CPUs : ExactFor(rq[c], Queued(c)) /\ WaitFor(rq[c], c)

RtTypes ==
  /\ state \in [Tasks -> {"running", "sleeping", "waking"}]
  /\ prio \in [Tasks -> 0 .. MAX_RT_PRIO]
  /\ cpus_allowed \in [Tasks -> SUBSET CPUs]
  /\ task_cpu \in [Tasks -> CPUs]
  /\ rq \in [CPUs -> RtRq]
  /\ curr \in [CPUs -> Tasks \cup {Other}]

PullThens == [k : {"schedule"}] \cup [k : {"prio", "from"}, p : Tasks]
PushThens == [k : {"post", "woken"}] \cup [k : {"to"}, p : Tasks]
PullOps == [op : {"pull", "pull_lock"}, rq : CPUs, then : PullThens, cpu : 0 .. NR_CPUS]
PushOps == [op : {"push"}, rq : CPUs, p : Tasks \cup {Other}, then : PushThens]
PushLocks == [op : {"push_lock"}, rq : CPUs, p : Tasks, cpu : CPUs, tries : Nat, then : PushThens]
\* Two locks are those of different run queues, and only __schedule() pulls for itself.
Ops == {NoOp} \cup {o \in PullOps : o.op = "pull_lock" => o.cpu \in CPUs \ {o.rq}} \cup PushOps
         \cup {o \in PushLocks : o.cpu # o.rq}

OpTypes ==
  /\ op \in [CPUs -> Ops]
  /\ \A e \in CPUs : op[e] \in PullOps /\ op[e].then.k = "schedule" => op[e].rq = e

\* __schedule() pulls for CPU c, and the previous task may be asleep.
Switching(c) == op[c] \in PullOps /\ op[c].then.k = "schedule"

\* The running task is on its CPU's queue, or was until __schedule().
CurrHere ==
  \A c \in CPUs : curr[c] # Other =>
    /\ task_cpu[curr[c]] = c
    /\ state[curr[c]] = "running" \/ (state[curr[c]] = "sleeping" /\ Switching(c))

RtInv == RtTypes /\ OpTypes /\ CurrHere /\ QueuesExact

MoveSound ==
  \A p \in Tasks : state[p] = "running" /\ task_cpu'[p] # task_cpu[p] =>
    /\ curr[task_cpu[p]] # p /\ rt_task(p) /\ task_cpu'[p] \in cpus_allowed[p]
    /\ prio[p] < Highest(rq[task_cpu'[p]])

-----------------------------------------------------------------------------
(* Priorities and queues *)

\* The highest priority of a set of tasks is a priority.
LEMMA MinPrioRange ==
  ASSUME prio \in [Tasks -> 0 .. MAX_RT_PRIO], NEW S \in SUBSET Tasks
  PROVE  MinPrio(S) \in 0 .. MAX_RT_PRIO
<1>1. CASE S = {}
  BY <1>1, RtAssumption DEF MinPrio
<1>2. CASE S # {}
  <2> DEFINE N == {prio[t] : t \in S}
  <2>1. N \in SUBSET Nat /\ N # {} /\ N \subseteq 0 .. MAX_RT_PRIO
    BY <1>2, RtAssumption
  <2>2. PICK m \in N : \A i \in N : m <= i
    BY <2>1, LeastOfNats
  <2>3. m \in 0 .. MAX_RT_PRIO /\ (\E t \in S : prio[t] = m) /\ (\A t \in S : m <= prio[t])
    BY <2>1, <2>2
  <2> QED BY <1>2, <2>3 DEF MinPrio
<1> QED BY <1>1, <1>2

\* highest_prio.next stays a priority.
LEMMA NextRange ==
  ASSUME prio \in [Tasks -> 0 .. MAX_RT_PRIO], NEW r \in RtRq, NEW c \in CPUs, NEW p \in Tasks,
         NEW n \in 0 .. MAX_RT_PRIO
  PROVE  inc_rt_prio_smp(r, c, p, n) \in 0 .. MAX_RT_PRIO /\ dec_rt_prio_smp(r, c, p) \in 0 .. MAX_RT_PRIO
<1>1. r.queue \in SUBSET Tasks /\ r.next \in 0 .. MAX_RT_PRIO
  BY DEF RtRq
<1>2. \A Q \in SUBSET Tasks : next_prio(c, Q) \in 0 .. MAX_RT_PRIO
  <2> SUFFICES ASSUME NEW Q \in SUBSET Tasks PROVE next_prio(c, Q) \in 0 .. MAX_RT_PRIO
    OBVIOUS
  <2>1. pick_rt_task(c, Q, c) \in SUBSET Tasks
    BY DEF pick_rt_task
  <2> QED BY <2>1, MinPrioRange DEF next_prio
<1>3. Highest(r) \in 0 .. MAX_RT_PRIO
  BY <1>1, MinPrioRange DEF Highest
<1>4. next_prio(c, r.queue) \in 0 .. MAX_RT_PRIO /\ next_prio(c, r.queue \ {p}) \in 0 .. MAX_RT_PRIO
  BY <1>1, <1>2
<1>5. dec_rt_prio_smp(r, c, p) \in 0 .. MAX_RT_PRIO
  BY <1>1, <1>4 DEF dec_rt_prio_smp
<1>6. inc_rt_prio_smp(r, c, p, n) \in {Highest(r), n, next_prio(c, r.queue), r.next}
  <2>1. Highest(r) \in Int /\ n \in Int
    BY <1>3
  <2> QED BY <2>1 DEF inc_rt_prio_smp
<1> QED BY <1>1, <1>3, <1>4, <1>5, <1>6

\* What one task more or less does to rt_nr_migratory.
LEMMA MigratableCount ==
  ASSUME NEW Q \in SUBSET Tasks, NEW p \in Tasks
  PROVE  LET M(S) == Cardinality({t \in S : migratable(t)})
         IN  /\ IsFiniteSet(Q) /\ M(Q) \in Nat /\ Cardinality(Q) \in Nat
             /\ p \notin Q => M(Q \cup {p}) = IF migratable(p) THEN M(Q) + 1 ELSE M(Q)
             /\ p \in Q => M(Q \ {p}) = IF migratable(p) THEN M(Q) - 1 ELSE M(Q)
<1> DEFINE A == {t \in Q : migratable(t)}
<1>1. IsFiniteSet(Q) /\ IsFiniteSet(A)
  BY FS_Subset, RtAssumption
<1>2. Cardinality(A) \in Nat /\ Cardinality(Q) \in Nat
  BY <1>1, FS_CardinalityType
<1>3. ASSUME p \notin Q
      PROVE  Cardinality({t \in Q \cup {p} : migratable(t)})
               = IF migratable(p) THEN Cardinality(A) + 1 ELSE Cardinality(A)
  <2>1. {t \in Q \cup {p} : migratable(t)} = IF migratable(p) THEN A \cup {p} ELSE A
    OBVIOUS
  <2>2. p \notin A
    BY <1>3
  <2> QED BY <1>1, <2>1, <2>2, FS_AddElement
<1>4. ASSUME p \in Q
      PROVE  Cardinality({t \in Q \ {p} : migratable(t)})
               = IF migratable(p) THEN Cardinality(A) - 1 ELSE Cardinality(A)
  <2>1. {t \in Q \ {p} : migratable(t)} = IF migratable(p) THEN A \ {p} ELSE A
    OBVIOUS
  <2>2. migratable(p) => p \in A
    BY <1>4
  <2> QED BY <1>1, <2>1, <2>2, FS_RemoveElement
<1> QED BY <1>1, <1>2, <1>3, <1>4

\* Enqueuing keeps a run queue exact.
LEMMA Enqueue ==
  ASSUME RtTypes, NEW c \in CPUs, NEW Q \in SUBSET Tasks, NEW r, ExactFor(r, Q), WaitFor(r, c),
         NEW p \in Tasks \ Q, NEW n \in 0 .. MAX_RT_PRIO
  PROVE  ExactFor(enqueue_task_rt(r, c, p, n), Q \cup {p}) /\ WaitFor(enqueue_task_rt(r, c, p, n), c)
<1> DEFINE s == enqueue_task_rt(r, c, p, n)
<1>1. inc_rt_prio_smp(r, c, p, n) \in 0 .. MAX_RT_PRIO
  BY NextRange DEF RtTypes, ExactFor
<1>2. /\ s \in RtRq /\ s.queue = r.queue \cup {p}
      /\ s.migratory = IF migratable(p) THEN r.migratory + 1 ELSE r.migratory
      /\ s.overloaded = (s.migratory # 0 /\ Cardinality(s.queue) > 1)
      /\ s.pushable = IF p # curr[c] /\ migratable(p) THEN r.pushable \cup {p} ELSE r.pushable
  <2>1. /\ r \in RtRq /\ r.queue \in SUBSET Tasks /\ r.pushable \in SUBSET Tasks /\ r.migratory \in Int
    BY DEF ExactFor, RtRq
  <2> DEFINE m == IF migratable(p) THEN r.migratory + 1 ELSE r.migratory
             u == IF p # curr[c] /\ migratable(p) THEN r.pushable \cup {p} ELSE r.pushable
             q == r.queue \cup {p}
  <2>2. m \in Int /\ u \in SUBSET Tasks /\ q \in SUBSET Tasks
    BY <2>1
  <2>3. s = [r EXCEPT !.queue = q, !.next = inc_rt_prio_smp(r, c, p, n), !.migratory = m, !.pushable = u,
                      !.overloaded = (m # 0 /\ Cardinality(q) > 1)]
    BY <2>1 DEF enqueue_task_rt, update_rt_migration, RtRq
  <2> HIDE DEF m, u, q, s
  <2>4. /\ s \in RtRq /\ s.queue = q /\ s.migratory = m /\ s.pushable = u
        /\ s.overloaded = (m # 0 /\ Cardinality(q) > 1)
    BY <1>1, <2>1, <2>2, <2>3 DEF RtRq
  <2> QED BY <2>4 DEF m, u, q
<1> HIDE DEF s
<1>3. /\ Cardinality({t \in Q \cup {p} : migratable(t)}) \in Nat
      /\ s.migratory = Cardinality({t \in Q \cup {p} : migratable(t)})
  <2>1. Q \cup {p} \in SUBSET Tasks
    OBVIOUS
  <2>2. Cardinality({t \in Q \cup {p} : migratable(t)}) \in Nat
    BY <2>1, MigratableCount
  <2> QED BY <1>2, <2>2, MigratableCount DEF ExactFor
<1>4. ExactFor(s, Q \cup {p})
  <2>1. s.queue = Q \cup {p}
    BY <1>2 DEF ExactFor
  <2>2. s.migratory # 0 <=> s.migratory > 0
    BY <1>3
  <2>3. s.overloaded = (s.migratory > 0 /\ Cardinality(Q \cup {p}) > 1)
    BY <1>2, <2>1, <2>2
  <2> QED BY <1>2, <1>3, <2>1, <2>3 DEF ExactFor
<1>5. WaitFor(s, c)
  BY <1>2 DEF WaitFor
<1> QED BY <1>4, <1>5 DEF s

\* Dequeuing keeps a run queue exact.
LEMMA Dequeue ==
  ASSUME RtTypes, NEW c \in CPUs, NEW Q \in SUBSET Tasks, NEW r, ExactFor(r, Q), WaitFor(r, c), NEW p \in Q
  PROVE  ExactFor(dequeue_task_rt(r, c, p), Q \ {p}) /\ WaitFor(dequeue_task_rt(r, c, p), c)
<1> DEFINE s == dequeue_task_rt(r, c, p)
<1>1. dec_rt_prio_smp(r, c, p) \in 0 .. MAX_RT_PRIO
  <2>1. 0 \in 0 .. MAX_RT_PRIO
    BY RtAssumption
  <2> QED BY <2>1, NextRange DEF RtTypes, ExactFor
<1>2. /\ s \in RtRq /\ s.queue = r.queue \ {p}
      /\ s.migratory = IF migratable(p) THEN r.migratory - 1 ELSE r.migratory
      /\ s.overloaded = (s.migratory # 0 /\ Cardinality(s.queue) > 1)
      /\ s.pushable = r.pushable \ {p}
  <2>1. /\ r \in RtRq /\ r.queue \in SUBSET Tasks /\ r.pushable \in SUBSET Tasks /\ r.migratory \in Int
    BY DEF ExactFor, RtRq
  <2> DEFINE m == IF migratable(p) THEN r.migratory - 1 ELSE r.migratory
             u == r.pushable \ {p}
             q == r.queue \ {p}
  <2>2. m \in Int /\ u \in SUBSET Tasks /\ q \in SUBSET Tasks
    BY <2>1
  <2>3. s = [r EXCEPT !.queue = q, !.next = dec_rt_prio_smp(r, c, p), !.migratory = m, !.pushable = u,
                      !.overloaded = (m # 0 /\ Cardinality(q) > 1)]
    BY <2>1 DEF dequeue_task_rt, update_rt_migration, RtRq
  <2> HIDE DEF m, u, q, s
  <2>4. /\ s \in RtRq /\ s.queue = q /\ s.migratory = m /\ s.pushable = u
        /\ s.overloaded = (m # 0 /\ Cardinality(q) > 1)
    BY <1>1, <2>1, <2>2, <2>3 DEF RtRq
  <2> QED BY <2>4 DEF m, u, q
<1> HIDE DEF s
<1>3. /\ Cardinality({t \in Q \ {p} : migratable(t)}) \in Nat
      /\ s.migratory = Cardinality({t \in Q \ {p} : migratable(t)})
  <2>1. Q \ {p} \in SUBSET Tasks
    OBVIOUS
  <2>2. Cardinality({t \in Q \ {p} : migratable(t)}) \in Nat
    BY <2>1, MigratableCount
  <2> QED BY <1>2, <2>2, MigratableCount DEF ExactFor
<1>4. ExactFor(s, Q \ {p})
  <2>1. s.queue = Q \ {p}
    BY <1>2 DEF ExactFor
  <2>2. s.migratory # 0 <=> s.migratory > 0
    BY <1>3
  <2>3. s.overloaded = (s.migratory > 0 /\ Cardinality(Q \ {p}) > 1)
    BY <1>2, <2>1, <2>2
  <2> QED BY <1>2, <1>3, <2>1, <2>3 DEF ExactFor
<1>5. WaitFor(s, c)
  BY <1>2 DEF WaitFor
<1> QED BY <1>4, <1>5 DEF s

-----------------------------------------------------------------------------
(* Parts of steps *)

\* One CPU is in the middle of something else.
LEMMA OpsKept ==
  ASSUME RtInv, NEW e \in CPUs, NEW o \in Ops, op' = [op EXCEPT ![e] = o],
         o \in PullOps /\ o.then.k = "schedule" => o.rq = e,
         Switching(e) => o \in PullOps /\ o.then.k = "schedule"
  PROVE  OpTypes' /\ \A c \in CPUs : Switching(c) => Switching(c)'
BY DEF RtInv, OpTypes, Switching

\* The running tasks neither sleep nor move.
LEMMA CurrKept ==
  ASSUME RtInv, curr' = curr, \A c \in CPUs : Switching(c) => Switching(c)',
         \A c \in CPUs : curr[c] # Other => /\ state'[curr[c]] = state[curr[c]]
                                            /\ task_cpu'[curr[c]] = task_cpu[curr[c]]
  PROVE  CurrHere'
BY DEF RtInv, CurrHere

\* The queues of a step that changes no mask and switches no task.
LEMMA QueuesCarry ==
  ASSUME cpus_allowed' = cpus_allowed, curr' = curr,
         \A c \in CPUs : ExactFor(rq'[c], Queued(c)') /\ WaitFor(rq'[c], c)
  PROVE  QueuesExact'
<1>1. \A t : migratable(t)' = migratable(t)
  BY DEF migratable, nr_cpus_allowed
<1>2. ASSUME NEW c \in CPUs PROVE ExactFor(rq[c], Queued(c))' /\ WaitFor(rq[c], c)'
  <2>1. ExactFor(rq'[c], Queued(c)') /\ WaitFor(rq'[c], c)
    OBVIOUS
  <2>2. {t \in Queued(c)' : migratable(t)'} = {t \in Queued(c)' : migratable(t)}
    BY <1>1
  <2>3. ExactFor(rq[c], Queued(c))'
    BY <2>1, <2>2 DEF ExactFor, RtRq
  <2>4. WaitFor(rq[c], c)'
    BY <1>1, <2>1 DEF WaitFor
  <2> QED BY <2>3, <2>4
<1> QED BY <1>2 DEF QueuesExact

\* Only what the CPUs are in the middle of changes.
LEMMA TasksStay ==
  ASSUME RtInv, OpTypes', \A c \in CPUs : Switching(c) => Switching(c)',
         UNCHANGED <<state, prio, cpus_allowed, task_cpu, rq, curr>>
  PROVE  RtInv' /\ MoveSound
<1>1. RtTypes' /\ MoveSound
  BY DEF RtInv, RtTypes, MoveSound
<1>2. CurrHere'
  BY CurrKept
<1>3. QueuesExact'
  <2>1. \A c \in CPUs : Queued(c)' = Queued(c)
    BY DEF Queued, rt_task, PrioOf
  <2> QED BY <2>1, QueuesCarry DEF RtInv, QueuesExact
<1> QED BY <1>1, <1>2, <1>3 DEF RtInv

\* What the invariant says of one queue.
LEMMA QueuedTasks ==
  ASSUME RtInv, NEW c \in CPUs
  PROVE  /\ Queued(c) \in SUBSET Tasks /\ rq[c] \in RtRq /\ rq[c].queue = Queued(c)
         /\ ExactFor(rq[c], Queued(c)) /\ WaitFor(rq[c], c)
         /\ rq[c].pushable \in SUBSET Tasks
         /\ \A t \in Tasks : rt_task(t) <=> prio[t] < MAX_RT_PRIO
BY RtAssumption DEF RtInv, QueuesExact, ExactFor, Queued, RtRq, rt_task, PrioOf

\* A queued task that waits changes CPUs under both locks.
LEMMA MigrateKeeps ==
  ASSUME RtInv, NEW from \in CPUs, NEW to \in CPUs \ {from}, NEW p \in Queued(from), curr[from] # p,
         to \in cpus_allowed[p], prio[p] < Highest(rq[to]), Migrate(p, from, to),
         UNCHANGED <<state, prio, cpus_allowed, curr>>,
         OpTypes', \A c \in CPUs : Switching(c) => Switching(c)'
  PROVE  RtInv' /\ MoveSound
<1> DEFINE r == dequeue_task_rt(rq[from], from, p)
           s == enqueue_task_rt(rq[to], to, p, prio[p])
<1>1. p \in Tasks /\ state[p] = "running" /\ rt_task(p) /\ task_cpu[p] = from
  BY DEF Queued
<1>2. prio[p] \in 0 .. MAX_RT_PRIO /\ p \in Tasks \ Queued(to)
  BY <1>1 DEF RtInv, RtTypes, Queued
<1>3. ExactFor(r, Queued(from) \ {p}) /\ WaitFor(r, from)
  BY QueuedTasks, Dequeue DEF RtInv
<1>4. ExactFor(s, Queued(to) \cup {p}) /\ WaitFor(s, to)
  BY <1>2, QueuedTasks, Enqueue DEF RtInv
<1> HIDE DEF r, s
<1>5. rq' = [rq EXCEPT ![from] = r, ![to] = s] /\ task_cpu' = [task_cpu EXCEPT ![p] = to]
  BY DEF Migrate, r, s, RtInv, RtTypes
<1>6. /\ rq'[from] = r /\ rq'[to] = s /\ \A c \in CPUs \ {from, to} : rq'[c] = rq[c]
      /\ task_cpu'[p] = to /\ \A t \in Tasks \ {p} : task_cpu'[t] = task_cpu[t]
  BY <1>1, <1>5 DEF RtInv, RtTypes
<1>7. /\ Queued(from)' = Queued(from) \ {p} /\ Queued(to)' = Queued(to) \cup {p}
      /\ \A c \in CPUs \ {from, to} : Queued(c)' = Queued(c)
  <2>1. \A t \in Tasks : rt_task(t)' <=> rt_task(t)
    BY DEF rt_task, PrioOf
  <2> QED BY <1>1, <1>6, <2>1 DEF Queued
<1>8. QueuesExact'
  <2> SUFFICES ASSUME NEW c \in CPUs PROVE ExactFor(rq'[c], Queued(c)') /\ WaitFor(rq'[c], c)
    BY QueuesCarry
  <2>1. CASE c = from
    BY <1>3, <1>6, <1>7, <2>1
  <2>2. CASE c = to
    BY <1>4, <1>6, <1>7, <2>2
  <2>3. CASE c \in CPUs \ {from, to}
    BY <1>6, <1>7, <2>3, QueuedTasks
  <2> QED BY <2>1, <2>2, <2>3
<1>9. RtTypes'
  <2>1. r \in RtRq /\ s \in RtRq
    BY <1>3, <1>4 DEF ExactFor
  <2>2. rq' \in [CPUs -> RtRq] /\ task_cpu' \in [Tasks -> CPUs]
    BY <1>1, <1>5, <2>1 DEF RtInv, RtTypes
  <2> QED BY <2>2 DEF RtInv, RtTypes
<1>10. CurrHere'
  <2>1. \A c \in CPUs : curr[c] # p
    BY <1>1, RtAssumption DEF RtInv, CurrHere, RtTypes
  <2>2. \A c \in CPUs : curr[c] # Other => curr[c] \in Tasks
    BY DEF RtInv, RtTypes
  <2> QED BY <1>6, <2>1, <2>2, CurrKept
<1>11. MoveSound
  BY <1>1, <1>6 DEF MoveSound
<1> QED BY <1>8, <1>9, <1>10, <1>11 DEF RtInv

\* find_lowest_rq() looks among the CPUs the task may use.
LEMMA LowestAreCpus ==
  ASSUME RtTypes, NEW e \in CPUs, NEW p \in Tasks
  PROVE  find_lowest_rq(e, p) \in SUBSET CPUs
<1>1. cpupri_find(p) \in SUBSET cpus_allowed[p] /\ cpus_allowed[p] \in SUBSET CPUs
  BY DEF cpupri_find, RtTypes
<1> QED BY <1>1 DEF find_lowest_rq

\* A push is over, or tries the next task.
LEMMA PushReturnsOps ==
  ASSUME RtInv, NEW e \in CPUs, op[e] \in PushOps \cup PushLocks, NEW ret, NEW cs, PushReturns(e, ret, cs)
  PROVE  OpTypes' /\ \A c \in CPUs : Switching(c) => Switching(c)'
<1>1. op[e].rq \in CPUs /\ op[e].then \in PushThens /\ ~Switching(e)
  BY DEF PushOps, PushLocks, Switching, PullOps
<1> DEFINE push == Push(op[e].rq, op[e].then)
<1>2. push \in PushOps /\ push \notin PullOps /\ NoOp \notin PullOps
  BY <1>1 DEF Push, PushOps, PullOps, NoOp
<1>3. op' = [op EXCEPT ![e] = push] \/ op' = [op EXCEPT ![e] = NoOp]
  BY DEF PushReturns
<1> HIDE DEF push
<1>4. push \in Ops /\ NoOp \in Ops
  BY <1>2 DEF Ops
<1> QED BY <1>1, <1>2, <1>3, <1>4, OpsKept

\* A task that is no longer on the list of pushable tasks.
LEMMA PushFailedKeeps ==
  ASSUME RtInv, NEW e \in CPUs, op[e] \in PushOps \cup PushLocks, NEW p \in Tasks, PushFailed(e, p),
         UNCHANGED <<state, prio, cpus_allowed, curr>>
  PROVE  RtInv' /\ MoveSound
<1> DEFINE c == op[e].rq
           firsts == First(rq[c].pushable)
<1>1. c \in CPUs /\ op[e].then \in PushThens /\ ~Switching(e)
  BY DEF PushOps, PushLocks, Switching, PullOps
<1>2. firsts \in SUBSET Tasks
  BY <1>1, QueuedTasks DEF First
<1>3. CASE p \in firsts /\ rq' = [rq EXCEPT ![c].pushable = @ \ {p}] /\ PushReturns(e, 1, {})
  <2>1. OpTypes' /\ \A d \in CPUs : Switching(d) => Switching(d)'
    BY <1>3, PushReturnsOps
  <2>2. task_cpu' = task_cpu
    BY DEF PushFailed
  <2> DEFINE r == [rq[c] EXCEPT !.pushable = rq[c].pushable \ {p}]
  <2>3. rq' = [rq EXCEPT ![c] = r]
    BY <1>3
  <2>4. /\ r \in RtRq /\ r.queue = rq[c].queue /\ r.migratory = rq[c].migratory
        /\ r.overloaded = rq[c].overloaded /\ r.pushable = rq[c].pushable \ {p}
    BY <1>1, QueuedTasks DEF RtRq
  <2> HIDE DEF r, c
  <2>5. ExactFor(r, Queued(c)) /\ WaitFor(r, c)
    BY <1>1, <2>4, QueuedTasks DEF ExactFor, WaitFor
  <2>6. rq'[c] = r /\ \A d \in CPUs \ {c} : rq'[d] = rq[d]
    BY <1>1, <2>3 DEF RtInv, RtTypes
  <2>7. \A d \in CPUs : Queued(d)' = Queued(d)
    BY <2>2 DEF Queued, rt_task, PrioOf
  <2>8. QueuesExact'
    BY <2>5, <2>6, <2>7, QueuesCarry, QueuedTasks
  <2>9. RtTypes' /\ MoveSound
    BY <2>2, <2>3, <2>4 DEF RtInv, RtTypes, MoveSound
  <2>10. CurrHere'
    BY <2>1, <2>2, CurrKept
  <2> QED BY <2>1, <2>8, <2>9, <2>10 DEF RtInv
<1>4. CASE firsts = {} /\ UNCHANGED rq /\ PushReturns(e, 1, {})
  <2>1. task_cpu' = task_cpu
    BY DEF PushFailed
  <2> QED BY <1>4, <2>1, PushReturnsOps, TasksStay
<1>5. ASSUME NEW t \in firsts \ {p},
             op' = [op EXCEPT ![e] = [Push(c, op[e].then) EXCEPT !.p = t]],
             UNCHANGED <<rq, need_resched, post_sched>>
      PROVE  RtInv' /\ MoveSound
  <2> DEFINE o == [Push(c, op[e].then) EXCEPT !.p = t]
  <2>1. o \in PushOps /\ o \notin PullOps
    BY <1>1, <1>2 DEF Push, PushOps, PullOps
  <2>2. op' = [op EXCEPT ![e] = o] /\ task_cpu' = task_cpu
    BY <1>5 DEF PushFailed
  <2> HIDE DEF o
  <2>3. OpTypes' /\ \A d \in CPUs : Switching(d) => Switching(d)'
    BY <1>1, <2>1, <2>2, OpsKept DEF Ops
  <2> QED BY <1>5, <2>2, <2>3, TasksStay
<1> QED BY <1>3, <1>4, <1>5 DEF PushFailed

\* find_lock_lowest_rq() chooses another run queue.
LEMMA LockLowestKeeps ==
  ASSUME RtInv, NEW e \in CPUs, op[e] \in PushOps \cup PushLocks, NEW p \in Tasks, NEW n \in Nat,
         LockLowest(e, p, n), UNCHANGED <<state, prio, cpus_allowed, curr>>
  PROVE  RtInv' /\ MoveSound
<1> DEFINE targets == find_lowest_rq(e, p) \ {op[e].rq}
<1>1. CASE PushFailed(e, p)
  BY <1>1, PushFailedKeeps
<1>2. ASSUME NEW d \in targets,
             op' = [op EXCEPT ![e] = [op |-> "push_lock", rq |-> op[e].rq, p |-> p, cpu |-> d,
                                      tries |-> n, then |-> op[e].then]],
             UNCHANGED <<task_cpu, rq, need_resched, post_sched>>
      PROVE  RtInv' /\ MoveSound
  <2> DEFINE o == [op |-> "push_lock", rq |-> op[e].rq, p |-> p, cpu |-> d, tries |-> n, then |-> op[e].then]
  <2>1. op[e].rq \in CPUs /\ op[e].then \in PushThens /\ ~Switching(e)
    BY DEF PushOps, PushLocks, Switching, PullOps
  <2>2. d \in CPUs /\ d # op[e].rq
    BY LowestAreCpus DEF RtInv
  <2>3. o \in PushLocks /\ o.cpu # o.rq /\ o \notin PullOps
    BY <2>1, <2>2 DEF PushLocks, PullOps
  <2>4. op' = [op EXCEPT ![e] = o]
    BY <1>2
  <2> HIDE DEF o
  <2>5. OpTypes' /\ \A c \in CPUs : Switching(c) => Switching(c)'
    BY <2>1, <2>3, <2>4, OpsKept DEF Ops
  <2> QED BY <1>2, <2>5, TasksStay
<1> QED BY <1>1, <1>2 DEF LockLowest

\* The CPU switches to the first of its queue r, after the previous task may have gone to sleep.
LEMMA PickKeeps ==
  ASSUME RtInv, NEW c \in CPUs, NEW r, Pick(c, r), UNCHANGED <<prio, cpus_allowed, task_cpu>>,
         state' \in [Tasks -> {"running", "sleeping", "waking"}],
         \A t \in Tasks \ {curr[c]} : state'[t] = state[t],
         ExactFor(r, Queued(c)'), WaitFor(r, c)
  PROVE  RtInv' /\ MoveSound
<1> DEFINE pushable == put_prev_task_rt(r, curr[c])
           fair == {t \in Tasks : state'[t] = "running" /\ ~rt_task(t) /\ task_cpu[t] = c}
<1>1. PICK next \in IF r.queue = {} THEN {Other} \cup fair ELSE First(r.queue) :
        /\ curr' = [curr EXCEPT ![c] = next]
        /\ rq' = [rq EXCEPT ![c] = [r EXCEPT !.pushable = pushable \ {next}]]
        /\ op' = [op EXCEPT ![c] = NoOp]
  BY DEF Pick
<1>2. /\ r \in RtRq /\ r.queue = Queued(c)' /\ Queued(c)' \in SUBSET Tasks
      /\ \A t \in Queued(c)' : state'[t] = "running" /\ task_cpu[t] = c
  BY DEF ExactFor, Queued
<1>3. next # Other => next \in Tasks /\ state'[next] = "running" /\ task_cpu[next] = c
  BY <1>1, <1>2 DEF First
<1>4. pushable \in SUBSET r.queue /\ \A t \in pushable : migratable(t)
  BY DEF put_prev_task_rt, WaitFor
<1> DEFINE s == [r EXCEPT !.pushable = pushable \ {next}]
<1> HIDE DEF pushable, fair
<1>5. /\ s \in RtRq /\ s.queue = r.queue /\ s.migratory = r.migratory
      /\ s.overloaded = r.overloaded /\ s.pushable = pushable \ {next}
  BY <1>2, <1>4 DEF RtRq
<1>6. rq' = [rq EXCEPT ![c] = s]
  BY <1>1
<1> HIDE DEF s
<1>7. /\ rq'[c] = s /\ \A d \in CPUs \ {c} : rq'[d] = rq[d]
      /\ curr'[c] = next /\ \A d \in CPUs \ {c} : curr'[d] = curr[d]
      /\ op'[c] = NoOp /\ \A d \in CPUs \ {c} : op'[d] = op[d]
  BY <1>1, <1>6 DEF RtInv, RtTypes, OpTypes
<1>8. OpTypes'
  BY <1>1 DEF RtInv, OpTypes, Ops, NoOp, PullOps
<1>9. RtTypes' /\ MoveSound
  <2>1. curr' \in [CPUs -> Tasks \cup {Other}]
    BY <1>1, <1>3 DEF RtInv, RtTypes
  <2>2. rq' \in [CPUs -> RtRq]
    BY <1>5, <1>6 DEF RtInv, RtTypes
  <2> QED BY <2>1, <2>2 DEF RtInv, RtTypes, MoveSound
<1>10. ASSUME NEW d \in CPUs \ {c}, curr[d] # Other
       PROVE  curr[d] \in Tasks /\ curr[d] # curr[c] /\ task_cpu[curr[d]] = d
  BY <1>10 DEF RtInv, CurrHere, RtTypes
<1>11. CurrHere'
  <2>1. \A d \in CPUs \ {c} : Switching(d)' <=> Switching(d)
    BY <1>7 DEF Switching
  <2>2. ASSUME NEW d \in CPUs, curr'[d] # Other
        PROVE  /\ task_cpu'[curr'[d]] = d
               /\ state'[curr'[d]] = "running" \/ (state'[curr'[d]] = "sleeping" /\ Switching(d)')
    <3>1. CASE d = c
      BY <1>3, <1>7, <2>2, <3>1
    <3>2. CASE d # c
      BY <1>7, <1>10, <2>1, <2>2, <3>2 DEF RtInv, CurrHere
    <3> QED BY <3>1, <3>2
  <2> QED BY <2>2 DEF CurrHere
<1>12. \A d \in CPUs \ {c} : Queued(d)' = Queued(d)
  <2>1. curr[c] \in Tasks => task_cpu[curr[c]] = c
    BY RtAssumption DEF RtInv, CurrHere
  <2> QED BY <2>1 DEF Queued, rt_task, PrioOf
<1>13. QueuesExact'
  <2>1. \A t : migratable(t)' <=> migratable(t)
    BY DEF migratable, nr_cpus_allowed
  <2>2. ASSUME NEW d \in CPUs PROVE ExactFor(rq[d], Queued(d))' /\ WaitFor(rq[d], d)'
    <3>1. CASE d = c
      <4>1. ExactFor(s, Queued(c)')
        BY <1>5 DEF ExactFor
      <4>2. \A t \in s.pushable : t \in s.queue /\ migratable(t) /\ t # next
        BY <1>4, <1>5
      <4> QED BY <1>7, <2>1, <3>1, <4>1, <4>2 DEF ExactFor, WaitFor, RtRq
    <3>2. CASE d # c
      <4>1. rq'[d] = rq[d] /\ Queued(d)' = Queued(d) /\ curr'[d] = curr[d]
        BY <1>7, <1>12, <3>2
      <4>2. ExactFor(rq[d], Queued(d)) /\ WaitFor(rq[d], d)
        BY QueuedTasks
      <4> QED BY <4>1, <4>2 DEF ExactFor, WaitFor, RtRq, migratable, nr_cpus_allowed
    <3> QED BY <3>1, <3>2
  <2> QED BY <2>2 DEF QueuesExact
<1> QED BY <1>8, <1>9, <1>11, <1>13 DEF RtInv

-----------------------------------------------------------------------------
(* The actions *)

\* What pull_rt_task() is in the middle of.
LEMMA PullType ==
  ASSUME NEW q \in [CPUs -> RtRq], NEW c \in CPUs, NEW then \in PullThens
  PROVE  Pull(q, c, then) \in PullOps /\ Pull(q, c, then) \in Ops /\ Pull(q, c, then).op = "pull"
           /\ Pull(q, c, then).then = then /\ Pull(q, c, then).rq = c
<1>1. 0 \in 0 .. NR_CPUS /\ NR_CPUS \in 0 .. NR_CPUS
  BY RtAssumption
<1> QED BY <1>1 DEF Pull, PullOps, Ops

\* __schedule(): the previous task may leave the queue before the pull.
LEMMA ScheduleKeeps ==
  ASSUME RtInv, NEW c \in CPUs, schedule(c)
  PROVE  RtInv' /\ MoveSound
<1> DEFINE prev == curr[c]
<1>1. op[c] = NoOp /\ ~Switching(c) /\ UNCHANGED <<prio, cpus_allowed, task_cpu>>
  BY DEF schedule, CanAct, Switching, NoOp, PullOps
<1>2. PICK sleeps \in IF prev \in Tasks THEN BOOLEAN ELSE {FALSE} :
        LET r == IF sleeps /\ rt_task(prev) THEN dequeue_task_rt(rq[c], c, prev) ELSE rq[c]
        IN  /\ state' = IF sleeps THEN [state EXCEPT ![prev] = "sleeping"] ELSE state
            /\ IF rt_task(prev) /\ Highest(r) > prio[prev]
               THEN /\ rq' = [rq EXCEPT ![c] = r]
                    /\ op' = [op EXCEPT ![c] = Pull(rq', c, [k |-> "schedule"])]
                    /\ UNCHANGED <<curr, need_resched, post_sched>>
               ELSE Pick(c, r)
  BY DEF schedule
<1> DEFINE r == IF sleeps /\ rt_task(prev) THEN dequeue_task_rt(rq[c], c, prev) ELSE rq[c]
<1>3. sleeps \in BOOLEAN /\ (sleeps => prev \in Tasks)
  BY <1>2
<1>4. prev \in Tasks => state[prev] = "running" /\ task_cpu[prev] = c
  BY <1>1, RtAssumption DEF RtInv, CurrHere
<1>5. /\ state' \in [Tasks -> {"running", "sleeping", "waking"}]
      /\ \A t \in Tasks \ {prev} : state'[t] = state[t]
      /\ prev \in Tasks => state'[prev] \in {"running", "sleeping"}
      /\ sleeps => state'[prev] = "sleeping"
      /\ ~sleeps => state' = state
  BY <1>2, <1>3, <1>4 DEF RtInv, RtTypes
<1>6. \A t \in Tasks : rt_task(t)' <=> rt_task(t)
  BY <1>1 DEF rt_task, PrioOf
<1>7. ExactFor(r, Queued(c)') /\ WaitFor(r, c)
  <2>1. CASE sleeps /\ rt_task(prev)
    <3>1. prev \in Queued(c) /\ Queued(c)' = Queued(c) \ {prev}
      BY <1>1, <1>3, <1>4, <1>5, <1>6, <2>1 DEF Queued
    <3>2. r = dequeue_task_rt(rq[c], c, prev)
      BY <2>1
    <3> QED BY <3>1, <3>2, Dequeue, QueuedTasks DEF RtInv
  <2>2. CASE ~(sleeps /\ rt_task(prev))
    <3>1. Queued(c)' = Queued(c)
      BY <1>1, <1>3, <1>5, <1>6, <2>2 DEF Queued
    <3>2. r = rq[c]
      BY <2>2
    <3> QED BY <3>1, <3>2, QueuedTasks
  <2> QED BY <2>1, <2>2
<1>8. CASE Pick(c, r)
  BY <1>1, <1>5, <1>7, <1>8, PickKeeps
<1>9. CASE /\ rq' = [rq EXCEPT ![c] = r]
           /\ op' = [op EXCEPT ![c] = Pull(rq', c, [k |-> "schedule"])]
           /\ UNCHANGED <<curr, need_resched, post_sched>>
  <2> HIDE DEF r
  <2>1. r \in RtRq /\ rq' \in [CPUs -> RtRq] /\ rq'[c] = r /\ \A d \in CPUs \ {c} : rq'[d] = rq[d]
    BY <1>7, <1>9 DEF ExactFor, RtInv, RtTypes
  <2> DEFINE o == Pull(rq', c, [k |-> "schedule"])
  <2>2. /\ o \in PullOps /\ o \in Ops /\ o.then.k = "schedule" /\ o.rq = c
    <3>1. [k |-> "schedule"] \in PullThens
      BY DEF PullThens
    <3> QED BY <2>1, <3>1, PullType
  <2>3. op' = [op EXCEPT ![c] = o]
    BY <1>9
  <2> HIDE DEF o
  <2>4. OpTypes' /\ \A d \in CPUs : Switching(d) => Switching(d)'
    BY <2>2, <2>3, OpsKept
  <2>5. Switching(c)'
    BY <2>2, <2>3 DEF Switching, RtInv, OpTypes
  <2>6. RtTypes' /\ MoveSound
    BY <1>1, <1>5, <1>9, <2>1 DEF RtInv, RtTypes, MoveSound
  <2>7. CurrHere'
    <3> SUFFICES ASSUME NEW d \in CPUs, curr[d] # Other
                 PROVE  /\ task_cpu[curr[d]] = d
                        /\ state'[curr[d]] = "running" \/ (state'[curr[d]] = "sleeping" /\ Switching(d)')
      BY <1>1, <1>9 DEF CurrHere
    <3>1. curr[d] \in Tasks /\ task_cpu[curr[d]] = d
      BY DEF RtInv, CurrHere, RtTypes
    <3>2. CASE d = c
      BY <1>5, <2>5, <3>1, <3>2
    <3>3. CASE d # c
      <4>1. curr[d] # prev
        BY <1>4, <3>1, <3>3
      <4> QED BY <1>5, <2>4, <3>1, <4>1 DEF RtInv, CurrHere
    <3> QED BY <3>1, <3>2, <3>3
  <2>8. QueuesExact'
    <3>1. \A d \in CPUs \ {c} : Queued(d)' = Queued(d)
      BY <1>1, <1>4, <1>5, <1>6 DEF Queued
    <3> QED BY <1>1, <1>7, <1>9, <2>1, <3>1, QueuesCarry, QueuedTasks
  <2> QED BY <2>4, <2>6, <2>7, <2>8 DEF RtInv
<1> QED BY <1>2, <1>8, <1>9

\* What push_rt_task() is in the middle of.
LEMMA PushType ==
  ASSUME NEW c \in CPUs, NEW then \in PushThens
  PROVE  Push(c, then) \in PushOps /\ Push(c, then) \in Ops /\ Push(c, then) \notin PullOps
BY DEF Push, PushOps, PullOps, Ops

\* Steps that move no task and change no queue.
LEMMA SameTasksKeep ==
  ASSUME RtInv, NEW c \in CPUs, post_schedule(c) \/ task_tick_rt(c)
  PROVE  RtInv' /\ MoveSound
<1>1. op[c] = NoOp /\ ~Switching(c) /\ UNCHANGED <<state, prio, cpus_allowed, task_cpu, rq, curr>>
  BY DEF post_schedule, task_tick_rt, CanAct, Switching, NoOp, PullOps
<1> DEFINE o == Push(c, [k |-> "post"])
<1>2. [k |-> "post"] \in PushThens
  BY DEF PushThens
<1>3. op' = op \/ op' = [op EXCEPT ![c] = o]
  BY DEF post_schedule, task_tick_rt
<1>4. o \in Ops /\ o \notin PullOps
  BY <1>2, PushType
<1> HIDE DEF o
<1>5. OpTypes' /\ \A d \in CPUs : Switching(d) => Switching(d)'
  <2>1. CASE op' = op
    BY <2>1 DEF RtInv, OpTypes, Switching
  <2>2. CASE op' = [op EXCEPT ![c] = o]
    BY <1>1, <1>4, <2>2, OpsKept
  <2> QED BY <1>3, <2>1, <2>2
<1> QED BY <1>1, <1>5, TasksStay

\* What the operation of a CPU says of its locks.
LEMMA OpKinds ==
  ASSUME RtInv, NEW e \in CPUs
  PROVE  /\ op[e].op = "push" => op[e] \in PushOps
         /\ op[e].op = "push_lock" => op[e] \in PushLocks /\ op[e].cpu # op[e].rq
         /\ op[e].op = "pull" => op[e] \in PullOps
         /\ op[e].op = "pull_lock" => op[e] \in PullOps /\ op[e].cpu \in CPUs \ {op[e].rq}
BY DEF RtInv, OpTypes, Ops, NoOp, PushOps, PushLocks, PullOps

\* push_rt_task() up to its locks.
LEMMA PushKeeps ==
  ASSUME RtInv, NEW e \in CPUs, push_rt_task(e)
  PROVE  RtInv' /\ MoveSound
<1> DEFINE c == op[e].rq
           next == IF op[e].p # Other THEN {op[e].p}
                   ELSE IF rq[c].overloaded THEN First(rq[c].pushable) ELSE {}
<1>1. op[e] \in PushOps /\ UNCHANGED <<state, prio, cpus_allowed, curr>>
  BY OpKinds DEF push_rt_task
<1>2. next \in SUBSET Tasks
  <2>1. op[e].rq \in CPUs /\ op[e].p \in Tasks \cup {Other}
    BY <1>1 DEF PushOps
  <2>2. rq[c].pushable \in SUBSET Tasks
    BY <2>1, QueuedTasks
  <2> QED BY <2>1, <2>2 DEF First
<1>3. \/ \E ret \in {0}, cs \in SUBSET CPUs : PushReturns(e, ret, cs) /\ UNCHANGED <<task_cpu, rq>>
      \/ \E p \in Tasks : LockLowest(e, p, 1)
  <2>1. c \in CPUs
    BY <1>1 DEF PushOps
  <2> QED BY <1>2, <2>1 DEF push_rt_task
<1>4. ASSUME NEW cs \in SUBSET CPUs, PushReturns(e, 0, cs), UNCHANGED <<task_cpu, rq>>
      PROVE  RtInv' /\ MoveSound
  BY <1>1, <1>4, PushReturnsOps, TasksStay
<1>5. ASSUME NEW p \in Tasks, LockLowest(e, p, 1) PROVE RtInv' /\ MoveSound
  BY <1>1, <1>5, LockLowestKeeps
<1> QED BY <1>3, <1>4, <1>5

\* push_rt_task() with both locks: what moves waits there and may move.
LEMMA PushLockedKeeps ==
  ASSUME RtInv, NEW e \in CPUs, push_locked(e)
  PROVE  RtInv' /\ MoveSound
<1> DEFINE c == op[e].rq  p == op[e].p  d == op[e].cpu
<1>1. op[e] \in PushLocks /\ d # c /\ UNCHANGED <<state, prio, cpus_allowed, curr>>
  BY OpKinds DEF push_locked
<1>2. c \in CPUs /\ d \in CPUs \ {c} /\ p \in Tasks /\ op[e].tries + 1 \in Nat
  BY <1>1 DEF PushLocks
<1>3. \/ PushFailed(e, p)
      \/ ~Moved(c, p, d) /\ Highest(rq[d]) > prio[p] /\ Migrate(p, c, d) /\ PushReturns(e, 1, {d})
      \/ LockLowest(e, p, op[e].tries + 1)
  BY DEF push_locked
<1>4. CASE PushFailed(e, p)
  BY <1>1, <1>2, <1>4, PushFailedKeeps
<1>5. CASE LockLowest(e, p, op[e].tries + 1)
  BY <1>1, <1>2, <1>5, LockLowestKeeps
<1>6. CASE ~Moved(c, p, d) /\ Highest(rq[d]) > prio[p] /\ Migrate(p, c, d) /\ PushReturns(e, 1, {d})
  <2>1. task_cpu[p] = c /\ d \in cpus_allowed[p] /\ curr[c] # p /\ state[p] = "running"
    BY <1>6 DEF Moved
  <2>2. prio[p] \in 0 .. MAX_RT_PRIO /\ Highest(rq[d]) \in 0 .. MAX_RT_PRIO
    <3>1. rq[d].queue \in SUBSET Tasks
      BY <1>2, QueuedTasks
    <3> QED BY <1>2, <3>1, MinPrioRange DEF Highest, RtInv, RtTypes
  <2>3. p \in Queued(c) /\ prio[p] < Highest(rq[d])
    <3>1. prio[p] < Highest(rq[d]) /\ prio[p] < MAX_RT_PRIO
      BY <1>6, <2>2, RtAssumption
    <3> QED BY <1>2, <2>1, <3>1, QueuedTasks DEF Queued
  <2>4. OpTypes' /\ \A x \in CPUs : Switching(x) => Switching(x)'
    BY <1>1, <1>6, PushReturnsOps
  <2> HIDE DEF c, p, d
  <2> QED BY <1>1, <1>2, <1>6, <2>1, <2>3, <2>4, MigrateKeeps
<1> QED BY <1>3, <1>4, <1>5, <1>6

\* pull_rt_task() between two locks, and its end.
LEMMA PullKeeps ==
  ASSUME RtInv, NEW e \in CPUs, pull_rt_task(e)
  PROVE  RtInv' /\ MoveSound
<1> DEFINE c == op[e].rq  k == op[e].cpu  then == op[e].then
<1>1. op[e] \in PullOps /\ op[e].op = "pull" /\ state' = state /\ UNCHANGED <<prio, cpus_allowed, task_cpu>>
  BY OpKinds DEF pull_rt_task
<1>2. c \in CPUs /\ k \in 0 .. NR_CPUS /\ then \in PullThens /\ (then.k = "schedule" => c = e)
  BY <1>1 DEF PullOps, RtInv, OpTypes
<1>3. CASE k = NR_CPUS /\ then.k = "schedule"
  <2>1. Pick(e, rq[e])
    BY <1>2, <1>3 DEF pull_rt_task, PullReturns
  <2>2. Queued(e)' = Queued(e)
    BY <1>1 DEF Queued, rt_task, PrioOf
  <2>3. state' \in [Tasks -> {"running", "sleeping", "waking"}]
    BY <1>1 DEF RtInv, RtTypes
  <2> QED BY <1>1, <2>1, <2>2, <2>3, PickKeeps, QueuedTasks
<1>4. CASE k = NR_CPUS /\ then.k # "schedule"
  <2>1. op' = [op EXCEPT ![e] = NoOp] /\ UNCHANGED <<rq, curr, post_sched>>
    BY <1>4 DEF pull_rt_task, PullReturns
  <2>2. OpTypes' /\ \A d \in CPUs : Switching(d) => Switching(d)'
    <3>1. NoOp \in Ops /\ NoOp \notin PullOps /\ ~Switching(e)
      BY <1>4 DEF Ops, PullOps, NoOp, Switching
    <3> QED BY <2>1, <3>1, OpsKept
  <2> QED BY <1>1, <2>1, <2>2, TasksStay
<1>5. CASE k # NR_CPUS
  <2>1. UNCHANGED <<rq, curr>> /\ k \in CPUs /\ k + 1 \in 0 .. NR_CPUS
    BY <1>2, <1>5, RtAssumption DEF pull_rt_task, CPUs
  <2>2. \/ op' = [op EXCEPT ![e] = [op[e] EXCEPT !.cpu = k + 1]]
        \/ k # c /\ op' = [op EXCEPT ![e] = [op[e] EXCEPT !.op = "pull_lock"]]
    BY <1>5 DEF pull_rt_task
  <2>3. OpTypes' /\ \A d \in CPUs : Switching(d) => Switching(d)'
    <3>1. CASE op' = [op EXCEPT ![e] = [op[e] EXCEPT !.cpu = k + 1]]
      <4> DEFINE o == [op[e] EXCEPT !.cpu = k + 1]
      <4>1. o \in PullOps /\ o.op = "pull" /\ o.then = then /\ o.rq = c
        BY <1>1, <2>1 DEF PullOps
      <4>2. op' = [op EXCEPT ![e] = o]
        BY <3>1
      <4> HIDE DEF o
      <4> QED BY <1>2, <4>1, <4>2, OpsKept DEF Ops, Switching
    <3>2. CASE k # c /\ op' = [op EXCEPT ![e] = [op[e] EXCEPT !.op = "pull_lock"]]
      <4> DEFINE o == [op[e] EXCEPT !.op = "pull_lock"]
      <4>1. o \in PullOps /\ o.cpu = k /\ o.then = then /\ o.rq = c
        BY <1>1 DEF PullOps
      <4>2. op' = [op EXCEPT ![e] = o]
        BY <3>2
      <4> HIDE DEF o
      <4>3. o \in Ops
        BY <2>1, <3>2, <4>1 DEF Ops
      <4> QED BY <1>2, <4>1, <4>2, <4>3, OpsKept DEF Switching
    <3> QED BY <2>2, <3>1, <3>2
  <2> QED BY <1>1, <2>1, <2>3, TasksStay
<1> QED BY <1>3, <1>4, <1>5

\* pull_rt_task() with both locks: what moves waits there and may move.
LEMMA PullLockedKeeps ==
  ASSUME RtInv, NEW e \in CPUs, pull_locked(e)
  PROVE  RtInv' /\ MoveSound
<1> DEFINE c == op[e].rq  k == op[e].cpu  o == [op[e] EXCEPT !.op = "pull", !.cpu = k + 1]
           best == IF Cardinality(rq[k].queue) <= 1 THEN {}
                   ELSE First(pick_rt_task(k, rq[k].queue, c))
           pulls == {p \in best : prio[p] < Highest(rq[c]) /\ prio[p] >= PrioOf(curr[k])}
<1>1. op[e] \in PullOps /\ k \in CPUs \ {c} /\ UNCHANGED <<state, prio, cpus_allowed, curr>>
  BY OpKinds DEF pull_locked
<1>2. c \in CPUs /\ op[e].then \in PullThens /\ (op[e].then.k = "schedule" => c = e)
  BY <1>1 DEF PullOps, RtInv, OpTypes
<1>3. OpTypes' /\ \A d \in CPUs : Switching(d) => Switching(d)'
  <2>1. k + 1 \in 0 .. NR_CPUS
    BY <1>1, RtAssumption DEF CPUs
  <2>2. o \in PullOps /\ o.op = "pull" /\ o.then = op[e].then /\ o.rq = c
    BY <1>1, <2>1 DEF PullOps
  <2>3. op' = [op EXCEPT ![e] = o]
    BY DEF pull_locked
  <2> HIDE DEF o
  <2> QED BY <1>2, <2>2, <2>3, OpsKept DEF Ops, Switching
<1>4. CASE UNCHANGED <<rq, task_cpu>>
  BY <1>1, <1>3, <1>4, TasksStay
<1>5. ASSUME NEW p \in pulls, Migrate(p, k, c) PROVE RtInv' /\ MoveSound
  <2>1. p \in rq[k].queue /\ p # curr[k] /\ c \in cpus_allowed[p] /\ prio[p] < Highest(rq[c])
    BY DEF First, pick_rt_task
  <2>2. p \in Queued(k)
    BY <1>1, <2>1, QueuedTasks
  <2> QED BY <1>1, <1>2, <1>3, <1>5, <2>1, <2>2, MigrateKeeps
<1> QED BY <1>4, <1>5 DEF pull_locked

\* try_to_wake_up() chooses the CPU of a task that is on no queue.
LEMMA WakeKeeps ==
  ASSUME RtInv, NEW e \in CPUs, NEW p \in Tasks, try_to_wake_up(e, p)
  PROVE  RtInv' /\ MoveSound
<1>1. /\ state[p] = "sleeping" /\ curr[task_cpu[p]] # p /\ state' = [state EXCEPT ![p] = "waking"]
      /\ UNCHANGED <<prio, cpus_allowed, rq, curr, op>>
  BY DEF try_to_wake_up
<1>2. PICK c \in CPUs : task_cpu' = [task_cpu EXCEPT ![p] = c]
  <2>1. find_lowest_rq(e, p) \in SUBSET CPUs /\ task_cpu[p] \in CPUs
    BY LowestAreCpus DEF RtInv, RtTypes
  <2> QED BY <2>1 DEF try_to_wake_up, select_task_rq_rt
<1>3. /\ state'[p] = "waking" /\ \A t \in Tasks \ {p} : state'[t] = state[t] /\ task_cpu'[t] = task_cpu[t]
  BY <1>1, <1>2 DEF RtInv, RtTypes
<1>4. RtTypes' /\ OpTypes' /\ MoveSound
  BY <1>1, <1>2, <1>3 DEF RtInv, RtTypes, OpTypes, MoveSound
<1>5. CurrHere'
  <2>1. \A d \in CPUs : curr[d] # p
    BY <1>1, RtAssumption DEF RtInv, CurrHere
  <2>2. \A d \in CPUs : curr[d] # Other => curr[d] \in Tasks \ {p}
    BY <2>1 DEF RtInv, RtTypes
  <2> QED BY <1>1, <1>3, <2>2, CurrKept DEF Switching
<1>6. \A d \in CPUs : Queued(d)' = Queued(d)
  BY <1>1, <1>3 DEF Queued, rt_task, PrioOf
<1>7. QueuesExact'
  BY <1>1, <1>6, QueuesCarry, QueuedTasks
<1> QED BY <1>4, <1>5, <1>7 DEF RtInv

\* ttwu_do_activate() queues the task.
LEMMA ActivateKeeps ==
  ASSUME RtInv, NEW c \in CPUs, NEW p \in Tasks, ttwu_do_activate(c, p)
  PROVE  RtInv' /\ MoveSound
<1>1. /\ op[c] = NoOp /\ ~Switching(c) /\ state[p] = "waking" /\ task_cpu[p] = c
      /\ state' = [state EXCEPT ![p] = "running"]
      /\ UNCHANGED <<prio, cpus_allowed, task_cpu, curr>>
  BY DEF ttwu_do_activate, CanAct, Switching, NoOp, PullOps
<1>2. state'[p] = "running" /\ \A t \in Tasks \ {p} : state'[t] = state[t]
  BY <1>1 DEF RtInv, RtTypes
<1>3. \A t \in Tasks : rt_task(t)' <=> rt_task(t)
  BY <1>1 DEF rt_task, PrioOf
<1>4. OpTypes' /\ \A d \in CPUs : Switching(d) => Switching(d)'
  <2> DEFINE o == Push(c, [k |-> "woken"])
  <2>1. [k |-> "woken"] \in PushThens
    BY DEF PushThens
  <2>2. o \in Ops /\ o \notin PullOps /\ NoOp \in Ops /\ NoOp \notin PullOps
    BY <2>1, PushType DEF Ops, NoOp, PullOps
  <2>3. op' = op \/ op' = [op EXCEPT ![c] = o] \/ op' = [op EXCEPT ![c] = NoOp]
    BY DEF ttwu_do_activate
  <2> HIDE DEF o
  <2>4. CASE op' = op
    BY <2>4 DEF RtInv, OpTypes, Switching
  <2> QED BY <1>1, <2>2, <2>3, <2>4, OpsKept
<1>5. CurrHere'
  <2>1. \A d \in CPUs : curr[d] # Other => curr[d] \in Tasks \ {p}
    BY <1>1, RtAssumption DEF RtInv, CurrHere, RtTypes
  <2> QED BY <1>1, <1>2, <1>4, <2>1, CurrKept
<1>6. \A d \in CPUs \ {c} : Queued(d)' = Queued(d)
  BY <1>1, <1>2, <1>3 DEF Queued
<1>7. CASE rt_task(p)
  <2> DEFINE s == enqueue_task_rt(rq[c], c, p, prio[p])
  <2>1. rq' = [rq EXCEPT ![c] = s]
    BY <1>7 DEF ttwu_do_activate
  <2>2. p \in Tasks \ Queued(c) /\ prio[p] \in 0 .. MAX_RT_PRIO
    BY <1>1 DEF Queued, RtInv, RtTypes
  <2>3. ExactFor(s, Queued(c) \cup {p}) /\ WaitFor(s, c)
    BY <2>2, Enqueue, QueuedTasks DEF RtInv
  <2> HIDE DEF s
  <2>4. Queued(c)' = Queued(c) \cup {p}
    BY <1>1, <1>2, <1>3, <1>7 DEF Queued
  <2>5. rq'[c] = s /\ \A d \in CPUs \ {c} : rq'[d] = rq[d]
    BY <2>1 DEF RtInv, RtTypes
  <2>6. QueuesExact'
    BY <1>1, <1>6, <2>3, <2>4, <2>5, QueuesCarry, QueuedTasks
  <2>7. RtTypes' /\ MoveSound
    BY <1>1, <2>1, <2>3 DEF RtInv, RtTypes, ExactFor, MoveSound
  <2> QED BY <1>4, <1>5, <2>6, <2>7 DEF RtInv
<1>8. CASE ~rt_task(p)
  <2>1. rq' = rq
    BY <1>8 DEF ttwu_do_activate
  <2>2. Queued(c)' = Queued(c)
    BY <1>1, <1>2, <1>3, <1>8 DEF Queued
  <2>3. QueuesExact'
    BY <1>1, <1>6, <2>1, <2>2, QueuesCarry, QueuedTasks
  <2>4. RtTypes' /\ MoveSound
    BY <1>1, <2>1 DEF RtInv, RtTypes, MoveSound
  <2> QED BY <1>4, <1>5, <2>3, <2>4 DEF RtInv
<1> QED BY <1>7, <1>8

\* __sched_setscheduler() takes the task off the queue and puts it back.
LEMMA SetschedulerKeeps ==
  ASSUME RtInv, NEW e \in CPUs, NEW p \in Tasks, NEW new \in 0 .. MAX_RT_PRIO, sched_setscheduler(e, p, new)
  PROVE  RtInv' /\ MoveSound
<1> DEFINE queued == state[p] = "running"
           wasRt == prio[p] < MAX_RT_PRIO
           isRt == new < MAX_RT_PRIO
<1>1. PICK c \in CPUs : c = task_cpu[p]
  BY DEF RtInv, RtTypes
<1> DEFINE r == IF queued /\ wasRt THEN dequeue_task_rt(rq[c], c, p) ELSE rq[c]
           s == IF queued /\ isRt THEN enqueue_task_rt(r, c, p, new) ELSE r
<1>2. /\ op[e] = NoOp /\ ~Switching(e) /\ state[p] # "waking"
      /\ prio' = [prio EXCEPT ![p] = new] /\ rq' = [rq EXCEPT ![c] = s]
      /\ UNCHANGED <<state, cpus_allowed, task_cpu, curr>>
  <2>1. op[e] = NoOp /\ state[p] # "waking" /\ prio' = [prio EXCEPT ![p] = new]
    BY DEF sched_setscheduler
  <2>2. UNCHANGED <<state, cpus_allowed, task_cpu, curr>>
    BY DEF sched_setscheduler
  <2>3. rq' = [rq EXCEPT ![c] = s]
    BY <1>1 DEF sched_setscheduler
  <2>4. ~Switching(e)
    BY <2>1 DEF Switching, NoOp, PullOps
  <2> QED BY <2>1, <2>2, <2>3, <2>4
<1>3. prio'[p] = new /\ \A t \in Tasks \ {p} : prio'[t] = prio[t]
  BY <1>2 DEF RtInv, RtTypes
<1>4. \A t \in Tasks : /\ rt_task(t) <=> prio[t] < MAX_RT_PRIO
                       /\ rt_task(t)' <=> prio'[t] < MAX_RT_PRIO
  BY RtAssumption DEF rt_task, PrioOf
<1>5. ExactFor(r, Queued(c) \ {p}) /\ WaitFor(r, c)
  <2>1. CASE queued /\ wasRt
    <3>1. p \in Queued(c)
      BY <1>1, <1>4, <2>1 DEF Queued
    <3> QED BY <2>1, <3>1, Dequeue, QueuedTasks DEF RtInv
  <2>2. CASE ~(queued /\ wasRt)
    <3>1. Queued(c) \ {p} = Queued(c)
      BY <1>4, <2>2 DEF Queued
    <3> QED BY <2>2, <3>1, QueuedTasks
  <2> QED BY <2>1, <2>2
<1>6. ExactFor(s, Queued(c)') /\ WaitFor(s, c)
  <2> HIDE DEF r
  <2>1. CASE queued /\ isRt
    <3>1. Queued(c)' = (Queued(c) \ {p}) \cup {p}
      BY <1>1, <1>2, <1>3, <1>4, <2>1 DEF Queued
    <3>2. Queued(c) \ {p} \in SUBSET Tasks /\ p \in Tasks \ (Queued(c) \ {p})
      BY DEF Queued
    <3> QED BY <1>5, <2>1, <3>1, <3>2, Enqueue DEF RtInv
  <2>2. CASE ~(queued /\ isRt)
    <3>1. Queued(c)' = Queued(c) \ {p}
      BY <1>2, <1>3, <1>4, <2>2 DEF Queued
    <3> QED BY <1>5, <2>2, <3>1
  <2> QED BY <2>1, <2>2
<1>7. OpTypes' /\ \A d \in CPUs : Switching(d) => Switching(d)'
  <2> DEFINE q == [rq EXCEPT ![c] = s]
             prioPull == Pull(q, c, [k |-> "prio", p |-> p])
             fromPull == Pull(q, c, [k |-> "from", p |-> p])
             toPush == Push(c, [k |-> "to", p |-> p])
  <2>1. op' \in {[op EXCEPT ![e] = o] : o \in {prioPull, fromPull, toPush, NoOp}}
    BY <1>1 DEF sched_setscheduler
  <2>2. [k |-> "prio", p |-> p] \in PullThens /\ [k |-> "from", p |-> p] \in PullThens /\ [k |-> "to", p |-> p] \in PushThens
    BY DEF PullThens, PushThens
  <2>3. q \in [CPUs -> RtRq]
    BY <1>6 DEF ExactFor, RtInv, RtTypes
  <2> HIDE DEF q
  <2>4. prioPull \in Ops /\ prioPull.then.k = "prio" /\ fromPull \in Ops /\ fromPull.then.k = "from"
    <3>1. prioPull \in Ops /\ prioPull.then = [k |-> "prio", p |-> p]
      BY <2>2, <2>3, PullType
    <3>2. fromPull \in Ops /\ fromPull.then = [k |-> "from", p |-> p]
      BY <2>2, <2>3, PullType
    <3> HIDE DEF prioPull, fromPull
    <3> QED BY <3>1, <3>2
  <2>5. toPush \in Ops /\ toPush \notin PullOps /\ NoOp \in Ops /\ NoOp \notin PullOps
    BY <2>2, PushType DEF Ops, NoOp, PullOps
  <2> HIDE DEF prioPull, fromPull, toPush
  <2> QED BY <1>2, <2>1, <2>4, <2>5, OpsKept
<1> HIDE DEF r, s
<1>8. rq'[c] = s /\ \A d \in CPUs \ {c} : rq'[d] = rq[d]
  BY <1>2 DEF RtInv, RtTypes
<1>9. \A d \in CPUs \ {c} : Queued(d)' = Queued(d)
  BY <1>1, <1>2, <1>3, <1>4 DEF Queued
<1>10. QueuesExact'
  BY <1>2, <1>6, <1>8, <1>9, QueuesCarry, QueuedTasks
<1>11. RtTypes' /\ MoveSound
  BY <1>2, <1>6 DEF RtInv, RtTypes, ExactFor, MoveSound
<1>12. CurrHere'
  BY <1>2, <1>7, CurrKept
<1> QED BY <1>7, <1>10, <1>11, <1>12 DEF RtInv

\* The size of a mask is a number.
LEMMA MaskSizes == \A S \in SUBSET CPUs : Cardinality(S) \in Nat
<1>1. IsFiniteSet(CPUs)
  BY RtAssumption, FS_Interval DEF CPUs
<1> QED BY <1>1, FS_Subset, FS_CardinalityType

\* set_cpus_allowed_rt() counts the migratory tasks anew.
LEMMA SetMaskKeeps ==
  ASSUME RtInv, NEW e \in CPUs, NEW p \in Tasks, NEW mask \in Masks, set_cpus_allowed_rt(e, p, mask)
  PROVE  RtInv' /\ MoveSound
<1> DEFINE w == Cardinality(mask)
           old == nr_cpus_allowed(p)
<1>1. PICK c \in CPUs : c = task_cpu[p]
  BY DEF RtInv, RtTypes
<1>2. /\ UNCHANGED <<state, prio, task_cpu, curr, op>> /\ cpus_allowed' = [cpus_allowed EXCEPT ![p] = mask]
      /\ mask \in SUBSET CPUs
  BY RtAssumption DEF set_cpus_allowed_rt
<1>3. /\ w \in Nat /\ old \in Nat
      /\ migratable(p) <=> old > 1
      /\ migratable(p)' <=> w > 1
      /\ \A t \in Tasks \ {p} : migratable(t)' <=> migratable(t)
  BY <1>2, MaskSizes, RtAssumption DEF migratable, nr_cpus_allowed, RtInv, RtTypes
<1> HIDE DEF w, old
<1>4. \A d \in CPUs : Queued(d)' = Queued(d)
  BY <1>2 DEF Queued, rt_task, PrioOf
<1>5. OpTypes' /\ CurrHere'
  BY <1>2, CurrKept DEF RtInv, OpTypes, Switching
<1>6. ASSUME NEW d \in CPUs, p \notin Queued(d) \/ (migratable(p)' <=> migratable(p)), rq'[d] = rq[d]
      PROVE  ExactFor(rq[d], Queued(d))' /\ WaitFor(rq[d], d)'
  <2>1. \A t \in Queued(d) : migratable(t)' <=> migratable(t)
    BY <1>3, <1>6 DEF Queued
  <2>2. {t \in Queued(d) : migratable(t)'} = {t \in Queued(d) : migratable(t)}
    BY <2>1
  <2>3. ExactFor(rq[d], Queued(d)) /\ WaitFor(rq[d], d) /\ rq[d].queue = Queued(d)
    BY QueuedTasks
  <2>4. ExactFor(rq[d], Queued(d))'
    BY <1>4, <1>6, <2>2, <2>3 DEF ExactFor, RtRq
  <2>5. WaitFor(rq[d], d)'
    BY <1>2, <1>6, <2>1, <2>3 DEF WaitFor
  <2> QED BY <2>4, <2>5
<1>7. CASE state[p] = "running" /\ rt_task(p) /\ w # old
  <2> DEFINE listed == CASE p = curr[c] -> rq[c].pushable
                         [] p # curr[c] /\ w > 1 -> rq[c].pushable \cup {p}
                         [] OTHER -> rq[c].pushable \ {p}
             m == rq[c].migratory + (IF w > 1 THEN 1 ELSE 0) - (IF old > 1 THEN 1 ELSE 0)
             s == [rq[c] EXCEPT !.pushable = listed, !.migratory = m,
                                !.overloaded = (m # 0 /\ Cardinality(rq[c].queue) > 1)]
  <2>1. p \in Queued(c) /\ \A d \in CPUs \ {c} : p \notin Queued(d)
    BY <1>1, <1>7 DEF Queued
  <2>2. rq[c].migratory \in Int /\ rq[c] \in RtRq
    BY QueuedTasks DEF RtRq
  <2>3. m \in Int /\ listed \in SUBSET Tasks
    <3>1. rq[c].pushable \in SUBSET Tasks
      BY QueuedTasks
    <3> QED BY <2>2, <3>1
  <2>4. rq' = [rq EXCEPT ![c] = s]
    BY <1>1, <1>7, <2>2 DEF set_cpus_allowed_rt, update_rt_migration, w, old, RtRq
  <2>5. m = Cardinality({t \in Queued(c) : migratable(t)'}) /\ m \in Nat
    <3> DEFINE A == {t \in Queued(c) : migratable(t)}
               B == {t \in Queued(c) : migratable(t)'}
    <3>1. /\ IsFiniteSet(A) /\ IsFiniteSet(B)
          /\ Cardinality(A) \in Nat /\ Cardinality(B) \in Nat
      <4>1. A \in SUBSET Tasks /\ B \in SUBSET Tasks
        BY DEF Queued
      <4> QED BY <4>1, RtAssumption, FS_Subset, FS_CardinalityType
    <3>2. A \ {p} = B \ {p} /\ (p \in A <=> old > 1) /\ (p \in B <=> w > 1)
      BY <1>3, <2>1 DEF Queued
    <3>3. Cardinality(A) = rq[c].migratory
      BY QueuedTasks DEF ExactFor
    <3> HIDE DEF A, B
    <3>4. /\ Cardinality(A \ {p}) = IF p \in A THEN Cardinality(A) - 1 ELSE Cardinality(A)
          /\ Cardinality(B \ {p}) = IF p \in B THEN Cardinality(B) - 1 ELSE Cardinality(B)
      BY <3>1, FS_RemoveElement
    <3>5. m = Cardinality(B)
      <4>1. m = Cardinality(A) + (IF p \in B THEN 1 ELSE 0) - (IF p \in A THEN 1 ELSE 0)
        BY <3>2, <3>3
      <4> DEFINE a == Cardinality(A)  b == Cardinality(B)  n == Cardinality(A \ {p})
      <4>2. n = (IF p \in A THEN a - 1 ELSE a) /\ n = (IF p \in B THEN b - 1 ELSE b)
        BY <3>2, <3>4
      <4>3. a \in Nat /\ b \in Nat /\ m = a + (IF p \in B THEN 1 ELSE 0) - (IF p \in A THEN 1 ELSE 0)
        BY <3>1, <4>1
      <4> HIDE DEF m, a, b, n
      <4>4. m = b
        BY <4>2, <4>3
      <4> QED BY <4>4 DEF b
    <3> QED BY <3>1, <3>5 DEF B
  <2> HIDE DEF m, listed
  <2>6. /\ s \in RtRq /\ s.queue = rq[c].queue /\ s.migratory = m /\ s.pushable = listed
        /\ s.overloaded = (m # 0 /\ Cardinality(rq[c].queue) > 1)
    BY <2>2, <2>3 DEF RtRq
  <2> HIDE DEF s
  <2>7. rq'[c] = s /\ \A d \in CPUs \ {c} : rq'[d] = rq[d]
    BY <2>4 DEF RtInv, RtTypes
  <2>8. ExactFor(rq[c], Queued(c))'
    <3>1. s.queue = Queued(c)
      BY <2>6, QueuedTasks
    <3>2. m # 0 <=> m > 0
      BY <2>5
    <3>3. s.overloaded = (s.migratory > 0 /\ Cardinality(Queued(c)) > 1)
      BY <2>6, <3>1, <3>2
    <3>4. rq'[c] = s /\ Queued(c)' = Queued(c)
      BY <1>4, <2>7
    <3> QED BY <2>5, <2>6, <3>1, <3>3, <3>4 DEF ExactFor, RtRq
  <2>9. WaitFor(rq[c], c)'
    <3>1. WaitFor(rq[c], c) /\ rq[c].queue = Queued(c) /\ s.queue = Queued(c)
      BY <2>6, QueuedTasks
    <3>2. \A t \in listed : t \in Queued(c) /\ migratable(t)' /\ t # curr[c]
      <4>1. \A t \in rq[c].pushable : t \in Tasks /\ t \in Queued(c) /\ migratable(t) /\ t # curr[c]
        BY <3>1 DEF WaitFor, Queued
      <4>2. CASE p = curr[c]
        BY <1>3, <4>1, <4>2 DEF listed
      <4>3. CASE p # curr[c] /\ w > 1
        BY <1>3, <2>1, <4>1, <4>3 DEF listed
      <4>4. CASE p # curr[c] /\ ~(w > 1)
        BY <1>3, <4>1, <4>4 DEF listed
      <4> QED BY <4>2, <4>3, <4>4
    <3> QED BY <1>2, <2>6, <2>7, <3>1, <3>2 DEF WaitFor
  <2>10. QueuesExact'
    BY <1>6, <2>1, <2>7, <2>8, <2>9 DEF QueuesExact
  <2>11. RtTypes' /\ MoveSound
    BY <1>2, <2>4, <2>6 DEF RtInv, RtTypes, MoveSound
  <2> QED BY <1>5, <2>10, <2>11 DEF RtInv
<1>8. CASE ~(state[p] = "running" /\ rt_task(p) /\ w # old)
  <2>1. rq' = rq
    BY <1>8 DEF set_cpus_allowed_rt, w, old
  <2>2. RtTypes' /\ MoveSound
    BY <1>2, <2>1 DEF RtInv, RtTypes, MoveSound
  <2>3. QueuesExact'
    <3>1. \A d \in CPUs : p \notin Queued(d) \/ (migratable(p)' <=> migratable(p))
      BY <1>3, <1>8 DEF Queued
    <3> QED BY <1>6, <2>1, <3>1 DEF QueuesExact
  <2> QED BY <1>5, <2>2, <2>3 DEF RtInv
<1> QED BY <1>7, <1>8

\* Nothing is queued at first.
LEMMA RtInitInv == PushPullInit => RtInv
<1> SUFFICES ASSUME PushPullInit PROVE RtInv
  OBVIOUS
<1>1. /\ \A c \in CPUs : Queued(c) = {}
      /\ {p \in {} : migratable(p)} = {}
  BY DEF PushPullInit, Queued
<1>2. RtTypes
  <2>1. [queue |-> {}, next |-> MAX_RT_PRIO, migratory |-> 0, overloaded |-> FALSE, pushable |-> {}] \in RtRq
    BY RtAssumption DEF RtRq
  <2>2. cpus_allowed \in [Tasks -> SUBSET CPUs] /\ \A p \in Tasks : cpus_allowed[p] # {}
    BY RtAssumption DEF PushPullInit
  <2>3. task_cpu \in [Tasks -> CPUs]
    BY <2>2 DEF PushPullInit
  <2> QED BY <2>1, <2>2, <2>3 DEF PushPullInit, RtTypes
<1>3. OpTypes /\ CurrHere
  BY DEF PushPullInit, OpTypes, CurrHere, Ops, NoOp, PullOps
<1>4. QueuesExact
  <2>1. Cardinality({}) = 0
    BY FS_EmptySet
  <2>2. ASSUME NEW c \in CPUs PROVE ExactFor(rq[c], Queued(c)) /\ WaitFor(rq[c], c)
    <3>1. rq[c] \in RtRq
      BY <1>2 DEF RtTypes
    <3>2. /\ rq[c].queue = {} /\ rq[c].migratory = 0 /\ rq[c].overloaded = FALSE
          /\ rq[c].pushable = {}
      BY DEF PushPullInit
    <3>3. Queued(c) = {} /\ {p \in Queued(c) : migratable(p)} = {}
      BY <1>1
    <3>4. Cardinality({p \in Queued(c) : migratable(p)}) = 0
      BY <2>1, <3>3
    <3>5. rq[c].overloaded = (rq[c].migratory > 0 /\ Cardinality(Queued(c)) > 1)
      <4>1. ~(rq[c].migratory > 0)
        BY <3>2
      <4> QED BY <3>2, <4>1, Zenon
    <3> QED BY <3>1, <3>2, <3>3, <3>4, <3>5 DEF ExactFor, WaitFor
  <2> QED BY <2>2 DEF QueuesExact
<1> QED BY <1>2, <1>3, <1>4 DEF RtInv

\* Every step keeps the caches exact and moves tasks soundly.
LEMMA RtNextInv == RtInv /\ [PushPullNext]_pushPullVars => RtInv' /\ MoveSound
<1> SUFFICES ASSUME RtInv, [PushPullNext]_pushPullVars PROVE RtInv' /\ MoveSound
  OBVIOUS
<1>1. CASE UNCHANGED pushPullVars
  <2>1. OpTypes' /\ \A c \in CPUs : Switching(c) => Switching(c)'
    BY <1>1 DEF pushPullVars, RtInv, OpTypes, Switching
  <2> QED BY <1>1, <2>1, TasksStay DEF pushPullVars
<1>2. ASSUME NEW e \in CPUs, CpuStep(e) PROVE RtInv' /\ MoveSound
  BY <1>2, ScheduleKeeps, SameTasksKeep, PushKeeps, PushLockedKeeps, PullKeeps, PullLockedKeeps,
     WakeKeeps, ActivateKeeps, SetschedulerKeeps, SetMaskKeeps DEF CpuStep
<1> QED BY <1>1, <1>2 DEF PushPullNext

\* What the run queues cache of their real-time tasks stays exact although pushing and
\* pulling drop their locks in between; a queued task moves only while it waits, to a CPU it
\* may use, where it is the highest.
THEOREM PushingIsSound == PushPullSpec => PushableSound
<1>1. RtInv => CachesExact
  <2> SUFFICES ASSUME RtInv, NEW c \in CPUs
               PROVE  /\ rq[c] \in RtRq
                      /\ \A p \in rq[c].pushable :
                           task_cpu[p] = c /\ curr[c] # p /\ migratable(p) /\ state[p] = "running" /\ rt_task(p)
                      /\ rq[c].migratory = Cardinality({p \in rq[c].queue : migratable(p)})
                      /\ rq[c].overloaded = (rq[c].migratory > 0 /\ Cardinality(rq[c].queue) > 1)
                      /\ rq[c].queue = {p \in Tasks : state[p] = "running" /\ rt_task(p) /\ task_cpu[p] = c}
    BY DEF CachesExact
  <2>1. ExactFor(rq[c], Queued(c)) /\ WaitFor(rq[c], c)
    BY QueuedTasks
  <2> QED BY <2>1 DEF ExactFor, WaitFor, Queued
<1>2. PushPullSpec => []CachesExact
  BY <1>1, RtInitInv, RtNextInv, PTL DEF PushPullSpec
<1>3. RtInv /\ [PushPullNext]_pushPullVars => [MoveSound]_pushPullVars
  BY RtNextInv
<1>4. PushPullSpec => [][MoveSound]_pushPullVars
  BY <1>3, RtInitInv, RtNextInv, PTL DEF PushPullSpec
<1> QED BY <1>2, <1>4 DEF PushableSound, MovesAreSound, MoveSound


-----------------------------------------------------------------------------
(* Nobody is forgotten *)

FlagTypes ==
  /\ need_resched \in [CPUs -> BOOLEAN] /\ post_sched \in [CPUs -> BOOLEAN]
  /\ requests \in Nat

\* Told() without the priorities, and what is wrong when nobody told.
Announced(c) ==
  \/ need_resched[c]
  \/ \E e \in CPUs : OnPull(e, c, {"schedule"})
  \/ \E e \in CPUs : OnPull(e, c, {"prio", "from"}) /\ curr[c] = op[e].then.p
Outranked(c) == \E t \in rq[c].queue \ LeftToPush(c) : prio[t] < PrioOf(curr[c])

\* A step leaves the pulls to c under way.
PullsGoOn(c) ==
  \A e \in CPUs : OnPull(e, c, {"schedule", "prio", "from"}) =>
    op'[e].op \in {"pull", "pull_lock"} /\ op'[e].rq = c /\ op'[e].then = op[e].then

\* No task of S is above n when the highest priority of S is not.
LEMMA LeastPrio ==
  ASSUME NEW f \in [Tasks -> 0 .. MAX_RT_PRIO], NEW S \in SUBSET Tasks, NEW n \in 0 .. MAX_RT_PRIO
  PROVE  n <= (IF S = {} THEN MAX_RT_PRIO ELSE CHOOSE i \in 0 .. MAX_RT_PRIO :
                 (\E t \in S : f[t] = i) /\ (\A t \in S : i <= f[t]))
           <=> ~\E t \in S : f[t] < n
<1>1. CASE S = {}
  BY <1>1, RtAssumption
<1>2. CASE S # {}
  <2> DEFINE N == {f[t] : t \in S}
             Least(i) == (\E t \in S : f[t] = i) /\ (\A t \in S : i <= f[t])
             m == CHOOSE i \in 0 .. MAX_RT_PRIO : Least(i)
  <2>1. N \in SUBSET Nat /\ N # {} /\ N \subseteq 0 .. MAX_RT_PRIO
    BY <1>2, RtAssumption
  <2>2. PICK i \in N : \A j \in N : i <= j
    BY <2>1, LeastOfNats
  <2>3. i \in 0 .. MAX_RT_PRIO /\ Least(i)
    BY <2>1, <2>2
  <2>4. m \in 0 .. MAX_RT_PRIO /\ Least(m)
    <3> HIDE DEF Least
    <3> QED BY <2>3
  <2>5. \A t \in S : f[t] \in Int
    BY RtAssumption
  <2> HIDE DEF m
  <2>6. n <= m <=> ~\E t \in S : f[t] < n
    BY <2>4, <2>5, RtAssumption
  <2> QED BY <1>2, <2>6 DEF m
<1> QED BY <1>1, <1>2

\* A CPU that was told of its highest task, in terms of the tasks that wait.
LEMMA ToldMeans ==
  ASSUME NEW c \in CPUs
  PROVE  Told(c) <=> Announced(c) \/ ~Outranked(c)
BY DEF Told, Announced, Outranked

\* The same after a step.
LEMMA ToldMeansNext ==
  ASSUME NEW c \in CPUs
  PROVE  Told(c)' <=> Announced(c)' \/ ~Outranked(c)'
BY DEF Told, Announced, Outranked

\* What was announced stays announced, and no task comes to wait below its place.
LEMMA ToldStays ==
  ASSUME RtInv, RtInv', NEW c \in CPUs, Told(c), curr'[c] = curr[c],
         need_resched[c] => need_resched'[c], PullsGoOn(c),
         Outranked(c)' => Outranked(c) \/ need_resched'[c]
  PROVE  Told(c)'
<1>1. Announced(c) => Announced(c)'
  <2>1. ASSUME NEW e \in CPUs, OnPull(e, c, {"schedule"}) PROVE OnPull(e, c, {"schedule"})'
    BY <2>1 DEF OnPull, PullsGoOn
  <2>2. ASSUME NEW e \in CPUs, OnPull(e, c, {"prio", "from"}), curr[c] = op[e].then.p
        PROVE  OnPull(e, c, {"prio", "from"})' /\ curr'[c] = op'[e].then.p
    BY <2>2 DEF OnPull, PullsGoOn
  <2> QED BY <2>1, <2>2 DEF Announced
<1>2. need_resched'[c] => Announced(c)'
  BY DEF Announced
<1> QED BY <1>1, <1>2, ToldMeans, ToldMeansNext

\* The same when no priority changes: newcomers have to wait.
LEMMA WaitersStay ==
  ASSUME RtInv, RtInv', NEW c \in CPUs, Told(c), prio' = prio, curr'[c] = curr[c],
         need_resched[c] => need_resched'[c], PullsGoOn(c), LeftToPush(c) \subseteq LeftToPush(c)',
         need_resched'[c] \/ \A t \in rq'[c].queue \ rq[c].queue : ~(prio[t] < PrioOf(curr[c]))
  PROVE  Told(c)'
<1>1. PrioOf(curr[c])' = PrioOf(curr[c])
  BY DEF PrioOf
<1>2. Outranked(c)' => Outranked(c) \/ need_resched'[c]
  BY <1>1 DEF Outranked
<1> QED BY <1>2, ToldStays

\* CPU e is in the middle of something that does not concern c.
LEMMA OpsElsewhere ==
  ASSUME NEW c \in CPUs, NEW e \in CPUs, op[e] = NoOp \/ op[e].rq # c,
         \A d \in CPUs \ {e} : op'[d] = op[d]
  PROVE  PullsGoOn(c) /\ LeftToPush(c) \subseteq LeftToPush(c)'
<1>1. PullsGoOn(c)
  BY DEF PullsGoOn, OnPull, NoOp
<1>2. LeftToPush(c) \subseteq LeftToPush(c)'
  BY DEF LeftToPush
<1> QED BY <1>1, <1>2

\* CPU e goes on with what it does.
LEMMA OpGoesOn ==
  ASSUME NEW c \in CPUs, NEW e \in CPUs, \A d \in CPUs \ {e} : op'[d] = op[d],
         op'[e] # NoOp, op'[e].rq = op[e].rq, op'[e].then = op[e].then,
         op[e].op \in {"pull", "pull_lock"} => op'[e].op \in {"pull", "pull_lock"}
  PROVE  PullsGoOn(c) /\ LeftToPush(c) \subseteq LeftToPush(c)'
<1>1. PullsGoOn(c)
  BY DEF PullsGoOn, OnPull
<1>2. LeftToPush(c) \subseteq LeftToPush(c)'
  BY DEF LeftToPush
<1> QED BY <1>1, <1>2

\* The CPU that schedules takes the first of its queue; the others see nothing of it.
LEMMA PickTold ==
  ASSUME RtInv, RtInv', NEW c \in CPUs, NEW d \in CPUs, Told(d), NEW r, Pick(c, r),
         r \in RtRq, UNCHANGED <<prio, task_cpu>>, op[c] = NoOp \/ op[c].rq = c
  PROVE  Told(d)'
<1> DEFINE pushable == put_prev_task_rt(r, curr[c])
           fair == {t \in Tasks : state'[t] = "running" /\ ~rt_task(t) /\ task_cpu[t] = c}
<1>1. PICK next \in IF r.queue = {} THEN {Other} \cup fair ELSE First(r.queue) :
        /\ curr' = [curr EXCEPT ![c] = next]
        /\ rq' = [rq EXCEPT ![c] = [r EXCEPT !.pushable = pushable \ {next}]]
        /\ need_resched' = [need_resched EXCEPT ![c] = FALSE]
        /\ op' = [op EXCEPT ![c] = NoOp]
  BY DEF Pick
<1> HIDE DEF pushable, fair
<1>2. CASE d # c
  <2>1. /\ rq'[d] = rq[d] /\ curr'[d] = curr[d] /\ \A e \in CPUs \ {c} : op'[e] = op[e]
        /\ need_resched[d] => need_resched'[d]
    BY <1>1, <1>2 DEF RtInv, RtTypes, OpTypes
  <2> QED BY <1>2, <2>1, OpsElsewhere, WaitersStay
<1>3. CASE d = c
  <2>1. curr'[c] = next /\ rq'[c].queue = r.queue
    BY <1>1 DEF RtInv, RtTypes, RtRq
  <2>2. r.queue \in SUBSET Tasks
    BY DEF RtRq
  <2>3. CASE r.queue = {}
    BY <1>3, <2>1, <2>3, ToldMeansNext DEF Outranked
  <2>4. CASE r.queue # {}
    <3>1. next \in r.queue /\ prio[next] = MinPrio(r.queue)
      BY <1>1, <2>4 DEF First
    <3>2. prio[next] \in 0 .. MAX_RT_PRIO /\ prio[next] <= MinPrio(r.queue)
      BY <2>2, <3>1, RtAssumption DEF RtInv, RtTypes
    <3>3. \A t \in r.queue : ~(prio[t] < prio[next])
      <4>1. prio \in [Tasks -> 0 .. MAX_RT_PRIO]
        BY DEF RtInv, RtTypes
      <4> QED BY <2>2, <3>2, <4>1, LeastPrio DEF MinPrio
    <3>4. PrioOf(curr[c])' = prio[next]
      BY <2>1, <2>2, <3>1, RtAssumption DEF PrioOf
    <3> QED BY <1>3, <2>1, <3>3, <3>4, ToldMeansNext DEF Outranked
  <2> QED BY <2>3, <2>4
<1> QED BY <1>2, <1>3

\* __schedule() takes the first of its queue, or pulls and takes it then.
LEMMA ScheduleTold ==
  ASSUME RtInv, RtInv', NEW c \in CPUs, NEW d \in CPUs, Told(d), schedule(c)
  PROVE  Told(d)'
<1> DEFINE prev == curr[c]
<1>1. op[c] = NoOp /\ ~Switching(c) /\ UNCHANGED <<prio, cpus_allowed, task_cpu>>
  BY DEF schedule, CanAct, Switching, NoOp, PullOps
<1>2. PICK sleeps \in IF prev \in Tasks THEN BOOLEAN ELSE {FALSE} :
        LET r == IF sleeps /\ rt_task(prev) THEN dequeue_task_rt(rq[c], c, prev) ELSE rq[c]
        IN  IF rt_task(prev) /\ Highest(r) > prio[prev]
               THEN /\ rq' = [rq EXCEPT ![c] = r]
                    /\ op' = [op EXCEPT ![c] = Pull(rq', c, [k |-> "schedule"])]
                    /\ UNCHANGED <<curr, need_resched, post_sched>>
               ELSE Pick(c, r)
  BY DEF schedule
<1> DEFINE r == IF sleeps /\ rt_task(prev) THEN dequeue_task_rt(rq[c], c, prev) ELSE rq[c]
<1>3. r \in RtRq
  <2>1. CASE sleeps /\ rt_task(prev)
    <3>1. prev \in Tasks
      BY <1>2, <2>1
    <3>2. prev \in Queued(c)
      BY <1>1, <2>1, <3>1, RtAssumption DEF RtInv, CurrHere, Queued
    <3> QED BY <2>1, <3>2, Dequeue, QueuedTasks DEF RtInv, ExactFor
  <2> QED BY <2>1, QueuedTasks
<1>4. CASE Pick(c, r)
  BY <1>1, <1>3, <1>4, PickTold
<1>5. CASE /\ rq' = [rq EXCEPT ![c] = r]
           /\ op' = [op EXCEPT ![c] = Pull(rq', c, [k |-> "schedule"])]
           /\ UNCHANGED <<curr, need_resched, post_sched>>
  <2> HIDE DEF r
  <2>1. op'[c] = Pull(rq', c, [k |-> "schedule"]) /\ \A e \in CPUs \ {c} : op'[e] = op[e]
    BY <1>5 DEF RtInv, OpTypes
  <2>2. CASE d = c
    <3>1. OnPull(c, c, {"schedule"})'
      BY <2>1 DEF OnPull, Pull
    <3> QED BY <2>2, <3>1, ToldMeansNext DEF Announced
  <2>3. CASE d # c
    <3>1. rq'[d] = rq[d] /\ prio' = prio
      BY <1>1, <1>5, <2>3 DEF RtInv, RtTypes
    <3> QED BY <1>1, <1>5, <2>1, <2>3, <3>1, OpsElsewhere, WaitersStay
  <2> QED BY <2>2, <2>3
<1> QED BY <1>2, <1>4, <1>5

\* The end of a push: the task switched_to_rt() pushed has left, has to wait, or preempts.
LEMMA PushReturnsTold ==
  ASSUME RtInv, RtInv', NEW e \in CPUs, NEW d \in CPUs, Told(d), op[e] \in PushOps \cup PushLocks,
         NEW ret \in {0, 1}, NEW cs \in SUBSET CPUs, PushReturns(e, ret, cs), prio' = prio, curr' = curr,
         d \notin cs => \A t \in rq'[d].queue \ rq[d].queue : ~(prio[t] < PrioOf(curr[d]))
  PROVE  Told(d)'
<1> DEFINE c == op[e].rq  then == op[e].then
           preempts == then.k = "to" /\ prio[then.p] < PrioOf(curr[c]) /\ StillHere(e, ret)
<1>1. /\ op' = [op EXCEPT ![e] = IF then.k # "to" /\ ret = 1 THEN Push(c, then) ELSE NoOp]
      /\ need_resched' = [x \in CPUs |-> need_resched[x] \/ x \in cs \cup IF preempts THEN {c} ELSE {}]
  BY DEF PushReturns, Resched
<1>2. /\ \A x \in CPUs \ {e} : op'[x] = op[x]
      /\ need_resched[d] => need_resched'[d]
      /\ d \in cs => need_resched'[d]
      /\ d = c /\ preempts => need_resched'[d]
  BY <1>1 DEF RtInv, OpTypes
<1>3. op[e].op \in {"push", "push_lock"} /\ then \in PushThens
  BY DEF PushOps, PushLocks
<1>4. CASE d # c
  BY <1>2, <1>4, OpsElsewhere, WaitersStay
<1>5. PullsGoOn(d)
  BY <1>2, <1>3 DEF PullsGoOn, OnPull
<1>6. CASE then.k # "to"
  <2>1. LeftToPush(d) \subseteq LeftToPush(d)'
    BY <1>2, <1>6 DEF LeftToPush
  <2> QED BY <1>2, <1>5, <2>1, WaitersStay
<1>7. CASE d = c /\ then.k = "to"
  <2>1. then.p \in Tasks /\ then = [k |-> "to", p |-> then.p]
    BY <1>3, <1>7 DEF PushThens
  <2>2. LeftToPush(d) \subseteq LeftToPush(d)' \cup {then.p}
    BY <1>2, <2>1 DEF LeftToPush
  <2>3. ASSUME ~need_resched'[d] PROVE ~(prio[then.p] < PrioOf(curr[d])) \/ then.p \notin rq'[d].queue
    <3>1. ~preempts
      BY <1>2, <1>7, <2>3
    <3>2. then.p \in rq'[d].queue => task_cpu'[then.p] = d
      BY DEF RtInv, QueuesExact, ExactFor, Queued
    <3> QED BY <1>7, <3>1, <3>2 DEF StillHere
  <2>4. PrioOf(curr[d])' = PrioOf(curr[d])
    BY DEF PrioOf
  <2>5. Outranked(d)' => Outranked(d) \/ need_resched'[d]
    BY <1>2, <2>2, <2>3, <2>4 DEF Outranked
  <2> QED BY <1>2, <1>5, <2>5, ToldStays
<1> QED BY <1>4, <1>6, <1>7

\* A push that found nothing moves nothing.
LEMMA PushFailedTold ==
  ASSUME RtInv, RtInv', NEW e \in CPUs, NEW d \in CPUs, Told(d), op[e] \in PushOps \cup PushLocks,
         NEW p \in Tasks, PushFailed(e, p), prio' = prio, curr' = curr
  PROVE  Told(d)'
<1> DEFINE c == op[e].rq
           firsts == First(rq[c].pushable)
<1>1. c \in CPUs
  BY DEF PushOps, PushLocks
<1>2. CASE rq' = [rq EXCEPT ![c].pushable = @ \ {p}] /\ PushReturns(e, 1, {})
  <2>1. rq'[d].queue = rq[d].queue
    BY <1>1, <1>2, QueuedTasks DEF RtInv, RtTypes, RtRq
  <2> QED BY <1>2, <2>1, PushReturnsTold
<1>3. CASE UNCHANGED rq /\ PushReturns(e, 1, {})
  BY <1>3, PushReturnsTold
<1>4. ASSUME NEW t \in firsts \ {p},
             op' = [op EXCEPT ![e] = [Push(c, op[e].then) EXCEPT !.p = t]],
             UNCHANGED <<rq, need_resched, post_sched>>
      PROVE  Told(d)'
  <2>1. /\ op'[e].op = "push" /\ op'[e].rq = c /\ op'[e].then = op[e].then
        /\ \A x \in CPUs \ {e} : op'[x] = op[x]
    BY <1>4 DEF Push, RtInv, OpTypes
  <2>2. op'[e] # NoOp /\ op[e].op \notin {"pull", "pull_lock"}
    BY <2>1 DEF NoOp, PushOps, PushLocks
  <2> QED BY <1>4, <2>1, <2>2, OpGoesOn, WaitersStay
<1> QED BY <1>2, <1>3, <1>4 DEF PushFailed

\* Nor does one that goes for the locks.
LEMMA LockLowestTold ==
  ASSUME RtInv, RtInv', NEW e \in CPUs, NEW d \in CPUs, Told(d), op[e] \in PushOps \cup PushLocks,
         NEW p \in Tasks, NEW n \in Nat, LockLowest(e, p, n), prio' = prio, curr' = curr
  PROVE  Told(d)'
<1>1. CASE PushFailed(e, p)
  BY <1>1, PushFailedTold
<1>2. ASSUME NEW x, op' = [op EXCEPT ![e] = [op |-> "push_lock", rq |-> op[e].rq, p |-> p, cpu |-> x,
                                            tries |-> n, then |-> op[e].then]],
             UNCHANGED <<task_cpu, rq, need_resched, post_sched>>
      PROVE  Told(d)'
  <2>1. /\ op'[e].op = "push_lock" /\ op'[e].rq = op[e].rq /\ op'[e].then = op[e].then
        /\ \A y \in CPUs \ {e} : op'[y] = op[y]
    BY <1>2 DEF RtInv, OpTypes
  <2>2. op'[e] # NoOp /\ op[e].op \notin {"pull", "pull_lock"}
    BY <2>1 DEF NoOp, PushOps, PushLocks
  <2> QED BY <1>2, <2>1, <2>2, OpGoesOn, WaitersStay
<1> QED BY <1>1, <1>2 DEF LockLowest

\* push_rt_task() up to its locks.
LEMMA PushTold ==
  ASSUME RtInv, RtInv', NEW e \in CPUs, NEW d \in CPUs, Told(d), push_rt_task(e)
  PROVE  Told(d)'
<1> DEFINE c == op[e].rq
           next == IF op[e].p # Other THEN {op[e].p}
                   ELSE IF rq[c].overloaded THEN First(rq[c].pushable) ELSE {}
<1>1. op[e] \in PushOps /\ prio' = prio /\ curr' = curr
  BY OpKinds DEF push_rt_task
<1>2. c \in CPUs /\ next \in SUBSET Tasks
  <2>1. c \in CPUs /\ op[e].p \in Tasks \cup {Other}
    BY <1>1 DEF PushOps
  <2>2. rq[c].pushable \in SUBSET Tasks
    BY <2>1, QueuedTasks
  <2> QED BY <2>1, <2>2 DEF First
<1>3. \/ \E cs \in SUBSET CPUs : PushReturns(e, 0, cs) /\ rq' = rq
      \/ \E p \in Tasks : LockLowest(e, p, 1)
  BY <1>2 DEF push_rt_task
<1>4. ASSUME NEW cs \in SUBSET CPUs, PushReturns(e, 0, cs), rq' = rq PROVE Told(d)'
  BY <1>1, <1>4, PushReturnsTold
<1> QED BY <1>1, <1>3, <1>4, LockLowestTold

\* What a move does to the queues.
LEMMA MigrateQueues ==
  ASSUME RtInv, NEW from \in CPUs, NEW to \in CPUs \ {from}, NEW p, Migrate(p, from, to)
  PROVE  /\ rq'[from].queue = rq[from].queue \ {p} /\ rq'[to].queue = rq[to].queue \cup {p}
         /\ rq'[from].pushable = rq[from].pushable \ {p}
         /\ \A c \in CPUs \ {from, to} : rq'[c] = rq[c]
<1> DEFINE r == dequeue_task_rt(rq[from], from, p)
           s == enqueue_task_rt(rq[to], to, p, prio[p])
<1>1. rq[from] \in RtRq /\ rq[to] \in RtRq
  BY QueuedTasks
<1>2. r.queue = rq[from].queue \ {p} /\ r.pushable = rq[from].pushable \ {p}
  BY <1>1 DEF dequeue_task_rt, update_rt_migration, RtRq
<1>3. s.queue = rq[to].queue \cup {p}
  BY <1>1 DEF enqueue_task_rt, update_rt_migration, RtRq
<1>4. rq' = [rq EXCEPT ![from] = r, ![to] = s]
  BY DEF Migrate, RtInv, RtTypes
<1> HIDE DEF r, s
<1> QED BY <1>2, <1>3, <1>4 DEF RtInv, RtTypes

\* push_rt_task() with both locks: the CPU that gets the task is told.
LEMMA PushLockedTold ==
  ASSUME RtInv, RtInv', NEW e \in CPUs, NEW d \in CPUs, Told(d), push_locked(e)
  PROVE  Told(d)'
<1> DEFINE c == op[e].rq  p == op[e].p  to == op[e].cpu
<1>1. op[e] \in PushLocks /\ to # c /\ prio' = prio /\ curr' = curr
  BY OpKinds DEF push_locked
<1>2. c \in CPUs /\ to \in CPUs \ {c} /\ p \in Tasks /\ op[e].tries + 1 \in Nat
  BY <1>1 DEF PushLocks
<1>3. \/ PushFailed(e, p)
      \/ Migrate(p, c, to) /\ PushReturns(e, 1, {to})
      \/ LockLowest(e, p, op[e].tries + 1)
  BY DEF push_locked
<1>4. CASE Migrate(p, c, to) /\ PushReturns(e, 1, {to})
  <2>1. d # to => rq'[d].queue \subseteq rq[d].queue
    BY <1>2, <1>4, MigrateQueues
  <2> QED BY <1>1, <1>2, <1>4, <2>1, PushReturnsTold
<1> QED BY <1>1, <1>2, <1>3, <1>4, PushFailedTold, LockLowestTold

\* prio_changed_rt() asks for a reschedule, switched_from_rt() too, unless another task runs by then.
LEMMA PullTold ==
  ASSUME RtInv, RtInv', NEW e \in CPUs, NEW d \in CPUs, Told(d), pull_rt_task(e)
  PROVE  Told(d)'
<1> DEFINE c == op[e].rq  k == op[e].cpu  then == op[e].then
<1>1. op[e] \in PullOps /\ op[e].op = "pull" /\ UNCHANGED <<prio, task_cpu>>
  BY OpKinds DEF pull_rt_task
<1>2. c \in CPUs /\ then \in PullThens /\ (then.k = "schedule" => c = e) /\ op[e] # NoOp
  BY <1>1 DEF PullOps, RtInv, OpTypes, NoOp
<1>3. CASE k = NR_CPUS /\ then.k = "schedule"
  BY <1>1, <1>2, <1>3, PickTold, QueuedTasks DEF pull_rt_task, PullReturns
<1>4. CASE k = NR_CPUS /\ then.k # "schedule"
  <2> DEFINE told == curr[c] = then.p /\ (then.k = "from" \/ prio[then.p] > Highest(rq[c]))
  <2>1. /\ op' = [op EXCEPT ![e] = NoOp] /\ UNCHANGED <<rq, curr, post_sched>>
        /\ need_resched' = [x \in CPUs |-> need_resched[x] \/ x \in IF told THEN {c} ELSE {}]
    BY <1>4 DEF pull_rt_task, PullReturns, Resched
  <2>2. /\ \A x \in CPUs \ {e} : op'[x] = op[x]
        /\ need_resched[d] => need_resched'[d]
        /\ d = c /\ told => need_resched'[d]
    BY <2>1 DEF RtInv, OpTypes
  <2>3. CASE d # c
    BY <1>1, <2>1, <2>2, <2>3, OpsElsewhere, WaitersStay
  <2>4. CASE d = c
    <3>1. Announced(d) => Announced(d)' \/ curr[c] = then.p
      <4>1. ASSUME NEW x \in CPUs, OnPull(x, d, {"schedule"}) PROVE OnPull(x, d, {"schedule"})'
        <5>1. x # e
          BY <1>4, <4>1 DEF OnPull
        <5> QED BY <2>2, <4>1, <5>1 DEF OnPull
      <4>2. ASSUME NEW x \in CPUs, OnPull(x, d, {"prio", "from"}), curr[d] = op[x].then.p
            PROVE  curr[c] = then.p \/ (OnPull(x, d, {"prio", "from"})' /\ curr'[d] = op'[x].then.p)
        BY <2>1, <2>2, <2>4, <4>2 DEF OnPull
      <4> QED BY <2>2, <4>1, <4>2 DEF Announced
    <3>2. ASSUME curr[c] = then.p, ~told PROVE ~Outranked(c)
      <4>1. then.k = "prio" /\ ~(prio[then.p] > Highest(rq[c]))
        BY <1>2, <1>4, <3>2 DEF PullThens
      <4>2. curr[c] \in Tasks /\ then.p \in Tasks
        BY <1>2, <1>4, <3>2 DEF PullThens
      <4>3. /\ PrioOf(curr[c]) = prio[then.p] /\ prio[then.p] \in 0 .. MAX_RT_PRIO
            /\ rq[c].queue \in SUBSET Tasks /\ prio \in [Tasks -> 0 .. MAX_RT_PRIO]
        BY <1>2, <3>2, <4>2, RtAssumption, QueuedTasks DEF PrioOf, RtInv, RtTypes
      <4>4. Highest(rq[c]) \in 0 .. MAX_RT_PRIO
        BY <4>3, MinPrioRange DEF Highest
      <4>5. prio[then.p] <= Highest(rq[c])
        BY <4>1, <4>3, <4>4, RtAssumption
      <4>6. ~\E t \in rq[c].queue : prio[t] < prio[then.p]
        BY <4>3, <4>5, LeastPrio DEF Highest, MinPrio
      <4> QED BY <4>3, <4>6 DEF Outranked
    <3>3. PrioOf(curr[d])' = PrioOf(curr[d])
      BY <1>1, <2>1 DEF PrioOf
    <3>4. LeftToPush(d) \subseteq LeftToPush(d)'
      BY <1>2, <2>2 DEF LeftToPush, PullThens
    <3>5. Outranked(d)' => Outranked(d)
      BY <1>1, <2>1, <3>3, <3>4 DEF Outranked
    <3>6. need_resched'[d] => Announced(d)'
      BY DEF Announced
    <3> QED BY <2>2, <2>4, <3>1, <3>2, <3>5, <3>6, ToldMeans, ToldMeansNext
  <2> QED BY <2>3, <2>4
<1>5. CASE k # NR_CPUS
  <2>1. UNCHANGED <<rq, curr, need_resched>>
    BY <1>5 DEF pull_rt_task
  <2>2. \/ op' = [op EXCEPT ![e] = [op[e] EXCEPT !.cpu = k + 1]]
        \/ op' = [op EXCEPT ![e] = [op[e] EXCEPT !.op = "pull_lock"]]
    BY <1>5 DEF pull_rt_task
  <2>3. /\ op'[e].op \in {"pull", "pull_lock"} /\ op'[e].rq = c /\ op'[e].then = then
        /\ \A x \in CPUs \ {e} : op'[x] = op[x]
    BY <1>1, <2>2 DEF RtInv, OpTypes, PullOps
  <2>4. op'[e] # NoOp
    BY <2>3 DEF NoOp
  <2> QED BY <1>1, <2>1, <2>3, <2>4, OpGoesOn, WaitersStay
<1> QED BY <1>3, <1>4, <1>5

\* A pull brings a task to a CPU that will look at its queue when the pull is over.
LEMMA PullLockedTold ==
  ASSUME RtInv, RtInv', NEW e \in CPUs, NEW d \in CPUs, Told(d), ~PulledLate(d), pull_locked(e)
  PROVE  Told(d)'
<1> DEFINE c == op[e].rq  k == op[e].cpu
<1>1. /\ op[e] \in PullOps /\ op[e].op = "pull_lock" /\ k \in CPUs \ {c}
      /\ UNCHANGED <<prio, curr, need_resched>>
  BY OpKinds DEF pull_locked
<1>2. c \in CPUs /\ op[e].then \in PullThens
  BY <1>1 DEF PullOps
<1>3. /\ op'[e].op = "pull" /\ op'[e].rq = c /\ op'[e].then = op[e].then /\ op'[e] # NoOp
      /\ \A x \in CPUs \ {e} : op'[x] = op[x]
  BY <1>1 DEF pull_locked, RtInv, OpTypes, PullOps, NoOp
<1>4. PullsGoOn(d) /\ LeftToPush(d) \subseteq LeftToPush(d)'
  BY <1>3, OpGoesOn
<1>5. CASE d = c
  <2>1. OnPull(e, c, {"schedule", "prio", "from"})
    BY <1>1, <1>2 DEF OnPull, PullThens
  <2>2. OnPull(e, d, {"schedule"})' \/ (OnPull(e, d, {"prio", "from"})' /\ curr'[d] = op'[e].then.p)
    BY <1>1, <1>3, <1>5, <2>1 DEF OnPull, PulledLate
  <2>3. Announced(d)'
    BY <2>2 DEF Announced
  <2> QED BY <2>3, ToldMeansNext
<1>6. CASE d # c
  <2>1. rq'[d].queue \subseteq rq[d].queue
    <3>1. rq' = rq \/ \E p \in Tasks : Migrate(p, k, c)
      <4>1. First(pick_rt_task(k, rq[k].queue, c)) \in SUBSET Tasks
        BY <1>1, QueuedTasks DEF First, pick_rt_task
      <4> QED BY <4>1 DEF pull_locked
    <3> QED BY <1>1, <1>2, <1>6, <3>1, MigrateQueues
  <2> QED BY <1>1, <1>4, <2>1, WaitersStay
<1> QED BY <1>5, <1>6

\* Steps that change no queue.
LEMMA SameQueuesTold ==
  ASSUME RtInv, RtInv', NEW e \in CPUs, NEW d \in CPUs, Told(d),
         \/ post_schedule(e) \/ task_tick_rt(e)
         \/ \E p \in Tasks : try_to_wake_up(e, p)
         \/ \E p \in Tasks, mask \in Masks : set_cpus_allowed_rt(e, p, mask)
  PROVE  Told(d)'
<1>1. prio' = prio /\ curr' = curr
  BY DEF post_schedule, task_tick_rt, try_to_wake_up, set_cpus_allowed_rt
<1>2. need_resched[d] => need_resched'[d]
  BY DEF post_schedule, task_tick_rt, try_to_wake_up, set_cpus_allowed_rt, Resched
<1>3. op[e] = NoOp /\ \A x \in CPUs \ {e} : op'[x] = op[x]
  BY DEF post_schedule, task_tick_rt, try_to_wake_up, set_cpus_allowed_rt, CanAct, RtInv, OpTypes
<1>4. rq'[d].queue = rq[d].queue
  <2>1. CASE \E p \in Tasks, mask \in Masks : set_cpus_allowed_rt(e, p, mask)
    <3>1. PICK p \in Tasks, mask \in Masks : set_cpus_allowed_rt(e, p, mask)
      BY <2>1
    <3> DEFINE c == task_cpu[p]
               listed == CASE p = curr[c] -> rq[c].pushable
                           [] p # curr[c] /\ Cardinality(mask) > 1 -> rq[c].pushable \cup {p}
                           [] OTHER -> rq[c].pushable \ {p}
               m == rq[c].migratory + (IF Cardinality(mask) > 1 THEN 1 ELSE 0)
                      - (IF nr_cpus_allowed(p) > 1 THEN 1 ELSE 0)
               s == update_rt_migration([rq[c] EXCEPT !.pushable = listed, !.migratory = m])
    <3>2. c \in CPUs
      BY DEF RtInv, RtTypes
    <3>3. s.queue = rq[c].queue
      <4>1. rq[c] \in RtRq
        BY <3>2, QueuedTasks
      <4> HIDE DEF listed, m
      <4> QED BY <4>1 DEF update_rt_migration, RtRq
    <3>4. rq' = rq \/ rq' = [rq EXCEPT ![c] = s]
      BY <3>1 DEF set_cpus_allowed_rt
    <3> HIDE DEF s
    <3> QED BY <3>2, <3>3, <3>4 DEF RtInv, RtTypes
  <2> QED BY <2>1 DEF post_schedule, task_tick_rt, try_to_wake_up
<1> QED BY <1>1, <1>2, <1>3, <1>4, OpsElsewhere, WaitersStay

\* A task that wakes up above the running one preempts it.
LEMMA ActivateTold ==
  ASSUME RtInv, RtInv', NEW c \in CPUs, NEW d \in CPUs, Told(d), NEW p \in Tasks, ttwu_do_activate(c, p)
  PROVE  Told(d)'
<1>1. op[c] = NoOp /\ prio' = prio /\ curr' = curr
  BY DEF ttwu_do_activate, CanAct
<1>2. CASE rt_task(p)
  <2>1. /\ rq' = [rq EXCEPT ![c] = enqueue_task_rt(rq[c], c, p, prio[p])]
        /\ need_resched' = [x \in CPUs |-> need_resched[x]
                              \/ x \in IF check_preempt_curr_rt(c, p) THEN {c} ELSE {}]
        /\ \E o : op' = [op EXCEPT ![c] = o]
    BY <1>2 DEF ttwu_do_activate, Resched, RtInv, RtTypes
  <2>2. /\ \A x \in CPUs \ {c} : op'[x] = op[x]
        /\ need_resched[d] => need_resched'[d]
        /\ d = c /\ prio[p] < PrioOf(curr[d]) => need_resched'[d]
    BY <2>1 DEF RtInv, OpTypes, check_preempt_curr_rt
  <2>3. rq'[c].queue = rq[c].queue \cup {p} /\ (d # c => rq'[d] = rq[d])
    <3>1. rq'[c] = enqueue_task_rt(rq[c], c, p, prio[p]) /\ (d # c => rq'[d] = rq[d]) /\ rq[c] \in RtRq
      BY <2>1 DEF RtInv, RtTypes
    <3> QED BY <3>1 DEF enqueue_task_rt, update_rt_migration, RtRq
  <2> QED BY <1>1, <2>2, <2>3, OpsElsewhere, WaitersStay
<1>3. CASE ~rt_task(p)
  <2>1. UNCHANGED <<rq, need_resched, op>>
    BY <1>3 DEF ttwu_do_activate
  <2> QED BY <1>1, <2>1, OpsElsewhere, WaitersStay
<1> QED BY <1>2, <1>3

\* A change of priority or class, of the task that runs or of one that waits.
LEMMA SetschedulerTold ==
  ASSUME RtInv, RtInv', NEW e \in CPUs, NEW d \in CPUs, Told(d), NEW p \in Tasks, NEW new \in 0 .. MAX_RT_PRIO,
         sched_setscheduler(e, p, new)
  PROVE  Told(d)'
<1>1. PICK c \in CPUs : c = task_cpu[p]
  BY DEF RtInv, RtTypes
<1> DEFINE queued == state[p] = "running"
           running == curr[c] = p
           wasRt == prio[p] < MAX_RT_PRIO
           isRt == new < MAX_RT_PRIO
           r == IF queued /\ wasRt THEN dequeue_task_rt(rq[c], c, p) ELSE rq[c]
           s == IF queued /\ isRt THEN enqueue_task_rt(r, c, p, new) ELSE r
           q == [rq EXCEPT ![c] = s]
           then == CASE queued /\ wasRt /\ isRt /\ running /\ prio[p] < new -> Pull(q, c, [k |-> "prio", p |-> p])
                     [] queued /\ ~isRt /\ r.queue = {} -> Pull(q, c, [k |-> "from", p |-> p])
                     [] queued /\ ~wasRt /\ ~running /\ q[c].overloaded -> Push(c, [k |-> "to", p |-> p])
                     [] OTHER -> NoOp
           preempts == IF running THEN wasRt /\ (~isRt \/ new > Highest(r)) ELSE new < PrioOf(curr[c])
<1>2. /\ op[e] = NoOp /\ new # prio[p] /\ state[p] # "waking"
      /\ prio' = [prio EXCEPT ![p] = new] /\ rq' = q /\ op' = [op EXCEPT ![e] = then]
      /\ need_resched' = [x \in CPUs |-> need_resched[x]
                            \/ x \in IF queued /\ then = NoOp /\ preempts THEN {c} ELSE {}]
      /\ UNCHANGED <<state, task_cpu, curr>>
  BY <1>1 DEF sched_setscheduler, Resched
<1> HIDE DEF preempts, then, q, s, r
<1>3. /\ prio'[p] = new /\ \A t \in Tasks \ {p} : prio'[t] = prio[t]
      /\ op'[e] = then /\ \A x \in CPUs \ {e} : op'[x] = op[x]
      /\ need_resched[d] => need_resched'[d]
      /\ d = c /\ queued /\ then = NoOp /\ preempts => need_resched'[d]
  <2>1. prio'[p] = new /\ \A t \in Tasks \ {p} : prio'[t] = prio[t]
    BY <1>2 DEF RtInv, RtTypes
  <2>2. op'[e] = then /\ \A x \in CPUs \ {e} : op'[x] = op[x]
    BY <1>2 DEF RtInv, OpTypes
  <2>3. /\ need_resched[d] => need_resched'[d]
        /\ d = c /\ queued /\ then = NoOp /\ preempts => need_resched'[d]
    BY <1>2
  <2> QED BY <2>1, <2>2, <2>3
<1>4. r \in RtRq /\ r.queue = rq[c].queue \ {p}
  <2>1. CASE queued /\ wasRt
    <3>1. p \in Queued(c)
      BY <1>1, <2>1, QueuedTasks DEF Queued
    <3>2. ExactFor(r, Queued(c) \ {p})
      BY <2>1, <3>1, Dequeue, QueuedTasks DEF RtInv, r
    <3> QED BY <3>2, QueuedTasks DEF ExactFor
  <2>2. CASE ~(queued /\ wasRt)
    <3>1. p \notin Queued(c)
      BY <2>2, QueuedTasks DEF Queued
    <3> QED BY <2>2, <3>1, QueuedTasks DEF r
  <2> QED BY <2>1, <2>2
<1>5. /\ rq'[c].queue = IF queued /\ isRt THEN (rq[c].queue \ {p}) \cup {p} ELSE rq[c].queue \ {p}
      /\ \A x \in CPUs \ {c} : rq'[x] = rq[x]
  <2>1. s.queue = IF queued /\ isRt THEN r.queue \cup {p} ELSE r.queue
    BY <1>4 DEF enqueue_task_rt, update_rt_migration, RtRq, s
  <2> QED BY <1>2, <1>4, <2>1 DEF RtInv, RtTypes, q
<1>6. PullsGoOn(d) /\ LeftToPush(d) \subseteq LeftToPush(d)'
  BY <1>2, <1>3, OpsElsewhere
<1>7. \A x \in CPUs : curr[x] = p => task_cpu[p] = x /\ (queued \/ Switching(x))
  BY RtAssumption DEF RtInv, CurrHere
<1>8. curr[d] # p => PrioOf(curr[d])' = PrioOf(curr[d])
  BY <1>2, <1>3 DEF PrioOf, RtInv, RtTypes
<1>9. \A x \in CPUs : rq[x].queue \in SUBSET Tasks
  BY QueuedTasks
<1>10. CASE d # c
  <2>1. curr[d] # p /\ p \notin rq[d].queue
    <3>1. p \notin Queued(d)
      BY <1>1, <1>10 DEF Queued
    <3> QED BY <1>1, <1>7, <1>10, <3>1, QueuedTasks
  <2>2. Outranked(d)' => Outranked(d)
    BY <1>3, <1>5, <1>6, <1>8, <1>9, <1>10, <2>1 DEF Outranked
  <2> QED BY <1>2, <1>3, <1>6, <2>2, ToldStays
<1>11. CASE d = c /\ ~queued
  <2>1. CASE curr[c] = p
    <3>1. Switching(c)
      BY <1>7, <1>11, <2>1
    <3>2. OnPull(c, c, {"schedule"}) /\ OnPull(c, c, {"schedule", "prio", "from"})
      BY <3>1 DEF Switching, OnPull, RtInv, OpTypes, PullOps
    <3>3. OnPull(c, d, {"schedule"})'
      BY <1>6, <1>11, <3>2 DEF PullsGoOn, OnPull
    <3> QED BY <3>3, ToldMeansNext DEF Announced
  <2>2. CASE curr[c] # p
    <3>1. Outranked(d)' => Outranked(d)
      BY <1>3, <1>5, <1>6, <1>8, <1>9, <1>11, <2>2 DEF Outranked
    <3> QED BY <1>2, <1>3, <1>6, <3>1, ToldStays
  <2> QED BY <2>1, <2>2
<1>12. CASE d = c /\ queued /\ running
  <2>1. PrioOf(curr[d])' = new /\ PrioOf(curr[d]) = prio[p]
    BY <1>2, <1>3, <1>12, RtAssumption DEF PrioOf
  <2>2. prio[p] \in 0 .. MAX_RT_PRIO /\ prio \in [Tasks -> 0 .. MAX_RT_PRIO]
    BY DEF RtInv, RtTypes
  <2>3. ASSUME NEW k \in {"prio", "from"}, then = Pull(q, c, [k |-> k, p |-> p]) PROVE Told(d)'
    <3>1. OnPull(e, d, {"prio", "from"})' /\ curr'[d] = op'[e].then.p
      BY <1>2, <1>3, <1>12, <2>3 DEF OnPull, Pull
    <3> QED BY <3>1, ToldMeansNext DEF Announced
  <2>4. ASSUME need_resched'[d] PROVE Told(d)'
    BY <2>4, ToldMeansNext DEF Announced
  <2>5. CASE wasRt /\ isRt /\ prio[p] < new
    BY <1>12, <2>3, <2>5 DEF then
  <2>6. CASE wasRt /\ isRt /\ ~(prio[p] < new)
    <3>1. then = NoOp
      BY <1>12, <2>6 DEF then
    <3>2. CASE new > Highest(r)
      BY <1>3, <1>12, <2>4, <2>6, <3>1, <3>2 DEF preempts
    <3>3. CASE ~(new > Highest(r))
      <4>1. r.queue \in SUBSET Tasks
        BY <1>4, <1>9
      <4>2. Highest(r) \in 0 .. MAX_RT_PRIO
        BY <2>2, <4>1, MinPrioRange DEF Highest
      <4>3. new <= Highest(r)
        BY <3>3, <4>2, RtAssumption
      <4>4. ~\E t \in r.queue : prio[t] < new
        BY <2>2, <4>1, <4>3, LeastPrio DEF Highest, MinPrio
      <4>5. ~Outranked(d)'
        BY <1>3, <1>4, <1>5, <1>9, <1>12, <2>1, <4>4 DEF Outranked
      <4> QED BY <4>5, ToldMeansNext
    <3> QED BY <3>2, <3>3
  <2>7. CASE wasRt /\ ~isRt
    <3>1. CASE r.queue = {}
      BY <1>12, <2>3, <2>7, <3>1 DEF then
    <3>2. CASE r.queue # {}
      <4>1. then = NoOp /\ preempts
        BY <1>12, <2>7, <3>2 DEF then, preempts
      <4> QED BY <1>3, <1>12, <2>4, <4>1
    <3> QED BY <3>1, <3>2
  <2>8. CASE ~wasRt
    <3>1. prio[p] = MAX_RT_PRIO /\ new <= prio[p]
      BY <2>2, <2>8, RtAssumption
    <3>2. \A t \in rq[c].queue \ {p} : prio[t] < new => prio[t] < prio[p]
      BY <1>9, <2>2, <3>1, RtAssumption
    <3>3. Outranked(d)' => Outranked(d)
      BY <1>3, <1>5, <1>6, <1>9, <1>12, <2>1, <3>2 DEF Outranked
    <3> QED BY <1>2, <1>3, <1>6, <3>3, ToldStays
  <2> QED BY <2>5, <2>6, <2>7, <2>8
<1>13. CASE d = c /\ queued /\ ~running
  <2>1. PrioOf(curr[d])' = PrioOf(curr[d])
    BY <1>8, <1>13
  <2>2. isRt => need_resched'[d] \/ ~(new < PrioOf(curr[d])) \/ p \in LeftToPush(d)'
    <3>1. CASE ~wasRt /\ q[c].overloaded /\ isRt
      <4>1. then = Push(c, [k |-> "to", p |-> p])
        BY <1>13, <3>1 DEF then
      <4>2. op'[e] # NoOp /\ op'[e].rq = d /\ op'[e].then = [k |-> "to", p |-> p]
        BY <1>3, <1>13, <4>1 DEF Push, NoOp
      <4> QED BY <4>2 DEF LeftToPush
    <3>2. CASE ~(~wasRt /\ q[c].overloaded) /\ isRt
      <4>1. then = NoOp
        BY <1>13, <3>2 DEF then
      <4> QED BY <1>3, <1>13, <4>1 DEF preempts
    <3> QED BY <3>1, <3>2
  <2>3. Outranked(d)' => Outranked(d) \/ need_resched'[d]
    BY <1>3, <1>5, <1>6, <1>9, <1>13, <2>1, <2>2 DEF Outranked
  <2> QED BY <1>2, <1>3, <1>6, <2>3, ToldStays
<1> QED BY <1>10, <1>11, <1>12, <1>13

\* The induction step for Told.
LEMMA StepTold ==
  ASSUME RtInv, RtInv', PushPullNext, NEW d \in CPUs, Told(d), ~PulledLate(d)
  PROVE  Told(d)'
<1>1. PICK e \in CPUs : CpuStep(e)
  BY DEF PushPullNext
<1> QED BY <1>1, ScheduleTold, PushTold, PushLockedTold, PullTold, PullLockedTold, SameQueuesTold,
           ActivateTold, SetschedulerTold DEF CpuStep

\* What CPU c is in the middle of while nobody has asked for a change.
OwnOp(o, c) == o.rq = c /\ o.then.k \in {"schedule", "post", "woken"}

\* Who has tasks to push pushes, is about to, or will after it has scheduled.
Handled(c) ==
  /\ op[c] # NoOp => OwnOp(op[c], c)
  /\ post_sched[c] => rt_task(curr[c])
  /\ rq[c].pushable # {} => need_resched[c] \/ post_sched[c] \/ op[c] # NoOp

HandledInv == FlagTypes /\ (requests = 0 => \A c \in CPUs : Told(c) /\ Handled(c))

\* The flags are flags, and requests are only counted up.
LEMMA FlagsKept ==
  ASSUME FlagTypes, PushPullNext
  PROVE  FlagTypes' /\ requests' \in {requests, requests + 1}
<1>1. PICK e \in CPUs : CpuStep(e)
  BY DEF PushPullNext
<1>2. ASSUME NEW c \in CPUs, NEW r, Pick(c, r)
      PROVE  need_resched' \in [CPUs -> BOOLEAN] /\ post_sched' \in [CPUs -> BOOLEAN]
  BY <1>2 DEF Pick, FlagTypes
<1>3. ASSUME NEW ret, NEW cs, PushReturns(e, ret, cs)
      PROVE  need_resched' \in [CPUs -> BOOLEAN] /\ post_sched' \in [CPUs -> BOOLEAN]
  BY <1>3 DEF PushReturns, Resched, FlagTypes
<1>4. ASSUME NEW p, PushFailed(e, p)
      PROVE  need_resched' \in [CPUs -> BOOLEAN] /\ post_sched' \in [CPUs -> BOOLEAN]
  BY <1>3, <1>4 DEF PushFailed, FlagTypes
<1>5. ASSUME NEW p, NEW n, LockLowest(e, p, n)
      PROVE  need_resched' \in [CPUs -> BOOLEAN] /\ post_sched' \in [CPUs -> BOOLEAN]
  BY <1>4, <1>5 DEF LockLowest, FlagTypes
<1>6. CASE schedule(e)
  BY <1>2, <1>6 DEF schedule, FlagTypes
<1>7. CASE post_schedule(e) \/ task_tick_rt(e)
  BY <1>7 DEF post_schedule, task_tick_rt, Resched, FlagTypes
<1>8. CASE push_rt_task(e)
  BY <1>3, <1>5, <1>8 DEF push_rt_task, FlagTypes
<1>9. CASE push_locked(e)
  BY <1>3, <1>4, <1>5, <1>9 DEF push_locked, FlagTypes
<1>10. CASE pull_rt_task(e)
  <2>1. op[e].rq \in CPUs \/ op[e].rq \notin CPUs
    OBVIOUS
  <2> QED BY <1>10 DEF pull_rt_task, PullReturns, Resched, FlagTypes, Pick
<1>11. CASE pull_locked(e)
  BY <1>11 DEF pull_locked, FlagTypes
<1>12. ASSUME NEW p \in Tasks, try_to_wake_up(e, p) \/ ttwu_do_activate(e, p)
       PROVE  FlagTypes' /\ requests' \in {requests, requests + 1}
  BY <1>12 DEF try_to_wake_up, ttwu_do_activate, Resched, FlagTypes
<1>13. ASSUME NEW p \in Tasks, NEW new \in 0 .. MAX_RT_PRIO, sched_setscheduler(e, p, new)
       PROVE  FlagTypes' /\ requests' \in {requests, requests + 1}
  <2>1. requests' = requests + 1 /\ post_sched' = post_sched /\ \E cs : Resched(cs)
    BY <1>13 DEF sched_setscheduler, Request
  <2> QED BY <2>1 DEF Resched, FlagTypes
<1>14. ASSUME NEW p \in Tasks, NEW mask \in Masks, set_cpus_allowed_rt(e, p, mask)
       PROVE  FlagTypes' /\ requests' \in {requests, requests + 1}
  BY <1>14 DEF set_cpus_allowed_rt, Request, FlagTypes
<1> QED BY <1>1, <1>6, <1>7, <1>8, <1>9, <1>10, <1>11, <1>12, <1>13, <1>14 DEF CpuStep

\* The CPUs beside the one that acts.
LEMMA OthersHandled ==
  ASSUME NEW d \in CPUs, Handled(d), prio' = prio, curr'[d] = curr[d], op'[d] = op[d],
         post_sched'[d] = post_sched[d], need_resched[d] => need_resched'[d],
         rq'[d].pushable \subseteq rq[d].pushable \/ need_resched'[d]
  PROVE  Handled(d)'
BY DEF Handled, OwnOp, rt_task, PrioOf

\* A CPU that goes on with what it does for itself.
LEMMA GoesOnHandled ==
  ASSUME NEW d \in CPUs, Handled(d), prio' = prio, curr'[d] = curr[d], op'[d] # NoOp, OwnOp(op'[d], d),
         post_sched'[d] => post_sched[d]
  PROVE  Handled(d)'
BY DEF Handled, OwnOp, rt_task, PrioOf

\* The CPU that has scheduled pushes afterwards if there is something to push.
LEMMA PickHandled ==
  ASSUME RtInv, RtInv', FlagTypes, NEW c \in CPUs, NEW d \in CPUs, Handled(d), NEW r, Pick(c, r),
         r \in RtRq, prio' = prio
  PROVE  Handled(d)'
<1> DEFINE pushable == put_prev_task_rt(r, curr[c])
           fair == {t \in Tasks : state'[t] = "running" /\ ~rt_task(t) /\ task_cpu[t] = c}
<1>1. PICK next \in IF r.queue = {} THEN {Other} \cup fair ELSE First(r.queue) :
        /\ curr' = [curr EXCEPT ![c] = next]
        /\ rq' = [rq EXCEPT ![c] = [r EXCEPT !.pushable = pushable \ {next}]]
        /\ post_sched' = [post_sched EXCEPT ![c] = r.queue # {} /\ pushable \ {next} # {}]
        /\ need_resched' = [need_resched EXCEPT ![c] = FALSE]
        /\ op' = [op EXCEPT ![c] = NoOp]
  BY DEF Pick
<1> HIDE DEF pushable, fair
<1>2. CASE d # c
  <2>1. /\ rq'[d] = rq[d] /\ curr'[d] = curr[d] /\ op'[d] = op[d] /\ post_sched'[d] = post_sched[d]
        /\ need_resched[d] => need_resched'[d]
    BY <1>1, <1>2 DEF RtInv, RtTypes, OpTypes, FlagTypes
  <2> QED BY <2>1, OthersHandled
<1>3. CASE d = c
  <2>1. curr'[c] = next /\ op'[c] = NoOp
    BY <1>1 DEF RtInv, RtTypes, OpTypes
  <2>2. rq'[c].queue = r.queue /\ rq'[c].pushable = pushable \ {next}
    BY <1>1 DEF RtInv, RtTypes, RtRq
  <2>3. post_sched'[c] <=> r.queue # {} /\ pushable \ {next} # {}
    BY <1>1 DEF FlagTypes
  <2>4. post_sched'[c] => rt_task(curr[c])'
    <3>1. r.queue # {} => next \in rq'[c].queue
      BY <1>1, <2>2 DEF First
    <3>2. \A t \in rq'[c].queue : rt_task(t)'
      BY DEF RtInv, QueuesExact, ExactFor, Queued
    <3> QED BY <2>1, <2>3, <3>1, <3>2 DEF rt_task
  <2>5. rq'[c].pushable # {} => post_sched'[c]
    <3>1. rq'[c].pushable \subseteq rq'[c].queue
      BY DEF RtInv, QueuesExact, WaitFor
    <3> QED BY <2>2, <2>3, <3>1
  <2> QED BY <1>3, <2>1, <2>4, <2>5 DEF Handled
<1> QED BY <1>2, <1>3

\* __schedule() picks, or pulls first.
LEMMA ScheduleHandled ==
  ASSUME RtInv, RtInv', FlagTypes, NEW c \in CPUs, NEW d \in CPUs, Handled(d), schedule(c)
  PROVE  Handled(d)'
<1> DEFINE prev == curr[c]
<1>1. op[c] = NoOp /\ ~Switching(c) /\ prio' = prio
  BY DEF schedule, CanAct, Switching, NoOp, PullOps
<1>2. PICK sleeps \in IF prev \in Tasks THEN BOOLEAN ELSE {FALSE} :
        LET r == IF sleeps /\ rt_task(prev) THEN dequeue_task_rt(rq[c], c, prev) ELSE rq[c]
        IN  IF rt_task(prev) /\ Highest(r) > prio[prev]
               THEN /\ rq' = [rq EXCEPT ![c] = r]
                    /\ op' = [op EXCEPT ![c] = Pull(rq', c, [k |-> "schedule"])]
                    /\ UNCHANGED <<curr, need_resched, post_sched>>
               ELSE Pick(c, r)
  BY DEF schedule
<1> DEFINE r == IF sleeps /\ rt_task(prev) THEN dequeue_task_rt(rq[c], c, prev) ELSE rq[c]
<1>3. r \in RtRq
  <2>1. CASE sleeps /\ rt_task(prev)
    <3>1. prev \in Tasks
      BY <1>2, <2>1
    <3>2. prev \in Queued(c)
      BY <1>1, <2>1, <3>1, RtAssumption DEF RtInv, CurrHere, Queued
    <3> QED BY <2>1, <3>2, Dequeue, QueuedTasks DEF RtInv, ExactFor
  <2> QED BY <2>1, QueuedTasks
<1>4. CASE Pick(c, r)
  BY <1>1, <1>3, <1>4, PickHandled
<1>5. CASE /\ rq' = [rq EXCEPT ![c] = r]
           /\ op' = [op EXCEPT ![c] = Pull(rq', c, [k |-> "schedule"])]
           /\ UNCHANGED <<curr, need_resched, post_sched>>
  <2> HIDE DEF r
  <2>1. op'[c] = Pull(rq', c, [k |-> "schedule"]) /\ \A e \in CPUs \ {c} : op'[e] = op[e]
    BY <1>5 DEF RtInv, OpTypes
  <2>2. op'[c] # NoOp /\ OwnOp(op'[c], c)
    BY <2>1 DEF Pull, NoOp, OwnOp
  <2>3. d # c => rq'[d] = rq[d]
    BY <1>5 DEF RtInv, RtTypes
  <2> QED BY <1>1, <1>5, <2>1, <2>2, <2>3, OthersHandled, GoesOnHandled
<1> QED BY <1>2, <1>4, <1>5

\* A push that ends leaves nothing to push, or a CPU that is about to schedule.
LEMMA PushReturnsHandled ==
  ASSUME RtInv, FlagTypes, NEW e \in CPUs, NEW d \in CPUs, Handled(d), Handled(e),
         op[e] \in PushOps \cup PushLocks,
         NEW ret \in {0, 1}, NEW cs \in SUBSET CPUs, PushReturns(e, ret, cs), prio' = prio, curr' = curr,
         d # e => rq'[d].pushable \subseteq rq[d].pushable \/ d \in cs,
         ret = 0 => rq'[e].pushable = {} \/ need_resched[e] \/ e \in cs
  PROVE  Handled(d)'
<1>1. op[e] # NoOp /\ op[e].rq = e /\ op[e].then.k \in {"schedule", "post", "woken"}
  BY DEF Handled, OwnOp, NoOp, PushOps, PushLocks
<1> DEFINE o == IF ret = 1 THEN Push(e, op[e].then) ELSE NoOp
           put == post_sched' = IF op[e].then.k = "post" /\ ret = 0 THEN [post_sched EXCEPT ![e] = FALSE] ELSE post_sched
<1>2. /\ op' = [op EXCEPT ![e] = o] /\ put
      /\ need_resched' = [x \in CPUs |-> need_resched[x] \/ x \in cs]
  BY <1>1 DEF PushReturns, Resched
<1> HIDE DEF o
<1>3. /\ op'[e] = o /\ \A x \in CPUs \ {e} : op'[x] = op[x]
      /\ post_sched'[e] => post_sched[e]
      /\ \A x \in CPUs \ {e} : post_sched'[x] = post_sched[x]
      /\ need_resched[d] \/ d \in cs => need_resched'[d]
  <2>1. op'[e] = o /\ \A x \in CPUs \ {e} : op'[x] = op[x]
    BY <1>2 DEF RtInv, OpTypes
  <2>2. /\ post_sched'[e] => post_sched[e]
        /\ \A x \in CPUs \ {e} : post_sched'[x] = post_sched[x]
    BY <1>2 DEF FlagTypes
  <2> QED BY <1>2, <2>1, <2>2
<1>4. CASE d # e
  BY <1>3, <1>4, OthersHandled
<1>5. CASE d = e /\ ret = 1
  <2>1. op'[d] # NoOp /\ OwnOp(op'[d], d)
    BY <1>1, <1>3, <1>5 DEF o, Push, NoOp, OwnOp
  <2> QED BY <1>3, <1>5, <2>1, GoesOnHandled
<1>6. CASE d = e /\ ret = 0
  <2>1. op'[d] = NoOp
    BY <1>3, <1>6 DEF o
  <2>2. rq'[d].pushable # {} => need_resched'[d]
    BY <1>3, <1>6
  <2> QED BY <1>3, <1>6, <2>1, <2>2 DEF Handled, rt_task, PrioOf
<1> QED BY <1>4, <1>5, <1>6

\* The situation the lemmas start from.
AllHandled == FlagTypes /\ \A c \in CPUs : Told(c) /\ Handled(c)

\* A set of tasks has a highest one.
LEMMA FirstExists ==
  ASSUME prio \in [Tasks -> 0 .. MAX_RT_PRIO], NEW S \in SUBSET Tasks, S # {}
  PROVE  First(S) # {}
<1> DEFINE N == {prio[t] : t \in S}
           Least(i) == (\E t \in S : prio[t] = i) /\ (\A t \in S : i <= prio[t])
           m == CHOOSE i \in 0 .. MAX_RT_PRIO : Least(i)
<1>1. N \in SUBSET Nat /\ N # {} /\ N \subseteq 0 .. MAX_RT_PRIO
  BY RtAssumption
<1>2. PICK i \in N : \A j \in N : i <= j
  BY <1>1, LeastOfNats
<1>3. i \in 0 .. MAX_RT_PRIO /\ Least(i)
  BY <1>1, <1>2
<1>4. Least(m)
  <2> HIDE DEF Least
  <2> QED BY <1>3
<1>5. m = MinPrio(S)
  BY DEF MinPrio
<1> QED BY <1>4, <1>5 DEF First

\* No task waits beside nothing: with one to push the run queue is overloaded.
LEMMA LoneWaiter ==
  ASSUME RtInv, AllHandled, NEW c \in CPUs, op[c] \in PushOps, ~need_resched[c], rq[c].pushable # {}
  PROVE  rq[c].overloaded
<1>1. PICK p \in rq[c].pushable : p \in Queued(c) /\ migratable(p) /\ p # curr[c]
  BY QueuedTasks DEF WaitFor
<1>2. \A e \in CPUs : op[e] # NoOp /\ op[e].rq = c => e = c
  BY DEF AllHandled, Handled, OwnOp
<1>3. op[c].op = "push" /\ op[c].then.k \notin {"to"} /\ ~Switching(c)
  BY DEF AllHandled, Handled, OwnOp, PushOps, NoOp, Switching, PullOps
<1>4. ~Announced(c) /\ LeftToPush(c) = {}
  BY <1>2, <1>3 DEF Announced, OnPull, LeftToPush, NoOp
<1>5. ~Outranked(c)
  BY <1>4, ToldMeans DEF AllHandled
<1>6. /\ rq[c].queue = Queued(c) /\ p \in Tasks /\ prio[p] \in Int /\ prio[p] < MAX_RT_PRIO
  <2>1. p \in Tasks /\ rt_task(p) /\ rq[c].queue = Queued(c)
    BY <1>1, QueuedTasks DEF Queued
  <2>2. prio[p] \in 0 .. MAX_RT_PRIO /\ prio[p] < MAX_RT_PRIO
    BY <2>1, QueuedTasks DEF RtInv, RtTypes
  <2> QED BY <2>1, <2>2, RtAssumption
<1>7. rt_task(curr[c]) /\ curr[c] \in Tasks
  <2>1. PrioOf(curr[c]) \in 0 .. MAX_RT_PRIO
    BY RtAssumption DEF PrioOf, RtInv, RtTypes
  <2>2. ~(prio[p] < PrioOf(curr[c]))
    BY <1>1, <1>4, <1>5, <1>6 DEF Outranked
  <2>3. PrioOf(curr[c]) < MAX_RT_PRIO
    BY <1>6, <2>1, <2>2, RtAssumption
  <2> QED BY <2>3, RtAssumption DEF rt_task, PrioOf, RtInv, RtTypes
<1>8. curr[c] \in Queued(c)
  BY <1>3, <1>7, RtAssumption DEF Queued, RtInv, CurrHere
<1> DEFINE Q == Queued(c)
           M == {t \in Q : migratable(t)}
<1>9. Q \in SUBSET Tasks /\ IsFiniteSet(Q) /\ IsFiniteSet(M) /\ p \in M
  <2>1. Q \in SUBSET Tasks
    BY QueuedTasks
  <2> QED BY <1>1, <2>1, FS_Subset, RtAssumption
<1>10. Cardinality(Q) > 1
  <2>1. Cardinality(Q) \in Nat /\ Cardinality(Q \ {p}) = Cardinality(Q) - 1
    BY <1>1, <1>9, FS_CardinalityType, FS_RemoveElement
  <2>2. IsFiniteSet(Q \ {p}) /\ Q \ {p} # {}
    BY <1>1, <1>8, <1>9, FS_RemoveElement
  <2>3. Cardinality(Q \ {p}) # 0 /\ Cardinality(Q \ {p}) \in Nat
    BY <2>2, FS_EmptySet, FS_CardinalityType
  <2> QED BY <2>1, <2>3
<1>11. Cardinality(M) > 0
  <2>1. Cardinality(M) # 0 /\ Cardinality(M) \in Nat
    BY <1>9, FS_EmptySet, FS_CardinalityType
  <2> QED BY <2>1
<1> QED BY <1>10, <1>11, QueuedTasks DEF ExactFor

\* A push that found nothing goes on.
LEMMA PushFailedHandled ==
  ASSUME RtInv, AllHandled, NEW e \in CPUs, NEW d \in CPUs, op[e] \in PushOps \cup PushLocks,
         NEW p \in Tasks, PushFailed(e, p), prio' = prio, curr' = curr
  PROVE  Handled(d)'
<1> DEFINE c == op[e].rq
           firsts == First(rq[c].pushable)
<1>1. /\ FlagTypes /\ Handled(e) /\ Handled(d)
      /\ op[e] # NoOp /\ OwnOp(op[e], e) /\ c = e
  BY DEF AllHandled, Handled, OwnOp, PushOps, PushLocks, NoOp
<1>2. CASE rq' = [rq EXCEPT ![c].pushable = @ \ {p}] /\ PushReturns(e, 1, {})
  <2>1. d # e => rq'[d] = rq[d]
    BY <1>1, <1>2 DEF RtInv, RtTypes
  <2> QED BY <1>1, <1>2, <2>1, PushReturnsHandled
<1>3. CASE UNCHANGED rq /\ PushReturns(e, 1, {})
  BY <1>1, <1>3, PushReturnsHandled
<1>4. ASSUME NEW t \in firsts \ {p},
             op' = [op EXCEPT ![e] = [Push(c, op[e].then) EXCEPT !.p = t]],
             UNCHANGED <<rq, need_resched, post_sched>>
      PROVE  Handled(d)'
  <2>1. /\ op'[e].op = "push" /\ op'[e].rq = c /\ op'[e].then = op[e].then
        /\ \A x \in CPUs \ {e} : op'[x] = op[x]
    BY <1>4 DEF Push, RtInv, OpTypes
  <2>2. op'[e] # NoOp /\ OwnOp(op'[e], e)
    BY <1>1, <2>1 DEF NoOp, OwnOp
  <2> QED BY <1>1, <1>4, <2>1, <2>2, OthersHandled, GoesOnHandled
<1> QED BY <1>2, <1>3, <1>4 DEF PushFailed

\* So does one that goes for the locks.
LEMMA LockLowestHandled ==
  ASSUME RtInv, AllHandled, NEW e \in CPUs, NEW d \in CPUs, op[e] \in PushOps \cup PushLocks,
         NEW p \in Tasks, NEW n \in Nat, LockLowest(e, p, n), prio' = prio, curr' = curr
  PROVE  Handled(d)'
<1>1. FlagTypes /\ Handled(d) /\ op[e] # NoOp /\ OwnOp(op[e], e)
  BY DEF AllHandled, Handled, OwnOp, PushOps, PushLocks, NoOp
<1>2. CASE PushFailed(e, p)
  BY <1>2, PushFailedHandled
<1>3. ASSUME NEW x, op' = [op EXCEPT ![e] = [op |-> "push_lock", rq |-> op[e].rq, p |-> p, cpu |-> x,
                                            tries |-> n, then |-> op[e].then]],
             UNCHANGED <<task_cpu, rq, need_resched, post_sched>>
      PROVE  Handled(d)'
  <2>1. /\ op'[e].op = "push_lock" /\ op'[e].rq = op[e].rq /\ op'[e].then = op[e].then
        /\ \A y \in CPUs \ {e} : op'[y] = op[y]
    BY <1>3 DEF RtInv, OpTypes
  <2>2. op'[e] # NoOp /\ OwnOp(op'[e], e)
    BY <1>1, <2>1 DEF NoOp, OwnOp
  <2> QED BY <1>1, <1>3, <2>1, <2>2, OthersHandled, GoesOnHandled
<1> QED BY <1>2, <1>3 DEF LockLowest

\* push_rt_task() ends when nothing is left to push, or when the task it has preempts.
LEMMA PushHandled ==
  ASSUME RtInv, AllHandled, NEW e \in CPUs, NEW d \in CPUs, push_rt_task(e)
  PROVE  Handled(d)'
<1> DEFINE c == op[e].rq
           next == IF op[e].p # Other THEN {op[e].p}
                   ELSE IF rq[c].overloaded THEN First(rq[c].pushable) ELSE {}
<1>1. op[e] \in PushOps /\ prio' = prio /\ curr' = curr
  BY OpKinds DEF push_rt_task
<1>2. FlagTypes /\ Handled(e) /\ Handled(d) /\ c = e
  BY <1>1 DEF AllHandled, Handled, OwnOp, PushOps, NoOp
<1>3. next \in SUBSET Tasks
  <2>1. op[e].p \in Tasks \cup {Other}
    BY <1>1 DEF PushOps
  <2>2. rq[e].pushable \in SUBSET Tasks
    BY QueuedTasks
  <2> QED BY <1>2, <2>1, <2>2 DEF First
<1>4. \/ next = {} /\ PushReturns(e, 0, {}) /\ rq' = rq
      \/ PushReturns(e, 0, {c}) /\ rq' = rq
      \/ \E p \in Tasks : LockLowest(e, p, 1)
  BY <1>3 DEF push_rt_task
<1>5. CASE next = {} /\ PushReturns(e, 0, {}) /\ rq' = rq
  <2>1. rq[e].pushable = {} \/ need_resched[e]
    <3>1. rq[e].overloaded => rq[e].pushable = {}
      BY <1>2, <1>5, FirstExists, QueuedTasks DEF RtInv, RtTypes
    <3> QED BY <1>1, <3>1, LoneWaiter
  <2> QED BY <1>1, <1>2, <1>5, <2>1, PushReturnsHandled
<1>6. CASE PushReturns(e, 0, {c}) /\ rq' = rq
  BY <1>1, <1>2, <1>6, PushReturnsHandled
<1> QED BY <1>1, <1>4, <1>5, <1>6, LockLowestHandled

\* push_rt_task() with both locks: the CPU that gets the task will schedule.
LEMMA PushLockedHandled ==
  ASSUME RtInv, AllHandled, NEW e \in CPUs, NEW d \in CPUs, push_locked(e)
  PROVE  Handled(d)'
<1> DEFINE c == op[e].rq  p == op[e].p  to == op[e].cpu
<1>1. op[e] \in PushLocks /\ to # c /\ prio' = prio /\ curr' = curr
  BY OpKinds DEF push_locked
<1>2. /\ p \in Tasks /\ to \in CPUs /\ op[e].tries + 1 \in Nat
      /\ FlagTypes /\ Handled(e) /\ Handled(d) /\ c = e
  BY <1>1 DEF AllHandled, Handled, OwnOp, PushLocks, NoOp
<1>3. PushFailed(e, p) \/ (Migrate(p, c, to) /\ PushReturns(e, 1, {to})) \/ LockLowest(e, p, op[e].tries + 1)
  BY DEF push_locked
<1>4. CASE Migrate(p, c, to) /\ PushReturns(e, 1, {to})
  <2>1. d # e => rq'[d].pushable \subseteq rq[d].pushable \/ d \in {to}
    BY <1>1, <1>2, <1>4, MigrateQueues
  <2> QED BY <1>1, <1>2, <1>4, <2>1, PushReturnsHandled
<1> QED BY <1>1, <1>2, <1>3, <1>4, PushFailedHandled, LockLowestHandled

\* Only __schedule() pulls, and it picks afterwards.
LEMMA PullHandled ==
  ASSUME RtInv, RtInv', AllHandled, NEW e \in CPUs, NEW d \in CPUs, pull_rt_task(e)
  PROVE  Handled(d)'
<1> DEFINE c == op[e].rq  k == op[e].cpu
<1>1. op[e] \in PullOps /\ op[e] # NoOp /\ prio' = prio
  BY OpKinds DEF pull_rt_task, PullOps, NoOp
<1>2. FlagTypes /\ Handled(d) /\ OwnOp(op[e], e) /\ c = e /\ op[e].then.k = "schedule"
  BY <1>1 DEF AllHandled, Handled, OwnOp, PullOps, PullThens
<1>3. CASE k = NR_CPUS
  <2>1. Pick(e, rq[e])
    BY <1>2, <1>3 DEF pull_rt_task, PullReturns
  <2> QED BY <1>1, <1>2, <2>1, PickHandled, QueuedTasks
<1>4. CASE k # NR_CPUS
  <2>1. UNCHANGED <<rq, curr, need_resched, post_sched>>
    BY <1>4 DEF pull_rt_task
  <2>2. \/ op' = [op EXCEPT ![e] = [op[e] EXCEPT !.cpu = k + 1]]
        \/ op' = [op EXCEPT ![e] = [op[e] EXCEPT !.op = "pull_lock"]]
    BY <1>4 DEF pull_rt_task
  <2>3. /\ op'[e].op \in {"pull", "pull_lock"} /\ op'[e].rq = c /\ op'[e].then = op[e].then
        /\ \A x \in CPUs \ {e} : op'[x] = op[x]
    BY <1>1, <2>2 DEF RtInv, OpTypes, PullOps
  <2>4. op'[e] # NoOp /\ OwnOp(op'[e], e)
    BY <1>2, <2>3 DEF NoOp, OwnOp
  <2> QED BY <1>1, <1>2, <2>1, <2>3, <2>4, OthersHandled, GoesOnHandled
<1> QED BY <1>3, <1>4

\* A pull takes pushable tasks away, and brings them to a CPU that picks afterwards.
LEMMA PullLockedHandled ==
  ASSUME RtInv, AllHandled, NEW e \in CPUs, NEW d \in CPUs, pull_locked(e)
  PROVE  Handled(d)'
<1> DEFINE c == op[e].rq  k == op[e].cpu
<1>1. /\ op[e] \in PullOps /\ op[e].op = "pull_lock" /\ k \in CPUs \ {c}
      /\ UNCHANGED <<prio, curr, need_resched, post_sched>>
  BY OpKinds DEF pull_locked
<1>2. Handled(d) /\ OwnOp(op[e], e) /\ c = e
  BY <1>1 DEF AllHandled, Handled, OwnOp, NoOp
<1>3. /\ op'[e].op = "pull" /\ op'[e].rq = c /\ op'[e].then = op[e].then /\ op'[e] # NoOp
      /\ \A x \in CPUs \ {e} : op'[x] = op[x]
  BY <1>1 DEF pull_locked, RtInv, OpTypes, PullOps, NoOp
<1>4. CASE d = e
  <2>1. OwnOp(op'[e], e)
    BY <1>2, <1>3 DEF OwnOp
  <2> QED BY <1>1, <1>2, <1>3, <1>4, <2>1, GoesOnHandled
<1>5. CASE d # e
  <2>1. rq'[d].pushable \subseteq rq[d].pushable
    <3>1. rq' = rq \/ \E p \in Tasks : Migrate(p, k, c)
      <4>1. First(pick_rt_task(k, rq[k].queue, c)) \in SUBSET Tasks
        BY <1>1, QueuedTasks DEF First, pick_rt_task
      <4> QED BY <4>1 DEF pull_locked
    <3> QED BY <1>1, <1>2, <1>5, <3>1, MigrateQueues
  <2> QED BY <1>1, <1>2, <1>3, <1>5, <2>1, OthersHandled
<1> QED BY <1>4, <1>5

\* Steps that leave every pushable task where it is.
LEMMA SamePushableHandled ==
  ASSUME RtInv, AllHandled, NEW e \in CPUs, NEW d \in CPUs,
         post_schedule(e) \/ task_tick_rt(e) \/ \E p \in Tasks : try_to_wake_up(e, p)
  PROVE  Handled(d)'
<1>1. FlagTypes /\ Handled(d) /\ Handled(e)
  BY DEF AllHandled
<1>2. CASE post_schedule(e)
  <2>1. /\ UNCHANGED <<prio, rq, curr, need_resched, post_sched>>
        /\ op' = [op EXCEPT ![e] = Push(e, [k |-> "post"])]
    BY <1>1, <1>2 DEF post_schedule, Handled
  <2>2. /\ op'[e] = Push(e, [k |-> "post"]) /\ \A x \in CPUs \ {e} : op'[x] = op[x]
    BY <2>1 DEF RtInv, OpTypes
  <2>3. op'[e] # NoOp /\ OwnOp(op'[e], e)
    BY <2>2 DEF Push, NoOp, OwnOp
  <2> QED BY <1>1, <2>1, <2>2, <2>3, OthersHandled, GoesOnHandled
<1>3. CASE task_tick_rt(e)
  BY <1>1, <1>3, OthersHandled DEF task_tick_rt, Resched
<1>4. CASE \E p \in Tasks : try_to_wake_up(e, p)
  BY <1>1, <1>4, OthersHandled DEF try_to_wake_up
<1> QED BY <1>2, <1>3, <1>4

\* A task that wakes up where a higher one runs is pushed if others are not yet dealt with:
\* whatever else waits has a push coming.
LEMMA ActivateHandled ==
  ASSUME RtInv, RtInv', AllHandled, NEW c \in CPUs, NEW d \in CPUs, NEW p \in Tasks, ttwu_do_activate(c, p)
  PROVE  Handled(d)'
<1>1. /\ FlagTypes /\ Handled(d) /\ Handled(c) /\ op[c] = NoOp /\ task_cpu[p] = c /\ state[p] = "waking"
      /\ UNCHANGED <<prio, cpus_allowed, curr, post_sched>>
  BY DEF AllHandled, ttwu_do_activate, CanAct
<1>2. CASE ~rt_task(p)
  <2>1. UNCHANGED <<rq, need_resched, op>>
    BY <1>2 DEF ttwu_do_activate
  <2> QED BY <1>1, <2>1, OthersHandled
<1>3. CASE rt_task(p)
  <2> DEFINE s == enqueue_task_rt(rq[c], c, p, prio[p])
             o == IF task_woken_rt(c, p) THEN Push(c, [k |-> "woken"]) ELSE NoOp
  <2>1. /\ rq' = [rq EXCEPT ![c] = s]
        /\ need_resched' = [x \in CPUs |-> need_resched[x]
                              \/ x \in IF check_preempt_curr_rt(c, p) THEN {c} ELSE {}]
        /\ op' = [op EXCEPT ![c] = o]
    BY <1>3 DEF ttwu_do_activate, Resched, RtInv, RtTypes
  <2>2. /\ op'[c] = o /\ \A x \in CPUs \ {c} : op'[x] = op[x]
        /\ need_resched[d] => need_resched'[d]
        /\ prio[p] < PrioOf(curr[c]) => need_resched'[c]
    <3> HIDE DEF o
    <3> QED BY <2>1 DEF RtInv, OpTypes, check_preempt_curr_rt
  <2>3. rq'[c] = s /\ (d # c => rq'[d] = rq[d]) /\ rq[c] \in RtRq
    <3> HIDE DEF s
    <3> QED BY <2>1 DEF RtInv, RtTypes
  <2>4. s.pushable = IF p # curr[c] /\ migratable(p) THEN rq[c].pushable \cup {p} ELSE rq[c].pushable
    BY <2>3 DEF enqueue_task_rt, update_rt_migration, RtRq
  <2>5. CASE d # c
    BY <1>1, <2>2, <2>3, <2>5, OthersHandled
  <2>6. CASE d = c /\ o # NoOp
    <3>1. o = Push(c, [k |-> "woken"])
      BY <2>6
    <3>2. OwnOp(o, c)
      BY <3>1 DEF Push, OwnOp
    <3> QED BY <1>1, <2>2, <2>6, <3>2, GoesOnHandled
  <2>7. CASE d = c /\ o = NoOp
    <3>1. ~task_woken_rt(c, p)
      BY <2>7 DEF Push, NoOp
    <3>2. ASSUME rq'[c].pushable # {} PROVE need_resched'[c] \/ post_sched'[c]
      <4> SUFFICES ASSUME ~need_resched'[c], ~post_sched'[c] PROVE FALSE
        OBVIOUS
      <4>1. rq[c].pushable = {}
        BY <1>1, <2>2, <2>7 DEF Handled
      <4>2. p # curr[c] /\ migratable(p)
        BY <2>3, <2>4, <3>2, <4>1
      <4>3. ~(prio[p] < PrioOf(curr[c]))
        BY <2>2
      <4>4. /\ prio[p] \in 0 .. MAX_RT_PRIO /\ PrioOf(curr[c]) \in 0 .. MAX_RT_PRIO
            /\ prio[p] < MAX_RT_PRIO
        BY <1>3, QueuedTasks, RtAssumption DEF PrioOf, RtInv, RtTypes
      <4>5. rt_task(curr[c]) /\ PrioOf(curr[c]) <= prio[p]
        BY <4>3, <4>4, RtAssumption DEF rt_task
      <4>6. curr[c] # Other /\ PrioOf(curr[c]) = prio[curr[c]]
        BY <4>5, RtAssumption DEF rt_task, PrioOf
      <4> QED BY <3>1, <3>2, <4>2, <4>5, <4>6 DEF task_woken_rt
    <3> QED BY <1>1, <2>2, <2>7, <3>2 DEF Handled, rt_task, PrioOf
  <2> QED BY <2>5, <2>6, <2>7
<1> QED BY <1>2, <1>3

\* Without requests every CPU deals with the tasks that wait on it.
LEMMA HandledNext ==
  ASSUME RtInv, RtInv', HandledInv, PushPullNext
  PROVE  HandledInv'
<1>1. FlagTypes' /\ requests' \in {requests, requests + 1}
  BY FlagsKept DEF HandledInv
<1>2. ASSUME requests' = 0, NEW d \in CPUs PROVE Told(d)' /\ Handled(d)'
  <2>1. requests = 0 /\ AllHandled
    BY <1>1, <1>2 DEF HandledInv, FlagTypes, AllHandled
  <2>2. ~PulledLate(d)
    BY <2>1 DEF PulledLate, OnPull, AllHandled, Handled, OwnOp, NoOp
  <2>3. Told(d)'
    BY <2>1, <2>2, StepTold DEF AllHandled
  <2>4. PICK e \in CPUs : CpuStep(e)
    BY DEF PushPullNext
  <2>5. ~\E p \in Tasks, new \in 0 .. MAX_RT_PRIO : sched_setscheduler(e, p, new)
    BY <1>2, <2>1 DEF sched_setscheduler, Request
  <2>6. ~\E p \in Tasks, mask \in Masks : set_cpus_allowed_rt(e, p, mask)
    BY <1>2, <2>1 DEF set_cpus_allowed_rt, Request
  <2>7. FlagTypes /\ Handled(d)
    BY <2>1 DEF AllHandled
  <2> QED BY <2>1, <2>3, <2>4, <2>5, <2>6, <2>7, ScheduleHandled, PushHandled, PushLockedHandled, PullHandled,
             PullLockedHandled, SamePushableHandled, ActivateHandled DEF CpuStep
<1> QED BY <1>1, <1>2 DEF HandledInv

\* Nothing waits at first.
LEMMA HandledStart == PushPullInit => HandledInv
<1> SUFFICES ASSUME PushPullInit PROVE HandledInv
  OBVIOUS
<1>1. FlagTypes
  BY DEF PushPullInit, FlagTypes
<1>2. ASSUME NEW c \in CPUs PROVE Told(c) /\ Handled(c)
  <2>1. RtInv
    BY RtInitInv
  <2>2. rq[c].queue = {} /\ rq[c].pushable = {} /\ op[c] = NoOp /\ ~post_sched[c]
    BY <1>2 DEF PushPullInit
  <2>3. Told(c)
    BY <2>1, <2>2, ToldMeans DEF Outranked
  <2> QED BY <2>2, <2>3 DEF Handled
<1> QED BY <1>1, <1>2 DEF HandledInv

\* The step property EachTold is about.
ToldStep == \A c \in CPUs : ~Told(c)' => ~Told(c) \/ PulledLate(c)

\* Told depends on the state only.
LEMMA ToldStutter ==
  ASSUME UNCHANGED pushPullVars
  PROVE  \A c \in CPUs : Told(c)' = Told(c)
BY DEF pushPullVars, Told, OnPull, PrioOf, MinPrio, LeftToPush

\* No RT task that waits is forgotten, whatever the number of CPUs and tasks: a CPU always
\* knows of the highest task queued on it (Told), through every wake-up, push, pull and
\* change of class with locks dropped half way, except when prio_changed_rt() or
\* switched_from_rt() pulls for a task that no longer runs (PulledLate); and while nobody
\* changes a class, a priority or an affinity, a CPU that goes on with what it runs has
\* pushed away or given up every task another CPU could take.
THEOREM NothingIsForgotten == PushPullSpec => NothingForgotten
<1> DEFINE Inv == RtInv /\ HandledInv
<1>1. PushPullInit => Inv
  BY RtInitInv, HandledStart
<1>2. Inv /\ [PushPullNext]_pushPullVars => Inv'
  <2> SUFFICES ASSUME Inv, [PushPullNext]_pushPullVars PROVE Inv'
    OBVIOUS
  <2>1. RtInv'
    BY RtNextInv
  <2>2. CASE PushPullNext
    BY <2>1, <2>2, HandledNext
  <2>3. CASE UNCHANGED pushPullVars
    <3>1. FlagTypes' /\ requests' = requests
      BY <2>3 DEF pushPullVars, HandledInv, FlagTypes
    <3>2. \A c \in CPUs : Handled(c)' = Handled(c)
      BY <2>3 DEF pushPullVars, Handled, OwnOp, rt_task, PrioOf
    <3> QED BY <2>1, <2>3, <3>1, <3>2, ToldStutter DEF HandledInv
  <2> QED BY <2>2, <2>3
<1>3. Inv => WaitersHandled
  <2> SUFFICES ASSUME Inv, requests = 0, NEW c \in CPUs, Settled(c), ~post_sched[c], rq[c].pushable # {}
               PROVE  FALSE
    BY DEF WaitersHandled
  <2>1. op[c] # NoOp /\ OwnOp(op[c], c)
    BY DEF HandledInv, Handled, Settled
  <2> QED BY <2>1 DEF Settled, OwnOp
<1>4. Inv /\ Inv' /\ [PushPullNext]_pushPullVars => [ToldStep]_pushPullVars
  <2> SUFFICES ASSUME Inv, Inv', PushPullNext PROVE ToldStep
    OBVIOUS
  <2> QED BY StepTold DEF ToldStep
<1> HIDE DEF Inv
<1>5. PushPullSpec => []WaitersHandled
  BY <1>1, <1>2, <1>3, PTL DEF PushPullSpec
<1>6. PushPullSpec => [][ToldStep]_pushPullVars
  BY <1>1, <1>2, <1>4, PTL DEF PushPullSpec
<1>7. PushPullSpec => EachTold
  BY <1>6 DEF EachTold, ToldStep
<1> QED BY <1>5, <1>7 DEF NothingForgotten

-----------------------------------------------------------------------------
(* Affinity *)

AffinitySpec == AffinityInit /\ [][AffinityNext]_affinityVars

PlacedTasks ==
  [allowed : SUBSET CpuIds, cpu : CpuIds, on : {"queued", "asleep", "waking"}, sleeps : Int, missed : BOOLEAN]

AffinityTypes ==
  /\ task \in PlacedTasks
  /\ cpuset \in [mask : (SUBSET CpuIds) \ {{}}, apply : BOOLEAN, updates : Int]
  /\ setter \in [Setters -> [at : {"none", "set", "check"}, mask : SUBSET CpuIds, calls : Int]]
  /\ \A s \in stoppers : s.dest \in CpuIds

\* Where the task waits to be queued it is allowed, or its mask changed meanwhile.
WakingWhereAllowed == task.on = "waking" /\ ~task.missed => task.cpu \in task.allowed

\* A mask outside the cpuset is seen by the caller that set it, who looks again, or will be
\* replaced: by the cpuset's update, or by a caller that has a mask to set.
MaskWatched ==
  \/ task.allowed \subseteq cpuset.mask
  \/ cpuset.apply
  \/ \E s \in Setters : \/ setter[s].at = "check" /\ setter[s].mask = task.allowed
                        \/ setter[s].at = "set" /\ setter[s].mask # {}

AffinityInv == AffinityTypes /\ WakingWhereAllowed /\ QueuedWhereAllowed /\ MaskWatched

LEMMA AffinityStart == AffinityInit => AffinityInv
<1> SUFFICES ASSUME AffinityInit PROVE AffinityInv
  OBVIOUS
<1>1. PICK c \in CpuIds : task = [allowed |-> CpuIds, cpu |-> c, on |-> "queued", sleeps |-> 0, missed |-> FALSE]
  BY DEF AffinityInit
<1> QED BY <1>1 DEF AffinityInit, AffinityInv, AffinityTypes, PlacedTasks, WakingWhereAllowed,
         QueuedWhereAllowed, MaskWatched

\* set_cpus_allowed_ptr(), whoever calls it: the task is allowed where it is, or a stopper
\* comes for it.
LEMMA AffinitySetKeeps ==
  ASSUME AffinityInv, NEW who, NEW mask \in SUBSET CpuIds, set_cpus_allowed_ptr(who, mask)
  PROVE  /\ task' \in PlacedTasks
         /\ \A s \in stoppers' : s.dest \in CpuIds
         /\ WakingWhereAllowed' /\ QueuedWhereAllowed'
         /\ task'.allowed = IF mask = {} THEN task.allowed ELSE mask
<1> USE DEF AffinityInv, AffinityTypes, WakingWhereAllowed, QueuedWhereAllowed
<1>1. CASE task.allowed = mask \/ mask = {}
  BY <1>1 DEF set_cpus_allowed_ptr
<1>2. CASE ~(task.allowed = mask \/ mask = {})
  <2> DEFINE missed == task.on = "waking" /\ task.cpu \notin mask
  <2>1. task' = [task EXCEPT !.allowed = mask, !.missed = missed]
    BY <1>2 DEF set_cpus_allowed_ptr
  <2>2. missed \in BOOLEAN
    OBVIOUS
  <2> HIDE DEF missed
  <2>3. task' = [allowed |-> mask, cpu |-> task.cpu, on |-> task.on, sleeps |-> task.sleeps, missed |-> missed]
    BY <2>1 DEF PlacedTasks
  <2>4. task' \in PlacedTasks
    BY <2>2, <2>3 DEF PlacedTasks
  <2>5. task'.allowed = mask /\ task'.cpu = task.cpu /\ task'.on = task.on /\ task'.missed = missed
    BY <2>3
  <2>6. WakingWhereAllowed'
    BY <2>5 DEF missed
  <2>7. CASE task.cpu \in mask \/ task.on # "queued"
    <3>1. UNCHANGED stoppers
      BY <1>2, <2>7 DEF set_cpus_allowed_ptr
    <3> QED BY <1>2, <2>4, <2>5, <2>6, <2>7, <3>1
  <2>8. CASE ~(task.cpu \in mask \/ task.on # "queued")
    <3>1. PICK dest \in mask : stoppers' = stoppers \cup {[src |-> task.cpu, dest |-> dest, who |-> who]}
      BY <1>2, <2>8 DEF set_cpus_allowed_ptr
    <3>2. \A s \in stoppers' : s.dest \in CpuIds
      BY <3>1
    <3> DEFINE stopper == [src |-> task.cpu, dest |-> dest, who |-> who]
    <3>3. stopper \in stoppers' /\ stopper.src = task.cpu /\ stopper.dest \in mask
      BY <3>1
    <3>4. QueuedWhereAllowed'
      BY <2>5, <3>3
    <3> QED BY <1>2, <2>4, <2>5, <2>6, <3>2, <3>4
  <2> QED BY <2>7, <2>8
<1> QED BY <1>1, <1>2

\* The cpuset's update.
LEMMA CpusetKeeps ==
  ASSUME AffinityInv, CpusetWrite \/ CpusetApply
  PROVE  AffinityInv'
<1>1. CASE CpusetWrite
  <2>1. PICK mask \in AllowedMasks :
          cpuset' = [mask |-> mask, apply |-> TRUE, updates |-> cpuset.updates + 1]
    BY <1>1 DEF CpusetWrite
  <2>2. mask \in SUBSET CpuIds /\ mask # {}
    BY AffinityAssumption
  <2>3. AffinityTypes'
    BY <1>1, <2>1, <2>2 DEF CpusetWrite, AffinityInv, AffinityTypes
  <2>4. MaskWatched'
    BY <2>1 DEF MaskWatched
  <2> QED BY <1>1, <2>3, <2>4 DEF CpusetWrite, AffinityInv, WakingWhereAllowed, QueuedWhereAllowed
<1>2. CASE CpusetApply
  <2>1. cpuset.mask \in SUBSET CpuIds /\ cpuset.mask # {}
    BY DEF AffinityInv, AffinityTypes
  <2>2. set_cpus_allowed_ptr(Updater, cpuset.mask)
    BY <1>2 DEF CpusetApply
  <2>3. task'.allowed = cpuset.mask /\ cpuset'.mask = cpuset.mask /\ UNCHANGED setter
    BY <1>2, <2>1, <2>2, AffinitySetKeeps DEF CpusetApply, AffinityInv, AffinityTypes
  <2>4. MaskWatched'
    BY <2>3 DEF MaskWatched
  <2>5. AffinityTypes'
    BY <1>2, <2>1, <2>2, AffinitySetKeeps DEF CpusetApply, AffinityInv, AffinityTypes
  <2> QED BY <2>1, <2>2, <2>4, <2>5, AffinitySetKeeps DEF AffinityInv
<1> QED BY <1>1, <1>2

\* sched_setaffinity(): a caller that sets a mask goes on to look again.
LEMMA SetterKeeps ==
  ASSUME AffinityInv,
         NEW s \in Setters, sched_setaffinity(s)
  PROVE  AffinityInv'
<1>1. CASE /\ setter[s].at = "none"
           /\ \E in_mask \in AllowedMasks :
                setter' = [setter EXCEPT ![s] = [at |-> "set", mask |-> in_mask \cap cpuset.mask, calls |-> @.calls + 1]]
           /\ UNCHANGED <<task, cpuset, stoppers>>
  BY <1>1, AffinityAssumption DEF AffinityInv, AffinityTypes, PlacedTasks, WakingWhereAllowed,
         QueuedWhereAllowed, MaskWatched
<1>2. CASE /\ setter[s].at = "set"
           /\ set_cpus_allowed_ptr(s, setter[s].mask)
           /\ IF Fits(setter[s].mask) THEN Goes(s, "check", setter[s].mask) ELSE Goes(s, "none", {})
           /\ UNCHANGED cpuset
  <2> DEFINE m == setter[s].mask
  <2>1. m \in SUBSET CpuIds /\ set_cpus_allowed_ptr(s, m)
    BY <1>2 DEF AffinityInv, AffinityTypes
  <2>2. task'.allowed = IF m = {} THEN task.allowed ELSE m
    BY <2>1, AffinitySetKeeps
  <2>3. AffinityTypes'
    BY <1>2, <2>1, AffinitySetKeeps DEF Goes, AffinityInv, AffinityTypes
  <2>4. MaskWatched'
    <3>1. CASE m # {}
      <4>1. Goes(s, "check", m)
        BY <1>2, <3>1 DEF Fits
      <4>2. setter'[s].at = "check" /\ setter'[s].mask = task'.allowed
        BY <2>2, <3>1, <4>1 DEF Goes, AffinityInv, AffinityTypes
      <4> QED BY <4>2 DEF MaskWatched
    <3>2. CASE m = {}
      <4>1. task'.allowed = task.allowed
        BY <2>2, <3>2
      <4>2. \A r \in Setters \ {s} : setter'[r] = setter[r]
        BY <1>2 DEF Goes, AffinityInv, AffinityTypes
      <4>3. task.allowed = {} => task'.allowed \subseteq cpuset'.mask
        BY <4>1
      <4>4. ~(setter[s].at = "check") /\ ~(setter[s].at = "set" /\ setter[s].mask # {})
        BY <1>2, <3>2
      <4> QED BY <1>2, <4>1, <4>2, <4>3, <4>4 DEF MaskWatched, AffinityInv
    <3> QED BY <3>1, <3>2
  <2> QED BY <2>1, <2>3, <2>4, AffinitySetKeeps DEF AffinityInv
<1>3. CASE Again(s)
  <2>1. setter[s].at = "check" /\ UNCHANGED <<task, cpuset, stoppers>>
    BY <1>3 DEF Again
  <2>2. CASE setter[s].mask \subseteq cpuset.mask
    <3>1. setter' = [setter EXCEPT ![s].at = "none", ![s].mask = {}]
      BY <1>3, <2>2 DEF Again, Goes
    <3>2. /\ setter' \in [Setters -> [at : {"none", "set", "check"}, mask : SUBSET CpuIds, calls : Int]]
          /\ \A r \in Setters \ {s} : setter'[r] = setter[r]
      BY <3>1 DEF AffinityInv, AffinityTypes
    <3>3. MaskWatched'
      <4>1. setter[s].at = "check" /\ setter[s].mask = task.allowed => task.allowed \subseteq cpuset.mask
        BY <2>2
      <4> QED BY <2>1, <3>2, <4>1 DEF AffinityInv, MaskWatched
    <3> QED BY <2>1, <3>2, <3>3 DEF AffinityInv, AffinityTypes, WakingWhereAllowed, QueuedWhereAllowed
  <2>3. CASE ~(setter[s].mask \subseteq cpuset.mask)
    <3>1. setter' = [setter EXCEPT ![s].at = "set", ![s].mask = cpuset.mask]
      BY <1>3, <2>3 DEF Again, Goes
    <3>2. AffinityTypes' /\ setter'[s].at = "set" /\ setter'[s].mask # {}
      BY <2>1, <3>1 DEF AffinityInv, AffinityTypes
    <3> QED BY <2>1, <3>2 DEF AffinityInv, WakingWhereAllowed, QueuedWhereAllowed, MaskWatched
  <2> QED BY <2>2, <2>3
<1> QED BY <1>1, <1>2, <1>3 DEF sched_setaffinity

\* The task's moves, sleeps and wake-ups.
LEMMA MoveKeeps ==
  ASSUME AffinityInv,
         \/ sched_exec \/ (\E s \in stoppers : __migrate_task(s))
         \/ Sleeps \/ Wakes(FALSE) \/ Wakes(TRUE) \/ sched_ttwu_pending
  PROVE  AffinityInv'
<1> USE DEF AffinityInv, AffinityTypes, PlacedTasks, WakingWhereAllowed,
         QueuedWhereAllowed, MaskWatched
<1>1. CASE sched_exec
  <2>1. PICK dest \in task.allowed :
          stoppers' = stoppers \cup {[src |-> task.cpu, dest |-> dest, who |-> Exec]}
    BY <1>1 DEF sched_exec
  <2> QED BY <1>1, <2>1 DEF sched_exec
<1>2. ASSUME NEW s \in stoppers, __migrate_task(s) PROVE AffinityInv'
  <2>1. CASE task.cpu = s.src /\ s.dest \in task.allowed /\ task.on = "queued"
    <3>1. task' = [task EXCEPT !.cpu = s.dest, !.missed = FALSE]
      BY <1>2, <2>1 DEF __migrate_task
    <3> QED BY <1>2, <2>1, <3>1 DEF __migrate_task
  <2>2. CASE ~(task.cpu = s.src /\ s.dest \in task.allowed /\ task.on = "queued")
    BY <1>2, <2>2 DEF __migrate_task
  <2> QED BY <2>1, <2>2
<1>3. CASE Sleeps
  <2>1. task' = [allowed |-> task.allowed, cpu |-> task.cpu, on |-> "asleep", sleeps |-> task.sleeps + 1,
                 missed |-> task.missed]
    BY <1>3 DEF Sleeps
  <2> QED BY <1>3, <2>1 DEF Sleeps
<1>4. ASSUME NEW remote \in BOOLEAN, Wakes(remote) PROVE AffinityInv'
  <2>1. PICK dest \in task.allowed, on \in {"waking", "queued"} :
          task' = [task EXCEPT !.cpu = dest, !.on = on, !.missed = FALSE]
    BY <1>4, Zenon DEF Wakes
  <2>2. /\ task'.allowed = task.allowed /\ task'.cpu = dest /\ dest \in CpuIds
        /\ task'.on \in {"waking", "queued"} /\ task'.missed = FALSE /\ task'.sleeps = task.sleeps
    BY <2>1
  <2>3. task' \in PlacedTasks
    BY <2>1
  <2> QED BY <1>4, <2>2, <2>3 DEF Wakes
<1>5. CASE sched_ttwu_pending
  BY <1>5 DEF sched_ttwu_pending
<1> QED BY <1>1, <1>2, <1>3, <1>4, <1>5

\* Once every caller is done the task's mask is within its cpuset's, and a queued task is
\* where its mask says or about to be moved there (CpusetRespected), for any number of
\* callers, CPUs and masks: no mask that is asked for is empty.
THEOREM CpusetIsRespected == AffinitySpec => []CpusetRespected
<1>1. AffinityInv /\ [AffinityNext]_affinityVars => AffinityInv'
  <2> SUFFICES ASSUME AffinityInv, [AffinityNext]_affinityVars PROVE AffinityInv'
    OBVIOUS
  <2>1. CASE UNCHANGED affinityVars
    BY <2>1 DEF affinityVars, AffinityInv, AffinityTypes, PlacedTasks, WakingWhereAllowed,
         QueuedWhereAllowed, MaskWatched
  <2>2. CASE AffinityNext
    BY <2>2, CpusetKeeps, SetterKeeps, MoveKeeps DEF AffinityNext
  <2> QED BY <2>1, <2>2
<1>2. AffinityInv => CpusetRespected
  BY DEF AffinityInv, MaskWatched, CpusetRespected
<1> QED BY AffinityStart, <1>1, <1>2, PTL DEF AffinitySpec

=============================================================================
