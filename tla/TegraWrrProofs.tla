--------------------------- MODULE TegraWrrProofs --------------------------
(***************************************************************************)
(* WRR tasks on several CPUs (TegraWrr), for any number of tasks and CPUs: *)
(* every run list is exact, no task executes twice, no wake-up is lost and *)
(* nothing is left on a CPU that is down.                                  *)
(*                                                                         *)
(* Q is a set of queued tasks, r a run queue.  Weights are left out: a     *)
(* group may change while its tasks are queued, and total_weight drifts.   *)
(***************************************************************************)
EXTENDS TegraWrr, DataProofs, FiniteSetTheorems, WellFoundedInduction

Queued(c) == {p \in Tasks : on_rq[p] /\ task_cpu[p] = c}
Of(Q, cl) == {p \in Q : sched_class[p] = cl}
RunQueues == [wrr : [queue : Seq(Tasks), total_weight : Int, wrr_nr_running : Nat], nr_running : Nat]

\* The run queue r holds and counts exactly the tasks of Q.
ExactFor(r, Q) ==
  /\ r \in RunQueues
  /\ Lists(r.wrr.queue, Of(Q, "wrr")) /\ r.wrr.wrr_nr_running = Len(r.wrr.queue)
  /\ r.nr_running = Cardinality(Of(Q, "fair")) + 2 * Cardinality(Of(Q, "wrr"))

Queues == \A c \in CPUs : ExactFor(rq[c], Queued(c))

TaskTypes ==
  /\ state \in [Tasks -> {"running", "sleeping", "waking"}]
  /\ on_rq \in [Tasks -> BOOLEAN] /\ on_cpu \in [Tasks -> BOOLEAN]
  /\ task_cpu \in [Tasks -> CPUs] /\ cpus_allowed \in [Tasks -> SUBSET CPUs]
  /\ sched_class \in [Tasks -> {"fair", "wrr"}]
  /\ group \in [Tasks -> Groups] /\ weight \in [Tasks -> {1, 10}]
  /\ changing \subseteq Tasks /\ moving \subseteq Tasks

CpuTypes ==
  /\ rq \in [CPUs -> RunQueues] /\ curr \in [CPUs -> Tasks \cup {Idle, Stopper}]
  /\ need_resched \in [CPUs -> BOOLEAN] /\ ipi \in [CPUs -> BOOLEAN]
  /\ wake_list \in [CPUs -> Seq(Tasks)] /\ stop_works \in [CPUs -> Seq(Works)]
  /\ busy \in [CPUs -> Ops]

HotTypes ==
  /\ cpu_online \subseteq CPUs /\ cpu_active \subseteq CPUs
  /\ hot \in [phase : {"none", "prepare", "stop", "dying", "starting"}, c : CPUs]

\* A running task is queued where it runs; one that is being switched out is still there.
Running ==
  \A c \in CPUs :
    /\ curr[c] \in Tasks => on_cpu[curr[c]] /\ on_rq[curr[c]] /\ task_cpu[curr[c]] = c
    /\ busy[c].op = "switch" /\ busy[c].p \in Tasks =>
         on_cpu[busy[c].p] /\ task_cpu[busy[c].p] = c /\ curr[c] # busy[c].p

WakeOps == {"remote", "spin", "select"}

\* p->pi_lock is held by one wake-up, which knows how far the task has gone to sleep.
Wakers ==
  /\ \A c, d \in CPUs : busy[c].op \in WakeOps /\ busy[d].op \in WakeOps /\ busy[c].p = busy[d].p => c = d
  /\ \A c \in CPUs :
       /\ busy[c].op = "remote" => state[busy[c].p] # "waking"
       /\ busy[c].op = "spin" => state[busy[c].p] = "sleeping" /\ ~on_rq[busy[c].p]
       /\ busy[c].op = "select" =>
            state[busy[c].p] = "waking" /\ \A d \in CPUs : busy[c].p \notin Linked(wake_list[d])

\* A task is listed once, and only while it is woken, on the CPU it was placed on.
WakeLists ==
  \A c \in CPUs :
    /\ Lists(wake_list[c], Linked(wake_list[c]))
    /\ \A p \in Linked(wake_list[c]) : state[p] = "waking" /\ task_cpu[p] = c
    /\ wake_list[c] # << >> => ipi[c]

States ==
  \A p \in Tasks :
    /\ state[p] = "running" => on_rq[p]
    /\ state[p] = "waking" =>
         /\ ~on_rq[p] /\ ~on_cpu[p]
         /\ p \in Linked(wake_list[task_cpu[p]]) \/ \E c \in CPUs : busy[c].op = "select" /\ busy[c].p = p

\* A CPU that is going down: from the end of stop_machine() on nothing happens elsewhere.
StopperDue(c) == \E i \in DOMAIN stop_works[c] : stop_works[c][i].op = "stop_machine"
GoingDown ==
  /\ 0 \in cpu_active
  /\ hot.phase # "none" => hot.c \in HotCpus
  /\ hot.phase \in {"prepare", "stop"} => hot.c \in cpu_online
  /\ hot.phase = "stop" => \A c \in cpu_online : StopperDue(c)
  /\ hot.phase = "dying" =>
       /\ curr[hot.c] = Stopper /\ wake_list[hot.c] = << >>
       /\ \A c \in CPUs : busy[c] = NoOp
       /\ \A c \in cpu_online : stop_works[c] # << >>
  /\ \A c \in CPUs \ cpu_online : busy[c] = NoOp

Down == CPUs \ (cpu_online \cup cpu_active)
DownEmpty ==
  \A c \in Down : hot = [phase |-> "dying", c |-> c] \/ (wake_list[c] = << >> /\ Queued(c) = {})

IInv ==
  /\ TaskTypes /\ CpuTypes /\ HotTypes
  /\ Queues /\ Running /\ Wakers /\ WakeLists /\ States /\ GoingDown /\ DownEmpty

-----------------------------------------------------------------------------
(* Numbers, sets and lists *)

LEMMA CpuNumbers ==
  /\ CPUs \in SUBSET Nat /\ 0 \in CPUs /\ NR_CPUS \in Nat
  /\ \A c \in CPUs : c < NR_CPUS
BY TegraAssumption DEF CPUs

\* The first of a set of CPUs, or of the places in a list.
LEMMA FirstOfIn == ASSUME NEW S \in SUBSET Nat, S # {} PROVE FirstOf(S) \in S
<1>1. \E m \in S : \A i \in S : m <= i
  BY LeastOfNats
<1> QED BY <1>1 DEF FirstOf

LEMMA TaskSets ==
  ASSUME NEW Q \in SUBSET Tasks
  PROVE  IsFiniteSet(Q) /\ Cardinality(Q) \in Nat
BY TegraAssumption, FS_Subset, FS_CardinalityType

\* A list is as long as it has entries.
LEMMA ListLength ==
  ASSUME NEW S, NEW q, Lists(q, S)
  PROVE  Len(q) = Cardinality(S) /\ IsFiniteSet(S)
<1>1. q \in Seq(S) /\ Len(q) \in Nat /\ DOMAIN q = 1 .. Len(q)
  BY DEF Lists
<1>2. q \in [1 .. Len(q) -> S]
  BY <1>1
<1>3. q \in Bijection(1 .. Len(q), S)
  BY <1>2 DEF Lists, Bijection, Injection, Surjection, IsInjective
<1>4. ExistsBijection(1 .. Len(q), S)
  BY <1>3 DEF ExistsBijection
<1> QED BY <1>1, <1>4, FS_CountingElements, FS_NatBijection

-----------------------------------------------------------------------------
(* Queuing one task *)

LEMMA OfTypes ==
  ASSUME NEW Q \in SUBSET Tasks
  PROVE  \A cl : /\ Of(Q, cl) \in SUBSET Tasks /\ IsFiniteSet(Of(Q, cl)) /\ Cardinality(Of(Q, cl)) \in Nat
BY TaskSets DEF Of

LEMMA OfAdd ==
  ASSUME TaskTypes, NEW Q \in SUBSET Tasks, NEW p \in Tasks \ Q
  PROVE  /\ sched_class[p] = "wrr" =>
              /\ Of(Q \cup {p}, "wrr") = Of(Q, "wrr") \cup {p} /\ Of(Q \cup {p}, "fair") = Of(Q, "fair")
              /\ Cardinality(Of(Q \cup {p}, "wrr")) = Cardinality(Of(Q, "wrr")) + 1
         /\ sched_class[p] # "wrr" =>
              /\ Of(Q \cup {p}, "fair") = Of(Q, "fair") \cup {p} /\ Of(Q \cup {p}, "wrr") = Of(Q, "wrr")
              /\ Cardinality(Of(Q \cup {p}, "fair")) = Cardinality(Of(Q, "fair")) + 1
         /\ \A cl : p \notin Of(Q, cl)
<1>1. sched_class[p] \in {"fair", "wrr"} /\ \A cl : p \notin Of(Q, cl)
  BY DEF TaskTypes, Of
<1>2. CASE sched_class[p] = "wrr"
  <2>1. Of(Q \cup {p}, "wrr") = Of(Q, "wrr") \cup {p} /\ Of(Q \cup {p}, "fair") = Of(Q, "fair")
    BY <1>2 DEF Of
  <2>2. Cardinality(Of(Q, "wrr") \cup {p}) = Cardinality(Of(Q, "wrr")) + 1
    BY <1>1, OfTypes, FS_AddElement
  <2> QED BY <1>1, <1>2, <2>1, <2>2
<1>3. CASE sched_class[p] = "fair"
  <2>1. Of(Q \cup {p}, "fair") = Of(Q, "fair") \cup {p} /\ Of(Q \cup {p}, "wrr") = Of(Q, "wrr")
    BY <1>3 DEF Of
  <2>2. Cardinality(Of(Q, "fair") \cup {p}) = Cardinality(Of(Q, "fair")) + 1
    BY <1>1, OfTypes, FS_AddElement
  <2> QED BY <1>1, <1>3, <2>1, <2>2
<1> QED BY <1>1, <1>2, <1>3

LEMMA OfRemove ==
  ASSUME TaskTypes, NEW Q \in SUBSET Tasks, NEW p \in Q
  PROVE  /\ sched_class[p] = "wrr" =>
              /\ p \in Of(Q, "wrr") /\ Of(Q \ {p}, "wrr") = Of(Q, "wrr") \ {p}
              /\ Of(Q \ {p}, "fair") = Of(Q, "fair")
              /\ Cardinality(Of(Q \ {p}, "wrr")) = Cardinality(Of(Q, "wrr")) - 1
         /\ sched_class[p] # "wrr" =>
              /\ Of(Q \ {p}, "fair") = Of(Q, "fair") \ {p} /\ Of(Q \ {p}, "wrr") = Of(Q, "wrr")
              /\ Cardinality(Of(Q \ {p}, "fair")) = Cardinality(Of(Q, "fair")) - 1
<1>1. sched_class[p] \in {"fair", "wrr"}
  BY DEF TaskTypes
<1>2. CASE sched_class[p] = "wrr"
  <2>1. /\ p \in Of(Q, "wrr") /\ Of(Q \ {p}, "wrr") = Of(Q, "wrr") \ {p}
        /\ Of(Q \ {p}, "fair") = Of(Q, "fair")
    BY <1>2 DEF Of
  <2>2. Cardinality(Of(Q, "wrr") \ {p}) = Cardinality(Of(Q, "wrr")) - 1
    BY <2>1, OfTypes, FS_RemoveElement
  <2> QED BY <1>2, <2>1, <2>2
<1>3. CASE sched_class[p] = "fair"
  <2>1. p \in Of(Q, "fair") /\ Of(Q \ {p}, "fair") = Of(Q, "fair") \ {p} /\ Of(Q \ {p}, "wrr") = Of(Q, "wrr")
    BY <1>3 DEF Of
  <2>2. Cardinality(Of(Q, "fair") \ {p}) = Cardinality(Of(Q, "fair")) - 1
    BY <2>1, OfTypes, FS_RemoveElement
  <2> QED BY <1>3, <2>1, <2>2
<1> QED BY <1>1, <1>2, <1>3

\* What an exact run queue is made of.
LEMMA ExactParts ==
  ASSUME NEW Q \in SUBSET Tasks, NEW r, ExactFor(r, Q)
  PROVE  /\ r.wrr.queue \in Seq(Tasks) /\ r.wrr.total_weight \in Int /\ r.wrr.wrr_nr_running \in Nat
         /\ r.nr_running \in Nat /\ Len(r.wrr.queue) \in Nat
BY DEF ExactFor, RunQueues

\* activate_task() of a task that is not queued.
LEMMA Activate ==
  ASSUME TaskTypes, NEW Q \in SUBSET Tasks, NEW r, ExactFor(r, Q), NEW p \in Tasks \ Q
  PROVE  ExactFor(activate_task(r, p), Q \cup {p})
<1> DEFINE a == activate_task(r, p)
<1>1. WeightOf(group[p]) \in Int /\ sched_class[p] \in {"fair", "wrr"}
  BY DEF WeightOf, TaskTypes
<1>2. CASE sched_class[p] = "wrr"
  <2> DEFINE q == Append(r.wrr.queue, p)
  <2>1. Lists(q, Of(Q, "wrr") \cup {p}) /\ Len(q) = Len(r.wrr.queue) + 1
    <3>1. Lists(r.wrr.queue, Of(Q, "wrr")) /\ p \notin Of(Q, "wrr")
      BY OfAdd DEF ExactFor
    <3> QED BY <3>1, ListAddTail
  <2>2. a = [wrr |-> [queue |-> q, total_weight |-> r.wrr.total_weight + WeightOf(group[p]),
                      wrr_nr_running |-> r.wrr.wrr_nr_running + 1], nr_running |-> r.nr_running + 2]
    BY <1>2 DEF activate_task, enqueue_wrr_entity, Counted
  <2>3. q \in Seq(Tasks)
    BY ExactParts
  <2> HIDE DEF q, a
  <2>4. a \in RunQueues
    <3>1. /\ r.wrr.total_weight + WeightOf(group[p]) \in Int /\ r.wrr.wrr_nr_running + 1 \in Nat
          /\ r.nr_running + 2 \in Nat
      BY <1>1, ExactParts
    <3> QED BY <2>2, <2>3, <3>1 DEF RunQueues
  <2>5. /\ a.wrr.queue = q /\ a.wrr.wrr_nr_running = r.wrr.wrr_nr_running + 1
        /\ a.nr_running = r.nr_running + 2
    BY <2>2
  <2>6. Lists(a.wrr.queue, Of(Q \cup {p}, "wrr")) /\ a.wrr.wrr_nr_running = Len(a.wrr.queue)
    BY <1>2, <2>1, <2>5, OfAdd DEF ExactFor
  <2>7. a.nr_running = Cardinality(Of(Q \cup {p}, "fair")) + 2 * Cardinality(Of(Q \cup {p}, "wrr"))
    <3>1. r.nr_running = Cardinality(Of(Q, "fair")) + 2 * Cardinality(Of(Q, "wrr"))
      BY DEF ExactFor
    <3>2. /\ Cardinality(Of(Q \cup {p}, "fair")) = Cardinality(Of(Q, "fair"))
          /\ Cardinality(Of(Q \cup {p}, "wrr")) = Cardinality(Of(Q, "wrr")) + 1
      BY <1>2, OfAdd
    <3>3. Cardinality(Of(Q, "fair")) \in Nat /\ Cardinality(Of(Q, "wrr")) \in Nat
      BY OfTypes
    <3> QED BY <2>5, <3>1, <3>2, <3>3
  <2> QED BY <2>4, <2>6, <2>7 DEF ExactFor, a
<1>3. CASE sched_class[p] = "fair"
  <2>1. a = [wrr |-> r.wrr, nr_running |-> r.nr_running + 1]
    BY <1>3 DEF activate_task, Counted
  <2> HIDE DEF a
  <2>2. a \in RunQueues /\ a.wrr = r.wrr /\ a.nr_running = r.nr_running + 1
    BY <2>1 DEF ExactFor, RunQueues
  <2>3. a.nr_running = Cardinality(Of(Q \cup {p}, "fair")) + 2 * Cardinality(Of(Q \cup {p}, "wrr"))
    <3>1. r.nr_running = Cardinality(Of(Q, "fair")) + 2 * Cardinality(Of(Q, "wrr"))
      BY DEF ExactFor
    <3>2. /\ Cardinality(Of(Q \cup {p}, "wrr")) = Cardinality(Of(Q, "wrr"))
          /\ Cardinality(Of(Q \cup {p}, "fair")) = Cardinality(Of(Q, "fair")) + 1
      BY <1>3, OfAdd
    <3>3. Cardinality(Of(Q, "fair")) \in Nat /\ Cardinality(Of(Q, "wrr")) \in Nat
      BY OfTypes
    <3> QED BY <2>2, <3>1, <3>2, <3>3
  <2>4. Lists(a.wrr.queue, Of(Q \cup {p}, "wrr")) /\ a.wrr.wrr_nr_running = Len(a.wrr.queue)
    BY <1>3, <2>2, OfAdd DEF ExactFor
  <2> QED BY <2>2, <2>3, <2>4 DEF ExactFor, a
<1> QED BY <1>1, <1>2, <1>3

\* deactivate_task() of a queued one.
LEMMA Deactivate ==
  ASSUME TaskTypes, NEW Q \in SUBSET Tasks, NEW r, ExactFor(r, Q), NEW p \in Q
  PROVE  ExactFor(deactivate_task(r, p), Q \ {p})
<1> DEFINE d == deactivate_task(r, p)
<1>1. weight[p] \in Int /\ sched_class[p] \in {"fair", "wrr"}
  BY DEF TaskTypes
<1>2. CASE sched_class[p] = "wrr"
  <2> DEFINE q == list_del(r.wrr.queue, p)
  <2>1. Lists(q, Of(Q, "wrr") \ {p}) /\ Len(q) = Len(r.wrr.queue) - 1
    <3>1. Lists(r.wrr.queue, Of(Q, "wrr")) /\ p \in Of(Q, "wrr")
      BY <1>2, OfRemove DEF ExactFor
    <3> QED BY <3>1, ListDel
  <2>2. d = [wrr |-> [queue |-> q, total_weight |-> r.wrr.total_weight - weight[p],
                      wrr_nr_running |-> r.wrr.wrr_nr_running - 1], nr_running |-> r.nr_running - 2]
    BY <1>2 DEF deactivate_task, dequeue_wrr_entity, Counted
  <2>3. q \in Seq(Tasks) /\ Len(q) \in Nat
    <3>1. q \in Seq(Of(Q, "wrr") \ {p}) /\ Of(Q, "wrr") \ {p} \subseteq Tasks
      BY <2>1, OfTypes DEF Lists
    <3> HIDE DEF q
    <3> QED BY <3>1
  <2> HIDE DEF q, d
  <2>4. /\ d.wrr.queue = q /\ d.wrr.wrr_nr_running = r.wrr.wrr_nr_running - 1
        /\ d.nr_running = r.nr_running - 2
    BY <2>2
  <2>5. Lists(d.wrr.queue, Of(Q \ {p}, "wrr")) /\ d.wrr.wrr_nr_running = Len(d.wrr.queue)
    BY <1>2, <2>1, <2>4, OfRemove DEF ExactFor
  <2>6. d.nr_running = Cardinality(Of(Q \ {p}, "fair")) + 2 * Cardinality(Of(Q \ {p}, "wrr"))
    <3>1. r.nr_running = Cardinality(Of(Q, "fair")) + 2 * Cardinality(Of(Q, "wrr"))
      BY DEF ExactFor
    <3>2. /\ Cardinality(Of(Q \ {p}, "fair")) = Cardinality(Of(Q, "fair"))
          /\ Cardinality(Of(Q \ {p}, "wrr")) = Cardinality(Of(Q, "wrr")) - 1
      BY <1>2, OfRemove
    <3>3. Cardinality(Of(Q, "fair")) \in Nat /\ Cardinality(Of(Q, "wrr")) \in Nat
      BY OfTypes
    <3> QED BY <2>4, <3>1, <3>2, <3>3
  <2>7. d \in RunQueues
    <3>1. Cardinality(Of(Q \ {p}, "fair")) \in Nat /\ Cardinality(Of(Q \ {p}, "wrr")) \in Nat
      BY OfTypes
    <3>2. d.nr_running \in Nat
      BY <2>6, <3>1
    <3>3. d.wrr.wrr_nr_running \in Nat /\ r.wrr.total_weight - weight[p] \in Int
      BY <1>1, <2>3, <2>4, <2>5, ExactParts
    <3> QED BY <2>2, <2>3, <3>2, <3>3 DEF RunQueues
  <2> QED BY <2>5, <2>6, <2>7 DEF ExactFor, d
<1>3. CASE sched_class[p] = "fair"
  <2>1. d = [wrr |-> r.wrr, nr_running |-> r.nr_running - 1]
    BY <1>3 DEF deactivate_task, Counted
  <2> HIDE DEF d
  <2>2. d.wrr = r.wrr /\ d.nr_running = r.nr_running - 1
    BY <2>1
  <2>3. d.nr_running = Cardinality(Of(Q \ {p}, "fair")) + 2 * Cardinality(Of(Q \ {p}, "wrr"))
    <3>1. r.nr_running = Cardinality(Of(Q, "fair")) + 2 * Cardinality(Of(Q, "wrr"))
      BY DEF ExactFor
    <3>2. /\ Cardinality(Of(Q \ {p}, "wrr")) = Cardinality(Of(Q, "wrr"))
          /\ Cardinality(Of(Q \ {p}, "fair")) = Cardinality(Of(Q, "fair")) - 1
      BY <1>3, OfRemove
    <3>3. Cardinality(Of(Q, "fair")) \in Nat /\ Cardinality(Of(Q, "wrr")) \in Nat
      BY OfTypes
    <3> QED BY <2>2, <3>1, <3>2, <3>3
  <2>4. Lists(d.wrr.queue, Of(Q \ {p}, "wrr")) /\ d.wrr.wrr_nr_running = Len(d.wrr.queue)
    BY <1>3, <2>2, OfRemove DEF ExactFor
  <2>5. d \in RunQueues
    <3>1. Cardinality(Of(Q \ {p}, "fair")) \in Nat /\ Cardinality(Of(Q \ {p}, "wrr")) \in Nat
      BY OfTypes
    <3>2. d.nr_running \in Nat
      BY <2>3, <3>1
    <3> QED BY <2>1, <3>2 DEF ExactFor, RunQueues
  <2> QED BY <2>3, <2>4, <2>5 DEF ExactFor, d
<1> QED BY <1>1, <1>2, <1>3

\* requeue_task_wrr() at the end of a slice.
LEMMA Requeue ==
  ASSUME TaskTypes, NEW Q \in SUBSET Tasks, NEW r, ExactFor(r, Q), NEW p \in Q, sched_class[p] = "wrr"
  PROVE  ExactFor([r EXCEPT !.wrr = requeue_task_wrr(r.wrr, p)], Q)
<1> DEFINE s == [r EXCEPT !.wrr = requeue_task_wrr(r.wrr, p)]
           d == list_del(r.wrr.queue, p)
           W == Of(Q, "wrr")
<1>1. p \in W /\ Lists(r.wrr.queue, W) /\ Len(r.wrr.queue) \in Nat /\ W \subseteq Tasks
  BY OfTypes, ExactParts DEF Of, ExactFor
<1>2. Lists(d, W \ {p}) /\ Len(d) = Len(r.wrr.queue) - 1
  BY <1>1, ListDel
<1> HIDE DEF d
<1>3. Lists(Append(d, p), (W \ {p}) \cup {p}) /\ Len(Append(d, p)) = Len(d) + 1
  BY <1>2, ListAddTail
<1>4. Lists(Append(d, p), W) /\ Len(Append(d, p)) = Len(r.wrr.queue)
  <2>1. (W \ {p}) \cup {p} = W
    BY <1>1
  <2>2. Lists(Append(d, p), W)
    BY <1>3, <2>1
  <2>3. Len(Append(d, p)) = Len(r.wrr.queue)
    BY <1>1, <1>2, <1>3
  <2> QED BY <2>2, <2>3
<1>5. Append(d, p) \in Seq(Tasks)
  <2>1. Append(d, p) \in Seq(W)
    BY <1>4 DEF Lists
  <2> QED BY <1>1, <2>1
<1> DEFINE q == Append(d, p)
<1>6. requeue_task_wrr(r.wrr, p) = [r.wrr EXCEPT !.queue = q]
  BY DEF requeue_task_wrr, d
<1> HIDE DEF q, W
<1>7. /\ s \in RunQueues /\ s.wrr.queue = q /\ s.wrr.wrr_nr_running = r.wrr.wrr_nr_running
      /\ s.nr_running = r.nr_running
  BY <1>5, <1>6 DEF ExactFor, RunQueues, q
<1> QED BY <1>4, <1>7 DEF ExactFor, q, W

-----------------------------------------------------------------------------
(* The loop of sched_ttwu_do_pending() *)

\* w holds the run queue r after each round.
IsLoop(w, q, r) == w = [i \in 0 .. Len(q) |-> IF i = 0 THEN r ELSE activate_task(w[i - 1], q[i])]

LEMMA LoopExists == ASSUME NEW q \in Seq(Tasks), NEW r PROVE \E w : IsLoop(w, q, r)
<1> DEFINE Loops(n) == \E w : w = [i \in 0 .. n |-> IF i = 0 THEN r ELSE activate_task(w[i - 1], q[i])]
           Bad == {n \in Nat : ~Loops(n)}
<1>1. ASSUME Bad # {} PROVE FALSE
  <2> HIDE DEF Loops
  <2>1. PICK m \in Bad : \A n \in Bad : m <= n
    BY <1>1, LeastOfNats
  <2>2. CASE m = 0
    <3> DEFINE w == [i \in 0 .. 0 |-> r]
    <3>1. w = [i \in 0 .. 0 |-> IF i = 0 THEN r ELSE activate_task(w[i - 1], q[i])]
      OBVIOUS
    <3> HIDE DEF w
    <3>2. Loops(0)
      BY <3>1 DEF Loops
    <3> QED BY <2>2, <3>2
  <2>3. CASE m # 0
    <3>1. m - 1 \in Nat /\ m - 1 < m /\ m \in Nat
      BY <2>3
    <3>2. Loops(m - 1)
      BY <2>1, <3>1
    <3>3. PICK v : v = [i \in 0 .. (m - 1) |-> IF i = 0 THEN r ELSE activate_task(v[i - 1], q[i])]
      BY <3>2 DEF Loops
    <3> DEFINE w == [i \in 0 .. m |-> IF i = m THEN activate_task(v[m - 1], q[m]) ELSE v[i]]
    <3>4. ASSUME NEW i \in 0 .. m
          PROVE  w[i] = IF i = 0 THEN r ELSE activate_task(w[i - 1], q[i])
      <4>1. CASE i = m
        <5>1. w[m - 1] = v[m - 1] /\ w[m] = activate_task(v[m - 1], q[m])
          BY <3>1
        <5> QED BY <2>3, <4>1, <5>1
      <4>2. CASE i # m
        <5>1. i \in 0 .. (m - 1) /\ w[i] = v[i]
          BY <3>1, <4>2
        <5>2. i # 0 => w[i - 1] = v[i - 1]
          BY <3>1, <5>1
        <5>3. v[i] = IF i = 0 THEN r ELSE activate_task(v[i - 1], q[i])
          BY <3>3, <5>1
        <5> QED BY <5>1, <5>2, <5>3
      <4> QED BY <4>1, <4>2
    <3>5. w = [i \in 0 .. m |-> w[i]]
      OBVIOUS
    <3> HIDE DEF w
    <3>6. w = [i \in 0 .. m |-> IF i = 0 THEN r ELSE activate_task(w[i - 1], q[i])]
      BY <3>4, <3>5
    <3>7. Loops(m)
      BY <3>6 DEF Loops
    <3> QED BY <3>7
  <2> QED BY <2>2, <2>3
<1>2. Len(q) \in Nat
  OBVIOUS
<1>3. Loops(Len(q))
  BY <1>1, <1>2
<1> QED BY <1>3 DEF IsLoop

\* The loop queues every task of a list of tasks that are not queued.
LEMMA Loop ==
  ASSUME TaskTypes, NEW Q \in SUBSET Tasks, NEW r, ExactFor(r, Q), NEW q \in Seq(Tasks),
         Lists(q, Linked(q)), Linked(q) \cap Q = {},
         NEW w, w = CHOOSE v : IsLoop(v, q, r)
  PROVE  ExactFor(w[Len(q)], Q \cup Linked(q))
<1>1. w = [i \in 0 .. Len(q) |-> IF i = 0 THEN r ELSE activate_task(w[i - 1], q[i])]
  <2>1. IsLoop(w, q, r)
    BY LoopExists
  <2> QED BY <2>1 DEF IsLoop
<1> DEFINE n == Len(q)
           First(i) == {q[j] : j \in 1 .. i}
           Bad == {i \in 0 .. n : ~ExactFor(w[i], Q \cup First(i))}
<1>2. n \in Nat /\ DOMAIN q = 1 .. n /\ \A i \in 1 .. n : q[i] \in Tasks
  OBVIOUS
<1>3. ASSUME Bad # {} PROVE FALSE
  <2>1. PICK m \in Bad : \A i \in Bad : m <= i
    <3>1. Bad \in SUBSET Nat
      BY <1>2
    <3> QED BY <1>3, <3>1, LeastOfNats
  <2>2. m \in 0 .. n
    OBVIOUS
  <2> HIDE DEF n
  <2>3. CASE m = 0
    <3>1. w[0] = r
      <4>1. 0 \in 0 .. Len(q)
        OBVIOUS
      <4> QED BY <1>1, <4>1
    <3>2. Q \cup First(0) = Q
      OBVIOUS
    <3> QED BY <2>1, <2>3, <3>1, <3>2
  <2>4. CASE m # 0
    <3>1. m - 1 \in 0 .. n /\ m \in 1 .. n /\ m - 1 < m
      BY <1>2, <2>2, <2>4
    <3>2. ExactFor(w[m - 1], Q \cup First(m - 1))
      <4>1. m - 1 \notin Bad
        <5>1. ~(m <= m - 1)
          BY <1>2, <2>2
        <5> HIDE DEF Bad
        <5> QED BY <2>1, <5>1
      <4> QED BY <3>1, <4>1
    <3>3. w[m] = activate_task(w[m - 1], q[m])
      BY <1>1, <2>4, <3>1 DEF n
    <3>4. q[m] \in Tasks \ (Q \cup First(m - 1)) /\ Q \cup First(m - 1) \in SUBSET Tasks
      <4>1. q[m] \in Tasks /\ q[m] \in Linked(q) /\ First(m - 1) \subseteq Tasks
        BY <1>2, <3>1 DEF Linked
      <4>2. \A j \in 1 .. m - 1 : q[j] # q[m]
        BY <1>2, <3>1 DEF Lists, n
      <4> QED BY <4>1, <4>2
    <3>5. First(m) = First(m - 1) \cup {q[m]}
      <4>1. 1 .. m = (1 .. m - 1) \cup {m}
        BY <1>2, <3>1
      <4> QED BY <4>1
    <3>6. (Q \cup First(m - 1)) \cup {q[m]} = Q \cup First(m)
      BY <3>5
    <3> HIDE DEF First
    <3>7. ExactFor(w[m], (Q \cup First(m - 1)) \cup {q[m]})
      BY <3>2, <3>3, <3>4, Activate
    <3> QED BY <3>6, <3>7
  <2> QED BY <2>3, <2>4
<1>4. n \in 0 .. n /\ First(n) = Linked(q)
  BY <1>2 DEF Linked
<1> QED BY <1>3, <1>4

-----------------------------------------------------------------------------
(* Parts of steps *)

LEMMA QueuedTasks ==
  ASSUME IInv, NEW c \in CPUs
  PROVE  Queued(c) \in SUBSET Tasks /\ ExactFor(rq[c], Queued(c)) /\ rq[c] \in RunQueues
BY DEF IInv, Queues, Queued, CpuTypes

\* Every CPU's queue after a step that changes no task's class.
LEMMA QueuesCarry ==
  ASSUME sched_class' = sched_class, \A c \in CPUs : ExactFor(rq'[c], Queued(c)')
  PROVE  Queues'
<1>1. \A Q, cl : {p \in Q : sched_class'[p] = cl} = Of(Q, cl)
  BY DEF Of
<1>2. ASSUME NEW c \in CPUs PROVE ExactFor(rq[c], Queued(c))'
  <2>1. ExactFor(rq'[c], Queued(c)')
    OBVIOUS
  <2> QED BY <2>1 DEF ExactFor, Of, RunQueues
<1> QED BY <1>2 DEF Queues

\* One queue changes.
LEMMA OneQueue ==
  ASSUME IInv, sched_class' = sched_class, NEW c \in CPUs, NEW r, rq' = [rq EXCEPT ![c] = r],
         ExactFor(r, Queued(c)'), \A d \in CPUs \ {c} : Queued(d)' = Queued(d)
  PROVE  Queues' /\ rq' \in [CPUs -> RunQueues]
<1>1. r \in RunQueues
  BY DEF ExactFor
<1>2. rq' \in [CPUs -> RunQueues] /\ rq'[c] = r /\ \A d \in CPUs \ {c} : rq'[d] = rq[d]
  BY <1>1 DEF IInv, CpuTypes
<1>3. \A d \in CPUs : ExactFor(rq'[d], Queued(d)')
  BY <1>2, QueuedTasks
<1> QED BY <1>2, <1>3, QueuesCarry

LEMMA QueuesKept ==
  ASSUME IInv, UNCHANGED <<rq, sched_class>>, \A c \in CPUs : Queued(c)' = Queued(c)
  PROVE  Queues'
BY QueuesCarry, QueuedTasks

\* check_preempt_curr() and what it does to the flag.
LEMMA ReschedType ==
  ASSUME CpuTypes, NEW c \in CPUs, NEW answers \in SUBSET BOOLEAN, Resched(c, answers)
  PROVE  need_resched' \in [CPUs -> BOOLEAN]
<1>1. PICK b \in BOOLEAN : need_resched' = [need_resched EXCEPT ![c] = need_resched[c] \/ b]
  BY DEF Resched
<1>2. (need_resched[c] \/ b) \in BOOLEAN
  OBVIOUS
<1> QED BY <1>1, <1>2 DEF CpuTypes

LEMMA PreemptAnswers == \A c, p : check_preempt_curr(c, p) \in SUBSET BOOLEAN
BY DEF check_preempt_curr

LEMMA WeighedType == ASSUME TaskTypes, NEW S PROVE Weighed(S) \in [Tasks -> {1, 10}]
BY DEF Weighed, WeightOf, TaskTypes

\* A queued task that does not run is moved.
LEMMA MoveTask ==
  ASSUME IInv, NEW src \in CPUs, NEW dst \in CPUs, NEW p \in Queued(src), Move(p, src, dst),
         UNCHANGED <<on_rq, sched_class>>
  PROVE  /\ Queues' /\ rq' \in [CPUs -> RunQueues] /\ weight' \in [Tasks -> {1, 10}]
         /\ need_resched' \in [CPUs -> BOOLEAN] /\ task_cpu' \in [Tasks -> CPUs]
         /\ p \in Tasks /\ \A t \in Tasks \ {p} : task_cpu'[t] = task_cpu[t]
         /\ \A c \in CPUs \ {dst} : Queued(c)' \subseteq Queued(c)
<1> DEFINE out == deactivate_task(rq[src], p)
           left == [rq EXCEPT ![src] = out]
           in == activate_task(left[dst], p)
<1>1. p \in Tasks /\ on_rq[p] /\ task_cpu[p] = src
  BY DEF Queued
<1>2. weight' \in [Tasks -> {1, 10}] /\ need_resched' \in [CPUs -> BOOLEAN]
  BY WeighedType, PreemptAnswers, ReschedType DEF Move, IInv
<1>3. /\ task_cpu' \in [Tasks -> CPUs] /\ task_cpu'[p] = dst
      /\ \A t \in Tasks \ {p} : task_cpu'[t] = task_cpu[t]
  BY <1>1 DEF Move, IInv, TaskTypes
<1>4. ExactFor(out, Queued(src) \ {p})
  BY QueuedTasks, Deactivate DEF IInv
<1>5. rq' = [left EXCEPT ![dst] = in]
  BY DEF Move
<1>6. left[src] = out /\ \A c \in CPUs \ {src} : left[c] = rq[c]
  BY DEF IInv, CpuTypes
<1>7. DOMAIN left = CPUs
  BY DEF IInv, CpuTypes
<1> HIDE DEF out, left
<1>8. ExactFor(in, (Queued(dst) \ {p}) \cup {p})
  <2>1. ExactFor(left[dst], Queued(dst) \ {p})
    <3>1. CASE dst = src
      BY <1>4, <1>6, <3>1
    <3>2. CASE dst # src
      <4>1. Queued(dst) \ {p} = Queued(dst)
        BY <1>1, <3>2 DEF Queued
      <4> QED BY <1>6, <3>2, <4>1, QueuedTasks
    <3> QED BY <3>1, <3>2
  <2>2. Queued(dst) \ {p} \in SUBSET Tasks /\ p \in Tasks \ (Queued(dst) \ {p})
    BY <1>1 DEF Queued
  <2> QED BY <2>1, <2>2, Activate DEF IInv
<1> HIDE DEF in
<1>9. /\ Queued(dst)' = (Queued(dst) \ {p}) \cup {p}
      /\ \A c \in CPUs \ {dst} : Queued(c)' = Queued(c) \ {p}
  BY <1>1, <1>3 DEF Queued
<1>10. /\ rq'[dst] = in /\ \A c \in CPUs \ {dst} : rq'[c] = left[c]
       /\ DOMAIN rq' = CPUs /\ rq' = [c \in CPUs |-> rq'[c]]
  BY <1>5, <1>7
<1>11. ASSUME NEW c \in CPUs PROVE ExactFor(rq'[c], Queued(c)')
  <2>1. CASE c = dst
    BY <1>8, <1>9, <1>10, <2>1
  <2>2. CASE c # dst /\ c = src
    BY <1>4, <1>6, <1>9, <1>10, <2>2
  <2>3. CASE c # dst /\ c # src
    <3>1. Queued(c) \ {p} = Queued(c)
      BY <1>1, <2>3 DEF Queued
    <3> QED BY <1>6, <1>9, <1>10, <2>3, <3>1, QueuedTasks
  <2> QED BY <2>1, <2>2, <2>3
<1>12. rq' \in [CPUs -> RunQueues]
  <2>1. \A c \in CPUs : rq'[c] \in RunQueues
    BY <1>11 DEF ExactFor
  <2> QED BY <1>10, <2>1
<1>13. Queues'
  BY <1>11, QueuesCarry
<1> QED BY <1>1, <1>2, <1>3, <1>9, <1>12, <1>13

LEMMA OpKinds ==
  ASSUME CpuTypes, NEW c \in CPUs
  PROVE  /\ busy[c].op \in {"none", "switch", "remote", "spin", "select", "pull"}
         /\ busy[c].op = "none" => busy[c] = NoOp
         /\ busy[c].op = "switch" => busy[c] = [op |-> "switch", p |-> busy[c].p]
         /\ busy[c].op \in WakeOps => busy[c].p \in Tasks
         /\ busy[c].op = "select" =>
              busy[c] \in [op : {"select"}, p : Tasks, result : CPUs, minimum_weight : Int, next : 0 .. NR_CPUS]
         /\ busy[c].op = "pull" => busy[c].src \in CPUs
         /\ NoOp.op = "none"
BY DEF CpuTypes, Ops, NoOp, WakeOps

LEMMA NoTask == Idle \notin Tasks /\ Stopper \notin Tasks /\ Idle # Stopper
BY TegraAssumption

\* Once a CPU dies, none is in the middle of anything or may begin.
LEMMA NotDying ==
  ASSUME IInv, NEW c \in CPUs, CanAct(c) \/ busy[c].op # "none"
  PROVE  hot.phase # "dying" /\ c \in cpu_online
BY DEF IInv, GoingDown, CanAct, NoOp

LEMMA QueuedSame == ASSUME UNCHANGED <<on_rq, task_cpu>> PROVE \A c : Queued(c)' = Queued(c)
BY DEF Queued

LEMMA RunningKept ==
  ASSUME IInv, curr' = curr, \A c \in CPUs : busy'[c].op = "switch" => busy'[c] = busy[c],
         \A c \in CPUs : curr[c] \in Tasks => /\ on_cpu'[curr[c]] = on_cpu[curr[c]]
                                              /\ on_rq'[curr[c]] = on_rq[curr[c]]
                                              /\ task_cpu'[curr[c]] = task_cpu[curr[c]],
         \A c \in CPUs : busy'[c].op = "switch" /\ busy[c].p \in Tasks =>
           on_cpu'[busy[c].p] = on_cpu[busy[c].p] /\ task_cpu'[busy[c].p] = task_cpu[busy[c].p]
  PROVE  Running'
BY DEF IInv, Running

\* The wake-ups after a step that begins and ends none: a task that is awake may go to sleep or
\* be kept awake, and one that is being woken stays where it is.
WakingStay ==
  \A p \in Tasks :
    /\ (state'[p] = state[p] /\ on_rq'[p] = on_rq[p])
         \/ (on_rq[p] /\ state'[p] # "waking" /\ (state'[p] = "running" => on_rq'[p]))
    /\ state[p] = "waking" => task_cpu'[p] = task_cpu[p] /\ ~on_cpu'[p]

LEMMA WakesKept ==
  ASSUME IInv, UNCHANGED <<wake_list, ipi>>, WakingStay,
         \A c \in CPUs : busy[c].op = "select" => busy'[c].op = "select" /\ busy'[c].p = busy[c].p,
         \A c \in CPUs : busy'[c].op \in WakeOps => busy'[c].op = busy[c].op /\ busy'[c].p = busy[c].p
  PROVE  Wakers' /\ WakeLists' /\ States'
<1>1. \A c \in CPUs : busy[c].op \in WakeOps => busy[c].p \in Tasks
  BY OpKinds DEF IInv
<1>2. Wakers'
  <2>1. \A c, d \in CPUs : busy'[c].op \in WakeOps /\ busy'[d].op \in WakeOps /\ busy'[c].p = busy'[d].p => c = d
    BY DEF IInv, Wakers
  <2>2. ASSUME NEW c \in CPUs
        PROVE  /\ busy'[c].op = "remote" => state'[busy'[c].p] # "waking"
               /\ busy'[c].op = "spin" => state'[busy'[c].p] = "sleeping" /\ ~on_rq'[busy'[c].p]
               /\ busy'[c].op = "select" =>
                    state'[busy'[c].p] = "waking" /\ \A d \in CPUs : busy'[c].p \notin Linked(wake_list[d])
    BY <1>1 DEF IInv, Wakers, States, WakingStay, WakeOps
  <2> QED BY <2>1, <2>2 DEF Wakers, Linked
<1>3. \A c \in CPUs : \A p \in Linked(wake_list[c]) : p \in Tasks
  BY DEF IInv, CpuTypes, Linked
<1>4. WakeLists'
  <2>1. ASSUME NEW c \in CPUs
        PROVE  /\ Lists(wake_list[c], Linked(wake_list[c]))
               /\ \A p \in Linked(wake_list[c]) : state'[p] = "waking" /\ task_cpu'[p] = c
               /\ wake_list[c] # << >> => ipi[c]
    BY <1>3 DEF IInv, WakeLists, States, WakingStay
  <2> QED BY <2>1 DEF WakeLists, Linked, Lists
<1>5. States'
  <2>1. ASSUME NEW p \in Tasks
        PROVE  /\ state'[p] = "running" => on_rq'[p]
               /\ state'[p] = "waking" =>
                    /\ ~on_rq'[p] /\ ~on_cpu'[p]
                    /\ p \in Linked(wake_list[task_cpu'[p]]) \/ \E c \in CPUs : busy'[c].op = "select" /\ busy'[c].p = p
    BY DEF IInv, States, WakingStay
  <2> QED BY <2>1 DEF States, Linked
<1> QED BY <1>2, <1>4, <1>5

LEMMA WakeListsSame ==
  ASSUME WakeLists, UNCHANGED <<wake_list, ipi, state, task_cpu>>
  PROVE  WakeLists'
<1>1. ASSUME NEW c \in CPUs
      PROVE  /\ Lists(wake_list'[c], Linked(wake_list'[c]))
             /\ \A p \in Linked(wake_list'[c]) : state'[p] = "waking" /\ task_cpu'[p] = c
             /\ wake_list'[c] # << >> => ipi'[c]
  BY DEF WakeLists
<1> QED BY <1>1 DEF WakeLists, Linked, Lists

LEMMA GoingDownKept ==
  ASSUME IInv, UNCHANGED <<hotVars, stop_works>>, hot.phase # "dying",
         \A c \in CPUs \ cpu_online : busy'[c] = NoOp
  PROVE  GoingDown'
BY DEF IInv, GoingDown, hotVars, StopperDue, NoOp

LEMMA DownKept ==
  ASSUME IInv, UNCHANGED hotVars,
         \A c \in Down : (wake_list'[c] = wake_list[c] \/ wake_list'[c] = << >>) /\ Queued(c)' \subseteq Queued(c)
  PROVE  DownEmpty'
BY DEF IInv, DownEmpty, Down, hotVars

-----------------------------------------------------------------------------
(* What is asked from outside *)

\* Steps that touch neither queues nor what a CPU is doing.
LEMMA QuietKeeps ==
  ASSUME IInv, UNCHANGED <<state, on_rq, on_cpu, task_cpu, sched_class, rq, curr, wake_list, ipi, busy, hotVars>>
  PROVE  Queues' /\ Running' /\ Wakers' /\ WakeLists' /\ States' /\ DownEmpty' /\ HotTypes'
<1>1. \A c : Queued(c)' = Queued(c)
  BY QueuedSame
<1>2. Queues' /\ DownEmpty' /\ Running'
  BY <1>1, QueuesKept, DownKept, RunningKept
<1>3. WakingStay
  BY DEF IInv, States, WakingStay
<1>4. Wakers' /\ WakeLists' /\ States'
  BY <1>3, WakesKept
<1> QED BY <1>2, <1>4 DEF IInv, HotTypes, hotVars

LEMMA SetMaskKeeps ==
  ASSUME IInv, NEW p \in Tasks, NEW mask \in Masks, set_cpus_allowed_ptr(p, mask)
  PROVE  IInv'
<1>1. /\ UNCHANGED <<state, on_rq, on_cpu, task_cpu, sched_class, rq, curr, wake_list, ipi, busy, hotVars>>
      /\ UNCHANGED <<group, weight, changing, moving>> /\ hot.phase # "dying"
  BY DEF set_cpus_allowed_ptr
<1>2. mask \in SUBSET CPUs /\ task_cpu[p] \in CPUs
  BY TegraAssumption DEF IInv, TaskTypes
<1>3. TaskTypes'
  <2>1. cpus_allowed' \in [Tasks -> SUBSET CPUs]
    BY <1>2 DEF set_cpus_allowed_ptr, do_set_cpus_allowed, IInv, TaskTypes
  <2> QED BY <1>1, <2>1 DEF IInv, TaskTypes
<1> DEFINE c == task_cpu[p]
           work == [op |-> "migrate", p |-> p, dest |-> FirstOf(cpu_active \cap mask)]
<1>4. work \in Works
  <2>1. cpu_active \cap mask \in SUBSET Nat /\ cpu_active \cap mask # {}
    BY <1>2, CpuNumbers DEF set_cpus_allowed_ptr
  <2>2. FirstOf(cpu_active \cap mask) \in CPUs
    BY <1>2, <2>1, FirstOfIn
  <2> QED BY <2>2 DEF Works
<1> HIDE DEF work
<1>5. \/ UNCHANGED <<stop_works, need_resched>>
      \/ /\ stop_works' = [stop_works EXCEPT ![c] = Append(stop_works[c], work)]
         /\ need_resched' = [need_resched EXCEPT ![c] = TRUE]
  BY DEF set_cpus_allowed_ptr, work
<1>6. /\ stop_works' \in [CPUs -> Seq(Works)] /\ need_resched' \in [CPUs -> BOOLEAN]
      /\ \A d \in CPUs : /\ DOMAIN stop_works[d] \subseteq DOMAIN stop_works'[d]
                         /\ \A i \in DOMAIN stop_works[d] : stop_works'[d][i] = stop_works[d][i]
  <2>1. CASE UNCHANGED <<stop_works, need_resched>>
    BY <2>1 DEF IInv, CpuTypes
  <2>2. CASE /\ stop_works' = [stop_works EXCEPT ![c] = Append(stop_works[c], work)]
             /\ need_resched' = [need_resched EXCEPT ![c] = TRUE]
    <3>1. stop_works[c] \in Seq(Works)
      BY <1>2 DEF IInv, CpuTypes
    <3>2. /\ Append(stop_works[c], work) \in Seq(Works)
          /\ DOMAIN stop_works[c] \subseteq DOMAIN Append(stop_works[c], work)
          /\ \A i \in DOMAIN stop_works[c] : Append(stop_works[c], work)[i] = stop_works[c][i]
      BY <1>4, <3>1
    <3> QED BY <1>2, <2>2, <3>2 DEF IInv, CpuTypes
  <2> QED BY <1>5, <2>1, <2>2
<1>7. CpuTypes'
  BY <1>1, <1>6 DEF IInv, CpuTypes
<1>8. GoingDown'
  <2>1. \A d \in CPUs : StopperDue(d) => StopperDue(d)'
    BY <1>6 DEF StopperDue
  <2>2. cpu_online \subseteq CPUs
    BY DEF IInv, HotTypes
  <2> QED BY <1>1, <2>1, <2>2 DEF IInv, GoingDown, hotVars
<1> QED BY <1>1, <1>3, <1>7, <1>8, QuietKeeps DEF IInv

LEMMA SetCgroupKeeps ==
  ASSUME IInv, NEW p \in Tasks, NEW g \in Groups, SetCgroup(p, g)
  PROVE  IInv'
<1>1. /\ UNCHANGED <<state, on_rq, on_cpu, task_cpu, sched_class, rq, curr, wake_list, ipi, busy, hotVars>>
      /\ UNCHANGED <<cpus_allowed, weight, changing, need_resched, stop_works>> /\ hot.phase # "dying"
  BY DEF SetCgroup, taskVars, cpuVars
<1>2. TaskTypes' /\ CpuTypes'
  BY <1>1 DEF SetCgroup, IInv, TaskTypes, CpuTypes
<1>3. GoingDown'
  BY <1>1, GoingDownKept DEF IInv, GoingDown
<1> QED BY <1>1, <1>2, <1>3, QuietKeeps DEF IInv

LEMMA CheckClassKeeps ==
  ASSUME IInv, NEW p \in Tasks, check_class_changed(p)
  PROVE  IInv'
<1>1. /\ UNCHANGED <<state, on_rq, on_cpu, task_cpu, sched_class, rq, curr, wake_list, ipi, busy, hotVars>>
      /\ UNCHANGED <<cpus_allowed, group, moving, stop_works>> /\ changing' \subseteq changing
  BY DEF check_class_changed
<1>2. task_cpu[p] \in CPUs /\ WeightOf(group[p]) \in {1, 10}
  BY DEF IInv, TaskTypes, WeightOf
<1>3. weight' \in [Tasks -> {1, 10}] /\ need_resched' \in [CPUs -> BOOLEAN]
  <2>1. CASE sched_class[p] = "wrr"
    <3>1. switched_to_wrr(p, task_cpu[p])
      BY <2>1 DEF check_class_changed
    <3>2. PICK A \in SUBSET BOOLEAN : Resched(task_cpu[p], A)
      BY <3>1 DEF switched_to_wrr
    <3>3. weight' \in [Tasks -> {1, 10}]
      BY <1>2, <3>1 DEF switched_to_wrr, IInv, TaskTypes
    <3> QED BY <1>2, <3>2, <3>3, ReschedType DEF IInv
  <2>2. CASE sched_class[p] # "wrr"
    <3>1. switched_to_fair(p, task_cpu[p])
      BY <2>2 DEF check_class_changed
    <3>2. PICK A \in SUBSET BOOLEAN : Resched(task_cpu[p], A)
      BY <3>1, PreemptAnswers DEF switched_to_fair
    <3> QED BY <1>2, <3>1, <3>2, ReschedType DEF switched_to_fair, IInv, TaskTypes
  <2> QED BY <2>1, <2>2
<1>4. TaskTypes' /\ CpuTypes'
  BY <1>1, <1>3 DEF IInv, TaskTypes, CpuTypes
<1>5. GoingDown'
  BY <1>1 DEF IInv, GoingDown, hotVars, StopperDue
<1> QED BY <1>1, <1>4, <1>5, QuietKeeps DEF IInv

-----------------------------------------------------------------------------
(* Tasks that are moved *)

\* Neither executing nor being switched out.
Still(p) == \A d \in CPUs : curr[d] # p /\ ~(busy[d].op = "switch" /\ busy[d].p = p)

LEMMA OffCpu == ASSUME IInv, NEW p \in Tasks, ~on_cpu[p] PROVE Still(p)
BY DEF IInv, Running, Still

LEMMA MoveKeeps ==
  ASSUME IInv, NEW src \in CPUs, NEW dst \in CPUs \ Down, NEW p \in Queued(src), Still(p), Move(p, src, dst),
         UNCHANGED <<state, on_rq, on_cpu, sched_class, curr, wake_list, ipi, hotVars>>,
         \A c \in CPUs : busy[c].op \in WakeOps \/ busy'[c].op \in WakeOps \cup {"switch"} => busy'[c] = busy[c]
  PROVE  /\ Queues' /\ Running' /\ Wakers' /\ WakeLists' /\ States' /\ DownEmpty'
         /\ rq' \in [CPUs -> RunQueues] /\ weight' \in [Tasks -> {1, 10}]
         /\ need_resched' \in [CPUs -> BOOLEAN] /\ task_cpu' \in [Tasks -> CPUs]
<1>1. /\ Queues' /\ rq' \in [CPUs -> RunQueues] /\ weight' \in [Tasks -> {1, 10}]
      /\ need_resched' \in [CPUs -> BOOLEAN] /\ task_cpu' \in [Tasks -> CPUs]
      /\ p \in Tasks /\ \A t \in Tasks \ {p} : task_cpu'[t] = task_cpu[t]
      /\ \A c \in CPUs \ {dst} : Queued(c)' \subseteq Queued(c)
  BY MoveTask
<1>2. on_rq[p] /\ state[p] # "waking"
  BY <1>1 DEF Queued, IInv, States
<1>3. Running'
  <2>1. \A c \in CPUs : curr[c] \in Tasks => task_cpu'[curr[c]] = task_cpu[curr[c]]
    BY <1>1 DEF Still
  <2>2. \A c \in CPUs : busy'[c].op = "switch" /\ busy[c].p \in Tasks => task_cpu'[busy[c].p] = task_cpu[busy[c].p]
    BY <1>1 DEF Still
  <2> QED BY <2>1, <2>2, RunningKept
<1>4. WakingStay
  BY <1>1, <1>2 DEF IInv, States, WakingStay
<1>5. Wakers' /\ WakeLists' /\ States'
  <2>1. "select" \in WakeOps
    BY DEF WakeOps
  <2> QED BY <1>4, <2>1, WakesKept
<1>6. DownEmpty'
  <2>1. Down \subseteq CPUs \ {dst}
    BY DEF Down
  <2> QED BY <1>1, <2>1, DownKept
<1> QED BY <1>1, <1>3, <1>5, <1>6

\* CPUs at work are up.
LEMMA UpNotDown == cpu_online \cap Down = {} /\ cpu_active \cap Down = {}
BY DEF Down

LEMMA LoadBalanceKeeps ==
  ASSUME IInv, NEW c \in CPUs, NEW p \in Tasks, LoadBalance(c, p)
  PROVE  IInv'
<1>1. /\ UNCHANGED <<state, on_rq, on_cpu, sched_class, curr, wake_list, ipi, busy, hotVars>>
      /\ UNCHANGED <<cpus_allowed, group, changing, moving, stop_works>>
      /\ Move(p, task_cpu[p], c) /\ c \in cpu_active /\ on_rq[p] /\ ~on_cpu[p] /\ CanAct(c)
  BY DEF LoadBalance
<1>2. p \in Queued(task_cpu[p]) /\ task_cpu[p] \in CPUs /\ c \in CPUs \ Down
  BY <1>1, UpNotDown DEF Queued, IInv, TaskTypes
<1>3. /\ Queues' /\ Running' /\ Wakers' /\ WakeLists' /\ States' /\ DownEmpty'
      /\ rq' \in [CPUs -> RunQueues] /\ weight' \in [Tasks -> {1, 10}]
      /\ need_resched' \in [CPUs -> BOOLEAN] /\ task_cpu' \in [Tasks -> CPUs]
  BY <1>1, <1>2, OffCpu, MoveKeeps
<1>4. TaskTypes' /\ CpuTypes' /\ HotTypes'
  BY <1>1, <1>3 DEF IInv, TaskTypes, CpuTypes, HotTypes, hotVars
<1>5. GoingDown'
  BY <1>1, NotDying, GoingDownKept DEF IInv, GoingDown
<1> QED BY <1>3, <1>4, <1>5 DEF IInv

\* The next CPU pull_wrr_task() looks at.
LEMMA PullType ==
  ASSUME IInv, NEW c \in CPUs, NEW src \in Int
  PROVE  Pull(c, src) \in Ops /\ Pull(c, src).op \in {"none", "pull"}
<1> DEFINE left == {d \in cpu_online \ {c} : d >= src}
<1>1. left \in SUBSET Nat /\ left \subseteq CPUs
  BY CpuNumbers DEF IInv, HotTypes
<1>2. CASE left = {}
  BY <1>2 DEF Pull, Ops, NoOp
<1>3. CASE left # {}
  <2>1. FirstOf(left) \in CPUs
    BY <1>1, <1>3, FirstOfIn
  <2>2. Pull(c, src) = [op |-> "pull", src |-> FirstOf(left)]
    BY <1>3 DEF Pull
  <2> QED BY <2>1, <2>2 DEF Ops
<1> QED BY <1>2, <1>3

LEMMA PullKeeps ==
  ASSUME IInv, NEW c \in CPUs, pull_wrr_task(c)
  PROVE  IInv'
<1> DEFINE src == busy[c].src
           q == rq[src].wrr.queue
           Fit == {i \in DOMAIN q : ~on_cpu[q[i]] /\ c \in cpus_allowed[q[i]] /\ on_rq[q[i]]}
<1>1. /\ UNCHANGED <<state, on_rq, on_cpu, sched_class, curr, wake_list, ipi, hotVars>>
      /\ UNCHANGED <<cpus_allowed, group, changing, moving, stop_works>>
      /\ busy[c].op = "pull" /\ src \in CPUs
  BY OpKinds DEF pull_wrr_task, IInv
<1>2. hot.phase # "dying" /\ c \in cpu_online
  BY <1>1, NotDying
<1>3. PICK b \in Ops : busy' = [busy EXCEPT ![c] = b] /\ b.op \in {"none", "pull"}
                       /\ (Fit = {} \/ b = NoOp)
  <2>1. CASE Fit = {}
    <3>1. src + 1 \in Int
      <4>1. src \in Nat
        BY <1>1, CpuNumbers
      <4> HIDE DEF src
      <4> QED BY <4>1
    <3> QED BY <2>1, <3>1, PullType DEF pull_wrr_task
  <2>2. CASE Fit # {}
    <3>1. NoOp \in Ops /\ NoOp.op = "none"
      BY DEF Ops, NoOp
    <3> QED BY <2>2, <3>1 DEF pull_wrr_task
  <2> QED BY <2>1, <2>2
<1>4. /\ busy' \in [CPUs -> Ops] /\ \A d \in CPUs \ {c} : busy'[d] = busy[d]
      /\ busy'[c].op \in {"none", "pull"}
  BY <1>3 DEF IInv, CpuTypes
<1>5. \A d \in CPUs : busy[d].op \in WakeOps \/ busy'[d].op \in WakeOps \cup {"switch"} => busy'[d] = busy[d]
  BY <1>1, <1>4 DEF WakeOps
<1>6. GoingDown'
  BY <1>1, <1>2, <1>4, GoingDownKept DEF IInv, GoingDown
<1>7. CASE Fit = {}
  <2>1. UNCHANGED <<rq, task_cpu, weight, need_resched>>
    BY <1>7 DEF pull_wrr_task
  <2>2. \A d : Queued(d)' = Queued(d)
    BY <1>1, <2>1, QueuedSame
  <2>3. Queues' /\ DownEmpty' /\ Running'
    BY <1>1, <1>5, <2>1, <2>2, QueuesKept, DownKept, RunningKept
  <2>4. WakingStay
    BY <1>1, <2>1 DEF IInv, States, WakingStay
  <2>5. Wakers' /\ WakeLists' /\ States'
    <3>1. "select" \in WakeOps
      BY DEF WakeOps
    <3> QED BY <1>1, <1>5, <2>4, <3>1, WakesKept
  <2>6. TaskTypes' /\ CpuTypes' /\ HotTypes'
    BY <1>1, <1>4, <2>1 DEF IInv, TaskTypes, CpuTypes, HotTypes, hotVars
  <2> QED BY <1>6, <2>3, <2>5, <2>6 DEF IInv
<1>8. CASE Fit # {}
  <2> DEFINE p == q[FirstOf(Fit)]
  <2>1. Move(p, src, c)
    BY <1>8 DEF pull_wrr_task
  <2>2. FirstOf(Fit) \in DOMAIN q /\ ~on_cpu[p] /\ p \in Linked(q)
    <3>1. q \in Seq(Tasks)
      BY <1>1, QueuedTasks DEF RunQueues
    <3>2. Fit \in SUBSET Nat
      <4>1. DOMAIN q \subseteq Nat
        <5> HIDE DEF q
        <5> QED BY <3>1
      <4> QED BY <4>1
    <3>3. FirstOf(Fit) \in Fit
      BY <1>8, <3>2, FirstOfIn
    <3> QED BY <3>3 DEF Linked
  <2>3. p \in Queued(src)
    <3>1. Lists(q, Of(Queued(src), "wrr"))
      BY <1>1, QueuedTasks DEF ExactFor
    <3>2. p \in Of(Queued(src), "wrr")
      BY <2>2, <3>1, LinkedLists
    <3> QED BY <3>2 DEF Of
  <2>4. p \in Tasks /\ c \in CPUs \ Down
    BY <1>2, <2>3, UpNotDown DEF Queued
  <2> HIDE DEF p, Fit, q, src
  <2>5. /\ Queues' /\ Running' /\ Wakers' /\ WakeLists' /\ States' /\ DownEmpty'
        /\ rq' \in [CPUs -> RunQueues] /\ weight' \in [Tasks -> {1, 10}]
        /\ need_resched' \in [CPUs -> BOOLEAN] /\ task_cpu' \in [Tasks -> CPUs]
    BY <1>1, <1>5, <2>1, <2>2, <2>3, <2>4, OffCpu, MoveKeeps
  <2>6. TaskTypes' /\ CpuTypes' /\ HotTypes'
    BY <1>1, <1>4, <2>5 DEF IInv, TaskTypes, CpuTypes, HotTypes, hotVars
  <2> QED BY <1>6, <2>5, <2>6 DEF IInv
<1> QED BY <1>7, <1>8

\* select_fallback_rq() finds an active CPU.
LEMMA Fallback ==
  ASSUME IInv, NEW p \in Tasks
  PROVE  /\ select_fallback_rq(p).dest \in cpu_active
         /\ select_fallback_rq(p).allowed \in [Tasks -> SUBSET CPUs]
<1>1. cpu_active \subseteq CPUs /\ 0 \in cpu_active /\ cpu_active \in SUBSET Nat
  BY CpuNumbers DEF IInv, HotTypes, GoingDown
<1>2. CASE cpus_allowed[p] \cap cpu_active # {}
  <2>1. FirstOf(cpus_allowed[p] \cap cpu_active) \in cpus_allowed[p] \cap cpu_active
    BY <1>1, <1>2, FirstOfIn
  <2> QED BY <1>2, <2>1 DEF select_fallback_rq, IInv, TaskTypes
<1>3. CASE cpus_allowed[p] \cap cpu_active = {}
  <2>1. FirstOf(cpu_active) \in cpu_active
    BY <1>1, FirstOfIn
  <2> QED BY <1>3, <2>1 DEF select_fallback_rq, do_set_cpus_allowed, IInv, TaskTypes
<1> QED BY <1>2, <1>3

\* __migrate_task() of a task that does not run.
LEMMA MigrateToKeeps ==
  ASSUME IInv, NEW src \in CPUs, NEW p \in Tasks, NEW dest \in CPUs, NEW allowed \in [Tasks -> SUBSET CPUs],
         MigrateTo(p, src, dest, allowed), task_cpu[p] = src => Still(p),
         UNCHANGED <<state, on_rq, on_cpu, sched_class, group, curr, wake_list, ipi, busy, hotVars, changing, moving>>,
         stop_works' \in [CPUs -> Seq(Works)]
  PROVE  /\ TaskTypes' /\ CpuTypes' /\ HotTypes'
         /\ Queues' /\ Running' /\ Wakers' /\ WakeLists' /\ States' /\ DownEmpty'
<1>1. cpus_allowed' = allowed
  BY DEF MigrateTo
<1>2. CASE dest \in cpu_active /\ task_cpu[p] = src /\ dest \in allowed[p] /\ on_rq[p]
  <2>1. Move(p, src, dest) /\ p \in Queued(src) /\ dest \in CPUs \ Down
    BY <1>2, UpNotDown DEF MigrateTo, Queued
  <2>2. /\ Queues' /\ Running' /\ Wakers' /\ WakeLists' /\ States' /\ DownEmpty'
        /\ rq' \in [CPUs -> RunQueues] /\ weight' \in [Tasks -> {1, 10}]
        /\ need_resched' \in [CPUs -> BOOLEAN] /\ task_cpu' \in [Tasks -> CPUs]
    BY <1>2, <2>1, MoveKeeps
  <2> QED BY <1>1, <2>2 DEF IInv, TaskTypes, CpuTypes, HotTypes, hotVars
<1>3. CASE ~(dest \in cpu_active /\ task_cpu[p] = src /\ dest \in allowed[p] /\ on_rq[p])
  <2>1. UNCHANGED <<rq, task_cpu, weight, need_resched>>
    BY <1>3 DEF MigrateTo
  <2> QED BY <1>1, <2>1, QuietKeeps DEF IInv, TaskTypes, CpuTypes, HotTypes, hotVars
<1> QED BY <1>2, <1>3

LEMMA MigrationStopKeeps ==
  ASSUME IInv, NEW c \in CPUs, migration_cpu_stop(c)
  PROVE  IInv'
<1> DEFINE w == Head(stop_works[c])
<1>1. /\ CanAct(c) /\ curr[c] = Stopper /\ stop_works[c] # << >> /\ w.op = "migrate"
      /\ MigrateTo(w.p, c, w.dest, cpus_allowed)
      /\ stop_works' = [stop_works EXCEPT ![c] = Tail(stop_works[c])]
      /\ UNCHANGED <<state, on_rq, on_cpu, sched_class, group, curr, wake_list, ipi, busy, hotVars, changing, moving>>
  BY DEF migration_cpu_stop
<1>2. stop_works[c] \in Seq(Works) /\ w \in Works
  BY <1>1 DEF IInv, CpuTypes
<1>3. w.p \in Tasks /\ w.dest \in CPUs
  BY <1>1, <1>2 DEF Works
<1>4. task_cpu[w.p] = c => Still(w.p)
  BY <1>1, <1>3, NoTask DEF IInv, Running, Still, CanAct, NoOp
<1> HIDE DEF w
<1>5. cpus_allowed \in [Tasks -> SUBSET CPUs]
  BY DEF IInv, TaskTypes
<1>6. stop_works' \in [CPUs -> Seq(Works)]
  BY <1>1, <1>2 DEF IInv, CpuTypes
<1>7. /\ TaskTypes' /\ CpuTypes' /\ HotTypes'
      /\ Queues' /\ Running' /\ Wakers' /\ WakeLists' /\ States' /\ DownEmpty'
  BY <1>1, <1>3, <1>4, <1>5, <1>6, MigrateToKeeps
<1>8. GoingDown'
  <2>1. hot.phase # "dying"
    BY <1>1, NotDying
  <2>2. ASSUME NEW d \in CPUs, StopperDue(d) PROVE StopperDue(d)'
    <3>1. CASE d = c
      <4>1. PICK i \in DOMAIN stop_works[c] : stop_works[c][i].op = "stop_machine"
        BY <2>2, <3>1 DEF StopperDue
      <4>2. i # 1
        BY <1>1, <1>2, <4>1 DEF w
      <4>3. i - 1 \in DOMAIN Tail(stop_works[c]) /\ Tail(stop_works[c])[i - 1] = stop_works[c][i]
        BY <1>1, <1>2, <4>2
      <4>4. stop_works'[c] = Tail(stop_works[c])
        BY <1>1 DEF IInv, CpuTypes
      <4> QED BY <3>1, <4>1, <4>3, <4>4 DEF StopperDue
    <3>2. CASE d # c
      BY <1>1, <2>2, <3>2 DEF StopperDue, IInv, CpuTypes
    <3> QED BY <3>1, <3>2
  <2>3. cpu_online \subseteq CPUs
    BY DEF IInv, HotTypes
  <2> QED BY <1>1, <2>1, <2>2, <2>3 DEF IInv, GoingDown, hotVars
<1> QED BY <1>7, <1>8 DEF IInv

-----------------------------------------------------------------------------
(* Switching, the tick, and changes of class and group *)

\* Steps that leave tasks where they are, and wake-ups and switches as they are.
LEMMA CalmKeeps ==
  ASSUME IInv, UNCHANGED <<state, on_rq, on_cpu, task_cpu, curr, wake_list, ipi, hotVars>>,
         \A c \in CPUs : busy[c].op \in WakeOps \/ busy'[c].op \in WakeOps \cup {"switch"} => busy'[c] = busy[c]
  PROVE  Running' /\ Wakers' /\ WakeLists' /\ States' /\ DownEmpty' /\ HotTypes'
<1>1. \A c : Queued(c)' = Queued(c)
  BY QueuedSame
<1>2. DownEmpty' /\ Running'
  BY <1>1, DownKept, RunningKept
<1>3. WakingStay /\ "select" \in WakeOps
  BY DEF IInv, States, WakingStay, WakeOps
<1>4. Wakers' /\ WakeLists' /\ States'
  BY <1>3, WakesKept
<1> QED BY <1>2, <1>4 DEF IInv, HotTypes, hotVars

LEMMA TickQueues ==
  ASSUME IInv, NEW c \in CPUs, task_tick(c), UNCHANGED <<on_rq, task_cpu, sched_class>>
  PROVE  Queues' /\ rq' \in [CPUs -> RunQueues] /\ need_resched' \in [CPUs -> BOOLEAN]
<1>1. \A d : Queued(d)' = Queued(d)
  BY QueuedSame
<1>2. need_resched' \in [CPUs -> BOOLEAN]
  BY DEF task_tick, IInv, CpuTypes
<1>3. CASE rq' = rq
  BY <1>1, <1>2, <1>3, QueuesKept DEF IInv, CpuTypes
<1>4. CASE /\ curr[c] \in Tasks /\ sched_class[curr[c]] = "wrr"
           /\ rq' = [rq EXCEPT ![c].wrr = requeue_task_wrr(rq[c].wrr, curr[c])]
  <2> DEFINE r == [rq[c] EXCEPT !.wrr = requeue_task_wrr(rq[c].wrr, curr[c])]
  <2>1. curr[c] \in Queued(c)
    BY <1>4 DEF IInv, Running, Queued
  <2>2. ExactFor(r, Queued(c))
    BY <1>4, <2>1, QueuedTasks, Requeue DEF IInv
  <2>3. rq' = [rq EXCEPT ![c] = r]
    BY <1>4
  <2> HIDE DEF r
  <2> QED BY <1>1, <1>2, <2>2, <2>3, OneQueue
<1> QED BY <1>3, <1>4 DEF task_tick

LEMMA TickKeeps ==
  ASSUME IInv, NEW c \in CPUs, scheduler_tick(c)
  PROVE  IInv'
<1>1. /\ UNCHANGED <<state, on_rq, on_cpu, task_cpu, cpus_allowed, sched_class, weight, group>>
      /\ UNCHANGED <<curr, wake_list, ipi, stop_works, hotVars, changing, moving>>
      /\ task_tick(c) /\ CanAct(c)
  BY DEF scheduler_tick, taskVars
<1>2. PICK b \in Ops : busy' = [busy EXCEPT ![c] = b] /\ b.op \in {"none", "pull"}
  <2>1. NoOp \in Ops /\ NoOp.op = "none" /\ Pull(c, 0) \in Ops /\ Pull(c, 0).op \in {"none", "pull"}
    BY PullType DEF Ops, NoOp
  <2> QED BY <2>1 DEF scheduler_tick
<1>3. busy[c].op = "none" /\ c \in cpu_online
  BY <1>1 DEF CanAct, NoOp
<1>4. /\ busy' \in [CPUs -> Ops] /\ \A d \in CPUs \ {c} : busy'[d] = busy[d]
      /\ busy'[c].op \in {"none", "pull"}
  BY <1>2 DEF IInv, CpuTypes
<1>5. \A d \in CPUs : busy[d].op \in WakeOps \/ busy'[d].op \in WakeOps \cup {"switch"} => busy'[d] = busy[d]
  BY <1>3, <1>4 DEF WakeOps
<1>6. Queues' /\ rq' \in [CPUs -> RunQueues] /\ need_resched' \in [CPUs -> BOOLEAN]
  BY <1>1, TickQueues
<1>7. TaskTypes' /\ CpuTypes'
  BY <1>1, <1>4, <1>6 DEF IInv, TaskTypes, CpuTypes
<1>8. GoingDown'
  BY <1>1, <1>3, <1>4, NotDying, GoingDownKept DEF IInv, GoingDown
<1> QED BY <1>1, <1>5, <1>6, <1>7, <1>8, CalmKeeps DEF IInv

LEMMA FinishKeeps ==
  ASSUME IInv, NEW c \in CPUs, finish_task_switch(c)
  PROVE  IInv'
<1>1. /\ UNCHANGED <<state, on_rq, task_cpu, cpus_allowed, sched_class, weight, group, rq, curr>>
      /\ UNCHANGED <<need_resched, wake_list, ipi, stop_works, hotVars, changing, moving>>
      /\ busy[c].op = "switch" /\ busy' = [busy EXCEPT ![c] = NoOp]
      /\ on_cpu' = [p \in Tasks |-> on_cpu[p] /\ p # busy[c].p]
  BY DEF finish_task_switch
<1>2. NoOp \in Ops /\ NoOp.op = "none"
  BY DEF Ops, NoOp
<1>3. /\ busy' \in [CPUs -> Ops] /\ (\A d \in CPUs \ {c} : busy'[d] = busy[d]) /\ busy'[c] = NoOp
  BY <1>1, <1>2 DEF IInv, CpuTypes
<1>4. TaskTypes' /\ CpuTypes' /\ HotTypes'
  <2>1. on_cpu' \in [Tasks -> BOOLEAN]
    BY <1>1 DEF IInv, TaskTypes
  <2> QED BY <1>1, <1>3, <2>1 DEF IInv, TaskTypes, CpuTypes, HotTypes, hotVars
<1>5. \A d : Queued(d)' = Queued(d)
  BY <1>1, QueuedSame
<1>6. Queues' /\ DownEmpty'
  BY <1>1, <1>5, QueuesKept, DownKept
<1>7. Running'
  <2>1. ASSUME NEW d \in CPUs, curr[d] \in Tasks
        PROVE  on_cpu'[curr[d]] /\ on_rq[curr[d]] /\ task_cpu[curr[d]] = d
    <3>1. on_cpu[curr[d]] /\ on_rq[curr[d]] /\ task_cpu[curr[d]] = d
      BY <2>1 DEF IInv, Running
    <3>2. curr[d] # busy[c].p
      BY <1>1, <2>1, <3>1 DEF IInv, Running
    <3>3. on_cpu'[curr[d]] = (on_cpu[curr[d]] /\ curr[d] # busy[c].p)
      BY <1>1, <2>1
    <3> QED BY <3>1, <3>2, <3>3
  <2>2. ASSUME NEW d \in CPUs, busy'[d].op = "switch", busy'[d].p \in Tasks
        PROVE  on_cpu'[busy'[d].p] /\ task_cpu[busy'[d].p] = d /\ curr[d] # busy'[d].p
    <3>1. d # c /\ busy'[d] = busy[d]
      BY <1>1, <1>2, <1>3, <2>2 DEF IInv, CpuTypes
    <3>2. on_cpu[busy[d].p] /\ task_cpu[busy[d].p] = d /\ curr[d] # busy[d].p
      BY <2>2, <3>1 DEF IInv, Running
    <3>3. busy[d].p # busy[c].p
      BY <1>1, <2>2, <3>1, <3>2 DEF IInv, Running
    <3>4. on_cpu'[busy[d].p] = (on_cpu[busy[d].p] /\ busy[d].p # busy[c].p)
      BY <1>1, <2>2, <3>1
    <3> QED BY <3>1, <3>2, <3>3, <3>4
  <2> QED BY <1>1, <2>1, <2>2 DEF Running
<1>8. Wakers' /\ WakeLists' /\ States'
  <2>1. WakingStay
    BY <1>1 DEF IInv, States, WakingStay
  <2>2. /\ \A d \in CPUs : busy[d].op = "select" => busy'[d].op = "select" /\ busy'[d].p = busy[d].p
        /\ \A d \in CPUs : busy'[d].op \in WakeOps => busy'[d].op = busy[d].op /\ busy'[d].p = busy[d].p
    BY <1>1, <1>2 DEF IInv, CpuTypes, WakeOps
  <2> QED BY <1>1, <2>1, <2>2, WakesKept
<1>9. GoingDown'
  BY <1>1, <1>3, NotDying, GoingDownKept DEF IInv, GoingDown
<1> QED BY <1>4, <1>6, <1>7, <1>8, <1>9 DEF IInv

\* The tasks of c, when those marked in queued are queued.
QueuedAs(c, queued) == {p \in Tasks : queued[p] /\ task_cpu[p] = c}

\* What pick_next_task() returns of an exact run queue.
LEMMA PickNext ==
  ASSUME IInv, NEW c \in CPUs, NEW r, NEW queued \in [Tasks -> BOOLEAN], NEW works,
         ExactFor(r, QueuedAs(c, queued)),
         NEW next \in pick_next_task(c, r, queued, works)
  PROVE  /\ next \in Tasks \cup {Idle, Stopper}
         /\ next \in Tasks => queued[next] /\ task_cpu[next] = c
         /\ works = << >> /\ r.nr_running # 0 => next \in Tasks
<1> DEFINE Q == QueuedAs(c, queued)
<1>1. FairOn(c, queued) = Of(Q, "fair") /\ Q \in SUBSET Tasks
  BY DEF FairOn, Of, QueuedAs
<1>2. r.wrr.wrr_nr_running # 0 => Head(r.wrr.queue) \in Of(Q, "wrr")
  <2>1. Lists(r.wrr.queue, Of(Q, "wrr")) /\ r.wrr.wrr_nr_running = Len(r.wrr.queue) /\ r.wrr.queue \in Seq(Tasks)
    BY DEF ExactFor, RunQueues
  <2>2. r.wrr.wrr_nr_running # 0 => r.wrr.queue # << >>
    BY <2>1
  <2> QED BY <2>1, <2>2, ListDelFirst
<1>3. r.nr_running # 0 => Of(Q, "fair") # {} \/ r.wrr.wrr_nr_running # 0
  <2>1. /\ r.nr_running = Cardinality(Of(Q, "fair")) + 2 * Cardinality(Of(Q, "wrr"))
        /\ Lists(r.wrr.queue, Of(Q, "wrr")) /\ r.wrr.wrr_nr_running = Len(r.wrr.queue)
    BY DEF ExactFor
  <2>2. Len(r.wrr.queue) = Cardinality(Of(Q, "wrr"))
    BY <2>1, ListLength
  <2>3. ASSUME Of(Q, "fair") = {}, r.wrr.wrr_nr_running = 0 PROVE r.nr_running = 0
    <3>1. Cardinality(Of(Q, "fair")) = 0
      BY <2>3, FS_EmptySet
    <3>2. Cardinality(Of(Q, "wrr")) = 0
      BY <2>1, <2>2, <2>3
    <3> QED BY <2>1, <3>1, <3>2
  <2> QED BY <2>3
<1> HIDE DEF Q
<1>4. CASE works # << >>
  BY <1>4, NoTask DEF pick_next_task
<1>5. CASE works = << >>
  BY <1>1, <1>2, <1>3, <1>5, NoTask DEF pick_next_task, Of, Q, QueuedAs
<1> QED BY <1>4, <1>5

\* From pick_next_task() into the switch, after the task that ran has perhaps left the queue.
LEMMA SwitchKeeps ==
  ASSUME IInv, NEW c \in CPUs, CanAct(c), NEW r, NEW queued \in [Tasks -> BOOLEAN], Switch(c, r, queued),
         ExactFor(r, QueuedAs(c, queued)),
         \A p \in Tasks : queued[p] => on_rq[p],
         \A p \in Tasks : p # curr[c] => queued[p] = on_rq[p],
         \A p \in Tasks : \/ state'[p] = state[p] /\ queued[p] = on_rq[p]
                          \/ on_rq[p] /\ state'[p] # "waking" /\ (state'[p] = "running" => queued[p]),
         state' \in [Tasks -> {"running", "sleeping", "waking"}]
  PROVE  IInv'
<1>1. PICK next \in pick_next_task(c, r, queued, stop_works[c]) :
        /\ rq' = [rq EXCEPT ![c] = r] /\ on_rq' = queued
        /\ curr' = [curr EXCEPT ![c] = next]
        /\ need_resched' = [need_resched EXCEPT ![c] = FALSE]
        /\ on_cpu' = [p \in Tasks |-> on_cpu[p] \/ p = next]
        /\ busy' = [busy EXCEPT ![c] = IF next = curr[c] THEN NoOp
                                       ELSE [op |-> "switch", p |-> curr[c]]]
        /\ UNCHANGED <<task_cpu, cpus_allowed, sched_class, weight, group, wake_list, ipi>>
        /\ UNCHANGED <<stop_works, hotVars, changing, moving>>
  BY DEF Switch
<1>2. next \in Tasks \cup {Idle, Stopper} /\ (next \in Tasks => queued[next] /\ task_cpu[next] = c)
  BY <1>1, PickNext
<1>3. hot.phase # "dying" /\ c \in cpu_online /\ busy[c].op = "none"
  BY NotDying DEF CanAct, NoOp
<1>4. /\ \A d \in CPUs \ {c} : busy'[d] = busy[d] /\ curr'[d] = curr[d]
      /\ curr'[c] = next /\ busy' \in [CPUs -> Ops] /\ curr' \in [CPUs -> Tasks \cup {Idle, Stopper}]
      /\ busy'[c] = (IF next = curr[c] THEN NoOp ELSE [op |-> "switch", p |-> curr[c]])
  <2>1. NoOp \in Ops /\ [op |-> "switch", p |-> curr[c]] \in Ops
    BY DEF Ops, IInv, CpuTypes
  <2> QED BY <1>1, <1>2, <2>1 DEF IInv, CpuTypes
<1>5. \A d \in CPUs \ {c} : Queued(d)' = Queued(d)
  BY <1>1 DEF Queued, IInv, Running
<1>6. Queues' /\ rq' \in [CPUs -> RunQueues]
  <2>1. Queued(c)' = QueuedAs(c, queued)
    BY <1>1 DEF Queued, QueuedAs
  <2>2. ExactFor(r, Queued(c)')
    BY <2>1
  <2> QED BY <1>1, <1>5, <2>2, OneQueue
<1>7. TaskTypes' /\ CpuTypes' /\ HotTypes'
  <2>1. on_cpu' \in [Tasks -> BOOLEAN] /\ need_resched' \in [CPUs -> BOOLEAN]
    BY <1>1 DEF IInv, TaskTypes, CpuTypes
  <2> QED BY <1>1, <1>4, <1>6, <2>1 DEF IInv, TaskTypes, CpuTypes, HotTypes, hotVars
<1>8. Running'
  <2>1. ASSUME NEW d \in CPUs, curr'[d] \in Tasks
        PROVE  on_cpu'[curr'[d]] /\ queued[curr'[d]] /\ task_cpu[curr'[d]] = d
    <3>1. CASE d = c
      BY <1>1, <1>2, <1>4, <2>1, <3>1
    <3>2. CASE d # c
      <4>1. curr[d] # curr[c]
        BY <1>4, <2>1, <3>2 DEF IInv, Running
      <4> QED BY <1>1, <1>4, <2>1, <3>2, <4>1 DEF IInv, Running
    <3> QED BY <3>1, <3>2
  <2>2. ASSUME NEW d \in CPUs, busy'[d].op = "switch", busy'[d].p \in Tasks
        PROVE  on_cpu'[busy'[d].p] /\ task_cpu[busy'[d].p] = d /\ curr'[d] # busy'[d].p
    <3>1. CASE d = c
      <4>1. next # curr[c] /\ busy'[c].p = curr[c]
        BY <1>4, <2>2, <3>1 DEF NoOp
      <4>2. curr[c] \in Tasks /\ on_cpu[curr[c]] /\ task_cpu[curr[c]] = c
        BY <2>2, <3>1, <4>1 DEF IInv, Running
      <4>3. on_cpu'[curr[c]]
        BY <1>1, <4>2
      <4> QED BY <1>4, <3>1, <4>1, <4>2, <4>3
    <3>2. CASE d # c
      <4>1. busy'[d] = busy[d] /\ curr'[d] = curr[d]
        BY <1>4, <3>2
      <4>2. busy[d].p \in Tasks /\ on_cpu[busy[d].p] /\ task_cpu[busy[d].p] = d /\ curr[d] # busy[d].p
        BY <2>2, <4>1 DEF IInv, Running
      <4> QED BY <1>1, <4>1, <4>2
    <3> QED BY <3>1, <3>2
  <2> QED BY <1>1, <2>1, <2>2 DEF Running
<1>9. Wakers' /\ WakeLists' /\ States'
  <2>1. ASSUME NEW p \in Tasks, state[p] = "waking" PROVE ~on_cpu'[p]
    BY <1>1, <1>2, <2>1 DEF IInv, States
  <2>2. WakingStay
    BY <1>1, <2>1 DEF WakingStay
  <2>3. /\ \A d \in CPUs : busy[d].op = "select" => busy'[d].op = "select" /\ busy'[d].p = busy[d].p
        /\ \A d \in CPUs : busy'[d].op \in WakeOps => busy'[d].op = busy[d].op /\ busy'[d].p = busy[d].p
    BY <1>3, <1>4 DEF WakeOps, NoOp
  <2> QED BY <1>1, <2>2, <2>3, WakesKept
<1>10. DownEmpty'
  <2>1. Down \subseteq CPUs \ {c}
    BY <1>3 DEF Down
  <2> QED BY <1>1, <1>5, <2>1, DownKept
<1>11. GoingDown'
  BY <1>1, <1>3, <1>4, GoingDownKept DEF IInv, GoingDown
<1> QED BY <1>6, <1>7, <1>8, <1>9, <1>10, <1>11 DEF IInv

LEMMA ScheduleKeeps ==
  ASSUME IInv, NEW c \in CPUs, schedule(c)
  PROVE  IInv'
<1>1. CanAct(c) /\ on_rq \in [Tasks -> BOOLEAN] /\ state \in [Tasks -> {"running", "sleeping", "waking"}]
  BY DEF schedule, IInv, TaskTypes
<1>2. ExactFor(rq[c], QueuedAs(c, on_rq))
  BY QueuedTasks DEF Queued, QueuedAs
<1>3. CASE /\ curr[c] \in Tasks /\ state[curr[c]] = "sleeping" /\ UNCHANGED state
           /\ Switch(c, deactivate_task(rq[c], curr[c]), [on_rq EXCEPT ![curr[c]] = FALSE])
  <2> DEFINE queued == [on_rq EXCEPT ![curr[c]] = FALSE]
             r == deactivate_task(rq[c], curr[c])
  <2>1. curr[c] \in Queued(c) /\ on_rq[curr[c]]
    BY <1>3 DEF IInv, Running, Queued
  <2>2. queued \in [Tasks -> BOOLEAN] /\ ~queued[curr[c]] /\ \A p \in Tasks : p # curr[c] => queued[p] = on_rq[p]
    BY <1>1, <1>3
  <2>3. ExactFor(r, Queued(c) \ {curr[c]})
    BY <2>1, QueuedTasks, Deactivate DEF IInv
  <2>4. Switch(c, r, queued)
    BY <1>3
  <2> HIDE DEF queued, r
  <2>5. Queued(c) \ {curr[c]} = QueuedAs(c, queued)
    BY <2>2 DEF Queued, QueuedAs
  <2>6. \A p \in Tasks : \/ state'[p] = state[p] /\ queued[p] = on_rq[p]
                         \/ on_rq[p] /\ state'[p] # "waking" /\ (state'[p] = "running" => queued[p])
    BY <1>3, <2>1, <2>2
  <2>7. ExactFor(r, QueuedAs(c, queued)) /\ \A p \in Tasks : queued[p] => on_rq[p]
    BY <2>1, <2>2, <2>3, <2>5
  <2> QED BY <1>1, <1>3, <2>2, <2>4, <2>6, <2>7, SwitchKeeps
<1>4. CASE /\ curr[c] \in Tasks /\ state[curr[c]] = "sleeping"
           /\ state' = [state EXCEPT ![curr[c]] = "running"] /\ Switch(c, rq[c], on_rq)
  <2>1. on_rq[curr[c]]
    BY <1>4 DEF IInv, Running
  <2>2. state' \in [Tasks -> {"running", "sleeping", "waking"}]
    BY <1>1, <1>4
  <2>3. \A p \in Tasks : \/ state'[p] = state[p] /\ on_rq[p] = on_rq[p]
                         \/ on_rq[p] /\ state'[p] # "waking" /\ (state'[p] = "running" => on_rq[p])
    BY <1>1, <1>4, <2>1
  <2> QED BY <1>1, <1>2, <1>4, <2>2, <2>3, SwitchKeeps
<1>5. CASE Switch(c, rq[c], on_rq) /\ UNCHANGED state
  BY <1>1, <1>2, <1>5, SwitchKeeps
<1> QED BY <1>3, <1>4, <1>5 DEF schedule

LEMMA PreemptKeeps ==
  ASSUME IInv, NEW c \in CPUs, preempt_schedule(c)
  PROVE  IInv'
<1>1. /\ CanAct(c) /\ Switch(c, rq[c], on_rq) /\ UNCHANGED state
      /\ on_rq \in [Tasks -> BOOLEAN] /\ state \in [Tasks -> {"running", "sleeping", "waking"}]
  BY DEF preempt_schedule, IInv, TaskTypes
<1>2. ExactFor(rq[c], QueuedAs(c, on_rq))
  BY QueuedTasks DEF Queued, QueuedAs
<1> QED BY <1>1, <1>2, SwitchKeeps

LEMMA SetSchedulerKeeps ==
  ASSUME IInv, NEW p \in Tasks, sched_setscheduler(p)
  PROVE  IInv'
<1>0. PICK c \in CPUs : c = task_cpu[p]
  BY DEF IInv, TaskTypes
<1> DEFINE to == IF sched_class[p] = "wrr" THEN "fair" ELSE "wrr"
           out == deactivate_task(rq[c], p)
           w == WeightOf(group[p])
           new == IF to = "wrr"
                  THEN [wrr |-> enqueue_wrr_entity(out.wrr, p, w, FALSE), nr_running |-> out.nr_running + 2]
                  ELSE [out EXCEPT !.nr_running = out.nr_running + 1]
<1>1. /\ UNCHANGED <<state, on_rq, on_cpu, task_cpu, cpus_allowed, group, curr, need_resched>>
      /\ UNCHANGED <<wake_list, ipi, stop_works, busy, hotVars, moving>>
      /\ hot.phase # "dying" /\ sched_class' = [sched_class EXCEPT ![p] = to] /\ changing' = changing \cup {p}
  BY DEF sched_setscheduler
<1>2. c \in CPUs /\ w \in {1, 10} /\ sched_class[p] \in {"fair", "wrr"}
  BY DEF IInv, TaskTypes, WeightOf
<1>3. TaskTypes'
  <2>1. weight' \in [Tasks -> {1, 10}]
    BY <1>2 DEF sched_setscheduler, IInv, TaskTypes
  <2>2. sched_class' \in [Tasks -> {"fair", "wrr"}]
    BY <1>1 DEF IInv, TaskTypes
  <2> QED BY <1>1, <2>1, <2>2 DEF IInv, TaskTypes
<1>4. \A Q \in SUBSET Tasks : p \notin Q => \A cl : {t \in Q : sched_class'[t] = cl} = Of(Q, cl)
  BY <1>1 DEF Of, IInv, TaskTypes
<1>5. \A d : Queued(d)' = Queued(d)
  BY <1>1, QueuedSame
<1>6. ASSUME NEW d \in CPUs, p \notin Queued(d), rq'[d] = rq[d]
      PROVE  ExactFor(rq[d], Queued(d))'
  <2>1. ExactFor(rq[d], Queued(d)) /\ Queued(d) \in SUBSET Tasks
    BY QueuedTasks
  <2>2. \A cl : Of(Queued(d), cl)' = Of(Queued(d), cl)
    BY <1>4, <1>5, <1>6, <2>1 DEF Of
  <2> QED BY <1>5, <1>6, <2>1, <2>2 DEF ExactFor, RunQueues
<1>7. CASE ~on_rq[p]
  <2>1. rq' = rq
    BY <1>0, <1>7 DEF sched_setscheduler, IInv, CpuTypes
  <2>2. \A d \in CPUs : p \notin Queued(d)
    BY <1>7 DEF Queued
  <2>3. Queues' /\ CpuTypes'
    BY <1>1, <1>6, <2>1, <2>2 DEF Queues, IInv, CpuTypes
  <2>4. GoingDown'
    BY <1>1, GoingDownKept DEF IInv, GoingDown
  <2> QED BY <1>1, <1>3, <2>3, <2>4, CalmKeeps DEF IInv
<1>8. CASE on_rq[p]
  <2> DEFINE Q == Queued(c)
             F == Of(Q \ {p}, "fair")
             W == Of(Q \ {p}, "wrr")
  <2>1. p \in Q /\ Q \in SUBSET Tasks /\ ExactFor(rq[c], Q)
    BY <1>0, <1>8, QueuedTasks DEF Queued
  <2>2. ExactFor(out, Q \ {p}) /\ Q \ {p} \in SUBSET Tasks
    BY <2>1, Deactivate DEF IInv
  <2>3. rq' = [rq EXCEPT ![c] = new]
    BY <1>0, <1>8 DEF sched_setscheduler
  <2> HIDE DEF out, w
  <2>4. /\ out \in RunQueues /\ Lists(out.wrr.queue, W) /\ out.wrr.wrr_nr_running = Len(out.wrr.queue)
        /\ out.nr_running = Cardinality(F) + 2 * Cardinality(W)
    BY <2>2 DEF ExactFor
  <2>5. /\ F \in SUBSET Tasks /\ W \in SUBSET Tasks /\ IsFiniteSet(F) /\ IsFiniteSet(W)
        /\ Cardinality(F) \in Nat /\ Cardinality(W) \in Nat /\ p \notin F /\ p \notin W
    BY <2>2, OfTypes DEF Of
  <2>6. /\ Q' = Q
        /\ Of(Q, "wrr")' = IF to = "wrr" THEN W \cup {p} ELSE W
        /\ Of(Q, "fair")' = IF to = "fair" THEN F \cup {p} ELSE F
    BY <1>1, <1>5, <2>1 DEF Of, IInv, TaskTypes
  <2>7. /\ new \in RunQueues /\ Lists(new.wrr.queue, Of(Q, "wrr")')
        /\ new.wrr.wrr_nr_running = Len(new.wrr.queue)
        /\ new.nr_running = Cardinality(Of(Q, "fair")') + 2 * Cardinality(Of(Q, "wrr")')
    <3>1. CASE to = "wrr"
      <4> DEFINE q == Append(out.wrr.queue, p)
      <4>1. Lists(q, W \cup {p}) /\ Len(q) = Len(out.wrr.queue) + 1
        BY <2>4, <2>5, ListAddTail
      <4>2. q \in Seq(Tasks)
        BY <2>4 DEF RunQueues
      <4>3. new = [wrr |-> [queue |-> q, total_weight |-> out.wrr.total_weight + w,
                            wrr_nr_running |-> out.wrr.wrr_nr_running + 1],
                   nr_running |-> out.nr_running + 2]
        BY <3>1 DEF enqueue_wrr_entity
      <4> HIDE DEF q, new
      <4>4. new \in RunQueues
        <5>1. w \in Int /\ out.wrr.total_weight \in Int /\ out.wrr.wrr_nr_running \in Nat /\ out.nr_running \in Nat
          BY <1>2, <2>4 DEF RunQueues
        <5>2. /\ out.wrr.total_weight + w \in Int /\ out.wrr.wrr_nr_running + 1 \in Nat
              /\ out.nr_running + 2 \in Nat
          BY <5>1
        <5> QED BY <4>2, <4>3, <5>2 DEF RunQueues
      <4>5. Of(Q, "wrr")' = W \cup {p} /\ Of(Q, "fair")' = F
        BY <2>6, <3>1
      <4>6. Cardinality(W \cup {p}) = Cardinality(W) + 1
        BY <2>5, FS_AddElement
      <4>7. /\ new.wrr.queue = q /\ new.wrr.wrr_nr_running = out.wrr.wrr_nr_running + 1
            /\ new.nr_running = out.nr_running + 2
        BY <4>3
      <4>8. new.nr_running = Cardinality(F) + 2 * (Cardinality(W) + 1)
        <5> HIDE DEF F, W
        <5> QED BY <2>4, <2>5, <4>7
      <4> QED BY <2>4, <4>1, <4>4, <4>5, <4>6, <4>7, <4>8
    <3>2. CASE to = "fair"
      <4>1. new = [out EXCEPT !.nr_running = out.nr_running + 1]
        BY <3>2
      <4> HIDE DEF new
      <4>2. new \in RunQueues /\ new.wrr = out.wrr /\ new.nr_running = out.nr_running + 1
        BY <2>4, <4>1 DEF RunQueues
      <4>3. Of(Q, "wrr")' = W /\ Of(Q, "fair")' = F \cup {p}
        BY <2>6, <3>2
      <4>4. Cardinality(F \cup {p}) = Cardinality(F) + 1
        BY <2>5, FS_AddElement
      <4>5. new.nr_running = (Cardinality(F) + 1) + 2 * Cardinality(W)
        <5> HIDE DEF F, W
        <5> QED BY <2>4, <2>5, <4>2
      <4> QED BY <2>4, <4>2, <4>3, <4>4, <4>5
    <3> QED BY <3>1, <3>2
  <2> HIDE DEF new
  <2>8. rq' \in [CPUs -> RunQueues] /\ rq'[c] = new /\ \A d \in CPUs \ {c} : rq'[d] = rq[d]
    BY <1>2, <2>3, <2>7 DEF IInv, CpuTypes
  <2>9. \A d \in CPUs \ {c} : p \notin Queued(d)
    BY <1>0 DEF Queued
  <2>10. Queued(c)' = Q
    BY <1>5
  <2>11. ExactFor(rq[c], Queued(c))'
    <3>1. \A cl : Of(Queued(c), cl)' = Of(Q, cl)'
      BY <2>10 DEF Of
    <3> QED BY <2>7, <2>8, <2>10, <3>1 DEF ExactFor, RunQueues
  <2>12. ASSUME NEW d \in CPUs PROVE ExactFor(rq[d], Queued(d))'
    <3>1. CASE d = c
      BY <2>10, <2>11, <3>1
    <3>2. CASE d # c
      BY <1>6, <2>8, <2>9, <3>2
    <3> QED BY <3>1, <3>2
  <2>13. Queues' /\ CpuTypes'
    BY <1>1, <2>8, <2>12 DEF Queues, IInv, CpuTypes
  <2>14. GoingDown'
    BY <1>1, GoingDownKept DEF IInv, GoingDown
  <2> QED BY <1>1, <1>3, <2>13, <2>14, CalmKeeps DEF IInv
<1> QED BY <1>7, <1>8

LEMMA MoveTaskGroupKeeps ==
  ASSUME IInv, NEW p \in Tasks, sched_move_task(p)
  PROVE  IInv'
<1>2. PICK c \in CPUs : c = task_cpu[p]
  BY DEF IInv, TaskTypes
<1> DEFINE r == activate_task(deactivate_task(rq[c], p), p)
<1>1. /\ UNCHANGED <<state, on_rq, on_cpu, task_cpu, cpus_allowed, sched_class, group, curr, need_resched>>
      /\ UNCHANGED <<wake_list, ipi, stop_works, busy, hotVars, changing>>
      /\ hot.phase # "dying" /\ moving' \subseteq moving
  BY DEF sched_move_task
<1>3. \A d : Queued(d)' = Queued(d)
  BY <1>1, QueuedSame
<1>4. Queues' /\ rq' \in [CPUs -> RunQueues] /\ weight' \in [Tasks -> {1, 10}]
  <2>1. CASE ~on_rq[p]
    BY <1>1, <1>3, <2>1, QueuesKept DEF sched_move_task, IInv, TaskTypes, CpuTypes
  <2>2. CASE on_rq[p]
    <3>1. p \in Queued(c) /\ Queued(c) \in SUBSET Tasks /\ ExactFor(rq[c], Queued(c))
      BY <1>2, <2>2, QueuedTasks DEF Queued
    <3>2. ExactFor(deactivate_task(rq[c], p), Queued(c) \ {p})
      BY <3>1, Deactivate DEF IInv
    <3>3. Queued(c) \ {p} \in SUBSET Tasks /\ p \in Tasks \ (Queued(c) \ {p}) /\ (Queued(c) \ {p}) \cup {p} = Queued(c)
      BY <3>1
    <3>4. ExactFor(r, (Queued(c) \ {p}) \cup {p})
      BY <3>2, <3>3, Activate DEF IInv
    <3>5. rq' = [rq EXCEPT ![c] = r] /\ weight' = Weighed({p})
      BY <1>2, <2>2 DEF sched_move_task
    <3> HIDE DEF r
    <3>6. ExactFor(r, Queued(c)')
      BY <1>3, <3>3, <3>4
    <3>7. Queues' /\ rq' \in [CPUs -> RunQueues]
      BY <1>1, <1>2, <1>3, <3>5, <3>6, OneQueue
    <3> QED BY <3>5, <3>7, WeighedType DEF IInv
  <2> QED BY <2>1, <2>2
<1>5. TaskTypes' /\ CpuTypes'
  BY <1>1, <1>4 DEF IInv, TaskTypes, CpuTypes
<1>6. GoingDown'
  BY <1>1, GoingDownKept DEF IInv, GoingDown
<1> QED BY <1>1, <1>4, <1>5, <1>6, CalmKeeps DEF IInv

-----------------------------------------------------------------------------
(* Sleeping and waking *)

LEMMA SetStateKeeps ==
  ASSUME IInv, NEW c \in CPUs, SetCurrentState(c)
  PROVE  IInv'
<1>1. /\ UNCHANGED <<on_rq, on_cpu, task_cpu, cpus_allowed, sched_class, weight, group>>
      /\ UNCHANGED <<rq, curr, need_resched, wake_list, ipi, stop_works, busy, hotVars, changing, moving>>
      /\ CanAct(c) /\ curr[c] \in Tasks /\ state' = [state EXCEPT ![curr[c]] = "sleeping"]
      /\ state[curr[c]] = "running"
  BY DEF SetCurrentState, cpuVars
<1>2. TaskTypes' /\ CpuTypes' /\ HotTypes'
  <2>1. state' \in [Tasks -> {"running", "sleeping", "waking"}]
    BY <1>1 DEF IInv, TaskTypes
  <2> QED BY <1>1, <2>1 DEF IInv, TaskTypes, CpuTypes, HotTypes, hotVars
<1>3. \A d : Queued(d)' = Queued(d)
  BY <1>1, QueuedSame
<1>4. Queues' /\ DownEmpty' /\ Running'
  BY <1>1, <1>3, QueuesKept, DownKept, RunningKept
<1>5. WakingStay
  BY <1>1 DEF IInv, TaskTypes, Running, States, WakingStay
<1>6. Wakers' /\ WakeLists' /\ States'
  BY <1>1, <1>5, WakesKept
<1>7. GoingDown'
  BY <1>1, NotDying, GoingDownKept DEF IInv, GoingDown
<1> QED BY <1>2, <1>4, <1>6, <1>7 DEF IInv

LEMMA TryToWakeUpKeeps ==
  ASSUME IInv, NEW c \in CPUs, NEW p \in Tasks, try_to_wake_up(c, p)
  PROVE  IInv'
<1> DEFINE b == [op |-> IF on_rq[p] THEN "remote" ELSE "spin", p |-> p]
<1>1. /\ UNCHANGED <<state, on_rq, on_cpu, task_cpu, cpus_allowed, sched_class, weight, group>>
      /\ UNCHANGED <<rq, curr, need_resched, wake_list, ipi, stop_works, hotVars, changing, moving>>
      /\ CanAct(c) /\ PiLockFree(p) /\ state[p] = "sleeping" /\ busy' = [busy EXCEPT ![c] = b]
  BY DEF try_to_wake_up, taskVars
<1>2. b \in Ops /\ b.op \in {"remote", "spin"} /\ b.p = p /\ (b.op = "spin" => ~on_rq[p])
  BY DEF Ops
<1> HIDE DEF b
<1>3. /\ (\A d \in CPUs \ {c} : busy'[d] = busy[d]) /\ busy'[c] = b /\ busy' \in [CPUs -> Ops]
      /\ busy[c].op = "none"
  BY <1>1, <1>2 DEF IInv, CpuTypes, CanAct, NoOp
<1>4. \A d : Queued(d)' = Queued(d)
  BY <1>1, QueuedSame
<1>5. Queues' /\ DownEmpty'
  BY <1>1, <1>4, QueuesKept, DownKept
<1>6. Running'
  BY <1>1, <1>2, <1>3, RunningKept DEF IInv, CpuTypes
<1>7. TaskTypes' /\ CpuTypes' /\ HotTypes'
  BY <1>1, <1>3, <1>2 DEF IInv, TaskTypes, CpuTypes, HotTypes, hotVars
<1>8. Wakers'
  <2>1. \A d \in CPUs : busy[d].op \in WakeOps => busy[d].p # p
    BY <1>1 DEF PiLockFree, WakeOps
  <2>2. \A d, e \in CPUs : busy'[d].op \in WakeOps /\ busy'[e].op \in WakeOps /\ busy'[d].p = busy'[e].p => d = e
    BY <1>2, <1>3, <2>1 DEF IInv, Wakers
  <2>3. ASSUME NEW d \in CPUs
        PROVE  /\ busy'[d].op = "remote" => state[busy'[d].p] # "waking"
               /\ busy'[d].op = "spin" => state[busy'[d].p] = "sleeping" /\ ~on_rq[busy'[d].p]
               /\ busy'[d].op = "select" =>
                    state[busy'[d].p] = "waking" /\ \A e \in CPUs : busy'[d].p \notin Linked(wake_list[e])
    <3>1. CASE d = c
      BY <1>1, <1>2, <1>3, <3>1
    <3>2. CASE d # c
      BY <1>3, <3>2 DEF IInv, Wakers
    <3> QED BY <3>1, <3>2
  <2> QED BY <1>1, <2>2, <2>3 DEF Wakers, Linked
<1>9. WakeLists'
  BY <1>1, WakeListsSame DEF IInv
<1>10. States'
  <2>1. ASSUME NEW t \in Tasks, state[t] = "waking"
        PROVE  \/ t \in Linked(wake_list[task_cpu[t]])
               \/ \E d \in CPUs : busy'[d].op = "select" /\ busy'[d].p = t
    BY <1>3, <2>1 DEF IInv, States
  <2> QED BY <1>1, <2>1 DEF IInv, States, Linked
<1>11. GoingDown'
  <2>1. hot.phase # "dying" /\ c \in cpu_online
    BY <1>1, NotDying
  <2>2. \A d \in CPUs \ cpu_online : busy'[d] = NoOp
    BY <1>3, <2>1 DEF IInv, GoingDown
  <2> QED BY <1>1, <2>1, <2>2, GoingDownKept
<1> QED BY <1>5, <1>6, <1>7, <1>8, <1>9, <1>10, <1>11 DEF IInv

LEMMA TtwuRemoteKeeps ==
  ASSUME IInv, NEW c \in CPUs, ttwu_remote(c)
  PROVE  IInv'
<1>0. PICK p : p = busy[c].p
  OBVIOUS
<1>1. /\ UNCHANGED <<on_rq, on_cpu, task_cpu, cpus_allowed, sched_class, weight, group>>
      /\ UNCHANGED <<rq, curr, wake_list, ipi, stop_works, hotVars, changing, moving>>
      /\ busy[c].op = "remote"
  BY DEF ttwu_remote
<1>2. p \in Tasks /\ state[p] # "waking" /\ hot.phase # "dying" /\ c \in cpu_online
  BY <1>0, <1>1, OpKinds, NotDying DEF IInv, Wakers, WakeOps
<1>3. \A d : Queued(d)' = Queued(d)
  BY <1>1, QueuedSame
<1>4. Queues' /\ DownEmpty'
  BY <1>1, <1>3, QueuesKept, DownKept
<1>5. CASE on_rq[p]
  <2>1. /\ state' = [state EXCEPT ![p] = "running"] /\ busy' = [busy EXCEPT ![c] = NoOp]
        /\ Resched(task_cpu[p], check_preempt_curr(task_cpu[p], p))
    BY <1>0, <1>5 DEF ttwu_remote
  <2>2. /\ (\A d \in CPUs \ {c} : busy'[d] = busy[d]) /\ busy' \in [CPUs -> Ops]
        /\ busy'[c] = NoOp /\ NoOp.op = "none"
    BY <2>1 DEF IInv, CpuTypes, Ops, NoOp
  <2>3. TaskTypes' /\ CpuTypes' /\ HotTypes'
    <3>1. state' \in [Tasks -> {"running", "sleeping", "waking"}] /\ task_cpu[p] \in CPUs
      BY <1>2, <2>1 DEF IInv, TaskTypes
    <3>2. need_resched' \in [CPUs -> BOOLEAN]
      <4>1. PICK A \in SUBSET BOOLEAN : Resched(task_cpu[p], A)
        BY <2>1, PreemptAnswers
      <4> QED BY <3>1, <4>1, ReschedType DEF IInv
    <3> QED BY <1>1, <2>2, <3>1, <3>2 DEF IInv, TaskTypes, CpuTypes, HotTypes, hotVars
  <2>4. Running'
    BY <1>1, <2>2, RunningKept
  <2>5. WakingStay
    BY <1>1, <1>2, <1>5, <2>1 DEF IInv, TaskTypes, States, WakingStay
  <2>6. Wakers' /\ WakeLists' /\ States'
    <3>1. /\ \A d \in CPUs : busy[d].op = "select" => busy'[d].op = "select" /\ busy'[d].p = busy[d].p
          /\ \A d \in CPUs : busy'[d].op \in WakeOps => busy'[d].op = busy[d].op /\ busy'[d].p = busy[d].p
      BY <1>1, <2>2 DEF WakeOps
    <3> QED BY <1>1, <2>5, <3>1, WakesKept
  <2>7. GoingDown'
    BY <1>1, <1>2, <2>2, GoingDownKept DEF IInv, GoingDown
  <2> QED BY <1>4, <2>3, <2>4, <2>6, <2>7 DEF IInv
<1>6. CASE ~on_rq[p]
  <2> DEFINE b == [op |-> "spin", p |-> p]
  <2>1. UNCHANGED <<state, need_resched>> /\ busy' = [busy EXCEPT ![c] = b]
    BY <1>0, <1>6 DEF ttwu_remote
  <2>2. b \in Ops /\ b.op = "spin" /\ b.p = p
    BY <1>2 DEF Ops
  <2> HIDE DEF b
  <2>3. /\ (\A d \in CPUs \ {c} : busy'[d] = busy[d]) /\ busy' \in [CPUs -> Ops]
        /\ busy'[c] = b
    BY <2>1, <2>2 DEF IInv, CpuTypes
  <2>4. TaskTypes' /\ CpuTypes' /\ HotTypes'
    <3>1. TaskTypes' /\ HotTypes'
      BY <1>1, <2>1 DEF IInv, TaskTypes, HotTypes, hotVars
    <3>2. CpuTypes'
      BY <1>1, <2>1, <2>3 DEF IInv, CpuTypes
    <3> QED BY <3>1, <3>2
  <2>5. Running'
    BY <1>1, <2>2, <2>3, RunningKept DEF IInv, CpuTypes
  <2>6. Wakers'
    <3>1. state[p] = "sleeping"
      BY <1>2, <1>6 DEF IInv, TaskTypes, States
    <3>2. \A d, e \in CPUs : busy'[d].op \in WakeOps /\ busy'[e].op \in WakeOps /\ busy'[d].p = busy'[e].p => d = e
      BY <1>0, <1>1, <2>2, <2>3 DEF IInv, Wakers, WakeOps
    <3>3. ASSUME NEW d \in CPUs
          PROVE  /\ busy'[d].op = "remote" => state[busy'[d].p] # "waking"
                 /\ busy'[d].op = "spin" => state[busy'[d].p] = "sleeping" /\ ~on_rq[busy'[d].p]
                 /\ busy'[d].op = "select" =>
                      state[busy'[d].p] = "waking" /\ \A e \in CPUs : busy'[d].p \notin Linked(wake_list[e])
      <4>1. CASE d = c
        BY <1>6, <2>2, <2>3, <3>1, <4>1
      <4>2. CASE d # c
        BY <2>3, <4>2 DEF IInv, Wakers
      <4> QED BY <4>1, <4>2
    <3> QED BY <1>1, <2>1, <3>2, <3>3 DEF Wakers, Linked
  <2>7. WakeLists'
    BY <1>1, <2>1, WakeListsSame DEF IInv
  <2>8. States'
    <3>1. ASSUME NEW t \in Tasks, state[t] = "waking"
          PROVE  \/ t \in Linked(wake_list[task_cpu[t]])
                 \/ \E d \in CPUs : busy'[d].op = "select" /\ busy'[d].p = t
      BY <1>1, <2>3, <3>1 DEF IInv, States
    <3> QED BY <1>1, <2>1, <3>1 DEF IInv, States, Linked
  <2>9. GoingDown'
    BY <1>1, <1>2, <2>3, GoingDownKept DEF IInv, GoingDown
  <2> QED BY <1>4, <2>4, <2>5, <2>6, <2>7, <2>8, <2>9 DEF IInv
<1> QED BY <1>5, <1>6

-----------------------------------------------------------------------------
(* Placing a task that is woken *)

\* A task that may be placed: off its CPU, queued and listed nowhere, and c holds its lock.
Placing(c, p) ==
  /\ busy[c].op \in {"spin", "select"} /\ p = busy[c].p
  /\ p \in Tasks /\ ~on_cpu[p] /\ ~on_rq[p] /\ state[p] # "running"
  /\ \A d \in CPUs : p \notin Linked(wake_list[d])

LEMMA IsPlacing ==
  ASSUME IInv, NEW c \in CPUs,
         (busy[c].op = "spin" /\ ~on_cpu[busy[c].p]) \/ busy[c].op = "select"
  PROVE  Placing(c, busy[c].p) /\ hot.phase # "dying" /\ c \in cpu_online
<1>1. busy[c].p \in Tasks /\ hot.phase # "dying" /\ c \in cpu_online
  BY OpKinds, NotDying DEF IInv, WakeOps
<1>2. CASE busy[c].op = "spin" /\ ~on_cpu[busy[c].p]
  BY <1>1, <1>2 DEF IInv, Wakers, WakeLists, Placing
<1>3. CASE busy[c].op = "select"
  BY <1>1, <1>3 DEF IInv, Wakers, States, Placing
<1> QED BY <1>1, <1>2, <1>3

\* p, and only p, is placed by c: on the wake_list of its CPU or on a queue.
Placed(c, p) ==
  /\ busy' = [busy EXCEPT ![c] = NoOp] /\ on_cpu' = on_cpu
  /\ \A t \in Tasks \ {p} : state'[t] = state[t] /\ on_rq'[t] = on_rq[t] /\ task_cpu'[t] = task_cpu[t]
  /\ state'[p] = "waking" => ~on_rq'[p]
  /\ state'[p] = "running" => on_rq'[p]
  /\ task_cpu'[p] \in CPUs
  /\ \A d \in CPUs :
       /\ wake_list'[d] # << >> => ipi'[d]
       /\ Lists(wake_list'[d], Linked(wake_list'[d]))
       /\ Linked(wake_list'[d]) =
            Linked(wake_list[d]) \cup (IF state'[p] = "waking" /\ task_cpu'[p] = d THEN {p} ELSE {})

LEMMA OthersWake ==
  ASSUME IInv, NEW c \in CPUs, NEW p, Placing(c, p), Placed(c, p)
  PROVE  Wakers' /\ WakeLists' /\ States'
<1> USE DEF Placed
<1>1. (\A d \in CPUs \ {c} : busy'[d] = busy[d]) /\ busy'[c].op = "none" /\ busy'[c] = NoOp
  BY DEF IInv, CpuTypes, NoOp
<1>2. \A d \in CPUs : busy'[d].op \in WakeOps => d # c /\ busy'[d] = busy[d] /\ busy[d].p \in Tasks \ {p}
  <2>1. \A d \in CPUs : busy[d].op \in WakeOps => busy[d].p \in Tasks
    BY OpKinds DEF IInv
  <2> QED BY <1>1, <2>1 DEF IInv, Wakers, Placing, WakeOps
<1>3. \A d \in CPUs : \A t \in Linked(wake_list[d]) : t \in Tasks \ {p}
  BY DEF IInv, CpuTypes, Linked, Placing
<1>4. Wakers'
  <2>1. \A d, e \in CPUs : busy'[d].op \in WakeOps /\ busy'[e].op \in WakeOps /\ busy'[d].p = busy'[e].p => d = e
    BY <1>2 DEF IInv, Wakers
  <2>2. ASSUME NEW d \in CPUs
        PROVE  /\ busy'[d].op = "remote" => state'[busy'[d].p] # "waking"
               /\ busy'[d].op = "spin" => state'[busy'[d].p] = "sleeping" /\ ~on_rq'[busy'[d].p]
               /\ busy'[d].op = "select" =>
                    state'[busy'[d].p] = "waking" /\ \A e \in CPUs : busy'[d].p \notin Linked(wake_list'[e])
    <3>1. CASE busy'[d].op \in WakeOps
      <4>1. busy'[d] = busy[d] /\ busy[d].p \in Tasks \ {p}
        BY <1>2, <3>1
      <4>2. \A e \in CPUs : busy[d].p \in Linked(wake_list'[e]) => busy[d].p \in Linked(wake_list[e])
        BY <4>1
      <4> QED BY <4>1, <4>2 DEF IInv, Wakers
    <3>2. CASE busy'[d].op \notin WakeOps
      BY <3>2 DEF WakeOps
    <3> QED BY <3>1, <3>2
  <2> QED BY <2>1, <2>2 DEF Wakers, Linked
<1>5. WakeLists'
  <2>1. ASSUME NEW d \in CPUs
        PROVE  /\ Lists(wake_list'[d], Linked(wake_list'[d]))
               /\ \A t \in Linked(wake_list'[d]) : state'[t] = "waking" /\ task_cpu'[t] = d
               /\ wake_list'[d] # << >> => ipi'[d]
    <3>1. \A t \in Linked(wake_list[d]) : state'[t] = "waking" /\ task_cpu'[t] = d
      BY <1>3 DEF IInv, WakeLists
    <3> QED BY <3>1
  <2> QED BY <2>1 DEF WakeLists, Linked, Lists
<1>6. States'
  <2>1. ASSUME NEW t \in Tasks
        PROVE  /\ state'[t] = "running" => on_rq'[t]
               /\ state'[t] = "waking" =>
                    /\ ~on_rq'[t] /\ ~on_cpu[t]
                    /\ t \in Linked(wake_list'[task_cpu'[t]]) \/ \E d \in CPUs : busy'[d].op = "select" /\ busy'[d].p = t
    <3>1. CASE t = p
      BY <3>1 DEF Placing
    <3>2. CASE t # p
      <4>1. state[t] = "waking" =>
              t \in Linked(wake_list[task_cpu[t]]) \/ \E d \in CPUs : busy'[d].op = "select" /\ busy'[d].p = t
        BY <1>1, <3>2 DEF IInv, States, Placing
      <4>2. task_cpu[t] \in CPUs
        BY DEF IInv, TaskTypes
      <4>3. state'[t] = state[t] /\ on_rq'[t] = on_rq[t] /\ task_cpu'[t] = task_cpu[t]
        BY <3>2
      <4>4. t \in Linked(wake_list[task_cpu[t]]) => t \in Linked(wake_list'[task_cpu[t]])
        BY <4>2
      <4> HIDE DEF Placed
      <4> QED BY <4>1, <4>3, <4>4 DEF IInv, States
    <3> QED BY <3>1, <3>2
  <2> QED BY <2>1 DEF States, Linked
<1> QED BY <1>4, <1>5, <1>6

\* set_task_cpu() and ttwu_queue().
LEMMA QueueKeeps ==
  ASSUME IInv, NEW c \in CPUs, NEW p, Placing(c, p), NEW result \in CPUs, Queue(c, p, result),
         hot.phase # "dying", c \in cpu_online,
         UNCHANGED <<on_cpu, sched_class, group, curr, stop_works, hotVars, changing, moving>>
  PROVE  IInv'
<1> DEFINE valid == result \in cpus_allowed[p] /\ result \in cpu_online
           f == select_fallback_rq(p)
           to == IF valid THEN result ELSE f.dest
<1>1. /\ p \in Tasks /\ ~on_cpu[p] /\ ~on_rq[p] /\ state[p] # "running"
      /\ \A d \in CPUs : p \notin Linked(wake_list[d])
  BY DEF Placing
<1>2. f.dest \in cpu_active /\ f.allowed \in [Tasks -> SUBSET CPUs]
  BY <1>1, Fallback
<1>3. PICK dest \in CPUs \ Down : dest = to
  <2>1. to \in cpu_online \cup cpu_active
    BY <1>2
  <2> HIDE DEF to
  <2> QED BY <2>1 DEF IInv, HotTypes, Down
<1>4. cpus_allowed' \in [Tasks -> SUBSET CPUs]
  <2>1. cpus_allowed' = IF valid THEN cpus_allowed ELSE f.allowed
    BY DEF Queue
  <2> QED BY <1>2, <2>1 DEF IInv, TaskTypes
<1>5. /\ task_cpu' = [task_cpu EXCEPT ![p] = dest] /\ busy' = [busy EXCEPT ![c] = NoOp]
      /\ \/ /\ dest = c /\ rq' = [rq EXCEPT ![c] = activate_task(rq[c], p)] /\ weight' = Weighed({p})
            /\ on_rq' = [on_rq EXCEPT ![p] = TRUE] /\ Resched(c, check_preempt_curr(c, p))
            /\ state' = [state EXCEPT ![p] = "running"] /\ UNCHANGED <<wake_list, ipi>>
         \/ /\ dest # c /\ wake_list' = [wake_list EXCEPT ![dest] = <<p>> \o wake_list[dest]]
            /\ ipi' = [ipi EXCEPT ![dest] = ipi[dest] \/ wake_list[dest] = << >>]
            /\ state' = [state EXCEPT ![p] = "waking"]
            /\ UNCHANGED <<rq, weight, on_rq, need_resched>>
  BY <1>3 DEF Queue
<1> HIDE DEF valid, f, to
<1>6. /\ task_cpu' \in [Tasks -> CPUs] /\ task_cpu'[p] = dest
      /\ \A t \in Tasks \ {p} : task_cpu'[t] = task_cpu[t]
  BY <1>1, <1>5 DEF IInv, TaskTypes
<1>7. /\ busy' \in [CPUs -> Ops] /\ busy'[c] = NoOp /\ NoOp.op = "none"
      /\ \A d \in CPUs \ {c} : busy'[d] = busy[d]
  BY <1>5 DEF IInv, CpuTypes, Ops, NoOp
<1>8. GoingDown'
  BY <1>7, GoingDownKept DEF IInv, GoingDown
<1>9. Still(p)
  BY <1>1, OffCpu
<1>10. CASE dest = c
  <2>1. /\ rq' = [rq EXCEPT ![c] = activate_task(rq[c], p)] /\ weight' = Weighed({p})
        /\ on_rq' = [on_rq EXCEPT ![p] = TRUE] /\ Resched(c, check_preempt_curr(c, p))
        /\ state' = [state EXCEPT ![p] = "running"] /\ UNCHANGED <<wake_list, ipi>>
    BY <1>5, <1>10
  <2>2. /\ state' \in [Tasks -> {"running", "sleeping", "waking"}] /\ on_rq' \in [Tasks -> BOOLEAN]
        /\ state'[p] = "running" /\ on_rq'[p]
        /\ \A t \in Tasks \ {p} : state'[t] = state[t] /\ on_rq'[t] = on_rq[t]
    BY <1>1, <2>1 DEF IInv, TaskTypes
  <2>3. weight' \in [Tasks -> {1, 10}] /\ need_resched' \in [CPUs -> BOOLEAN]
    BY <2>1, WeighedType, PreemptAnswers, ReschedType DEF IInv
  <2>4. Queued(c)' = Queued(c) \cup {p} /\ \A d \in CPUs \ {c} : Queued(d)' = Queued(d)
    BY <1>1, <1>6, <1>10, <2>2 DEF Queued
  <2>5. p \in Tasks \ Queued(c)
    BY <1>1 DEF Queued
  <2>6. ExactFor(activate_task(rq[c], p), Queued(c) \cup {p})
    BY <2>5, QueuedTasks, Activate DEF IInv
  <2>7. Queues' /\ rq' \in [CPUs -> RunQueues]
    <3>1. ExactFor(activate_task(rq[c], p), Queued(c)')
      BY <2>4, <2>6
    <3> QED BY <2>1, <2>4, <3>1, OneQueue
  <2>8. TaskTypes' /\ CpuTypes' /\ HotTypes'
    <3>1. TaskTypes' /\ HotTypes'
      BY <1>4, <1>6, <2>2, <2>3 DEF IInv, TaskTypes, HotTypes, hotVars
    <3>2. CpuTypes'
      BY <1>7, <2>1, <2>3, <2>7 DEF IInv, CpuTypes
    <3> QED BY <3>1, <3>2
  <2>9. Running'
    BY <1>6, <1>7, <1>9, <2>2, RunningKept DEF Still
  <2>10. Wakers' /\ WakeLists' /\ States'
    <3>1. \A d \in CPUs : /\ Lists(wake_list'[d], Linked(wake_list'[d])) /\ (wake_list'[d] # << >> => ipi'[d])
                          /\ Linked(wake_list'[d]) = Linked(wake_list[d])
      BY <2>1 DEF IInv, WakeLists
    <3>2. Placed(c, p)
      BY <1>5, <1>6, <2>2, <3>1 DEF Placed
    <3> QED BY <3>2, OthersWake
  <2>11. DownEmpty'
    <3>1. Down \subseteq CPUs \ {c}
      BY DEF Down
    <3> QED BY <2>1, <2>4, <3>1, DownKept
  <2> QED BY <1>8, <2>7, <2>8, <2>9, <2>10, <2>11 DEF IInv
<1>11. CASE dest # c
  <2> DEFINE q == <<p>> \o wake_list[dest]
  <2>1. /\ wake_list' = [wake_list EXCEPT ![dest] = q]
        /\ ipi' = [ipi EXCEPT ![dest] = ipi[dest] \/ wake_list[dest] = << >>]
        /\ state' = [state EXCEPT ![p] = "waking"]
        /\ UNCHANGED <<rq, weight, on_rq, need_resched>>
    BY <1>5, <1>11
  <2>2. /\ state' \in [Tasks -> {"running", "sleeping", "waking"}] /\ state'[p] = "waking"
        /\ \A t \in Tasks \ {p} : state'[t] = state[t]
    BY <1>1, <2>1 DEF IInv, TaskTypes
  <2>3. \A d \in CPUs : Queued(d)' = Queued(d)
    BY <1>1, <1>6, <2>1 DEF Queued
  <2>4. /\ q \in Seq(Tasks) /\ Lists(q, Linked(wake_list[dest]) \cup {p})
        /\ Linked(q) = Linked(wake_list[dest]) \cup {p}
    <3>1. Lists(wake_list[dest], Linked(wake_list[dest])) /\ wake_list[dest] \in Seq(Tasks)
      BY DEF IInv, WakeLists, CpuTypes
    <3>2. Lists(q, Linked(wake_list[dest]) \cup {p})
      BY <1>1, <3>1, ListAddHead
    <3>3. q \in Seq(Tasks)
      BY <1>1, <3>1
    <3> QED BY <3>2, <3>3, LinkedLists
  <2> HIDE DEF q
  <2>5. /\ wake_list' \in [CPUs -> Seq(Tasks)] /\ ipi' \in [CPUs -> BOOLEAN]
        /\ wake_list'[dest] = q /\ \A d \in CPUs \ {dest} : wake_list'[d] = wake_list[d]
    BY <2>1, <2>4 DEF IInv, CpuTypes
  <2>6. Queues'
    BY <2>1, <2>3, QueuesKept
  <2>7. TaskTypes' /\ CpuTypes' /\ HotTypes'
    <3>1. TaskTypes' /\ HotTypes'
      BY <1>4, <1>6, <2>1, <2>2 DEF IInv, TaskTypes, HotTypes, hotVars
    <3>2. CpuTypes'
      BY <1>7, <2>1, <2>5 DEF IInv, CpuTypes
    <3> QED BY <3>1, <3>2
  <2>8. Running'
    BY <1>6, <1>7, <1>9, <2>1, RunningKept DEF Still
  <2>9. Wakers' /\ WakeLists' /\ States'
    <3>1. ASSUME NEW d \in CPUs
          PROVE  /\ Lists(wake_list'[d], Linked(wake_list'[d])) /\ (wake_list'[d] # << >> => ipi'[d])
                 /\ Linked(wake_list'[d]) =
                      Linked(wake_list[d]) \cup (IF state'[p] = "waking" /\ task_cpu'[p] = d THEN {p} ELSE {})
      <4>1. CASE d = dest
        <5>1. Lists(wake_list'[d], Linked(wake_list'[d])) /\ Linked(wake_list'[d]) = Linked(wake_list[d]) \cup {p}
          BY <2>4, <2>5, <4>1
        <5>2. ipi'[d]
          BY <2>1, <4>1 DEF IInv, CpuTypes, WakeLists
        <5> QED BY <1>6, <2>2, <4>1, <5>1, <5>2
      <4>2. CASE d # dest
        <5>1. wake_list'[d] = wake_list[d] /\ ipi'[d] = ipi[d]
          BY <2>1, <2>5, <4>2 DEF IInv, CpuTypes
        <5> QED BY <1>6, <4>2, <5>1 DEF IInv, WakeLists
      <4> QED BY <4>1, <4>2
    <3>2. Placed(c, p)
      BY <1>1, <1>5, <1>6, <2>1, <2>2, <3>1 DEF Placed
    <3> QED BY <3>2, OthersWake
  <2>10. DownEmpty'
    <3>1. Down \subseteq CPUs \ {dest}
      BY DEF Down
    <3> QED BY <2>3, <2>5, <3>1, DownKept
  <2> QED BY <1>8, <2>6, <2>7, <2>8, <2>9, <2>10 DEF IInv
<1> QED BY <1>10, <1>11

\* The search of select_task_rq_wrr() begins or goes on.
LEMMA SearchKeeps ==
  ASSUME IInv, NEW c \in CPUs, NEW p, Placing(c, p), hot.phase # "dying", c \in cpu_online,
         NEW b \in Ops, b.op = "select", b.p = p, busy' = [busy EXCEPT ![c] = b],
         state' = [state EXCEPT ![p] = "waking"],
         UNCHANGED <<on_rq, on_cpu, task_cpu, cpus_allowed, sched_class, weight, group>>,
         UNCHANGED <<rq, curr, need_resched, wake_list, ipi, stop_works, hotVars, changing, moving>>
  PROVE  IInv'
<1>1. /\ p \in Tasks /\ ~on_cpu[p] /\ ~on_rq[p] /\ state[p] # "running" /\ p = busy[c].p
      /\ busy[c].op \in WakeOps /\ \A d \in CPUs : p \notin Linked(wake_list[d])
  BY DEF Placing, WakeOps
<1>2. /\ busy' \in [CPUs -> Ops] /\ busy'[c] = b
      /\ \A d \in CPUs \ {c} : busy'[d] = busy[d]
  BY DEF IInv, CpuTypes
<1>3. /\ state' \in [Tasks -> {"running", "sleeping", "waking"}] /\ state'[p] = "waking"
      /\ \A t \in Tasks \ {p} : state'[t] = state[t]
  BY <1>1 DEF IInv, TaskTypes
<1>4. TaskTypes' /\ CpuTypes' /\ HotTypes'
  <2>1. TaskTypes' /\ HotTypes'
    BY <1>3 DEF IInv, TaskTypes, HotTypes, hotVars
  <2>2. CpuTypes'
    BY <1>2 DEF IInv, CpuTypes
  <2> QED BY <2>1, <2>2
<1>5. \A d : Queued(d)' = Queued(d)
  BY QueuedSame
<1>6. Queues' /\ DownEmpty'
  BY <1>5, QueuesKept, DownKept
<1>7. Running'
  BY <1>2, RunningKept
<1>8. Wakers'
  <2>1. \A d, e \in CPUs : busy'[d].op \in WakeOps /\ busy'[e].op \in WakeOps /\ busy'[d].p = busy'[e].p => d = e
    BY <1>1, <1>2 DEF IInv, Wakers
  <2>2. ASSUME NEW d \in CPUs
        PROVE  /\ busy'[d].op = "remote" => state'[busy'[d].p] # "waking"
               /\ busy'[d].op = "spin" => state'[busy'[d].p] = "sleeping" /\ ~on_rq[busy'[d].p]
               /\ busy'[d].op = "select" =>
                    state'[busy'[d].p] = "waking" /\ \A e \in CPUs : busy'[d].p \notin Linked(wake_list[e])
    <3>1. CASE d = c
      BY <1>1, <1>2, <1>3, <3>1
    <3>2. CASE d # c /\ busy[d].op \in WakeOps
      <4>1. busy[d].p \in Tasks \ {p}
        BY <1>1, <3>2, OpKinds DEF IInv, Wakers
      <4> QED BY <1>2, <1>3, <3>2, <4>1 DEF IInv, Wakers
    <3>3. CASE d # c /\ busy[d].op \notin WakeOps
      BY <1>2, <3>3 DEF WakeOps
    <3> QED BY <3>1, <3>2, <3>3
  <2> QED BY <2>1, <2>2 DEF Wakers, Linked
<1>9. WakeLists'
  <2>1. \A d \in CPUs : \A t \in Linked(wake_list[d]) : t \in Tasks \ {p}
    BY <1>1 DEF IInv, CpuTypes, Linked
  <2>2. ASSUME NEW d \in CPUs
        PROVE  /\ Lists(wake_list'[d], Linked(wake_list'[d]))
               /\ \A t \in Linked(wake_list'[d]) : state'[t] = "waking" /\ task_cpu'[t] = d
               /\ wake_list'[d] # << >> => ipi'[d]
    BY <1>3, <2>1 DEF IInv, WakeLists
  <2> QED BY <2>2 DEF WakeLists, Linked, Lists
<1>10. States'
  <2>1. ASSUME NEW t \in Tasks
        PROVE  /\ state'[t] = "running" => on_rq[t]
               /\ state'[t] = "waking" =>
                    /\ ~on_rq[t] /\ ~on_cpu[t]
                    /\ t \in Linked(wake_list[task_cpu[t]]) \/ \E d \in CPUs : busy'[d].op = "select" /\ busy'[d].p = t
    <3>1. CASE t = p
      BY <1>1, <1>2, <1>3, <3>1
    <3>2. CASE t # p
      BY <1>1, <1>2, <1>3, <3>2 DEF IInv, States
    <3> QED BY <3>1, <3>2
  <2> QED BY <2>1 DEF States, Linked
<1>11. GoingDown'
  <2>1. \A d \in CPUs \ cpu_online : busy'[d] = NoOp
    BY <1>2 DEF IInv, GoingDown
  <2> QED BY <2>1, GoingDownKept
<1> QED BY <1>4, <1>6, <1>7, <1>8, <1>9, <1>10, <1>11 DEF IInv

LEMMA TtwuWaitKeeps ==
  ASSUME IInv, NEW c \in CPUs, ttwu_wait(c)
  PROVE  IInv'
<1>0. PICK p : p = busy[c].p
  OBVIOUS
<1>1. /\ UNCHANGED <<on_cpu, sched_class, group, curr, stop_works, hotVars, changing, moving>>
      /\ busy[c].op = "spin" /\ ~on_cpu[p]
  BY <1>0 DEF ttwu_wait
<1>2. Placing(c, p) /\ hot.phase # "dying" /\ c \in cpu_online
  BY <1>0, <1>1, IsPlacing
<1>3. p \in Tasks /\ task_cpu[p] \in CPUs
  BY <1>2 DEF Placing, IInv, TaskTypes
<1>4. CASE sched_class[p] = "wrr" /\ Cardinality(cpus_allowed[p]) # 1
  <2> DEFINE b == [op |-> "select", p |-> p, result |-> task_cpu[p],
                   minimum_weight |-> rq[task_cpu[p]].wrr.total_weight, next |-> 0]
  <2>1. /\ busy' = [busy EXCEPT ![c] = b] /\ state' = [state EXCEPT ![p] = "waking"]
        /\ UNCHANGED <<task_cpu, cpus_allowed, rq, weight, on_rq, need_resched, wake_list, ipi>>
    BY <1>0, <1>4 DEF ttwu_wait
  <2>2. b \in Ops
    <3>1. rq[task_cpu[p]].wrr.total_weight \in Int /\ 0 \in 0 .. NR_CPUS
      BY <1>3, QueuedTasks, CpuNumbers DEF RunQueues
    <3> QED BY <1>3, <3>1 DEF Ops
  <2>3. b.op = "select" /\ b.p = p
    OBVIOUS
  <2> HIDE DEF b
  <2> QED BY <1>1, <1>2, <2>1, <2>2, <2>3, SearchKeeps
<1>5. CASE ~(sched_class[p] = "wrr" /\ Cardinality(cpus_allowed[p]) # 1)
  <2>1. PICK result \in CPUs : Queue(c, p, result)
    <3>1. \E result \in IF sched_class[p] = "wrr" THEN {task_cpu[p]} ELSE CPUs : Queue(c, p, result)
      BY <1>0, <1>5 DEF ttwu_wait
    <3> QED BY <1>3, <3>1
  <2> QED BY <1>1, <1>2, <2>1, QueueKeeps
<1> QED BY <1>4, <1>5

LEMMA SelectKeeps ==
  ASSUME IInv, NEW c \in CPUs, select_task_rq_wrr(c)
  PROVE  IInv'
<1>0. PICK b, p : b = busy[c] /\ p = b.p
  OBVIOUS
<1>1. /\ UNCHANGED <<on_cpu, sched_class, group, curr, stop_works, hotVars, changing, moving>>
      /\ b.op = "select"
  BY <1>0 DEF select_task_rq_wrr
<1>2. Placing(c, p) /\ hot.phase # "dying" /\ c \in cpu_online
  BY <1>0, <1>1, IsPlacing
<1>3. b \in [op : {"select"}, p : Tasks, result : CPUs, minimum_weight : Int, next : 0 .. NR_CPUS]
  BY <1>0, <1>1, OpKinds DEF IInv
<1>4. state[p] = "waking"
  BY <1>0, <1>1 DEF IInv, Wakers
<1>5. CASE b.next < NR_CPUS
  <2> DEFINE better == /\ b.next \in cpu_online /\ b.next \in cpus_allowed[b.p]
                       /\ rq[b.next].wrr.total_weight < b.minimum_weight
             n == [b EXCEPT !.next = b.next + 1,
                            !.result = IF better THEN b.next ELSE b.result,
                            !.minimum_weight = IF better THEN rq[b.next].wrr.total_weight ELSE b.minimum_weight]
  <2>1. /\ busy' = [busy EXCEPT ![c] = n]
        /\ UNCHANGED <<state, task_cpu, cpus_allowed, rq, weight, on_rq, need_resched, wake_list, ipi>>
    BY <1>0, <1>5 DEF select_task_rq_wrr
  <2>2. b.next + 1 \in 0 .. NR_CPUS /\ b.next \in CPUs
    BY <1>3, <1>5, CpuNumbers DEF CPUs
  <2>3. rq[b.next].wrr.total_weight \in Int
    BY <2>2, QueuedTasks DEF RunQueues
  <2>4. n \in [op : {"select"}, p : Tasks, result : CPUs, minimum_weight : Int, next : 0 .. NR_CPUS]
        /\ n.op = "select" /\ n.p = p
    <3> HIDE DEF better
    <3> QED BY <1>0, <1>3, <2>2, <2>3
  <2> HIDE DEF n
  <2>5. n \in Ops
    BY <2>4 DEF Ops
  <2>6. state' = [state EXCEPT ![p] = "waking"]
    BY <1>2, <1>4, <2>1 DEF IInv, TaskTypes
  <2> QED BY <1>1, <1>2, <2>1, <2>4, <2>5, <2>6, SearchKeeps
<1>6. CASE ~(b.next < NR_CPUS)
  <2>1. Queue(c, p, b.result) /\ b.result \in CPUs
    BY <1>0, <1>3, <1>6 DEF select_task_rq_wrr
  <2> QED BY <1>1, <1>2, <2>1, QueueKeeps
<1> QED BY <1>5, <1>6

-----------------------------------------------------------------------------
(* The tasks that other CPUs placed are queued *)

LEMMA PendingQueue ==
  ASSUME IInv, NEW c \in CPUs, DoPending(c)
  PROVE  \E r : /\ rq' = [rq EXCEPT ![c] = r]
                /\ ExactFor(r, Queued(c) \cup Linked(wake_list[c]))
<1> DEFINE q == wake_list[c]
           w == CHOOSE v : IsLoop(v, q, rq[c])
<1>1. q \in Seq(Tasks) /\ Lists(q, Linked(q))
  BY DEF IInv, CpuTypes, WakeLists
<1>2. Linked(q) \cap Queued(c) = {}
  BY DEF IInv, WakeLists, States, Queued
<1>3. ExactFor(w[Len(q)], Queued(c) \cup Linked(q))
  <2> HIDE DEF q
  <2>1. w = CHOOSE v : IsLoop(v, q, rq[c])
    OBVIOUS
  <2> HIDE DEF w
  <2> QED BY <1>1, <1>2, <2>1, QueuedTasks, Loop DEF IInv
<1>4. rq' = [rq EXCEPT ![c] = w[Len(q)]]
  BY DEF DoPending, IsLoop
<1> HIDE DEF w
<1> QED BY <1>3, <1>4

LEMMA PendingKeeps ==
  ASSUME IInv, NEW c \in CPUs, DoPending(c), UNCHANGED <<on_cpu, task_cpu, sched_class, curr, busy>>,
         \A d \in CPUs \ {c} : ipi'[d] = ipi[d]
  PROVE  /\ Queues' /\ rq' \in [CPUs -> RunQueues] /\ weight' \in [Tasks -> {1, 10}]
         /\ state' \in [Tasks -> {"running", "sleeping", "waking"}] /\ on_rq' \in [Tasks -> BOOLEAN]
         /\ wake_list' \in [CPUs -> Seq(Tasks)] /\ wake_list'[c] = << >>
         /\ \A d \in CPUs \ {c} : Queued(d)' = Queued(d) /\ wake_list'[d] = wake_list[d]
         /\ Running' /\ Wakers' /\ WakeLists' /\ States'
<1> DEFINE L == Linked(wake_list[c])
<1>1. /\ weight' = Weighed(L) /\ wake_list' = [wake_list EXCEPT ![c] = << >>]
      /\ on_rq' = [p \in Tasks |-> on_rq[p] \/ p \in L]
      /\ state' = [p \in Tasks |-> IF p \in L THEN "running" ELSE state[p]]
  BY DEF DoPending, ToSet, Linked
<1>2. L \subseteq Tasks /\ \A p \in L : state[p] = "waking" /\ task_cpu[p] = c /\ ~on_rq[p]
  <2>1. L \subseteq Tasks
    BY DEF IInv, CpuTypes, Linked
  <2> QED BY <2>1 DEF IInv, WakeLists, States
<1> HIDE DEF L
<1>3. /\ wake_list' \in [CPUs -> Seq(Tasks)] /\ wake_list'[c] = << >>
      /\ \A d \in CPUs \ {c} : wake_list'[d] = wake_list[d]
  BY <1>1 DEF IInv, CpuTypes
<1>4. /\ state' \in [Tasks -> {"running", "sleeping", "waking"}] /\ on_rq' \in [Tasks -> BOOLEAN]
      /\ weight' \in [Tasks -> {1, 10}]
  BY <1>1, WeighedType DEF IInv, TaskTypes
<1>5. /\ \A p \in Tasks \ L : state'[p] = state[p] /\ on_rq'[p] = on_rq[p]
      /\ \A p \in L : state'[p] = "running" /\ on_rq'[p]
  BY <1>1, <1>2 DEF IInv, TaskTypes
<1>6. Queued(c)' = Queued(c) \cup L /\ \A d \in CPUs \ {c} : Queued(d)' = Queued(d)
  BY <1>2, <1>5 DEF Queued
<1>7. Queues' /\ rq' \in [CPUs -> RunQueues]
  <2>1. PICK r : rq' = [rq EXCEPT ![c] = r] /\ ExactFor(r, Queued(c) \cup L)
    BY PendingQueue DEF L
  <2>2. ExactFor(r, Queued(c)')
    BY <1>6, <2>1
  <2> QED BY <1>6, <2>1, <2>2, OneQueue
<1>8. Running'
  <2>1. \A d \in CPUs : curr[d] \in Tasks => on_rq'[curr[d]]
    BY <1>5 DEF IInv, Running
  <2> QED BY <2>1 DEF IInv, Running
<1>9. Wakers'
  <2>1. ASSUME NEW d \in CPUs
        PROVE  /\ busy[d].op = "remote" => state'[busy[d].p] # "waking"
               /\ busy[d].op = "spin" => state'[busy[d].p] = "sleeping" /\ ~on_rq'[busy[d].p]
               /\ busy[d].op = "select" =>
                    state'[busy[d].p] = "waking" /\ \A e \in CPUs : busy[d].p \notin Linked(wake_list'[e])
    <3>1. busy[d].op \in WakeOps => busy[d].p \in Tasks
      BY OpKinds DEF IInv
    <3>2. \A e \in CPUs : Linked(wake_list'[e]) \subseteq Linked(wake_list[e])
      BY <1>3 DEF Linked
    <3>3. busy[d].op = "spin" => busy[d].p \notin L
      BY <1>2 DEF IInv, Wakers
    <3>4. busy[d].op = "select" => busy[d].p \notin L
      BY DEF IInv, Wakers, L
    <3> QED BY <1>5, <3>1, <3>2, <3>3, <3>4 DEF IInv, Wakers, WakeOps
  <2> QED BY <2>1 DEF IInv, Wakers, Linked
<1>10. WakeLists'
  <2>1. ASSUME NEW d \in CPUs
        PROVE  /\ Lists(wake_list'[d], Linked(wake_list'[d]))
               /\ \A p \in Linked(wake_list'[d]) : state'[p] = "waking" /\ task_cpu[p] = d
               /\ wake_list'[d] # << >> => ipi'[d]
    <3>1. CASE d = c
      BY <1>3, <3>1 DEF Lists, Linked
    <3>2. CASE d # c
      <4>1. \A p \in Linked(wake_list[d]) : p \in Tasks /\ state[p] = "waking" /\ task_cpu[p] = d
        <5>1. \A p \in Linked(wake_list[d]) : p \in Tasks
          BY DEF IInv, CpuTypes, Linked
        <5> QED BY <5>1 DEF IInv, WakeLists
      <4>2. \A p \in Linked(wake_list[d]) : p \notin L
        BY <1>2, <3>2, <4>1
      <4>3. wake_list'[d] = wake_list[d] /\ ipi'[d] = ipi[d]
        BY <1>3, <3>2
      <4>4. \A p \in Linked(wake_list[d]) : state'[p] = "waking" /\ task_cpu[p] = d
        BY <1>5, <4>1, <4>2
      <4> QED BY <4>3, <4>4 DEF IInv, WakeLists
    <3> QED BY <3>1, <3>2
  <2> QED BY <2>1 DEF WakeLists, Linked, Lists
<1>11. States'
  <2>1. ASSUME NEW p \in Tasks
        PROVE  /\ state'[p] = "running" => on_rq'[p]
               /\ state'[p] = "waking" =>
                    /\ ~on_rq'[p] /\ ~on_cpu[p]
                    /\ p \in Linked(wake_list'[task_cpu[p]]) \/ \E d \in CPUs : busy[d].op = "select" /\ busy[d].p = p
    <3>1. CASE p \in L
      BY <1>5, <3>1
    <3>2. CASE p \notin L
      <4>1. task_cpu[p] \in CPUs /\ state'[p] = state[p] /\ on_rq'[p] = on_rq[p]
        BY <1>5, <3>2 DEF IInv, TaskTypes
      <4>2. p \in Linked(wake_list[task_cpu[p]]) => p \in Linked(wake_list'[task_cpu[p]])
        BY <1>3, <3>2, <4>1 DEF L
      <4> QED BY <4>1, <4>2 DEF IInv, States
    <3> QED BY <3>1, <3>2
  <2> QED BY <2>1 DEF States, Linked
<1> QED BY <1>3, <1>4, <1>6, <1>7, <1>8, <1>9, <1>10, <1>11

LEMMA SchedulerIpiKeeps ==
  ASSUME IInv, NEW c \in CPUs, scheduler_ipi(c)
  PROVE  IInv'
<1>1. /\ DoPending(c) /\ ipi' = [ipi EXCEPT ![c] = FALSE] /\ CanAct(c)
      /\ UNCHANGED <<on_cpu, task_cpu, cpus_allowed, sched_class, group, curr, stop_works>>
      /\ UNCHANGED <<busy, hotVars, changing, moving>>
  BY DEF scheduler_ipi
<1>2. /\ ipi' \in [CPUs -> BOOLEAN] /\ \A d \in CPUs \ {c} : ipi'[d] = ipi[d]
  BY <1>1 DEF IInv, CpuTypes
<1>3. /\ Queues' /\ rq' \in [CPUs -> RunQueues] /\ weight' \in [Tasks -> {1, 10}]
      /\ state' \in [Tasks -> {"running", "sleeping", "waking"}] /\ on_rq' \in [Tasks -> BOOLEAN]
      /\ wake_list' \in [CPUs -> Seq(Tasks)] /\ wake_list'[c] = << >>
      /\ \A d \in CPUs \ {c} : Queued(d)' = Queued(d) /\ wake_list'[d] = wake_list[d]
      /\ Running' /\ Wakers' /\ WakeLists' /\ States'
  BY <1>1, <1>2, PendingKeeps
<1>4. need_resched' \in [CPUs -> BOOLEAN]
  <2>1. PICK b : /\ need_resched' = [need_resched EXCEPT ![c] = need_resched[c] \/ b]
                 /\ b \in BOOLEAN \/ \E p \in ToSet(wake_list[c]) : b \in check_preempt_curr(c, p)
    BY DEF scheduler_ipi, Resched
  <2>2. (need_resched[c] \/ b) \in BOOLEAN
    OBVIOUS
  <2> QED BY <2>1, <2>2 DEF IInv, CpuTypes
<1>5. TaskTypes' /\ CpuTypes' /\ HotTypes'
  BY <1>1, <1>2, <1>3, <1>4 DEF IInv, TaskTypes, CpuTypes, HotTypes, hotVars
<1>6. hot.phase # "dying" /\ c \in cpu_online
  BY <1>1, NotDying
<1>7. GoingDown'
  BY <1>1, <1>6, GoingDownKept DEF IInv, GoingDown
<1>8. DownEmpty'
  <2>1. Down \subseteq CPUs \ {c}
    BY <1>6 DEF Down
  <2> QED BY <1>1, <1>3, <2>1, DownKept
<1> QED BY <1>3, <1>5, <1>7, <1>8 DEF IInv

-----------------------------------------------------------------------------
(* CPU hotplug *)

LEMMA HotQuiet ==
  ASSUME IInv, UNCHANGED <<state, on_rq, on_cpu, task_cpu, sched_class, rq, curr, wake_list, ipi, busy>>
  PROVE  Queues' /\ Running' /\ Wakers' /\ WakeLists' /\ States' /\ \A c : Queued(c)' = Queued(c)
<1>1. \A c : Queued(c)' = Queued(c)
  BY QueuedSame
<1>2. Queues' /\ Running'
  BY <1>1, QueuesKept, RunningKept
<1>3. WakingStay
  BY DEF IInv, States, WakingStay
<1>4. Wakers' /\ WakeLists' /\ States'
  BY <1>3, WakesKept
<1> QED BY <1>1, <1>2, <1>4

\* No CPU dies before or after the step, and none goes down in it.
LEMMA HotKeeps ==
  ASSUME IInv, UNCHANGED <<state, on_rq, on_cpu, task_cpu, sched_class, weight, group, cpus_allowed>>,
         UNCHANGED <<rq, curr, wake_list, ipi, busy, changing, moving>>,
         need_resched' \in [CPUs -> BOOLEAN], stop_works' \in [CPUs -> Seq(Works)], HotTypes', GoingDown',
         hot.phase # "dying", Down' \subseteq Down
  PROVE  IInv'
<1>1. Queues' /\ Running' /\ Wakers' /\ WakeLists' /\ States' /\ \A c : Queued(c)' = Queued(c)
  BY HotQuiet
<1>2. DownEmpty'
  BY <1>1 DEF IInv, DownEmpty
<1>3. TaskTypes' /\ CpuTypes'
  BY DEF IInv, TaskTypes, CpuTypes
<1> QED BY <1>1, <1>2, <1>3 DEF IInv

LEMMA NoHotIs == NoHot.phase = "none" /\ NoHot.c = 0
BY DEF NoHot

LEMMA InactiveKeeps ==
  ASSUME IInv, NEW c \in HotCpus, sched_cpu_inactive(c)
  PROVE  IInv'
<1>1. /\ UNCHANGED <<state, on_rq, on_cpu, task_cpu, sched_class, weight, group, cpus_allowed>>
      /\ UNCHANGED <<rq, curr, wake_list, ipi, busy, changing, moving, need_resched, stop_works, cpu_online>>
      /\ hot = NoHot /\ c \in cpu_online /\ cpu_active' = cpu_active \ {c}
      /\ hot' = [phase |-> "prepare", c |-> c]
  BY DEF sched_cpu_inactive, taskVars, cpuVars
<1>2. c \in CPUs /\ c # 0 /\ hot.phase = "none"
  BY <1>1, TegraAssumption, NoHotIs
<1>3. HotTypes'
  BY <1>1, <1>2 DEF IInv, HotTypes
<1>4. GoingDown'
  BY <1>1, <1>2 DEF IInv, GoingDown
<1>5. Down' \subseteq Down
  BY <1>1 DEF Down
<1>6. need_resched' \in [CPUs -> BOOLEAN] /\ stop_works' \in [CPUs -> Seq(Works)]
  BY <1>1 DEF IInv, CpuTypes
<1> QED BY <1>1, <1>2, <1>3, <1>4, <1>5, <1>6, HotKeeps

LEMMA ActiveKeeps ==
  ASSUME IInv, sched_cpu_active
  PROVE  IInv'
<1>1. /\ UNCHANGED <<state, on_rq, on_cpu, task_cpu, sched_class, weight, group, cpus_allowed>>
      /\ UNCHANGED <<rq, curr, wake_list, ipi, busy, changing, moving, need_resched, stop_works, cpu_online>>
      /\ hot.phase = "prepare" /\ cpu_active' = cpu_active \cup {hot.c} /\ hot' = NoHot
  BY DEF sched_cpu_active, taskVars, cpuVars
<1>2. HotTypes'
  BY <1>1, CpuNumbers DEF IInv, HotTypes, NoHot
<1>3. GoingDown'
  BY <1>1, NoHotIs DEF IInv, GoingDown
<1>4. Down' \subseteq Down
  BY <1>1 DEF Down
<1>5. need_resched' \in [CPUs -> BOOLEAN] /\ stop_works' \in [CPUs -> Seq(Works)]
  BY <1>1 DEF IInv, CpuTypes
<1> QED BY <1>1, <1>2, <1>3, <1>4, <1>5, HotKeeps

LEMMA StartingKeeps ==
  ASSUME IInv, NEW c \in HotCpus, CpuStarting(c)
  PROVE  IInv'
<1>1. /\ UNCHANGED <<state, on_rq, on_cpu, task_cpu, sched_class, weight, group, cpus_allowed>>
      /\ UNCHANGED <<rq, curr, wake_list, ipi, busy, changing, moving, need_resched, stop_works, cpu_online>>
      /\ hot = NoHot /\ cpu_active' = cpu_active \cup {c} /\ hot' = [phase |-> "starting", c |-> c]
  BY DEF CpuStarting, taskVars, cpuVars
<1>2. c \in CPUs /\ hot.phase = "none"
  BY <1>1, TegraAssumption, NoHotIs
<1>3. HotTypes'
  BY <1>1, <1>2 DEF IInv, HotTypes
<1>4. GoingDown'
  BY <1>1, <1>2 DEF IInv, GoingDown
<1>5. Down' \subseteq Down
  BY <1>1 DEF Down
<1>6. need_resched' \in [CPUs -> BOOLEAN] /\ stop_works' \in [CPUs -> Seq(Works)]
  BY <1>1 DEF IInv, CpuTypes
<1> QED BY <1>1, <1>2, <1>3, <1>4, <1>5, <1>6, HotKeeps

LEMMA OnlineKeeps ==
  ASSUME IInv, CpuOnline
  PROVE  IInv'
<1>1. /\ UNCHANGED <<state, on_rq, on_cpu, task_cpu, sched_class, weight, group, cpus_allowed>>
      /\ UNCHANGED <<rq, curr, wake_list, ipi, busy, changing, moving, need_resched, stop_works, cpu_active>>
      /\ hot.phase = "starting" /\ cpu_online' = cpu_online \cup {hot.c} /\ hot' = NoHot
  BY DEF CpuOnline, taskVars, cpuVars
<1>2. HotTypes'
  BY <1>1, CpuNumbers DEF IInv, HotTypes, NoHot
<1>3. GoingDown'
  BY <1>1, NoHotIs DEF IInv, GoingDown
<1>4. Down' \subseteq Down
  BY <1>1 DEF Down
<1>5. need_resched' \in [CPUs -> BOOLEAN] /\ stop_works' \in [CPUs -> Seq(Works)]
  BY <1>1 DEF IInv, CpuTypes
<1> QED BY <1>1, <1>2, <1>3, <1>4, <1>5, HotKeeps

LEMMA StopMachineKeeps ==
  ASSUME IInv, StopMachine
  PROVE  IInv'
<1> DEFINE work == [op |-> "stop_machine"]
<1>1. /\ UNCHANGED <<state, on_rq, on_cpu, task_cpu, sched_class, weight, group, cpus_allowed>>
      /\ UNCHANGED <<rq, curr, wake_list, ipi, busy, changing, moving, cpu_online, cpu_active>>
      /\ hot.phase = "prepare" /\ hot' = [hot EXCEPT !.phase = "stop"]
      /\ stop_works' = [c \in CPUs |-> IF c \in cpu_online THEN Append(stop_works[c], work) ELSE stop_works[c]]
      /\ need_resched' = [c \in CPUs |-> need_resched[c] \/ c \in cpu_online]
  BY DEF StopMachine, taskVars
<1>2. work \in Works /\ work.op = "stop_machine"
  BY DEF Works
<1> HIDE DEF work
<1>3. need_resched' \in [CPUs -> BOOLEAN] /\ stop_works' \in [CPUs -> Seq(Works)]
  <2>1. \A c \in CPUs : stop_works[c] \in Seq(Works)
    BY DEF IInv, CpuTypes
  <2>2. \A c \in CPUs : Append(stop_works[c], work) \in Seq(Works)
    BY <1>2, <2>1
  <2> QED BY <1>1, <2>1, <2>2
<1>4. hot'.phase = "stop" /\ hot'.c = hot.c /\ HotTypes'
  BY <1>1 DEF IInv, HotTypes
<1>5. ASSUME NEW c \in cpu_online PROVE StopperDue(c)'
  <2>1. c \in CPUs /\ stop_works[c] \in Seq(Works)
    BY DEF IInv, CpuTypes, HotTypes
  <2>2. stop_works'[c] = Append(stop_works[c], work)
    BY <1>1, <2>1
  <2>3. Len(stop_works[c]) + 1 \in DOMAIN stop_works'[c] /\ stop_works'[c][Len(stop_works[c]) + 1] = work
    BY <1>2, <2>1, <2>2
  <2> QED BY <1>2, <2>3 DEF StopperDue
<1>6. GoingDown'
  BY <1>1, <1>4, <1>5 DEF IInv, GoingDown
<1>7. Down' \subseteq Down
  BY <1>1 DEF Down
<1> QED BY <1>1, <1>3, <1>4, <1>6, <1>7, HotKeeps

LEMMA DyingKeeps ==
  ASSUME IInv, migration_call
  PROVE  IInv'
<1>0. PICK c \in CPUs : c = hot.c
  BY DEF IInv, HotTypes
<1>1. /\ DoPending(c) /\ hot.phase = "stop" /\ cpu_online' = cpu_online \ {c}
      /\ hot' = [hot EXCEPT !.phase = "dying"]
      /\ UNCHANGED <<on_cpu, task_cpu, cpus_allowed, sched_class, group, curr, need_resched, ipi>>
      /\ UNCHANGED <<stop_works, busy, cpu_active, changing, moving>>
      /\ \A d \in cpu_online : busy[d] = NoOp /\ curr[d] = Stopper
  BY <1>0 DEF migration_call
<1>2. /\ Queues' /\ rq' \in [CPUs -> RunQueues] /\ weight' \in [Tasks -> {1, 10}]
      /\ state' \in [Tasks -> {"running", "sleeping", "waking"}] /\ on_rq' \in [Tasks -> BOOLEAN]
      /\ wake_list' \in [CPUs -> Seq(Tasks)] /\ wake_list'[c] = << >>
      /\ \A d \in CPUs \ {c} : Queued(d)' = Queued(d) /\ wake_list'[d] = wake_list[d]
      /\ Running' /\ Wakers' /\ WakeLists' /\ States'
  BY <1>1, PendingKeeps
<1>3. hot'.phase = "dying" /\ hot'.c = c /\ hot' = [phase |-> "dying", c |-> c] /\ HotTypes'
  BY <1>0, <1>1 DEF IInv, HotTypes
<1>4. TaskTypes' /\ CpuTypes'
  BY <1>1, <1>2 DEF IInv, TaskTypes, CpuTypes
<1>5. GoingDown'
  <2>1. \A d \in CPUs : busy[d] = NoOp
    BY <1>1 DEF IInv, GoingDown
  <2>2. \A d \in cpu_online : d \in CPUs /\ stop_works[d] # << >>
    BY <1>1 DEF IInv, HotTypes, GoingDown, StopperDue
  <2>3. curr[c] = Stopper
    BY <1>0, <1>1 DEF IInv, GoingDown
  <2>4. 0 \in cpu_active' /\ c \in HotCpus
    BY <1>0, <1>1 DEF IInv, GoingDown
  <2>5. /\ curr'[c] = Stopper /\ \A d \in CPUs : busy'[d] = NoOp
        /\ \A d \in cpu_online' : stop_works'[d] # << >>
    BY <1>1, <2>1, <2>2, <2>3
  <2> QED BY <1>2, <1>3, <2>4, <2>5 DEF GoingDown
<1>6. DownEmpty'
  <2>1. ASSUME NEW d \in Down', d # c PROVE wake_list'[d] = << >> /\ Queued(d)' = {}
    <3>1. d \in Down /\ d \in CPUs
      BY <1>1, <2>1 DEF Down
    <3>2. wake_list[d] = << >> /\ Queued(d) = {}
      BY <1>1, <3>1 DEF IInv, DownEmpty
    <3>3. wake_list'[d] = wake_list[d] /\ Queued(d)' = Queued(d)
      BY <1>2, <2>1, <3>1
    <3> QED BY <3>2, <3>3
  <2> QED BY <1>3, <2>1 DEF DownEmpty
<1> QED BY <1>2, <1>3, <1>4, <1>5, <1>6 DEF IInv

LEMMA MigrateTasksKeeps ==
  ASSUME IInv, migrate_tasks
  PROVE  IInv'
<1>0. PICK c \in CPUs : c = hot.c
  BY DEF IInv, HotTypes
<1>1. /\ hot.phase = "dying" /\ rq[c].nr_running # 0
      /\ UNCHANGED <<state, on_rq, on_cpu, sched_class, group, curr, wake_list, ipi, stop_works>>
      /\ UNCHANGED <<busy, hotVars, changing, moving>>
  BY <1>0 DEF migrate_tasks
<1>2. PICK p \in pick_next_task(c, rq[c], on_rq, << >>) :
        MigrateTo(p, c, select_fallback_rq(p).dest, select_fallback_rq(p).allowed)
  BY <1>0 DEF migrate_tasks
<1>3. p \in Tasks
  <2>1. ExactFor(rq[c], QueuedAs(c, on_rq)) /\ on_rq \in [Tasks -> BOOLEAN]
    BY QueuedTasks DEF Queued, QueuedAs, IInv, TaskTypes
  <2> QED BY <1>1, <1>2, <2>1, PickNext
<1>4. task_cpu[p] = c => Still(p)
  BY <1>0, <1>1, <1>3, NoTask DEF IInv, GoingDown, Running, Still, NoOp
<1>5. /\ select_fallback_rq(p).dest \in CPUs
      /\ select_fallback_rq(p).allowed \in [Tasks -> SUBSET CPUs]
  BY <1>3, Fallback DEF IInv, HotTypes
<1>6. stop_works' \in [CPUs -> Seq(Works)]
  BY <1>1 DEF IInv, CpuTypes
<1>7. /\ TaskTypes' /\ CpuTypes' /\ HotTypes'
      /\ Queues' /\ Running' /\ Wakers' /\ WakeLists' /\ States' /\ DownEmpty'
  BY <1>1, <1>2, <1>3, <1>4, <1>5, <1>6, MigrateToKeeps
<1>8. GoingDown'
  BY <1>1 DEF IInv, GoingDown, hotVars
<1> QED BY <1>7, <1>8 DEF IInv

LEMMA DeadKeeps ==
  ASSUME IInv, CpuDead
  PROVE  IInv'
<1>0. PICK c \in CPUs : c = hot.c
  BY DEF IInv, HotTypes
<1>1. /\ hot.phase = "dying" /\ rq[c].nr_running = 0 /\ hot' = NoHot
      /\ stop_works' = [d \in CPUs |-> IF d = c THEN << >>
                          ELSE IF d \in cpu_online THEN Tail(stop_works[d]) ELSE stop_works[d]]
      /\ curr' = [curr EXCEPT ![c] = Idle] /\ need_resched' = [need_resched EXCEPT ![c] = FALSE]
      /\ ipi' = [ipi EXCEPT ![c] = FALSE]
      /\ UNCHANGED <<state, on_rq, on_cpu, task_cpu, sched_class, weight, group, cpus_allowed>>
      /\ UNCHANGED <<rq, wake_list, busy, changing, moving, cpu_online, cpu_active>>
  BY <1>0 DEF CpuDead, taskVars
<1>2. /\ curr[c] = Stopper /\ wake_list[c] = << >> /\ \A d \in CPUs : busy[d] = NoOp
      /\ \A d \in cpu_online : stop_works[d] # << >>
  BY <1>0, <1>1 DEF IInv, GoingDown
<1>3. Queued(c) = {}
  <2>1. Queued(c) \in SUBSET Tasks /\ ExactFor(rq[c], Queued(c))
    BY QueuedTasks
  <2>2. \A cl : IsFiniteSet(Of(Queued(c), cl)) /\ Cardinality(Of(Queued(c), cl)) \in Nat
    BY <2>1, OfTypes
  <2>3. rq[c].nr_running = Cardinality(Of(Queued(c), "fair")) + 2 * Cardinality(Of(Queued(c), "wrr"))
    BY <2>1 DEF ExactFor
  <2>4. Cardinality(Of(Queued(c), "fair")) = 0 /\ Cardinality(Of(Queued(c), "wrr")) = 0
    BY <1>1, <2>2, <2>3
  <2>5. Of(Queued(c), "fair") = {} /\ Of(Queued(c), "wrr") = {}
    BY <2>2, <2>4, FS_EmptySet
  <2> QED BY <2>1, <2>5 DEF Of, IInv, TaskTypes
<1>4. TaskTypes' /\ HotTypes'
  BY <1>1, CpuNumbers DEF IInv, TaskTypes, HotTypes, NoHot
<1>5. CpuTypes'
  <2>1. \A d \in CPUs : /\ stop_works[d] \in Seq(Works)
                        /\ stop_works[d] # << >> => Tail(stop_works[d]) \in Seq(Works)
    BY DEF IInv, CpuTypes
  <2>2. stop_works' \in [CPUs -> Seq(Works)]
    BY <1>1, <1>2, <2>1
  <2> QED BY <1>1, <2>2 DEF IInv, CpuTypes
<1>6. \A d : Queued(d)' = Queued(d)
  BY <1>1, QueuedSame
<1>7. Queues'
  BY <1>1, <1>6, QueuesKept
<1>8. Running'
  <2>1. \A d \in CPUs : curr'[d] \in Tasks => d # c /\ curr'[d] = curr[d]
    BY <1>1, NoTask DEF IInv, CpuTypes
  <2>2. \A d \in CPUs : busy'[d].op # "switch"
    BY <1>1, <1>2 DEF NoOp
  <2> QED BY <1>1, <2>1, <2>2 DEF IInv, Running
<1>9. Wakers' /\ States'
  BY <1>1 DEF IInv, Wakers, States, Linked
<1>10. WakeLists'
  <2>1. ASSUME NEW d \in CPUs
        PROVE  /\ Lists(wake_list'[d], Linked(wake_list'[d]))
               /\ \A p \in Linked(wake_list'[d]) : state'[p] = "waking" /\ task_cpu'[p] = d
               /\ wake_list'[d] # << >> => ipi'[d]
    BY <1>1, <1>2 DEF IInv, WakeLists, CpuTypes
  <2> QED BY <2>1 DEF WakeLists, Linked, Lists
<1>11. GoingDown'
  BY <1>1, NoHotIs DEF IInv, GoingDown
<1>12. DownEmpty'
  <2>1. ASSUME NEW d \in Down PROVE wake_list[d] = << >> /\ Queued(d) = {}
    <3>1. CASE d = c
      BY <1>2, <1>3, <3>1
    <3>2. CASE d # c
      BY <1>0, <3>2 DEF IInv, DownEmpty
    <3> QED BY <3>1, <3>2
  <2>2. Down' = Down
    BY <1>1 DEF Down
  <2> QED BY <1>1, <1>6, <2>1, <2>2 DEF DownEmpty
<1> QED BY <1>4, <1>5, <1>7, <1>8, <1>9, <1>10, <1>11, <1>12 DEF IInv

-----------------------------------------------------------------------------
(* The theorems *)

LEMMA InitHolds == Init => IInv /\ requests \in 0 .. MaxRequests
<1> SUFFICES ASSUME Init PROVE IInv /\ requests \in 0 .. MaxRequests
  OBVIOUS
<1>1. TaskTypes
  BY TegraAssumption, CpuNumbers DEF Init, TaskTypes
<1>2. init_wrr_rq = [queue |-> << >>, total_weight |-> 0, wrr_nr_running |-> 0]
  BY DEF init_wrr_rq
<1>3. rq \in [CPUs -> RunQueues]
  <2>1. init_wrr_rq \in [queue : Seq(Tasks), total_weight : Int, wrr_nr_running : Nat]
    BY <1>2
  <2> QED BY <2>1 DEF Init, RunQueues
<1>4. CpuTypes
  BY <1>3 DEF Init, CpuTypes, Ops, NoOp
<1>5. HotTypes
  BY TegraAssumption, CpuNumbers DEF Init, HotTypes, NoHot
<1>6. ASSUME NEW c \in CPUs PROVE ExactFor(rq[c], Queued(c))
  <2>1. Queued(c) = {}
    BY DEF Init, Queued
  <2>2. \A cl : Of({}, cl) = {}
    BY DEF Of
  <2>3. /\ rq[c].wrr.queue = << >> /\ rq[c].wrr.wrr_nr_running = 0 /\ rq[c].nr_running = 0
        /\ rq[c] \in RunQueues
    BY <1>2, <1>3 DEF Init
  <2>4. Lists(<< >>, {}) /\ Cardinality({}) = 0
    BY FS_EmptySet DEF Lists
  <2>5. Of(Queued(c), "wrr") = {} /\ Of(Queued(c), "fair") = {} /\ Len(<< >>) = 0 /\ 0 = 0 + 2 * 0
    BY <2>1, <2>2
  <2>6. Lists(rq[c].wrr.queue, Of(Queued(c), "wrr")) /\ rq[c].wrr.wrr_nr_running = Len(rq[c].wrr.queue)
    BY <2>3, <2>4, <2>5
  <2>7. rq[c].nr_running = Cardinality(Of(Queued(c), "fair")) + 2 * Cardinality(Of(Queued(c), "wrr"))
    BY <2>3, <2>4, <2>5
  <2> QED BY <2>3, <2>6, <2>7 DEF ExactFor
<1>7. Running /\ Wakers /\ States
  BY NoTask DEF Init, Running, Wakers, States, NoOp, WakeOps
<1>8. WakeLists
  BY DEF Init, WakeLists, Linked, Lists
<1>9. GoingDown
  <2>1. hot.phase = "none" /\ \A c \in CPUs : busy[c] = NoOp
    BY NoHotIs DEF Init
  <2>2. 0 \in cpu_active
    BY TegraAssumption, CpuNumbers DEF Init
  <2> QED BY <2>1, <2>2 DEF GoingDown
<1>10. DownEmpty
  <2>1. \A c \in CPUs : wake_list[c] = << >> /\ Queued(c) = {}
    BY DEF Init, Queued
  <2> QED BY <2>1 DEF DownEmpty, Down
<1>11. requests \in 0 .. MaxRequests
  BY TegraAssumption DEF Init
<1> QED BY <1>1, <1>4, <1>5, <1>6, <1>7, <1>8, <1>9, <1>10, <1>11 DEF IInv, Queues

LEMMA RequestKeeps == ASSUME IInv, Request PROVE IInv'
<1>1. ASSUME NEW p \in Tasks, sched_setscheduler(p) PROVE IInv'
  BY <1>1, SetSchedulerKeeps
<1>2. ASSUME NEW p \in Tasks, NEW mask \in Masks, set_cpus_allowed_ptr(p, mask) PROVE IInv'
  BY <1>2, SetMaskKeeps
<1>3. ASSUME NEW p \in Tasks, NEW g \in Groups, SetCgroup(p, g) PROVE IInv'
  BY <1>3, SetCgroupKeeps
<1>4. ASSUME NEW c \in HotCpus, sched_cpu_inactive(c) \/ CpuStarting(c) PROVE IInv'
  BY <1>4, InactiveKeeps, StartingKeeps
<1> QED BY <1>1, <1>2, <1>3, <1>4 DEF Request

LEMMA ProgressKeeps == ASSUME IInv, NEW c \in CPUs, Progress(c) PROVE IInv'
<1>1. CASE ttwu_remote(c) \/ ttwu_wait(c) \/ select_task_rq_wrr(c)
  BY <1>1, TtwuRemoteKeeps, TtwuWaitKeeps, SelectKeeps
<1>2. CASE pull_wrr_task(c) \/ finish_task_switch(c) \/ migration_cpu_stop(c)
  BY <1>2, PullKeeps, FinishKeeps, MigrationStopKeeps
<1>3. CASE schedule(c) \/ preempt_schedule(c) \/ scheduler_ipi(c)
  BY <1>3, ScheduleKeeps, PreemptKeeps, SchedulerIpiKeeps
<1> QED BY <1>1, <1>2, <1>3 DEF Progress

LEMMA HotplugKeeps == ASSUME IInv, Hotplug PROVE IInv'
BY StopMachineKeeps, DyingKeeps, MigrateTasksKeeps, DeadKeeps, OnlineKeeps DEF Hotplug

LEMMA StutterKeeps == ASSUME IInv, UNCHANGED vars PROVE IInv'
<1>1. /\ UNCHANGED <<state, on_rq, on_cpu, task_cpu, sched_class, weight, group, cpus_allowed>>
      /\ UNCHANGED <<rq, curr, wake_list, ipi, busy, changing, moving, need_resched, stop_works, hotVars>>
  BY DEF vars, taskVars, cpuVars
<1>2. Queues' /\ Running' /\ Wakers' /\ WakeLists' /\ States' /\ DownEmpty' /\ HotTypes'
  BY <1>1, QuietKeeps
<1>3. TaskTypes' /\ CpuTypes'
  BY <1>1 DEF IInv, TaskTypes, CpuTypes
<1>4. GoingDown'
  BY <1>1 DEF IInv, GoingDown, hotVars, StopperDue
<1> QED BY <1>2, <1>3, <1>4 DEF IInv

LEMMA NextKeeps ==
  ASSUME IInv, requests \in 0 .. MaxRequests, [Next]_vars
  PROVE  IInv' /\ requests' \in 0 .. MaxRequests
<1>1. CASE requests < MaxRequests /\ Request /\ requests' = requests + 1
  BY <1>1, RequestKeeps, TegraAssumption
<1>2. CASE UNCHANGED requests /\ \E c \in CPUs : Progress(c) \/ SetCurrentState(c) \/ scheduler_tick(c)
  BY <1>2, ProgressKeeps, SetStateKeeps, TickKeeps
<1>3. CASE UNCHANGED requests /\ \E c \in CPUs, p \in Tasks : try_to_wake_up(c, p) \/ LoadBalance(c, p)
  BY <1>3, TryToWakeUpKeeps, LoadBalanceKeeps
<1>4. CASE UNCHANGED requests /\ \E p \in Tasks : check_class_changed(p) \/ sched_move_task(p)
  BY <1>4, CheckClassKeeps, MoveTaskGroupKeeps
<1>5. CASE UNCHANGED requests /\ (Hotplug \/ sched_cpu_active)
  BY <1>5, HotplugKeeps, ActiveKeeps
<1>6. CASE UNCHANGED vars
  BY <1>6, StutterKeeps DEF vars
<1> QED BY <1>1, <1>2, <1>3, <1>4, <1>5, <1>6 DEF Next

LEMMA ExactFollows == ASSUME IInv, requests \in 0 .. MaxRequests PROVE RunQueuesExact
<1>1. TypeOK
  <2>1. \A c \in CPUs :
          /\ rq[c].wrr.queue \in Seq(Tasks) /\ rq[c].nr_running \in Nat
          /\ rq[c].wrr.wrr_nr_running \in Nat /\ rq[c].wrr.total_weight \in Int
    BY QueuedTasks DEF RunQueues
  <2> QED BY <2>1 DEF TypeOK, IInv, TaskTypes, CpuTypes, HotTypes
<1>2. OneCpu
  <2>1. ASSUME NEW p \in Tasks, NEW c \in CPUs, curr[c] = p \/ busy[c] = [op |-> "switch", p |-> p]
        PROVE  /\ on_cpu[p] /\ task_cpu[p] = c /\ (curr[c] = p => on_rq[p])
    BY <2>1 DEF IInv, Running
  <2> QED BY <2>1 DEF OneCpu
<1>3. ASSUME NEW c \in CPUs
      PROVE  LET On(cl) == {p \in Tasks : on_rq[p] /\ task_cpu[p] = c /\ sched_class[p] = cl}
             IN  /\ ToSet(rq[c].wrr.queue) = On("wrr")
                 /\ Len(rq[c].wrr.queue) = Cardinality(On("wrr"))
                 /\ rq[c].wrr.wrr_nr_running = Len(rq[c].wrr.queue)
                 /\ rq[c].nr_running = Cardinality(On("fair")) + 2 * Cardinality(On("wrr"))
  <2> DEFINE On(cl) == {p \in Tasks : on_rq[p] /\ task_cpu[p] = c /\ sched_class[p] = cl}
  <2>1. \A cl : On(cl) = Of(Queued(c), cl)
    BY DEF Of, Queued
  <2>2. /\ Lists(rq[c].wrr.queue, Of(Queued(c), "wrr")) /\ rq[c].wrr.wrr_nr_running = Len(rq[c].wrr.queue)
        /\ rq[c].nr_running = Cardinality(Of(Queued(c), "fair")) + 2 * Cardinality(Of(Queued(c), "wrr"))
    BY QueuedTasks DEF ExactFor
  <2>3. ToSet(rq[c].wrr.queue) = Linked(rq[c].wrr.queue)
    BY DEF ToSet, Linked
  <2> HIDE DEF On
  <2>4. /\ ToSet(rq[c].wrr.queue) = On("wrr")
        /\ Len(rq[c].wrr.queue) = Cardinality(On("wrr"))
        /\ rq[c].wrr.wrr_nr_running = Len(rq[c].wrr.queue)
        /\ rq[c].nr_running = Cardinality(On("fair")) + 2 * Cardinality(On("wrr"))
    BY <2>1, <2>2, <2>3, LinkedLists, ListLength
  <2> QED BY <2>4 DEF On
<1> QED BY <1>1, <1>2, <1>3 DEF RunQueuesExact

LEMMA StrandedFollows == ASSUME IInv PROVE NothingStranded
<1>1. NoLostWakeup
  <2>1. ASSUME NEW p \in Tasks, p \in Linked(wake_list[task_cpu[p]]) PROVE Listed(p, task_cpu[p])
    <3>1. task_cpu[p] \in CPUs /\ wake_list[task_cpu[p]] # << >>
      BY <2>1 DEF IInv, TaskTypes, Linked
    <3> QED BY <2>1, <3>1 DEF IInv, WakeLists, Listed, ToSet, Linked
  <2> QED BY <2>1 DEF IInv, States, NoLostWakeup
<1>2. ASSUME NEW c \in Down
      PROVE  hot = [phase |-> "dying", c |-> c] \/
               /\ wake_list[c] = << >>
               /\ \A p \in Tasks : on_rq[p] => task_cpu[p] # c
  BY DEF IInv, DownEmpty, Queued
<1> QED BY <1>1, <1>2 DEF NothingStranded, Down

\* A CPU's run list holds exactly its queued WRR tasks and its counters agree, and a task
\* executes on one CPU, whatever pulls, migrations, remote wake-ups, class changes and hotplug
\* interleave (activate_task(), deactivate_task() and the lock handed over by the context switch).
THEOREM RunQueuesAreExact == Spec => []RunQueuesExact
<1> DEFINE I == IInv /\ requests \in 0 .. MaxRequests
<1>1. Init => I
  BY InitHolds
<1>2. I /\ [Next]_vars => I'
  BY NextKeeps
<1>3. I => RunQueuesExact
  BY ExactFollows
<1> HIDE DEF I
<1> QED BY <1>1, <1>2, <1>3, PTL DEF Spec

\* A wake-up in progress is never lost, and a CPU that is down keeps neither a queued nor a
\* listed task (try_to_wake_up(), sched_ttwu_pending() and migrate_tasks()).
THEOREM NothingIsStranded == Spec => []NothingStranded
<1> DEFINE I == IInv /\ requests \in 0 .. MaxRequests
<1>1. Init => I
  BY InitHolds
<1>2. I /\ [Next]_vars => I'
  BY NextKeeps
<1>3. I => NothingStranded
  BY StrandedFollows
<1> HIDE DEF I
<1> QED BY <1>1, <1>2, <1>3, PTL DEF Spec

=============================================================================
