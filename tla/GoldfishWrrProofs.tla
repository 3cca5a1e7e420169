------------------------- MODULE GoldfishWrrProofs -------------------------
(***************************************************************************)
(* The safety invariants of GoldfishWrr, for every set of tasks, groups,   *)
(* priorities and slice lengths.                                           *)
(*                                                                         *)
(* None of them is inductive alone.  That a queued task can be unlinked    *)
(* and its weight taken off needs the list to be exact; that the weight    *)
(* fits needs weight and slice to be tied together even for tasks of the   *)
(* other classes (they keep both and may come back); that schedule() and   *)
(* the tick act on a linked task needs the running task to be on the run   *)
(* queue, which in turn rests on what schedule() may pick.                 *)
(***************************************************************************)
EXTENDS GoldfishWrr, DataProofs, FiniteSetTheorems

-----------------------------------------------------------------------------
(* What the run-list functions do to the set of queued tasks and to the two *)
(* counters.                                                                *)

\* The weight of the tasks in S under the weights wt.
Light(S, wt) == {x \in S : wt[x] = 1}
Heavy(S, wt) == {x \in S : wt[x] = 10}
Total(S, wt) == Cardinality(Light(S, wt)) + 10 * Cardinality(Heavy(S, wt))

\* r is a wrr_rq in which exactly the tasks of S are queued.
RqHolds(r, S, wt) ==
  /\ r \in [queue : Seq(S), total_weight : Nat, wrr_nr_running : Nat]
  /\ Lists(r.queue, S)
  /\ r.wrr_nr_running = Len(r.queue)
  /\ r.total_weight = Total(S, wt)

-----------------------------------------------------------------------------
\* Taking p out of a set of tasks takes its weight out of the total ...
LEMMA TotalRemove ==
  ASSUME NEW S, IsFiniteSet(S), NEW wt, NEW p \in S, wt[p] \in {1, 10}
  PROVE  /\ Total(S, wt) \in Nat /\ Total(S \ {p}, wt) \in Nat
         /\ Total(S \ {p}, wt) = Total(S, wt) - wt[p]
<1>1. IsFiniteSet(Light(S, wt)) /\ IsFiniteSet(Heavy(S, wt))
  BY FS_Subset DEF Light, Heavy
<1>2. /\ Light(S \ {p}, wt) = Light(S, wt) \ {p}
      /\ Heavy(S \ {p}, wt) = Heavy(S, wt) \ {p}
  BY DEF Light, Heavy
<1>3. /\ Cardinality(Light(S, wt)) \in Nat /\ Cardinality(Heavy(S, wt)) \in Nat
      /\ Cardinality(Light(S \ {p}, wt)) \in Nat
      /\ Cardinality(Heavy(S \ {p}, wt)) \in Nat
  BY <1>1, <1>2, FS_CardinalityType, FS_RemoveElement
<1>4. CASE wt[p] = 1
  <2>1. p \in Light(S, wt) /\ p \notin Heavy(S, wt)
    BY <1>4 DEF Light, Heavy
  <2>2. /\ Cardinality(Light(S \ {p}, wt)) = Cardinality(Light(S, wt)) - 1
        /\ Cardinality(Heavy(S \ {p}, wt)) = Cardinality(Heavy(S, wt))
    BY <1>1, <1>2, <2>1, FS_RemoveElement
  <2> QED BY <1>3, <1>4, <2>2 DEF Total
<1>5. CASE wt[p] = 10
  <2>1. p \notin Light(S, wt) /\ p \in Heavy(S, wt)
    BY <1>5 DEF Light, Heavy
  <2>2. /\ Cardinality(Light(S \ {p}, wt)) = Cardinality(Light(S, wt))
        /\ Cardinality(Heavy(S \ {p}, wt)) = Cardinality(Heavy(S, wt)) - 1
    BY <1>1, <1>2, <2>1, FS_RemoveElement
  <2> QED BY <1>3, <1>5, <2>2 DEF Total
<1> QED BY <1>4, <1>5

\* ... and changing the weight of a task outside the set changes nothing.
LEMMA TotalOther ==
  ASSUME NEW S, NEW wt, NEW p, p \notin S, NEW w
  PROVE  Total(S, [wt EXCEPT ![p] = w]) = Total(S, wt)
<1>1. /\ Light(S, [wt EXCEPT ![p] = w]) = Light(S, wt)
      /\ Heavy(S, [wt EXCEPT ![p] = w]) = Heavy(S, wt)
  BY DEF Light, Heavy
<1> QED BY <1>1 DEF Total

-----------------------------------------------------------------------------
\* dequeue_wrr_entity() with the current weight of a queued task.
LEMMA RqDequeue ==
  ASSUME NEW S, IsFiniteSet(S), NEW wt, NEW r, RqHolds(r, S, wt),
         NEW p \in S, wt[p] \in {1, 10}
  PROVE  RqHolds(dequeue_wrr_entity(r, p, wt[p]), S \ {p}, wt)
<1> DEFINE o == dequeue_wrr_entity(r, p, wt[p])
<1>1. Lists(list_del(r.queue, p), S \ {p}) /\ Len(list_del(r.queue, p)) = Len(r.queue) - 1
  BY ListDel DEF RqHolds
<1>2. list_del(r.queue, p) \in Seq(S \ {p}) /\ Len(list_del(r.queue, p)) \in Nat
  BY <1>1 DEF Lists
<1>3. o.queue = list_del(r.queue, p) /\ o.total_weight = r.total_weight - wt[p]
      /\ o.wrr_nr_running = r.wrr_nr_running - 1
  BY DEF dequeue_wrr_entity
<1> HIDE DEF o
<1>4. o.total_weight = Total(S \ {p}, wt) /\ o.total_weight \in Nat
  <2>1. /\ Total(S \ {p}, wt) \in Nat
        /\ Total(S \ {p}, wt) = Total(S, wt) - wt[p]
    BY TotalRemove
  <2>2. r.total_weight = Total(S, wt)
    BY DEF RqHolds
  <2> QED BY <1>3, <2>1, <2>2
<1>5. o.wrr_nr_running = Len(o.queue) /\ o.wrr_nr_running \in Nat
  BY <1>1, <1>2, <1>3 DEF RqHolds
<1>6. o \in [queue : Seq(S \ {p}), total_weight : Nat, wrr_nr_running : Nat]
  BY <1>2, <1>3, <1>4, <1>5 DEF dequeue_wrr_entity, o
<1>7. RqHolds(o, S \ {p}, wt)
  BY <1>1, <1>3, <1>4, <1>5, <1>6 DEF RqHolds
<1> QED BY <1>7 DEF o

\* enqueue_wrr_entity() of a task that is not queued, with its new weight.
LEMMA RqEnqueue ==
  ASSUME NEW S, IsFiniteSet(S), NEW T, NEW wt \in [T -> {1, 10}], S \subseteq T,
         NEW r, RqHolds(r, S, wt), NEW p \in T, p \notin S,
         NEW w \in {1, 10}, NEW head \in BOOLEAN
  PROVE  RqHolds(enqueue_wrr_entity(r, p, w, head), S \cup {p}, [wt EXCEPT ![p] = w])
<1> DEFINE e == enqueue_wrr_entity(r, p, w, head)
           wn == [wt EXCEPT ![p] = w]
           l == IF head THEN <<p>> \o r.queue ELSE Append(r.queue, p)
<1>1. Lists(l, S \cup {p}) /\ Len(l) = Len(r.queue) + 1
  BY ListAddHead, ListAddTail DEF RqHolds
<1>2. e.queue = l /\ e.total_weight = r.total_weight + w
      /\ e.wrr_nr_running = r.wrr_nr_running + 1
  BY DEF enqueue_wrr_entity
<1>3. Total(S \cup {p}, wn) \in Nat /\ Total(S, wn) = Total(S \cup {p}, wn) - w
  <2>1. IsFiniteSet(S \cup {p}) /\ (S \cup {p}) \ {p} = S
    BY FS_AddElement
  <2>2. wn[p] = w
    OBVIOUS
  <2> HIDE DEF wn
  <2> QED BY <2>1, <2>2, TotalRemove
<1>4. Total(S, wn) = Total(S, wt)
  BY TotalOther, ZenonT(60)
<1>5. e.total_weight = Total(S \cup {p}, wn) /\ e.total_weight \in Nat
  BY <1>2, <1>3, <1>4 DEF RqHolds
<1>6. Len(l) \in Nat /\ l \in Seq(S \cup {p})
  BY <1>1 DEF Lists
<1>7. e.wrr_nr_running = Len(e.queue) /\ e.wrr_nr_running \in Nat
  BY <1>1, <1>2, <1>6 DEF RqHolds
<1>8. e \in [queue : Seq(S \cup {p}), total_weight : Nat, wrr_nr_running : Nat]
  BY <1>2, <1>5, <1>6, <1>7 DEF enqueue_wrr_entity
<1> QED BY <1>1, <1>2, <1>5, <1>7, <1>8 DEF RqHolds

\* requeue_task_wrr() changes the order only.
LEMMA RqRequeue ==
  ASSUME NEW S, NEW wt, NEW r, RqHolds(r, S, wt), NEW p \in S
  PROVE  RqHolds(requeue_task_wrr(r, p), S, wt)
<1> DEFINE q == requeue_task_wrr(r, p)
           l == Append(list_del(r.queue, p), p)
<1>1. Lists(list_del(r.queue, p), S \ {p}) /\ Len(list_del(r.queue, p)) = Len(r.queue) - 1
  BY ListDel DEF RqHolds
<1>2. (S \ {p}) \cup {p} = S
  OBVIOUS
<1>3. Lists(l, S) /\ Len(l) = (Len(r.queue) - 1) + 1
  BY <1>1, <1>2, ListAddTail
<1>4. Len(r.queue) \in Nat
  BY DEF RqHolds, Lists
<1>5. l \in Seq(S) /\ Len(l) = Len(r.queue)
  BY <1>3, <1>4 DEF Lists
<1>6. q = [r EXCEPT !.queue = l]
  BY DEF requeue_task_wrr
<1> HIDE DEF q, l
<1>7. /\ q \in [queue : Seq(S), total_weight : Nat, wrr_nr_running : Nat]
      /\ q.queue = l /\ q.total_weight = r.total_weight
      /\ q.wrr_nr_running = r.wrr_nr_running
  BY <1>5, <1>6 DEF RqHolds
<1>8. RqHolds(q, S, wt)
  BY <1>3, <1>5, <1>7 DEF RqHolds
<1> QED BY <1>8 DEF q

\* The weight of a task that is not queued does not matter.
LEMMA RqOther ==
  ASSUME NEW S, NEW wt, NEW r, RqHolds(r, S, wt), NEW p, p \notin S, NEW w
  PROVE  RqHolds(r, S, [wt EXCEPT ![p] = w])
<1>1. Total(S, [wt EXCEPT ![p] = w]) = Total(S, wt)
  BY TotalOther, ZenonT(60)
<1> QED BY <1>1 DEF RqHolds

\* An empty run queue holds nobody.
LEMMA RqInit == ASSUME NEW wt PROVE RqHolds(init_wrr_rq, {}, wt)
<1>1. Light({}, wt) = {} /\ Heavy({}, wt) = {}
  BY DEF Light, Heavy
<1>2. Total({}, wt) = 0
  BY <1>1, FS_EmptySet DEF Total
<1> QED BY <1>2 DEF RqHolds, init_wrr_rq, Lists

-----------------------------------------------------------------------------
(* The inductive invariant *)

Classes == {"fair", "wrr", "rt"}
QueuedSet == {p \in Tasks : Queued(p)}
OnRq(queued) == {p \in Tasks : queued[p]}

\* The part of the state that only the run-queue operations touch.
RqTypes ==
  /\ on_rq \in [Tasks -> BOOLEAN]
  /\ sched_class \in [Tasks -> Classes]
  /\ group \in [Tasks -> Groups]
  /\ weight \in [Tasks -> {1, 10}]
  /\ time_slice \in [Tasks -> Nat]
  /\ nr_running \in Nat
  /\ curr \in Tasks \cup {Idle}

WeightsFit == \A p \in Tasks : Queued(p) => weight[p] = WeightOf(group[p])
SlicesFit == \A p \in Tasks : time_slice[p] \in 1 .. Timeslice(weight[p])
CurrOnRq == curr # Idle => on_rq[curr]

RqInv ==
  /\ RqTypes
  /\ RqHolds(wrr, QueuedSet, weight)
  /\ nr_running = Cardinality(OnRq(on_rq))
  /\ WeightsFit
  /\ SlicesFit
  /\ CurrOnRq

\* The rest of a task.
TaskTypes ==
  /\ state \in [Tasks -> {"none", "new", "running", "sleeping", "dead"}]
  /\ policy \in [Tasks -> {"normal", "wrr", "rt"}]
  /\ rt_priority \in [Tasks -> RtPriorities \cup {0}]
  /\ static_prio \in [Tasks -> StaticPrios]
  /\ prio \in [Tasks -> Prios]
  /\ reset_on_fork \in [Tasks -> BOOLEAN]
  /\ waiter \in [Tasks -> WaiterPrios \cup {MAX_PRIO}]
  /\ need_resched \in BOOLEAN
  /\ rt_throttled \in BOOLEAN

\* A runnable task is on the run queue, one that is not yet or no longer
\* alive is not.
StatesFit ==
  \A p \in Tasks : /\ state[p] = "running" => on_rq[p]
                   /\ state[p] \in {"none", "new"} => ~on_rq[p]

IInv == TaskTypes /\ RqInv /\ StatesFit

-----------------------------------------------------------------------------
\* The weight of a group is one of the two weights, and a full slice of
\* either is at least one tick.
LEMMA WeightFacts ==
  /\ \A g : WeightOf(g) \in {1, 10}
  /\ \A w : Timeslice(w) \in Nat \ {0}
BY GoldfishAssumption DEF WeightOf, Timeslice

\* Dequeueing a task, changing its class or group and enqueueing it again
\* keeps the run queue in order, whatever the change.
LEMMA ReinsertKeeps ==
  ASSUME RqInv, NEW p \in Tasks, NEW c \in Classes, NEW g \in Groups,
         NEW head \in BOOLEAN, Reinsert(p, c, g, head)
  PROVE  RqInv' /\ on_rq' = on_rq
<1>1. /\ sched_class' = [sched_class EXCEPT ![p] = c]
      /\ group' = [group EXCEPT ![p] = g]
      /\ on_rq' = on_rq /\ nr_running' = nr_running /\ curr' = curr
  BY DEF Reinsert
<1>2. IsFiniteSet(QueuedSet) /\ QueuedSet \subseteq Tasks
  BY GoldfishAssumption, FS_Subset DEF QueuedSet
<1>3. CASE ~on_rq[p]
  <2>1. wrr' = wrr /\ weight' = weight /\ time_slice' = time_slice
    BY <1>3 DEF Reinsert, wrrVars
  <2>2. \A x \in Tasks : Queued(x)' <=> Queued(x)
    BY <1>1, <1>3 DEF Queued, RqInv, RqTypes
  <2>3. QueuedSet' = QueuedSet
    BY <2>2 DEF QueuedSet
  <2>4. RqTypes'
    BY <1>1, <2>1 DEF RqInv, RqTypes
  <2>5. WeightsFit'
    BY <1>1, <1>3, <2>1, <2>2 DEF RqInv, RqTypes, WeightsFit, Queued
  <2> QED BY <1>1, <2>1, <2>3, <2>4, <2>5 DEF RqInv, SlicesFit, CurrOnRq, OnRq
<1>4. CASE on_rq[p]
  <2> DEFINE w   == EnqueuedWeight(c, weight[p], g)
             out == IF sched_class[p] = "wrr"
                    THEN dequeue_wrr_entity(wrr, p, weight[p]) ELSE wrr
  <2>1. /\ wrr' = IF c = "wrr" THEN enqueue_wrr_entity(out, p, w, head) ELSE out
        /\ weight' = [weight EXCEPT ![p] = w]
        /\ time_slice' = [time_slice EXCEPT ![p] = EnqueuedSlice(c, weight[p], time_slice[p], g)]
    BY <1>4 DEF Reinsert
  <2>2. w \in {1, 10} /\ weight[p] \in {1, 10}
    BY WeightFacts DEF EnqueuedWeight, RqInv, RqTypes
  <2>3. RqHolds(out, QueuedSet \ {p}, weight)
    <3>1. CASE sched_class[p] = "wrr"
      <4>1. p \in QueuedSet
        BY <1>4, <3>1 DEF QueuedSet, Queued
      <4> QED BY <1>2, <2>2, <3>1, <4>1, RqDequeue DEF RqInv
    <3>2. CASE sched_class[p] # "wrr"
      <4>1. QueuedSet \ {p} = QueuedSet
        BY <3>2 DEF QueuedSet, Queued
      <4> QED BY <3>2, <4>1 DEF RqInv
    <3> QED BY <3>1, <3>2
  <2>4. \A x \in Tasks : Queued(x)' <=> IF x = p THEN c = "wrr" ELSE Queued(x)
    BY <1>1, <1>4 DEF Queued, RqInv, RqTypes
  <2> HIDE DEF out, w
  <2>5. RqHolds(wrr', QueuedSet', weight')
    <3>1. CASE c = "wrr"
      <4>1. QueuedSet' = (QueuedSet \ {p}) \cup {p}
        BY <2>4, <3>1 DEF QueuedSet
      <4>2. IsFiniteSet(QueuedSet \ {p}) /\ QueuedSet \ {p} \subseteq Tasks
            /\ p \notin QueuedSet \ {p}
        BY <1>2, FS_RemoveElement
      <4>3. weight \in [Tasks -> {1, 10}]
        BY DEF RqInv, RqTypes
      <4>4. wrr' = enqueue_wrr_entity(out, p, w, head)
        BY <2>1, <3>1
      <4> DEFINE S == QueuedSet \ {p}
      <4>5. RqHolds(out, S, weight) /\ IsFiniteSet(S) /\ S \subseteq Tasks /\ p \notin S
        BY <2>3, <4>2
      <4> HIDE DEF S
      <4>6. RqHolds(enqueue_wrr_entity(out, p, w, head), S \cup {p}, [weight EXCEPT ![p] = w])
        BY <2>2, <4>3, <4>5, RqEnqueue
      <4> QED BY <2>1, <4>1, <4>4, <4>6 DEF S
    <3>2. CASE c # "wrr"
      <4>1. QueuedSet' = QueuedSet \ {p}
        BY <2>4, <3>2 DEF QueuedSet
      <4>2. wrr' = out
        BY <2>1, <3>2
      <4>3. RqHolds(out, QueuedSet \ {p}, weight')
        BY <2>1, <2>3, RqOther
      <4> QED BY <4>1, <4>2, <4>3
    <3> QED BY <3>1, <3>2
  <2>6. EnqueuedSlice(c, weight[p], time_slice[p], g) \in 1 .. Timeslice(w)
    <3>1. time_slice[p] \in 1 .. Timeslice(weight[p])
      BY DEF RqInv, SlicesFit
    <3>2. Timeslice(WeightOf(g)) \in 1 .. Timeslice(WeightOf(g))
      BY WeightFacts
    <3> QED BY <3>1, <3>2 DEF EnqueuedSlice, EnqueuedWeight, w
  <2>7. RqTypes'
    <3>1. EnqueuedSlice(c, weight[p], time_slice[p], g) \in Nat
      BY <2>6, WeightFacts
    <3> QED BY <1>1, <2>1, <2>2, <3>1 DEF RqInv, RqTypes
  <2>8. WeightsFit'
    <3> SUFFICES ASSUME NEW x \in Tasks, Queued(x)'
                 PROVE  weight'[x] = WeightOf(group'[x])
      BY DEF WeightsFit
    <3>1. CASE x = p
      <4>1. c = "wrr"
        BY <2>4, <3>1
      <4>2. group'[p] = g /\ weight'[p] = w
        BY <1>1, <2>1 DEF RqInv, RqTypes
      <4>3. w = WeightOf(g)
        BY <4>1 DEF w, EnqueuedWeight
      <4> QED BY <3>1, <4>2, <4>3
    <3>2. CASE x # p
      BY <1>1, <2>1, <2>4, <3>2 DEF RqInv, RqTypes, WeightsFit
    <3> QED BY <3>1, <3>2
  <2>9. SlicesFit'
    <3> SUFFICES ASSUME NEW x \in Tasks
                 PROVE  time_slice'[x] \in 1 .. Timeslice(weight'[x])
      BY DEF SlicesFit
    <3>1. CASE x = p
      BY <2>1, <2>6, <3>1 DEF RqInv, RqTypes
    <3>2. CASE x # p
      <4>1. time_slice'[x] = time_slice[x] /\ weight'[x] = weight[x]
        BY <2>1, <3>2 DEF RqInv, RqTypes
      <4> QED BY <4>1 DEF RqInv, SlicesFit
    <3> QED BY <3>1, <3>2
  <2>10. (nr_running = Cardinality(OnRq(on_rq)))' /\ CurrOnRq'
    BY <1>1 DEF RqInv, CurrOnRq, OnRq
  <2> QED BY <1>1, <2>5, <2>7, <2>8, <2>9, <2>10 DEF RqInv
<1> QED BY <1>1, <1>3, <1>4

\* Activating a task that is not on the run queue, with any legal weight and
\* slice to start from, keeps the run queue in order.
LEMMA ActivateKeeps ==
  ASSUME RqInv, NEW p \in Tasks, ~on_rq[p], NEW w \in {1, 10},
         NEW s \in 1 .. Timeslice(w), Activate(p, w, s)
  PROVE  RqInv' /\ on_rq' = [on_rq EXCEPT ![p] = TRUE]
<1> DEFINE wn == EnqueuedWeight(sched_class[p], w, group[p])
           sn == EnqueuedSlice(sched_class[p], w, s, group[p])
<1>1. /\ on_rq' = [on_rq EXCEPT ![p] = TRUE]
      /\ weight' = [weight EXCEPT ![p] = wn]
      /\ time_slice' = [time_slice EXCEPT ![p] = sn]
      /\ wrr' = IF sched_class[p] = "wrr"
                THEN enqueue_wrr_entity(wrr, p, WeightOf(group[p]), FALSE) ELSE wrr
      /\ nr_running' = nr_running + 1
      /\ sched_class' = sched_class /\ group' = group /\ curr' = curr
  BY DEF Activate
<1>2. IsFiniteSet(QueuedSet) /\ QueuedSet \subseteq Tasks /\ p \notin QueuedSet
  BY GoldfishAssumption, FS_Subset DEF QueuedSet, Queued
<1>3. wn \in {1, 10} /\ sn \in 1 .. Timeslice(wn) /\ sn \in Nat
  <2>1. Timeslice(WeightOf(group[p])) \in 1 .. Timeslice(WeightOf(group[p]))
    BY WeightFacts
  <2>2. sn \in 1 .. Timeslice(wn)
    BY <2>1 DEF EnqueuedWeight, EnqueuedSlice
  <2> QED BY <2>2, WeightFacts DEF EnqueuedWeight
<1>4. sched_class[p] = "wrr" => wn = WeightOf(group[p])
  BY DEF EnqueuedWeight
<1> HIDE DEF wn, sn
<1>5. \A x \in Tasks : Queued(x)' <=> IF x = p THEN sched_class[p] = "wrr" ELSE Queued(x)
  BY <1>1 DEF Queued, RqInv, RqTypes
<1>6. RqHolds(wrr', QueuedSet', weight')
  <2>1. CASE sched_class[p] = "wrr"
    <3>1. QueuedSet' = QueuedSet \cup {p}
      BY <1>5, <2>1 DEF QueuedSet
    <3>2. weight \in [Tasks -> {1, 10}] /\ RqHolds(wrr, QueuedSet, weight)
      BY DEF RqInv, RqTypes
    <3>3. RqHolds(enqueue_wrr_entity(wrr, p, wn, FALSE), QueuedSet \cup {p},
                  [weight EXCEPT ![p] = wn])
      BY <1>2, <1>3, <3>2, RqEnqueue
    <3> QED BY <1>1, <1>4, <2>1, <3>1, <3>3
  <2>2. CASE sched_class[p] # "wrr"
    <3>1. QueuedSet' = QueuedSet
      BY <1>2, <1>5, <2>2 DEF QueuedSet
    <3>2. RqHolds(wrr, QueuedSet, [weight EXCEPT ![p] = wn])
      BY <1>2, RqOther DEF RqInv
    <3> QED BY <1>1, <2>2, <3>1, <3>2
  <2> QED BY <2>1, <2>2
<1>7. RqTypes'
  BY <1>1, <1>3 DEF RqInv, RqTypes
<1>8. nr_running' = Cardinality(OnRq(on_rq'))
  <2>1. OnRq(on_rq') = OnRq(on_rq) \cup {p} /\ p \notin OnRq(on_rq)
    BY <1>1 DEF OnRq, RqInv, RqTypes
  <2>2. IsFiniteSet(OnRq(on_rq))
    BY GoldfishAssumption, FS_Subset DEF OnRq
  <2> QED BY <1>1, <2>1, <2>2, FS_AddElement DEF RqInv
<1>9. WeightsFit'
  <2> SUFFICES ASSUME NEW x \in Tasks, Queued(x)'
               PROVE  weight'[x] = WeightOf(group'[x])
    BY DEF WeightsFit
  <2> QED BY <1>1, <1>4, <1>5 DEF RqInv, RqTypes, WeightsFit
<1>10. SlicesFit'
  <2> SUFFICES ASSUME NEW x \in Tasks
               PROVE  time_slice'[x] \in 1 .. Timeslice(weight'[x])
    BY DEF SlicesFit
  <2>1. CASE x = p
    BY <1>1, <1>3, <2>1 DEF RqInv, RqTypes
  <2>2. CASE x # p
    <3>1. time_slice'[x] = time_slice[x] /\ weight'[x] = weight[x]
      BY <1>1, <2>2 DEF RqInv, RqTypes
    <3> QED BY <3>1 DEF RqInv, SlicesFit
  <2> QED BY <2>1, <2>2
<1>11. CurrOnRq'
  BY <1>1 DEF RqInv, RqTypes, CurrOnRq
<1> QED BY <1>1, <1>6, <1>7, <1>8, <1>9, <1>10, <1>11 DEF RqInv

\* pick_next_task() returns the idle task or a task on the run queue: in
\* particular the head of the WRR list exists when wrr_nr_running says so.
LEMMA PickedIsQueued ==
  ASSUME NEW r, NEW queued \in [Tasks -> BOOLEAN], NEW nr, NEW wt,
         RqHolds(r, {p \in Tasks : queued[p] /\ sched_class[p] = "wrr"}, wt),
         NEW t \in pick_next_task(r, queued, nr)
  PROVE  t = Idle \/ (t \in Tasks /\ queued[t])
<1> DEFINE Of(c) == {p \in Tasks : queued[p] /\ sched_class[p] = c}
           BestRt == {p \in Of("rt") : \A q \in Of("rt") : prio[p] <= prio[q]}
<1>1. \/ t \in Of("fair") \/ t \in Of("rt") \/ t = Idle
      \/ r.wrr_nr_running # 0 /\ t = Head(r.queue)
  BY DEF pick_next_task
<1>2. ASSUME r.wrr_nr_running # 0 PROVE Head(r.queue) \in Of("wrr")
  <2>1. r.queue \in Seq(Of("wrr")) /\ Len(r.queue) # 0
    BY <1>2 DEF RqHolds, Lists
  <2> HIDE DEF Of
  <2>2. r.queue # << >>
    BY <2>1
  <2> QED BY <2>1, <2>2
<1> QED BY <1>1, <1>2

\* __schedule() keeps the run queue in order if what it was handed was.
LEMMA SwitchKeeps ==
  ASSUME RqInv, NEW r, NEW queued \in [Tasks -> BOOLEAN], NEW nr \in Nat,
         RqHolds(r, {p \in Tasks : queued[p] /\ sched_class[p] = "wrr"}, weight),
         nr = Cardinality(OnRq(queued)),
         \A p \in Tasks : queued[p] => on_rq[p],
         Switch(r, queued, nr)
  PROVE  RqInv' /\ on_rq' = queued
<1>1. /\ wrr' = r /\ on_rq' = queued /\ nr_running' = nr
      /\ curr' \in pick_next_task(r, queued, nr)
      /\ sched_class' = sched_class /\ group' = group
      /\ weight' = weight /\ time_slice' = time_slice
  BY DEF Switch
<1>2. curr' = Idle \/ (curr' \in Tasks /\ queued[curr'])
  BY <1>1, PickedIsQueued
<1>3. QueuedSet' = {p \in Tasks : queued[p] /\ sched_class[p] = "wrr"}
  BY <1>1 DEF QueuedSet, Queued
<1>4. RqTypes'
  BY <1>1, <1>2 DEF RqInv, RqTypes
<1>5. WeightsFit'
  BY <1>1 DEF RqInv, WeightsFit, Queued
<1>6. SlicesFit' /\ CurrOnRq'
  BY <1>1, <1>2 DEF RqInv, SlicesFit, CurrOnRq
<1> QED BY <1>1, <1>3, <1>4, <1>5, <1>6 DEF RqInv

\* Priorities stay in range, boosted or not.
LEMMA PrioFacts ==
  /\ \A pol : \A rtp \in RtPriorities \cup {0}, static \in StaticPrios :
       normal_prio(pol, rtp, static) \in Prios
  /\ \A w \in WaiterPrios \cup {MAX_PRIO}, n \in Prios : rt_mutex_getprio(w, n) \in Prios
  /\ StaticPrios \subseteq Prios
  /\ \A pol, pr : ClassFor(pol, pr) \in Classes
BY GoldfishAssumption DEF normal_prio, rt_mutex_getprio, Prios, ClassFor, Classes

\* Whatever the answer about preemption, the flag stays a flag.
LEMMA ReschedType ==
  ASSUME NEW answers, Resched(answers)
  PROVE  need_resched' \in BOOLEAN
BY DEF Resched

-----------------------------------------------------------------------------
\* The requests that change a task: policy, priority, group.
LEMMA RequestKeeps ==
  ASSUME IInv, NEW p \in Tasks, Requests(p)
  PROVE  IInv'
<1> USE DEF IInv
<1>1. /\ group[p] \in Groups /\ sched_class[p] \in Classes
      /\ static_prio[p] \in StaticPrios /\ prio[p] \in Prios
      /\ rt_priority[p] \in RtPriorities \cup {0}
      /\ waiter[p] \in WaiterPrios \cup {MAX_PRIO}
  BY DEF RqInv, RqTypes, TaskTypes
<1>2. ASSUME NEW pol \in Policies, NEW rtp \in RtPriorities \cup {0},
             NEW reset \in ResetFlags, sched_setscheduler(p, pol, rtp, reset)
      PROVE  IInv'
  <2> DEFINE pr == rt_mutex_getprio(waiter[p], normal_prio(pol, rtp, static_prio[p]))
             c  == ClassFor(pol, pr)
  <2>1. pr \in Prios /\ c \in Classes
    BY <1>1, PrioFacts
  <2>2. /\ Reinsert(p, c, group[p], FALSE)
        /\ Resched(check_class_changed(p, c, pr))
        /\ policy' = [policy EXCEPT ![p] = pol]
        /\ rt_priority' = [rt_priority EXCEPT ![p] = rtp]
        /\ prio' = [prio EXCEPT ![p] = pr]
        /\ reset_on_fork' = [reset_on_fork EXCEPT ![p] = reset]
        /\ state' = state /\ static_prio' = static_prio /\ waiter' = waiter
    BY <1>2 DEF sched_setscheduler
  <2> HIDE DEF pr, c
  <2>3. RqInv' /\ on_rq' = on_rq
    BY <1>1, <2>1, <2>2, ReinsertKeeps
  <2>4. rt_throttled' = rt_throttled /\ need_resched' \in BOOLEAN
    BY <2>2, ReschedType DEF Reinsert
  <2>5. TaskTypes'
    BY <2>1, <2>2, <2>4, GoldfishAssumption DEF TaskTypes
  <2> QED BY <2>2, <2>3, <2>5 DEF StatesFit
<1>3. CASE normalize_task(p)
  <2> DEFINE pr == rt_mutex_getprio(waiter[p], static_prio[p])
             c  == ClassFor("normal", pr)
  <2>1. pr \in Prios /\ c \in Classes
    BY <1>1, PrioFacts
  <2>2. /\ Reinsert(p, c, group[p], FALSE)
        /\ need_resched' \in BOOLEAN
        /\ policy' = [policy EXCEPT ![p] = "normal"]
        /\ rt_priority' = [rt_priority EXCEPT ![p] = 0]
        /\ prio' = [prio EXCEPT ![p] = pr]
        /\ state' = state /\ static_prio' = static_prio /\ waiter' = waiter
        /\ reset_on_fork' = reset_on_fork
    BY <1>3 DEF normalize_task
  <2> HIDE DEF pr, c
  <2>3. RqInv' /\ on_rq' = on_rq
    BY <1>1, <2>1, <2>2, ReinsertKeeps
  <2>4. rt_throttled' = rt_throttled
    BY <2>2 DEF Reinsert
  <2>5. TaskTypes'
    BY <2>1, <2>2, <2>4 DEF TaskTypes
  <2> QED BY <2>2, <2>3, <2>5 DEF StatesFit
<1>4. ASSUME NEW w \in WaiterPrios \cup {MAX_PRIO}, rt_mutex_setprio(p, w)
      PROVE  IInv'
  <2> DEFINE pr == rt_mutex_getprio(w, normal_prio(policy[p], rt_priority[p], static_prio[p]))
             c  == ClassFor(policy[p], pr)
             h  == prio[p] < pr
  <2>1. pr \in Prios /\ c \in Classes /\ h \in BOOLEAN
    BY <1>1, PrioFacts
  <2>2. /\ waiter' = [waiter EXCEPT ![p] = w]
        /\ state' = state /\ static_prio' = static_prio /\ policy' = policy
        /\ rt_priority' = rt_priority /\ reset_on_fork' = reset_on_fork
    BY <1>4 DEF rt_mutex_setprio
  <2>3. CASE pr = prio[p]
    <3>1. UNCHANGED <<prio, sched_class, group, wrr, weight, time_slice, on_rq,
                      nr_running, curr, rt_throttled, need_resched>>
      BY <1>4, <2>3 DEF rt_mutex_setprio, wrrVars
    <3>2. QueuedSet' = QueuedSet
      BY <3>1 DEF QueuedSet, Queued
    <3>3. RqInv'
      BY <3>1, <3>2 DEF RqInv, RqTypes, WeightsFit, SlicesFit, CurrOnRq, Queued, OnRq
    <3>4. TaskTypes'
      BY <2>2, <3>1 DEF TaskTypes
    <3> QED BY <2>2, <3>1, <3>3, <3>4 DEF StatesFit
  <2>4. CASE pr # prio[p]
    <3>1. /\ prio' = [prio EXCEPT ![p] = pr]
          /\ Reinsert(p, c, group[p], h)
          /\ Resched(check_class_changed(p, c, pr))
      BY <1>4, <2>4 DEF rt_mutex_setprio
    <3> HIDE DEF pr, c, h
    <3>2. RqInv' /\ on_rq' = on_rq
      BY <1>1, <2>1, <3>1, ReinsertKeeps
    <3>3. rt_throttled' = rt_throttled /\ need_resched' \in BOOLEAN
      BY <3>1, ReschedType DEF Reinsert
    <3>4. TaskTypes'
      BY <2>1, <2>2, <3>1, <3>3 DEF TaskTypes
    <3> QED BY <2>2, <3>2, <3>4 DEF StatesFit
  <2> QED BY <2>3, <2>4
<1>5. ASSUME NEW static \in StaticPrios, set_user_nice(p, static)
      PROVE  IInv'
  <2> DEFINE pr == IF rt_prio(prio[p]) THEN prio[p] ELSE static
  <2>1. pr \in Prios
    BY <1>1, PrioFacts
  <2>2. /\ static_prio' = [static_prio EXCEPT ![p] = static]
        /\ state' = state /\ policy' = policy /\ rt_priority' = rt_priority
        /\ reset_on_fork' = reset_on_fork /\ waiter' = waiter
    BY <1>5 DEF set_user_nice
  <2>3. CASE policy[p] = "rt"
    <3>1. UNCHANGED <<prio, sched_class, group, wrr, weight, time_slice, on_rq,
                      nr_running, curr, rt_throttled, need_resched>>
      BY <1>5, <2>3 DEF set_user_nice, wrrVars
    <3>2. QueuedSet' = QueuedSet
      BY <3>1 DEF QueuedSet, Queued
    <3>3. RqInv'
      BY <3>1, <3>2 DEF RqInv, RqTypes, WeightsFit, SlicesFit, CurrOnRq, Queued, OnRq
    <3>4. TaskTypes'
      BY <2>2, <3>1 DEF TaskTypes
    <3> QED BY <2>2, <3>1, <3>3, <3>4 DEF StatesFit
  <2>4. CASE policy[p] # "rt"
    <3>1. /\ prio' = [prio EXCEPT ![p] = pr]
          /\ Reinsert(p, sched_class[p], group[p], FALSE)
          /\ Resched({on_rq[p] /\ (pr < prio[p] \/ (pr > prio[p] /\ curr = p))})
      BY <1>5, <2>4 DEF set_user_nice
    <3> HIDE DEF pr
    <3>2. RqInv' /\ on_rq' = on_rq
      BY <1>1, <3>1, ReinsertKeeps
    <3>3. rt_throttled' = rt_throttled /\ need_resched' \in BOOLEAN
      BY <3>1, ReschedType DEF Reinsert
    <3>4. TaskTypes'
      BY <2>1, <2>2, <3>1, <3>3 DEF TaskTypes
    <3> QED BY <2>2, <3>2, <3>4 DEF StatesFit
  <2> QED BY <2>3, <2>4
<1>6. ASSUME NEW g \in Groups, cpu_cgroup_attach(p, g)
      PROVE  IInv'
  <2>1. /\ Reinsert(p, sched_class[p], g, FALSE)
        /\ UNCHANGED <<state, policy, rt_priority, static_prio, prio,
                       reset_on_fork, waiter, need_resched>>
    BY <1>6 DEF cpu_cgroup_attach, taskVars
  <2>2. RqInv' /\ on_rq' = on_rq
    BY <1>1, <2>1, ReinsertKeeps
  <2>3. rt_throttled' = rt_throttled
    BY <2>1 DEF Reinsert
  <2>4. TaskTypes'
    BY <2>1, <2>3 DEF TaskTypes
  <2> QED BY <2>1, <2>2, <2>4 DEF StatesFit
<1> QED BY <1>2, <1>3, <1>4, <1>5, <1>6 DEF Requests

\* Fork: the child's slot is not on the run queue, so giving it a class, a
\* weight and a slice disturbs nothing.
LEMMA ForkKeeps ==
  ASSUME IInv, NEW child \in Tasks, sched_fork(child)
  PROVE  IInv'
<1> USE DEF IInv
<1> DEFINE reset  == reset_on_fork[curr]
           pol    == IF reset /\ policy[curr] = "rt" THEN "normal" ELSE policy[curr]
           static == IF reset /\ (policy[curr] = "rt" \/ static_prio[curr] < DEFAULT_PRIO)
                     THEN DEFAULT_PRIO ELSE static_prio[curr]
           rtp    == IF pol = "rt" THEN rt_priority[curr] ELSE 0
           pr     == IF reset THEN static ELSE normal_prio(pol, rtp, static)
           c      == IF rt_prio(pr) THEN sched_class[curr] ELSE "fair"
<1>1. curr \in Tasks /\ state[child] = "none" /\ ~on_rq[child]
  BY DEF sched_fork, RqInv, RqTypes, StatesFit
<1>2. /\ pol \in {"normal", "wrr", "rt"} /\ static \in StaticPrios
      /\ rtp \in RtPriorities \cup {0}
  BY <1>1, GoldfishAssumption DEF TaskTypes
<1>3. pr \in Prios
  <2> HIDE DEF pol, static, rtp
  <2> QED BY <1>2, PrioFacts
<1>4. c \in Classes
  BY <1>1 DEF RqInv, RqTypes, Classes
<1>5. /\ state' = [state EXCEPT ![child] = "new"]
      /\ policy' = [policy EXCEPT ![child] = pol]
      /\ rt_priority' = [rt_priority EXCEPT ![child] = rtp]
      /\ static_prio' = [static_prio EXCEPT ![child] = static]
      /\ prio' = [prio EXCEPT ![child] = pr]
      /\ sched_class' = [sched_class EXCEPT ![child] = c]
      /\ reset_on_fork' = [reset_on_fork EXCEPT ![child] = FALSE]
      /\ waiter' = [waiter EXCEPT ![child] = MAX_PRIO]
      /\ group' = [group EXCEPT ![child] = group[curr]]
      /\ weight' = [weight EXCEPT ![child] = weight[curr]]
      /\ time_slice' = [time_slice EXCEPT ![child] = time_slice[curr]]
      /\ UNCHANGED <<on_rq, wrr, nr_running, curr, need_resched, rt_throttled>>
  BY DEF sched_fork
<1> HIDE DEF reset, pol, static, rtp, pr, c
<1>6. TaskTypes'
  BY <1>2, <1>3, <1>5 DEF TaskTypes
<1>7. StatesFit'
  BY <1>1, <1>5 DEF StatesFit, TaskTypes
<1>8. \A x \in Tasks : Queued(x)' <=> Queued(x)
  BY <1>1, <1>5 DEF Queued, RqInv, RqTypes
<1>9. RqTypes'
  BY <1>1, <1>4, <1>5 DEF RqInv, RqTypes
<1>10. RqHolds(wrr', QueuedSet', weight')
  <2>1. QueuedSet' = QueuedSet /\ child \notin QueuedSet
    BY <1>1, <1>8 DEF QueuedSet, Queued
  <2>2. RqHolds(wrr, QueuedSet, [weight EXCEPT ![child] = weight[curr]])
    BY <2>1, RqOther DEF RqInv
  <2> QED BY <1>5, <2>1, <2>2
<1>11. WeightsFit'
  <2> SUFFICES ASSUME NEW x \in Tasks, Queued(x)'
               PROVE  weight'[x] = WeightOf(group'[x])
    BY DEF WeightsFit
  <2>1. Queued(x) /\ x # child
    BY <1>1, <1>8 DEF Queued
  <2>2. weight'[x] = weight[x] /\ group'[x] = group[x]
    BY <1>5, <2>1 DEF RqInv, RqTypes
  <2> QED BY <2>1, <2>2 DEF RqInv, WeightsFit
<1>12. SlicesFit'
  <2> SUFFICES ASSUME NEW x \in Tasks
               PROVE  time_slice'[x] \in 1 .. Timeslice(weight'[x])
    BY DEF SlicesFit
  <2> DEFINE y == IF x = child THEN curr ELSE x
  <2>1. y \in Tasks /\ time_slice'[x] = time_slice[y] /\ weight'[x] = weight[y]
    BY <1>1, <1>5 DEF RqInv, RqTypes
  <2> QED BY <2>1 DEF RqInv, SlicesFit
<1>13. CurrOnRq' /\ nr_running' = Cardinality(OnRq(on_rq'))
  BY <1>5 DEF RqInv, CurrOnRq, OnRq
<1> QED BY <1>6, <1>7, <1>9, <1>10, <1>11, <1>12, <1>13 DEF RqInv

\* The two ways a task gets on the run queue.
LEMMA WakeKeeps ==
  ASSUME IInv, NEW p \in Tasks, wake_up_new_task(p) \/ try_to_wake_up(p)
  PROVE  IInv'
<1> USE DEF IInv
<1>1. /\ state' = [state EXCEPT ![p] = "running"]
      /\ UNCHANGED <<policy, rt_priority, static_prio, prio, reset_on_fork, waiter>>
      /\ need_resched' \in BOOLEAN
  BY ReschedType DEF wake_up_new_task, try_to_wake_up
<1>2. rt_throttled' = rt_throttled
  BY DEF wake_up_new_task, try_to_wake_up, Activate
<1>3. TaskTypes'
  BY <1>1, <1>2 DEF TaskTypes
<1>4. CASE wake_up_new_task(p)
  <2> DEFINE w == WeightOf(group[p])
  <2>1. ~on_rq[p] /\ w \in {1, 10} /\ Timeslice(w) \in 1 .. Timeslice(w)
    BY <1>4, WeightFacts DEF wake_up_new_task, StatesFit
  <2>2. Activate(p, w, Timeslice(w))
    BY <1>4 DEF wake_up_new_task
  <2> HIDE DEF w
  <2>3. RqInv' /\ on_rq' = [on_rq EXCEPT ![p] = TRUE]
    BY <2>1, <2>2, ActivateKeeps
  <2>4. StatesFit'
    BY <1>1, <2>3 DEF StatesFit, TaskTypes, RqInv, RqTypes
  <2> QED BY <1>3, <2>3, <2>4
<1>5. CASE try_to_wake_up(p) /\ ~on_rq[p]
  <2>1. weight[p] \in {1, 10} /\ time_slice[p] \in 1 .. Timeslice(weight[p])
    BY DEF RqInv, RqTypes, SlicesFit
  <2>2. Activate(p, weight[p], time_slice[p])
    BY <1>5 DEF try_to_wake_up
  <2>3. RqInv' /\ on_rq' = [on_rq EXCEPT ![p] = TRUE]
    BY <1>5, <2>1, <2>2, ActivateKeeps
  <2>4. StatesFit'
    BY <1>1, <2>3 DEF StatesFit, TaskTypes, RqInv, RqTypes
  <2> QED BY <1>3, <2>3, <2>4
<1>6. CASE try_to_wake_up(p) /\ on_rq[p]
  <2>1. UNCHANGED <<on_rq, sched_class, group, wrr, weight, time_slice, nr_running, curr>>
    BY <1>6 DEF try_to_wake_up, wrrVars
  <2>2. QueuedSet' = QueuedSet
    BY <2>1 DEF QueuedSet, Queued
  <2>3. RqInv'
    BY <2>1, <2>2 DEF RqInv, RqTypes, WeightsFit, SlicesFit, CurrOnRq, Queued, OnRq
  <2>4. StatesFit'
    BY <1>1, <1>6, <2>1 DEF StatesFit, TaskTypes
  <2> QED BY <1>3, <2>3, <2>4
<1> QED BY <1>4, <1>5, <1>6

\* The four ways into __schedule().
LEMMA ScheduleKeeps ==
  ASSUME IInv, schedule \/ preempt_schedule \/ sched_yield
  PROVE  IInv'
<1> USE DEF IInv
<1> DEFINE QS(queued) == {p \in Tasks : queued[p] /\ sched_class[p] = "wrr"}
<1>1. QS(on_rq) = QueuedSet /\ RqHolds(wrr, QS(on_rq), weight)
  BY DEF QueuedSet, Queued, RqInv
<1>2. /\ UNCHANGED <<policy, rt_priority, static_prio, prio, reset_on_fork, waiter,
                     rt_throttled>>
      /\ need_resched' = FALSE
  BY DEF schedule, preempt_schedule, sched_yield, Switch
<1>3. IsFiniteSet(OnRq(on_rq)) /\ IsFiniteSet(QueuedSet)
  BY GoldfishAssumption, FS_Subset DEF OnRq, QueuedSet
<1>4. on_rq \in [Tasks -> BOOLEAN] /\ nr_running \in Nat
      /\ nr_running = Cardinality(OnRq(on_rq))
  BY DEF RqInv, RqTypes
<1>5. ASSUME Switch(wrr, on_rq, nr_running) PROVE RqInv' /\ on_rq' = on_rq
  BY <1>1, <1>4, <1>5, SwitchKeeps
<1>6. CASE preempt_schedule
  <2>1. RqInv' /\ on_rq' = on_rq /\ state' = state
    BY <1>5, <1>6 DEF preempt_schedule
  <2> QED BY <1>2, <2>1 DEF TaskTypes, StatesFit
<1>7. CASE sched_yield
  <2> DEFINE r == IF sched_class[curr] = "wrr" THEN requeue_task_wrr(wrr, curr) ELSE wrr
  <2>1. curr \in Tasks /\ on_rq[curr] /\ state' = state /\ Switch(r, on_rq, nr_running)
    BY <1>7 DEF sched_yield, RqInv, RqTypes, CurrOnRq
  <2>2. RqHolds(r, QS(on_rq), weight)
    <3>1. CASE sched_class[curr] = "wrr"
      <4>1. curr \in QueuedSet
        BY <2>1, <3>1 DEF QueuedSet, Queued
      <4> QED BY <1>1, <3>1, <4>1, RqRequeue
    <3> QED BY <1>1, <3>1
  <2> HIDE DEF r
  <2>3. RqInv' /\ on_rq' = on_rq
    BY <1>4, <2>1, <2>2, SwitchKeeps
  <2> QED BY <1>2, <2>1, <2>3 DEF TaskTypes, StatesFit
<1>8. CASE schedule
  <2>1. curr \in Tasks /\ on_rq[curr] /\ state[curr] \in {"sleeping", "dead"}
    BY <1>8 DEF schedule, RqInv, RqTypes, CurrOnRq
  <2> DEFINE r == IF sched_class[curr] = "wrr"
                  THEN dequeue_wrr_entity(wrr, curr, weight[curr]) ELSE wrr
             o == [on_rq EXCEPT ![curr] = FALSE]
  <2>2. CASE /\ state' = [state EXCEPT ![curr] = IF @ = "dead" THEN "none" ELSE @]
             /\ Switch(r, o, nr_running - 1)
    <3>1. o \in [Tasks -> BOOLEAN] /\ \A p \in Tasks : o[p] <=> on_rq[p] /\ p # curr
      BY <2>1, <1>4
    <3>2. nr_running - 1 \in Nat /\ nr_running - 1 = Cardinality(OnRq(o))
      <4>1. OnRq(o) = OnRq(on_rq) \ {curr} /\ curr \in OnRq(on_rq)
        BY <2>1, <3>1 DEF OnRq
      <4>2. /\ Cardinality(OnRq(o)) = Cardinality(OnRq(on_rq)) - 1
            /\ Cardinality(OnRq(o)) \in Nat
        BY <1>3, <4>1, FS_RemoveElement, FS_CardinalityType
      <4> QED BY <1>4, <4>2
    <3>3. RqHolds(r, QS(o), weight)
      <4>1. QS(o) = QueuedSet \ {curr}
        BY <1>1, <3>1
      <4>2. CASE sched_class[curr] = "wrr"
        <5>1. curr \in QueuedSet /\ weight[curr] \in {1, 10}
          BY <2>1, <4>2 DEF QueuedSet, Queued, RqInv, RqTypes
        <5> QED BY <1>1, <1>3, <4>1, <4>2, <5>1, RqDequeue
      <4>3. CASE sched_class[curr] # "wrr"
        <5>1. QS(o) = QueuedSet
          BY <4>1, <4>3 DEF QueuedSet, Queued
        <5> QED BY <1>1, <4>3, <5>1
      <4> QED BY <4>2, <4>3
    <3> HIDE DEF r, o
    <3>4. RqInv' /\ on_rq' = o
      BY <2>2, <3>1, <3>2, <3>3, SwitchKeeps
    <3>5. TaskTypes'
      BY <1>2, <2>1, <2>2 DEF TaskTypes
    <3>6. StatesFit'
      BY <2>1, <2>2, <3>1, <3>4 DEF StatesFit, TaskTypes
    <3> QED BY <3>4, <3>5, <3>6
  <2>3. CASE /\ state' = [state EXCEPT ![curr] = "running"]
             /\ Switch(wrr, on_rq, nr_running)
    <3>1. RqInv' /\ on_rq' = on_rq
      BY <1>5, <2>3
    <3>2. TaskTypes'
      BY <1>2, <2>1, <2>3 DEF TaskTypes
    <3>3. StatesFit'
      BY <2>1, <2>3, <3>1 DEF StatesFit, TaskTypes
    <3> QED BY <3>1, <3>2, <3>3
  <2> QED BY <1>8, <2>2, <2>3 DEF schedule
<1> QED BY <1>6, <1>7, <1>8

\* The steps of the running task and of the clock that leave the set of
\* queued tasks alone.
LEMMA OtherKeeps ==
  ASSUME IInv,
         SetCurrentState \/ Exit \/ scheduler_tick \/ do_sched_rt_period_timer
  PROVE  IInv'
<1> USE DEF IInv
<1>1. CASE SetCurrentState
  <2>1. /\ curr \in Tasks /\ state[curr] = "running"
        /\ state' = [state EXCEPT ![curr] = "sleeping"]
        /\ UNCHANGED <<policy, rt_priority, static_prio, prio, reset_on_fork, waiter,
                       on_rq, sched_class, group, wrr, weight, time_slice, nr_running,
                       curr, need_resched, rt_throttled>>
    BY <1>1 DEF SetCurrentState, wrrVars, RqInv, RqTypes
  <2>2. QueuedSet' = QueuedSet
    BY <2>1 DEF QueuedSet, Queued
  <2>3. RqInv'
    BY <2>1, <2>2 DEF RqInv, RqTypes, WeightsFit, SlicesFit, CurrOnRq, Queued, OnRq
  <2> QED BY <2>1, <2>3 DEF TaskTypes, StatesFit
<1>2. CASE Exit
  <2>1. /\ curr \in Tasks /\ state[curr] = "running"
        /\ state' = [state EXCEPT ![curr] = "dead"]
        /\ Reinsert(curr, sched_class[curr], Root, FALSE)
        /\ UNCHANGED <<policy, rt_priority, static_prio, prio, reset_on_fork, waiter,
                       need_resched>>
    BY <1>2 DEF Exit, RqInv, RqTypes
  <2>2. sched_class[curr] \in Classes /\ Root \in Groups
    BY <2>1, GoldfishAssumption DEF RqInv, RqTypes
  <2>3. RqInv' /\ on_rq' = on_rq
    BY <2>1, <2>2, ReinsertKeeps
  <2>4. rt_throttled' = rt_throttled
    BY <2>1 DEF Reinsert
  <2> QED BY <2>1, <2>3, <2>4 DEF TaskTypes, StatesFit
<1>3. CASE task_tick_wrr
  <2> DEFINE left == time_slice[curr] - 1
  <2>1. /\ curr \in Tasks /\ sched_class[curr] = "wrr" /\ on_rq[curr]
        /\ time_slice' = [time_slice EXCEPT ![curr] =
                            IF left = 0 THEN Timeslice(weight[curr]) ELSE left]
        /\ UNCHANGED <<state, policy, rt_priority, static_prio, prio, reset_on_fork,
                       waiter, on_rq, sched_class, group, weight, nr_running, curr,
                       rt_throttled>>
        /\ wrr' = wrr \/ wrr' = requeue_task_wrr(wrr, curr)
        /\ need_resched' = need_resched \/ need_resched' = TRUE
    BY <1>3 DEF task_tick_wrr, taskVars, RqInv, RqTypes, CurrOnRq
  <2>2. QueuedSet' = QueuedSet /\ curr \in QueuedSet
    BY <2>1 DEF QueuedSet, Queued
  <2>3. RqHolds(wrr', QueuedSet', weight')
    BY <2>1, <2>2, RqRequeue DEF RqInv
  <2>4. (IF left = 0 THEN Timeslice(weight[curr]) ELSE left) \in 1 .. Timeslice(weight[curr])
    BY <2>1, WeightFacts DEF RqInv, SlicesFit
  <2> HIDE DEF left
  <2>5. RqTypes' /\ SlicesFit'
    <3>1. Timeslice(weight[curr]) \in Nat
      BY WeightFacts
    <3> QED BY <2>1, <2>4, <3>1 DEF RqInv, RqTypes, SlicesFit
  <2>6. RqInv'
    BY <2>1, <2>2, <2>3, <2>5 DEF RqInv, WeightsFit, CurrOnRq, Queued, OnRq
  <2> QED BY <2>1, <2>6 DEF TaskTypes, StatesFit
<1>4. CASE task_tick_rt \/ task_tick_fair \/ do_sched_rt_period_timer
  <2>1. /\ UNCHANGED <<state, policy, rt_priority, static_prio, prio, reset_on_fork,
                       waiter, on_rq, sched_class, group, wrr, weight, time_slice,
                       nr_running, curr>>
        /\ need_resched' \in BOOLEAN /\ rt_throttled' \in BOOLEAN
    BY <1>4 DEF task_tick_rt, task_tick_fair, do_sched_rt_period_timer, taskVars,
                wrrVars, TaskTypes
  <2>2. QueuedSet' = QueuedSet
    BY <2>1 DEF QueuedSet, Queued
  <2>3. RqInv'
    BY <2>1, <2>2 DEF RqInv, RqTypes, WeightsFit, SlicesFit, CurrOnRq, Queued, OnRq
  <2> QED BY <2>1, <2>3 DEF TaskTypes, StatesFit
<1> QED BY <1>1, <1>2, <1>3, <1>4 DEF scheduler_tick

-----------------------------------------------------------------------------
\* The boot state satisfies the inductive invariant: one fair task runs and
\* the run list is empty.
LEMMA InitIInv == Init => IInv
<1> SUFFICES ASSUME Init PROVE IInv
  OBVIOUS
<1>1. TaskTypes
  <2>1. DEFAULT_PRIO \in Prios /\ MAX_PRIO \in Prios
    BY GoldfishAssumption DEF Prios
  <2> QED BY <2>1, GoldfishAssumption DEF Init, TaskTypes
<1>2. StatesFit
  BY DEF Init, StatesFit
<1>3. RqTypes
  BY GoldfishAssumption DEF Init, RqTypes, Classes
<1>4. RqHolds(wrr, QueuedSet, weight)
  <2>1. QueuedSet = {} /\ wrr = init_wrr_rq
    BY DEF Init, QueuedSet, Queued
  <2> QED BY <2>1, RqInit
<1>5. nr_running = Cardinality(OnRq(on_rq))
  <2>1. OnRq(on_rq) = {InitTask} /\ nr_running = 1
    BY GoldfishAssumption DEF Init, OnRq
  <2> QED BY <2>1, FS_Singleton
<1>6. WeightsFit /\ CurrOnRq
  BY GoldfishAssumption DEF Init, WeightsFit, CurrOnRq, Queued
<1>7. SlicesFit
  BY GoldfishAssumption DEF Init, SlicesFit, Timeslice
<1> QED BY <1>1, <1>2, <1>3, <1>4, <1>5, <1>6, <1>7 DEF IInv, RqInv

\* Every step of the kernel preserves it.
LEMMA NextIInv == IInv /\ [Next]_vars => IInv'
<1> SUFFICES ASSUME IInv, [Next]_vars PROVE IInv'
  OBVIOUS
<1>1. ASSUME NEW p \in Tasks, Requests(p) PROVE IInv'
  BY <1>1, RequestKeeps
<1>2. ASSUME NEW p \in Tasks, sched_fork(p) PROVE IInv'
  BY <1>2, ForkKeeps
<1>3. ASSUME NEW p \in Tasks, wake_up_new_task(p) \/ try_to_wake_up(p) PROVE IInv'
  BY <1>3, WakeKeeps
<1>4. CASE schedule \/ preempt_schedule \/ sched_yield
  BY <1>4, ScheduleKeeps
<1>5. CASE SetCurrentState \/ Exit \/ scheduler_tick \/ do_sched_rt_period_timer
  BY <1>5, OtherKeeps
<1>6. CASE UNCHANGED vars
  <2>1. UNCHANGED <<state, policy, rt_priority, static_prio, prio, reset_on_fork,
                    waiter, on_rq, sched_class, group, wrr, weight, time_slice,
                    nr_running, curr, need_resched, rt_throttled>>
    BY <1>6 DEF vars, taskVars, wrrVars
  <2>2. QueuedSet' = QueuedSet
    BY <2>1 DEF QueuedSet, Queued
  <2>3. RqInv'
    BY <2>1, <2>2 DEF IInv, RqInv, RqTypes, WeightsFit, SlicesFit, CurrOnRq, Queued, OnRq
  <2> QED BY <2>1, <2>3 DEF IInv, TaskTypes, StatesFit
<1> QED BY <1>1, <1>2, <1>3, <1>4, <1>5, <1>6 DEF Next

\* The inductive invariant holds in every reachable state.
LEMMA AlwaysIInv == Spec => []IInv
BY InitIInv, NextIInv, PTL DEF Spec

-----------------------------------------------------------------------------
\* The properties follow from it.

\* Every variable keeps its type, whatever the requests: in particular
\* total_weight and the counters of rq->wrr never drop below 0.
THEOREM TypeCorrect == Spec => []TypeOK
<1>1. IInv => TypeOK
  <2> SUFFICES ASSUME IInv PROVE TypeOK
    OBVIOUS
  <2>1. QueuedSet \subseteq Tasks
    BY DEF QueuedSet
  <2>2. wrr \in [queue : Seq(Tasks), total_weight : Nat, wrr_nr_running : Nat]
    <3>1. wrr \in [queue : Seq(QueuedSet), total_weight : Nat, wrr_nr_running : Nat]
      BY DEF IInv, RqInv, RqHolds
    <3>2. wrr.queue \in Seq(Tasks)
      <4>1. wrr.queue \in Seq(QueuedSet)
        BY <3>1
      <4>2. \A i \in 1 .. Len(wrr.queue) : wrr.queue[i] \in Tasks
        BY <2>1, <4>1
      <4> QED BY <4>1, <4>2
    <3> QED BY <3>1, <3>2
  <2> QED BY <2>2 DEF IInv, RqInv, RqTypes, TaskTypes, Classes, TypeOK
<1> QED BY <1>1, AlwaysIInv, PTL

\* The run list and the counters of wrr.c and core.c are exact after every
\* enqueue, dequeue, requeue, class change, group change and context switch.
THEOREM RunQueueIsExact == Spec => []RunQueueExact
<1>1. IInv => RunQueueExact
  <2> SUFFICES ASSUME IInv PROVE RunQueueExact
    OBVIOUS
  <2> DEFINE q == wrr.queue
  <2>1. Lists(q, QueuedSet) /\ wrr.wrr_nr_running = Len(q)
    BY DEF IInv, RqInv, RqHolds
  <2> HIDE DEF q
  <2>2. DOMAIN q = 1 .. Len(q) /\ \A i \in 1 .. Len(q) : q[i] \in QueuedSet
    BY <2>1 DEF Lists
  <2>3. \A p \in Tasks : Queued(p) <=> \E i \in DOMAIN q : q[i] = p
    BY <2>1, <2>2 DEF Lists, QueuedSet
  <2>4. \A i, j \in DOMAIN q : i # j => q[i] # q[j]
    BY <2>1, <2>2 DEF Lists
  <2>5. nr_running = Cardinality({p \in Tasks : on_rq[p]})
    BY DEF IInv, RqInv, OnRq
  <2> QED BY <2>1, <2>3, <2>4, <2>5 DEF RunQueueExact, q
<1> QED BY <1>1, AlwaysIInv, PTL

\* total_weight is the sum of the weights of the queued tasks for any number
\* of tasks, groups and moves between them.
THEOREM WeightIsAccounted == Spec => []WeightAccounting
<1>1. IInv => WeightAccounting
  <2> SUFFICES ASSUME IInv PROVE WeightAccounting
    OBVIOUS
  <2>1. /\ Light(QueuedSet, weight) = {p \in Tasks : Queued(p) /\ weight[p] = 1}
        /\ Heavy(QueuedSet, weight) = {p \in Tasks : Queued(p) /\ weight[p] = 10}
    BY DEF Light, Heavy, QueuedSet
  <2>2. wrr.total_weight = Total(QueuedSet, weight)
    BY DEF IInv, RqInv, RqHolds
  <2> QED BY <2>1, <2>2 DEF Total, WeightAccounting
<1> QED BY <1>1, AlwaysIInv, PTL

\* A queued task has its group's weight, a slice between one tick and its
\* group's full slice, and the interval that is reported for it, for every
\* length of the two slices.
THEOREM SliceAlwaysFits == Spec => []SliceFits
<1>1. ASSUME IInv, NEW p \in Tasks, Queued(p), group[p] \in {Root} \cup BgGroups
      PROVE  get_rr_interval_wrr(p) = Timeslice(weight[p])
  <2>1. weight[p] = WeightOf(group[p])
    BY <1>1 DEF IInv, RqInv, WeightsFit
  <2>2. Root \notin BgGroups
    BY GoldfishAssumption
  <2> QED BY <1>1, <2>1, <2>2 DEF get_rr_interval_wrr, WeightOf, Timeslice
<1>2. IInv => SliceFits
  BY <1>1 DEF IInv, RqInv, WeightsFit, SlicesFit, SliceFits
<1> QED BY <1>2, AlwaysIInv, PTL

\* No wake-up is lost: try_to_wake_up() and __schedule() never leave a
\* runnable task off the run queue.
THEOREM NoTaskLost == Spec => []NoLostTask
<1>1. IInv => NoLostTask
  BY DEF IInv, RqInv, CurrOnRq, StatesFit, NoLostTask
<1> QED BY <1>1, AlwaysIInv, PTL

=============================================================================
