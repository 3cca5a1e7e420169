--------------------------- MODULE ServicesProofs --------------------------
(***************************************************************************)
(* What the scheduler does for the tasks that sleep and for those that     *)
(* look at them, for any number of callers and any bounds.                 *)
(*                                                                         *)
(* Completions: the queue is exact, no signal is stuck, and the            *)
(* implementation is the counter of CountingCompletion.  EnoughAwake is    *)
(* inductive only together with the exact queue: a waiter that leaves      *)
(* takes one signal and one wake-up with it, which is true because it was  *)
(* on the queue once and was awake.                                        *)
(*                                                                         *)
(* Then wait queues with both kinds of waiters (WaitQueue), the sleeps of  *)
(* a task as wait_task_inactive() sees them (WaitInactive), the priority   *)
(* of a task (TaskPrio), and what CPUs ask of each other (CrossCpu).       *)
(***************************************************************************)
EXTENDS Completion, WaitQueue, WaitInactive, TaskPrio, CrossCpu, DataProofs, FiniteSetTheorems,
        SequenceTheorems, WellFoundedInduction

WaitingTasks == {t \in Tasks : Waiting(t)}

QueueLists == Lists(task_list, WaitingTasks)
SleepersWait == \A t \in Tasks : state[t] = "sleeping" => t \in WaitingTasks

IInv == TypeOK /\ QueueLists /\ SleepersWait /\ EnoughAwake

-----------------------------------------------------------------------------
LEMMA HalfNat == Half \in Nat
BY CompletionAssumption DEF Half

\* Awake is a part of a finite set.
LEMMA AwakeFinite == IsFiniteSet(Awake) /\ Cardinality(Awake) \in Nat
<1>1. Awake \subseteq Tasks
  BY DEF Awake
<1> QED BY <1>1, TasksFinite, FS_Subset, FS_CardinalityType

\* Each step of a queue that is left alone, got t or lost t.
LEMMA QueueSame ==
  ASSUME QueueLists, task_list' = task_list
  PROVE  QueueLists' /\ WaitingTasks' = WaitingTasks
BY DEF QueueLists, WaitingTasks, Waiting

LEMMA QueueAdd ==
  ASSUME QueueLists, NEW t \in Tasks, ~Waiting(t), task_list' = Append(task_list, t)
  PROVE  QueueLists' /\ WaitingTasks' = WaitingTasks \cup {t} /\ task_list' \in Seq(Tasks)
<1>1. t \notin WaitingTasks /\ WaitingTasks \cup {t} \in SUBSET Tasks
  BY DEF WaitingTasks
<1>2. Lists(task_list', WaitingTasks \cup {t})
  BY <1>1, ListAddTail DEF QueueLists
<1>3. WaitingTasks' = WaitingTasks \cup {t}
  <2>1. DOMAIN task_list' = 1 .. Len(task_list')
        /\ \A i \in DOMAIN task_list' : task_list'[i] \in WaitingTasks \cup {t}
    BY <1>2 DEF Lists
  <2> QED BY <2>1, <1>1, <1>2 DEF Lists, WaitingTasks, Waiting
<1>4. task_list' \in Seq(Tasks)
  BY <1>1, <1>2 DEF Lists
<1> QED BY <1>2, <1>3, <1>4 DEF QueueLists

LEMMA QueueDel ==
  ASSUME QueueLists, NEW t \in Tasks, Waiting(t), task_list' = list_del(task_list, t)
  PROVE  QueueLists' /\ WaitingTasks' = WaitingTasks \ {t} /\ task_list' \in Seq(Tasks)
<1>1. t \in WaitingTasks /\ WaitingTasks \ {t} \in SUBSET Tasks
  BY DEF WaitingTasks
<1>2. Lists(task_list', WaitingTasks \ {t})
  BY <1>1, ListDel DEF QueueLists
<1>3. WaitingTasks' = WaitingTasks \ {t}
  <2>1. DOMAIN task_list' = 1 .. Len(task_list')
        /\ \A i \in DOMAIN task_list' : task_list'[i] \in WaitingTasks \ {t}
    BY <1>2 DEF Lists
  <2> QED BY <2>1, <1>1, <1>2 DEF Lists, WaitingTasks, Waiting
<1>4. task_list' \in Seq(Tasks)
  BY <1>1, <1>2 DEF Lists
<1> QED BY <1>2, <1>3, <1>4 DEF QueueLists

-----------------------------------------------------------------------------
\* A wake-up puts nobody to sleep, and wakes somebody when somebody sleeps.
LEMMA QueueWakeUp ==
  ASSUME TypeOK, QueueLists, SleepersWait, NEW nr \in {0, 1}, wake_up_common(nr),
         task_list' = task_list
  PROVE  /\ state' \in [Tasks -> {"running", "sleeping"}]
         /\ \A t \in Tasks : state[t] = "running" => state'[t] = "running"
         /\ nr = 0 => \A t \in WaitingTasks : state'[t] = "running"
         /\ (\E t \in WaitingTasks : state[t] # "running") =>
              \E t \in WaitingTasks : state[t] # "running" /\ state'[t] = "running"
<1>1. \A t \in Tasks : state'[t] = IF t \in Woken(nr) THEN "running" ELSE state[t]
  BY DEF wake_up_common
<1>2. state' \in [Tasks -> {"running", "sleeping"}]
  BY DEF wake_up_common, TypeOK
<1>3. ASSUME nr = 0 PROVE \A t \in WaitingTasks : state'[t] = "running"
  <2> TAKE t \in WaitingTasks
  <2>1. PICK i \in DOMAIN task_list : task_list[i] = t
    BY DEF WaitingTasks, Waiting
  <2>2. t \in Tasks /\ (state[t] = "running" \/ state[t] = "sleeping")
    BY DEF WaitingTasks, TypeOK
  <2>3. state[t] = "sleeping" => t \in Woken(nr)
    BY <2>1, <1>3 DEF Woken
  <2> QED BY <1>1, <2>2, <2>3
<1>4. ASSUME nr = 1, NEW u \in WaitingTasks, state[u] # "running"
      PROVE  \E t \in WaitingTasks : state[t] # "running" /\ state'[t] = "running"
  <2> DEFINE Asleep == {i \in DOMAIN task_list : state[task_list[i]] = "sleeping"}
  <2>1. DOMAIN task_list = 1 .. Len(task_list) /\ Len(task_list) \in Nat
        /\ \A i \in DOMAIN task_list : task_list[i] \in Tasks
    BY DEF TypeOK
  <2>2. PICK k \in Asleep : TRUE
    BY <1>4, <2>1 DEF WaitingTasks, Waiting, TypeOK
  <2>3. PICK m \in Asleep : \A i \in Asleep : m <= i
    <3>1. Asleep \subseteq Nat /\ Asleep # {}
      BY <2>1, <2>2
    <3>2. \E m \in Asleep : \A i \in Asleep : m <= i
      BY <3>1, LeastOfNats
    <3> QED BY <3>2
  <2> DEFINE Before == {j \in 1 .. m - 1 : state[task_list[j]] = "sleeping"}
  <2>4. Before = {}
    BY <2>1, <2>3
  <2>5. Cardinality(Before) < 1
    <3>1. Cardinality({}) = 0
      BY FS_EmptySet
    <3> HIDE DEF Before
    <3> QED BY <2>4, <3>1
  <2>6. task_list[m] \in Woken(nr)
    BY <2>3, <2>5, <1>4 DEF Woken
  <2>7. task_list[m] \in WaitingTasks /\ state[task_list[m]] = "sleeping"
    BY <2>1, <2>3 DEF WaitingTasks, Waiting
  <2> QED BY <1>1, <2>6, <2>7 DEF WaitingTasks
<1>5. ASSUME nr = 0, NEW u \in WaitingTasks, state[u] # "running"
      PROVE  \E t \in WaitingTasks : state[t] # "running" /\ state'[t] = "running"
  BY <1>3, <1>5
<1> QED BY <1>1, <1>2, <1>3, <1>4, <1>5

\* The counter after a complete() or complete_all().
LEMMA ModUint ==
  ASSUME NEW a \in Nat
  PROVE  a % UintRange \in 0 .. UintRange - 1 /\ a % UintRange <= a
BY CompletionAssumption

LEMMA AwakeGrows ==
  ASSUME task_list' = task_list, NEW U \in SUBSET (Awake' \ Awake), IsFiniteSet(U),
         \A t \in Tasks : state[t] = "running" => state'[t] = "running"
  PROVE  Cardinality(Awake) + Cardinality(U) <= Cardinality(Awake')
<1>1. Awake \subseteq Awake' /\ Awake' \subseteq Tasks
  BY DEF Awake, Waiting
<1>2. IsFiniteSet(Awake) /\ IsFiniteSet(Awake')
  BY <1>1, TasksFinite, FS_Subset
<1>3. Awake \cup U \subseteq Awake' /\ Awake \cap U = {}
  BY <1>1
<1> HIDE DEF Awake
<1>4. Cardinality(Awake \cup U) <= Cardinality(Awake')
  BY <1>2, <1>3, FS_Subset
<1>5. Cardinality({}) = 0
  BY FS_EmptySet
<1>6. /\ Cardinality(Awake) \in Nat /\ Cardinality(U) \in Nat
      /\ Cardinality(Awake \cup U) = Cardinality(Awake) + Cardinality(U) - Cardinality(Awake \cap U)
  BY <1>2, FS_Union, FS_CardinalityType
<1>7. Cardinality(Awake \cap U) = 0
  BY <1>3, <1>5
<1>8. Cardinality(Awake \cup U) = Cardinality(Awake) + Cardinality(U)
  BY <1>6, <1>7
<1> QED BY <1>4, <1>8

\* More waiters awake and no more signals than before, or everybody awake.
LEMMA WakeKeepsEnough ==
  ASSUME TypeOK, EnoughAwake, task_list' = task_list, done' \in Nat, done' <= done,
         \A t \in Tasks : state[t] = "running" => state'[t] = "running"
  PROVE  EnoughAwake'
<1>1. CASE \A t \in Tasks : Waiting(t) => state[t] = "running"
  BY <1>1 DEF EnoughAwake, Waiting
<1>2. CASE done <= Cardinality(Awake)
  <2>1. Cardinality(Awake) + Cardinality({}) <= Cardinality(Awake')
    BY AwakeGrows, FS_EmptySet
  <2>2. Cardinality({}) = 0 /\ Cardinality(Awake) \in Nat /\ Cardinality(Awake') \in Nat
    <3>1. Awake' \subseteq Tasks
      BY DEF Awake
    <3>2. Cardinality(Awake') \in Nat
      BY <3>1, TasksFinite, FS_Subset, FS_CardinalityType
    <3> QED BY <3>2, AwakeFinite, FS_EmptySet
  <2>3. done' <= Cardinality(Awake')
    BY <1>2, <2>1, <2>2 DEF TypeOK
  <2> QED BY <2>3 DEF EnoughAwake
<1> QED BY <1>1, <1>2 DEF EnoughAwake

\* No signal is there to be stuck.
LEMMA ZeroIsEnough == ASSUME done' = 0 PROVE EnoughAwake'
<1>1. Awake' \subseteq Tasks
  BY DEF Awake
<1>2. Cardinality(Awake') \in Nat
  BY <1>1, TasksFinite, FS_Subset, FS_CardinalityType
<1> QED BY <1>2 DEF EnoughAwake

LEMMA CompleteKeeps == ASSUME IInv, complete PROVE IInv'
<1> USE DEF IInv
<1>1. done \in Nat /\ done' = (done + 1) % UintRange /\ wake_up_common(1) /\ task_list' = task_list
      /\ done' \in 0 .. UintRange - 1 /\ done' <= done + 1 /\ done' \in Nat
  <2>1. done \in Nat /\ done + 1 \in Nat
    BY CompletionAssumption DEF TypeOK
  <2>2. (done + 1) % UintRange \in 0 .. UintRange - 1 /\ (done + 1) % UintRange <= done + 1
    BY <2>1, ModUint
  <2>3. done' = (done + 1) % UintRange /\ wake_up_common(1) /\ task_list' = task_list
    BY DEF complete
  <2> QED BY <2>1, <2>2, <2>3, CompletionAssumption
<1>2. /\ state' \in [Tasks -> {"running", "sleeping"}]
      /\ \A t \in Tasks : state[t] = "running" => state'[t] = "running"
      /\ (\E t \in WaitingTasks : state[t] # "running") =>
           \E t \in WaitingTasks : state[t] # "running" /\ state'[t] = "running"
  BY <1>1, QueueWakeUp
<1>3. QueueLists' /\ WaitingTasks' = WaitingTasks
  BY <1>1, QueueSame
<1>4. TypeOK'
  BY <1>1, <1>2 DEF TypeOK, complete
<1>5. SleepersWait'
  BY <1>2, <1>3 DEF SleepersWait, TypeOK
<1>6. EnoughAwake'
  <2>1. CASE \A t \in Tasks : Waiting(t) => state[t] = "running"
    BY <2>1, <1>1, <1>2 DEF EnoughAwake, Waiting
  <2>2. CASE done <= Cardinality(Awake) /\ \E t \in Tasks : Waiting(t) /\ state[t] # "running"
    <3>1. PICK u \in WaitingTasks : state[u] # "running" /\ state'[u] = "running"
      BY <2>2, <1>2 DEF WaitingTasks
    <3>2. u \in Awake' /\ u \notin Awake
      BY <3>1, <1>1 DEF Awake, WaitingTasks, Waiting
    <3>3. IsFiniteSet({u}) /\ Cardinality({u}) = 1
      BY FS_Singleton
    <3>4. Cardinality(Awake) + Cardinality({u}) <= Cardinality(Awake')
      BY <3>2, <3>3, <1>1, <1>2, AwakeGrows
    <3>5. Cardinality(Awake') \in Nat
      <4>1. Awake' \subseteq Tasks
        BY DEF Awake
      <4> QED BY <4>1, TasksFinite, FS_Subset, FS_CardinalityType
    <3>6. done' <= Cardinality(Awake')
      BY <2>2, <3>3, <3>4, <3>5, <1>1, AwakeFinite
    <3> QED BY <3>6 DEF EnoughAwake
  <2> QED BY <2>1, <2>2 DEF EnoughAwake
<1> QED BY <1>3, <1>4, <1>5, <1>6

LEMMA CompleteAllKeeps == ASSUME IInv, complete_all PROVE IInv'
<1> USE DEF IInv
<1>1. done \in Nat /\ done' = (done + Half) % UintRange /\ wake_up_common(0) /\ task_list' = task_list
      /\ done' \in 0 .. UintRange - 1
  <2>1. done \in Nat /\ done + Half \in Nat
    BY CompletionAssumption, HalfNat DEF TypeOK
  <2>2. (done + Half) % UintRange \in 0 .. UintRange - 1
    BY <2>1, ModUint
  <2> QED BY <2>1, <2>2 DEF complete_all
<1>2. /\ state' \in [Tasks -> {"running", "sleeping"}]
      /\ \A t \in Tasks : state[t] = "running" => state'[t] = "running"
      /\ \A t \in WaitingTasks : state'[t] = "running"
  BY <1>1, QueueWakeUp
<1>3. QueueLists' /\ WaitingTasks' = WaitingTasks
  BY <1>1, QueueSame
<1>4. TypeOK'
  BY <1>1, <1>2 DEF TypeOK, complete_all
<1>5. SleepersWait'
  BY <1>2, <1>3 DEF SleepersWait, TypeOK
<1>6. EnoughAwake'
  BY <1>1, <1>2 DEF EnoughAwake, WaitingTasks, Waiting
<1> QED BY <1>3, <1>4, <1>5, <1>6

-----------------------------------------------------------------------------
\* A call that does not block, and a wait up to its first sleep.
LEMMA WaitKeeps ==
  ASSUME IInv, NEW t \in Tasks, wait_for_common(t) PROVE IInv'
<1> USE DEF IInv
<1>1. expired' \in [Tasks -> BOOLEAN] /\ pending' = pending /\ ~Waiting(t)
  BY DEF wait_for_common, TypeOK
<1>2. CASE Consume(t, task_list)
  <2>1. /\ task_list' = task_list /\ state' = state /\ done' \in 0 .. UintRange - 1 /\ done' <= done
        /\ outcome' \in [Tasks -> {"none", "done", "timeout", "signal", "busy"}]
    BY <1>2, CompletionAssumption DEF Consume, Return, TypeOK
  <2>2. QueueLists' /\ WaitingTasks' = WaitingTasks
    BY <2>1, QueueSame
  <2>3. EnoughAwake'
    BY <2>1, WakeKeepsEnough
  <2> QED BY <1>1, <2>1, <2>2, <2>3 DEF TypeOK, SleepersWait
<1>3. CASE SleepOrGiveUp(t, task_list, Append(task_list, t)) /\ task_list' = task_list
           /\ state' = state
  <2>1. /\ done' = done
        /\ outcome' \in [Tasks -> {"none", "done", "timeout", "signal", "busy"}]
    BY <1>3 DEF SleepOrGiveUp, Return, TypeOK
  <2>2. QueueLists' /\ WaitingTasks' = WaitingTasks
    BY <1>3, QueueSame
  <2>3. EnoughAwake'
    BY <1>3, <2>1 DEF EnoughAwake, Awake, Waiting
  <2> QED BY <1>1, <1>3, <2>1, <2>2, <2>3 DEF TypeOK, SleepersWait
<1>4. CASE SleepOrGiveUp(t, task_list, Append(task_list, t)) /\ task_list' = Append(task_list, t)
           /\ state' = [state EXCEPT ![t] = "sleeping"]
  <2>1. /\ done' = 0 /\ state' \in [Tasks -> {"running", "sleeping"}]
        /\ outcome' \in [Tasks -> {"none", "done", "timeout", "signal", "busy"}]
    BY <1>4 DEF SleepOrGiveUp, Return, TypeOK
  <2>2. QueueLists' /\ WaitingTasks' = WaitingTasks \cup {t} /\ task_list' \in Seq(Tasks)
    BY <1>1, <1>4, QueueAdd
  <2>3. EnoughAwake'
    BY <2>1, ZeroIsEnough
  <2>4. SleepersWait'
    BY <1>4, <2>2 DEF SleepersWait, TypeOK
  <2> QED BY <1>1, <2>1, <2>2, <2>3, <2>4, CompletionAssumption DEF TypeOK
<1> QED BY <1>2, <1>3, <1>4 DEF wait_for_common, SleepOrGiveUp, Return

\* A waiter back from schedule_timeout().
LEMMA RelockKeeps ==
  ASSUME IInv, NEW t \in Tasks, Relock(t) PROVE IInv'
<1> USE DEF IInv
<1>1. expired' = expired /\ pending' = pending /\ Waiting(t) /\ state[t] = "running"
  BY DEF Relock
<1>2. CASE Consume(t, list_del(task_list, t))
  <2>1. /\ task_list' = list_del(task_list, t) /\ state' = state
        /\ done > 0 /\ done' = done - 1 /\ done' \in 0 .. UintRange - 1
        /\ outcome' \in [Tasks -> {"none", "done", "timeout", "signal", "busy"}]
    BY <1>2, CompletionAssumption DEF Consume, Return, TypeOK
  <2>2. QueueLists' /\ WaitingTasks' = WaitingTasks \ {t} /\ task_list' \in Seq(Tasks)
    BY <1>1, <2>1, QueueDel
  <2>3. SleepersWait'
    BY <1>1, <2>1, <2>2 DEF SleepersWait
  <2>4. EnoughAwake'
    <3>1. t \in Awake /\ Awake' = Awake \ {t}
      BY <1>1, <2>1, <2>2 DEF Awake, WaitingTasks
    <3>2. Cardinality(Awake') = Cardinality(Awake) - 1
      BY <3>1, AwakeFinite, FS_RemoveElement
    <3>3. CASE done <= Cardinality(Awake)
      BY <3>2, <3>3, <2>1, AwakeFinite DEF EnoughAwake, TypeOK
    <3>4. CASE \A u \in Tasks : Waiting(u) => state[u] = "running"
      BY <3>4, <2>1, <2>2 DEF EnoughAwake, WaitingTasks
    <3> QED BY <3>3, <3>4 DEF EnoughAwake
  <2> QED BY <1>1, <2>1, <2>2, <2>3, <2>4 DEF TypeOK
<1>3. CASE done = 0 /\ done' = 0 /\ state' = state /\ \E r \in {"timeout", "signal"} :
             Return(t, r, list_del(task_list, t))
  <2>1. /\ task_list' = list_del(task_list, t)
        /\ outcome' \in [Tasks -> {"none", "done", "timeout", "signal", "busy"}]
    BY <1>3 DEF Return, TypeOK
  <2>2. QueueLists' /\ WaitingTasks' = WaitingTasks \ {t} /\ task_list' \in Seq(Tasks)
    BY <1>1, <2>1, QueueDel
  <2>3. SleepersWait'
    BY <1>1, <1>3, <2>2 DEF SleepersWait
  <2> QED BY <1>1, <1>3, <2>1, <2>2, <2>3, ZeroIsEnough DEF TypeOK
<1>4. CASE done = 0 /\ done' = 0 /\ Return(t, "none", task_list)
           /\ state' = [state EXCEPT ![t] = "sleeping"]
  <2>1. /\ task_list' = task_list /\ state' \in [Tasks -> {"running", "sleeping"}]
        /\ outcome' \in [Tasks -> {"none", "done", "timeout", "signal", "busy"}]
    BY <1>4 DEF Return, TypeOK
  <2>2. QueueLists' /\ WaitingTasks' = WaitingTasks
    BY <2>1, QueueSame
  <2>3. SleepersWait'
    BY <1>1, <1>4, <2>2 DEF SleepersWait, WaitingTasks, TypeOK
  <2> QED BY <1>1, <1>4, <2>1, <2>2, <2>3, ZeroIsEnough DEF TypeOK
<1>5. \/ Consume(t, list_del(task_list, t))
      \/ done = 0 /\ Return(t, "timeout", list_del(task_list, t)) /\ UNCHANGED <<done, state>>
      \/ SleepOrGiveUp(t, list_del(task_list, t), task_list)
  BY DEF Relock
<1> QED BY <1>2, <1>3, <1>4, <1>5 DEF SleepOrGiveUp

LEMMA TryKeeps ==
  ASSUME IInv, NEW t \in Tasks, try_wait_for_completion(t) PROVE IInv'
<1> USE DEF IInv
<1>1. /\ task_list' = task_list /\ state' = state /\ expired' = expired /\ pending' = pending
      /\ done' \in 0 .. UintRange - 1 /\ done' <= done
      /\ outcome' \in [Tasks -> {"none", "done", "timeout", "signal", "busy"}]
  BY CompletionAssumption DEF try_wait_for_completion, Return, TypeOK
<1>2. QueueLists' /\ WaitingTasks' = WaitingTasks
  BY <1>1, QueueSame
<1>3. EnoughAwake'
  BY <1>1, WakeKeepsEnough
<1> QED BY <1>1, <1>2, <1>3 DEF TypeOK, SleepersWait

\* Timers and signals only wake.
LEMMA EnvironmentKeeps ==
  ASSUME IInv, NEW t \in Tasks,
         Timer(t) \/ Handle(t) \/ \E s \in {"signal", "kill"} : Signal(t, s)
  PROVE  IInv'
<1> USE DEF IInv
<1> DEFINE OnlyWakes ==
      /\ task_list' = task_list /\ done' = done /\ outcome' = outcome
      /\ expired' \in [Tasks -> BOOLEAN] /\ pending' \in [Tasks -> {"none", "signal", "kill"}]
      /\ state' \in [Tasks -> {"running", "sleeping"}]
      /\ \A u \in Tasks : state[u] = "running" => state'[u] = "running"
<1>1. OnlyWakes
  <2>1. CASE Timer(t)
    BY <2>1 DEF Timer, TypeOK
  <2>2. CASE Handle(t)
    BY <2>2 DEF Handle, TypeOK
  <2>3. ASSUME NEW s \in {"signal", "kill"}, Signal(t, s)
        PROVE  OnlyWakes
    BY <2>3 DEF Signal, TypeOK
  <2> HIDE DEF OnlyWakes
  <2> QED BY <2>1, <2>2, <2>3
<1>2. QueueLists' /\ WaitingTasks' = WaitingTasks
  BY <1>1, QueueSame
<1>3. done' \in Nat /\ done' <= done
  BY <1>1 DEF TypeOK
<1>4. EnoughAwake'
  BY <1>1, <1>3, WakeKeepsEnough
<1> QED BY <1>1, <1>2, <1>4 DEF TypeOK, SleepersWait

LEMMA InitIInv == Init => IInv
<1> SUFFICES ASSUME Init PROVE IInv
  OBVIOUS
<1>1. TypeOK
  BY CompletionAssumption DEF Init, TypeOK
<1>2. WaitingTasks = {}
  BY DEF Init, WaitingTasks, Waiting
<1>3. QueueLists
  BY <1>2 DEF Init, QueueLists, Lists
<1>4. SleepersWait
  BY DEF Init, SleepersWait
<1>5. EnoughAwake
  BY DEF Init, EnoughAwake, Waiting
<1> QED BY <1>1, <1>3, <1>4, <1>5 DEF IInv

LEMMA NextIInv == IInv /\ [Next]_vars => IInv'
<1> SUFFICES ASSUME IInv, [Next]_vars PROVE IInv'
  OBVIOUS
<1>1. CASE complete
  BY <1>1, CompleteKeeps
<1>2. CASE complete_all
  BY <1>2, CompleteAllKeeps
<1>3. ASSUME NEW t \in Tasks, wait_for_common(t) PROVE IInv'
  BY <1>3, WaitKeeps
<1>4. ASSUME NEW t \in Tasks, Relock(t) PROVE IInv'
  BY <1>4, RelockKeeps
<1>5. ASSUME NEW t \in Tasks, try_wait_for_completion(t) PROVE IInv'
  BY <1>5, TryKeeps
<1>6. ASSUME NEW t \in Tasks,
             Timer(t) \/ Handle(t) \/ \E s \in {"signal", "kill"} : Signal(t, s)
      PROVE  IInv'
  BY <1>6, EnvironmentKeeps
<1>7. CASE UNCHANGED vars
  BY <1>7 DEF vars, IInv, TypeOK, QueueLists, SleepersWait, EnoughAwake, Awake, WaitingTasks,
              Waiting
<1> QED BY <1>1, <1>2, <1>3, <1>4, <1>5, <1>6, <1>7 DEF Next

LEMMA AlwaysIInv == Spec => []IInv
BY InitIInv, NextIInv, PTL DEF Spec

\* The counter stays a number and every other variable in its range.
THEOREM TypeCorrect == Spec => []TypeOK
<1>1. IInv => TypeOK
  BY DEF IInv
<1> QED BY <1>1, AlwaysIInv, PTL

\* A task is on the wait queue at most once, and never sleeps off it.
THEOREM QueueIsExact == Spec => []QueueExact
<1>1. IInv => QueueExact
  <2> SUFFICES ASSUME IInv PROVE QueueExact
    OBVIOUS
  <2>1. DOMAIN task_list = 1 .. Len(task_list)
    BY DEF IInv, TypeOK
  <2> QED BY <2>1 DEF IInv, QueueLists, Lists, SleepersWait, WaitingTasks, QueueExact
<1> QED BY <1>1, AlwaysIInv, PTL

\* No signal is ever stuck behind a waiter that does not take it: the safety
\* half of "every signal wakes a waiter", with timeouts, signals, barging
\* waiters and overflow of the counter.
THEOREM NoSignalStuck == Spec => []EnoughAwake
<1>1. IInv => EnoughAwake
  BY DEF IInv
<1> QED BY <1>1, AlwaysIInv, PTL

-----------------------------------------------------------------------------
(* Refinement *)

\* A timer that has fired was asked for.
ExpiredTimed == TypeOK /\ \A t \in Tasks : expired[t] => t \in Timed

LEMMA AlwaysExpired == Spec => []ExpiredTimed
<1>1. Init => ExpiredTimed
  BY InitIInv DEF Init, ExpiredTimed, IInv
<1>2. ExpiredTimed /\ TypeOK' /\ [Next]_vars => ExpiredTimed'
  <2> SUFFICES ASSUME ExpiredTimed, TypeOK', [Next]_vars PROVE ExpiredTimed'
    OBVIOUS
  <2>1. CASE expired' = expired
    BY <2>1 DEF ExpiredTimed
  <2>2. ASSUME NEW t \in Tasks, wait_for_common(t) PROVE ExpiredTimed'
    BY <2>2 DEF ExpiredTimed, wait_for_common, TypeOK
  <2>3. ASSUME NEW t \in Tasks, Timer(t) PROVE ExpiredTimed'
    BY <2>3 DEF ExpiredTimed, Timer, TypeOK
  <2> QED BY <2>1, <2>2, <2>3 DEF Next, vars, complete, complete_all, Relock,
             try_wait_for_completion, Handle, Signal
<1> QED BY <1>1, <1>2, TypeCorrect, PTL DEF Spec

\* Every step of the code is a step of the counter, or none.
LEMMA StepCounts == ExpiredTimed /\ [Next]_vars => [Counter!Next]_Counter!vars
<1> SUFFICES ASSUME ExpiredTimed, [Next]_vars PROVE [Counter!Next]_Counter!vars
  OBVIOUS
<1>1. CASE complete
  BY <1>1 DEF complete, Counter!Next, Counter!Raise
<1>2. CASE complete_all
  BY <1>2 DEF complete_all, Counter!Next, Counter!Raise
<1>3. ASSUME NEW t \in Tasks, NEW list, Consume(t, list) PROVE Counter!Next
  BY <1>3 DEF Consume, Return, Counter!Next, Counter!Take
<1>4. ASSUME NEW t \in Tasks, NEW out, NEW in, SleepOrGiveUp(t, out, in) PROVE Counter!Next
  <2>1. CASE signal_pending_state(t)
    <3>1. "signal" \in Counter!MayFail(t)
      BY <2>1 DEF signal_pending_state, Counter!MayFail
    <3> QED BY <1>4, <2>1, <3>1 DEF SleepOrGiveUp, Return, Counter!Next, Counter!Fail
  <2>2. CASE ~signal_pending_state(t)
    BY <1>4, <2>2 DEF SleepOrGiveUp, Return, Counter!Next, Counter!Begin
  <2> QED BY <2>1, <2>2
<1>5. ASSUME NEW t \in Tasks, wait_for_common(t) PROVE Counter!Next
  BY <1>3, <1>4, <1>5 DEF wait_for_common
<1>6. ASSUME NEW t \in Tasks, Relock(t) PROVE Counter!Next
  <2>1. CASE expired[t] /\ done = 0 /\ Return(t, "timeout", list_del(task_list, t))
             /\ UNCHANGED <<done, state>>
    <3>1. "timeout" \in Counter!MayFail(t)
      BY <2>1 DEF ExpiredTimed, Counter!MayFail
    <3> QED BY <2>1, <3>1 DEF Return, Counter!Next, Counter!Fail
  <2> QED BY <1>3, <1>4, <1>6, <2>1 DEF Relock
<1>7. ASSUME NEW t \in Tasks, try_wait_for_completion(t) PROVE Counter!Next
  <2>1. CASE done = 0
    <3>1. "busy" \in Counter!MayFail(t)
      BY DEF Counter!MayFail
    <3> QED BY <1>7, <2>1, <3>1 DEF try_wait_for_completion, Return, Counter!Next, Counter!Fail
  <2>2. CASE done # 0
    <3>1. done > 0
      BY <2>2 DEF ExpiredTimed, TypeOK
    <3> QED BY <1>7, <2>2, <3>1 DEF try_wait_for_completion, Return, Counter!Next, Counter!Take
  <2> QED BY <2>1, <2>2
<1>8. ASSUME NEW t \in Tasks,
             Timer(t) \/ Handle(t) \/ \E s \in {"signal", "kill"} : Signal(t, s)
      PROVE  UNCHANGED Counter!vars
  BY <1>8 DEF Timer, Handle, Signal, Counter!vars
<1>9. CASE UNCHANGED vars
  BY <1>9 DEF vars, Counter!vars
<1> QED BY <1>1, <1>2, <1>5, <1>6, <1>7, <1>8, <1>9 DEF Next

\* The completion of the kernel implements the counter of CountingCompletion:
\* no wait fails that could have been satisfied, none succeeds unpaid.
THEOREM CompletionIsCounter == Spec => IsCounter
<1>1. Init => Counter!Init
  BY DEF Init, Counter!Init
<1> QED BY <1>1, AlwaysExpired, StepCounts, PTL DEF Spec, IsCounter, Counter!Spec

-----------------------------------------------------------------------------
(* Wait queues with both kinds of waiters *)

States == TASK_NORMAL \cup {"running"}
EntryRecords ==
  [at : {"out", "add", "schedule", "remove"}, entry : BOOLEAN, exclusive : BOOLEAN, state : States]

OnList == {t \in Waiters : onQueue[t].at \in {"schedule", "remove"}}

\* An entry is on the stack while its task is in the call, and on the list while it waits.
EntryOnStack(t) ==
  /\ onQueue[t] \in EntryRecords
  /\ onQueue[t].entry <=> onQueue[t].at # "out"
  /\ onQueue[t].at = "out" => onQueue[t] = NotWaiting
  /\ onQueue[t].at = "add" => ~onQueue[t].exclusive

\* Exclusive waiters queue behind the others.
ExclusiveLast ==
  \A i, j \in 1 .. Len(wait_list) :
    i < j /\ onQueue[wait_list[i]].exclusive => onQueue[wait_list[j]].exclusive

\* Who scans holds the lock.
ScanRecords ==
  [at : {"none", "entry", "unlock"}, curr : Waiters \cup {"NULL"}, rest : Seq(Waiters),
   mode : SUBSET TASK_NORMAL, nr_exclusive : Int, asked : Nat, woken : Nat]
ScanLocked == scan \in ScanRecords /\ (qlock = "nobody" => scan.at = "none")

\* The scan is at place k of the list: those before it are awake, and it has not woken as
\* many as it was asked for.
ScanAt(k) ==
  /\ scan.curr = wait_list[k]
  /\ Len(scan.rest) = Len(wait_list) - k
  /\ \A i \in 1 .. Len(wait_list) - k : scan.rest[i] = wait_list[k + i]
  /\ \A i \in 1 .. k - 1 : onQueue[wait_list[i]].state \notin scan.mode
ScanOnList ==
  scan.at = "entry" =>
    /\ scan.nr_exclusive = scan.asked - scan.woken
    /\ scan.asked # 0 => scan.woken < scan.asked
    /\ \E k \in 1 .. Len(wait_list) : ScanAt(k)

QueueInv ==
  /\ onQueue = [t \in Waiters |-> onQueue[t]]
  /\ \A t \in Waiters : EntryOnStack(t)
  /\ Lists(wait_list, OnList) /\ ExclusiveLast
  /\ ScanLocked /\ ScanOnList /\ WakeReaches

LEMMA WaitListFacts ==
  ASSUME QueueInv
  PROVE  /\ Len(wait_list) \in Nat /\ DOMAIN wait_list = 1 .. Len(wait_list)
         /\ \A i \in 1 .. Len(wait_list) : wait_list[i] \in OnList
BY DEF QueueInv, Lists

LEMMA QueueInvIsSound == QueueInv => WakeUpSound
<1> SUFFICES ASSUME QueueInv PROVE EntriesAlive
  BY DEF WakeUpSound, QueueInv
<1>1. \A t \in OnList : onQueue[t].entry
  BY DEF OnList, QueueInv, EntryOnStack
<1>2. ASSUME scan.at = "entry"
      PROVE  onQueue[scan.curr].entry /\ (scan.rest # << >> => onQueue[Head(scan.rest)].entry)
  <2>1. PICK k \in 1 .. Len(wait_list) : ScanAt(k)
    BY <1>2 DEF QueueInv, ScanOnList
  <2>2. onQueue[scan.curr].entry
    BY <1>1, <2>1, WaitListFacts DEF ScanAt
  <2>3. ASSUME scan.rest # << >> PROVE onQueue[Head(scan.rest)].entry
    <3>1. Head(scan.rest) = scan.rest[1] /\ Len(scan.rest) \in Nat \ {0}
        <4>1. scan.rest \in Seq(Waiters)
        BY DEF QueueInv, ScanLocked, ScanRecords
      <4> QED BY <2>3, <4>1, EmptySeq
    <3>2. 1 \in 1 .. Len(wait_list) - k /\ k + 1 \in 1 .. Len(wait_list)
      <4>1. Len(wait_list) \in Nat /\ Len(scan.rest) = Len(wait_list) - k
        BY <2>1, WaitListFacts DEF ScanAt
      <4> QED BY <3>1, <4>1
    <3>3. scan.rest[1] = wait_list[k + 1]
      BY <2>1, <3>2 DEF ScanAt
    <3> QED BY <1>1, <3>1, <3>2, <3>3, WaitListFacts
  <2> QED BY <2>2, <2>3
<1> QED BY <1>1, <1>2, WaitListFacts DEF EntriesAlive

LEMMA QueueStart == WaitQueueInit => QueueInv
<1> SUFFICES ASSUME WaitQueueInit PROVE QueueInv
  OBVIOUS
<1>1. wait_list = << >> /\ OnList = {} /\ Lists(wait_list, {}) /\ Len(wait_list) = 0
  BY DEF WaitQueueInit, OnList, NotWaiting, Lists
<1>2. \A t \in Waiters : EntryOnStack(t)
  BY DEF WaitQueueInit, EntryOnStack, NotWaiting, EntryRecords, States
<1>3. ScanLocked /\ ScanOnList /\ WakeReaches
  BY DEF WaitQueueInit, NoScan, ScanLocked, ScanRecords, ScanOnList, WakeReaches
<1> QED BY <1>1, <1>2, <1>3 DEF WaitQueueInit, QueueInv, ExclusiveLast

\* A task on the list changes nothing for a scan when it is woken, or asleep as before.
LEMMA ScanKept ==
  ASSUME QueueInv, UNCHANGED <<wait_list, scan, qlock>>,
         \A t \in OnList : /\ onQueue'[t].exclusive = onQueue[t].exclusive
                           /\ onQueue'[t].state \in {onQueue[t].state, "running"}
  PROVE  ExclusiveLast' /\ ScanLocked' /\ ScanOnList' /\ WakeReaches'
<1>1. ExclusiveLast' /\ ScanLocked'
  BY WaitListFacts DEF QueueInv, ExclusiveLast, ScanLocked
<1>2. \A t \in OnList : onQueue[t].state \notin scan.mode => onQueue'[t].state \notin scan.mode
  BY DEF QueueInv, ScanLocked, ScanRecords, TASK_NORMAL
<1>3. ScanOnList'
  <2>1. ASSUME NEW k \in 1 .. Len(wait_list), ScanAt(k) PROVE ScanAt(k)'
    <3>1. \A i \in 1 .. k - 1 : wait_list[i] \in OnList
      BY WaitListFacts
    <3> QED BY <1>2, <2>1, <3>1 DEF ScanAt
  <2> QED BY <2>1 DEF QueueInv, ScanOnList
<1>4. WakeReaches'
  BY <1>2, WaitListFacts DEF QueueInv, WakeReaches
<1> QED BY <1>1, <1>3, <1>4

\* A task comes, is woken by others, or goes on, and the list stays as it is.
LEMMA TaskStepKeeps ==
  ASSUME QueueInv, NEW t \in Waiters,
         (\E s \in TASK_NORMAL : sleep_on(t, s)) \/ Resume(t) \/ WokenOtherwise(t)
  PROVE  QueueInv'
<1>1. /\ UNCHANGED <<wait_list, scan, qlock>>
      /\ onQueue' = [onQueue EXCEPT ![t] = onQueue'[t]]
      /\ onQueue'[t] \in EntryRecords /\ onQueue'[t].entry /\ onQueue'[t].at # "out"
      /\ onQueue'[t].at = "add" => ~onQueue'[t].exclusive
      /\ onQueue'[t].at \in {"schedule", "remove"} <=> t \in OnList
      /\ t \in OnList => /\ onQueue'[t].exclusive = onQueue[t].exclusive
                         /\ onQueue'[t].state \in {onQueue[t].state, "running"}
  <2>1. EntryOnStack(t) /\ onQueue = [x \in Waiters |-> onQueue[x]]
    BY DEF QueueInv
  <2>2. CASE \E s \in TASK_NORMAL : sleep_on(t, s)
    <3>1. PICK s \in TASK_NORMAL : sleep_on(t, s)
      BY <2>2
    <3>2. onQueue[t].at = "out" /\ onQueue[t] = NotWaiting
      BY <2>1, <3>1 DEF sleep_on, EntryOnStack
    <3>3. onQueue'[t] = [onQueue[t] EXCEPT !.at = "add", !.entry = TRUE, !.state = s]
      BY <2>1, <3>1 DEF sleep_on
    <3>4. /\ UNCHANGED <<wait_list, scan, qlock>>
          /\ onQueue' = [onQueue EXCEPT ![t] = onQueue'[t]]
      BY <2>1, <3>1 DEF sleep_on
    <3>5. onQueue'[t] \in EntryRecords /\ onQueue'[t].entry /\ onQueue'[t].at = "add" /\ ~onQueue'[t].exclusive
      <4>1. onQueue[t] \in EntryRecords /\ s \in States
        BY <2>1 DEF EntryOnStack, States
      <4>2. ~onQueue[t].exclusive
        BY <3>2 DEF NotWaiting
      <4>3. onQueue'[t].exclusive = onQueue[t].exclusive
        BY <3>3, <4>1 DEF EntryRecords
      <4> QED BY <3>3, <4>1, <4>2, <4>3 DEF EntryRecords
    <3> QED BY <3>2, <3>4, <3>5 DEF OnList
  <2>3. CASE Resume(t)
    BY <2>1, <2>3 DEF Resume, EntryOnStack, EntryRecords, States, OnList
  <2>4. CASE WokenOtherwise(t)
    BY <2>1, <2>4 DEF WokenOtherwise, EntryOnStack, EntryRecords, States, OnList
  <2> QED BY <2>2, <2>3, <2>4
<1>2. \A x \in Waiters \ {t} : onQueue'[x] = onQueue[x]
  BY <1>1 DEF QueueInv
<1>3. onQueue' = [x \in Waiters |-> onQueue'[x]] /\ \A x \in Waiters : EntryOnStack(x)'
  BY <1>1, <1>2 DEF QueueInv, EntryOnStack
<1>4. OnList' = OnList
  BY <1>1, <1>2 DEF OnList
<1>5. ExclusiveLast' /\ ScanLocked' /\ ScanOnList' /\ WakeReaches'
  <2>1. \A x \in OnList : /\ onQueue'[x].exclusive = onQueue[x].exclusive
                          /\ onQueue'[x].state \in {onQueue[x].state, "running"}
    BY <1>1, <1>2 DEF OnList
  <2> QED BY <1>1, <2>1, ScanKept
<1> QED BY <1>1, <1>3, <1>4, <1>5 DEF QueueInv

\* Entries are linked, unlinked and readied again under the lock, when nobody scans.
LEMMA EntryStepKeeps ==
  ASSUME QueueInv, NEW t \in Waiters,
         AddEntry(t) \/ wait_exclusive(t) \/ RemoveEntry(t) \/ WaitAgain(t)
  PROVE  QueueInv'
<1>1. /\ qlock = "nobody" /\ UNCHANGED <<scan, qlock>>
      /\ onQueue' = [onQueue EXCEPT ![t] = onQueue'[t]]
  BY DEF AddEntry, wait_exclusive, RemoveEntry, WaitAgain, QueueInv
<1>2. ScanLocked' /\ ScanOnList' /\ WakeReaches'
  BY <1>1 DEF QueueInv, ScanLocked, ScanOnList, WakeReaches
<1>3. EntryOnStack(t) /\ \A x \in Waiters \ {t} : onQueue'[x] = onQueue[x]
  BY <1>1 DEF QueueInv
<1>4. /\ ExclusiveLast /\ Len(wait_list) \in Nat /\ wait_list \in Seq(OnList)
      /\ \A i \in 1 .. Len(wait_list) : wait_list[i] \in OnList
  BY WaitListFacts DEF QueueInv, Lists
<1>5. EntryOnStack(t)' /\ Lists(wait_list, OnList)' /\ ExclusiveLast'
  <2>1. CASE AddEntry(t)
    <3>1. /\ onQueue'[t] = [onQueue[t] EXCEPT !.at = "schedule"] /\ onQueue[t].at = "add"
          /\ wait_list' = << t >> \o wait_list
      BY <2>1 DEF AddEntry, QueueInv
    <3>2. EntryOnStack(t)' /\ ~onQueue'[t].exclusive
      BY <1>3, <3>1 DEF EntryOnStack, EntryRecords
    <3>3. t \notin OnList /\ OnList' = OnList \cup {t}
      BY <1>3, <3>1 DEF OnList, EntryOnStack, EntryRecords
    <3>4. Lists(wait_list, OnList)' /\ Len(wait_list') = Len(wait_list) + 1
      BY <3>1, <3>3, ListAddHead DEF QueueInv
    <3>5. /\ wait_list'[1] = t
          /\ \A i \in 2 .. Len(wait_list) + 1 : wait_list'[i] = wait_list[i - 1] /\ wait_list[i - 1] \in OnList
      BY <1>4, <3>1
    <3>6. ExclusiveLast'
      <4> SUFFICES ASSUME NEW i \in 1 .. Len(wait_list'), NEW j \in 1 .. Len(wait_list'),
                          i < j, onQueue'[wait_list'[i]].exclusive
                   PROVE  onQueue'[wait_list'[j]].exclusive
        BY DEF ExclusiveLast
      <4>1. i # 1
        BY <3>2, <3>5
      <4>2. /\ i - 1 \in 1 .. Len(wait_list) /\ j - 1 \in 1 .. Len(wait_list) /\ i - 1 < j - 1
            /\ wait_list'[i] = wait_list[i - 1] /\ wait_list'[j] = wait_list[j - 1]
            /\ wait_list[i - 1] \in OnList /\ wait_list[j - 1] \in OnList
        BY <1>4, <3>4, <3>5, <4>1
      <4>3. \A x \in OnList : onQueue'[x] = onQueue[x]
        BY <1>3, <3>3 DEF OnList
      <4>4. onQueue[wait_list[i - 1]].exclusive => onQueue[wait_list[j - 1]].exclusive
        BY <1>4, <4>2 DEF ExclusiveLast
      <4> QED BY <4>2, <4>3, <4>4
    <3> QED BY <3>2, <3>4, <3>6
  <2>2. CASE wait_exclusive(t)
    <3>1. /\ onQueue[t].at = "out" /\ wait_list' = Append(wait_list, t)
          /\ onQueue'[t] = [onQueue[t] EXCEPT !.at = "schedule", !.entry = TRUE, !.exclusive = TRUE,
                                              !.state = "uninterruptible"]
      BY <2>2 DEF wait_exclusive, QueueInv
    <3>2. EntryOnStack(t)' /\ onQueue'[t].exclusive /\ onQueue'[t].at = "schedule"
      BY <1>3, <3>1 DEF EntryOnStack, EntryRecords, States, TASK_NORMAL
    <3>3. t \notin OnList /\ OnList' = OnList \cup {t}
      BY <1>3, <3>1, <3>2 DEF OnList
    <3>4. Lists(wait_list, OnList)' /\ Len(wait_list') = Len(wait_list) + 1
      BY <3>1, <3>3, ListAddTail DEF QueueInv
    <3>5. /\ wait_list'[Len(wait_list) + 1] = t
          /\ \A i \in 1 .. Len(wait_list) : wait_list'[i] = wait_list[i]
      BY <1>4, <3>1
    <3>6. \A x \in OnList : onQueue'[x] = onQueue[x]
      BY <1>3, <3>3 DEF OnList
    <3>7. ExclusiveLast'
      <4> SUFFICES ASSUME NEW i \in 1 .. Len(wait_list'), NEW j \in 1 .. Len(wait_list'),
                          i < j, onQueue'[wait_list'[i]].exclusive
                   PROVE  onQueue'[wait_list'[j]].exclusive
        BY DEF ExclusiveLast
      <4>1. CASE j = Len(wait_list) + 1
        BY <3>2, <3>5, <4>1
      <4>2. CASE j # Len(wait_list) + 1
        <5>1. i \in 1 .. Len(wait_list) /\ j \in 1 .. Len(wait_list)
          BY <1>4, <3>4, <4>2
        <5> QED BY <1>4, <3>5, <3>6, <5>1 DEF ExclusiveLast
      <4> QED BY <4>1, <4>2
    <3> QED BY <3>2, <3>4, <3>7
  <2>3. CASE RemoveEntry(t)
    <3>1. /\ t \in OnList /\ onQueue'[t] = NotWaiting /\ wait_list' = list_del(wait_list, t)
      BY <2>3 DEF RemoveEntry, OnList, QueueInv
    <3>2. EntryOnStack(t)'
      BY <3>1 DEF EntryOnStack, EntryRecords, NotWaiting, States
    <3>3. OnList' = OnList \ {t}
      BY <1>3, <3>1 DEF OnList, NotWaiting
    <3>4. Lists(wait_list, OnList)' /\ Len(wait_list') = Len(wait_list) - 1
      BY <3>1, <3>3, ListDel DEF QueueInv
    <3>5. \A x \in OnList' : onQueue'[x] = onQueue[x]
      BY <1>3, <3>3 DEF OnList
    <3>6. ExclusiveLast'
      <4> DEFINE k == CHOOSE i \in DOMAIN wait_list : wait_list[i] = t
                 place(i) == IF i < k THEN i ELSE i + 1
      <4>1. k \in 1 .. Len(wait_list)
        BY <3>1, WaitListFacts DEF QueueInv, Lists
      <4>2. \A i \in 1 .. Len(wait_list) - 1 : wait_list'[i] = wait_list[place(i)]
        BY <3>1 DEF list_del
      <4> HIDE DEF k
      <4>3. \A i \in 1 .. Len(wait_list') : wait_list'[i] \in OnList'
        <5>1. wait_list' \in Seq(OnList')
          BY <3>4 DEF Lists
        <5> QED BY <5>1
      <4> SUFFICES ASSUME NEW i \in 1 .. Len(wait_list'), NEW j \in 1 .. Len(wait_list'),
                          i < j, onQueue'[wait_list'[i]].exclusive
                   PROVE  onQueue'[wait_list'[j]].exclusive
        BY DEF ExclusiveLast
      <4>4. wait_list'[i] \in OnList' /\ wait_list'[j] \in OnList'
        BY <4>3
      <4>5. /\ i \in 1 .. Len(wait_list) - 1 /\ j \in 1 .. Len(wait_list) - 1
            /\ place(i) \in 1 .. Len(wait_list) /\ place(j) \in 1 .. Len(wait_list) /\ place(i) < place(j)
        BY <1>4, <3>4, <4>1
      <4>6. wait_list'[i] = wait_list[place(i)] /\ wait_list'[j] = wait_list[place(j)]
        BY <4>2, <4>5
      <4> HIDE DEF place
      <4> QED BY <1>4, <3>5, <4>4, <4>5, <4>6 DEF ExclusiveLast
    <3> QED BY <3>2, <3>4, <3>6
  <2>4. CASE WaitAgain(t)
    <3>1. /\ onQueue[t].at = "remove" /\ UNCHANGED wait_list
          /\ onQueue'[t] = [onQueue[t] EXCEPT !.at = "schedule", !.state = "uninterruptible"]
      BY <2>4 DEF WaitAgain, QueueInv
    <3>2. EntryOnStack(t)' /\ onQueue'[t].exclusive = onQueue[t].exclusive
      BY <1>3, <3>1 DEF EntryOnStack, EntryRecords, States, TASK_NORMAL
    <3>3. OnList' = OnList
      BY <1>3, <3>1 DEF OnList, EntryOnStack, EntryRecords
    <3>4. ExclusiveLast'
      <4>1. \A x \in OnList : onQueue'[x].exclusive = onQueue[x].exclusive
        BY <1>3, <3>2 DEF OnList
      <4> QED BY <1>4, <3>1, <4>1 DEF ExclusiveLast
    <3> QED BY <3>1, <3>2, <3>3, <3>4 DEF QueueInv
  <2> QED BY <2>1, <2>2, <2>3, <2>4
<1>6. onQueue' = [x \in Waiters |-> onQueue'[x]] /\ \A x \in Waiters : EntryOnStack(x)'
  BY <1>1, <1>3, <1>5 DEF QueueInv, EntryOnStack
<1> QED BY <1>2, <1>5, <1>6 DEF QueueInv

\* __wake_up() starts at the first entry.
LEMMA ScanStarts ==
  ASSUME QueueInv, NEW w \in Wakers, NEW mode \in SUBSET TASK_NORMAL, NEW nr \in WakeCounts,
         __wake_up(w, mode, nr)
  PROVE  QueueInv'
<1>1. /\ UNCHANGED <<onQueue, wait_list>> /\ wait_list # << >> /\ qlock' = w
      /\ scan' = [at |-> "entry", curr |-> Head(wait_list), rest |-> Tail(wait_list),
                  mode |-> mode, nr_exclusive |-> nr, asked |-> nr, woken |-> 0]
  BY DEF __wake_up
<1>2. nr \in Nat /\ w # "nobody"
  BY WaitQueueAssumption
<1>4. ScanOnList'
  <2>1. /\ Head(wait_list) = wait_list[1] /\ Len(Tail(wait_list)) = Len(wait_list) - 1
        /\ \A i \in 1 .. Len(wait_list) - 1 : Tail(wait_list)[i] = wait_list[i + 1]
    BY <1>1, ListDelFirst DEF QueueInv
  <2>2. Tail(wait_list) \in Seq(Waiters) /\ 1 \in 1 .. Len(wait_list) /\ Len(wait_list) \in Nat
    <3>1. wait_list \in Seq(Waiters) /\ Len(wait_list) \in Nat \ {0}
      <4>1. wait_list \in Seq(OnList) /\ OnList \subseteq Waiters
        BY DEF QueueInv, Lists, OnList
      <4> QED BY <1>1, <4>1, SeqMonotonic, EmptySeq
    <3> QED BY <1>1, <3>1, HeadTailProperties
  <2>3. ScanAt(1)'
    BY <1>1, <2>1, <2>2 DEF ScanAt
  <2> QED BY <1>1, <1>2, <2>2, <2>3 DEF ScanOnList
<1>5. OnList' = OnList /\ ExclusiveLast' /\ \A t \in Waiters : EntryOnStack(t)'
  BY <1>1 DEF QueueInv, OnList, ExclusiveLast, EntryOnStack
<1>6. ScanLocked' /\ WakeReaches'
  <2>1. Head(wait_list) \in Waiters /\ Tail(wait_list) \in Seq(Waiters)
    <3>1. wait_list \in Seq(Waiters)
      <4>1. wait_list \in Seq(OnList) /\ OnList \subseteq Waiters
        BY DEF QueueInv, Lists, OnList
      <4> QED BY <4>1, SeqMonotonic
    <3> QED BY <1>1, <3>1, HeadTailProperties
  <2> QED BY <1>1, <1>2, <2>1 DEF ScanLocked, ScanRecords, WakeReaches
<1> QED BY <1>1, <1>4, <1>5, <1>6 DEF QueueInv

\* The entry the scan stands on is woken if it sleeps in one of the states, and the scan
\* goes to the next one, or ends: at the end of the list, or with as many woken as asked for.
LEMMA ScanGoesOn ==
  ASSUME QueueInv, NEW w \in Wakers, __wake_up_common(w)
  PROVE  QueueInv'
<1> DEFINE t == scan.curr
           wakes == default_wake_function(t, scan.mode)
           counts == Counts(t, scan.mode)
           nr == IF counts THEN scan.nr_exclusive - 1 ELSE scan.nr_exclusive
           over == scan.rest = << >> \/ (counts /\ nr = 0)
           woken == IF counts THEN scan.woken + 1 ELSE scan.woken
<1>1. /\ qlock = w /\ scan.at = "entry" /\ UNCHANGED <<wait_list, qlock>>
      /\ onQueue' = IF wakes THEN [onQueue EXCEPT ![t].state = "running"] ELSE onQueue
      /\ scan' = [scan EXCEPT !.at = IF over THEN "unlock" ELSE "entry",
                              !.curr = IF over THEN "NULL" ELSE Head(scan.rest),
                              !.rest = IF over THEN << >> ELSE Tail(@),
                              !.nr_exclusive = nr, !.woken = woken]
  BY DEF __wake_up_common, Counts
<1>2. PICK k \in 1 .. Len(wait_list) : ScanAt(k)
  BY <1>1 DEF QueueInv, ScanOnList
<1>3. /\ t = wait_list[k] /\ t \in OnList /\ t \in Waiters /\ Len(wait_list) \in Nat
      /\ scan \in ScanRecords /\ scan.nr_exclusive = scan.asked - scan.woken
      /\ scan.asked # 0 => scan.woken < scan.asked
      /\ w # "nobody"
  BY <1>1, <1>2, WaitListFacts, WaitQueueAssumption DEF ScanAt, QueueInv, ScanLocked, ScanOnList, OnList
<1>4. /\ \A x \in Waiters : /\ onQueue'[x].exclusive = onQueue[x].exclusive /\ onQueue'[x].at = onQueue[x].at
                            /\ onQueue'[x].entry = onQueue[x].entry
                            /\ onQueue'[x].state \in {onQueue[x].state, "running"}
                            /\ onQueue'[x] \in EntryRecords
                            /\ x # t => onQueue'[x] = onQueue[x]
      /\ onQueue'[t].state \notin scan.mode
      /\ onQueue' = [x \in Waiters |-> onQueue'[x]]
  <2>1. onQueue = [x \in Waiters |-> onQueue[x]] /\ \A x \in Waiters : onQueue[x] \in EntryRecords
    BY DEF QueueInv, EntryOnStack
  <2>2. "running" \notin scan.mode
    BY <1>3 DEF ScanRecords, TASK_NORMAL
  <2>3. CASE wakes
    <3>1. onQueue' = [onQueue EXCEPT ![t] = [onQueue[t] EXCEPT !.state = "running"]]
      BY <1>1, <2>3
    <3> HIDE DEF wakes, t
    <3>2. onQueue'[t] = [onQueue[t] EXCEPT !.state = "running"] /\ \A x \in Waiters \ {t} : onQueue'[x] = onQueue[x]
      BY <1>3, <2>1, <3>1
    <3>3. /\ onQueue'[t] \in EntryRecords /\ onQueue'[t].state = "running"
          /\ onQueue'[t].exclusive = onQueue[t].exclusive /\ onQueue'[t].at = onQueue[t].at
          /\ onQueue'[t].entry = onQueue[t].entry
      BY <1>3, <2>1, <3>2 DEF EntryRecords, States
    <3>4. onQueue' = [x \in Waiters |-> onQueue'[x]]
      BY <2>1, <3>1
    <3> QED BY <2>1, <2>2, <3>2, <3>3, <3>4
  <2>4. CASE ~wakes
    BY <1>1, <2>1, <2>4 DEF default_wake_function
  <2> QED BY <2>3, <2>4
<1>5. OnList' = OnList /\ ExclusiveLast' /\ \A x \in Waiters : EntryOnStack(x)'
  <2>1. OnList' = OnList
    BY <1>4 DEF OnList
  <2>2. \A i \in 1 .. Len(wait_list) : wait_list[i] \in Waiters
    BY WaitListFacts DEF OnList
  <2>3. ExclusiveLast'
    BY <1>1, <1>4, <2>2 DEF QueueInv, ExclusiveLast
  <2>4. ASSUME NEW x \in Waiters PROVE EntryOnStack(x)'
    <3>1. EntryOnStack(x) /\ (x = t => onQueue[x].at # "out")
      BY <1>3 DEF QueueInv, OnList
    <3> QED BY <1>4, <3>1 DEF EntryOnStack
  <2> QED BY <2>1, <2>3, <2>4
<1>6. /\ counts \in BOOLEAN /\ (counts => onQueue'[t].exclusive)
      /\ nr \in Int /\ woken \in Nat /\ nr = scan.asked - woken
      /\ scan.asked # 0 => woken <= scan.asked
      /\ counts /\ nr = 0 => scan.asked # 0 /\ woken = scan.asked
      /\ ~(counts /\ nr = 0) /\ scan.asked # 0 => woken < scan.asked
  <2>1. /\ scan.asked \in Nat /\ scan.woken \in Nat /\ scan.nr_exclusive \in Int
        /\ scan.nr_exclusive = scan.asked - scan.woken
        /\ scan.asked # 0 => scan.woken < scan.asked
    BY <1>3 DEF ScanRecords
  <2>2. counts \in BOOLEAN /\ (counts => onQueue'[t].exclusive)
    BY <1>3, <1>4 DEF Counts, default_wake_function, QueueInv, EntryOnStack, EntryRecords
  <2> HIDE DEF counts, t
  <2>3. CASE counts
    <3>1. nr = scan.nr_exclusive - 1 /\ woken = scan.woken + 1
      BY <2>3
    <3> HIDE DEF nr, woken
    <3>2. nr \in Int /\ woken \in Nat /\ nr = scan.asked - woken
      <4>1. nr \in Int
        BY <2>1, <3>1
      <4>2. woken \in Nat
        BY <2>1, <3>1
      <4>3. nr = scan.asked - (scan.woken + 1)
        BY <2>1, <3>1
      <4> QED BY <3>1, <4>1, <4>2, <4>3
    <3>3. scan.asked # 0 => woken <= scan.asked
      BY <2>1, <3>1
    <3>4. nr = 0 => scan.asked # 0 /\ woken = scan.asked
      BY <2>1, <3>1, <3>2
    <3> QED BY <2>1, <2>2, <2>3, <3>2, <3>3, <3>4
  <2>4. CASE ~counts
    <3>1. nr = scan.nr_exclusive /\ woken = scan.woken
      BY <2>4
    <3> HIDE DEF nr, woken
    <3> QED BY <2>1, <2>2, <2>4, <3>1
  <2> QED BY <2>3, <2>4
<1> HIDE DEF t, wakes, counts, nr, woken
<1>7. /\ scan.rest \in Seq(Waiters) /\ Len(scan.rest) = Len(wait_list) - k
      /\ \A i \in 1 .. Len(wait_list) - k : scan.rest[i] = wait_list[k + i]
      /\ \A i \in 1 .. k : onQueue'[wait_list[i]].state \notin scan.mode
  <2>1. scan.rest \in Seq(Waiters) /\ "running" \notin scan.mode
    BY <1>3 DEF ScanRecords, TASK_NORMAL
  <2>2. ASSUME NEW i \in 1 .. k PROVE onQueue'[wait_list[i]].state \notin scan.mode
    <3>1. wait_list[i] \in Waiters
      BY <1>3, WaitListFacts DEF OnList
    <3>2. CASE i = k
      BY <1>3, <1>4, <3>2
    <3>3. CASE i # k
      <4>1. onQueue[wait_list[i]].state \notin scan.mode
        BY <1>2, <3>3 DEF ScanAt
      <4> QED BY <1>4, <2>1, <3>1, <4>1
    <3> QED BY <3>2, <3>3
  <2> QED BY <1>2, <2>1, <2>2 DEF ScanAt
<1>8. CASE over
  <2>1. /\ scan'.at = "unlock" /\ scan'.asked = scan.asked /\ scan'.woken = woken /\ scan'.mode = scan.mode
        /\ scan' \in ScanRecords
    <3>1. << >> \in Seq(Waiters)
      BY EmptySeq
    <3> QED BY <1>1, <1>3, <1>6, <1>8, <3>1 DEF ScanRecords
  <2>2. ASSUME NEW i \in 1 .. Len(wait_list), onQueue'[wait_list[i]].state \in scan.mode
        PROVE  onQueue'[wait_list[i]].exclusive /\ scan.asked # 0 /\ woken = scan.asked
    <3>1. k < i
      BY <1>3, <1>7, <2>2
    <3>2. scan.rest # << >>
      BY <1>3, <1>7, <3>1, EmptySeq
    <3>3. counts /\ nr = 0
      BY <1>8, <3>2
    <3>4. onQueue'[wait_list[i]].exclusive
      BY <1>1, <1>3, <1>5, <1>6, <3>1, <3>3 DEF ExclusiveLast
    <3> QED BY <1>6, <3>3, <3>4
  <2>3. WakeReaches'
    BY <1>1, <1>6, <2>1, <2>2, WaitListFacts DEF WakeReaches
  <2> QED BY <1>1, <1>3, <1>4, <1>5, <2>1, <2>3 DEF QueueInv, ScanLocked, ScanOnList
<1>9. CASE ~over
  <2>1. /\ scan.rest # << >> /\ Len(scan.rest) \in Nat \ {0}
        /\ Head(scan.rest) \in Waiters /\ Head(scan.rest) = scan.rest[1] /\ Tail(scan.rest) \in Seq(Waiters)
        /\ Len(Tail(scan.rest)) = Len(scan.rest) - 1
        /\ \A i \in 1 .. Len(scan.rest) - 1 : Tail(scan.rest)[i] = scan.rest[i + 1]
    <3>1. scan.rest # << >> /\ scan.rest \in Seq(Waiters) /\ Len(scan.rest) \in Nat \ {0}
      BY <1>7, <1>9, EmptySeq
    <3> QED BY <3>1, HeadTailProperties
  <2>2. /\ scan'.at = "entry" /\ scan'.asked = scan.asked /\ scan'.woken = woken /\ scan'.mode = scan.mode
        /\ scan'.nr_exclusive = nr /\ scan'.curr = Head(scan.rest) /\ scan'.rest = Tail(scan.rest)
        /\ scan' \in ScanRecords
    BY <1>1, <1>3, <1>6, <1>9, <2>1 DEF ScanRecords
  <2>3. k + 1 \in 1 .. Len(wait_list) /\ 1 \in 1 .. Len(wait_list) - k
    BY <1>3, <1>7, <2>1
  <2>4. ScanAt(k + 1)'
    <3>1. scan'.curr = wait_list[k + 1]
      BY <1>7, <2>1, <2>2, <2>3
    <3>2. Len(scan'.rest) = Len(wait_list) - (k + 1)
      BY <1>3, <1>7, <2>1, <2>2
    <3>3. ASSUME NEW i \in 1 .. Len(wait_list) - (k + 1) PROVE scan'.rest[i] = wait_list[k + 1 + i]
      <4>1. i \in 1 .. Len(scan.rest) - 1 /\ i + 1 \in 1 .. Len(wait_list) - k
        BY <1>3, <1>7
      <4> QED BY <1>3, <1>7, <2>1, <2>2, <4>1
    <3>4. \A i \in 1 .. k + 1 - 1 : onQueue'[wait_list[i]].state \notin scan.mode
      BY <1>7
    <3> QED BY <1>1, <2>2, <3>1, <3>2, <3>3, <3>4 DEF ScanAt
  <2>5. ScanOnList' /\ WakeReaches'
    BY <1>1, <1>6, <1>9, <2>2, <2>3, <2>4 DEF ScanOnList, WakeReaches
  <2> QED BY <1>1, <1>3, <1>4, <1>5, <2>2, <2>5 DEF QueueInv, ScanLocked
<1> QED BY <1>8, <1>9

LEMMA ScanEnds ==
  ASSUME QueueInv, NEW w \in Wakers, UnlockQueue(w)
  PROVE  QueueInv'
<1>1. UNCHANGED <<onQueue, wait_list>> /\ scan' = NoScan
  BY DEF UnlockQueue
<1>2. ScanLocked' /\ ScanOnList' /\ WakeReaches'
  BY <1>1, EmptySeq DEF NoScan, ScanLocked, ScanRecords, ScanOnList, WakeReaches
<1>3. OnList' = OnList /\ ExclusiveLast' /\ \A t \in Waiters : EntryOnStack(t)'
  BY <1>1 DEF QueueInv, OnList, ExclusiveLast, EntryOnStack
<1> QED BY <1>1, <1>2, <1>3 DEF QueueInv

\* A wake-up walks entries that exist, wakes every sleeper that is not exclusive and as many
\* exclusive ones as it was asked for or there are, while sleepers come, are woken by
\* signals and timers, and leave.
THEOREM WakeUpsReachSleepers == WaitQueueSpec => []WakeUpSound
<1>1. QueueInv /\ [WaitQueueNext]_waitQueueVars => QueueInv'
  <2> SUFFICES ASSUME QueueInv, [WaitQueueNext]_waitQueueVars PROVE QueueInv'
    OBVIOUS
  <2>1. CASE UNCHANGED waitQueueVars
    BY <2>1 DEF waitQueueVars, QueueInv, EntryOnStack, OnList, ExclusiveLast, ScanLocked, ScanOnList,
         ScanAt, WakeReaches
  <2>2. ASSUME NEW t \in Waiters,
               \/ \E s \in TASK_NORMAL : sleep_on(t, s)
               \/ AddEntry(t) \/ wait_exclusive(t) \/ Resume(t) \/ RemoveEntry(t) \/ WaitAgain(t)
               \/ WokenOtherwise(t)
        PROVE  QueueInv'
    BY <2>2, TaskStepKeeps, EntryStepKeeps
  <2>3. ASSUME NEW w \in Wakers,
               \/ \E mode \in {TASK_NORMAL, {"interruptible"}}, nr \in WakeCounts : __wake_up(w, mode, nr)
               \/ __wake_up_common(w) \/ UnlockQueue(w)
        PROVE  QueueInv'
    <3>1. \A mode \in {TASK_NORMAL, {"interruptible"}} : mode \in SUBSET TASK_NORMAL
      BY DEF TASK_NORMAL
    <3> QED BY <2>3, <3>1, ScanStarts, ScanGoesOn, ScanEnds
  <2> QED BY <2>1, <2>2, <2>3 DEF WaitQueueNext
<1> QED BY <1>1, QueueStart, QueueInvIsSound, PTL DEF WaitQueueSpec

-----------------------------------------------------------------------------
(* wait_task_inactive() *)

InactiveSpec == InactiveInit /\ [][InactiveNext]_inactiveVars

PlacesInSchedule == {"run", "deactivated", "unlocked", "switching", "off"}

TaskRecords ==
  [state : {"R", "S", "waking"}, on_rq : BOOLEAN, on_cpu : BOOLEAN, nvcsw : Nat \ {0},
   at : PlacesInSchedule, voluntary : BOOLEAN]
WaiterRecords ==
  [at : {Back, "spin", "lock"}, match : BOOLEAN, ncsw : Nat, runs : Nat, same : BOOLEAN, left : Int]

InactiveTypes == p \in TaskRecords /\ waiter \in WaiterRecords /\ runs \in Nat

\* __schedule(): the task is on its CPU until finish_lock_switch(), and leaves the run
\* queue only in a voluntary switch.
SwitchSound ==
  /\ p.at # "off" => p.on_cpu
  /\ p.at = "run" => p.on_rq
  /\ p.at \in {"deactivated", "unlocked"} /\ ~p.voluntary => p.on_rq

\* The count that a call returned is still there only if the task has not run since, or
\* has not yet left the run queue since.
SwitchesCounted ==
  /\ waiter.ncsw <= p.nvcsw
  /\ waiter.ncsw # 0 /\ p.nvcsw = waiter.ncsw /\ runs # waiter.runs
       => p.at \in {"run", "deactivated", "unlocked"} \/ p.on_rq

InactiveInv == InactiveTypes /\ SwitchSound /\ SwitchesCounted /\ SameCountNotRun

LEMMA InactiveStart == InactiveInit => InactiveInv
BY InactiveAssumption DEF InactiveInit, InactiveInv, InactiveTypes, TaskRecords, WaiterRecords,
       PlacesInSchedule, SwitchSound, SwitchesCounted, SameCountNotRun, Back

\* A field of a record gets another value of its type.
LEMMA TaskFields ==
  ASSUME NEW q \in TaskRecords
  PROVE  /\ \A at \in PlacesInSchedule : [q EXCEPT !.at = at] \in TaskRecords
         /\ \A s \in {"R", "S", "waking"} : [q EXCEPT !.state = s] \in TaskRecords
         /\ \A b \in BOOLEAN : [q EXCEPT !.on_rq = b] \in TaskRecords /\ [q EXCEPT !.on_cpu = b] \in TaskRecords
         /\ [q EXCEPT !.nvcsw = q.nvcsw + 1] \in TaskRecords
BY DEF TaskRecords

LEMMA ReturnsRecord ==
  ASSUME InactiveTypes, NEW ncsw \in Nat, waiter' = Returns(ncsw)
  PROVE  /\ waiter' \in WaiterRecords
         /\ waiter'.ncsw = ncsw /\ waiter'.runs = runs
         /\ waiter'.same => ncsw # 0 /\ ncsw = waiter.ncsw /\ runs # waiter.runs
<1> DEFINE same == ncsw # 0 /\ ncsw = waiter.ncsw /\ runs # waiter.runs
<1>1. same \in BOOLEAN
  OBVIOUS
<1>2. waiter' = [at |-> Back, match |-> waiter.match, ncsw |-> ncsw, runs |-> runs,
                 same |-> same, left |-> waiter.left]
  BY DEF Returns, InactiveTypes, WaiterRecords
<1>3. waiter'.same = same
  BY <1>2
<1>4. waiter'.same \in BOOLEAN /\ (waiter'.same => same)
  BY <1>1, <1>3
<1> HIDE DEF same
<1>5. waiter' \in WaiterRecords /\ waiter'.ncsw = ncsw /\ waiter'.runs = runs
  BY <1>1, <1>2 DEF InactiveTypes, WaiterRecords
<1> QED BY <1>4, <1>5 DEF same

\* The task's own steps through __schedule().
LEMMA SwitchKeeps ==
  InactiveInv /\ (SetState \/ Deactivate \/ DropLock \/ PickNext \/ finish_lock_switch \/ SwitchIn)
    => InactiveInv'
<1> SUFFICES ASSUME InactiveInv,
                    SetState \/ Deactivate \/ DropLock \/ PickNext \/ finish_lock_switch \/ SwitchIn
             PROVE  InactiveInv'
  OBVIOUS
<1> USE DEF InactiveInv, InactiveTypes, SwitchSound, SwitchesCounted, SameCountNotRun
<1> DEFINE Fields == p.nvcsw \in Nat \ {0} /\ waiter.ncsw \in Nat /\ p.on_rq \in BOOLEAN /\ p.on_cpu \in BOOLEAN
<1>0. Fields
  BY DEF TaskRecords, WaiterRecords
<1>1. CASE SetState
  BY <1>1 DEF SetState, TaskRecords, PlacesInSchedule
<1>2. CASE Deactivate
  <2>1. p.at = "run" /\ UNCHANGED <<waiter, runs>>
    BY <1>2 DEF Deactivate
  <2>2. PICK preempted \in BOOLEAN, signal_pending \in BOOLEAN :
          LET voluntary == p.state # "R" /\ ~preempted
          IN  p' = [p EXCEPT !.at = "deactivated", !.voluntary = voluntary,
                             !.state = IF voluntary /\ signal_pending THEN "R" ELSE @,
                             !.on_rq = @ /\ (~voluntary \/ signal_pending)]
    BY <1>2, Zenon DEF Deactivate
  <2>3. /\ p'.at = "deactivated" /\ p'.on_cpu = p.on_cpu /\ p'.nvcsw = p.nvcsw
        /\ ~p'.voluntary => p'.on_rq = p.on_rq
    BY <2>2 DEF TaskRecords
  <2>4. p' \in TaskRecords
    BY <2>2 DEF TaskRecords, PlacesInSchedule
  <2> QED BY <1>0, <2>1, <2>3, <2>4
<1>3. CASE DropLock
  BY <1>3 DEF DropLock, TaskRecords, PlacesInSchedule
<1>4. CASE PickNext
  <2>1. CASE p.on_rq /\ p' = [p EXCEPT !.at = "run"]
    BY <1>4, <2>1 DEF PickNext, TaskRecords, PlacesInSchedule
  <2>2. CASE p' = [p EXCEPT !.at = "switching", !.nvcsw = @ + IF p.voluntary THEN 1 ELSE 0]
    <3>1. /\ p'.at = "switching" /\ p'.on_cpu = p.on_cpu /\ p'.on_rq = p.on_rq
          /\ p'.nvcsw = p.nvcsw + IF p.voluntary THEN 1 ELSE 0
      BY <2>2 DEF TaskRecords
    <3>2. p' \in TaskRecords
      <4>1. p' = [state |-> p.state, on_rq |-> p.on_rq, on_cpu |-> p.on_cpu,
                  nvcsw |-> p.nvcsw + IF p.voluntary THEN 1 ELSE 0, at |-> "switching", voluntary |-> p.voluntary]
        BY <2>2 DEF TaskRecords
      <4> QED BY <4>1 DEF TaskRecords, PlacesInSchedule
    <3>3. UNCHANGED <<waiter, runs>> /\ p.at \in {"deactivated", "unlocked"}
      BY <1>4 DEF PickNext
    <3> QED BY <1>0, <3>1, <3>2, <3>3
  <2> QED BY <1>4, <2>1, <2>2 DEF PickNext
<1>5. CASE finish_lock_switch
  BY <1>5 DEF finish_lock_switch, TaskRecords, PlacesInSchedule
<1>6. CASE SwitchIn
  <2>1. p' \in TaskRecords
    BY <1>6, TaskFields DEF SwitchIn, PlacesInSchedule
  <2>2. p'.on_cpu /\ p'.on_rq /\ p'.at = "run" /\ p'.nvcsw = p.nvcsw
    BY <1>6 DEF SwitchIn, TaskRecords
  <2> QED BY <1>0, <1>6, <2>1, <2>2 DEF SwitchIn
<1> QED BY <1>1, <1>2, <1>3, <1>4, <1>5, <1>6

\* Waking the task, and waiting for it.
LEMMA InactiveWaitKeeps ==
  InactiveInv /\ (try_to_wake_up \/ BeginWait \/ Spin \/ Look) => InactiveInv'
<1> SUFFICES ASSUME InactiveInv, try_to_wake_up \/ BeginWait \/ Spin \/ Look
             PROVE  InactiveInv'
  OBVIOUS
<1> USE DEF InactiveInv, InactiveTypes, SwitchSound, SwitchesCounted, SameCountNotRun
<1>1. CASE try_to_wake_up
  <2>1. /\ UNCHANGED <<waiter, runs>>
        /\ p' = WakeUp \/ p' = p \/ p' = [p EXCEPT !.state = "R"] \/ p' = [p EXCEPT !.state = "waking"]
    BY <1>1 DEF try_to_wake_up
  <2>2. p' \in TaskRecords
    BY <2>1, TaskFields DEF WakeUp
  <2>3. p'.at = p.at /\ p'.on_cpu = p.on_cpu /\ p'.nvcsw = p.nvcsw /\ p'.voluntary = p.voluntary /\ (p.on_rq => p'.on_rq)
    BY <2>1 DEF WakeUp, TaskRecords
  <2> QED BY <2>1, <2>2, <2>3
<1>2. CASE BeginWait
  <2>1. waiter' = [at |-> "spin", match |-> waiter.match, ncsw |-> waiter.ncsw, runs |-> waiter.runs,
                   same |-> FALSE, left |-> waiter.left - 1]
    BY <1>2 DEF BeginWait, WaiterRecords
  <2>2. waiter' \in WaiterRecords
    BY <2>1 DEF WaiterRecords
  <2>3. waiter'.ncsw = waiter.ncsw /\ waiter'.runs = waiter.runs /\ ~waiter'.same
    BY <2>1
  <2> QED BY <1>2, <2>2, <2>3 DEF BeginWait
<1>3. ASSUME NEW at \in {"spin", "lock"}, waiter' = [waiter EXCEPT !.at = at], UNCHANGED <<p, runs>>
      PROVE  InactiveInv'
  BY <1>3 DEF WaiterRecords
<1>4. ASSUME waiter' = Returns(0), UNCHANGED <<p, runs>> PROVE InactiveInv'
  BY <1>4, ReturnsRecord DEF TaskRecords
<1>5. ASSUME waiter' = Returns(p.nvcsw), OffRunQueue, UNCHANGED <<p, runs>> PROVE InactiveInv'
  BY <1>5, ReturnsRecord DEF OffRunQueue, TaskRecords
<1>6. CASE Spin
  <2>1. CASE ~p.on_cpu
    BY <1>3, <1>6, <2>1 DEF Spin
  <2>2. CASE p.on_cpu /\ waiter' = waiter
    BY <1>6, <2>2 DEF Spin
  <2> QED BY <1>4, <1>6, <2>1, <2>2 DEF Spin
<1>7. CASE Look
  BY <1>3, <1>4, <1>5, <1>7 DEF Look
<1> QED BY <1>1, <1>2, <1>6, <1>7

\* wait_task_inactive() returns the same number twice only for a task that has not run in
\* between (SameCountNotRun), however often the run queue's lock is dropped.
THEOREM SameCountMeansNotRun == InactiveSpec => []SameCountNotRun
<1>1. InactiveInv /\ [InactiveNext]_inactiveVars => InactiveInv'
  <2> SUFFICES ASSUME InactiveInv, [InactiveNext]_inactiveVars PROVE InactiveInv'
    OBVIOUS
  <2>1. CASE UNCHANGED inactiveVars
    BY <2>1 DEF inactiveVars, InactiveInv, InactiveTypes, SwitchSound, SwitchesCounted, SameCountNotRun
  <2>2. CASE InactiveNext
    BY <2>2, SwitchKeeps, InactiveWaitKeeps DEF InactiveNext
  <2> QED BY <2>1, <2>2
<1>2. InactiveInv => SameCountNotRun
  BY DEF InactiveInv
<1> QED BY InactiveStart, <1>1, <1>2, PTL DEF InactiveSpec

-----------------------------------------------------------------------------
(* Priorities *)

RunLists == [class : {"none", "fair", "rt", "wrr"}, prio : Int]
TaskStructs ==
  [alive : BOOLEAN, policy : Policies, rt_priority : RtPriorities \cup {0}, static_prio : NicePrios,
   normal_prio : Int, prio : Int, class : {"fair", "rt", "wrr"}, reset : BOOLEAN,
   queue : RunLists]

InItsList(q) == Queued(q) => q.queue = QueueOf(q)

\* A task whose highest waiter has priority t: its normal_prio is that of its policy, and
\* its priority is the better of the two where that is real-time.
Prioritised(q, t) ==
  /\ q.normal_prio = normal_prio(q)
  /\ rt_prio(t) => q.prio <= t
  /\ rt_prio(q.prio) => q.prio = Higher(t, normal_prio(q))

\* One that a fork has reset but for its priority has not been boosted since.
Unboosted(q, t) == q.normal_prio = normal_prio(q) /\ t = MAX_PRIO

\* left: whether r is one of unreverted
PrioSound(q, t, left) == IF left THEN Unboosted(q, t) ELSE Prioritised(q, t)

PrioTypes ==
  /\ proc \in [Procs -> TaskStructs] /\ top \in [Procs -> 0 .. MAX_PRIO]
  /\ \A r \in Procs : ~proc[r].alive => top[r] = MAX_PRIO

PrioInv ==
  /\ PrioTypes
  /\ \A r \in Alive : InItsList(proc[r])
  /\ \A r \in Alive : PrioSound(proc[r], top[r], r \in unreverted)
  /\ unreverted \subseteq Alive

-----------------------------------------------------------------------------
\* The priority of a nice value is not real-time, and that of SCHED_FIFO is.
LEMMA NormalPrio ==
  ASSUME NEW q \in TaskStructs
  PROVE  /\ normal_prio(q) \in Int /\ normal_prio(q) < MAX_PRIO
         /\ rt_prio(normal_prio(q)) <=> q.policy = "fifo"
         /\ q.static_prio \in Int /\ MAX_RT_PRIO <= q.static_prio /\ q.static_prio < MAX_PRIO
<1>1. q.static_prio \in Int /\ MAX_RT_PRIO <= q.static_prio /\ q.static_prio < MAX_PRIO
  BY PrioAssumption DEF TaskStructs, NicePrios
<1>2. q.rt_priority \in Int /\ 0 <= q.rt_priority /\ q.rt_priority < MAX_RT_PRIO
  BY PrioAssumption DEF TaskStructs, RtPriorities
<1> QED BY <1>1, <1>2, PrioAssumption DEF normal_prio, rt_prio

\* What a change of one task makes of the record.
LEMMA Fields ==
  ASSUME NEW q \in TaskStructs
  PROVE  /\ \A x \in Int : /\ [q EXCEPT !.prio = x] \in TaskStructs
                           /\ [q EXCEPT !.normal_prio = x] \in TaskStructs
         /\ \A x \in NicePrios : [q EXCEPT !.static_prio = x] \in TaskStructs
         /\ \A x \in {"fair", "rt", "wrr"} : [q EXCEPT !.class = x] \in TaskStructs
         /\ \A x \in RunLists : [q EXCEPT !.queue = x] \in TaskStructs
         /\ \A x \in BOOLEAN : [q EXCEPT !.reset = x] \in TaskStructs
         /\ \A x \in Policies : [q EXCEPT !.policy = x] \in TaskStructs
         /\ \A x \in RtPriorities \cup {0} : [q EXCEPT !.rt_priority = x] \in TaskStructs
BY DEF TaskStructs

\* __setscheduler() keeps the task where it is queued and gives it the priority of its
\* policy, or its waiter's.
LEMMA Setscheduled ==
  ASSUME PrioTypes, NEW r \in Procs, NEW q \in TaskStructs,
         NEW policy \in Policies, NEW rt_priority \in RtPriorities \cup {0}
  PROVE  LET new == __setscheduler(r, q, policy, rt_priority)
         IN  /\ new \in TaskStructs
             /\ new.queue = q.queue /\ new.alive = q.alive /\ new.reset = q.reset
             /\ new.normal_prio = normal_prio(new)
             /\ new.prio = Higher(top[r], normal_prio(new))
<1> DEFINE set    == [q EXCEPT !.policy = policy, !.rt_priority = rt_priority]
           normal == normal_prio(set)
           prio   == Higher(top[r], normal)
           class  == SchedClass(policy, prio)
           new    == __setscheduler(r, q, policy, rt_priority)
<1>1. set \in TaskStructs
  BY Fields
<1>2. normal \in Int
  BY <1>1, NormalPrio
<1>3. prio \in Int /\ class \in {"fair", "rt", "wrr"}
  BY <1>2, PrioAssumption DEF PrioTypes, Higher, SchedClass
<1>4. new = [set EXCEPT !.normal_prio = normal, !.prio = prio, !.class = class]
  BY DEF __setscheduler, Inherited
<1> HIDE DEF normal, prio, class, new
<1>5. new \in TaskStructs
  BY <1>1, <1>2, <1>3, <1>4, Fields
<1>6. /\ new.normal_prio = normal /\ new.prio = prio
      /\ new.policy = policy /\ new.rt_priority = rt_priority /\ new.static_prio = q.static_prio
      /\ new.queue = q.queue /\ new.alive = q.alive /\ new.reset = q.reset
  BY <1>4 DEF TaskStructs
<1>7. set.policy = policy /\ set.rt_priority = rt_priority /\ set.static_prio = q.static_prio
  BY DEF TaskStructs
<1>8. normal_prio(new) = normal
  BY <1>6, <1>7 DEF normal_prio, normal
<1> QED BY <1>5, <1>6, <1>8 DEF new, prio

\* The fields a priority depends on.
SamePrio(a, b) ==
  /\ a.alive = b.alive /\ a.policy = b.policy /\ a.rt_priority = b.rt_priority
  /\ a.static_prio = b.static_prio /\ a.normal_prio = b.normal_prio /\ a.prio = b.prio

LEMMA QueueOfType == ASSUME NEW q \in TaskStructs PROVE QueueOf(q) \in RunLists
BY PrioAssumption DEF QueueOf, TaskStructs, RunLists

\* A task is put in the list of what it has become.
LEMMA Enqueued ==
  ASSUME NEW q \in TaskStructs
  PROVE  enqueue_task(q) \in TaskStructs /\ InItsList(enqueue_task(q)) /\ SamePrio(enqueue_task(q), q)
<1>1. enqueue_task(q) = [q EXCEPT !.queue = QueueOf(q)]
  BY DEF enqueue_task
<1>2. enqueue_task(q) \in TaskStructs
  BY <1>1, Fields, QueueOfType
<1>3. /\ SamePrio(enqueue_task(q), q)
      /\ enqueue_task(q).class = q.class /\ enqueue_task(q).queue = QueueOf(q)
  BY <1>1 DEF TaskStructs, SamePrio
<1>4. QueueOf(enqueue_task(q)) = QueueOf(q)
  BY <1>3 DEF QueueOf, SamePrio
<1> QED BY <1>2, <1>3, <1>4 DEF InItsList

LEMMA RequeuedInItsList ==
  ASSUME NEW old \in TaskStructs, NEW new \in TaskStructs, new.queue = old.queue
  PROVE  /\ Requeued(old, new) \in TaskStructs
         /\ InItsList(Requeued(old, new)) /\ SamePrio(Requeued(old, new), new)
<1>1. CASE Queued(old)
  BY <1>1, Enqueued DEF Requeued
<1>2. CASE ~Queued(old)
  BY <1>2 DEF Requeued, Queued, InItsList, SamePrio
<1> QED BY <1>1, <1>2

LEMMA PrioritisedSame ==
  ASSUME NEW a, NEW b, SamePrio(a, b), NEW t
  PROVE  /\ Prioritised(a, t) <=> Prioritised(b, t)
         /\ Unboosted(a, t) <=> Unboosted(b, t)
BY DEF SamePrio, Prioritised, Unboosted, normal_prio

\* One task becomes new, and its highest waiter another perhaps.
LEMMA OneChanges ==
  ASSUME PrioInv, NEW r \in Procs, NEW new \in TaskStructs, new.alive, InItsList(new),
         proc' = [proc EXCEPT ![r] = new],
         NEW t \in 0 .. MAX_PRIO, top' = [top EXCEPT ![r] = t],
         NEW left \in BOOLEAN, PrioSound(new, t, left),
         unreverted' = IF left THEN unreverted \cup {r} ELSE unreverted \ {r}
  PROVE  PrioInv'
<1>1. /\ proc' \in [Procs -> TaskStructs] /\ top' \in [Procs -> 0 .. MAX_PRIO]
      /\ proc'[r] = new /\ top'[r] = t
      /\ \A s \in Procs \ {r} : proc'[s] = proc[s] /\ top'[s] = top[s]
  BY DEF PrioInv, PrioTypes
<1>2. PrioTypes'
  BY <1>1 DEF PrioInv, PrioTypes
<1>3. \A s \in Alive' : InItsList(proc'[s])
  BY <1>1 DEF PrioInv, Alive
<1>4. \A s \in Alive' : PrioSound(proc'[s], top'[s], s \in unreverted')
  <2> SUFFICES ASSUME NEW s \in Alive' PROVE PrioSound(proc'[s], top'[s], s \in unreverted')
    OBVIOUS
  <2>1. CASE s = r
    <3>1. (s \in unreverted') <=> left
      BY <2>1
    <3> QED BY <1>1, <2>1, <3>1 DEF PrioSound
  <2>2. CASE s # r
    <3>1. s \in Alive /\ proc'[s] = proc[s] /\ top'[s] = top[s]
      BY <1>1, <2>2 DEF Alive
    <3>2. (s \in unreverted') <=> (s \in unreverted)
      BY <2>2
    <3> QED BY <3>1, <3>2 DEF PrioInv, PrioSound
  <2> QED BY <2>1, <2>2
<1>5. \A s \in Procs : InItsList(proc[s])' <=> InItsList(proc'[s])
  BY DEF InItsList, Queued, QueueOf
<1>6. \A s \in Procs : PrioSound(proc[s], top[s], s \in unreverted)'
                          <=> PrioSound(proc'[s], top'[s], s \in unreverted')
  BY DEF PrioSound, Prioritised, Unboosted, normal_prio
<1>7. unreverted' \subseteq Alive'
  BY <1>1 DEF PrioInv, Alive
<1> QED BY <1>2, <1>3, <1>4, <1>5, <1>6, <1>7 DEF PrioInv, Alive

\* A step that leaves unreverted as it is.
LEMMA SameUnreverted ==
  ASSUME NEW r \in Procs, UNCHANGED unreverted
  PROVE  /\ (r \in unreverted) \in BOOLEAN
         /\ unreverted' = IF r \in unreverted THEN unreverted \cup {r} ELSE unreverted \ {r}
OBVIOUS

-----------------------------------------------------------------------------
\* A policy was set: the priority is the waiter's or the policy's.
LEMMA AfterSet ==
  ASSUME NEW new \in TaskStructs, NEW t \in 0 .. MAX_PRIO,
         new.normal_prio = normal_prio(new), new.prio = Higher(t, normal_prio(new))
  PROVE  Prioritised(new, t)
BY NormalPrio, PrioAssumption DEF Prioritised, Higher, rt_prio

LEMMA SetschedulerKeeps ==
  ASSUME PrioInv, NEW r \in Procs, setscheduler(r)
  PROVE  PrioInv'
<1>1. PICK policy \in Policies, rt_priority \in RtPriorities \cup {0}, reset \in BOOLEAN :
        Change(r, Requeued(proc[r], __setscheduler(r, [proc[r] EXCEPT !.reset = reset], policy, rt_priority)))
  BY DEF setscheduler
<1> DEFINE old == [proc[r] EXCEPT !.reset = reset]
           set == __setscheduler(r, old, policy, rt_priority)
           new == Requeued(proc[r], set)
<1>2. PrioTypes /\ proc[r] \in TaskStructs /\ top[r] \in 0 .. MAX_PRIO /\ reset \in BOOLEAN
  BY PrioAssumption DEF PrioInv, PrioTypes
<1>3. old \in TaskStructs
  BY <1>2, Fields
<1>4. old.alive = proc[r].alive /\ old.queue = proc[r].queue /\ old.reset = reset
  BY <1>2 DEF TaskStructs
<1> HIDE DEF old
<1>5. /\ set \in TaskStructs /\ set.queue = proc[r].queue /\ set.alive = proc[r].alive /\ set.reset = reset
      /\ set.normal_prio = normal_prio(set) /\ set.prio = Higher(top[r], normal_prio(set))
  BY <1>2, <1>3, <1>4, Setscheduled
<1> HIDE DEF set
<1>6. new \in TaskStructs /\ InItsList(new) /\ SamePrio(new, set)
  BY <1>2, <1>5, RequeuedInItsList
<1>7. Prioritised(set, top[r])
  BY <1>2, <1>5, AfterSet
<1>8. PrioSound(new, top[r], FALSE)
  BY <1>6, <1>7, PrioritisedSame DEF PrioSound
<1>9. /\ proc[r].alive /\ proc' = [proc EXCEPT ![r] = new]
      /\ top' = [top EXCEPT ![r] = top[r]]
      /\ unreverted' = IF FALSE THEN unreverted \cup {r} ELSE unreverted \ {r}
  BY <1>1, <1>2 DEF Change, set, old, setscheduler, PrioTypes
<1>10. new.alive
  BY <1>5, <1>6, <1>9 DEF SamePrio
<1> HIDE DEF new
<1> QED BY <1>2, <1>6, <1>8, <1>9, <1>10, OneChanges

\* set_user_nice(): a boosted task keeps its priority, which is still its waiter's.
LEMMA RenicedSound ==
  ASSUME NEW q \in TaskStructs, q.alive, InItsList(q), NEW static \in NicePrios
  PROVE  /\ Reniced(q, static) \in TaskStructs /\ Reniced(q, static).alive /\ InItsList(Reniced(q, static))
         /\ \A t \in 0 .. MAX_PRIO : \A left \in BOOLEAN :
              PrioSound(q, t, left) => PrioSound(Reniced(q, static), t, left)
<1>1. CASE q.static_prio = static
  BY <1>1 DEF Reniced
<1> DEFINE new == [q EXCEPT !.static_prio = static]
<1>2. new \in TaskStructs
  BY Fields
<1>3. /\ new.alive = q.alive /\ new.policy = q.policy /\ new.rt_priority = q.rt_priority
      /\ new.static_prio = static /\ new.normal_prio = q.normal_prio /\ new.prio = q.prio
      /\ new.class = q.class /\ new.reset = q.reset /\ new.queue = q.queue
  BY DEF TaskStructs
<1> HIDE DEF new
<1>4. CASE q.static_prio # static /\ q.policy = "fifo"
  <2>1. Reniced(q, static) = new
    BY <1>4 DEF Reniced, new
  <2>2. normal_prio(new) = normal_prio(q)
    BY <1>3, <1>4 DEF normal_prio
  <2>3. InItsList(new)
    BY <1>3 DEF InItsList, Queued, QueueOf
  <2> QED BY <1>2, <1>3, <2>1, <2>2, <2>3 DEF PrioSound, Prioritised, Unboosted
<1>5. CASE q.static_prio # static /\ q.policy # "fifo"
  <2> DEFINE normal == [new EXCEPT !.normal_prio = normal_prio(new)]
             eff == effective_prio(new)
  <2>1. normal_prio(new) = static /\ normal_prio(q) = q.static_prio
    BY <1>3, <1>5 DEF normal_prio
  <2>2. /\ static \in Int /\ MAX_RT_PRIO <= static
        /\ q.static_prio \in Int /\ MAX_RT_PRIO <= q.static_prio
    BY PrioAssumption DEF NicePrios, TaskStructs
  <2>3. normal \in TaskStructs
    BY <1>2, <2>1, <2>2, Fields
  <2>4. /\ normal.alive = q.alive /\ normal.policy = q.policy /\ normal.rt_priority = q.rt_priority
        /\ normal.static_prio = static /\ normal.normal_prio = static /\ normal.prio = q.prio
        /\ normal.reset = q.reset /\ normal.queue = q.queue
    BY <1>2, <1>3, <2>1 DEF TaskStructs
  <2>5. eff = IF rt_prio(q.prio) THEN normal ELSE [normal EXCEPT !.prio = static]
    BY <1>3, <2>4 DEF effective_prio
  <2> HIDE DEF normal, eff
  <2>6. eff \in TaskStructs
    BY <2>2, <2>3, <2>5, Fields
  <2>7. /\ eff.alive = q.alive /\ eff.policy = q.policy /\ eff.rt_priority = q.rt_priority
        /\ eff.static_prio = static /\ eff.normal_prio = static
        /\ eff.prio = IF rt_prio(q.prio) THEN q.prio ELSE static
        /\ eff.reset = q.reset /\ eff.queue = q.queue
    BY <2>3, <2>4, <2>5 DEF TaskStructs
  <2>8. normal_prio(eff) = static
    BY <1>5, <2>7 DEF normal_prio
  <2>9. Reniced(q, static) = Requeued(q, eff)
    BY <1>5 DEF Reniced, new, eff
  <2>10. /\ Reniced(q, static) \in TaskStructs /\ InItsList(Reniced(q, static))
         /\ SamePrio(Reniced(q, static), eff)
    BY <2>6, <2>7, <2>9, RequeuedInItsList
  <2>11. ASSUME NEW t \in 0 .. MAX_PRIO, Prioritised(q, t) PROVE Prioritised(eff, t)
    <3>1. q.prio \in Int /\ t \in Int
      BY PrioAssumption DEF TaskStructs
    <3>2. CASE rt_prio(q.prio)
      <4>1. q.prio = Higher(t, q.static_prio) /\ ~(MAX_RT_PRIO <= q.prio)
        BY <2>1, <2>11, <3>1, <3>2, PrioAssumption DEF Prioritised, rt_prio
      <4>2. q.prio = t /\ t < static
        BY <2>2, <3>1, <4>1, PrioAssumption DEF Higher
      <4> QED BY <2>2, <2>7, <2>8, <2>11, <3>1, <3>2, <4>2 DEF Prioritised, Higher
    <3>3. CASE ~rt_prio(q.prio)
      <4>1. ~rt_prio(t)
        BY <2>11, <3>1, <3>3, PrioAssumption DEF Prioritised, rt_prio
      <4>2. ~rt_prio(eff.prio)
        BY <2>2, <2>7, <3>3, PrioAssumption DEF rt_prio
      <4> QED BY <2>7, <2>8, <2>11, <4>1, <4>2 DEF Prioritised
    <3> QED BY <3>2, <3>3
  <2>12. ASSUME NEW t \in 0 .. MAX_PRIO, Unboosted(q, t) PROVE Unboosted(eff, t)
    BY <2>7, <2>8, <2>12 DEF Unboosted
  <2> QED BY <2>7, <2>10, <2>11, <2>12, PrioritisedSame DEF SamePrio, PrioSound
<1> QED BY <1>1, <1>4, <1>5

LEMMA NiceKeeps ==
  ASSUME PrioInv, NEW r \in Procs, set_user_nice(r) \/ normalize_task(r)
  PROVE  PrioInv'
<1>1. PrioTypes /\ proc[r] \in TaskStructs /\ top[r] \in 0 .. MAX_PRIO
  BY DEF PrioInv, PrioTypes
<1>2. proc[r].alive /\ top' = [top EXCEPT ![r] = top[r]]
  BY <1>1 DEF set_user_nice, normalize_task, Change, PrioTypes
<1>3. InItsList(proc[r]) /\ PrioSound(proc[r], top[r], r \in unreverted) /\ (r \in unreverted) \in BOOLEAN
  BY <1>2 DEF PrioInv, Alive
<1>4. ASSUME NEW static \in NicePrios, Change(r, Reniced(proc[r], static)), UNCHANGED unreverted
      PROVE  PrioInv'
  <2> DEFINE new == Reniced(proc[r], static)
  <2>1. /\ new \in TaskStructs /\ new.alive /\ InItsList(new)
        /\ PrioSound(new, top[r], r \in unreverted)
    BY <1>1, <1>2, <1>3, RenicedSound
  <2>2. proc' = [proc EXCEPT ![r] = new]
    BY <1>4 DEF Change
  <2>3. unreverted' = IF r \in unreverted THEN unreverted \cup {r} ELSE unreverted \ {r}
    BY <1>4, SameUnreverted
  <2> HIDE DEF new
  <2> QED BY <1>1, <1>2, <1>3, <2>1, <2>2, <2>3, OneChanges
<1>5. ASSUME Change(r, Requeued(proc[r], __setscheduler(r, proc[r], "normal", 0))),
             unreverted' = unreverted \ {r}
      PROVE  PrioInv'
  <2> DEFINE set == __setscheduler(r, proc[r], "normal", 0)
             new == Requeued(proc[r], set)
  <2>1. /\ set \in TaskStructs /\ set.queue = proc[r].queue /\ set.alive = proc[r].alive
        /\ set.normal_prio = normal_prio(set) /\ set.prio = Higher(top[r], normal_prio(set))
    BY <1>1, Setscheduled DEF Policies
  <2>2. proc' = [proc EXCEPT ![r] = new]
    BY <1>5 DEF Change
  <2> HIDE DEF set
  <2>3. new \in TaskStructs /\ InItsList(new) /\ SamePrio(new, set)
    BY <1>1, <2>1, RequeuedInItsList
  <2>4. PrioSound(new, top[r], FALSE)
    BY <1>1, <2>1, <2>3, AfterSet, PrioritisedSame DEF PrioSound
  <2>5. new.alive
    BY <1>2, <2>1, <2>3 DEF SamePrio
  <2>6. unreverted' = IF FALSE THEN unreverted \cup {r} ELSE unreverted \ {r}
    BY <1>5
  <2> HIDE DEF new
  <2> QED BY <1>1, <1>2, <2>2, <2>3, <2>4, <2>5, <2>6, OneChanges
<1>6. ASSUME Change(r, proc[r]), UNCHANGED unreverted PROVE PrioInv'
  <2>1. unreverted' = IF r \in unreverted THEN unreverted \cup {r} ELSE unreverted \ {r}
    BY <1>6, SameUnreverted
  <2>2. proc' = [proc EXCEPT ![r] = proc[r]]
    BY <1>6 DEF Change
  <2> QED BY <1>1, <1>2, <1>3, <2>1, <2>2, OneChanges
<1>7. Nice0 \in NicePrios
  BY PrioAssumption DEF NicePrios
<1>8. CASE set_user_nice(r)
  BY <1>4, <1>8 DEF set_user_nice
<1>9. CASE normalize_task(r)
  BY <1>4, <1>5, <1>6, <1>7, <1>9 DEF normalize_task
<1> QED BY <1>8, <1>9

\* A waiter comes or goes: the priority is the better of its own and the new waiter's.
LEMMA SetprioKeeps ==
  ASSUME PrioInv, NEW r \in Procs, rt_mutex_setprio(r)
  PROVE  PrioInv'
<1>1. PICK best \in 0 .. MAX_PRIO :
        LET prio == Higher(best, proc[r].normal_prio)
            new  == [proc[r] EXCEPT !.prio = prio, !.class = SchedClass(proc[r].policy, prio)]
        IN  /\ top' = [top EXCEPT ![r] = best]
            /\ unreverted' = unreverted \ {r}
            /\ Change(r, IF proc[r].prio = prio THEN proc[r] ELSE Requeued(proc[r], new))
  BY DEF rt_mutex_setprio
<1> DEFINE prio  == Higher(best, proc[r].normal_prio)
           class == SchedClass(proc[r].policy, prio)
           set   == [proc[r] EXCEPT !.prio = prio, !.class = class]
           new   == IF proc[r].prio = prio THEN proc[r] ELSE Requeued(proc[r], set)
<1>2. PrioTypes /\ proc[r] \in TaskStructs /\ best \in 0 .. MAX_PRIO
  BY DEF PrioInv, PrioTypes
<1>3. proc[r].alive /\ proc' = [proc EXCEPT ![r] = new]
  BY <1>1 DEF Change
<1>4. InItsList(proc[r]) /\ proc[r].normal_prio = normal_prio(proc[r])
  BY <1>3 DEF PrioInv, Alive, PrioSound, Prioritised, Unboosted
<1>5. prio \in Int /\ class \in {"fair", "rt", "wrr"}
  BY <1>2, PrioAssumption DEF TaskStructs, Higher, SchedClass
<1> HIDE DEF prio, class
<1>6. set \in TaskStructs
  BY <1>2, <1>5, Fields
<1>7. /\ set.alive = proc[r].alive /\ set.policy = proc[r].policy /\ set.rt_priority = proc[r].rt_priority
      /\ set.static_prio = proc[r].static_prio /\ set.normal_prio = proc[r].normal_prio /\ set.prio = prio
      /\ set.reset = proc[r].reset /\ set.queue = proc[r].queue
  BY <1>2 DEF TaskStructs
<1> HIDE DEF set
<1>8. /\ new \in TaskStructs /\ InItsList(new)
      /\ \/ SamePrio(new, set)
         \/ new = proc[r] /\ proc[r].prio = prio
  BY <1>2, <1>4, <1>6, <1>7, RequeuedInItsList
<1> HIDE DEF new
<1>9. SamePrio(new, set)
  BY <1>7, <1>8 DEF SamePrio
<1>10. Prioritised(set, best)
  <2>1. set.normal_prio = normal_prio(set) /\ set.prio = Higher(best, normal_prio(set))
    BY <1>4, <1>7 DEF normal_prio, prio
  <2> QED BY <1>2, <1>6, <2>1, AfterSet
<1>11. new.alive /\ PrioSound(new, best, FALSE)
  BY <1>3, <1>7, <1>9, <1>10, PrioritisedSame DEF SamePrio, PrioSound
<1>12. unreverted' = IF FALSE THEN unreverted \cup {r} ELSE unreverted \ {r}
  BY <1>1
<1> QED BY <1>1, <1>2, <1>3, <1>8, <1>11, <1>12, OneChanges

LEMMA SleepKeeps ==
  ASSUME PrioInv, NEW r \in Procs, Sleep(r)
  PROVE  PrioInv'
<1> DEFINE queue == IF Queued(proc[r]) THEN NotQueued ELSE QueueOf(proc[r])
           new   == [proc[r] EXCEPT !.queue = queue]
<1>1. PrioTypes /\ proc[r] \in TaskStructs /\ top[r] \in 0 .. MAX_PRIO
  BY DEF PrioInv, PrioTypes
<1>2. proc[r].alive /\ proc' = [proc EXCEPT ![r] = new] /\ top' = [top EXCEPT ![r] = top[r]]
  BY <1>1 DEF Sleep, Change, PrioTypes
<1>3. queue \in RunLists
  BY <1>1, QueueOfType DEF NotQueued, RunLists
<1>4. queue = NotQueued \/ queue = QueueOf(proc[r])
  OBVIOUS
<1> HIDE DEF queue
<1>5. new \in TaskStructs
  BY <1>1, <1>3, Fields
<1>6. SamePrio(new, proc[r]) /\ new.class = proc[r].class /\ new.queue = queue
  BY <1>1 DEF TaskStructs, SamePrio
<1> HIDE DEF new
<1>7. InItsList(new)
  BY <1>4, <1>6 DEF InItsList, Queued, QueueOf, SamePrio
<1>8. new.alive /\ PrioSound(new, top[r], r \in unreverted)
  BY <1>2, <1>6, PrioritisedSame DEF PrioInv, Alive, SamePrio, PrioSound
<1>9. /\ (r \in unreverted) \in BOOLEAN
      /\ unreverted' = IF r \in unreverted THEN unreverted \cup {r} ELSE unreverted \ {r}
  BY SameUnreverted DEF Sleep
<1> QED BY <1>1, <1>2, <1>5, <1>7, <1>8, <1>9, OneChanges

LEMMA RevertedType ==
  ASSUME NEW q \in TaskStructs
  PROVE  /\ Reverted(q) \in TaskStructs /\ Reverted(q).alive = q.alive
         /\ ~q.reset => Reverted(q) = q
         /\ q.normal_prio = normal_prio(q) => Reverted(q).normal_prio = normal_prio(Reverted(q))
<1> DEFINE normal == IF q.policy = "fifo" THEN [q EXCEPT !.policy = "normal", !.normal_prio = q.static_prio] ELSE q
           nice   == IF q.static_prio < Nice0
                     THEN [normal EXCEPT !.static_prio = Nice0, !.normal_prio = Nice0] ELSE normal
<1>1. q.static_prio \in Int /\ Nice0 \in NicePrios /\ Nice0 \in Int
  BY NormalPrio, PrioAssumption DEF NicePrios
<1>2. /\ normal \in TaskStructs /\ normal.alive = q.alive
      /\ normal.policy # "fifo" /\ normal.static_prio = q.static_prio
      /\ q.normal_prio = normal_prio(q) => normal.normal_prio = q.static_prio
  <2>1. [q EXCEPT !.policy = "normal"] \in TaskStructs
    BY Fields DEF Policies
  <2>2. [[q EXCEPT !.policy = "normal"] EXCEPT !.normal_prio = q.static_prio] \in TaskStructs
    BY <1>1, <2>1, Fields
  <2> DEFINE other == [q EXCEPT !.policy = "normal", !.normal_prio = q.static_prio]
  <2>3. /\ other.alive = q.alive /\ other.policy = "normal"
        /\ other.static_prio = q.static_prio /\ other.normal_prio = q.static_prio
    BY DEF TaskStructs
  <2>4. other \in TaskStructs
    BY <2>2
  <2>5. normal = IF q.policy = "fifo" THEN other ELSE q
    OBVIOUS
  <2> HIDE DEF other, normal
  <2> QED BY <2>3, <2>4, <2>5 DEF normal_prio
<1> HIDE DEF normal
<1>3. /\ nice \in TaskStructs /\ nice.alive = q.alive
      /\ q.normal_prio = normal_prio(q) => nice.normal_prio = normal_prio(nice)
  <2>1. [[normal EXCEPT !.static_prio = Nice0] EXCEPT !.normal_prio = Nice0] \in TaskStructs
    BY <1>1, <1>2, Fields
  <2> DEFINE zero == [normal EXCEPT !.static_prio = Nice0, !.normal_prio = Nice0]
  <2>2. /\ zero.alive = normal.alive /\ zero.policy = normal.policy
        /\ zero.static_prio = Nice0 /\ zero.normal_prio = Nice0
    BY <1>2 DEF TaskStructs
  <2>3. zero \in TaskStructs
    BY <2>1
  <2>4. nice = IF q.static_prio < Nice0 THEN zero ELSE normal
    OBVIOUS
  <2> HIDE DEF zero, nice
  <2> QED BY <1>2, <2>2, <2>3, <2>4 DEF normal_prio
<1>4. Reverted(q) = IF ~q.reset THEN q ELSE [nice EXCEPT !.reset = FALSE]
  BY DEF Reverted, nice, normal
<1> HIDE DEF nice
<1>5. [nice EXCEPT !.reset = FALSE] \in TaskStructs
  BY <1>3, Fields
<1>6. LET new == [nice EXCEPT !.reset = FALSE]
      IN  /\ new.alive = nice.alive /\ new.policy = nice.policy /\ new.rt_priority = nice.rt_priority
          /\ new.static_prio = nice.static_prio /\ new.normal_prio = nice.normal_prio
  BY <1>3 DEF TaskStructs
<1>7. normal_prio([nice EXCEPT !.reset = FALSE]) = normal_prio(nice)
  BY <1>6 DEF normal_prio
<1> QED BY <1>3, <1>4, <1>5, <1>6, <1>7

\* The child is queued by the priority it is given, the parent's own without any boost.
LEMMA ForkKeeps ==
  ASSUME PrioInv, NEW parent \in Procs, NEW child \in Procs, sched_fork(parent, child)
  PROVE  PrioInv'
<1> DEFINE old   == proc[parent]
           q     == Reverted(old)
           prio  == ChildPrio(old)
           class == IF ~rt_prio(prio) THEN "fair" ELSE IF q.policy = "wrr" THEN "wrr" ELSE q.class
           set   == [q EXCEPT !.prio = prio, !.class = class, !.queue = NotQueued]
           new   == enqueue_task(set)
           left  == old.reset /\ rt_prio(prio)
<1>1. old \in TaskStructs /\ old.alive /\ child \notin unreverted /\ top[child] = MAX_PRIO /\ MAX_PRIO \in 0 .. MAX_PRIO /\ PrioTypes
  BY PrioAssumption DEF PrioInv, PrioTypes, Alive, sched_fork
<1>2. /\ proc' = [proc EXCEPT ![child] = new] /\ top' = [top EXCEPT ![child] = MAX_PRIO]
      /\ unreverted' = IF left THEN unreverted \cup {child} ELSE unreverted \ {child}
  BY <1>1 DEF sched_fork, PrioTypes
<1>r. old.reset \in BOOLEAN
  BY <1>1 DEF TaskStructs
<1>b. left \in BOOLEAN
  BY <1>r DEF rt_prio
<1>3. q \in TaskStructs /\ q.alive
  BY <1>1, RevertedType
<1>4. old.normal_prio = normal_prio(old) /\ q.normal_prio = normal_prio(q) /\ (~old.reset => q = old)
  <2>1. old.normal_prio = normal_prio(old)
    BY <1>1 DEF PrioInv, Alive, PrioSound, Prioritised, Unboosted
  <2> QED BY <1>1, <2>1, RevertedType
<1>5. prio = old.normal_prio /\ prio \in Int
  BY <1>1 DEF ChildPrio, TaskStructs
<1>q. NotQueued \in RunLists
  BY DEF NotQueued, RunLists
<1> HIDE DEF q, prio
<1>6. class \in {"fair", "rt", "wrr"}
  BY <1>3 DEF TaskStructs
<1> HIDE DEF class
<1>7. set \in TaskStructs
  BY <1>3, <1>5, <1>q, <1>6, Fields
<1>8. /\ set.alive = q.alive /\ set.policy = q.policy /\ set.rt_priority = q.rt_priority
      /\ set.static_prio = q.static_prio /\ set.normal_prio = q.normal_prio /\ set.prio = prio
      /\ set.reset = q.reset
  BY <1>3 DEF TaskStructs
<1>n. normal_prio(set) = normal_prio(q)
  BY <1>8 DEF normal_prio
<1> HIDE DEF set
<1>9. new \in TaskStructs /\ InItsList(new) /\ SamePrio(new, set)
  BY <1>7, Enqueued
<1> HIDE DEF new
<1>10. ASSUME left PROVE PrioSound(new, MAX_PRIO, left)
  BY <1>4, <1>8, <1>9, <1>n, <1>10, PrioritisedSame DEF PrioSound, Unboosted
<1>11. ASSUME ~left PROVE PrioSound(new, MAX_PRIO, left)
  <2>1. set.normal_prio = normal_prio(set) /\ ~rt_prio(MAX_PRIO)
    BY <1>4, <1>8, <1>n, PrioAssumption DEF rt_prio
  <2>2. normal_prio(set) \in Int /\ normal_prio(set) < MAX_PRIO
    BY <1>7, NormalPrio
  <2>3. Higher(MAX_PRIO, normal_prio(set)) = normal_prio(set)
    BY <2>2, PrioAssumption DEF Higher
  <2>4. rt_prio(set.prio) => set.prio = normal_prio(set)
    BY <1>4, <1>5, <1>8, <1>11, <1>n
  <2>5. Prioritised(set, MAX_PRIO)
    BY <2>1, <2>3, <2>4 DEF Prioritised
  <2> QED BY <1>9, <1>11, <2>5, PrioritisedSame DEF PrioSound
<1>12. PrioSound(new, MAX_PRIO, left)
  BY <1>10, <1>11
<1>13. new.alive
  BY <1>3, <1>8, <1>9 DEF SamePrio
<1> HIDE DEF left
<1> QED BY <1>1, <1>2, <1>b, <1>9, <1>12, <1>13, OneChanges

LEMMA PrioStart == PrioInit => PrioInv
<1> SUFFICES ASSUME PrioInit PROVE PrioInv
  OBVIOUS
<1>1. PICK q \in Procs : proc = [r \in Procs |-> [Dead EXCEPT !.alive = (r = q)]]
  BY DEF PrioInit
<1>2. Dead \in TaskStructs
  BY PrioAssumption DEF Dead, TaskStructs, Policies, NicePrios, RunLists, NotQueued
<1>3. \A b \in BOOLEAN : [Dead EXCEPT !.alive = b] \in TaskStructs
  BY <1>2 DEF TaskStructs
<1>4. /\ \A r \in Procs : proc[r] \in TaskStructs
      /\ proc \in [Procs -> TaskStructs] /\ top \in [Procs -> 0 .. MAX_PRIO]
      /\ \A r \in Procs : top[r] = MAX_PRIO
  <2>1. ASSUME NEW r \in Procs PROVE [Dead EXCEPT !.alive = (r = q)] \in TaskStructs
    <3>1. PICK b \in BOOLEAN : b = (r = q)
      OBVIOUS
    <3>2. [Dead EXCEPT !.alive = b] \in TaskStructs
      BY <1>3
    <3> QED BY <3>1, <3>2
  <2>2. proc \in [Procs -> TaskStructs]
    BY <1>1, <2>1
  <2> QED BY <2>2, PrioAssumption DEF PrioInit
<1>5. ASSUME NEW r \in Procs
      PROVE  /\ proc[r].queue = NotQueued /\ proc[r].policy = "normal" /\ proc[r].static_prio = Nice0
             /\ proc[r].normal_prio = Nice0 /\ proc[r].prio = Nice0 /\ ~proc[r].reset
  BY <1>1 DEF Dead
<1>6. \A r \in Procs : InItsList(proc[r])
  BY <1>5 DEF InItsList, Queued
<1>7. \A r \in Procs : Prioritised(proc[r], top[r])
  BY <1>4, <1>5, PrioAssumption DEF Prioritised, normal_prio, rt_prio
<1>8. unreverted = {}
  BY DEF PrioInit
<1> QED BY <1>4, <1>6, <1>7, <1>8 DEF PrioInv, PrioTypes, PrioSound, Alive

LEMMA PrioKept == PrioInv /\ [PrioNext]_prioVars => PrioInv'
<1> SUFFICES ASSUME PrioInv, [PrioNext]_prioVars PROVE PrioInv'
  OBVIOUS
<1>1. CASE UNCHANGED prioVars
  BY <1>1 DEF prioVars, PrioInv, PrioTypes, Alive, InItsList, Queued, QueueOf,
             PrioSound, Prioritised, Unboosted, normal_prio
<1>2. CASE PrioNext
  BY <1>2, SetschedulerKeeps, NiceKeeps, SetprioKeeps, SleepKeeps, ForkKeeps DEF PrioNext
<1> QED BY <1>1, <1>2

\* Whatever rewrites a task's priority, policy or nice value, and whether a fork resets
\* them or not, a queued task is in the list of its class and priority (QueuedByPrio).
THEOREM QueuedWhereSought == PrioSpec => []QueuedByPrio
<1>1. PrioInv => QueuedByPrio
  BY DEF PrioInv, QueuedByPrio, InItsList
<1> QED BY PrioStart, PrioKept, <1>1, PTL DEF PrioSpec

\* A boost also lasts exactly as long as its reason (PrioritiesSound), for every task but
\* the child of a SCHED_FIFO task with sched_reset_on_fork, until its policy is set or
\* somebody waits for it: that child has a normal policy and its parent's priority.
THEOREM BoostsAsLongAsNeeded == PrioSpec => []PrioritiesSound
<1>1. PrioInv => PrioritiesSound
  <2> SUFFICES ASSUME PrioInv PROVE PrioritiesSound
    OBVIOUS
  <2>1. QueuedByPrio
    BY DEF PrioInv, QueuedByPrio, InItsList
  <2>2. ASSUME NEW r \in Alive
        PROVE  /\ rt_prio(top[r]) => proc[r].prio <= top[r]
               /\ r \notin unreverted => Justified(r)
    <3>1. CASE r \in unreverted
      BY <3>1, PrioAssumption DEF PrioInv, PrioSound, Unboosted, rt_prio
    <3>2. CASE r \notin unreverted
      BY <3>2 DEF PrioInv, PrioSound, Prioritised, Justified, Inherited
    <3> QED BY <3>1, <3>2
  <2> QED BY <2>1, <2>2 DEF PrioritiesSound, BoostKept
<1> QED BY PrioStart, PrioKept, <1>1, PTL DEF PrioSpec

-----------------------------------------------------------------------------
(* What CPUs ask of each other *)

Listed == IF wake_list = NoTask THEN {} ELSE ListFrom(wake_list)
Taken == IF grabbed = NoTask THEN {} ELSE ListFrom(grabbed)
Pushers == {s \in Senders : sender[s].at = "push"}
Pushing == {sender[s].t : s \in Pushers}

TargetRecords == [at : {"schedule", "run", "stop tick", "idle", "poll", "look", "wait"},
                  curr : WokenTasks \cup {IdleTask}, polling : BOOLEAN, seen : Nat]
SenderRecords == [at : {"none", "push", "send", "set", "test"},
                  t : WokenTasks \cup {IdleTask, NoTask}, next : WokenTasks \cup {NoTask}]

CrossTypes ==
  /\ target \in TargetRecords
  /\ need_resched \in [WokenTasks \cup {IdleTask} -> BOOLEAN]
  /\ wake_list \in WokenTasks \cup {NoTask} /\ grabbed \in WokenTasks \cup {NoTask}
  /\ wake_entry \in [WokenTasks -> WokenTasks \cup {NoTask}]
  /\ hrtick \in [armed : BOOLEAN, expires : Nat, csd_pending : BOOLEAN, asked : Nat]
  /\ wheel \in Nat /\ asks \in Nat
  /\ sender \in [Senders -> SenderRecords]
  /\ \A s \in Senders : /\ sender[s].at = "push" => sender[s].t \in WokenTasks
                        /\ sender[s].at \in {"set", "test"} => sender[s].t # NoTask

\* Every woken task is in one place, and with one waker at most.
InOnePlace ==
  /\ sleeping \cup runnable \cup Listed \cup Taken \cup Pushing = WokenTasks
  /\ sleeping \cap runnable = {} /\ (sleeping \cup runnable) \cap Listed = {}
  /\ (sleeping \cup runnable \cup Listed) \cap Taken = {}
  /\ (sleeping \cup runnable \cup Listed \cup Taken) \cap Pushing = {}
  /\ \A s, r \in Pushers : sender[s].t = sender[r].t => s = r

Raised == "reschedule" \in ipi
ListAnnounced == wake_list # NoTask => Raised \/ \E s \in Senders : sender[s].at = "send"

\* What is asked of an idle target is in need_resched, and before it waits it has
\* stopped polling and has looked at need_resched.
IdleIsTold ==
  /\ IF target.at = "run" THEN target.curr \in runnable ELSE target.curr = IdleTask
  /\ target.polling => target.at \in {"idle", "poll"}
  /\ grabbed # NoTask => target.at \in {"run", "idle", "poll"}
  /\ target.curr = IdleTask /\ runnable # {} => need_resched[IdleTask]
  /\ target.at = "wait" /\ need_resched[IdleTask] => Raised \/ Sending
  /\ target.at \in {"idle", "poll", "look", "wait"} /\ target.seen # wheel =>
       need_resched[IdleTask] \/ \E s \in Senders : sender[s].at = "set" /\ sender[s].t = IdleTask

CallPending ==
  /\ hrtick.csd_pending <=> "call" \in ipi
  /\ hrtick.asked # 0 => hrtick.asked = hrtick.expires /\ (hrtick.armed \/ hrtick.csd_pending)

CrossInv == CrossTypes /\ InOnePlace /\ ListAnnounced /\ IdleIsTold /\ CallPending

-----------------------------------------------------------------------------
\* ListFrom() of any next pointers: the fewest tasks that are closed under them.
Follows(e, t, S) == t \in S /\ \A u \in S : e[u] \in S \cup {NoTask}
ListIn(e, t) == {u \in WokenTasks : \A S \in SUBSET WokenTasks : Follows(e, t, S) => u \in S}

LEMMA ListFacts ==
  ASSUME NEW e \in [WokenTasks -> WokenTasks \cup {NoTask}], NEW t \in WokenTasks
  PROVE  /\ ListIn(e, t) \in SUBSET WokenTasks
         /\ Follows(e, t, ListIn(e, t))
         /\ \A S \in SUBSET WokenTasks : Follows(e, t, S) => ListIn(e, t) \subseteq S
<1>1. ASSUME NEW u \in ListIn(e, t), e[u] # NoTask PROVE e[u] \in ListIn(e, t)
  <2>1. u \in WokenTasks /\ e[u] \in WokenTasks
    BY <1>1 DEF ListIn
  <2>2. ASSUME NEW S \in SUBSET WokenTasks, Follows(e, t, S) PROVE e[u] \in S
    <3>1. u \in S
      BY <2>2 DEF ListIn
    <3> QED BY <3>1, <2>2, <1>1 DEF Follows
  <2> QED BY <2>1, <2>2 DEF ListIn
<1>2. t \in ListIn(e, t)
  BY DEF ListIn, Follows
<1>3. Follows(e, t, ListIn(e, t))
  BY <1>1, <1>2 DEF Follows
<1> QED BY <1>3 DEF ListIn

\* A task that is put in front of a list is in no other one, and the lists stay.
PutInFront(e, t, n, d) ==
  /\ e \in [WokenTasks -> WokenTasks \cup {NoTask}] /\ d \in [WokenTasks -> WokenTasks \cup {NoTask}]
  /\ t \in WokenTasks /\ n \in WokenTasks \cup {NoTask}
  /\ d[t] = n /\ \A u \in WokenTasks \ {t} : d[u] = e[u]

LEMMA ListPushed ==
  ASSUME NEW e, NEW t, NEW n, NEW d, PutInFront(e, t, n, d)
  PROVE  /\ \A u \in WokenTasks : t \notin ListIn(e, u) => ListIn(d, u) = ListIn(e, u)
         /\ n = NoTask => ListIn(d, t) = {t}
         /\ n # NoTask /\ t \notin ListIn(e, n) => ListIn(d, t) = {t} \cup ListIn(e, n)
<1>1. /\ e \in [WokenTasks -> WokenTasks \cup {NoTask}] /\ d \in [WokenTasks -> WokenTasks \cup {NoTask}]
      /\ t \in WokenTasks /\ n \in WokenTasks \cup {NoTask}
      /\ d[t] = n /\ \A u \in WokenTasks \ {t} : d[u] = e[u]
  BY DEF PutInFront
<1>2. ASSUME NEW u \in WokenTasks, t \notin ListIn(e, u) PROVE ListIn(d, u) = ListIn(e, u)
  <2>1. ListIn(e, u) \in SUBSET WokenTasks /\ Follows(e, u, ListIn(e, u))
    BY <1>1, ListFacts
  <2>2. Follows(d, u, ListIn(e, u))
    BY <2>1, <1>1, <1>2 DEF Follows
  <2>3. ListIn(d, u) \subseteq ListIn(e, u) /\ ListIn(d, u) \in SUBSET WokenTasks
        /\ Follows(d, u, ListIn(d, u))
    BY <2>1, <2>2, <1>1, ListFacts
  <2>4. Follows(e, u, ListIn(d, u))
    BY <2>3, <1>1, <1>2 DEF Follows
  <2>5. ListIn(e, u) \subseteq ListIn(d, u)
    BY <1>1, <2>3, <2>4, ListFacts
  <2> QED BY <2>3, <2>5
<1>3. ListIn(d, t) \in SUBSET WokenTasks /\ Follows(d, t, ListIn(d, t))
  BY <1>1, ListFacts
<1>4. ASSUME n = NoTask PROVE ListIn(d, t) = {t}
  <2>1. {t} \in SUBSET WokenTasks /\ Follows(d, t, {t})
    BY <1>1, <1>4 DEF Follows
  <2>2. ListIn(d, t) \subseteq {t}
    BY <2>1, <1>1, ListFacts
  <2> QED BY <2>2, <1>3 DEF Follows
<1>5. ASSUME n # NoTask, t \notin ListIn(e, n) PROVE ListIn(d, t) = {t} \cup ListIn(e, n)
  <2>1. n \in WokenTasks /\ ListIn(d, n) = ListIn(e, n)
    BY <1>1, <1>5, <1>2
  <2>2. ListIn(d, n) \in SUBSET WokenTasks /\ Follows(d, n, ListIn(d, n))
    BY <2>1, <1>1, ListFacts
  <2>3. Follows(d, t, {t} \cup ListIn(d, n)) /\ {t} \cup ListIn(d, n) \in SUBSET WokenTasks
    BY <2>2, <1>1 DEF Follows
  <2>4. ListIn(d, t) \subseteq {t} \cup ListIn(d, n)
    BY <2>3, <1>1, ListFacts
  <2>5. t \in ListIn(d, t) /\ Follows(d, n, ListIn(d, t))
    BY <1>3, <1>1, <1>5 DEF Follows
  <2>6. ListIn(d, n) \subseteq ListIn(d, t)
    BY <2>5, <2>1, <1>3, <1>1, ListFacts
  <2> QED BY <2>1, <2>4, <2>5, <2>6
<1> QED BY <1>2, <1>4, <1>5

LEMMA ListsIn ==
  /\ Listed = IF wake_list = NoTask THEN {} ELSE ListIn(wake_entry, wake_list)
  /\ Taken = IF grabbed = NoTask THEN {} ELSE ListIn(wake_entry, grabbed)
  /\ Listed' = IF wake_list' = NoTask THEN {} ELSE ListIn(wake_entry', wake_list')
  /\ Taken' = IF grabbed' = NoTask THEN {} ELSE ListIn(wake_entry', grabbed')
  /\ \A t \in WokenTasks : ListFrom(t) = ListIn(wake_entry, t)
BY DEF Listed, Taken, ListFrom, ListIn, Follows

\* Where one sender goes on, and the others stay.
LEMMA SenderMoves ==
  ASSUME CrossTypes, NEW s \in Senders, NEW next \in SenderRecords, Goto(s, next),
         next.at = "push" => next.t \in WokenTasks,
         next.at \in {"set", "test"} => next.t # NoTask
  PROVE  /\ sender' \in [Senders -> SenderRecords]
         /\ \A z \in Senders : /\ sender'[z].at = "push" => sender'[z].t \in WokenTasks
                               /\ sender'[z].at \in {"set", "test"} => sender'[z].t # NoTask
         /\ sender'[s] = next /\ \A z \in Senders \ {s} : sender'[z] = sender[z]
<1>1. sender \in [Senders -> SenderRecords]
  BY DEF CrossTypes
<1>2. sender'[s] = next /\ (\A z \in Senders \ {s} : sender'[z] = sender[z])
      /\ sender' \in [Senders -> SenderRecords]
  BY <1>1 DEF Goto
<1> QED BY <1>2 DEF CrossTypes

LEMMA CrossStart == CrossInit => CrossInv
<1> SUFFICES ASSUME CrossInit PROVE CrossInv
  OBVIOUS
<1>1. Pushers = {} /\ Pushing = {} /\ Listed = {} /\ Taken = {}
  BY DEF Pushers, Pushing, Listed, Taken, CrossInit, Done
<1>2. CrossTypes
  BY CrossAssumption DEF CrossTypes, SenderRecords, TargetRecords, CrossInit, Done, NoTask, IdleTask
<1>3. InOnePlace
  BY <1>1 DEF InOnePlace, CrossInit
<1>4. ListAnnounced /\ IdleIsTold /\ CallPending
  BY DEF ListAnnounced, IdleIsTold, CallPending, CrossInit
<1> QED BY <1>2, <1>3, <1>4 DEF CrossInv

\* A step of nobody who pushes, and that leaves tasks and lists alone.
LEMMA PlacesSame ==
  ASSUME InOnePlace, UNCHANGED wakeVars,
         \A s \in Senders : sender'[s] = sender[s] \/ (sender[s].at # "push" /\ sender'[s].at # "push")
  PROVE  InOnePlace' /\ Pushing' = Pushing /\ Listed' = Listed /\ Taken' = Taken
<1>1. Listed' = Listed /\ Taken' = Taken /\ sleeping' = sleeping /\ runnable' = runnable
  BY ListsIn DEF wakeVars
<1>2. Pushers' = Pushers /\ \A s \in Pushers : sender'[s] = sender[s]
  BY DEF Pushers
<1>3. Pushing' = Pushing
  BY <1>2 DEF Pushing
<1> HIDE DEF Pushing, Listed, Taken
<1> QED BY <1>1, <1>2, <1>3 DEF InOnePlace

-----------------------------------------------------------------------------
LEMMA CrossWakeKeeps ==
  ASSUME CrossInv, NEW s \in Senders, NEW t \in WokenTasks, Wake(s, t)
  PROVE  CrossInv'
<1> USE DEF CrossInv
<1> PICK r : r = [at |-> "push", t |-> t, next |-> wake_list]
  OBVIOUS
<1>1. /\ Goto(s, r) /\ sender[s].at = "none" /\ t \in sleeping /\ sleeping' = sleeping \ {t} /\ asks' = asks + 1
      /\ UNCHANGED <<target, need_resched, ipi, runnable, wake_list, wake_entry, grabbed, hrtick, wheel>>
  BY DEF Wake, Ask, Done
<1>m. /\ sender' \in [Senders -> SenderRecords]
      /\ \A z \in Senders : /\ sender'[z].at = "push" => sender'[z].t \in WokenTasks
                            /\ sender'[z].at \in {"set", "test"} => sender'[z].t # NoTask
      /\ sender'[s] = r /\ \A z \in Senders \ {s} : sender'[z] = sender[z]
  <2>1. r \in SenderRecords /\ r.at = "push" /\ r.t = t
    BY DEF CrossTypes, SenderRecords
  <2> QED BY <1>1, <2>1, SenderMoves
<1>a. asks' \in Nat
  <2>1. asks \in Nat
    BY DEF CrossTypes
  <2>2. asks' = asks + 1
    BY <1>1
  <2> HIDE DEF CrossInv
  <2> QED BY <2>1, <2>2
<1>2. CrossTypes'
  BY <1>1, <1>a, <1>m DEF CrossTypes
<1>3. /\ Pushers' = Pushers \cup {s} /\ s \notin Pushers
      /\ sender'[s].t = t /\ \A z \in Pushers : sender'[z] = sender[z]
  BY <1>1, <1>m DEF Pushers
<1>4. Pushing' = Pushing \cup {t}
  <2>1. Pushing' = {sender'[z].t : z \in Pushers'}
    BY DEF Pushing
  <2>2. \A x : x \in Pushing' <=> \E z \in Pushers \cup {s} : x = sender'[z].t
    BY <1>3, <2>1
  <2>3. \A x : x \in Pushing <=> \E z \in Pushers : x = sender[z].t
    BY DEF Pushing
  <2>4. \A x : (\E z \in Pushers \cup {s} : x = sender'[z].t) <=> (\E z \in Pushers : x = sender[z].t) \/ x = t
    BY <1>3
  <2>5. \A x : x \in Pushing' <=> x \in Pushing \/ x = t
    BY <2>2, <2>3, <2>4
  <2> QED BY <2>5
<1>5. Listed' = Listed /\ Taken' = Taken
  BY <1>1, ListsIn
<1>6. \A z \in Pushers : sender[z].t # t
  BY <1>1 DEF InOnePlace, Pushing
<1>7. InOnePlace'
  BY <1>1, <1>3, <1>4, <1>5, <1>6 DEF InOnePlace
<1>8. \A z \in Senders : sender[z].at \in {"send", "set", "test"} => sender'[z] = sender[z]
  BY <1>1, <1>m
<1>9. ListAnnounced' /\ IdleIsTold' /\ CallPending'
  BY <1>1, <1>8 DEF ListAnnounced, IdleIsTold, CallPending, Sending, Raised
<1> QED BY <1>2, <1>7, <1>9

LEMMA CrossPushKeeps ==
  ASSUME CrossInv, NEW s \in Senders, ttwu_queue_remote(s)
  PROVE  CrossInv'
<1> USE DEF CrossInv
<1> PICK t : t = sender[s].t
  OBVIOUS
<1> PICK n : n = sender[s].next
  OBVIOUS
<1>1. /\ sender[s].at = "push" /\ t \in WokenTasks /\ n \in WokenTasks \cup {NoTask}
      /\ s \in Pushers /\ t \in Pushing
      /\ UNCHANGED <<target, need_resched, ipi, sleeping, runnable, grabbed, hrtick, wheel, asks>>
  <2>1. sender[s].at = "push"
        /\ UNCHANGED <<target, need_resched, ipi, sleeping, runnable, grabbed, hrtick, wheel, asks>>
    BY DEF ttwu_queue_remote
  <2>2. t \in WokenTasks /\ n \in WokenTasks \cup {NoTask}
    BY <2>1 DEF CrossTypes, SenderRecords
  <2>3. s \in Pushers
    BY <2>1 DEF Pushers
  <2> QED BY <2>1, <2>2, <2>3 DEF Pushing
<1>2. CASE wake_list # n
  <2> PICK r : r = [at |-> "push", t |-> t, next |-> wake_list]
    OBVIOUS
  <2>1. Goto(s, r) /\ UNCHANGED <<wake_list, wake_entry>>
    <3>1. sender[s] = [at |-> "push", t |-> t, next |-> n]
      BY <1>1 DEF CrossTypes, SenderRecords
    <3>2. [sender[s] EXCEPT !.next = wake_list] = r
      BY <3>1
    <3> QED BY <1>2, <3>2 DEF ttwu_queue_remote
  <2>m. /\ sender' \in [Senders -> SenderRecords]
        /\ \A z \in Senders : /\ sender'[z].at = "push" => sender'[z].t \in WokenTasks
                              /\ sender'[z].at \in {"set", "test"} => sender'[z].t # NoTask
        /\ sender'[s] = r /\ \A z \in Senders \ {s} : sender'[z] = sender[z]
    <3>1. r \in SenderRecords /\ r.at = "push" /\ r.t = t
      BY <1>1 DEF CrossTypes, SenderRecords
    <3> QED BY <1>1, <2>1, <3>1, SenderMoves
  <2>2. CrossTypes'
    BY <1>1, <2>1, <2>m DEF CrossTypes
  <2>3. \A z \in Senders : sender'[z].at = sender[z].at /\ sender'[z].t = sender[z].t
    BY <1>1, <2>m
  <2>4. Pushers' = Pushers
    BY <2>3 DEF Pushers
  <2>5. Pushing' = Pushing /\ Pushers \subseteq Senders
    BY <2>3, <2>4 DEF Pushing, Pushers
  <2>6. Listed' = Listed /\ Taken' = Taken
    BY <1>1, <2>1, ListsIn
  <2>7. InOnePlace'
    BY <1>1, <2>3, <2>4, <2>5, <2>6 DEF InOnePlace
  <2>8. ListAnnounced' /\ IdleIsTold' /\ CallPending'
    BY <1>1, <2>1, <2>3 DEF ListAnnounced, IdleIsTold, CallPending, Sending, Raised
  <2> QED BY <2>2, <2>7, <2>8
<1>3. CASE wake_list = n
  <2> PICK at : at = IF n = NoTask THEN "send" ELSE "none"
    OBVIOUS
  <2> PICK r : r = [at |-> at, t |-> NoTask, next |-> NoTask]
    OBVIOUS
  <2>1. /\ Goto(s, r) /\ wake_list' = t /\ wake_entry' = [wake_entry EXCEPT ![t] = n]
        /\ at \in {"send", "none"}
    <3>1. [Done EXCEPT !.at = "send"] = [at |-> "send", t |-> NoTask, next |-> NoTask]
      BY DEF Done
    <3> QED BY <1>3, <3>1 DEF ttwu_queue_remote, RaisesIpi, Done
  <2>m. /\ sender' \in [Senders -> SenderRecords]
        /\ \A z \in Senders : /\ sender'[z].at = "push" => sender'[z].t \in WokenTasks
                              /\ sender'[z].at \in {"set", "test"} => sender'[z].t # NoTask
        /\ sender'[s] = r /\ \A z \in Senders \ {s} : sender'[z] = sender[z]
    <3>1. r \in SenderRecords /\ r.at \in {"send", "none"}
      BY <2>1 DEF SenderRecords
    <3> QED BY <2>1, <3>1, SenderMoves
  <2>2. CrossTypes'
    BY <1>1, <2>1, <2>m DEF CrossTypes
  <2>3. Pushers' = Pushers \ {s} /\ \A z \in Pushers \ {s} : sender'[z] = sender[z]
    BY <2>1, <2>m DEF Pushers
  <2>4. Pushing' = Pushing \ {t}
    <3>1. Pushing' = {sender[z].t : z \in Pushers \ {s}}
      BY <2>3 DEF Pushing
    <3>2. \A z \in Pushers : sender[z].t = t => z = s
      BY <1>1 DEF InOnePlace
    <3> QED BY <3>1, <3>2, <1>1 DEF Pushing
  <2>5. t \notin Listed /\ t \notin Taken /\ t # NoTask
    BY <1>1, CrossAssumption DEF InOnePlace
  <2>6. Listed' = {t} \cup Listed /\ Taken' = Taken
    <3> PICK e : e = wake_entry
      OBVIOUS
    <3> PICK d : d = wake_entry'
      OBVIOUS
    <3>1. PutInFront(e, t, n, d)
      BY <1>1, <2>1 DEF CrossTypes, PutInFront
    <3>2. /\ \A u \in WokenTasks : t \notin ListIn(e, u) => ListIn(d, u) = ListIn(e, u)
          /\ n = NoTask => ListIn(d, t) = {t}
          /\ n # NoTask /\ t \notin ListIn(e, n) => ListIn(d, t) = {t} \cup ListIn(e, n)
      BY <3>1, ListPushed
    <3>3. Listed = IF n = NoTask THEN {} ELSE ListIn(e, n)
      BY <1>3, ListsIn
    <3>4. Listed' = ListIn(d, t)
      BY <2>1, <2>5, ListsIn
    <3>5. Taken = IF grabbed = NoTask THEN {} ELSE ListIn(e, grabbed)
      BY ListsIn
    <3>6. Taken' = IF grabbed = NoTask THEN {} ELSE ListIn(d, grabbed)
      BY <1>1, ListsIn
    <3>7. grabbed \in WokenTasks \cup {NoTask}
      BY DEF CrossTypes
    <3> QED BY <3>2, <3>3, <3>4, <3>5, <3>6, <3>7, <2>5
  <2>7. InOnePlace'
    BY <1>1, <2>3, <2>4, <2>5, <2>6 DEF InOnePlace
  <2>8. \A z \in Senders : sender[z].at \in {"send", "set", "test"} => sender'[z] = sender[z]
    BY <1>1, <2>m
  <2>9. ListAnnounced'
    <3>1. CASE n = NoTask
      <4>1. sender'[s].at = "send"
        <5>1. r.at = "send"
          BY <3>1
        <5> QED BY <5>1, <2>m
      <4> QED BY <4>1 DEF ListAnnounced
    <3>2. CASE n # NoTask
      BY <3>2, <1>1, <1>3, <2>8 DEF ListAnnounced, Raised
    <3> QED BY <3>1, <3>2
  <2>10. IdleIsTold' /\ CallPending'
    BY <1>1, <2>8 DEF IdleIsTold, CallPending, Sending, Raised
  <2> QED BY <2>2, <2>7, <2>9, <2>10
<1> QED BY <1>2, <1>3

LEMMA SendKeeps ==
  ASSUME CrossInv, NEW s \in Senders, smp_send_reschedule(s)
  PROVE  CrossInv'
<1> USE DEF CrossInv
<1> PICK r : r = Done
  OBVIOUS
<1>1. /\ Goto(s, r) /\ sender[s].at = "send" /\ ipi' = ipi \cup {"reschedule"} /\ UNCHANGED wakeVars
      /\ UNCHANGED <<target, need_resched, runnable, wake_list, wake_entry, grabbed, hrtick, wheel, asks>>
  BY DEF smp_send_reschedule, wakeVars
<1>2. /\ sender' \in [Senders -> SenderRecords]
      /\ \A z \in Senders : /\ sender'[z].at = "push" => sender'[z].t \in WokenTasks
                            /\ sender'[z].at \in {"set", "test"} => sender'[z].t # NoTask
      /\ sender'[s] = r /\ \A z \in Senders \ {s} : sender'[z] = sender[z]
  <2>1. r \in SenderRecords /\ r.at = "none"
    BY DEF Done, SenderRecords
  <2> QED BY <1>1, <2>1, SenderMoves
<1>3. CrossTypes'
  BY <1>1, <1>2 DEF CrossTypes
<1>4. \A z \in Senders : sender'[z] = sender[z] \/ (sender[z].at = "send" /\ sender'[z].at = "none")
  <2>1. r.at = "none"
    BY DEF Done
  <2> QED BY <1>1, <1>2, <2>1
<1>5. InOnePlace'
  BY <1>1, <1>4, PlacesSame
<1>6. Raised' /\ ListAnnounced'
  BY <1>1 DEF Raised, ListAnnounced
<1>7. IdleIsTold'
  BY <1>1, <1>4, <1>6 DEF IdleIsTold
<1>8. CallPending'
  BY <1>1 DEF CallPending
<1> QED BY <1>3, <1>5, <1>6, <1>7, <1>8

\* NEED_RESCHED is set before polling is tested, and who polls does not wait.
LEMMA SetKeeps ==
  ASSUME CrossInv, NEW s \in Senders, SetNeedResched(s)
  PROVE  CrossInv'
<1> USE DEF CrossInv
<1> PICK t : t = sender[s].t
  OBVIOUS
<1>1. UNCHANGED wakeVars
      /\ UNCHANGED <<target, ipi, runnable, wake_list, wake_entry, grabbed, hrtick, wheel, asks>>
  BY DEF SetNeedResched, wakeVars
<1>2. CASE /\ sender[s].at = "set" /\ need_resched' = [need_resched EXCEPT ![t] = TRUE]
           /\ Goto(s, [sender[s] EXCEPT !.at = "test"])
  <2> PICK r : r = [sender[s] EXCEPT !.at = "test"]
    OBVIOUS
  <2>1. sender[s] \in SenderRecords /\ t \in WokenTasks \cup {IdleTask}
    BY <1>2 DEF CrossTypes, SenderRecords
  <2>2. r \in SenderRecords /\ r.at = "test" /\ r.t = t /\ t # NoTask
    BY <2>1, CrossAssumption DEF SenderRecords, NoTask, IdleTask
  <2>3. /\ sender' \in [Senders -> SenderRecords]
        /\ \A z \in Senders : /\ sender'[z].at = "push" => sender'[z].t \in WokenTasks
                              /\ sender'[z].at \in {"set", "test"} => sender'[z].t # NoTask
        /\ sender'[s] = r /\ \A z \in Senders \ {s} : sender'[z] = sender[z]
    BY <1>2, <2>2, SenderMoves
  <2>4. /\ need_resched' \in [WokenTasks \cup {IdleTask} -> BOOLEAN]
        /\ (need_resched[IdleTask] => need_resched'[IdleTask])
        /\ (t = IdleTask => need_resched'[IdleTask])
    BY <1>2, <2>1 DEF CrossTypes
  <2>5. CrossTypes'
    BY <1>1, <2>3, <2>4 DEF CrossTypes
  <2>6. InOnePlace'
    BY <1>1, <1>2, <2>2, <2>3, PlacesSame
  <2>7. ListAnnounced' /\ CallPending'
    BY <1>1, <1>2, <2>3 DEF ListAnnounced, CallPending, Raised
  <2>8. Sending'
    BY <2>2, <2>3 DEF Sending
  <2>9. IdleIsTold'
    BY <1>1, <1>2, <2>3, <2>4, <2>8 DEF IdleIsTold, Raised
  <2> QED BY <2>5, <2>6, <2>7, <2>9
<1>3. CASE sender[s].at = "test" /\ UNCHANGED need_resched
           /\ IF Polling(s) THEN Goto(s, Done) ELSE Goto(s, [Done EXCEPT !.at = "send"])
  <2> PICK at : at = IF Polling(s) THEN "none" ELSE "send"
    BY <1>3
  <2> PICK r : r = [at |-> at, t |-> NoTask, next |-> NoTask]
    OBVIOUS
  <2>1. Goto(s, r) /\ r \in SenderRecords /\ r.at = at /\ at \in {"none", "send"}
    <3>1. [Done EXCEPT !.at = "send"] = [at |-> "send", t |-> NoTask, next |-> NoTask]
      BY DEF Done
    <3>2. Goto(s, r)
      BY <1>3, <3>1 DEF Done
    <3> QED BY <3>2 DEF SenderRecords
  <2>2. /\ sender' \in [Senders -> SenderRecords]
        /\ \A z \in Senders : /\ sender'[z].at = "push" => sender'[z].t \in WokenTasks
                              /\ sender'[z].at \in {"set", "test"} => sender'[z].t # NoTask
        /\ sender'[s] = r /\ \A z \in Senders \ {s} : sender'[z] = sender[z]
    BY <2>1, SenderMoves
  <2>3. CrossTypes'
    BY <1>1, <1>3, <2>2 DEF CrossTypes
  <2>4. InOnePlace'
    BY <1>1, <1>3, <2>1, <2>2, PlacesSame
  <2>5. ListAnnounced' /\ CallPending'
    BY <1>1, <1>3, <2>2 DEF ListAnnounced, CallPending, Raised
  <2>6. Sending' \/ target.at # "wait"
    BY <2>1, <2>2 DEF Sending, Polling, IdleIsTold
  <2>7. \A z \in Senders : sender[z].at = "set" => sender'[z] = sender[z]
    BY <1>3, <2>2
  <2>8. IdleIsTold'
    BY <1>1, <1>3, <2>6, <2>7 DEF IdleIsTold, Raised
  <2> QED BY <2>3, <2>4, <2>5, <2>8
<1> QED BY <1>2, <1>3 DEF SetNeedResched, SetFirst

LEMMA StartsWith ==
  ASSUME NEW u
  PROVE  [Done EXCEPT !.at = "set", !.t = u] = [at |-> "set", t |-> u, next |-> NoTask]
<1>1. [Done EXCEPT !.at = "set"] = [at |-> "set", t |-> NoTask, next |-> NoTask]
  BY DEF Done
<1>2. ASSUME NEW d, d = [at |-> "set", t |-> NoTask, next |-> NoTask]
      PROVE  [d EXCEPT !.t = u] = [at |-> "set", t |-> u, next |-> NoTask]
  BY <1>2
<1> QED BY <1>1, <1>2, Zenon

\* Who starts to set need_resched, without a task to push.
LEMMA StartsKeep ==
  ASSUME CrossInv, NEW s \in Senders, resched_task(s) \/ add_timer_on(s)
  PROVE  CrossInv'
<1> USE DEF CrossInv
<1> PICK u : u = target.curr
  OBVIOUS
<1> PICK r : r = [at |-> "set", t |-> u, next |-> NoTask]
  OBVIOUS
<1>1. /\ UNCHANGED wakeVars /\ asks' = asks + 1 /\ sender[s].at = "none"
      /\ UNCHANGED <<target, need_resched, ipi, runnable, wake_list, wake_entry, grabbed, hrtick>>
      /\ wheel' \in {wheel, wheel + 1}
  BY DEF resched_task, add_timer_on, Ask, Done, wakeVars
<1>2. /\ sender' = sender \/ Goto(s, r)
      /\ wheel' # wheel /\ u = IdleTask => Goto(s, r)
  <2>1. [Done EXCEPT !.at = "set", !.t = target.curr] = r
    BY StartsWith
  <2>2. u = IdleTask => [Done EXCEPT !.at = "set", !.t = IdleTask] = r
    BY StartsWith
  <2>3. CASE resched_task(s)
    BY <2>1, <2>3 DEF resched_task
  <2>4. CASE add_timer_on(s)
    BY <2>2, <2>4 DEF add_timer_on
  <2> QED BY <2>3, <2>4
<1>3. r \in SenderRecords /\ r.at = "set" /\ r.t = u /\ u # NoTask
  BY CrossAssumption DEF CrossTypes, TargetRecords, SenderRecords, NoTask, IdleTask
<1>4. /\ sender' \in [Senders -> SenderRecords]
      /\ \A z \in Senders : /\ sender'[z].at = "push" => sender'[z].t \in WokenTasks
                            /\ sender'[z].at \in {"set", "test"} => sender'[z].t # NoTask
      /\ Goto(s, r) => sender'[s] = r
      /\ \A z \in Senders \ {s} : sender'[z] = sender[z]
  <2>1. CASE sender' = sender
    BY <2>1 DEF CrossTypes, Goto
  <2>2. CASE Goto(s, r)
    BY <2>2, <1>3, SenderMoves
  <2> QED BY <1>2, <2>1, <2>2
<1>5. \A z \in Senders : sender'[z] = sender[z] \/ (sender[z].at = "none" /\ sender'[z].at = "set")
  <2>1. CASE sender' = sender
    BY <2>1
  <2>2. CASE Goto(s, r)
    <3>1. sender'[s].at = "set" /\ sender[s].at = "none"
      BY <2>2, <1>1, <1>3, <1>4
    <3> QED BY <3>1, <1>4
  <2> QED BY <1>2, <2>1, <2>2
<1>6. CrossTypes'
  <2>0. wheel \in Nat /\ asks \in Nat
    BY DEF CrossTypes
  <2>1. wheel' \in Nat /\ asks' \in Nat
    <3> HIDE DEF CrossInv
    <3> QED BY <2>0, <1>1
  <2> QED BY <2>1, <1>1, <1>4 DEF CrossTypes
<1>7. InOnePlace'
  BY <1>1, <1>5, PlacesSame
<1>8. ListAnnounced' /\ CallPending' /\ (Sending => Sending')
  BY <1>1, <1>5 DEF ListAnnounced, CallPending, Raised, Sending
<1>9. IdleIsTold'
  <2>1. wheel' # wheel /\ u = IdleTask => \E z \in Senders : sender'[z].at = "set" /\ sender'[z].t = IdleTask
    BY <1>2, <1>3, <1>4
  <2>2. \A z \in Senders : sender[z].at = "set" => sender'[z] = sender[z]
    BY <1>5
  <2> QED BY <1>1, <1>8, <2>1, <2>2 DEF IdleIsTold, Raised
<1> QED BY <1>6, <1>7, <1>8, <1>9

\* A step on the timer or the target's own that leaves tasks, lists and senders alone.
LEMMA NobodyMoves ==
  ASSUME CrossInv, UNCHANGED <<wakeVars, wheel, sender>>, Raised' <=> Raised,
         asks' \in Nat,
         target' \in TargetRecords,
         need_resched' \in [WokenTasks \cup {IdleTask} -> BOOLEAN],
         hrtick' \in [armed : BOOLEAN, expires : Nat, csd_pending : BOOLEAN, asked : Nat]
  PROVE  /\ CrossTypes' /\ InOnePlace' /\ ListAnnounced' /\ (Sending' <=> Sending)
         /\ UNCHANGED <<runnable, grabbed>>
<1> USE DEF CrossInv
<1>1. UNCHANGED <<sleeping, runnable, wake_list, wake_entry, grabbed>>
  BY DEF wakeVars
<1>2. CrossTypes'
  BY <1>1 DEF CrossTypes
<1>3. InOnePlace'
  BY PlacesSame
<1>4. ListAnnounced' /\ (Sending' <=> Sending)
  BY <1>1 DEF ListAnnounced, Sending
<1> QED BY <1>1, <1>2, <1>3, <1>4

LEMMA HrtickKeeps ==
  ASSUME CrossInv, (\E s \in Senders : hrtick_start(s)) \/ StartOwnHrtick
  PROVE  CrossInv'
<1> USE DEF CrossInv
<1> PICK h : h = hrtick
  OBVIOUS
<1> PICK n : n = asks + 1
  OBVIOUS
<1>0. /\ h \in [armed : BOOLEAN, expires : Nat, csd_pending : BOOLEAN, asked : Nat]
      /\ n \in Nat
  <2>1. asks \in Nat
    BY DEF CrossTypes
  <2>2. n \in Nat
    <3> HIDE DEF CrossInv
    <3> QED BY <2>1
  <2> QED BY <2>2 DEF CrossTypes
<1>1. /\ UNCHANGED <<wakeVars, wheel, sender, target, need_resched>> /\ asks' = n
      /\ \/ hrtick' = [h EXCEPT !.expires = n, !.asked = n, !.csd_pending = TRUE]
            /\ ipi' = IF h.csd_pending THEN ipi ELSE ipi \cup {"call"}
         \/ hrtick' = [h EXCEPT !.armed = TRUE, !.expires = n, !.asked = n] /\ ipi' = ipi
  <2>1. CASE \E s \in Senders : hrtick_start(s)
    BY <2>1 DEF hrtick_start, Ask
  <2>2. CASE StartOwnHrtick
    BY <2>2 DEF StartOwnHrtick
  <2> QED BY <2>1, <2>2
<1>2. /\ hrtick' \in [armed : BOOLEAN, expires : Nat, csd_pending : BOOLEAN, asked : Nat]
      /\ hrtick'.asked = n /\ hrtick'.expires = n
      /\ \/ /\ hrtick'.csd_pending = TRUE /\ "call" \in ipi'
         \/ /\ hrtick'.armed = TRUE /\ hrtick'.csd_pending = h.csd_pending /\ ipi' = ipi
  <2>1. CASE hrtick' = [h EXCEPT !.expires = n, !.asked = n, !.csd_pending = TRUE]
             /\ ipi' = IF h.csd_pending THEN ipi ELSE ipi \cup {"call"}
    <3>1. "call" \in ipi'
      BY <2>1 DEF CallPending
    <3>2. hrtick' \in [armed : BOOLEAN, expires : Nat, csd_pending : BOOLEAN, asked : Nat]
          /\ hrtick'.asked = n /\ hrtick'.expires = n /\ hrtick'.csd_pending = TRUE
      <4> HIDE DEF CrossInv
      <4> QED BY <2>1, <1>0
    <3> QED BY <3>1, <3>2
  <2>2. CASE hrtick' = [h EXCEPT !.armed = TRUE, !.expires = n, !.asked = n] /\ ipi' = ipi
    <3> HIDE DEF CrossInv
    <3> QED BY <2>2, <1>0
  <2> QED BY <1>1, <2>1, <2>2
<1>3. Raised' <=> Raised
  BY <1>1 DEF Raised
<1>4. /\ CrossTypes' /\ InOnePlace' /\ ListAnnounced' /\ (Sending' <=> Sending)
      /\ UNCHANGED <<runnable, grabbed>>
  <2>1. target' \in TargetRecords
        /\ need_resched' \in [WokenTasks \cup {IdleTask} -> BOOLEAN]
        /\ asks' \in Nat
    BY <1>0, <1>1 DEF CrossTypes
  <2> QED BY <1>1, <1>2, <1>3, <2>1, NobodyMoves
<1>5. IdleIsTold'
  BY <1>1, <1>3, <1>4 DEF IdleIsTold
<1>6. CallPending'
  BY <1>2 DEF CallPending
<1> QED BY <1>4, <1>5, <1>6

\* The target leaves its wait for an interrupt.
OutOfWait(x) == IF x.at = "wait" THEN [x EXCEPT !.at = "idle"] ELSE x

LEMMA OutOfWaitFields ==
  ASSUME CrossTypes
  PROVE  /\ OutOfWait(target) \in TargetRecords
         /\ OutOfWait(target).curr = target.curr /\ OutOfWait(target).polling = target.polling
         /\ OutOfWait(target).seen = target.seen
         /\ OutOfWait(target).at = IF target.at = "wait" THEN "idle" ELSE target.at
<1> PICK x : x = target
  OBVIOUS
<1>1. x \in TargetRecords
  BY DEF CrossTypes
<1> QED BY <1>1 DEF OutOfWait, TargetRecords

LEMMA IpiKeeps ==
  ASSUME CrossInv, scheduler_ipi
  PROVE  CrossInv'
<1> USE DEF CrossInv
<1>1. /\ InterruptsOn /\ ipi' = ipi \ {"reschedule"} /\ grabbed' = wake_list /\ wake_list' = NoTask
      /\ target' = OutOfWait(target)
      /\ UNCHANGED <<need_resched, sleeping, runnable, wake_entry, hrtick, wheel, sender, asks>>
  BY DEF scheduler_ipi, OutOfWait
<1>2. target' \in TargetRecords
      /\ target'.curr = target.curr /\ target'.polling = target.polling /\ target'.seen = target.seen
      /\ target'.at = IF target.at = "wait" THEN "idle" ELSE target.at
  BY <1>1, OutOfWaitFields
<1>3. CrossTypes'
  BY <1>1, <1>2 DEF CrossTypes
<1>4. /\ Pushers' = Pushers /\ Pushing' = Pushing /\ sender' = sender
      /\ Listed' = {} /\ Taken' = Listed /\ Taken = {}
  BY <1>1, ListsIn DEF Pushers, Pushing, InterruptsOn
<1>5. InOnePlace'
  BY <1>1, <1>4 DEF InOnePlace
<1>6. ListAnnounced' /\ CallPending'
  BY <1>1 DEF ListAnnounced, CallPending
<1>7. IdleIsTold'
  BY <1>1, <1>2 DEF IdleIsTold, InterruptsOn
<1> QED BY <1>3, <1>5, <1>6, <1>7

LEMMA PendingKeeps ==
  ASSUME CrossInv, sched_ttwu_do_pending
  PROVE  CrossInv'
<1> USE DEF CrossInv
<1>1. /\ grabbed # NoTask /\ grabbed' = NoTask /\ runnable' = runnable \cup ListFrom(grabbed)
      /\ UNCHANGED <<target, ipi, sleeping, wake_list, wake_entry, hrtick, wheel, sender, asks>>
  BY DEF sched_ttwu_do_pending
<1>2. /\ need_resched' \in [WokenTasks \cup {IdleTask} -> BOOLEAN]
      /\ need_resched[IdleTask] => need_resched'[IdleTask]
      /\ target.curr = IdleTask => need_resched'[IdleTask]
  <2>1. PICK preempt \in BOOLEAN :
          need_resched' = [need_resched EXCEPT ![target.curr] = @ \/ target.curr = IdleTask \/ preempt]
    BY DEF sched_ttwu_do_pending
  <2>2. target.curr \in WokenTasks \cup {IdleTask}
    BY DEF CrossTypes, TargetRecords
  <2> QED BY <2>1, <2>2 DEF CrossTypes
<1>3. CrossTypes'
  BY <1>1, <1>2 DEF CrossTypes
<1>4. /\ Pushers' = Pushers /\ Pushing' = Pushing /\ sender' = sender
      /\ Listed' = Listed /\ Taken' = {} /\ runnable' = runnable \cup Taken
  BY <1>1, ListsIn DEF Pushers, Pushing, Taken
<1>5. InOnePlace'
  BY <1>1, <1>4 DEF InOnePlace
<1>6. ListAnnounced' /\ CallPending'
  BY <1>1 DEF ListAnnounced, CallPending, Raised
<1>7. IdleIsTold'
  BY <1>1, <1>2 DEF IdleIsTold, Raised, Sending
<1> QED BY <1>3, <1>5, <1>6, <1>7

LEMMA TimerKeeps ==
  ASSUME CrossInv, __hrtick_start \/ HrtickFires
  PROVE  CrossInv'
<1> USE DEF CrossInv
<1> PICK h : h = hrtick
  OBVIOUS
<1>0. h \in [armed : BOOLEAN, expires : Nat, csd_pending : BOOLEAN, asked : Nat]
  BY DEF CrossTypes
<1>1. /\ UNCHANGED <<wakeVars, wheel, sender, asks>> /\ target' = OutOfWait(target)
      /\ target.at \in {"run", "poll", "wait"}
      /\ Raised' <=> Raised
  BY DEF __hrtick_start, HrtickFires, InterruptsOn, Raised, OutOfWait
<1>2. /\ need_resched' \in [WokenTasks \cup {IdleTask} -> BOOLEAN]
      /\ need_resched[IdleTask] => need_resched'[IdleTask]
  <2>1. CASE __hrtick_start
    BY <2>1 DEF __hrtick_start, CrossTypes
  <2>2. CASE HrtickFires
    <3>1. PICK preempt \in BOOLEAN : need_resched' = [need_resched EXCEPT ![target.curr] = @ \/ preempt]
      BY <2>2 DEF HrtickFires
    <3>2. target.curr \in WokenTasks \cup {IdleTask}
      BY DEF CrossTypes, TargetRecords
    <3> QED BY <3>1, <3>2 DEF CrossTypes
  <2> QED BY <2>1, <2>2
<1>3. hrtick' \in [armed : BOOLEAN, expires : Nat, csd_pending : BOOLEAN, asked : Nat] /\ CallPending'
  <2>1. CASE __hrtick_start
    <3>1. hrtick' = [h EXCEPT !.armed = TRUE, !.csd_pending = FALSE] /\ ipi' = ipi \ {"call"}
      BY <2>1 DEF __hrtick_start
    <3>2. /\ hrtick' \in [armed : BOOLEAN, expires : Nat, csd_pending : BOOLEAN, asked : Nat]
          /\ hrtick'.armed = TRUE /\ hrtick'.csd_pending = FALSE
          /\ hrtick'.expires = h.expires /\ hrtick'.asked = h.asked
      <4> HIDE DEF CrossInv
      <4> QED BY <3>1, <1>0
    <3> QED BY <3>1, <3>2 DEF CallPending
  <2>2. CASE HrtickFires
    <3> PICK asked : asked = IF h.asked = h.expires /\ ~h.csd_pending THEN 0 ELSE h.asked
      OBVIOUS
    <3>1. hrtick' = [h EXCEPT !.armed = FALSE, !.asked = asked] /\ ipi' = ipi
      BY <2>2 DEF HrtickFires
    <3>2. asked \in Nat
      <4> HIDE DEF CrossInv
      <4> QED BY <1>0
    <3>3. /\ hrtick' \in [armed : BOOLEAN, expires : Nat, csd_pending : BOOLEAN, asked : Nat]
          /\ hrtick'.armed = FALSE /\ hrtick'.csd_pending = h.csd_pending
          /\ hrtick'.expires = h.expires /\ hrtick'.asked = asked
      <4> HIDE DEF CrossInv
      <4> QED BY <3>1, <3>2, <1>0
    <3> QED BY <3>1, <3>3 DEF CallPending
  <2> QED BY <2>1, <2>2
<1>4. target' \in TargetRecords
      /\ target'.curr = target.curr /\ target'.polling = target.polling /\ target'.seen = target.seen
      /\ target'.at = IF target.at = "wait" THEN "idle" ELSE target.at
  BY <1>1, OutOfWaitFields
<1>5. /\ CrossTypes' /\ InOnePlace' /\ ListAnnounced' /\ (Sending' <=> Sending)
      /\ UNCHANGED <<runnable, grabbed>>
  <2>1. asks' \in Nat
    BY <1>1 DEF CrossTypes
  <2> QED BY <1>1, <1>2, <1>3, <1>4, <2>1, NobodyMoves
<1>6. IdleIsTold'
  BY <1>1, <1>2, <1>4, <1>5 DEF IdleIsTold
<1> QED BY <1>3, <1>5, <1>6

LEMMA ScheduleKeeps ==
  ASSUME CrossInv, Schedule
  PROVE  CrossInv'
<1> USE DEF CrossInv
<1> PICK c : c = target.curr
  OBVIOUS
<1> PICK h : h = hrtick
  OBVIOUS
<1> PICK asked : asked = IF h.csd_pending THEN h.asked ELSE 0
  OBVIOUS
<1>1. /\ UNCHANGED <<ipi, wake_list, wake_entry, grabbed, wheel, sender, asks>> /\ grabbed = NoTask
      /\ hrtick' = [h EXCEPT !.armed = FALSE, !.asked = asked]
      /\ need_resched' = [need_resched EXCEPT ![c] = FALSE]
      /\ target.at \in {"run", "schedule"}
  BY DEF Schedule, Own
<1>2. PICK asleep \in BOOLEAN :
        /\ asleep => target.at = "run"
        /\ sleeping' = IF asleep THEN sleeping \cup {c} ELSE sleeping
        /\ runnable' = IF asleep THEN runnable \ {c} ELSE runnable
  BY DEF Schedule
<1>3. PICK next \in IF runnable' = {} THEN {IdleTask} ELSE runnable' :
        target' = [target EXCEPT !.curr = next, !.at = IF next = IdleTask THEN "stop tick" ELSE "run"]
  BY DEF Schedule
<1>4. /\ target \in TargetRecords /\ c \in WokenTasks \cup {IdleTask}
      /\ h \in [armed : BOOLEAN, expires : Nat, csd_pending : BOOLEAN, asked : Nat]
      /\ need_resched \in [WokenTasks \cup {IdleTask} -> BOOLEAN]
      /\ target.at = "run" => c \in runnable
      /\ target.at # "run" => c = IdleTask
      /\ ~target.polling
  BY <1>1 DEF CrossTypes, TargetRecords, IdleIsTold
<1>5. runnable' \subseteq runnable /\ runnable \subseteq WokenTasks
  BY <1>2 DEF InOnePlace
<1>6. /\ target' \in TargetRecords /\ target'.curr = next /\ target'.polling = target.polling
      /\ target'.at = IF next = IdleTask THEN "stop tick" ELSE "run"
  <2>1. next \in WokenTasks \cup {IdleTask}
    BY <1>3, <1>5
  <2> PICK x : x = target
    OBVIOUS
  <2> PICK at : at = IF next = IdleTask THEN "stop tick" ELSE "run"
    OBVIOUS
  <2>2. target' = [x EXCEPT !.curr = next, !.at = at] /\ x \in TargetRecords
    BY <1>3, <1>4
  <2>3. at \in {"stop tick", "run"}
    OBVIOUS
  <2>4. target' \in TargetRecords /\ target'.curr = next /\ target'.polling = x.polling /\ target'.at = at
    <3> HIDE DEF CrossInv
    <3> QED BY <2>1, <2>2, <2>3 DEF TargetRecords
  <2> QED BY <2>4
<1>7. /\ hrtick' \in [armed : BOOLEAN, expires : Nat, csd_pending : BOOLEAN, asked : Nat]
      /\ hrtick'.csd_pending = h.csd_pending /\ hrtick'.expires = h.expires /\ hrtick'.asked = asked
  <2> HIDE DEF CrossInv
  <2>1. asked \in Nat
    BY <1>4
  <2> QED BY <1>1, <1>4, <2>1
<1>8. CrossTypes'
  <2>1. need_resched' \in [WokenTasks \cup {IdleTask} -> BOOLEAN]
    BY <1>1, <1>4
  <2> QED BY <2>1, <1>1, <1>6, <1>7 DEF CrossTypes
<1>9. CallPending'
  BY <1>1, <1>7 DEF CallPending
<1>10. ListAnnounced'
  BY <1>1 DEF ListAnnounced, Raised
<1>11. InOnePlace'
  <2>1. Pushers' = Pushers /\ Pushing' = Pushing /\ Listed' = Listed /\ Taken' = Taken
    BY <1>1, ListsIn DEF Pushers, Pushing
  <2>2. asleep => c \in runnable
    BY <1>2, <1>4
  <2> QED BY <1>1, <1>2, <2>1, <2>2 DEF InOnePlace
<1>12. IdleIsTold'
  <2>1. next = IdleTask => runnable' = {}
    BY <1>3, <1>5, CrossAssumption
  <2>2. next # IdleTask => next \in runnable'
    BY <1>3
  <2> QED BY <1>1, <1>4, <1>6, <2>1, <2>2 DEF IdleIsTold
<1> QED BY <1>8, <1>9, <1>10, <1>11, <1>12

\* The idle loop stops polling before it looks, and looks before it waits.
LEMMA IdleKeeps ==
  ASSUME CrossInv, StopTick \/ IdleLoop
  PROVE  CrossInv'
<1> USE DEF CrossInv
<1> PICK x : x = target
  OBVIOUS
<1>1. UNCHANGED <<wakeVars, wheel, sender, asks, ipi, need_resched, hrtick>>
  BY DEF StopTick, IdleLoop, Own, wakeVars
<1>2. x \in TargetRecords /\ wheel \in Nat
  BY DEF CrossTypes
<1>3. /\ target' \in TargetRecords /\ target'.curr = x.curr
      /\ \/ /\ x.at = "stop tick" /\ target'.at = "idle" /\ target'.polling = TRUE /\ target'.seen = wheel
         \/ /\ x.at = "idle" /\ target'.at = "poll" /\ target'.seen = x.seen
         \/ /\ x.at = "idle" /\ target'.at = "look" /\ target'.polling = FALSE /\ target'.seen = x.seen
         \/ /\ x.at = "poll" /\ target'.at = "schedule" /\ target'.polling = FALSE
         \/ /\ x.at = "look" /\ target'.at = "schedule" /\ target'.polling = x.polling
         \/ /\ x.at = "look" /\ target'.at = "wait" /\ target'.polling = x.polling
            /\ target'.seen = x.seen /\ ~need_resched[IdleTask]
  <2>1. CASE StopTick
    <3>1. x.at = "stop tick" /\ target' = [x EXCEPT !.at = "idle", !.polling = TRUE, !.seen = wheel]
      BY <2>1 DEF StopTick
    <3> HIDE DEF CrossInv
    <3> QED BY <3>1, <1>2 DEF TargetRecords
  <2>2. CASE IdleLoop
    <3>1. CASE x.at = "idle" /\ \E at \in {"poll", "look"} :
                 target' = [x EXCEPT !.at = at, !.polling = (at = "poll")]
      <4>1. CASE target' = [x EXCEPT !.at = "poll", !.polling = TRUE]
        BY <4>1, <3>1, <1>2 DEF TargetRecords
      <4>2. CASE target' = [x EXCEPT !.at = "look", !.polling = FALSE]
        BY <4>2, <3>1, <1>2 DEF TargetRecords
      <4> QED BY <3>1, <4>1, <4>2
    <3>2. CASE x.at = "poll" /\ target' = [x EXCEPT !.at = "schedule", !.polling = FALSE]
      BY <3>2, <1>2 DEF TargetRecords
    <3>3. CASE x.at = "look" /\ target' = [x EXCEPT !.at = IF need_resched[IdleTask] THEN "schedule" ELSE "wait"]
      BY <3>3, <1>2 DEF TargetRecords
    <3> QED BY <2>2, <3>1, <3>2, <3>3 DEF IdleLoop
  <2> QED BY <2>1, <2>2
<1>4. /\ CrossTypes' /\ InOnePlace' /\ ListAnnounced' /\ (Sending' <=> Sending)
      /\ UNCHANGED <<runnable, grabbed>>
  <2>1. asks' \in Nat /\ need_resched' \in [WokenTasks \cup {IdleTask} -> BOOLEAN]
        /\ hrtick' \in [armed : BOOLEAN, expires : Nat, csd_pending : BOOLEAN, asked : Nat]
        /\ (Raised' <=> Raised)
    BY <1>1 DEF CrossTypes, Raised
  <2> QED BY <1>1, <1>3, <2>1, NobodyMoves
<1>5. IdleIsTold'
  <2>1. grabbed = NoTask
    BY DEF StopTick, IdleLoop, Own
  <2> QED BY <1>1, <1>3, <1>4, <2>1 DEF IdleIsTold
<1>6. CallPending'
  BY <1>1 DEF CallPending
<1> QED BY <1>4, <1>5, <1>6

LEMMA CrossKept == CrossInv /\ [CrossNext]_crossVars => CrossInv'
<1> SUFFICES ASSUME CrossInv, [CrossNext]_crossVars PROVE CrossInv'
  OBVIOUS
<1>1. CASE UNCHANGED crossVars
  <2>1. UNCHANGED <<wakeVars, wheel, sender, asks, ipi, need_resched, hrtick, target>>
    BY <1>1 DEF crossVars
  <2>2. CrossTypes' /\ InOnePlace' /\ ListAnnounced' /\ (Sending' <=> Sending)
        /\ UNCHANGED <<runnable, grabbed>>
    <3>1. asks' \in Nat /\ need_resched' \in [WokenTasks \cup {IdleTask} -> BOOLEAN]
          /\ hrtick' \in [armed : BOOLEAN, expires : Nat, csd_pending : BOOLEAN, asked : Nat]
          /\ target' \in TargetRecords /\ (Raised' <=> Raised)
      BY <2>1 DEF CrossInv, CrossTypes, Raised
    <3> QED BY <2>1, <3>1, NobodyMoves
  <2>3. IdleIsTold' /\ CallPending'
    BY <2>1, <2>2 DEF CrossInv, IdleIsTold, CallPending, Raised
  <2> QED BY <2>2, <2>3 DEF CrossInv
<1>2. CASE CrossNext
  BY <1>2, CrossWakeKeeps, CrossPushKeeps, SendKeeps, SetKeeps, StartsKeep, HrtickKeeps, IpiKeeps,
     PendingKeeps, TimerKeeps, ScheduleKeeps, IdleKeeps DEF CrossNext
<1> QED BY <1>1, <1>2

\* The parts of a finite set are as many as its members.
LEMMA PartsCount ==
  ASSUME NEW A, NEW B, IsFiniteSet(A \cup B), A \cap B = {}
  PROVE  Cardinality(A \cup B) = Cardinality(A) + Cardinality(B) /\ IsFiniteSet(A)
<1>1. IsFiniteSet(A) /\ IsFiniteSet(B)
  BY FS_Subset
<1>2. Cardinality(A \cap B) = 0
  BY FS_EmptySet
<1>3. Cardinality(A) \in Nat /\ Cardinality(B) \in Nat
  BY <1>1, FS_CardinalityType
<1>4. Cardinality(A \cup B) = Cardinality(A) + Cardinality(B) - Cardinality(A \cap B)
  BY <1>1, FS_Union
<1> QED BY <1>1, <1>2, <1>3, <1>4

LEMMA PlacesCount == CrossInv => WokenOnce
<1> SUFFICES ASSUME CrossInv PROVE WokenOnce
  OBVIOUS
<1> USE DEF CrossInv
<1>1. Pushing = {sender[s].t : s \in {u \in Senders : sender[u].at = "push"}}
  BY DEF Pushing, Pushers
<1>2. Listed # {} => "reschedule" \in ipi \/ \E s \in Senders : sender[s].at = "send"
  BY DEF Listed, ListAnnounced, Raised
<1>3. sleeping \cup runnable \cup Listed \cup Taken \cup Pushing = WokenTasks
  BY DEF InOnePlace
<1>4. Cardinality(sleeping) + Cardinality(runnable) + Cardinality(Listed)
        + Cardinality(Taken) + Cardinality(Pushing) = Cardinality(WokenTasks)
  <2> DEFINE two == sleeping \cup runnable
             three == two \cup Listed
             four == three \cup Taken
  <2>1. IsFiniteSet(four \cup Pushing) /\ four \cup Pushing = WokenTasks
    BY <1>3, CrossAssumption
  <2>2. sleeping \cap runnable = {} /\ two \cap Listed = {} /\ three \cap Taken = {} /\ four \cap Pushing = {}
    BY DEF InOnePlace
  <2>3. Cardinality(WokenTasks) = Cardinality(four) + Cardinality(Pushing) /\ IsFiniteSet(four)
    <3> HIDE DEF four, CrossInv
    <3> QED BY <2>1, <2>2, PartsCount
  <2>4. Cardinality(four) = Cardinality(three) + Cardinality(Taken) /\ IsFiniteSet(three)
    <3> HIDE DEF three, CrossInv
    <3> QED BY <2>2, <2>3, PartsCount
  <2>5. Cardinality(three) = Cardinality(two) + Cardinality(Listed) /\ IsFiniteSet(two)
    <3> HIDE DEF two, CrossInv
    <3> QED BY <2>2, <2>4, PartsCount
  <2>6. Cardinality(two) = Cardinality(sleeping) + Cardinality(runnable)
    BY <2>2, <2>5, PartsCount
  <2> HIDE DEF two, three, four, CrossInv
  <2> QED BY <2>3, <2>4, <2>5, <2>6
<1> QED BY <1>1, <1>2, <1>3, <1>4 DEF WokenOnce, Listed, Taken

\* Whatever CPUs ask of another one, at the same time and while it goes to sleep, reaches it:
\* it does not wait with need_resched set, with a task to run or with a timer it has not
\* looked at, unless an interrupt is raised or about to be; every woken task is in one place,
\* and on the list only with an interrupt on its way; and an hrtick that was asked for comes
\* (resched_task(), wake_up_idle_cpu(), ttwu_queue_remote(), scheduler_ipi(), hrtick_start()).
THEOREM NothingAskedGetsLost == CrossSpec => []NothingAskedIsLost
<1>1. CrossInv => NothingAskedIsLost
  <2>1. CrossInv => NotAsleepNeeded
    BY DEF CrossInv, NotAsleepNeeded, IdleIsTold, Raised, Sending
  <2>2. CrossInv => HrtickComes
    BY DEF CrossInv, HrtickComes, CallPending
  <2> QED BY <2>1, <2>2, PlacesCount DEF NothingAskedIsLost
<1> QED BY <1>1, CrossStart, CrossKept, PTL DEF CrossSpec

=============================================================================
