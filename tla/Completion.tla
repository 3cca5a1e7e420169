---------------------------- MODULE Completion -----------------------------
(***************************************************************************)
(* Completions and the exclusive wait queue under them: complete(),        *)
(* complete_all(), wait_for_completion() and its interruptible, killable   *)
(* and timed variants, try_wait_for_completion()                           *)
(* (Project2/tergra/kernel/sched.c, lines 4534-4845; the goldfish kernel   *)
(* has the same code in kernel/sched/core.c).                              *)
(*                                                                         *)
(* What runs under x->wait.lock is one step.  A waiter that was woken      *)
(* still has to get the lock back, and in between others may complete,     *)
(* wait, time out or be signalled.  Timers, signals and the wake-up of a   *)
(* task are external.                                                      *)
(***************************************************************************)
EXTENDS Integers, KernelList, FiniteSets

CONSTANTS
  Tasks,           \* callers of the wait_for_completion() family
  Interruptible,   \* those that wait in TASK_INTERRUPTIBLE,
  Killable,        \* those that wait in TASK_KILLABLE, the others do neither
  Timed,           \* those that wait with a timeout
  UintRange        \* number of values of an unsigned int

ASSUME TasksFinite == IsFiniteSet(Tasks)

ASSUME CompletionAssumption ==
  /\ Interruptible \subseteq Tasks /\ Killable \subseteq Tasks /\ Timed \subseteq Tasks
  /\ Interruptible \cap Killable = {}
  /\ UintRange \in Nat /\ UintRange > 3

VARIABLES
  done,       \* x->done
  outcome,    \* what the last call of a task returned, "none" while it waits
  task_list,  \* x->wait.task_list, all entries exclusive
  state,      \* task state: "running" or "sleeping"
  expired,    \* the timer of schedule_timeout() has fired
  pending     \* signals: "none", "signal" or "kill" (a fatal one)

vars == <<done, outcome, task_list, state, expired, pending>>

Half == (UintRange - 1) \div 2     \* UINT_MAX/2

Waiting(t) == \E i \in DOMAIN task_list : task_list[i] = t

TypeOK ==
  /\ done \in 0 .. UintRange - 1
  /\ outcome \in [Tasks -> {"none", "done", "timeout", "signal", "busy"}]
  /\ task_list \in Seq(Tasks)
  /\ state \in [Tasks -> {"running", "sleeping"}]
  /\ expired \in [Tasks -> BOOLEAN]
  /\ pending \in [Tasks -> {"none", "signal", "kill"}]

Init ==
  /\ done = 0 /\ task_list = << >>
  /\ outcome = [t \in Tasks |-> "none"]
  /\ state = [t \in Tasks |-> "running"] /\ expired = [t \in Tasks |-> FALSE]
  /\ pending = [t \in Tasks |-> "none"]

-----------------------------------------------------------------------------
(* __wake_up_common() *)

\* Mutant: a task that is up already counts too.
WokenFirst(nr) ==
  {task_list[i] : i \in {i \in DOMAIN task_list : nr = 0 \/ i <= nr}}

\* try_to_wake_up() succeeds for a task that sleeps.  Each success counts, as
\* all entries are exclusive, and the walk ends after nr of them; with nr = 0
\* it never ends early.
Woken(nr) ==
  {task_list[i] : i \in {i \in DOMAIN task_list :
     /\ state[task_list[i]] = "sleeping"
     /\ nr = 0 \/ Cardinality({j \in 1 .. i - 1 : state[task_list[j]] = "sleeping"}) < nr}}

wake_up_common(nr) ==
  state' = [t \in Tasks |-> IF t \in Woken(nr) THEN "running" ELSE state[t]]

complete ==
  /\ done' = (done + 1) % UintRange
  /\ wake_up_common(1)
  /\ UNCHANGED <<outcome, task_list, expired, pending>>

complete_all ==
  /\ done' = (done + Half) % UintRange
  /\ wake_up_common(0)
  /\ UNCHANGED <<outcome, task_list, expired, pending>>

-----------------------------------------------------------------------------
(* do_wait_for_common() *)

signal_pending_state(t) ==
  \/ t \in Interruptible /\ pending[t] # "none"
  \/ t \in Killable /\ pending[t] = "kill"

Return(t, r, list) == outcome' = [outcome EXCEPT ![t] = r] /\ task_list' = list

\* x->done--; return timeout ?: 1.
Consume(t, list) == done > 0 /\ done' = done - 1 /\ Return(t, "done", list) /\ UNCHANGED state

\* The top of the loop: give up on a signal, or sleep; out and in are the
\* queue without and with t.
SleepOrGiveUp(t, out, in) ==
  /\ done = 0 /\ UNCHANGED done
  /\ IF signal_pending_state(t)
     THEN Return(t, "signal", out) /\ UNCHANGED state
     ELSE Return(t, "none", in) /\ state' = [state EXCEPT ![t] = "sleeping"]

\* From the call to the first schedule_timeout().
wait_for_common(t) ==
  /\ ~Waiting(t)
  /\ Consume(t, task_list) \/ SleepOrGiveUp(t, task_list, Append(task_list, t))
  /\ expired' = [expired EXCEPT ![t] = FALSE]
  /\ UNCHANGED pending

\* Mutant: the waiter is queued again on every turn of the loop.
RelockRequeue(t) ==
  /\ Waiting(t) /\ state[t] = "running"
  /\ LET out == list_del(task_list, t)
     IN  \/ Consume(t, out)
         \/ expired[t] /\ done = 0 /\ Return(t, "timeout", out) /\ UNCHANGED <<done, state>>
         \/ ~expired[t] /\ SleepOrGiveUp(t, out, Append(task_list, t))
  /\ UNCHANGED <<expired, pending>>

\* Mutant: a waiter that timed out does not look at the counter.
RelockTimeout(t) ==
  /\ Waiting(t) /\ state[t] = "running"
  /\ LET out == list_del(task_list, t)
     IN  \/ ~expired[t] /\ Consume(t, out)
         \/ expired[t] /\ Return(t, "timeout", out) /\ UNCHANGED <<done, state>>
         \/ ~expired[t] /\ SleepOrGiveUp(t, out, task_list)
  /\ UNCHANGED <<expired, pending>>

\* schedule_timeout() returned and the lock is taken again.  A waiter that
\* timed out still takes what is there.
Relock(t) ==
  /\ Waiting(t) /\ state[t] = "running"
  /\ LET out == list_del(task_list, t)
     IN  \/ Consume(t, out)
         \/ expired[t] /\ done = 0 /\ Return(t, "timeout", out) /\ UNCHANGED <<done, state>>
         \/ ~expired[t] /\ SleepOrGiveUp(t, out, task_list)
  /\ UNCHANGED <<expired, pending>>

try_wait_for_completion(t) ==
  /\ ~Waiting(t)
  /\ IF done = 0 THEN Return(t, "busy", task_list) /\ UNCHANGED done
     ELSE done' = done - 1 /\ Return(t, "done", task_list)
  /\ UNCHANGED <<state, expired, pending>>

-----------------------------------------------------------------------------
(* The environment *)

\* The timer wakes its task; it may also fire when the task is up already.
Timer(t) ==
  /\ t \in Timed /\ Waiting(t) /\ ~expired[t]
  /\ expired' = [expired EXCEPT ![t] = TRUE]
  /\ state' = [state EXCEPT ![t] = "running"]
  /\ UNCHANGED <<done, outcome, task_list, pending>>

\* A signal wakes a task that waits in a state it interrupts.
Signal(t, s) ==
  /\ pending[t] # "kill" /\ pending[t] # s
  /\ pending' = [pending EXCEPT ![t] = s]
  /\ state' = [state EXCEPT ![t] =
       IF t \in Interruptible \/ (t \in Killable /\ s = "kill") THEN "running" ELSE @]
  /\ UNCHANGED <<done, outcome, task_list, expired>>

\* A task that waits for nothing handles its signal.
Handle(t) ==
  /\ ~Waiting(t) /\ pending[t] = "signal"
  /\ pending' = [pending EXCEPT ![t] = "none"]
  /\ UNCHANGED <<done, outcome, task_list, state, expired>>

-----------------------------------------------------------------------------
Next ==
  \/ complete \/ complete_all
  \/ \E t \in Tasks :
       \/ wait_for_common(t) \/ Relock(t) \/ try_wait_for_completion(t)
       \/ Timer(t) \/ Handle(t) \/ \E s \in {"signal", "kill"} : Signal(t, s)

Spec == Init /\ [][Next]_vars

-----------------------------------------------------------------------------
(* Properties *)

\* Waiters on their way back to the lock.
Awake == {t \in Tasks : Waiting(t) /\ state[t] = "running"}

\* No signal is stuck: at least as many waiters are on their way as there are
\* signals to take, or all of them.  A wake-up that went to a waiter which
\* times out, is interrupted or finds the counter taken by another is not lost
\* for those behind it.
EnoughAwake ==
  done <= Cardinality(Awake) \/ \A t \in Tasks : Waiting(t) => state[t] = "running"

\* Each waiter is queued once, whatever wakes it, and a task off the queue
\* does not sleep.
QueueExact ==
  /\ \A i, j \in DOMAIN task_list : task_list[i] = task_list[j] => i = j
  /\ \A t \in Tasks : state[t] = "sleeping" => Waiting(t)

Counter == INSTANCE CountingCompletion WITH done <- done, outcome <- outcome, Half <- Half

\* A completion is a counter (CountingCompletion): no wait fails that could
\* have been satisfied, and none returns with success unpaid.
IsCounter == Counter!Spec

=============================================================================
