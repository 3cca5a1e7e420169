------------------------------ MODULE CrossCpu ------------------------------
(***************************************************************************)
(* What CPUs of the tegra kernel ask of another one without waiting for it *)
(* (kernel/sched.c): to reschedule, to activate tasks they have pushed on  *)
(* its wake_list, to start its hrtick timer, and to look at a timer they   *)
(* have added to its timer wheel.  The CPU asked, "target" below, runs a   *)
(* task or its idle loop, which polls need_resched or waits for an         *)
(* interrupt.  Memory accesses are sequentially consistent, as the         *)
(* barriers in the code make those that matter.                            *)
(***************************************************************************)
EXTENDS Integers, FiniteSets

CONSTANTS
  Senders,       \* the CPUs that ask
  WokenTasks,    \* tasks of the target's run queue, or asleep
  MaxAsks        \* bound on what the senders ask for

VARIABLES
  target,        \* at, curr, polling, and the timers the idle loop has seen
  need_resched,  \* TIF_NEED_RESCHED of the idle task and of the others
  ipi,           \* the interrupts raised and not yet handled
  sleeping, runnable, \* tasks
  wake_list, wake_entry, \* the list's head, and the next of each task
  grabbed,       \* the list that scheduler_ipi() has taken
  hrtick,        \* armed, expires, csd_pending, and the expiry last asked for
  wheel,         \* how many timers were added
  sender,        \* where each sender is
  rqLock, baseLock, \* who holds the target's rq->lock and its timer base lock
  asks

wakeVars == <<sleeping, runnable, wake_list, wake_entry, grabbed>>
crossVars == <<target, need_resched, ipi, wakeVars, hrtick, wheel, sender, rqLock, baseLock, asks>>

NoTask == "NULL"
Nobody == "nobody"
IdleTask == "idle"
Done == [at |-> "none", t |-> NoTask, next |-> NoTask]

ASSUME CrossAssumption ==
  IsFiniteSet(WokenTasks) /\ IdleTask \notin WokenTasks /\ NoTask \notin WokenTasks

CrossInit ==
  /\ target = [at |-> "schedule", curr |-> IdleTask, polling |-> FALSE, seen |-> 0]
  /\ need_resched = [t \in WokenTasks \union {IdleTask} |-> FALSE]
  /\ ipi = {}
  /\ sleeping = WokenTasks /\ runnable = {} /\ wake_list = NoTask /\ grabbed = NoTask
  /\ wake_entry = [t \in WokenTasks |-> NoTask]
  /\ hrtick = [armed |-> FALSE, expires |-> 0, csd_pending |-> FALSE, asked |-> 0]
  /\ wheel = 0
  /\ sender = [s \in Senders |-> Done]
  /\ rqLock = Nobody /\ baseLock = Nobody /\ asks = 0

-----------------------------------------------------------------------------
(* The senders *)

Ask(s) == sender[s] = Done /\ asks < MaxAsks /\ asks' = asks + 1
Goto(s, next) == sender' = [sender EXCEPT ![s] = next]

\* try_to_wake_up() has chosen the target: ttwu_queue_remote() reads the list
Wake(s, t) ==
  /\ Ask(s) /\ t \in sleeping /\ sleeping' = sleeping \ {t}
  /\ Goto(s, [at |-> "push", t |-> t, next |-> wake_list])
  /\ UNCHANGED <<target, need_resched, ipi, runnable, wake_list, wake_entry, grabbed, hrtick,
                 wheel, rqLock, baseLock>>

\* Only who pushes on an empty list raises the interrupt
RaisesIpi(s, next) == next = NoTask

\* p->wake_entry = next, and cmpxchg()
ttwu_queue_remote(s) ==
  LET t == sender[s].t next == sender[s].next
  IN  /\ sender[s].at = "push"
      /\ IF wake_list = next
         THEN /\ wake_list' = t /\ wake_entry' = [wake_entry EXCEPT ![t] = next]
              /\ Goto(s, IF RaisesIpi(s, next) THEN [Done EXCEPT !.at = "send"] ELSE Done)
         ELSE /\ Goto(s, [sender[s] EXCEPT !.next = wake_list])
              /\ UNCHANGED <<wake_list, wake_entry>>
      /\ UNCHANGED <<target, need_resched, ipi, sleeping, runnable, grabbed, hrtick, wheel,
                     rqLock, baseLock, asks>>

Release(s) ==
  /\ rqLock' = IF rqLock = s THEN Nobody ELSE rqLock
  /\ baseLock' = IF baseLock = s THEN Nobody ELSE baseLock

smp_send_reschedule(s) ==
  /\ sender[s].at = "send" /\ ipi' = ipi \union {"reschedule"}
  /\ Goto(s, Done) /\ Release(s)
  /\ UNCHANGED <<target, need_resched, wakeVars, hrtick, wheel, asks>>

Polling(s) == target.polling /\ sender[s].t = IdleTask

\* Mutant: polling is tested before NEED_RESCHED is visible.
TestFirst(s) ==
  \/ /\ sender[s].at = "set" /\ UNCHANGED <<need_resched, rqLock, baseLock>>
     /\ Goto(s, [sender[s] EXCEPT !.at = "test", !.next = IF Polling(s) THEN @ ELSE IdleTask])
  \/ /\ sender[s].at = "test" /\ need_resched' = [need_resched EXCEPT ![sender[s].t] = TRUE]
     /\ IF sender[s].next = NoTask THEN Goto(s, Done) /\ Release(s)
        ELSE Goto(s, [Done EXCEPT !.at = "send"]) /\ UNCHANGED <<rqLock, baseLock>>

\* NEED_RESCHED is visible before polling is tested
SetFirst(s) ==
  \/ /\ sender[s].at = "set" /\ need_resched' = [need_resched EXCEPT ![sender[s].t] = TRUE]
     /\ Goto(s, [sender[s] EXCEPT !.at = "test"]) /\ UNCHANGED <<rqLock, baseLock>>
  \/ /\ sender[s].at = "test" /\ UNCHANGED need_resched
     /\ IF Polling(s) THEN Goto(s, Done) /\ Release(s)
        ELSE Goto(s, [Done EXCEPT !.at = "send"]) /\ UNCHANGED <<rqLock, baseLock>>

SetNeedResched(s) ==
  SetFirst(s) /\ UNCHANGED <<target, ipi, wakeVars, hrtick, wheel, asks>>

\* resched_task(rq->curr) under rq->lock, and resched_cpu(), which only tries the lock
resched_task(s) ==
  /\ Ask(s) /\ rqLock = Nobody /\ ~need_resched[target.curr]
  /\ rqLock' = s /\ Goto(s, [Done EXCEPT !.at = "set", !.t = target.curr])
  /\ UNCHANGED <<target, need_resched, ipi, wakeVars, hrtick, wheel, baseLock>>

\* add_timer_on() under the base lock, and wake_up_idle_cpu()
add_timer_on(s) ==
  /\ Ask(s) /\ baseLock = Nobody /\ wheel' = wheel + 1
  /\ IF target.curr = IdleTask
     THEN baseLock' = s /\ Goto(s, [Done EXCEPT !.at = "set", !.t = IdleTask])
     ELSE UNCHANGED <<baseLock, sender>>
  /\ UNCHANGED <<target, need_resched, ipi, wakeVars, hrtick, rqLock>>

\* hrtick_start() under rq->lock
hrtick_start(s) ==
  /\ Ask(s) /\ rqLock = Nobody
  /\ hrtick' = [hrtick EXCEPT !.expires = asks + 1, !.asked = asks + 1, !.csd_pending = TRUE]
  /\ ipi' = IF hrtick.csd_pending THEN ipi ELSE ipi \union {"call"}
  /\ UNCHANGED <<target, need_resched, wakeVars, wheel, sender, rqLock, baseLock>>

-----------------------------------------------------------------------------
(* The target's interrupts *)

InterruptsOn == target.at \in {"run", "poll", "wait"} /\ grabbed = NoTask

\* scheduler_ipi(): the list is taken
scheduler_ipi ==
  /\ InterruptsOn /\ "reschedule" \in ipi /\ ipi' = ipi \ {"reschedule"}
  /\ grabbed' = wake_list /\ wake_list' = NoTask
  /\ target' = IF target.at = "wait" THEN [target EXCEPT !.at = "idle"] ELSE target
  /\ UNCHANGED <<need_resched, sleeping, runnable, wake_entry, hrtick, wheel, sender, rqLock,
                 baseLock, asks>>

\* the tasks from t on: the fewest that have the next of each of them
ListFrom(t) ==
  LET Follows(S) == t \in S /\ \A u \in S : wake_entry[u] \in S \union {NoTask}
  IN  {u \in WokenTasks : \A S \in SUBSET WokenTasks : Follows(S) => u \in S}

\* ttwu_do_activate() of each task, and check_preempt_curr()
sched_ttwu_do_pending ==
  /\ grabbed # NoTask /\ rqLock = Nobody
  /\ runnable' = runnable \union ListFrom(grabbed) /\ grabbed' = NoTask
  /\ \E preempt \in BOOLEAN :
       need_resched' = [need_resched EXCEPT ![target.curr] = @ \/ target.curr = IdleTask \/ preempt]
  /\ UNCHANGED <<target, ipi, sleeping, wake_list, wake_entry, hrtick, wheel, sender, rqLock,
                 baseLock, asks>>

__hrtick_start ==
  /\ InterruptsOn /\ "call" \in ipi /\ rqLock = Nobody /\ ipi' = ipi \ {"call"}
  /\ hrtick' = [hrtick EXCEPT !.armed = TRUE, !.csd_pending = FALSE]
  /\ target' = IF target.at = "wait" THEN [target EXCEPT !.at = "idle"] ELSE target
  /\ UNCHANGED <<need_resched, wakeVars, wheel, sender, rqLock, baseLock, asks>>

\* hrtick(): the timer is not restarted
HrtickFires ==
  /\ InterruptsOn /\ hrtick.armed /\ rqLock = Nobody
  /\ hrtick' = [hrtick EXCEPT !.armed = FALSE, !.asked = IF @ = hrtick.expires /\ ~hrtick.csd_pending THEN 0 ELSE @]
  /\ \E preempt \in BOOLEAN :
       need_resched' = [need_resched EXCEPT ![target.curr] = @ \/ preempt]
  /\ target' = IF target.at = "wait" THEN [target EXCEPT !.at = "idle"] ELSE target
  /\ UNCHANGED <<ipi, wakeVars, wheel, sender, rqLock, baseLock, asks>>

-----------------------------------------------------------------------------
(* The target's own steps *)

Own == grabbed = NoTask /\ UNCHANGED <<ipi, wake_list, wake_entry, grabbed, wheel, sender, rqLock, baseLock, asks>>

\* hrtick_start() on the target itself, from schedule() or a wake-up
StartOwnHrtick ==
  /\ target.at = "run" /\ grabbed = NoTask /\ rqLock = Nobody
  /\ asks < MaxAsks /\ asks' = asks + 1
  /\ hrtick' = [hrtick EXCEPT !.armed = TRUE, !.expires = asks + 1, !.asked = asks + 1]
  /\ UNCHANGED <<target, need_resched, ipi, wakeVars, wheel, sender, rqLock, baseLock>>

\* schedule(): hrtick_clear(), and need_resched is cleared; what was current
\* sleeps, or stays runnable
Schedule ==
  /\ target.at \in {"run", "schedule"} /\ rqLock = Nobody /\ Own
  /\ hrtick' = [hrtick EXCEPT !.armed = FALSE, !.asked = IF hrtick.csd_pending THEN @ ELSE 0]
  /\ \E sleeps \in BOOLEAN :
       /\ sleeps => target.at = "run"
       /\ sleeping' = IF sleeps THEN sleeping \union {target.curr} ELSE sleeping
       /\ runnable' = IF sleeps THEN runnable \ {target.curr} ELSE runnable
  /\ need_resched' = [need_resched EXCEPT ![target.curr] = FALSE]
  /\ \E next \in IF runnable' = {} THEN {IdleTask} ELSE runnable' :
       target' = [target EXCEPT !.curr = next, !.at = IF next = IdleTask THEN "stop tick" ELSE "run"]

\* tick_nohz_stop_sched_tick() looks at the timer wheel
StopTick ==
  /\ target.at = "stop tick" /\ baseLock = Nobody /\ Own
  /\ target' = [target EXCEPT !.at = "idle", !.polling = TRUE, !.seen = wheel]
  /\ UNCHANGED <<need_resched, sleeping, runnable, hrtick>>

\* The idle loop: it polls, or stops polling, looks once more and waits
IdleLoop ==
  /\ Own /\ UNCHANGED <<need_resched, sleeping, runnable, hrtick>>
  /\ \/ /\ target.at = "idle" /\ \E at \in {"poll", "look"} :
             target' = [target EXCEPT !.at = at, !.polling = (at = "poll")]
     \/ /\ target.at = "poll" /\ need_resched[IdleTask]
        /\ target' = [target EXCEPT !.at = "schedule", !.polling = FALSE]
     \/ /\ target.at = "look"
        /\ target' = [target EXCEPT !.at = IF need_resched[IdleTask] THEN "schedule" ELSE "wait"]

CrossNext ==
  \/ \E s \in Senders : \/ ttwu_queue_remote(s) \/ smp_send_reschedule(s) \/ SetNeedResched(s)
                        \/ resched_task(s) \/ add_timer_on(s) \/ hrtick_start(s)
                        \/ \E t \in WokenTasks : Wake(s, t)
  \/ scheduler_ipi \/ sched_ttwu_do_pending \/ __hrtick_start \/ HrtickFires
  \/ StartOwnHrtick \/ Schedule \/ StopTick \/ IdleLoop

CrossSpec == CrossInit /\ [][CrossNext]_crossVars

-----------------------------------------------------------------------------
(* Properties *)

Sending == \E s \in Senders : sender[s].at \in {"send", "test", "set"}

\* The target does not wait for an interrupt with need_resched set, with tasks that
\* can run, or with a timer it has not seen, unless the interrupt is raised or a
\* sender is on the way to raise it (resched_task(), wake_up_idle_cpu()).
NotAsleepNeeded ==
  target.at = "wait" /\ "reschedule" \notin ipi /\ ~Sending /\ grabbed = NoTask
    => ~need_resched[IdleTask] /\ runnable = {} /\ target.seen = wheel

\* A task that is woken is in one place: with its waker, on the wake_list or what was
\* taken of it, or runnable; and tasks are never left on the list without an
\* interrupt (ttwu_queue_remote(), scheduler_ipi()).
WokenOnce ==
  LET listed == IF wake_list = NoTask THEN {} ELSE ListFrom(wake_list)
      taken == IF grabbed = NoTask THEN {} ELSE ListFrom(grabbed)
      pushing == {sender[s].t : s \in {u \in Senders : sender[u].at = "push"}}
  IN  /\ sleeping \union runnable \union listed \union taken \union pushing = WokenTasks
      /\ Cardinality(sleeping) + Cardinality(runnable) + Cardinality(listed)
           + Cardinality(taken) + Cardinality(pushing) = Cardinality(WokenTasks)
      /\ listed # {} => "reschedule" \in ipi \/ \E s \in Senders : sender[s].at = "send"

\* An hrtick that was asked for, and neither fired nor cleared since, will come: the
\* timer is armed, or the call that arms it is on its way (hrtick_csd_pending).
HrtickComes == hrtick.asked # 0 => hrtick.armed \/ "call" \in ipi

\* Nothing that a CPU asks of another is lost: no reschedule, no woken task, no timer.
NothingAskedIsLost == NotAsleepNeeded /\ WokenOnce /\ HrtickComes
=============================================================================
