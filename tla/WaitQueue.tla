----------------------------- MODULE WaitQueue ------------------------------
(***************************************************************************)
(* A wait queue of the tegra kernel (kernel/sched.c) with both kinds of    *)
(* waiters: those of sleep_on() and its variants, whose entries are not    *)
(* exclusive and stand in front, and exclusive ones that queue behind them *)
(* as do_wait_for_common() does.  An entry is on its task's stack.  A wake-*)
(* up scans the queue entry by entry under the queue's lock, while signals *)
(* and timers wake sleepers without it.                                    *)
(***************************************************************************)
EXTENDS Integers, Sequences, FiniteSets, KernelList

CONSTANTS
  Sleepers,      \* tasks that call sleep_on()
  Exclusives,    \* tasks that wait exclusively
  Wakers,        \* tasks that call __wake_up()
  WakeCounts,    \* the nr_exclusive they ask for: a set of numbers, 0 meaning all
  MaxWaitCalls   \* bound on the calls that wait

ASSUME WaitQueueAssumption == "nobody" \notin Wakers /\ WakeCounts \subseteq Nat

Waiters == Sleepers \union Exclusives

VARIABLES
  onQueue,       \* at, entry (it is on the stack), exclusive, state
  wait_list,     \* q->task_list
  qlock,         \* who holds q->lock
  scan,          \* the holder's place in __wake_up_common(), and the exclusive tasks it woke
  sleeps

waitQueueVars == <<onQueue, wait_list, qlock, scan, sleeps>>

NoScan == [at |-> "none", curr |-> "NULL", rest |-> <<>>, mode |-> {}, nr_exclusive |-> 0, asked |-> 0, woken |-> 0]
NotWaiting == [at |-> "out", entry |-> FALSE, exclusive |-> FALSE, state |-> "running"]
TASK_NORMAL == {"interruptible", "uninterruptible"}

WaitQueueInit ==
  /\ onQueue = [t \in Waiters |-> NotWaiting]
  /\ wait_list = <<>> /\ qlock = "nobody" /\ scan = NoScan /\ sleeps = 0

Enter == sleeps < MaxWaitCalls /\ sleeps' = sleeps + 1

-----------------------------------------------------------------------------
(* sleep_on_common() *)

\* interruptible_sleep_on() and sleep_on(), with or without a timeout: the state is set first
sleep_on(t, state) ==
  /\ t \in Sleepers /\ onQueue[t].at = "out" /\ Enter
  /\ onQueue' = [onQueue EXCEPT ![t] = [@ EXCEPT !.at = "add", !.entry = TRUE, !.state = state]]
  /\ UNCHANGED <<wait_list, qlock, scan>>

AddEntry(t) ==
  /\ onQueue[t].at = "add" /\ t \in Sleepers /\ qlock = "nobody"
  /\ wait_list' = <<t>> \o wait_list
  /\ onQueue' = [onQueue EXCEPT ![t].at = "schedule"]
  /\ UNCHANGED <<qlock, scan, sleeps>>

\* do_wait_for_common(): the entry and the state, under the lock
wait_exclusive(t) ==
  /\ t \in Exclusives /\ onQueue[t].at = "out" /\ qlock = "nobody" /\ Enter
  /\ wait_list' = Append(wait_list, t)
  /\ onQueue' = [onQueue EXCEPT ![t] = [@ EXCEPT !.at = "schedule", !.entry = TRUE, !.exclusive = TRUE,
                                              !.state = "uninterruptible"]]
  /\ UNCHANGED <<qlock, scan>>

\* schedule_timeout() returns to a task that was woken, or that never slept
Resume(t) ==
  /\ onQueue[t].at = "schedule" /\ onQueue[t].state = "running"
  /\ onQueue' = [onQueue EXCEPT ![t].at = "remove"]
  /\ UNCHANGED <<wait_list, qlock, scan, sleeps>>

RemoveEntry(t) ==
  /\ onQueue[t].at = "remove" /\ qlock = "nobody"
  /\ wait_list' = list_del(wait_list, t)
  /\ onQueue' = [onQueue EXCEPT ![t] = NotWaiting]
  /\ UNCHANGED <<qlock, scan, sleeps>>

\* the exclusive waiter's loop: what it waits for is gone again
WaitAgain(t) ==
  /\ onQueue[t].at = "remove" /\ t \in Exclusives /\ qlock = "nobody" /\ Enter
  /\ onQueue' = [onQueue EXCEPT ![t].at = "schedule", ![t].state = "uninterruptible"]
  /\ UNCHANGED <<wait_list, qlock, scan>>

\* process_timeout(), or a signal for an interruptible sleeper
WokenOtherwise(t) ==
  /\ onQueue[t].at \in {"add", "schedule"} /\ onQueue[t].state # "running"
  /\ onQueue' = [onQueue EXCEPT ![t].state = "running"]
  /\ UNCHANGED <<wait_list, qlock, scan, sleeps>>

-----------------------------------------------------------------------------
(* __wake_up() *)

__wake_up(w, mode, nr) ==
  /\ qlock = "nobody" /\ wait_list # <<>> /\ qlock' = w
  /\ scan' = [at |-> "entry", curr |-> Head(wait_list), rest |-> Tail(wait_list),
              mode |-> mode, nr_exclusive |-> nr, asked |-> nr, woken |-> 0]
  /\ UNCHANGED <<onQueue, wait_list, sleeps>>

\* default_wake_function(): try_to_wake_up() of a task in one of the states
default_wake_function(t, mode) == onQueue[t].state \in mode

\* Mutant: an exclusive entry counts although its task was awake already.
CountsEntry(t, mode) == onQueue[t].exclusive

Counts(t, mode) == default_wake_function(t, mode) /\ onQueue[t].exclusive

\* list_for_each_entry_safe() keeps curr and next
__wake_up_common(w) ==
  /\ qlock = w /\ scan.at = "entry"
  /\ LET t == scan.curr
         wakes == default_wake_function(t, scan.mode)
         nr == IF Counts(t, scan.mode) THEN scan.nr_exclusive - 1 ELSE scan.nr_exclusive
         over == scan.rest = <<>> \/ (Counts(t, scan.mode) /\ nr = 0)
     IN /\ onQueue' = IF wakes THEN [onQueue EXCEPT ![t].state = "running"] ELSE onQueue
        /\ scan' = [scan EXCEPT !.at = IF over THEN "unlock" ELSE "entry",
                                !.curr = IF over THEN "NULL" ELSE Head(scan.rest),
                                !.rest = IF over THEN <<>> ELSE Tail(@),
                                !.nr_exclusive = nr,
                                !.woken = IF wakes /\ onQueue[t].exclusive THEN @ + 1 ELSE @]
  /\ UNCHANGED <<wait_list, qlock, sleeps>>

UnlockQueue(w) ==
  /\ qlock = w /\ scan.at = "unlock" /\ qlock' = "nobody" /\ scan' = NoScan
  /\ UNCHANGED <<onQueue, wait_list, sleeps>>

WaitQueueNext ==
  \/ \E t \in Waiters :
       \/ \E s \in TASK_NORMAL : sleep_on(t, s)
       \/ AddEntry(t) \/ wait_exclusive(t) \/ Resume(t) \/ RemoveEntry(t) \/ WaitAgain(t)
       \/ WokenOtherwise(t)
  \/ \E w \in Wakers :
       \/ \E mode \in {TASK_NORMAL, {"interruptible"}}, nr \in WakeCounts : __wake_up(w, mode, nr)
       \/ __wake_up_common(w) \/ UnlockQueue(w)

WaitQueueSpec == WaitQueueInit /\ [][WaitQueueNext]_waitQueueVars

-----------------------------------------------------------------------------
(* Properties *)

\* Entries are on the stacks of the tasks that wait: one that is on the queue, or that
\* a scan stands on or goes to next, is of a task that is still in its call.
EntriesAlive ==
  /\ \A i \in DOMAIN wait_list : onQueue[wait_list[i]].entry
  /\ scan.at = "entry" => /\ onQueue[scan.curr].entry
                          /\ scan.rest # <<>> => onQueue[Head(scan.rest)].entry

\* "If it's an exclusive wakeup then we wake all the non-exclusive tasks and one
\* exclusive task": when a wake-up is over no sleep_on() it applies to is left, and an
\* exclusive waiter only if as many as asked for were woken.  A task that a signal or
\* timer woke first takes no one's place ("we handle it by continuing to scan").
WakeReaches ==
  scan.at = "unlock" =>
    /\ scan.asked # 0 => scan.woken <= scan.asked
    /\ \A i \in DOMAIN wait_list :
         LET t == wait_list[i]
         IN  onQueue[t].state \in scan.mode =>
               onQueue[t].exclusive /\ scan.asked # 0 /\ scan.woken = scan.asked

\* A wake-up walks entries that exist and wakes whom it should, while sleepers come,
\* are woken by others and leave (__wake_up_common(), sleep_on_common()).
WakeUpSound == EntriesAlive /\ WakeReaches
=============================================================================
