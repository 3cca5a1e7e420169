--------------------------- MODULE KthreadWorker ---------------------------
(***************************************************************************)
(* kthread_worker: works queued to a kernel thread and waited for          *)
(* (Project2/tergra/kernel/kthread.c, lines 287-443).                      *)
(*                                                                         *)
(* Clients queue works, flush one work (flush_kthread_work) or the whole   *)
(* worker (flush_kthread_worker), and somebody may stop the thread.  What  *)
(* runs under worker->lock is one step.  The barriers of the code keep its *)
(* loads and stores in program order, so the steps are sequentially        *)
(* consistent.  wait_event() of linux/wait.h and the freezer are external; *)
(* freezing() is never true here.                                          *)
(***************************************************************************)
EXTENDS Integers, Sequences, FiniteSets

CONSTANTS
  Works,       \* kthread_works of the clients
  Flushers,    \* tasks that call flush_kthread_work() or flush_kthread_worker()
  MaxQueued,   \* bound on the queueings of one work
  IntRange,    \* number of values of an int
  FirstSeq,       \* queue_seq and done_seq of a work that has been in use before
  CanStop,     \* kthread_stop() may be called
  NoWork

ASSUME WorkerAssumption ==
  /\ IsFiniteSet(Flushers)
  /\ MaxQueued \in Nat \ {0} /\ CanStop \in BOOLEAN
  /\ IntRange \in Nat /\ IntRange > 2 * MaxQueued /\ FirstSeq \in 0 .. IntRange - 1
  /\ Works \cap Flushers = {} /\ NoWork \notin Works \cup Flushers

\* The kthread_flush_work on a flusher's stack is named by the flusher.
Items == Works \cup Flushers

\* Mutant: the numbers are compared without regard to overflow.
NotAfterPlain(a, b) == a <= b

\* a - b <= 0 on ints of two's complement.
NotAfter(a, b) == LET d == (a - b) % IntRange IN d = 0 \/ 2 * d >= IntRange

VARIABLES
  work_list, queue_seq, done_seq, flushing,
  wpc, wstate, work, \* kthread_worker_fn(): control point, task state, local work
  stop,            \* kthread_stop(): "no", "set" (should_stop = 1), "woken"
  fpc, fstate,     \* flushers: control point, task state
  seq, target,     \* of flush_kthread_work(): the sequence number, the work
  waiting,         \* flushers on the wait queue of their target
  fdone,           \* counter of the completion of a flusher's own work
  queued,          \* history: times an item was queued
  completed,       \* history: executions of a work that have ended
  owed,            \* history: those a flush has to wait for
  overlapped       \* history: the work was queued while it was executing

listVars == <<work_list, queue_seq, queued>>
workerVars == <<wpc, wstate, work>>
flushVars == <<fpc, seq, target, waiting, owed>>
history == <<completed, overlapped>>
kworkerVars == <<listVars, done_seq, flushing, workerVars, stop, fstate, flushVars, fdone, history>>

OnList(w) == \E i \in DOMAIN work_list : work_list[i] = w
Executing(w) == work = w /\ wpc \in {"func", "done"}

WorkerInit ==
  /\ work_list = << >> /\ queued = [w \in Items |-> 0]
  /\ queue_seq = [w \in Items |-> IF w \in Works THEN FirstSeq ELSE 0] /\ done_seq = queue_seq
  /\ flushing = [w \in Works |-> 0]
  /\ wpc = "repeat" /\ wstate = "running" /\ work = NoWork /\ stop = "no"
  /\ fpc = [f \in Flushers |-> "idle"] /\ fstate = [f \in Flushers |-> "running"]
  /\ seq = [f \in Flushers |-> 0] /\ target = [f \in Flushers |-> NoWork]
  /\ waiting = {} /\ fdone = [f \in Flushers |-> 0]
  /\ completed = [w \in Works |-> 0] /\ overlapped = [w \in Works |-> FALSE]
  /\ owed = [f \in Flushers |-> [w \in Works |-> 0]]

-----------------------------------------------------------------------------
(* kthread_worker_fn() *)

\* repeat: set_current_state(TASK_INTERRUPTIBLE).
Repeat ==
  /\ wpc = "repeat" /\ wpc' = "stop?" /\ wstate' = "sleeping"
  /\ UNCHANGED <<listVars, done_seq, flushing, work, stop, fstate, flushVars, fdone, history>>

\* kthread_should_stop(): detach from the worker and return.
StopTest ==
  /\ wpc = "stop?"
  /\ IF stop # "no" THEN wpc' = "exit" /\ wstate' = "running"
     ELSE wpc' = "pop" /\ UNCHANGED wstate
  /\ UNCHANGED <<listVars, done_seq, flushing, work, stop, fstate, flushVars, fdone, history>>

\* Takes the first work, or goes to sleep.
Pop ==
  /\ wpc = "pop"
  /\ IF work_list # << >>
     THEN /\ work' = Head(work_list) /\ work_list' = Tail(work_list)
          /\ wpc' = "func" /\ wstate' = "running"
     ELSE wpc' = "schedule" /\ work' = NoWork /\ UNCHANGED <<work_list, wstate>>
  /\ UNCHANGED <<queue_seq, queued, done_seq, flushing, stop, fstate, flushVars, fdone, history>>

\* work->func(work); for a flusher's work it is kthread_flush_work_fn(), whose
\* complete() lets the flusher return.
Func ==
  /\ wpc = "func" /\ wpc' = "done"
  /\ IF work \in Flushers
     THEN fdone' = [fdone EXCEPT ![work] = @ + 1] /\ UNCHANGED completed
     ELSE completed' = [completed EXCEPT ![work] = @ + 1] /\ UNCHANGED fdone
  /\ UNCHANGED <<listVars, done_seq, flushing, wstate, work, stop, fstate, flushVars, overlapped>>

\* work->done_seq = work->queue_seq.
SetDone ==
  /\ wpc = "done" /\ wpc' = "wake"
  /\ done_seq' = [done_seq EXCEPT ![work] = queue_seq[work]]
  /\ UNCHANGED <<listVars, flushing, wstate, work, stop, fstate, flushVars, fdone, history>>

\* if (atomic_read(&work->flushing)) wake_up_all(&work->done).
WakeFlushers ==
  /\ wpc = "wake" /\ wpc' = "repeat"
  /\ fstate' = [f \in Flushers |->
       IF f \in waiting /\ target[f] = work /\ flushing[work] > 0 THEN "running" ELSE fstate[f]]
  /\ UNCHANGED <<listVars, done_seq, flushing, wstate, work, stop, flushVars, fdone, history>>

\* schedule(): off the CPU until woken.
WorkerSchedule ==
  /\ \/ wpc = "schedule" /\ wstate = "sleeping" /\ wpc' = "off"
     \/ wpc \in {"schedule", "off"} /\ wstate = "running" /\ wpc' = "repeat"
  /\ UNCHANGED <<listVars, done_seq, flushing, wstate, work, stop, fstate, flushVars,
                 fdone, history>>

kthread_worker_fn ==
  Repeat \/ StopTest \/ Pop \/ Func \/ SetDone \/ WakeFlushers \/ WorkerSchedule

-----------------------------------------------------------------------------
(* queue_kthread_work() and kthread_stop() *)

\* Mutant: the worker is not woken.
EnqueueQuiet(w) ==
  /\ ~OnList(w) /\ queued[w] < MaxQueued /\ queued' = [queued EXCEPT ![w] = @ + 1]
  /\ work_list' = Append(work_list, w)
  /\ queue_seq' = [queue_seq EXCEPT ![w] = (@ + 1) % IntRange]
  /\ UNCHANGED wstate

\* Under worker->lock: a work that is not on the list is added, and the worker
\* woken while there is one.
Enqueue(w) ==
  /\ ~OnList(w) /\ queued[w] < MaxQueued /\ queued' = [queued EXCEPT ![w] = @ + 1]
  /\ work_list' = Append(work_list, w)
  /\ queue_seq' = [queue_seq EXCEPT ![w] = (@ + 1) % IntRange]
  /\ wstate' = IF wpc = "exit" THEN wstate ELSE "running"

queue_kthread_work(w) ==
  /\ Enqueue(w)
  /\ overlapped' = [overlapped EXCEPT ![w] = @ \/ Executing(w)]
  /\ UNCHANGED <<done_seq, flushing, wpc, work, stop, fstate, flushVars, fdone, completed>>

\* kthread_stop(): should_stop = 1, then wake_up_process().
SetStop ==
  /\ CanStop /\ stop = "no" /\ stop' = "set"
  /\ UNCHANGED <<listVars, done_seq, flushing, workerVars, fstate, flushVars, fdone, history>>

\* Mutant: kthread_stop() without wake_up_process().
StopQuietly ==
  /\ stop = "set" /\ stop' = "woken"
  /\ UNCHANGED <<listVars, done_seq, flushing, workerVars, fstate, flushVars, fdone, history>>

WakeStopped ==
  /\ stop = "set" /\ stop' = "woken" /\ wstate' = "running"
  /\ UNCHANGED <<listVars, done_seq, flushing, wpc, work, fstate, flushVars, fdone, history>>

-----------------------------------------------------------------------------
(* flush_kthread_work() *)

\* int seq = work->queue_seq.
FlushBegin(f, w) ==
  /\ fpc[f] = "idle" /\ fpc' = [fpc EXCEPT ![f] = "inc"]
  /\ seq' = [seq EXCEPT ![f] = queue_seq[w]] /\ target' = [target EXCEPT ![f] = w]
  /\ owed' = [owed EXCEPT ![f][w] = queued[w]]
  /\ UNCHANGED <<listVars, done_seq, flushing, workerVars, stop, fstate, waiting, fdone, history>>

\* atomic_inc(&work->flushing) and the barrier.
FlushInc(f) ==
  /\ fpc[f] = "inc" /\ fpc' = [fpc EXCEPT ![f] = "prepare"]
  /\ flushing' = [flushing EXCEPT ![target[f]] = @ + 1]
  /\ UNCHANGED <<listVars, done_seq, workerVars, stop, fstate, seq, target, waiting, owed,
                 fdone, history>>

\* wait_event(): prepare_to_wait(), then the condition, then schedule().
FlushPrepare(f) ==
  /\ fpc[f] = "prepare" /\ fpc' = [fpc EXCEPT ![f] = "test"]
  /\ waiting' = waiting \cup {f} /\ fstate' = [fstate EXCEPT ![f] = "sleeping"]
  /\ UNCHANGED <<listVars, done_seq, flushing, workerVars, stop, seq, target, owed,
                 fdone, history>>

FlushTest(f) ==
  /\ fpc[f] = "test"
  /\ IF NotAfter(seq[f], done_seq[target[f]])
     THEN /\ fpc' = [fpc EXCEPT ![f] = "dec"] /\ waiting' = waiting \ {f}
          /\ fstate' = [fstate EXCEPT ![f] = "running"]
     ELSE fpc' = [fpc EXCEPT ![f] = "schedule"] /\ UNCHANGED <<waiting, fstate>>
  /\ UNCHANGED <<listVars, done_seq, flushing, workerVars, stop, seq, target, owed,
                 fdone, history>>

FlushSchedule(f) ==
  /\ fpc[f] = "schedule" /\ fstate[f] = "running" /\ fpc' = [fpc EXCEPT ![f] = "prepare"]
  /\ UNCHANGED <<listVars, done_seq, flushing, workerVars, stop, fstate, seq, target,
                 waiting, owed, fdone, history>>

FlushDec(f) ==
  /\ fpc[f] = "dec" /\ fpc' = [fpc EXCEPT ![f] = "returned"]
  /\ flushing' = [flushing EXCEPT ![target[f]] = @ - 1]
  /\ UNCHANGED <<listVars, done_seq, workerVars, stop, fstate, seq, target, waiting, owed,
                 fdone, history>>

(* flush_kthread_worker() *)

\* Queues a work of its own behind all the others ...
FlushWorker(f) ==
  /\ fpc[f] = "idle" /\ fpc' = [fpc EXCEPT ![f] = "wait_worker"]
  /\ Enqueue(f)
  /\ owed' = [owed EXCEPT ![f] = [w \in Works |-> queued[w]]]
  /\ UNCHANGED <<done_seq, flushing, wpc, work, stop, fstate, seq, target, waiting, fdone, history>>

\* ... and waits for its completion.
FlushWorkerDone(f) ==
  /\ fpc[f] = "wait_worker" /\ fdone[f] > 0
  /\ fpc' = [fpc EXCEPT ![f] = "returned"]
  /\ fdone' = [fdone EXCEPT ![f] = @ - 1]
  /\ UNCHANGED <<listVars, done_seq, flushing, workerVars, stop, fstate, seq, target,
                 waiting, owed, history>>

Flusher(f) ==
  \/ FlushInc(f) \/ FlushPrepare(f) \/ FlushTest(f) \/ FlushSchedule(f) \/ FlushDec(f)
  \/ FlushWorkerDone(f)

-----------------------------------------------------------------------------
WorkerNext ==
  \/ kthread_worker_fn \/ SetStop \/ WakeStopped
  \/ \E w \in Works : queue_kthread_work(w)
  \/ \E f \in Flushers : (\E w \in Works : FlushBegin(f, w)) \/ FlushWorker(f) \/ Flusher(f)

-----------------------------------------------------------------------------
(* Properties *)

\* No wake-up is lost.  The worker never sleeps on a non-empty list: queue_kthread_work()
\* comes before the worker's look at the list or wakes it.  And by the barriers worker-b1
\* and flush-b0, a flusher asleep whose condition holds already is about to be woken, as
\* the worker has not read "flushing" yet and will find it set.
WakeUpsPending ==
  /\ work_list # << >> /\ wpc \in {"schedule", "off"} => wstate = "running"
  /\ \A f \in Flushers :
       fpc[f] = "schedule" /\ fstate[f] = "sleeping" /\ NotAfter(seq[f], done_seq[target[f]])
       => wpc = "wake" /\ work = target[f] /\ flushing[work] > 0

\* A flush returns only when the executions queued before it have ended: for
\* flush_kthread_worker() always, for flush_kthread_work() unless the work was
\* queued again while it was executing.
FlushComplete ==
  \A f \in Flushers, w \in Works :
    fpc[f] = "returned" =>
      completed[w] >= owed[f][w] \/ (target[f] = w /\ overlapped[w])

\* Unless the worker is stopped every queued work is taken off the list and every flush
\* returns, and kthread_stop() ends the worker whatever it is doing.
WorkerAnswers ==
  /\ \A w \in Works : OnList(w) ~> (~OnList(w) \/ wpc = "exit")
  /\ \A f \in Flushers : (fpc[f] # "idle") ~> (fpc[f] = "returned" \/ wpc = "exit")
  /\ (stop # "no") ~> (wpc = "exit")

=============================================================================
