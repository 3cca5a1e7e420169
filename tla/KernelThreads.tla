--------------------------- MODULE KernelThreads ---------------------------
(***************************************************************************)
(* All of kthread.c: threads that are created, bound and stopped, and a    *)
(* worker thread with its works.  The two share no state, so a behaviour   *)
(* is one of them, and the other stays as it starts.                       *)
(***************************************************************************)
EXTENDS Kthread, KthreadWorker

VARIABLE part

ThreadsInit == part \in {"threads", "worker"} /\ KthreadInit /\ WorkerInit

ThreadsNext ==
  /\ UNCHANGED part
  /\ \/ part = "threads" /\ KthreadNext /\ UNCHANGED kworkerVars
     \/ part = "worker" /\ WorkerNext /\ UNCHANGED kthreadVars

\* Every task that is on a run queue runs in the end.
Fairness ==
  /\ WF_kthreadVars(part = "threads" /\ kthreadd)
  /\ \A u \in Users :
       WF_kthreadVars(part = "threads" /\ Thread(u)) /\ WF_kthreadVars(part = "threads" /\ GoOn(u))
  /\ WF_kworkerVars(part = "worker" /\ kthread_worker_fn)
  /\ WF_kworkerVars(part = "worker" /\ WakeStopped)
  /\ \A f \in Flushers : WF_kworkerVars(part = "worker" /\ Flusher(f))

ThreadsSpec == ThreadsInit /\ [][ThreadsNext]_<<part, kthreadVars, kworkerVars>> /\ Fairness
=============================================================================
