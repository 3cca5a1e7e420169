------------------------------ MODULE Kthread ------------------------------
(***************************************************************************)
(* Creating, starting and stopping kernel threads: kthread.c of the tegra  *)
(* kernel (Project2/tergra/kernel/kthread.c, lines 21-285).                *)
(*                                                                         *)
(* A user asks kthreadd for a thread, waits for it, may bind it, may wake  *)
(* it and may stop it; the thread is named by its user.  Task states are   *)
(* what wake_up_process() looks at: a task that calls schedule() in        *)
(* another state than "running" leaves the CPU until it is woken.  A       *)
(* completion (complete(), wait_for_completion()) is its counter.  The     *)
(* thread function is external: it loops as kthread_worker_fn() does,      *)
(* until kthread_should_stop(), or exits on its own.                       *)
(***************************************************************************)
EXTENDS Integers, Sequences, FiniteSets

CONSTANTS
  Users,       \* callers of kthread_create(), one thread each
  CanFail,     \* kernel_thread() may fail
  None

ASSUME KthreadAssumption == CanFail \in BOOLEAN /\ None \notin Users

VARIABLES
  create_list,  \* kthread_create_list
  kd, kd_state, \* kthreadd: control point and task state
  create,       \* the request kthreadd took off the list
  upc,          \* user: "idle", "wake_kd", "wait", "created", "bind", "stop",
                \*   "set_stop", "wake_k", "wait_exit", "stopped", "failed"
  created,      \* counter of the completion create.done
  result,       \* create.result: "none", "task", "error"
  pc, state,    \* thread: control point ("none" before it exists) and task state
  vfork_done,   \* k->vfork_done # NULL
  should_stop, exited, exit_code,
  woken,        \* the user called wake_up_process()
  bound,        \* PF_THREAD_BOUND
  ran,          \* threadfn was called
  ret           \* what kthread_stop() returned

kthreaddVars == <<kd, kd_state, create>>
userVars == <<upc, woken, ret>>
threadVars == <<pc, state, vfork_done, should_stop, exited, exit_code, bound, ran>>
kthreadVars == <<create_list, kthreaddVars, userVars, created, result, threadVars>>

KthreadInit ==
  /\ create_list = << >> /\ kd = "set" /\ kd_state = "running" /\ create = None
  /\ upc = [u \in Users |-> "idle"]
  /\ created = [u \in Users |-> 0] /\ result = [u \in Users |-> "none"]
  /\ pc = [u \in Users |-> "none"] /\ state = [u \in Users |-> "running"]
  /\ vfork_done = [u \in Users |-> FALSE] /\ should_stop = [u \in Users |-> FALSE]
  /\ exited = [u \in Users |-> 0] /\ exit_code = [u \in Users |-> "none"]
  /\ woken = [u \in Users |-> FALSE] /\ bound = [u \in Users |-> FALSE]
  /\ ran = [u \in Users |-> FALSE] /\ ret = [u \in Users |-> "none"]

At(f, u, from, to) == f[u] = from /\ f' = [f EXCEPT ![u] = to]

-----------------------------------------------------------------------------
(* kthreadd() *)

KdSet ==
  /\ kd = "set" /\ kd' = "test" /\ kd_state' = "sleeping"
  /\ UNCHANGED <<create_list, create, userVars, created, result, threadVars>>

KdTest ==
  /\ kd = "test"
  /\ IF create_list = << >>
     THEN kd' = "schedule" /\ UNCHANGED kd_state
     ELSE kd' = "pop" /\ kd_state' = "running"
  /\ UNCHANGED <<create_list, create, userVars, created, result, threadVars>>

\* Mutant: the state is set after the list was tested.
KdScheduleLate ==
  /\ \/ kd = "schedule" /\ kd' = "off" /\ kd_state' = "sleeping"
     \/ kd = "off" /\ kd_state = "running" /\ kd' = "pop" /\ UNCHANGED kd_state
  /\ UNCHANGED <<create_list, create, userVars, created, result, threadVars>>

\* schedule(): off the CPU unless a wake-up came first.
KdSchedule ==
  /\ kd \in {"schedule", "off"}
  /\ kd' = IF kd_state = "running" THEN "pop" ELSE "off"
  /\ kd' # kd
  /\ UNCHANGED <<create_list, kd_state, create, userVars, created, result, threadVars>>

\* Under kthread_create_lock: take the first request, or leave the inner loop.
KdPop ==
  /\ kd = "pop"
  /\ IF create_list = << >>
     THEN kd' = "set" /\ UNCHANGED <<create_list, create>>
     ELSE /\ kd' = "create"
          /\ create' = Head(create_list) /\ create_list' = Tail(create_list)
  /\ UNCHANGED <<kd_state, userVars, created, result, threadVars>>

\* create_kthread(): kernel_thread() starts the thread or fails.
create_kthread ==
  /\ kd = "create" /\ kd' = "pop" /\ create' = None
  /\ \/ /\ pc' = [pc EXCEPT ![create] = "start"]
        /\ UNCHANGED <<created, result>>
     \/ /\ CanFail
        /\ result' = [result EXCEPT ![create] = "error"]
        /\ created' = [created EXCEPT ![create] = @ + 1]
        /\ UNCHANGED pc
  /\ UNCHANGED <<create_list, kd_state, userVars, state, vfork_done, should_stop,
                 exited, exit_code, bound, ran>>

-----------------------------------------------------------------------------
(* kthread(): the new thread *)

\* Publishes self and the result with the state already UNINTERRUPTIBLE ...
Start(u) ==
  /\ At(pc, u, "start", "announce")
  /\ should_stop' = [should_stop EXCEPT ![u] = FALSE]
  /\ vfork_done' = [vfork_done EXCEPT ![u] = TRUE]
  /\ state' = [state EXCEPT ![u] = "sleeping"]
  /\ result' = [result EXCEPT ![u] = "task"]
  /\ UNCHANGED <<create_list, kthreaddVars, userVars, created, exited, exit_code,
                 bound, ran>>

\* ... and tells the creator.
Announce(u) ==
  /\ At(pc, u, "announce", "schedule")
  /\ created' = [created EXCEPT ![u] = @ + 1]
  /\ UNCHANGED <<create_list, kthreaddVars, userVars, result, state, vfork_done,
                 should_stop, exited, exit_code, bound, ran>>

\* schedule() of kthread() and of the thread function.
Schedule(u) ==
  /\ \/ pc[u] = "schedule" /\ state[u] = "sleeping" /\ pc' = [pc EXCEPT ![u] = "off"]
     \/ /\ pc[u] \in {"schedule", "off"} /\ state[u] = "running"
        /\ pc' = [pc EXCEPT ![u] = IF ran[u] THEN "loop" ELSE "decide"]
  /\ UNCHANGED <<create_list, kthreaddVars, userVars, created, result, state,
                 vfork_done, should_stop, exited, exit_code, bound, ran>>

\* if (!self.should_stop) ret = threadfn(data).
Decide(u) ==
  /\ pc[u] = "decide"
  /\ IF should_stop[u]
     THEN /\ pc' = [pc EXCEPT ![u] = "exit"]
          /\ exit_code' = [exit_code EXCEPT ![u] = "EINTR"] /\ UNCHANGED ran
     ELSE /\ pc' = [pc EXCEPT ![u] = "loop"]
          /\ ran' = [ran EXCEPT ![u] = TRUE] /\ UNCHANGED exit_code
  /\ UNCHANGED <<create_list, kthreaddVars, userVars, created, result, state,
                 vfork_done, should_stop, exited, bound>>

\* The thread function: set_current_state(), or an exit of its own ...
Loop(u) ==
  /\ pc[u] = "loop"
  /\ \/ /\ pc' = [pc EXCEPT ![u] = "test"]
        /\ state' = [state EXCEPT ![u] = "sleeping"] /\ UNCHANGED exit_code
     \/ /\ pc' = [pc EXCEPT ![u] = "exit"]
        /\ exit_code' = [exit_code EXCEPT ![u] = "value"] /\ UNCHANGED state
  /\ UNCHANGED <<create_list, kthreaddVars, userVars, created, result, vfork_done,
                 should_stop, exited, bound, ran>>

\* ... then if (kthread_should_stop()) return, else schedule().
Test(u) ==
  /\ pc[u] = "test"
  /\ IF should_stop[u]
     THEN /\ pc' = [pc EXCEPT ![u] = "exit"]
          /\ state' = [state EXCEPT ![u] = "running"]
          /\ exit_code' = [exit_code EXCEPT ![u] = "value"]
     ELSE pc' = [pc EXCEPT ![u] = "schedule"] /\ UNCHANGED <<state, exit_code>>
  /\ UNCHANGED <<create_list, kthreaddVars, userVars, created, result, vfork_done,
                 should_stop, exited, bound, ran>>

\* do_exit() (external): exit_code is set, then mm_release() clears
\* vfork_done and completes what it pointed to, which is self.exited.
MmRelease(u) ==
  /\ At(pc, u, "exit", "signal_exit")
  /\ vfork_done' = [vfork_done EXCEPT ![u] = FALSE]
  /\ UNCHANGED <<create_list, kthreaddVars, userVars, created, result, state,
                 should_stop, exited, exit_code, bound, ran>>

SignalExit(u) ==
  /\ At(pc, u, "signal_exit", "dead")
  /\ exited' = [exited EXCEPT ![u] = @ + 1]
  /\ UNCHANGED <<create_list, kthreaddVars, userVars, created, result, state,
                 vfork_done, should_stop, exit_code, bound, ran>>

Thread(u) == Start(u) \/ Announce(u) \/ Schedule(u) \/ Decide(u) \/ Loop(u) \/ Test(u)
             \/ MmRelease(u) \/ SignalExit(u)

-----------------------------------------------------------------------------
(* Users: kthread_create_on_node(), kthread_bind(), kthread_stop() *)

AddRequest(u) ==
  /\ At(upc, u, "idle", "wake_kd")
  /\ create_list' = Append(create_list, u)
  /\ UNCHANGED <<kthreaddVars, woken, ret, created, result, threadVars>>

WakeKthreadd(u) ==
  /\ At(upc, u, "wake_kd", "wait")
  /\ kd_state' = "running"
  /\ UNCHANGED <<create_list, kd, create, woken, ret, created, result, threadVars>>

\* Mutant: the wait can be interrupted.
CreatedKilled(u) ==
  /\ upc[u] = "wait"
  /\ created' = [created EXCEPT ![u] = 0]
  /\ upc' = [upc EXCEPT ![u] = IF result[u] = "task" THEN "created" ELSE "failed"]
  /\ UNCHANGED <<create_list, kthreaddVars, woken, ret, result, threadVars>>

\* wait_for_completion(&create.done); the policy and affinity set on success
\* do not matter here.
Created(u) ==
  /\ upc[u] = "wait" /\ created[u] > 0
  /\ created' = [created EXCEPT ![u] = @ - 1]
  /\ upc' = [upc EXCEPT ![u] = IF result[u] = "task" THEN "created" ELSE "failed"]
  /\ UNCHANGED <<create_list, kthreaddVars, woken, ret, result, threadVars>>

\* kthread_bind(): wait_task_inactive() waits until the thread is off the CPU ...
WaitInactive(u) ==
  /\ ~woken[u] /\ ~bound[u]
  /\ pc[u] = "off" /\ state[u] = "sleeping"
  /\ At(upc, u, "created", "bind")
  /\ UNCHANGED <<create_list, kthreaddVars, woken, ret, created, result, threadVars>>

\* ... and do_set_cpus_allowed() rewrites its mask without a lock.
kthread_bind(u) ==
  /\ At(upc, u, "bind", "created")
  /\ bound' = [bound EXCEPT ![u] = TRUE]
  /\ UNCHANGED <<create_list, kthreaddVars, woken, ret, created, result, pc, state,
                 vfork_done, should_stop, exited, exit_code, ran>>

wake_up_process(u) ==
  /\ upc[u] = "created" /\ ~woken[u]
  /\ woken' = [woken EXCEPT ![u] = TRUE]
  /\ state' = [state EXCEPT ![u] = "running"]
  /\ UNCHANGED <<create_list, kthreaddVars, upc, ret, created, result, pc, vfork_done,
                 should_stop, exited, exit_code, bound, ran>>

\* kthread_stop(): is the thread still there?
StopCheck(u) ==
  /\ upc[u] = "created"
  /\ IF vfork_done[u]
     THEN upc' = [upc EXCEPT ![u] = "set_stop"] /\ UNCHANGED ret
     ELSE upc' = [upc EXCEPT ![u] = "stopped"] /\ ret' = [ret EXCEPT ![u] = exit_code[u]]
  /\ UNCHANGED <<create_list, kthreaddVars, woken, created, result, threadVars>>

StopSet(u) ==
  /\ At(upc, u, "set_stop", "wake_k")
  /\ should_stop' = [should_stop EXCEPT ![u] = TRUE]
  /\ UNCHANGED <<create_list, kthreaddVars, woken, ret, created, result, pc, state,
                 vfork_done, exited, exit_code, bound, ran>>

StopWake(u) ==
  /\ At(upc, u, "wake_k", "wait_exit")
  /\ state' = [state EXCEPT ![u] = "running"]
  /\ UNCHANGED <<create_list, kthreaddVars, woken, ret, created, result, pc, vfork_done,
                 should_stop, exited, exit_code, bound, ran>>

\* Mutant: kthread_stop() does not wait for the exit.
StopNoWait(u) ==
  /\ At(upc, u, "wait_exit", "stopped")
  /\ ret' = [ret EXCEPT ![u] = exit_code[u]]
  /\ UNCHANGED <<create_list, kthreaddVars, woken, created, result, pc, state,
                 vfork_done, should_stop, exited, exit_code, bound, ran>>

StopWait(u) ==
  /\ At(upc, u, "wait_exit", "stopped") /\ exited[u] > 0
  /\ exited' = [exited EXCEPT ![u] = @ - 1]
  /\ ret' = [ret EXCEPT ![u] = exit_code[u]]
  /\ UNCHANGED <<create_list, kthreaddVars, woken, created, result, pc, state,
                 vfork_done, should_stop, exit_code, bound, ran>>

\* What a user does next is its choice; what it has begun it goes on with.
Choose(u) == AddRequest(u) \/ WaitInactive(u) \/ wake_up_process(u) \/ StopCheck(u)
GoOn(u) == WakeKthreadd(u) \/ Created(u) \/ kthread_bind(u) \/ StopSet(u) \/ StopWake(u)
           \/ StopWait(u)

-----------------------------------------------------------------------------
kthreadd == KdSet \/ KdTest \/ KdSchedule \/ KdPop \/ create_kthread

KthreadNext == kthreadd \/ \E u \in Users : Thread(u) \/ Choose(u) \/ GoOn(u)

-----------------------------------------------------------------------------
(* Properties *)

\* create lives on the creator's stack: kthreadd and the new thread use it
\* only while the creator still waits for the completion.
CreateInfoAlive ==
  \A u \in Users :
    (create = u \/ (\E i \in DOMAIN create_list : create_list[i] = u)
                \/ pc[u] \in {"start", "announce"}) => upc[u] \in {"wake_kd", "wait"}

\* "It's safe because the task is inactive" (kthread.c:205): the thread is off
\* the CPU, and has not run its function, all the while kthread_bind() changes
\* its mask.
BindSafe == \A u \in Users : upc[u] = "bind" => pc[u] = "off" /\ ~ran[u]

\* What another task touches of a creator or a thread is still there, and still at rest:
\* nobody uses a request after its creator has returned, and nobody binds a thread that
\* may be running.
NoLateAccess == CreateInfoAlive /\ BindSafe

\* kthread_stop() returns only after the thread set its exit code, never reads
\* it too early, and gives -EINTR exactly when the thread function did not run.
StopReturnsResult ==
  \A u \in Users : upc[u] = "stopped" =>
    /\ pc[u] \in {"signal_exit", "dead"}
    /\ ret[u] = exit_code[u] /\ (ret[u] = "EINTR" <=> ~ran[u]) /\ ret[u] # "none"

\* No wake-up is lost between kthreadd and its users, nor between kthread_stop() and the
\* thread: every request is served, however the list operations and the tests of kthreadd
\* interleave, and every stop returns, whether the thread sleeps, runs, was never woken
\* or exits on its own meanwhile.
CallsReturn ==
  \A u \in Users :
    (upc[u] \in {"wake_kd", "wait", "set_stop", "wake_k", "wait_exit"})
      ~> (upc[u] \in {"created", "failed", "stopped"})

=============================================================================
