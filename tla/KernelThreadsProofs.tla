------------------------ MODULE KernelThreadsProofs ------------------------
(***************************************************************************)
(* kthread.c for any number of users, works and flushers: nobody uses a    *)
(* request or a thread after its owner has let go of it, kthread_stop()    *)
(* returns what the thread left, no wake-up of a worker or a flusher is    *)
(* lost, and a flush returns when the executions it waits for have ended.  *)
(*                                                                         *)
(* The invariant of a user (UserInv) says where its thread and its request *)
(* are at each of its control points: CreateInfoAlive and BindSafe alone   *)
(* are not inductive, as they say nothing of a thread between two of its   *)
(* steps.                                                                  *)
(***************************************************************************)
EXTENDS KernelThreads, DataProofs, FiniteSetTheorems

UserPlaces ==
  {"idle", "wake_kd", "wait", "created", "bind", "stop", "set_stop", "wake_k", "wait_exit",
   "stopped", "failed"}
ThreadPlaces ==
  {"none", "start", "announce", "schedule", "off", "decide", "loop", "test", "exit", "signal_exit",
   "dead"}
ExitCodes == {"none", "EINTR", "value"}

KthreadTypes ==
  /\ Lists(create_list, Linked(create_list)) /\ Linked(create_list) \subseteq Users
  /\ create \in Users \cup {None} /\ kd_state \in {"running", "sleeping"}
  /\ upc \in [Users -> UserPlaces] /\ woken \in [Users -> BOOLEAN] /\ ret \in [Users -> ExitCodes]
  /\ created \in [Users -> Nat] /\ result \in [Users -> {"none", "task", "error"}]
  /\ pc \in [Users -> ThreadPlaces] /\ state \in [Users -> {"running", "sleeping"}]
  /\ vfork_done \in [Users -> BOOLEAN] /\ should_stop \in [Users -> BOOLEAN]
  /\ exited \in [Users -> Nat] /\ exit_code \in [Users -> ExitCodes]
  /\ bound \in [Users -> BOOLEAN] /\ ran \in [Users -> BOOLEAN]

\* kthreadd has one request off the list at a time.
KthreaddInv == (create # None <=> kd = "create") /\ create \notin Linked(create_list)

Requested(u) == create = u \/ u \in Linked(create_list)

\* What a creator waits for is on its way: its request, its thread, or the completion.
Creating(u) ==
  /\ upc[u] = "idle" => ~Requested(u) /\ pc[u] = "none" /\ created[u] = 0 /\ result[u] = "none"
  /\ upc[u] \in {"wake_kd", "wait"} =>
       \/ Requested(u) /\ pc[u] = "none" /\ created[u] = 0 /\ result[u] = "none"
       \/ ~Requested(u) /\ pc[u] = "start" /\ created[u] = 0
       \/ ~Requested(u) /\ pc[u] = "announce" /\ created[u] = 0 /\ result[u] = "task"
       \/ ~Requested(u) /\ pc[u] \notin {"none", "start", "announce"} /\ created[u] = 1 /\ result[u] = "task"
       \/ ~Requested(u) /\ pc[u] = "none" /\ created[u] = 1 /\ result[u] = "error"
  /\ upc[u] \notin {"idle", "wake_kd", "wait"} =>
       /\ ~Requested(u) /\ pc[u] \notin {"start", "announce"}
       /\ pc[u] = "none" <=> upc[u] = "failed"

\* A thread that nobody has woken sleeps in kthread(), before its function.
Unwoken(u) ==
  /\ woken[u] => upc[u] \notin {"idle", "wake_kd", "wait", "bind", "failed"}
  /\ ~woken[u] /\ upc[u] \notin {"wait_exit", "stopped"} =>
       /\ ~ran[u] /\ pc[u] \in {"none", "start", "announce", "schedule", "off"}
       /\ pc[u] \in {"announce", "schedule", "off"} => state[u] = "sleeping"
  /\ upc[u] = "bind" => pc[u] = "off"

\* The exit: the code is set before vfork_done is cleared and exited completed.
Exiting(u) ==
  /\ vfork_done[u] <=> pc[u] \notin {"none", "start", "signal_exit", "dead"}
  /\ exited[u] > 0 => pc[u] = "dead"
  /\ pc[u] \in {"loop", "test"} => ran[u]
  /\ pc[u] \in {"start", "announce", "decide"} => ~ran[u]
  /\ pc[u] \in {"exit", "signal_exit", "dead"} =>
       (exit_code[u] = "EINTR" /\ ~ran[u]) \/ (exit_code[u] = "value" /\ ran[u])
  /\ upc[u] = "stopped" => pc[u] \in {"signal_exit", "dead"} /\ ret[u] = exit_code[u]

UserInv(u) == Creating(u) /\ Unwoken(u) /\ Exiting(u)

KthreadInv == KthreadTypes /\ KthreaddInv /\ \A u \in Users : UserInv(u)

-----------------------------------------------------------------------------
\* Nothing of a user changes when another one, or its thread, takes a step.
SameUser(v) ==
  /\ Requested(v)' <=> Requested(v)
  /\ upc'[v] = upc[v] /\ woken'[v] = woken[v] /\ ret'[v] = ret[v]
  /\ created'[v] = created[v] /\ result'[v] = result[v]
  /\ pc'[v] = pc[v] /\ state'[v] = state[v] /\ vfork_done'[v] = vfork_done[v]
  /\ exited'[v] = exited[v] /\ exit_code'[v] = exit_code[v] /\ ran'[v] = ran[v]

LEMMA OthersKept == ASSUME NEW v \in Users, UserInv(v), SameUser(v) PROVE UserInv(v)'
BY DEF UserInv, Creating, Unwoken, Exiting, SameUser

\* A step that leaves kthreadd and its list alone.
LEMMA ListAlone ==
  ASSUME UNCHANGED <<create_list, create>>
  PROVE  \A v \in Users : Requested(v)' <=> Requested(v)
BY DEF Requested

LEMMA KthreadStart == KthreadInit => KthreadInv
<1> SUFFICES ASSUME KthreadInit PROVE KthreadInv
  OBVIOUS
<1>1. Linked(create_list) = {} /\ Lists(create_list, {})
  BY DEF KthreadInit, Linked, Lists
<1>2. KthreadTypes /\ KthreaddInv
  BY <1>1 DEF KthreadInit, KthreadTypes, KthreaddInv, UserPlaces, ThreadPlaces, ExitCodes
<1>3. ASSUME NEW u \in Users PROVE UserInv(u)
  BY <1>1, KthreadAssumption DEF KthreadInit, UserInv, Creating, Unwoken, Exiting, Requested
<1> QED BY <1>2, <1>3 DEF KthreadInv

\* The steps of the new thread.
LEMMA ThreadKeeps ==
  ASSUME KthreadInv, NEW u \in Users, Thread(u)
  PROVE  KthreadInv'
<1> USE DEF KthreadInv
<1>1. UNCHANGED <<create_list, kthreaddVars, userVars>>
  BY DEF Thread, Start, Announce, Schedule, Decide, Loop, Test, MmRelease, SignalExit, userVars
<1>2. KthreadTypes'
  <2> USE DEF KthreadTypes, ThreadPlaces, ExitCodes, kthreaddVars, userVars
  <2>1. CASE Start(u)
    BY <1>1, <2>1 DEF Start, At
  <2>2. CASE Announce(u)
    BY <1>1, <2>2 DEF Announce, At
  <2>3. CASE Schedule(u)
    BY <1>1, <2>3 DEF Schedule
  <2>4. CASE Decide(u)
    <3>1. UNCHANGED <<created, result, state, vfork_done, should_stop, exited, bound>>
      BY <2>4 DEF Decide
    <3>2. CASE should_stop[u]
      <4>1. /\ pc' = [pc EXCEPT ![u] = "exit"] /\ exit_code' = [exit_code EXCEPT ![u] = "EINTR"]
            /\ ran' = ran
        BY <2>4, <3>2 DEF Decide
      <4> QED BY <1>1, <3>1, <4>1
    <3>3. CASE ~should_stop[u]
      <4>1. /\ pc' = [pc EXCEPT ![u] = "loop"] /\ ran' = [ran EXCEPT ![u] = TRUE]
            /\ exit_code' = exit_code
        BY <2>4, <3>3 DEF Decide
      <4> QED BY <1>1, <3>1, <4>1
    <3> QED BY <3>2, <3>3
  <2>5. CASE Loop(u)
    BY <1>1, <2>5 DEF Loop
  <2>6. CASE Test(u)
    BY <1>1, <2>6 DEF Test
  <2>7. CASE MmRelease(u)
    BY <1>1, <2>7 DEF MmRelease, At
  <2>8. CASE SignalExit(u)
    BY <1>1, <2>8 DEF SignalExit, At
  <2> QED BY <2>1, <2>2, <2>3, <2>4, <2>5, <2>6, <2>7, <2>8 DEF Thread
<1>3. KthreaddInv'
  BY <1>1 DEF KthreaddInv, kthreaddVars
<1>4. \A v \in Users : Requested(v)' <=> Requested(v)
  BY <1>1, ListAlone DEF kthreaddVars
<1>5. ASSUME NEW v \in Users, v # u PROVE UserInv(v)'
  <2>1. SameUser(v)
    BY <1>1, <1>4, <1>5 DEF SameUser, KthreadTypes, userVars, Thread, At, Start, Announce, Schedule,
       Decide, Loop, Test, MmRelease, SignalExit
  <2> QED BY <1>5, <2>1, OthersKept
<1>6. UserInv(u)'
  <2> USE DEF UserInv, Creating, Unwoken, Exiting, KthreadTypes, userVars
  <2>1. CASE Start(u)
    BY <1>1, <1>4, <2>1 DEF Start, At
  <2>2. CASE Announce(u)
    BY <1>1, <1>4, <2>2 DEF Announce, At
  <2>3. CASE Schedule(u)
    BY <1>1, <1>4, <2>3 DEF Schedule
  <2>4. CASE Decide(u)
    BY <1>1, <1>4, <2>4 DEF Decide
  <2>5. CASE Loop(u)
    BY <1>1, <1>4, <2>5 DEF Loop
  <2>6. CASE Test(u)
    BY <1>1, <1>4, <2>6 DEF Test
  <2>7. CASE MmRelease(u)
    BY <1>1, <1>4, <2>7 DEF MmRelease, At
  <2>8. CASE SignalExit(u)
    BY <1>1, <1>4, <2>8 DEF SignalExit, At
  <2> QED BY <2>1, <2>2, <2>3, <2>4, <2>5, <2>6, <2>7, <2>8 DEF Thread
<1> QED BY <1>2, <1>3, <1>5, <1>6

\* The steps of kthreadd: a request is taken off the list, and becomes a thread or an error.
LEMMA KthreaddKeeps ==
  ASSUME KthreadInv, kthreadd
  PROVE  KthreadInv'
<1> USE DEF KthreadInv
<1>1. CASE KdSet \/ KdTest \/ KdSchedule \/ (KdPop /\ create_list = << >>)
  <2>1. UNCHANGED <<create_list, create, userVars, created, result, threadVars>>
        /\ kd \notin {"create"} /\ kd' \notin {"create"} /\ kd_state' \in {"running", "sleeping"}
    BY <1>1 DEF KdSet, KdTest, KdSchedule, KdPop, KthreadTypes
  <2>2. KthreadTypes' /\ KthreaddInv'
    BY <2>1 DEF KthreadTypes, KthreaddInv, userVars, threadVars
  <2>3. \A v \in Users : SameUser(v)
    BY <2>1, ListAlone DEF SameUser, userVars, threadVars
  <2> QED BY <2>2, <2>3, OthersKept
<1>2. CASE KdPop /\ create_list # << >>
  <2>1. /\ kd = "pop" /\ kd' = "create" /\ create' = Head(create_list) /\ create_list' = Tail(create_list)
        /\ UNCHANGED <<kd_state, userVars, created, result, threadVars>>
    BY <1>2 DEF KdPop
  <2>2. create = None /\ None \notin Users
    BY <2>1, KthreadAssumption DEF KthreaddInv
  <2>3. /\ create' \in Linked(create_list) /\ Linked(create_list') = Linked(create_list) \ {create'}
        /\ Lists(create_list', Linked(create_list'))
    BY <1>2, <2>1, LinkedDelFirst DEF KthreadTypes
  <2>4. KthreaddInv'
    BY <2>1, <2>2, <2>3 DEF KthreaddInv, KthreadTypes
  <2>5. KthreadTypes'
    BY <2>1, <2>3 DEF KthreadTypes, userVars, threadVars
  <2>6. \A v \in Users : Requested(v)' <=> Requested(v)
    BY <2>2, <2>3 DEF Requested
  <2>7. \A v \in Users : SameUser(v)
    BY <2>1, <2>6 DEF SameUser, userVars, threadVars
  <2> QED BY <2>4, <2>5, <2>7, OthersKept
<1>3. CASE create_kthread
  <2>1. /\ kd = "create" /\ kd' = "pop" /\ create' = None
        /\ UNCHANGED <<create_list, kd_state, userVars, state, vfork_done, should_stop, exited, exit_code,
                       bound, ran>>
    BY <1>3 DEF create_kthread
  <2>2. create \in Users /\ None \notin Users /\ create \notin Linked(create_list)
    BY <2>1, KthreadAssumption DEF KthreaddInv, KthreadTypes
  <2>3. KthreaddInv'
    BY <2>1, <2>2 DEF KthreaddInv, KthreadTypes
  <2>4. \A v \in Users : Requested(v)' <=> Requested(v) /\ v # create
    BY <2>1, <2>2 DEF Requested
  <2>5. CASE pc' = [pc EXCEPT ![create] = "start"] /\ UNCHANGED <<created, result>>
    <3>1. KthreadTypes'
      BY <2>1, <2>2, <2>5 DEF KthreadTypes, userVars, ThreadPlaces
    <3>2. ASSUME NEW v \in Users, v # create PROVE UserInv(v)'
      <4>1. SameUser(v)
        BY <2>1, <2>2, <2>4, <2>5, <3>2 DEF SameUser, userVars, KthreadTypes
      <4> QED BY <4>1, OthersKept
    <3>3. UserInv(create) /\ Requested(create)
      BY <2>2 DEF Requested
    <3>4. ASSUME NEW v, v = create PROVE UserInv(v)'
      BY <2>1, <2>2, <2>4, <2>5, <3>3, <3>4 DEF UserInv, Creating, Unwoken, Exiting, KthreadTypes, userVars
    <3> QED BY <2>3, <3>1, <3>2, <3>4
  <2>6. CASE /\ result' = [result EXCEPT ![create] = "error"]
             /\ created' = [created EXCEPT ![create] = @ + 1]
             /\ UNCHANGED pc
    <3>1. KthreadTypes'
      BY <2>1, <2>2, <2>6 DEF KthreadTypes, userVars
    <3>2. ASSUME NEW v \in Users, v # create PROVE UserInv(v)'
      <4>1. SameUser(v)
        BY <2>1, <2>2, <2>4, <2>6, <3>2 DEF SameUser, userVars, KthreadTypes
      <4> QED BY <4>1, OthersKept
    <3>3. UserInv(create) /\ Requested(create)
      BY <2>2 DEF Requested
    <3>4. ASSUME NEW v, v = create PROVE UserInv(v)'
      BY <2>1, <2>2, <2>4, <2>6, <3>3, <3>4 DEF UserInv, Creating, Unwoken, Exiting, KthreadTypes, userVars
    <3> QED BY <2>3, <3>1, <3>2, <3>4
  <2> QED BY <1>3, <2>5, <2>6 DEF create_kthread
<1> QED BY <1>1, <1>2, <1>3 DEF kthreadd

\* The steps of a user.
LEMMA RequestKeeps ==
  ASSUME KthreadInv, NEW u \in Users, AddRequest(u)
  PROVE  KthreadInv'
<1> USE DEF KthreadInv
<1>1. /\ upc[u] = "idle" /\ upc' = [upc EXCEPT ![u] = "wake_kd"]
      /\ create_list' = Append(create_list, u)
      /\ UNCHANGED <<kthreaddVars, woken, ret, created, result, threadVars>>
  BY DEF AddRequest, At
<1>2. ~Requested(u)
  BY <1>1 DEF UserInv, Creating
<1>3. /\ Linked(create_list') = Linked(create_list) \cup {u}
      /\ Lists(create_list', Linked(create_list'))
  BY <1>1, <1>2, LinkedAddTail DEF Requested, KthreadTypes
<1>4. KthreadTypes' /\ KthreaddInv'
  BY <1>1, <1>2, <1>3 DEF KthreadTypes, KthreaddInv, Requested, UserPlaces, kthreaddVars, threadVars
<1>5. \A v \in Users : Requested(v)' <=> Requested(v) \/ v = u
  BY <1>1, <1>3 DEF Requested, kthreaddVars
<1>6. ASSUME NEW v \in Users, v # u PROVE UserInv(v)'
  <2>1. SameUser(v)
    BY <1>1, <1>5, <1>6 DEF SameUser, KthreadTypes, threadVars
  <2> QED BY <2>1, OthersKept
<1>7. UserInv(u)'
  BY <1>1, <1>5 DEF UserInv, Creating, Unwoken, Exiting, KthreadTypes, threadVars
<1> QED BY <1>4, <1>6, <1>7

UserStep(u) ==
  \/ WakeKthreadd(u) \/ Created(u) \/ WaitInactive(u) \/ kthread_bind(u) \/ wake_up_process(u)
  \/ StopCheck(u) \/ StopSet(u) \/ StopWake(u) \/ StopWait(u)

LEMMA UserKeeps ==
  ASSUME KthreadInv, NEW u \in Users, UserStep(u)
  PROVE  KthreadInv'
<1> USE DEF KthreadInv
<1>1. UNCHANGED <<create_list, kd, create, result, pc>>
  BY DEF UserStep, WakeKthreadd, Created, WaitInactive, kthread_bind, wake_up_process, StopCheck,
         StopSet, StopWake, StopWait, kthreaddVars, threadVars
<1>2. KthreadTypes'
  <2> USE DEF KthreadTypes, UserPlaces, kthreaddVars, threadVars, At
  <2>1. CASE WakeKthreadd(u)
    BY <2>1 DEF WakeKthreadd
  <2>2. CASE Created(u)
    BY <2>2 DEF Created
  <2>3. CASE WaitInactive(u)
    BY <2>3 DEF WaitInactive
  <2>4. CASE kthread_bind(u)
    BY <2>4 DEF kthread_bind
  <2>5. CASE wake_up_process(u)
    BY <2>5 DEF wake_up_process
  <2>6. CASE StopCheck(u)
    BY <2>6 DEF StopCheck
  <2>7. CASE StopSet(u)
    BY <2>7 DEF StopSet
  <2>8. CASE StopWake(u)
    BY <2>8 DEF StopWake
  <2>9. CASE StopWait(u)
    BY <2>9 DEF StopWait
  <2> QED BY <2>1, <2>2, <2>3, <2>4, <2>5, <2>6, <2>7, <2>8, <2>9 DEF UserStep
<1>3. KthreaddInv'
  BY <1>1 DEF KthreaddInv
<1>4. \A v \in Users : Requested(v)' <=> Requested(v)
  BY <1>1, ListAlone
<1>5. ASSUME NEW v \in Users, v # u PROVE UserInv(v)'
  <2>1. SameUser(v)
    BY <1>1, <1>4, <1>5 DEF SameUser, KthreadTypes, At, UserStep, WakeKthreadd, Created, WaitInactive,
       kthread_bind, wake_up_process, StopCheck, StopSet, StopWake, StopWait, kthreaddVars, threadVars
  <2> QED BY <1>5, <2>1, OthersKept
<1>6. UserInv(u)'
  <2> USE DEF UserInv, Creating, Unwoken, Exiting, KthreadTypes, kthreaddVars, threadVars, At
  <2>1. CASE WakeKthreadd(u)
    BY <1>4, <2>1 DEF WakeKthreadd
  <2>2. CASE Created(u)
    BY <1>4, <2>2 DEF Created
  <2>3. CASE WaitInactive(u)
    BY <1>4, <2>3 DEF WaitInactive
  <2>4. CASE kthread_bind(u)
    BY <1>4, <2>4 DEF kthread_bind
  <2>5. CASE wake_up_process(u)
    BY <1>4, <2>5 DEF wake_up_process
  <2>6. CASE StopCheck(u)
    BY <1>4, <2>6 DEF StopCheck, ThreadPlaces
  <2>7. CASE StopSet(u)
    BY <1>4, <2>7 DEF StopSet
  <2>8. CASE StopWake(u)
    BY <1>4, <2>8 DEF StopWake
  <2>9. CASE StopWait(u)
    BY <1>4, <2>9 DEF StopWait
  <2> QED BY <2>1, <2>2, <2>3, <2>4, <2>5, <2>6, <2>7, <2>8, <2>9 DEF UserStep
<1> QED BY <1>2, <1>3, <1>5, <1>6

LEMMA KthreadKeeps == KthreadInv /\ KthreadNext => KthreadInv'
BY KthreaddKeeps, ThreadKeeps, RequestKeeps, UserKeeps DEF KthreadNext, Choose, GoOn, UserStep

LEMMA KthreadSame == KthreadInv /\ UNCHANGED kthreadVars => KthreadInv'
<1> SUFFICES ASSUME KthreadInv, UNCHANGED kthreadVars PROVE KthreadInv'
  OBVIOUS
<1> USE DEF KthreadInv, kthreadVars, kthreaddVars, userVars, threadVars
<1>1. KthreadTypes' /\ KthreaddInv'
  BY DEF KthreadTypes, KthreaddInv
<1>2. \A v \in Users : SameUser(v)
  BY ListAlone DEF SameUser
<1> QED BY <1>1, <1>2, OthersKept

-----------------------------------------------------------------------------
(* The worker *)

FlusherPlaces == {"idle", "inc", "prepare", "test", "schedule", "dec", "wait_worker", "returned"}
WorkerPlaces == {"repeat", "stop?", "pop", "func", "done", "wake", "schedule", "off", "exit"}

WorkerTypes ==
  /\ Lists(work_list, Linked(work_list)) /\ Linked(work_list) \subseteq Items
  /\ queue_seq \in [Items -> 0 .. IntRange - 1] /\ done_seq \in [Items -> 0 .. IntRange - 1]
  /\ flushing \in [Works -> Int]
  /\ wpc \in WorkerPlaces /\ wstate \in {"running", "sleeping"} /\ work \in Items \cup {NoWork}
  /\ fpc \in [Flushers -> FlusherPlaces] /\ fstate \in [Flushers -> {"running", "sleeping"}]
  /\ seq \in [Flushers -> 0 .. IntRange - 1] /\ target \in [Flushers -> Works \cup {NoWork}]
  /\ waiting \subseteq Flushers /\ fdone \in [Flushers -> Int]
  /\ queued \in [Items -> 0 .. MaxQueued] /\ completed \in [Works -> Nat]
  /\ owed \in [Flushers -> [Works -> 0 .. MaxQueued]] /\ overlapped \in [Works -> BOOLEAN]
  /\ wpc \in {"func", "done", "wake"} => work \in Items

InFlush == {"prepare", "test", "schedule", "dec"}
FlushersOf(w) == {f \in Flushers : fpc[f] \in InFlush /\ target[f] = w}

WorkerAwake == work_list # << >> /\ wpc \in {"schedule", "off"} => wstate = "running"

\* atomic_t flushing counts the callers of flush_kthread_work(), of which those that are
\* about to sleep or asleep are on the wait queue.
FlushingCounted == \A w \in Works : flushing[w] = Cardinality(FlushersOf(w))
FlushersWait ==
  \A f \in Flushers :
    /\ fpc[f] \in InFlush \cup {"inc"} => target[f] \in Works
    /\ fpc[f] \in {"test", "schedule"} => f \in waiting

\* wake_up_all() comes before a flusher sleeps on a condition that holds.
FlushWakePending ==
  \A f \in Flushers :
    fpc[f] = "schedule" /\ fstate[f] = "sleeping" /\ NotAfter(seq[f], done_seq[target[f]])
    => wpc = "wake" /\ work = target[f]

Number(n) == (FirstSeq + n) % IntRange
InFunc(w) == work = w /\ wpc = "func"
One(b) == IF b THEN 1 ELSE 0

\* A work that was queued has run, is running or is on the list, and if it is both running
\* and on the list it has overlapped.
WorksCounted ==
  \A w \in Works :
    /\ completed[w] + One(InFunc(w)) + One(w \in Linked(work_list)) = queued[w]
    /\ Executing(w) /\ w \in Linked(work_list) => overlapped[w]

\* The numbers of a work: queue_seq is that of the last queueing, and done_seq that of one
\* whose execution has ended, unless it has overlapped.
SeqNumbers ==
  \A w \in Works :
    /\ queue_seq[w] = Number(queued[w])
    /\ \E d \in 0 .. queued[w] : done_seq[w] = Number(d) /\ (d <= completed[w] \/ overlapped[w])

\* What a caller of flush_kthread_work() waits for.
FlushesOwed ==
  \A f \in Flushers :
    /\ fpc[f] = "idle" => \A w \in Works : owed[f][w] = 0
    /\ fpc[f] \in InFlush \cup {"inc"} =>
         /\ seq[f] = Number(owed[f][target[f]])
         /\ \A w \in Works \ {target[f]} : owed[f][w] = 0
    /\ fpc[f] \in {"dec", "returned"} =>
         \A w \in Works : owed[f][w] <= completed[w] \/ (target[f] = w /\ overlapped[w])

Ahead(w, f) == \E i, j \in DOMAIN work_list : i < j /\ work_list[i] = w /\ work_list[j] = f

\* The work of a caller of flush_kthread_worker() is behind what it waits for.
WorkerFlushesOwed ==
  \A f \in Flushers :
    /\ f \in Linked(work_list) =>
         /\ fpc[f] = "wait_worker" /\ fdone[f] = 0 /\ ~InFunc(f)
         /\ \A w \in Works : owed[f][w] <= completed[w] + One(InFunc(w)) + One(Ahead(w, f))
    /\ fpc[f] = "idle" => fdone[f] = 0 /\ ~InFunc(f)
    /\ fpc[f] = "wait_worker" /\ f \notin Linked(work_list) =>
         \A w \in Works : owed[f][w] <= completed[w]

WorkerInv ==
  /\ WorkerTypes /\ WorkerAwake /\ FlushingCounted /\ FlushersWait /\ FlushWakePending
  /\ WorksCounted /\ SeqNumbers /\ FlushesOwed /\ WorkerFlushesOwed

-----------------------------------------------------------------------------
\* Numbers of an int that are close together are compared as what they stand for.
LEMMA NumberNext ==
  ASSUME NEW n \in Nat, n < MaxQueued
  PROVE  (Number(n) + 1) % IntRange = Number(n + 1)
<1> DEFINE x == FirstSeq + n
<1>1. /\ x \in Nat /\ x + 1 < 2 * IntRange /\ IntRange \in Nat \ {0}
      /\ FirstSeq + (n + 1) = x + 1
  BY WorkerAssumption
<1> HIDE DEF x
<1>2. x % IntRange = IF x < IntRange THEN x ELSE x - IntRange
  BY <1>1
<1>3. (x + 1) % IntRange = IF x + 1 < IntRange THEN x + 1 ELSE x + 1 - IntRange
  BY <1>1
<1>4. \A y \in 0 .. IntRange - 1 : (y + 1) % IntRange = IF y + 1 < IntRange THEN y + 1 ELSE 0
  BY <1>1
<1>5. x % IntRange \in 0 .. IntRange - 1
  BY <1>1, <1>2
<1>6. ((x % IntRange) + 1) % IntRange = (x + 1) % IntRange
  BY <1>1, <1>2, <1>3, <1>4, <1>5
<1> QED BY <1>1, <1>6 DEF Number, x

LEMMA NumberOrder ==
  ASSUME NEW a \in 0 .. MaxQueued, NEW b \in 0 .. MaxQueued, NotAfter(Number(a), Number(b))
  PROVE  a <= b
<1> SUFFICES ASSUME b < a PROVE FALSE
  BY WorkerAssumption
<1> DEFINE R == IntRange  d == a - b
<1>1. /\ R \in Nat \ {0} /\ a \in Nat /\ b \in Nat /\ d \in Nat /\ 0 < d /\ 2 * d < R
      /\ FirstSeq \in 0 .. R - 1 /\ FirstSeq + a < 2 * R /\ FirstSeq + b < 2 * R
  BY WorkerAssumption
<1>2. Number(a) = IF FirstSeq + a < R THEN FirstSeq + a ELSE FirstSeq + a - R
  BY <1>1 DEF Number
<1>3. Number(b) = IF FirstSeq + b < R THEN FirstSeq + b ELSE FirstSeq + b - R
  BY <1>1 DEF Number
<1>4. Number(a) - Number(b) = d \/ Number(a) - Number(b) = d - R
  BY <1>1, <1>2, <1>3
<1>5. d % R = d /\ (d - R) % R = d
  BY <1>1
<1>6. (Number(a) - Number(b)) % R = d
  BY <1>4, <1>5
<1> QED BY <1>1, <1>6 DEF NotAfter

LEMMA FlushersFinite == \A w : IsFiniteSet(FlushersOf(w)) /\ Cardinality(FlushersOf(w)) \in Nat
<1> TAKE w
<1>1. FlushersOf(w) \subseteq Flushers /\ IsFiniteSet(Flushers)
  BY WorkerAssumption DEF FlushersOf
<1> QED BY <1>1, FS_Subset, FS_CardinalityType

\* Whoever is about to sleep or asleep is counted.
LEMMA CountedSleeper ==
  ASSUME WorkerTypes, FlushingCounted, FlushersWait, NEW f \in Flushers, fpc[f] \in InFlush
  PROVE  flushing[target[f]] > 0
<1>1. target[f] \in Works /\ f \in FlushersOf(target[f])
  BY DEF FlushersWait, FlushersOf
<1>2. flushing[target[f]] = Cardinality(FlushersOf(target[f]))
  BY <1>1 DEF FlushingCounted
<1>3. Cardinality(FlushersOf(target[f])) # 0
  BY <1>1, FlushersFinite, FS_EmptySet
<1> QED BY <1>2, <1>3, FlushersFinite

LEMMA WorkerStart == WorkerInit => WorkerInv
<1> SUFFICES ASSUME WorkerInit PROVE WorkerInv
  OBVIOUS
<1>1. Linked(work_list) = {} /\ Lists(work_list, {})
  BY DEF WorkerInit, Linked, Lists
<1>2. WorkerTypes
  <2> DEFINE first == [w \in Items |-> IF w \in Works THEN FirstSeq ELSE 0]
             none  == [w \in Works |-> 0]
  <2>1. first \in [Items -> 0 .. IntRange - 1]
    BY WorkerAssumption
  <2>2. none \in [Works -> 0 .. MaxQueued] /\ none \in [Works -> Nat] /\ none \in [Works -> Int]
    BY WorkerAssumption
  <2>3. /\ queue_seq = first /\ done_seq = first /\ flushing = none /\ completed = none
        /\ owed = [f \in Flushers |-> none]
    BY DEF WorkerInit
  <2> HIDE DEF first, none
  <2>4. owed \in [Flushers -> [Works -> 0 .. MaxQueued]]
    BY <2>2, <2>3
  <2>5. queued \in [Items -> 0 .. MaxQueued] /\ overlapped \in [Works -> BOOLEAN]
    BY WorkerAssumption DEF WorkerInit
  <2>6. /\ fpc \in [Flushers -> FlusherPlaces] /\ fstate \in [Flushers -> {"running", "sleeping"}]
        /\ seq \in [Flushers -> 0 .. IntRange - 1] /\ target \in [Flushers -> Works \cup {NoWork}]
        /\ waiting \subseteq Flushers /\ fdone \in [Flushers -> Int]
    BY WorkerAssumption DEF WorkerInit, FlusherPlaces
  <2>7. /\ wpc \in WorkerPlaces /\ wstate \in {"running", "sleeping"} /\ work \in Items \cup {NoWork}
        /\ wpc \notin {"func", "done", "wake"}
    BY DEF WorkerInit, WorkerPlaces
  <2> QED BY <1>1, <2>1, <2>2, <2>3, <2>4, <2>5, <2>6, <2>7 DEF WorkerTypes
<1>3. WorkerAwake /\ FlushersWait /\ FlushWakePending /\ FlushesOwed
  BY DEF WorkerInit, WorkerAwake, FlushersWait, FlushWakePending, FlushesOwed, InFlush
<1>4. FlushingCounted
  <2>1. \A w \in Works : FlushersOf(w) = {}
    BY DEF WorkerInit, FlushersOf, InFlush
  <2> QED BY <2>1, FS_EmptySet DEF WorkerInit, FlushingCounted
<1>5. WorksCounted
  BY <1>1 DEF WorkerInit, WorksCounted, InFunc, One, Executing, Items
<1>6. SeqNumbers
  <2>1. Number(0) = FirstSeq
    BY WorkerAssumption DEF Number
  <2>2. \A w \in Works : /\ queue_seq[w] = FirstSeq /\ done_seq[w] = FirstSeq
                         /\ queued[w] = 0 /\ completed[w] = 0 /\ 0 \in 0 .. queued[w]
    BY DEF WorkerInit, Items
  <2> QED BY <2>1, <2>2 DEF SeqNumbers
<1>7. WorkerFlushesOwed
  BY <1>1 DEF WorkerInit, WorkerFlushesOwed, InFunc
<1> QED BY <1>2, <1>3, <1>4, <1>5, <1>6, <1>7 DEF WorkerInv

-----------------------------------------------------------------------------
\* Steps of the worker that take and execute no work: what they change is where it is and
\* whether it runs.
Outside == {"repeat", "stop?", "pop", "schedule", "off", "exit"}

LEMMA WorkerMoves ==
  ASSUME WorkerInv, Repeat \/ StopTest \/ WorkerSchedule \/ (Pop /\ work_list = << >>) \/ SetStop
  PROVE  WorkerInv'
<1> USE DEF WorkerInv
<1>1. /\ UNCHANGED <<listVars, done_seq, flushing, fstate, flushVars, fdone, history>>
      /\ work' = work \/ work' = NoWork
      /\ (wpc \in Outside /\ wpc' \in Outside) \/ (wpc' = wpc /\ work' = work /\ wstate' = wstate)
      /\ wstate' \in {"running", "sleeping"}
  BY DEF Repeat, StopTest, WorkerSchedule, Pop, SetStop, listVars, workerVars, Outside, WorkerTypes
<1>2. WorkerTypes'
  BY <1>1 DEF WorkerTypes, Outside, WorkerPlaces, listVars, flushVars, history
<1>3. WorkerAwake'
  BY DEF WorkerAwake, Repeat, StopTest, WorkerSchedule, Pop, SetStop, listVars, workerVars, WorkerTypes
<1>4. FlushingCounted' /\ FlushersWait'
  BY <1>1 DEF FlushingCounted, FlushersOf, FlushersWait, flushVars
<1>5. FlushWakePending'
  BY <1>1 DEF FlushWakePending, Outside, flushVars
<1>6. \A w \in Items : InFunc(w)' = InFunc(w) /\ Executing(w)' = Executing(w)
  BY <1>1 DEF InFunc, Executing, Outside
<1>7. WorksCounted'
  BY <1>1, <1>6 DEF WorksCounted, listVars, history, Items, One
<1>8. SeqNumbers' /\ FlushesOwed'
  BY <1>1 DEF SeqNumbers, FlushesOwed, Number, listVars, flushVars, history
<1>9. \A w, f : Ahead(w, f)' = Ahead(w, f)
  BY <1>1 DEF Ahead, listVars
<1>10. WorkerFlushesOwed'
  BY <1>1, <1>6, <1>9 DEF WorkerFlushesOwed, listVars, flushVars, history, Items, One
<1> QED BY <1>2, <1>3, <1>4, <1>5, <1>7, <1>8, <1>10

LEMMA WakeStoppedKeeps ==
  ASSUME WorkerInv, WakeStopped
  PROVE  WorkerInv'
<1> USE DEF WorkerInv
<1>1. /\ UNCHANGED <<listVars, done_seq, flushing, wpc, work, fstate, flushVars, fdone, history>>
      /\ wstate' = "running"
  BY DEF WakeStopped
<1>2. WorkerTypes' /\ WorkerAwake' /\ FlushingCounted' /\ FlushersWait' /\ FlushWakePending'
  BY <1>1 DEF WorkerTypes, WorkerAwake, FlushingCounted, FlushersOf, FlushersWait, FlushWakePending,
     listVars, flushVars, history
<1>3. WorksCounted' /\ SeqNumbers' /\ FlushesOwed'
  BY <1>1 DEF WorksCounted, SeqNumbers, FlushesOwed, InFunc, Executing, Number, listVars, flushVars, history
<1>4. \A w, f : Ahead(w, f)' = Ahead(w, f) /\ InFunc(w)' = InFunc(w)
  BY <1>1 DEF Ahead, InFunc, listVars
<1>5. WorkerFlushesOwed'
  BY <1>1, <1>4 DEF WorkerFlushesOwed, listVars, flushVars, history
<1> QED BY <1>2, <1>3, <1>5

\* The work that is ahead of all others is taken: nothing is ahead of it.
LEMMA AheadOfFirst ==
  ASSUME Lists(work_list, Linked(work_list)), work_list # << >>, work_list' = Tail(work_list),
         NEW w, NEW f
  PROVE  /\ ~Ahead(w, Head(work_list))
         /\ Ahead(w, f) /\ w # Head(work_list) => Ahead(w, f)'
<1>1. /\ Head(work_list) = work_list[1] /\ Len(work_list) \in Nat /\ DOMAIN work_list = 1 .. Len(work_list)
      /\ 1 \in DOMAIN work_list
      /\ DOMAIN work_list' = 1 .. Len(work_list) - 1
      /\ \A i \in 1 .. Len(work_list) - 1 : work_list'[i] = work_list[i + 1]
  BY ListDelFirst DEF Lists
<1>2. ~Ahead(w, Head(work_list))
  <2> SUFFICES ASSUME NEW i \in DOMAIN work_list, NEW j \in DOMAIN work_list, i < j,
                      work_list[j] = Head(work_list)
               PROVE  FALSE
    BY DEF Ahead
  <2>1. j = 1
    BY <1>1 DEF Lists
  <2> QED BY <1>1, <2>1
<1>3. ASSUME Ahead(w, f), w # Head(work_list) PROVE Ahead(w, f)'
  <2>1. PICK i \in DOMAIN work_list, j \in DOMAIN work_list :
          i < j /\ work_list[i] = w /\ work_list[j] = f
    BY <1>3 DEF Ahead
  <2>2. i # 1
    BY <1>1, <1>3, <2>1
  <2>3. /\ i - 1 \in DOMAIN work_list' /\ j - 1 \in DOMAIN work_list' /\ i - 1 < j - 1
        /\ work_list'[i - 1] = w /\ work_list'[j - 1] = f
    BY <1>1, <2>1, <2>2
  <2> QED BY <2>3 DEF Ahead
<1> QED BY <1>2, <1>3

LEMMA PopKeeps ==
  ASSUME WorkerInv, Pop, work_list # << >>
  PROVE  WorkerInv'
<1> USE DEF WorkerInv
<1>1. /\ wpc = "pop" /\ wpc' = "func" /\ wstate' = "running"
      /\ work' = Head(work_list) /\ work_list' = Tail(work_list)
      /\ UNCHANGED <<queue_seq, queued, done_seq, flushing, fstate, flushVars, fdone, history>>
  BY DEF Pop
<1>2. /\ work' \in Linked(work_list) /\ Linked(work_list') = Linked(work_list) \ {work'}
      /\ Lists(work_list', Linked(work_list'))
  BY <1>1, LinkedDelFirst DEF WorkerTypes
<1>3. WorkerTypes'
  BY <1>1, <1>2 DEF WorkerTypes, WorkerPlaces, flushVars, history
<1>4. WorkerAwake' /\ FlushingCounted' /\ FlushersWait' /\ FlushWakePending' /\ FlushesOwed'
  BY <1>1 DEF WorkerAwake, FlushingCounted, FlushersOf, FlushersWait, FlushWakePending, FlushesOwed,
     Number, flushVars, history
<1>5. \A w \in Items : /\ ~InFunc(w) /\ ~Executing(w)
                       /\ InFunc(w)' <=> w = work'
                       /\ Executing(w)' <=> w = work'
  BY <1>1 DEF InFunc, Executing
<1>6. WorksCounted'
  <2> SUFFICES ASSUME NEW w \in Works
               PROVE  /\ completed'[w] + One(InFunc(w)') + One(w \in Linked(work_list')) = queued'[w]
                      /\ Executing(w)' /\ w \in Linked(work_list') => overlapped'[w]
    BY DEF WorksCounted
  <2>1. w \in Items /\ completed[w] \in Nat
    BY DEF Items, WorkerTypes
  <2>2. completed[w] + One(w \in Linked(work_list)) = queued[w]
    BY <1>5, <2>1 DEF WorksCounted, One
  <2> QED BY <1>1, <1>2, <1>5, <2>1, <2>2 DEF One, history
<1>7. SeqNumbers'
  BY <1>1 DEF SeqNumbers, Number, history
<1>8. WorkerFlushesOwed'
  <2> SUFFICES ASSUME NEW f \in Flushers
               PROVE  /\ f \in Linked(work_list') =>
                           /\ fpc'[f] = "wait_worker" /\ fdone'[f] = 0 /\ ~InFunc(f)'
                           /\ \A w \in Works :
                                owed'[f][w] <= completed'[w] + One(InFunc(w)') + One(Ahead(w, f)')
                      /\ fpc'[f] = "idle" => fdone'[f] = 0 /\ ~InFunc(f)'
                      /\ fpc'[f] = "wait_worker" /\ f \notin Linked(work_list') =>
                           \A w \in Works : owed'[f][w] <= completed'[w]
    BY DEF WorkerFlushesOwed
  <2>1. f \in Items /\ Works \subseteq Items /\ UNCHANGED <<fpc, fdone, owed, completed>>
    BY <1>1 DEF Items, flushVars, history
  <2>2. ASSUME NEW w \in Works PROVE owed[f][w] \in Nat /\ completed[w] \in Nat
    BY DEF WorkerTypes
  <2>3. ASSUME f \in Linked(work_list)
        PROVE  /\ fpc[f] = "wait_worker" /\ fdone[f] = 0
               /\ \A w \in Works : owed[f][w] <= completed[w] + One(Ahead(w, f))
    BY <1>5, <2>1, <2>2, <2>3 DEF WorkerFlushesOwed, One
  <2>4. ASSUME f \in Linked(work_list'), NEW w \in Works
        PROVE  owed[f][w] <= completed[w] + One(InFunc(w)') + One(Ahead(w, f)')
    <3>1. owed[f][w] <= completed[w] + One(Ahead(w, f))
      BY <1>2, <2>3, <2>4
    <3>2. CASE w = work'
      BY <1>5, <2>1, <2>2, <3>1, <3>2 DEF One
    <3>3. CASE w # work'
      <4>1. Ahead(w, f) => Ahead(w, f)'
        BY <1>1, <3>3, AheadOfFirst DEF WorkerTypes
      <4> QED BY <2>1, <2>2, <3>1, <4>1 DEF One
    <3> QED BY <3>2, <3>3
  <2>5. ASSUME f = work', NEW w \in Works PROVE owed[f][w] <= completed[w]
    <3>1. ~Ahead(w, f)
      BY <1>1, <2>5, AheadOfFirst DEF WorkerTypes
    <3> QED BY <1>2, <2>2, <2>3, <2>5, <3>1 DEF One
  <2>6. f \notin Linked(work_list) =>
          /\ fpc[f] = "idle" => fdone[f] = 0
          /\ fpc[f] = "wait_worker" => \A w \in Works : owed[f][w] <= completed[w]
    BY DEF WorkerFlushesOwed
  <2> QED BY <1>2, <1>5, <2>1, <2>3, <2>4, <2>5, <2>6
<1> QED BY <1>3, <1>4, <1>6, <1>7, <1>8

LEMMA FuncKeeps ==
  ASSUME WorkerInv, Func
  PROVE  WorkerInv'
<1> USE DEF WorkerInv
<1>1. /\ wpc = "func" /\ wpc' = "done" /\ work \in Items /\ NoWork \notin Items
      /\ UNCHANGED <<listVars, done_seq, flushing, wstate, work, fstate, flushVars, overlapped>>
  BY WorkerAssumption DEF Func, WorkerTypes, Items
<1>2. /\ completed' \in [Works -> Nat] /\ fdone' \in [Flushers -> Int]
      /\ \A w \in Works : completed'[w] = completed[w] + One(InFunc(w))
      /\ \A f \in Flushers : fdone'[f] = fdone[f] \/ InFunc(f)
      /\ \A w \in Works : completed[w] \in Nat
  BY <1>1, WorkerAssumption DEF Func, WorkerTypes, InFunc, One, Items
<1>3. WorkerTypes'
  BY <1>1, <1>2 DEF WorkerTypes, WorkerPlaces, listVars, flushVars
<1>4. WorkerAwake' /\ FlushingCounted' /\ FlushersWait' /\ FlushWakePending'
  BY <1>1 DEF WorkerAwake, FlushingCounted, FlushersOf, FlushersWait, FlushWakePending, listVars, flushVars
<1>5. \A w \in Items : ~InFunc(w)' /\ (Executing(w)' <=> Executing(w))
  BY <1>1 DEF InFunc, Executing
<1>6. WorksCounted'
  BY <1>1, <1>2, <1>5 DEF WorksCounted, One, listVars, Items
<1>7. SeqNumbers'
  <2> SUFFICES ASSUME NEW w \in Works
               PROVE  /\ queue_seq'[w] = Number(queued'[w])
                      /\ \E d \in 0 .. queued'[w] :
                           done_seq'[w] = Number(d) /\ (d <= completed'[w] \/ overlapped'[w])
    BY DEF SeqNumbers, Number
  <2>1. PICK d \in 0 .. queued[w] : done_seq[w] = Number(d) /\ (d <= completed[w] \/ overlapped[w])
    BY DEF SeqNumbers
  <2>2. d \in Int /\ (d <= completed[w] => d <= completed'[w])
    BY <1>2 DEF One
  <2> QED BY <1>1, <2>1, <2>2 DEF SeqNumbers, listVars
<1>8. FlushesOwed'
  <2>1. \A f \in Flushers, w \in Works :
          owed[f][w] \in Int /\ (owed[f][w] <= completed[w] => owed[f][w] <= completed'[w])
    <3>1. \A f \in Flushers, w \in Works : owed[f][w] \in Int
      BY WorkerAssumption DEF WorkerTypes
    <3> QED BY <1>2, <3>1 DEF One
  <2> QED BY <1>1, <2>1 DEF FlushesOwed, Number, flushVars
<1>9. WorkerFlushesOwed'
  <2>1. \A w, f : Ahead(w, f)' = Ahead(w, f)
    BY <1>1 DEF Ahead, listVars
  <2>2. \A f \in Flushers, w \in Works : owed[f][w] \in Int
    BY DEF WorkerTypes
  <2>3. ASSUME NEW f \in Flushers, InFunc(f) PROVE f \notin Linked(work_list) /\ fpc[f] # "idle"
    BY <2>3 DEF WorkerFlushesOwed
  <2>4. \A f \in Flushers : f \in Items
    BY DEF Items
  <2>5. ASSUME NEW f \in Flushers, NEW w \in Works
        PROVE  /\ f \in Linked(work_list) => owed[f][w] <= completed'[w] + One(InFunc(w)') + One(Ahead(w, f)')
               /\ fpc[f] = "wait_worker" /\ f \notin Linked(work_list) => owed[f][w] <= completed'[w]
    BY <1>2, <1>5, <2>1, <2>2 DEF WorkerFlushesOwed, One, Items
  <2> QED BY <1>1, <1>2, <1>5, <2>3, <2>4, <2>5 DEF WorkerFlushesOwed, listVars, flushVars
<1> QED BY <1>3, <1>4, <1>6, <1>7, <1>8, <1>9

\* done_seq becomes the number of the last queueing, whose execution has just ended.
LEMMA SetDoneKeeps ==
  ASSUME WorkerInv, SetDone
  PROVE  WorkerInv'
<1> USE DEF WorkerInv
<1>1. /\ wpc = "done" /\ wpc' = "wake" /\ work \in Items
      /\ done_seq' = [done_seq EXCEPT ![work] = queue_seq[work]]
      /\ UNCHANGED <<listVars, flushing, wstate, work, fstate, flushVars, fdone, history>>
  BY DEF SetDone, WorkerTypes
<1>2. /\ done_seq' \in [Items -> 0 .. IntRange - 1]
      /\ \A w \in Items : done_seq'[w] = IF w = work THEN queue_seq[w] ELSE done_seq[w]
  BY <1>1 DEF WorkerTypes
<1>3. WorkerTypes'
  BY <1>1, <1>2 DEF WorkerTypes, WorkerPlaces, listVars, flushVars, history
<1>4. WorkerAwake' /\ FlushingCounted' /\ FlushersWait'
  BY <1>1 DEF WorkerAwake, FlushingCounted, FlushersOf, FlushersWait, listVars, flushVars
<1>5. FlushWakePending'
  <2> SUFFICES ASSUME NEW f \in Flushers, fpc[f] = "schedule", fstate[f] = "sleeping",
                      NotAfter(seq[f], done_seq'[target[f]])
               PROVE  work = target[f]
    BY <1>1 DEF FlushWakePending, NotAfter, flushVars
  <2>1. target[f] \in Items
    BY DEF FlushersWait, InFlush, Items
  <2>2. ~NotAfter(seq[f], done_seq[target[f]])
    BY <1>1 DEF FlushWakePending
  <2> QED BY <1>2, <2>1, <2>2
<1>6. \A w \in Items : InFunc(w)' = InFunc(w) /\ ~Executing(w)' /\ ~InFunc(w)
  BY <1>1 DEF InFunc, Executing
<1>7. WorksCounted'
  BY <1>1, <1>6 DEF WorksCounted, listVars, history, Items, One
<1>8. SeqNumbers'
  <2> SUFFICES ASSUME NEW w \in Works
               PROVE  \E d \in 0 .. queued[w] : done_seq'[w] = Number(d) /\ (d <= completed[w] \/ overlapped[w])
    BY <1>1 DEF SeqNumbers, Number, listVars, history
  <2>1. w \in Items /\ queued[w] \in Nat /\ completed[w] \in Nat
    BY WorkerAssumption DEF Items, WorkerTypes
  <2>2. CASE w = work
    <3>1. done_seq'[w] = Number(queued[w])
      BY <1>2, <2>1, <2>2 DEF SeqNumbers
    <3>2. Executing(w)
      BY <1>1, <2>2 DEF Executing
    <3>3. queued[w] <= completed[w] \/ overlapped[w]
      BY <1>6, <2>1, <3>2 DEF WorksCounted, One
    <3> QED BY <2>1, <3>1, <3>3
  <2>3. CASE w # work
    BY <1>2, <2>1, <2>3 DEF SeqNumbers
  <2> QED BY <2>2, <2>3
<1>9. FlushesOwed'
  BY <1>1 DEF FlushesOwed, Number, flushVars, history
<1>10. \A w, f : Ahead(w, f)' = Ahead(w, f)
  BY <1>1 DEF Ahead, listVars
<1>11. WorkerFlushesOwed'
  BY <1>1, <1>6, <1>10 DEF WorkerFlushesOwed, listVars, flushVars, history, Items, One
<1> QED BY <1>3, <1>4, <1>5, <1>7, <1>8, <1>9, <1>11

\* wake_up_all(): "flushing" is not read as zero while somebody is about to sleep or asleep.
LEMMA WakeFlushersKeeps ==
  ASSUME WorkerInv, WakeFlushers
  PROVE  WorkerInv'
<1> USE DEF WorkerInv
<1>1. /\ wpc = "wake" /\ wpc' = "repeat"
      /\ fstate' = [f \in Flushers |->
           IF f \in waiting /\ target[f] = work /\ flushing[work] > 0 THEN "running" ELSE fstate[f]]
      /\ UNCHANGED <<listVars, done_seq, flushing, wstate, work, flushVars, fdone, history>>
  BY DEF WakeFlushers
<1>2. WorkerTypes'
  BY <1>1 DEF WorkerTypes, WorkerPlaces, listVars, flushVars, history
<1>3. WorkerAwake' /\ FlushingCounted' /\ FlushersWait'
  BY <1>1 DEF WorkerAwake, FlushingCounted, FlushersOf, FlushersWait, flushVars
<1>4. FlushWakePending'
  <2> SUFFICES ASSUME NEW f \in Flushers, fpc[f] = "schedule", fstate'[f] = "sleeping",
                      NotAfter(seq[f], done_seq[target[f]])
               PROVE  FALSE
    BY <1>1 DEF FlushWakePending, flushVars
  <2>1. fstate[f] = "sleeping" /\ ~(f \in waiting /\ target[f] = work /\ flushing[work] > 0)
    BY <1>1
  <2>2. work = target[f]
    BY <2>1 DEF FlushWakePending
  <2>3. f \in waiting /\ flushing[target[f]] > 0
    BY CountedSleeper DEF FlushersWait, InFlush
  <2> QED BY <2>1, <2>2, <2>3
<1>5. \A w \in Items : InFunc(w)' = InFunc(w) /\ ~Executing(w)' /\ ~InFunc(w)
  BY <1>1 DEF InFunc, Executing
<1>6. WorksCounted'
  BY <1>1, <1>5 DEF WorksCounted, listVars, history, Items, One
<1>7. SeqNumbers' /\ FlushesOwed'
  BY <1>1 DEF SeqNumbers, FlushesOwed, Number, listVars, flushVars, history
<1>8. \A w, f : Ahead(w, f)' = Ahead(w, f)
  BY <1>1 DEF Ahead, listVars
<1>9. WorkerFlushesOwed'
  BY <1>1, <1>5, <1>8 DEF WorkerFlushesOwed, listVars, flushVars, history, Items, One
<1> QED BY <1>2, <1>3, <1>4, <1>6, <1>7, <1>9

\* What is added to the list is behind all that is on it.
LEMMA AheadOfLast ==
  ASSUME Lists(work_list, Linked(work_list)), NEW x, work_list' = Append(work_list, x), NEW w, NEW f
  PROVE  /\ Ahead(w, f) => Ahead(w, f)'
         /\ w \in Linked(work_list) => Ahead(w, x)'
<1> DEFINE n == Len(work_list)
<1>1. /\ n \in Nat /\ DOMAIN work_list = 1 .. n /\ DOMAIN work_list' = 1 .. n + 1
      /\ work_list'[n + 1] = x /\ \A i \in 1 .. n : work_list'[i] = work_list[i]
  BY DEF Lists
<1> HIDE DEF n
<1>2. ASSUME Ahead(w, f) PROVE Ahead(w, f)'
  <2>1. PICK i \in DOMAIN work_list, j \in DOMAIN work_list :
          i < j /\ work_list[i] = w /\ work_list[j] = f
    BY <1>2 DEF Ahead
  <2>2. i \in DOMAIN work_list' /\ j \in DOMAIN work_list' /\ work_list'[i] = w /\ work_list'[j] = f
    BY <1>1, <2>1
  <2> QED BY <2>1, <2>2 DEF Ahead
<1>3. ASSUME w \in Linked(work_list) PROVE Ahead(w, x)'
  <2>1. PICK i \in DOMAIN work_list : work_list[i] = w
    BY <1>3 DEF Linked
  <2>2. /\ i \in DOMAIN work_list' /\ n + 1 \in DOMAIN work_list' /\ i < n + 1
        /\ work_list'[i] = w /\ work_list'[n + 1] = x
    BY <1>1, <2>1
  <2> QED BY <2>2 DEF Ahead
<1> QED BY <1>2, <1>3

\* What __queue_kthread_work() does, whoever calls it.
LEMMA EnqueueDoes ==
  ASSUME WorkerTypes, WorkerAwake, SeqNumbers, NEW x \in Items, Enqueue(x), wpc' = wpc
  PROVE  /\ x \notin Linked(work_list) /\ Linked(work_list') = Linked(work_list) \cup {x}
         /\ Lists(work_list', Linked(work_list')) /\ work_list' = Append(work_list, x)
         /\ queued' \in [Items -> 0 .. MaxQueued] /\ queue_seq' \in [Items -> 0 .. IntRange - 1]
         /\ \A w \in Items : queued'[w] = queued[w] + One(w = x)
         /\ \A w \in Works : queue_seq'[w] = Number(queued'[w])
         /\ WorkerAwake' /\ wstate' \in {"running", "sleeping"}
<1>1. x \notin Linked(work_list)
  BY DEF Enqueue, OnList, Linked
<1>2. queued[x] \in 0 .. MaxQueued /\ queued[x] < MaxQueued /\ MaxQueued \in Nat
  BY WorkerAssumption DEF Enqueue, WorkerTypes
<1>3. /\ queued' \in [Items -> 0 .. MaxQueued]
      /\ \A w \in Items : queued'[w] = queued[w] + One(w = x)
  <2>1. queued[x] + 1 \in 0 .. MaxQueued
    BY <1>2
  <2>2. \A w \in Items : queued[w] \in 0 .. MaxQueued /\ queued[w] + 0 = queued[w]
    BY <1>2 DEF WorkerTypes
  <2> QED BY <2>1, <2>2 DEF Enqueue, WorkerTypes, One
<1>4. /\ queue_seq' \in [Items -> 0 .. IntRange - 1]
      /\ \A w \in Items : queue_seq'[w] = IF w = x THEN (queue_seq[w] + 1) % IntRange ELSE queue_seq[w]
  BY WorkerAssumption DEF Enqueue, WorkerTypes
<1>5. ASSUME NEW w \in Works PROVE queue_seq'[w] = Number(queued'[w])
  <2>1. w \in Items /\ queue_seq[w] = Number(queued[w])
    BY DEF Items, SeqNumbers
  <2>2. CASE w = x
    BY <1>2, <1>3, <1>4, <2>1, <2>2, NumberNext DEF One
  <2>3. CASE w # x
    BY <1>3, <1>4, <2>1, <2>3 DEF One, Enqueue, WorkerTypes
  <2> QED BY <2>2, <2>3
<1>6. Linked(work_list') = Linked(work_list) \cup {x} /\ Lists(work_list', Linked(work_list'))
  BY <1>1, LinkedAddTail DEF Enqueue, WorkerTypes
<1>7. WorkerAwake' /\ wstate' \in {"running", "sleeping"}
  BY DEF WorkerAwake, Enqueue, WorkerTypes
<1> QED BY <1>1, <1>3, <1>4, <1>5, <1>6, <1>7 DEF Enqueue

LEMMA QueueKeeps ==
  ASSUME WorkerInv, NEW x \in Works, queue_kthread_work(x)
  PROVE  WorkerInv'
<1> USE DEF WorkerInv
<1>1. /\ x \in Items /\ Enqueue(x) /\ overlapped' = [overlapped EXCEPT ![x] = @ \/ Executing(x)]
      /\ UNCHANGED <<done_seq, flushing, wpc, work, fstate, flushVars, fdone, completed>>
  BY DEF queue_kthread_work, Items
<1>2. /\ x \notin Linked(work_list) /\ Linked(work_list') = Linked(work_list) \cup {x}
      /\ Lists(work_list', Linked(work_list')) /\ work_list' = Append(work_list, x)
      /\ queued' \in [Items -> 0 .. MaxQueued] /\ queue_seq' \in [Items -> 0 .. IntRange - 1]
      /\ \A w \in Items : queued'[w] = queued[w] + One(w = x)
      /\ \A w \in Works : queue_seq'[w] = Number(queued'[w])
      /\ WorkerAwake' /\ wstate' \in {"running", "sleeping"}
  BY <1>1, EnqueueDoes
<1>3. /\ overlapped' \in [Works -> BOOLEAN]
      /\ \A w \in Works : overlapped[w] => overlapped'[w]
      /\ Executing(x) => overlapped'[x]
  <2> DEFINE o == overlapped[x] \/ Executing(x)
  <2>1. o \in BOOLEAN
    BY DEF Executing, WorkerTypes
  <2>2. overlapped' = [overlapped EXCEPT ![x] = o] /\ (overlapped[x] => o) /\ (Executing(x) => o)
    BY <1>1
  <2> HIDE DEF o
  <2> QED BY <2>1, <2>2 DEF WorkerTypes
<1>4. WorkerTypes'
  <2>1. Linked(work_list') \subseteq Items
    BY <1>1, <1>2 DEF WorkerTypes
  <2> QED BY <1>1, <1>2, <1>3, <2>1 DEF WorkerTypes, flushVars
<1>5. FlushingCounted' /\ FlushersWait' /\ FlushWakePending'
  BY <1>1 DEF FlushingCounted, FlushersOf, FlushersWait, FlushWakePending, flushVars
<1>6. \A w \in Items : InFunc(w)' = InFunc(w) /\ Executing(w)' = Executing(w)
  BY <1>1 DEF InFunc, Executing
<1>7. ASSUME NEW w \in Works PROVE w \in Items /\ queued[w] \in Nat /\ completed[w] \in Nat
  BY WorkerAssumption DEF WorkerTypes, Items
<1>8. WorksCounted'
  <2> SUFFICES ASSUME NEW w \in Works
               PROVE  /\ completed[w] + One(InFunc(w)) + One(w \in Linked(work_list')) = queued'[w]
                      /\ Executing(w) /\ w \in Linked(work_list') => overlapped'[w]
    BY <1>1, <1>6, <1>7 DEF WorksCounted
  <2>1. /\ completed[w] + One(InFunc(w)) + One(w \in Linked(work_list)) = queued[w]
        /\ Executing(w) /\ w \in Linked(work_list) => overlapped[w]
    BY DEF WorksCounted
  <2>2. w \in Linked(work_list') <=> w = x \/ w \in Linked(work_list)
    BY <1>2
  <2> QED BY <1>2, <1>3, <1>7, <2>1, <2>2 DEF One
<1>9. SeqNumbers'
  <2> SUFFICES ASSUME NEW w \in Works
               PROVE  \E d \in 0 .. queued'[w] : done_seq[w] = Number(d) /\ (d <= completed[w] \/ overlapped'[w])
    BY <1>1, <1>2 DEF SeqNumbers, Number
  <2>1. PICK d \in 0 .. queued[w] : done_seq[w] = Number(d) /\ (d <= completed[w] \/ overlapped[w])
    BY DEF SeqNumbers
  <2>2. d \in 0 .. queued'[w]
    BY <1>2, <1>7, <2>1, SMTT(30) DEF One
  <2> QED BY <1>3, <2>1, <2>2
<1>10. FlushesOwed'
  <2>1. UNCHANGED <<fpc, seq, target, owed, completed>>
    BY <1>1 DEF flushVars
  <2> QED BY <1>3, <2>1 DEF FlushesOwed, Number
<1>11. WorkerFlushesOwed'
  <2>1. UNCHANGED <<fpc, owed, completed, fdone>>
    BY <1>1 DEF flushVars
  <2>2. ASSUME NEW f \in Flushers
        PROVE  f \in Items /\ (f \in Linked(work_list') <=> f \in Linked(work_list))
    BY <1>2, WorkerAssumption DEF Items
  <2>3. ASSUME NEW f \in Flushers, NEW w \in Works, f \in Linked(work_list)
        PROVE  owed[f][w] <= completed[w] + One(InFunc(w)) + One(Ahead(w, f)')
    <3>1. owed[f][w] <= completed[w] + One(InFunc(w)) + One(Ahead(w, f))
      BY <2>3 DEF WorkerFlushesOwed
    <3>2. Ahead(w, f) => Ahead(w, f)'
      BY <1>2, AheadOfLast DEF WorkerTypes
    <3>3. owed[f][w] \in Int
      BY WorkerAssumption DEF WorkerTypes
    <3> QED BY <1>7, <3>1, <3>2, <3>3 DEF One
  <2> QED BY <1>6, <1>7, <2>1, <2>2, <2>3 DEF WorkerFlushesOwed
<1> QED BY <1>2, <1>4, <1>5, <1>8, <1>9, <1>10, <1>11

\* flush_kthread_worker() queues its work behind all that was queued before it.
LEMMA FlushWorkerKeeps ==
  ASSUME WorkerInv, NEW x \in Flushers, FlushWorker(x)
  PROVE  WorkerInv'
<1> USE DEF WorkerInv
<1> DEFINE all == [w \in Works |-> queued[w]]
<1>1. /\ x \in Items /\ x \notin Works /\ Enqueue(x) /\ fpc[x] = "idle"
      /\ fpc' = [fpc EXCEPT ![x] = "wait_worker"] /\ owed' = [owed EXCEPT ![x] = all]
      /\ UNCHANGED <<done_seq, flushing, wpc, work, fstate, seq, target, waiting, fdone, history>>
  BY WorkerAssumption DEF FlushWorker, Items
<1>2. /\ x \notin Linked(work_list) /\ Linked(work_list') = Linked(work_list) \cup {x}
      /\ Lists(work_list', Linked(work_list')) /\ work_list' = Append(work_list, x)
      /\ queued' \in [Items -> 0 .. MaxQueued] /\ queue_seq' \in [Items -> 0 .. IntRange - 1]
      /\ \A w \in Items : queued'[w] = queued[w] + One(w = x)
      /\ \A w \in Works : queue_seq'[w] = Number(queued'[w])
      /\ WorkerAwake' /\ wstate' \in {"running", "sleeping"}
  BY <1>1, EnqueueDoes
<1>3. all \in [Works -> 0 .. MaxQueued]
  BY DEF WorkerTypes, Items
<1>4. \A w \in Works : all[w] = queued[w]
  OBVIOUS
<1> HIDE DEF all
<1>5. /\ \A f \in Flushers : fpc'[f] = IF f = x THEN "wait_worker" ELSE fpc[f]
      /\ \A f \in Flushers : owed'[f] = IF f = x THEN all ELSE owed[f]
      /\ fpc' \in [Flushers -> FlusherPlaces] /\ owed' \in [Flushers -> [Works -> 0 .. MaxQueued]]
  BY <1>1, <1>3 DEF WorkerTypes, FlusherPlaces
<1>6. WorkerTypes'
  <2>1. Linked(work_list') \subseteq Items
    BY <1>1, <1>2 DEF WorkerTypes
  <2> QED BY <1>1, <1>2, <1>5, <2>1 DEF WorkerTypes, history
<1>7. FlushersWait' /\ FlushWakePending'
  BY <1>1, <1>5 DEF FlushersWait, FlushWakePending, NotAfter, InFlush
<1>8. FlushingCounted'
  <2>1. ASSUME NEW w PROVE FlushersOf(w)' = FlushersOf(w)
    BY <1>1, <1>5 DEF FlushersOf, InFlush
  <2> QED BY <1>1, <2>1 DEF FlushingCounted
<1>9. \A w \in Items : InFunc(w)' = InFunc(w) /\ Executing(w)' = Executing(w)
  BY <1>1 DEF InFunc, Executing
<1>10. ASSUME NEW w \in Works
       PROVE  /\ w \in Items /\ w # x /\ queued[w] \in Nat /\ completed[w] \in Nat /\ queued'[w] = queued[w]
              /\ (w \in Linked(work_list') <=> w \in Linked(work_list))
  <2>1. w \in Items /\ w # x /\ queued[w] \in Nat /\ completed[w] \in Nat
    BY <1>1, WorkerAssumption DEF WorkerTypes, Items
  <2> QED BY <1>2, <2>1 DEF One
<1>11. WorksCounted'
  BY <1>1, <1>9, <1>10 DEF WorksCounted, One, history
<1>12. SeqNumbers'
  BY <1>1, <1>2, <1>10 DEF SeqNumbers, Number, history
<1>13. FlushesOwed'
  BY <1>1, <1>5 DEF FlushesOwed, InFlush, Number, history
<1>14. WorkerFlushesOwed'
  <2> SUFFICES ASSUME NEW f \in Flushers
               PROVE  /\ f \in Linked(work_list') =>
                           /\ fpc'[f] = "wait_worker" /\ fdone[f] = 0 /\ ~InFunc(f)
                           /\ \A w \in Works :
                                owed'[f][w] <= completed[w] + One(InFunc(w)) + One(Ahead(w, f)')
                      /\ fpc'[f] = "idle" => fdone[f] = 0 /\ ~InFunc(f)
                      /\ fpc'[f] = "wait_worker" /\ f \notin Linked(work_list') =>
                           \A w \in Works : owed'[f][w] <= completed[w]
    <3>1. \A f \in Flushers : f \in Items
      BY DEF Items
    <3>2. \A w \in Works : w \in Items
      BY DEF Items
    <3> QED BY <1>1, <1>9, <3>1, <3>2 DEF WorkerFlushesOwed, history
  <2>1. CASE f = x
    <3>1. ASSUME NEW w \in Works PROVE queued[w] <= completed[w] + One(InFunc(w)) + One(Ahead(w, f)')
      <4>1. completed[w] + One(InFunc(w)) + One(w \in Linked(work_list)) = queued[w]
        BY DEF WorksCounted
      <4>2. w \in Linked(work_list) => Ahead(w, f)'
        BY <1>2, <2>1, AheadOfLast DEF WorkerTypes
      <4> QED BY <1>10, <4>1, <4>2 DEF One
    <3> QED BY <1>1, <1>2, <1>4, <1>5, <2>1, <3>1 DEF WorkerFlushesOwed
  <2>2. CASE f # x
    <3>1. /\ fpc'[f] = fpc[f] /\ owed'[f] = owed[f]
          /\ (f \in Linked(work_list') <=> f \in Linked(work_list))
      BY <1>2, <1>5, <2>2
    <3>2. ASSUME NEW w \in Works, f \in Linked(work_list)
          PROVE  owed[f][w] <= completed[w] + One(InFunc(w)) + One(Ahead(w, f)')
      <4>1. owed[f][w] <= completed[w] + One(InFunc(w)) + One(Ahead(w, f))
        BY <3>2 DEF WorkerFlushesOwed
      <4>2. Ahead(w, f) => Ahead(w, f)'
        BY <1>2, AheadOfLast DEF WorkerTypes
      <4>3. owed[f][w] \in Int
        BY WorkerAssumption DEF WorkerTypes
      <4> QED BY <1>10, <4>1, <4>2, <4>3 DEF One
    <3> QED BY <3>1, <3>2 DEF WorkerFlushesOwed
  <2> QED BY <2>1, <2>2
<1> QED BY <1>2, <1>6, <1>7, <1>8, <1>11, <1>12, <1>13, <1>14

\* The other steps of a flusher leave the worker alone.
LEMMA OnlyFlusher ==
  ASSUME WorkerTypes, UNCHANGED <<listVars, workerVars, history>>
  PROVE  /\ WorkerAwake => WorkerAwake'
         /\ WorksCounted => WorksCounted'
         /\ SeqNumbers /\ done_seq' = done_seq => SeqNumbers'
         /\ \A w, f : Ahead(w, f)' = Ahead(w, f) /\ InFunc(w)' = InFunc(w)
<1>1. WorkerAwake => WorkerAwake'
  BY DEF WorkerAwake, listVars, workerVars
<1>2. WorksCounted => WorksCounted'
  BY DEF WorksCounted, InFunc, Executing, listVars, workerVars, history
<1>3. SeqNumbers /\ done_seq' = done_seq => SeqNumbers'
  BY DEF SeqNumbers, Number, listVars, history
<1>4. \A w, f : Ahead(w, f)' = Ahead(w, f) /\ InFunc(w)' = InFunc(w)
  BY DEF Ahead, InFunc, listVars, workerVars
<1> QED BY <1>1, <1>2, <1>3, <1>4

LEMMA FlushBeginKeeps ==
  ASSUME WorkerInv, NEW x \in Flushers, NEW t \in Works, FlushBegin(x, t)
  PROVE  WorkerInv'
<1> USE DEF WorkerInv
<1>1. /\ fpc[x] = "idle" /\ fpc' = [fpc EXCEPT ![x] = "inc"]
      /\ seq' = [seq EXCEPT ![x] = queue_seq[t]] /\ target' = [target EXCEPT ![x] = t]
      /\ owed' = [owed EXCEPT ![x][t] = queued[t]] /\ t \in Items
      /\ UNCHANGED <<listVars, done_seq, flushing, workerVars, fstate, waiting, fdone, history>>
  BY DEF FlushBegin, Items
<1>2. /\ seq' \in [Flushers -> 0 .. IntRange - 1] /\ target' \in [Flushers -> Works \cup {NoWork}]
      /\ fpc' \in [Flushers -> FlusherPlaces] /\ owed' \in [Flushers -> [Works -> 0 .. MaxQueued]]
      /\ \A w \in Works : owed'[x][w] = IF w = t THEN queued[t] ELSE owed[x][w]
      /\ \A f \in Flushers \ {x} : /\ fpc'[f] = fpc[f] /\ seq'[f] = seq[f] /\ target'[f] = target[f]
                                   /\ owed'[f] = owed[f]
      /\ fpc'[x] = "inc" /\ seq'[x] = queue_seq[t] /\ target'[x] = t
  BY <1>1 DEF WorkerTypes, FlusherPlaces
<1>3. WorkerTypes'
  BY <1>1, <1>2 DEF WorkerTypes, listVars, workerVars, history
<1>4. FlushersWait' /\ FlushWakePending'
  BY <1>1, <1>2 DEF FlushersWait, FlushWakePending, InFlush, NotAfter, workerVars
<1>5. FlushingCounted'
  <2>1. ASSUME NEW w PROVE FlushersOf(w)' = FlushersOf(w)
    BY <1>1, <1>2 DEF FlushersOf, InFlush
  <2> QED BY <1>1, <2>1 DEF FlushingCounted
<1>6. FlushesOwed'
  <2>1. seq'[x] = Number(owed'[x][t]) /\ \A w \in Works \ {t} : owed'[x][w] = 0
    BY <1>1, <1>2 DEF FlushesOwed, SeqNumbers
  <2> QED BY <1>1, <1>2, <2>1 DEF FlushesOwed, InFlush, Number, history
<1>7. WorkerFlushesOwed'
  <2>1. \A w, f : Ahead(w, f)' = Ahead(w, f) /\ InFunc(w)' = InFunc(w)
    BY <1>1, OnlyFlusher
  <2>2. x \notin Linked(work_list)
    BY <1>1 DEF WorkerFlushesOwed
  <2>3. UNCHANGED <<work_list, completed, fdone>>
    BY <1>1 DEF listVars, history
  <2> QED BY <1>2, <2>1, <2>2, <2>3 DEF WorkerFlushesOwed
<1> QED BY <1>1, <1>3, <1>4, <1>5, <1>6, <1>7, OnlyFlusher

\* wait_event(): the condition holds when the work has been executed, or has overlapped.
LEMMA FlushWaitKeeps ==
  ASSUME WorkerInv, NEW x \in Flushers, FlushPrepare(x) \/ FlushTest(x) \/ FlushSchedule(x)
  PROVE  WorkerInv'
<1> USE DEF WorkerInv
<1>1. /\ fpc[x] \in InFlush \ {"dec"} /\ fpc'[x] \in InFlush
      /\ fpc' = [fpc EXCEPT ![x] = fpc'[x]] /\ fstate' = [fstate EXCEPT ![x] = fstate'[x]]
      /\ fstate'[x] \in {"running", "sleeping"} /\ waiting' \subseteq Flushers
      /\ \A f \in Flushers \ {x} : f \in waiting <=> f \in waiting'
      /\ fpc'[x] \in {"test", "schedule"} => x \in waiting'
      /\ UNCHANGED <<listVars, done_seq, flushing, workerVars, seq, target, owed, fdone, history>>
  BY DEF FlushPrepare, FlushTest, FlushSchedule, WorkerTypes, InFlush, FlushersWait
<1>2. /\ fpc' \in [Flushers -> FlusherPlaces] /\ fstate' \in [Flushers -> {"running", "sleeping"}]
      /\ \A f \in Flushers \ {x} : fpc'[f] = fpc[f] /\ fstate'[f] = fstate[f]
  <2>1. fpc'[x] \in FlusherPlaces /\ fpc \in [Flushers -> FlusherPlaces]
        /\ fstate \in [Flushers -> {"running", "sleeping"}]
    BY <1>1 DEF WorkerTypes, FlusherPlaces, InFlush
  <2> QED BY <1>1, <2>1
<1>3. WorkerTypes'
  BY <1>1, <1>2 DEF WorkerTypes, listVars, workerVars, history
<1>4. FlushersWait'
  BY <1>1, <1>2 DEF FlushersWait, InFlush
<1>5. FlushWakePending'
  <2>1. fpc'[x] = "schedule" => ~NotAfter(seq[x], done_seq[target[x]])
    BY <1>1 DEF FlushPrepare, FlushTest, FlushSchedule, WorkerTypes
  <2> QED BY <1>1, <1>2, <2>1 DEF FlushWakePending, NotAfter, workerVars
<1>6. FlushingCounted'
  <2>1. ASSUME NEW w PROVE FlushersOf(w)' = FlushersOf(w)
    BY <1>1, <1>2 DEF FlushersOf
  <2> QED BY <1>1, <2>1 DEF FlushingCounted
<1>7. FlushesOwed'
  <2>1. target[x] \in Works /\ seq[x] = Number(owed[x][target[x]])
        /\ \A w \in Works \ {target[x]} : owed[x][w] = 0
    BY <1>1 DEF FlushesOwed, FlushersWait
  <2>2. ASSUME fpc'[x] = "dec", NEW w \in Works
        PROVE  owed[x][w] <= completed[w] \/ (target[x] = w /\ overlapped[w])
    <3>1. NotAfter(seq[x], done_seq[target[x]])
      BY <1>1, <2>2 DEF FlushPrepare, FlushTest, FlushSchedule, WorkerTypes
    <3>2. CASE w = target[x]
      <4>1. PICK d \in 0 .. queued[w] : done_seq[w] = Number(d) /\ (d <= completed[w] \/ overlapped[w])
        BY DEF SeqNumbers
      <4>2. d \in 0 .. MaxQueued /\ owed[x][w] \in 0 .. MaxQueued /\ completed[w] \in Nat
        BY WorkerAssumption, <4>1 DEF WorkerTypes, Items
      <4>3. owed[x][w] <= d
        BY <2>1, <3>1, <3>2, <4>1, <4>2, NumberOrder
      <4> QED BY <3>2, <4>1, <4>2, <4>3
    <3>3. CASE w # target[x]
      BY <2>1, <3>3 DEF WorkerTypes
    <3> QED BY <3>2, <3>3
  <2> QED BY <1>1, <1>2, <2>1, <2>2 DEF FlushesOwed, InFlush, Number, history
<1>8. WorkerFlushesOwed'
  <2>1. \A w, f : Ahead(w, f)' = Ahead(w, f) /\ InFunc(w)' = InFunc(w)
    BY <1>1, OnlyFlusher
  <2>2. x \notin Linked(work_list) /\ fpc'[x] \notin {"idle", "wait_worker"}
    BY <1>1 DEF WorkerFlushesOwed, InFlush
  <2>3. UNCHANGED <<work_list, completed, fdone, owed>>
    BY <1>1 DEF listVars, history
  <2> QED BY <1>2, <2>1, <2>2, <2>3 DEF WorkerFlushesOwed
<1> QED BY <1>1, <1>3, <1>4, <1>5, <1>6, <1>7, <1>8, OnlyFlusher

\* "flushing" is raised and lowered by the caller it counts.
LEMMA FlushCountKeeps ==
  ASSUME WorkerInv, NEW x \in Flushers, FlushInc(x) \/ FlushDec(x)
  PROVE  WorkerInv'
<1> USE DEF WorkerInv
<1> SUFFICES ASSUME NEW t, t = target[x] PROVE WorkerInv'
  OBVIOUS
<1>1. /\ t \in Works
      /\ \/ fpc[x] = "inc" /\ fpc'[x] = "prepare" /\ flushing' = [flushing EXCEPT ![t] = @ + 1]
         \/ fpc[x] = "dec" /\ fpc'[x] = "returned" /\ flushing' = [flushing EXCEPT ![t] = @ - 1]
      /\ fpc' = [fpc EXCEPT ![x] = fpc'[x]]
      /\ UNCHANGED <<listVars, done_seq, workerVars, fstate, seq, target, waiting, owed, fdone, history>>
  BY DEF FlushInc, FlushDec, WorkerTypes, InFlush, FlushersWait
<1>2. /\ fpc' \in [Flushers -> FlusherPlaces] /\ flushing' \in [Works -> Int]
      /\ \A f \in Flushers \ {x} : fpc'[f] = fpc[f]
      /\ \A w \in Works \ {t} : flushing'[w] = flushing[w]
  <2>1. fpc'[x] \in FlusherPlaces
    BY <1>1 DEF FlusherPlaces
  <2>2. fpc' \in [Flushers -> FlusherPlaces] /\ \A f \in Flushers \ {x} : fpc'[f] = fpc[f]
    BY <1>1, <2>1 DEF WorkerTypes
  <2>3. flushing' \in [Works -> Int] /\ \A w \in Works \ {t} : flushing'[w] = flushing[w]
    BY <1>1 DEF WorkerTypes
  <2> QED BY <2>2, <2>3
<1>3. WorkerTypes'
  BY <1>1, <1>2 DEF WorkerTypes, listVars, workerVars, history
<1>4. FlushersWait' /\ FlushWakePending'
  BY <1>1, <1>2 DEF FlushersWait, FlushWakePending, InFlush, NotAfter, workerVars
<1>5. FlushingCounted'
  <2>1. \A w : w # t => FlushersOf(w)' = FlushersOf(w)
    BY <1>1, <1>2 DEF FlushersOf
  <2>2. flushing[t] = Cardinality(FlushersOf(t)) /\ flushing[t] \in Int
    BY <1>1 DEF FlushingCounted, WorkerTypes
  <2>3. flushing'[t] = Cardinality(FlushersOf(t)')
    <3>1. CASE fpc[x] = "inc"
      <4>1. x \notin FlushersOf(t) /\ FlushersOf(t)' = FlushersOf(t) \cup {x}
        BY <1>1, <1>2, <3>1 DEF FlushersOf, InFlush
      <4>2. Cardinality(FlushersOf(t)') = Cardinality(FlushersOf(t)) + 1
        BY <4>1, FlushersFinite, FS_AddElement
      <4> QED BY <1>1, <2>2, <3>1, <4>2 DEF WorkerTypes
    <3>2. CASE fpc[x] = "dec"
      <4>1. x \in FlushersOf(t) /\ FlushersOf(t)' = FlushersOf(t) \ {x}
        BY <1>1, <1>2, <3>2 DEF FlushersOf, InFlush
      <4>2. Cardinality(FlushersOf(t)') = Cardinality(FlushersOf(t)) - 1
        BY <4>1, FlushersFinite, FS_RemoveElement
      <4> QED BY <1>1, <2>2, <3>2, <4>2 DEF WorkerTypes
    <3> QED BY <1>1, <3>1, <3>2
  <2>4. ASSUME NEW w \in Works PROVE flushing'[w] = Cardinality(FlushersOf(w)')
    <3>1. CASE w = t
      BY <2>3, <3>1
    <3>2. CASE w # t
      <4>1. FlushersOf(w)' = FlushersOf(w)
        BY <2>1, <3>2
      <4>2. flushing'[w] = flushing[w] /\ flushing[w] = Cardinality(FlushersOf(w))
        BY <1>2, <3>2 DEF FlushingCounted
      <4> QED BY <4>1, <4>2
    <3> QED BY <3>1, <3>2
  <2> QED BY <2>4 DEF FlushingCounted
<1>6. FlushesOwed'
  BY <1>1, <1>2 DEF FlushesOwed, InFlush, Number, history
<1>7. WorkerFlushesOwed'
  <2>1. \A w, f : Ahead(w, f)' = Ahead(w, f) /\ InFunc(w)' = InFunc(w)
    BY <1>1, OnlyFlusher
  <2>2. x \notin Linked(work_list) /\ fpc'[x] \notin {"idle", "wait_worker"}
    BY <1>1 DEF WorkerFlushesOwed
  <2>3. UNCHANGED <<work_list, completed, fdone, owed>>
    BY <1>1 DEF listVars, history
  <2> QED BY <1>2, <2>1, <2>2, <2>3 DEF WorkerFlushesOwed
<1> QED BY <1>1, <1>3, <1>4, <1>5, <1>6, <1>7, OnlyFlusher

LEMMA FlushWorkerDoneKeeps ==
  ASSUME WorkerInv, NEW x \in Flushers, FlushWorkerDone(x)
  PROVE  WorkerInv'
<1> USE DEF WorkerInv
<1>1. /\ fpc[x] = "wait_worker" /\ fdone[x] > 0 /\ fdone[x] \in Int
      /\ fpc' = [fpc EXCEPT ![x] = "returned"] /\ fdone' = [fdone EXCEPT ![x] = @ - 1]
      /\ UNCHANGED <<listVars, done_seq, flushing, workerVars, fstate, seq, target, waiting, owed, history>>
  BY DEF FlushWorkerDone, WorkerTypes
<1>2. /\ fpc' \in [Flushers -> FlusherPlaces] /\ fdone' \in [Flushers -> Int]
      /\ \A f \in Flushers \ {x} : fpc'[f] = fpc[f] /\ fdone'[f] = fdone[f]
      /\ fpc'[x] = "returned"
  BY <1>1 DEF WorkerTypes, FlusherPlaces
<1>3. WorkerTypes'
  BY <1>1, <1>2 DEF WorkerTypes, listVars, workerVars, history
<1>4. FlushersWait' /\ FlushWakePending'
  BY <1>1, <1>2 DEF FlushersWait, FlushWakePending, InFlush, NotAfter, workerVars
<1>5. FlushingCounted'
  <2>1. ASSUME NEW w PROVE FlushersOf(w)' = FlushersOf(w)
    BY <1>1, <1>2 DEF FlushersOf, InFlush
  <2> QED BY <1>1, <2>1 DEF FlushingCounted
<1>6. x \notin Linked(work_list) /\ \A w \in Works : owed[x][w] <= completed[w]
  BY <1>1 DEF WorkerFlushesOwed
<1>7. FlushesOwed'
  BY <1>1, <1>2, <1>6 DEF FlushesOwed, InFlush, Number, history
<1>8. WorkerFlushesOwed'
  <2>1. \A w, f : Ahead(w, f)' = Ahead(w, f) /\ InFunc(w)' = InFunc(w)
    BY <1>1, OnlyFlusher
  <2>2. UNCHANGED <<work_list, completed, owed>>
    BY <1>1 DEF listVars, history
  <2> QED BY <1>2, <1>6, <2>1, <2>2 DEF WorkerFlushesOwed
<1> QED BY <1>1, <1>3, <1>4, <1>5, <1>7, <1>8, OnlyFlusher

LEMMA WorkerKeeps == WorkerInv /\ WorkerNext => WorkerInv'
<1> SUFFICES ASSUME WorkerInv, WorkerNext PROVE WorkerInv'
  OBVIOUS
<1>1. CASE kthread_worker_fn
  BY <1>1, WorkerMoves, PopKeeps, FuncKeeps, SetDoneKeeps, WakeFlushersKeeps DEF kthread_worker_fn
<1>2. CASE SetStop \/ WakeStopped
  BY <1>2, WorkerMoves, WakeStoppedKeeps
<1>3. CASE \E w \in Works : queue_kthread_work(w)
  BY <1>3, QueueKeeps
<1>4. CASE \E f \in Flushers : (\E w \in Works : FlushBegin(f, w)) \/ FlushWorker(f) \/ Flusher(f)
  <2>1. PICK f \in Flushers : (\E w \in Works : FlushBegin(f, w)) \/ FlushWorker(f) \/ Flusher(f)
    BY <1>4
  <2>2. CASE Flusher(f)
    BY <2>2, FlushWaitKeeps, FlushCountKeeps, FlushWorkerDoneKeeps DEF Flusher
  <2> QED BY <2>1, <2>2, FlushBeginKeeps, FlushWorkerKeeps
<1> QED BY <1>1, <1>2, <1>3, <1>4 DEF WorkerNext

LEMMA WorkerSame == WorkerInv /\ UNCHANGED kworkerVars => WorkerInv'
<1> SUFFICES ASSUME WorkerInv, UNCHANGED kworkerVars PROVE WorkerInv'
  OBVIOUS
<1> USE DEF kworkerVars, listVars, workerVars, flushVars, history
<1>1. WorkerTypes' /\ WorkerAwake' /\ FlushingCounted' /\ FlushersWait' /\ FlushWakePending'
  BY DEF WorkerInv, WorkerTypes, WorkerAwake, FlushingCounted, FlushersOf, FlushersWait, FlushWakePending
<1>2. WorksCounted' /\ SeqNumbers' /\ FlushesOwed'
  BY DEF WorkerInv, WorksCounted, SeqNumbers, FlushesOwed, InFunc, Executing, Number
<1>3. \A w, f : Ahead(w, f)' = Ahead(w, f) /\ InFunc(w)' = InFunc(w)
  BY DEF Ahead, InFunc
<1>4. WorkerFlushesOwed'
  BY <1>3 DEF WorkerInv, WorkerFlushesOwed
<1> QED BY <1>1, <1>2, <1>4 DEF WorkerInv

-----------------------------------------------------------------------------
(* The whole module *)

LEMMA AlwaysThreads == ThreadsSpec => [](KthreadInv /\ WorkerInv)
<1>1. ThreadsInit => KthreadInv /\ WorkerInv
  BY KthreadStart, WorkerStart DEF ThreadsInit
<1>2. /\ KthreadInv /\ WorkerInv /\ [ThreadsNext]_<<part, kthreadVars, kworkerVars>>
      => KthreadInv' /\ WorkerInv'
  BY KthreadKeeps, KthreadSame, WorkerKeeps, WorkerSame DEF ThreadsNext
<1> QED BY <1>1, <1>2, PTL DEF ThreadsSpec

\* Nobody uses a creation request once its creator has returned from
\* kthread_create_on_node(), and kthread_bind() finds the thread off the CPU and its
\* function not run, for any number of creators.
THEOREM NobodyIsLate == ThreadsSpec => []NoLateAccess
<1>1. KthreadInv => NoLateAccess
  <2> SUFFICES ASSUME KthreadInv, NEW u \in Users
               PROVE  /\ Requested(u) \/ pc[u] \in {"start", "announce"} => upc[u] \in {"wake_kd", "wait"}
                      /\ upc[u] = "bind" => pc[u] = "off" /\ ~ran[u]
    BY DEF NoLateAccess, CreateInfoAlive, BindSafe, Requested, Linked
  <2>1. Creating(u) /\ Unwoken(u) /\ upc[u] \in UserPlaces
    BY DEF KthreadInv, UserInv, KthreadTypes
  <2> QED BY <2>1 DEF Creating, Unwoken, UserPlaces
<1> QED BY <1>1, AlwaysThreads, PTL

\* kthread_stop() never returns before the thread has set its exit code, and returns that
\* code, -EINTR exactly when the thread function has not run.
THEOREM StopGivesTheExitCode == ThreadsSpec => []StopReturnsResult
<1>1. KthreadInv => StopReturnsResult
  BY DEF KthreadInv, UserInv, Exiting, StopReturnsResult
<1> QED BY <1>1, AlwaysThreads, PTL

\* The worker never sleeps on a non-empty list, and a flusher of flush_kthread_work() asleep
\* on a condition that holds is about to be woken: the barriers around "flushing" and
\* done_seq suffice, whatever the number of works and flushers.
THEOREM NoWakeUpIsLost == ThreadsSpec => []WakeUpsPending
<1>1. WorkerInv => WakeUpsPending
  <2> SUFFICES ASSUME WorkerInv, NEW f \in Flushers, fpc[f] = "schedule", fstate[f] = "sleeping",
                      NotAfter(seq[f], done_seq[target[f]])
               PROVE  wpc = "wake" /\ work = target[f] /\ flushing[work] > 0
    BY DEF WorkerInv, WorkerAwake, WakeUpsPending
  <2> QED BY CountedSleeper DEF WorkerInv, FlushWakePending, InFlush
<1> QED BY <1>1, AlwaysThreads, PTL

\* A flush returns when every execution queued before it has ended, unless the work it waits
\* for was queued while it was executing, for any numbers of works, flushers and queueings
\* and across the overflow of the sequence numbers.
THEOREM FlushesAreComplete == ThreadsSpec => []FlushComplete
<1>1. WorkerInv => FlushComplete
  <2> SUFFICES ASSUME WorkerInv, NEW f \in Flushers, NEW w \in Works, fpc[f] = "returned"
               PROVE  completed[w] >= owed[f][w] \/ (target[f] = w /\ overlapped[w])
    BY DEF FlushComplete
  <2>1. completed[w] \in Nat /\ owed[f][w] \in 0 .. MaxQueued
    BY DEF WorkerInv, WorkerTypes
  <2> QED BY <2>1, WorkerAssumption DEF WorkerInv, FlushesOwed
<1> QED BY <1>1, AlwaysThreads, PTL

=============================================================================
