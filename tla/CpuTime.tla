------------------------------ MODULE CpuTime ------------------------------
(***************************************************************************)
(* CPU time accounting of the goldfish kernel (kernel/sched/core.c): a     *)
(* tick is accounted to the running task, to a field of kernel_cpustat and *)
(* to the task's cpuacct groups; execution time is accounted precisely,    *)
(* and what task_times() and thread_group_times() report is the precise    *)
(* time, split like the ticks and kept from going back.                    *)
(*                                                                         *)
(* The threads belong to one process.  thread_group_times() is called with *)
(* siglock held, task_times() with no lock: its accesses to the thread are *)
(* steps of their own.  thread_group_cputime(), which sums the threads up, *)
(* is external.  Time is in ticks.                                         *)
(***************************************************************************)
EXTENDS Integers, FiniteSetsExt, Sequences, SequencesExt

CONSTANTS
  Threads, Niced,   \* Niced: those with TASK_NICE(p) > 0
  Callers, None,
  AcctRoot, AcctGroups,     \* cpuacct groups
  Parents,          \* their parents
  Contexts,         \* what a tick may interrupt beside user code
  CputimeMax,       \* cputime_t counts modulo this
  MaxTicks, MaxExec, MaxCalls, MaxMoves  \* bounds; a behaviour has calls or moves

VARIABLES
  thread,     \* see Thread
  sig,        \* prev_utime and prev_stime of the process
  call,       \* what a caller is in the middle of, see Call
  siglock,
  cpustat,    \* kernel_cpustat and the groups' copies of it
  cpuusage, ca,
  done        \* ticks, calls and moves so far

groupVars == <<cpustat, cpuusage, ca>>
callVars == <<sig, call, siglock>>
timeVars == <<thread, groupVars, callVars, done>>

Thread == [utime : Nat, stime : Nat, sum_exec_runtime : Nat, prev_utime : Nat, prev_stime : Nat]
SampledTimes == [utime : Nat, stime : Nat, rtime : Nat]
Call == [at : {"none", "stime", "rtime", "max", "write", "sum", "report"}, of : Threads \cup {None},
         left : SUBSET Threads, t : SampledTimes, max : Nat]
NoTimes == [utime |-> 0, stime |-> 0, rtime |-> 0]
NoCall == [at |-> "none", of |-> None, left |-> {}, t |-> NoTimes, max |-> 0]
Fields == {"user", "nice", "system", "irq", "softirq", "idle", "iowait"}
AllGroups == AcctGroups \cup {AcctRoot}
Larger(a, b) == IF a < b THEN b ELSE a

TimeInit ==
  /\ siglock = None
  /\ thread = [t \in Threads |-> [utime |-> 0, stime |-> 0, sum_exec_runtime |-> 0,
                                  prev_utime |-> 0, prev_stime |-> 0]]
  /\ sig = [prev_utime |-> 0, prev_stime |-> 0]
  /\ call = [c \in Callers |-> NoCall]
  /\ cpustat = [g \in AllGroups |-> [f \in Fields |-> 0]]
  /\ cpuusage = [g \in AllGroups |-> 0] /\ ca = [t \in Threads |-> AcctRoot]
  /\ done = [ticks |-> 0, calls |-> 0, moves |-> 0]

-----------------------------------------------------------------------------
(* cpuacct groups *)

\* a group and those above it; Parents gives a tree two deep
Upwards(g) == IF g = AcctRoot THEN {AcctRoot} ELSE {g, Parents[g], AcctRoot}

\* cpuacct_charge()
cpuacct_charge(t) == cpuusage' = [g \in AllGroups |-> cpuusage[g] + IF g \in Upwards(ca[t]) THEN 1 ELSE 0]

task_group_account_field(t, field) ==
  [g \in AllGroups |-> IF g \in Upwards(ca[t]) THEN [cpustat[g] EXCEPT ![field] = @ + 1] ELSE cpustat[g]]

\* a thread is attached to another group; what the old one counted stays there
Attach(t, g) ==
  /\ done.moves < MaxMoves /\ done.calls = 0 /\ done' = [done EXCEPT !.moves = @ + 1]
  /\ ca[t] # g /\ ca' = [ca EXCEPT ![t] = g]
  /\ UNCHANGED <<thread, callVars, cpustat, cpuusage>>

\* cpuusage_write(): only 0 may be written
cpuusage_write(g) ==
  /\ done.moves < MaxMoves /\ done.calls = 0 /\ done' = [done EXCEPT !.moves = @ + 1]
  /\ cpuusage[g] # 0 /\ cpuusage' = [cpuusage EXCEPT ![g] = 0]
  /\ UNCHANGED <<thread, callVars, cpustat, ca>>

-----------------------------------------------------------------------------
(* Running and ticks *)

TotalExec == MapThenSumSet(LAMBDA t : thread[t].sum_exec_runtime, Threads)

\* its class charges the running thread, any of them, for its execution time
Exec(t) ==
  /\ TotalExec < MaxExec
  /\ thread' = [thread EXCEPT ![t].sum_exec_runtime = @ + 1]
  /\ cpuacct_charge(t)
  /\ UNCHANGED <<cpustat, ca, callVars, done>>

Tick == done.ticks < MaxTicks /\ done' = [done EXCEPT !.ticks = @ + 1]

account_user_time(t) ==
  /\ thread' = [thread EXCEPT ![t].utime = @ + 1]
  /\ cpustat' = task_group_account_field(t, IF t \in Niced THEN "nice" ELSE "user")

\* account_system_time(): what the tick interrupted
account_system_time(t, context) ==
  /\ thread' = [thread EXCEPT ![t].stime = @ + 1]
  /\ cpustat' = task_group_account_field(t, context)

account_idle_time(iowait) ==
  /\ cpustat' = [cpustat EXCEPT ![AcctRoot][IF iowait THEN "iowait" ELSE "idle"] = @ + 1]
  /\ UNCHANGED thread

\* in the kernel without a thread: account_idle_time()
account_process_tick ==
  /\ Tick
  /\ \/ \E t \in Threads : account_user_time(t)
     \/ \E t \in Threads, context \in Contexts : account_system_time(t, context)
     \/ \E iowait \in BOOLEAN : account_idle_time(iowait)
  /\ UNCHANGED <<cpuusage, ca, callVars>>

-----------------------------------------------------------------------------
(* Reporting *)

\* the precise time, split like the ticks
Utime(t) == IF t.utime + t.stime = 0 THEN t.rtime ELSE (t.rtime * t.utime) \div (t.utime + t.stime)
Sub(a, b) == (a - b) % CputimeMax

Begin == done.calls < MaxCalls /\ done.moves = 0 /\ done' = [done EXCEPT !.calls = @ + 1]

Go(c, next) == call' = [call EXCEPT ![c] = next]

\* task_times(), one access after the other
task_times(c) ==
  \/ \E t \in Threads :
       /\ call[c].at = "none" /\ Begin
       /\ Go(c, [NoCall EXCEPT !.at = "stime", !.of = t, !.t.utime = thread[t].utime])
       /\ UNCHANGED <<thread, sig, siglock>>
  \/ /\ call[c].at = "stime" /\ Go(c, [call[c] EXCEPT !.at = "rtime", !.t.stime = thread[call[c].of].stime])
     /\ UNCHANGED <<thread, sig, siglock, done>>
  \/ /\ call[c].at = "rtime"
     /\ Go(c, [call[c] EXCEPT !.at = "max", !.t.rtime = thread[call[c].of].sum_exec_runtime])
     /\ UNCHANGED <<thread, sig, siglock, done>>
  \/ /\ call[c].at = "max"
     /\ Go(c, [call[c] EXCEPT !.at = "write", !.max = Larger(thread[call[c].of].prev_utime, Utime(call[c].t))])
     /\ UNCHANGED <<thread, sig, siglock, done>>
  \/ /\ call[c].at = "write" /\ Go(c, NoCall)
     /\ thread' = [thread EXCEPT ![call[c].of].prev_utime = call[c].max,
                                 ![call[c].of].prev_stime = Larger(@, Sub(call[c].t.rtime, call[c].max))]
     /\ UNCHANGED <<sig, siglock, done>>

\* Mutant: the previous system time is not compared with.
StimeForgotten(ut, rtime) == [prev_utime |-> ut, prev_stime |-> Sub(rtime, ut)]

Reported(ut, rtime) == [prev_utime |-> ut, prev_stime |-> Larger(sig.prev_stime, Sub(rtime, ut))]

\* thread_group_times(), which sums the threads up one by one
thread_group_times(c) ==
  \/ /\ call[c].at = "none" /\ siglock = None /\ Begin
     /\ siglock' = c /\ Go(c, [NoCall EXCEPT !.at = "sum", !.left = Threads])
     /\ UNCHANGED sig
  \/ \E t \in call[c].left :
       /\ call[c].at = "sum"
       /\ Go(c, [call[c] EXCEPT !.left = @ \ {t}, !.at = IF call[c].left = {t} THEN "report" ELSE "sum",
                   !.t = [utime |-> @.utime + thread[t].utime, stime |-> @.stime + thread[t].stime,
                          rtime |-> @.rtime + thread[t].sum_exec_runtime]])
       /\ UNCHANGED <<sig, siglock, done>>
  \/ LET ut == Larger(sig.prev_utime, Utime(call[c].t))
     IN  /\ call[c].at = "report" /\ Go(c, NoCall) /\ siglock' = None
         /\ sig' = Reported(ut, call[c].t.rtime)
         /\ UNCHANGED done

TimeNext ==
  \/ \E t \in Threads : Exec(t)
  \/ account_process_tick
  \/ \E t \in Threads, g \in AllGroups : Attach(t, g)
  \/ \E g \in AllGroups : cpuusage_write(g)
  \/ \E c \in Callers : task_times(c) /\ UNCHANGED groupVars
  \/ \E c \in Callers : thread_group_times(c) /\ UNCHANGED <<thread, groupVars>>


-----------------------------------------------------------------------------
(* Properties *)

\* A group has counted at least what its children have, wherever threads were
\* attached meanwhile (task_group_account_field()).
GroupsNest ==
  \A g \in {Parents[h] : h \in AcctGroups} :
    LET below == {h \in AcctGroups : Parents[h] = g}
    IN  \A f \in Fields : cpustat[g][f] >= MapThenSumSet(LAMBDA h : cpustat[h][f], below)

\* Every tick is accounted to exactly one field of kernel_cpustat, and what is
\* not idle to utime or stime of one thread (account_process_tick()); and to
\* every group above the thread's.
TicksAccountedOnce ==
  LET all  == cpustat[AcctRoot]
      busy == all.user + all.nice + all.system + all.irq + all.softirq
  IN  /\ busy + all.idle + all.iowait = done.ticks
      /\ busy = MapThenSumSet(LAMBDA t : thread[t].utime + thread[t].stime, Threads)
      /\ GroupsNest

\* However ticks, charges and threads that change groups come in between, the times
\* reported for a process never go back and neither is more than the time it ran
\* (thread_group_times()), and the ticks they are split by are all accounted for.
GroupTimesSound ==
  /\ [][sig' # sig =>
          /\ sig'.prev_utime \in sig.prev_utime .. TotalExec
          /\ sig'.prev_stime \in sig.prev_stime .. TotalExec]_timeVars
  /\ []TicksAccountedOnce

=============================================================================
