---------------------------- MODULE RtAdmission ----------------------------
(***************************************************************************)
(* Who may run real-time tasks in the goldfish kernel: the tree of task    *)
(* groups with a period and a runtime each (kernel/sched/core.c,           *)
(* CONFIG_RT_GROUP_SCHED), the system-wide sysctlVars behind the sysctls, and  *)
(* the calls that change a task's policy or group.                         *)
(*                                                                         *)
(* A caller is between two steps of its call when call[c] is not NoCall.   *)
(* The tests of __sched_setscheduler() and the cgroup core's can_attach()  *)
(* run before the lock is taken; sched_group_set_rt_runtime() reads the    *)
(* period, and _period() the runtime, before rt_constraints_mutex.  The    *)
(* cgroup core is external: cgroup_mutex keeps attach, create and destroy  *)
(* apart.  Times are small numbers.                                         *)
(***************************************************************************)
EXTENDS Integers, FiniteSets, Functions

CONSTANTS
  Members, Cgroups, RootGroup, Callers,
  Periods, RuntimesWritten,     \* values written to the cgroup files and to the sysctls
  MaxPrio,               \* RT priorities are 1 .. MaxPrio
  RlimRtprio,            \* RLIMIT_RTPRIO of every task
  NoLimit,           \* no limit, also for the sysctl's -1
  MaxCalls               \* bound on the calls made

ASSUME AdmissionAssumption ==
  /\ RootGroup \in Cgroups /\ IsFiniteSet(Cgroups) /\ IsFiniteSet(Members)
  /\ Periods \subseteq Nat \ {0} /\ RuntimesWritten \subseteq Nat /\ NoLimit \in Nat \ {0}
  /\ MaxPrio \in Nat \ {0} /\ RlimRtprio \in Nat /\ MaxCalls \in Nat

VARIABLES
  parent,        \* of the groups that exist but RootGroup
  bw,            \* rt_bandwidth of every group: period and runtime
  sysctl, def,   \* sysctl_sched_rt_period and _runtime; def_rt_bandwidth
  policy, rt_priority, reset_on_fork, group,
  attaching,     \* the task between can_attach() and attach(), under cgroup_mutex
  call,          \* what a caller is in the middle of
  calls          \* calls made so far

admissionVars == <<parent, bw, sysctl, def, policy, rt_priority, reset_on_fork, group, attaching, call, calls>>
taskVars == <<policy, rt_priority, reset_on_fork>>
groupVars == <<parent, bw>>
sysctlVars == <<sysctl, def>>

Policies == {"normal", "rt"}      \* SCHED_FIFO and SCHED_RR are alike here
NoCall == [k |-> "none"]

rt_task(p) == policy[p] = "rt"
Existing == DOMAIN parent \cup {RootGroup}
Children(g) == {h \in DOMAIN parent : parent[h] = g}

\* a new call of an idle caller
Begin(c, what) ==
  /\ call[c] = NoCall /\ calls < MaxCalls
  /\ calls' = calls + 1 /\ call' = [call EXCEPT ![c] = what]

-----------------------------------------------------------------------------
(* Schedulability *)

to_ratio(period, runtime) == IF runtime = NoLimit THEN 2^20 ELSE (runtime * 2^20) \div period

GlobalRatio == to_ratio(sysctl.period, sysctl.runtime)
rt_bandwidth_enabled == sysctl.runtime # NoLimit

\* every RT task is on the run queue whose rt.tg is the root group
tg_has_rt_tasks(g) == g = RootGroup /\ \E p \in Members : rt_task(p)

Ratio(b) == to_ratio(b.period, b.runtime)
ChildSum(b, g) == SumFunctionOnSet([h \in Cgroups |-> Ratio(b[h])], Children(g))

\* Mutant: the children are summed with the settings they have now.
SumOfOld(b, g) ==
  /\ b[g].runtime <= b[g].period \/ b[g].runtime = NoLimit
  /\ ~(rt_bandwidth_enabled /\ b[g].runtime = 0 /\ tg_has_rt_tasks(g))
  /\ Ratio(b[g]) <= GlobalRatio
  /\ ChildSum(bw, g) <= Ratio(b[g])

\* tg_rt_schedulable() with the settings b
tg_rt_schedulable(b, g) ==
  /\ b[g].runtime <= b[g].period \/ b[g].runtime = NoLimit
  /\ ~(rt_bandwidth_enabled /\ b[g].runtime = 0 /\ tg_has_rt_tasks(g))
  /\ Ratio(b[g]) <= GlobalRatio
  /\ ChildSum(b, g) <= Ratio(b[g])

__rt_schedulable(b) == \A g \in Existing : tg_rt_schedulable(b, g)

\* sched_group_set_rt_runtime() and _period(), up to the mutex; a period of 0 is refused
sched_group_set_rt_runtime(c, g, runtime) ==
  /\ g \in Existing
  /\ Begin(c, [k |-> "bandwidth", g |-> g, b |-> [period |-> bw[g].period, runtime |-> runtime]])
  /\ UNCHANGED <<groupVars, sysctlVars, taskVars, group, attaching>>

sched_group_set_rt_period(c, g, period) ==
  /\ g \in Existing /\ period # 0
  /\ Begin(c, [k |-> "bandwidth", g |-> g, b |-> [period |-> period, runtime |-> bw[g].runtime]])
  /\ UNCHANGED <<groupVars, sysctlVars, taskVars, group, attaching>>

\* under rt_constraints_mutex and tasklist_lock; an open cgroup file keeps its group
tg_set_rt_bandwidth(c) ==
  LET b == [bw EXCEPT ![call[c].g] = call[c].b]
  IN  /\ call[c].k = "bandwidth"
      /\ bw' = IF __rt_schedulable(b) THEN b ELSE bw
      /\ call' = [call EXCEPT ![c] = NoCall]
      /\ UNCHANGED <<parent, sysctlVars, taskVars, group, attaching, calls>>

-----------------------------------------------------------------------------
(* The sysctls *)

\* sched_rt_handler()'s static mutex
HandlerFree == \A c \in Callers : call[c].k \notin {"handler", "checked"}

\* sched_rt_handler(): the new value is in place before it is tested
sched_rt_handler(c, new) ==
  /\ HandlerFree
  /\ Begin(c, [k |-> "handler", old |-> sysctl])
  /\ sysctl' = new
  /\ UNCHANGED <<groupVars, def, taskVars, group, attaching>>

sched_rt_global_constraints(c) ==
  /\ call[c].k = "handler"
  /\ call' = [call EXCEPT ![c] =
       [k |-> "checked", old |-> call[c].old,
        ok |-> sysctl.runtime \in (0 .. sysctl.period) \cup {NoLimit} /\ __rt_schedulable(bw)]]
  /\ UNCHANGED <<groupVars, sysctlVars, taskVars, group, attaching, calls>>

HandlerEnds(c) ==
  /\ call[c].k = "checked"
  /\ IF call[c].ok THEN def' = sysctl /\ UNCHANGED sysctl
     ELSE sysctl' = call[c].old /\ UNCHANGED def
  /\ call' = [call EXCEPT ![c] = NoCall]
  /\ UNCHANGED <<groupVars, taskVars, group, attaching, calls>>

-----------------------------------------------------------------------------
(* Cgroups and their tasks *)

\* alloc_rt_sched_group() and the insertion into the tree
sched_create_group(c, g, p) ==
  /\ g \notin Existing /\ p \in Existing /\ attaching = <<>>
  /\ call[c] = NoCall /\ calls < MaxCalls /\ calls' = calls + 1
  /\ parent' = [h \in DOMAIN parent \cup {g} |-> IF h = g THEN p ELSE parent[h]]
  /\ bw' = [bw EXCEPT ![g] = [period |-> def.period, runtime |-> 0]]
  /\ UNCHANGED <<sysctlVars, taskVars, group, attaching, call>>

\* rmdir of a group without tasks, children and open files
sched_destroy_group(c, g) ==
  /\ g \in DOMAIN parent /\ Children(g) = {} /\ attaching = <<>>
  /\ \A p \in Members : group[p] # g
  /\ \A d \in Callers : call[d].k = "bandwidth" => call[d].g # g
  /\ call[c] = NoCall /\ calls < MaxCalls /\ calls' = calls + 1
  /\ parent' = [h \in DOMAIN parent \ {g} |-> parent[h]]
  /\ UNCHANGED <<bw, sysctlVars, taskVars, group, attaching, call>>

sched_rt_can_attach(g, p) == ~(rt_task(p) /\ bw[g].runtime = 0)

cpu_cgroup_can_attach(c, g, p) ==
  /\ attaching = <<>> /\ g \in Existing /\ g # group[p] /\ sched_rt_can_attach(g, p)
  /\ call[c] = NoCall /\ calls < MaxCalls /\ calls' = calls + 1
  /\ attaching' = <<p, g>>
  /\ UNCHANGED <<groupVars, sysctlVars, taskVars, group, call>>

\* cpu_cgroup_attach() calls sched_move_task(), which takes the run queue's lock
cpu_cgroup_attach ==
  /\ attaching # <<>>
  /\ group' = [group EXCEPT ![attaching[1]] = attaching[2]]
  /\ attaching' = <<>>
  /\ UNCHANGED <<groupVars, sysctlVars, taskVars, call, calls>>

-----------------------------------------------------------------------------
(* Policies *)

\* what __sched_setscheduler() tests without a lock; r is the request
Permitted(r) ==
  LET p == r.p
  IN  /\ r.prio \in 0 .. MaxPrio /\ (r.policy = "rt") = (r.prio # 0)
      /\ r.capable
         \/ /\ r.policy = "rt" => /\ r.policy = policy[p] \/ RlimRtprio # 0
                                  /\ r.prio <= rt_priority[p] \/ r.prio <= RlimRtprio
            /\ reset_on_fork[p] => r.reset

\* what the code takes for "recheck: if (policy < 0)"
AsItIs(r) == [r EXCEPT !.policy = policy[r.p], !.old = policy[r.p], !.reset = reset_on_fork[r.p]]

sched_setscheduler(c, p, pol, prio, reset, capable) ==
  LET r == [k |-> "policy", p |-> p, policy |-> pol, old |-> "given", prio |-> prio,
            reset |-> reset, capable |-> capable]
  IN  /\ Permitted(r) /\ Begin(c, r)
      /\ UNCHANGED <<groupVars, sysctlVars, taskVars, group, attaching>>

\* sched_setparam() keeps the policy and the reset_on_fork flag it finds
sched_setparam(c, p, prio, capable) ==
  LET r == AsItIs([k |-> "policy", p |-> p, policy |-> "normal", old |-> "given", prio |-> prio,
                   reset |-> FALSE, capable |-> capable])
  IN  /\ Permitted(r) /\ Begin(c, r)
      /\ UNCHANGED <<groupVars, sysctlVars, taskVars, group, attaching>>

\* the policy found before is not the one found under the lock
Stale(r) == r.old # "given" /\ r.old # policy[r.p]

\* __sched_setscheduler() from task_rq_lock() on
__sched_setscheduler(c) ==
  LET r == call[c]  p == r.p
      same == r.policy = policy[p] /\ (r.policy # "rt" \/ r.prio = rt_priority[p])
      barred == rt_bandwidth_enabled /\ r.policy = "rt" /\ bw[group[p]].runtime = 0
  IN  /\ r.k = "policy"
      /\ IF same \/ barred
         THEN UNCHANGED taskVars /\ call' = [call EXCEPT ![c] = NoCall]
         ELSE IF Stale(r)
         THEN UNCHANGED taskVars
              /\ call' = [call EXCEPT ![c] = IF Permitted(AsItIs(r)) THEN AsItIs(r) ELSE NoCall]
         ELSE /\ policy' = [policy EXCEPT ![p] = r.policy]
              /\ rt_priority' = [rt_priority EXCEPT ![p] = r.prio]
              /\ reset_on_fork' = [reset_on_fork EXCEPT ![p] = r.reset]
              /\ call' = [call EXCEPT ![c] = NoCall]
      /\ UNCHANGED <<groupVars, sysctlVars, group, attaching, calls>>

-----------------------------------------------------------------------------

AdmissionInit ==
  /\ parent = <<>> /\ group = [p \in Members |-> RootGroup]
  /\ sysctl = [period |-> 1, runtime |-> 1] /\ def = sysctl
  /\ bw = [g \in Cgroups |-> def]
  /\ policy = [p \in Members |-> "normal"] /\ rt_priority = [p \in Members |-> 0]
  /\ reset_on_fork = [p \in Members |-> FALSE]
  /\ attaching = <<>> /\ call = [c \in Callers |-> NoCall] /\ calls = 0

Calls(c) ==
  \/ \E g \in Cgroups, t \in RuntimesWritten : sched_group_set_rt_runtime(c, g, t)
  \/ \E g \in Cgroups, t \in Periods : sched_group_set_rt_period(c, g, t)
  \/ \E t \in RuntimesWritten : sched_rt_handler(c, [sysctl EXCEPT !.runtime = t])
  \/ \E t \in Periods : sched_rt_handler(c, [sysctl EXCEPT !.period = t])
  \/ \E g, h \in Cgroups : sched_create_group(c, g, h)
  \/ \E g \in Cgroups : sched_destroy_group(c, g)
  \/ \E g \in Cgroups, p \in Members : cpu_cgroup_can_attach(c, g, p)
  \/ \E p \in Members, prio \in 0 .. MaxPrio, capable \in BOOLEAN :
       \/ sched_setparam(c, p, prio, capable)
       \/ \E pol \in Policies, reset \in BOOLEAN : sched_setscheduler(c, p, pol, prio, reset, capable)

Steps(c) == tg_set_rt_bandwidth(c) \/ sched_rt_global_constraints(c) \/ HandlerEnds(c) \/ __sched_setscheduler(c)

AdmissionNext == cpu_cgroup_attach \/ \E c \in Callers : Calls(c) \/ Steps(c)

AdmissionSpec == AdmissionInit /\ [][AdmissionNext]_admissionVars

-----------------------------------------------------------------------------
(* Properties *)

\* New groups take their period from def_rt_bandwidth: it equals the sysctls whenever no
\* write is in progress, refused and rolled back writes included.
DefFollowsSysctl == HandlerFree => def = sysctl

\* However the two files of a group and those of its neighbours are written at once, the
\* groups below a group never get more than the group itself: the period or runtime read
\* before the mutex may be old, but what is written has been tested
\* (tg_set_rt_bandwidth(), sched_rt_handler()).
ChildrenFit ==
  /\ \A g \in Existing : ChildSum(bw, g) <= Ratio(bw[g])
  /\ DefFollowsSysctl

=============================================================================
