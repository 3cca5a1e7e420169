---------------------------- MODULE RtBandwidth ----------------------------
(***************************************************************************)
(* The runtime of one task group's real-time tasks on the CPUs of the      *)
(* tegra kernel (kernel/sched_rt.c and sched.c, CONFIG_SMP): an rt_rq that *)
(* runs short borrows from the others of a root domain, a CPU that goes    *)
(* offline takes back what it lent, one that comes up starts afresh, and a *)
(* period timer shared by all CPUs pays the accrued time back.             *)
(*                                                                         *)
(* rt_b->rt_runtime_lock makes borrowing, disabling, enabling and setting  *)
(* one step each.  Charging lets go of the rt_rq's lock before it borrows; *)
(* the timer takes one CPU's lock after the other.  CPU hotplug is a plan: *)
(* the notifiers in the order of their priorities and the rebuilding of    *)
(* the scheduling domains, one step of it at a time.  The core of CPU      *)
(* hotplug is external.  Root domains: Def, which holds CPUs in transit    *)
(* and those that are down, and Dom, the active ones.                      *)
(***************************************************************************)
EXTENDS Integers, FiniteSets, FiniteSetsExt, SequencesExt, TLC

CONSTANTS
  BwCpus, Boot,        \* Boot never goes down
  Def, Dom, None,
  Period, RUNTIME_INF,
  Runtime,           \* the runtime at first
  Runtimes,          \* runtimes written later
  MaxTime,           \* bound on the accrued time of an rt_rq
  MaxEvents          \* bound on hotplugs and writes together

ASSUME BandwidthAssumption ==
  /\ Boot \in BwCpus /\ IsFiniteSet(BwCpus) /\ None \notin BwCpus
  /\ {Period, RUNTIME_INF, Runtime, MaxTime, MaxEvents} \subseteq Nat
  /\ Runtimes \subseteq Nat /\ Period < RUNTIME_INF

VARIABLES
  rt_b,      \* the group's rt_runtime, and whether its timer is active
  rt_rq,     \* rt_runtime, rt_time, rt_throttled and tasks of every CPU
  root_domain,        \* the root domain of every CPU's run queue
  rq_online, cpu_active,
  charging,  \* for an rt_rq between its charge and its borrowing the CPU at work on it
  tick,      \* the timer's walk: the CPU it runs on, those left, whether all were idle
  plan,      \* what is left to do of a CPU's going down or coming up
  bug,       \* BUG_ON(want)
  changes    \* hotplugs and writes so far

rtRqVars == <<rt_b, rt_rq>>
cpuVars == <<root_domain, rq_online, cpu_active>>
bandwidthVars == <<rtRqVars, cpuVars, charging, tick, plan, bug, changes>>

NoTick == [cpu |-> None, left |-> {}, idle |-> TRUE]
Lesser(a, b) == IF a < b THEN a ELSE b
span(d) == {c \in BwCpus : root_domain[c] = d}
Up == {c \in BwCpus : cpu_active[c] \/ rq_online[c]}

BandwidthInit ==
  /\ rt_b = [runtime |-> Runtime, timer |-> FALSE]
  /\ rt_rq = [c \in BwCpus |-> [runtime |-> Runtime, time |-> 0, throttled |-> FALSE, running |-> FALSE]]
  /\ root_domain = [c \in BwCpus |-> Dom]
  /\ rq_online = [c \in BwCpus |-> TRUE] /\ cpu_active = [c \in BwCpus |-> TRUE]
  /\ charging = [c \in BwCpus |-> None] /\ tick = NoTick /\ plan = <<>> /\ bug = FALSE
  /\ changes = [hotplug |-> 0, writes |-> 0]

-----------------------------------------------------------------------------
(* Borrowing *)

\* Mutant: what is borrowed is not taken from the lender.
FreeLoan(q, c, i, weight) ==
  LET spare == q[i].runtime - q[i].time
      diff == Lesser(spare \div weight, Period - q[c].runtime)
  IN  IF i = c \/ q[i].runtime = RUNTIME_INF \/ spare <= 0 THEN q
      ELSE [q EXCEPT ![c].runtime = @ + diff]

\* rt_rq c takes its share of what i can spare, Period at most in all: a full one takes 0
Borrow(q, c, i, weight) ==
  LET spare == q[i].runtime - q[i].time
      diff == Lesser(spare \div weight, Period - q[c].runtime)
  IN  IF i = c \/ q[i].runtime = RUNTIME_INF \/ spare <= 0 THEN q
      ELSE [q EXCEPT ![i].runtime = @ - diff, ![c].runtime = @ + diff]

\* do_balance_runtime() of rt_rq c, run by CPU by, whose root domain is the one asked
do_balance_runtime(q, c, by) ==
  FoldSet(LAMBDA i, s : Borrow(s, c, i, Cardinality(span(root_domain[by]))), q, span(root_domain[by]))

balance_runtime(q, c, by) == IF q[c].time > q[c].runtime THEN do_balance_runtime(q, c, by) ELSE q

-----------------------------------------------------------------------------
(* Disabling and enabling an rt_rq *)

\* c takes back what it lent, or gives back what it borrowed; want is what it misses
Reclaim(q, c) ==
  FoldSet(LAMBDA i, s :
    IF i = c \/ s.q[i].runtime = RUNTIME_INF \/ s.want = 0 THEN s
    ELSE LET diff == Lesser(s.q[i].runtime, s.want)
         IN  [q |-> [s.q EXCEPT ![i].runtime = @ - diff], want |-> s.want - diff],
    [q |-> q, want |-> rt_b.runtime - q[c].runtime], span(root_domain[c]))

Disabled(c) == rt_rq[c].runtime \in {RUNTIME_INF, rt_b.runtime}
Reclaimed(c) == IF Disabled(c) THEN [q |-> rt_rq, want |-> 0] ELSE Reclaim(rt_rq, c)

\* __disable_runtime()
Disable(c) ==
  /\ rt_rq' = [Reclaimed(c).q EXCEPT ![c].runtime = RUNTIME_INF]
  /\ bug' = (bug \/ Reclaimed(c).want # 0)

\* __enable_runtime()
Fresh(r) == [r EXCEPT !.runtime = rt_b.runtime, !.time = 0, !.throttled = FALSE]
Enable(c) == rt_rq' = [rt_rq EXCEPT ![c] = Fresh(@)] /\ UNCHANGED bug

-----------------------------------------------------------------------------
(* Tasks, charging, the period timer *)

\* start_rt_bandwidth(); the timer counts as active while its callback runs
Enqueue(c) ==
  /\ c \in Up /\ ~rt_rq[c].running
  /\ rt_rq' = [rt_rq EXCEPT ![c].running = TRUE]
  /\ rt_b' = IF rt_b.runtime = RUNTIME_INF THEN rt_b ELSE [rt_b EXCEPT !.timer = TRUE]
  /\ UNCHANGED <<cpuVars, charging, tick, plan, bug, changes>>

Dequeue(c) ==
  /\ rt_rq[c].running /\ charging[c] = None
  /\ rt_rq' = [rt_rq EXCEPT ![c].running = FALSE]
  /\ UNCHANGED <<rt_b, cpuVars, charging, tick, plan, bug, changes>>

\* update_curr_rt() adds the time; it runs on CPU by under the run queue's lock
Charge(c, by) ==
  /\ rt_rq[c].running /\ by \in Up /\ charging[c] = None
  /\ rt_rq[c].runtime # RUNTIME_INF /\ rt_rq[c].time < MaxTime
  /\ rt_rq' = [rt_rq EXCEPT ![c].time = @ + 1]
  /\ charging' = IF rt_rq[c].throttled \/ rt_rq[c].runtime >= Period THEN charging
                 ELSE [charging EXCEPT ![c] = by]
  /\ UNCHANGED <<rt_b, cpuVars, tick, plan, bug, changes>>

\* sched_rt_runtime_exceeded() goes on: borrow, and throttle if that is not enough
Exceeded(c) ==
  LET q == balance_runtime(rt_rq, c, charging[c])
  IN  /\ charging[c] # None
      /\ rt_rq' = [q EXCEPT ![c].throttled = q[c].runtime # RUNTIME_INF /\ q[c].time > q[c].runtime]
      /\ charging' = [charging EXCEPT ![c] = None]
      /\ UNCHANGED <<rt_b, cpuVars, tick, plan, bug, changes>>

\* sched_rt_period_timer() starts on CPU by
TimerFires(by) ==
  /\ rt_b.timer /\ tick = NoTick /\ by \in Up
  /\ IF rt_b.runtime = RUNTIME_INF THEN rt_b' = [rt_b EXCEPT !.timer = FALSE] /\ UNCHANGED tick
     ELSE tick' = [cpu |-> by, left |-> span(root_domain[by]), idle |-> TRUE] /\ UNCHANGED rt_b
  /\ UNCHANGED <<rt_rq, cpuVars, charging, plan, bug, changes>>

\* what is left of the accrued time after a period
Replenished(time, runtime) == time - Lesser(time, runtime)

\* one CPU of do_sched_rt_period_timer()'s loop
TimerServes(c) ==
  LET q == IF rt_rq[c].throttled THEN balance_runtime(rt_rq, c, tick.cpu) ELSE rt_rq
      left == Replenished(q[c].time, q[c].runtime)
  IN  /\ c \in tick.left /\ charging[c] = None
      /\ IF rt_rq[c].time > 0
         THEN rt_rq' = [q EXCEPT ![c].time = left, ![c].throttled = @ /\ ~(left < q[c].runtime)]
         ELSE UNCHANGED rt_rq
      /\ tick' = [tick EXCEPT !.left = @ \ {c}, !.idle = @ /\ ~rt_rq[c].running /\ rt_rq'[c].time = 0]
      /\ UNCHANGED <<rt_b, cpuVars, charging, plan, bug, changes>>

\* its end: the timer goes on unless every CPU was idle
TimerEnds ==
  /\ tick # NoTick /\ tick.left = {}
  /\ rt_b' = [rt_b EXCEPT !.timer = ~tick.idle] /\ tick' = NoTick
  /\ UNCHANGED <<rt_rq, cpuVars, charging, plan, bug, changes>>

\* tg_set_bandwidth(): every possible CPU, those that are disabled included
tg_set_bandwidth(r) ==
  /\ changes.hotplug + changes.writes < MaxEvents /\ changes' = [changes EXCEPT !.writes = @ + 1]
  /\ rt_b' = [rt_b EXCEPT !.runtime = r]
  /\ rt_rq' = [c \in BwCpus |-> [rt_rq[c] EXCEPT !.runtime = r]]
  /\ UNCHANGED <<cpuVars, charging, tick, plan, bug>>

-----------------------------------------------------------------------------
(* CPU hotplug *)

Step(op, c) == [op |-> op, cpu |-> c]
Each(op, cpus) == LET s == SetToSeq(cpus) IN [i \in DOMAIN s |-> Step(op, s[i])]

\* partition_sched_domains(): every CPU of the old domain to Def, the active ones to Dom
Rebuild(old, active) == Each("detach", old) \o Each("attach", active)

\* update_runtime(), sched_cpu_inactive() and cpuset_cpu_inactive() at CPU_DOWN_PREPARE,
\* then migration_call() at CPU_DYING; or, when a later notifier refuses,
\* sched_cpu_active(), cpuset_cpu_active() and update_runtime() at CPU_DOWN_FAILED
GoDown(c) ==
  <<Step("disable", c), Step("inactive", c)>> \o Rebuild(span(Dom), span(Dom) \ {c})
    \o <<Step("dying", c)>>
Refused(c) ==
  <<Step("disable", c), Step("inactive", c)>> \o Rebuild(span(Dom), span(Dom) \ {c})
    \o <<Step("active", c)>> \o Rebuild(span(Dom) \ {c}, span(Dom)) \o <<Step("enable", c)>>

\* sched_cpu_active() at CPU_STARTING; cpuset_cpu_active(), migration_call() and
\* update_runtime() at CPU_ONLINE
ComeUp(c) ==
  <<Step("active", c)>> \o Rebuild(span(Dom), span(Dom) \cup {c})
    \o <<Step("online", c), Step("enable", c)>>

Hotplug(c) ==
  /\ plan = <<>> /\ c # Boot /\ changes.hotplug + changes.writes < MaxEvents
  /\ plan' \in IF cpu_active[c] THEN {GoDown(c), Refused(c)} ELSE {ComeUp(c)}
  /\ changes' = [changes EXCEPT !.hotplug = @ + 1]
  /\ UNCHANGED <<rtRqVars, cpuVars, charging, tick, bug>>

\* set_rq_online() and set_rq_offline() for the RT class
SetOnline(c) ==
  IF rq_online[c] THEN UNCHANGED <<rt_rq, bug, rq_online>>
  ELSE Enable(c) /\ rq_online' = [rq_online EXCEPT ![c] = TRUE]

\* rq_attach_root(): off line in the old root domain, on line in the new one if active
rq_attach_root(c, d) ==
  LET left == IF rq_online[c] THEN Reclaimed(c) ELSE [q |-> rt_rq, want |-> 0]
  IN  /\ rt_rq' = [left.q EXCEPT ![c] = IF cpu_active[c] THEN Fresh(@)
                                        ELSE IF rq_online[c] THEN [@ EXCEPT !.runtime = RUNTIME_INF] ELSE @]
      /\ bug' = (bug \/ left.want # 0)
      /\ rq_online' = [rq_online EXCEPT ![c] = cpu_active[c]]
      /\ root_domain' = [root_domain EXCEPT ![c] = d]

\* migration_call() at CPU_DYING, under stop_machine(): migrate_tasks() takes everything away
Dying(c) ==
  LET left == IF rq_online[c] THEN Reclaimed(c) ELSE [q |-> rt_rq, want |-> 0]
  IN  /\ tick = NoTick /\ \A o \in BwCpus : charging[o] = None
      /\ rt_rq' = [left.q EXCEPT ![c] = [@ EXCEPT !.runtime = IF rq_online[c] THEN RUNTIME_INF ELSE @,
                                                  !.throttled = FALSE, !.running = FALSE]]
      /\ bug' = (bug \/ left.want # 0)
      /\ rq_online' = [rq_online EXCEPT ![c] = FALSE]

OnLock(op, c) ==
  \/ op = "disable" /\ Disable(c) /\ UNCHANGED cpuVars
  \/ op = "enable" /\ Enable(c) /\ UNCHANGED cpuVars
  \/ op = "online" /\ SetOnline(c) /\ UNCHANGED <<root_domain, cpu_active>>
  \/ op = "detach" /\ rq_attach_root(c, Def) /\ UNCHANGED cpu_active
  \/ op = "attach" /\ rq_attach_root(c, Dom) /\ UNCHANGED cpu_active
  \/ op = "dying" /\ Dying(c) /\ UNCHANGED <<root_domain, cpu_active>>

SetActive(c, to) == cpu_active' = [cpu_active EXCEPT ![c] = to] /\ UNCHANGED <<rt_rq, bug, root_domain, rq_online>>

\* the next step of a hotplug, under the run queue's lock where it needs it
HotplugStep ==
  /\ plan # <<>> /\ plan' = Tail(plan)
  /\ LET op == Head(plan).op  c == Head(plan).cpu
     IN  \/ charging[c] = None /\ OnLock(op, c)
         \/ op \in {"active", "inactive"} /\ SetActive(c, op = "active")
  /\ UNCHANGED <<rt_b, charging, tick, changes>>

BandwidthNext ==
  /\ ~bug
  /\ \/ \E c \in BwCpus : Enqueue(c) \/ Dequeue(c) \/ Exceeded(c)
     \/ \E c, by \in BwCpus : Charge(c, by)
     \/ \E c \in BwCpus : TimerFires(c) \/ TimerServes(c)
     \/ TimerEnds
     \/ \E r \in Runtimes : tg_set_bandwidth(r)
     \/ \E c \in BwCpus : Hotplug(c)
     \/ HotplugStep

BandwidthSpec == BandwidthInit /\ [][BandwidthNext]_bandwidthVars

-----------------------------------------------------------------------------
(* Properties *)

Limited == {c \in BwCpus : rt_rq[c].runtime # RUNTIME_INF}
Total == MapThenSumSet(LAMBDA c : rt_rq[c].runtime, Limited)
EnabledAgain == plan # <<>> /\ Head(plan).op = "enable"

\* After a hotplug, whether it went through or was refused, exactly the active
\* CPUs are in the domain, on line and under the limit: none is left exempt
\* from throttling and none that is down can lend (set_rq_online(),
\* rq_attach_root(), update_runtime()).
LimitedWhenActive ==
  plan = <<>> /\ changes.writes = 0 =>
    \A c \in BwCpus : /\ rq_online[c] = cpu_active[c]
                      /\ (root_domain[c] = Dom) = cpu_active[c]
                      /\ (rt_rq[c].runtime # RUNTIME_INF) = cpu_active[c]

\* However CPUs borrow, lend, leave a root domain and join another, each CPU
\* under the limit stands for exactly the group's runtime in their sum, as long
\* as no limit is written; only update_runtime()'s enabling of a CPU that
\* rq_attach_root() has enabled before may change it (do_balance_runtime(),
\* __disable_runtime(), __enable_runtime()).  After each hotplug the active
\* CPUs are the ones it is shared among.
RuntimeConserved ==
  /\ [][changes'.writes = 0 /\ ~bug' /\ ~EnabledAgain =>
          Total' - Total = Runtime * (Cardinality(Limited') - Cardinality(Limited))]_bandwidthVars
  /\ []LimitedWhenActive

=============================================================================
