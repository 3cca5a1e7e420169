------------------------------ MODULE Affinity ------------------------------
(***************************************************************************)
(* The CPUs a task may run on, in the tegra kernel (kernel/sched.c):       *)
(* sched_setaffinity() by several callers, beside a cpuset whose mask is   *)
(* changed and then applied to its tasks, execve(), the stoppers that move *)
(* a queued task, and the task's own sleeps and wake-ups, of which one by  *)
(* another CPU waits on that CPU's wake_list.  CPU hotplug is locked out   *)
(* by get_online_cpus().  Cpusets are external.                            *)
(***************************************************************************)
EXTENDS Integers, FiniteSets

CONSTANTS
  CpuIds, AllowedMasks, \* the active CPUs, and masks that may be asked for
  Setters,
  MaxSets, MaxMaskUpdates, MaxSleeps \* bounds

\* A cpuset that holds tasks has a CPU.
ASSUME AffinityAssumption == {} \notin AllowedMasks /\ AllowedMasks \subseteq SUBSET CpuIds

VARIABLES
  task,        \* cpus_allowed, cpu, and whether it is queued, asleep or on a wake_list;
               \* missed: nobody moved it when its mask changed on a wake_list
  cpuset,      \* its cpus_allowed, and whether they have yet to be applied
  setter,      \* where a caller of sched_setaffinity() is, and with which mask
  stoppers     \* migration_cpu_stop() to run: source, destination, who waits

affinityVars == <<task, cpuset, setter, stoppers>>
Exec == "exec"
Updater == "updater"
Waits(who) == \E s \in stoppers : s.who = who

AffinityInit ==
  /\ task \in {[allowed |-> CpuIds, cpu |-> c, on |-> "queued", sleeps |-> 0, missed |-> FALSE] : c \in CpuIds}
  /\ cpuset = [mask |-> CpuIds, apply |-> FALSE, updates |-> 0]
  /\ setter = [s \in Setters |-> [at |-> "none", mask |-> {}, calls |-> 0]]
  /\ stoppers = {}

-----------------------------------------------------------------------------

Fits(mask) == task.allowed = mask \/ mask # {}

\* set_cpus_allowed_ptr() by who: the mask, and a stopper if the task must be moved at once
set_cpus_allowed_ptr(who, mask) ==
  IF task.allowed = mask \/ mask = {} THEN UNCHANGED <<task, stoppers>>
  ELSE /\ task' = [task EXCEPT !.allowed = mask, !.missed = task.on = "waking" /\ task.cpu \notin mask]
       /\ IF task.cpu \in mask \/ task.on # "queued" THEN UNCHANGED stoppers
          ELSE \E dest \in mask : stoppers' = stoppers \cup {[src |-> task.cpu, dest |-> dest, who |-> who]}

\* the cpuset's mask is changed, and later applied to the task
CpusetWrite ==
  /\ ~cpuset.apply /\ ~Waits(Updater) /\ cpuset.updates < MaxMaskUpdates
  /\ \E mask \in AllowedMasks \ {cpuset.mask} :
       cpuset' = [mask |-> mask, apply |-> TRUE, updates |-> cpuset.updates + 1]
  /\ UNCHANGED <<task, setter, stoppers>>

CpusetApply ==
  /\ cpuset.apply /\ cpuset' = [cpuset EXCEPT !.apply = FALSE]
  /\ set_cpus_allowed_ptr(Updater, cpuset.mask)
  /\ UNCHANGED setter

Goes(s, at, mask) == setter' = [setter EXCEPT ![s].at = at, ![s].mask = mask]

\* Mutant: the cpuset is not looked at again.
NotAgain(s) ==
  /\ setter[s].at = "check" /\ ~Waits(s)
  /\ Goes(s, "none", {}) /\ UNCHANGED <<task, cpuset, stoppers>>

\* "We must have raced with a concurrent cpuset update"
Again(s) ==
  /\ setter[s].at = "check" /\ ~Waits(s)
  /\ IF setter[s].mask \subseteq cpuset.mask THEN Goes(s, "none", {}) ELSE Goes(s, "set", cpuset.mask)
  /\ UNCHANGED <<task, cpuset, stoppers>>

sched_setaffinity(s) ==
  \/ /\ setter[s].at = "none" /\ setter[s].calls < MaxSets
     /\ \E in_mask \in AllowedMasks :
          setter' = [setter EXCEPT ![s] = [at |-> "set", mask |-> in_mask \cap cpuset.mask, calls |-> @.calls + 1]]
     /\ UNCHANGED <<task, cpuset, stoppers>>
  \/ /\ setter[s].at = "set"
     /\ set_cpus_allowed_ptr(s, setter[s].mask)
     /\ IF Fits(setter[s].mask) THEN Goes(s, "check", setter[s].mask) ELSE Goes(s, "none", {})
     /\ UNCHANGED cpuset
  \/ Again(s)

\* sched_exec() of the running task
sched_exec ==
  /\ task.on = "queued" /\ ~Waits(Exec)
  /\ \E dest \in task.allowed \ {task.cpu} :
       stoppers' = stoppers \cup {[src |-> task.cpu, dest |-> dest, who |-> Exec]}
  /\ UNCHANGED <<task, cpuset, setter>>

__migrate_task(s) ==
  /\ s \in stoppers /\ stoppers' = stoppers \ {s}
  /\ task' = IF task.cpu = s.src /\ s.dest \in task.allowed /\ task.on = "queued"
             THEN [task EXCEPT !.cpu = s.dest, !.missed = FALSE] ELSE task
  /\ UNCHANGED <<cpuset, setter>>

Sleeps ==
  /\ task.on = "queued" /\ ~Waits(Exec) /\ task.sleeps < MaxSleeps
  /\ task' = [task EXCEPT !.on = "asleep", !.sleeps = @ + 1]
  /\ UNCHANGED <<cpuset, setter, stoppers>>

\* select_task_rq(), and ttwu_queue_remote() for another CPU
Wakes(remote) ==
  /\ task.on = "asleep"
  /\ \E c \in task.allowed :
       task' = [task EXCEPT !.cpu = c, !.on = IF remote THEN "waking" ELSE "queued", !.missed = FALSE]
  /\ UNCHANGED <<cpuset, setter, stoppers>>

sched_ttwu_pending ==
  /\ task.on = "waking" /\ task' = [task EXCEPT !.on = "queued"]
  /\ UNCHANGED <<cpuset, setter, stoppers>>

AffinityNext ==
  \/ CpusetWrite \/ CpusetApply
  \/ \E s \in Setters : sched_setaffinity(s)
  \/ sched_exec
  \/ \E s \in stoppers : __migrate_task(s)
  \/ Sleeps \/ Wakes(FALSE) \/ Wakes(TRUE) \/ sched_ttwu_pending

-----------------------------------------------------------------------------
(* Properties *)

\* A queued task is on a CPU it is allowed on, or a stopper is about to move it
\* to one, in whatever order masks and stoppers came (set_cpus_allowed_ptr(),
\* __migrate_task()); it was not on a wake_list when its mask changed.
QueuedWhereAllowed ==
  task.on = "queued" /\ ~task.missed =>
    \/ task.cpu \in task.allowed
    \/ \E s \in stoppers : s.src = task.cpu /\ s.dest \in task.allowed

\* Once every caller is done the task's mask is within its cpuset's, in
\* whichever order the callers and the cpuset's own update set it
\* (sched_setaffinity()), and the task runs where its mask says.
CpusetRespected ==
  /\ ~cpuset.apply /\ (\A s \in Setters : setter[s].at = "none") => task.allowed \subseteq cpuset.mask
  /\ QueuedWhereAllowed

=============================================================================
