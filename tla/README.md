# TLA+ models of the Android kernel programming projects

The repository holds two course projects on the Android kernel. Project 1 is a
process-tree system call (`ptree`, a loadable module), two small programs around
it, and a multi-threaded Caesar encryption service with its client. Project 2
adds a weighted round-robin (WRR) scheduling class to two kernels: goldfish
(Linux 3.4.67, one CPU) and tegra (Linux 3.1.10, SMP). Of the kernels the
repository keeps the files that were touched or read along: the scheduler core,
the RT class, the WRR class, `kthread.c` and headers.

This directory models the parts that carry the program's own logic or the logic
the WRR class leans on, checks them with TLC on small instances and proves the
central invariants with TLAPS for every instance. `PROJECT.json` maps each
definition to the lines it stands for; the paths below are relative to `src/`.

## Inventory

| Part | State | Operations | Hard behaviour | Module |
|---|---|---|---|---|
| Caesar service, `Project1/submit/Prom4/{server,client}.c` | `connectfd`, `num_thread`, `num_working_thread`, a mutex, one connection per client | accept and create a thread; receive, take a place, answer, leave; connect, send, quit, die | a variable shared between main() and all threads, places taken and given back under a mutex, clients that vanish | `CaesarServer` |
| `ptree`, `Project1/submit/Prom1/ptree.c` | `nr_tmp`, `buf_tmp`, the system call table entry | DFS, ptree, load, unload | all callers and all loads share one buffer; the tree changes between calls | `Ptree` |
| WRR class on goldfish, `Project2/goldfish/kernel/sched/{wrr,core,rt}.c` | run list, `total_weight`, `wrr_nr_running`; weight, slice, class, policy, priority and group of a task; `curr`, `need_resched` | enqueue, dequeue, requeue, tick, yield, pick; setscheduler, nice, priority inheritance, cgroup attach, fork, wake-up, sleep, exit, schedule | counters that must agree with the list under every order of class, group and state changes; three classes competing | `WrrRunList`, `GoldfishWrr` |
| WRR class on tegra, `Project2/tergra/kernel/{sched_wrr,sched}.c` | the same per CPU, and affinity masks | select_task_rq, pull from the tick, class and group changes | unlocked reads of other CPUs' weights, affinity hooks that do nothing, a group that changes outside the run queue lock | `TegraWrr` |
| Wake-up, migration, hotplug, tegra `sched.c` | `on_rq`, `on_cpu`, `wake_list`, CPU masks | try_to_wake_up, schedule, set_cpus_allowed_ptr, migration_cpu_stop, migrate_tasks | a wake-up against schedule() on another CPU, a CPU chosen that is just going down | `TegraWrr` |
| CPU affinity, tegra `sched.c` | mask, cpuset, stoppers | sched_setaffinity, cpuset update, exec, wake-up | setters and a shrinking cpuset race; a stopper comes late | `Affinity` |
| RT class of several CPUs, tegra `sched_rt.c` | overload mask, `highest_prio.next`, pushable lists; runtime pools | push, pull, enqueue, switch; borrow, enable, disable, replenish | locks dropped in the middle, hints read without a lock, a hotplug that is refused half-way | `RtPushPull`, `RtBandwidth` |
| RT class with groups, goldfish `rt.c` | a tree of run queues, throttling, boosts | enqueue and dequeue of stacks, charge, throttle, timer, set priority and group | a stack comes off and goes back in order, a boosted task in a throttled group | `RtGroups` |
| RT admission, goldfish `core.c` | periods and runtimes of groups, sysctls, policies | write a limit, attach, create, change a policy | values read before the lock, a test after the write | `RtAdmission` |
| Kernel threads, `Project2/tergra/kernel/kthread.c` 21-285 | the request list, the request on the creator's stack, `should_stop`, completions | kthreadd, create, bind, stop, the thread's start and exit | lost wake-ups, a stack object used after its owner left, stop racing exit | `Kthread` |
| Kthread workers, `kthread.c` 287-443 | work list, sequence numbers, `flushing` | worker loop, queue, flush one work, flush the worker | lost wake-ups on two sides, work queued while it runs, overflow | `KthreadWorker` |
| Completions and wait queues, tegra `sched.c` 4534-4917 (goldfish `core.c` has the same code) | `done`, the queue of entries | complete, wait (timed, interruptible, killable), try_wait; sleep_on and its variants, wake_up | a wake-up handed to a waiter that leaves, barging, overflow, entries on the sleepers' stacks | `CountingCompletion`, `Completion`, `WaitQueue` |
| `wait_task_inactive()`, tegra `sched.c` | `on_cpu`, `on_rq`, `nvcsw` | the waiter's loop; schedule, switch, wake-up | the lock is dropped inside `__schedule()` | `WaitInactive` |
| Cross-CPU requests, tegra `sched.c` | `need_resched`, polling flag, `wake_list`, hrtick, timer wheel | resched_task, ttwu_queue_remote, hrtick_start, wake_up_idle_cpu | the interrupt is left out for a CPU that seems to look by itself | `CrossCpu` |
| Task priorities, tegra `sched.c` | `prio`, `normal_prio`, `static_prio`, class, list | setscheduler, nice, rt_mutex_setprio, fork, normalize_rt_tasks | each rewrites what the others rely on, of a task that is queued | `TaskPrio` |
| Task groups, tegra `sched.c` | groups, leaf lists, tasks in groups | create, destroy, attach, fork, exit, walk | failing allocations, freeing under RCU | `TaskGroups` |
| Scheduler domains, tegra `sched.c` | domains, groups, root domains, reference counts | build, attach, detach, free | failing allocations, readers without a lock, partial rebuilds | `SchedDomains` |
| Load averages, goldfish `core.c` and tegra `sched.c` | active tasks folded per CPU, idle counters, fixed-point averages | tick, NO_HZ sleep and wake, timekeeper, hotplug | shares folded without a lock, sample windows missed | `LoadAvg`, `LoadMath`, `LoadTegra` |
| CPU time, goldfish `core.c`; interrupt time, tegra `sched.c` | `utime`, `stime`, `cpustat`, cpuacct; `irq_time`, `clock_task` | tick, exec, read times, move; irq enter and exit, clock update | scaled times that must not go back, 64-bit values read as two words | `CpuTime`, `IrqClock` |
| Test programs; headers and configurations | none | | none of their own | left out |

How the parts meet: the Caesar service and `ptree` are independent of the rest.
kthread.c uses completions and wake-ups; the worker is a thread function of
kthread.c. The WRR and RT classes are called by the scheduler core, which the
wake-ups of all the others end in. In the models the caller's side of such a
call is reduced to what the callee's contract says: a task state that
`schedule()` looks at (`Kthread`, `KthreadWorker`), a counter for a completion
(`Kthread`; justified by the refinement `Completion` => `CountingCompletion`), a
limit that has been admitted (`RtGroups`; `RtAdmission` says which).

Correctness, part by part: places are neither lost nor given twice and every
line is answered; a ptree result shows one call's tree; run list, counters and
weights agree, no runnable task is forgotten and every WRR task is served; with
several CPUs no task runs twice, is lost between two queues or left on a CPU
that is down; no RT task that waits is forgotten, runtime is conserved, the tree of
limits stays schedulable; no wake-up is lost between kthreadd, a thread and its users,
`kthread_stop()` reports what the thread left, a flush waits for what it has to;
a completion is a counter; what is counted is counted once.

## Modules

Parts that share no state are checked in one run through a composing module: a
behaviour is one of them, chosen by `part`, and the others stay as they start.

| Composition | Of | Run |
|---|---|---|
| `KernelThreads` | `Kthread`, `KthreadWorker` | `kernel_threads` |
| `Services`, `MCServices` | `Completion`, `WaitQueue`, `WaitInactive`, `CrossCpu`, `Ptree`, `TaskGroups`, `TaskPrio`, `SchedDomains`, `IrqClock` | `services` |
| `Balance`, `MCBalance` | `RtPushPull`, `RtBandwidth`, `Affinity` | `balance` |
| `RtHierarchy`, `MCRtHierarchy` | `RtGroups`, `RtAdmission` | `rt_hierarchy` |
| `GoldfishTick` | `GoldfishWrr`, `LoadAvg`, with their fairness | `goldfish_tick` |
| `Bookkeeping`, `MCBookkeeping` | `GoldfishWrr`, `LoadMath`, `CpuTime` | `bookkeeping` |
| `TegraCpus` | `TegraWrr`, `LoadTegra` | `tegra_smp` |

The MC modules only give structured constants their values.

**CaesarServer.** main() and each thread are control points between which
anything may happen; `num_thread++` is a load and a store, because main() does
it outside the mutex. The thread reads `connectfd` through the shared pointer
when it first runs (`Start`). Descriptors are numbers out of a table, so that a
late `close()` can hit a younger connection. The network keeps what the two
programs can see: bytes in flight, end-of-file, reset and SIGPIPE. Message
contents are "text", "empty" or "quit"; the cipher, prompts and printing are
left out, as are message lengths. What a thread does while it holds the mutex
and nobody can observe in parts is one step.

**KernelList, WrrRunList.** A `list_head` is a sequence without repetition;
`list_del` takes an entry out. `WrrRunList` is `struct wrr_rq` with the
functions that link and unlink an entity.

**GoldfishWrr.** Every operation runs under `rq->lock` on the only CPU, so each
is one action: `sched_setscheduler`, `normalize_task`, `rt_mutex_setprio`,
`set_user_nice`, `cpu_cgroup_attach`, `sched_fork`, `wake_up_new_task`,
`SetCurrentState`, `try_to_wake_up`, `Exit`, `schedule`, `preempt_schedule`,
`sched_yield`, the ticks and the RT period timer. The dequeue, change, enqueue
pattern that the core repeats is `Reinsert`. A task that sets its state and one
that calls `schedule()` are two actions, so wake-ups and preemptions fall in
between. The RT class is its set of queued tasks ordered by priority and a
throttling flag; the fair class picks any of its tasks. Cgroup paths matter by
one character, so a group is the root, a background group or another one.

**TegraWrr.** The same class on SMP, with the core around it. A step is what one
CPU does under the run queue locks it needs: `try_to_wake_up()` is the read of
`p->on_rq`, then `ttwu_remote()` under the run queue lock or the wait for
`on_cpu` (`ttwu_wait`), then for a WRR task one step per round of
`select_task_rq_wrr()`, which reads the other queues without their locks, then
`Queue` on this CPU or on another one's `wake_list`, emptied by `scheduler_ipi`.
`busy[c]` says what CPU `c` is in the middle of with interrupts off; the run
queue lock stays held from `schedule` to `finish_task_switch`, `p->pi_lock`
during a whole wake-up. `scheduler_tick` may start `pull_wrr_task`, one step per
CPU it looks at. `__sched_setscheduler()` is two steps, before and after
`check_class_changed()`: it keeps both locks, but a CPU that needs neither may
act in between. `SetCgroup` and `sched_move_task` are two steps because the
cgroup core changes the group before the scheduler takes its locks. Hotplug goes
through its notifiers (`sched_cpu_inactive`, `migration_call`, `migrate_tasks`);
while a CPU dies all others are stopped. `nr_running` counts a WRR task twice
(`activate_task()` and `enqueue_task_wrr()` both raise it), as in the code. A
tick may or may not end a slice. From the configuration
(`tegra3_android_defconfig`): preemptible, hotplug, RT group scheduling, no
cpusets. RT tasks, fork and exit are left out here; the fair class, the CPU
stopper, the cgroup core and `kernel/cpu.c` are external.

**Kthread.** kthreadd, the users and the threads interleave at each point where
the code gives up a lock, wakes or sleeps. `schedule()` in a state other than
"running" leaves the CPU until somebody sets the state back: this is where
wake-ups could be lost. The thread function is external and loops as
`kthread_worker_fn()` does, or exits by itself. `kthread_bind()` is two steps,
the wait for the thread to be off the CPU and the unlocked write of its mask.

**KthreadWorker.** What runs under `worker->lock` is one step; `func()`,
`done_seq`, the read of `flushing` and the wake-up are steps of their own, as
are the flusher's increment, its place on the wait queue and its test. The
barriers in the code order exactly these loads and stores, so a sequentially
consistent interleaving is what they leave. Sequence numbers are integers modulo
`IntRange` and start at `FirstSeq`, which lets a run begin just before overflow.
`completed`, `owed`, `queued` and `overlapped` are history variables.

**CountingCompletion, Completion.** The abstract module is the promise: a
counter, waits that lower it, waits that fail only at zero and only by timeout,
signal or "busy" as the caller asked. `Completion` is the code: `done`, the
exclusive queue, task states, timers and signals. What runs under
`x->wait.lock` is one step; a woken waiter that has not got the lock back yet is
a state in which everybody else may move. `Woken(nr)` is the walk of
`__wake_up_common()` written as a set. The counter wraps at `UintRange`.

**WaitQueue** has both kinds of entries on one queue and lets `__wake_up()` walk
it entry by entry, while timers and signals wake sleepers that stand on it.
**WaitInactive** splits `__schedule()` where it drops the run queue's lock.
**CrossCpu** has one CPU asked by several; each access to a flag, list or bit
that both sides use is a step. **TaskPrio** keeps of a task what `prio`,
`normal_prio` and the class are computed from; the rt_mutex chain is external
and sets the priority of the best waiter. **TaskGroups** follows memory from
`kzalloc()` to `kfree()` through failing allocations, RCU and walks of the tree.
**SchedDomains** keeps who points where, the reference counts and the memory;
what a domain contains follows from the build it belongs to. **Ptree** replaces
recursion by the list of what is still to be visited.

**RtPushPull** says what each CPU is in the middle of when
`double_lock_balance()` has dropped the first lock. **RtBandwidth** is the
runtime of one group on all CPUs, with hotplug as a plan of notifiers and
rebuilds. **Affinity** is one task's mask between setters, the cpuset, stoppers
and wake lists. **RtGroups** keeps lists, bitmaps and counters of all `rt_rq`s
as one value, and each function of the code is an operator from such a value to
the next. **RtAdmission** splits each call where it reads a value before taking
the lock that guards it.

**LoadMath** runs the code's shortcuts beside the same thing done one tick or
one cycle at a time. **LoadAvg** and **LoadTegra** take one access to the shared
counters per step. **CpuTime** has one process with threads in nested cpuacct
groups; readers without a lock take several steps. **IrqClock** keeps the true
times beside the ones the code measures; 64-bit values are two words.

Definitions whose comment begins with "Mutant" are not part of a specification:
each is a plausible mistake in the definition after it, kept so that one can see
which property notices it (`mutants` in `PROJECT.json`).

## Runs

| Run | Instance | What it shows |
|---|---|---|
| `caesar_faults` | 2 clients, 3 descriptors, 1 place, both kinds of line, killed clients, failing pthread_create() | `PlacesCounted`; while threads read `connectfd` before the next accept: `OneInFlight` and, under fairness, `ClientsServed` |
| `kernel_threads` | 2 users, kernel_thread() may fail; 1 work queued twice, 2 flushers, a stop, numbers that overflow | `NoLateAccess`, `StopReturnsResult`, `WakeUpsPending`, `FlushComplete`; under fairness `CallsReturn`, `WorkerAnswers` |
| `tegra_smp` | 2 tasks of either class, 2 CPUs of which one can go down, 2 requests (class, affinity, group, hotplug); 2 CPUs of load, 1 task | `RunQueuesExact` (run lists and counters exact, a task on one CPU only), `NothingStranded`, no deadlock; `LoadCounted` |
| `services` | see the cfg: 3 completion tasks, 2 + 3 waiters and a waker, 2 senders, 2 callers of ptree, 2 groups, 2 tasks with priorities, 3 CPUs in domains, clocks of 2-value words | `EnoughAwake`, `QueueExact`, `IsCounter`; `WakeUpSound`; `SameCountNotRun`; `NothingAskedIsLost`; `AloneExact`; `GroupsSound`; `PrioritiesSound`; `DomainMemory`, `PartitionFollowed`; `RuntimeMonotone` |
| `balance` | 3 RT tasks on 2 CPUs, 2 CPUs that lend runtime, 2 setters on 3 CPUs | `PushableSound`, `NothingForgotten`; `RuntimeConserved`; `CpusetRespected` |
| `rt_hierarchy` | 2 RT tasks in groups three deep; 2 callers, 2 groups, 5 calls | `ListsFollowPriorities`, `BoostedRuns`; `ChildrenFit` |
| `bookkeeping` | WRR: 2 tasks, 2 groups, all policies, 1 RT priority, 2 nice levels, slices of 2 and 1; 9 idle gaps and 8 cycle counts; 2 threads in 2 groups | `RunQueueExact`, `NoLostTask`, `WeightAccounting`, `SliceFits`; `BulkClose`; `GroupTimesSound` |
| `goldfish_tick` | 3 tasks; 1 CPU and the timekeeper, period 3, window 2, sleeps of up to 5 ticks | under fairness `WrrServed`: every queued WRR task gets the CPU, and before fair ones; `DeltasConserved` and, under fairness, `LoadSettles` |
| `caesar_own` (counterexample) | two threads on one connection, through the shared `connectfd` | refutes "for each newly coming client, allocate a thread for it" (server.c:5) |
| `tegra_hotplug` (counterexample) | `migrate_tasks()` picks a WRR task it cannot move again and again with every CPU stopped: `set_cpus_allowed_wrr()` is empty, so the mask stays | refutes "Find suitable destination for @next, with force if needed." (tegra sched.c:6349) |
| `fork_reverts` (counterexample) | 2 tasks: one becomes SCHED_FIFO with SCHED_RESET_ON_FORK, wakes and forks; the child is SCHED_NORMAL and queued with its parent's real-time priority | refutes "Revert to default priority/policy on fork if requested." (tegra sched.c:2874) |
| `rt_told` (counterexample) | 3 RT tasks on 2 CPUs, 1 change of class: `switched_from_rt()` pulls to a CPU that schedules while both locks are dropped, and nobody tells it of the task | refutes "If there's a higher priority task waiting to run then reschedule." (tegra sched_rt.c:1730) |

Each property stands in its module with what it says in words; the `hazards` in
`PROJECT.json` name the line where the code could go wrong and the property that
would show it.

### Bounds

Two clients are enough for two threads to compete for the last place and for the
shared descriptor; with one place the competition happens at once. Two tasks
bring every pair of states of a running and a queued task in `bookkeeping`, where
nobody asks for SCHED_RESET_ON_FORK (on goldfish the proofs and `goldfish_tick` have
it too); three are needed in `goldfish_tick` for a queue that turns. Two users share kthreadd's
list in both orders. One work meets two flushers, of which one may flush the
work and the other the worker, and the second queueing (`MaxQueued` = 2) is the
one that overlaps an execution; `IntRange` = 6 and `FirstSeq` = 5 overflow with
the first. In `tegra_smp` two CPUs, of which CPU 0 stays, bring a waker and a
sleeper, a source and a destination, a dying CPU and a survivor; the second task
competes for them, tasks are interchangeable (symmetry), and `MaxRequests` = 2
joins any two changes of class, affinity, group or CPUs with any number of
sleeps, wake-ups, ticks and pulls. The load next to it has one task that may start,
block on one CPU and wake on the other (`MaxTaskChanges` = 3) while a CPU leaves. Three completion tasks let one be woken, one
barge in and one sleep behind; `UintRange` = 8 makes `complete_all()` (adding 3)
overflow in three calls. Three exclusive waiters, two others and four calls let a
wake-up stand on an entry while its sleeper leaves. Two groups, of which one may
be inside the other, two creations and three task moves bring destruction under
a walk. Three CPUs in three levels let a level be cut out and a partition be
half replaced. Three RT tasks on two CPUs are the least for one that waits while
two run, and the one change of class or priority is what makes a pull late. Groups
three deep have one in the middle to throttle. Where calls are counted (`Max...`
constants) the number lets every pair of calls meet and one follow; counters of
things that repeat are bounded and everything else is finite by itself.
`CHECK_DEADLOCK` is off where the environment may have nothing more to ask: all
clients gone, all threads stopped, all calls used. `LoadAvg` has one CPU that
samples, since two exceed what TLC finishes in minutes; what two share are sums,
which `LoadTegra` checks with two and `DeltasAreConserved` proves for any number.

### Fairness

Weak fairness stands for "what can run gets to run": each thread, main() and a
client's recv() in `CaesarServer` (POSIX threads are scheduled; the mutex is
granted to every thread in the end, which is strong fairness of `Lock`),
rescheduling and the timer interrupt for `GoldfishWrr`, and the timekeeper, the CPU's
own ticks and leaving the idle loop with a task to run for `LoadAvg` (both stated in
`GoldfishTick`, each for the behaviours in which its part moves), tasks that are awake
in `KernelThreads`. What users, signals and timers do is never
assumed to happen. `FairSpec` of `TegraWrr` assumes only that the dying CPU goes
on: with the machine stopped nothing else runs.

## Proofs

All proofs are checked by TLAPS for every value of the constants that satisfies
the module's assumption: finite sets where something is counted, priorities and
bounds that are numbers in the right order, names that are not also those of
tasks. TLC evaluates the assumptions in every run.

| Theorem | Property |
|---|---|
| `GoldfishWrrProofs`: `TypeCorrect`, `RunQueueIsExact`, `WeightIsAccounted`, `SliceAlwaysFits`, `NoTaskLost` | types, `RunQueueExact`, `WeightAccounting`, `SliceFits`, `NoLostTask` |
| `ServicesProofs`: `TypeCorrect`, `QueueIsExact`, `NoSignalStuck`, `CompletionIsCounter`, `WakeUpsReachSleepers` | types, `QueueExact`, `EnoughAwake`, the refinement `IsCounter`, `WakeUpSound` |
| `ServicesProofs`: `SameCountMeansNotRun`, `QueuedWhereSought`, `BoostsAsLongAsNeeded`, `NothingAskedGetsLost` | `SameCountNotRun`, `QueuedByPrio`, `PrioritiesSound`, `NothingAskedIsLost` |
| `CaesarServerProofs`: `PlacesAreCounted`, `OneMessageAtATime` | `PlacesCounted`, `OneInFlight` |
| `KernelThreadsProofs`: `NobodyIsLate`, `StopGivesTheExitCode`, `NoWakeUpIsLost`, `FlushesAreComplete` | `NoLateAccess`, `StopReturnsResult`, `WakeUpsPending`, `FlushComplete` |
| `TegraWrrProofs`: `RunQueuesAreExact`, `NothingIsStranded` | `RunQueuesExact` (with types and `OneCpu`), `NothingStranded` |
| `BalanceProofs`: `PushingIsSound`, `NothingIsForgotten`, `CpusetIsRespected` | `PushableSound`, `NothingForgotten`, `CpusetRespected` |
| `AccountingProofs`: `RuntimeIsMonotone`, `LoadIsCounted`, `DeltasAreConserved`, `ChildrenAlwaysFit` | `RuntimeMonotone`, `LoadCounted`, `DeltasConserved`, `ChildrenFit` |

The theorems are about the specification of the component itself (`Spec`,
`InactiveSpec`, ...); a composing module only puts components side by side.

`DataProofs` has what the others share. Unlinking and linking change the set of a
list's entries in a known way, which the first lemmas of `GoldfishWrrProofs` lift
to the counters of a `wrr_rq`. A sum over a finite set (`SumFunctionOnSet` of the
community modules, a fold that picks its members by CHOOSE) exists, does not depend
on the order (`SumSplit`), and changes by what one or two of its terms change by
(`SumChange`, `SumChangeTwo`); in place of induction these lemmas take a set of
least size for which they fail (`LeastOfSets`).

**GoldfishWrrProofs.** No property is inductive alone. To unlink a task and
subtract its weight the list must be exact; that the weight fits needs weight
and slice to be tied together even for tasks of other classes, which keep both
and may come back; that `schedule()` and the tick act on a linked task needs the
running task to be on the run queue, which rests on what `schedule()` may pick.
`IInv` is the conjunction of these parts, and there is one lemma per action that
shows the parts it can disturb.

**ServicesProofs.** `EnoughAwake` counts: as many waiters are on their way as
there are signals. A waiter that leaves with a signal takes one off each side,
which needs it to be queued once and awake; `complete()` adds one to each side,
which needs the walk of the queue to reach the first sleeper; everything else
either finds the counter at zero or only wakes. For the refinement one more fact
is carried along: a timer that fired was asked for. The counter is above two
bits wide.

`WakeUpSound` of `WaitQueue` (in the same module) is about a walk that others
change the entries under. Its invariant `QueueInv` has three parts: the list
holds exactly the entries that were added and not yet removed; exclusive entries
come last; and a walk stands at a place k of the list, has the rest of the list
before it, and has left no sleeper of its mode behind it, having woken fewer than
it was asked for. When the walk ends early, what is after k is exclusive, which
is what the order of the entries is needed for. That no entry is added or
unlinked under the walk comes from the lock, so the proof also says who holds it.

`SameCountNotRun`: off the run queue and not on a CPU, a task has counted its
switch; the waiter's number is compared only in such a state. `PrioritiesSound`:
list, class and priority change together, and a real-time priority is the task's
own or that of its best waiter. One kind of task is exempt from the last: the child
of a fork with SCHED_RESET_ON_FORK while it has its parent's real-time priority, for
which the run `fork_reverts` shows that it fails. The history variable `unreverted`
holds these children, from the fork until their priority is computed anew; the proof
shows for every other task, their own children included, that nothing unjustified
reaches it.

`NothingAskedIsLost` is about the shortest way to ask a CPU for something. The
invariant `CrossInv` has three independent arguments. Where a woken task is: no
task has two wakers, and a push changes the `next` of a task that is in no list,
so it leaves both lists as they are but for itself (`ListPushed`; `ListFrom` is
the least set closed under `next`, so nothing is assumed of stale pointers).
What an idle target knows (`IdleIsTold`): whatever comes to it sets
`need_resched` or is about to, it polls only where it will look again, and it
waits only after a look that found nothing; who still finds it polling therefore
finds it before that look. And an hrtick that was asked for is armed, or the
call that arms it is pending exactly when its interrupt is.

**CaesarServerProofs.** For `PlacesCounted` the invariant adds to `PlacesCounted` that a thread that
is not yet created has no control point and holds no place: only then does
`pthread_create()` leave the count alone. It holds until the process is killed.
`OneInFlight` needs to know which thread answers a client. `OwnDescriptor` says
that a connection that is read has one open descriptor, that one thread alone
uses it, and that the thread answers the connection it read from, even while the
shared `connectfd` already names the next one; `Turns` then says for each
conversation whose turn it is: the client's, the line's or the answer's.

**KernelThreadsProofs.** For kthread.c 21-285 the invariant says of each user
where its request and its thread are at each of its control points: while a
creator waits, the request is on the list or with kthreadd, or the thread has
started and not announced itself, or the completion is there. A thread that
nobody has woken has not run and sleeps, which is what `kthread_bind()` and the
-EINTR of `kthread_stop()` rest on. For the worker, three things are tied
together. Each work's queueings are the executions that have ended, the one that
is running and the place on the list, and both of the last two mean it has
overlapped (`WorksCounted`); `queue_seq` and `done_seq` are the numbers of a
queueing and of one that has ended or overlapped (`SeqNumbers`), and numbers so
close are ordered as what they stand for (`NumberOrder`, modulo `IntRange`,
which only has to exceed twice the bound on the queueings). A flusher of the
whole worker is behind all it waits for (`WorkerFlushesOwed`). That no wake-up
is lost needs `flushing` to be the number of callers in a flush, of which those
who are about to sleep are on the wait queue.

**TegraWrrProofs.** One invariant serves both properties, neither of which is
inductive alone. `Queues`: the run queue of each CPU is exact for
the tasks that are queued there. What takes a task off a queue must know that it
does not execute: a current task is queued where it runs, and a task between
`schedule()` and `finish_task_switch()` is still there with `on_cpu` set
(`Running`), so pulls and balancing, which look at `on_cpu`, and the stopper,
which runs in the task's stead, are safe. What puts one on a queue must know
that it is on none. `Wakers`: `p->pi_lock` lets one wake-up at a time have a
task; at `ttwu_wait` the task sleeps and is off its queue, so once `on_cpu` is
clear nobody else touches it, and while `select_task_rq_wrr()` searches it is
"waking" and listed nowhere. `WakeLists` and `States`: a listed task is listed
once, on the CPU it was placed on, which has an IPI coming, and is queued
nowhere; so the loop of `sched_ttwu_do_pending()`, a recursive function in the
model (`Loop` shows by the least failing round what it leaves), queues only
tasks that are not queued. `GoingDown`: from the end of `stop_machine()` until
the CPU is dead nothing else is under way, so its emptied `wake_list` stays
empty and its queue only shrinks; whatever is placed elsewhere meanwhile goes to
a CPU that is online or active (`select_fallback_rq()` finds one because CPU 0
stays). Weights take no part: `total_weight` drifts when a group changes while
its tasks are queued. The proof has one lemma per action.

**BalanceProofs.** `PushableSound` has an invariant and an action part. What a
real-time run queue caches (the count of migratory tasks, the overload flag, the
list of pushable tasks) is tied to the set of tasks that are queued there
(`ExactFor`, `WaitFor`), and the running task is on its CPU's queue, except in
the middle of `__schedule()`, when it may already sleep while the CPU pulls
(`CurrHere`). `Enqueue` and `Dequeue` say that both functions keep a queue exact
for any set of tasks, and each handler is a few of these. That a push or a pull
has dropped its lock costs the invariant nothing but that two locks belong to two
run queues (`OpTypes`): whatever was true of the task and the target before is
looked at again under both. So a task moves only while it waits, to a CPU it may
use and where it is the highest.
`NothingForgotten` is again an action and an invariant. `EachTold` says that no step
leaves a CPU running something lower than what it queues without telling it. `Told` is
put as "somebody has announced it or nobody waits above the running task" (`ToldMeans`,
with `Announced` and `Outranked`), and the steps are of three kinds: those that concern
another CPU, those that add no task above the running one, and those that do and set
`need_resched`, or are part of a pull or of `__schedule()` that looks at the queue when
it is over. The one step that breaks it is excluded by name (`PulledLate`): the pull of
`prio_changed_rt()` or `switched_from_rt()` to a CPU that has scheduled since, which
is what the run `rt_told` shows. `WaitersHandled` is about the pushes, while nobody
changes a class, priority or affinity. Its invariant (`Handled`) says that each CPU is
busy with its own queue only, and that one with pushable tasks pushes, is about to, or
will after it has scheduled. A push ends when the task it would push preempts, or when
`has_pushable_tasks()` or the overload flag say there is none; the flag can be trusted
because a task that waits where nothing else is queued would have to be waiting below a
task of no RT class, which `Told` excludes (`LoneWaiter`). A wake-up that does not
push finds the queue already dealt with (`ActivateHandled`).
`CpusetRespected`: a setter that has not looked again yet stands between its
write of the mask and the end, and a stopper is on the way of a task that is
queued elsewhere; no mask that is asked for is empty.

**AccountingProofs.** `RuntimeMonotone` is an action property and two invariants,
for any length of a tick, any size of a word and any tasks. What has been
measured is a `Logical` time: while `account_system_vtime()` writes a sum word by
word it is the sum that is due. `MeasuredIsReal`: these sums and what the current
interrupt has taken so far are the true interrupt time. `WriteSound` and
`ReaderSound`: `seq` is odd exactly during a write, so four words read while it
stood still are the logical times (`ReadIsCurrent`). `ClocksSound`: what
`update_rq_clock_task()` takes out is therefore never negative, nor more than
what has elapsed, and `clock_task` never goes back, nor does a report. A tick
(`TickSound`) was due when its interrupt began and nothing is measured before it
is handled; that a time has been charged but for less than a tick bounds what the
tasks get (`TickArithmetic`).
`LoadCounted` and `DeltasConserved` are equations between sums. `LoadInv` and
`AvgInv` say them over all CPUs, and each step moves an amount from one term to
another: from a CPU to the CPU it wakes on or that takes over what is left of it,
from a CPU's sample to what it is about to add, from there to a counter, from one
counter to the next (`LoadMove`, `AvgMove`). `LoadInv` adds that a CPU that is off
line counts nobody, so that the sum may leave it out, and where the next sample may
stand while the timer is being handled (`AgesUnderWay`); `AvgInv` adds that what
was read in the open window goes to the counter that is not folded now
(`YoungOnes`).
`ChildrenFit`: a limit is written together with the test of all groups; a new group
has no runtime and nobody below it yet; a group that is removed has no children and
gives back what it had. That the defaults follow the sysctls needs their one writer
to remember what was admitted last (`OneHandler`).

Only model-checked, and why:

- Liveness (`ClientsServed`, `WrrServed`, `CallsReturn`, `WorkerAnswers`,
  `LoadSettles`): the prover handles neither fairness nor ENABLED.
- `BulkClose`, which compares recursive functions: it needs induction over data.
- `RuntimeConserved` and `GroupTimesSound`: not proved. Their loops over CPUs
  and groups are folds whose every step reads what the one before has written.
- `GroupsSound`, whose module defines the tree of groups by a RECURSIVE operator.
- `AloneExact`, `DomainMemory`, `PartitionFollowed`, `ListsFollowPriorities`,
  `BoostedRuns`: not proved (see the plan).

## Other things met

Four disagreements of code and text have runs of their own (the last four of the
table; `findings` in `PROJECT.json` quotes the lines). The following came up
while modelling and have none; each follows from the definitions.

Caesar service and ptree:

- An empty line sends no byte: no answer is due, and the client waits in `recv()`
  until it is killed (`ClientsServed` is about lines that reach the server).
- A client that is killed without ":q" keeps its place for ever: `recv()`
  returning 0 is taken for an empty message.
- Two calls of `ptree` at a time mix their rows, as both hold only the read lock
  of the task list (`AloneExact` is about calls that meet no other).

WRR class:

- The child of a WRR task says SCHED_WRR and runs in the fair class, while the
  report says that `sched_fork()` was revised to give WRR the behaviour of the
  others.
- On tegra the group may change between the choice of the weight at enqueue and
  the dequeue, and `total_weight` drifts (tegra sched.c:637 relies on the locks
  to pin the group).
- On goldfish a running RT task that becomes WRR goes on in front of a queued RT
  task, since `switched_from_rt()` pulls only on SMP and nothing asks for a
  reschedule; a WRR task that holds an rt_mutex is not boosted into the RT class.

Real-time class:

- `do_balance_runtime()` and its callers take the root domain of the CPU they run
  on; when a CPU is in transit what it lent may not come back before it is
  disabled, and the BUG_ON of `__disable_runtime()` can be reached.
- `next_prio()` leaves out the running task, so `highest_prio.next` may be stale, and
  `pull_rt_task()` leaves a task alone that is about to preempt the running one. A
  task that `push_rt_task()` has given up ("the other cpus will pull from us when they
  are ready", sched_rt.c:1438-1442) may therefore wait while another CPU goes idle; four
  tasks of different priorities on two CPUs are enough. That the highest RT tasks run is
  thus no property of the code; `NothingForgotten` says what the CPU a task waits on
  does for it.
- `tg_has_rt_tasks()` compares with the root's queue, so a group's limit can be
  set to zero while it has RT tasks that then never run.
- A limit that is written for the first time while RT tasks are queued starts no
  period timer.

Other parts:

- `set_cpus_allowed_ptr()` of a task that waits on a `wake_list` changes the mask
  and migrates nothing, because `on_rq` is 0; the task then runs on a CPU outside
  its mask until it next sleeps (tegra sched.c:6148).
- `completion_done()` is documented to tell whether there are waiters and returns
  whether `done` is non-zero.
- `kthread_stop()` is documented to return -EINTR only when the thread was never
  woken, and also does so when the stop overtakes the first run of a woken thread
  (`StopReturnsResult` states what does hold).
- A flush may return before an execution queued before it began, when the work
  was queued again while it ran (kthread.c:344, :388).
- `calc_load()` rounds: an idle system's averages stay at a small value instead
  of reaching 0 (6, 30 and 66 for the three of them).
- A CPU that goes idle between the timekeeper's catching up and its flipping of
  the index folds into the counter that is not read next (the property exempts
  that one race); on tegra another CPU may fold the idle counter in the period it
  was filled in.
- `__sdt_alloc()` returns at the first allocation that fails, and `__sdt_free()` then
  goes over every level (tegra sched.c:7481-7551): unless the last level is reached with
  its three per-cpu pointers set, it reads through pointers that are NULL or were freed
  by the build before, and frees what it finds there. `AllocFails` has the three outcomes:
  everything is freed properly, an oops with `sched_domains_mutex` held, or `wild`, a
  kernel that goes on. `DomainMemory` and `PartitionFollowed` hold in all states but
  those after `wild`; that is the only failing allocation they exclude.
- A build of domains that failed is remembered as built in `doms_cur`;
  `set_domain_attribute()` reads `sd->level` before it is set.
- Ticks that hit ksoftirqd count as softirq time although interrupts did not
  take it.

## Plan

1. `ListsFollowPriorities` and `BoostedRuns` of the RT groups: a stack of entities
   that comes off and goes back needs an induction over the depth of a group.
2. `RuntimeConserved`, with the sum lemmas of `DataProofs`.
3. RT tasks, fork and exit in `TegraWrr`, if the instance stays checkable.

## Not modelled, and why

The test programs are sequential and print what a call returned. Binary
artefacts, build files and configurations have no behaviour of their own;
constants the models need are taken from the headers. Project1/Module and
Project1/Project_1 keep older copies of ptree. The fair class, the rt_mutex
chain, cgroups, cpusets, sockets, timers, signals and the freezer are not in the
repository: they are external and appear as the choices they leave to the code
that is. `hotplug_hrtick()`, `get_nohz_timer_target()`, steal time, guest time,
autogroups, NUMA levels and `try_to_wake_up_local()` are left out of the modules
they would belong to.
