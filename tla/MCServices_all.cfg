SPECIFICATION ServicesSpec
CONSTANTS
 Tasks = {t1, t2, t3}
 Interruptible = {t2}
 Killable = {t3}
 Timed = {t2}
 UintRange = 8
 Sleepers = {s1, s2}
 Exclusives = {x1, x2, x3}
 Wakers = {w1}
 WakeCounts = {0, 1, 2}
 MaxWaitCalls = 4
 MaxRuns = 4
 MaxWaits = 3
 MaxNvcsw = 5
 Senders = {cpu1, cpu2}
 WokenTasks = {a, b}
 MaxAsks = 3
 Pids = {0, 1, 2, 3}
 InitTask = 0
 Reaper = 1
 Kthreadd = 2
 Clients = {u1, u2}
 MAX_NUM_PROC = 8
 MaxLoads = 1
 MaxPtrees = 1
 MaxTreeChanges = 1
 TaskGroupIds = {g1, g2}
 TgCpus = {1, 2}
 TgTasks = {k1, k2}
 MaxCreates = 2
 MaxTaskSteps = 3
 MaxWalks = 1
 Procs = {p1, p2}
 MAX_RT_PRIO = 3
 MAX_PRIO = 6
 Nice0 = 4
 MaxChanges = 5
 Cpus = {1, 2, 3}
 Topology <- MCTopology
 Requests <- MCRequests
 Fallbacks <- MCFallbacks
 Forces = {TRUE, FALSE}
 Readers = {r1}
 MaxBuilds = 2
 MaxReads = 1
 TICK = 1
 Word = 2
 Running = {"user", "idle", "ksoftirqd"}
 MaxClock = 4
 MaxIrqEvents = 5
INVARIANTS EnoughAwake QueueExact WakeUpSound SameCountNotRun NothingAskedIsLost AloneExact GroupsSound PrioritiesSound DomainMemory PartitionFollowed
PROPERTIES IsCounter RuntimeMonotone
CHECK_DEADLOCK FALSE
