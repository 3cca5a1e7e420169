SPECIFICATION BookkeepingSpec
CONSTANTS
 Tasks = {t1, t2}
 InitTask = t1
 Idle = idle
 Groups = {root, bg}
 Root = root
 BgGroups = {bg}
 RtGroups = {root}
 MAX_RT_PRIO = 2
 MAX_PRIO = 4
 RtPriorities = {1}
 StaticPrios = {2, 3}
 DEFAULT_PRIO = 3
 WaiterPrios = {0}
 Policies = {"normal", "wrr", "rt"}
 ResetFlags = {FALSE}
 WRR_FG_TIMESLICE = 2
 WRR_BG_TIMESLICE = 1
 Weights = {0, 10, 1024}
 Gaps = {0, 1, 2, 7, 8, 15, 31, 40, 64}
 MaxUpdates = 2
 Actives = {0, 1, 3}
 Cycles = {0, 1, 2, 3, 5, 7, 20, 50}
 NearLoad = 32
 NearAvg = 60
 Threads = {h1, h2}
 Niced = {h2}
 Callers = {a, b}
 None = none
 AcctRoot = top
 outer = outer
 inner = inner
 AcctGroups <- MCAcctGroups
 Parents <- MCParents
 Contexts = {"system", "irq"}
 CputimeMax = 256
 MaxTicks = 2
 MaxExec = 2
 MaxCalls = 2
 MaxMoves = 1
INVARIANTS RunQueueExact NoLostTask WeightAccounting SliceFits BulkClose
PROPERTY GroupTimesSound
CHECK_DEADLOCK FALSE
