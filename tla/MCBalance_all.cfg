SPECIFICATION BalanceSpec
CONSTANTS
 Tasks = {t1, t2, t3}
 Other = Other
 NR_CPUS = 2
 MAX_RT_PRIO = 3
 Masks = {{0}, {0, 1}}
 MaxRequests = 1
 BwCpus = {c1, c2}
 Boot = c1
 Def = def
 Dom = dom
 None = none
 Period = 4
 RUNTIME_INF = 99
 Runtime = 2
 Runtimes = {1}
 MaxTime = 4
 MaxEvents = 2
 CpuIds = {1, 2, 3}
 AllowedMasks <- MCMasks
 Setters = {s1, s2}
 MaxSets = 1
 MaxMaskUpdates = 1
 MaxSleeps = 1
INVARIANT CpusetRespected
PROPERTIES PushableSound NothingForgotten RuntimeConserved
SYMMETRY Symmetry
CHECK_DEADLOCK FALSE
