SPECIFICATION RtHierarchySpec
CONSTANTS
 Tasks = {t1, t2}
 Groups = {root, outer, inner}
 outer = outer
 inner = inner
 Root = root
 Homes = {root, inner}
 Parent <- MCParent
 MAX_RT_PRIO = 2
 Period = 2
 RUNTIME_INF = 9
 WaiterPrios = {0}
 Runtimes = {0}
 InitRuntime <- MCRuntime
 SysctlWrites = {FALSE}
 StartEnabled = TRUE
 Deltas = {1}
 MaxWrites = 1
 MaxTime = 2
 Other = other
 Members = {m1}
 Cgroups = {root, g1, g2}
 RootGroup = root
 NoLimit = 9
 Callers = {c1, c2}
 Periods = {1, 2}
 RuntimesWritten = {0, 1, 9}
 MaxPrio = 2
 RlimRtprio = 1
 MaxCalls = 5
SYMMETRY Symmetry
INVARIANTS ListsFollowPriorities BoostedRuns ChildrenFit
CHECK_DEADLOCK FALSE
