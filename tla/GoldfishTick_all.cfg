SPECIFICATION TickSpec
CONSTANTS
  t1 = t1
  t3 = t3
  t2 = t2
  root = root
  Tasks = {t1, t2, t3}
  InitTask = t1
  Idle = idle
  Groups = {root}
  Root = root
  BgGroups = {}
  RtGroups = {root}
  MAX_RT_PRIO = 2
  MAX_PRIO = 4
  RtPriorities = {}
  StaticPrios = {3}
  DEFAULT_PRIO = 3
  WaiterPrios = {}
  Policies = {"normal", "wrr"}
  ResetFlags = {FALSE, TRUE}
  WRR_FG_TIMESLICE = 1
  WRR_BG_TIMESLICE = 1
  Cpus = {c1}
  LOAD_FREQ = 3
  Window = 2
  MaxLate = 1
  MaxSleep = 5
  MaxTasks = 2
  MaxDrift = 1
INVARIANT DeltasConserved
PROPERTIES WrrServed LoadSettles
CHECK_DEADLOCK FALSE
