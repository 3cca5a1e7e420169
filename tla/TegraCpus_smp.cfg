SPECIFICATION TegraCpusSpec
CONSTANTS
 Tasks = {t1, t2}
 Idle = Idle
 Stopper = Stopper
 NR_CPUS = 2
 HotCpus = {1}
 Masks = {{0}, {1}}
 Groups = {root, bg}
 Root = root
 BgGroups = {bg}
 MaxRequests = 2
 LoadCpus = {1, 2}
 LoadPeriod = 2
 Late = 1
 MaxJump = 5
 MaxActive = 1
 MaxTaskChanges = 3
 MaxPeriods = 1
 MaxHotplug = 1
INVARIANTS RunQueuesExact NothingStranded LoadCounted
SYMMETRY TaskSymmetry
