SPECIFICATION FairSpec
CONSTANTS
 Tasks = {t1}
 Idle = Idle
 Stopper = Stopper
 NR_CPUS = 2
 HotCpus = {1}
 Masks = {{0}, {1}}
 Groups = {root, bg}
 Root = root
 BgGroups = {bg}
 MaxRequests = 3
PROPERTY HotplugEnds
