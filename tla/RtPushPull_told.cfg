SPECIFICATION PushPullSpec
CONSTANTS
 Tasks = {t1, t2, t3}
 Other = Other
 NR_CPUS = 2
 MAX_RT_PRIO = 3
 Masks = {{0}, {0, 1}}
 MaxRequests = 1
INVARIANT HigherPreempts
SYMMETRY Symmetry
CHECK_DEADLOCK FALSE
