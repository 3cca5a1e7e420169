SPECIFICATION PrioSpec
CONSTANTS
 Procs = {p1, p2}
 MAX_RT_PRIO = 3
 MAX_PRIO = 6
 Nice0 = 4
 MaxChanges = 5
INVARIANT ForkReverts
CHECK_DEADLOCK FALSE
