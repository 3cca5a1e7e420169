----------------------------- MODULE TaskGroups -----------------------------
(***************************************************************************)
(* Task groups of the tegra kernel (kernel/sched.c): cpu cgroups created   *)
(* and destroyed while tasks move between them, fork and exit, while       *)
(* walk_tg_tree() descends the tree and the load balancer holds a group's  *)
(* queue from a leaf_cfs_rq_list, both under rcu_read_lock().              *)
(*                                                                         *)
(* cgroup_mutex covers creation, attachment and destruction.  A task keeps *)
(* its old group pinned until cpu_cgroup_exit() has returned.  `groupHeap' *)
(* is what kzalloc() returned and kfree() did not get back.                *)
(***************************************************************************)
EXTENDS Integers, Sequences, FiniteSets, SequencesExt

CONSTANTS
  TaskGroupIds,        \* memory for task groups, beside root_task_group
  TgCpus,              \* possible CPUs, 1 .. n
  TgTasks,
  MaxCreates, MaxTaskSteps, MaxWalks \* bounds

VARIABLES
  tree,      \* children lists: first child, siblings.next and parent of each group
  group,     \* "none", "linked" into the tree, or "unlinked" and waiting for RCU
  groupHeap, \* the objects of each group that are allocated
  hrtimer,   \* the bandwidth timer of a group: initialised, armed or neither
  freedTwice, \* whether something was freed that was not allocated
  leaf,      \* <<g, cpu>>: group's cfs_rq on the CPU's leaf_cfs_rq_list
  member,    \* css (its cgroup), in (its queues' group), on_rq, cpu, at, pinned
  mutex,     \* what the holder of cgroup_mutex is doing
  walk,      \* walk_tg_tree()
  held,      \* the group whose queue the load balancer looks at
  waits,     \* the readers each pending RCU callback waits for
  left       \* how often each bounded action may still be taken

treeVars == <<tree, group>>
tgMemVars == <<groupHeap, hrtimer, freedTwice>>
readVars == <<walk, held>>
groupVars == <<treeVars, tgMemVars, leaf, member, mutex, readVars, waits, left>>

RootGroup == "root_task_group"
NoGroup == "NULL"
Tree == TaskGroupIds \union {RootGroup}

Unlocked == [op |-> "none", g |-> NoGroup, t |-> NoGroup, cpus |-> {}]
NotWalking == [at |-> "none", parent |-> NoGroup, child |-> NoGroup,
               entered |-> <<>>, stable |-> {}]

\* sched_init(): the root group, and the init task in it
TgInit ==
  /\ tree = [first |-> [g \in Tree |-> NoGroup], next |-> [g \in Tree |-> NoGroup],
             parent |-> [g \in Tree |-> NoGroup]]
  /\ group = [g \in TaskGroupIds |-> "none"]
  /\ groupHeap = [g \in TaskGroupIds |-> {}] /\ hrtimer = [g \in TaskGroupIds |-> "none"] /\ freedTwice = FALSE
  /\ leaf = {}
  /\ LET init == CHOOSE t \in TgTasks : TRUE
     IN  member = [t \in TgTasks |->
                   [css |-> RootGroup, in |-> RootGroup, on_rq |-> t = init, cpu |-> 1,
                    at |-> IF t = init THEN "run" ELSE "unborn", pinned |-> RootGroup]]
  /\ mutex = Unlocked /\ walk = NotWalking /\ held = NoGroup
  /\ waits = [g \in TaskGroupIds |-> {}]
  /\ left = [creates |-> MaxCreates, steps |-> MaxTaskSteps, walks |-> MaxWalks]

-----------------------------------------------------------------------------
(* Creation *)

\* Pairs of a queue and an entity, allocated CPU by CPU
PerCpu(queue, entity) ==
  FlattenSeq([c \in TgCpus |-> <<[what |-> queue, cpu |-> c], [what |-> entity, cpu |-> c]>>])
Array(name) == <<[what |-> name, cpu |-> 0]>>

\* The order of kzalloc() in sched_create_group()
FairAllocs == Array("cfs_rq[]") \o Array("se[]") \o PerCpu("cfs_rq", "se")
RtAllocs == Array("rt_rq[]") \o Array("rt_se[]") \o PerCpu("rt_rq", "rt_se")
Allocs == Array("tg") \o FairAllocs \o RtAllocs
Objects == DOMAIN Allocs   \* an object is known by its place in the order

\* A queue whose entity could not be allocated is not yet recorded in the group
Unrecorded(allocated) ==
  {o \in allocated : Allocs[o].what \in {"cfs_rq", "rt_rq"} /\ o + 1 \notin allocated}

\* err_free_rq
FreedAlone(allocated) == Unrecorded(allocated)

\* free_sched_group(): what the arrays record, the arrays and the group
FreedWithGroup(allocated) == allocated \ Unrecorded(allocated)

\* list_add_rcu() at the head of the parent's children
LinkChild(g, parent) ==
  tree' = [first |-> [tree.first EXCEPT ![parent] = g],
           next |-> [tree.next EXCEPT ![g] = tree.first[parent]],
           parent |-> [tree.parent EXCEPT ![g] = parent]]

\* cpu_cgroup_create(), when the n first allocations succeed
sched_create_group(g, parent, n) ==
  LET allocated == 1 .. n
  IN  /\ mutex = Unlocked /\ group[g] = "none" /\ groupHeap[g] = {}
      /\ parent = RootGroup \/ (parent \in TaskGroupIds /\ group[parent] = "linked")
      /\ left.creates > 0 /\ left' = [left EXCEPT !.creates = @ - 1]
      /\ IF n = Len(Allocs)
         THEN /\ groupHeap' = [groupHeap EXCEPT ![g] = allocated]
              /\ hrtimer' = [hrtimer EXCEPT ![g] = "initialised"]
              /\ group' = [group EXCEPT ![g] = "linked"]
              /\ LinkChild(g, parent)
         ELSE /\ groupHeap' = [groupHeap EXCEPT ![g] = (allocated \ FreedAlone(allocated))
                                           \ FreedWithGroup(allocated)]
              /\ UNCHANGED <<tree, group, hrtimer>>
      /\ UNCHANGED <<freedTwice, leaf, member, mutex, readVars, waits>>

-----------------------------------------------------------------------------
(* Tasks *)

RECURSIVE Ancestors(_)
Ancestors(g) == IF g = RootGroup THEN {} ELSE {g} \union Ancestors(tree.parent[g])

\* enqueue_task(): the queues of the group and its ancestors become leaves
\* (list_add_leaf_cfs_rq()); a realtime task arms the group's timer
Enqueued(g, cpu, rt) ==
  /\ leaf' = IF rt THEN leaf ELSE leaf \union {<<a, cpu>> : a \in Ancestors(g)}
  /\ hrtimer' = IF rt /\ g # RootGroup THEN [hrtimer EXCEPT ![g] = "armed"] ELSE hrtimer

Moves(t) == [member EXCEPT ![t].in = member[t].css]

\* set_task_rq() between dequeue_task() and enqueue_task()
sched_move_task(t) ==
  IF member[t].on_rq THEN \E rt \in BOOLEAN : Enqueued(member[t].css, member[t].cpu, rt)
                   ELSE UNCHANGED <<leaf, hrtimer>>

TaskStep ==
  /\ left.steps > 0 /\ left' = [left EXCEPT !.steps = @ - 1]
  /\ UNCHANGED <<treeVars, groupHeap, freedTwice, readVars, waits>>

\* try_to_wake_up() and deactivate_task()
WakeTask(t) ==
  /\ member[t].at \in {"run", "exiting", "exited"} /\ ~member[t].on_rq /\ TaskStep
  /\ \E cpu \in TgCpus, rt \in BOOLEAN :
       /\ member' = [member EXCEPT ![t].on_rq = TRUE, ![t].cpu = cpu]
       /\ Enqueued(member[t].in, cpu, rt)
  /\ UNCHANGED mutex

SleepTask(t) ==
  /\ member[t].at = "run" /\ member[t].on_rq /\ TaskStep
  /\ member' = [member EXCEPT ![t].on_rq = FALSE]
  /\ UNCHANGED <<leaf, hrtimer, mutex>>

\* cgroup_fork(), sched_fork() and wake_up_new_task()
ForkTask(t, child) ==
  /\ member[t].at = "run" /\ member[child].at = "unborn" /\ TaskStep
  /\ member' = [member EXCEPT ![child] = [member[t] EXCEPT !.in = member[t].css, !.on_rq = FALSE]]
  /\ UNCHANGED <<leaf, hrtimer, mutex>>

\* cgroup_attach_task(): the task's cgroup, then cpu_cgroup_attach_task()
AttachCss(t, g) ==
  /\ mutex = Unlocked /\ member[t].at = "run" /\ g # member[t].css
  /\ g = RootGroup \/ (g \in TaskGroupIds /\ group[g] = "linked")
  /\ TaskStep
  /\ member' = [member EXCEPT ![t].css = g, ![t].pinned = g]
  /\ mutex' = [Unlocked EXCEPT !.op = "attach", !.t = t]
  /\ UNCHANGED <<leaf, hrtimer>>

cpu_cgroup_attach_task(t) ==
  /\ mutex.op = "attach" /\ mutex.t = t /\ mutex' = Unlocked
  /\ sched_move_task(t) /\ member' = Moves(t)
  /\ UNCHANGED <<treeVars, groupHeap, freedTwice, readVars, waits, left>>

\* cgroup_exit(): the task's cgroup is the top one, then cpu_cgroup_exit(),
\* then the old one is let go
ExitCss(t) ==
  /\ member[t].at = "run" /\ member[t].css # RootGroup /\ TaskStep
  /\ member' = [member EXCEPT ![t].css = RootGroup, ![t].at = "exiting"]
  /\ UNCHANGED <<leaf, hrtimer, mutex>>

cpu_cgroup_exit(t) ==
  /\ member[t].at = "exiting" /\ sched_move_task(t)
  /\ member' = [Moves(t) EXCEPT ![t].at = "exited", ![t].pinned = RootGroup]
  /\ UNCHANGED <<treeVars, groupHeap, freedTwice, mutex, readVars, waits, left>>

\* The bandwidth timer fires and finds nothing to do
TimerStops(g) ==
  /\ hrtimer[g] = "armed" /\ hrtimer' = [hrtimer EXCEPT ![g] = "initialised"]
  /\ \A t \in TgTasks : ~(member[t].on_rq /\ member[t].in = g)
  /\ UNCHANGED <<treeVars, groupHeap, freedTwice, leaf, member, mutex, readVars, waits, left>>

\* update_cfs_load() takes a queue whose load has decayed off the leaf list
LeafDecays(g, cpu) ==
  /\ <<g, cpu>> \in leaf /\ leaf' = leaf \ {<<g, cpu>>}
  /\ \A t \in TgTasks : ~(member[t].on_rq /\ member[t].cpu = cpu /\ g \in Ancestors(member[t].in))
  /\ UNCHANGED <<treeVars, tgMemVars, member, mutex, readVars, waits, left>>

-----------------------------------------------------------------------------
(* Destruction *)

\* Only a group without tasks and children is destroyed
Destroyable(g) ==
  /\ group[g] = "linked"
  /\ \A t \in TgTasks : g \notin {member[t].css, member[t].pinned}
  /\ \A h \in TaskGroupIds : ~(group[h] = "linked" /\ tree.parent[h] = g)

\* cpu_cgroup_destroy()
sched_destroy_group(g) ==
  /\ mutex = Unlocked /\ Destroyable(g)
  /\ mutex' = [Unlocked EXCEPT !.op = "destroy", !.g = g, !.cpus = TgCpus]
  /\ UNCHANGED <<treeVars, tgMemVars, leaf, member, readVars, waits, left>>

unregister_fair_sched_group(cpu) ==
  /\ mutex.op = "destroy" /\ cpu \in mutex.cpus
  /\ \A c \in mutex.cpus : cpu <= c
  /\ mutex' = [mutex EXCEPT !.cpus = @ \ {cpu}]
  /\ leaf' = leaf \ {<<mutex.g, cpu>>}
  /\ UNCHANGED <<treeVars, tgMemVars, member, readVars, waits, left>>

RcuReaders == (IF walk.at = "none" THEN {} ELSE {"walk"})
             \union (IF held = NoGroup THEN {} ELSE {"balance"})

\* Mutant: list_del_init()
DelInit(g) ==
  [tree EXCEPT !.first = [h \in Tree |-> IF tree.first[h] = g THEN tree.next[g] ELSE tree.first[h]],
               !.next = [h \in Tree |-> IF h = g THEN NoGroup
                                        ELSE IF tree.next[h] = g THEN tree.next[g] ELSE tree.next[h]]]
\* list_del_rcu(): g keeps its own next pointer
DelRcu(g) ==
  [tree EXCEPT !.first = [h \in Tree |-> IF tree.first[h] = g THEN tree.next[g] ELSE tree.first[h]],
               !.next = [h \in Tree |-> IF tree.next[h] = g /\ (h \in TaskGroupIds /\ group[h] = "linked")
                                        THEN tree.next[g] ELSE tree.next[h]]]

\* ... and call_rcu()
UnlinkGroup ==
  LET g == mutex.g
  IN  /\ mutex.op = "destroy" /\ mutex.cpus = {} /\ mutex' = Unlocked
      /\ group' = [group EXCEPT ![g] = "unlinked"]
      /\ tree' = DelRcu(g)
      /\ waits' = [waits EXCEPT ![g] = RcuReaders]
      /\ walk' = [walk EXCEPT !.stable = @ \ {g}]
      /\ UNCHANGED <<tgMemVars, leaf, member, held, left>>

free_sched_group_rcu(g) ==
  /\ group[g] = "unlinked" /\ waits[g] = {}
  /\ LET freed == FreedWithGroup(Objects)
     IN  /\ groupHeap' = [groupHeap EXCEPT ![g] = @ \ freed]
         /\ freedTwice' = (freedTwice \/ ~(freed \subseteq groupHeap[g]))
  /\ hrtimer' = [hrtimer EXCEPT ![g] = "none"]   \* destroy_rt_bandwidth()
  /\ group' = [group EXCEPT ![g] = "none"]
  /\ UNCHANGED <<tree, leaf, member, mutex, readVars, waits, left>>

-----------------------------------------------------------------------------
(* Readers *)

Finished(reader) == [g \in TaskGroupIds |-> waits[g] \ {reader}]

\* The load balancer finds a group's queue on the leaf list
LeafFound(g) ==
  /\ held = NoGroup /\ left.walks > 0 /\ left' = [left EXCEPT !.walks = @ - 1]
  /\ \E cpu \in TgCpus : <<g, cpu>> \in leaf
  /\ held' = g
  /\ UNCHANGED <<treeVars, tgMemVars, leaf, member, mutex, walk, waits>>

LeafLeft ==
  /\ held # NoGroup /\ held' = NoGroup /\ waits' = Finished("balance")
  /\ UNCHANGED <<treeVars, tgMemVars, leaf, member, mutex, walk, left>>

WalkStart ==
  /\ walk.at = "none" /\ left.walks > 0 /\ left' = [left EXCEPT !.walks = @ - 1]
  /\ walk' = [at |-> "down", parent |-> RootGroup, child |-> NoGroup, entered |-> <<>>,
              stable |-> {g \in TaskGroupIds : group[g] = "linked"}]
  /\ UNCHANGED <<treeVars, tgMemVars, leaf, member, mutex, held, waits>>

\* (*down)(parent), and the first child is looked up
WalkDown ==
  /\ walk.at = "down"
  /\ walk' = [walk EXCEPT !.at = "child", !.entered = Append(@, walk.parent),
                          !.child = tree.first[walk.parent]]

\* Down to a child, or (*up)(parent), after the last one
WalkChild ==
  /\ walk.at = "child"
  /\ walk' = IF walk.child # NoGroup
             THEN [walk EXCEPT !.at = "down", !.parent = walk.child]
             ELSE IF walk.parent = RootGroup
             THEN [walk EXCEPT !.at = "end"]
             ELSE [walk EXCEPT !.at = "up", !.child = walk.parent,
                               !.parent = tree.parent[walk.parent]]

WalkUp ==
  /\ walk.at = "up"
  /\ walk' = [walk EXCEPT !.at = "child", !.child = tree.next[walk.child]]

walk_tg_tree ==
  /\ WalkDown \/ WalkChild \/ WalkUp
  /\ UNCHANGED <<treeVars, tgMemVars, leaf, member, mutex, held, waits, left>>

WalkEnd ==
  /\ walk.at = "end" /\ walk' = NotWalking /\ waits' = Finished("walk")
  /\ UNCHANGED <<treeVars, tgMemVars, leaf, member, mutex, held, left>>

TgNext ==
  \/ \E g \in TaskGroupIds, parent \in Tree, n \in 0 .. Len(Allocs) : sched_create_group(g, parent, n)
  \/ \E t \in TgTasks : \/ WakeTask(t) \/ SleepTask(t) \/ ExitCss(t)
                        \/ cpu_cgroup_attach_task(t) \/ cpu_cgroup_exit(t)
                        \/ \E child \in TgTasks : ForkTask(t, child)
                        \/ \E g \in Tree : AttachCss(t, g)
  \/ \E g \in TaskGroupIds : \/ TimerStops(g) \/ sched_destroy_group(g)
                             \/ free_sched_group_rcu(g) \/ LeafFound(g)
                             \/ \E cpu \in TgCpus : LeafDecays(g, cpu)
  \/ \E cpu \in TgCpus : unregister_fair_sched_group(cpu)
  \/ UnlinkGroup \/ LeafLeft \/ WalkStart \/ walk_tg_tree \/ WalkEnd

-----------------------------------------------------------------------------
(* Properties *)

\* A task's queues, every queue on a leaf list and every queue the load balancer
\* looks at belong to a group that has not been freed, and from unlinking on no
\* task and no list leads to the group: "Only empty task groups can be destroyed".
QueuesAlive ==
  /\ \A t \in TgTasks : member[t].in # RootGroup => group[member[t].in] = "linked"
  /\ \A entry \in leaf : group[entry[1]] = "linked"
  /\ held # NoGroup => groupHeap[held] = Objects

\* After a creation that failed at any point, and after every destruction, exactly
\* the memory of the groups that exist is allocated, nothing was freed twice, and no
\* timer is left in memory that was freed.
GroupMemoryExact ==
  /\ ~freedTwice
  /\ \A g \in TaskGroupIds : groupHeap[g] = IF group[g] = "none" THEN {} ELSE Objects
  /\ \A g \in TaskGroupIds : hrtimer[g] # "none" <=> group[g] # "none"

\* walk_tg_tree() stands only in memory that is allocated, and its visitor is called
\* once for every group that was in the tree during the whole walk.
WalkComplete ==
  /\ walk.at # "none" =>
       \A g \in {walk.parent, walk.child} \ {NoGroup, RootGroup} : group[g] # "none"
  /\ IsInjective(walk.entered)
  /\ walk.at = "end" => walk.stable \subseteq Range(walk.entered)

\* Nobody uses a group that is gone, and nobody misses one that is there
\* (sched_create_group(), sched_destroy_group(), walk_tg_tree()).
GroupsSound == QueuesAlive /\ GroupMemoryExact /\ WalkComplete
=============================================================================
