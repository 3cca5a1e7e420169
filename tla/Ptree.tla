------------------------------- MODULE Ptree --------------------------------
(***************************************************************************)
(* The ptree system call (Project1/submit/Prom1/ptree.c): a module puts it *)
(* into the system call table; a call walks the task tree depth first into *)
(* a buffer that all calls share, under tasklist_lock held for reading,    *)
(* and copies the buffer to its caller without the lock.  Recursion is a   *)
(* list of what is still to be visited: the tree cannot change meanwhile.  *)
(* A row is filled in one step; nr_tmp++ may lose an increment.            *)
(* Fork and exit are external.                                             *)
(***************************************************************************)
EXTENDS Naturals, FiniteSets, SequencesExt

CONSTANTS
  Pids, InitTask, Reaper, Kthreadd, \* pids; Reaper gets the children of the dead
  Clients,
  MAX_NUM_PROC,
  MaxLoads, MaxPtrees, MaxTreeChanges \* bounds

VARIABLES
  children,  \* the list of each task's children, and its parent
  treeChanges,
  table,     \* what the system call table has for __NR_ptree, and how often it was changed
  nr_tmp, buf_tmp,
  client     \* each caller: where it is, what it has to visit, its result

ptreeVars == <<children, treeChanges, table, nr_tmp, buf_tmp, client>>

Linked == {InitTask} \cup UNION {{children[t][i] : i \in DOMAIN children[t]} : t \in Pids}
ParentOf(t) == CHOOSE p \in Pids : \E i \in DOMAIN children[p] : children[p][i] = t

\* tree and alone are for the properties: the tree when the lock was taken, and
\* whether no other call was under way at any time
Away == [at |-> "user", todo |-> <<>>, n |-> 0, nr |-> 0, buf |-> <<>>,
         tree |-> <<>>, alone |-> TRUE, left |-> MaxPtrees]

Zeroed == [i \in 1 .. MAX_NUM_PROC |-> [level |-> 0, pid |-> 0, first_child_pid |-> 0, next_sibling_pid |-> 0]]

PtreeInit ==
  /\ \E others \in {<<>>} \cup {<<t>> : t \in Pids \ {InitTask, Reaper, Kthreadd}} :
       children = [t \in Pids |-> IF t = InitTask THEN <<Reaper, Kthreadd>>
                                   ELSE IF t = Reaper THEN others ELSE <<>>]
  /\ treeChanges = 0
  /\ table = [entry |-> "old", loads |-> 0] /\ nr_tmp = 0 /\ buf_tmp = Zeroed
  /\ client = [c \in Clients |-> Away]

-----------------------------------------------------------------------------

\* write_lock_irq(&tasklist_lock)
TreeFree == treeChanges < MaxTreeChanges /\ \A c \in Clients : client[c].at \notin {"visit", "count", "stuck"}

Fork ==
  /\ TreeFree /\ treeChanges' = treeChanges + 1
  /\ \E p \in Linked \ {InitTask}, t \in Pids \ Linked : children' = [children EXCEPT ![p] = Append(@, t)]
  /\ UNCHANGED <<table, nr_tmp, buf_tmp, client>>

Exit ==
  /\ TreeFree /\ treeChanges' = treeChanges + 1
  /\ \E t \in Linked \ {InitTask, Reaper, Kthreadd} :
       LET unlinked == [children EXCEPT ![ParentOf(t)] = SelectSeq(@, LAMBDA s : s # t), ![t] = <<>>]
       IN  children' = [unlinked EXCEPT ![Reaper] = @ \o children[t]]
  /\ UNCHANGED <<table, nr_tmp, buf_tmp, client>>

addsyscall_init ==
  /\ table.entry = "old" /\ table.loads < MaxLoads
  /\ table' = [entry |-> "ptree", loads |-> table.loads + 1]
  /\ nr_tmp' = 0 /\ buf_tmp' = Zeroed
  /\ UNCHANGED <<children, treeChanges, client>>

\* a call that is in the module is lost with it, and keeps the lock it holds
addsyscall_exit ==
  /\ table.entry = "ptree" /\ table' = [table EXCEPT !.entry = "old"]
  /\ client' = [c \in Clients |-> [client[c] EXCEPT
       !.at = IF @ = "user" THEN @ ELSE IF @ \in {"lock", "copy"} THEN "lost" ELSE "stuck", !.todo = <<>>]]
  /\ UNCHANGED <<children, treeChanges, nr_tmp, buf_tmp>>

-----------------------------------------------------------------------------

InCall == {c \in Clients : client[c].at \notin {"user", "lost", "stuck"}}

ResetCount == nr_tmp' = 0

\* ptree() up to read_lock()
Call(c) ==
  /\ table.entry = "ptree" /\ client[c].at = "user" /\ client[c].left > 0
  /\ ResetCount
  /\ client' = [d \in Clients |->
       IF d = c THEN [Away EXCEPT !.at = "lock", !.alone = (InCall = {}), !.left = client[c].left - 1]
       ELSE IF d \in InCall THEN [client[d] EXCEPT !.alone = FALSE, !.tree = <<>>, !.nr = 0, !.buf = <<>>] ELSE client[d]]
  /\ UNCHANGED <<children, treeChanges, table, buf_tmp>>

LockTasklist(c) ==
  /\ client[c].at = "lock"
  /\ client' = [client EXCEPT ![c].at = "visit", ![c].todo = <<[t |-> InitTask, level |-> 0]>>, 
                              ![c].tree = IF client[c].alone THEN children ELSE <<>>]
  /\ UNCHANGED <<children, treeChanges, table, nr_tmp, buf_tmp>>

\* the next entry of the list a task is in: for the last one the word at pid's place, as seen
\* from the list's head, is its parent's personality, which is 0
NextSibling(t) ==
  IF t = InitTask \/ Last(children[ParentOf(t)]) = t THEN 0
  ELSE LET list == children[ParentOf(t)]
       IN  list[1 + CHOOSE i \in DOMAIN list : list[i] = t]

Row(t, level) ==
  [level |-> level, pid |-> t, first_child_pid |-> IF children[t] = <<>> THEN 0 ELSE Head(children[t]),
   next_sibling_pid |-> NextSibling(t)]

\* Mutant: the children are visited after what is left of the siblings.
Breadthwise(todo, level) ==
  Tail(todo) \o [i \in DOMAIN children[Head(todo).t] |-> [t |-> children[Head(todo).t][i], level |-> level + 1]]

\* list_for_each() over the children, each visited with all below it
ChildrenFirst(todo, level) ==
  [i \in DOMAIN children[Head(todo).t] |-> [t |-> children[Head(todo).t][i], level |-> level + 1]] \o Tail(todo)

DFS(c) ==
  /\ client[c].at = "visit" /\ client[c].todo # <<>>
  /\ LET e == Head(client[c].todo)
     IN  /\ buf_tmp' = [buf_tmp EXCEPT ![nr_tmp + 1] = Row(e.t, e.level)]
         /\ client' = [client EXCEPT ![c].at = "count", ![c].n = nr_tmp,
                                     ![c].todo = ChildrenFirst(@, e.level)]
  /\ UNCHANGED <<children, treeChanges, table, nr_tmp>>

\* nr_tmp++
Count(c) ==
  /\ client[c].at = "count"
  /\ \E read \in {nr_tmp, client[c].n} : nr_tmp' = read + 1
  /\ client' = [client EXCEPT ![c].at = "visit", ![c].n = 0]
  /\ UNCHANGED <<children, treeChanges, table, buf_tmp>>

\* read_unlock(), and *nr = nr_tmp
UnlockTasklist(c) ==
  /\ client[c].at = "visit" /\ client[c].todo = <<>>
  /\ client' = [client EXCEPT ![c].at = "copy", ![c].nr = IF client[c].alone THEN nr_tmp ELSE 0]
  /\ UNCHANGED <<children, treeChanges, table, nr_tmp, buf_tmp>>

\* the loop that copies to the caller, up to what nr_tmp is by then; of a call that
\* overlaps another one neither rows nor count are kept: copying changes nothing shared
CopyRow(c) ==
  /\ client[c].at = "copy"
  /\ client' = [client EXCEPT ![c] =
       IF ~@.alone THEN [Away EXCEPT !.left = client[c].left]
       ELSE IF Len(@.buf) < nr_tmp THEN [@ EXCEPT !.buf = Append(@, buf_tmp[Len(@) + 1])]
       ELSE [@ EXCEPT !.at = "user"]]
  /\ UNCHANGED <<children, treeChanges, table, nr_tmp, buf_tmp>>

PtreeNext ==
  \/ Fork \/ Exit
  \/ addsyscall_init \/ addsyscall_exit
  \/ \E c \in Clients : Call(c) \/ LockTasklist(c) \/ DFS(c) \/ Count(c) \/ UnlockTasklist(c) \/ CopyRow(c)

-----------------------------------------------------------------------------
(* Properties *)

\* the rows are the tree: its root first, each child once, one level below and
\* somewhere after its parent, with everything below it before the next sibling
Describes(nr, rows, tree) ==
  LET rowOf(t) == CHOOSE i \in DOMAIN rows : rows[i].pid = t
      pids     == {rows[i].pid : i \in DOMAIN rows}
  IN  /\ nr = Len(rows) /\ Cardinality(pids) = nr /\ InitTask \in pids /\ rows[1].pid = InitTask /\ rows[1].level = 0
      /\ pids = {InitTask} \cup UNION {{tree[t][i] : i \in DOMAIN tree[t]} : t \in pids}
      /\ \A t \in pids : \A i \in DOMAIN tree[t] :
           LET r == rowOf(tree[t][i])
           IN  /\ rows[r].level = rows[rowOf(t)].level + 1
               /\ r > rowOf(t) /\ \A k \in rowOf(t) + 1 .. r : rows[k].level > rows[rowOf(t)].level
               /\ i = 1 => rows[rowOf(t)].first_child_pid = tree[t][i]
               /\ i < Len(tree[t]) => rows[r].next_sibling_pid = tree[t][i + 1] /\ rowOf(tree[t][i + 1]) > r

Result(c) == client[c].at = "user" /\ client[c].nr # 0

\* A call that no other one overlaps returns the task tree as it was at one
\* moment of the call, whatever forks and exits before, between and after its
\* steps, and whatever earlier calls left behind (ptree(), DFS()).
AloneExact ==
  \A c \in Clients : Result(c) /\ client[c].alone => Describes(client[c].nr, client[c].buf, client[c].tree)

=============================================================================
