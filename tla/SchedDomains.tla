---------------------------- MODULE SchedDomains ----------------------------
(***************************************************************************)
(* The scheduler domains of the tegra kernel (kernel/sched.c):             *)
(* partition_sched_domains() detaches the CPUs of the domains that are     *)
(* gone and builds the new ones, with sched_domains_mutex held.  A build   *)
(* allocates everything it might need, any of which may fail, claims what  *)
(* it used and frees the rest; what is replaced is freed by RCU, when the  *)
(* scheduler on no CPU can be looking at it.                               *)
(*                                                                         *)
(* What a domain contains follows from the build it belongs to (built), so *)
(* only the reference counts, the memory and who points where are state.   *)
(* The topology is nested, as without NUMA; overlapping domains come from  *)
(* the scheduler feature FORCE_SD_OVERLAP, which is read once in a build.  *)
(***************************************************************************)
EXTENDS Integers, Sequences, FiniteSetsExt, Functions, SequencesExt

CONSTANTS
  Cpus,             \* numbers, as the first CPU of a mask matters
  Topology,         \* bottom up: the mask of each CPU, and the flags that use no groups
  Requests,         \* what a partition may be changed to: sets of [mask, relax]
  Fallbacks,        \* values of cpu_active_mask without the isolated CPUs
  Forces,           \* settings of FORCE_SD_OVERLAP
  Readers,
  MaxBuilds, MaxReads \* bounds

Levels == DOMAIN Topology
ASSUME Nested ==
  /\ \A l \in Levels, c \in Cpus : c \in Topology[l].mask[c]
  /\ \A l \in Levels, c, d \in Cpus :
       /\ d \in Topology[l].mask[c] => Topology[l].mask[d] = Topology[l].mask[c]
       /\ l > 1 => Topology[l - 1].mask[c] \subseteq Topology[l].mask[c]
  /\ \A c \in Cpus : Topology[Len(Topology)].mask[c] = Cpus

VARIABLES
  built,    \* the builds so far: mask and force
  heap,     \* what is allocated
  twice,    \* something was freed that was not allocated
  wild,     \* __sdt_free() has read through a per-cpu pointer that is NULL or was freed
  ref,      \* reference counts of groups, their powers, and root domains
  base,     \* rq->sd of each CPU and its parents, bottom up
  rd,       \* rq->rd
  doms_cur,
  job,      \* what partition_sched_domains() has yet to do, see Idle
  rcu,      \* callbacks that wait, and for whom
  reader    \* what each reader looks at

memVars == <<built, heap, twice, wild, ref, rcu>>
rqVars == <<base, rd>>
domVars == <<memVars, rqVars, doms_cur, job, reader>>

DefRd == [kind |-> "rd", gen |-> 0]
Rd(g) == [kind |-> "rd", gen |-> g]
Obj(k, g, l, c) == [kind |-> k, gen |-> g, l |-> l, c |-> c]
Private(g, l, c, i) == [kind |-> "private", gen |-> g, l |-> l, c |-> c, i |-> i]
Builder == "builder"
Idle == [at |-> "idle", destroy |-> {}, build |-> {}, next |-> {}, cpus |-> {}, to |-> DefRd]

-----------------------------------------------------------------------------
(* What a build g contains *)

Mask(g) == built[g].mask
Span(g, l, c) == Topology[l].mask[c] \cap Mask(g)

\* build_sched_domains() goes up to the first level that spans the whole map
Top(g, c) == Min({l \in Levels : Span(g, l, c) = Mask(g)})
Chain(g, c) == [l \in 1 .. Top(g, c) |-> Obj("sd", g, l, c)]

\* the CPUs of the group that cpu c is in at level l: those of its child
Child(g, l, c) == IF l = 1 \/ l > Top(g, c) THEN {c} ELSE Span(g, l - 1, c)
get_group(g, l, c) == Min(Child(g, l, c))

\* build_overlap_sched_groups(): the CPUs a private group is made for
Uncovered(g, l, c) ==
  FoldLeft(LAMBDA s, i : IF i \in s.covered THEN s
                         ELSE [covered |-> s.covered \cup Child(g, l, i), is |-> s.is \cup {i}],
           [covered |-> {}, is |-> {}], SetToSortSeq(Span(g, l, c), <)).is

\* the groups in a domain's ring, the CPUs of one and the power it shares
Ring(s) ==
  IF built[s.gen].force
  THEN {Private(s.gen, s.l, s.c, i) : i \in Uncovered(s.gen, s.l, s.c)}
  ELSE {Obj("sg", s.gen, s.l, get_group(s.gen, s.l, c)) : c \in Span(s.gen, s.l, s.c)}
GroupCpus(sg) == Child(sg.gen, sg.l, IF sg.kind = "private" THEN sg.i ELSE sg.c)
Power(sg) == Obj("sgp", sg.gen, sg.l, Min(GroupCpus(sg)))

\* sd->groups
Groups(s) == CHOOSE sg \in Ring(s) : s.c \in GroupCpus(sg)

AllDomains(g) == UNION {Range(Chain(g, c)) : c \in Mask(g)}

-----------------------------------------------------------------------------
(* Allocating and building *)

Allocated(g, levels, cpus) == {Obj(k, g, l, c) : k \in {"sd", "sg", "sgp"}, l \in levels, c \in cpus}

\* the reference counts once every group is built
References(g) ==
  LET Users(o) == IF built[g].force
                  THEN {sg \in UNION {Ring(s) : s \in AllDomains(g)} : Power(sg) = o}
                  ELSE IF o.kind = "sg" THEN {s \in AllDomains(g) : Groups(s) = o}
                  ELSE {o} \cap {Power(Groups(s)) : s \in AllDomains(g)}
  IN  [o \in {p \in Allocated(g, Levels, Mask(g)) : p.kind # "sd"} |-> Cardinality(Users(o))]

\* claim_allocations(), for every CPU and domain
Claimed(g, refs) ==
  AllDomains(g) \cup {o \in DOMAIN refs : refs[o] > 0 /\ o.l <= Top(g, o.c)}

Free(S) ==
  /\ heap' = heap \ S
  /\ twice' = (twice \/ ~(S \subseteq heap))

\* __visit_domain_allocation_hell() fails, and __sdt_free() goes over the levels, all of them
AllocFails ==
  \* kzalloc_node() at the last level, d.sd or the root domain: what was got is freed
  \/ job' = [job EXCEPT !.at = "next"] /\ UNCHANGED wild
  \* alloc_percpu(), or kzalloc_node() at a level before: the per-cpu pointers of that level
  \* or of those above are NULL, or were freed with the build before.  The read through them
  \* is an oops, with sched_domains_mutex held, or what it finds is freed, whatever that is.
  \/ job' = [job EXCEPT !.at = "oops"] /\ UNCHANGED wild
  \/ job' = [job EXCEPT !.at = "next"] /\ wild' = TRUE

\* build_sched_domains() of a domain that is not there yet
BuildStart(d) ==
  /\ job.at = "next" /\ job.destroy = {} /\ d \in job.build
  /\ \E force \in Forces : built' = Append(built, [mask |-> d.mask, force |-> force])
  /\ job' = [job EXCEPT !.build = @ \ {d}, !.at = "alloc"]
  /\ UNCHANGED <<heap, twice, wild, ref, rqVars, doms_cur, rcu, reader>>

\* up to "Attach the domains"
Build ==
  LET g    == Len(built)
      refs == References(g)
      privates == IF built[g].force THEN UNION {Ring(s) : s \in AllDomains(g)} ELSE {}
  IN  /\ job.at = "alloc"
      /\ \/ AllocFails /\ UNCHANGED <<heap, ref>>
         \* a group cannot be allocated: nothing is claimed yet, all is freed
         \/ /\ privates # {}
            /\ job' = [job EXCEPT !.at = "next"]
            /\ UNCHANGED <<heap, wild, ref>>
         \* __free_domain_allocs() frees what was not claimed
         \/ /\ heap' = heap \cup Claimed(g, refs) \cup privates \cup {Rd(g)}
            /\ ref' = refs @@ (Rd(g) :> 0) @@ ref
            /\ job' = [job EXCEPT !.at = "attach", !.cpus = Mask(g), !.to = Rd(g)]
            /\ UNCHANGED wild
      /\ UNCHANGED <<built, twice, rqVars, doms_cur, rcu, reader>>

-----------------------------------------------------------------------------
(* Attaching *)

BalanceFlags == {"share_power", "share_pkg"}
Flags(s) == Topology[s.l].flags
OneGroup(s) == Cardinality(Ring(s)) = 1

sd_degenerate(s) ==
  \/ Cardinality(Span(s.gen, s.l, s.c)) = 1
  \/ OneGroup(s) /\ "affine" \notin Flags(s)

sd_parent_degenerate(s, p) ==
  \/ sd_degenerate(p)
  \/ /\ Span(s.gen, s.l, s.c) = Span(p.gen, p.l, p.c)
     /\ (IF OneGroup(p) THEN Flags(p) \ BalanceFlags ELSE Flags(p)) \subseteq Flags(s)

\* cpu_attach_domain(): the domains that contribute to scheduling
Contributing(chain) ==
  LET kept == FoldLeft(LAMBDA k, p : IF k # <<>> /\ sd_parent_degenerate(Last(k), p) THEN k ELSE Append(k, p),
                       <<>>, chain)
  IN  IF kept # <<>> /\ sd_degenerate(Head(kept)) THEN Tail(kept) ELSE kept

Reading == {r \in Readers : reader[r].on}
\* Mutant: the CPUs of a domain are attached outside of an RCU read-side section.
NoReadLock == Reading

\* whom a grace period that starts now waits for; the builder is in a section of its own
WaitFor == Reading \cup {Builder}

\* cpu_attach_domain() of the next CPU, with rq_attach_root()
Attach ==
  LET c     == Min(job.cpus)
      chain == IF job.to = DefRd THEN <<>> ELSE Chain(job.to.gen, c)
      old   == rd[c]
      gone  == (Range(chain) \ Range(Contributing(chain))) \cup Range(base[c])
               \cup (IF ref[old] = 1 THEN {old} ELSE {})
  IN  /\ job.at = "attach" /\ job.cpus # {}
      /\ base' = [base EXCEPT ![c] = Contributing(chain)]
      /\ rd' = [rd EXCEPT ![c] = job.to]
      /\ ref' = IF old = job.to THEN ref ELSE [ref EXCEPT ![old] = @ - 1, ![job.to] = @ + 1]
      /\ rcu' = rcu \o SetToSeq({[obj |-> o, wait |-> WaitFor] : o \in gone})
      /\ job' = [job EXCEPT !.cpus = @ \ {c}]
      /\ UNCHANGED <<built, heap, twice, wild, doms_cur, reader>>

\* somebody leaves its read-side section
Left(who) == [i \in DOMAIN rcu |-> [rcu[i] EXCEPT !.wait = @ \ {who}]]

\* rcu_read_unlock(), and __free_domain_allocs(), which frees a root domain nobody took
Attached ==
  /\ job.at = "attach" /\ job.cpus = {}
  /\ job' = [job EXCEPT !.at = "next", !.to = DefRd]
  /\ rcu' = Left(Builder)
  /\ Free(IF ref[job.to] = 0 THEN {job.to} ELSE {})
  /\ UNCHANGED <<built, wild, ref, rqVars, doms_cur, reader>>

-----------------------------------------------------------------------------
(* partition_sched_domains() *)

\* Mutant: every domain is built and none is destroyed first.
RebuildAll(doms) ==
  /\ job = Idle /\ doms_cur # doms /\ Len(built) + Cardinality(doms) <= MaxBuilds
  /\ job' = [Idle EXCEPT !.at = "next", !.build = doms, !.next = doms]
  /\ UNCHANGED <<memVars, rqVars, doms_cur, reader>>

\* destroy what is not in the new domains, build what is not in the old ones; by dattrs_equal() too
Partition(doms) ==
  /\ job = Idle /\ doms_cur # doms /\ Len(built) + Cardinality(doms \ doms_cur) <= MaxBuilds
  /\ job' = [Idle EXCEPT !.at = "next", !.destroy = doms_cur \ doms, !.build = doms \ doms_cur, !.next = doms]
  /\ UNCHANGED <<memVars, rqVars, doms_cur, reader>>

\* doms_new is NULL: all is destroyed, and of ndoms_new = 1 domain the CPUs are looked up
PartitionNull(n) ==
  /\ job = Idle /\ Len(built) + n <= MaxBuilds
  /\ \E mask \in Fallbacks :
       LET doms == IF n = 0 THEN {} ELSE {[mask |-> mask, relax |-> -1]}
       IN  job' = [Idle EXCEPT !.at = "next", !.destroy = doms_cur, !.build = doms, !.next = doms]
  /\ UNCHANGED <<memVars, rqVars, doms_cur, reader>>

\* detach_destroy_domains()
Destroy(d) ==
  /\ job.at = "next" /\ d \in job.destroy
  /\ job' = [job EXCEPT !.at = "attach", !.destroy = @ \ {d}, !.cpus = d.mask]
  /\ UNCHANGED <<memVars, rqVars, doms_cur, reader>>

\* "Remember the new sched domains"
Remember ==
  /\ job.at = "next" /\ job.destroy = {} /\ job.build = {}
  /\ doms_cur' = job.next /\ job' = Idle
  /\ UNCHANGED <<memVars, rqVars, reader>>

\* init_defrootdomain() and init_sched_domains()
DomInit ==
  /\ built = <<>> /\ heap = {DefRd} /\ twice = FALSE /\ wild = FALSE
  /\ ref = (DefRd :> 1 + Cardinality(Cpus))
  /\ base = [c \in Cpus |-> <<>>] /\ rd = [c \in Cpus |-> DefRd]
  /\ doms_cur = {}
  /\ \E mask \in Fallbacks :
       LET doms == {[mask |-> mask, relax |-> -1]}
       IN  job = [Idle EXCEPT !.at = "next", !.build = doms, !.next = doms]
  /\ rcu = <<>> /\ reader = [r \in Readers |-> [on |-> FALSE, left |-> MaxReads, base |-> <<>>, rd |-> DefRd]]

-----------------------------------------------------------------------------
(* RCU *)

\* free_sched_domain() and free_rootdomain(), after the grace period and in the order
\* of call_rcu() and of call_rcu_sched()
Callback(n) ==
  LET s     == rcu[n].obj
      drop  == IF built[s.gen].force THEN {Power(sg) : sg \in Ring(s)} ELSE {Groups(s)}
      refs  == [o \in DOMAIN ref |-> IF o \in drop
                  THEN ref[o] - (IF built[s.gen].force THEN Cardinality({sg \in Ring(s) : Power(sg) = o}) ELSE 1)
                  ELSE ref[o]]
      zero  == {o \in drop : refs[o] = 0}
  IN  /\ rcu[n].wait = {} /\ \A i \in 1 .. n - 1 : rcu[i].obj.kind # s.kind
      /\ rcu' = RemoveAt(rcu, n)
      /\ \/ s.kind = "rd" /\ Free({s}) /\ UNCHANGED ref
         \/ /\ s.kind = "sd" /\ ref' = refs
            /\ Free({s} \cup zero \cup
                    IF built[s.gen].force THEN Ring(s) ELSE {Power(sg) : sg \in zero})
      /\ UNCHANGED <<built, wild, rqVars, doms_cur, job, reader>>

\* the scheduler walks the domains of a CPU under rcu_read_lock()
ReadLock(r) ==
  /\ ~reader[r].on /\ reader[r].left > 0
  /\ \E c \in Cpus :
       /\ base[c] # <<>>
       /\ reader' = [reader EXCEPT ![r] = [on |-> TRUE, left |-> @.left - 1, base |-> base[c], rd |-> rd[c]]]
  /\ UNCHANGED <<memVars, rqVars, doms_cur, job>>

ReadUnlock(r) ==
  /\ reader[r].on
  /\ reader' = [reader EXCEPT ![r].on = FALSE, ![r].base = <<>>, ![r].rd = DefRd]
  /\ rcu' = Left(r)
  /\ UNCHANGED <<built, heap, twice, wild, ref, rqVars, doms_cur, job>>

DomNext ==
  \/ \E doms \in Requests : Partition(doms)
  \/ \E n \in {0, 1} : PartitionNull(n)
  \/ \E d \in job.destroy : Destroy(d)
  \/ \E d \in job.build : BuildStart(d)
  \/ Build
  \/ Attach \/ Attached \/ Remember
  \/ \E n \in DOMAIN rcu : Callback(n)
  \/ \E r \in Readers : ReadLock(r) \/ ReadUnlock(r)

-----------------------------------------------------------------------------
(* Properties *)

\* what can be reached from a domain
Below(s) == {s} \cup Ring(s) \cup {Power(sg) : sg \in Ring(s)}
Reachable(chain, r) == {r} \cup UNION {Below(s) : s \in Range(chain)}
InUse == UNION {Reachable(base[c], rd[c]) : c \in Cpus}
\* No domain, group, power or root domain that a run queue or a reader can
\* reach is freed, although the groups in a ring are kept by the domains of
\* different CPUs, which are replaced one at a time (cpu_attach_domain(),
\* free_sched_domain()).
InUseAlive == InUse \cup UNION {{reader[r].rd} \cup Range(reader[r].base) : r \in Readers} \subseteq heap

\* Nothing is freed twice, and what is in no use, and waits for no grace
\* period, is freed: a build keeps what it claimed and nothing else
\* (claim_allocations(), __free_domain_allocs()).
NothingLeaked ==
  /\ ~twice
  /\ job = Idle => heap \subseteq InUse \cup {DefRd} \cup
       UNION {IF cb.obj.kind = "sd" THEN Below(cb.obj) ELSE {cb.obj} : cb \in Range(rcu)}

\* Whoever reads while domains are built and replaced, their memory is freed once, and
\* after the last use of it; a build may lack memory for the last level, d.sd, the root
\* domain or a group.  Where it fails before that, __sdt_free() reads per-cpu pointers it
\* has not set: if the kernel survives that, nothing is said of its memory from then on
\* (wild; __sdt_alloc() returns at the first failure, __sdt_free() expects every level).
DomainMemory == wild \/ (InUseAlive /\ NothingLeaked)

\* Removing domains that do not contribute takes no CPU out of balancing:
\* those of a root domain are all in one domain of each of them, and no
\* domain is left that could never move a task (sd_degenerate()).
BalancedTogether ==
  \A c \in Cpus :
    /\ rd[c] # DefRd /\ job.cpus = {} /\ Cardinality(Mask(rd[c].gen)) > 1 =>
         base[c] # <<>> /\ Span(Last(base[c]).gen, Last(base[c]).l, c) = Mask(rd[c].gen)
    /\ \A s \in Range(base[c]) : Cardinality(Span(s.gen, s.l, c)) > 1

\* Between two calls the CPUs of a current domain share one root domain with
\* no other CPU, or, after a failed build, are left in the default one without
\* domains; a CPU of no domain is in the default one; and those that are
\* together are balanced together (partition_sched_domains()).  As for
\* DomainMemory, nothing is said once memory was freed through a wild pointer.
Followed ==
  job = Idle =>
    /\ \A d \in doms_cur : \A c \in d.mask :
         \/ rd[c] = DefRd /\ base[c] = <<>> /\ \A e \in d.mask : rd[e] = DefRd
         \/ rd[c] # DefRd /\ {e \in Cpus : rd[e] = rd[c]} = d.mask
    /\ \A c \in Cpus : (\A d \in doms_cur : c \notin d.mask) => rd[c] = DefRd /\ base[c] = <<>>
PartitionFollowed == wild \/ (Followed /\ BalancedTogether)

=============================================================================
