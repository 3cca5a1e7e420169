------------------------------ MODULE LoadMath ------------------------------
(***************************************************************************)
(* The arithmetic of the load statistics of the goldfish kernel            *)
(* (kernel/sched/core.c): rq->cpu_load[], decayed in bulk for the ticks    *)
(* that an idle CPU missed, and avenrun[], of which a long idle period     *)
(* makes up several cycles at once.  Beside each value stands what a CPU   *)
(* that never stops its tick would have, worked out one tick, or one       *)
(* cycle, at a time; the properties compare the two.                       *)
(***************************************************************************)
EXTENDS Integers, Sequences, SequencesExt

CONSTANTS
  Weights,        \* loads of a run queue
  Gaps,           \* ticks missed before an update
  MaxUpdates,
  Actives, Cycles, \* active tasks, and cycles made up at once
  NearLoad, NearAvg \* how far apart the two ways may come

VARIABLES
  cpu_load, ticked,  \* rq->cpu_load[1 ..], and the same one tick at a time
  updates,
  avenrun, cycled    \* avenrun[], and the same one cycle at a time

mathVars == <<cpu_load, ticked, updates, avenrun, cycled>>

Idx == 1 .. 4  \* CPU_LOAD_IDX_MAX is 5, cpu_load[0] is the load itself
FSHIFT == 11
FIXED_1 == 2048
EXP == <<1884, 2014, 2037>>  \* over 1, 5 and 15 minutes
Diff(a, b) == IF a < b THEN b - a ELSE a - b

\* the bits of n, the lowest first
Bits(n) == SelectSeq([j \in 1 .. 8 |-> [at |-> j, set |-> (n \div 2 ^ (j - 1)) % 2 = 1]],
                     LAMBDA b : n >= 2 ^ (b.at - 1))
Apply(x, n, f(_, _)) == FoldLeft(LAMBDA y, k : f(y, k), x, [k \in 1 .. n |-> k])

-----------------------------------------------------------------------------
(* cpu_load *)

degrade_zero_ticks == <<8, 32, 64, 128>>
degrade_factor ==
  << <<64, 32, 8, 0, 0, 0, 0, 0>>, <<96, 72, 40, 12, 1, 0, 0, 0>>,
     <<112, 98, 75, 43, 15, 1, 0, 0>>, <<120, 112, 98, 76, 45, 16, 2, 0>> >>

\* Mutant: the table is read one column to the right.
DecayNextColumn(load, missed, i) ==
  IF missed >= degrade_zero_ticks[i] THEN 0
  ELSE FoldLeft(LAMBDA l, b : IF b.set THEN (l * degrade_factor[i][b.at + 1]) \div 128 ELSE l,
                load, Bits(missed))

decay_load_missed(load, missed, i) ==
  IF missed >= degrade_zero_ticks[i] THEN 0
  ELSE IF i = 1 THEN load \div 2 ^ missed
  ELSE FoldLeft(LAMBDA l, b : IF b.set THEN (l * degrade_factor[i][b.at]) \div 128 ELSE l,
                load, Bits(missed))

\* one tick of a load; the division rounds up if the load is increasing
Average(old, load, i) ==
  (old * (2 ^ i - 1) + load + IF load > old THEN 2 ^ i - 1 ELSE 0) \div 2 ^ i

update_cpu_load(load, missed) ==
  /\ updates < MaxUpdates /\ updates' = updates + 1
  /\ cpu_load' = [i \in Idx |-> Average(decay_load_missed(cpu_load[i], missed, i), load, i)]
  /\ ticked' = [i \in Idx |-> Average(Apply(ticked[i], missed, LAMBDA l, k : Average(l, 0, i)), load, i)]
  /\ UNCHANGED <<avenrun, cycled>>

-----------------------------------------------------------------------------
(* avenrun *)

Half == 2 ^ (FSHIFT - 1)
calc_load(load, exp, active) == (load * exp + active * (FIXED_1 - exp) + Half) \div FIXED_1

\* fixed_power_int(): x^n by the bits of n, rounded at every multiplication
fixed_power_int(x, n) ==
  FoldLeft(LAMBDA s, b : [result |-> IF b.set THEN (s.result * s.x + Half) \div FIXED_1 ELSE s.result,
                          x |-> (s.x * s.x + Half) \div FIXED_1],
           [result |-> FIXED_1, x |-> x], Bits(n)).result

calc_load_n(load, exp, active, n) == calc_load(load, fixed_power_int(exp, n), active)

\* calc_global_load(), and the n cycles that calc_global_nohz() makes up
UpdateAverages(tasks, n) ==
  LET active == IF tasks > 0 THEN tasks * FIXED_1 ELSE 0
  IN  /\ updates < MaxUpdates /\ updates' = updates + 1
      /\ avenrun' = [e \in DOMAIN EXP |->
           calc_load_n(calc_load(avenrun[e], EXP[e], active), EXP[e], active, n)]
      /\ cycled' = [e \in DOMAIN EXP |->
           Apply(cycled[e], n + 1, LAMBDA l, k : calc_load(l, EXP[e], active))]
      /\ UNCHANGED <<cpu_load, ticked>>

MathInit ==
  /\ cpu_load \in {[i \in Idx |-> w] : w \in Weights} /\ ticked = cpu_load
  /\ avenrun = [e \in DOMAIN EXP |-> 0] /\ cycled = avenrun
  /\ updates = 0

\* one of the two, as nothing couples them
MathNext ==
  \/ avenrun = cycled /\ avenrun[1] = 0 /\ \E w \in Weights, m \in Gaps : update_cpu_load(w, m)
  \/ cpu_load = ticked /\ \E a \in Actives, n \in Cycles : UpdateAverages(a, n)

-----------------------------------------------------------------------------
(* Properties *)

\* Decaying in bulk by a table of 128 points gives the load that ticking would
\* have given, or nearly: 1 part in NearLoad of the highest load
\* (decay_load_missed()).
BulkDecayClose ==
  \A i \in Idx : \A w \in Weights :
    (\A v \in Weights : v <= w) => NearLoad * Diff(cpu_load[i], ticked[i]) <= w

\* Making up n cycles at once gives the average of n single cycles, or nearly
\* (calc_load_n(), fixed_power_int()).
BulkCyclesClose == \A e \in DOMAIN EXP : Diff(avenrun[e], cycled[e]) <= NearAvg

\* What a CPU makes up at once after a long sleep is what ticking through it
\* would have given, in cpu_load[] and in avenrun[].
BulkClose == BulkDecayClose /\ BulkCyclesClose

=============================================================================
