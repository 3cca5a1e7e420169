-------------------------- MODULE AccountingProofs --------------------------
(***************************************************************************)
(* What the kernels count, for every value of the constants: the run time  *)
(* and the interrupt time of tegra (IrqClock, RuntimeMonotone), the global *)
(* load averages of both kernels (LoadTegra, LoadCounted; LoadAvg,         *)
(* DeltasConserved), and what the groups of real-time tasks share          *)
(* (RtAdmission, ChildrenFit).                                             *)
(***************************************************************************)
EXTENDS IrqClock, LoadTegra, LoadAvg, RtAdmission, DataProofs

-----------------------------------------------------------------------------
(* Interrupt time and rq->clock_task of tegra *)

WordPairs == [lo : Nat, hi : Nat]

\* What account_system_vtime() has measured, written out in full or not yet
Logical(field) == IF cpu.write.field = field THEN Value(cpu.write.value) ELSE Value(irqTime[field])
LogicalTotal == Logical("hard") + Logical("soft")

\* A time of 64 bits is its two words.
LEMMA ValueOfWords ==
  ASSUME ClockAssumption, NEW t \in Nat
  PROVE  Words(t) \in WordPairs /\ Value(Words(t)) = t
<1>1. t % Word \in Nat /\ t \div Word \in Nat /\ t = Word * (t \div Word) + (t % Word)
  BY SMTT(30) DEF ClockAssumption
<1>2. Words(t).lo = t % Word /\ Words(t).hi = t \div Word
  BY DEF Words
<1>3. Word * (t \div Word) \in Nat
  BY <1>1 DEF ClockAssumption
<1> QED BY <1>1, <1>2, <1>3 DEF Words, Value, WordPairs

LEMMA ValueIsNat ==
  ASSUME ClockAssumption, NEW w \in WordPairs
  PROVE  Value(w) \in Nat
<1>1. w.lo \in Nat /\ w.hi \in Nat /\ Word \in Nat BY DEF WordPairs, ClockAssumption
<1> QED BY <1>1 DEF Value

\* ReadTotal() adds the two times word by word.
LEMMA ReadTotalIsSum ==
  ASSUME ClockAssumption, NEW hard \in WordPairs, NEW soft \in WordPairs, NEW got,
         got[1] = soft.lo, got[2] = soft.hi, got[3] = hard.lo, got[4] = hard.hi
  PROVE  ReadTotal(got) = Value(hard) + Value(soft)
<1> DEFINE a == soft.lo  b == soft.hi  c == hard.lo  d == hard.hi
<1>1. a \in Nat /\ b \in Nat /\ c \in Nat /\ d \in Nat /\ Word \in Nat
  BY DEF WordPairs, ClockAssumption
<1>2. Word * (b + d) = Word * b + Word * d /\ Word * b \in Nat /\ Word * d \in Nat
  <2> HIDE DEF a, b, c, d
  <2> QED BY <1>1
<1>3. (a + c) + Word * (b + d) = (c + Word * d) + (a + Word * b)
  <2> HIDE DEF a, b, c, d
  <2> QED BY <1>1, <1>2
<1> QED BY <1>3 DEF ReadTotal, Value

\* The whole ticks in a time, and what rounding loses.
LEMMA WholeTicks ==
  ASSUME ClockAssumption, NEW t \in Nat, NEW n \in Nat
  PROVE  /\ t \div TICK > n => TICK * (n + 1) <= t
         /\ ~(t \div TICK > n) => t < TICK * (n + 1)
<1>1. /\ t % TICK \in 0 .. TICK - 1 /\ t \div TICK \in Nat /\ TICK \in Nat
      /\ t = TICK * (t \div TICK) + (t % TICK)
  BY SMTT(30) DEF ClockAssumption
<1> DEFINE q == t \div TICK
<1>2. \A j, k \in Nat : j <= k => TICK * j <= TICK * k
  BY <1>1
<1>3. CASE q > n
  <2>1. TICK * (n + 1) <= TICK * q BY <1>1, <1>2, <1>3
  <2> QED BY <2>1, <1>1, <1>3
<1>4. CASE ~(q > n)
  <2>1. TICK * (q + 1) <= TICK * (n + 1) BY <1>1, <1>2, <1>4
  <2>2. TICK * (q + 1) = TICK * q + TICK BY <1>1
  <2> QED BY <2>1, <2>2, <1>1, <1>4
<1> QED BY <1>3, <1>4

-----------------------------------------------------------------------------
(* The inductive invariant *)

Writes == [field : {"none", "hard", "soft"}, left : SUBSET {"lo", "hi"}, value : WordPairs]
Updaters == [at : {"none", "begin", "words"}, delta : Nat, seq : Nat, got : Seq(Nat)]
RqClocks == [clock : Nat, clock_task : Nat, prev_irq_time : Nat]
Execs == [start : Nat, sum : Nat, reported : Nat]
IrqTimes == [start : Nat, hard : WordPairs, soft : WordPairs, seq : Nat]

ClockTypes ==
  /\ now \in Nat
  /\ cpu \in [curr : Running, context : Seq(IrqKinds), tick : BOOLEAN, write : Writes]
  /\ irqTime \in IrqTimes
  /\ rqClock \in RqClocks
  /\ exec \in Execs
  /\ updater \in Updaters
  /\ ticksCharged \in [irq : Nat, softirq : Nat, idle : Nat, ksoftirqd : Nat, tasks : Nat]
  /\ real \in [irq : Nat]

\* account_system_vtime() is in the middle of a write exactly while seq is odd, and
\* the words it has written are those of the new sum.
WriteSound ==
  /\ cpu.write.field = "none" <=> cpu.write = NoWrite
  /\ cpu.write.field = "none" <=> irqTime.seq % 2 = 0
  /\ cpu.write.field # "none" =>
       /\ cpu.write.left # {}
       /\ \A w \in {"lo", "hi"} \ cpu.write.left : irqTime[cpu.write.field][w] = cpu.write.value[w]

\* What is measured and what the current interrupt has taken is what was spent.
MeasuredIsReal ==
  /\ irqTime.start <= now
  /\ FieldOf(cpu.context) = "none" => real.irq = LogicalTotal
  /\ FieldOf(cpu.context) # "none" => real.irq + irqTime.start = LogicalTotal + now

\* What the reader u has read is what the times hold unless seq has moved on.
ReaderSound(u, times) ==
  /\ u.at # "words" => u.got = <<>>
  /\ u.at = "words" =>
       /\ Len(u.got) \in 0 .. 4
       /\ u.seq <= times.seq /\ u.seq % 2 = 0
       /\ u.seq = times.seq =>
            \A i \in 1 .. 4 : i <= Len(u.got) => u.got[i] = times[ReadOrder[i][1]][ReadOrder[i][2]]

\* What it is about to add to rq->clock has passed.
UpdaterSound ==
  /\ updater.at # "none" => rqClock.clock + updater.delta <= now
  /\ ReaderSound(updater, irqTime)

ClocksSound ==
  /\ rqClock.clock <= now
  /\ rqClock.prev_irq_time <= LogicalTotal
  /\ exec.start <= rqClock.clock_task
  /\ exec.reported <= exec.sum + rqClock.clock_task - exec.start

\* A tick is handled in the interrupt it came with, and was due when that began.
TickSound ==
  /\ cpu.tick => In(cpu.context, "hard") /\ TICK * (Ticks + 1) <= irqTime.start
  /\ TicksFollowTime

ClockInv ==
  /\ ClockTypes /\ WriteSound /\ MeasuredIsReal /\ UpdaterSound /\ ClocksSound /\ TickSound

\* ClockTypes, field by field.
FieldTypes ==
  /\ now \in Nat /\ real.irq \in Nat /\ cpu.write.value \in WordPairs
  /\ cpu.context \in Seq(IrqKinds) /\ cpu.tick \in BOOLEAN
  /\ irqTime.start \in Nat /\ irqTime.hard \in WordPairs /\ irqTime.soft \in WordPairs /\ irqTime.seq \in Nat
  /\ rqClock.clock \in Nat /\ rqClock.clock_task \in Nat /\ rqClock.prev_irq_time \in Nat
  /\ exec.start \in Nat /\ exec.sum \in Nat /\ exec.reported \in Nat
  /\ updater.delta \in Nat /\ updater.seq \in Nat /\ updater.got \in Seq(Nat)
  /\ ticksCharged.irq \in Nat /\ ticksCharged.softirq \in Nat /\ ticksCharged.idle \in Nat
  /\ ticksCharged.ksoftirqd \in Nat /\ ticksCharged.tasks \in Nat /\ Ticks \in Nat

LEMMA TypesOfFields == ASSUME ClockTypes PROVE FieldTypes
<1>1. ticksCharged \in [irq : Nat, softirq : Nat, idle : Nat, ksoftirqd : Nat, tasks : Nat]
  BY DEF ClockTypes
<1>2. Ticks \in Nat
  BY <1>1 DEF Ticks
<1> QED BY <1>1, <1>2 DEF ClockTypes, Writes, IrqTimes, Updaters, RqClocks, Execs, FieldTypes

\* A reader survives a writer, who moves seq on before it touches a word.
LEMMA ReaderKept ==
  ASSUME NEW u, NEW before, NEW after, u.seq \in Nat, before.seq \in Nat, after.seq \in Nat,
         ReaderSound(u, before), before.seq <= after.seq,
         u.at = "words" /\ u.seq = after.seq => after.hard = before.hard /\ after.soft = before.soft
  PROVE  ReaderSound(u, after)
<1>1. u.at = "words" => u.seq <= after.seq /\ (u.seq = after.seq => u.seq = before.seq)
  BY DEF ReaderSound
<1>2. ASSUME after.hard = before.hard, after.soft = before.soft, NEW i \in 1 .. 4
      PROVE  after[ReadOrder[i][1]][ReadOrder[i][2]] = before[ReadOrder[i][1]][ReadOrder[i][2]]
  BY <1>2 DEF ReadOrder
<1> QED BY <1>1, <1>2 DEF ReaderSound

LEMMA LogicalIsNat ==
  ASSUME ClockAssumption, ClockTypes
  PROVE  Logical("hard") \in Nat /\ Logical("soft") \in Nat /\ LogicalTotal \in Nat
<1>1. cpu.write.value \in WordPairs /\ irqTime.hard \in WordPairs /\ irqTime.soft \in WordPairs
  BY DEF ClockTypes, Writes, IrqTimes
<1>2. Value(cpu.write.value) \in Nat /\ Value(irqTime.hard) \in Nat /\ Value(irqTime.soft) \in Nat
  BY <1>1, ValueIsNat
<1>3. Logical("hard") \in Nat /\ Logical("soft") \in Nat
  BY <1>2 DEF Logical
<1> QED BY <1>3 DEF LogicalTotal

\* Between two writes the words hold what has been measured.
LEMMA NothingToWrite ==
  ASSUME ClockAssumption, ClockTypes, cpu.write = NoWrite
  PROVE  LogicalTotal = Value(irqTime.hard) + Value(irqTime.soft)
<1>1. cpu.write.field = "none" BY DEF NoWrite
<1>2. Logical("hard") = Value(irqTime.hard) /\ Logical("soft") = Value(irqTime.soft)
  BY <1>1 DEF Logical
<1> QED BY <1>2 DEF LogicalTotal

LEMMA SameLogical ==
  ASSUME cpu'.write = cpu.write, irqTime'.hard = irqTime.hard, irqTime'.soft = irqTime.soft
  PROVE  Logical("hard")' = Logical("hard") /\ Logical("soft")' = Logical("soft") /\ LogicalTotal' = LogicalTotal
<1>1. Logical("hard")' = Logical("hard") /\ Logical("soft")' = Logical("soft")
  BY DEF Logical, Value
<1> QED BY <1>1 DEF LogicalTotal

LEMMA ClockInitInv == ASSUME ClockAssumption, ClockInit PROVE ClockInv
<1>1. Words(0) \in WordPairs /\ Value(Words(0)) = 0
  BY ValueOfWords
<1>2. NoWrite \in Writes
  BY DEF NoWrite, WordPairs, Writes
<1>3. <<>> \in Seq(IrqKinds) /\ <<>> \in Seq(Nat)
  OBVIOUS
<1>4. ClockTypes
  BY <1>1, <1>2, <1>3 DEF ClockInit, ClockTypes, IrqTimes, Updaters, RqClocks, Execs, NothingRead
<1>5. cpu.write = NoWrite /\ cpu.context = <<>> /\ cpu.tick = FALSE
  BY DEF ClockInit
<1>6. WriteSound
  BY <1>5 DEF WriteSound, ClockInit, NoWrite
<1>7. LogicalTotal = 0
  BY <1>1, <1>4, <1>5, NothingToWrite DEF ClockInit
<1>8. FieldOf(cpu.context) = "none"
  BY <1>5 DEF FieldOf, In
<1>9. MeasuredIsReal
  BY <1>7, <1>8 DEF MeasuredIsReal, ClockInit
<1>10. UpdaterSound
  BY DEF UpdaterSound, ReaderSound, ClockInit, NothingRead
<1>11. ClocksSound
  BY <1>7 DEF ClocksSound, ClockInit
<1>12. TickSound
  BY <1>5 DEF TickSound, TicksFollowTime, ClockInit, ClockAssumption
<1> QED BY <1>4, <1>6, <1>9, <1>10, <1>11, <1>12 DEF ClockInv

-----------------------------------------------------------------------------
(* The interrupts *)

LEMMA ElapseInv == ASSUME ClockAssumption, ClockInv, Elapse PROVE ClockInv'
<1> USE DEF ClockInv
<1>1. /\ now' = now + 1 /\ UNCHANGED <<cpu, irqTime, rqClock, exec, updater, ticksCharged, spent>>
      /\ now \in Nat /\ real.irq \in Nat /\ irqTime.start \in Nat /\ rqClock.clock \in Nat /\ updater.delta \in Nat
      /\ TICK \in Nat /\ ticksCharged.tasks \in Nat /\ ticksCharged.idle \in Nat
  BY DEF Elapse, ClockTypes, IrqTimes, Updaters, RqClocks, ClockAssumption
<1>2. real' \in [irq : Nat] /\ real'.irq = real.irq + (IF FieldOf(cpu.context) # "none" THEN 1 ELSE 0)
  <2> DEFINE d == IF FieldOf(cpu.context) # "none" THEN 1 ELSE 0
  <2>1. real' = [real EXCEPT !.irq = @ + d] /\ d \in Nat /\ real \in [irq : Nat]
    BY DEF Elapse, ClockTypes
  <2> HIDE DEF d
  <2>2. real' \in [irq : Nat] /\ real'.irq = real.irq + d
    BY <2>1, <1>1
  <2> QED BY <2>2 DEF d
<1>3. ClockTypes'
  BY <1>1, <1>2 DEF ClockTypes
<1>4. WriteSound'
  BY <1>1 DEF WriteSound
<1>5. LogicalTotal' = LogicalTotal /\ LogicalTotal \in Nat
  BY <1>1, SameLogical, LogicalIsNat
<1>6. FieldOf(cpu.context)' = FieldOf(cpu.context)
  BY <1>1 DEF FieldOf, In
<1>7. MeasuredIsReal'
  BY <1>1, <1>2, <1>5, <1>6 DEF MeasuredIsReal
<1>8. UpdaterSound'
  BY <1>1 DEF UpdaterSound
<1>9. ClocksSound'
  BY <1>1, <1>5 DEF ClocksSound
<1>10. TickSound'
  <2>1. TICK * (ticksCharged.tasks + ticksCharged.idle) \in Nat
    BY <1>1
  <2>2. TicksFollowTime'
    BY <1>1, <1>2, <2>1 DEF TickSound, TicksFollowTime
  <2> QED BY <2>2, <1>1 DEF TickSound, In, Ticks
<1> QED BY <1>3, <1>4, <1>7, <1>8, <1>9, <1>10

\* A tick comes only with an interrupt, and when it is due.
TickMayCome(context, tick) == tick \in BOOLEAN /\ (tick => In(context, "hard") /\ TickDue)

\* What the tick and the reader see of a step that starts a measurement at `now'.
LEMMA AccountInv ==
  ASSUME ClockAssumption, ClockInv, NEW c \in Seq(IrqKinds), NEW t,
         account_system_vtime(c, t), TickMayCome(c, t)
  PROVE  ClockInv'
<1> USE DEF ClockInv
<1>0. PICK f : f = FieldOf(cpu.context)
  OBVIOUS
<1>1. /\ cpu.write = NoWrite /\ cpu.write.field = "none" /\ irqTime.seq % 2 = 0
      /\ UNCHANGED <<now, rqClock, exec, updater, ticksCharged, real>>
  BY DEF account_system_vtime, NoWrite, WriteSound
<1>2. f \in {"none", "hard", "soft"}
  BY <1>0 DEF FieldOf
<1>3. /\ now \in Nat /\ irqTime.start \in Nat /\ irqTime.seq \in Nat /\ irqTime.start <= now /\ real.irq \in Nat
      /\ irqTime.hard \in WordPairs /\ irqTime.soft \in WordPairs
  BY TypesOfFields DEF FieldTypes, MeasuredIsReal
<1>4. PICK d : d = now - irqTime.start /\ d \in Nat
  BY <1>3
<1>5. Value(irqTime.hard) \in Nat /\ Value(irqTime.soft) \in Nat
  BY <1>3, ValueIsNat
<1>6. LogicalTotal = Value(irqTime.hard) + Value(irqTime.soft)
  BY <1>1, NothingToWrite
<1>7. cpu'.context = c /\ cpu'.tick = t /\ irqTime'.start = now /\ irqTime'.hard = irqTime.hard /\ irqTime'.soft = irqTime.soft
  <2>1. irqTime \in IrqTimes /\ cpu \in [curr : Running, context : Seq(IrqKinds), tick : BOOLEAN, write : Writes]
    BY DEF ClockTypes
  <2>2. cpu'.context = c /\ cpu'.tick = t
    BY <2>1, <1>0 DEF account_system_vtime
  <2>3. irqTime'.start = now /\ irqTime'.hard = irqTime.hard /\ irqTime'.soft = irqTime.soft
    BY <2>1, <1>0 DEF account_system_vtime, IrqTimes
  <2> QED BY <2>2, <2>3
<1>8. /\ ClockTypes' /\ WriteSound'
      /\ LogicalTotal' = LogicalTotal + (IF f # "none" THEN d ELSE 0)
      /\ irqTime'.seq = irqTime.seq \/ irqTime'.seq = irqTime.seq + 1
  <2>1. CASE f = "none"
    <3>1. irqTime' = [irqTime EXCEPT !.start = now] /\ cpu' = [cpu EXCEPT !.context = c, !.tick = t]
      BY <1>0, <2>1 DEF account_system_vtime
    <3>2. cpu'.write = cpu.write /\ irqTime'.seq = irqTime.seq
      BY <3>1 DEF ClockTypes
    <3>3. LogicalTotal' = LogicalTotal
      BY <3>2, <1>7, SameLogical
    <3>4. ClockTypes'
      BY <3>1, <1>1, <1>3 DEF ClockTypes, IrqTimes, TickMayCome
    <3>5. WriteSound'
      BY <3>2, <1>1 DEF WriteSound
    <3> QED BY <2>1, <3>2, <3>3, <3>4, <3>5, <1>5, <1>6
  <2>2. CASE f # "none"
    <3>1. f \in {"hard", "soft"} /\ Value(irqTime[f]) \in Nat
      BY <2>2, <1>2, <1>5
    <3>2. PICK v : v = Words(Value(irqTime[f]) + d) /\ v \in WordPairs /\ Value(v) = Value(irqTime[f]) + d
      <4>1. Value(irqTime[f]) + d \in Nat BY <3>1, <1>4
      <4> QED BY <4>1, ValueOfWords
    <3>3. PICK w : w = [field |-> f, left |-> {"lo", "hi"}, value |-> v]
      OBVIOUS
    <3>4. irqTime' = [irqTime EXCEPT !.start = now, !.seq = @ + 1] /\ cpu' = [cpu EXCEPT !.context = c, !.tick = t, !.write = w]
      BY <1>0, <2>2, <3>2, <3>3, <1>4 DEF account_system_vtime
    <3>5. /\ w \in Writes
          /\ w.field = f /\ w.left = {"lo", "hi"} /\ w.value = v
      BY <3>1, <3>2, <3>3 DEF Writes
    <3>6. cpu'.write = w /\ irqTime'.seq = irqTime.seq + 1
      BY <3>4 DEF ClockTypes
    <3>7. ClockTypes'
      <4>1. cpu' \in [curr : Running, context : Seq(IrqKinds), tick : BOOLEAN, write : Writes]
        BY <3>4, <3>5 DEF ClockTypes, TickMayCome
      <4>2. irqTime' \in IrqTimes
        <5>1. PICK s : s = irqTime.seq + 1 /\ s \in Nat BY <1>3
        <5>2. irqTime' = [irqTime EXCEPT !.start = now, !.seq = s] BY <3>4, <5>1
        <5> QED BY <5>1, <5>2, <1>3 DEF ClockTypes, IrqTimes
      <4> QED BY <4>1, <4>2, <1>1 DEF ClockTypes
    <3>8. WriteSound'
      <4>1. (irqTime.seq + 1) % 2 # 0
        BY <1>1, <1>3
      <4>2. w # NoWrite
        BY <3>5, <3>1 DEF NoWrite
      <4> QED BY <4>1, <4>2, <3>1, <3>5, <3>6 DEF WriteSound
    <3>9. LogicalTotal' = LogicalTotal + d
      <4>1. Value(w.value) = Value(irqTime[f]) + d
        BY <3>2, <3>5
      <4>2. CASE f = "hard"
        <5>1. Logical("hard")' = Value(irqTime.hard) + d /\ Logical("soft")' = Value(irqTime.soft)
          BY <4>1, <4>2, <3>5, <3>6, <1>7 DEF Logical, Value
        <5> QED BY <5>1, <1>4, <1>5, <1>6 DEF LogicalTotal
      <4>3. CASE f = "soft"
        <5>1. Logical("soft")' = Value(irqTime.soft) + d /\ Logical("hard")' = Value(irqTime.hard)
          BY <4>1, <4>3, <3>5, <3>6, <1>7 DEF Logical, Value
        <5> QED BY <5>1, <1>4, <1>5, <1>6 DEF LogicalTotal
      <4> QED BY <4>2, <4>3, <3>1
    <3> QED BY <2>2, <3>6, <3>7, <3>8, <3>9
  <2> QED BY <2>1, <2>2
<1>9. MeasuredIsReal'
  <2>1. real.irq = LogicalTotal + (IF f # "none" THEN d ELSE 0)
    <3>1. PICK l : l = LogicalTotal /\ l \in Nat
      BY LogicalIsNat
    <3>2. /\ f = "none" => real.irq = l
          /\ f # "none" => real.irq + irqTime.start = l + now
      BY <1>0, <3>1 DEF MeasuredIsReal
    <3>3. PICK r, start : r = real.irq /\ start = irqTime.start /\ r \in Nat /\ start \in Nat
      BY <1>3
    <3>4. (f # "none" => r + start = l + now) /\ d = now - start /\ now \in Nat
      BY <3>2, <3>3, <1>3, <1>4
    <3>5. /\ f = "none" => r = l + 0
          /\ f # "none" => r = l + d
      <4>1. f = "none" => r = l + 0
        BY <3>1, <3>2, <3>3
      <4>2. f # "none" => r = l + d
        <5>1. r \in Nat /\ start \in Nat /\ l \in Nat
          BY <3>1, <3>3
        <5> QED BY <5>1, <3>4
      <4> QED BY <4>1, <4>2
    <3> QED BY <3>1, <3>3, <3>5
  <2>2. PICK n : n = LogicalTotal'
    OBVIOUS
  <2>3. UNCHANGED <<real, now>> /\ irqTime'.start = now
    BY <1>1, <1>7
  <2>4. real.irq = n
    BY <2>1, <2>2, <1>8
  <2>5. real.irq + now = n + now
    BY <2>4
  <2> QED BY <2>2, <2>3, <2>4, <2>5, <1>3 DEF MeasuredIsReal
<1>10. UpdaterSound'
  <2>1. PICK times : times = irqTime'
    OBVIOUS
  <2>2. updater.seq \in Nat /\ irqTime.seq \in Nat /\ times.seq \in Nat /\ irqTime.seq <= times.seq
    <3>1. PICK s : s = irqTime.seq /\ s \in Nat
      BY <1>3
    <3>2. times.seq \in {s, s + 1}
      BY <2>1, <3>1, <1>8
    <3>3. times.seq \in Nat /\ s <= times.seq
      BY <3>1, <3>2
    <3> QED BY <3>1, <3>3, TypesOfFields DEF FieldTypes
  <2>3. times.hard = irqTime.hard /\ times.soft = irqTime.soft
    BY <2>1, <1>7
  <2>4. ReaderSound(updater, times)
    BY <2>2, <2>3, ReaderKept DEF UpdaterSound
  <2>5. rqClock' = rqClock /\ updater' = updater /\ now' = now
    BY <1>1
  <2> QED BY <2>1, <2>4, <2>5 DEF UpdaterSound
<1>11. ClocksSound'
  <2>1. LogicalTotal \in Nat /\ LogicalTotal' >= LogicalTotal /\ LogicalTotal' \in Nat
    BY <1>4, <1>8, LogicalIsNat
  <2>2. rqClock.prev_irq_time \in Nat /\ UNCHANGED <<rqClock, exec, now>>
    BY <1>1, TypesOfFields DEF FieldTypes
  <2> QED BY <2>1, <2>2 DEF ClocksSound
<1>12. TickSound'
  <2>1. Ticks \in Nat
    BY TypesOfFields DEF FieldTypes
  <2>2. TickDue => TICK * (Ticks + 1) <= now
    BY <2>1, <1>3, WholeTicks DEF TickDue
  <2>3. UNCHANGED <<ticksCharged, now, real>> /\ cpu'.context = c /\ cpu'.tick = t /\ irqTime'.start = now
    BY <1>1, <1>7
  <2>4. cpu'.tick => In(cpu'.context, "hard") /\ TICK * (Ticks' + 1) <= irqTime'.start
    BY <2>2, <2>3, Zenon DEF TickMayCome, Ticks
  <2>5. TicksFollowTime'
    BY <2>3 DEF TickSound, TicksFollowTime
  <2> QED BY <2>4, <2>5, Zenon DEF TickSound, In
<1> QED BY <1>8, <1>9, <1>10, <1>11, <1>12

LEMMA IrqEnterInv ==
  ASSUME ClockAssumption, ClockInv, NEW kind \in IrqKinds, irq_enter(kind)
  PROVE  ClockInv'
<1>1. PICK tick \in BOOLEAN : (tick => kind = "hard" /\ TickDue) /\ account_system_vtime(Append(cpu.context, kind), tick)
  BY DEF irq_enter
<1>2. PICK c : c = Append(cpu.context, kind)
  OBVIOUS
<1>3. cpu.context \in Seq(IrqKinds)
  BY DEF ClockInv, ClockTypes
<1>4. c \in Seq(IrqKinds) /\ Len(cpu.context) + 1 \in DOMAIN c /\ c[Len(cpu.context) + 1] = kind
  BY <1>2, <1>3
<1>5. In(c, kind)
  BY <1>4 DEF In
<1>7. TickMayCome(c, tick)
  BY <1>1, <1>5 DEF TickMayCome
<1>8. account_system_vtime(c, tick)
  BY <1>1, <1>2
<1> QED BY <1>4, <1>7, <1>8, AccountInv

LEMMA IrqExitInv == ASSUME ClockAssumption, ClockInv, irq_exit PROVE ClockInv'
<1>1. PICK c : c = Front(cpu.context)
  OBVIOUS
<1>2. cpu.context \in Seq(IrqKinds) /\ cpu.context # <<>>
  BY DEF ClockInv, ClockTypes, irq_exit
<1>3. c \in Seq(IrqKinds)
  BY <1>1, <1>2 DEF Front
<1>4. TickMayCome(c, FALSE) /\ account_system_vtime(c, FALSE)
  BY <1>1 DEF irq_exit, TickMayCome
<1> QED BY <1>3, <1>4, AccountInv

\* A word written brings the times nearer to the sum that is due, and the last one there.
LEMMA WriteWordInv ==
  ASSUME ClockAssumption, ClockInv, NEW w \in {"lo", "hi"}, WriteWord(w)
  PROVE  ClockInv'
<1> USE DEF ClockInv
<1>1. UNCHANGED <<now, rqClock, exec, updater, ticksCharged, real>>
  BY DEF WriteWord
<1>2. PICK write : write = cpu.write
  OBVIOUS
<1>3. PICK f, v, left, rest : f = write.field /\ v = write.value /\ left = write.left /\ rest = left \ {w}
  OBVIOUS
<1>4. write \in Writes /\ v \in WordPairs /\ left \in SUBSET {"lo", "hi"} /\ w \in left /\ rest = left \ {w}
  BY <1>2, <1>3 DEF ClockTypes, Writes, WriteWord
<1>5. write # NoWrite
  BY <1>3, <1>4 DEF NoWrite
<1>6. f \in {"hard", "soft"} /\ irqTime.seq % 2 # 0 /\ \A u \in {"lo", "hi"} \ left : irqTime[f][u] = v[u]
  BY <1>2, <1>3, <1>4, <1>5 DEF WriteSound, Writes
<1>7. irqTime.hard \in WordPairs /\ irqTime.soft \in WordPairs /\ irqTime.seq \in Nat
  BY TypesOfFields DEF FieldTypes
<1>8. PICK s : s = (IF rest = {} THEN irqTime.seq + 1 ELSE irqTime.seq) /\ s \in Nat /\ irqTime.seq <= s
  <2>1. PICK seq : seq = irqTime.seq /\ seq \in Nat
    BY <1>7
  <2>2. CASE rest = {}
    BY <2>1, <2>2
  <2>3. CASE rest # {}
    BY <2>1, <2>3
  <2> QED BY <2>2, <2>3
<1>9. PICK words : words = [irqTime[f] EXCEPT ![w] = v[w]]
  OBVIOUS
<1>10. /\ words \in WordPairs /\ words[w] = v[w]
       /\ \A u \in {"lo", "hi"} \ {w} : words[u] = irqTime[f][u]
  <2>1. irqTime[f] \in WordPairs /\ v[w] \in Nat
    BY <1>4, <1>6, <1>7 DEF WordPairs
  <2> QED BY <2>1, <1>9 DEF WordPairs
<1>11. irqTime' = [irqTime EXCEPT ![f] = words, !.seq = s]
  BY <1>2, <1>3, <1>6, <1>8, <1>9 DEF WriteWord, ClockTypes, IrqTimes
<1>12. /\ irqTime' \in IrqTimes /\ irqTime'[f] = words /\ irqTime'.seq = s /\ irqTime'.start = irqTime.start
       /\ \A g \in {"hard", "soft"} \ {f} : irqTime'[g] = irqTime[g]
  BY <1>6, <1>8, <1>10, <1>11 DEF ClockTypes, IrqTimes
<1>13. PICK next : next = IF rest = {} THEN NoWrite ELSE [write EXCEPT !.left = rest]
  OBVIOUS
<1>14. cpu' = [cpu EXCEPT !.write = next]
  BY <1>2, <1>3, <1>4, <1>13, Zenon DEF WriteWord
<1>15. rest # {} => next.field = f /\ next.value = v /\ next.left = rest /\ next \in Writes
  BY <1>3, <1>4, <1>13 DEF Writes
<1>16. rest = {} => next = NoWrite /\ next.field = "none" /\ next \in Writes
  BY <1>13 DEF NoWrite, Writes, WordPairs
<1>17. /\ cpu'.write = next /\ cpu'.context = cpu.context /\ cpu'.tick = cpu.tick /\ cpu'.curr = cpu.curr
       /\ cpu' \in [curr : Running, context : Seq(IrqKinds), tick : BOOLEAN, write : Writes]
  BY <1>14, <1>15, <1>16 DEF ClockTypes
<1>18. ClockTypes'
  BY <1>1, <1>12, <1>17 DEF ClockTypes
<1>19. WriteSound'
  <2>1. CASE rest = {}
    <3>1. s = irqTime.seq + 1 /\ (irqTime.seq + 1) % 2 = 0
      BY <2>1, <1>6, <1>7, <1>8
    <3> QED BY <3>1, <2>1, <1>12, <1>16, <1>17 DEF WriteSound
  <2>2. CASE rest # {}
    <3>1. s = irqTime.seq
      BY <2>2, <1>8
    <3>2. next.field = f /\ next.value = v /\ next.left = rest /\ next.left # {}
      BY <2>2, <1>4, <1>15
    <3>3. \A u \in {"lo", "hi"} \ next.left : words[u] = v[u]
      BY <3>2, <1>4, <1>6, <1>10
    <3>4. next # NoWrite
      BY <3>2 DEF NoWrite
    <3> QED BY <3>1, <3>2, <3>3, <3>4, <1>6, <1>12, <1>17 DEF WriteSound
  <2> QED BY <2>1, <2>2
<1>20. LogicalTotal' = LogicalTotal
  <2>1. Logical(f) = Value(v)
    BY <1>2, <1>3 DEF Logical
  <2>2. \A g \in {"hard", "soft"} \ {f} : Logical(g) = Value(irqTime[g])
    BY <1>2, <1>3 DEF Logical
  <2>3. IF rest = {} THEN Value(words) = Value(v) ELSE TRUE
    <3>1. rest = {} => words.lo = v.lo /\ words.hi = v.hi
      BY <1>4, <1>6, <1>10
    <3> QED BY <3>1 DEF Value
  <2>4. IF cpu'.write.field = f THEN Value(cpu'.write.value) = Value(v) ELSE Value(irqTime'[f]) = Value(v)
    <3>1. rest = {} => next.field # f
      BY <1>6, <1>16
    <3> QED BY <3>1, <2>3, <1>12, <1>15, <1>17, Zenon
  <2>5. \A g \in {"hard", "soft"} \ {f} : cpu'.write.field # g /\ Value(irqTime'[g]) = Value(irqTime[g])
    BY <1>6, <1>12, <1>15, <1>16, <1>17
  <2>6. CASE f = "hard"
    <3>1. Logical("hard")' = Value(v) /\ Logical("soft")' = Value(irqTime.soft)
      BY <2>4, <2>5, <2>6 DEF Logical, Value
    <3> QED BY <3>1, <2>1, <2>2, <2>6 DEF LogicalTotal
  <2>7. CASE f = "soft"
    <3>1. Logical("soft")' = Value(v) /\ Logical("hard")' = Value(irqTime.hard)
      BY <2>4, <2>5, <2>7 DEF Logical, Value
    <3> QED BY <3>1, <2>1, <2>2, <2>7 DEF LogicalTotal
  <2> QED BY <2>6, <2>7, <1>6
<1>21. MeasuredIsReal'
  <2>1. FieldOf(cpu.context)' = FieldOf(cpu.context)
    BY <1>17 DEF FieldOf, In
  <2>2. UNCHANGED <<now, real>> /\ irqTime'.start = irqTime.start
    BY <1>1, <1>12
  <2> QED BY <2>1, <2>2, <1>20, Zenon DEF MeasuredIsReal
<1>22. UpdaterSound'
  <2>1. PICK times : times = irqTime'
    OBVIOUS
  <2>2. times.seq = s /\ updater.seq \in Nat
    BY <2>1, <1>12, TypesOfFields DEF FieldTypes
  <2>3. updater.at = "words" => updater.seq # s
    <3>1. updater.at = "words" => updater.seq <= irqTime.seq /\ updater.seq % 2 = 0
      BY DEF UpdaterSound, ReaderSound
    <3>2. PICK seq, u : seq = irqTime.seq /\ u = updater.seq
      OBVIOUS
    <3>3. seq \in Nat /\ u \in Nat /\ seq % 2 # 0 /\ s \in {seq, seq + 1}
      BY <3>2, <2>2, <1>6, <1>7, <1>8
    <3>4. u <= seq /\ u % 2 = 0 => u # s
      BY <3>3
    <3> QED BY <3>1, <3>2, <3>4
  <2>4. ReaderSound(updater, times)
    BY <2>2, <2>3, <1>7, <1>8, ReaderKept DEF UpdaterSound
  <2>5. rqClock' = rqClock /\ updater' = updater /\ now' = now
    BY <1>1
  <2> QED BY <2>1, <2>4, <2>5 DEF UpdaterSound
<1>23. ClocksSound'
  <2>1. UNCHANGED <<now, rqClock, exec>>
    BY <1>1
  <2> QED BY <2>1, <1>20, Zenon DEF ClocksSound
<1>24. TickSound'
  <2>1. /\ UNCHANGED <<now, ticksCharged, real>> /\ irqTime'.start = irqTime.start
        /\ cpu'.tick = cpu.tick /\ cpu'.context = cpu.context
    BY <1>1, <1>12, <1>17
  <2> QED BY <2>1, Zenon DEF TickSound, TicksFollowTime, Ticks, In
<1> QED BY <1>18, <1>19, <1>21, <1>22, <1>23, <1>24

-----------------------------------------------------------------------------
(* The clocks *)

\* update_rq_clock_task() neither takes clock_task back nor prev_irq_time beyond
\* what was measured.
LEMMA UpdatedClock ==
  ASSUME rqClock \in RqClocks, NEW delta \in Nat, NEW irq_time \in Nat, rqClock.prev_irq_time <= irq_time,
         NEW r, r = update_rq_clock_task(delta, irq_time)
  PROVE  /\ r \in RqClocks /\ r.clock = rqClock.clock + delta
         /\ rqClock.clock_task <= r.clock_task /\ r.prev_irq_time <= irq_time
<1>1. PICK clock, task, prev : /\ clock = rqClock.clock /\ task = rqClock.clock_task /\ prev = rqClock.prev_irq_time
                              /\ clock \in Nat /\ task \in Nat /\ prev \in Nat /\ prev <= irq_time
  BY DEF RqClocks
<1>2. PICK irq_delta : irq_delta = Fitting(irq_time - prev, delta)
  OBVIOUS
<1>3. r = [clock |-> clock + delta, clock_task |-> task + delta - irq_delta, prev_irq_time |-> prev + irq_delta]
  BY <1>1, <1>2 DEF update_rq_clock_task
<1>4. irq_delta \in Nat /\ irq_delta <= delta /\ irq_delta <= irq_time - prev
  <2>1. prev \in Nat /\ prev <= irq_time BY <1>1
  <2> QED BY <2>1, <1>2 DEF Fitting
<1>5. /\ clock + delta \in Nat /\ task + delta - irq_delta \in Nat /\ prev + irq_delta \in Nat
      /\ task <= task + delta - irq_delta /\ prev + irq_delta <= irq_time
  <2>1. clock \in Nat /\ task \in Nat /\ prev \in Nat BY <1>1
  <2> QED BY <2>1, <1>4
<1> QED BY <1>1, <1>3, <1>5 DEF RqClocks

\* What does not depend on the clocks.
LEMMA SameTimes ==
  ASSUME ClockInv, now' = now, irqTime' = irqTime, real' = real,
         cpu'.write = cpu.write, FieldOf(cpu.context)' = FieldOf(cpu.context)
  PROVE  WriteSound' /\ MeasuredIsReal' /\ LogicalTotal' = LogicalTotal
<1>1. LogicalTotal' = LogicalTotal
  <2>1. irqTime'.hard = irqTime.hard /\ irqTime'.soft = irqTime.soft
    OBVIOUS
  <2> QED BY <2>1, SameLogical
<1>2. WriteSound'
  BY DEF ClockInv, WriteSound
<1>3. MeasuredIsReal'
  BY <1>1, Zenon DEF ClockInv, MeasuredIsReal
<1> QED BY <1>1, <1>2, <1>3

LEMMA SameTick ==
  ASSUME ClockInv, now' = now, irqTime' = irqTime, real' = real, ticksCharged' = ticksCharged,
         cpu'.tick = cpu.tick, cpu'.context = cpu.context
  PROVE  TickSound'
BY Zenon DEF ClockInv, TickSound, TicksFollowTime, Ticks, In

SameReader == now' = now /\ irqTime' = irqTime /\ rqClock' = rqClock /\ updater' = updater

LEMMA SameUpdater == ASSUME ClockInv, SameReader PROVE UpdaterSound'
BY Zenon DEF SameReader, ClockInv, UpdaterSound

\* The two updates by the CPU itself
LEMMA OwnClock ==
  ASSUME ClockAssumption, ClockInv, cpu.write = NoWrite,
         rqClock' = update_rq_clock_task(now - rqClock.clock, Measured)
  PROVE  /\ rqClock' \in RqClocks /\ rqClock'.clock <= now
         /\ rqClock.clock_task <= rqClock'.clock_task /\ rqClock'.prev_irq_time <= LogicalTotal
<1>1. ClockTypes /\ rqClock \in RqClocks
  BY DEF ClockInv, ClockTypes
<1>2. Measured = LogicalTotal /\ LogicalTotal \in Nat
  BY <1>1, NothingToWrite, LogicalIsNat DEF Measured
<1>3. PICK n, clock : n = now /\ clock = rqClock.clock /\ n \in Nat /\ clock \in Nat /\ clock <= n
  BY TypesOfFields DEF ClockInv, FieldTypes, ClocksSound
<1>4. n - clock \in Nat /\ clock + (n - clock) = n /\ n <= n
  <2>1. n \in Nat /\ clock \in Nat /\ clock <= n
    BY <1>3
  <2> QED BY <2>1
<1>5. PICK total, delta : total = LogicalTotal /\ delta = n - clock
  OBVIOUS
<1>6. PICK r : r = rqClock'
  OBVIOUS
<1>7. total \in Nat /\ delta \in Nat /\ rqClock.prev_irq_time <= total /\ r = update_rq_clock_task(delta, total)
  BY <1>2, <1>3, <1>4, <1>5, <1>6 DEF ClockInv, ClocksSound
<1>8. /\ r \in RqClocks /\ r.clock = rqClock.clock + delta
      /\ rqClock.clock_task <= r.clock_task /\ r.prev_irq_time <= total
  BY <1>1, <1>7, UpdatedClock
<1>9. r.clock = n
  BY <1>3, <1>4, <1>5, <1>8
<1> QED BY <1>3, <1>4, <1>5, <1>6, <1>8, <1>9

Reported == exec.reported <= exec'.reported

LEMMA UpdateOwnInv == ASSUME ClockAssumption, ClockInv, UpdateOwn PROVE ClockInv' /\ Reported
<1>1. /\ cpu.write = NoWrite /\ updater = NothingRead
      /\ rqClock' = update_rq_clock_task(now - rqClock.clock, Measured)
      /\ now' = now /\ cpu' = cpu /\ irqTime' = irqTime /\ updater' = updater
      /\ ticksCharged' = ticksCharged /\ real' = real
  BY DEF UpdateOwn
<1>2. /\ rqClock' \in RqClocks /\ rqClock'.clock <= now
      /\ rqClock.clock_task <= rqClock'.clock_task /\ rqClock'.prev_irq_time <= LogicalTotal
  BY <1>1, OwnClock
<1>3. ClockTypes /\ exec \in Execs /\ exec.start <= rqClock.clock_task
      /\ exec.reported <= exec.sum + rqClock.clock_task - exec.start
  BY DEF ClockInv, ClockTypes, ClocksSound
<1>4. PICK start, sum, reported, task, task2 :
        /\ start = exec.start /\ sum = exec.sum /\ reported = exec.reported
        /\ task = rqClock.clock_task /\ task2 = rqClock'.clock_task
  OBVIOUS
<1>5. start \in Nat /\ sum \in Nat /\ reported \in Nat /\ task \in Nat /\ task2 \in Nat
  BY <1>2, <1>3, <1>4 DEF Execs, RqClocks, ClockTypes
<1>6. start <= task /\ task <= task2 /\ reported <= sum + task - start
  BY <1>2, <1>3, <1>4
<1>7. PICK sum2 : sum2 = sum + task2 - start
  OBVIOUS
<1>8. sum2 \in Nat /\ reported <= sum2 + task2 - task2
  BY <1>5, <1>6, <1>7
<1>9. exec' = [exec EXCEPT !.start = task2, !.sum = sum2]
  BY <1>4, <1>7, Zenon DEF UpdateOwn
<1>10. exec' \in Execs /\ exec'.start = task2 /\ exec'.sum = sum2 /\ exec'.reported = reported
  BY <1>3, <1>4, <1>5, <1>8, <1>9 DEF Execs
<1>11. ClockTypes'
  BY <1>1, <1>2, <1>3, <1>10 DEF ClockTypes
<1>12. WriteSound' /\ MeasuredIsReal' /\ LogicalTotal' = LogicalTotal
  <2>1. FieldOf(cpu.context)' = FieldOf(cpu.context)
    BY <1>1 DEF FieldOf, In
  <2> QED BY <2>1, <1>1, SameTimes
<1>13. TickSound'
  BY <1>1, SameTick
<1>14. UpdaterSound'
  BY <1>1 DEF ClockInv, UpdaterSound, NothingRead
<1>15. ClocksSound'
  <2>1. task2 <= task2
    BY <1>5
  <2> QED BY <2>1, <1>1, <1>2, <1>4, <1>8, <1>10, <1>12, Zenon DEF ClocksSound
<1>16. Reported
  <2>1. reported <= reported
    BY <1>5
  <2> QED BY <2>1, <1>4, <1>10, Zenon DEF Reported
<1> QED BY <1>11, <1>12, <1>13, <1>14, <1>15, <1>16 DEF ClockInv

LEMMA SwitchCurrInv ==
  ASSUME ClockAssumption, ClockInv, SwitchCurr
  PROVE  ClockInv' /\ cpu'.curr # cpu.curr
<1>1. /\ cpu.context = <<>> /\ cpu.write = NoWrite /\ updater = NothingRead
      /\ rqClock' = update_rq_clock_task(now - rqClock.clock, Measured)
      /\ exec' = [start |-> rqClock'.clock_task, sum |-> 0, reported |-> 0]
      /\ now' = now /\ irqTime' = irqTime /\ updater' = updater
      /\ ticksCharged' = ticksCharged /\ real' = real
  BY DEF SwitchCurr
<1>2. PICK t \in Running : t # cpu.curr /\ cpu' = [cpu EXCEPT !.curr = t]
  BY DEF SwitchCurr
<1>3. /\ rqClock' \in RqClocks /\ rqClock'.clock <= now
      /\ rqClock.clock_task <= rqClock'.clock_task /\ rqClock'.prev_irq_time <= LogicalTotal
  BY <1>1, OwnClock
<1>4. /\ cpu'.curr = t /\ cpu'.context = cpu.context /\ cpu'.tick = cpu.tick /\ cpu'.write = cpu.write
      /\ cpu' \in [curr : Running, context : Seq(IrqKinds), tick : BOOLEAN, write : Writes]
  BY <1>2 DEF ClockInv, ClockTypes
<1>5. PICK task : task = rqClock'.clock_task /\ task \in Nat
  BY <1>3 DEF RqClocks
<1>6. exec' = [start |-> task, sum |-> 0, reported |-> 0]
  BY <1>1, <1>5
<1>7. exec' \in Execs /\ exec'.start = task /\ exec'.sum = 0 /\ exec'.reported = 0
  BY <1>5, <1>6 DEF Execs
<1>8. ClockTypes'
  BY <1>1, <1>3, <1>4, <1>7 DEF ClockInv, ClockTypes
<1>9. WriteSound' /\ MeasuredIsReal' /\ LogicalTotal' = LogicalTotal
  <2>1. FieldOf(cpu.context) = "none" /\ FieldOf(cpu.context)' = "none"
    BY <1>1, <1>4 DEF FieldOf, In
  <2> QED BY <2>1, <1>1, <1>4, SameTimes
<1>10. TickSound'
  BY <1>1, <1>4, SameTick
<1>11. UpdaterSound'
  BY <1>1 DEF ClockInv, UpdaterSound, NothingRead
<1>12. ClocksSound'
  <2>1. task <= task /\ 0 <= 0 + task - task
    BY <1>5
  <2> QED BY <2>1, <1>1, <1>3, <1>5, <1>7, <1>9, Zenon DEF ClocksSound
<1> QED BY <1>2, <1>4, <1>8, <1>9, <1>10, <1>11, <1>12 DEF ClockInv

-----------------------------------------------------------------------------
(* The other CPU *)

\* A step of the reader touches nothing else.
OnlyReads == UNCHANGED <<now, cpu, irqTime, rqClock, exec, ticksCharged, real>>

LEMMA OnlyReadsInv ==
  ASSUME ClockInv, OnlyReads, updater' \in Updaters, UpdaterSound'
  PROVE  ClockInv'
<1>1. /\ now' = now /\ cpu' = cpu /\ irqTime' = irqTime /\ rqClock' = rqClock /\ exec' = exec
      /\ ticksCharged' = ticksCharged /\ real' = real
  BY DEF OnlyReads
<1>2. ClockTypes'
  BY <1>1, Zenon DEF ClockInv, ClockTypes
<1>3. WriteSound' /\ MeasuredIsReal' /\ LogicalTotal' = LogicalTotal
  <2>1. FieldOf(cpu.context)' = FieldOf(cpu.context)
    BY <1>1 DEF FieldOf, In
  <2> QED BY <2>1, <1>1, SameTimes
<1>4. TickSound'
  BY <1>1, SameTick
<1>5. ClocksSound'
  BY <1>1, <1>3, Zenon DEF ClockInv, ClocksSound
<1> QED BY <1>2, <1>3, <1>4, <1>5 DEF ClockInv

LEMMA UpdateOtherInv == ASSUME ClockAssumption, ClockInv, UpdateOther PROVE ClockInv'
<1>1. /\ updater = NothingRead
      /\ updater' = [NothingRead EXCEPT !.at = "begin", !.delta = now - rqClock.clock]
      /\ OnlyReads
  BY DEF UpdateOther, OnlyReads
<1>2. PICK n, clock, d : n = now /\ clock = rqClock.clock /\ d = n - clock
  OBVIOUS
<1>3. n \in Nat /\ clock \in Nat /\ clock <= n
  BY <1>2, TypesOfFields DEF ClockInv, FieldTypes, ClocksSound
<1>4. d \in Nat /\ clock + d <= n
  BY <1>2, <1>3
<1>5. updater' = [at |-> "begin", delta |-> d, seq |-> 0, got |-> <<>>]
  BY <1>1, <1>2 DEF NothingRead
<1>6. updater' \in Updaters /\ updater'.at = "begin" /\ updater'.got = <<>> /\ updater'.delta = d
  <2>1. <<>> \in Seq(Nat)
    OBVIOUS
  <2> QED BY <2>1, <1>4, <1>5 DEF Updaters
<1>7. now' = now /\ rqClock' = rqClock
  BY <1>1 DEF OnlyReads
<1>8. rqClock'.clock + updater'.delta <= now'
  BY <1>2, <1>4, <1>6, <1>7, Zenon
<1>9. UpdaterSound'
  BY <1>6, <1>8 DEF UpdaterSound, ReaderSound
<1> QED BY <1>1, <1>6, <1>9, OnlyReadsInv

LEMMA ReadInv == ASSUME ClockAssumption, ClockInv, irq_time_read PROVE ClockInv'
<1>1. OnlyReads /\ now' = now /\ rqClock' = rqClock /\ irqTime' = irqTime
  BY DEF irq_time_read, OnlyReads
<1>2. updater \in Updaters /\ irqTime \in IrqTimes /\ irqTime.seq \in Nat
  BY DEF ClockInv, ClockTypes, IrqTimes
<1>3. ASSUME updater.at # "none", updater'.delta = updater.delta
      PROVE  rqClock'.clock + updater'.delta <= now'
  BY <1>1, <1>3, Zenon DEF ClockInv, UpdaterSound
<1>4. CASE ReadBegin
  <2>1. /\ updater.at = "begin" /\ irqTime.seq % 2 = 0
        /\ updater' = [updater EXCEPT !.at = "words", !.seq = irqTime.seq, !.got = <<>>]
    BY <1>4 DEF ReadBegin
  <2>2. <<>> \in Seq(Nat) /\ Len(<<>>) = 0
    OBVIOUS
  <2>3. /\ updater' \in Updaters /\ updater'.at = "words" /\ updater'.got = <<>> /\ updater'.delta = updater.delta
        /\ updater'.seq = irqTime.seq
    BY <2>1, <2>2, <1>2 DEF Updaters
  <2>4. PICK u, seq : u = updater' /\ seq = irqTime.seq
    OBVIOUS
  <2>5. u.at = "words" /\ Len(u.got) = 0 /\ u.seq = seq /\ seq \in Nat /\ seq % 2 = 0
    BY <2>1, <2>2, <2>3, <2>4, <1>2
  <2>6. u.at = "words" /\ Len(u.got) \in 0 .. 4 /\ u.seq <= seq /\ u.seq % 2 = 0 /\ \A i \in 1 .. 4 : ~(i <= Len(u.got))
    <3>1. seq <= seq /\ 0 \in 0 .. 4 /\ \A i \in 1 .. 4 : ~(i <= 0)
      BY <2>5
    <3> QED BY <3>1, <2>5, Zenon
  <2>7. ReaderSound(updater', irqTime')
    BY <2>4, <2>6, <1>1, Zenon DEF ReaderSound
  <2>8. UpdaterSound'
    BY <2>1, <2>3, <2>7, <1>3 DEF UpdaterSound
  <2> QED BY <2>3, <2>8, <1>1, OnlyReadsInv
<1>5. CASE ReadWord
  <2>1. PICK n : n = Len(updater.got) /\ n \in Nat
    BY <1>2 DEF Updaters
  <2>2. updater.at = "words" /\ n \in 0 .. 3
    <3>1. updater.at = "words" /\ n < Len(ReadOrder)
      BY <1>5, <2>1 DEF ReadWord
    <3>2. Len(ReadOrder) = 4
      BY DEF ReadOrder
    <3>3. n < 4 /\ n \in Nat
      BY <3>1, <3>2, <2>1, Zenon
    <3>4. n \in 0 .. 3
      BY <3>3
    <3> QED BY <3>1, <3>4
  <2>3. PICK word : word = irqTime[ReadOrder[n + 1][1]][ReadOrder[n + 1][2]]
    OBVIOUS
  <2>4. word \in Nat
    <3>1. ReadOrder[n + 1][1] \in {"hard", "soft"} /\ ReadOrder[n + 1][2] \in {"lo", "hi"}
      BY <2>2 DEF ReadOrder
    <3>2. \A f \in {"hard", "soft"} : irqTime[f] \in WordPairs
      BY <1>2 DEF IrqTimes
    <3>3. \A p \in WordPairs : \A w \in {"lo", "hi"} : p[w] \in Nat
      BY DEF WordPairs
    <3> QED BY <3>1, <3>2, <3>3, <2>3
  <2>5. updater' = [updater EXCEPT !.got = Append(@, word)]
    BY <1>5, <2>1, <2>3 DEF ReadWord
  <2>6. PICK got, u : got = updater.got /\ u = updater'
    OBVIOUS
  <2>7. got \in Seq(Nat) /\ Len(got) = n
    BY <2>1, <2>6, <1>2 DEF Updaters
  <2>8. /\ Append(got, word) \in Seq(Nat) /\ Len(Append(got, word)) = n + 1
        /\ \A i \in 1 .. n : Append(got, word)[i] = got[i]
        /\ Append(got, word)[n + 1] = word
    BY <2>1, <2>4, <2>7
  <2>9. /\ u \in Updaters /\ u.at = "words" /\ u.seq = updater.seq /\ u.delta = updater.delta
        /\ u.got = Append(got, word)
    BY <2>2, <2>5, <2>6, <2>8, <1>2 DEF Updaters
  <2>10. /\ updater.seq <= irqTime.seq /\ updater.seq % 2 = 0
         /\ updater.seq = irqTime.seq =>
               \A i \in 1 .. 4 : i <= n => got[i] = irqTime[ReadOrder[i][1]][ReadOrder[i][2]]
    BY <2>1, <2>2, <2>6 DEF ClockInv, UpdaterSound, ReaderSound
  <2>11. Len(u.got) = n + 1 /\ n + 1 \in 0 .. 4
    <3>1. n + 1 \in 0 .. 4
      BY <2>2
    <3> QED BY <3>1, <2>8, <2>9, Zenon
  <2>12. ASSUME u.seq = irqTime.seq, NEW i \in 1 .. 4, i <= Len(u.got)
         PROVE  u.got[i] = irqTime[ReadOrder[i][1]][ReadOrder[i][2]]
    <3>1. CASE i = n + 1
      BY <3>1, <2>3, <2>8, <2>9, Zenon
    <3>2. CASE i # n + 1
      <4>1. i <= n + 1
        BY <2>11, <2>12, Zenon
      <4>2. i \in 1 .. n /\ i <= n
        BY <4>1, <3>2, <2>2
      <4>3. got[i] = irqTime[ReadOrder[i][1]][ReadOrder[i][2]]
        BY <4>2, <2>9, <2>10, <2>12, Zenon
      <4> QED BY <4>2, <4>3, <2>8, <2>9, Zenon
    <3> QED BY <3>1, <3>2
  <2>13. ReaderSound(u, irqTime)
    BY <2>9, <2>10, <2>11, <2>12, Zenon DEF ReaderSound
  <2>14. UpdaterSound'
    BY <2>2, <2>6, <2>9, <2>13, <1>1, <1>3, Zenon DEF UpdaterSound
  <2> QED BY <2>6, <2>9, <2>14, <1>1, OnlyReadsInv
<1>6. CASE /\ Len(updater.got) = Len(ReadOrder) /\ read_seqcount_retry(updater.seq)
           /\ updater' = [updater EXCEPT !.at = "begin", !.got = <<>>]
  <2>1. Len(ReadOrder) = 4 /\ Len(<<>>) = 0
    BY DEF ReadOrder
  <2>2. updater.at = "words"
    <3>1. updater.at # "words" => Len(updater.got) = 0
      BY <2>1, Zenon DEF ClockInv, UpdaterSound, ReaderSound
    <3>2. Len(updater.got) = 4 /\ 4 # 0
      BY <2>1, <1>6
    <3> QED BY <3>1, <3>2, Zenon
  <2>3. updater' \in Updaters /\ updater'.at = "begin" /\ updater'.got = <<>> /\ updater'.delta = updater.delta
    <3>1. <<>> \in Seq(Nat)
      OBVIOUS
    <3> QED BY <3>1, <1>2, <1>6 DEF Updaters
  <2>4. UpdaterSound'
    BY <2>2, <2>3, <1>3 DEF UpdaterSound, ReaderSound
  <2> QED BY <2>3, <2>4, <1>1, OnlyReadsInv
<1> QED BY <1>4, <1>5, <1>6 DEF irq_time_read

\* Four words read while seq stood still are the times as they are.
LEMMA ReadIsCurrent ==
  ASSUME ClockAssumption, ClockInv, Len(updater.got) = Len(ReadOrder), ~read_seqcount_retry(updater.seq)
  PROVE  updater.at = "words" /\ ReadTotal(updater.got) = LogicalTotal
<1>1. Len(ReadOrder) = 4 /\ Len(<<>>) = 0
  BY DEF ReadOrder
<1>2. Len(updater.got) = 4 /\ updater.seq = irqTime.seq
  BY <1>1 DEF read_seqcount_retry
<1>3. updater.at = "words"
  <2>1. updater.at # "words" => Len(updater.got) = 0
    BY <1>1, Zenon DEF ClockInv, UpdaterSound, ReaderSound
  <2>2. 4 # 0
    OBVIOUS
  <2> QED BY <2>1, <2>2, <1>2, Zenon
<1>4. PICK got : got = updater.got
  OBVIOUS
<1>5. /\ irqTime.seq % 2 = 0
      /\ \A i \in 1 .. 4 : got[i] = irqTime[ReadOrder[i][1]][ReadOrder[i][2]]
  <2>1. \A i \in 1 .. 4 : i <= 4
    OBVIOUS
  <2> QED BY <2>1, <1>2, <1>3, <1>4, Zenon DEF ClockInv, UpdaterSound, ReaderSound
<1>6. PICK hard, soft : hard = irqTime.hard /\ soft = irqTime.soft /\ hard \in WordPairs /\ soft \in WordPairs
  BY TypesOfFields DEF ClockInv, FieldTypes
<1>7. got[1] = soft.lo /\ got[2] = soft.hi /\ got[3] = hard.lo /\ got[4] = hard.hi
  BY <1>5, <1>6 DEF ReadOrder
<1>8. ReadTotal(got) = Value(hard) + Value(soft)
  BY <1>6, <1>7, ReadTotalIsSum
<1>9. cpu.write = NoWrite /\ ClockTypes
  BY <1>5 DEF ClockInv, WriteSound
<1>10. LogicalTotal = Value(irqTime.hard) + Value(irqTime.soft)
  BY <1>9, NothingToWrite
<1> QED BY <1>3, <1>4, <1>6, <1>8, <1>10

LEMMA TaskSchedRuntimeInv ==
  ASSUME ClockAssumption, ClockInv, task_sched_runtime
  PROVE  ClockInv' /\ Reported
<1>1. /\ Len(updater.got) = Len(ReadOrder) /\ ~read_seqcount_retry(updater.seq)
      /\ rqClock' = update_rq_clock_task(updater.delta, ReadTotal(updater.got))
      /\ exec' = [exec EXCEPT !.reported = exec.sum + Unaccounted(rqClock')]
      /\ updater' = NothingRead
      /\ now' = now /\ cpu' = cpu /\ irqTime' = irqTime /\ ticksCharged' = ticksCharged /\ real' = real
  BY DEF task_sched_runtime
<1>2. updater.at = "words" /\ ReadTotal(updater.got) = LogicalTotal
  BY <1>1, ReadIsCurrent
<1>3. ClockTypes /\ rqClock \in RqClocks /\ exec \in Execs /\ updater.delta \in Nat
  BY DEF ClockInv, ClockTypes, Updaters
<1>4. PICK total, delta, r : total = LogicalTotal /\ delta = updater.delta /\ r = rqClock'
  OBVIOUS
<1>5. total \in Nat /\ delta \in Nat /\ rqClock.prev_irq_time <= total /\ r = update_rq_clock_task(delta, total)
  BY <1>1, <1>2, <1>3, <1>4, LogicalIsNat DEF ClockInv, ClocksSound
<1>6. /\ r \in RqClocks /\ r.clock = rqClock.clock + delta
      /\ rqClock.clock_task <= r.clock_task /\ r.prev_irq_time <= total
  BY <1>3, <1>5, UpdatedClock
<1>7. r.clock <= now
  <2>1. updater.at # "none"
    BY <1>2
  <2> QED BY <2>1, <1>4, <1>6, Zenon DEF ClockInv, UpdaterSound
<1>8. exec.start <= rqClock.clock_task /\ exec.reported <= exec.sum + rqClock.clock_task - exec.start
  BY DEF ClockInv, ClocksSound
<1>9. PICK start, sum, reported, task, task2 :
        /\ start = exec.start /\ sum = exec.sum /\ reported = exec.reported
        /\ task = rqClock.clock_task /\ task2 = r.clock_task
  OBVIOUS
<1>10. start \in Nat /\ sum \in Nat /\ reported \in Nat /\ task \in Nat /\ task2 \in Nat
  BY <1>3, <1>6, <1>9 DEF Execs, RqClocks
<1>11. start <= task /\ task <= task2 /\ reported <= sum + task - start
  BY <1>6, <1>8, <1>9
<1>12. PICK reported2 : reported2 = sum + (task2 - start)
  OBVIOUS
<1>13. reported2 \in Nat /\ reported <= reported2 /\ reported2 <= sum + task2 - start /\ start <= task2 /\ ~(task2 < start)
  BY <1>10, <1>11, <1>12
<1>14. Unaccounted(r) = task2 - start
  BY <1>9, <1>13, Zenon DEF Unaccounted
<1>15. exec' = [exec EXCEPT !.reported = reported2]
  BY <1>1, <1>4, <1>9, <1>12, <1>14, Zenon
<1>16. exec' \in Execs /\ exec'.start = start /\ exec'.sum = sum /\ exec'.reported = reported2
  BY <1>3, <1>9, <1>13, <1>15 DEF Execs
<1>17. updater' \in Updaters /\ updater'.at = "none" /\ updater'.got = <<>>
  <2>1. <<>> \in Seq(Nat)
    OBVIOUS
  <2> QED BY <2>1, <1>1 DEF NothingRead, Updaters
<1>18. ClockTypes'
  BY <1>1, <1>3, <1>4, <1>6, <1>16, <1>17 DEF ClockTypes
<1>19. WriteSound' /\ MeasuredIsReal' /\ LogicalTotal' = LogicalTotal
  <2>1. FieldOf(cpu.context)' = FieldOf(cpu.context)
    BY <1>1 DEF FieldOf, In
  <2> QED BY <2>1, <1>1, SameTimes
<1>20. TickSound'
  BY <1>1, SameTick
<1>21. UpdaterSound'
  BY <1>17 DEF UpdaterSound, ReaderSound
<1>22. ClocksSound'
  BY <1>1, <1>4, <1>6, <1>7, <1>9, <1>13, <1>16, <1>19, Zenon DEF ClocksSound
<1>23. Reported
  BY <1>9, <1>13, <1>16, Zenon DEF Reported
<1> QED BY <1>18, <1>19, <1>20, <1>21, <1>22, <1>23 DEF ClockInv

-----------------------------------------------------------------------------
(* The tick *)

\* c ticks went to tasks and the idle loop; all of them were due at the start of the
\* interrupt, and what is charged of the two times falls short by less than a tick each.
LEMMA TickArithmetic ==
  ASSUME ClockAssumption, NEW a \in Nat, NEW b \in Nat, NEW c \in Nat, NEW hard \in Nat, NEW soft \in Nat,
         NEW start \in Nat, NEW n \in Nat, NEW irq \in Nat,
         TICK * (a + b + c + 1) <= start, hard < TICK * (a + 1), soft < TICK * (b + 1), irq + start = hard + soft + n
  PROVE  TICK * (c + 1) <= n - irq + 2 * TICK
<1>1. TICK \in Nat BY DEF ClockAssumption
<1>2. /\ TICK * (a + b + c + 1) = TICK * a + TICK * b + TICK * (c + 1)
      /\ TICK * (a + 1) = TICK * a + TICK /\ TICK * (b + 1) = TICK * b + TICK
  BY <1>1
<1>3. PICK x, y, z : x = TICK * a /\ y = TICK * b /\ z = TICK * (c + 1) /\ x \in Nat /\ y \in Nat /\ z \in Nat
  BY <1>1
<1>4. x + y + z <= start /\ hard < x + TICK /\ soft < y + TICK
  BY <1>2, <1>3
<1>5. x \in Nat /\ y \in Nat /\ z \in Nat
  BY <1>3
<1>6. z <= n - irq + 2 * TICK
  BY <1>1, <1>4, <1>5
<1> QED BY <1>3, <1>6

LEMMA ProcessTickInv ==
  ASSUME ClockAssumption, ClockInv, irqtime_account_process_tick
  PROVE  ClockInv'
<1>1. /\ cpu.write = NoWrite /\ cpu' = [cpu EXCEPT !.tick = FALSE]
      /\ now' = now /\ irqTime' = irqTime /\ rqClock' = rqClock /\ exec' = exec
      /\ updater' = updater /\ real' = real
  BY DEF irqtime_account_process_tick
<1>2. PICK to : to = Demultiplexed(irqtime_account_hi_update, irqtime_account_si_update)
  OBVIOUS
<1>3. PICK field : field = IF to = "current" THEN CurrentField ELSE to
  OBVIOUS
<1>4. ticksCharged' = [ticksCharged EXCEPT ![field] = @ + 1]
  BY <1>2, <1>3, Zenon DEF irqtime_account_process_tick
<1>5. to \in {"irq", "softirq", "current"} /\ field \in {"irq", "softirq", "idle", "ksoftirqd", "tasks"}
  BY <1>2, <1>3 DEF Demultiplexed, CurrentField, TaskField
<1>6. field \in {"idle", "tasks"} => ~irqtime_account_hi_update /\ ~irqtime_account_si_update
  <2>1. field \in {"idle", "tasks"} => to = "current"
    BY <1>3, <1>5
  <2> QED BY <2>1, <1>2 DEF Demultiplexed
<1>7. PICK a, s, k, i, t : /\ a = ticksCharged.irq /\ s = ticksCharged.softirq /\ k = ticksCharged.ksoftirqd
                          /\ i = ticksCharged.idle /\ t = ticksCharged.tasks
  OBVIOUS
<1>8. a \in Nat /\ s \in Nat /\ k \in Nat /\ i \in Nat /\ t \in Nat
  BY <1>7, TypesOfFields DEF ClockInv, FieldTypes
<1>9. ClockTypes
  BY DEF ClockInv
<1>10. /\ ticksCharged' \in [irq : Nat, softirq : Nat, idle : Nat, ksoftirqd : Nat, tasks : Nat]
       /\ ticksCharged'.tasks = IF field = "tasks" THEN t + 1 ELSE t
       /\ ticksCharged'.idle = IF field = "idle" THEN i + 1 ELSE i
  <2>1. PICK x : x = ticksCharged[field] + 1
    OBVIOUS
  <2>2. ticksCharged \in [irq : Nat, softirq : Nat, idle : Nat, ksoftirqd : Nat, tasks : Nat]
    BY <1>9 DEF ClockTypes
  <2>3. ticksCharged' = [ticksCharged EXCEPT ![field] = x]
    BY <1>4, <2>1, Zenon
  <2>4. x \in Nat
    <3>1. ticksCharged[field] \in Nat
      BY <2>2, <1>5
    <3> QED BY <3>1, <2>1
  <2>5. ticksCharged' \in [irq : Nat, softirq : Nat, idle : Nat, ksoftirqd : Nat, tasks : Nat]
    BY <2>2, <2>3, <2>4, <1>5
  <2>6. /\ field = "tasks" => x = t + 1
        /\ field = "idle" => x = i + 1
    BY <2>1, <1>7, Zenon
  <2>7. /\ ticksCharged'.tasks = IF field = "tasks" THEN x ELSE ticksCharged.tasks
        /\ ticksCharged'.idle = IF field = "idle" THEN x ELSE ticksCharged.idle
    BY <2>2, <2>3, <1>5
  <2> QED BY <2>5, <2>6, <2>7, <1>7, Zenon
<1>11. /\ cpu' \in [curr : Running, context : Seq(IrqKinds), tick : BOOLEAN, write : Writes]
       /\ cpu'.context = cpu.context /\ cpu'.write = cpu.write /\ cpu'.tick = FALSE /\ cpu'.curr = cpu.curr
  BY <1>1, <1>9 DEF ClockTypes
<1>12. ClockTypes'
  BY <1>1, <1>9, <1>10, <1>11, Zenon DEF ClockTypes
<1>13. WriteSound' /\ MeasuredIsReal' /\ LogicalTotal' = LogicalTotal
  <2>1. FieldOf(cpu.context)' = FieldOf(cpu.context)
    BY <1>11 DEF FieldOf, In
  <2> QED BY <2>1, <1>1, <1>11, SameTimes
<1>14. UpdaterSound'
  BY <1>1, SameUpdater DEF SameReader
<1>15. ClocksSound'
  BY <1>1, <1>13, Zenon DEF ClockInv, ClocksSound
<1>16. PICK n, irq, start, hard, soft : /\ n = now /\ irq = real.irq /\ start = irqTime.start
                                       /\ hard = Value(irqTime.hard) /\ soft = Value(irqTime.soft)
  OBVIOUS
<1>17. n \in Nat /\ irq \in Nat /\ start \in Nat /\ hard \in Nat /\ soft \in Nat
  <2>1. n \in Nat /\ irq \in Nat /\ start \in Nat /\ irqTime.hard \in WordPairs /\ irqTime.soft \in WordPairs
    BY <1>9, <1>16, TypesOfFields DEF FieldTypes
  <2> QED BY <2>1, <1>16, ValueIsNat
<1>18. TICK * (t + i) <= n - irq + 2 * TICK
  BY <1>7, <1>16, Zenon DEF ClockInv, TickSound, TicksFollowTime
<1>19. ASSUME field \in {"idle", "tasks"} PROVE TICK * ((t + i) + 1) <= n - irq + 2 * TICK
  <2>1. cpu.tick
    BY DEF irqtime_account_process_tick
  <2>2. In(cpu.context, "hard") /\ TICK * (Ticks + 1) <= start
    BY <2>1, <1>16, Zenon DEF ClockInv, TickSound
  <2>3. FieldOf(cpu.context) # "none"
    BY <2>2 DEF FieldOf
  <2>4. irq + start = hard + soft + n
    <3>1. LogicalTotal = hard + soft
      BY <1>1, <1>9, <1>16, NothingToWrite
    <3> QED BY <3>1, <2>3, <1>16, Zenon DEF ClockInv, MeasuredIsReal
  <2>5. hard < TICK * (a + 1)
    <3>1. ~(hard \div TICK > a)
      BY <1>6, <1>7, <1>16, <1>19, Zenon DEF irqtime_account_hi_update
    <3> QED BY <3>1, <1>8, <1>17, WholeTicks
  <2>6. soft < TICK * ((s + k) + 1)
    <3>1. ~(soft \div TICK > s + k)
      BY <1>6, <1>7, <1>16, <1>19, Zenon DEF irqtime_account_si_update
    <3>2. s + k \in Nat
      BY <1>8
    <3> QED BY <3>1, <3>2, <1>17, WholeTicks
  <2>7. TICK * (a + (s + k) + (t + i) + 1) <= start
    <3>1. Ticks = a + s + i + k + t
      BY <1>7, Zenon DEF Ticks
    <3>2. a + s + i + k + t = a + (s + k) + (t + i)
      BY <1>8
    <3> QED BY <3>1, <3>2, <2>2, Zenon
  <2>8. s + k \in Nat /\ t + i \in Nat
    BY <1>8
  <2> QED BY <2>4, <2>5, <2>6, <2>7, <2>8, <1>8, <1>17, TickArithmetic
<1>20. TicksFollowTime'
  <2>1. CASE field \in {"idle", "tasks"}
    <3>1. ticksCharged'.tasks + ticksCharged'.idle = (t + i) + 1
      BY <2>1, <1>8, <1>10
    <3> QED BY <3>1, <2>1, <1>1, <1>16, <1>19, Zenon DEF TicksFollowTime
  <2>2. CASE field \notin {"idle", "tasks"}
    <3>1. ticksCharged'.tasks = t /\ ticksCharged'.idle = i
      BY <2>2, <1>10
    <3> QED BY <3>1, <1>1, <1>16, <1>18, Zenon DEF TicksFollowTime
  <2> QED BY <2>1, <2>2
<1>21. TickSound'
  BY <1>11, <1>20, Zenon DEF TickSound
<1> QED BY <1>12, <1>13, <1>14, <1>15, <1>21 DEF ClockInv

-----------------------------------------------------------------------------
(* The theorem *)

LEMMA StutterInv == ASSUME ClockInv, UNCHANGED irqClockVars PROVE ClockInv'
<1>1. /\ now' = now /\ cpu' = cpu /\ irqTime' = irqTime /\ rqClock' = rqClock /\ exec' = exec
      /\ ticksCharged' = ticksCharged /\ real' = real /\ updater' = updater
  BY DEF irqClockVars
<1>2. OnlyReads
  BY <1>1 DEF OnlyReads
<1>3. updater' \in Updaters
  BY <1>1, Zenon DEF ClockInv, ClockTypes
<1>4. UpdaterSound'
  BY <1>1, SameUpdater DEF SameReader
<1> QED BY <1>2, <1>3, <1>4, OnlyReadsInv

LEMMA ClockNextInv == ASSUME ClockAssumption, ClockInv, [ClockNext]_irqClockVars PROVE ClockInv'
<1>1. CASE UNCHANGED irqClockVars
  BY <1>1, StutterInv
<1>2. CASE ClockNext
  BY <1>2, ElapseInv, IrqExitInv, IrqEnterInv, WriteWordInv, UpdateOwnInv, UpdateOtherInv, ReadInv,
     TaskSchedRuntimeInv, ProcessTickInv, SwitchCurrInv DEF ClockNext
<1> QED BY <1>1, <1>2

\* Steps that report nothing leave what was last reported.
LEMMA ReportGrows ==
  ASSUME ClockAssumption, ClockInv, [ClockNext]_irqClockVars
  PROVE  exec'.reported >= exec.reported \/ cpu'.curr # cpu.curr
<1>1. exec.reported \in Nat
  BY TypesOfFields DEF ClockInv, FieldTypes
<1>2. ASSUME exec' = exec PROVE Reported
  <2>1. PICK reported : reported = exec.reported /\ reported <= reported
    BY <1>1
  <2> QED BY <2>1, <1>2, Zenon DEF Reported
<1>3. CASE UNCHANGED irqClockVars
  <2>1. exec' = exec
    BY <1>3 DEF irqClockVars
  <2> QED BY <2>1, <1>2 DEF Reported
<1>4. CASE SwitchCurr
  BY <1>4, SwitchCurrInv
<1>5. CASE UpdateOwn \/ task_sched_runtime
  <2>1. Reported
    BY <1>5, UpdateOwnInv, TaskSchedRuntimeInv
  <2> QED BY <2>1 DEF Reported
<1>6. CASE ClockNext /\ ~SwitchCurr /\ ~UpdateOwn /\ ~task_sched_runtime
  <2>1. exec' = exec
    BY <1>6 DEF ClockNext, Elapse, irq_exit, irq_enter, account_system_vtime, WriteWord, UpdateOther,
       irq_time_read, irqtime_account_process_tick
  <2> QED BY <2>1, <1>2 DEF Reported
<1> QED BY <1>3, <1>4, <1>5, <1>6

\* prev_irq_time is at most what is measured, which is at most what was spent.
LEMMA InvIsSound == ASSUME ClockAssumption, ClockInv PROVE TaskClockNotShort /\ TicksFollowTime
<1>1. PICK prev, total, irq, start, n :
        prev = rqClock.prev_irq_time /\ total = LogicalTotal /\ irq = real.irq /\ start = irqTime.start /\ n = now
  OBVIOUS
<1>2. prev \in Nat /\ total \in Nat /\ irq \in Nat /\ start \in Nat /\ n \in Nat
  BY <1>1, TypesOfFields, LogicalIsNat DEF ClockInv, FieldTypes
<1>3. prev <= total /\ start <= n /\ (irq = total \/ irq + start = total + n)
  BY <1>1, Zenon DEF ClockInv, ClocksSound, MeasuredIsReal
<1>4. prev <= irq
  BY <1>2, <1>3
<1> QED BY <1>1, <1>4, Zenon DEF TaskClockNotShort, ClockInv, TickSound

\* What task_sched_runtime() reports never goes back, no time a task has run is taken
\* for interrupt time, and ticks of tasks follow the time they had, whatever the size
\* of a tick and of a word (update_rq_clock(), irq_time_read(),
\* irqtime_account_process_tick()).
THEOREM RuntimeIsMonotone == ClockSpec => RuntimeMonotone
<1> USE ClockAssumption
<1>1. ClockInit => ClockInv
  BY ClockInitInv
<1>2. ClockInv /\ [ClockNext]_irqClockVars => ClockInv'
  BY ClockNextInv
<1>3. ClockInv => TaskClockNotShort /\ TicksFollowTime
  BY InvIsSound
<1>4. ClockInv /\ [ClockNext]_irqClockVars => [exec'.reported >= exec.reported \/ cpu'.curr # cpu.curr]_irqClockVars
  BY ReportGrows
<1> QED BY <1>1, <1>2, <1>3, <1>4, PTL DEF ClockSpec, RuntimeMonotone

-----------------------------------------------------------------------------
(* The global load average of tegra *)

LoadRq == [nr_running : Int, nr_uninterruptible : Int, calc_load_active : Int, update : Int,
           nohz : BOOLEAN, online : BOOLEAN]
LoadFold == [at : {"none", "idle", "fold", "add"}, delta : Int]
LoadKeeper == [at : {"none", "nohz", "load"}, ticks : Int]

LoadTypes ==
  /\ cpuLoad \in [LoadCpus -> LoadRq] /\ folding \in [LoadCpus -> LoadFold]
  /\ load_tasks \in Int /\ load_tasks_idle \in Int /\ load_update \in Int
  /\ keeper \in LoadKeeper /\ blocked \in Int

\* A CPU that is off line counts nobody.
OfflineEmpty ==
  \A c \in LoadCpus : ~cpuLoad[c].online => cpuLoad[c].nr_running = 0 /\ cpuLoad[c].nr_uninterruptible = 0

\* The sums of LoadCounted, over all CPUs.
LoadBalance ==
  /\ SumFunctionOnSet(ActiveNow, LoadCpus) = Runnable + blocked
  /\ load_tasks + load_tasks_idle + SumFunctionOnSet(Folded, LoadCpus) = SumFunctionOnSet(Sampled, LoadCpus)

\* Where load_update may be while do_timer() is under way.
AgesUnderWay ==
  /\ keeper.at = "none" => load_update \in (1 - Late) .. LoadPeriod
  /\ keeper.at = "nohz" => keeper.ticks \in Nat \ {0} /\ load_update + keeper.ticks \in (1 - Late) .. LoadPeriod
  /\ keeper.at = "load" => load_update \in (2 - Late - LoadPeriod) .. LoadPeriod

LoadInv == LoadTypes /\ OfflineEmpty /\ LoadBalance /\ AgesUnderWay

\* What c counts and samples changes by r, u, s and f, and nothing of another CPU does.
CpuMoves(c, r, u, s, f) ==
  /\ \A x \in LoadCpus \ {c} : cpuLoad'[x] = cpuLoad[x] /\ folding'[x] = folding[x]
  /\ cpuLoad'[c].nr_running = cpuLoad[c].nr_running + r
  /\ cpuLoad'[c].nr_uninterruptible = cpuLoad[c].nr_uninterruptible + u
  /\ cpuLoad'[c].calc_load_active = cpuLoad[c].calc_load_active + s
  /\ folding'[c].delta = folding[c].delta + f

LEMMA LoadSums ==
  ASSUME LoadTypes
  PROVE  /\ \A c \in LoadCpus : ActiveNow[c] \in Int /\ RunnableOn[c] \in Int /\ Sampled[c] \in Int /\ Folded[c] \in Int
         /\ SumFunctionOnSet(ActiveNow, LoadCpus) \in Int /\ Runnable \in Int
         /\ SumFunctionOnSet(Sampled, LoadCpus) \in Int /\ SumFunctionOnSet(Folded, LoadCpus) \in Int
<1>1. ASSUME NEW c \in LoadCpus
      PROVE  ActiveNow[c] \in Int /\ RunnableOn[c] \in Int /\ Sampled[c] \in Int /\ Folded[c] \in Int
  <2>1. cpuLoad[c] \in LoadRq /\ folding[c] \in LoadFold
    BY DEF LoadTypes
  <2> QED BY <2>1 DEF LoadRq, LoadFold, ActiveNow, RunnableOn, Sampled, Folded, ActiveOf
<1>2. \A f : (\A c \in LoadCpus : f[c] \in Int) => SumFunctionOnSet(f, LoadCpus) \in Int
  BY LoadAssumption, SumType
<1> QED BY <1>1, <1>2 DEF Runnable

\* A step of one CPU keeps the sums if what it does to the global counters fits.
LEMMA LoadMove ==
  ASSUME LoadTypes, LoadTypes', LoadBalance, NEW c \in LoadCpus,
         NEW r \in Int, NEW u \in Int, NEW s \in Int, NEW f \in Int, NEW t \in Int, NEW i \in Int,
         CpuMoves(c, r, u, s, f), blocked' = blocked + u,
         load_tasks' = load_tasks + t, load_tasks_idle' = load_tasks_idle + i, t + i + f = s
  PROVE  LoadBalance'
<1>0. PICK a, a2, n, n2, k, k2, d, d2 :
        /\ a = ActiveNow /\ a2 = ActiveNow' /\ n = RunnableOn /\ n2 = RunnableOn'
        /\ k = Sampled /\ k2 = Sampled' /\ d = Folded /\ d2 = Folded'
  OBVIOUS
<1>1. \A x \in LoadCpus : a[x] \in Int /\ n[x] \in Int /\ k[x] \in Int /\ d[x] \in Int
  BY <1>0, LoadSums
<1>2. \A x \in LoadCpus : a2[x] \in Int /\ n2[x] \in Int /\ k2[x] \in Int /\ d2[x] \in Int
  <2>1. \A x \in LoadCpus : cpuLoad'[x] \in LoadRq /\ folding'[x] \in LoadFold
    BY DEF LoadTypes
  <2> QED BY <1>0, <2>1 DEF LoadRq, LoadFold, ActiveNow, RunnableOn, Sampled, Folded, ActiveOf
<1>3. \A x \in LoadCpus \ {c} : a2[x] = a[x] /\ n2[x] = n[x] /\ k2[x] = k[x] /\ d2[x] = d[x]
  BY <1>0 DEF CpuMoves, ActiveNow, RunnableOn, Sampled, Folded, ActiveOf
<1>4. a2[c] = a[c] + (r + u) /\ n2[c] = n[c] + r /\ k2[c] = k[c] + s /\ d2[c] = d[c] + f
  <2>1. cpuLoad[c] \in LoadRq /\ folding[c] \in LoadFold
    BY DEF LoadTypes
  <2> QED BY <1>0, <2>1 DEF CpuMoves, ActiveNow, RunnableOn, Sampled, Folded, ActiveOf, LoadRq, LoadFold
<1>5. /\ SumFunctionOnSet(a2, LoadCpus) = SumFunctionOnSet(a, LoadCpus) + (a2[c] - a[c])
      /\ SumFunctionOnSet(n2, LoadCpus) = SumFunctionOnSet(n, LoadCpus) + (n2[c] - n[c])
      /\ SumFunctionOnSet(k2, LoadCpus) = SumFunctionOnSet(k, LoadCpus) + (k2[c] - k[c])
      /\ SumFunctionOnSet(d2, LoadCpus) = SumFunctionOnSet(d, LoadCpus) + (d2[c] - d[c])
  BY <1>1, <1>2, <1>3, LoadAssumption, SumChange
<1>6. PICK A, N, K, D \in Int :
        /\ A = SumFunctionOnSet(a, LoadCpus) /\ N = SumFunctionOnSet(n, LoadCpus)
        /\ K = SumFunctionOnSet(k, LoadCpus) /\ D = SumFunctionOnSet(d, LoadCpus)
  BY <1>1, LoadAssumption, SumType
<1>7. /\ SumFunctionOnSet(a2, LoadCpus) = A + (r + u) /\ SumFunctionOnSet(n2, LoadCpus) = N + r
      /\ SumFunctionOnSet(k2, LoadCpus) = K + s /\ SumFunctionOnSet(d2, LoadCpus) = D + f
  BY <1>1, <1>4, <1>5, <1>6
<1>8. PICK b, l, m \in Int : b = blocked /\ l = load_tasks /\ m = load_tasks_idle
  BY DEF LoadTypes
<1>9. A = N + b /\ l + m + D = K
  BY <1>0, <1>6, <1>8 DEF LoadBalance, Runnable
<1>10. A + (r + u) = (N + r) + (b + u) /\ (l + t) + (m + i) + (D + f) = K + s
  BY <1>9, <1>6, <1>8
<1>11. /\ SumFunctionOnSet(ActiveNow', LoadCpus) = SumFunctionOnSet(RunnableOn', LoadCpus) + blocked'
       /\ load_tasks' + load_tasks_idle' + SumFunctionOnSet(Folded', LoadCpus) = SumFunctionOnSet(Sampled', LoadCpus)
  BY <1>0, <1>7, <1>8, <1>10
<1> QED BY <1>11 DEF LoadBalance, Runnable

-----------------------------------------------------------------------------

\* What is left to show of a step of one CPU that changes neither load_update nor the keeper.
LEMMA LoadMoveInv ==
  ASSUME LoadInv, LoadTypes', NEW c \in LoadCpus,
         NEW r \in Int, NEW u \in Int, NEW s \in Int, NEW f \in Int, NEW t \in Int, NEW i \in Int,
         CpuMoves(c, r, u, s, f), cpuLoad'[c].online = cpuLoad[c].online,
         cpuLoad[c].online \/ (r = 0 /\ u = 0),
         blocked' = blocked + u, load_tasks' = load_tasks + t, load_tasks_idle' = load_tasks_idle + i,
         t + i + f = s, UNCHANGED <<load_update, keeper>>
  PROVE  LoadInv'
<1>1. LoadBalance'
  BY LoadMove DEF LoadInv
<1>2. OfflineEmpty'
  <2> SUFFICES ASSUME NEW x \in LoadCpus, ~cpuLoad'[x].online
               PROVE  cpuLoad'[x].nr_running = 0 /\ cpuLoad'[x].nr_uninterruptible = 0
    BY DEF OfflineEmpty
  <2>1. CASE x = c
    <3>1. r = 0 /\ u = 0 /\ cpuLoad[c].nr_running = 0 /\ cpuLoad[c].nr_uninterruptible = 0
      BY <2>1 DEF LoadInv, OfflineEmpty
    <3> QED BY <2>1, <3>1 DEF CpuMoves
  <2>2. CASE x # c
    BY <2>2 DEF CpuMoves, LoadInv, OfflineEmpty
  <2> QED BY <2>1, <2>2
<1>3. AgesUnderWay'
  BY DEF LoadInv, AgesUnderWay
<1> QED BY <1>1, <1>2, <1>3 DEF LoadInv

LEMMA LoadCpuTypes ==
  ASSUME LoadInv, NEW c \in LoadCpus
  PROVE  /\ cpuLoad[c] \in LoadRq /\ folding[c] \in LoadFold
         /\ cpuLoad[c].nr_running \in Int /\ cpuLoad[c].nr_uninterruptible \in Int
         /\ cpuLoad[c].calc_load_active \in Int /\ cpuLoad[c].update \in Int /\ folding[c].delta \in Int
         /\ load_tasks \in Int /\ load_tasks_idle \in Int /\ load_update \in Int /\ blocked \in Int
<1>1. cpuLoad[c] \in LoadRq /\ folding[c] \in LoadFold
  BY DEF LoadInv, LoadTypes
<1> QED BY <1>1 DEF LoadInv, LoadTypes, LoadRq, LoadFold

LEMMA TaskChangeInv == ASSUME LoadInv, NEW c \in LoadCpus, TaskChange(c) PROVE LoadInv'
<1>1. UNCHANGED <<folding, load_tasks, load_tasks_idle, load_update, keeper>> /\ cpuLoad[c].online
  BY DEF TaskChange, globalVars, Busy
<1>2. ASSUME NEW r \in {-1, 0, 1}, NEW u \in {-1, 0, 1}, NEW q \in LoadRq, cpuLoad' = [cpuLoad EXCEPT ![c] = q],
             q.nr_running = cpuLoad[c].nr_running + r, q.nr_uninterruptible = cpuLoad[c].nr_uninterruptible + u,
             q.calc_load_active = cpuLoad[c].calc_load_active, q.online = cpuLoad[c].online,
             blocked' = blocked + u
      PROVE  LoadInv'
  <2>1. cpuLoad'[c] = q /\ \A x \in LoadCpus \ {c} : cpuLoad'[x] = cpuLoad[x]
    BY <1>2 DEF LoadInv, LoadTypes
  <2>2. CpuMoves(c, r, u, 0, 0)
    BY <1>1, <1>2, <2>1, LoadCpuTypes DEF CpuMoves
  <2>3. LoadTypes'
    BY <1>1, <1>2 DEF LoadInv, LoadTypes
  <2>4. load_tasks' = load_tasks + 0 /\ load_tasks_idle' = load_tasks_idle + 0 /\ 0 + 0 + 0 = 0
    BY <1>1, LoadCpuTypes
  <2>5. r \in Int /\ u \in Int /\ 0 \in Int /\ cpuLoad'[c].online = cpuLoad[c].online
    BY <1>2, <2>1
  <2> QED BY <1>1, <1>2, <2>2, <2>3, <2>4, <2>5, LoadMoveInv
<1>3. PICK n, v \in Int : n = cpuLoad[c].nr_running /\ v = cpuLoad[c].nr_uninterruptible
  BY LoadCpuTypes
<1>4. cpuLoad[c] \in LoadRq /\ blocked \in Int
  BY LoadCpuTypes
<1>5. CASE blocked' = blocked + 1 /\ cpuLoad' = [cpuLoad EXCEPT ![c].nr_running = @ - 1, ![c].nr_uninterruptible = @ + 1]
  <2>0. PICK p : p = [cpuLoad[c] EXCEPT !.nr_running = n - 1]
    OBVIOUS
  <2>1. PICK q : q = [p EXCEPT !.nr_uninterruptible = v + 1]
    OBVIOUS
  <2>10. /\ p \in LoadRq /\ p.nr_running = n + (-1) /\ p.nr_uninterruptible = v
         /\ p.calc_load_active = cpuLoad[c].calc_load_active /\ p.online = cpuLoad[c].online
    BY <1>3, <1>4, <2>0 DEF LoadRq
  <2>2. /\ q \in LoadRq /\ q.nr_running = n + (-1) /\ q.nr_uninterruptible = v + 1
        /\ q.calc_load_active = cpuLoad[c].calc_load_active /\ q.online = cpuLoad[c].online
    BY <2>1, <2>10 DEF LoadRq
  <2>3. cpuLoad' = [cpuLoad EXCEPT ![c] = q]
    BY <1>3, <1>5, <2>0, <2>1
  <2> QED BY <1>2, <1>3, <1>5, <2>2, <2>3
<1>6. CASE blocked' = blocked - 1 /\ cpuLoad' = [cpuLoad EXCEPT ![c].nr_running = @ + 1, ![c].nr_uninterruptible = @ - 1]
  <2>0. PICK p : p = [cpuLoad[c] EXCEPT !.nr_running = n + 1]
    OBVIOUS
  <2>1. PICK q : q = [p EXCEPT !.nr_uninterruptible = v - 1]
    OBVIOUS
  <2>10. /\ p \in LoadRq /\ p.nr_running = n + 1 /\ p.nr_uninterruptible = v
         /\ p.calc_load_active = cpuLoad[c].calc_load_active /\ p.online = cpuLoad[c].online
    BY <1>3, <1>4, <2>0 DEF LoadRq
  <2>2. /\ q \in LoadRq /\ q.nr_running = n + 1 /\ q.nr_uninterruptible = v + (-1)
        /\ q.calc_load_active = cpuLoad[c].calc_load_active /\ q.online = cpuLoad[c].online
    BY <2>1, <2>10 DEF LoadRq
  <2>3. cpuLoad' = [cpuLoad EXCEPT ![c] = q]
    BY <1>3, <1>6, <2>0, <2>1
  <2>4. blocked' = blocked + (-1)
    BY <1>4, <1>6
  <2> QED BY <1>2, <1>3, <2>2, <2>3, <2>4
<1>7. CASE blocked' = blocked /\ cpuLoad' = [cpuLoad EXCEPT ![c].nr_running = @ + 1]
  <2>1. PICK q : q = [cpuLoad[c] EXCEPT !.nr_running = n + 1]
    OBVIOUS
  <2>2. /\ q \in LoadRq /\ q.nr_running = n + 1 /\ q.nr_uninterruptible = v + 0
        /\ q.calc_load_active = cpuLoad[c].calc_load_active /\ q.online = cpuLoad[c].online
    BY <1>3, <1>4, <2>1 DEF LoadRq
  <2>3. cpuLoad' = [cpuLoad EXCEPT ![c] = q] /\ blocked' = blocked + 0
    BY <1>3, <1>4, <1>7, <2>1
  <2> QED BY <1>2, <1>3, <2>2, <2>3
<1>8. CASE blocked' = blocked /\ cpuLoad' = [cpuLoad EXCEPT ![c].nr_running = @ - 1]
  <2>1. PICK q : q = [cpuLoad[c] EXCEPT !.nr_running = n - 1]
    OBVIOUS
  <2>2. /\ q \in LoadRq /\ q.nr_running = n + (-1) /\ q.nr_uninterruptible = v + 0
        /\ q.calc_load_active = cpuLoad[c].calc_load_active /\ q.online = cpuLoad[c].online
    BY <1>3, <1>4, <2>1 DEF LoadRq
  <2>3. cpuLoad' = [cpuLoad EXCEPT ![c] = q] /\ blocked' = blocked + 0
    BY <1>3, <1>4, <1>8, <2>1
  <2> QED BY <1>2, <1>3, <2>2, <2>3
<1> QED BY <1>5, <1>6, <1>7, <1>8 DEF TaskChange

LEMMA FoldActiveInv ==
  ASSUME LoadInv, NEW c \in LoadCpus, NEW at \in {"idle", "fold"}, Busy(c), calc_load_fold_active(c, at)
  PROVE  LoadInv'
<1>0. PICK d \in Int : d = ActiveOf(cpuLoad[c]) - cpuLoad[c].calc_load_active
  BY LoadCpuTypes DEF ActiveOf
<1>1. /\ UNCHANGED <<load_tasks, load_tasks_idle, load_update, keeper, blocked>>
      /\ folding' = [folding EXCEPT ![c] = [at |-> at, delta |-> d]]
      /\ cpuLoad' = [cpuLoad EXCEPT ![c].calc_load_active = ActiveOf(cpuLoad[c]),
                      ![c].nohz = (at = "idle"),
                      ![c].update = IF at = "idle" THEN @ ELSE @ + LoadPeriod]
  BY <1>0 DEF calc_load_fold_active, globalVars
<1>10. UNCHANGED <<load_tasks, load_tasks_idle, load_update, keeper, blocked>>
  BY <1>1
<1>2. PICK v \in Int : v = ActiveOf(cpuLoad[c]) /\ v = cpuLoad[c].calc_load_active + d
  BY <1>0, LoadCpuTypes DEF ActiveOf
<1>3. PICK b, w : b = (at = "idle") /\ w = IF at = "idle" THEN cpuLoad[c].update ELSE cpuLoad[c].update + LoadPeriod
  OBVIOUS
<1>20. b \in BOOLEAN
  BY <1>3
<1>21. w \in Int
  BY <1>3, LoadCpuTypes, LoadAssumption
<1>30. PICK p1 : p1 = [cpuLoad[c] EXCEPT !.calc_load_active = v]
  OBVIOUS
<1>31. PICK p2 : p2 = [p1 EXCEPT !.nohz = b]
  OBVIOUS
<1>32. PICK q : q = [p2 EXCEPT !.update = w]
  OBVIOUS
<1>33. /\ p1 \in LoadRq /\ p1.nr_running = cpuLoad[c].nr_running /\ p1.nr_uninterruptible = cpuLoad[c].nr_uninterruptible
       /\ p1.calc_load_active = v /\ p1.online = cpuLoad[c].online
  BY <1>30, LoadCpuTypes DEF LoadRq
<1>34. /\ p2 \in LoadRq /\ p2.nr_running = p1.nr_running /\ p2.nr_uninterruptible = p1.nr_uninterruptible
       /\ p2.calc_load_active = v /\ p2.online = p1.online
  BY <1>20, <1>31, <1>33 DEF LoadRq
<1>35. /\ q \in LoadRq /\ q.nr_running = p2.nr_running /\ q.nr_uninterruptible = p2.nr_uninterruptible
       /\ q.calc_load_active = v /\ q.online = p2.online
  BY <1>21, <1>32, <1>34 DEF LoadRq
<1>4. /\ q \in LoadRq /\ q.nr_running = cpuLoad[c].nr_running /\ q.nr_uninterruptible = cpuLoad[c].nr_uninterruptible
      /\ q.calc_load_active = v /\ q.online = cpuLoad[c].online
  BY <1>33, <1>34, <1>35
<1>5. /\ cpuLoad' = [cpuLoad EXCEPT ![c] = q] /\ LoadTypes'
      /\ cpuLoad'[c] = q /\ folding'[c].delta = d
      /\ \A x \in LoadCpus \ {c} : cpuLoad'[x] = cpuLoad[x] /\ folding'[x] = folding[x]
  <2>1. cpuLoad' = [cpuLoad EXCEPT ![c] = q]
    BY <1>1, <1>2, <1>3, <1>30, <1>31, <1>32
  <2>2. PICK g : g = [at |-> at, delta |-> d]
    OBVIOUS
  <2>3. g \in LoadFold /\ g.delta = d /\ folding' = [folding EXCEPT ![c] = g]
    BY <1>1, <2>2 DEF LoadFold
  <2>4. LoadTypes'
    BY <1>10, <1>4, <2>1, <2>3 DEF LoadInv, LoadTypes
  <2> QED BY <1>10, <2>1, <2>3, <2>4 DEF LoadInv, LoadTypes
<1>6. folding[c].delta = 0 /\ cpuLoad[c].online
  BY DEF Busy, NoFold
<1>70. cpuLoad'[c].online = cpuLoad[c].online
  BY <1>4, <1>5
<1>7. CpuMoves(c, 0, 0, d, d)
  <2>1. PICK n, m \in Int : n = cpuLoad[c].nr_running /\ m = cpuLoad[c].nr_uninterruptible
    BY LoadCpuTypes
  <2>2. cpuLoad'[c].nr_running = n + 0 /\ cpuLoad'[c].nr_uninterruptible = m + 0
    BY <1>4, <1>5, <2>1
  <2>3. cpuLoad'[c].calc_load_active = cpuLoad[c].calc_load_active + d /\ folding'[c].delta = folding[c].delta + d
    BY <1>2, <1>4, <1>5, <1>6
  <2> QED BY <1>5, <2>1, <2>2, <2>3 DEF CpuMoves
<1>8. load_tasks' = load_tasks + 0 /\ load_tasks_idle' = load_tasks_idle + 0 /\ blocked' = blocked + 0
  BY <1>10, LoadCpuTypes
<1>9. 0 \in Int /\ 0 + 0 + d = d
  OBVIOUS
<1>11. LoadTypes' /\ cpuLoad[c].online
  BY <1>5, <1>6
<1> QED BY <1>10, <1>11, <1>70, <1>7, <1>8, <1>9, LoadMoveInv

LEMMA AddIdleDeltaInv == ASSUME LoadInv, NEW c \in LoadCpus, AddIdleDelta(c) PROVE LoadInv'
<1>0. PICK d \in Int : d = folding[c].delta
  BY LoadCpuTypes
<1>1. /\ UNCHANGED <<cpuLoad, load_tasks, load_update, keeper, blocked>>
      /\ folding' = [folding EXCEPT ![c] = NoFold] /\ load_tasks_idle' = load_tasks_idle + d
  BY <1>0 DEF AddIdleDelta
<1>2. LoadTypes'
  BY <1>1, LoadCpuTypes DEF LoadInv, LoadTypes, LoadFold, NoFold
<1>3. folding'[c].delta = 0 /\ \A x \in LoadCpus \ {c} : folding'[x] = folding[x]
  BY <1>1 DEF LoadInv, LoadTypes, NoFold
<1>4. CpuMoves(c, 0, 0, 0, -d)
  BY <1>0, <1>1, <1>3, LoadCpuTypes DEF CpuMoves
<1>5. load_tasks' = load_tasks + 0 /\ blocked' = blocked + 0
  BY <1>1, LoadCpuTypes
<1>6. -d \in Int /\ 0 + d + (-d) = 0 /\ cpuLoad'[c].online = cpuLoad[c].online
  BY <1>1
<1> QED BY <1>1, <1>2, <1>4, <1>5, <1>6, LoadMoveInv

LEMMA FoldIdleInv == ASSUME LoadInv, NEW c \in LoadCpus, FoldIdle(c) PROVE LoadInv'
<1>0. PICK d, i \in Int : d = folding[c].delta /\ i = load_tasks_idle
  BY LoadCpuTypes
<1>1. /\ UNCHANGED <<cpuLoad, load_tasks, load_update, keeper, blocked>>
      /\ folding' = [folding EXCEPT ![c] = [at |-> "add", delta |-> d + i]] /\ load_tasks_idle' = 0
  BY <1>0 DEF FoldIdle, LoadInv, LoadTypes
<1>2. LoadTypes'
  BY <1>1, LoadCpuTypes DEF LoadInv, LoadTypes, LoadFold
<1>3. folding'[c].delta = d + i /\ \A x \in LoadCpus \ {c} : folding'[x] = folding[x]
  BY <1>1 DEF LoadInv, LoadTypes
<1>4. CpuMoves(c, 0, 0, 0, i)
  BY <1>0, <1>1, <1>3, LoadCpuTypes DEF CpuMoves
<1>5. load_tasks' = load_tasks + 0 /\ blocked' = blocked + 0 /\ load_tasks_idle' = load_tasks_idle + (-i)
  BY <1>0, <1>1, LoadCpuTypes
<1>6. -i \in Int /\ 0 + (-i) + i = 0 /\ cpuLoad'[c].online = cpuLoad[c].online
  BY <1>1
<1> QED BY <1>1, <1>2, <1>4, <1>5, <1>6, LoadMoveInv

LEMMA AddDeltaInv == ASSUME LoadInv, NEW c \in LoadCpus, AddDelta(c) PROVE LoadInv'
<1>0. PICK d \in Int : d = folding[c].delta
  BY LoadCpuTypes
<1>1. /\ UNCHANGED <<cpuLoad, load_tasks_idle, load_update, keeper, blocked>>
      /\ folding' = [folding EXCEPT ![c] = NoFold] /\ load_tasks' = load_tasks + d
  BY <1>0 DEF AddDelta
<1>2. LoadTypes'
  BY <1>1, LoadCpuTypes DEF LoadInv, LoadTypes, LoadFold, NoFold
<1>3. folding'[c].delta = 0 /\ \A x \in LoadCpus \ {c} : folding'[x] = folding[x]
  BY <1>1 DEF LoadInv, LoadTypes, NoFold
<1>4. CpuMoves(c, 0, 0, 0, -d)
  BY <1>0, <1>1, <1>3, LoadCpuTypes DEF CpuMoves
<1>5. load_tasks_idle' = load_tasks_idle + 0 /\ blocked' = blocked + 0
  BY <1>1, LoadCpuTypes
<1>6. -d \in Int /\ d + 0 + (-d) = 0 /\ cpuLoad'[c].online = cpuLoad[c].online
  BY <1>1
<1> QED BY <1>1, <1>2, <1>4, <1>5, <1>6, LoadMoveInv

\* A step that changes no count leaves the sums alone.
LEMMA LoadSteady ==
  ASSUME LoadTypes, folding' = folding, NEW t \in Int, NEW i \in Int, t + i = 0,
         \A x \in LoadCpus : /\ cpuLoad'[x].nr_running = cpuLoad[x].nr_running
                             /\ cpuLoad'[x].nr_uninterruptible = cpuLoad[x].nr_uninterruptible
                             /\ cpuLoad'[x].calc_load_active = cpuLoad[x].calc_load_active,
         LoadBalance, blocked' = blocked, load_tasks' = load_tasks + t, load_tasks_idle' = load_tasks_idle + i
  PROVE  LoadBalance'
<1>1. ActiveNow' = ActiveNow /\ RunnableOn' = RunnableOn /\ Sampled' = Sampled /\ Folded' = Folded
  BY DEF ActiveNow, RunnableOn, Sampled, Folded, ActiveOf
<1>2. PICK l, m, d, k \in Int :
        l = load_tasks /\ m = load_tasks_idle /\ d = SumFunctionOnSet(Folded, LoadCpus) /\ k = SumFunctionOnSet(Sampled, LoadCpus)
  BY LoadSums DEF LoadTypes
<1>3. l + m + d = k
  BY <1>2 DEF LoadBalance
<1>4. (l + t) + (m + i) + d = k
  BY <1>2, <1>3
<1>5. load_tasks' + load_tasks_idle' + SumFunctionOnSet(Folded', LoadCpus) = SumFunctionOnSet(Sampled', LoadCpus)
  BY <1>1, <1>2, <1>4
<1>6. SumFunctionOnSet(ActiveNow', LoadCpus) = SumFunctionOnSet(RunnableOn', LoadCpus) + blocked'
  BY <1>1 DEF LoadBalance, Runnable
<1> QED BY <1>5, <1>6 DEF LoadBalance, Runnable

LEMMA LeaveIdleInv == ASSUME LoadInv, NEW c \in LoadCpus, LeaveIdle(c) PROVE LoadInv'
<1>1. /\ UNCHANGED <<folding, load_tasks, load_tasks_idle, load_update, keeper, blocked>>
      /\ cpuLoad' = [cpuLoad EXCEPT ![c].nohz = FALSE]
  BY DEF LeaveIdle, globalVars
<1>2. PICK q : q = [cpuLoad[c] EXCEPT !.nohz = FALSE]
  OBVIOUS
<1>3. /\ q \in LoadRq /\ q.nr_running = cpuLoad[c].nr_running /\ q.nr_uninterruptible = cpuLoad[c].nr_uninterruptible
      /\ q.calc_load_active = cpuLoad[c].calc_load_active /\ q.online = cpuLoad[c].online
  BY <1>2, LoadCpuTypes DEF LoadRq
<1>4. cpuLoad' = [cpuLoad EXCEPT ![c] = q]
  BY <1>1, <1>2
<1>5. LoadTypes' /\ cpuLoad'[c] = q /\ \A x \in LoadCpus \ {c} : cpuLoad'[x] = cpuLoad[x]
  BY <1>1, <1>3, <1>4 DEF LoadInv, LoadTypes
<1>6. CpuMoves(c, 0, 0, 0, 0)
  <2>1. PICK n, m, k, d \in Int :
          /\ n = cpuLoad[c].nr_running /\ m = cpuLoad[c].nr_uninterruptible
          /\ k = cpuLoad[c].calc_load_active /\ d = folding[c].delta
    BY LoadCpuTypes
  <2>2. /\ cpuLoad'[c].nr_running = n + 0 /\ cpuLoad'[c].nr_uninterruptible = m + 0
        /\ cpuLoad'[c].calc_load_active = k + 0 /\ folding'[c].delta = d + 0
    BY <1>1, <1>3, <1>5, <2>1
  <2> QED BY <1>1, <1>5, <2>1, <2>2 DEF CpuMoves
<1>7. load_tasks' = load_tasks + 0 /\ load_tasks_idle' = load_tasks_idle + 0 /\ blocked' = blocked + 0
  BY <1>1, LoadCpuTypes
<1>8. LoadTypes' /\ cpuLoad'[c].online = cpuLoad[c].online
  BY <1>3, <1>5
<1>9. 0 \in Int /\ 0 + 0 + 0 = 0
  OBVIOUS
<1> QED BY <1>1, <1>6, <1>7, <1>8, <1>9, LoadMoveInv

LEMMA CpuComesInv == ASSUME LoadInv, NEW c \in LoadCpus, CpuComes(c) PROVE LoadInv'
<1>1. /\ UNCHANGED <<folding, load_tasks, load_tasks_idle, load_update, keeper, blocked>>
      /\ cpuLoad' = [cpuLoad EXCEPT ![c].online = TRUE, ![c].nohz = FALSE, ![c].update = load_update]
  BY DEF CpuComes, globalVars
<1>2. PICK w \in Int : w = load_update
  BY LoadCpuTypes
<1>3. PICK p1 : p1 = [cpuLoad[c] EXCEPT !.online = TRUE]
  OBVIOUS
<1>4. PICK p2 : p2 = [p1 EXCEPT !.nohz = FALSE]
  OBVIOUS
<1>5. PICK q : q = [p2 EXCEPT !.update = w]
  OBVIOUS
<1>6. /\ p1 \in LoadRq /\ p1.nr_running = cpuLoad[c].nr_running /\ p1.nr_uninterruptible = cpuLoad[c].nr_uninterruptible
      /\ p1.calc_load_active = cpuLoad[c].calc_load_active /\ p1.online
  BY <1>3, LoadCpuTypes DEF LoadRq
<1>7. /\ p2 \in LoadRq /\ p2.nr_running = p1.nr_running /\ p2.nr_uninterruptible = p1.nr_uninterruptible
      /\ p2.calc_load_active = p1.calc_load_active /\ p2.online
  BY <1>4, <1>6 DEF LoadRq
<1>8. /\ q \in LoadRq /\ q.nr_running = p2.nr_running /\ q.nr_uninterruptible = p2.nr_uninterruptible
      /\ q.calc_load_active = p2.calc_load_active /\ q.online
  BY <1>5, <1>7 DEF LoadRq
<1>9. cpuLoad' = [cpuLoad EXCEPT ![c] = q]
  BY <1>1, <1>2, <1>3, <1>4, <1>5
<1>10. LoadTypes' /\ cpuLoad'[c] = q /\ \A x \in LoadCpus \ {c} : cpuLoad'[x] = cpuLoad[x]
  <2>1. UNCHANGED <<folding, load_tasks, load_tasks_idle, load_update, keeper, blocked>>
    BY <1>1
  <2> QED BY <2>1, <1>8, <1>9 DEF LoadInv, LoadTypes
<1>11. \A x \in LoadCpus : /\ cpuLoad'[x].nr_running = cpuLoad[x].nr_running
                           /\ cpuLoad'[x].nr_uninterruptible = cpuLoad[x].nr_uninterruptible
                           /\ cpuLoad'[x].calc_load_active = cpuLoad[x].calc_load_active
  BY <1>6, <1>7, <1>8, <1>10
<1>12. LoadBalance'
  <2>1. load_tasks' = load_tasks + 0 /\ load_tasks_idle' = load_tasks_idle + 0 /\ 0 \in Int /\ 0 + 0 = 0
    BY <1>1, LoadCpuTypes
  <2>2. folding' = folding /\ blocked' = blocked
    BY <1>1
  <2>3. LoadTypes /\ LoadBalance
    BY DEF LoadInv
  <2> QED BY <1>11, <2>1, <2>2, <2>3, LoadSteady
<1>13. OfflineEmpty'
  BY <1>8, <1>10 DEF LoadInv, OfflineEmpty
<1>14. AgesUnderWay'
  BY <1>1 DEF LoadInv, AgesUnderWay
<1> QED BY <1>10, <1>12, <1>13, <1>14 DEF LoadInv

LEMMA TimerTicksInv == ASSUME LoadInv, TimerTicks PROVE LoadInv'
<1>1. PICK ticks \in Int :
        /\ ticks > 0 /\ keeper' = [at |-> "nohz", ticks |-> ticks] /\ load_update' = load_update - ticks
        /\ cpuLoad' = [c \in LoadCpus |-> [cpuLoad[c] EXCEPT !.update = Sooner(@, ticks)]]
  <2>1. MaxJump \in Int
    BY LoadAssumption
  <2>2. (IF \A c \in Online : cpuLoad[c].nohz THEN MaxJump ELSE 1) \in Int
    BY <2>1
  <2> DEFINE m == IF \A c \in Online : cpuLoad[c].nohz THEN MaxJump ELSE 1
  <2>3. PICK ticks \in 1 .. m :
        /\ keeper' = [at |-> "nohz", ticks |-> ticks] /\ load_update' = load_update - ticks
        /\ cpuLoad' = [c \in LoadCpus |-> [cpuLoad[c] EXCEPT !.update = Sooner(@, ticks)]]
    BY DEF TimerTicks
  <2> HIDE DEF m
  <2>4. ticks \in Int /\ ticks > 0
    BY <2>2, <2>3 DEF m
  <2> QED BY <2>3, <2>4
<1>2. UNCHANGED <<folding, load_tasks, load_tasks_idle, blocked>> /\ keeper.at = "none"
  BY DEF TimerTicks
<1>3. ASSUME NEW x \in LoadCpus
      PROVE  /\ cpuLoad'[x] \in LoadRq /\ cpuLoad'[x].nr_running = cpuLoad[x].nr_running
             /\ cpuLoad'[x].nr_uninterruptible = cpuLoad[x].nr_uninterruptible
             /\ cpuLoad'[x].calc_load_active = cpuLoad[x].calc_load_active
             /\ cpuLoad'[x].online = cpuLoad[x].online
  <2>1. PICK w : w = Sooner(cpuLoad[x].update, ticks)
    OBVIOUS
  <2>2. w \in Int
    BY <2>1, LoadCpuTypes, LoadAssumption DEF Sooner
  <2>3. cpuLoad'[x] = [cpuLoad[x] EXCEPT !.update = w]
    BY <1>1, <2>1
  <2> QED BY <2>2, <2>3, LoadCpuTypes DEF LoadRq
<1>4. cpuLoad' \in [LoadCpus -> LoadRq]
  <2>1. cpuLoad' = [c \in LoadCpus |-> cpuLoad'[c]]
    BY <1>1
  <2> QED BY <1>3, <2>1
<1>5. PICK u \in Int : u = load_update /\ u \in (1 - Late) .. LoadPeriod
  BY <1>2 DEF LoadInv, LoadTypes, AgesUnderWay
<1>6. keeper' \in LoadKeeper /\ load_update' \in Int /\ keeper'.at = "nohz" /\ keeper'.ticks = ticks /\ load_update' = u - ticks
  BY <1>1, <1>5 DEF LoadKeeper
<1>7. LoadTypes'
  BY <1>2, <1>4, <1>6 DEF LoadInv, LoadTypes
<1>8. AgesUnderWay'
  <2>1. ticks \in Nat \ {0} /\ (u - ticks) + ticks \in (1 - Late) .. LoadPeriod
    BY <1>1, <1>5, LoadAssumption
  <2> QED BY <1>6, <2>1 DEF AgesUnderWay
<1>9. LoadBalance'
  <2>1. load_tasks' = load_tasks + 0 /\ load_tasks_idle' = load_tasks_idle + 0 /\ 0 \in Int /\ 0 + 0 = 0
    BY <1>2 DEF LoadInv, LoadTypes
  <2>2. folding' = folding /\ blocked' = blocked
    BY <1>2
  <2>3. LoadTypes /\ LoadBalance
    BY DEF LoadInv
  <2> QED BY <1>3, <2>1, <2>2, <2>3, LoadSteady
<1>10. OfflineEmpty'
  BY <1>3 DEF LoadInv, OfflineEmpty
<1> QED BY <1>7, <1>8, <1>9, <1>10 DEF LoadInv

\* Catching up leaves what is left of a period.
LEMMA CaughtUp ==
  ASSUME NEW u \in Int, NEW n \in Nat, u <= 0, u + n \in (1 - Late) .. LoadPeriod
  PROVE  u + (n \div LoadPeriod) * LoadPeriod \in (2 - Late - LoadPeriod) .. LoadPeriod
<1>1. LoadPeriod \in Nat /\ LoadPeriod > 0 /\ Late \in Nat
  BY LoadAssumption
<1>2. PICK q, r \in Int : q = n \div LoadPeriod /\ r = n % LoadPeriod /\ 0 <= r /\ r < LoadPeriod /\ n = q * LoadPeriod + r
  BY <1>1
<1>3. PICK m \in Int : m = q * LoadPeriod
  BY <1>1
<1> QED BY <1>1, <1>2, <1>3

LEMMA GlobalNohzInv == ASSUME LoadInv, GlobalNohz PROVE LoadInv'
<1>1. /\ UNCHANGED <<cpuLoad, folding, blocked>> /\ keeper.at = "nohz" /\ keeper' = [keeper EXCEPT !.at = "load"]
      /\ IF load_update > 0 THEN UNCHANGED <<load_tasks, load_tasks_idle, load_update>>
         ELSE /\ load_tasks' = load_tasks + load_tasks_idle /\ load_tasks_idle' = 0
              /\ load_update' = load_update + PeriodsSlept(keeper.ticks) * LoadPeriod
  BY DEF GlobalNohz, globalVars
<1>2. PICK u, n, l, m \in Int : u = load_update /\ n = keeper.ticks /\ l = load_tasks /\ m = load_tasks_idle
  BY DEF LoadInv, LoadTypes, LoadKeeper
<1>3. n \in Nat /\ u + n \in (1 - Late) .. LoadPeriod
  BY <1>1, <1>2 DEF LoadInv, AgesUnderWay
<1>4. keeper' \in LoadKeeper /\ keeper'.at = "load"
  BY <1>1 DEF LoadInv, LoadTypes, LoadKeeper
<1>5. \A x \in LoadCpus : /\ cpuLoad'[x].nr_running = cpuLoad[x].nr_running
                          /\ cpuLoad'[x].nr_uninterruptible = cpuLoad[x].nr_uninterruptible
                          /\ cpuLoad'[x].calc_load_active = cpuLoad[x].calc_load_active
  BY <1>1
<1>6. OfflineEmpty' /\ folding' = folding /\ blocked' = blocked /\ LoadTypes /\ LoadBalance
  BY <1>1 DEF LoadInv, OfflineEmpty
<1>7. ASSUME NEW v \in (2 - Late - LoadPeriod) .. LoadPeriod, load_update' = v,
             NEW t \in Int, NEW i \in Int, t + i = 0, load_tasks' = load_tasks + t, load_tasks_idle' = load_tasks_idle + i
      PROVE  LoadInv'
  <2>1. LoadBalance'
    BY <1>5, <1>6, <1>7, LoadSteady
  <2>2. v \in Int /\ load_tasks' \in Int /\ load_tasks_idle' \in Int
    BY <1>2, <1>7, LoadAssumption
  <2>3. LoadTypes'
    BY <1>1, <1>4, <1>7, <2>2 DEF LoadInv, LoadTypes
  <2>4. AgesUnderWay'
    BY <1>4, <1>7 DEF AgesUnderWay
  <2> QED BY <1>6, <2>1, <2>3, <2>4 DEF LoadInv
<1>8. CASE u > 0
  <2>1. u \in (2 - Late - LoadPeriod) .. LoadPeriod
    BY <1>3, <1>8, LoadAssumption
  <2>2. load_update' = u /\ load_tasks' = load_tasks + 0 /\ load_tasks_idle' = load_tasks_idle + 0 /\ 0 + 0 = 0 /\ 0 \in Int
    BY <1>1, <1>2, <1>8
  <2> QED BY <1>7, <2>1, <2>2
<1>9. CASE ~(u > 0)
  <2>1. PICK v : v = u + (n \div LoadPeriod) * LoadPeriod
    OBVIOUS
  <2>2. v \in (2 - Late - LoadPeriod) .. LoadPeriod
    BY <1>3, <1>9, <2>1, CaughtUp
  <2>3. load_update' = v
    BY <1>1, <1>2, <1>9, <2>1 DEF PeriodsSlept
  <2>4. load_tasks' = load_tasks + m /\ load_tasks_idle' = load_tasks_idle + (-m) /\ m + (-m) = 0 /\ -m \in Int
    BY <1>1, <1>2, <1>9
  <2> QED BY <1>7, <2>2, <2>3, <2>4
<1> QED BY <1>8, <1>9

LEMMA GlobalLoadInv == ASSUME LoadInv, GlobalLoad PROVE LoadInv'
<1>1. /\ UNCHANGED <<cpuLoad, folding, load_tasks, load_tasks_idle, blocked>>
      /\ keeper.at = "load" /\ keeper' = [at |-> "none", ticks |-> 0]
      /\ load_update' = IF load_update + Late > 0 THEN load_update ELSE load_update + LoadPeriod
  BY DEF GlobalLoad
<1>2. PICK u \in Int : u = load_update /\ u \in (2 - Late - LoadPeriod) .. LoadPeriod
  BY <1>1 DEF LoadInv, LoadTypes, AgesUnderWay
<1>3. PICK v : v = IF u + Late > 0 THEN u ELSE u + LoadPeriod
  OBVIOUS
<1>4. v \in (1 - Late) .. LoadPeriod /\ v \in Int /\ load_update' = v
  BY <1>1, <1>2, <1>3, LoadAssumption
<1>5. keeper' \in LoadKeeper /\ keeper'.at = "none"
  BY <1>1 DEF LoadKeeper
<1>6. LoadTypes' /\ OfflineEmpty'
  BY <1>1, <1>4, <1>5 DEF LoadInv, LoadTypes, OfflineEmpty
<1>7. LoadBalance'
  <2>1. load_tasks' = load_tasks + 0 /\ load_tasks_idle' = load_tasks_idle + 0 /\ 0 \in Int /\ 0 + 0 = 0
    BY <1>1 DEF LoadInv, LoadTypes
  <2>2. folding' = folding /\ blocked' = blocked /\ cpuLoad' = cpuLoad
    BY <1>1
  <2>3. LoadTypes /\ LoadBalance
    BY DEF LoadInv
  <2> QED BY <2>1, <2>2, <2>3, LoadSteady
<1>8. AgesUnderWay'
  BY <1>4, <1>5 DEF AgesUnderWay
<1> QED BY <1>6, <1>7, <1>8 DEF LoadInv

\* A CPU that dies hands its tasks over and takes its sample out.
LEMMA CpuDiesInv == ASSUME LoadInv, NEW c \in LoadCpus, NEW dest \in LoadCpus, CpuDies(c, dest) PROVE LoadInv'
<1>1. /\ UNCHANGED <<folding, load_tasks_idle, load_update, keeper, blocked>>
      /\ load_tasks' = load_tasks - cpuLoad[c].calc_load_active
      /\ c # dest /\ cpuLoad[dest].online
      /\ cpuLoad' = [migrate_nr_uninterruptible(cpuLoad, c, dest) EXCEPT
              ![dest].nr_running = @ + cpuLoad[c].nr_running, ![c].nr_running = 0,
              ![c].calc_load_active = 0, ![c].online = FALSE]
  BY DEF CpuDies, Removed
<1>2. PICK n, u, k, m, v \in Int :
        /\ n = cpuLoad[c].nr_running /\ u = cpuLoad[c].nr_uninterruptible /\ k = cpuLoad[c].calc_load_active
        /\ m = cpuLoad[dest].nr_running /\ v = cpuLoad[dest].nr_uninterruptible
  BY LoadCpuTypes
<1>3. PICK d1 : d1 = [cpuLoad[dest] EXCEPT !.nr_uninterruptible = v + u]
  OBVIOUS
<1>4. PICK d2 : d2 = [d1 EXCEPT !.nr_running = m + n]
  OBVIOUS
<1>5. PICK c1 : c1 = [cpuLoad[c] EXCEPT !.nr_uninterruptible = 0]
  OBVIOUS
<1>6. PICK c2 : c2 = [c1 EXCEPT !.nr_running = 0]
  OBVIOUS
<1>7. PICK c3 : c3 = [c2 EXCEPT !.calc_load_active = 0]
  OBVIOUS
<1>8. PICK c4 : c4 = [c3 EXCEPT !.online = FALSE]
  OBVIOUS
<1>9. d1 \in LoadRq /\ d1.nr_running = m /\ d1.nr_uninterruptible = v + u
      /\ d1.calc_load_active = cpuLoad[dest].calc_load_active /\ d1.online
  BY <1>1, <1>2, <1>3, LoadCpuTypes DEF LoadRq
<1>10. d2 \in LoadRq /\ d2.nr_running = m + n /\ d2.nr_uninterruptible = v + u
       /\ d2.calc_load_active = cpuLoad[dest].calc_load_active /\ d2.online
  BY <1>4, <1>9 DEF LoadRq
<1>11. c1 \in LoadRq /\ c1.nr_uninterruptible = 0
  BY <1>5, LoadCpuTypes DEF LoadRq
<1>12. c2 \in LoadRq /\ c2.nr_uninterruptible = 0 /\ c2.nr_running = 0
  BY <1>6, <1>11 DEF LoadRq
<1>13. c3 \in LoadRq /\ c3.nr_uninterruptible = 0 /\ c3.nr_running = 0 /\ c3.calc_load_active = 0
  BY <1>7, <1>12 DEF LoadRq
<1>14. c4 \in LoadRq /\ c4.nr_uninterruptible = 0 /\ c4.nr_running = 0 /\ c4.calc_load_active = 0
  BY <1>8, <1>13 DEF LoadRq
<1>15. cpuLoad' = [cpuLoad EXCEPT ![dest] = d2, ![c] = c4]
  <2>1. PICK q : q = migrate_nr_uninterruptible(cpuLoad, c, dest)
    OBVIOUS
  <2>2. q = [cpuLoad EXCEPT ![dest] = d1, ![c] = c1]
    BY <1>1, <1>2, <1>3, <1>5, <2>1 DEF migrate_nr_uninterruptible
  <2>3. q[dest] = d1 /\ q[c] = c1
    BY <1>1, <2>2 DEF LoadInv, LoadTypes
  <2>4. cpuLoad' = [q EXCEPT ![dest].nr_running = @ + n, ![c].nr_running = 0, ![c].calc_load_active = 0, ![c].online = FALSE]
    BY <1>1, <1>2, <2>1
  <2>5. cpuLoad' = [q EXCEPT ![dest] = d2, ![c] = c4]
    BY <1>1, <1>4, <1>6, <1>7, <1>8, <1>9, <2>3, <2>4
  <2> QED BY <1>1, <2>2, <2>5
<1>16. /\ cpuLoad'[dest] = d2 /\ cpuLoad'[c] = c4 /\ \A x \in LoadCpus \ {c, dest} : cpuLoad'[x] = cpuLoad[x]
       /\ cpuLoad' \in [LoadCpus -> LoadRq]
  <2>1. cpuLoad \in [LoadCpus -> LoadRq] /\ c # dest
    BY <1>1 DEF LoadInv, LoadTypes
  <2> QED BY <1>10, <1>14, <1>15, <2>1
<1>17. PICK l, i \in Int : l = load_tasks /\ i = load_tasks_idle
  BY DEF LoadInv, LoadTypes
<1>18. load_tasks' = l - k /\ load_tasks' \in Int
  BY <1>1, <1>2, <1>17
<1>19. LoadTypes'
  BY <1>1, <1>16, <1>18 DEF LoadInv, LoadTypes
<1>20. OfflineEmpty'
  BY <1>10, <1>14, <1>16 DEF LoadInv, OfflineEmpty
<1>21. AgesUnderWay'
  BY <1>1 DEF LoadInv, AgesUnderWay
<1>22. LoadBalance'
  <2>0. PICK a, a2, g, g2, s, s2 :
          /\ a = ActiveNow /\ a2 = ActiveNow' /\ g = RunnableOn /\ g2 = RunnableOn' /\ s = Sampled /\ s2 = Sampled'
    OBVIOUS
  <2>1. \A x \in LoadCpus : a[x] \in Int /\ g[x] \in Int /\ s[x] \in Int
    BY <2>0, LoadSums DEF LoadInv
  <2>2. \A x \in LoadCpus : a2[x] \in Int /\ g2[x] \in Int /\ s2[x] \in Int
    <3>1. \A x \in LoadCpus : cpuLoad'[x] \in LoadRq
      BY <1>16
    <3> QED BY <2>0, <3>1 DEF LoadRq, ActiveNow, RunnableOn, Sampled, ActiveOf
  <2>3. /\ \A x \in LoadCpus \ {c, dest} : a2[x] = a[x] /\ g2[x] = g[x]
        /\ \A x \in LoadCpus \ {c} : s2[x] = s[x]
    BY <2>0, <1>10, <1>16 DEF ActiveNow, RunnableOn, Sampled, ActiveOf
  <2>4. /\ a[c] = n + u /\ a[dest] = m + v /\ a2[c] = 0 /\ a2[dest] = (m + n) + (v + u)
        /\ g[c] = n /\ g[dest] = m /\ g2[c] = 0 /\ g2[dest] = m + n /\ s[c] = k /\ s2[c] = 0
    BY <1>2, <1>10, <1>14, <1>16, <2>0 DEF ActiveNow, RunnableOn, Sampled, ActiveOf
  <2>5. PICK A, G, S, D \in Int :
          /\ A = SumFunctionOnSet(a, LoadCpus) /\ G = SumFunctionOnSet(g, LoadCpus)
          /\ S = SumFunctionOnSet(s, LoadCpus) /\ D = SumFunctionOnSet(Folded, LoadCpus)
    BY <2>0, LoadSums DEF LoadInv, Runnable
  <2>6. /\ SumFunctionOnSet(a2, LoadCpus) = SumFunctionOnSet(a, LoadCpus) + (a2[c] - a[c]) + (a2[dest] - a[dest])
        /\ SumFunctionOnSet(g2, LoadCpus) = SumFunctionOnSet(g, LoadCpus) + (g2[c] - g[c]) + (g2[dest] - g[dest])
    BY <1>1, <2>1, <2>2, <2>3, LoadAssumption, SumChangeTwo
  <2>7. SumFunctionOnSet(s2, LoadCpus) = SumFunctionOnSet(s, LoadCpus) + (s2[c] - s[c])
    BY <2>1, <2>2, <2>3, LoadAssumption, SumChange
  <2>8. /\ SumFunctionOnSet(a2, LoadCpus) = A /\ SumFunctionOnSet(g2, LoadCpus) = G
        /\ SumFunctionOnSet(s2, LoadCpus) = S - k
    BY <2>4, <2>5, <2>6, <2>7
  <2>9. A = G + blocked /\ l + i + D = S
    BY <1>17, <2>0, <2>5 DEF LoadInv, LoadBalance, Runnable
  <2>10. (l - k) + i + D = S - k
    BY <1>17, <2>5, <2>9
  <2>11. Folded' = Folded
    BY <1>1 DEF Folded
  <2>12. load_tasks' + load_tasks_idle' + SumFunctionOnSet(Folded', LoadCpus) = SumFunctionOnSet(Sampled', LoadCpus)
    BY <1>1, <1>17, <1>18, <2>0, <2>5, <2>8, <2>10, <2>11
  <2>13. SumFunctionOnSet(ActiveNow', LoadCpus) = SumFunctionOnSet(RunnableOn', LoadCpus) + blocked'
    BY <1>1, <2>0, <2>8, <2>9
  <2> QED BY <2>12, <2>13 DEF LoadBalance, Runnable
<1> QED BY <1>19, <1>20, <1>21, <1>22 DEF LoadInv

LEMMA LoadInitInv == LoadInit => LoadInv
<1> SUFFICES ASSUME LoadInit PROVE LoadInv
  OBVIOUS
<1>1. \A c \in LoadCpus : /\ cpuLoad[c] = [nr_running |-> 0, nr_uninterruptible |-> 0, calc_load_active |-> 0,
                                           update |-> LoadPeriod, nohz |-> FALSE, online |-> TRUE]
                          /\ folding[c] = [at |-> "none", delta |-> 0]
  BY DEF LoadInit, NoFold
<1>2. LoadTypes /\ OfflineEmpty
  BY <1>1, LoadAssumption DEF LoadInit, LoadTypes, OfflineEmpty, LoadRq, LoadFold, LoadKeeper, NoFold
<1>3. \A c \in LoadCpus : ActiveNow[c] = 0 /\ RunnableOn[c] = 0 /\ Sampled[c] = 0 /\ Folded[c] = 0
  BY <1>1 DEF ActiveNow, RunnableOn, Sampled, Folded, ActiveOf
<1>4. /\ SumFunctionOnSet(ActiveNow, LoadCpus) = 0 /\ SumFunctionOnSet(RunnableOn, LoadCpus) = 0
      /\ SumFunctionOnSet(Sampled, LoadCpus) = 0 /\ SumFunctionOnSet(Folded, LoadCpus) = 0
  BY <1>3, LoadAssumption, SumZero
<1>5. LoadBalance
  BY <1>4 DEF LoadInit, LoadBalance, Runnable
<1>6. AgesUnderWay
  BY LoadAssumption DEF LoadInit, AgesUnderWay
<1> QED BY <1>2, <1>5, <1>6 DEF LoadInv

LEMMA LoadNextInv == LoadInv /\ [LoadNext]_loadTegraVars => LoadInv'
<1> SUFFICES ASSUME LoadInv, [LoadNext]_loadTegraVars PROVE LoadInv'
  OBVIOUS
<1>1. ASSUME NEW c \in LoadCpus, TaskChange(c) PROVE LoadInv'
  BY <1>1, TaskChangeInv
<1>2. ASSUME NEW c \in LoadCpus, AccountIdle(c) PROVE LoadInv'
  BY <1>2, FoldActiveInv DEF AccountIdle
<1>3. ASSUME NEW c \in LoadCpus, AccountActive(c) PROVE LoadInv'
  BY <1>3, FoldActiveInv DEF AccountActive
<1>4. ASSUME NEW c \in LoadCpus, AddIdleDelta(c) \/ FoldIdle(c) \/ AddDelta(c) PROVE LoadInv'
  BY <1>4, AddIdleDeltaInv, FoldIdleInv, AddDeltaInv
<1>5. ASSUME NEW c \in LoadCpus, LeaveIdle(c) \/ CpuComes(c) PROVE LoadInv'
  BY <1>5, LeaveIdleInv, CpuComesInv
<1>6. ASSUME NEW c \in LoadCpus, NEW dest \in LoadCpus, CpuDies(c, dest) PROVE LoadInv'
  BY <1>6, CpuDiesInv
<1>7. CASE TimerTicks \/ GlobalNohz \/ GlobalLoad
  BY <1>7, TimerTicksInv, GlobalNohzInv, GlobalLoadInv
<1>8. CASE UNCHANGED loadTegraVars
  <2>1. UNCHANGED <<cpuLoad, folding, load_tasks, load_tasks_idle, load_update, keeper, blocked>>
    BY <1>8 DEF loadTegraVars, globalVars
  <2> QED BY <2>1 DEF LoadInv, LoadTypes, OfflineEmpty, LoadBalance, AgesUnderWay, Runnable, RunnableOn,
                      ActiveNow, Sampled, Folded, ActiveOf
<1> QED BY <1>1, <1>2, <1>3, <1>4, <1>5, <1>6, <1>7, <1>8 DEF LoadNext

LEMMA LoadInvImplies == LoadInv => LoadCounted
<1> SUFFICES ASSUME LoadInv PROVE LoadCounted
  OBVIOUS
<1>1. \A c \in LoadCpus : ActiveNow[c] \in Int
  BY LoadSums DEF LoadInv
<1>2. \A c \in LoadCpus \ Online : ActiveNow[c] = 0
  BY DEF LoadInv, OfflineEmpty, Online, ActiveNow, ActiveOf
<1>3. Online \in SUBSET LoadCpus
  BY DEF Online
<1>4. SumFunctionOnSet(ActiveNow, Online) = SumFunctionOnSet(ActiveNow, LoadCpus)
  BY <1>1, <1>2, <1>3, LoadAssumption, SumOutside
<1> QED BY <1>4 DEF LoadInv, LoadBalance, AgesUnderWay, AgesKeepUp, LoadCounted

\* For any number of CPUs, any period and any jump of jiffies: every task that is
\* runnable or in uninterruptible sleep is counted by a CPU that is there, what the CPUs
\* have sampled is in calc_load_tasks, in the idle counter or on the way, once, through
\* hotplugs as well (calc_load_fold_active(), calc_load_fold_idle(),
\* migrate_nr_uninterruptible()), and the average is aged in time (calc_global_nohz()).
THEOREM LoadIsCounted == LoadTegraSpec => []LoadCounted
<1>1. LoadTegraSpec => []LoadInv
  BY LoadInitInv, LoadNextInv, PTL DEF LoadTegraSpec
<1> QED BY <1>1, LoadInvImplies, PTL

-----------------------------------------------------------------------------
(* The global load average of goldfish *)

AvgRq == [nr_running : Int, nr_uninterruptible : Int, calc_load_active : Int, update : Int,
          nohz : BOOLEAN, ticked : BOOLEAN]

AvgTypes ==
  /\ rq \in [Cpus -> AvgRq] /\ op \in [Cpus -> Op]
  /\ calc_load_tasks \in Int /\ calc_load_update \in Int
  /\ calc_load_idle \in [{0, 1} -> Int] /\ calc_load_idx \in {0, 1}

PendingOn == [c \in Cpus |-> Pending(c)]
Held == calc_load_tasks + calc_load_idle[0] + calc_load_idle[1]
AvgBalance == Held + Sum(PendingOn) = Sum(SampledOn)

\* What was read in the window that is open goes to the counter that is not folded now.
YoungOnes ==
  /\ calc_load_idx \notin young
  /\ \A c \in Cpus : op[c].young => op[c].at = "add" /\ op[c].i # calc_load_idx

AvgInv == AvgTypes /\ AvgBalance /\ YoungOnes

LEMMA AvgCpuTypes ==
  ASSUME AvgTypes, NEW c \in Cpus
  PROVE  /\ rq[c] \in AvgRq /\ op[c] \in Op
         /\ rq[c].nr_running \in Int /\ rq[c].nr_uninterruptible \in Int /\ rq[c].calc_load_active \in Int
         /\ rq[c].update \in Int /\ op[c].n \in Int /\ op[c].i \in {0, 1}
         /\ PendingOn[c] \in Int /\ SampledOn[c] \in Int /\ PendingOn[c] = Pending(c)
<1>1. rq[c] \in AvgRq /\ op[c] \in Op
  BY DEF AvgTypes
<1>2. /\ rq[c].nr_running \in Int /\ rq[c].nr_uninterruptible \in Int /\ rq[c].calc_load_active \in Int
      /\ rq[c].update \in Int /\ op[c].n \in Int /\ op[c].i \in {0, 1}
  BY <1>1 DEF AvgRq, Op
<1> QED BY <1>1, <1>2 DEF PendingOn, SampledOn, Pending

\* A step of CPU c that changes its sample by s, what it has not added yet by f, and the
\* counters by t in all.
LEMMA AvgMove ==
  ASSUME AvgTypes, AvgBalance, NEW c \in Cpus, NEW s \in Int, NEW f \in Int, NEW t \in Int, t + f = s,
         Held' = Held + t,
         \A x \in Cpus \ {c} : rq'[x].calc_load_active = rq[x].calc_load_active /\ Pending(x)' = Pending(x),
         rq'[c].calc_load_active = rq[c].calc_load_active + s, Pending(c)' = Pending(c) + f
  PROVE  AvgBalance'
<1>0. PICK a, a2, d, d2 : a = SampledOn /\ a2 = SampledOn' /\ d = PendingOn /\ d2 = PendingOn'
  OBVIOUS
<1>1. \A x \in Cpus : a[x] \in Int /\ d[x] \in Int
  BY <1>0, AvgCpuTypes
<1>2. (\A x \in Cpus \ {c} : a2[x] = a[x] /\ d2[x] = d[x]) /\ a2[c] = a[c] + s /\ d2[c] = d[c] + f
  BY <1>0 DEF SampledOn, PendingOn
<1>3. \A x \in Cpus : a2[x] \in Int /\ d2[x] \in Int
  BY <1>1, <1>2
<1>4. /\ SumFunctionOnSet(a2, Cpus) = SumFunctionOnSet(a, Cpus) + (a2[c] - a[c])
      /\ SumFunctionOnSet(d2, Cpus) = SumFunctionOnSet(d, Cpus) + (d2[c] - d[c])
  BY <1>1, <1>2, <1>3, LoadAvgAssumption, SumChange
<1>5. PICK A, D, H \in Int : A = SumFunctionOnSet(a, Cpus) /\ D = SumFunctionOnSet(d, Cpus) /\ H = Held
  <2>1. SumFunctionOnSet(a, Cpus) \in Int /\ SumFunctionOnSet(d, Cpus) \in Int
    BY <1>1, LoadAvgAssumption, SumType
  <2>2. Held \in Int
    BY DEF AvgTypes, Held
  <2> QED BY <2>1, <2>2
<1>6. H + D = A
  BY <1>0, <1>5 DEF AvgBalance, Sum
<1>7. SumFunctionOnSet(a2, Cpus) = A + s /\ SumFunctionOnSet(d2, Cpus) = D + f
  BY <1>1, <1>2, <1>4, <1>5
<1>8. (H + t) + (D + f) = A + s
  BY <1>5, <1>6
<1>9. Held' + SumFunctionOnSet(d2, Cpus) = SumFunctionOnSet(a2, Cpus)
  BY <1>5, <1>7, <1>8
<1> QED BY <1>0, <1>9 DEF AvgBalance, Sum

LEMMA AvgSteady ==
  ASSUME AvgBalance, Held' = Held,
         \A x \in Cpus : rq'[x].calc_load_active = rq[x].calc_load_active /\ Pending(x)' = Pending(x)
  PROVE  AvgBalance'
<1>1. SampledOn' = SampledOn /\ PendingOn' = PendingOn
  BY DEF SampledOn, PendingOn
<1> QED BY <1>1 DEF AvgBalance, Sum

LEMMA ChangeInv ==
  ASSUME AvgInv, NEW c \in Cpus, NEW r \in Int, NEW u \in Int, Change(c, r, u)
  PROVE  AvgInv'
<1>1. /\ UNCHANGED <<op, calc_load_tasks, calc_load_update, calc_load_idle, calc_load_idx, young>>
      /\ rq' = [rq EXCEPT ![c].nr_running = @ + r, ![c].nr_uninterruptible = @ + u]
  BY DEF Change, loadVars
<1>2. PICK n, m \in Int : n = rq[c].nr_running + r /\ m = rq[c].nr_uninterruptible + u
  BY AvgCpuTypes DEF AvgInv
<1>3. PICK p : p = [rq[c] EXCEPT !.nr_running = n]
  OBVIOUS
<1>4. PICK q : q = [p EXCEPT !.nr_uninterruptible = m]
  OBVIOUS
<1>5. p \in AvgRq /\ p.calc_load_active = rq[c].calc_load_active
  BY <1>3, AvgCpuTypes DEF AvgInv, AvgRq
<1>6. q \in AvgRq /\ q.calc_load_active = rq[c].calc_load_active
  BY <1>4, <1>5 DEF AvgRq
<1>7. rq' = [rq EXCEPT ![c] = q]
  BY <1>1, <1>2, <1>3, <1>4
<1>8. AvgTypes' /\ \A x \in Cpus : rq'[x].calc_load_active = rq[x].calc_load_active
  BY <1>1, <1>6, <1>7 DEF AvgInv, AvgTypes
<1>9. Held' = Held /\ \A x \in Cpus : Pending(x)' = Pending(x)
  BY <1>1 DEF Held, Pending
<1>10. YoungOnes'
  BY <1>1 DEF AvgInv, YoungOnes
<1> QED BY <1>8, <1>9, <1>10, AvgSteady DEF AvgInv

LEMMA AccountActiveInv == ASSUME AvgInv, NEW c \in Cpus, calc_load_account_active(c) PROVE AvgInv'
<1>1. /\ UNCHANGED <<op, calc_load_update, calc_load_idle, calc_load_idx, young>>
      /\ rq' = [rq EXCEPT ![c].calc_load_active = Active(rq[c]), ![c].update = @ + LOAD_FREQ, ![c].ticked = TRUE]
      /\ calc_load_tasks' = calc_load_tasks + Active(rq[c]) - rq[c].calc_load_active
  BY DEF calc_load_account_active
<1>2. PICK v, w, k, l \in Int :
        v = Active(rq[c]) /\ w = rq[c].update + LOAD_FREQ /\ k = rq[c].calc_load_active /\ l = calc_load_tasks
  BY AvgCpuTypes, LoadAvgAssumption DEF AvgInv, AvgTypes, Active
<1>3. PICK p1 : p1 = [rq[c] EXCEPT !.calc_load_active = v]
  OBVIOUS
<1>4. PICK p2 : p2 = [p1 EXCEPT !.update = w]
  OBVIOUS
<1>5. PICK q : q = [p2 EXCEPT !.ticked = TRUE]
  OBVIOUS
<1>6. p1 \in AvgRq /\ p1.calc_load_active = v
  BY <1>3, AvgCpuTypes DEF AvgInv, AvgRq
<1>7. p2 \in AvgRq /\ p2.calc_load_active = v
  BY <1>4, <1>6 DEF AvgRq
<1>8. q \in AvgRq /\ q.calc_load_active = v
  BY <1>5, <1>7 DEF AvgRq
<1>9. rq' = [rq EXCEPT ![c] = q]
  BY <1>1, <1>2, <1>3, <1>4, <1>5
<1>10. UNCHANGED <<op, calc_load_update, calc_load_idle, calc_load_idx, young>>
  BY <1>1
<1>11. calc_load_tasks' = l + v - k
  BY <1>1, <1>2
<1>12. AvgTypes' /\ rq'[c] = q /\ \A x \in Cpus \ {c} : rq'[x] = rq[x]
  BY <1>8, <1>9, <1>10, <1>11 DEF AvgInv, AvgTypes
<1>13. Held' = Held + (v - k)
  <2>1. PICK i, j \in Int : i = calc_load_idle[0] /\ j = calc_load_idle[1]
    BY DEF AvgInv, AvgTypes
  <2>2. (l + v - k) + i + j = (l + i + j) + (v - k)
    BY <1>2, <2>1
  <2> QED BY <1>2, <1>10, <1>11, <2>1, <2>2 DEF Held
<1>14. \A x \in Cpus : Pending(x)' = Pending(x)
  BY <1>10 DEF Pending
<1>15. rq'[c].calc_load_active = k + (v - k)
  BY <1>2, <1>8, <1>12
<1>16. AvgBalance'
  <2>1. Pending(c)' = Pending(c) + 0
    BY <1>14, AvgCpuTypes DEF AvgInv
  <2>2. v - k \in Int /\ (v - k) + 0 = v - k /\ 0 \in Int
    BY <1>2
  <2>3. AvgTypes /\ AvgBalance
    BY DEF AvgInv
  <2>4. \A x \in Cpus \ {c} : rq'[x].calc_load_active = rq[x].calc_load_active /\ Pending(x)' = Pending(x)
    BY <1>12, <1>14
  <2>5. rq'[c].calc_load_active = rq[c].calc_load_active + (v - k)
    BY <1>2, <1>15
  <2> QED BY <1>13, <2>1, <2>2, <2>3, <2>4, <2>5, AvgMove
<1>17. YoungOnes'
  BY <1>10 DEF AvgInv, YoungOnes
<1> QED BY <1>12, <1>16, <1>17 DEF AvgInv

LEMMA EnterIdleInv == ASSUME AvgInv, NEW c \in Cpus, EnterIdle(c) PROVE AvgInv'
<1>0. PICK v, k, d \in Int : v = Active(rq[c]) /\ k = rq[c].calc_load_active /\ d = v - k
  <2>1. Active(rq[c]) \in Int /\ rq[c].calc_load_active \in Int
    BY AvgCpuTypes DEF AvgInv, Active
  <2>2. PICK v \in Int : v = Active(rq[c])
    BY <2>1
  <2>3. PICK k \in Int : k = rq[c].calc_load_active
    BY <2>1
  <2>4. v - k \in Int
    BY <2>2, <2>3
  <2> QED BY <2>2, <2>3, <2>4
<1>1. /\ UNCHANGED <<calc_load_tasks, calc_load_update, calc_load_idle, calc_load_idx, young>>
      /\ rq' = [rq EXCEPT ![c].calc_load_active = v, ![c].nohz = TRUE]
      /\ op' = [op EXCEPT ![c] = IF d = 0 THEN NoOp ELSE [NoOp EXCEPT !.at = "time", !.n = d, !.i = calc_load_idx]]
      /\ op[c].at = "none"
  BY <1>0 DEF EnterIdle, loadVars, Runs
<1>2. PICK p : p = [rq[c] EXCEPT !.calc_load_active = v]
  OBVIOUS
<1>3. PICK q : q = [p EXCEPT !.nohz = TRUE]
  OBVIOUS
<1>4. p \in AvgRq /\ p.calc_load_active = v
  BY <1>2, AvgCpuTypes DEF AvgInv, AvgRq
<1>5. q \in AvgRq /\ q.calc_load_active = v
  BY <1>3, <1>4 DEF AvgRq
<1>6. rq' = [rq EXCEPT ![c] = q]
  BY <1>1, <1>2, <1>3
<1>7. PICK o : o = IF d = 0 THEN NoOp ELSE [NoOp EXCEPT !.at = "time", !.n = d, !.i = calc_load_idx]
  OBVIOUS
<1>8. o \in Op /\ ~o.young /\ (IF o.at \in {"time", "add"} THEN o.n ELSE 0) = d
  <2>1. CASE d = 0
    <3>1. o = [at |-> "none", n |-> 0, i |-> 0, young |-> FALSE]
      BY <1>7, <2>1 DEF NoOp
    <3> QED BY <2>1, <3>1 DEF Op
  <2>2. CASE d # 0
    <3>1. o = [at |-> "time", n |-> d, i |-> calc_load_idx, young |-> FALSE] /\ calc_load_idx \in {0, 1}
      BY <1>7, <2>2 DEF NoOp, AvgInv, AvgTypes
    <3> QED BY <3>1 DEF Op
  <2> QED BY <2>1, <2>2
<1>9. op' = [op EXCEPT ![c] = o] /\ UNCHANGED <<calc_load_tasks, calc_load_update, calc_load_idle, calc_load_idx, young>>
  BY <1>1, <1>7
<1>10. /\ AvgTypes' /\ rq'[c] = q /\ op'[c] = o
       /\ \A x \in Cpus \ {c} : rq'[x] = rq[x] /\ op'[x] = op[x]
  BY <1>5, <1>6, <1>8, <1>9 DEF AvgInv, AvgTypes
<1>11. AvgBalance'
  <2>1. Pending(c) = 0
    BY <1>1 DEF Pending
  <2>2. Pending(c)' = Pending(c) + d
    BY <1>8, <1>10, <2>1 DEF Pending
  <2>3. \A x \in Cpus \ {c} : rq'[x].calc_load_active = rq[x].calc_load_active /\ Pending(x)' = Pending(x)
    BY <1>10 DEF Pending
  <2>4. rq'[c].calc_load_active = rq[c].calc_load_active + d
    BY <1>0, <1>5, <1>10
  <2>5. Held' = Held + 0
    <3>1. Held \in Int
      BY DEF AvgInv, AvgTypes, Held
    <3> QED BY <1>9, <3>1 DEF Held
  <2>6. 0 + d = d /\ 0 \in Int /\ AvgTypes /\ AvgBalance
    BY DEF AvgInv
  <2> QED BY <2>2, <2>3, <2>4, <2>5, <2>6, AvgMove
<1>12. YoungOnes'
  BY <1>8, <1>9, <1>10 DEF AvgInv, YoungOnes
<1> QED BY <1>10, <1>11, <1>12 DEF AvgInv

LEMMA ReadTimeInv == ASSUME AvgInv, NEW c \in Cpus, ReadTime(c) PROVE AvgInv'
<1>1. /\ UNCHANGED <<rq, calc_load_tasks, calc_load_update, calc_load_idle, calc_load_idx, young>>
      /\ op[c].at = "time"
      /\ op' = [op EXCEPT ![c].at = "add", ![c].i = calc_load_write_idx(@),
                          ![c].young = ~time_before(calc_load_update) /\ op[c].i = calc_load_idx]
  BY DEF ReadTime, loadVars
<1>2. PICK i : i = calc_load_write_idx(op[c].i)
  OBVIOUS
<1>3. PICK y \in BOOLEAN : y = (~time_before(calc_load_update) /\ op[c].i = calc_load_idx)
  OBVIOUS
<1>4. PICK p1 : p1 = [op[c] EXCEPT !.at = "add"]
  OBVIOUS
<1>5. PICK p2 : p2 = [p1 EXCEPT !.i = i]
  OBVIOUS
<1>6. PICK q : q = [p2 EXCEPT !.young = y]
  OBVIOUS
<1>7. op[c] \in Op /\ op[c].i \in {0, 1}
  BY AvgCpuTypes DEF AvgInv
<1>8. i \in {0, 1} /\ (y => i # calc_load_idx)
  <2>1. CASE time_before(calc_load_update)
    BY <1>2, <1>3, <1>7, <2>1 DEF calc_load_write_idx
  <2>2. CASE ~time_before(calc_load_update)
    <3>1. i = 1 - op[c].i
      BY <1>2, <2>2 DEF calc_load_write_idx
    <3>2. i \in {0, 1} /\ i # op[c].i
      BY <1>7, <3>1
    <3> QED BY <1>3, <3>2
  <2> QED BY <2>1, <2>2
<1>9. p1 \in Op /\ p1.at = "add" /\ p1.n = op[c].n
  BY <1>4, <1>7 DEF Op
<1>10. p2 \in Op /\ p2.at = "add" /\ p2.n = op[c].n /\ p2.i = i
  BY <1>5, <1>8, <1>9 DEF Op
<1>11. q \in Op /\ q.at = "add" /\ q.n = op[c].n /\ q.i = i /\ q.young = y
  BY <1>6, <1>10 DEF Op
<1>12. op' = [op EXCEPT ![c] = q]
  BY <1>1, <1>2, <1>3, <1>4, <1>5, <1>6
<1>13. AvgTypes' /\ op'[c] = q /\ \A x \in Cpus \ {c} : op'[x] = op[x]
  <2>1. UNCHANGED <<rq, calc_load_tasks, calc_load_update, calc_load_idle, calc_load_idx>> /\ q \in Op
    BY <1>1, <1>11
  <2> QED BY <1>12, <2>1 DEF AvgInv, AvgTypes
<1>14. Held' = Held /\ \A x \in Cpus : rq'[x].calc_load_active = rq[x].calc_load_active /\ Pending(x)' = Pending(x)
  <2>1. UNCHANGED <<rq, calc_load_tasks, calc_load_idle>>
    BY <1>1
  <2>2. op[c].at = "time" /\ op'[c].at = "add" /\ op'[c].n = op[c].n
    BY <1>1, <1>11, <1>13
  <2>3. Pending(c)' = Pending(c)
    BY <2>2 DEF Pending
  <2>4. \A x \in Cpus \ {c} : Pending(x)' = Pending(x)
    BY <1>13 DEF Pending
  <2> QED BY <2>1, <2>3, <2>4 DEF Held
<1>15. YoungOnes'
  <2>1. UNCHANGED <<calc_load_idx, young>>
    BY <1>1
  <2> QED BY <1>8, <1>11, <1>13, <2>1 DEF AvgInv, YoungOnes
<1> QED BY <1>13, <1>14, <1>15, AvgSteady DEF AvgInv

LEMMA AddIdleInv == ASSUME AvgInv, NEW c \in Cpus, AddIdle(c) PROVE AvgInv'
<1>1. /\ UNCHANGED <<rq, calc_load_tasks, calc_load_update, calc_load_idx>>
      /\ op[c].at = "add"
      /\ calc_load_idle' = [calc_load_idle EXCEPT ![op[c].i] = @ + op[c].n]
      /\ young' = young \cup (IF op[c].young THEN {op[c].i} ELSE {})
      /\ op' = [op EXCEPT ![c] = NoOp]
  BY DEF AddIdle
<1>2. PICK n \in Int : n = op[c].n
  BY AvgCpuTypes DEF AvgInv
<1>3. PICK i \in {0, 1} : i = op[c].i
  BY AvgCpuTypes DEF AvgInv
<1>4. PICK z, o, l \in Int : z = calc_load_idle[0] /\ o = calc_load_idle[1] /\ l = calc_load_tasks
  BY DEF AvgInv, AvgTypes
<1>5. /\ calc_load_idle' \in [{0, 1} -> Int]
      /\ calc_load_idle'[0] + calc_load_idle'[1] = z + o + n
  <2>1. CASE i = 0
    <3>1. calc_load_idle' = [calc_load_idle EXCEPT ![0] = z + n]
      BY <1>1, <1>2, <1>3, <1>4, <2>1
    <3>2. calc_load_idle'[0] = z + n /\ calc_load_idle'[1] = o /\ calc_load_idle' \in [{0, 1} -> Int]
      BY <1>2, <1>4, <3>1 DEF AvgInv, AvgTypes
    <3> QED BY <3>2
  <2>2. CASE i = 1
    <3>1. calc_load_idle' = [calc_load_idle EXCEPT ![1] = o + n]
      BY <1>1, <1>2, <1>3, <1>4, <2>2
    <3>2. calc_load_idle'[0] = z /\ calc_load_idle'[1] = o + n /\ calc_load_idle' \in [{0, 1} -> Int]
      BY <1>2, <1>4, <3>1 DEF AvgInv, AvgTypes
    <3> QED BY <3>2
  <2> QED BY <2>1, <2>2
<1>6. NoOp \in Op /\ NoOp.at = "none" /\ NoOp.young = FALSE
  BY DEF NoOp, Op
<1>7. AvgTypes' /\ op'[c] = NoOp /\ \A x \in Cpus \ {c} : op'[x] = op[x]
  BY <1>1, <1>5, <1>6 DEF AvgInv, AvgTypes
<1>8. Held' = Held + n
  <2>1. PICK z2, o2 \in Int : z2 = calc_load_idle'[0] /\ o2 = calc_load_idle'[1]
    BY <1>5
  <2>2. z2 + o2 = z + o + n
    BY <1>5, <2>1
  <2>4. l + z2 + o2 = (l + z + o) + n
    BY <2>2
  <2>3. calc_load_tasks' = l
    BY <1>1, <1>4
  <2> QED BY <1>4, <2>1, <2>3, <2>4 DEF Held
<1>9. AvgBalance'
  <2>1. Pending(c)' = 0 /\ Pending(c) = n
    BY <1>1, <1>2, <1>6, <1>7 DEF Pending
  <2>2. Pending(c)' = Pending(c) + (0 - n)
    BY <2>1
  <2>3. \A x \in Cpus \ {c} : rq'[x].calc_load_active = rq[x].calc_load_active /\ Pending(x)' = Pending(x)
    BY <1>1, <1>7 DEF Pending
  <2>4. rq'[c].calc_load_active = rq[c].calc_load_active + 0
    BY <1>1, AvgCpuTypes DEF AvgInv
  <2>5. n + (0 - n) = 0 /\ 0 \in Int /\ (0 - n) \in Int
    OBVIOUS
  <2>6. AvgTypes /\ AvgBalance
    BY DEF AvgInv
  <2> QED BY <1>8, <2>2, <2>3, <2>4, <2>5, <2>6, AvgMove
<1>10. YoungOnes'
  BY <1>1, <1>6, <1>7 DEF AvgInv, YoungOnes
<1> QED BY <1>7, <1>9, <1>10 DEF AvgInv

LEMMA ExitIdleInv == ASSUME AvgInv, NEW c \in Cpus, ExitIdle(c) PROVE AvgInv'
<1>1. /\ UNCHANGED <<calc_load_tasks, calc_load_update, calc_load_idle, calc_load_idx, young>>
      /\ op[c].at = "none" /\ rq' = [rq EXCEPT ![c].nohz = FALSE]
      /\ op' = [op EXCEPT ![c].at = IF time_before(rq[c].update) THEN "none" ELSE "exit"]
  BY DEF ExitIdle, loadVars
<1>2. PICK a \in {"none", "exit"} : a = IF time_before(rq[c].update) THEN "none" ELSE "exit"
  OBVIOUS
<1>3. PICK p : p = [rq[c] EXCEPT !.nohz = FALSE]
  OBVIOUS
<1>4. PICK o : o = [op[c] EXCEPT !.at = a]
  OBVIOUS
<1>5. p \in AvgRq /\ p.calc_load_active = rq[c].calc_load_active
  BY <1>3, AvgCpuTypes DEF AvgInv, AvgRq
<1>6. o \in Op /\ o.at = a /\ ~o.young
  <2>1. op[c] \in Op /\ ~op[c].young
    BY <1>1, AvgCpuTypes DEF AvgInv, YoungOnes
  <2> QED BY <1>2, <1>4, <2>1 DEF Op
<1>7. rq' = [rq EXCEPT ![c] = p] /\ op' = [op EXCEPT ![c] = o]
  BY <1>1, <1>2, <1>3, <1>4
<1>8. /\ AvgTypes' /\ rq'[c] = p /\ op'[c] = o
      /\ \A x \in Cpus \ {c} : rq'[x] = rq[x] /\ op'[x] = op[x]
  <2>1. UNCHANGED <<calc_load_tasks, calc_load_update, calc_load_idle, calc_load_idx>> /\ p \in AvgRq /\ o \in Op
    BY <1>1, <1>5, <1>6
  <2> QED BY <1>7, <2>1 DEF AvgInv, AvgTypes
<1>9. Held' = Held /\ \A x \in Cpus : rq'[x].calc_load_active = rq[x].calc_load_active /\ Pending(x)' = Pending(x)
  BY <1>1, <1>2, <1>5, <1>6, <1>8 DEF Held, Pending
<1>10. YoungOnes'
  <2>1. UNCHANGED <<calc_load_idx, young>>
    BY <1>1
  <2> QED BY <1>6, <1>8, <2>1 DEF AvgInv, YoungOnes
<1> QED BY <1>8, <1>9, <1>10, AvgSteady DEF AvgInv

LEMMA SyncUpInv == ASSUME AvgInv, NEW c \in Cpus, SyncUp(c) PROVE AvgInv'
<1>1. /\ UNCHANGED <<calc_load_tasks, calc_load_update, calc_load_idle, calc_load_idx, young>>
      /\ op[c].at = "exit"
      /\ rq' = [rq EXCEPT ![c].update =
           calc_load_update + IF time_before(calc_load_update + Window) THEN LOAD_FREQ ELSE 0]
      /\ op' = [op EXCEPT ![c] = NoOp]
  BY DEF SyncUp, loadVars
<1>2. PICK w \in Int : w = calc_load_update + IF time_before(calc_load_update + Window) THEN LOAD_FREQ ELSE 0
  <2>1. (IF time_before(calc_load_update + Window) THEN LOAD_FREQ ELSE 0) \in Int
    BY LoadAvgAssumption
  <2> QED BY <2>1 DEF AvgInv, AvgTypes
<1>3. PICK p : p = [rq[c] EXCEPT !.update = w]
  OBVIOUS
<1>4. p \in AvgRq /\ p.calc_load_active = rq[c].calc_load_active
  BY <1>3, AvgCpuTypes DEF AvgInv, AvgRq
<1>5. rq' = [rq EXCEPT ![c] = p]
  BY <1>1, <1>2, <1>3
<1>6. NoOp \in Op /\ NoOp.at = "none" /\ NoOp.young = FALSE
  BY DEF NoOp, Op
<1>7. /\ AvgTypes' /\ rq'[c] = p /\ op'[c] = NoOp
      /\ \A x \in Cpus \ {c} : rq'[x] = rq[x] /\ op'[x] = op[x]
  BY <1>1, <1>4, <1>5, <1>6 DEF AvgInv, AvgTypes
<1>8. Held' = Held /\ \A x \in Cpus : rq'[x].calc_load_active = rq[x].calc_load_active /\ Pending(x)' = Pending(x)
  BY <1>1, <1>4, <1>6, <1>7 DEF Held, Pending
<1>9. YoungOnes'
  <2>1. UNCHANGED <<calc_load_idx, young>>
    BY <1>1
  <2> QED BY <1>6, <1>7, <2>1 DEF AvgInv, YoungOnes
<1> QED BY <1>7, <1>8, <1>9, AvgSteady DEF AvgInv

LEMMA JiffiesInv == ASSUME AvgInv, Jiffies PROVE AvgInv'
<1>1. PICK k \in 1 .. (IF \A c \in Cpus : rq[c].nohz THEN MaxSleep ELSE 1) :
        /\ calc_load_update' = calc_load_update - k
        /\ rq' = [c \in Cpus |-> [rq[c] EXCEPT !.ticked = FALSE, !.update = IF rq[c].nohz THEN Earlier(@, k) ELSE @ - k]]
  BY DEF Jiffies
<1>2. UNCHANGED <<op, calc_load_tasks, calc_load_idle, calc_load_idx, young>>
  BY DEF Jiffies
<1>3. k \in Int
  <2>1. (IF \A c \in Cpus : rq[c].nohz THEN MaxSleep ELSE 1) \in Int
    <3>1. MaxSleep \in Int
      BY LoadAvgAssumption
    <3> QED BY <3>1
  <2>2. PICK m \in Int : m = IF \A c \in Cpus : rq[c].nohz THEN MaxSleep ELSE 1
    BY <2>1
  <2>3. k \in 1 .. m
    BY <2>2
  <2> QED BY <2>3
<1>4. ASSUME NEW c \in Cpus PROVE rq'[c] \in AvgRq /\ rq'[c].calc_load_active = rq[c].calc_load_active
  <2>1. rq[c].update \in Int
    BY AvgCpuTypes DEF AvgInv
  <2>2. Earlier(rq[c].update, k) \in Int /\ rq[c].update - k \in Int
    BY <1>3, <2>1 DEF Earlier
  <2>3. PICK w \in Int : w = IF rq[c].nohz THEN Earlier(rq[c].update, k) ELSE rq[c].update - k
    BY <2>2
  <2>4. PICK p : p = [rq[c] EXCEPT !.ticked = FALSE]
    OBVIOUS
  <2>5. p \in AvgRq /\ p.calc_load_active = rq[c].calc_load_active
    BY <2>4, AvgCpuTypes DEF AvgInv, AvgRq
  <2>6. PICK q : q = [p EXCEPT !.update = w]
    OBVIOUS
  <2>7. q \in AvgRq /\ q.calc_load_active = rq[c].calc_load_active
    BY <2>5, <2>6 DEF AvgRq
  <2>8. rq'[c] = q
    BY <1>1, <2>3, <2>4, <2>6
  <2> QED BY <2>7, <2>8
<1>5. rq' \in [Cpus -> AvgRq]
  BY <1>1, <1>4
<1>6. calc_load_update' \in Int
  <2>1. PICK u \in Int : u = calc_load_update
    BY DEF AvgInv, AvgTypes
  <2>2. calc_load_update' = u - k
    BY <1>1, <2>1
  <2> QED BY <1>3, <2>2
<1>7. AvgTypes'
  BY <1>2, <1>5, <1>6 DEF AvgInv, AvgTypes
<1>8. Held' = Held /\ \A x \in Cpus : Pending(x)' = Pending(x)
  BY <1>2 DEF Held, Pending
<1>9. YoungOnes'
  BY <1>2 DEF AvgInv, YoungOnes
<1> QED BY <1>4, <1>7, <1>8, <1>9, AvgSteady DEF AvgInv

\* calc_load_fold_idle() moves what a counter holds, and loses nothing.
LEMMA SampleInv == ASSUME AvgInv, calc_global_load PROVE AvgInv'
<1>0. UNCHANGED <<rq, op, calc_load_idx, young>>
  BY DEF calc_global_load, cpuVars
<1>1. CASE tk = "fold"
  <2>1. /\ calc_load_idle' = [calc_load_idle EXCEPT ![calc_load_idx] = 0]
        /\ calc_load_tasks' = calc_load_tasks + calc_load_idle[calc_load_idx]
        /\ calc_load_update' = calc_load_update
    BY <1>1 DEF calc_global_load, Emptied
  <2>2. PICK z, o, l \in Int : z = calc_load_idle[0] /\ o = calc_load_idle[1] /\ l = calc_load_tasks
    BY DEF AvgInv, AvgTypes
  <2>3. /\ calc_load_idle' \in [{0, 1} -> Int] /\ calc_load_tasks' \in Int
        /\ calc_load_tasks' + calc_load_idle'[0] + calc_load_idle'[1] = l + z + o
    <3>1. CASE calc_load_idx = 0
      <4>1. calc_load_idle'[0] = 0 /\ calc_load_idle'[1] = o /\ calc_load_tasks' = l + z
        BY <2>1, <2>2, <3>1 DEF AvgInv, AvgTypes
      <4>2. calc_load_idle' \in [{0, 1} -> Int]
        BY <2>1 DEF AvgInv, AvgTypes
      <4> QED BY <2>2, <4>1, <4>2
    <3>2. CASE calc_load_idx = 1
      <4>1. calc_load_idle'[0] = z /\ calc_load_idle'[1] = 0 /\ calc_load_tasks' = l + o
        BY <2>1, <2>2, <3>2 DEF AvgInv, AvgTypes
      <4>2. calc_load_idle' \in [{0, 1} -> Int]
        BY <2>1 DEF AvgInv, AvgTypes
      <4> QED BY <2>2, <4>1, <4>2
    <3> QED BY <3>1, <3>2 DEF AvgInv, AvgTypes
  <2>4. Held' = Held
    BY <2>2, <2>3 DEF Held
  <2>5. AvgTypes'
    BY <1>0, <2>1, <2>3 DEF AvgInv, AvgTypes
  <2> QED BY <1>0, <2>4, <2>5, AvgSteady DEF AvgInv, YoungOnes, Pending
<1>2. CASE tk = "move"
  <2>1. UNCHANGED <<calc_load_tasks, calc_load_idle>> /\ calc_load_update' = calc_load_update + LOAD_FREQ
    BY <1>2 DEF calc_global_load
  <2>2. AvgTypes'
    BY <1>0, <2>1, LoadAvgAssumption DEF AvgInv, AvgTypes
  <2> QED BY <1>0, <2>1, <2>2, AvgSteady DEF AvgInv, YoungOnes, Pending, Held
<1> QED BY <1>1, <1>2 DEF calc_global_load

LEMMA NohzInv == ASSUME AvgInv, calc_global_nohz PROVE AvgInv'
<1>1. CASE tk = "nohz"
  <2>1. /\ UNCHANGED <<rq, op, calc_load_tasks, calc_load_idle, calc_load_idx, young>>
        /\ calc_load_update' =
             calc_load_update + LOAD_FREQ * (1 + (-calc_load_update - Window) \div LOAD_FREQ)
    BY <1>1 DEF calc_global_nohz, cpuVars
  <2>2. PICK u, w, f \in Int : u = calc_load_update /\ w = Window /\ f = LOAD_FREQ /\ f > 0
    BY LoadAvgAssumption DEF AvgInv, AvgTypes
  <2>3. PICK d : d = (-u - w) \div f
    OBVIOUS
  <2>4. d \in Int
    BY <2>2, <2>3
  <2>5. calc_load_update' = u + f * (1 + d)
    BY <2>1, <2>2, <2>3
  <2>6. calc_load_update' \in Int
    BY <2>4, <2>5
  <2>7. AvgTypes'
    BY <2>1, <2>6 DEF AvgInv, AvgTypes
  <2> QED BY <2>1, <2>7, AvgSteady DEF AvgInv, YoungOnes, Pending, Held
<1>2. CASE tk = "flip"
  <2>1. /\ UNCHANGED <<rq, calc_load_tasks, calc_load_update, calc_load_idle>>
        /\ calc_load_idx' = 1 - calc_load_idx /\ young' = {}
        /\ op' = [c \in Cpus |-> [op[c] EXCEPT !.young = FALSE]]
    BY <1>2 DEF calc_global_nohz, Flipped
  <2>2. ASSUME NEW c \in Cpus PROVE op'[c] \in Op /\ op'[c].at = op[c].at /\ op'[c].n = op[c].n /\ ~op'[c].young
    <3>1. op[c] \in Op /\ op'[c] = [op[c] EXCEPT !.young = FALSE]
      BY <2>1, AvgCpuTypes DEF AvgInv
    <3> QED BY <3>1 DEF Op
  <2>3. calc_load_idx' \in {0, 1}
    BY <2>1 DEF AvgInv, AvgTypes
  <2>4. AvgTypes'
    BY <2>1, <2>2, <2>3 DEF AvgInv, AvgTypes
  <2>5. YoungOnes'
    BY <2>1, <2>2 DEF YoungOnes
  <2>6. Held' = Held /\ \A x \in Cpus : Pending(x)' = Pending(x)
    BY <2>1, <2>2 DEF Held, Pending
  <2> QED BY <2>1, <2>4, <2>5, <2>6, AvgSteady DEF AvgInv
<1> QED BY <1>1, <1>2 DEF calc_global_nohz

LEMMA AvgInitInv == LoadAvgInit => AvgInv
<1> SUFFICES ASSUME LoadAvgInit PROVE AvgInv
  OBVIOUS
<1>1. AvgTypes
  BY LoadAvgAssumption DEF LoadAvgInit, AvgTypes, AvgRq, Op, NoOp
<1>2. \A c \in Cpus : PendingOn[c] = 0 /\ SampledOn[c] = 0
  BY DEF LoadAvgInit, PendingOn, SampledOn, Pending, NoOp
<1>3. Sum(PendingOn) = 0 /\ Sum(SampledOn) = 0
  BY <1>2, LoadAvgAssumption, SumZero DEF Sum
<1>4. Held = 0
  BY DEF LoadAvgInit, Held
<1>5. AvgBalance
  BY <1>3, <1>4 DEF AvgBalance
<1>6. YoungOnes
  BY DEF LoadAvgInit, YoungOnes, NoOp
<1> QED BY <1>1, <1>5, <1>6 DEF AvgInv

LEMMA AvgNextInv == AvgInv /\ [LoadAvgNext]_loadAvgVars => AvgInv'
<1> SUFFICES ASSUME AvgInv, [LoadAvgNext]_loadAvgVars PROVE AvgInv'
  OBVIOUS
<1>1. ASSUME NEW c \in Cpus, Block(c) PROVE AvgInv'
  <2>1. Change(c, -1, 0) \/ Change(c, -1, 1)
    BY <1>1 DEF Block
  <2>2. -1 \in Int /\ 0 \in Int /\ 1 \in Int
    OBVIOUS
  <2> QED BY <2>1, <2>2, ChangeInv
<1>2. ASSUME NEW c \in Cpus, Wake(c) PROVE AvgInv'
  <2>1. Change(c, 1, 0) \/ Change(c, 1, -1)
    BY <1>2 DEF Wake
  <2>2. -1 \in Int /\ 0 \in Int /\ 1 \in Int
    OBVIOUS
  <2> QED BY <2>1, <2>2, ChangeInv
<1>3. ASSUME NEW c \in Cpus, EnterIdle(c) \/ ExitIdle(c) PROVE AvgInv'
  BY <1>3, EnterIdleInv, ExitIdleInv
<1>4. ASSUME NEW c \in Cpus, CpuStep(c) PROVE AvgInv'
  BY <1>4, AccountActiveInv, ReadTimeInv, AddIdleInv, SyncUpInv DEF CpuStep
<1>5. CASE TimeStep
  BY <1>5, JiffiesInv, SampleInv, NohzInv DEF TimeStep
<1>6. CASE UNCHANGED loadAvgVars
  <2>1. UNCHANGED <<rq, op, calc_load_tasks, calc_load_update, calc_load_idle, calc_load_idx, young>>
    BY <1>6 DEF loadAvgVars, cpuVars, loadVars
  <2>2. AvgTypes' /\ YoungOnes'
    BY <2>1 DEF AvgInv, AvgTypes, YoungOnes
  <2> QED BY <2>1, <2>2, AvgSteady DEF AvgInv, Held, Pending
<1> QED BY <1>1, <1>2, <1>3, <1>4, <1>5, <1>6 DEF LoadAvgNext

\* For any number of CPUs and tasks, any jump of jiffies and any lateness: what the CPUs
\* have sampled is in calc_load_tasks, in one of the two idle counters or on its way to
\* one, once (calc_load_fold_active(), calc_load_enter_idle(), calc_load_fold_idle()),
\* and the counter that is folded was not written in the window that is open.
THEOREM DeltasAreConserved == LoadAvgSpec => []DeltasConserved
<1>1. AvgInv => DeltasConserved
  BY DEF AvgInv, AvgBalance, Held, YoungOnes, PendingOn, DeltasConserved, OldIdleFolded
<1>2. LoadAvgSpec => []AvgInv
  BY AvgInitInv, AvgNextInv, PTL DEF LoadAvgSpec
<1> QED BY <1>1, <1>2, PTL

-----------------------------------------------------------------------------
(* Admission of real-time groups *)

Bandwidth == [period : Nat \ {0}, runtime : Nat]

\* The calls that are under way.
BandwidthCall == [k : {"bandwidth"}, g : Cgroups, b : Bandwidth]
HandlerCall == [k : {"handler"}, old : Bandwidth]
CheckedCall == [k : {"checked"}, old : Bandwidth, ok : BOOLEAN]
PolicyCall == [k : {"policy"}, p : Members, policy : Policies, old : Policies \cup {"given"},
               prio : Int, reset : BOOLEAN, capable : BOOLEAN]
AdmissionCall == {NoCall} \cup BandwidthCall \cup HandlerCall \cup CheckedCall \cup PolicyCall

AdmissionTypes ==
  /\ parent \in [DOMAIN parent -> Existing] /\ DOMAIN parent \subseteq Cgroups
  /\ bw \in [Cgroups -> Bandwidth] /\ sysctl \in Bandwidth /\ def \in Bandwidth
  /\ policy \in [Members -> Policies] /\ reset_on_fork \in [Members -> BOOLEAN]
  /\ call \in [Callers -> AdmissionCall]

WritesSysctl(c) == call[c].k \in {"handler", "checked"}

\* One sysctl is written at a time, and the writer knows what was admitted last.
OneHandler ==
  /\ \A c, d \in Callers : WritesSysctl(c) /\ WritesSysctl(d) => c = d
  /\ \A c \in Callers : WritesSysctl(c) => call[c].old = def
  /\ DefFollowsSysctl

GroupsFit == \A g \in Existing : ChildSum(bw, g) <= Ratio(bw[g])

AdmissionInv == AdmissionTypes /\ OneHandler /\ GroupsFit

LEMMA RatioType == ASSUME NEW b \in Bandwidth PROVE Ratio(b) \in Nat
<1>1. 2^20 \in Nat
  OBVIOUS
<1>2. PICK n \in Nat : n = 2^20
  BY <1>1
<1>3. PICK r \in Nat, p \in Nat \ {0} : r = b.runtime /\ p = b.period
  BY DEF Bandwidth
<1>4. PICK m \in Nat : m = r * n
  BY <1>2, <1>3
<1>5. PICK q : q = m \div p
  OBVIOUS
<1>6. q \in Nat
  BY <1>3, <1>4, <1>5
<1>7. (IF r = NoLimit THEN n ELSE q) \in Nat
  BY <1>2, <1>6
<1> QED BY <1>2, <1>3, <1>4, <1>5, <1>7 DEF Ratio, to_ratio

LEMMA NothingFits == ASSUME NEW b \in Bandwidth, b.runtime = 0 PROVE Ratio(b) = 0
<1>1. 2^20 \in Nat
  OBVIOUS
<1>2. PICK n \in Nat : n = 2^20
  BY <1>1
<1>3. PICK p \in Nat \ {0} : p = b.period
  BY DEF Bandwidth
<1>4. 0 * n = 0 /\ 0 \div p = 0
  BY <1>2, <1>3
<1>5. 0 # NoLimit
  BY AdmissionAssumption
<1> QED BY <1>2, <1>3, <1>4, <1>5 DEF Ratio, to_ratio

\* A step that changes neither the tree nor a group's settings.
LEMMA FitSteady == ASSUME GroupsFit, UNCHANGED groupVars PROVE GroupsFit'
<1>1. UNCHANGED <<parent, bw>>
  BY DEF groupVars
<1>2. Existing' = Existing
  BY <1>1 DEF Existing
<1>3. \A g \in Existing : ChildSum(bw, g)' = ChildSum(bw, g) /\ Ratio(bw[g])' = Ratio(bw[g])
  BY <1>1 DEF ChildSum, Children
<1> QED BY <1>2, <1>3 DEF GroupsFit

\* What a group's children take in all.
LEMMA SharesTypes ==
  ASSUME AdmissionTypes
  PROVE  /\ \A h \in Cgroups : Ratio(bw[h]) \in Nat
         /\ Existing \in SUBSET Cgroups
         /\ \A g : Children(g) \in SUBSET Cgroups /\ IsFiniteSet(Children(g))
<1>1. \A h \in Cgroups : Ratio(bw[h]) \in Nat
  BY RatioType DEF AdmissionTypes
<1>2. Existing \in SUBSET Cgroups /\ \A g : Children(g) \in SUBSET Cgroups
  BY AdmissionAssumption DEF AdmissionTypes, Existing, Children
<1> QED BY <1>1, <1>2, AdmissionAssumption, FS_Subset

LEMMA CreateFits ==
  ASSUME AdmissionTypes, GroupsFit, NEW c, NEW g \in Cgroups, NEW p \in Cgroups, sched_create_group(c, g, p)
  PROVE  GroupsFit'
<1>1. /\ g \notin Existing /\ p \in Existing /\ parent' = [h \in DOMAIN parent \cup {g} |-> IF h = g THEN p ELSE parent[h]]
      /\ bw' = [bw EXCEPT ![g] = [period |-> def.period, runtime |-> 0]]
  BY DEF sched_create_group
<1>2. /\ DOMAIN parent' = DOMAIN parent \cup {g} /\ parent'[g] = p
      /\ \A h \in DOMAIN parent : parent'[h] = parent[h]
  BY <1>1 DEF Existing
<1>3. g \notin DOMAIN parent /\ g # p /\ \A h \in DOMAIN parent : parent[h] # g
  BY <1>1 DEF Existing, AdmissionTypes
<1>4. Existing' = Existing \cup {g}
  BY <1>2 DEF Existing
<1>5. PICK f, f2 : f = [h \in Cgroups |-> Ratio(bw[h])] /\ f2 = [h \in Cgroups |-> Ratio(bw'[h])]
  OBVIOUS
<1>6. bw'[g] \in Bandwidth /\ bw'[g].runtime = 0 /\ \A h \in Cgroups \ {g} : bw'[h] = bw[h]
  BY <1>1 DEF AdmissionTypes, Bandwidth
<1>7. f2[g] = 0 /\ (\A h \in Cgroups \ {g} : f2[h] = f[h]) /\ \A h \in Cgroups : f[h] \in Int
  <2>1. PICK b : b = bw'[g]
    OBVIOUS
  <2>2. b \in Bandwidth /\ b.runtime = 0
    BY <1>6, <2>1
  <2>3. Ratio(b) = 0
    BY <2>2, NothingFits
  <2> QED BY <1>5, <1>6, <2>1, <2>3, SharesTypes
<1>8. ASSUME NEW x \in Existing' PROVE ChildSum(bw, x)' <= Ratio(bw[x])'
  <2>1. ChildSum(bw, x)' = SumFunctionOnSet(f2, Children(x)')
    BY <1>5 DEF ChildSum
  <2>2. PICK k, k2 : k = Children(x) /\ k2 = Children(x)'
    OBVIOUS
  <2>3. k \in SUBSET Cgroups /\ IsFiniteSet(k) /\ g \notin k
    BY <1>3, <2>2, SharesTypes DEF Children
  <2>4. CASE x = g
    <3>1. k2 = {}
      BY <1>2, <1>3, <2>2, <2>4 DEF Children
    <3>2. SumFunctionOnSet(f2, k2) = 0
      BY <3>1, SumEmpty
    <3>3. Ratio(bw[x])' = 0
      BY <1>5, <1>7, <2>4
    <3> QED BY <2>1, <2>2, <3>2, <3>3
  <2>5. CASE x # g
    <3>1. x \in Existing /\ x \in Cgroups
      BY <1>4, <2>5, SharesTypes
    <3>2. SumFunctionOnSet(f2, k) = SumFunctionOnSet(f, k) /\ SumFunctionOnSet(f, k) \in Int
      <4>1. \A h \in k : f[h] \in Int /\ f2[h] = f[h]
        BY <1>7, <2>3
      <4> QED BY <2>3, <4>1, SumSame, SumType
    <3>3. SumFunctionOnSet(f, k) <= f[x]
      BY <1>5, <2>2, <3>1 DEF GroupsFit, ChildSum
    <3>4. Ratio(bw[x])' = f[x]
      BY <1>5, <1>6, <2>5, <3>1
    <3>5. SumFunctionOnSet(f2, k2) = SumFunctionOnSet(f2, k)
      <4>1. CASE x = p
        <5>1. k2 = k \cup {g} /\ g \in k2 /\ k2 \ {g} = k
          BY <1>2, <1>3, <2>2, <2>3, <4>1 DEF Children
        <5>2. IsFiniteSet(k2)
          BY <2>3, <5>1, FS_AddElement
        <5>3. \A h \in k2 : f2[h] \in Int
          BY <1>7, <2>3, <5>1
        <5>4. SumFunctionOnSet(f2, k2) = f2[g] + SumFunctionOnSet(f2, k2 \ {g})
          BY <5>1, <5>2, <5>3, SumSplit
        <5> QED BY <1>7, <3>2, <5>1, <5>4
      <4>2. CASE x # p
        <5>1. k2 = k
          BY <1>2, <2>2, <2>3, <4>2 DEF Children
        <5> QED BY <5>1
      <4> QED BY <4>1, <4>2
    <3> QED BY <2>1, <2>2, <3>2, <3>3, <3>4, <3>5
  <2> QED BY <2>4, <2>5
<1> QED BY <1>8 DEF GroupsFit

LEMMA DestroyFits ==
  ASSUME AdmissionTypes, GroupsFit, NEW c, NEW g \in Cgroups, sched_destroy_group(c, g)
  PROVE  GroupsFit'
<1>1. parent' = [h \in DOMAIN parent \ {g} |-> parent[h]] /\ bw' = bw
  BY DEF sched_destroy_group
<1>2. Existing' \subseteq Existing
  BY <1>1 DEF Existing
<1>3. PICK f : f = [h \in Cgroups |-> Ratio(bw[h])]
  OBVIOUS
<1>4. \A h \in Cgroups : f[h] \in Nat
  BY <1>3, SharesTypes
<1>5. ASSUME NEW x \in Existing' PROVE ChildSum(bw, x)' <= Ratio(bw[x])'
  <2>1. PICK k, k2 : k = Children(x) /\ k2 = Children(x)'
    OBVIOUS
  <2>2. k \in SUBSET Cgroups /\ IsFiniteSet(k) /\ k2 = k \ {g}
    BY <1>1, <2>1, SharesTypes DEF Children
  <2>3. ChildSum(bw, x)' = SumFunctionOnSet(f, k2) /\ ChildSum(bw, x) = SumFunctionOnSet(f, k)
    BY <1>1, <1>3, <2>1 DEF ChildSum
  <2>4. x \in Cgroups /\ Ratio(bw[x])' = f[x] /\ SumFunctionOnSet(f, k) <= f[x]
    <3>1. x \in Existing /\ x \in Cgroups
      BY <1>2, SharesTypes
    <3> QED BY <1>1, <1>3, <2>3, <3>1 DEF GroupsFit
  <2>5. \A h \in k : f[h] \in Int
    BY <1>4, <2>2
  <2>6. SumFunctionOnSet(f, k) \in Int /\ SumFunctionOnSet(f, k2) \in Int
    <3>1. IsFiniteSet(k2) /\ k2 \subseteq k
      BY <2>2, FS_Subset
    <3>2. \A h \in k2 : f[h] \in Int
      BY <2>5, <3>1
    <3> QED BY <2>2, <2>5, <3>1, <3>2, SumType
  <2>7. SumFunctionOnSet(f, k2) <= SumFunctionOnSet(f, k)
    <3>1. CASE g \in k
      <4>1. SumFunctionOnSet(f, k) = f[g] + SumFunctionOnSet(f, k2)
        BY <2>2, <2>5, <3>1, SumSplit
      <4> QED BY <1>4, <2>6, <4>1
    <3>2. CASE g \notin k
      <4>1. k2 = k
        BY <2>2, <3>2
      <4> QED BY <2>6, <4>1
    <3> QED BY <3>1, <3>2
  <2>8. f[x] \in Nat
    BY <1>4, <2>4
  <2> QED BY <2>3, <2>4, <2>6, <2>7, <2>8
<1> QED BY <1>5 DEF GroupsFit

\* tg_set_rt_bandwidth(): what is written has been tested as a whole.
LEMMA BandwidthFits ==
  ASSUME AdmissionTypes, GroupsFit, NEW c \in Callers, tg_set_rt_bandwidth(c)
  PROVE  GroupsFit'
<1>1. PICK b : b = [bw EXCEPT ![call[c].g] = call[c].b]
  OBVIOUS
<1>2. parent' = parent /\ bw' = IF __rt_schedulable(b) THEN b ELSE bw
  BY <1>1 DEF tg_set_rt_bandwidth
<1>3. CASE __rt_schedulable(b)
  <2>1. \A g \in Existing : ChildSum(b, g) <= Ratio(b[g])
    BY <1>3 DEF __rt_schedulable, tg_rt_schedulable
  <2>2. bw' = b /\ Existing' = Existing
    BY <1>2, <1>3 DEF Existing
  <2>3. \A g \in Existing : ChildSum(bw, g)' = ChildSum(b, g) /\ Ratio(bw[g])' = Ratio(b[g])
    BY <1>2, <2>2 DEF ChildSum, Children
  <2> QED BY <2>1, <2>2, <2>3 DEF GroupsFit
<1>4. CASE ~__rt_schedulable(b)
  BY <1>2, <1>4, FitSteady DEF groupVars
<1> QED BY <1>3, <1>4


-----------------------------------------------------------------------------
\* A step that leaves the sysctls and what their writer knows alone.
LEMMA HandlerSteady ==
  ASSUME OneHandler, UNCHANGED sysctlVars,
         \A c \in Callers : call'[c] = call[c] \/ (~WritesSysctl(c) /\ call'[c].k \notin {"handler", "checked"})
  PROVE  OneHandler'
<1>1. sysctl' = sysctl /\ def' = def
  BY DEF sysctlVars
<1>2. \A c \in Callers : (WritesSysctl(c))' = WritesSysctl(c) /\ (WritesSysctl(c) => call'[c] = call[c])
  BY DEF WritesSysctl
<1>3. HandlerFree' = HandlerFree
  BY DEF HandlerFree, WritesSysctl
<1> QED BY <1>1, <1>2, <1>3 DEF OneHandler, DefFollowsSysctl

LEMMA CallKinds ==
  /\ NoCall.k = "none" /\ NoCall \in AdmissionCall
  /\ \A r \in AdmissionCall :
       /\ r.k = "bandwidth" => r \in BandwidthCall
       /\ r.k = "policy" => r \in PolicyCall
       /\ r.k \in {"handler", "checked"} => r.old \in Bandwidth
       /\ r.k = "checked" => r.ok \in BOOLEAN
BY DEF NoCall, AdmissionCall, BandwidthCall, HandlerCall, CheckedCall, PolicyCall

\* The steps of the calls that write a group's settings.
LEMMA BandwidthInv ==
  ASSUME AdmissionInv, NEW c \in Callers, tg_set_rt_bandwidth(c)
  PROVE  AdmissionInv'
<1>1. /\ call[c].k = "bandwidth" /\ call' = [call EXCEPT ![c] = NoCall]
      /\ UNCHANGED <<parent, sysctl, def, policy, reset_on_fork>>
      /\ bw' = bw \/ bw' = [bw EXCEPT ![call[c].g] = call[c].b]
  BY DEF tg_set_rt_bandwidth, sysctlVars, taskVars
<1>2. call[c] \in BandwidthCall
  BY <1>1, CallKinds DEF AdmissionInv, AdmissionTypes
<1>3. call[c].g \in Cgroups /\ call[c].b \in Bandwidth
  BY <1>2 DEF BandwidthCall
<1>4. bw' \in [Cgroups -> Bandwidth]
  BY <1>1, <1>3 DEF AdmissionInv, AdmissionTypes
<1>5. call' \in [Callers -> AdmissionCall]
  BY <1>1, CallKinds DEF AdmissionInv, AdmissionTypes
<1>6. AdmissionTypes'
  BY <1>1, <1>4, <1>5 DEF AdmissionInv, AdmissionTypes, Existing
<1>7. OneHandler'
  <2>1. \A x \in Callers : call'[x] = call[x] \/ (~WritesSysctl(x) /\ call'[x].k \notin {"handler", "checked"})
    <3>1. call'[c] = NoCall /\ \A x \in Callers \ {c} : call'[x] = call[x]
      BY <1>1 DEF AdmissionInv, AdmissionTypes
    <3>2. ~WritesSysctl(c) /\ call'[c].k \notin {"handler", "checked"}
      BY <1>1, <3>1, CallKinds DEF WritesSysctl
    <3> QED BY <3>1, <3>2
  <2> QED BY <1>1, <2>1, HandlerSteady DEF AdmissionInv, sysctlVars
<1> QED BY <1>6, <1>7, BandwidthFits DEF AdmissionInv

\* A step that changes only the policies and puts a record that writes no sysctl in
\* the place of a record that writes none.
LEMMA CallInv ==
  ASSUME AdmissionInv, UNCHANGED <<groupVars, sysctlVars>>,
         policy' \in [Members -> Policies], reset_on_fork' \in [Members -> BOOLEAN],
         NEW c \in Callers, NEW r \in AdmissionCall, ~WritesSysctl(c), r.k \notin {"handler", "checked"},
         call' = [call EXCEPT ![c] = r]
  PROVE  AdmissionInv'
<1>1. UNCHANGED <<parent, bw, sysctl, def>>
  BY DEF groupVars, sysctlVars
<1>2. AdmissionTypes'
  BY <1>1 DEF AdmissionInv, AdmissionTypes, Existing
<1>3. \A x \in Callers : call'[x] = call[x] \/ (~WritesSysctl(x) /\ call'[x].k \notin {"handler", "checked"})
  <2>1. call'[c] = r /\ \A x \in Callers \ {c} : call'[x] = call[x]
    BY DEF AdmissionInv, AdmissionTypes
  <2> QED BY <2>1
<1> QED BY <1>2, <1>3, HandlerSteady, FitSteady DEF AdmissionInv

\* A step of no call.
LEMMA QuietInv ==
  ASSUME AdmissionInv, UNCHANGED <<groupVars, sysctlVars, taskVars, call>>
  PROVE  AdmissionInv'
<1>1. UNCHANGED <<parent, bw, sysctl, def, policy, reset_on_fork, call>>
  BY DEF groupVars, sysctlVars, taskVars
<1>2. AdmissionTypes'
  BY <1>1 DEF AdmissionInv, AdmissionTypes, Existing
<1>3. OneHandler'
  <2>1. \A c \in Callers : call'[c] = call[c]
    BY <1>1
  <2>2. UNCHANGED sysctlVars
    OBVIOUS
  <2> QED BY <2>1, <2>2, HandlerSteady DEF AdmissionInv
<1> QED BY <1>2, <1>3, FitSteady DEF AdmissionInv

LEMMA SetLimitInv ==
  ASSUME AdmissionInv, NEW c \in Callers, NEW g \in Cgroups,
         \/ \E t \in RuntimesWritten : sched_group_set_rt_runtime(c, g, t)
         \/ \E t \in Periods : sched_group_set_rt_period(c, g, t)
  PROVE  AdmissionInv'
<1>1. PICK b : /\ b \in Bandwidth
               /\ Begin(c, [k |-> "bandwidth", g |-> g, b |-> b])
               /\ UNCHANGED <<groupVars, sysctlVars, taskVars>>
  <2>0. bw[g] \in Bandwidth /\ bw[g].period \in Nat \ {0} /\ bw[g].runtime \in Nat
    BY DEF AdmissionInv, AdmissionTypes, Bandwidth
  <2>1. CASE \E t \in RuntimesWritten : sched_group_set_rt_runtime(c, g, t)
    <3>1. PICK t \in RuntimesWritten : sched_group_set_rt_runtime(c, g, t)
      BY <2>1
    <3>2. [period |-> bw[g].period, runtime |-> t] \in Bandwidth
      BY <2>0, AdmissionAssumption DEF Bandwidth
    <3> QED BY <3>1, <3>2 DEF sched_group_set_rt_runtime
  <2>2. CASE \E t \in Periods : sched_group_set_rt_period(c, g, t)
    <3>1. PICK t \in Periods : sched_group_set_rt_period(c, g, t)
      BY <2>2
    <3>2. [period |-> t, runtime |-> bw[g].runtime] \in Bandwidth
      BY <2>0, AdmissionAssumption DEF Bandwidth
    <3> QED BY <3>1, <3>2 DEF sched_group_set_rt_period
  <2> QED BY <2>1, <2>2
<1>2. PICK r : r = [k |-> "bandwidth", g |-> g, b |-> b]
  OBVIOUS
<1>3. r \in AdmissionCall /\ r.k = "bandwidth"
  BY <1>1, <1>2 DEF AdmissionCall, BandwidthCall
<1>4. ~WritesSysctl(c) /\ call' = [call EXCEPT ![c] = r]
  BY <1>1, <1>2, CallKinds DEF Begin, WritesSysctl
<1>5. UNCHANGED <<groupVars, sysctlVars>> /\ UNCHANGED <<policy, reset_on_fork>>
  BY <1>1 DEF taskVars
<1>6. policy' \in [Members -> Policies] /\ reset_on_fork' \in [Members -> BOOLEAN]
  BY <1>5 DEF AdmissionInv, AdmissionTypes
<1> QED BY <1>3, <1>4, <1>5, <1>6, CallInv

LEMMA HandlerInv ==
  ASSUME AdmissionInv, NEW c \in Callers, NEW new \in Bandwidth, sched_rt_handler(c, new)
  PROVE  AdmissionInv'
<1>1. /\ HandlerFree /\ call[c] = NoCall /\ call' = [call EXCEPT ![c] = [k |-> "handler", old |-> sysctl]]
      /\ sysctl' = new /\ UNCHANGED <<parent, bw, def, policy, reset_on_fork>>
  BY DEF sched_rt_handler, Begin, groupVars, taskVars
<1>2. PICK r : r = [k |-> "handler", old |-> sysctl]
  OBVIOUS
<1>3. r \in AdmissionCall /\ r.k = "handler" /\ r.old = sysctl
  BY <1>2 DEF AdmissionInv, AdmissionTypes, AdmissionCall, HandlerCall
<1>4. call' = [call EXCEPT ![c] = r]
  BY <1>1, <1>2
<1>5. AdmissionTypes'
  BY <1>1, <1>3, <1>4 DEF AdmissionInv, AdmissionTypes, Existing
<1>6. call'[c] = r /\ \A x \in Callers \ {c} : call'[x] = call[x] /\ ~WritesSysctl(x)
  BY <1>1, <1>4 DEF AdmissionInv, AdmissionTypes, HandlerFree, WritesSysctl
<1>7. def = sysctl
  BY <1>1 DEF AdmissionInv, OneHandler, DefFollowsSysctl
<1>8. OneHandler'
  <2>1. (WritesSysctl(c))' /\ \A x \in Callers \ {c} : ~(WritesSysctl(x))'
    BY <1>3, <1>6 DEF WritesSysctl
  <2>2. call'[c].old = def'
    BY <1>1, <1>3, <1>6, <1>7
  <2>3. ~HandlerFree'
    BY <2>1 DEF HandlerFree, WritesSysctl
  <2> QED BY <2>1, <2>2, <2>3 DEF OneHandler, DefFollowsSysctl
<1>9. GroupsFit'
  BY <1>1, FitSteady DEF AdmissionInv, groupVars
<1> QED BY <1>5, <1>8, <1>9 DEF AdmissionInv

LEMMA ConstraintsInv ==
  ASSUME AdmissionInv, NEW c \in Callers, sched_rt_global_constraints(c)
  PROVE  AdmissionInv'
<1>1. PICK y \in BOOLEAN : y = (sysctl.runtime \in (0 .. sysctl.period) \cup {NoLimit} /\ __rt_schedulable(bw))
  OBVIOUS
<1>2. PICK r : r = [k |-> "checked", old |-> call[c].old, ok |-> y]
  OBVIOUS
<1>3. /\ call[c].k = "handler" /\ call' = [call EXCEPT ![c] = r]
      /\ UNCHANGED <<parent, bw, sysctl, def, policy, reset_on_fork>>
  BY <1>1, <1>2 DEF sched_rt_global_constraints, groupVars, sysctlVars, taskVars
<1>4. call[c].old \in Bandwidth
  BY <1>3, CallKinds DEF AdmissionInv, AdmissionTypes
<1>5. r \in AdmissionCall /\ r.k = "checked" /\ r.old = call[c].old
  BY <1>2, <1>4 DEF AdmissionCall, CheckedCall
<1>6. AdmissionTypes'
  BY <1>3, <1>5 DEF AdmissionInv, AdmissionTypes, Existing
<1>7. call'[c] = r /\ \A x \in Callers \ {c} : call'[x] = call[x]
  BY <1>3 DEF AdmissionInv, AdmissionTypes
<1>8. WritesSysctl(c) /\ (\A x \in Callers : (WritesSysctl(x))' = WritesSysctl(x)) /\ \A x \in Callers : call'[x].old = call[x].old
  BY <1>3, <1>5, <1>7 DEF WritesSysctl
<1>9. ~HandlerFree'
  BY <1>8 DEF HandlerFree, WritesSysctl
<1>10. OneHandler'
  BY <1>3, <1>8, <1>9 DEF AdmissionInv, OneHandler, DefFollowsSysctl
<1>11. GroupsFit'
  BY <1>3, FitSteady DEF AdmissionInv, groupVars
<1> QED BY <1>6, <1>10, <1>11 DEF AdmissionInv

LEMMA HandlerEndsInv ==
  ASSUME AdmissionInv, NEW c \in Callers, HandlerEnds(c)
  PROVE  AdmissionInv'
<1>1. /\ call[c].k = "checked" /\ call' = [call EXCEPT ![c] = NoCall]
      /\ UNCHANGED <<parent, bw, policy, reset_on_fork>>
      /\ \/ def' = sysctl /\ sysctl' = sysctl
         \/ sysctl' = call[c].old /\ def' = def
  BY DEF HandlerEnds, groupVars, taskVars
<1>2. call[c].old = def /\ WritesSysctl(c)
  BY <1>1 DEF AdmissionInv, OneHandler, WritesSysctl
<1>3. def' = sysctl' /\ sysctl' \in Bandwidth
  BY <1>1, <1>2 DEF AdmissionInv, AdmissionTypes
<1>4. AdmissionTypes'
  BY <1>1, <1>3, CallKinds DEF AdmissionInv, AdmissionTypes, Existing
<1>5. call'[c] = NoCall /\ \A x \in Callers \ {c} : call'[x] = call[x] /\ ~WritesSysctl(x)
  BY <1>1, <1>2 DEF AdmissionInv, AdmissionTypes, OneHandler
<1>6. \A x \in Callers : ~(WritesSysctl(x))'
  BY <1>5, CallKinds DEF WritesSysctl
<1>7. OneHandler'
  BY <1>3, <1>6 DEF OneHandler, DefFollowsSysctl
<1>8. GroupsFit'
  BY <1>1, FitSteady DEF AdmissionInv, groupVars
<1> QED BY <1>4, <1>7, <1>8 DEF AdmissionInv


\* __sched_setscheduler(): a request keeps its type when its policy is read again.
LEMMA RequestTypes ==
  ASSUME AdmissionInv, NEW r \in PolicyCall
  PROVE  AsItIs(r) \in PolicyCall
<1>1. r.p \in Members
  BY DEF PolicyCall
<1>2. PICK w \in Policies, y \in BOOLEAN : w = policy[r.p] /\ y = reset_on_fork[r.p]
  BY <1>1 DEF AdmissionInv, AdmissionTypes
<1>3. PICK r1 : r1 = [r EXCEPT !.policy = w]
  OBVIOUS
<1>4. PICK r2 : r2 = [r1 EXCEPT !.old = w]
  OBVIOUS
<1>5. r1 \in PolicyCall
  BY <1>2, <1>3 DEF PolicyCall
<1>6. r2 \in PolicyCall
  BY <1>2, <1>4, <1>5 DEF PolicyCall
<1>7. [r2 EXCEPT !.reset = y] \in PolicyCall
  BY <1>2, <1>6 DEF PolicyCall
<1>8. AsItIs(r) = [r2 EXCEPT !.reset = y]
  BY <1>2, <1>3, <1>4 DEF AsItIs
<1> QED BY <1>7, <1>8

LEMMA RequestInv ==
  ASSUME AdmissionInv, NEW c \in Callers, NEW p \in Members, NEW prio \in 0 .. MaxPrio, NEW capable \in BOOLEAN,
         \/ sched_setparam(c, p, prio, capable)
         \/ \E pol \in Policies, reset \in BOOLEAN : sched_setscheduler(c, p, pol, prio, reset, capable)
  PROVE  AdmissionInv'
<1>0. prio \in Int
  BY AdmissionAssumption
<1>1. PICK r \in PolicyCall : Begin(c, r) /\ UNCHANGED <<groupVars, sysctlVars, taskVars>>
  <2>1. CASE sched_setparam(c, p, prio, capable)
    <3>1. PICK q : q = [k |-> "policy", p |-> p, policy |-> "normal", old |-> "given", prio |-> prio,
                        reset |-> FALSE, capable |-> capable]
      OBVIOUS
    <3>2. q \in PolicyCall
      BY <1>0, <3>1 DEF PolicyCall, Policies
    <3>3. Begin(c, AsItIs(q)) /\ UNCHANGED <<groupVars, sysctlVars, taskVars>>
      BY <2>1, <3>1 DEF sched_setparam
    <3> QED BY <3>2, <3>3, RequestTypes
  <2>2. ASSUME NEW pol \in Policies, NEW reset \in BOOLEAN, sched_setscheduler(c, p, pol, prio, reset, capable)
        PROVE  \E q \in PolicyCall : Begin(c, q) /\ UNCHANGED <<groupVars, sysctlVars, taskVars>>
    <3>1. PICK q : q = [k |-> "policy", p |-> p, policy |-> pol, old |-> "given", prio |-> prio,
                        reset |-> reset, capable |-> capable]
      OBVIOUS
    <3>2. q \in PolicyCall
      BY <1>0, <3>1 DEF PolicyCall
    <3>3. Begin(c, q) /\ UNCHANGED <<groupVars, sysctlVars, taskVars>>
      BY <2>2, <3>1 DEF sched_setscheduler
    <3> QED BY <3>2, <3>3
  <2> QED BY <2>1, <2>2
<1>2. r \in AdmissionCall /\ r.k = "policy"
  BY DEF AdmissionCall, PolicyCall
<1>3. ~WritesSysctl(c) /\ call' = [call EXCEPT ![c] = r]
  BY <1>1, CallKinds DEF Begin, WritesSysctl
<1>4. UNCHANGED <<groupVars, sysctlVars>> /\ policy' = policy /\ reset_on_fork' = reset_on_fork
  BY <1>1 DEF taskVars
<1>5. policy' \in [Members -> Policies] /\ reset_on_fork' \in [Members -> BOOLEAN]
  BY <1>4 DEF AdmissionInv, AdmissionTypes
<1> QED BY <1>2, <1>3, <1>4, <1>5, CallInv

LEMMA PolicyInv ==
  ASSUME AdmissionInv, NEW c \in Callers, __sched_setscheduler(c)
  PROVE  AdmissionInv'
<1>1. PICK r : r = call[c]
  OBVIOUS
<1>2. r \in PolicyCall /\ ~WritesSysctl(c) /\ r.k = "policy"
  <2>1. r.k = "policy" /\ r \in AdmissionCall
    BY <1>1 DEF __sched_setscheduler, AdmissionInv, AdmissionTypes
  <2> QED BY <1>1, <2>1, CallKinds DEF WritesSysctl
<1>3. r.p \in Members /\ r.policy \in Policies /\ r.reset \in BOOLEAN
  BY <1>2 DEF PolicyCall
<1>4. UNCHANGED <<groupVars, sysctlVars>>
  BY DEF __sched_setscheduler
<1>5. PICK n : call' = [call EXCEPT ![c] = n] /\ (n = NoCall \/ n = AsItIs(r))
  BY <1>1 DEF __sched_setscheduler
<1>6. n \in AdmissionCall /\ n.k \notin {"handler", "checked"}
  <2>1. AsItIs(r) \in PolicyCall
    BY <1>2, RequestTypes
  <2>2. \A q \in PolicyCall : q \in AdmissionCall /\ q.k = "policy"
    BY DEF AdmissionCall, PolicyCall
  <2> QED BY <1>5, <2>1, <2>2, CallKinds
<1>7. \/ policy' = policy /\ reset_on_fork' = reset_on_fork
      \/ policy' = [policy EXCEPT ![r.p] = r.policy] /\ reset_on_fork' = [reset_on_fork EXCEPT ![r.p] = r.reset]
  BY <1>1 DEF __sched_setscheduler, taskVars
<1>8. policy' \in [Members -> Policies] /\ reset_on_fork' \in [Members -> BOOLEAN]
  BY <1>3, <1>7 DEF AdmissionInv, AdmissionTypes
<1> QED BY <1>2, <1>4, <1>5, <1>6, <1>8, CallInv

LEMMA CreateInv ==
  ASSUME AdmissionInv, NEW c \in Callers, NEW g \in Cgroups, NEW p \in Cgroups, sched_create_group(c, g, p)
  PROVE  AdmissionInv'
<1>1. /\ p \in Existing /\ parent' = [h \in DOMAIN parent \cup {g} |-> IF h = g THEN p ELSE parent[h]]
      /\ bw' = [bw EXCEPT ![g] = [period |-> def.period, runtime |-> 0]]
      /\ UNCHANGED <<sysctl, def, policy, reset_on_fork, call>>
  BY DEF sched_create_group, sysctlVars, taskVars
<1>2. bw' \in [Cgroups -> Bandwidth]
  BY <1>1 DEF AdmissionInv, AdmissionTypes, Bandwidth
<1>3. Existing' = Existing \cup {g} /\ DOMAIN parent' \subseteq Cgroups
  BY <1>1 DEF Existing, AdmissionInv, AdmissionTypes
<1>4. parent' \in [DOMAIN parent' -> Existing']
  BY <1>1, <1>3 DEF AdmissionInv, AdmissionTypes
<1>5. AdmissionTypes'
  BY <1>1, <1>2, <1>3, <1>4 DEF AdmissionInv, AdmissionTypes
<1>6. OneHandler'
  <2>1. \A x \in Callers : call'[x] = call[x]
    BY <1>1
  <2>2. UNCHANGED sysctlVars
    BY <1>1 DEF sysctlVars
  <2> QED BY <2>1, <2>2, HandlerSteady DEF AdmissionInv
<1> QED BY <1>5, <1>6, CreateFits DEF AdmissionInv

LEMMA DestroyInv ==
  ASSUME AdmissionInv, NEW c \in Callers, NEW g \in Cgroups, sched_destroy_group(c, g)
  PROVE  AdmissionInv'
<1>1. /\ Children(g) = {} /\ parent' = [h \in DOMAIN parent \ {g} |-> parent[h]]
      /\ UNCHANGED <<bw, sysctl, def, policy, reset_on_fork, call>>
  BY DEF sched_destroy_group, sysctlVars, taskVars
<1>2. DOMAIN parent' \subseteq Cgroups
  BY <1>1 DEF AdmissionInv, AdmissionTypes
<1>3. \A h \in DOMAIN parent : parent[h] \in Existing /\ parent[h] # g
  BY <1>1 DEF AdmissionInv, AdmissionTypes, Children
<1>4. parent' \in [DOMAIN parent' -> Existing']
  BY <1>1, <1>3 DEF Existing
<1>5. AdmissionTypes'
  BY <1>1, <1>2, <1>4 DEF AdmissionInv, AdmissionTypes
<1>6. OneHandler'
  <2>1. \A x \in Callers : call'[x] = call[x]
    BY <1>1
  <2>2. UNCHANGED sysctlVars
    BY <1>1 DEF sysctlVars
  <2> QED BY <2>1, <2>2, HandlerSteady DEF AdmissionInv
<1> QED BY <1>5, <1>6, DestroyFits DEF AdmissionInv

LEMMA AdmissionInitInv == AdmissionInit => AdmissionInv
<1> SUFFICES ASSUME AdmissionInit PROVE AdmissionInv
  OBVIOUS
<1>1. DOMAIN parent = {} /\ parent \in [{} -> {RootGroup}]
  BY DEF AdmissionInit
<1>2. Existing = {RootGroup} /\ \A g : Children(g) = {}
  BY <1>1 DEF Existing, Children
<1>3. sysctl \in Bandwidth /\ def = sysctl /\ bw \in [Cgroups -> Bandwidth]
  BY DEF AdmissionInit, Bandwidth
<1>4. AdmissionTypes
  BY <1>1, <1>2, <1>3, AdmissionAssumption, CallKinds DEF AdmissionInit, AdmissionTypes, Policies
<1>5. OneHandler
  BY <1>3, CallKinds DEF AdmissionInit, OneHandler, DefFollowsSysctl, WritesSysctl
<1>6. GroupsFit
  <2>1. \A g \in Existing : Ratio(bw[g]) \in Nat
    BY <1>4, SharesTypes
  <2>2. \A g \in Existing : ChildSum(bw, g) = 0
    BY <1>2, SumEmpty DEF ChildSum
  <2> QED BY <2>1, <2>2 DEF GroupsFit
<1> QED BY <1>4, <1>5, <1>6 DEF AdmissionInv

LEMMA AdmissionNextInv == AdmissionInv /\ [AdmissionNext]_admissionVars => AdmissionInv'
<1> SUFFICES ASSUME AdmissionInv, [AdmissionNext]_admissionVars PROVE AdmissionInv'
  OBVIOUS
<1>1. CASE cpu_cgroup_attach
  BY <1>1, QuietInv DEF cpu_cgroup_attach
<1>2. ASSUME NEW c \in Callers, Steps(c) PROVE AdmissionInv'
  BY <1>2, BandwidthInv, ConstraintsInv, HandlerEndsInv, PolicyInv DEF Steps
<1>3. ASSUME NEW c \in Callers, Calls(c) PROVE AdmissionInv'
  <2>1. ASSUME NEW g \in Cgroups, \/ \E t \in RuntimesWritten : sched_group_set_rt_runtime(c, g, t)
                                  \/ \E t \in Periods : sched_group_set_rt_period(c, g, t)
        PROVE AdmissionInv'
    BY <2>1, SetLimitInv
  <2>2. ASSUME NEW t \in RuntimesWritten, sched_rt_handler(c, [sysctl EXCEPT !.runtime = t]) PROVE AdmissionInv'
    <3>1. [sysctl EXCEPT !.runtime = t] \in Bandwidth
      BY AdmissionAssumption DEF AdmissionInv, AdmissionTypes, Bandwidth
    <3> QED BY <2>2, <3>1, HandlerInv
  <2>3. ASSUME NEW t \in Periods, sched_rt_handler(c, [sysctl EXCEPT !.period = t]) PROVE AdmissionInv'
    <3>1. [sysctl EXCEPT !.period = t] \in Bandwidth
      BY AdmissionAssumption DEF AdmissionInv, AdmissionTypes, Bandwidth
    <3> QED BY <2>3, <3>1, HandlerInv
  <2>4. ASSUME NEW g \in Cgroups, NEW h \in Cgroups, sched_create_group(c, g, h) PROVE AdmissionInv'
    BY <2>4, CreateInv
  <2>5. ASSUME NEW g \in Cgroups, sched_destroy_group(c, g) PROVE AdmissionInv'
    BY <2>5, DestroyInv
  <2>6. ASSUME NEW g \in Cgroups, NEW p \in Members, cpu_cgroup_can_attach(c, g, p) PROVE AdmissionInv'
    BY <2>6, QuietInv DEF cpu_cgroup_can_attach
  <2>7. ASSUME NEW p \in Members, NEW prio \in 0 .. MaxPrio, NEW capable \in BOOLEAN,
               \/ sched_setparam(c, p, prio, capable)
               \/ \E pol \in Policies, reset \in BOOLEAN : sched_setscheduler(c, p, pol, prio, reset, capable)
        PROVE AdmissionInv'
    BY <2>7, RequestInv
  <2> QED BY <1>3, <2>1, <2>2, <2>3, <2>4, <2>5, <2>6, <2>7 DEF Calls
<1>4. CASE UNCHANGED admissionVars
  <2>1. UNCHANGED <<groupVars, sysctlVars, taskVars, call>>
    BY <1>4 DEF admissionVars, groupVars, sysctlVars, taskVars
  <2> QED BY <2>1, QuietInv
<1> QED BY <1>1, <1>2, <1>3, <1>4 DEF AdmissionNext

\* For any tree of groups, any number of callers and any limits written: the children of
\* a group never take more than the group has, through creation, removal and stale writes
\* (tg_set_rt_bandwidth(), alloc_rt_sched_group()), and def_rt_bandwidth is what the sysctls
\* say whenever none is being written (sched_rt_handler()).
THEOREM ChildrenAlwaysFit == AdmissionSpec => []ChildrenFit
<1>1. AdmissionInv => ChildrenFit
  BY DEF AdmissionInv, OneHandler, GroupsFit, ChildrenFit
<1>2. AdmissionSpec => []AdmissionInv
  BY AdmissionInitInv, AdmissionNextInv, PTL DEF AdmissionSpec
<1> QED BY <1>1, <1>2, PTL

=============================================================================
