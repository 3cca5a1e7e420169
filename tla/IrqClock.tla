------------------------------ MODULE IrqClock ------------------------------
(***************************************************************************)
(* A CPU's clocks in the tegra kernel with CONFIG_IRQ_TIME_ACCOUNTING      *)
(* (kernel/sched.c): interrupt time is measured on the way into and out of *)
(* every interrupt, taken out of rq->clock_task, and charged by the tick.  *)
(* rq->clock is updated by the CPU itself and, under the run queue's lock, *)
(* by another one, which reads the two 64-bit times as words of 32 bits.   *)
(*                                                                         *)
(* `real' is the truth the accounting is compared with.                    *)
(***************************************************************************)
EXTENDS Integers, Sequences, SequencesExt

CONSTANTS
  TICK,          \* sched_clock() units between ticks
  Word,          \* what the low word of a 64-bit time holds, 2^32 in the code
  Running,       \* what runs: "idle", "ksoftirqd", or any other name for a task
  MaxClock, MaxIrqEvents \* bounds: an update counts as two interrupts

ASSUME ClockAssumption == TICK \in Nat \ {0} /\ Word \in Nat \ {0}

VARIABLES
  now,           \* sched_clock()
  cpu,           \* curr, context, a tick to handle, and what account_system_vtime() has still to write
  irqTime,       \* start, the words of cpu_hardirq_time and cpu_softirq_time, seq
  rqClock,       \* clock, clock_task, prev_irq_time
  exec,          \* exec_start, sum_exec_runtime, and what was last reported of curr
  updater,       \* the other CPU in update_rq_clock()
  ticksCharged,        \* cpustat, and the ticks charged to tasks
  real,          \* time in interrupts, and what of it is measured
  spent          \* interrupts and updates so far

irqClockVars == <<now, cpu, irqTime, rqClock, exec, updater, ticksCharged, real, spent>>

IrqKinds == {"hard", "soft"}
Words(t) == [lo |-> t % Word, hi |-> t \div Word]
Value(words) == words.lo + Word * words.hi
Measured == Value(irqTime.hard) + Value(irqTime.soft)

NothingRead == [at |-> "none", delta |-> 0, seq |-> 0, got |-> <<>>]
NoWrite == [field |-> "none", left |-> {}, value |-> [lo |-> 0, hi |-> 0]]

ClockInit ==
  /\ now = 0
  /\ \E t \in Running : cpu = [curr |-> t, context |-> <<>>, tick |-> FALSE, write |-> NoWrite]
  /\ irqTime = [start |-> 0, hard |-> Words(0), soft |-> Words(0), seq |-> 0]
  /\ rqClock = [clock |-> 0, clock_task |-> 0, prev_irq_time |-> 0]
  /\ exec = [start |-> 0, sum |-> 0, reported |-> 0]
  /\ updater = NothingRead
  /\ ticksCharged = [irq |-> 0, softirq |-> 0, idle |-> 0, ksoftirqd |-> 0, tasks |-> 0]
  /\ real = [irq |-> 0] /\ spent = 0

-----------------------------------------------------------------------------
(* Interrupts *)

In(context, kind) == \E i \in DOMAIN context : context[i] = kind

\* hardirq_count(), in_serving_softirq() outside ksoftirqd, or neither
FieldOf(context) ==
  IF In(context, "hard") THEN "hard"
  ELSE IF In(context, "soft") /\ cpu.curr # "ksoftirqd" THEN "soft" ELSE "none"

Ticks == ticksCharged.irq + ticksCharged.softirq + ticksCharged.idle + ticksCharged.ksoftirqd + ticksCharged.tasks
TickDue == now \div TICK > Ticks

\* Time goes on; a tick is late by less than a tick
Elapse ==
  /\ now < MaxClock
  /\ now + 1 < TICK * (Ticks + 2)
  /\ now' = now + 1
  /\ real' = [real EXCEPT !.irq = @ + IF FieldOf(cpu.context) # "none" THEN 1 ELSE 0]
  /\ UNCHANGED <<cpu, irqTime, rqClock, exec, updater, ticksCharged, spent>>

\* account_system_vtime() up to irq_time_write_begin(), on the way to another context
account_system_vtime(context, tick) ==
  LET field == FieldOf(cpu.context)
      delta == now - irqTime.start
  IN  /\ cpu.write = NoWrite
      /\ IF field = "none"
         THEN /\ irqTime' = [irqTime EXCEPT !.start = now]
              /\ cpu' = [cpu EXCEPT !.context = context, !.tick = tick]
         ELSE /\ irqTime' = [irqTime EXCEPT !.start = now, !.seq = @ + 1]
              /\ cpu' = [cpu EXCEPT !.context = context, !.tick = tick,
                           !.write = [field |-> field, left |-> {"lo", "hi"},
                                      value |-> Words(Value(irqTime[field]) + delta)]]
      /\ UNCHANGED <<now, rqClock, exec, updater, ticksCharged, real>>

irq_enter(kind) ==
  /\ spent < MaxIrqEvents /\ spent' = spent + 1
  /\ ~In(cpu.context, "hard") /\ ~In(cpu.context, kind)
  /\ \E tick \in BOOLEAN :
       /\ tick => kind = "hard" /\ TickDue
       /\ account_system_vtime(Append(cpu.context, kind), tick)

irq_exit ==
  /\ cpu.context # <<>> /\ ~cpu.tick
  /\ account_system_vtime(Front(cpu.context), FALSE) /\ UNCHANGED spent

\* One word of the 64-bit sum, in either order; after the last irq_time_write_end()
WriteWord(w) ==
  LET left == cpu.write.left \ {w}
  IN  /\ w \in cpu.write.left
      /\ irqTime' = [irqTime EXCEPT ![cpu.write.field][w] = cpu.write.value[w],
                                    !.seq = IF left = {} THEN @ + 1 ELSE @]
      /\ cpu' = [cpu EXCEPT !.write = IF left = {} THEN NoWrite ELSE [@ EXCEPT !.left = left]]
      /\ UNCHANGED <<now, rqClock, exec, updater, ticksCharged, real, spent>>

-----------------------------------------------------------------------------
(* Clocks *)

\* Mutant: more than what has elapsed is taken out.
Unlimited(irq_delta, delta) == irq_delta

\* what of the interrupt time fits into the time that has elapsed
Fitting(irq_delta, delta) == IF irq_delta > delta THEN delta ELSE irq_delta

update_rq_clock_task(delta, irq_time) ==
  LET irq_delta == Fitting(irq_time - rqClock.prev_irq_time, delta)
  IN  [clock |-> rqClock.clock + delta,
       clock_task |-> rqClock.clock_task + delta - irq_delta,
       prev_irq_time |-> rqClock.prev_irq_time + irq_delta]

Update == spent + 1 < MaxIrqEvents /\ spent' = spent + 2

\* The CPU itself, interrupts off: in schedule(), a wake-up or scheduler_tick(),
\* and update_curr() charges the task that runs
UpdateOwn ==
  /\ cpu.write = NoWrite /\ updater = NothingRead /\ Update
  /\ rqClock' = update_rq_clock_task(now - rqClock.clock, Measured)
  /\ exec' = [exec EXCEPT !.start = rqClock'.clock_task,
                          !.sum = @ + rqClock'.clock_task - exec.start]
  /\ UNCHANGED <<now, cpu, irqTime, updater, ticksCharged, real>>

\* Another CPU in task_sched_runtime(): sched_clock_cpu(), then irq_time_read()
UpdateOther ==
  /\ updater = NothingRead /\ Update
  /\ updater' = [NothingRead EXCEPT !.at = "begin", !.delta = now - rqClock.clock]
  /\ UNCHANGED <<now, cpu, irqTime, rqClock, exec, ticksCharged, real>>

ReadOrder == << <<"soft", "lo">>, <<"soft", "hi">>, <<"hard", "lo">>, <<"hard", "hi">> >>

\* read_seqcount_begin(), which waits for a writer
ReadBegin ==
  /\ updater.at = "begin" /\ irqTime.seq % 2 = 0
  /\ updater' = [updater EXCEPT !.at = "words", !.seq = irqTime.seq, !.got = <<>>]

ReadWord ==
  /\ updater.at = "words" /\ Len(updater.got) < Len(ReadOrder)
  /\ LET next == ReadOrder[Len(updater.got) + 1]
     IN  updater' = [updater EXCEPT !.got = Append(@, irqTime[next[1]][next[2]])]

ReadTotal(got) == (got[1] + got[3]) + Word * (got[2] + got[4])

read_seqcount_retry(seq) == irqTime.seq # seq

irq_time_read ==
  /\ \/ ReadBegin \/ ReadWord
     \/ /\ Len(updater.got) = Len(ReadOrder) /\ read_seqcount_retry(updater.seq)
        /\ updater' = [updater EXCEPT !.at = "begin", !.got = <<>>]
  /\ UNCHANGED <<now, cpu, irqTime, rqClock, exec, ticksCharged, real, spent>>

\* do_task_delta_exec()
Unaccounted(clocks) == IF clocks.clock_task < exec.start THEN 0 ELSE clocks.clock_task - exec.start

task_sched_runtime ==
  /\ Len(updater.got) = Len(ReadOrder) /\ ~read_seqcount_retry(updater.seq)
  /\ rqClock' = update_rq_clock_task(updater.delta, ReadTotal(updater.got))
  /\ exec' = [exec EXCEPT !.reported = exec.sum + Unaccounted(rqClock')]
  /\ updater' = NothingRead
  /\ UNCHANGED <<now, cpu, irqTime, ticksCharged, real, spent>>

-----------------------------------------------------------------------------
(* The tick *)

\* Where a tick goes
Demultiplexed(hi, si) == IF hi THEN "irq" ELSE IF si THEN "softirq" ELSE "current"

\* account_user_time(), __account_system_time() and account_guest_time()
TaskField == IF cpu.curr = "ksoftirqd" THEN "ksoftirqd" ELSE "tasks"
CurrentField == IF cpu.curr = "idle" THEN "idle" ELSE TaskField

irqtime_account_hi_update == Value(irqTime.hard) \div TICK > ticksCharged.irq
\* cpustat->softirq also has the ticks of ksoftirqd
irqtime_account_si_update == Value(irqTime.soft) \div TICK > ticksCharged.softirq + ticksCharged.ksoftirqd

irqtime_account_process_tick ==
  LET to == Demultiplexed(irqtime_account_hi_update, irqtime_account_si_update)
  IN  /\ cpu.tick /\ cpu.write = NoWrite /\ cpu' = [cpu EXCEPT !.tick = FALSE]
      /\ ticksCharged' = [ticksCharged EXCEPT ![IF to = "current" THEN CurrentField ELSE to] = @ + 1]
      /\ UNCHANGED <<now, irqTime, rqClock, exec, updater, real, spent>>

\* schedule(): the clock is updated, and another task runs
SwitchCurr ==
  /\ cpu.context = <<>> /\ cpu.write = NoWrite /\ updater = NothingRead /\ Update
  /\ \E t \in Running : t # cpu.curr /\ cpu' = [cpu EXCEPT !.curr = t]
  /\ rqClock' = update_rq_clock_task(now - rqClock.clock, Measured)
  /\ exec' = [start |-> rqClock'.clock_task, sum |-> 0, reported |-> 0]
  /\ UNCHANGED <<now, irqTime, updater, ticksCharged, real>>

ClockNext ==
  \/ Elapse \/ irq_exit \/ UpdateOwn \/ UpdateOther \/ irq_time_read \/ task_sched_runtime
  \/ irqtime_account_process_tick \/ SwitchCurr
  \/ \E kind \in IrqKinds : irq_enter(kind)
  \/ \E w \in {"lo", "hi"} : WriteWord(w)

ClockSpec == ClockInit /\ [][ClockNext]_irqClockVars

-----------------------------------------------------------------------------
(* Properties *)

\* clock_task never loses time a task has run: what is taken out of it as interrupt
\* time (prev_irq_time) has been spent in interrupts, even if another CPU read the
\* two 64-bit times while they were written (irq_time_read()).
TaskClockNotShort == rqClock.prev_irq_time <= real.irq

\* Interrupt time is charged before what it interrupted: the ticks of tasks and of
\* the idle loop run ahead of the time they had by at most two ticks, one lost to
\* rounding in each of the two times.  A tick of ksoftirqd hides one of softirq, but
\* is itself no tick of a task (irqtime_account_process_tick()).
TicksFollowTime == TICK * (ticksCharged.tasks + ticksCharged.idle) <= now - real.irq + 2 * TICK

\* "This ensures ->clock_task is monotonic": what task_sched_runtime() reports of a
\* running task never decreases, whatever was measured between two reports, although
\* time spent in interrupts is taken out of it, and is charged elsewhere.
RuntimeMonotone ==
  /\ [][exec'.reported >= exec.reported \/ cpu'.curr # cpu.curr]_irqClockVars
  /\ []TaskClockNotShort /\ []TicksFollowTime

=============================================================================
