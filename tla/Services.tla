------------------------------ MODULE Services ------------------------------
(***************************************************************************)
(* Parts of the scheduler's core that serve tasks and share no state:      *)
(* completions and wait queues, wait_task_inactive(), what CPUs ask of     *)
(* each other, task groups, priorities, scheduler domains, the clocks of a *)
(* run queue, and the ptree system call.  A behaviour is one of them, and  *)
(* the others stay as they start.                                          *)
(***************************************************************************)
EXTENDS Completion, WaitQueue, WaitInactive, CrossCpu, Ptree, TaskGroups, TaskPrio, SchedDomains, IrqClock

VARIABLE part

othersVars == <<waitQueueVars, inactiveVars, crossVars, ptreeVars, groupVars, prioVars, domVars, irqClockVars>>
servicesVars == <<part, vars, othersVars>>

ServicesInit ==
  /\ part \in {"completion", "wait queue", "inactive", "cross cpu", "ptree", "groups", "prio", "domains", "clock"}
  /\ Init /\ WaitQueueInit /\ CrossInit /\ TgInit
  /\ InactiveInit /\ (part # "inactive" => waiter.match)
  /\ PtreeInit /\ (part # "ptree" => children[Reaper] = <<>>)
  /\ PrioInit /\ (part # "prio" => proc[CHOOSE q \in Procs : TRUE].alive)
  /\ DomInit /\ (part # "domains" => job.next = {[mask |-> Cpus, relax |-> -1]})
  /\ ClockInit /\ (part # "clock" => cpu.curr = "idle")

ServicesNext ==
  /\ UNCHANGED part
  /\ \/ part = "completion" /\ Next /\ UNCHANGED othersVars
     \/ /\ part = "wait queue" /\ WaitQueueNext
        /\ UNCHANGED <<vars, inactiveVars, crossVars, ptreeVars, groupVars, prioVars, domVars, irqClockVars>>
     \/ /\ part = "inactive" /\ InactiveNext
        /\ UNCHANGED <<vars, waitQueueVars, crossVars, ptreeVars, groupVars, prioVars, domVars, irqClockVars>>
     \/ /\ part = "cross cpu" /\ CrossNext
        /\ UNCHANGED <<vars, waitQueueVars, inactiveVars, ptreeVars, groupVars, prioVars, domVars, irqClockVars>>
     \/ /\ part = "ptree" /\ PtreeNext
        /\ UNCHANGED <<vars, waitQueueVars, inactiveVars, crossVars, groupVars, prioVars, domVars, irqClockVars>>
     \/ /\ part = "groups" /\ TgNext
        /\ UNCHANGED <<vars, waitQueueVars, inactiveVars, crossVars, ptreeVars, prioVars, domVars, irqClockVars>>
     \/ /\ part = "prio" /\ PrioNext
        /\ UNCHANGED <<vars, waitQueueVars, inactiveVars, crossVars, ptreeVars, groupVars, domVars, irqClockVars>>
     \/ /\ part = "domains" /\ DomNext
        /\ UNCHANGED <<vars, waitQueueVars, inactiveVars, crossVars, ptreeVars, groupVars, prioVars, irqClockVars>>
     \/ /\ part = "clock" /\ ClockNext
        /\ UNCHANGED <<vars, waitQueueVars, inactiveVars, crossVars, ptreeVars, groupVars, prioVars, domVars>>

ServicesSpec == ServicesInit /\ [][ServicesNext]_servicesVars
=============================================================================
