---------------------------- MODULE Bookkeeping ----------------------------
(***************************************************************************)
(* What the scheduler keeps the books of: the run list, weights and slices *)
(* of the WRR class, the arithmetic of the load statistics, and CPU time   *)
(* and cpuacct.  They share no state, so a behaviour is one of them, and   *)
(* the others stay as they start.                                          *)
(***************************************************************************)
EXTENDS GoldfishWrr, LoadMath, CpuTime

VARIABLE part

BookkeepingInit ==
  /\ part \in {"wrr", "math", "time"}
  /\ Init
  /\ MathInit /\ (part # "math" => \A w \in Weights : cpu_load[1] <= w)
  /\ TimeInit

BookkeepingNext ==
  /\ UNCHANGED part
  /\ \/ /\ part = "wrr" /\ Next
        /\ UNCHANGED <<mathVars, timeVars>>
     \/ /\ part = "math" /\ MathNext
        /\ UNCHANGED <<vars, timeVars>>
     \/ /\ part = "time" /\ TimeNext
        /\ UNCHANGED <<vars, mathVars>>

bookkeepingVars == <<part, vars, mathVars, timeVars>>
BookkeepingSpec == BookkeepingInit /\ [][BookkeepingNext]_bookkeepingVars
=============================================================================
