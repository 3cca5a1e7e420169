------------------------------ MODULE Balance ------------------------------
(***************************************************************************)
(* What decides on which CPU of the tegra kernel a task runs, beside the   *)
(* WRR class: real-time tasks that are pushed and pulled, the real-time    *)
(* bandwidth CPUs lend each other, and the affinity of a task.  They meet  *)
(* in no state that is modelled: a behaviour is one of them, and the       *)
(* others stay as they start.                                              *)
(***************************************************************************)
EXTENDS RtPushPull, RtBandwidth, Affinity

VARIABLE part

balanceVars == <<part, pushPullVars, bandwidthVars, affinityVars>>

BalanceInit ==
  /\ part \in {"push pull", "bandwidth", "affinity"}
  /\ PushPullInit
  /\ part # "push pull" => prio = [p \in Tasks |-> 0] /\ cpus_allowed = [p \in Tasks |-> CPUs]
  /\ BandwidthInit
  /\ AffinityInit /\ (part # "affinity" => task.cpu = CHOOSE c \in CpuIds : TRUE)

BalanceNext ==
  /\ UNCHANGED part
  /\ \/ part = "push pull" /\ PushPullNext /\ UNCHANGED <<bandwidthVars, affinityVars>>
     \/ part = "bandwidth" /\ BandwidthNext /\ UNCHANGED <<pushPullVars, affinityVars>>
     \/ part = "affinity" /\ AffinityNext /\ UNCHANGED <<pushPullVars, bandwidthVars>>

BalanceSpec == BalanceInit /\ [][BalanceNext]_balanceVars
=============================================================================
