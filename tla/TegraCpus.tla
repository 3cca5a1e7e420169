----------------------------- MODULE TegraCpus -----------------------------
(***************************************************************************)
(* What several CPUs of the tegra kernel share while they come and go: the *)
(* tasks of the WRR class, and the global load average.  They share no     *)
(* state, so a behaviour is one of them, and the other stays as it starts. *)
(***************************************************************************)
EXTENDS TegraWrr, LoadTegra

VARIABLE part

TegraCpusInit ==
  /\ part \in {"wrr", "load"}
  /\ Init /\ (part # "wrr" => cpu_online = CPUs /\ \A p \in Tasks : sched_class[p] = "wrr")
  /\ LoadInit

\* The load may stop, when its bounds are used up; the CPUs of the WRR class may not.
LoadSteps == LoadNext \/ UNCHANGED loadTegraVars

TegraCpusNext ==
  /\ UNCHANGED part
  /\ \/ part = "wrr" /\ Next /\ UNCHANGED loadTegraVars
     \/ part = "load" /\ LoadSteps /\ UNCHANGED vars

TegraCpusSpec == TegraCpusInit /\ [][TegraCpusNext]_<<part, vars, loadTegraVars>>
=============================================================================
