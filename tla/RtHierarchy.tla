---------------------------- MODULE RtHierarchy ----------------------------
(***************************************************************************)
(* The hierarchy of real-time task groups in the goldfish kernel: how it   *)
(* schedules (RtGroups) and what it admits (RtAdmission).  Limits that are *)
(* admitted reach RtGroups as SetGroupRuntime() and SetSysctlLimit(); the  *)
(* two are checked side by side: a behaviour is one of them, the other     *)
(* stays as it starts.                                                     *)
(***************************************************************************)
EXTENDS RtGroups, RtAdmission

VARIABLE part

RtHierarchyInit ==
  /\ part \in {"queues", "admission"}
  /\ RtGroupsInit /\ (part # "queues" => \A t \in Tasks : task[t].group = Root)
  /\ AdmissionInit

RtHierarchyNext ==
  /\ UNCHANGED part
  /\ \/ part = "queues" /\ RtGroupsNext /\ UNCHANGED admissionVars
     \/ part = "admission" /\ AdmissionNext /\ UNCHANGED rtGroupVars

RtHierarchySpec == RtHierarchyInit /\ [][RtHierarchyNext]_<<part, rtGroupVars, admissionVars>>
=============================================================================
