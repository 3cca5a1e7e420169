--------------------------- MODULE MCRtHierarchy ---------------------------
(* For the queues a root, a group in it and a group in that one. *)
EXTENDS RtHierarchy

CONSTANTS outer, inner

MCParent == outer :> Root @@ inner :> outer
MCRuntime == [g \in Groups |-> IF g = Root THEN RUNTIME_INF ELSE 1]

Symmetry == Permutations(Tasks) \cup Permutations(Cgroups \ {RootGroup}) \cup Permutations(Callers)
=============================================================================
