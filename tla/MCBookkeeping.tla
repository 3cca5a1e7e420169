--------------------------- MODULE MCBookkeeping ---------------------------
(* Bookkeeping with cpuacct groups two deep. *)
EXTENDS Bookkeeping

CONSTANTS outer, inner
MCAcctGroups == {outer, inner}
MCParents == (outer :> AcctRoot) @@ (inner :> outer)
=============================================================================
