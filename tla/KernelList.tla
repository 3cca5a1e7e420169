----------------------------- MODULE KernelList -----------------------------
(***************************************************************************)
(* The kernel's linked lists (linux/list.h) as sequences: an entry is      *)
(* linked at most once.  list_add_tail() is Append, list_add() puts its    *)
(* entry first.                                                            *)
(***************************************************************************)
EXTENDS Integers, Sequences

\* q without p, which is linked in it.
list_del(q, p) ==
  LET i == CHOOSE i \in DOMAIN q : q[i] = p
  IN  [j \in 1 .. Len(q) - 1 |-> IF j < i THEN q[j] ELSE q[j + 1]]

=============================================================================
