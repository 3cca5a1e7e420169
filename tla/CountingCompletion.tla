------------------------- MODULE CountingCompletion -------------------------
(***************************************************************************)
(* What a struct completion promises: a counter that complete() and        *)
(* complete_all() raise and that a wait lowers by one.  A wait fails, by   *)
(* timeout, signal or because it must not block, only while the counter is *)
(* zero, and only in a way its caller asked for.                           *)
(***************************************************************************)
EXTENDS Integers

CONSTANTS
  Tasks,           \* callers of the wait_for_completion() family
  Interruptible,   \* those that wait in TASK_INTERRUPTIBLE,
  Killable,        \* those that wait in TASK_KILLABLE, the others do neither
  Timed,           \* those that wait with a timeout
  UintRange,       \* number of values of an unsigned int
  Half             \* what complete_all() adds

VARIABLES
  done,      \* x->done
  outcome    \* what the last call of a task returned: "none" while it waits,
             \*   "done", "timeout", "signal" or "busy"

vars == <<done, outcome>>

Init == done = 0 /\ outcome = [t \in Tasks |-> "none"]

Raise(n) == done' = (done + n) % UintRange /\ UNCHANGED outcome

Begin(t) == outcome' = [outcome EXCEPT ![t] = "none"] /\ UNCHANGED done

Take(t) == done > 0 /\ done' = done - 1 /\ outcome' = [outcome EXCEPT ![t] = "done"]

MayFail(t) ==
  {"busy"} \cup (IF t \in Timed THEN {"timeout"} ELSE {})
           \cup (IF t \in Interruptible \cup Killable THEN {"signal"} ELSE {})

Fail(t) ==
  /\ done = 0 /\ \E r \in MayFail(t) : outcome' = [outcome EXCEPT ![t] = r]
  /\ UNCHANGED done

Next == Raise(1) \/ Raise(Half) \/ \E t \in Tasks : Begin(t) \/ Take(t) \/ Fail(t)

Spec == Init /\ [][Next]_vars

=============================================================================
