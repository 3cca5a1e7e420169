----------------------------- MODULE WrrRunList -----------------------------
(***************************************************************************)
(* struct wrr_rq of kernel/sched/sched.h and the functions of wrr.c that   *)
(* link, unlink and move an entity on its run list.  r is the wrr_rq, p    *)
(* the task, w its weight; the weight itself is the caller's.              *)
(***************************************************************************)
EXTENDS KernelList, FiniteSets

init_wrr_rq == [queue |-> << >>, total_weight |-> 0, wrr_nr_running |-> 0]

enqueue_wrr_entity(r, p, w, head) ==
  [queue          |-> IF head THEN <<p>> \o r.queue ELSE Append(r.queue, p),
   total_weight   |-> r.total_weight + w,
   wrr_nr_running |-> r.wrr_nr_running + 1]

dequeue_wrr_entity(r, p, w) ==
  [queue          |-> list_del(r.queue, p),
   total_weight   |-> r.total_weight - w,
   wrr_nr_running |-> r.wrr_nr_running - 1]

requeue_task_wrr(r, p) == [r EXCEPT !.queue = Append(list_del(r.queue, p), p)]

=============================================================================
