---------------------------- MODULE MCLifecycle ----------------------------
(* An instance of Lifecycle with one worker.                               *)
EXTENDS Lifecycle

CONSTANTS w1

(* Bounds.  Prefetching begins when the process has started, and without a *)
(* second run of the handlers, in which it has no part; an exit meets it   *)
(* before the second answer is stored.  Stores fail and batched calls are  *)
(* not available at the first height only: heights share nothing.          *)
Bounded ==
  /\ sched.top > 0 => main = "wait" /\ run["signal"] = None
  /\ sched.top > 0 /\ exiting => lost = {} /\ Cardinality(cached) <= 1
  /\ \A x \in lost : x[1] = 1
  /\ \A w \in Workers : worker[w].slow => worker[w].height = 1

MCSpec == Init /\ [][Next /\ Bounded']_vars /\ Fairness
=============================================================================
