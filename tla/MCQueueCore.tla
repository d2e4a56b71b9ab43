----------------------------- MODULE MCQueueCore -----------------------------
(* Instances of QueueCore for TLC: the kinds of request of each run. *)
EXTENDS QueueLifecycle

Kind(p, b, c, s, w) ==
  [priority |-> p, batch |-> b, category |-> c, size |-> s, workload |-> w]

\* Every queue level, worker tasks, batches of two categories, and a size that
\* only an existing batch accepts.
MixedKinds ==
  {Kind(5, FALSE, "a", 1, "none"), Kind(0, FALSE, "a", 1, "cpu"),
   Kind(0, TRUE, "a", 1, "none"), Kind(-1, TRUE, "a", 2, "none"),
   Kind(0, TRUE, "b", 1, "none")}

\* The kinds that matter to liveness: a slot taker, a batch, a low task.
LiveKinds ==
  {Kind(0, FALSE, "a", 1, "none"), Kind(0, TRUE, "a", 1, "none"),
   Kind(-1, FALSE, "a", 1, "none")}

=============================================================================
