---------------------------- MODULE QueueLifecycle ----------------------------
(***************************************************************************)
(* QueueCore implements TaskLifecycle: the mapping reads a task's state off *)
(* the arrays, batches, open promise chains and settled promises.           *)
(***************************************************************************)
EXTENDS QueueCore

Running == main \cup (Grouped \ Settled)

\* SinglePlace makes the cases exclude each other.
stateOf(t) ==
  CASE t \notin Tasks -> "new"
    [] t \in resolved -> "resolved"
    [] t \in rejected -> "rejected"
    [] t \in timedOut -> "timedOut"
    [] t \in pool     -> "pool"
    [] t \in Queued   -> "waiting"
    [] OTHER          -> "running"

Lifecycle == INSTANCE TaskLifecycle
               WITH state <- [t \in 1..MaxTasks |-> stateOf(t)]

\* Dispatch, batching, timers, memory cleanup and the pool's callbacks move a
\* task only along the lifecycle: it is started at most once, answered at most
\* once, and never started after its answer.
ImplementsLifecycle == Lifecycle!Spec

=============================================================================
