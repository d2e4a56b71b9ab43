---------------------------- MODULE TaskLifecycle -----------------------------
(***************************************************************************)
(* What the queue promises about a task, whatever it does with slots,       *)
(* batches, timers and memory: an accepted task waits, is started at most   *)
(* once, on the main thread or on the worker pool, and is answered at most  *)
(* once; only a waiting task can time out in the queue, and a task that was *)
(* answered while it waited is never started.                               *)
(***************************************************************************)
EXTENDS Naturals

CONSTANT MaxTasks      \* bound: tasks accepted in one behaviour

VARIABLE state         \* where each task is, by id

Ids    == 1..MaxTasks
Ends   == {"resolved", "rejected", "timedOut"}
States == {"new", "waiting", "running", "pool"} \cup Ends

Moves ==
  {<<"new", "waiting">>,
   <<"waiting", "running">>, <<"waiting", "pool">>,
   <<"waiting", "rejected">>, <<"waiting", "timedOut">>,
   <<"running", "resolved">>, <<"running", "rejected">>,
   <<"pool", "resolved">>, <<"pool", "rejected">>}

Init == state = [t \in Ids |-> "new"]

\* One callback may move several tasks, each along one of the moves.
Next ==
  /\ state' \in [Ids -> States]
  /\ \A t \in Ids : state'[t] # state[t] => <<state[t], state'[t]>> \in Moves

Spec == Init /\ [][Next]_state

=============================================================================
