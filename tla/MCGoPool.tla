------------------------------ MODULE MCGoPool ------------------------------
(* An instance of GoPool for TLC. *)
EXTENDS GoPool

\* Task 1 is low, task 2 is high; task 8 comes in by gRPC.
Priorities == [t \in Tasks |-> IF t = 1 THEN 0 ELSE 5]
=============================================================================
