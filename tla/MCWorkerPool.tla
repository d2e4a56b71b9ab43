---------------------------- MODULE MCWorkerPool -----------------------------
(* Instances of WorkerPool for TLC. *)
EXTENDS WorkerPool

OneCpuTwoMemory == [ty \in {"cpu", "memory"} |-> IF ty = "cpu" THEN 1 ELSE 2]

=============================================================================
