---------------------------- MODULE MCRequestPath -----------------------------
(* Instances of RequestPath for TLC: the requests of each run. *)
EXTENDS RequestPath

Req(m, p, qu, w, h, b, c) ==
  [method |-> m, path |-> p, query |-> qu, weight |-> w, hint |-> h, body |-> b,
   code |-> c]

\* A bypassed request, one that must and one that may join a batch, one of low
\* priority, a worker task, and custom code.
AllSorts ==
  {Req("GET", "status", FALSE, 0, "none", "none", FALSE),
   Req("GET", "user", FALSE, 0, "none", "none", FALSE),
   Req("GET", "other", FALSE, 4, "cpu", "none", FALSE),
   Req("POST", "bulk", TRUE, 1, "none", "io", FALSE),
   Req("GET", "other", TRUE, 0, "memory", "none", FALSE),
   Req("POST", "admin", FALSE, 0, "none", "none", TRUE)}

OneWorkerRequest == {Req("GET", "other", TRUE, 0, "cpu", "none", FALSE)}

=============================================================================
