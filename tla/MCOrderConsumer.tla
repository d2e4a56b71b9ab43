-------------------------- MODULE MCOrderConsumer ---------------------------
(* Instances of OrderConsumer for TLC. *)
EXTENDS OrderConsumer

Opt(runtime, mode, beginning, n, limit) ==
  [runtime |-> runtime, commitMode |-> mode, fromBeginning |-> beginning,
   instances |-> n, limit |-> limit]

Modes == {"after-process", "before-process"}

\* Two consumers in one process with and without crashAfter, one consumer per
\* process, both runtimes and both commit modes, and options that are refused.
LabOptions ==
  {Opt("node", m, TRUE, 2, 1) : m \in Modes}
    \cup {Opt("node", "after-process", TRUE, 1, 0)}
    \cup {Opt("go", m, m = "after-process", 1, 1) : m \in Modes}
    \cup {Opt("node", m, TRUE, n, 0) : m \in Modes, n \in {0, 3}}

DefaultOptions == {Opt("node", "after-process", FALSE, 1, 0)}
=============================================================================
