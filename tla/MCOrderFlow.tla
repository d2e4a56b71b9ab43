---------------------------- MODULE MCOrderFlow -----------------------------
EXTENDS OrderFlow

\* Every route; a count of 0 is clamped to 1, one of 9 to MAX_COUNT.
AllRoutes ==
  {[kind |-> "order", count |-> 1, delayed |-> FALSE],
   [kind |-> "bulk", count |-> 9, delayed |-> TRUE],
   [kind |-> "lifecycle", count |-> 0, delayed |-> FALSE]}

\* The orders of request 1 hash to the product's partition, the others do not.
TwoPartitions ==
  [k \in Orders \cup {Product} |-> IF k[1] \in {0, 1} THEN 0 ELSE 1]

Env(m, e, i, k, d) == [mode |-> m, enabled |-> e, idempotent |-> i, keyed |-> k, delayed |-> d]

\* Both channels: the queue with and without its delay, Kafka with and without
\* keys and idempotence, and Kafka chosen while the publisher is switched off.
AllSettings ==
  {Env("memory", FALSE, TRUE, TRUE, FALSE), Env("memory", TRUE, TRUE, TRUE, TRUE),
   Env("kafka", TRUE, TRUE, TRUE, FALSE), Env("kafka", TRUE, FALSE, FALSE, FALSE),
   Env("kafka", FALSE, TRUE, TRUE, FALSE)}
=============================================================================
