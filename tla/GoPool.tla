------------------------------- MODULE GoPool -------------------------------
(***************************************************************************)
(* One pool of the Go worker engine (go-engine/internal/pool): Submit and    *)
(* the dispatch loop behind its priority queue, SubmitSync, which competes   *)
(* for the same semaphore without queueing, retries, deadlines and Stop; and *)
(* around it the gRPC call that GoEngineClient makes and the engine's        *)
(* shutdown.  Every action is what one goroutine does atomically: an         *)
(* operation under a lock, on a channel or on an atomic counter.             *)
(***************************************************************************)
EXTENDS Integers, FiniteSets

CONSTANTS
  Tasks,
  Sync,            \* the tasks that come in by gRPC, through SubmitSync
  Priority,        \* task -> priority
  Workers, MaxQueue,
  MaxRetries       \* RetryConfig.MaxRetries

ASSUME PoolAssumption ==
  /\ IsFiniteSet(Tasks) /\ Tasks \subseteq Nat \ {0} /\ Sync \subseteq Tasks
  /\ Priority \in [Tasks -> Int]
  /\ MaxQueue \in Nat \ {0} /\ {Workers, MaxRetries} \subseteq Nat

Nobody == 0
Async == Tasks \ Sync

VARIABLES
  limited,     \* the pool has a rate limiter
  pc,          \* task -> where the goroutine that has it is
  queue,       \* the priority queue
  slots,       \* tokens in the semaphore channel
  active, processed, failed,                       \* Stats
  attempt,     \* task -> retries made
  outcome,     \* task -> none | ok | error, from executeWithRetry
  expired,     \* tasks whose context is done
  picked,      \* the task in the dispatch loop's hands
  loop,        \* the dispatch loop: select | dispatch | exited
  draining,    \* GracefulStop was called: no new RPC
  stopped,     \* stopCh is closed
  halted,      \* Stop has returned
  client,      \* sync task -> none | waiting | ok | failed | rejected
  \* bookkeeping
  since,       \* tasks enqueued since the loop last dequeued one
  racers       \* most goroutines seen between Submit's check and its Enqueue

stats == <<active, processed, failed>>
loopVars == <<picked, loop, draining, stopped, halted>>
vars == <<limited, pc, queue, slots, stats, attempt, outcome, expired, loopVars,
          client, since, racers>>

At(places) == {t \in Tasks : pc[t] \in places}
Holding == {"acquired", "running", "backoff", "returned", "leaving"}
Final == {"done", "refused"}

goto(t, place) == pc' = [pc EXCEPT ![t] = place]

-----------------------------------------------------------------------------
(* Submit and the dispatch loop *)

\* Mutant: one too many.
FullAtOneMore == Cardinality(queue) > MaxQueue

queueFull == Cardinality(queue) >= MaxQueue

SubmitCheck(t) ==
  /\ t \in Async /\ pc[t] = "idle"
  /\ goto(t, IF queueFull THEN "refused" ELSE "checked")
  /\ racers' = LET n == Cardinality(At({"checked"})) + 1
               IN  IF ~queueFull /\ n > racers THEN n ELSE racers
  /\ UNCHANGED <<limited, queue, slots, stats, attempt, outcome, expired, loopVars>>
  /\ UNCHANGED <<client, since>>

Enqueue(t) ==
  /\ pc[t] = "checked"
  /\ goto(t, "queued")
  /\ queue' = queue \cup {t} /\ since' = since \cup {t}
  /\ UNCHANGED <<limited, slots, stats, attempt, outcome, expired, loopVars, client, racers>>

\* heap.Pop by Less; equal priorities come out in any order.
isNext(t) == \A u \in queue : Priority[u] <= Priority[t]

\* A tick of the dispatch loop; a tick may still win the select after Stop.
Dequeue(t) ==
  /\ loop = "select" /\ t \in queue /\ isNext(t)
  /\ queue' = queue \ {t} /\ since' = {}
  /\ picked' = t /\ loop' = "dispatch"
  /\ goto(t, IF limited THEN "limit" ELSE "sem")
  /\ UNCHANGED <<limited, slots, stats, attempt, outcome, expired, draining>>
  /\ UNCHANGED <<stopped, halted, client, racers>>

\* dispatch() ignores the limiter's error, so the wait always ends in passing.
LimiterPasses(t) ==
  /\ pc[t] = "limit"
  /\ goto(t, "sem")
  /\ UNCHANGED <<limited, queue, slots, stats, attempt, outcome, expired, loopVars>>
  /\ UNCHANGED <<client, since, racers>>

AcquireAsync(t) ==
  /\ t \in Async /\ pc[t] = "sem" /\ slots < Workers
  /\ slots' = slots + 1 /\ goto(t, "acquired")
  /\ picked' = Nobody /\ loop' = "select"
  /\ UNCHANGED <<limited, queue, stats, attempt, outcome, expired, draining, stopped>>
  /\ UNCHANGED <<halted, client, since, racers>>

-----------------------------------------------------------------------------
(* SubmitSync *)

\* GoEngineClient.execute, GRPCServer.Execute and the first check.
Call(t) ==
  /\ t \in Sync /\ pc[t] = "idle" /\ client[t] = "none" /\ ~draining
  /\ client' = [client EXCEPT ![t] = "waiting"]
  /\ goto(t, IF queueFull THEN "refused" ELSE IF limited THEN "limit" ELSE "sem")
  /\ UNCHANGED <<limited, queue, slots, stats, attempt, outcome, expired, loopVars, since, racers>>

\* limiter.Wait gives up when the context ends or would end before its turn.
RateLimited(t) ==
  /\ t \in Sync /\ pc[t] = "limit"
  /\ goto(t, "refused")
  /\ UNCHANGED <<limited, queue, slots, stats, attempt, outcome, expired, loopVars>>
  /\ UNCHANGED <<client, since, racers>>

AcquireSync(t) ==
  /\ t \in Sync /\ pc[t] = "sem" /\ slots < Workers
  /\ slots' = slots + 1 /\ goto(t, "acquired")
  /\ UNCHANGED <<limited, queue, stats, attempt, outcome, expired, loopVars, client, since, racers>>

\* "timeout waiting for worker".
NoWorker(t) ==
  /\ t \in Sync /\ pc[t] = "sem" /\ t \in expired
  /\ goto(t, "refused")
  /\ UNCHANGED <<limited, queue, slots, stats, attempt, outcome, expired, loopVars>>
  /\ UNCHANGED <<client, since, racers>>

-----------------------------------------------------------------------------
(* The task itself *)

Begin(t) ==
  /\ pc[t] = "acquired"
  /\ goto(t, "running") /\ active' = active + 1
  /\ UNCHANGED <<limited, queue, slots, processed, failed, attempt, outcome, expired>>
  /\ UNCHANGED <<loopVars, client, since, racers>>

\* Contexts: SubmitSync's from its first check, dispatch's from Begin.
Expire(t) ==
  /\ t \notin expired
  /\ pc[t] \in {"running", "backoff"} \cup IF t \in Sync THEN {"limit", "sem", "acquired"} ELSE {}
  /\ expired' = expired \cup {t}
  /\ UNCHANGED <<limited, pc, queue, slots, stats, attempt, outcome, loopVars, client, since, racers>>

\* executeWithRetry returned and the result is counted.
finish(t, result) ==
  /\ goto(t, "returned")
  /\ outcome' = [outcome EXCEPT ![t] = result]
  /\ processed' = IF result = "ok" THEN processed + 1 ELSE processed
  /\ failed' = IF result = "error" THEN failed + 1 ELSE failed
  /\ UNCHANGED <<limited, queue, slots, active, attempt, expired, loopVars, client, since, racers>>

\* A success counts, also when the deadline has passed.
HandlerSucceeds(t) == pc[t] = "running" /\ finish(t, "ok")

\* 0 cannot switch retries off.
retries == IF MaxRetries = 0 THEN 3 ELSE MaxRetries

\* Mutant: every failed attempt counts.
FailsAndCounts(t) ==
  /\ pc[t] = "running" /\ attempt[t] < retries
  /\ goto(t, "backoff") /\ failed' = failed + 1
  /\ UNCHANGED <<limited, queue, slots, active, processed, attempt, outcome, expired>>
  /\ UNCHANGED <<loopVars, client, since, racers>>

HandlerFails(t) ==
  /\ pc[t] = "running" /\ attempt[t] < retries
  /\ goto(t, "backoff")
  /\ UNCHANGED <<limited, queue, slots, stats, attempt, outcome, expired, loopVars>>
  /\ UNCHANGED <<client, since, racers>>

LastAttemptFails(t) == pc[t] = "running" /\ attempt[t] = retries /\ finish(t, "error")

Retry(t) ==
  /\ pc[t] = "backoff"
  /\ goto(t, "running") /\ attempt' = [attempt EXCEPT ![t] = @ + 1]
  /\ UNCHANGED <<limited, queue, slots, stats, outcome, expired, loopVars, client, since, racers>>

BackoffCancelled(t) == pc[t] = "backoff" /\ t \in expired /\ finish(t, "error")

\* The defers, last one first: the gauge, then the semaphore.
Leave(t) ==
  /\ pc[t] = "returned"
  /\ goto(t, "leaving") /\ active' = active - 1
  /\ UNCHANGED <<limited, queue, slots, processed, failed, attempt, outcome, expired>>
  /\ UNCHANGED <<loopVars, client, since, racers>>

\* Mutant: a failed task keeps its token.
ReleaseOnSuccess(t) ==
  /\ pc[t] = "leaving"
  /\ goto(t, "done") /\ slots' = IF outcome[t] = "ok" THEN slots - 1 ELSE slots
  /\ UNCHANGED <<limited, queue, stats, attempt, outcome, expired, loopVars, client, since, racers>>

Release(t) ==
  /\ pc[t] = "leaving"
  /\ goto(t, "done") /\ slots' = slots - 1
  /\ UNCHANGED <<limited, queue, stats, attempt, outcome, expired, loopVars, client, since, racers>>

-----------------------------------------------------------------------------
(* The client and the shutdown *)

answer(t) == IF outcome[t] = "ok" THEN "ok" ELSE "failed"

Respond(t) ==
  /\ t \in Sync /\ client[t] = "waiting" /\ pc[t] \in Final
  /\ client' = [client EXCEPT ![t] = answer(t)]
  /\ UNCHANGED <<limited, pc, queue, slots, stats, attempt, outcome, expired, loopVars, since, racers>>

\* gRPC reports an error: the engine is not reached or takes no more calls, or
\* the deadline passes or the connection breaks, which ends the call's context.
CallFails(t) ==
  /\ t \in Sync /\ client[t] \in {"none", "waiting"}
  /\ client' = [client EXCEPT ![t] = "rejected"]
  /\ expired' = IF client[t] = "waiting" THEN expired \cup {t} ELSE expired
  /\ UNCHANGED <<limited, pc, queue, slots, stats, attempt, outcome, loopVars, since, racers>>

GracefulStop ==
  /\ ~draining /\ draining' = TRUE
  /\ UNCHANGED <<limited, pc, queue, slots, stats, attempt, outcome, expired, picked, loop>>
  /\ UNCHANGED <<stopped, halted, client, since, racers>>

\* GracefulStop has returned: no RPC is open.  Router.Stop, then Pool.Stop.
Stop ==
  /\ draining /\ ~stopped
  /\ \A t \in Sync : pc[t] \in Final \cup {"idle"}
  /\ stopped' = TRUE
  /\ UNCHANGED <<limited, pc, queue, slots, stats, attempt, outcome, expired, picked, loop>>
  /\ UNCHANGED <<draining, halted, client, since, racers>>

\* Mutant: an empty queue ends the loop, return for continue.
EmptyEndsLoop ==
  /\ loop = "select" /\ (stopped \/ queue = {})
  /\ loop' = "exited"
  /\ UNCHANGED <<limited, pc, queue, slots, stats, attempt, outcome, expired, picked>>
  /\ UNCHANGED <<draining, stopped, halted, client, since, racers>>

LoopExits ==
  /\ loop = "select" /\ stopped
  /\ loop' = "exited"
  /\ UNCHANGED <<limited, pc, queue, slots, stats, attempt, outcome, expired, picked>>
  /\ UNCHANGED <<draining, stopped, halted, client, since, racers>>

\* Mutant: only the loop is in the wait group.
LoopOnly == loop = "exited"

\* wg.Wait(): the loop and the goroutines of dispatch().
allDone == loop = "exited" /\ At(Holding) \cap Async = {}

StopReturns ==
  /\ stopped /\ ~halted /\ allDone
  /\ halted' = TRUE
  /\ UNCHANGED <<limited, pc, queue, slots, stats, attempt, outcome, expired, picked, loop>>
  /\ UNCHANGED <<draining, stopped, client, since, racers>>

Init ==
  /\ limited \in BOOLEAN
  /\ pc = [t \in Tasks |-> "idle"] /\ queue = {} /\ slots = 0
  /\ active = 0 /\ processed = 0 /\ failed = 0
  /\ attempt = [t \in Tasks |-> 0] /\ outcome = [t \in Tasks |-> "none"]
  /\ expired = {} /\ picked = Nobody /\ loop = "select"
  /\ draining = FALSE /\ stopped = FALSE /\ halted = FALSE
  /\ client = [t \in Sync |-> "none"] /\ since = {} /\ racers = 0

Works(t) == Begin(t) \/ HandlerSucceeds(t) \/ HandlerFails(t) \/ LastAttemptFails(t)
            \/ Retry(t) \/ BackoffCancelled(t) \/ Leave(t) \/ Release(t)
Acquires(t) == AcquireAsync(t) \/ AcquireSync(t)
Waits(t) == Enqueue(t) \/ Dequeue(t) \/ LimiterPasses(t) \/ NoWorker(t) \/ Respond(t)

Next ==
  \/ \E t \in Tasks : \/ SubmitCheck(t) \/ Call(t) \/ RateLimited(t) \/ Expire(t)
                      \/ CallFails(t) \/ Works(t) \/ Acquires(t) \/ Waits(t)
  \/ GracefulStop \/ Stop \/ LoopExits \/ StopReturns

Spec == Init /\ [][Next]_vars

\* The Go scheduler runs every goroutine that can go on, handlers end (they
\* watch their context), and a free worker goes to one of those waiting.
Fairness ==
  /\ \A t \in Tasks : WF_vars(Works(t) \/ Acquires(t) \/ Waits(t))
  /\ WF_vars(Stop \/ LoopExits \/ StopReturns)

FairSpec == Spec /\ Fairness
-----------------------------------------------------------------------------
(* Properties *)

\* Every variable holds values of its kind; no task is tried more often than
\* its retries allow.
TypeOK ==
  /\ pc \in [Tasks -> {"idle", "checked", "queued", "limit", "sem", "done", "refused"}
                        \cup Holding]
  /\ queue \subseteq Async /\ expired \subseteq Tasks /\ since \subseteq Async
  /\ {slots, active, processed, failed, racers} \subseteq Nat
  /\ attempt \in [Tasks -> 0..(IF MaxRetries = 0 THEN 3 ELSE MaxRetries)]
  /\ outcome \in [Tasks -> {"none", "ok", "error"}]
  /\ picked \in Async \cup {Nobody} /\ loop \in {"select", "dispatch", "exited"}
  /\ {limited, draining, stopped, halted} \subseteq BOOLEAN
  /\ client \in [Sync -> {"none", "waiting", "ok", "failed", "rejected"}]

\* The semaphore holds exactly one token per task that was given a worker,
\* whichever way it came and however it ends; refusals leave it alone.
SlotsExact == slots = Cardinality(At(Holding)) /\ slots <= Workers

\* The reported gauge never shows more workers than the pool has.
GaugeWithinWorkers == active <= slots

\* Submit looks at the length and enqueues under two locks: the queue may
\* outgrow MaxQueue, but only by the submitters that raced, less one.
QueueOvershoot ==
  Cardinality(queue) + Cardinality(At({"checked"})) <= MaxQueue - 1 + racers

\* While the loop waits for a worker with a task in its hands, a queued task
\* of higher priority can only be one that came too late for the heap.
HeadOfLine ==
  \A u \in queue : loop = "dispatch" /\ Priority[u] > Priority[picked] => u \in since

\* Statistics count exactly the tasks that a handler ran for: nothing that
\* was refused for length, rate or time, nothing twice.
CountedOnce ==
  /\ processed = Cardinality({t \in Tasks : outcome[t] = "ok"})
  /\ failed = Cardinality({t \in Tasks : outcome[t] = "error"})
  /\ \A t \in At({"refused"}) : outcome[t] = "none" /\ attempt[t] = 0

\* What the client resolves with is what the engine did; only an error of the
\* call itself may hide a success.
ClientTruth ==
  \A t \in Sync : /\ client[t] = "ok" => outcome[t] = "ok"
                  /\ client[t] = "failed" => outcome[t] # "ok"

\* When Stop returns no task is running and no worker is taken, and none
\* starts later, though Submit goes on accepting tasks nobody will run.
QuietAfterStop == halted => slots = 0 /\ active = 0 /\ At(Holding) = {}

\* Every call is answered.
CallsAnswered == \A t \in Sync : client[t] = "waiting" ~> client[t] \in {"ok", "failed", "rejected"}

\* The head of the heap is run, and so is what was taken out of it, unless the
\* pool is stopped or a task that ranks no lower joins the queue.  The heap does
\* not age: of a low task under a steady load of higher ones no more is true.
HeadRuns ==
  \A t \in Async :
    t \in queue /\ isNext(t) ~>
      \/ pc[t] = "done" \/ stopped
      \/ t \in queue /\ \E u \in queue \ {t} : Priority[u] >= Priority[t]

\* Stop returns: nobody keeps a slot or the loop for ever.
StopEnds == stopped ~> halted

\* Tokens and gauge are right in every typed state.
WorkersExact == TypeOK /\ SlotsExact /\ GaugeWithinWorkers

\* By how much the queue may outgrow its limit, and whom it may make wait.
QueueDiscipline == QueueOvershoot /\ HeadOfLine

\* The counters and the client tell what the engine did.
HonestCounts == CountedOnce /\ ClientTruth

\* Calls are answered, the head of the queue is run, and Stop returns.
PoolProgress == CallsAnswered /\ HeadRuns /\ StopEnds
=============================================================================
