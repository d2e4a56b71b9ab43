# TLA+ model of nestjs-bulk-traffic-server

The server accepts bursts of HTTP requests, queues them by priority, groups
small ones into batches, runs them on the event loop or on a pool of worker
threads, and refuses or drops work under memory pressure. Beside it live a Go
worker engine reached over gRPC, and an order laboratory whose events travel
through an in-process queue or through Kafka to consumers in TypeScript and Go.

This directory holds TLA+ modules translated from that source, TLC
configurations, and proofs checked by TLAPS. Paths below are relative to the
repository root (`src/` here is the repository's own `src/`).

## 1. Inventory

| Component | State | Operations | Who calls it, whom it calls |
|---|---|---|---|
| `QueueService`, `QueueStateHolder` | three priority arrays, batch map, active counter, task ids, `processSignalPending` | `enqueue`, poll, aging and memory intervals, start and stop | middleware and controllers call `enqueue`; it wakes the processor through an immediate |
| `QueueProcessorService` | open promise chains, one timer per task | `processQueue`, `processBatch`, execution timeout, queue timeout, pool callbacks | takes from the holder, calls the pool and the statistics |
| `BatchService` | the batches (tasks, total size, creation time) | eligibility, full-batch immediate, aging loop, partial dispatch | shares slots with `processQueue` |
| `MemoryService` | `memoryPressure` | usage check, `cleanupOldTasks`, `forceReduceQueues` | removes waiting tasks from the queue and from batches |
| `QueueStatsService` | totals | record success, failure, timeout | everything above |
| `WorkerPoolService`, `WorkerTaskRouterService` | busy flags, assigned tasks, task queue, active count per type | dispatch walk, result, failure, replacement | main thread; called by the processor, calls it back |
| `WorkerHealthService` | open pings | ping interval, ping timeout | reports a failed worker to the pool |
| `worker.js` | the running task | boot message, answer, crash | threads, two mailboxes each |
| `QueueMiddleware`, `RequestStateStore` | one entry per request with a TTL | register, answer, release | enqueues the rest of the HTTP pipeline as a task |
| `QueueSnapshotManager`, `FilePersistenceService` | one file: totals and the task id counter | save, restore, clear | start, interval and stop of the queue service |
| `EngineRouterService` and back-ends | engine health, gRPC client | route, fall back | load tests and controllers |
| `OrderController`, `OrderService`, `SqliteOrderStore` | orders and their status, rows of consumed events | create, bulk, lifecycle, reset | stores, then dispatches events |
| `MemoryOrderDispatcher`, `KafkaOrderDispatcher`, `OrderPublisher` | an event queue with a drain loop, counters; a producer | dispatch, drain, stop | called by the order service; records rows or sends to Kafka |
| `OrderConsumer` (TypeScript), `consumer` (Go) | a group's offsets, processed counts | join, handle a message, commit, crash point, stop | Kafka; records rows in the store |
| `ConsumerProcessManager`, `KafkaInspector` | child handles and their records | spawn, stop, exit; lag, offset reset | lab controller; signals child processes |
| Go engine (`pool`, `router`, `server`) | heap, semaphore, counters | submit, dispatch, retry, stop | gRPC, `GoEngineClient` |

Hard behaviours: everything in the Node process is a race between callbacks
(timers, immediates, settled promises, messages of threads); slots are taken by
four paths and given back by five; timeouts answer requests whose work goes on;
threads boot late, crash and hang; a file or a broker survives a crash that the
memory does not. `PROJECT.json`, "hazards", lists the places one by one.

What makes each part correct: the queue loses no task and answers it once, uses
no more slots than allowed, gives every slot back, and never sleeps while work
and a free slot coexist; its counters say what happened; the pool keeps type
limits, loses no task and gives each result to its own task; the middleware
answers each request once; a restart neither loses nor doubles what was saved;
an order's status, events and report agree whatever fails; a consumer's commit
mode decides between at-most-once and at-least-once; the Go pool returns every
worker, counts every task once and comes to rest when it is stopped.

## 2. Modules

| Module | Models | Role |
|---|---|---|
| `QueueCore` | queue, processor, batches, memory, statistics | component specification |
| `WorkerPool` | pool, router, health check, worker threads | component specification |
| `TaskLifecycle` | what the queue promises about one task | abstract specification |
| `QueueLifecycle` | the mapping from `QueueCore` to `TaskLifecycle` | refinement |
| `RequestPath` | middleware, request analyzer, request state store, exception filter | component specification, composed with `TaskLifecycle` |
| `Snapshot` | snapshot manager, file persistence, start and stop of the queue service | component specification |
| `OrderFlow` | order controller, service and store, both dispatchers, the publisher | composition on one event loop |
| `OrderConsumer` | consumers in both languages, their processes, process manager, inspector | composition with an external broker |
| `GoPool` | a pool of the Go engine, its gRPC call and client, the engine's shutdown | component specification |
| `MCQueueCore`, `MCWorkerPool`, `MCRequestPath`, `MCSnapshot`, `MCOrderFlow`, `MCOrderConsumer`, `MCGoPool` | | constant values for TLC |
| `QueueCoreProofs` | | typing, wake-ups, places, slots, statistics, queue limit and batch sizes |
| `QueueLifecycleProofs` | | the queue implements the lifecycle |
| `WorkerPoolProofs` | | settlement and slots under faults; books, type limits and idle workers of a steady pool |
| `RequestPathProofs` | | one answer, nothing left behind |
| `SnapshotProofs` | | sound, newest and once-restored snapshots |
| `OrderFlowProofs` | | in-process queue, flow of events, reports, resets |
| `OrderConsumerProofs` | | manager, repeats, losses, at-least-once |
| `GoPoolProofs` | | tokens, counters, queue discipline, shutdown |

### QueueCore

One action is one callback of the event loop, since JavaScript runs a callback
to its end. `ProcessQueue` and `BatchImmediate` consume the head of
`immediates` (Node runs them in order); `ExecuteReturns`, `ExecutionTimeout`
and `PoolDone` are the ends of the promise chains; `QueueTimeout`,
`AgedBatches`, `MemoryNormal`, `MemoryPressured` and `PollQueue` are timers.
Two callbacks loop over the batch map and change the slot count on the way: they
are `AgedBatches` or `MemoryPressured` followed by one `SweepBatch` per category,
and `sweep` blocks all other actions meanwhile, so the loop stays atomic for
everyone else. The map's iteration order is left open.

- Arrays of tasks are sets of ids. Ids grow, tasks are only appended and never
  put back, so each array is sorted by id: `shift` takes the least elements
  (`IsOldest`), `pop` the greatest (`IsNewest`).
- A task's options are a record (`Kinds`); its function, its category's meaning
  and its payload do not matter to the queue.
- `age` and `batchAge` are ticks since the task's and the batch's creation;
  they saturate at `AgeCap`, beyond which no guard distinguishes them.
  `Punctual = FALSE` lets a timer be late by any amount, as it is when a
  callback blocks the loop.
- Heap usage is an environment choice, made anew at every memory check.
- `executing` is a ghost of what the code cannot see: `execute()` calls still
  running, also after their timeout.
- The microtasks that end one chain are one step: they commute with those of
  other chains because each touches its own task, and the counters they add to
  are read only by macrotasks.

### WorkerPool

The main thread's callback that walks over the workers is a sequence of steps
(`cursor`), because `handleWorkerFailure` reaches the walk in the middle of its
own work (`failing`): the model keeps the code's order of failing the task,
walking, and only then replacing the thread. Threads run in parallel with that
walk and talk through FIFO mailboxes. `postMessage` to an ended thread is lost,
as Node does it. The queue's processor appears as `SubmitTasks` (the `addTask`
calls of one `processQueue`, then one walk) and as the callbacks that settle a
task and free its slot.

Crashes, expired pings of live threads, hanging tasks and throwing
`postMessage` calls are bounded by `MaxFailures`, `MaxHangs`, `MaxPostFailures`.

### TaskLifecycle and QueueLifecycle

`TaskLifecycle` keeps one state per task (`new`, `waiting`, `running`, `pool`,
and the three ends) and lets one callback move any number of tasks, each along
one of nine moves. `QueueLifecycle` reads that state off the variables of
`QueueCore`; the components that only call the queue are specified against
`TaskLifecycle` and not against its internals.

### RequestPath

One step is one macrotask with the microtasks it settles: when the queue's
execution timer rejects a task, `use()` runs on to its end before the next timer.
A request is the record of what `analyze` reads: method, path marker, query,
body weight, workload hints. `analyze`, `mayJoinBatch` and `eligibleForWorker`
decide between main thread and worker pool exactly as the analyzer, the batch
test and `isWorkerEligibleTask` do; a large batchable task may go either way,
because a batch of its category may or may not be open, and `RequestPath` does
not see the batches. Memory pressure and overflow are free choices (`Refuse`).
`ResponseEnds` is the first of the response's `finish` and `close` events; after
a `close` no `finish` is assumed. Express sends nothing once the headers are out.

The request timer and the queue's execution timer have the same duration and
are armed in the same turn, the queue's first; Node keeps timers of one duration
in one list, so it fires first (`executionTimerRan`).

### Snapshot

A process goes through `loading`, `clearing`, `running` and `closing`; the file
outlives it. `fs.writeFile` is two steps, since it truncates the file when it
opens it (`Open`) and fills it later (`Write`), and the interval's saves do not
wait for each other. A write over what another save has written since may leave
a tail of the longer text (`Garbage`). `LoadFails`, `WriteFails` and `ClearFails` are
the errors the persistence swallows; `Crash` may come between any two steps, and an
error that left a hook of the queue service would end the process the same way
(`crashed`; `LoadNothing` returning null is what prevents it).
Processed and timed out tasks share one total; refused calls take no id. `real`,
`due`, `used` and `excused` are ghosts: which counters some process really had,
what a clean shutdown owes the next start, and which saves were restored.

### OrderFlow

Everything runs on one event loop, so an action is the code between two awaits.
What an already settled promise resumes runs before anything from outside is
looked at: `Quiet` is the guard of requests, timers, answers of the broker, resets
and signals. better-sqlite3 is synchronous, so a store call happens where it is
made and may fail there (the file is shared with the consumer processes). A reset
is two DELETEs without a transaction, so it may fail before, or between the two.
Event types and statuses are the numbers 1..4 of the flow. The in-process queue
is the drain loop up to its next await (`drain`), with the event in its hands in
`inflight`. For Kafka, `SendResolves` and `SendRejects` are the producer's
answers; a rejected send may be in the log all the same, and a producer that is
not idempotent may leave two copies. `out` is the ghost of what a channel
accepted of each order. `Hash` is the partitioner: with keys an order's events
go to the partition of the order, the inventory event to that of the product.

### OrderConsumer

The broker is external: a log per partition, the group's committed offsets, its
members, rebalances that wait for every member's handler, sessions that expire,
and commits refused to consumers that no longer hold the partition. A group runs
either the Node or the Go consumer (they use different groups); `cfg` holds the
options all its processes share. A handler goes through `precommit`, `process`
and `commit` or `leave`; a signal, an eviction or a process exit can fall between
any two. `Deliver` is a signal: SIGTERM before `process.on` was reached kills, as
the runtime's default does. A commit fails in three ways: it is refused to a
consumer that lost the partition (`CommitRefused`), it fails for a member, stored by
the broker or not (`CommitFails`), or SIGTERM cancels it in Go (`CommitCancelled`).
`cut` is the ghost of events that a consumer was cut off with or could not commit.
Two things are assumed of kafkajs and cannot be read off the repository: that a
graceful `disconnect()` lets the running handler end and commit, and that
`disconnect()` called inside `eachMessage`, as `leaveWithoutCommit` does, returns. The manager's two maps are `info` and `handles`; Go consumers are
started by hand and have neither. A consumer's row in the store and, for Go, its
success count are both `rows`.

### GoPool

An action is what one goroutine does atomically: one operation under the heap's
lock, on the semaphore channel, or on an atomic counter. `Submit` with its
dispatch loop is the exported interface of the pool; the engine itself reaches
the pool through `SubmitSync` only, so the two meet in tests and in callers to
come. `Expire` ends a task's context at any moment after it was made;
`CallFails` is an error of the gRPC call: the engine is not reached or drains, the
deadline passes, or the connection breaks, and the last two end the task's context
from the client's side. A closed stop channel and a tick may both be ready in the
loop's select, so a task may still be taken after `Stop` (`Dequeue` has no guard
against it). One pool is modelled; the router only chooses it.

## 3. Runs

| Run | Question | Result |
|---|---|---|
| `queue_mixed` | do slots, wake-ups, places, statistics, `totalSize` and the queue limit stay right with all priorities, two batch categories, pool tasks, pressure and late timers, and is every step a step of `TaskLifecycle`? | holds |
| `queue_liveness` | is every accepted task answered and every slot returned, even if `execute()` hangs and pressure lasts? | holds |
| `pool_chaos` | with threads that boot late, a crash or an expired ping, a hang and a failing post: one answer per task, one slot per open task? | holds |
| `pool_steady` | with threads that stay up: every task answered, nothing lost, results matched, type counts exact, no more threads at work on a type than its limit, no idle worker beside work? | holds |
| `request_races` | is a request answered at most once and, off the worker pool, in the end, though the controller may hang and the client leave; does nothing of it stay behind in the store, on the response or on the slots? | holds |
| `request_worker` | is a request that goes to the worker pool answered? | violated |
| `snapshot_restart` | do totals and ids survive restarts whole, once and in the right version, with overlapping saves, failing file operations and crashes; do `onModuleInit` and `onModuleDestroy` always return? | holds |
| `order_flow` | do orders, events, statuses and reports agree over both channels when the store, the broker, a reset, whole or half, or a shutdown interferes at any await; does every request and every queued event come to an end? | holds |
| `order_pending` | is `pending` what is left to process, as the dispatcher's comments say? | violated |
| `consumer_group` | what may each commit mode lose or repeat under kills, evictions, failed commits, rebalances, resets and restarts; is the lag honest, does a live group read on, does the manager keep track of its children? | holds |
| `consumer_first_commit` | is after-process at-least-once with the default settings? | violated |
| `go_pool` | are tokens, gauge and counters exact, by how much can the queue overshoot, who waits for whom; do calls, the head of the queue and `Stop` come to an end? | holds |

Most invariants are conjunctions of named parts, one idea each: `AssignmentsExact`
is `NoTaskLost`, `ResultMatchesTask` and `ActiveByTypeExact`; `RequestsTracked`,
`ManagerConsistent`, `QueueConsistent`, `WorkersExact`, `SnapshotSound` and
`SlotsHeld` hold their module's type invariant too; `QueueProgress`,
`RequestsEnd`, `FlowProgress`, `PoolProgress` and `HooksReturn` collect the
liveness properties of a component. The parts are stated, and commented, one by
one in the modules.

### What the violated runs show

1. `request_worker`: the pool gets a task's type and parameters, never its
   `execute()`, which holds the `next()` of the HTTP pipeline. When it reports
   success `enqueue` resolves, `use()` returns, and no response is ever sent.
   `MainThreadAnswered`, a part of `RequestsEnd` in `request_races`, is the same
   property for all other requests, and holds.
2. `consumer_first_commit`: with `fromBeginning` off, which is the default, a
   partition that has no commit yet is read from the end of its log at every
   assignment. One consumer owns the partition, an event is published, a second
   consumer joins before the first has committed anything: the rebalance moves
   the position past the event and nobody ever handles it.
   `AtLeastOnceFromBeginning` in `consumer_group` shows that the promise holds
   when partitions are read from the beginning.
3. `order_pending`: the comments at `memory-order.dispatcher.ts:34` and `:71` say
   that the difference of the counters is what is still in the queue, and that
   `pending` is what a crash now loses. `drain` shifts an event before it waits and
   records it, so for that long the event is in neither figure: one more is lost
   than `pending` says. `QueueConsistent` in `order_flow` states what does hold: the
   difference is what is queued and the event in hand, and there is at most one.

### What the passing runs exclude

Some effects of the code lie outside what the properties claim; changing a
constant shows them.

- `pool_steady` with `ColdStart = TRUE` violates `NoTaskLost`: the late
  `initialized` message of a thread that already works marks it idle, and the
  next task replaces the first in `assignedTasks`
  (`worker-pool.service.ts:226`).
- With `MaxFailures = 1` it violates `NoTaskLost` too: the replacement of a failed
  thread boots just as late. `handleWorkerFailure` also walks over the workers
  before it replaces the dead one, so a queued task can be posted to the dead
  thread and stay unanswered (`worker-pool.service.ts:261`).
- Both settings violate `RunningWithinLimit` as well: an overwritten assignment is
  counted down once for two tasks, so the counter that `canDispatchType` compares
  falls behind the threads at work, and a type may exceed its limit.
- With `MaxHangs = 1` and no other property, it violates `PoolEventuallySettles`:
  nothing times out a synchronous task in a thread
  (`worker-health.service.ts:26`).
- An execution timeout frees the slot while `execute()` goes on (`executing` in
  `QueueCore`), so `QUEUE_MAX_CONCURRENT_REQUESTS` bounds slots and not work.
- `cleanupOldTasks` judges a batch by its `createdAt`, so a fresh task in an old
  batch is timed out with it.
- The 408 answer of the middleware's own timer is dead code: the queue's timer is
  always first, and its 503 is what a slow request gets (`TimerNeverAnswers`).
- A reset whose second DELETE fails leaves orders whose events are gone;
  `ResetIsClean` speaks of the orders it deleted.
- `order.controller.ts:45` says that with keys the steps of an order gather in one
  partition. The inventory event is keyed by its product (`docs/kafka-lab-plan.md`
  explains why), so an order may scatter with keys too; `ScatterIsHonest` says when.
- `Submit` of the Go pool looks at the length and enqueues under two locks, and
  `SubmitSync` does not queue at all: it competes for the semaphore, although its
  comment at `submit_sync.go:10` says that it enqueues. So `MaxQueue` is not quite
  the upper limit that `docs/go-heavy-worker-engine.md:55` calls it: racing
  submitters exceed it by their number less one (`QueueOvershoot`), and calls that
  wait for a worker are not counted.
- The Go heap has no aging and a queued task no deadline (`priority.go:34`): under a
  steady load of higher priorities a low task waits for ever. `HeadRuns` promises
  progress to the head of the heap only.
- With `GO_POOL_*_WORKERS=0`, which `envInt` accepts, no task of the pool ever runs;
  safety holds (the theorems allow it), progress does not.
- Overlapping saves may leave an unreadable file or an older snapshot;
  `LatestWins` and `CleanRestart` hold where saves do not overlap.
- A Go commit that SIGTERM cancels counts as a success, so its event is read
  again; it is one of the cuts that `DuplicatesWereCut` allows, and so is a commit
  that fails for a live member. In before-process mode an event whose commit was
  stored and reported as failed is lost if the partition moves before it is read
  again (`LossWasCut`).

### Bounds

`queue_mixed`: three tasks, two slots, overflow at two waiting tasks. Two tasks
fill the slots and the third waits, so full slots with waiting work, overflow
and partial dispatch all happen (a refused call changes only a counter and is
left to `queue_liveness`). The timeouts are one
tick, so a task can be due in every place. The five sorts of task are a high one, a
normal one for the workers, and batchable ones of two sizes in one category and of
one size in another: two loops' iterations compete for the last slot, and a batch is
dispatched in two parts and grows while its first part runs. `queue_liveness`: one slot, two tasks: the second waits for
the first to hang. `pool_chaos`: two workers, three tasks, one fault of each
kind, so that a fault hits while another task is queued and the other worker is
idle or busy; `pool_steady` has four tasks so that two queue up behind two busy
workers and differ in type. Type limits of 1 and 2 make one type blocked while
the other is free. `MaxTasks` and `MaxRefused` bound the callers, nothing else.
`request_races`: requests share no state but the store, where each has its own
entry, so two of them, each of six sorts (bypassed, must join and may join a
batch, low priority, worker task, custom code), are already more than needed.
`snapshot_restart`: three saves and three starts, so that two saves overlap
before a final one and a restored snapshot is saved and restored again; two
faults, so that a crash can follow a failed write. `order_flow`: two requests of
every route with at most two orders each, two partitions, one disturbance (a
store error, a broker error or a reset) at any await and a shutdown; counts of 0
and 9 reach both ends of the clamp. `consumer_group`: two consumers in all, as
one process of two or as two processes (one after the other as well), one
partition, so that every rebalance moves it, two events, so that an offset can
be right or wrong by one, two disturbances, so that a kill can follow an
eviction, a failed commit or a reset. `go_pool`: one worker, a queue of one, two
queued tasks of different priority and one gRPC call, so that both submitters pass
the length check, a low task holds the loop while a high one arrives, and a call
overtakes both; one retry, since further ones add no case.

### Fairness

`QueueCore!Fairness`: weak fairness of immediates and of the loop that is
running (the event loop drains them), strong fairness of each task's timers and
of time, because a running batch loop disables them for a moment and may do so
again and again. Nothing is assumed of callers, of `execute()` returning, of
memory usage, of the poll or of batch aging: the event-driven path alone must do.
`WorkerPool!Fairness`: the main thread runs its callbacks, a thread that is not
hung goes on, the health check runs, and the ping timer of a thread that is gone
expires. `RequestPath!Fairness`: the two timers of a running request fire, the queue starts
or drops a waiting task (that is `EventuallySettled`, checked of `QueueCore`), the
pool calls back, and a response that was sent is written or its connection
closes. Controllers may hang and clients may stay for ever.
`Snapshot!Fairness`: started file operations end, by success or error, and awaits
resume. Nothing is assumed of `Exit`: `app.close()` waits for open connections, and
`request_worker` shows one that is never answered. `OrderFlow!Fairness`: microtasks and elapsed timers run, and kafkajs
settles every send and disconnect, by its own timeouts if need be.
`OrderConsumer!FairSpec`: event loops, goroutines and the coordinator go on,
sessions of silent members expire; nobody has to publish, spawn, stop or reset.
`GoPool!Fairness`: the Go scheduler runs goroutines that can go on, handlers end,
and the semaphore, a channel, lets its waiting senders in one after the other. There
must be a worker at all; `go_pool` has one.
In none of them is fairness put on an outcome (success, crash).

## 4. Proofs

Every invariant of a passing run, the refinement of `queue_mixed` and the action
property of `consumer_group` are theorems: TLC checks them on the instances of
section 3, TLAPS for every value of the constants that the `ASSUME`s allow.

| Theorem | Module | Says |
|---|---|---|
| `TypeCorrect` | `QueueCoreProofs` | `Spec => []TypeOK` |
| `SlotsBounded` | `QueueCoreProofs` | `activeRequests` never exceeds the cap |
| `SignalExact` | `QueueCoreProofs` | `processSignalPending` iff exactly one immediate is scheduled |
| `WakeupNeverLost` | `QueueCoreProofs` | waiting work and a free slot imply a scheduled immediate |
| `NothingLostOrDoubled` | `QueueCoreProofs` | each task is in one place, or settled in one way |
| `SlotsExact` | `QueueCoreProofs` | `activeRequests` is the number of tasks that hold a slot |
| `StatsExact` | `QueueCoreProofs` | every end of a task is counted once |
| `OverflowBounded` | `QueueCoreProofs` | no more tasks wait than the overflow threshold |
| `BatchSizesExact` | `QueueCoreProofs` | `totalSize` is the sum of the sizes in the batch |
| `QueueImplementsLifecycle` | `QueueLifecycleProofs` | `Spec => Lifecycle!Spec`: each step moves each task along the lifecycle or leaves it |
| `TasksSettledOnce` | `WorkerPoolProofs` | a task is answered once, and not while it is queued or assigned |
| `SlotsExactlyHeld` | `WorkerPoolProofs` | one slot per unanswered task |
| `BooksExact` | `WorkerPoolProofs` | in a steady pool no task drops out, results match, type counts are exact |
| `TypesLimited` | `WorkerPoolProofs` | in a steady pool no more threads have a task of a type to run than its limit |
| `NoneIdle` | `WorkerPoolProofs` | in a steady pool no worker idles beside a task it could run |
| `AnsweredAtMostOnce` | `RequestPathProofs` | at most one answer, never the request timer's |
| `NothingLeftBehind` | `RequestPathProofs` | a running task can be ended, no entry is orphaned |
| `SnapshotsSound` | `SnapshotProofs` | a readable snapshot is one that a process really had |
| `SnapshotsRestoredOnce` | `SnapshotProofs` | a snapshot is restored again only if its removal failed or was cut short |
| `NewestSaveKept` | `SnapshotProofs` | saves that do not overlap or fail keep the newest counters |
| `QueueStaysConsistent` | `OrderFlowProofs` | the in-process queue strands and reorders nothing; every event is queued, the one in hand, recorded or counted as failed |
| `FlowFollowed` | `OrderFlowProofs` | events go out in flow order and the status keeps up |
| `ReportsHonest` | `OrderFlowProofs` | results and scatter report say what happened |
| `ResetHonoured` | `OrderFlowProofs` | a reset is not undone by a lifecycle under way |
| `ManagerIsConsistent` | `OrderConsumerProofs` | handles, offsets and limits agree |
| `RepeatsAreExplained` | `OrderConsumerProofs` | only a reset, a cut or a failed commit repeats an event |
| `LossIsExplained` | `OrderConsumerProofs` | only before-process loses an event, and only by a cut or a commit stored but reported as failed |
| `ReadAtLeastOnce` | `OrderConsumerProofs` | after-process from the beginning skips nothing |
| `TokensExact` | `GoPoolProofs` | one token per task with a worker |
| `QueueDisciplined` | `GoPoolProofs` | the queue's overshoot and the priority inversion are bounded |
| `CountsHonest` | `GoPoolProofs` | counters and clients tell the truth |
| `StopIsQuiet` | `GoPoolProofs` | after `Stop` nothing runs |

Assumptions. The limits of the Node process are positive naturals
(`readPositiveIntEnv` accepts nothing else); the Go engine's `envInt` accepts any
number, so `Workers` may be zero there (a negative one panics at start-up), and
`MaxQueue` is positive because `cmd/engine/main.go:48`, `:61` and `:75` fix it. Cleanup waits at least as long as the queue timeout (it is 1.5 times the
same setting), and no category has the name of the process signal; requests,
tasks and consumers are finite sets, and the environment is one of `Settings` or
`Options`. Each is a named `ASSUME` of the module that declares the constant, and
TLC evaluates it in that module's runs. Three theorems carry a hypothesis of their
own: `BooksExact`, `TypesLimited` and `NoneIdle` are about a pool whose threads are
up before the first task and do not crash, hang or miss a ping (`SteadyPool`), the
last one also without a throwing `postMessage`. That is the pool of `pool_steady`, and
"What the passing runs exclude" says how each property fails without it.

### The inductive invariants

Hardly any of the properties is inductive as it stands. What each needs:

- **Queue.** `TypeOK` is inductive, given that a step only adds ids below the new
  `Len(kind)`. `WakeupInv` joins the slot bound, the flag and the wake-up: that a
  finished task may skip scheduling when the flag is up is right only if the flag
  is never up without an immediate, and `ProcessQueue` leaves work behind only if
  it has used all slots. `SinglePlace` is split into `Covered` (no task is
  nowhere), `CellsDisjoint` (levels, categories and groups do not overlap) and
  `Apart` (the kinds of place do not overlap); each action moves one set `D` from
  one cell to another, and a lemma per shape of move carries the three parts.
  `CountsInv` counts the cells: since they are apart, moving `D` changes two
  cardinalities by `Cardinality(D)`, and the counters change by the same. The
  clamp of `decrementActiveRequests` needs that the holder of a slot is counted.
  Batch sizes are sums over sets, written as cardinalities of sets of units
  (`SizeOfUnion`, `SizeOfDifference`), so that they need no induction.
- **Refinement.** It rests on `SinglePlace`, which makes the cases of `stateOf`
  exclude each other, so that "in `main`" or "in `timedOut`" can be read as the
  state. Each action says between which cells its tasks flow, and a lemma per
  flow turns that into one of the nine moves.
- **Worker pool.** `ChaosInv` holds whatever threads do: `SlotStep` says what a
  step can do to open tasks and slots, and every action is one of its three
  cases. Results carry no task id, so that they match in a steady pool needs the
  mailboxes: `MailOK` says that at most one message about a task is under way to
  or from a worker, and that it is the assigned one. So the threads at work on a
  type are among the workers that the exact count of the type counts, and the count
  keeps the limit: that is `TypesLimited`. `WalkInv` says of the walk
  that the workers behind the cursor are busy.
- **Requests.** `Sound` ties the store's entry to the wait of `use()`, the wait to
  an open task, and listeners to a running task or to an answer already given.
- **Snapshots.** `AllReal` extends "the file is a figure some process had" to the
  counters and to the writes under way; `Accounted` bounds the figures. `OnceInv`
  adds that a save under way was never restored. `LatestInv` follows one save
  from its open to its write (`OneSave`, `Opened`) and what a shutdown noted to
  the file (`DueSaved`).
- **Orders.** `FlowInv` has four parts. `BaseInv`: types, where a request can be
  with what it holds (`Walk`), the flags of the host, and a loop that holds one
  event exactly while it drains. `OutInv`: of each order that went out, the events
  are a gapless prefix of the flow (`Flowing`); of the order a request is at, how
  far (`UnderWay`); of later orders, nothing (`Untouched`). `LineInv`: what is
  queued, in hand or stored went out before, so the next event comes after all of
  them; hence rows, hand and queue are in order and no row is written twice.
  `ReportInv`: the partitions gathered so far are those of the steps sent, and
  without trouble no finished order misses its result. Missing results are counted
  by a surjection of the results onto the order numbers.
- **Consumers.** `LivesInv` says which consumers can work at all. `GroupInv` is the
  heart: a member's event in hand is the next one of a partition it owns, whatever
  else is in hand was cut off, and an owner reads at or after the committed offset
  (`Ahead`), except for an event that it committed first or whose commit was stored
  and reported as failed. `Regroup` describes all membership changes at once: rebalance, leave,
  eviction, exit and kill are instances of it. `Repeats` and `PaidFor` say of each
  event handled twice, or committed and not handled, which cut or reset explains
  it; `ReadInv` says the same of positions, for the action property.
- **Go pool.** `WorkersInv` counts places: tokens, gauge and heap are each the
  tasks at some set of places, and each action moves one task. `CountsInv` ties
  counters to outcomes and outcomes to places. `StopInv` orders the shutdown: no
  call after `GracefulStop`, no loop and no dispatched task after `Stop`, and a
  task that was taken out is in the loop's hands (`InHands`).

TLC checked each of these invariants on the instance of its run before it was
proved.

Model-checked only: the liveness properties (`QueueProgress`,
`PoolEventuallySettles`, `RequestsEnd`, `EventuallyRead`, `NoOrphans`,
`FlowProgress`, `PoolProgress`, `HooksReturn`), since fairness and `ENABLED` are
out of the prover's reach, and the three violations.

## 5. Plan

The components that carry the system's logic are modelled, and their safety
properties are proved. What is left:

1. The safety halves of the liveness arguments, as invariants of their own: for
   every state in which a task, request or event waits, the action that serves it
   is enabled (stated without `ENABLED`, by its guard).
2. `EngineRouter` (health, choice of back-end, fall-back), and the pure algorithms
   (percentiles, option parsing) against reference definitions.

## 6. Not modelled

Load tests and benchmark drivers (their state is timings), the dashboard (it
shows what the server reports), start-up wiring and validation of settings, the
topic provisioner (one admin call), the engine router and its Kafka back-end,
SQL and wire formats (data), the code of the worker's processors and of the Go
handlers (data), read-only views of the inspector and of the order store.
`processWithoutWorkers` has no caller. `destroy()` of the worker pool runs when
the process ends and is left out, as is a failing connection at start-up. Time
is abstract everywhere: a timer fires at some moment after it was armed.
