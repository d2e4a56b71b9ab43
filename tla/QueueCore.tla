------------------------------ MODULE QueueCore ------------------------------
(***************************************************************************)
(* The in-process request queue of the NestJS server: QueueService,        *)
(* QueueProcessorService, QueueStateHolder, BatchService, MemoryService    *)
(* and QueueStatsService (src/src/queue).  The worker pool is seen only     *)
(* through the callbacks it makes (module WorkerPool models it).            *)
(*                                                                         *)
(* All of this code runs on one event loop, so every callback the loop      *)
(* makes (an immediate, a timer, a settled promise, a call of enqueue) is   *)
(* one step.  The only callbacks with several visible steps are the two     *)
(* loops over batchQueues (processAgedBatches, forceReduceQueues): sweep    *)
(* holds the categories the running loop has still to visit, and no other   *)
(* step is taken until it is empty.                                         *)
(*                                                                         *)
(* Arrays of waiting tasks are sets of task ids.  This loses nothing: ids   *)
(* are handed out by ++taskIdCounter in the synchronous block that also     *)
(* pushes the task, nothing is ever pushed back, so every array is sorted   *)
(* by id: shift() takes the least element and pop() the greatest.           *)
(***************************************************************************)
EXTENDS Integers, Sequences, FiniteSets

CONSTANTS
  Categories,               \* category names used with batch = true
  Kinds,                    \* the normalised options enqueue is called with
  MaxSize,                  \* the largest size among Kinds
  ConcurrentTasks,          \* QUEUE_CONCURRENT_TASKS
  MaxConcurrentRequests,    \* QUEUE_MAX_CONCURRENT_REQUESTS
  QueueOverflowThreshold,   \* QUEUE_OVERFLOW_THRESHOLD
  BatchSizeThreshold,       \* BATCH_SIZE_THRESHOLD, tasks
  BatchMaxSize,             \* BATCH_MAX_SIZE, total size
  BatchEligibleSizeMax,     \* BATCH_ELIGIBLE_SIZE_MAX, size of the first task
  ForceReduceBatchSize,     \* FORCE_REDUCE_BATCH_SIZE_THRESHOLD, total size
  TaskTimeout,              \* QUEUE_TASK_TIMEOUT_MS, in clock ticks
  CleanupMaxAge,            \* 1.5 * QUEUE_TASK_TIMEOUT_MS, in clock ticks
  BatchMaxAge,              \* BATCH_MAX_AGE_MS, in clock ticks
  WorkersEnabled,           \* WorkerPoolService.isEnabled
  GcExposed,                \* global.gc exists (node --expose-gc)
  Punctual,                 \* no callback blocks the loop for a whole tick
  MaxTasks,                 \* bound: tasks accepted in one behaviour
  MaxRefused                \* bound: enqueue calls refused in one behaviour

Workloads == {"cpu", "memory", "custom", "unknown", "none"}

KindType == [priority : Int, batch : BOOLEAN, category : Categories,
             size : 1..MaxSize, workload : Workloads]

ASSUME KindsAssumption == Kinds \subseteq KindType

\* readPositiveIntEnv accepts positive integers only.
ASSUME LimitsAssumption ==
  /\ ConcurrentTasks \in Nat \ {0}
  /\ MaxConcurrentRequests \in Nat \ {0}
  /\ QueueOverflowThreshold \in Nat \ {0}
  /\ MaxSize \in Nat \ {0}
  /\ MaxTasks \in Nat
  /\ MaxRefused \in Nat
  /\ BatchSizeThreshold \in Nat
  /\ BatchMaxSize \in Nat
  /\ BatchEligibleSizeMax \in Nat
  /\ ForceReduceBatchSize \in Nat
  /\ WorkersEnabled \in BOOLEAN
  /\ GcExposed \in BOOLEAN
  /\ Punctual \in BOOLEAN

ASSUME TimeAssumption ==
  /\ TaskTimeout \in Nat \ {0}
  /\ BatchMaxAge \in Nat \ {0}
  /\ CleanupMaxAge \in Nat
  /\ CleanupMaxAge >= TaskTimeout

\* The immediate that runs processQueue; the others run processBatch(category).
ProcessSignal == "processQueue"

ASSUME CategoriesAssumption == ProcessSignal \notin Categories

VARIABLES
  kind,                  \* options of the tasks accepted so far, by id
  queue,                 \* high/normal/lowPriorityQueue
  batchTasks,            \* batchQueues: tasks of a category, {} when absent
  batchTotalSize,        \* batchQueues: totalSize of a category
  batchAge,              \* ticks since createdAt of the category's batch
  age,                   \* ticks since a task's timestamp
  activeRequests,        \* slots in use
  main,                  \* tasks whose promise chain in processQueue is open
  pool,                  \* tasks handed to the worker pool and not called back
  groups,                \* tasks of each open Promise.all of processBatch
  executing,             \* tasks whose execute() has started and not returned
  resolved, rejected, timedOut,                  \* how a task was settled
  totalProcessed, totalRejected, totalTimeout,   \* QueueStatsService
  refused,               \* enqueue calls that threw
  memoryPressure,
  processSignalPending,
  immediates,            \* Node's setImmediate queue
  sweep                  \* categories the running batch loop has yet to visit

queueVars == <<queue, batchTasks, batchTotalSize, batchAge>>
runVars   == <<activeRequests, main, pool, groups, executing>>
endVars   == <<resolved, rejected, timedOut>>
statVars  == <<totalProcessed, totalRejected, totalTimeout, refused>>
loopVars  == <<processSignalPending, immediates>>
vars == <<kind, age, queueVars, runVars, endVars, statVars, memoryPressure,
          loopVars, sweep>>

-----------------------------------------------------------------------------
(* State the code derives *)

Tasks   == 1..Len(kind)
Levels  == {"high", "normal", "low"}
\* Ages saturate here: no guard tells greater ages apart.
AgeCap  == (IF BatchMaxAge > CleanupMaxAge THEN BatchMaxAge
            ELSE CleanupMaxAge) + 1
Settled == resolved \cup rejected \cup timedOut
Grouped == UNION groups

Least(a, b)  == IF a <= b THEN a ELSE b
AtLeast0(n)  == IF n >= 0 THEN n ELSE 0

\* priority >= 5 => high, >= 0 => normal, < 0 => low
Level(k) == CASE k.priority >= 5 -> "high"
              [] k.priority < 0  -> "low"
              [] OTHER           -> "normal"

Batched == UNION {batchTasks[c] : c \in Categories}
Leveled == queue["high"] \cup queue["normal"] \cup queue["low"]
Queued  == Leveled \cup Batched

\* Mutant: batches are not counted.
TotalWithoutBatches ==
  Cardinality(queue["high"]) + Cardinality(queue["normal"])
    + Cardinality(queue["low"])

getTotalQueueLength ==
  Cardinality(queue["high"]) + Cardinality(queue["normal"])
    + Cardinality(queue["low"]) + Cardinality(Batched)

\* The sum of the sizes of a set of tasks, counted in units of size.
SizeOf(S, kd) ==
  Cardinality({u \in S \X (1..MaxSize) : u[2] <= kd[u[1]].size})

\* A cell of the array is dispatched before another: by queue, then by id.
Rank(t) == CASE t \in queue["high"]   -> 1
             [] t \in queue["normal"] -> 2
             [] OTHER                 -> 3
Before(a, b) == Rank(a) < Rank(b) \/ (Rank(a) = Rank(b) /\ a < b)

\* D is what n shift() calls take from the sorted array S.
IsOldest(D, S, n) ==
  /\ D \subseteq S
  /\ Cardinality(D) = n
  /\ \A a \in D, b \in S \ D : a < b

\* D is what n pop() calls take from the sorted array S.
IsNewest(D, S, n) ==
  /\ D \subseteq S
  /\ Cardinality(D) = n
  /\ \A a \in D, b \in S \ D : b < a

\* The event loop is between two callbacks.
Idle == sweep = {}

-----------------------------------------------------------------------------
(* Scheduling: requestProcessQueue *)

\* Mutant: the flag is raised but no immediate is scheduled.
RaiseFlagOnly(imm) ==
  /\ processSignalPending' = TRUE
  /\ immediates' = imm

\* requestProcessQueue, when the immediates scheduled so far are imm.
requestProcessQueue(imm) ==
  /\ processSignalPending' = TRUE
  /\ immediates' = IF processSignalPending THEN imm
                   ELSE Append(imm, ProcessSignal)

-----------------------------------------------------------------------------
(* QueueService.enqueue *)

MustRefuse(k) ==
  \/ memoryPressure /\ k.priority < 0
  \/ getTotalQueueLength >= QueueOverflowThreshold

EnqueueRefused(k) ==
  /\ Idle
  /\ MustRefuse(k)
  /\ refused < MaxRefused
  /\ refused' = refused + 1
  /\ totalRejected' = totalRejected + 1
  /\ UNCHANGED <<kind, age, queueVars, runVars, endVars, totalProcessed,
                 totalTimeout, memoryPressure, loopVars, sweep>>

shouldAddToBatch(k) ==
  /\ k.batch
  /\ k.priority < 5
  /\ batchTasks[k.category] # {} \/ k.size <= BatchEligibleSizeMax

\* The batch has reached the size at which its own immediate is scheduled.
BatchIsFull(c) ==
  \/ Cardinality(batchTasks'[c]) >= BatchSizeThreshold
  \/ batchTotalSize'[c] >= BatchMaxSize

addTaskToBatch(t, k) ==
  LET c == k.category IN
  /\ batchTasks' = [batchTasks EXCEPT ![c] = @ \cup {t}]
  /\ batchTotalSize' = [batchTotalSize EXCEPT ![c] = @ + k.size]
  /\ batchAge' = IF batchTasks[c] = {} THEN [batchAge EXCEPT ![c] = 0]
                 ELSE batchAge
  /\ requestProcessQueue(IF BatchIsFull(c) THEN Append(immediates, c)
                         ELSE immediates)
  /\ UNCHANGED queue

pushTask(t, k) ==
  /\ queue' = [queue EXCEPT ![Level(k)] = @ \cup {t}]
  /\ requestProcessQueue(immediates)
  /\ UNCHANGED <<batchTasks, batchTotalSize, batchAge>>

EnqueueAccepted(k) ==
  LET t == Len(kind) + 1 IN
  /\ Idle
  /\ ~MustRefuse(k)
  /\ t <= MaxTasks
  /\ kind' = Append(kind, k)
  /\ age' = Append(age, 0)
  /\ \/ shouldAddToBatch(k) /\ addTaskToBatch(t, k)
     \/ ~shouldAddToBatch(k) /\ pushTask(t, k)
  /\ UNCHANGED <<runVars, endVars, statVars, memoryPressure, sweep>>

-----------------------------------------------------------------------------
(* QueueProcessorService.processQueue *)

isWorkerEligibleTask(t) ==
  /\ WorkersEnabled
  /\ kind[t].priority >= 0
  /\ kind[t].workload \in {"cpu", "memory", "custom"}

\* The queues processQueue drains, in the order Before gives.
Ready == IF memoryPressure THEN queue["high"] \cup queue["normal"] ELSE Leveled

\* Mutant: the per-call quota is not cut down to the free slots.
UncappedSlots == ConcurrentTasks

availableSlots ==
  Least(ConcurrentTasks, MaxConcurrentRequests - activeRequests)

\* Mutant: the finally block looks only at the high and normal queues it
\* drained, as if the low queue and the batches could not hold work.
MoreHighOrNormal ==
  /\ activeRequests' < MaxConcurrentRequests
  /\ queue'["high"] \cup queue'["normal"] # {}

\* The finally block: slots are left and some task still waits.
MoreToDo ==
  /\ activeRequests' < MaxConcurrentRequests
  /\ Queued' # {}

dispatch(D) ==
  LET toPool == {t \in D : isWorkerEligibleTask(t)} IN
  /\ queue' = [l \in Levels |-> queue[l] \ D]
  /\ activeRequests' = activeRequests + Cardinality(D)
  /\ pool' = pool \cup toPool
  /\ main' = main \cup (D \ toPool)
  /\ executing' = executing \cup (D \ toPool)
  /\ UNCHANGED <<batchTasks, batchTotalSize, batchAge, groups>>

\* The immediate scheduled by requestProcessQueue.
ProcessQueue ==
  /\ Idle
  /\ immediates # << >>
  /\ Head(immediates) = ProcessSignal
  /\ \/ /\ activeRequests >= MaxConcurrentRequests
        /\ processSignalPending' = FALSE
        /\ immediates' = Tail(immediates)
        /\ UNCHANGED <<queueVars, runVars>>
     \/ /\ activeRequests < MaxConcurrentRequests
        /\ \E D \in SUBSET Ready :
             /\ Cardinality(D) = Least(availableSlots, Cardinality(Ready))
             /\ \A a \in D, b \in Ready \ D : Before(a, b)
             /\ dispatch(D)
        /\ processSignalPending' = MoreToDo
        /\ immediates' = IF MoreToDo THEN Append(Tail(immediates), ProcessSignal)
                         ELSE Tail(immediates)
  /\ UNCHANGED <<kind, age, endVars, statVars, memoryPressure, sweep>>

-----------------------------------------------------------------------------
(* Completion: the promise chains of processQueue and processBatch, and the *)
(* callbacks of the worker pool.  The microtasks of one chain commute with  *)
(* those of the others, so each chain ends in one step.                     *)

\* Mutant: a failed task keeps its slot.
KeepSlotOnFailure(n, ok) == IF ok THEN AtLeast0(activeRequests - n)
                            ELSE activeRequests

\* Mutant: catch and finally both give the slot back, and the clamp is gone.
FreeSlotTwice(n, ok) == activeRequests - (IF ok THEN n ELSE 2 * n)

\* decrementActiveRequests, n times, at the end of work that went well or not.
slotsAfter(n, ok) == AtLeast0(activeRequests - n)

settle(t, ok) ==
  /\ resolved' = IF ok THEN resolved \cup {t} ELSE resolved
  /\ rejected' = IF ok THEN rejected ELSE rejected \cup {t}
  /\ UNCHANGED timedOut

\* then/catch/finally of a task processQueue runs itself, and the callbacks
\* onSuccess/onFailed/onWorkerTaskDispatchFailed of the pool: all four settle
\* one task, count it, give its slot back and wake the queue.
finishOne(t, ok) ==
  /\ settle(t, ok)
  /\ totalProcessed' = totalProcessed + (IF ok THEN 1 ELSE 0)
  /\ totalRejected' = totalRejected + (IF ok THEN 0 ELSE 1)
  /\ activeRequests' = slotsAfter(1, ok)
  /\ requestProcessQueue(immediates)
  /\ UNCHANGED <<totalTimeout, refused>>

finishMain(t, ok) ==
  /\ t \in main
  /\ main' = main \ {t}
  /\ finishOne(t, ok)
  /\ UNCHANGED <<pool, groups>>

\* Mutant: failures of a group are not counted.
FailuresForgotten(G) == 0

\* The failures a finished group reports to onComplete.
failedOf(G) == Cardinality(G \cap rejected')

\* The finally block of a group's Promise.all: onComplete(processed, -n, failed).
closeGroup(G) ==
  /\ groups' = groups \ {G}
  /\ totalProcessed' = totalProcessed + Cardinality(G \cap resolved')
  /\ totalRejected' = totalRejected + failedOf(G)
  /\ activeRequests' = slotsAfter(Cardinality(G), TRUE)
  /\ requestProcessQueue(immediates)

finishGrouped(t, ok) ==
  \E G \in groups :
    /\ t \in G
    /\ settle(t, ok)
    /\ \/ G \subseteq Settled' /\ closeGroup(G)
       \/ /\ ~(G \subseteq Settled')
          /\ UNCHANGED <<groups, totalProcessed, totalRejected, activeRequests,
                         loopVars>>
    /\ UNCHANGED <<main, pool, totalTimeout, refused>>

finish(t, ok) == finishMain(t, ok) \/ finishGrouped(t, ok)

\* execute() of a task returns or throws.  withExecutionTimeout drops the
\* result when the task was settled by its execution timer before.
ExecuteReturns(t, ok) ==
  /\ Idle
  /\ t \in executing
  /\ executing' = executing \ {t}
  /\ \/ t \notin Settled /\ finish(t, ok)
     \/ /\ t \in Settled
        /\ UNCHANGED <<main, pool, groups, activeRequests, endVars, statVars,
                       loopVars>>
  /\ UNCHANGED <<kind, age, queueVars, memoryPressure, sweep>>

\* The execution timer: the task is rejected, execute() itself goes on.
ExecutionTimeout(t) ==
  /\ Idle
  /\ t \in executing \ Settled
  /\ finish(t, FALSE)
  /\ UNCHANGED <<kind, age, queueVars, executing, memoryPressure, sweep>>

\* The worker pool calls back for a task: result, failure, or failed dispatch.
PoolDone(t, ok) ==
  /\ Idle
  /\ t \in pool
  /\ pool' = pool \ {t}
  /\ finishOne(t, ok)
  /\ UNCHANGED <<kind, age, queueVars, main, groups, executing,
                 memoryPressure, sweep>>

-----------------------------------------------------------------------------
(* wrapTaskWithQueueTimeout and removeTaskFromQueues *)

\* Mutant: the size of the removed task stays in totalSize.
SizeKept(c, t) == batchTotalSize[c]

sizeWithout(c, t) == batchTotalSize[c] - kind[t].size

removeTaskFromQueues(t) ==
  /\ queue' = [l \in Levels |-> queue[l] \ {t}]
  /\ batchTasks' = [c \in Categories |-> batchTasks[c] \ {t}]
  /\ batchTotalSize' = [c \in Categories |->
        IF t \in batchTasks[c] THEN sizeWithout(c, t) ELSE batchTotalSize[c]]
  /\ batchAge' = [c \in Categories |->
        IF batchTasks[c] = {t} THEN 0 ELSE batchAge[c]]

\* Mutant: the timer does not look whether the task still waits.
NotSettledYet(t) == t \notin Settled

\* Mutant: the timer looks for the task in the three arrays only.
InArraysOnly(t) == t \in Leveled

stillQueued(t) == t \in Queued

QueueTimeout(t) ==
  /\ Idle
  /\ age[t] >= TaskTimeout
  /\ stillQueued(t)
  /\ removeTaskFromQueues(t)
  /\ totalTimeout' = totalTimeout + 1
  /\ timedOut' = timedOut \cup {t}
  /\ UNCHANGED <<kind, age, runVars, resolved, rejected, totalProcessed,
                 totalRejected, refused, memoryPressure, loopVars, sweep>>

-----------------------------------------------------------------------------
(* BatchService.processBatch and its three callers *)

dispatchCount(c) ==
  Least(Cardinality(batchTasks[c]), MaxConcurrentRequests - activeRequests)

processBatch(c) ==
  \/ /\ batchTasks[c] = {} \/ activeRequests >= MaxConcurrentRequests
     /\ UNCHANGED <<queueVars, runVars>>
  \/ /\ batchTasks[c] # {}
     /\ activeRequests < MaxConcurrentRequests
     /\ \E D \in SUBSET batchTasks[c] :
          /\ IsOldest(D, batchTasks[c], dispatchCount(c))
          /\ batchTasks' = [batchTasks EXCEPT ![c] = @ \ D]
          /\ batchTotalSize' =
               [batchTotalSize EXCEPT ![c] = AtLeast0(@ - SizeOf(D, kind))]
          /\ groups' = groups \cup {D}
          /\ executing' = executing \cup D
          /\ activeRequests' = activeRequests + Cardinality(D)
     /\ batchAge' = [batchAge EXCEPT ![c] = 0]
     /\ UNCHANGED <<queue, main, pool>>

\* The immediate addTaskToBatch schedules for a full batch.
BatchImmediate(c) ==
  /\ Idle
  /\ immediates # << >>
  /\ Head(immediates) = c
  /\ immediates' = Tail(immediates)
  /\ processBatch(c)
  /\ UNCHANGED <<kind, age, endVars, statVars, memoryPressure,
                 processSignalPending, sweep>>

\* The batch aging interval: processAgedBatches starts its loop.
AgedBatches ==
  /\ Idle
  /\ sweep' = {c \in Categories : /\ batchTasks[c] # {}
                                  /\ batchAge[c] >= BatchMaxAge}
  /\ UNCHANGED <<kind, age, queueVars, runVars, endVars, statVars,
                 memoryPressure, loopVars>>

\* One iteration of the running loop.  The Map's order is left open.
SweepBatch(c) ==
  /\ c \in sweep
  /\ sweep' = sweep \ {c}
  /\ processBatch(c)
  /\ UNCHANGED <<kind, age, endVars, statVars, memoryPressure, loopVars>>

-----------------------------------------------------------------------------
(* MemoryService.checkMemoryUsage, with the interval callback around it *)

MemoryNormal ==
  /\ Idle
  /\ memoryPressure' = FALSE
  /\ \/ queue["low"] # {} /\ requestProcessQueue(immediates)
     \/ queue["low"] = {} /\ UNCHANGED loopVars
  /\ UNCHANGED <<kind, age, queueVars, runVars, endVars, statVars, sweep>>

OldBatches == {c \in Categories : /\ batchTasks[c] # {}
                                  /\ batchAge[c] > CleanupMaxAge}

\* What cleanupOldTasks rejects: old tasks, and every task of an old batch.
Expired == {t \in Leveled : age[t] > CleanupMaxAge}
             \cup UNION {batchTasks[c] : c \in OldBatches}

queueWithout(dropped) == [l \in Levels |-> queue[l] \ dropped]

\* cleanupOldTasks, then forceReduceQueues if usage is critical: half of the
\* low queue is cancelled and the loop over large batches starts.
MemoryPressured(critical) ==
  LET low == queue["low"] \ Expired IN
  /\ Idle
  /\ critical => GcExposed
  /\ memoryPressure' = TRUE
  /\ \E N \in SUBSET low :
       /\ IsNewest(N, low, IF critical THEN Cardinality(low) \div 2 ELSE 0)
       /\ queue' = queueWithout(Expired \cup N)
       /\ rejected' = rejected \cup N
       /\ totalRejected' = totalRejected + Cardinality(N)
  /\ timedOut' = timedOut \cup Expired
  /\ totalTimeout' = totalTimeout + Cardinality(Expired)
  /\ batchTasks' = [c \in Categories |->
       IF c \in OldBatches THEN {} ELSE batchTasks[c]]
  /\ batchTotalSize' = [c \in Categories |->
       IF c \in OldBatches THEN 0 ELSE batchTotalSize[c]]
  /\ batchAge' = [c \in Categories |->
       IF c \in OldBatches THEN 0 ELSE batchAge[c]]
  /\ sweep' = IF critical
              THEN {c \in Categories : batchTotalSize'[c] > ForceReduceBatchSize}
              ELSE {}
  /\ UNCHANGED <<kind, age, runVars, resolved, totalProcessed, refused, loopVars>>

-----------------------------------------------------------------------------
(* The fallback poll, and time *)

PollQueue ==
  /\ Idle
  /\ getTotalQueueLength > 0
  /\ requestProcessQueue(immediates)
  /\ UNCHANGED <<kind, age, queueVars, runVars, endVars, statVars,
                 memoryPressure, sweep>>

\* Every timer that is due has run, and could do no more than it did.
TimersServed ==
  /\ \A t \in Queued : age[t] < TaskTimeout
  /\ \A c \in Categories :
       /\ batchTasks[c] # {}
       /\ batchAge[c] >= BatchMaxAge
       => activeRequests >= MaxConcurrentRequests

Tick ==
  /\ Idle
  /\ Punctual => TimersServed
  /\ age' = [t \in Tasks |-> Least(age[t] + 1, AgeCap)]
  /\ batchAge' = [c \in Categories |->
       IF batchTasks[c] = {} THEN 0 ELSE Least(batchAge[c] + 1, AgeCap)]
  /\ UNCHANGED <<kind, queue, batchTasks, batchTotalSize, runVars, endVars,
                 statVars, memoryPressure, loopVars, sweep>>

-----------------------------------------------------------------------------

Init ==
  /\ kind = << >>
  /\ age = << >>
  /\ queue = [l \in Levels |-> {}]
  /\ batchTasks = [c \in Categories |-> {}]
  /\ batchTotalSize = [c \in Categories |-> 0]
  /\ batchAge = [c \in Categories |-> 0]
  /\ activeRequests = 0
  /\ main = {} /\ pool = {} /\ groups = {} /\ executing = {}
  /\ resolved = {} /\ rejected = {} /\ timedOut = {}
  /\ totalProcessed = 0 /\ totalRejected = 0 /\ totalTimeout = 0
  /\ refused = 0
  /\ memoryPressure = FALSE
  /\ processSignalPending = FALSE
  /\ immediates = << >>
  /\ sweep = {}

Next ==
  \/ \E k \in Kinds : EnqueueRefused(k) \/ EnqueueAccepted(k)
  \/ ProcessQueue
  \/ \E t \in Tasks, ok \in BOOLEAN : ExecuteReturns(t, ok) \/ PoolDone(t, ok)
  \/ \E t \in Tasks : ExecutionTimeout(t) \/ QueueTimeout(t)
  \/ \E c \in Categories : BatchImmediate(c) \/ SweepBatch(c)
  \/ AgedBatches
  \/ MemoryNormal
  \/ \E critical \in BOOLEAN : MemoryPressured(critical)
  \/ PollQueue
  \/ Tick

Spec == Init /\ [][Next]_vars

-----------------------------------------------------------------------------
(* Safety *)

\* Every variable keeps its type: queues hold ids that were handed out, the
\* counters are naturals, immediates run processQueue or one category's batch.
TypeOK ==
  /\ kind \in Seq(Kinds)
  /\ age \in [Tasks -> 0..AgeCap]
  /\ queue \in [Levels -> SUBSET Tasks]
  /\ batchTasks \in [Categories -> SUBSET Tasks]
  /\ batchTotalSize \in [Categories -> Int]
  /\ batchAge \in [Categories -> 0..AgeCap]
  /\ activeRequests \in Nat
  /\ main \subseteq Tasks
  /\ pool \subseteq Tasks
  /\ groups \subseteq SUBSET Tasks
  /\ executing \subseteq Tasks
  /\ resolved \subseteq Tasks
  /\ rejected \subseteq Tasks
  /\ timedOut \subseteq Tasks
  /\ totalProcessed \in Nat
  /\ totalRejected \in Nat
  /\ totalTimeout \in Nat
  /\ refused \in Nat
  /\ memoryPressure \in BOOLEAN
  /\ processSignalPending \in BOOLEAN
  /\ immediates \in Seq(Categories \cup {ProcessSignal})
  /\ sweep \subseteq Categories

\* QUEUE_MAX_CONCURRENT_REQUESTS holds although processQueue, batch
\* immediates, the aging loop and forceReduceQueues all take slots.
ActiveBound == activeRequests <= MaxConcurrentRequests

\* No slot leaks and none is freed twice: activeRequests counts exactly the
\* tasks of open promise chains, of the pool and of unfinished batch groups.
ActiveAccounting ==
  activeRequests = Cardinality(main \cup pool \cup Grouped)

\* The event-driven path alone drains the queue (README, request flow 4: the
\* poll is only a fallback): a waiting task and a free slot never coexist
\* without a processQueue immediate on its way.
NoLostWakeup ==
  Queued # {} /\ activeRequests < MaxConcurrentRequests => processSignalPending

\* processSignalPending never lies: it is up exactly while one processQueue
\* immediate is scheduled, so requestProcessQueue can neither be muted for
\* good nor pile up immediates.
SignalScheduled ==
  /\ processSignalPending <=>
       \E i \in DOMAIN immediates : immediates[i] = ProcessSignal
  /\ \A i, j \in DOMAIN immediates :
       immediates[i] = ProcessSignal /\ immediates[j] = ProcessSignal => i = j

\* Every accepted task is in exactly one place (a queue, a batch, a slot) or
\* settled in exactly one way: no task is lost, run twice, or timed out while
\* it runs, whatever timers, cleanup and dispatch do to each other.
SinglePlace ==
  /\ Tasks = Queued \cup main \cup pool \cup Grouped \cup Settled
  /\ \A l1, l2 \in Levels : l1 # l2 => queue[l1] \cap queue[l2] = {}
  /\ \A c1, c2 \in Categories : c1 # c2 => batchTasks[c1] \cap batchTasks[c2] = {}
  /\ \A G1, G2 \in groups : G1 # G2 => G1 \cap G2 = {}
  /\ Leveled \cap Batched = {}
  /\ Queued \cap (main \cup pool \cup Grouped \cup Settled) = {}
  /\ main \cap (pool \cup Grouped \cup Settled) = {}
  /\ pool \cap (Grouped \cup Settled) = {}
  /\ timedOut \cap (Grouped \cup resolved \cup rejected) = {}
  /\ resolved \cap rejected = {}

\* The totals on the dashboard are exactly what happened: successes, failures
\* (refused calls included) and queue timeouts, except that the members of an
\* unfinished batch group are counted when the group ends.
StatsAccounting ==
  /\ totalProcessed = Cardinality(resolved \ Grouped)
  /\ totalRejected = refused + Cardinality(rejected \ Grouped)
  /\ totalTimeout = Cardinality(timedOut)

\* A batch's running totalSize equals the sizes of the tasks still in it, after
\* every mix of partial dispatch, queue timeout and cleanup.
BatchSizeExact ==
  \A c \in Categories : batchTotalSize[c] = SizeOf(batchTasks[c], kind)

\* QUEUE_OVERFLOW_THRESHOLD bounds the tasks waiting in all queues together,
\* batches included.
QueueBound == Cardinality(Queued) <= QueueOverflowThreshold

-----------------------------------------------------------------------------
(* Liveness *)

\* The event loop runs every due timer and every immediate.  Strong fairness
\* for the timers, because a running batch loop (sweep) delays them; nothing is
\* assumed of callers, of memory usage, or of execute() ever returning.
Fairness ==
  /\ WF_vars(ProcessQueue)
  /\ WF_vars(\E c \in Categories : BatchImmediate(c))
  /\ WF_vars(\E c \in Categories : SweepBatch(c))
  /\ \A t \in 1..MaxTasks : /\ SF_vars(t \in Tasks /\ QueueTimeout(t))
                             /\ SF_vars(t \in Tasks /\ ExecutionTimeout(t))
  /\ SF_vars(Tick)

FairSpec == Spec /\ Fairness

\* Without worker threads every accepted request is answered, even if execute()
\* hangs, slots are full for ever or memory pressure stops the low queue.
EventuallySettled ==
  \A t \in 1..MaxTasks : (t \in Tasks) ~> (t \in Settled)

\* Slots in use are given back: after the last request the server is idle.
SlotsReturned == (activeRequests > 0) ~> (activeRequests = 0)

\* Accepted tasks are answered and the slots they took come back, without help
\* from callers, execute() or the memory check.
QueueProgress == EventuallySettled /\ SlotsReturned
=============================================================================
