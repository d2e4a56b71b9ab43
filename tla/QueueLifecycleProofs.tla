------------------------- MODULE QueueLifecycleProofs -------------------------
(***************************************************************************)
(* QueueCore implements TaskLifecycle, for every value of the constants.    *)
(* SinglePlace makes the refinement mapping readable in every state; what   *)
(* is left is that each step adds to a container only from the containers   *)
(* the lifecycle allows (Flow).                                             *)
(***************************************************************************)
EXTENDS QueueCoreProofs, QueueLifecycle

\* What a step may put where.
Flow ==
  /\ Tasks \subseteq Tasks'
  /\ Queued' \subseteq Queued \cup (Tasks' \ Tasks)
  /\ Tasks' \ Tasks \subseteq Queued'
  /\ pool' \subseteq pool \cup Queued
  /\ Running' \subseteq Running \cup Queued
  /\ resolved \subseteq resolved'
  /\ resolved' \subseteq resolved \cup Running \cup pool
  /\ rejected \subseteq rejected'
  /\ rejected' \subseteq rejected \cup Running \cup pool \cup Queued
  /\ timedOut \subseteq timedOut'
  /\ timedOut' \subseteq timedOut \cup Queued

\* The mapping gives each container its state of the lifecycle.
Readable ==
  \A t :
    /\ t \notin Tasks => stateOf(t) = "new"
    /\ t \in Queued => stateOf(t) = "waiting"
    /\ t \in pool => stateOf(t) = "pool"
    /\ t \in Running => stateOf(t) = "running"
    /\ t \in resolved => stateOf(t) = "resolved"
    /\ t \in rejected => stateOf(t) = "rejected"
    /\ t \in timedOut => stateOf(t) = "timedOut"
    /\ t \in Tasks => t \in Queued \cup pool \cup Running \cup resolved
                            \cup rejected \cup timedOut

\* With every task in one place the mapping is readable.
LEMMA PlacesReadable == TypeOK /\ SinglePlace => Readable
  <1> SUFFICES ASSUME TypeOK, SinglePlace, NEW t
               PROVE  /\ t \notin Tasks => stateOf(t) = "new"
                      /\ t \in Queued => stateOf(t) = "waiting"
                      /\ t \in pool => stateOf(t) = "pool"
                      /\ t \in Running => stateOf(t) = "running"
                      /\ t \in resolved => stateOf(t) = "resolved"
                      /\ t \in rejected => stateOf(t) = "rejected"
                      /\ t \in timedOut => stateOf(t) = "timedOut"
                      /\ t \in Tasks => t \in Queued \cup pool \cup Running
                                  \cup resolved \cup rejected \cup timedOut
    BY DEF Readable
  <1>1. Covered /\ Apart
    BY Parts
  <1>2. /\ Queued \subseteq Tasks
        /\ Running \subseteq Tasks
        /\ Settled \subseteq Tasks
        /\ pool \subseteq Tasks
    BY PlacesAreTasks DEF Running
  <1>3. t \in Queued => t \notin pool \cup Settled \cup Running
    BY <1>1 DEF Apart, Running
  <1>4. t \in pool => t \notin Settled
    BY <1>1 DEF Apart
  <1>5. t \in Running => t \notin pool \cup Settled \cup Queued
    BY <1>1 DEF Apart, Running
  <1>6. /\ t \in resolved => t \notin rejected \cup timedOut
        /\ t \in rejected => t \notin timedOut
    BY <1>1 DEF Apart
  <1>7. t \in Tasks => t \in Queued \cup pool \cup Running \cup Settled
    BY <1>1 DEF Covered, Running
  <1>8. QED
    BY <1>2, <1>3, <1>4, <1>5, <1>6, <1>7 DEF stateOf, Settled

\* The same after a step.
LEMMA PlacesReadableNext == TypeOK' /\ SinglePlace' => Readable'
  <1> SUFFICES ASSUME TypeOK', SinglePlace', NEW t
               PROVE  /\ t \notin Tasks' => stateOf(t)' = "new"
                      /\ t \in Queued' => stateOf(t)' = "waiting"
                      /\ t \in pool' => stateOf(t)' = "pool"
                      /\ t \in Running' => stateOf(t)' = "running"
                      /\ t \in resolved' => stateOf(t)' = "resolved"
                      /\ t \in rejected' => stateOf(t)' = "rejected"
                      /\ t \in timedOut' => stateOf(t)' = "timedOut"
                      /\ t \in Tasks' => t \in Queued' \cup pool' \cup Running'
                                  \cup resolved' \cup rejected' \cup timedOut'
    BY DEF Readable
  <1>1. Covered' /\ Apart'
    BY Parts
  <1>2. /\ Queued' \subseteq Tasks'
        /\ Running' \subseteq Tasks'
        /\ Settled' \subseteq Tasks'
        /\ pool' \subseteq Tasks'
    BY DEF TypeOK, Queued, Leveled, Levels, Batched, Grouped, Settled, Running
  <1>3. t \in Queued' => t \notin pool' \cup Settled' \cup Running'
    BY <1>1 DEF Apart, Running
  <1>4. t \in pool' => t \notin Settled'
    BY <1>1 DEF Apart
  <1>5. t \in Running' => t \notin pool' \cup Settled' \cup Queued'
    BY <1>1 DEF Apart, Running
  <1>6. /\ t \in resolved' => t \notin rejected' \cup timedOut'
        /\ t \in rejected' => t \notin timedOut'
    BY <1>1 DEF Apart
  <1>7. t \in Tasks' => t \in Queued' \cup pool' \cup Running' \cup Settled'
    BY <1>1 DEF Covered, Running
  <1>8. QED
    BY <1>2, <1>3, <1>4, <1>5, <1>6, <1>7 DEF stateOf, Settled

\* A step with the allowed flow moves each task along the lifecycle.
LEMMA FlowIsMove ==
  ASSUME Readable, Readable', Flow
  PROVE  Lifecycle!Next
  <1>1. ASSUME NEW t
        PROVE  /\ stateOf(t)' \in Lifecycle!States
               /\ stateOf(t)' # stateOf(t)
                    => <<stateOf(t), stateOf(t)'>> \in Lifecycle!Moves
    <2>0. /\ t \notin Tasks' \/ t \in Queued' \cup pool' \cup Running'
                 \cup resolved' \cup rejected' \cup timedOut'
          /\ stateOf(t)' \in Lifecycle!States
      BY DEF Readable, Lifecycle!States, Lifecycle!Ends
    <2>1. CASE t \notin Tasks
      <3>1. stateOf(t) = "new"
        BY <2>1 DEF Readable
      <3>2. t \notin Tasks' \/ t \in Queued'
        BY <2>1 DEF Flow
      <3>3. stateOf(t)' \in {"new", "waiting"}
        BY <3>2 DEF Readable
      <3>4. QED
        BY <2>0, <3>1, <3>3 DEF Lifecycle!Moves
    <2>2. CASE t \in Queued
      <3>1. stateOf(t) = "waiting" /\ t \in Tasks
        BY <2>2 DEF Readable
      <3>2. t \notin resolved' \/ t \in resolved \cup Running \cup pool
        BY DEF Flow
      <3>3. t \notin resolved \cup Running \cup pool
        BY <2>2 DEF Readable
      <3>4. t \in Tasks'
        BY <3>1 DEF Flow
      <3>5. stateOf(t)' \in {"waiting", "pool", "running", "rejected", "timedOut"}
        BY <2>0, <3>2, <3>3, <3>4 DEF Readable
      <3>6. QED
        BY <2>0, <3>1, <3>5 DEF Lifecycle!Moves
    <2>3. CASE t \in pool
      <3>1. stateOf(t) = "pool" /\ t \in Tasks /\ t \in Tasks'
        BY <2>3 DEF Readable, Flow
      <3>2. t \notin Queued /\ t \notin Running /\ t \notin timedOut
        BY <2>3 DEF Readable
      <3>3. t \notin Queued' /\ t \notin Running' /\ t \notin timedOut'
        BY <3>1, <3>2 DEF Flow
      <3>4. stateOf(t)' \in {"pool", "resolved", "rejected"}
        BY <2>0, <3>1, <3>3 DEF Readable
      <3>5. QED
        BY <2>0, <3>1, <3>4 DEF Lifecycle!Moves
    <2>4. CASE t \in Running
      <3>1. stateOf(t) = "running" /\ t \in Tasks /\ t \in Tasks'
        BY <2>4 DEF Readable, Flow
      <3>2. t \notin Queued /\ t \notin pool /\ t \notin timedOut
        BY <2>4 DEF Readable
      <3>3. t \notin Queued' /\ t \notin pool' /\ t \notin timedOut'
        BY <3>1, <3>2 DEF Flow
      <3>4. stateOf(t)' \in {"running", "resolved", "rejected"}
        BY <2>0, <3>1, <3>3 DEF Readable
      <3>5. QED
        BY <2>0, <3>1, <3>4 DEF Lifecycle!Moves
    <2>5. CASE t \in resolved \cup rejected \cup timedOut
      <3>1. stateOf(t)' = stateOf(t)
        BY <2>5 DEF Readable, Flow
      <3>2. QED
        BY <2>0, <3>1
    <2>6. QED
      BY <2>1, <2>2, <2>3, <2>4, <2>5 DEF Readable
  <1>2. QED
    BY <1>1 DEF Lifecycle!Next, Lifecycle!Ids

\* A step that leaves every container alone.
LEMMA StillFlow ==
  ASSUME UNCHANGED <<kind, queue, batchTasks, main, pool, groups, endVars>>
  PROVE  Flow
  <1>1. /\ Tasks' = Tasks /\ Queued' = Queued /\ Running' = Running
        /\ UNCHANGED <<pool, resolved, rejected, timedOut>>
    BY DEF Tasks, Queued, Leveled, Batched, Running, Grouped, Settled, endVars
  <1>2. QED
    BY <1>1 DEF Flow

\* The end of an execution.
LEMMA FinishFlow ==
  ASSUME SinglePlace, NEW t \in Tasks, t \notin Settled, NEW ok \in BOOLEAN,
         finish(t, ok), UNCHANGED <<kind, queue, batchTasks>>
  PROVE  Flow
  <1>1. Tasks' = Tasks /\ Queued' = Queued
    BY DEF Tasks, Queued, Leveled, Batched
  <1>2. /\ settle(t, ok)
        /\ t \in Running
        /\ main' \subseteq main
        /\ pool' = pool
        /\ groups' \subseteq groups
    <2>1. CASE finishMain(t, ok)
      BY <2>1 DEF finishMain, finishOne, Running
    <2>2. CASE finishGrouped(t, ok)
      BY <2>2 DEF finishGrouped, closeGroup, Running, Grouped
    <2>3. QED
      BY <2>1, <2>2 DEF finish
  <1>3. /\ resolved \subseteq resolved' /\ resolved' \subseteq resolved \cup {t}
        /\ rejected \subseteq rejected' /\ rejected' \subseteq rejected \cup {t}
        /\ timedOut' = timedOut
    BY <1>2 DEF settle
  <1>4. Grouped' \subseteq Grouped /\ Settled \subseteq Settled'
    BY <1>2, <1>3 DEF Grouped, Settled
  <1>5. Running' \subseteq Running
    BY <1>2, <1>4 DEF Running
  <1>6. QED
    BY <1>1, <1>2, <1>3, <1>5 DEF Flow

\* processBatch starts waiting tasks only.
LEMMA ProcessBatchFlow ==
  ASSUME NEW c \in Categories, TypeOK, processBatch(c), UNCHANGED <<kind, endVars>>
  PROVE  Flow
  <1>1. CASE UNCHANGED <<queueVars, runVars>>
    BY <1>1, StillFlow DEF queueVars, runVars
  <1>2. CASE ~UNCHANGED <<queueVars, runVars>>
    <2>1. PICK D \in SUBSET batchTasks[c] :
            /\ batchTasks' = [batchTasks EXCEPT ![c] = @ \ D]
            /\ groups' = groups \cup {D}
            /\ UNCHANGED <<queue, main, pool>>
      BY <1>2 DEF processBatch
    <2>2. /\ Tasks' = Tasks /\ Settled' = Settled
          /\ UNCHANGED <<resolved, rejected, timedOut>>
      BY DEF Tasks, Settled, endVars
    <2>3. D \subseteq Queued
      BY <2>1 DEF Queued, Batched
    <2>4. Queued' \subseteq Queued
      BY <2>1 DEF Queued, Batched, Leveled, TypeOK
    <2>5. Grouped' = Grouped \cup D
      BY <2>1 DEF Grouped
    <2>6. Running' \subseteq Running \cup Queued
      BY <2>1, <2>2, <2>3, <2>5 DEF Running
    <2>7. QED
      BY <2>1, <2>2, <2>4, <2>6 DEF Flow
  <1>3. QED
    BY <1>1, <1>2

\* processQueue starts waiting tasks only.
LEMMA DispatchFlow ==
  ASSUME NEW D \in SUBSET Ready, dispatch(D), TypeOK, UNCHANGED <<kind, endVars>>
  PROVE  Flow
  <1>1. /\ Tasks' = Tasks /\ Settled' = Settled /\ Grouped' = Grouped
        /\ UNCHANGED <<resolved, rejected, timedOut>>
    BY DEF dispatch, Tasks, Settled, Grouped, endVars
  <1>2. D \subseteq Queued
    BY DEF Ready, Leveled, Queued
  <1>3. /\ pool' \subseteq pool \cup D
        /\ main' \subseteq main \cup D
        /\ batchTasks' = batchTasks
        /\ \A l \in Levels : queue'[l] \subseteq queue[l]
    BY DEF dispatch
  <1>4. Queued' \subseteq Queued
    BY <1>3 DEF Queued, Leveled, Batched, Levels
  <1>5. Running' \subseteq Running \cup Queued
    BY <1>1, <1>2, <1>3 DEF Running
  <1>6. QED
    BY <1>1, <1>2, <1>3, <1>4, <1>5 DEF Flow

\* A new task goes to a batch or to a level of the queue.
LEMMA EnqueueFlow ==
  ASSUME TypeOK, NEW k \in Kinds, EnqueueAccepted(k)
  PROVE  Flow
  <1> DEFINE t == Len(kind) + 1
  <1>1. Len(kind) \in Nat /\ Len(kind') = t
    BY LenProperties, AppendProperties DEF EnqueueAccepted, TypeOK
  <1>2. Tasks' = Tasks \cup {t} /\ t \notin Tasks
    BY <1>1 DEF Tasks
  <1>3. /\ UNCHANGED <<main, pool, groups, resolved, rejected, timedOut>>
        /\ Running' = Running
    BY DEF EnqueueAccepted, runVars, endVars, Running, Grouped, Settled
  <1>4. Queued' = Queued \cup {t}
    <2>1. k \in KindType
      BY KindsAssumption
    <2>2. k.category \in Categories /\ Level(k) \in Levels
      BY <2>1 DEF KindType, Level, Levels
    <2>3. CASE addTaskToBatch(t, k)
      <3>1. queue' = queue
        BY <2>3 DEF addTaskToBatch
      <3>2. batchTasks' = [batchTasks EXCEPT ![k.category] = @ \cup {t}]
        BY <2>3 DEF addTaskToBatch
      <3>3. Batched' = Batched \cup {t}
        BY <2>2, <3>2 DEF Batched, TypeOK
      <3>4. QED
        BY <3>1, <3>3 DEF Queued, Leveled
    <2>4. CASE pushTask(t, k)
      <3>1. batchTasks' = batchTasks
        BY <2>4 DEF pushTask
      <3>2. queue' = [queue EXCEPT ![Level(k)] = @ \cup {t}]
        BY <2>4 DEF pushTask
      <3>3. Leveled' = Leveled \cup {t}
        BY <2>2, <3>2 DEF Leveled, Levels, TypeOK
      <3>4. QED
        BY <3>1, <3>3 DEF Queued, Batched
    <2>5. QED
      BY <2>3, <2>4 DEF EnqueueAccepted
  <1>5. QED
    BY <1>2, <1>3, <1>4 DEF Flow

\* Tasks X leave the queues and are answered, N of them rejected.
LEMMA RemoveFlow ==
  ASSUME NEW X \in SUBSET Queued, NEW N \in SUBSET X,
         \A l \in Levels : queue'[l] \subseteq queue[l],
         \A c \in Categories : batchTasks'[c] \subseteq batchTasks[c],
         UNCHANGED <<kind, main, pool, groups, resolved>>,
         rejected' = rejected \cup N, timedOut' = timedOut \cup (X \ N)
  PROVE  Flow
  <1>1. Tasks' = Tasks /\ Grouped' = Grouped
    BY DEF Tasks, Grouped
  <1>2. Queued' \subseteq Queued
    BY DEF Queued, Leveled, Batched, Levels
  <1>3. Running' \subseteq Running
    BY <1>1 DEF Running, Settled
  <1>4. QED
    BY <1>1, <1>2, <1>3 DEF Flow

\* cleanupOldTasks and forceReduceQueues answer waiting tasks only.
LEMMA MemoryFlow ==
  ASSUME SinglePlace, NEW critical \in BOOLEAN, MemoryPressured(critical)
  PROVE  Flow
  <1>1. PICK N \in SUBSET (queue["low"] \ Expired) :
          /\ queue' = queueWithout(Expired \cup N)
          /\ rejected' = rejected \cup N
    BY DEF MemoryPressured
  <1>2. /\ UNCHANGED <<kind, main, pool, groups, resolved>>
        /\ timedOut' = timedOut \cup Expired
        /\ \A c \in Categories : batchTasks'[c] \subseteq batchTasks[c]
    BY DEF MemoryPressured, runVars
  <1> DEFINE X == Expired \cup N
  <1>3. X \subseteq Queued /\ N \subseteq X /\ X \ N = Expired
    BY <1>1 DEF Expired, OldBatches, Queued, Leveled, Batched
  <1>4. \A l \in Levels : queue'[l] \subseteq queue[l]
    BY <1>1 DEF queueWithout
  <1>5. timedOut' = timedOut \cup (X \ N)
    BY <1>2, <1>3
  <1> HIDE DEF X
  <1>6. QED
    BY <1>1, <1>2, <1>3, <1>4, <1>5, RemoveFlow

\* Every step has the allowed flow.
LEMMA FlowStep == TypeOK /\ SinglePlace /\ [Next]_vars => Flow
  <1> SUFFICES ASSUME TypeOK, SinglePlace, [Next]_vars
               PROVE  Flow
    OBVIOUS
  <1>1. ASSUME NEW k \in Kinds, EnqueueRefused(k)
        PROVE  Flow
    BY <1>1, StillFlow DEF EnqueueRefused, queueVars, runVars
  <1>2. ASSUME NEW k \in Kinds, EnqueueAccepted(k)
        PROVE  Flow
    BY <1>2, EnqueueFlow
  <1>3. ASSUME ProcessQueue
        PROVE  Flow
    <2>1. UNCHANGED <<kind, endVars>>
      BY <1>3 DEF ProcessQueue
    <2>2. CASE UNCHANGED <<queueVars, runVars>>
      BY <2>1, <2>2, StillFlow DEF queueVars, runVars
    <2>3. ASSUME NEW D \in SUBSET Ready, dispatch(D)
          PROVE  Flow
      BY <2>1, <2>3, DispatchFlow
    <2>4. QED
      BY <1>3, <2>2, <2>3 DEF ProcessQueue
  <1>4. ASSUME NEW t \in Tasks, NEW ok \in BOOLEAN, ExecuteReturns(t, ok)
        PROVE  Flow
    <2>1. UNCHANGED <<kind, queue, batchTasks>>
      BY <1>4 DEF ExecuteReturns, queueVars
    <2>2. CASE t \notin Settled /\ finish(t, ok)
      BY <2>1, <2>2, FinishFlow
    <2>3. CASE UNCHANGED <<main, pool, groups, activeRequests, endVars, statVars,
                           loopVars>>
      BY <2>1, <2>3, StillFlow
    <2>4. QED
      BY <1>4, <2>2, <2>3 DEF ExecuteReturns
  <1>5. ASSUME NEW t \in Tasks, NEW ok \in BOOLEAN, PoolDone(t, ok)
        PROVE  Flow
    <2>1. /\ t \in pool /\ pool' = pool \ {t} /\ settle(t, ok)
          /\ UNCHANGED <<kind, queue, batchTasks, groups, main>>
      BY <1>5 DEF PoolDone, finishOne, queueVars
    <2>2. /\ resolved \subseteq resolved' /\ resolved' \subseteq resolved \cup {t}
          /\ rejected \subseteq rejected' /\ rejected' \subseteq rejected \cup {t}
          /\ timedOut' = timedOut
      BY <2>1 DEF settle
    <2>3. /\ Tasks' = Tasks /\ Queued' = Queued /\ Grouped' = Grouped
          /\ Settled \subseteq Settled'
      BY <2>1, <2>2 DEF Tasks, Queued, Leveled, Batched, Grouped, Settled
    <2>4. Running' \subseteq Running
      BY <2>1, <2>3 DEF Running
    <2>5. QED
      BY <2>1, <2>2, <2>3, <2>4 DEF Flow
  <1>6. ASSUME NEW t \in Tasks, ExecutionTimeout(t)
        PROVE  Flow
    BY <1>6, FinishFlow DEF ExecutionTimeout, queueVars
  <1>7. ASSUME NEW t \in Tasks, QueueTimeout(t)
        PROVE  Flow
    <2>1. /\ t \in Queued /\ removeTaskFromQueues(t)
          /\ timedOut' = timedOut \cup {t}
          /\ UNCHANGED <<kind, main, pool, groups, resolved, rejected>>
      BY <1>7 DEF QueueTimeout, stillQueued, runVars
    <2>2. /\ \A l \in Levels : queue'[l] \subseteq queue[l]
          /\ \A c \in Categories : batchTasks'[c] \subseteq batchTasks[c]
      BY <2>1 DEF removeTaskFromQueues
    <2>3. /\ {t} \in SUBSET Queued /\ {} \in SUBSET {t}
          /\ timedOut' = timedOut \cup ({t} \ {}) /\ rejected' = rejected \cup {}
      BY <2>1
    <2>4. QED
      BY <2>1, <2>2, <2>3, RemoveFlow
  <1>8. ASSUME NEW c \in Categories, BatchImmediate(c)
        PROVE  Flow
    BY <1>8, ProcessBatchFlow DEF BatchImmediate
  <1>9. ASSUME NEW c \in Categories, SweepBatch(c)
        PROVE  Flow
    BY <1>9, ProcessBatchFlow DEF SweepBatch
  <1>10. CASE AgedBatches
    BY <1>10, StillFlow DEF AgedBatches, queueVars, runVars
  <1>11. CASE MemoryNormal
    BY <1>11, StillFlow DEF MemoryNormal, queueVars, runVars
  <1>12. ASSUME NEW critical \in BOOLEAN, MemoryPressured(critical)
         PROVE  Flow
    BY <1>12, MemoryFlow
  <1>13. CASE PollQueue
    BY <1>13, StillFlow DEF PollQueue, queueVars, runVars
  <1>14. CASE Tick
    BY <1>14, StillFlow DEF Tick, runVars
  <1>15. CASE UNCHANGED vars
    BY <1>15, StillFlow DEF vars, queueVars, runVars
  <1>16. QED
    BY <1>1, <1>2, <1>3, <1>4, <1>5, <1>6, <1>7, <1>8, <1>9, <1>10, <1>11,
       <1>12, <1>13, <1>14, <1>15 DEF Next

\* The queue implements the lifecycle it promises to the middleware: every
\* accepted task waits, is started at most once and answered at most once, and
\* none is started after its answer.
THEOREM QueueImplementsLifecycle == Spec => ImplementsLifecycle
  <1>1. Init => Lifecycle!Init
    <2> SUFFICES ASSUME Init PROVE Lifecycle!Init
      OBVIOUS
    <2>1. Tasks = {}
      <3>1. Len(kind) = 0
        BY EmptySeq DEF Init
      <3>2. QED
        BY <3>1 DEF Tasks
    <2>2. /\ Queued = {} /\ pool = {}
          /\ resolved = {} /\ rejected = {} /\ timedOut = {}
      BY DEF Init, Queued, Leveled, Levels, Batched
    <2>3. \A t : stateOf(t) = "new"
      BY <2>1, <2>2 DEF stateOf
    <2>4. QED
      BY <2>3 DEF Lifecycle!Init, Lifecycle!Ids
  <1>2. /\ TypeOK /\ SinglePlace /\ TypeOK' /\ SinglePlace' /\ [Next]_vars
        => Lifecycle!Next
    BY PlacesReadable, PlacesReadableNext, FlowStep, FlowIsMove
  <1>3. QED
    BY <1>1, <1>2, TypeCorrect, NothingLostOrDoubled, PTL
    DEF Spec, ImplementsLifecycle, Lifecycle!Spec

=============================================================================
