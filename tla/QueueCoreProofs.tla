--------------------------- MODULE QueueCoreProofs ---------------------------
(***************************************************************************)
(* Machine-checked invariance proofs for QueueCore, for every value of the  *)
(* constants that satisfies the assumptions of that module.                 *)
(***************************************************************************)
EXTENDS QueueCore, FiniteSetTheorems, SequenceTheorems, TLAPS

-----------------------------------------------------------------------------
(* Facts about the operators of the model *)

\* AgeCap, where the clock of a task stops, is a positive number of ticks.
LEMMA AgeCapType == AgeCap \in Nat \ {0}
  BY TimeAssumption DEF AgeCap

\* Least returns one of its arguments and bounds both from below.
LEMMA LeastProperties ==
  ASSUME NEW a \in Int, NEW b \in Int
  PROVE  /\ Least(a, b) \in {a, b}
         /\ Least(a, b) <= a
         /\ Least(a, b) <= b
  BY DEF Least

\* Sets of accepted tasks are finite and have a natural number of elements.
LEMMA TaskSetsFinite ==
  ASSUME kind \in Seq(Kinds), NEW S \in SUBSET Tasks
  PROVE  IsFiniteSet(S) /\ Cardinality(S) \in Nat
  <1>1. Len(kind) \in Nat
    BY LenProperties
  <1>2. IsFiniteSet(Tasks)
    BY <1>1, FS_Interval DEF Tasks
  <1>3. QED
    BY <1>2, FS_Subset, FS_CardinalityType

\* The summed size of a set of accepted tasks is a natural number.
LEMMA SizeOfType ==
  ASSUME kind \in Seq(Kinds), NEW S \in SUBSET Tasks, NEW kd
  PROVE  SizeOf(S, kd) \in Nat
  <1>1. IsFiniteSet(S)
    BY TaskSetsFinite
  <1>2. IsFiniteSet(1..MaxSize)
    BY LimitsAssumption, FS_Interval
  <1>3. IsFiniteSet(S \X (1..MaxSize))
    BY <1>1, <1>2, FS_Product
  <1> DEFINE U == {u \in S \X (1..MaxSize) : u[2] <= kd[u[1]].size}
  <1>4. U \in SUBSET (S \X (1..MaxSize))
    OBVIOUS
  <1>5. IsFiniteSet(U)
    BY <1>3, <1>4, FS_Subset
  <1>6. Cardinality(U) \in Nat
    BY <1>5, FS_CardinalityType
  <1>7. QED
    BY <1>6 DEF SizeOf

\* What requestProcessQueue leaves behind, for any immediates scheduled so far.
LEMMA RequestType ==
  ASSUME NEW imm \in Seq(Categories \cup {ProcessSignal}), requestProcessQueue(imm)
  PROVE  /\ processSignalPending' = TRUE
         /\ immediates' \in Seq(Categories \cup {ProcessSignal})
  BY AppendProperties DEF requestProcessQueue

-----------------------------------------------------------------------------
(* Type correctness *)

\* processBatch, called for one category, keeps the types of what it changes.
LEMMA ProcessBatchType ==
  ASSUME TypeOK, NEW c \in Categories, processBatch(c), kind' = kind
  PROVE  /\ queue' \in [Levels -> SUBSET Tasks]
         /\ batchTasks' \in [Categories -> SUBSET Tasks]
         /\ batchTotalSize' \in [Categories -> Int]
         /\ batchAge' \in [Categories -> 0..AgeCap]
         /\ activeRequests' \in Nat
         /\ main' \subseteq Tasks
         /\ pool' \subseteq Tasks
         /\ groups' \subseteq SUBSET Tasks
         /\ executing' \subseteq Tasks
  <1>1. CASE UNCHANGED <<queueVars, runVars>>
    BY <1>1 DEF TypeOK, queueVars, runVars
  <1>2. CASE ~UNCHANGED <<queueVars, runVars>>
    <2>1. PICK D \in SUBSET batchTasks[c] :
            /\ batchTasks' = [batchTasks EXCEPT ![c] = @ \ D]
            /\ batchTotalSize' =
                 [batchTotalSize EXCEPT ![c] = AtLeast0(@ - SizeOf(D, kind))]
            /\ groups' = groups \cup {D}
            /\ executing' = executing \cup D
            /\ activeRequests' = activeRequests + Cardinality(D)
      BY <1>2 DEF processBatch
    <2>2. batchAge' = [batchAge EXCEPT ![c] = 0] /\ UNCHANGED <<queue, main, pool>>
      BY <1>2 DEF processBatch
    <2>3. D \in SUBSET Tasks
      BY <2>1 DEF TypeOK
    <2>4. Cardinality(D) \in Nat /\ SizeOf(D, kind) \in Nat
      BY <2>3, TaskSetsFinite, SizeOfType DEF TypeOK
    <2>5. batchTotalSize' \in [Categories -> Int]
      BY <2>1, <2>4 DEF TypeOK, AtLeast0
    <2>6. QED
      BY <2>1, <2>2, <2>3, <2>4, <2>5, AgeCapType DEF TypeOK
  <1>3. QED
    BY <1>1, <1>2

\* Settling a task and giving back its slot keeps the types.
LEMMA FinishOneType ==
  ASSUME TypeOK, NEW t \in Tasks, NEW ok \in BOOLEAN, finishOne(t, ok)
  PROVE  /\ resolved' \subseteq Tasks
         /\ rejected' \subseteq Tasks
         /\ timedOut' \subseteq Tasks
         /\ totalProcessed' \in Nat
         /\ totalRejected' \in Nat
         /\ totalTimeout' \in Nat
         /\ refused' \in Nat
         /\ activeRequests' \in Nat
         /\ processSignalPending' \in BOOLEAN
         /\ immediates' \in Seq(Categories \cup {ProcessSignal})
  <1>1. immediates \in Seq(Categories \cup {ProcessSignal})
    BY DEF TypeOK
  <1>2. /\ processSignalPending' = TRUE
        /\ immediates' \in Seq(Categories \cup {ProcessSignal})
    BY <1>1, RequestType DEF finishOne
  <1>3. /\ resolved' \subseteq Tasks
        /\ rejected' \subseteq Tasks
        /\ timedOut' \subseteq Tasks
    BY DEF finishOne, settle, TypeOK
  <1>4. QED
    BY <1>2, <1>3 DEF TypeOK, finishOne, slotsAfter, AtLeast0

\* The end of one execution, on the main thread or in a batch group, keeps the
\* types.
LEMMA FinishType ==
  ASSUME TypeOK, NEW t \in Tasks, NEW ok \in BOOLEAN, finish(t, ok)
  PROVE  /\ resolved' \subseteq Tasks
         /\ rejected' \subseteq Tasks
         /\ timedOut' \subseteq Tasks
         /\ totalProcessed' \in Nat
         /\ totalRejected' \in Nat
         /\ totalTimeout' \in Nat
         /\ refused' \in Nat
         /\ activeRequests' \in Nat
         /\ processSignalPending' \in BOOLEAN
         /\ immediates' \in Seq(Categories \cup {ProcessSignal})
         /\ main' \subseteq Tasks
         /\ pool' \subseteq Tasks
         /\ groups' \subseteq SUBSET Tasks
  <1>1. CASE finishMain(t, ok)
    BY <1>1, FinishOneType DEF finishMain, TypeOK
  <1>2. CASE finishGrouped(t, ok)
    <2>1. PICK G \in groups :
            /\ settle(t, ok)
            /\ \/ closeGroup(G)
               \/ UNCHANGED <<groups, totalProcessed, totalRejected,
                              activeRequests, loopVars>>
      BY <1>2 DEF finishGrouped
    <2>2. UNCHANGED <<main, pool, totalTimeout, refused>>
      BY <1>2 DEF finishGrouped
    <2>3. /\ resolved' \subseteq Tasks
          /\ rejected' \subseteq Tasks
          /\ timedOut' \subseteq Tasks
      BY <2>1 DEF settle, TypeOK
    <2>4. G \in SUBSET Tasks
      BY DEF TypeOK
    <2>5. /\ Cardinality(G) \in Nat
          /\ Cardinality(G \cap resolved') \in Nat
          /\ Cardinality(G \cap rejected') \in Nat
      BY <2>4, TaskSetsFinite DEF TypeOK
    <2>6. CASE closeGroup(G)
      <3> /\ totalProcessed \in Nat
          /\ totalRejected \in Nat
          /\ activeRequests \in Nat
        BY DEF TypeOK
      <3>1. /\ totalProcessed' \in Nat
            /\ totalRejected' \in Nat
            /\ activeRequests' \in Nat
        <4>1. totalProcessed' = totalProcessed + Cardinality(G \cap resolved')
          BY <2>6 DEF closeGroup
        <4>2. totalRejected' = totalRejected + Cardinality(G \cap rejected')
          BY <2>6 DEF closeGroup, failedOf
        <4>3. activeRequests' = AtLeast0(activeRequests - Cardinality(G))
          BY <2>6 DEF closeGroup, slotsAfter
        <4>4. QED
          BY <2>5, <4>1, <4>2, <4>3 DEF AtLeast0
      <3>2. /\ processSignalPending' \in BOOLEAN
            /\ immediates' \in Seq(Categories \cup {ProcessSignal})
        BY <2>6, RequestType DEF closeGroup, TypeOK
      <3>3. QED
        BY <2>2, <2>3, <2>6, <3>1, <3>2 DEF closeGroup, TypeOK
    <2>7. CASE UNCHANGED <<groups, totalProcessed, totalRejected,
                           activeRequests, loopVars>>
      BY <2>2, <2>3, <2>7 DEF TypeOK, loopVars
    <2>8. QED
      BY <2>1, <2>6, <2>7
  <1>3. QED
    BY <1>1, <1>2 DEF finish

\* Every step keeps the types.
LEMMA TypeStep == TypeOK /\ [Next]_vars => TypeOK'
  <1> SUFFICES ASSUME TypeOK, [Next]_vars
               PROVE  TypeOK'
    OBVIOUS
  <1>0. Len(kind) \in Nat
    BY LenProperties DEF TypeOK
  <1>1. ASSUME NEW k \in Kinds, EnqueueRefused(k)
        PROVE  TypeOK'
    BY <1>1 DEF EnqueueRefused, TypeOK, Tasks, queueVars, runVars, endVars,
                loopVars
  <1>2. ASSUME NEW k \in Kinds, EnqueueAccepted(k)
        PROVE  TypeOK'
    <2> DEFINE t == Len(kind) + 1
    <2>1. /\ kind' \in Seq(Kinds)
          /\ Len(kind') = t
      BY <1>2, AppendProperties DEF EnqueueAccepted, TypeOK
    <2>2. /\ Tasks' = 1..t
          /\ Tasks \subseteq Tasks'
          /\ t \in Tasks'
      BY <1>0, <2>1 DEF Tasks
    <2>3. age' \in [Tasks' -> 0..AgeCap]
      <3>0. age \in [1..Len(kind) -> 0..AgeCap]
        BY DEF TypeOK, Tasks
      <3>1. age \in Seq(0..AgeCap) /\ Len(age) = Len(kind)
        <4>1. age \in Seq(0..AgeCap)
          BY <1>0, <3>0, SeqDef
        <4>2. Len(age) \in Nat /\ 1..Len(age) = 1..Len(kind)
          BY <3>0, <4>1, LenProperties
        <4>3. QED
          BY <1>0, <4>1, <4>2
      <3>2. 0 \in 0..AgeCap
        BY AgeCapType
      <3>3. Append(age, 0) \in Seq(0..AgeCap) /\ Len(Append(age, 0)) = t
        BY <3>1, <3>2, AppendProperties
      <3>4. Append(age, 0) \in [1..t -> 0..AgeCap]
        BY <3>3, LenProperties
      <3>5. QED
        BY <1>2, <2>2, <3>4 DEF EnqueueAccepted
    <2>4. k \in KindType
      BY KindsAssumption
    <2>5. immediates \in Seq(Categories \cup {ProcessSignal})
      BY DEF TypeOK
    <2>6. /\ queue' \in [Levels -> SUBSET Tasks']
          /\ batchTasks' \in [Categories -> SUBSET Tasks']
          /\ batchTotalSize' \in [Categories -> Int]
          /\ batchAge' \in [Categories -> 0..AgeCap]
          /\ processSignalPending' \in BOOLEAN
          /\ immediates' \in Seq(Categories \cup {ProcessSignal})
      <3>1. CASE addTaskToBatch(t, k)
        <4> DEFINE c == k.category
        <4>1. c \in Categories /\ k.size \in Int
          BY <2>4, LimitsAssumption DEF KindType
        <4>2. Append(immediates, c) \in Seq(Categories \cup {ProcessSignal})
          BY <2>5, <4>1, AppendProperties
        <4>3. /\ processSignalPending' = TRUE
              /\ immediates' \in Seq(Categories \cup {ProcessSignal})
          BY <3>1, <2>5, <4>2, RequestType DEF addTaskToBatch
        <4>4. /\ batchTasks' = [batchTasks EXCEPT ![c] = @ \cup {t}]
              /\ batchTotalSize' = [batchTotalSize EXCEPT ![c] = @ + k.size]
              /\ batchAge' \in {[batchAge EXCEPT ![c] = 0], batchAge}
              /\ queue' = queue
          BY <3>1 DEF addTaskToBatch
        <4>5. batchTasks' \in [Categories -> SUBSET Tasks']
          BY <2>2, <4>1, <4>4 DEF TypeOK
        <4>6. batchTotalSize' \in [Categories -> Int]
          BY <4>1, <4>4 DEF TypeOK
        <4>7. batchAge' \in [Categories -> 0..AgeCap]
          BY <4>1, <4>4, AgeCapType DEF TypeOK
        <4>8. QED
          BY <2>2, <4>3, <4>4, <4>5, <4>6, <4>7 DEF TypeOK
      <3>2. CASE pushTask(t, k)
        <4>1. Level(k) \in Levels
          BY DEF Level, Levels
        <4>2. /\ processSignalPending' = TRUE
              /\ immediates' \in Seq(Categories \cup {ProcessSignal})
          BY <3>2, <2>5, RequestType DEF pushTask
        <4>3. QED
          BY <3>2, <2>2, <4>1, <4>2 DEF pushTask, TypeOK
      <3>3. QED
        BY <1>2, <3>1, <3>2 DEF EnqueueAccepted
    <2>7. QED
      BY <1>2, <2>1, <2>2, <2>3, <2>6
      DEF EnqueueAccepted, TypeOK, runVars, endVars, statVars
  <1>3. ASSUME ProcessQueue
        PROVE  TypeOK'
    <2>1. Tail(immediates) \in Seq(Categories \cup {ProcessSignal})
      BY <1>3, HeadTailProperties DEF ProcessQueue, TypeOK
    <2>2. Append(Tail(immediates), ProcessSignal)
            \in Seq(Categories \cup {ProcessSignal})
      BY <2>1, AppendProperties
    <2>3. /\ processSignalPending' \in BOOLEAN
          /\ immediates' \in Seq(Categories \cup {ProcessSignal})
      BY <1>3, <2>1, <2>2 DEF ProcessQueue, MoreToDo
    <2> DEFINE Typed ==
          /\ queue' \in [Levels -> SUBSET Tasks]
          /\ batchTasks' = batchTasks
          /\ batchTotalSize' = batchTotalSize
          /\ batchAge' = batchAge
          /\ groups' = groups
          /\ activeRequests' \in Nat
          /\ main' \subseteq Tasks
          /\ pool' \subseteq Tasks
          /\ executing' \subseteq Tasks
    <2>4. Typed
      <3>1. CASE UNCHANGED <<queueVars, runVars>>
        BY <3>1 DEF TypeOK, queueVars, runVars
      <3>2. ASSUME NEW D \in SUBSET Ready, dispatch(D)
            PROVE  Typed
        <4>1. D \in SUBSET Tasks
          BY <3>2 DEF Ready, Leveled, Levels, TypeOK
        <4>2. Cardinality(D) \in Nat
          BY <4>1, TaskSetsFinite DEF TypeOK
        <4>3. queue' \in [Levels -> SUBSET Tasks]
          BY <3>2 DEF dispatch, TypeOK
        <4>4. activeRequests' \in Nat
          BY <3>2, <4>2 DEF dispatch, TypeOK
        <4>5. QED
          BY <3>2, <4>1, <4>3, <4>4 DEF dispatch, TypeOK
      <3>3. QED
        BY <1>3, <3>1, <3>2 DEF ProcessQueue
    <2>5. kind' = kind /\ UNCHANGED <<age, endVars, statVars, memoryPressure, sweep>>
      BY <1>3 DEF ProcessQueue
    <2>6. QED
      BY <2>3, <2>4, <2>5 DEF TypeOK, Tasks, endVars, statVars
  <1>4. ASSUME NEW t \in Tasks, NEW ok \in BOOLEAN, ExecuteReturns(t, ok)
        PROVE  TypeOK'
    <2>0. /\ UNCHANGED <<kind, age, queue, batchTasks, batchTotalSize, batchAge,
                          memoryPressure, sweep>>
          /\ executing' \subseteq executing
      BY <1>4 DEF ExecuteReturns, queueVars
    <2>1. CASE finish(t, ok)
      <3>1. /\ resolved' \subseteq Tasks
            /\ rejected' \subseteq Tasks
            /\ timedOut' \subseteq Tasks
            /\ totalProcessed' \in Nat
            /\ totalRejected' \in Nat
            /\ totalTimeout' \in Nat
            /\ refused' \in Nat
            /\ activeRequests' \in Nat
            /\ processSignalPending' \in BOOLEAN
            /\ immediates' \in Seq(Categories \cup {ProcessSignal})
            /\ main' \subseteq Tasks
            /\ pool' \subseteq Tasks
            /\ groups' \subseteq SUBSET Tasks
        BY <2>1, FinishType
      <3>2. QED
        BY <2>0, <3>1 DEF TypeOK, Tasks
    <2>2. CASE UNCHANGED <<main, pool, groups, activeRequests, endVars, statVars,
                           loopVars>>
      BY <1>4, <2>2 DEF ExecuteReturns, TypeOK, Tasks, queueVars, endVars,
                        statVars, loopVars
    <2>3. QED
      BY <1>4, <2>1, <2>2 DEF ExecuteReturns
  <1>5. ASSUME NEW t \in Tasks, NEW ok \in BOOLEAN, PoolDone(t, ok)
        PROVE  TypeOK'
    <2>0. /\ UNCHANGED <<kind, age, queue, batchTasks, batchTotalSize, batchAge,
                          main, groups, executing, memoryPressure, sweep>>
          /\ pool' \subseteq pool
          /\ finishOne(t, ok)
      BY <1>5 DEF PoolDone, queueVars
    <2>1. /\ resolved' \subseteq Tasks
          /\ rejected' \subseteq Tasks
          /\ timedOut' \subseteq Tasks
          /\ totalProcessed' \in Nat
          /\ totalRejected' \in Nat
          /\ totalTimeout' \in Nat
          /\ refused' \in Nat
          /\ activeRequests' \in Nat
          /\ processSignalPending' \in BOOLEAN
          /\ immediates' \in Seq(Categories \cup {ProcessSignal})
      BY <2>0, FinishOneType
    <2>2. QED
      BY <2>0, <2>1 DEF TypeOK, Tasks
  <1>6. ASSUME NEW t \in Tasks, ExecutionTimeout(t)
        PROVE  TypeOK'
    <2>0. /\ UNCHANGED <<kind, age, queue, batchTasks, batchTotalSize, batchAge,
                          executing, memoryPressure, sweep>>
          /\ finish(t, FALSE)
      BY <1>6 DEF ExecutionTimeout, queueVars
    <2>1. /\ resolved' \subseteq Tasks
          /\ rejected' \subseteq Tasks
          /\ timedOut' \subseteq Tasks
          /\ totalProcessed' \in Nat
          /\ totalRejected' \in Nat
          /\ totalTimeout' \in Nat
          /\ refused' \in Nat
          /\ activeRequests' \in Nat
          /\ processSignalPending' \in BOOLEAN
          /\ immediates' \in Seq(Categories \cup {ProcessSignal})
          /\ main' \subseteq Tasks
          /\ pool' \subseteq Tasks
          /\ groups' \subseteq SUBSET Tasks
      BY <2>0, FinishType
    <2>2. QED
      BY <2>0, <2>1 DEF TypeOK, Tasks
  <1>7. ASSUME NEW t \in Tasks, QueueTimeout(t)
        PROVE  TypeOK'
    <2>1. kind[t].size \in Int
      <3>1. kind \in Seq(Kinds) /\ t \in 1..Len(kind)
        BY DEF TypeOK, Tasks
      <3>2. kind[t] \in KindType
        BY <3>1, ElementOfSeq, KindsAssumption
      <3>3. QED
        BY <3>2, LimitsAssumption DEF KindType
    <2>2. removeTaskFromQueues(t)
      BY <1>7 DEF QueueTimeout
    <2>3. /\ queue' \in [Levels -> SUBSET Tasks]
          /\ batchTasks' \in [Categories -> SUBSET Tasks]
      BY <2>2 DEF removeTaskFromQueues, TypeOK
    <2>4. batchTotalSize' \in [Categories -> Int]
      BY <2>1, <2>2 DEF removeTaskFromQueues, sizeWithout, TypeOK
    <2>5. batchAge' \in [Categories -> 0..AgeCap]
      BY <2>2, AgeCapType DEF removeTaskFromQueues, TypeOK
    <2>6. QED
      BY <1>7, <2>3, <2>4, <2>5
      DEF QueueTimeout, TypeOK, Tasks, runVars, loopVars
  <1>8. ASSUME NEW c \in Categories, BatchImmediate(c)
        PROVE  TypeOK'
    <2>1. immediates' \in Seq(Categories \cup {ProcessSignal})
      BY <1>8, HeadTailProperties DEF BatchImmediate, TypeOK
    <2>2. processBatch(c) /\ kind' = kind
      BY <1>8 DEF BatchImmediate
    <2>3. QED
      BY <1>8, <2>1, <2>2, ProcessBatchType
      DEF BatchImmediate, TypeOK, Tasks, endVars, statVars
  <1>9. ASSUME NEW c \in Categories, SweepBatch(c)
        PROVE  TypeOK'
    <2>1. processBatch(c) /\ kind' = kind
      BY <1>9 DEF SweepBatch
    <2>2. QED
      BY <1>9, <2>1, ProcessBatchType
      DEF SweepBatch, TypeOK, Tasks, endVars, statVars, loopVars
  <1>10. CASE AgedBatches
    BY <1>10 DEF AgedBatches, TypeOK, Tasks, queueVars, runVars, endVars,
                 statVars, loopVars
  <1>11. CASE MemoryNormal
    <2>1. /\ processSignalPending' \in BOOLEAN
          /\ immediates' \in Seq(Categories \cup {ProcessSignal})
      BY <1>11, RequestType DEF MemoryNormal, loopVars, TypeOK
    <2>2. QED
      BY <1>11, <2>1 DEF MemoryNormal, TypeOK, Tasks, queueVars, runVars,
                         endVars, statVars
  <1>12. ASSUME NEW critical \in BOOLEAN, MemoryPressured(critical)
         PROVE  TypeOK'
    <2>1. Expired \in SUBSET Tasks
      BY DEF Expired, OldBatches, Leveled, Levels, TypeOK
    <2>2. PICK N \in SUBSET (queue["low"] \ Expired) :
            /\ queue' = queueWithout(Expired \cup N)
            /\ rejected' = rejected \cup N
            /\ totalRejected' = totalRejected + Cardinality(N)
      BY <1>12 DEF MemoryPressured
    <2>3. N \in SUBSET Tasks
      BY <2>2 DEF TypeOK, Levels
    <2>4. Cardinality(N) \in Nat /\ Cardinality(Expired) \in Nat
      BY <2>1, <2>3, TaskSetsFinite DEF TypeOK
    <2>5. queue' \in [Levels -> SUBSET Tasks]
      BY <2>2 DEF queueWithout, TypeOK
    <2>6. /\ batchTasks' \in [Categories -> SUBSET Tasks]
          /\ batchTotalSize' \in [Categories -> Int]
          /\ batchAge' \in [Categories -> 0..AgeCap]
      BY <1>12, AgeCapType DEF MemoryPressured, TypeOK
    <2>7. sweep' \subseteq Categories
      BY <1>12 DEF MemoryPressured
    <2>8. /\ totalRejected' \in Nat
          /\ totalTimeout' \in Nat
      BY <1>12, <2>2, <2>4 DEF MemoryPressured, TypeOK
    <2>9. /\ rejected' \subseteq Tasks
          /\ timedOut' \subseteq Tasks
      BY <1>12, <2>1, <2>2, <2>3 DEF MemoryPressured, TypeOK
    <2>10. QED
      BY <1>12, <2>5, <2>6, <2>7, <2>8, <2>9
      DEF MemoryPressured, TypeOK, Tasks, runVars, loopVars
  <1>13. CASE PollQueue
    <2>1. /\ processSignalPending' \in BOOLEAN
          /\ immediates' \in Seq(Categories \cup {ProcessSignal})
      BY <1>13, RequestType DEF PollQueue, TypeOK
    <2>2. QED
      BY <1>13, <2>1 DEF PollQueue, TypeOK, Tasks, queueVars, runVars,
                         endVars, statVars
  <1>14. CASE Tick
    <2>1. /\ age' \in [Tasks -> 0..AgeCap]
          /\ batchAge' \in [Categories -> 0..AgeCap]
      BY <1>14, AgeCapType DEF Tick, Least, TypeOK
    <2>2. QED
      BY <1>14, <2>1 DEF Tick, TypeOK, Tasks, runVars, endVars, statVars,
                         loopVars
  <1>15. CASE UNCHANGED vars
    BY <1>15 DEF vars, TypeOK, Tasks, queueVars, runVars, endVars, statVars,
                 loopVars
  <1>16. QED
    BY <1>1, <1>2, <1>3, <1>4, <1>5, <1>6, <1>7, <1>8, <1>9, <1>10, <1>11,
       <1>12, <1>13, <1>14, <1>15 DEF Next

\* The initial state has the types.
LEMMA InitType == Init => TypeOK
  <1> SUFFICES ASSUME Init PROVE TypeOK
    OBVIOUS
  <1>1. kind \in Seq(Kinds) /\ Len(kind) = 0
    BY EmptySeq DEF Init
  <1>2. Tasks = {}
    BY <1>1 DEF Tasks
  <1>3. age \in [Tasks -> 0..AgeCap]
    <2>1. age \in Seq(0..AgeCap) /\ Len(age) = 0
      BY EmptySeq DEF Init
    <2>2. age \in [1..0 -> 0..AgeCap]
      BY <2>1, LenProperties
    <2>3. QED
      BY <1>1, <2>2 DEF Tasks
  <1>4. immediates \in Seq(Categories \cup {ProcessSignal})
    BY EmptySeq DEF Init
  <1>5. /\ queue \in [Levels -> SUBSET Tasks]
        /\ batchTasks \in [Categories -> SUBSET Tasks]
        /\ batchTotalSize \in [Categories -> Int]
        /\ batchAge \in [Categories -> 0..AgeCap]
    BY AgeCapType DEF Init
  <1>6. /\ main \subseteq Tasks /\ pool \subseteq Tasks
        /\ groups \subseteq SUBSET Tasks /\ executing \subseteq Tasks
        /\ resolved \subseteq Tasks /\ rejected \subseteq Tasks
        /\ timedOut \subseteq Tasks /\ sweep \subseteq Categories
    BY DEF Init
  <1>7. /\ activeRequests \in Nat /\ totalProcessed \in Nat
        /\ totalRejected \in Nat /\ totalTimeout \in Nat /\ refused \in Nat
    BY DEF Init
  <1>8. memoryPressure \in BOOLEAN /\ processSignalPending \in BOOLEAN
    BY DEF Init
  <1>9. QED
    BY <1>1, <1>3, <1>4, <1>5, <1>6, <1>7, <1>8 DEF TypeOK

\* The queue never leaves its types, whatever order callbacks, timers and
\* memory checks run in.
THEOREM TypeCorrect == Spec => []TypeOK
  BY InitType, TypeStep, PTL DEF Spec

-----------------------------------------------------------------------------
(* The signal: processSignalPending against the setImmediate queue *)

Immediate == Categories \cup {ProcessSignal}

\* SignalScheduled, for any flag and any queue of immediates.
Scheduled(pending, imm) ==
  /\ pending <=> \E i \in DOMAIN imm : imm[i] = ProcessSignal
  /\ \A i, j \in DOMAIN imm :
       imm[i] = ProcessSignal /\ imm[j] = ProcessSignal => i = j

\* Scheduling a batch immediate does not disturb the signal.
LEMMA ScheduleBatch ==
  ASSUME NEW p \in BOOLEAN, NEW s \in Seq(Immediate), Scheduled(p, s),
         NEW c \in Categories
  PROVE  Scheduled(p, Append(s, c))
  <1>1. c # ProcessSignal /\ c \in Immediate
    BY CategoriesAssumption DEF Immediate
  <1>2. Len(s) \in Nat /\ DOMAIN s = 1..Len(s)
    BY LenProperties
  <1>3. /\ DOMAIN Append(s, c) = 1..(Len(s) + 1)
        /\ Append(s, c)[Len(s) + 1] = c
        /\ \A i \in 1..Len(s) : Append(s, c)[i] = s[i]
    BY <1>1, <1>2, AppendProperties, LenProperties
  <1>4. QED
    BY <1>1, <1>2, <1>3 DEF Scheduled

\* requestProcessQueue schedules one signal, or finds it scheduled.
LEMMA ScheduleSignal ==
  ASSUME NEW s \in Seq(Immediate), Scheduled(FALSE, s)
  PROVE  Scheduled(TRUE, Append(s, ProcessSignal))
  <1>1. ProcessSignal \in Immediate
    BY DEF Immediate
  <1>2. Len(s) \in Nat /\ DOMAIN s = 1..Len(s)
    BY LenProperties
  <1>3. /\ DOMAIN Append(s, ProcessSignal) = 1..(Len(s) + 1)
        /\ Append(s, ProcessSignal)[Len(s) + 1] = ProcessSignal
        /\ \A i \in 1..Len(s) : Append(s, ProcessSignal)[i] = s[i]
    BY <1>1, <1>2, AppendProperties, LenProperties
  <1>4. \A i \in 1..Len(s) : s[i] # ProcessSignal
    BY <1>2 DEF Scheduled
  <1>5. QED
    BY <1>2, <1>3, <1>4 DEF Scheduled

\* Running the signal's immediate leaves none behind; running a batch's leaves
\* the signal where it was.
LEMMA RunImmediate ==
  ASSUME NEW p \in BOOLEAN, NEW s \in Seq(Immediate), s # << >>, Scheduled(p, s)
  PROVE  /\ Head(s) = ProcessSignal => Scheduled(FALSE, Tail(s))
         /\ Head(s) # ProcessSignal => Scheduled(p, Tail(s))
  <1>1. Len(s) \in Nat \ {0} /\ DOMAIN s = 1..Len(s)
    BY LenProperties, EmptySeq
  <1>2. /\ Len(Tail(s)) = Len(s) - 1
        /\ Tail(s) \in Seq(Immediate)
        /\ \A i \in 1..Len(Tail(s)) : Tail(s)[i] = s[i + 1]
    BY HeadTailProperties
  <1>3. DOMAIN Tail(s) = 1..(Len(s) - 1)
    BY <1>2, LenProperties
  <1>4. Head(s) = s[1]
    OBVIOUS
  <1>5. \A i \in 1..(Len(s) - 1) : Tail(s)[i] = s[i + 1] /\ i + 1 \in 1..Len(s)
    BY <1>1, <1>2
  <1>6. ASSUME NEW i \in DOMAIN s, s[i] = ProcessSignal, i # 1
        PROVE  i - 1 \in DOMAIN Tail(s) /\ Tail(s)[i - 1] = ProcessSignal
    BY <1>1, <1>3, <1>5, <1>6
  <1>7. \A i, j \in DOMAIN Tail(s) :
          Tail(s)[i] = ProcessSignal /\ Tail(s)[j] = ProcessSignal => i = j
    BY <1>1, <1>3, <1>5 DEF Scheduled
  <1>8. ASSUME Head(s) = ProcessSignal
        PROVE  ~ \E i \in DOMAIN Tail(s) : Tail(s)[i] = ProcessSignal
    BY <1>1, <1>3, <1>4, <1>5, <1>8 DEF Scheduled
  <1>9. ASSUME Head(s) # ProcessSignal
        PROVE  (\E i \in DOMAIN Tail(s) : Tail(s)[i] = ProcessSignal)
                 <=> (\E i \in DOMAIN s : s[i] = ProcessSignal)
    BY <1>1, <1>3, <1>4, <1>5, <1>6, <1>9
  <1>10. QED
    BY <1>7, <1>8, <1>9 DEF Scheduled

\* A request for processing leaves exactly one signal scheduled.
LEMMA RequestScheduled ==
  ASSUME NEW imm \in Seq(Immediate), processSignalPending \in BOOLEAN,
         Scheduled(processSignalPending, imm), requestProcessQueue(imm)
  PROVE  SignalScheduled'
  <1>1. CASE processSignalPending
    <2>1. processSignalPending' = TRUE /\ immediates' = imm
      BY <1>1 DEF requestProcessQueue
    <2>2. QED
      BY <1>1, <2>1 DEF SignalScheduled, Scheduled
  <1>2. CASE ~processSignalPending
    <2>1. processSignalPending' = TRUE /\ immediates' = Append(imm, ProcessSignal)
      BY <1>2 DEF requestProcessQueue
    <2>2. Scheduled(FALSE, imm)
      BY <1>2 DEF Scheduled
    <2>3. Scheduled(TRUE, Append(imm, ProcessSignal))
      BY <2>2, ScheduleSignal
    <2>4. QED
      BY <2>1, <2>3 DEF SignalScheduled, Scheduled
  <1>3. QED
    BY <1>1, <1>2

-----------------------------------------------------------------------------
(* Slots and wake-ups.  With TypeOK the three are inductive as they stand.  *)

WakeupInv == TypeOK /\ ActiveBound /\ SignalScheduled /\ NoLostWakeup

\* Neither bound nor wake-up can be lost when no slot is freed, nothing new
\* waits and the signal stays as it is.
LEMMA QuietStep ==
  ASSUME WakeupInv, ActiveBound', activeRequests' \in Nat,
         activeRequests' >= activeRequests, Queued' \subseteq Queued,
         processSignalPending' = processSignalPending
  PROVE  NoLostWakeup'
  <1>1. activeRequests \in Nat /\ MaxConcurrentRequests \in Nat
    BY LimitsAssumption DEF WakeupInv, TypeOK
  <1>2. CASE Queued' # {} /\ activeRequests' < MaxConcurrentRequests
    <2>1. Queued # {} /\ activeRequests < MaxConcurrentRequests
      BY <1>1, <1>2
    <2>2. processSignalPending
      BY <2>1 DEF WakeupInv, NoLostWakeup
    <2>3. QED
      BY <2>2 DEF NoLostWakeup
  <1>3. QED
    BY <1>2 DEF NoLostWakeup

\* processBatch stays within the free slots and only takes tasks away.
LEMMA ProcessBatchSlots ==
  ASSUME WakeupInv, NEW c \in Categories, processBatch(c), kind' = kind
  PROVE  /\ ActiveBound'
         /\ activeRequests' \in Nat
         /\ activeRequests' >= activeRequests
         /\ Queued' \subseteq Queued
  <1>0. TypeOK /\ activeRequests \in Nat /\ MaxConcurrentRequests \in Nat
    BY LimitsAssumption DEF WakeupInv, TypeOK
  <1>1. CASE UNCHANGED <<queueVars, runVars>>
    BY <1>0, <1>1 DEF WakeupInv, ActiveBound, queueVars, runVars, Queued, Leveled,
                      Batched
  <1>2. CASE ~UNCHANGED <<queueVars, runVars>>
    <2>1. PICK D \in SUBSET batchTasks[c] :
            /\ Cardinality(D) = dispatchCount(c)
            /\ batchTasks' = [batchTasks EXCEPT ![c] = @ \ D]
            /\ activeRequests' = activeRequests + Cardinality(D)
      BY <1>2 DEF processBatch, IsOldest
    <2>2. queue' = queue
      BY <1>2 DEF processBatch
    <2>3. D \in SUBSET Tasks /\ batchTasks[c] \in SUBSET Tasks
      BY <1>0, <2>1 DEF TypeOK
    <2>4. Cardinality(D) \in Nat /\ Cardinality(batchTasks[c]) \in Nat
      BY <1>0, <2>3, TaskSetsFinite DEF TypeOK
    <2>5. Cardinality(D) <= MaxConcurrentRequests - activeRequests
      BY <1>0, <2>1, <2>4 DEF dispatchCount, Least
    <2>6. \A d \in Categories : batchTasks'[d] \subseteq batchTasks[d]
      BY <1>0, <2>1 DEF TypeOK
    <2>7. Queued' \subseteq Queued
      BY <2>2, <2>6 DEF Queued, Leveled, Batched
    <2>8. QED
      BY <1>0, <2>1, <2>4, <2>5, <2>7 DEF ActiveBound
  <1>3. QED
    BY <1>1, <1>2

\* Settling one task frees at most its slot, and wakes the queue.
LEMMA FinishOneWakes ==
  ASSUME WakeupInv, NEW t \in Tasks, NEW ok \in BOOLEAN, finishOne(t, ok)
  PROVE  /\ processSignalPending' = TRUE
         /\ SignalScheduled'
         /\ ActiveBound'
  <1>1. immediates \in Seq(Immediate) /\ processSignalPending \in BOOLEAN
    BY DEF WakeupInv, TypeOK, Immediate
  <1>2. Scheduled(processSignalPending, immediates)
    BY DEF WakeupInv, SignalScheduled, Scheduled
  <1>3. requestProcessQueue(immediates)
    BY DEF finishOne
  <1>4. SignalScheduled'
    BY <1>1, <1>2, <1>3, RequestScheduled
  <1>5. ActiveBound'
    BY LimitsAssumption
    DEF finishOne, slotsAfter, AtLeast0, ActiveBound, WakeupInv, TypeOK
  <1>6. QED
    BY <1>3, <1>4, <1>5 DEF requestProcessQueue

\* The end of an execution either changes no slot or wakes the queue.
LEMMA FinishWakes ==
  ASSUME WakeupInv, NEW t \in Tasks, NEW ok \in BOOLEAN, finish(t, ok)
  PROVE  /\ SignalScheduled'
         /\ ActiveBound'
         /\ \/ processSignalPending' = TRUE
            \/ UNCHANGED <<activeRequests, processSignalPending>>
  <1>1. CASE finishMain(t, ok)
    BY <1>1, FinishOneWakes DEF finishMain
  <1>2. CASE finishGrouped(t, ok)
    <2>1. PICK G \in groups :
            \/ closeGroup(G)
            \/ UNCHANGED <<groups, totalProcessed, totalRejected,
                           activeRequests, loopVars>>
      BY <1>2 DEF finishGrouped
    <2>2. CASE closeGroup(G)
      <3>1. immediates \in Seq(Immediate) /\ processSignalPending \in BOOLEAN
        BY DEF WakeupInv, TypeOK, Immediate
      <3>2. Scheduled(processSignalPending, immediates)
        BY DEF WakeupInv, SignalScheduled, Scheduled
      <3>3. requestProcessQueue(immediates)
        BY <2>2 DEF closeGroup
      <3>4. SignalScheduled'
        BY <3>1, <3>2, <3>3, RequestScheduled
      <3>5. Cardinality(G) \in Nat
        BY TaskSetsFinite DEF WakeupInv, TypeOK
      <3>6. ActiveBound'
        BY <2>2, <3>5, LimitsAssumption
        DEF closeGroup, slotsAfter, AtLeast0, ActiveBound, WakeupInv, TypeOK
      <3>7. QED
        BY <3>3, <3>4, <3>6 DEF requestProcessQueue
    <2>3. CASE UNCHANGED <<groups, totalProcessed, totalRejected,
                           activeRequests, loopVars>>
      BY <2>3 DEF loopVars, WakeupInv, SignalScheduled, ActiveBound
    <2>4. QED
      BY <2>1, <2>2, <2>3
  <1>3. QED
    BY <1>1, <1>2 DEF finish

\* Every step keeps the slot bound, the signal and the wake-up.
LEMMA WakeupStep ==
  WakeupInv /\ [Next]_vars => (ActiveBound /\ SignalScheduled /\ NoLostWakeup)'
  <1> SUFFICES ASSUME WakeupInv, [Next]_vars
               PROVE  (ActiveBound /\ SignalScheduled /\ NoLostWakeup)'
    OBVIOUS
  <1> DEFINE Goal == (ActiveBound /\ SignalScheduled /\ NoLostWakeup)'
  <1>0. /\ TypeOK /\ TypeOK'
        /\ activeRequests \in Nat /\ activeRequests' \in Nat
        /\ MaxConcurrentRequests \in Nat
    BY TypeStep, LimitsAssumption DEF WakeupInv, TypeOK
  <1>a. /\ immediates \in Seq(Immediate)
        /\ processSignalPending \in BOOLEAN
        /\ Scheduled(processSignalPending, immediates)
    BY DEF WakeupInv, TypeOK, SignalScheduled, Scheduled, Immediate
  <1>b. ASSUME UNCHANGED <<queue, batchTasks, activeRequests, processSignalPending,
                           immediates>>
        PROVE  Goal
    BY <1>b DEF WakeupInv, ActiveBound, SignalScheduled, NoLostWakeup, Queued,
                Leveled, Batched
  <1>c. ASSUME requestProcessQueue(immediates), activeRequests' = activeRequests
        PROVE  Goal
    <2>1. SignalScheduled'
      BY <1>a, <1>c, RequestScheduled
    <2>2. processSignalPending' = TRUE
      BY <1>c DEF requestProcessQueue
    <2>3. QED
      BY <1>c, <2>1, <2>2 DEF WakeupInv, ActiveBound, NoLostWakeup
  <1>1. ASSUME NEW k \in Kinds, EnqueueRefused(k)
        PROVE  Goal
    BY <1>1, <1>b DEF EnqueueRefused, queueVars, runVars, loopVars
  <1>2. ASSUME NEW k \in Kinds, EnqueueAccepted(k)
        PROVE  Goal
    <2>1. activeRequests' = activeRequests
      BY <1>2 DEF EnqueueAccepted, runVars
    <2>2. CASE pushTask(Len(kind) + 1, k)
      BY <2>1, <2>2, <1>c DEF pushTask
    <2>3. CASE addTaskToBatch(Len(kind) + 1, k)
      <3>1. k.category \in Categories
        BY KindsAssumption DEF KindType
      <3>2. /\ Append(immediates, k.category) \in Seq(Immediate)
            /\ Scheduled(processSignalPending, Append(immediates, k.category))
        BY <1>a, <3>1, ScheduleBatch, AppendProperties DEF Immediate
      <3>3. PICK imm \in {immediates, Append(immediates, k.category)} :
              requestProcessQueue(imm)
        BY <2>3 DEF addTaskToBatch
      <3>4. imm \in Seq(Immediate) /\ Scheduled(processSignalPending, imm)
        BY <1>a, <3>2, <3>3
      <3>5. SignalScheduled'
        BY <1>a, <3>3, <3>4, RequestScheduled
      <3>6. processSignalPending' = TRUE
        BY <3>3 DEF requestProcessQueue
      <3>7. QED
        BY <2>1, <3>5, <3>6 DEF WakeupInv, ActiveBound, NoLostWakeup
    <2>4. QED
      BY <1>2, <2>2, <2>3 DEF EnqueueAccepted
  <1>3. ASSUME ProcessQueue
        PROVE  Goal
    <2>1. /\ immediates # << >>
          /\ Head(immediates) = ProcessSignal
      BY <1>3 DEF ProcessQueue
    <2>2. Tail(immediates) \in Seq(Immediate)
      BY <1>a, <2>1, HeadTailProperties
    <2>3. Scheduled(FALSE, Tail(immediates))
      BY <1>a, <2>1, RunImmediate
    <2>4. CASE activeRequests >= MaxConcurrentRequests
      <3>1. /\ processSignalPending' = FALSE
            /\ immediates' = Tail(immediates)
            /\ activeRequests' = activeRequests
        BY <1>0, <1>3, <2>4 DEF ProcessQueue, runVars
      <3>2. SignalScheduled'
        BY <2>3, <3>1 DEF SignalScheduled, Scheduled
      <3>3. QED
        BY <1>0, <2>4, <3>1, <3>2 DEF WakeupInv, ActiveBound, NoLostWakeup
    <2>5. CASE activeRequests < MaxConcurrentRequests
      <3>1. PICK D \in SUBSET Ready :
              /\ Cardinality(D) = Least(availableSlots, Cardinality(Ready))
              /\ dispatch(D)
        BY <1>0, <1>3, <2>5 DEF ProcessQueue
      <3>2. /\ processSignalPending' = MoreToDo
            /\ immediates' = IF MoreToDo
                             THEN Append(Tail(immediates), ProcessSignal)
                             ELSE Tail(immediates)
        BY <1>0, <1>3, <2>5 DEF ProcessQueue
      <3>3. Ready \in SUBSET Tasks
        BY <1>0 DEF Ready, Leveled, Levels, TypeOK
      <3>4. Cardinality(Ready) \in Nat /\ Cardinality(D) \in Nat
        BY <1>0, <3>1, <3>3, TaskSetsFinite DEF TypeOK
      <3>5. Cardinality(D) <= MaxConcurrentRequests - activeRequests
        BY <1>0, <3>1, <3>4, LimitsAssumption DEF Least, availableSlots
      <3>6. ActiveBound'
        BY <1>0, <3>1, <3>4, <3>5 DEF dispatch, ActiveBound
      <3>7. SignalScheduled'
        <4>1. CASE MoreToDo
          <5>1. Scheduled(TRUE, Append(Tail(immediates), ProcessSignal))
            BY <2>2, <2>3, ScheduleSignal
          <5>2. QED
            BY <3>2, <4>1, <5>1 DEF SignalScheduled, Scheduled
        <4>2. CASE ~MoreToDo
          BY <2>3, <3>2, <4>2 DEF SignalScheduled, Scheduled
        <4>3. QED
          BY <4>1, <4>2
      <3>8. NoLostWakeup'
        BY <3>2 DEF MoreToDo, NoLostWakeup
      <3>9. QED
        BY <3>6, <3>7, <3>8
    <2>6. QED
      BY <1>0, <2>4, <2>5
  <1>d. ASSUME NEW t \in Tasks, NEW ok \in BOOLEAN, finish(t, ok),
               UNCHANGED <<queue, batchTasks>>
        PROVE  Goal
    <2>1. /\ SignalScheduled' /\ ActiveBound'
          /\ \/ processSignalPending' = TRUE
             \/ UNCHANGED <<activeRequests, processSignalPending>>
      BY <1>d, FinishWakes
    <2>2. CASE processSignalPending' = TRUE
      BY <2>1, <2>2 DEF NoLostWakeup
    <2>3. CASE UNCHANGED <<activeRequests, processSignalPending>>
      BY <1>d, <2>1, <2>3 DEF WakeupInv, NoLostWakeup, Queued, Leveled, Batched
    <2>4. QED
      BY <2>1, <2>2, <2>3
  <1>4. ASSUME NEW t \in Tasks, NEW ok \in BOOLEAN, ExecuteReturns(t, ok)
        PROVE  Goal
    <2>1. UNCHANGED <<queue, batchTasks>>
      BY <1>4 DEF ExecuteReturns, queueVars
    <2>2. CASE finish(t, ok)
      BY <1>d, <2>1, <2>2
    <2>3. CASE UNCHANGED <<main, pool, groups, activeRequests, endVars, statVars,
                           loopVars>>
      BY <1>b, <2>1, <2>3 DEF loopVars
    <2>4. QED
      BY <1>4, <2>2, <2>3 DEF ExecuteReturns
  <1>5. ASSUME NEW t \in Tasks, NEW ok \in BOOLEAN, PoolDone(t, ok)
        PROVE  Goal
    BY <1>5, FinishOneWakes DEF PoolDone, NoLostWakeup
  <1>6. ASSUME NEW t \in Tasks, ExecutionTimeout(t)
        PROVE  Goal
    BY <1>6, <1>d DEF ExecutionTimeout, queueVars
  <1>e. ASSUME activeRequests' >= activeRequests, ActiveBound',
               Queued' \subseteq Queued,
               UNCHANGED <<processSignalPending, immediates>>
        PROVE  Goal
    <2>1. NoLostWakeup'
      BY <1>0, <1>e, QuietStep
    <2>2. SignalScheduled'
      BY <1>e DEF WakeupInv, SignalScheduled
    <2>3. QED
      BY <1>e, <2>1, <2>2
  <1>7. ASSUME NEW t \in Tasks, QueueTimeout(t)
        PROVE  Goal
    <2>1. /\ removeTaskFromQueues(t)
          /\ UNCHANGED <<activeRequests, processSignalPending, immediates>>
      BY <1>7 DEF QueueTimeout, runVars, loopVars
    <2>2. Queued' \subseteq Queued
      BY <2>1 DEF removeTaskFromQueues, Queued, Leveled, Batched, Levels
    <2>3. QED
      BY <1>0, <1>e, <2>1, <2>2 DEF WakeupInv, ActiveBound
  <1>8. ASSUME NEW c \in Categories, BatchImmediate(c)
        PROVE  Goal
    <2>1. /\ immediates # << >> /\ Head(immediates) = c
          /\ immediates' = Tail(immediates)
          /\ processSignalPending' = processSignalPending
          /\ processBatch(c) /\ kind' = kind
      BY <1>8 DEF BatchImmediate
    <2>2. /\ ActiveBound'
          /\ activeRequests' >= activeRequests
          /\ Queued' \subseteq Queued
      BY <2>1, ProcessBatchSlots
    <2>3. Scheduled(processSignalPending, Tail(immediates))
      BY <1>a, <2>1, RunImmediate, CategoriesAssumption
    <2>4. SignalScheduled'
      BY <2>1, <2>3 DEF SignalScheduled, Scheduled
    <2>5. NoLostWakeup'
      BY <1>0, <2>1, <2>2, QuietStep
    <2>6. QED
      BY <2>2, <2>4, <2>5
  <1>9. ASSUME NEW c \in Categories, SweepBatch(c)
        PROVE  Goal
    <2>1. /\ UNCHANGED <<processSignalPending, immediates>>
          /\ processBatch(c) /\ kind' = kind
      BY <1>9 DEF SweepBatch, loopVars
    <2>2. QED
      BY <1>e, <2>1, ProcessBatchSlots
  <1>10. CASE AgedBatches
    BY <1>10, <1>b DEF AgedBatches, queueVars, runVars, loopVars
  <1>11. CASE MemoryNormal
    <2>1. UNCHANGED <<queue, batchTasks, activeRequests>>
      BY <1>11 DEF MemoryNormal, queueVars, runVars
    <2>2. requestProcessQueue(immediates) \/ UNCHANGED loopVars
      BY <1>11 DEF MemoryNormal
    <2>3. QED
      BY <1>b, <1>c, <2>1, <2>2 DEF loopVars
  <1>12. ASSUME NEW critical \in BOOLEAN, MemoryPressured(critical)
         PROVE  Goal
    <2>1. UNCHANGED <<activeRequests, processSignalPending, immediates>>
      BY <1>12 DEF MemoryPressured, runVars, loopVars
    <2>2. PICK N : queue' = queueWithout(Expired \cup N)
      BY <1>12 DEF MemoryPressured
    <2>3. \A c \in Categories : batchTasks'[c] \subseteq batchTasks[c]
      BY <1>12 DEF MemoryPressured
    <2>4. \A l \in Levels : queue'[l] \subseteq queue[l]
      BY <2>2 DEF queueWithout
    <2>5. Queued' \subseteq Queued
      BY <2>3, <2>4 DEF Queued, Leveled, Batched, Levels
    <2>6. QED
      BY <1>0, <1>e, <2>1, <2>5 DEF WakeupInv, ActiveBound
  <1>13. CASE PollQueue
    BY <1>13, <1>c DEF PollQueue, runVars
  <1>14. CASE Tick
    BY <1>14, <1>b DEF Tick, runVars, loopVars
  <1>15. CASE UNCHANGED vars
    BY <1>15, <1>b DEF vars, queueVars, runVars, loopVars
  <1>16. QED
    BY <1>1, <1>2, <1>3, <1>4, <1>5, <1>6, <1>7, <1>8, <1>9, <1>10, <1>11,
       <1>12, <1>13, <1>14, <1>15 DEF Next

\* The inductive invariant holds in every reachable state.
LEMMA WakeupInvariant == Spec => []WakeupInv
  <1>1. Init => TypeOK
    BY InitType
  <1>2. Init => ActiveBound /\ SignalScheduled /\ NoLostWakeup
    BY LimitsAssumption
    DEF Init, ActiveBound, SignalScheduled, NoLostWakeup, Queued, Leveled, Batched,
        Levels
  <1>3. WakeupInv /\ [Next]_vars => WakeupInv'
    BY TypeStep, WakeupStep DEF WakeupInv
  <1>4. QED
    BY <1>1, <1>2, <1>3, PTL DEF Spec, WakeupInv

\* activeRequests never exceeds QUEUE_MAX_CONCURRENT_REQUESTS, for any limits,
\* load and mix of processQueue, batch immediates, aging and forced reduction.
THEOREM SlotsBounded == Spec => []ActiveBound
  BY WakeupInvariant, PTL DEF WakeupInv

\* processSignalPending is up exactly while one processQueue immediate is in
\* the event loop: requestProcessQueue is never muted and never doubled.
THEOREM SignalExact == Spec => []SignalScheduled
  BY WakeupInvariant, PTL DEF WakeupInv

\* A waiting task and a free slot never coexist without a scheduled
\* processQueue: the event-driven path needs no fallback poll.
THEOREM WakeupNeverLost == Spec => []NoLostWakeup
  BY WakeupInvariant, PTL DEF WakeupInv

-----------------------------------------------------------------------------
(* No accepted task is lost, duplicated or settled twice *)

\* The conjuncts of SinglePlace, by what has to be shown of a step: nothing is
\* lost, the cells of each container are disjoint, and so are the containers.
Covered == Tasks = Queued \cup main \cup pool \cup Grouped \cup Settled
CellsDisjoint ==
  /\ \A l1, l2 \in Levels : l1 # l2 => queue[l1] \cap queue[l2] = {}
  /\ \A c1, c2 \in Categories : c1 # c2 => batchTasks[c1] \cap batchTasks[c2] = {}
  /\ \A G1, G2 \in groups : G1 # G2 => G1 \cap G2 = {}
Apart ==
  /\ Leveled \cap Batched = {}
  /\ Queued \cap (main \cup pool \cup Grouped \cup Settled) = {}
  /\ main \cap (pool \cup Grouped \cup Settled) = {}
  /\ pool \cap (Grouped \cup Settled) = {}
  /\ timedOut \cap (Grouped \cup resolved \cup rejected) = {}
  /\ resolved \cap rejected = {}

\* SinglePlace is the conjunction of its parts, before and after a step.
LEMMA Parts ==
  /\ SinglePlace <=> Covered /\ CellsDisjoint /\ Apart
  /\ SinglePlace' <=> Covered' /\ CellsDisjoint' /\ Apart'
  BY DEF SinglePlace, Covered, CellsDisjoint, Apart

\* Cells that only shrink stay disjoint.
LEMMA ShrinkingCells ==
  ASSUME CellsDisjoint, groups' \subseteq groups,
         \A l \in Levels : queue'[l] \subseteq queue[l],
         \A c \in Categories : batchTasks'[c] \subseteq batchTasks[c]
  PROVE  CellsDisjoint'
  BY DEF CellsDisjoint

\* Everything the containers hold is an accepted task.
LEMMA PlacesAreTasks ==
  ASSUME TypeOK
  PROVE  /\ Queued \subseteq Tasks
         /\ Grouped \subseteq Tasks
         /\ Settled \subseteq Tasks
         /\ main \subseteq Tasks
         /\ pool \subseteq Tasks
  BY DEF TypeOK, Queued, Leveled, Levels, Batched, Grouped, Settled

\* A step that settles one task outside the queues and takes it out of main or
\* the pool keeps every task in one place.
LEMMA SettleRunning ==
  ASSUME TypeOK, SinglePlace, NEW t \in main \cup pool, NEW ok \in BOOLEAN,
         settle(t, ok), UNCHANGED <<kind, queue, batchTasks, groups>>,
         main' = main \ {t}, pool' = pool \ {t}
  PROVE  SinglePlace'
  <1>1. Covered /\ CellsDisjoint /\ Apart
    BY Parts
  <1>2. /\ Tasks' = Tasks /\ Leveled' = Leveled /\ Batched' = Batched
        /\ Queued' = Queued /\ Grouped' = Grouped
    BY DEF Tasks, Leveled, Batched, Queued, Grouped
  <1>3. /\ Settled' = Settled \cup {t}
        /\ timedOut' = timedOut
        /\ \/ resolved' = resolved \cup {t} /\ rejected' = rejected
           \/ resolved' = resolved /\ rejected' = rejected \cup {t}
    BY DEF settle, Settled
  <1>4. t \notin Queued /\ t \notin Grouped /\ t \notin Settled
    BY <1>1 DEF Apart
  <1>5. Covered'
    BY <1>1, <1>2, <1>3 DEF Covered
  <1>6. Apart'
    BY <1>1, <1>2, <1>3, <1>4 DEF Apart, Settled
  <1>7. CellsDisjoint'
    BY <1>1 DEF CellsDisjoint
  <1>8. QED
    BY <1>5, <1>6, <1>7, Parts

\* The end of an execution settles the task where it was, and closes its group
\* only when every member of the group is settled.
LEMMA FinishPlace ==
  ASSUME TypeOK, SinglePlace, NEW t \in Tasks, t \notin Settled,
         NEW ok \in BOOLEAN, finish(t, ok), UNCHANGED <<kind, queue, batchTasks>>
  PROVE  SinglePlace'
  <1>0. Covered /\ CellsDisjoint /\ Apart
    BY Parts
  <1>1. CASE finishMain(t, ok)
    <2>1. /\ t \in main /\ main' = main \ {t} /\ UNCHANGED <<pool, groups>>
          /\ settle(t, ok)
      BY <1>1 DEF finishMain, finishOne
    <2>2. t \notin pool
      BY <1>0, <2>1 DEF Apart
    <2>3. pool' = pool \ {t}
      BY <2>1, <2>2
    <2>4. QED
      BY <2>1, <2>3, SettleRunning
  <1>2. CASE finishGrouped(t, ok)
    <2>1. PICK G \in groups :
            /\ t \in G
            /\ settle(t, ok)
            /\ \/ G \subseteq Settled' /\ closeGroup(G)
               \/ groups' = groups
            /\ UNCHANGED <<main, pool>>
      BY <1>2 DEF finishGrouped
    <2>2. /\ groups' \subseteq groups
          /\ Grouped' \subseteq Grouped
          /\ Grouped \subseteq Grouped' \cup Settled'
      BY <2>1 DEF Grouped, closeGroup
    <2>3. /\ Tasks' = Tasks /\ Leveled' = Leveled /\ Batched' = Batched
          /\ Queued' = Queued
      BY DEF Tasks, Leveled, Batched, Queued
    <2>4. /\ Settled' = Settled \cup {t}
          /\ timedOut' = timedOut
          /\ \/ resolved' = resolved \cup {t} /\ rejected' = rejected
             \/ resolved' = resolved /\ rejected' = rejected \cup {t}
      BY <2>1 DEF settle, Settled
    <2>5. t \in Grouped
      BY <2>1 DEF Grouped
    <2>6. Covered'
      BY <1>0, <2>1, <2>2, <2>3, <2>4, <2>5 DEF Covered
    <2>7. Apart'
      BY <1>0, <2>1, <2>2, <2>3, <2>4, <2>5 DEF Apart, Settled
    <2>8. CellsDisjoint'
      BY <1>0, <2>2, ShrinkingCells
    <2>9. QED
      BY <2>6, <2>7, <2>8, Parts
  <1>3. QED
    BY <1>1, <1>2 DEF finish

\* processBatch moves the tasks it shifts from the batch to a new group.
LEMMA ProcessBatchPlace ==
  ASSUME TypeOK, SinglePlace, NEW c \in Categories, processBatch(c),
         UNCHANGED <<kind, endVars>>
  PROVE  SinglePlace'
  <1>0. Covered /\ CellsDisjoint /\ Apart
    BY Parts
  <1>a. /\ Tasks' = Tasks /\ Settled' = Settled
        /\ UNCHANGED <<resolved, rejected, timedOut>>
    BY DEF Tasks, Settled, endVars
  <1>1. CASE UNCHANGED <<queueVars, runVars>>
    BY <1>1, <1>a DEF queueVars, runVars, SinglePlace, Queued, Leveled, Batched,
                      Grouped
  <1>2. CASE ~UNCHANGED <<queueVars, runVars>>
    <2>1. PICK D \in SUBSET batchTasks[c] :
            /\ batchTasks' = [batchTasks EXCEPT ![c] = @ \ D]
            /\ groups' = groups \cup {D}
      BY <1>2 DEF processBatch
    <2>2. UNCHANGED <<queue, main, pool>>
      BY <1>2 DEF processBatch
    <2>3. /\ batchTasks'[c] = batchTasks[c] \ D
          /\ \A d \in Categories \ {c} : batchTasks'[d] = batchTasks[d]
      BY <2>1 DEF TypeOK
    <2>4. D \subseteq Batched
      BY <2>1 DEF Batched
    <2>5. \A d \in Categories \ {c} : batchTasks[d] \cap D = {}
      BY <1>0, <2>1 DEF CellsDisjoint
    <2>6. Batched' = Batched \ D
      BY <2>3, <2>5 DEF Batched
    <2>7. Leveled' = Leveled /\ Leveled \cap D = {}
      BY <1>0, <2>2, <2>4 DEF Leveled, Apart
    <2>8. Queued' = Queued \ D /\ D \subseteq Queued
      BY <2>4, <2>6, <2>7 DEF Queued
    <2>9. Grouped' = Grouped \cup D
      BY <2>1 DEF Grouped
    <2>10. Covered'
      BY <1>0, <1>a, <2>2, <2>8, <2>9 DEF Covered
    <2>11. Apart'
      BY <1>0, <1>a, <2>2, <2>6, <2>7, <2>8, <2>9 DEF Apart, Settled
    <2>12. \A G \in groups : G \cap D = {}
      BY <1>0, <2>8 DEF Apart, Grouped
    <2>13. CellsDisjoint'
      <3>1. \A c1, c2 \in Categories :
              c1 # c2 => batchTasks'[c1] \cap batchTasks'[c2] = {}
        BY <1>0, <2>3 DEF CellsDisjoint
      <3>2. \A G1, G2 \in groups' : G1 # G2 => G1 \cap G2 = {}
        BY <1>0, <2>1, <2>12 DEF CellsDisjoint
      <3>3. QED
        BY <1>0, <2>2, <3>1, <3>2 DEF CellsDisjoint
    <2>14. QED
      BY <2>10, <2>11, <2>13, Parts
  <1>3. QED
    BY <1>1, <1>2

\* The dispatch of processQueue moves tasks from the arrays to a promise chain
\* or to the pool.
LEMMA DispatchPlace ==
  ASSUME TypeOK, SinglePlace, NEW D \in SUBSET Ready, dispatch(D),
         UNCHANGED <<kind, endVars>>
  PROVE  SinglePlace'
  <1>0. Covered /\ CellsDisjoint /\ Apart
    BY Parts
  <1>1. /\ Tasks' = Tasks /\ Settled' = Settled
        /\ UNCHANGED <<resolved, rejected, timedOut, batchTasks, groups>>
    BY DEF Tasks, Settled, endVars, dispatch
  <1>2. D \subseteq Leveled
    BY DEF Ready, Leveled
  <1>3. \A l \in Levels : queue'[l] = queue[l] \ D
    BY DEF dispatch
  <1>4. Leveled' = Leveled \ D
    BY <1>3 DEF Leveled, Levels
  <1>5. Batched' = Batched /\ Grouped' = Grouped
    BY <1>1 DEF Batched, Grouped
  <1>6. D \cap Batched = {}
    BY <1>0, <1>2 DEF Apart
  <1>7. Queued' = Queued \ D /\ D \subseteq Queued
    BY <1>2, <1>4, <1>5, <1>6 DEF Queued
  <1>8. PICK W \in SUBSET D : pool' = pool \cup W /\ main' = main \cup (D \ W)
    <2>1. {t \in D : isWorkerEligibleTask(t)} \in SUBSET D
      OBVIOUS
    <2>2. QED
      BY <2>1 DEF dispatch
  <1>9. Covered'
    BY <1>0, <1>1, <1>5, <1>7, <1>8 DEF Covered
  <1>10. Apart'
    BY <1>0, <1>1, <1>4, <1>5, <1>7, <1>8 DEF Apart
  <1>11. CellsDisjoint'
    BY <1>0, <1>1, <1>3, ShrinkingCells
  <1>12. QED
    BY <1>9, <1>10, <1>11, Parts

\* Queue timeout, cleanup and forced reduction settle what they remove.
LEMMA RemovePlace ==
  ASSUME TypeOK, SinglePlace, NEW X \in SUBSET Queued, NEW N \in SUBSET X,
         UNCHANGED <<kind, main, pool, groups, resolved>>,
         timedOut' = timedOut \cup (X \ N), rejected' = rejected \cup N,
         \A l \in Levels : queue'[l] = queue[l] \ X,
         \A c \in Categories : batchTasks'[c] = batchTasks[c] \ X
  PROVE  SinglePlace'
  <1>0. Covered /\ CellsDisjoint /\ Apart
    BY Parts
  <1>1. /\ Tasks' = Tasks /\ Grouped' = Grouped
        /\ Settled' = Settled \cup X
    BY DEF Tasks, Grouped, Settled
  <1>2. Leveled' = Leveled \ X
    BY DEF Leveled, Levels
  <1>3. Batched' = Batched \ X
    BY DEF Batched
  <1>4. Queued' = Queued \ X
    BY <1>2, <1>3 DEF Queued
  <1>5. Covered'
    BY <1>0, <1>1, <1>4 DEF Covered
  <1>6. Apart'
    BY <1>0, <1>1, <1>2, <1>3, <1>4 DEF Apart, Settled
  <1>7. CellsDisjoint'
    BY <1>0, ShrinkingCells
  <1>8. QED
    BY <1>5, <1>6, <1>7, Parts

\* An accepted task enters one queue or one batch, under an id nobody has.
LEMMA EnqueuePlace ==
  ASSUME TypeOK, SinglePlace, NEW k \in Kinds, EnqueueAccepted(k)
  PROVE  SinglePlace'
  <1> DEFINE t == Len(kind) + 1
  <1>0. Covered /\ CellsDisjoint /\ Apart
    BY Parts
  <1>1. Len(kind) \in Nat /\ Len(kind') = t
    BY LenProperties, AppendProperties DEF EnqueueAccepted, TypeOK
  <1>2. Tasks' = Tasks \cup {t} /\ t \notin Tasks
    BY <1>1 DEF Tasks
  <1>3. /\ UNCHANGED <<main, pool, groups, resolved, rejected, timedOut>>
        /\ Grouped' = Grouped /\ Settled' = Settled
    BY DEF EnqueueAccepted, runVars, endVars, Grouped, Settled
  <1>4. /\ t \notin Queued /\ t \notin Grouped /\ t \notin Settled
        /\ t \notin main /\ t \notin pool
    BY <1>2, PlacesAreTasks
  <1>5. /\ \A l \in Levels : t \notin queue[l]
        /\ \A c \in Categories : t \notin batchTasks[c]
    BY <1>4 DEF Queued, Leveled, Batched, Levels
  <1>6. ASSUME Queued' = Queued \cup {t}
        PROVE  Covered'
    BY <1>0, <1>2, <1>3, <1>6 DEF Covered
  <1>7. CASE addTaskToBatch(t, k)
    <2>1. k.category \in Categories
      BY KindsAssumption DEF KindType
    <2>2. /\ batchTasks'[k.category] = batchTasks[k.category] \cup {t}
          /\ \A d \in Categories \ {k.category} : batchTasks'[d] = batchTasks[d]
          /\ queue' = queue
      BY <1>7, <2>1 DEF addTaskToBatch, TypeOK
    <2>3. Batched' = Batched \cup {t} /\ Leveled' = Leveled
      BY <2>1, <2>2 DEF Batched, Leveled
    <2>4. Queued' = Queued \cup {t}
      BY <2>3 DEF Queued
    <2>5. Apart'
      BY <1>0, <1>3, <1>4, <2>3, <2>4 DEF Apart, Queued
    <2>6. \A c1, c2 \in Categories :
            c1 # c2 => batchTasks'[c1] \cap batchTasks'[c2] = {}
      BY <1>0, <1>5, <2>1, <2>2 DEF CellsDisjoint
    <2>7. CellsDisjoint'
      BY <1>0, <1>3, <2>2, <2>6 DEF CellsDisjoint
    <2>8. QED
      BY <1>6, <2>4, <2>5, <2>7, Parts
  <1>8. CASE pushTask(t, k)
    <2>1. Level(k) \in Levels
      BY DEF Level, Levels
    <2>2. /\ queue'[Level(k)] = queue[Level(k)] \cup {t}
          /\ \A l \in Levels \ {Level(k)} : queue'[l] = queue[l]
          /\ batchTasks' = batchTasks
      BY <1>8, <2>1 DEF pushTask, TypeOK
    <2>3. Leveled' = Leveled \cup {t} /\ Batched' = Batched
      BY <2>1, <2>2 DEF Batched, Leveled, Levels
    <2>4. Queued' = Queued \cup {t}
      BY <2>3 DEF Queued
    <2>5. Apart'
      BY <1>0, <1>3, <1>4, <2>3, <2>4 DEF Apart, Queued
    <2>6. \A l1, l2 \in Levels : l1 # l2 => queue'[l1] \cap queue'[l2] = {}
      BY <1>0, <1>5, <2>1, <2>2 DEF CellsDisjoint
    <2>7. CellsDisjoint'
      BY <1>0, <1>3, <2>2, <2>6 DEF CellsDisjoint
    <2>8. QED
      BY <1>6, <2>4, <2>5, <2>7, Parts
  <1>9. QED
    BY <1>7, <1>8 DEF EnqueueAccepted

\* cleanupOldTasks and forceReduceQueues settle exactly the tasks they remove.
LEMMA MemoryPlace ==
  ASSUME TypeOK, SinglePlace, NEW critical \in BOOLEAN, MemoryPressured(critical)
  PROVE  SinglePlace'
  <1>0. CellsDisjoint /\ Apart
    BY Parts
  <1>1. PICK N \in SUBSET (queue["low"] \ Expired) :
          /\ queue' = queueWithout(Expired \cup N)
          /\ rejected' = rejected \cup N
    BY DEF MemoryPressured
  <1>2. /\ UNCHANGED <<kind, main, pool, groups, resolved>>
        /\ timedOut' = timedOut \cup Expired
        /\ \A c \in Categories : batchTasks'[c] =
             IF c \in OldBatches THEN {} ELSE batchTasks[c]
    BY DEF MemoryPressured, runVars
  <1> DEFINE X == Expired \cup N
  <1>3. X \subseteq Queued /\ N \subseteq X /\ X \ N = Expired /\ N \subseteq Leveled
    BY <1>1 DEF Expired, OldBatches, Queued, Leveled, Batched
  <1>4. \A l \in Levels : queue'[l] = queue[l] \ X
    BY <1>1 DEF queueWithout
  <1>5. ASSUME NEW c \in Categories
        PROVE  batchTasks'[c] = batchTasks[c] \ X
    <2>1. batchTasks[c] \cap Leveled = {}
      BY <1>0 DEF Apart, Batched
    <2>2. CASE c \in OldBatches
      <3>1. batchTasks[c] \subseteq Expired
        BY <2>2 DEF Expired
      <3>2. QED
        BY <1>2, <2>2, <3>1
    <2>3. CASE c \notin OldBatches
      <3>1. \A d \in OldBatches : batchTasks[c] \cap batchTasks[d] = {}
        BY <1>0, <2>3 DEF CellsDisjoint, OldBatches
      <3>2. batchTasks[c] \cap Expired = {}
        BY <2>1, <3>1 DEF Expired
      <3>3. batchTasks[c] \cap X = {}
        BY <1>3, <2>1, <3>2
      <3>4. QED
        BY <1>2, <2>3, <3>3
    <2>4. QED
      BY <2>2, <2>3
  <1>6. QED
    <2>1. timedOut' = timedOut \cup (X \ N)
      BY <1>2, <1>3
    <2> HIDE DEF X
    <2>2. QED
      BY <1>1, <1>2, <1>3, <1>4, <1>5, <2>1, RemovePlace

\* Every step keeps every task in one place.
LEMMA PlaceStep == TypeOK /\ SinglePlace /\ [Next]_vars => SinglePlace'
  <1> SUFFICES ASSUME TypeOK, SinglePlace, [Next]_vars
               PROVE  SinglePlace'
    OBVIOUS
  <1>a. ASSUME UNCHANGED <<kind, queue, batchTasks, main, pool, groups, endVars>>
        PROVE  SinglePlace'
    BY <1>a DEF SinglePlace, Tasks, Queued, Leveled, Batched, Grouped, Settled,
                endVars
  <1>1. ASSUME NEW k \in Kinds, EnqueueRefused(k)
        PROVE  SinglePlace'
    BY <1>1, <1>a DEF EnqueueRefused, queueVars, runVars
  <1>2. ASSUME NEW k \in Kinds, EnqueueAccepted(k)
        PROVE  SinglePlace'
    BY <1>2, EnqueuePlace
  <1>3. ASSUME ProcessQueue
        PROVE  SinglePlace'
    <2>1. UNCHANGED <<kind, endVars>>
      BY <1>3 DEF ProcessQueue
    <2>2. CASE UNCHANGED <<queueVars, runVars>>
      BY <1>a, <2>1, <2>2 DEF queueVars, runVars
    <2>3. ASSUME NEW D \in SUBSET Ready, dispatch(D)
          PROVE  SinglePlace'
      BY <2>1, <2>3, DispatchPlace
    <2>4. QED
      BY <1>3, <2>2, <2>3 DEF ProcessQueue
  <1>4. ASSUME NEW t \in Tasks, NEW ok \in BOOLEAN, ExecuteReturns(t, ok)
        PROVE  SinglePlace'
    <2>1. UNCHANGED <<kind, queue, batchTasks>>
      BY <1>4 DEF ExecuteReturns, queueVars
    <2>2. CASE t \notin Settled /\ finish(t, ok)
      BY <2>1, <2>2, FinishPlace
    <2>3. CASE UNCHANGED <<main, pool, groups, activeRequests, endVars, statVars,
                           loopVars>>
      BY <1>a, <2>1, <2>3
    <2>4. QED
      BY <1>4, <2>2, <2>3 DEF ExecuteReturns
  <1>5. ASSUME NEW t \in Tasks, NEW ok \in BOOLEAN, PoolDone(t, ok)
        PROVE  SinglePlace'
    <2>1. /\ t \in pool /\ pool' = pool \ {t} /\ settle(t, ok)
          /\ UNCHANGED <<kind, queue, batchTasks, groups, main>>
      BY <1>5 DEF PoolDone, finishOne, queueVars
    <2>2. t \notin main
      BY <2>1 DEF SinglePlace
    <2>3. main' = main \ {t}
      BY <2>1, <2>2
    <2>4. QED
      BY <2>1, <2>3, SettleRunning
  <1>6. ASSUME NEW t \in Tasks, ExecutionTimeout(t)
        PROVE  SinglePlace'
    BY <1>6, FinishPlace DEF ExecutionTimeout, queueVars
  <1>7. ASSUME NEW t \in Tasks, QueueTimeout(t)
        PROVE  SinglePlace'
    <2>1. /\ t \in Queued /\ removeTaskFromQueues(t)
          /\ timedOut' = timedOut \cup {t}
          /\ UNCHANGED <<kind, main, pool, groups, resolved, rejected>>
      BY <1>7 DEF QueueTimeout, stillQueued, runVars
    <2>2. /\ \A l \in Levels : queue'[l] = queue[l] \ {t}
          /\ \A c \in Categories : batchTasks'[c] = batchTasks[c] \ {t}
      BY <2>1 DEF removeTaskFromQueues
    <2>3. /\ {t} \in SUBSET Queued /\ {} \in SUBSET {t}
          /\ timedOut' = timedOut \cup ({t} \ {}) /\ rejected' = rejected \cup {}
      BY <2>1
    <2>4. QED
      BY <2>1, <2>2, <2>3, RemovePlace
  <1>8. ASSUME NEW c \in Categories, BatchImmediate(c)
        PROVE  SinglePlace'
    BY <1>8, ProcessBatchPlace DEF BatchImmediate
  <1>9. ASSUME NEW c \in Categories, SweepBatch(c)
        PROVE  SinglePlace'
    BY <1>9, ProcessBatchPlace DEF SweepBatch
  <1>10. CASE AgedBatches
    BY <1>10, <1>a DEF AgedBatches, queueVars, runVars
  <1>11. CASE MemoryNormal
    BY <1>11, <1>a DEF MemoryNormal, queueVars, runVars
  <1>12. ASSUME NEW critical \in BOOLEAN, MemoryPressured(critical)
         PROVE  SinglePlace'
    BY <1>12, MemoryPlace
  <1>13. CASE PollQueue
    BY <1>13, <1>a DEF PollQueue, queueVars, runVars
  <1>14. CASE Tick
    BY <1>14, <1>a DEF Tick, runVars
  <1>15. CASE UNCHANGED vars
    BY <1>15, <1>a DEF vars, queueVars, runVars
  <1>16. QED
    BY <1>1, <1>2, <1>3, <1>4, <1>5, <1>6, <1>7, <1>8, <1>9, <1>10, <1>11,
       <1>12, <1>13, <1>14, <1>15 DEF Next

\* Whatever queue timers, dispatch, cleanup, forced reduction, execution
\* timeouts and late results do to each other, an accepted task is in exactly
\* one place or settled in exactly one way: none is lost, none answered twice.
THEOREM NothingLostOrDoubled == Spec => []SinglePlace
  <1>1. Init => SinglePlace
    <2> SUFFICES ASSUME Init PROVE SinglePlace
      OBVIOUS
    <2>1. Tasks = {}
      <3>1. Len(kind) = 0
        BY EmptySeq DEF Init
      <3>2. QED
        BY <3>1 DEF Tasks
    <2>2. /\ Leveled = {} /\ Batched = {} /\ Queued = {}
          /\ Grouped = {} /\ Settled = {}
      BY DEF Init, Leveled, Batched, Queued, Levels, Grouped, Settled
    <2>3. QED
      BY <2>1, <2>2 DEF Init, SinglePlace
  <1>2. QED
    BY <1>1, PlaceStep, TypeCorrect, PTL DEF Spec

-----------------------------------------------------------------------------
(* Slots, statistics and the overflow threshold *)

\* The tasks that hold a slot.
Slots == main \cup pool \cup Grouped

CountsInv == ActiveAccounting /\ StatsAccounting /\ QueueBound

\* Sets of accepted tasks that gain or lose other tasks.
LEMMA TaskCounts ==
  ASSUME kind \in Seq(Kinds), NEW S \in SUBSET Tasks, NEW T \in SUBSET Tasks
  PROVE  /\ Cardinality(S) \in Nat /\ Cardinality(T) \in Nat
         /\ S \cap T = {} => Cardinality(S \cup T) = Cardinality(S) + Cardinality(T)
         /\ Cardinality(S \cup T) <= Cardinality(S) + Cardinality(T)
         /\ T \subseteq S => /\ Cardinality(T) <= Cardinality(S)
                             /\ Cardinality(S \ T) = Cardinality(S) - Cardinality(T)
  <1>1. /\ IsFiniteSet(S) /\ Cardinality(S) \in Nat
        /\ IsFiniteSet(T) /\ Cardinality(T) \in Nat
    BY TaskSetsFinite
  <1>2. /\ Cardinality(S \cup T) = Cardinality(S) + Cardinality(T) - Cardinality(S \cap T)
        /\ Cardinality(S \cap T) \in Nat
    <2>1. S \cap T \in SUBSET Tasks
      OBVIOUS
    <2>2. Cardinality(S \cap T) \in Nat
      BY <2>1, TaskSetsFinite
    <2>3. QED
      BY <1>1, <2>2, FS_Union
  <1>3. S \cap T = {} => Cardinality(S \cap T) = 0
    BY FS_EmptySet
  <1>4. T \subseteq S => /\ Cardinality(T) <= Cardinality(S)
                         /\ Cardinality(S \ T) = Cardinality(S) - Cardinality(T)
    <2>1. ASSUME T \subseteq S
          PROVE  /\ Cardinality(T) <= Cardinality(S)
                 /\ Cardinality(S \ T) = Cardinality(S) - Cardinality(S \cap T)
                 /\ S \cap T = T
      BY <1>1, <2>1, FS_Subset, FS_Difference
    <2>2. QED
      BY <2>1
  <1>5. QED
    BY <1>1, <1>2, <1>3, <1>4

\* One task more, or one less.
LEMMA OneTaskCounts ==
  ASSUME kind \in Seq(Kinds), NEW S \in SUBSET Tasks, NEW t \in Tasks
  PROVE  /\ Cardinality(S) \in Nat
         /\ t \notin S => Cardinality(S \cup {t}) = Cardinality(S) + 1
         /\ t \in S => Cardinality(S) >= 1 /\ Cardinality(S \ {t}) = Cardinality(S) - 1
  <1> DEFINE T == {t}
  <1>1. T \in SUBSET Tasks /\ Cardinality(T) = 1
    BY FS_Singleton
  <1>2. t \notin S => S \cap T = {}
    OBVIOUS
  <1>3. t \in S => T \subseteq S
    OBVIOUS
  <1>4. S \cup {t} = S \cup T /\ S \ {t} = S \ T
    OBVIOUS
  <1> HIDE DEF T
  <1>5. /\ Cardinality(S) \in Nat
        /\ S \cap T = {} => Cardinality(S \cup T) = Cardinality(S) + Cardinality(T)
        /\ T \subseteq S => /\ Cardinality(T) <= Cardinality(S)
                            /\ Cardinality(S \ T) = Cardinality(S) - Cardinality(T)
    BY <1>1, TaskCounts
  <1>6. QED
    BY <1>1, <1>2, <1>3, <1>4, <1>5

\* The statistics and the slots follow from these sets alone.
LEMMA SameCounts ==
  ASSUME TypeOK, CountsInv, UNCHANGED <<kind, activeRequests, endVars, statVars>>,
         Slots' = Slots, resolved' \ Grouped' = resolved \ Grouped,
         rejected' \ Grouped' = rejected \ Grouped, Queued' \subseteq Queued
  PROVE  CountsInv'
  <1>1. ActiveAccounting'
    BY DEF CountsInv, ActiveAccounting, Slots
  <1>2. StatsAccounting'
    BY DEF CountsInv, StatsAccounting, endVars, statVars
  <1>3. QueueBound'
    <2>1. Queued \in SUBSET Tasks /\ Queued' \in SUBSET Tasks
      BY PlacesAreTasks
    <2>2. /\ Cardinality(Queued') <= Cardinality(Queued)
          /\ Cardinality(Queued') \in Nat /\ Cardinality(Queued) \in Nat
      BY <2>1, TaskCounts DEF TypeOK
    <2>3. QED
      BY <2>2, LimitsAssumption DEF CountsInv, QueueBound
  <1>4. QED
    BY <1>1, <1>2, <1>3 DEF CountsInv

\* Waiting tasks take slots.
LEMMA StartCounts ==
  ASSUME TypeOK, SinglePlace, CountsInv, NEW D \in SUBSET Queued,
         UNCHANGED <<kind, endVars, statVars>>,
         activeRequests' = activeRequests + Cardinality(D),
         Slots' = Slots \cup D, Queued' \subseteq Queued,
         Grouped \subseteq Grouped', Grouped' \subseteq Grouped \cup D
  PROVE  CountsInv'
  <1>1. Apart
    BY Parts
  <1>2. Queued \in SUBSET Tasks /\ Queued' \in SUBSET Tasks
        /\ D \in SUBSET Tasks /\ Slots \in SUBSET Tasks
    BY PlacesAreTasks DEF Slots
  <1>3. D \cap Slots = {} /\ D \cap Settled = {}
    BY <1>1 DEF Apart, Slots
  <1>4. ActiveAccounting'
    <2>1. Cardinality(Slots \cup D) = Cardinality(Slots) + Cardinality(D)
      BY <1>2, <1>3, TaskCounts DEF TypeOK
    <2>2. activeRequests = Cardinality(Slots)
      BY DEF CountsInv, ActiveAccounting, Slots
    <2>3. activeRequests' = Cardinality(Slots')
      BY <2>1, <2>2
    <2>4. QED
      BY <2>3 DEF ActiveAccounting, Slots
  <1>5. StatsAccounting'
    <2>1. resolved' \ Grouped' = resolved \ Grouped /\ rejected' \ Grouped' = rejected \ Grouped
      BY <1>3 DEF endVars, Settled
    <2>2. QED
      BY <2>1 DEF CountsInv, StatsAccounting, endVars, statVars
  <1>6. QueueBound'
    <2>1. /\ Cardinality(Queued') <= Cardinality(Queued)
          /\ Cardinality(Queued') \in Nat /\ Cardinality(Queued) \in Nat
      BY <1>2, TaskCounts DEF TypeOK
    <2>2. QED
      BY <2>1, LimitsAssumption DEF CountsInv, QueueBound
  <1>7. QED
    BY <1>4, <1>5, <1>6 DEF CountsInv

\* A settled task of the main thread or the pool gives its slot back.
LEMMA FinishOneCounts ==
  ASSUME TypeOK, SinglePlace, CountsInv, NEW t \in main \cup pool, NEW ok \in BOOLEAN,
         finishOne(t, ok), UNCHANGED <<kind, queue, batchTasks, groups>>,
         main' = main \ {t}, pool' = pool \ {t}
  PROVE  CountsInv'
  <1>1. Apart
    BY Parts
  <1>2. /\ t \in Tasks /\ t \in Slots /\ t \notin Grouped /\ t \notin Settled
        /\ Slots \in SUBSET Tasks /\ resolved \in SUBSET Tasks /\ rejected \in SUBSET Tasks
    BY <1>1, PlacesAreTasks DEF Apart, Slots, Settled
  <1>3. Grouped' = Grouped /\ Slots' = Slots \ {t} /\ Queued' = Queued
    BY <1>2 DEF Slots, Grouped, Queued, Leveled, Batched
  <1>5. ActiveAccounting'
    <2>1. /\ Cardinality(Slots \ {t}) = Cardinality(Slots) - 1
          /\ Cardinality(Slots) \in Nat /\ 1 <= Cardinality(Slots)
      <3>1. kind \in Seq(Kinds)
        BY DEF TypeOK
      <3> HIDE DEF Slots
      <3>2. QED
        BY <1>2, <3>1, OneTaskCounts
    <2>2. /\ activeRequests = Cardinality(Slots)
          /\ activeRequests' = AtLeast0(activeRequests - 1)
      BY DEF CountsInv, ActiveAccounting, Slots, finishOne, slotsAfter
    <2>3. activeRequests' = Cardinality(Slots')
      BY <1>3, <2>1, <2>2 DEF AtLeast0
    <2>4. QED
      BY <2>3 DEF ActiveAccounting, Slots
  <1>6. StatsAccounting'
    <2> DEFINE R == resolved \ Grouped
               J == rejected \ Grouped
    <2>1. /\ R \in SUBSET Tasks /\ J \in SUBSET Tasks /\ t \notin R /\ t \notin J
      BY <1>2 DEF Settled
    <2>2. /\ resolved' \ Grouped' = IF ok THEN R \cup {t} ELSE R
          /\ rejected' \ Grouped' = IF ok THEN J ELSE J \cup {t}
          /\ timedOut' = timedOut
      BY <1>2, <1>3 DEF finishOne, settle
    <2>3. /\ totalProcessed = Cardinality(R) /\ totalRejected = refused + Cardinality(J)
          /\ totalTimeout = Cardinality(timedOut)
      BY DEF CountsInv, StatsAccounting
    <2>4. /\ ok => totalProcessed' = totalProcessed + 1 /\ totalRejected' = totalRejected
          /\ ~ok => totalProcessed' = totalProcessed /\ totalRejected' = totalRejected + 1
          /\ UNCHANGED <<totalTimeout, refused>>
      BY DEF finishOne, TypeOK
    <2> HIDE DEF R, J
    <2>5. /\ Cardinality(R \cup {t}) = Cardinality(R) + 1
          /\ Cardinality(J \cup {t}) = Cardinality(J) + 1
          /\ Cardinality(R) \in Nat /\ Cardinality(J) \in Nat
      <3>1. kind \in Seq(Kinds)
        BY DEF TypeOK
      <3>2. QED
        BY <1>2, <2>1, <3>1, OneTaskCounts
    <2>6. refused \in Nat
      BY DEF TypeOK
    <2>7. /\ totalProcessed' = Cardinality(resolved' \ Grouped')
          /\ totalRejected' = refused' + Cardinality(rejected' \ Grouped')
      <3>1. CASE ok
        <4>1. /\ resolved' \ Grouped' = R \cup {t} /\ rejected' \ Grouped' = J
              /\ totalProcessed' = totalProcessed + 1 /\ totalRejected' = totalRejected
          BY <2>2, <2>4, <3>1
        <4>2. QED
          BY <2>3, <2>4, <2>5, <2>6, <4>1
      <3>2. CASE ~ok
        <4>1. /\ resolved' \ Grouped' = R /\ rejected' \ Grouped' = J \cup {t}
              /\ totalProcessed' = totalProcessed /\ totalRejected' = totalRejected + 1
          BY <2>2, <2>4, <3>2
        <4>2. totalRejected' = refused + Cardinality(J \cup {t})
          BY <2>3, <2>5, <2>6, <4>1
        <4>3. QED
          BY <2>3, <2>4, <4>1, <4>2
      <3>3. QED
        BY <3>1, <3>2
    <2>8. totalTimeout' = Cardinality(timedOut')
      BY <2>2, <2>3, <2>4
    <2>9. QED
      BY <2>7, <2>8 DEF StatsAccounting
  <1>7. QueueBound'
    BY <1>3 DEF CountsInv, QueueBound
  <1>8. QED
    BY <1>5, <1>6, <1>7 DEF CountsInv

\* A member of a batch group is settled, and the last one closes the group,
\* which counts its members and gives all their slots back.
LEMMA FinishGroupedCounts ==
  ASSUME TypeOK, SinglePlace, CountsInv, NEW t \in Tasks, t \notin Settled,
         NEW ok \in BOOLEAN, finishGrouped(t, ok), UNCHANGED <<kind, queue, batchTasks>>
  PROVE  CountsInv'
  <1>1. Apart /\ CellsDisjoint
    BY Parts
  <1>2. PICK G \in groups :
          /\ t \in G
          /\ settle(t, ok)
          /\ \/ G \subseteq Settled' /\ closeGroup(G)
             \/ UNCHANGED <<groups, totalProcessed, totalRejected, activeRequests, loopVars>>
          /\ UNCHANGED <<main, pool, totalTimeout, refused>>
    BY DEF finishGrouped
  <1>3. /\ G \subseteq Grouped /\ t \in Grouped /\ Queued' = Queued
        /\ Grouped \in SUBSET Tasks /\ G \in SUBSET Tasks /\ Slots \in SUBSET Tasks
    BY <1>2, PlacesAreTasks DEF Grouped, Queued, Leveled, Batched, Slots
  <1>4. /\ timedOut' = timedOut
        /\ resolved' \ Grouped = resolved \ Grouped
        /\ rejected' \ Grouped = rejected \ Grouped
        /\ resolved' \in SUBSET Tasks /\ rejected' \in SUBSET Tasks
    BY <1>2, <1>3 DEF settle, TypeOK
  <1>5. QueueBound'
    BY <1>3 DEF CountsInv, QueueBound
  <1>6. CASE UNCHANGED <<groups, totalProcessed, totalRejected, activeRequests, loopVars>>
    <2>1. Grouped' = Grouped /\ Slots' = Slots
      BY <1>2, <1>6 DEF Grouped, Slots
    <2>2. ActiveAccounting'
      BY <1>6, <2>1 DEF CountsInv, ActiveAccounting, Slots
    <2>3. StatsAccounting'
      BY <1>2, <1>4, <1>6, <2>1 DEF CountsInv, StatsAccounting
    <2>4. QED
      BY <1>5, <2>2, <2>3 DEF CountsInv
  <1>7. CASE closeGroup(G)
    <2>1. groups' = groups \ {G}
      BY <1>7 DEF closeGroup
    <2>2. Grouped' = Grouped \ G
      BY <1>1, <1>2, <2>1 DEF Grouped, CellsDisjoint
    <2>3. Slots' = Slots \ G /\ G \subseteq Slots
      BY <1>1, <1>2, <1>3, <2>2 DEF Slots, Apart
    <2>4. ActiveAccounting'
      <3>1. /\ Cardinality(Slots \ G) = Cardinality(Slots) - Cardinality(G)
            /\ Cardinality(G) <= Cardinality(Slots)
            /\ Cardinality(Slots) \in Nat /\ Cardinality(G) \in Nat
        BY <1>3, <2>3, TaskCounts DEF TypeOK
      <3>2. /\ activeRequests = Cardinality(Slots)
            /\ activeRequests' = AtLeast0(activeRequests - Cardinality(G))
        BY <1>7 DEF CountsInv, ActiveAccounting, Slots, closeGroup, slotsAfter
      <3>3. activeRequests' = Cardinality(Slots')
        BY <2>3, <3>1, <3>2 DEF AtLeast0
      <3>4. QED
        BY <3>3 DEF ActiveAccounting, Slots
    <2>5. StatsAccounting'
      <3> DEFINE R == resolved \ Grouped
                 J == rejected \ Grouped
                 GR == G \cap resolved'
                 GJ == G \cap rejected'
      <3>1. /\ R \in SUBSET Tasks /\ J \in SUBSET Tasks
            /\ GR \in SUBSET Tasks /\ GJ \in SUBSET Tasks
            /\ R \cap GR = {} /\ J \cap GJ = {}
        BY <1>3, <1>4
      <3>2. /\ resolved' \ Grouped' = R \cup GR
            /\ rejected' \ Grouped' = J \cup GJ
        BY <1>3, <1>4, <2>2
      <3>3. /\ totalProcessed = Cardinality(R) /\ totalRejected = refused + Cardinality(J)
            /\ totalTimeout = Cardinality(timedOut)
        BY DEF CountsInv, StatsAccounting
      <3>4. /\ totalProcessed' = totalProcessed + Cardinality(GR)
            /\ totalRejected' = totalRejected + Cardinality(GJ)
        BY <1>7 DEF closeGroup, failedOf
      <3> HIDE DEF R, J, GR, GJ
      <3>5. /\ Cardinality(R \cup GR) = Cardinality(R) + Cardinality(GR)
            /\ Cardinality(J \cup GJ) = Cardinality(J) + Cardinality(GJ)
            /\ Cardinality(J) \in Nat /\ Cardinality(GJ) \in Nat
        BY <3>1, TaskCounts DEF TypeOK
      <3>6. refused \in Nat
        BY DEF TypeOK
      <3>7. /\ totalProcessed' = Cardinality(resolved' \ Grouped')
            /\ totalRejected' = refused' + Cardinality(rejected' \ Grouped')
            /\ totalTimeout' = Cardinality(timedOut')
        <4>1. totalProcessed' = Cardinality(R \cup GR)
          BY <3>3, <3>4, <3>5
        <4>2. totalRejected' = refused + Cardinality(J \cup GJ)
          BY <3>3, <3>4, <3>5, <3>6
        <4>3. refused' = refused /\ totalTimeout' = totalTimeout
          BY <1>2
        <4>4. QED
          BY <1>4, <3>2, <3>3, <4>1, <4>2, <4>3
      <3>8. QED
        BY <3>7 DEF StatsAccounting
    <2>6. QED
      BY <1>5, <2>4, <2>5 DEF CountsInv
  <1>8. QED
    BY <1>2, <1>6, <1>7

\* Waiting tasks are settled without ever having a slot.
LEMMA RemoveCounts ==
  ASSUME TypeOK, SinglePlace, CountsInv, NEW X \in SUBSET Queued, NEW N \in SUBSET X,
         UNCHANGED <<kind, runVars, resolved, totalProcessed, refused>>,
         timedOut' = timedOut \cup (X \ N), rejected' = rejected \cup N,
         totalTimeout' = totalTimeout + Cardinality(X \ N),
         totalRejected' = totalRejected + Cardinality(N),
         \A l \in Levels : queue'[l] \subseteq queue[l],
         \A c \in Categories : batchTasks'[c] \subseteq batchTasks[c]
  PROVE  CountsInv'
  <1>1. Apart
    BY Parts
  <1>2. /\ Slots' = Slots /\ Grouped' = Grouped /\ Queued' \subseteq Queued
    BY DEF runVars, Slots, Grouped, Queued, Leveled, Levels, Batched
  <1>3. /\ Queued \in SUBSET Tasks /\ Queued' \in SUBSET Tasks
        /\ N \in SUBSET Tasks /\ X \ N \in SUBSET Tasks /\ timedOut \in SUBSET Tasks
        /\ rejected \ Grouped \in SUBSET Tasks
    BY <1>2, PlacesAreTasks DEF Settled
  <1>4. ActiveAccounting'
    BY <1>2 DEF CountsInv, ActiveAccounting, Slots, runVars
  <1>5. StatsAccounting'
    <2>1. N \cap (rejected \ Grouped) = {} /\ (X \ N) \cap timedOut = {} /\ N \cap Grouped = {}
      BY <1>1 DEF Apart, Settled
    <2>2. rejected' \ Grouped' = (rejected \ Grouped) \cup N
      BY <1>2, <2>1
    <2>3. /\ Cardinality((rejected \ Grouped) \cup N)
               = Cardinality(rejected \ Grouped) + Cardinality(N)
          /\ Cardinality(rejected \ Grouped) \in Nat /\ Cardinality(N) \in Nat
      BY <1>3, <2>1, TaskCounts DEF TypeOK
    <2>4. Cardinality(timedOut \cup (X \ N)) = Cardinality(timedOut) + Cardinality(X \ N)
      BY <1>3, <2>1, TaskCounts DEF TypeOK
    <2>5. refused \in Nat
      BY DEF TypeOK
    <2>6. /\ totalProcessed = Cardinality(resolved \ Grouped)
          /\ totalRejected = refused + Cardinality(rejected \ Grouped)
          /\ totalTimeout = Cardinality(timedOut)
      BY DEF CountsInv, StatsAccounting
    <2>7. totalProcessed' = Cardinality(resolved' \ Grouped')
      BY <1>2, <2>6
    <2>8. totalRejected' = refused' + Cardinality(rejected' \ Grouped')
      <3>1. totalRejected' = refused + Cardinality((rejected \ Grouped) \cup N)
        BY <2>3, <2>5, <2>6
      <3>2. QED
        BY <2>2, <3>1
    <2>9. totalTimeout' = Cardinality(timedOut')
      BY <2>4, <2>6
    <2>10. QED
      BY <2>7, <2>8, <2>9 DEF StatsAccounting
  <1>6. QueueBound'
    <2>1. /\ Cardinality(Queued') <= Cardinality(Queued)
          /\ Cardinality(Queued') \in Nat /\ Cardinality(Queued) \in Nat
      BY <1>2, <1>3, TaskCounts DEF TypeOK
    <2>2. QED
      BY <2>1, LimitsAssumption DEF CountsInv, QueueBound
  <1>7. QED
    BY <1>4, <1>5, <1>6 DEF CountsInv

\* The length enqueue compares with the threshold counts every waiting task.
LEMMA LengthCountsAll ==
  ASSUME TypeOK
  PROVE  /\ getTotalQueueLength \in Nat
         /\ Cardinality(Queued) \in Nat
         /\ Cardinality(Queued) <= getTotalQueueLength
  <1> DEFINE H == queue["high"]
             M == queue["normal"]
             L == queue["low"]
  <1>1. /\ H \in SUBSET Tasks /\ M \in SUBSET Tasks /\ L \in SUBSET Tasks
        /\ Batched \in SUBSET Tasks
        /\ H \cup M \in SUBSET Tasks /\ H \cup M \cup L \in SUBSET Tasks
    BY DEF TypeOK, Levels, Batched
  <1>2. /\ getTotalQueueLength
             = Cardinality(H) + Cardinality(M) + Cardinality(L) + Cardinality(Batched)
        /\ Queued = (H \cup M \cup L) \cup Batched
    BY DEF getTotalQueueLength, Queued, Leveled
  <1> HIDE DEF H, M, L
  <1>3. Cardinality(H \cup M) <= Cardinality(H) + Cardinality(M)
    BY <1>1, TaskCounts DEF TypeOK
  <1>4. Cardinality((H \cup M) \cup L) <= Cardinality(H \cup M) + Cardinality(L)
    BY <1>1, TaskCounts DEF TypeOK
  <1>5. Cardinality((H \cup M \cup L) \cup Batched)
          <= Cardinality(H \cup M \cup L) + Cardinality(Batched)
    BY <1>1, TaskCounts DEF TypeOK
  <1>6. /\ Cardinality(H) \in Nat /\ Cardinality(M) \in Nat /\ Cardinality(L) \in Nat
        /\ Cardinality(Batched) \in Nat /\ Cardinality(H \cup M) \in Nat
        /\ Cardinality(H \cup M \cup L) \in Nat
    BY <1>1, TaskSetsFinite DEF TypeOK
  <1>7. Cardinality(Queued) \in Nat
    BY PlacesAreTasks, TaskSetsFinite DEF TypeOK
  <1>8. QED
    BY <1>2, <1>3, <1>4, <1>5, <1>6, <1>7
\* A refused call is counted as refused and as rejected.
LEMMA RefusedCounts ==
  ASSUME TypeOK, CountsInv, NEW k \in Kinds, EnqueueRefused(k)
  PROVE  CountsInv'
  <1>1. /\ UNCHANGED <<activeRequests, main, pool, groups, queue, batchTasks>>
        /\ UNCHANGED <<resolved, rejected, timedOut, totalProcessed, totalTimeout>>
        /\ refused' = refused + 1 /\ totalRejected' = totalRejected + 1
    BY DEF EnqueueRefused, runVars, queueVars, endVars
  <1>2. Grouped' = Grouped /\ Queued' = Queued
    BY <1>1 DEF Grouped, Queued, Leveled, Batched
  <1>3. ActiveAccounting' /\ QueueBound'
    BY <1>1, <1>2 DEF CountsInv, ActiveAccounting, QueueBound
  <1>4. StatsAccounting'
    <2>1. rejected \ Grouped \in SUBSET Tasks /\ kind \in Seq(Kinds)
      BY DEF TypeOK
    <2>2. Cardinality(rejected \ Grouped) \in Nat /\ refused \in Nat
      BY <2>1, TaskSetsFinite DEF TypeOK
    <2>3. totalRejected = refused + Cardinality(rejected \ Grouped)
      BY DEF CountsInv, StatsAccounting
    <2>4. totalRejected' = refused' + Cardinality(rejected \ Grouped)
      BY <1>1, <2>2, <2>3
    <2>5. QED
      BY <1>1, <1>2, <2>4 DEF CountsInv, StatsAccounting
  <1>5. QED
    BY <1>3, <1>4 DEF CountsInv

\* enqueue admits a task only below the threshold, so one more still fits.
LEMMA AcceptedCounts ==
  ASSUME TypeOK, CountsInv, NEW k \in Kinds, EnqueueAccepted(k)
  PROVE  CountsInv'
  <1> DEFINE t == Len(kind) + 1
  <1>1. /\ UNCHANGED <<activeRequests, main, pool, groups>>
        /\ UNCHANGED <<endVars, statVars>>
    BY DEF EnqueueAccepted, runVars
  <1>2. Grouped' = Grouped
    BY <1>1 DEF Grouped
  <1>3. ActiveAccounting'
    BY <1>1, <1>2 DEF CountsInv, ActiveAccounting
  <1>4. StatsAccounting'
    BY <1>1, <1>2 DEF CountsInv, StatsAccounting, endVars, statVars
  <1>5. Queued' = Queued \cup {t}
    <2>1. CASE addTaskToBatch(t, k)
      <3>1. k.category \in Categories
        BY KindsAssumption DEF KindType
      <3>2. /\ batchTasks'[k.category] = batchTasks[k.category] \cup {t}
            /\ \A d \in Categories \ {k.category} : batchTasks'[d] = batchTasks[d]
            /\ queue' = queue
        BY <2>1, <3>1 DEF addTaskToBatch, TypeOK
      <3>3. Batched' = Batched \cup {t} /\ Leveled' = Leveled
        BY <3>1, <3>2 DEF Batched, Leveled
      <3>4. QED
        BY <3>3 DEF Queued
    <2>2. CASE pushTask(t, k)
      <3>1. Level(k) \in Levels
        BY DEF Level, Levels
      <3>2. /\ queue'[Level(k)] = queue[Level(k)] \cup {t}
            /\ \A l \in Levels \ {Level(k)} : queue'[l] = queue[l]
            /\ batchTasks' = batchTasks
        BY <2>2, <3>1 DEF pushTask, TypeOK
      <3>3. Leveled' = Leveled \cup {t} /\ Batched' = Batched
        BY <3>1, <3>2 DEF Batched, Leveled, Levels
      <3>4. QED
        BY <3>3 DEF Queued
    <2>3. QED
      BY <2>1, <2>2 DEF EnqueueAccepted
  <1>6. QueueBound'
    <2>1. ~(getTotalQueueLength >= QueueOverflowThreshold)
      BY DEF EnqueueAccepted, MustRefuse
    <2>2. /\ getTotalQueueLength \in Nat /\ Cardinality(Queued) \in Nat
          /\ Cardinality(Queued) <= getTotalQueueLength
      BY LengthCountsAll
    <2>3. IsFiniteSet(Queued)
      BY PlacesAreTasks, TaskSetsFinite DEF TypeOK
    <2>4. t \notin Queued
      <3>1. Len(kind) \in Nat
        BY LenProperties DEF TypeOK
      <3>2. t \notin Tasks
        BY <3>1 DEF Tasks
      <3>3. QED
        BY <3>2, PlacesAreTasks
    <2> HIDE DEF t
    <2>5. Cardinality(Queued \cup {t}) = Cardinality(Queued) + 1
      BY <2>3, <2>4, FS_AddElement
    <2>6. Cardinality(Queued \cup {t}) <= QueueOverflowThreshold
      BY <2>1, <2>2, <2>5, LimitsAssumption
    <2>7. QED
      BY <1>5, <2>6 DEF QueueBound
  <1>7. QED
    BY <1>3, <1>4, <1>6 DEF CountsInv

\* processBatch gives each task it takes from the batch a slot of its new group.
LEMMA ProcessBatchCounts ==
  ASSUME TypeOK, SinglePlace, CountsInv, NEW c \in Categories, processBatch(c),
         UNCHANGED <<kind, endVars, statVars>>
  PROVE  CountsInv'
  <1>1. CASE UNCHANGED <<queueVars, runVars>>
    <2>1. /\ Grouped' = Grouped /\ Slots' = Slots /\ Queued' = Queued
          /\ activeRequests' = activeRequests
      BY <1>1 DEF queueVars, runVars, Slots, Grouped, Queued, Leveled, Batched
    <2>2. resolved' \ Grouped' = resolved \ Grouped /\ rejected' \ Grouped' = rejected \ Grouped
      BY <2>1 DEF endVars
    <2>3. QED
      BY <2>1, <2>2, SameCounts
  <1>2. CASE ~UNCHANGED <<queueVars, runVars>>
    <2>1. PICK D \in SUBSET batchTasks[c] :
            /\ batchTasks' = [batchTasks EXCEPT ![c] = @ \ D]
            /\ groups' = groups \cup {D}
            /\ activeRequests' = activeRequests + Cardinality(D)
      BY <1>2 DEF processBatch
    <2>2. UNCHANGED <<queue, main, pool>>
      BY <1>2 DEF processBatch
    <2>3. \A d \in Categories : batchTasks'[d] \subseteq batchTasks[d]
      BY <2>1 DEF TypeOK
    <2>4. D \in SUBSET Queued
      BY <2>1 DEF Queued, Batched
    <2>5. Queued' \subseteq Queued
      BY <2>2, <2>3 DEF Queued, Leveled, Batched
    <2>6. Grouped' = Grouped \cup D
      BY <2>1 DEF Grouped
    <2>7. Slots' = Slots \cup D
      BY <2>2, <2>6 DEF Slots
    <2>8. QED
      BY <2>1, <2>4, <2>5, <2>6, <2>7, StartCounts
  <1>3. QED
    BY <1>1, <1>2

\* processQueue gives each task it takes a slot, in the pool or in this thread.
LEMMA DispatchCounts ==
  ASSUME TypeOK, SinglePlace, CountsInv, NEW D \in SUBSET Ready, dispatch(D),
         UNCHANGED <<kind, endVars, statVars>>
  PROVE  CountsInv'
  <1>1. D \in SUBSET Queued
    BY DEF Ready, Leveled, Queued
  <1>2. Grouped' = Grouped /\ activeRequests' = activeRequests + Cardinality(D)
    BY DEF dispatch, Grouped
  <1>3. Queued' \subseteq Queued
    BY DEF dispatch, Queued, Leveled, Levels, Batched
  <1>4. PICK W \in SUBSET D : pool' = pool \cup W /\ main' = main \cup (D \ W)
    <2>1. {t \in D : isWorkerEligibleTask(t)} \in SUBSET D
      OBVIOUS
    <2>2. QED
      BY <2>1 DEF dispatch
  <1>5. Slots' = Slots \cup D
    BY <1>2, <1>4 DEF Slots
  <1>6. QED
    BY <1>1, <1>2, <1>3, <1>5, StartCounts

\* The end of an execution, of whatever chain the task was in.
LEMMA FinishCounts ==
  ASSUME TypeOK, SinglePlace, CountsInv, NEW t \in Tasks, t \notin Settled,
         NEW ok \in BOOLEAN, finish(t, ok), UNCHANGED <<kind, queue, batchTasks>>
  PROVE  CountsInv'
  <1>1. CASE finishMain(t, ok)
    <2>1. /\ t \in main /\ main' = main \ {t} /\ UNCHANGED <<pool, groups>>
          /\ finishOne(t, ok)
      BY <1>1 DEF finishMain
    <2>2. pool' = pool \ {t}
      BY <2>1 DEF SinglePlace
    <2>3. QED
      BY <2>1, <2>2, FinishOneCounts
  <1>2. CASE finishGrouped(t, ok)
    BY <1>2, FinishGroupedCounts
  <1>3. QED
    BY <1>1, <1>2 DEF finish

\* What cleanupOldTasks and forceReduceQueues remove is counted one by one.
LEMMA MemoryCounts ==
  ASSUME TypeOK, SinglePlace, CountsInv, NEW critical \in BOOLEAN,
         MemoryPressured(critical)
  PROVE  CountsInv'
  <1>1. PICK N \in SUBSET (queue["low"] \ Expired) :
          /\ queue' = queueWithout(Expired \cup N)
          /\ rejected' = rejected \cup N
          /\ totalRejected' = totalRejected + Cardinality(N)
    BY DEF MemoryPressured
  <1>2. /\ UNCHANGED <<kind, runVars, resolved, totalProcessed, refused>>
        /\ timedOut' = timedOut \cup Expired
        /\ totalTimeout' = totalTimeout + Cardinality(Expired)
        /\ \A c \in Categories : batchTasks'[c] =
             IF c \in OldBatches THEN {} ELSE batchTasks[c]
    BY DEF MemoryPressured
  <1> DEFINE X == Expired \cup N
  <1>3. X \in SUBSET Queued /\ N \in SUBSET X /\ X \ N = Expired
    BY <1>1 DEF Expired, OldBatches, Queued, Leveled, Batched
  <1>4. /\ \A l \in Levels : queue'[l] \subseteq queue[l]
        /\ \A c \in Categories : batchTasks'[c] \subseteq batchTasks[c]
    BY <1>1, <1>2 DEF queueWithout
  <1>5. /\ timedOut' = timedOut \cup (X \ N)
        /\ totalTimeout' = totalTimeout + Cardinality(X \ N)
    BY <1>2, <1>3
  <1> HIDE DEF X
  <1>6. QED
    BY <1>1, <1>2, <1>3, <1>4, <1>5, RemoveCounts

\* Every step keeps the slots, the statistics and the threshold.
LEMMA CountsStep ==
  TypeOK /\ SinglePlace /\ CountsInv /\ [Next]_vars => CountsInv'
  <1> SUFFICES ASSUME TypeOK, SinglePlace, CountsInv, [Next]_vars
               PROVE  CountsInv'
    OBVIOUS
  <1>a. ASSUME UNCHANGED <<kind, queue, batchTasks, activeRequests, main, pool, groups>>,
               UNCHANGED <<endVars, statVars>>
        PROVE  CountsInv'
    <2>1. Grouped' = Grouped /\ Slots' = Slots /\ Queued' = Queued
      BY <1>a DEF Slots, Grouped, Queued, Leveled, Batched
    <2>2. resolved' \ Grouped' = resolved \ Grouped /\ rejected' \ Grouped' = rejected \ Grouped
      BY <1>a, <2>1 DEF endVars
    <2>3. QED
      BY <1>a, <2>1, <2>2, SameCounts
  <1>1. ASSUME NEW k \in Kinds, EnqueueRefused(k)
        PROVE  CountsInv'
    BY <1>1, RefusedCounts
  <1>2. ASSUME NEW k \in Kinds, EnqueueAccepted(k)
        PROVE  CountsInv'
    BY <1>2, AcceptedCounts
  <1>3. ASSUME ProcessQueue
        PROVE  CountsInv'
    <2>1. UNCHANGED <<kind, endVars, statVars>>
      BY <1>3 DEF ProcessQueue
    <2>2. CASE UNCHANGED <<queueVars, runVars>>
      BY <1>a, <2>1, <2>2 DEF queueVars, runVars
    <2>3. ASSUME NEW D \in SUBSET Ready, dispatch(D)
          PROVE  CountsInv'
      BY <2>1, <2>3, DispatchCounts
    <2>4. QED
      BY <1>3, <2>2, <2>3 DEF ProcessQueue
  <1>4. ASSUME NEW t \in Tasks, NEW ok \in BOOLEAN, ExecuteReturns(t, ok)
        PROVE  CountsInv'
    <2>1. UNCHANGED <<kind, queue, batchTasks>>
      BY <1>4 DEF ExecuteReturns, queueVars
    <2>2. CASE t \notin Settled /\ finish(t, ok)
      BY <2>1, <2>2, FinishCounts
    <2>3. CASE UNCHANGED <<main, pool, groups, activeRequests, endVars, statVars,
                           loopVars>>
      BY <1>a, <2>1, <2>3
    <2>4. QED
      BY <1>4, <2>2, <2>3 DEF ExecuteReturns
  <1>5. ASSUME NEW t \in Tasks, NEW ok \in BOOLEAN, PoolDone(t, ok)
        PROVE  CountsInv'
    <2>1. /\ t \in pool /\ pool' = pool \ {t} /\ finishOne(t, ok)
          /\ UNCHANGED <<kind, queue, batchTasks, groups, main>>
      BY <1>5 DEF PoolDone, queueVars
    <2>2. main' = main \ {t}
      BY <2>1 DEF SinglePlace
    <2>3. QED
      BY <2>1, <2>2, FinishOneCounts
  <1>6. ASSUME NEW t \in Tasks, ExecutionTimeout(t)
        PROVE  CountsInv'
    BY <1>6, FinishCounts DEF ExecutionTimeout, queueVars
  <1>7. ASSUME NEW t \in Tasks, QueueTimeout(t)
        PROVE  CountsInv'
    <2>1. /\ t \in Queued /\ removeTaskFromQueues(t)
          /\ timedOut' = timedOut \cup {t} /\ totalTimeout' = totalTimeout + 1
          /\ UNCHANGED <<kind, runVars, resolved, totalProcessed, refused>>
          /\ UNCHANGED <<rejected, totalRejected>>
      BY <1>7 DEF QueueTimeout, stillQueued
    <2>2. /\ \A l \in Levels : queue'[l] \subseteq queue[l]
          /\ \A c \in Categories : batchTasks'[c] \subseteq batchTasks[c]
      BY <2>1 DEF removeTaskFromQueues
    <2> DEFINE X == {t}
               N == {}
    <2>3. /\ X \in SUBSET Queued /\ N \in SUBSET X /\ X \ N = {t}
          /\ timedOut' = timedOut \cup (X \ N) /\ rejected' = rejected \cup N
      BY <2>1
    <2>4. Cardinality(X \ N) = 1 /\ Cardinality(N) = 0
      BY <2>3, FS_Singleton, FS_EmptySet
    <2>5. /\ totalTimeout' = totalTimeout + Cardinality(X \ N)
          /\ totalRejected' = totalRejected + Cardinality(N)
      BY <2>1, <2>4 DEF TypeOK
    <2> HIDE DEF X, N
    <2>6. QED
      BY <2>1, <2>2, <2>3, <2>5, RemoveCounts
  <1>8. ASSUME NEW c \in Categories, BatchImmediate(c)
        PROVE  CountsInv'
    BY <1>8, ProcessBatchCounts DEF BatchImmediate
  <1>9. ASSUME NEW c \in Categories, SweepBatch(c)
        PROVE  CountsInv'
    BY <1>9, ProcessBatchCounts DEF SweepBatch
  <1>10. CASE AgedBatches
    BY <1>10, <1>a DEF AgedBatches, queueVars, runVars
  <1>11. CASE MemoryNormal
    BY <1>11, <1>a DEF MemoryNormal, queueVars, runVars
  <1>12. ASSUME NEW critical \in BOOLEAN, MemoryPressured(critical)
         PROVE  CountsInv'
    BY <1>12, MemoryCounts
  <1>13. CASE PollQueue
    BY <1>13, <1>a DEF PollQueue, queueVars, runVars
  <1>14. CASE Tick
    BY <1>14, <1>a DEF Tick, runVars
  <1>15. CASE UNCHANGED vars
    BY <1>15, <1>a DEF vars, queueVars, runVars
  <1>16. QED
    BY <1>1, <1>2, <1>3, <1>4, <1>5, <1>6, <1>7, <1>8, <1>9, <1>10, <1>11,
       <1>12, <1>13, <1>14, <1>15 DEF Next

LEMMA CountsInvariant == Spec => []CountsInv
  <1>1. Init => CountsInv
    <2> SUFFICES ASSUME Init PROVE CountsInv
      OBVIOUS
    <2>1. /\ main \cup pool \cup Grouped = {} /\ Queued = {} /\ timedOut = {}
          /\ resolved \ Grouped = {} /\ rejected \ Grouped = {}
      BY DEF Init, Grouped, Queued, Leveled, Batched, Levels
    <2>2. /\ activeRequests = 0 /\ totalProcessed = 0 /\ totalRejected = 0
          /\ totalTimeout = 0 /\ refused = 0
      BY DEF Init
    <2>3. QED
      BY <2>1, <2>2, FS_EmptySet, LimitsAssumption
      DEF CountsInv, ActiveAccounting, StatsAccounting, QueueBound
  <1>2. QED
    BY <1>1, CountsStep, TypeCorrect, NothingLostOrDoubled, PTL DEF Spec

\* activeRequests counts exactly the tasks that hold a slot: whatever order
\* results, timeouts and group ends come in, no slot leaks or is freed twice,
\* and the clamp of decrementActiveRequests at zero never takes effect.
THEOREM SlotsExact == Spec => []ActiveAccounting
  BY CountsInvariant, PTL DEF CountsInv

\* QueueStatsService counts every success, failure, refusal and timeout once.
THEOREM StatsExact == Spec => []StatsAccounting
  BY CountsInvariant, PTL DEF CountsInv

\* The tasks waiting in all queues and batches never exceed
\* QUEUE_OVERFLOW_THRESHOLD.
THEOREM OverflowBounded == Spec => []QueueBound
  BY CountsInvariant, PTL DEF CountsInv
-----------------------------------------------------------------------------
(* The running size of a batch *)

\* What SizeOf counts: one unit for each unit of size of each task.
Units(S, kd) == {u \in S \X (1..MaxSize) : u[2] <= kd[u[1]].size}

LEMMA UnitsFinite ==
  ASSUME NEW S, IsFiniteSet(S), NEW kd
  PROVE  /\ IsFiniteSet(Units(S, kd))
         /\ SizeOf(S, kd) = Cardinality(Units(S, kd))
         /\ SizeOf(S, kd) \in Nat
  <1>1. IsFiniteSet(1..MaxSize)
    BY LimitsAssumption, FS_Interval
  <1>2. IsFiniteSet(S \X (1..MaxSize))
    BY <1>1, FS_Product
  <1>3. Units(S, kd) \in SUBSET (S \X (1..MaxSize))
    BY DEF Units
  <1>4. IsFiniteSet(Units(S, kd))
    BY <1>2, <1>3, FS_Subset
  <1>5. SizeOf(S, kd) = Cardinality(Units(S, kd))
    BY DEF SizeOf, Units
  <1>6. QED
    BY <1>4, <1>5, FS_CardinalityType

\* Sizes of disjoint sets of tasks add up.
LEMMA SizeOfUnion ==
  ASSUME NEW S, IsFiniteSet(S), NEW T, IsFiniteSet(T), S \cap T = {}, NEW kd
  PROVE  SizeOf(S \cup T, kd) = SizeOf(S, kd) + SizeOf(T, kd)
  <1> DEFINE U == Units(S, kd)
             W == Units(T, kd)
  <1>1. Units(S \cup T, kd) = U \cup W /\ U \cap W = {}
    BY DEF Units
  <1>2. /\ IsFiniteSet(U) /\ SizeOf(S, kd) = Cardinality(U) /\ Cardinality(U) \in Nat
        /\ IsFiniteSet(W) /\ SizeOf(T, kd) = Cardinality(W) /\ Cardinality(W) \in Nat
    BY UnitsFinite
  <1>3. SizeOf(S \cup T, kd) = Cardinality(U \cup W)
    <2>1. IsFiniteSet(S \cup T)
      BY FS_Union
    <2>2. QED
      BY <1>1, <2>1, UnitsFinite
  <1> HIDE DEF U, W
  <1>4. Cardinality(U \cup W) = Cardinality(U) + Cardinality(W) - Cardinality(U \cap W)
    BY <1>2, FS_Union
  <1>5. Cardinality(U \cap W) = 0
    BY <1>1, FS_EmptySet
  <1>6. QED
    BY <1>2, <1>3, <1>4, <1>5

\* Taking tasks out takes exactly their sizes out.
LEMMA SizeOfDifference ==
  ASSUME NEW S, IsFiniteSet(S), NEW T \in SUBSET S, NEW kd
  PROVE  /\ SizeOf(S \ T, kd) = SizeOf(S, kd) - SizeOf(T, kd)
         /\ SizeOf(S \ T, kd) \in Nat
  <1> DEFINE R == S \ T
  <1>1. R \cup T = S /\ R \cap T = {} /\ R \in SUBSET S
    OBVIOUS
  <1>2. IsFiniteSet(T) /\ IsFiniteSet(R)
    BY <1>1, FS_Subset
  <1>3. SizeOf(T, kd) \in Nat /\ SizeOf(R, kd) \in Nat
    BY <1>2, UnitsFinite
  <1> HIDE DEF R
  <1>4. SizeOf(R \cup T, kd) = SizeOf(R, kd) + SizeOf(T, kd)
    BY <1>1, <1>2, SizeOfUnion
  <1>5. SizeOf(S, kd) = SizeOf(R, kd) + SizeOf(T, kd)
    BY <1>1, <1>4
  <1>6. SizeOf(R, kd) = SizeOf(S, kd) - SizeOf(T, kd)
    BY <1>3, <1>5
  <1>7. QED
    BY <1>3, <1>6 DEF R

\* One task counts its own size.
LEMMA SizeOfOne ==
  ASSUME NEW t, NEW kd, kd[t].size \in 1..MaxSize
  PROVE  SizeOf({t}, kd) = kd[t].size
  <1> DEFINE n == kd[t].size
             f == [i \in 1..n |-> <<t, i>>]
             W == Units({t}, kd)
  <1>1. n \in Nat /\ MaxSize \in Nat /\ n <= MaxSize
    BY LimitsAssumption
  <1>2. \A i \in 1..n : <<t, i>> \in W
    BY <1>1 DEF Units
  <1>3. \A u \in W : \E i \in 1..n : u = <<t, i>>
    BY <1>1 DEF Units
  <1>4. f \in [1..n -> W]
    BY <1>2
  <1>5. \A i, j \in 1..n : f[i] = f[j] => i = j
    OBVIOUS
  <1>6. \A u \in W : \E i \in 1..n : f[i] = u
    BY <1>3
  <1>7. ExistsBijection(1..n, W)
    <2> HIDE DEF n, W, f
    <2>1. f \in Bijection(1..n, W)
      BY <1>4, <1>5, <1>6 DEF Bijection, Injection, Surjection, IsInjective
    <2>2. QED
      BY <2>1 DEF ExistsBijection
  <1>8. Cardinality(W) = n
    BY <1>1, <1>7, FS_CountingElements
  <1>9. QED
    BY <1>8 DEF SizeOf, Units

\* Sizes do not change as later tasks are accepted.
LEMMA SizeOfSame ==
  ASSUME NEW S, NEW k1, NEW k2, \A t \in S : k1[t] = k2[t]
  PROVE  SizeOf(S, k1) = SizeOf(S, k2)
  <1>1. {u \in S \X (1..MaxSize) : u[2] <= k1[u[1]].size}
          = {u \in S \X (1..MaxSize) : u[2] <= k2[u[1]].size}
    OBVIOUS
  <1>2. QED
    BY <1>1 DEF SizeOf

LEMMA SizeOfEmpty ==
  ASSUME NEW kd
  PROVE  SizeOf({}, kd) = 0
  <1>1. Units({}, kd) = {}
    BY DEF Units
  <1>2. QED
    BY <1>1, FS_EmptySet, UnitsFinite
\* The tasks of a batch are finitely many accepted tasks with a legal size.
LEMMA BatchFacts ==
  ASSUME TypeOK, NEW c \in Categories
  PROVE  /\ batchTasks[c] \in SUBSET Tasks /\ IsFiniteSet(batchTasks[c])
         /\ \A t \in batchTasks[c] : kind[t].size \in 1..MaxSize
  <1>1. batchTasks[c] \in SUBSET Tasks /\ kind \in Seq(Kinds)
    BY DEF TypeOK
  <1>2. \A t \in Tasks : kind[t] \in Kinds
    BY <1>1, ElementOfSeq DEF Tasks
  <1>3. \A k \in Kinds : k.size \in 1..MaxSize
    BY KindsAssumption DEF KindType
  <1>4. QED
    BY <1>1, <1>2, <1>3, TaskSetsFinite

\* addTaskToBatch adds the size of the task it adds.
LEMMA AcceptedSize ==
  ASSUME TypeOK, BatchSizeExact, NEW k \in Kinds, EnqueueAccepted(k)
  PROVE  BatchSizeExact'
  <1> DEFINE t == Len(kind) + 1
  <1>1. /\ Len(kind) \in Nat /\ kind \in Seq(Kinds) /\ kind' = Append(kind, k)
        /\ k.category \in Categories /\ k.size \in 1..MaxSize
    BY LenProperties, KindsAssumption DEF TypeOK, EnqueueAccepted, KindType
  <1>2. /\ t \notin Tasks /\ kind'[t] = k
        /\ \A u \in Tasks : kind'[u] = kind[u]
    BY <1>1, AppendProperties DEF Tasks
  <1>3. ASSUME NEW c \in Categories
        PROVE  /\ SizeOf(batchTasks[c], kind') = batchTotalSize[c]
               /\ IsFiniteSet(batchTasks[c]) /\ t \notin batchTasks[c]
    <2>1. batchTasks[c] \in SUBSET Tasks /\ IsFiniteSet(batchTasks[c])
      BY <1>3, BatchFacts
    <2>2. \A u \in batchTasks[c] : kind'[u] = kind[u]
      BY <1>2, <2>1
    <2>3. SizeOf(batchTasks[c], kind') = SizeOf(batchTasks[c], kind)
      BY <2>2, SizeOfSame
    <2>4. QED
      BY <1>2, <1>3, <2>1, <2>3 DEF BatchSizeExact
  <1>4. CASE addTaskToBatch(t, k)
    <2> DEFINE d == k.category
    <2>1. /\ batchTasks'[d] = batchTasks[d] \cup {t}
          /\ batchTotalSize'[d] = batchTotalSize[d] + k.size
          /\ \A c \in Categories \ {d} : /\ batchTasks'[c] = batchTasks[c]
                                         /\ batchTotalSize'[c] = batchTotalSize[c]
      BY <1>1, <1>4 DEF addTaskToBatch, TypeOK
    <2>2. SizeOf({t}, kind') = k.size
      <3> HIDE DEF t
      <3>1. QED
        BY <1>1, <1>2, SizeOfOne
    <2>3. SizeOf(batchTasks[d] \cup {t}, kind') = SizeOf(batchTasks[d], kind') + k.size
      <3>1. batchTasks[d] \cap {t} = {} /\ IsFiniteSet(batchTasks[d])
        BY <1>1, <1>3
      <3>2. IsFiniteSet({t})
        BY FS_Singleton
      <3> HIDE DEF t, d
      <3>3. QED
        BY <2>2, <3>1, <3>2, SizeOfUnion
    <2>4. ASSUME NEW c \in Categories
          PROVE  batchTotalSize'[c] = SizeOf(batchTasks'[c], kind')
      <3>1. CASE c = d
        <4>1. SizeOf(batchTasks[d], kind') = batchTotalSize[d]
          BY <1>1, <1>3
        <4>2. batchTotalSize'[d] = SizeOf(batchTasks[d] \cup {t}, kind')
          BY <2>1, <2>3, <4>1
        <4>3. QED
          BY <2>1, <3>1, <4>2
      <3>2. CASE c # d
        <4>1. batchTasks'[c] = batchTasks[c] /\ batchTotalSize'[c] = batchTotalSize[c]
          BY <2>1, <3>2
        <4>2. QED
          BY <1>3, <4>1
      <3>3. QED
        BY <3>1, <3>2
    <2>5. QED
      BY <2>4 DEF BatchSizeExact
  <1>5. CASE pushTask(t, k)
    <2>1. batchTasks' = batchTasks /\ batchTotalSize' = batchTotalSize
      BY <1>5 DEF pushTask
    <2>2. QED
      BY <1>3, <2>1 DEF BatchSizeExact
  <1>6. QED
    BY <1>4, <1>5 DEF EnqueueAccepted

\* processBatch takes off the sizes of the tasks it shifts, never below zero.
LEMMA ProcessBatchSize ==
  ASSUME TypeOK, BatchSizeExact, NEW c \in Categories, processBatch(c), kind' = kind
  PROVE  BatchSizeExact'
  <1>1. CASE UNCHANGED <<queueVars, runVars>>
    BY <1>1 DEF queueVars, BatchSizeExact
  <1>2. CASE ~UNCHANGED <<queueVars, runVars>>
    <2>1. PICK D \in SUBSET batchTasks[c] :
            /\ batchTasks' = [batchTasks EXCEPT ![c] = @ \ D]
            /\ batchTotalSize' = [batchTotalSize EXCEPT ![c] = AtLeast0(@ - SizeOf(D, kind))]
      BY <1>2 DEF processBatch
    <2>2. /\ batchTasks'[c] = batchTasks[c] \ D
          /\ batchTotalSize'[c] = AtLeast0(batchTotalSize[c] - SizeOf(D, kind))
          /\ \A d \in Categories \ {c} : /\ batchTasks'[d] = batchTasks[d]
                                         /\ batchTotalSize'[d] = batchTotalSize[d]
      BY <2>1 DEF TypeOK
    <2>3. /\ SizeOf(batchTasks[c] \ D, kind) = SizeOf(batchTasks[c], kind) - SizeOf(D, kind)
          /\ SizeOf(batchTasks[c] \ D, kind) \in Nat
      BY BatchFacts, SizeOfDifference
    <2>4. batchTotalSize[c] = SizeOf(batchTasks[c], kind)
      BY DEF BatchSizeExact
    <2>5. batchTotalSize'[c] = SizeOf(batchTasks[c] \ D, kind)
      BY <2>2, <2>3, <2>4 DEF AtLeast0
    <2>6. ASSUME NEW d \in Categories
          PROVE  batchTotalSize'[d] = SizeOf(batchTasks'[d], kind')
      <3>1. CASE d = c
        BY <2>2, <2>5, <3>1
      <3>2. CASE d # c
        <4>1. batchTasks'[d] = batchTasks[d] /\ batchTotalSize'[d] = batchTotalSize[d]
          BY <2>2, <3>2
        <4>2. QED
          BY <4>1 DEF BatchSizeExact
      <3>3. QED
        BY <3>1, <3>2
    <2>7. QED
      BY <2>6 DEF BatchSizeExact
  <1>3. QED
    BY <1>1, <1>2

\* removeTaskFromQueues takes off the size of the task that timed out.
LEMMA TimeoutSize ==
  ASSUME TypeOK, BatchSizeExact, NEW t \in Tasks, removeTaskFromQueues(t), kind' = kind
  PROVE  BatchSizeExact'
  <1>1. ASSUME NEW c \in Categories
        PROVE  batchTotalSize'[c] = SizeOf(batchTasks'[c], kind)
    <2>1. /\ batchTasks'[c] = batchTasks[c] \ {t}
          /\ batchTotalSize'[c] = IF t \in batchTasks[c] THEN batchTotalSize[c] - kind[t].size
                                  ELSE batchTotalSize[c]
      BY DEF removeTaskFromQueues, sizeWithout
    <2>2. batchTotalSize[c] = SizeOf(batchTasks[c], kind)
      BY DEF BatchSizeExact
    <2>3. CASE t \in batchTasks[c]
      <3>1. SizeOf({t}, kind) = kind[t].size
        BY <2>3, BatchFacts, SizeOfOne
      <3>2. {t} \in SUBSET batchTasks[c] /\ IsFiniteSet(batchTasks[c])
        BY <2>3, BatchFacts
      <3>3. SizeOf(batchTasks[c] \ {t}, kind) = SizeOf(batchTasks[c], kind) - SizeOf({t}, kind)
        BY <3>2, SizeOfDifference
      <3>4. QED
        BY <2>1, <2>2, <2>3, <3>1, <3>3
    <2>4. CASE t \notin batchTasks[c]
      <3>1. batchTasks[c] \ {t} = batchTasks[c]
        BY <2>4
      <3>2. QED
        BY <2>1, <2>2, <2>4, <3>1
    <2>5. QED
      BY <2>3, <2>4
  <1>2. QED
    BY <1>1 DEF BatchSizeExact

\* Every step keeps totalSize equal to the sizes of the tasks in the batch.
LEMMA SizeStep == TypeOK /\ BatchSizeExact /\ [Next]_vars => BatchSizeExact'
  <1> SUFFICES ASSUME TypeOK, BatchSizeExact, [Next]_vars
               PROVE  BatchSizeExact'
    OBVIOUS
  <1>a. ASSUME UNCHANGED <<kind, batchTasks, batchTotalSize>>
        PROVE  BatchSizeExact'
    BY <1>a DEF BatchSizeExact
  <1>1. ASSUME NEW k \in Kinds, EnqueueRefused(k)
        PROVE  BatchSizeExact'
    BY <1>1, <1>a DEF EnqueueRefused, queueVars
  <1>2. ASSUME NEW k \in Kinds, EnqueueAccepted(k)
        PROVE  BatchSizeExact'
    BY <1>2, AcceptedSize
  <1>3. CASE ProcessQueue
    BY <1>3, <1>a DEF ProcessQueue, queueVars, dispatch
  <1>4. ASSUME NEW t \in Tasks, NEW ok \in BOOLEAN, ExecuteReturns(t, ok)
        PROVE  BatchSizeExact'
    BY <1>4, <1>a DEF ExecuteReturns, queueVars
  <1>5. ASSUME NEW t \in Tasks, NEW ok \in BOOLEAN, PoolDone(t, ok)
        PROVE  BatchSizeExact'
    BY <1>5, <1>a DEF PoolDone, queueVars
  <1>6. ASSUME NEW t \in Tasks, ExecutionTimeout(t)
        PROVE  BatchSizeExact'
    BY <1>6, <1>a DEF ExecutionTimeout, queueVars
  <1>7. ASSUME NEW t \in Tasks, QueueTimeout(t)
        PROVE  BatchSizeExact'
    BY <1>7, TimeoutSize DEF QueueTimeout
  <1>8. ASSUME NEW c \in Categories, BatchImmediate(c)
        PROVE  BatchSizeExact'
    BY <1>8, ProcessBatchSize DEF BatchImmediate
  <1>9. ASSUME NEW c \in Categories, SweepBatch(c)
        PROVE  BatchSizeExact'
    BY <1>9, ProcessBatchSize DEF SweepBatch
  <1>10. CASE AgedBatches
    BY <1>10, <1>a DEF AgedBatches, queueVars
  <1>11. CASE MemoryNormal
    BY <1>11, <1>a DEF MemoryNormal, queueVars
  <1>12. ASSUME NEW critical \in BOOLEAN, MemoryPressured(critical)
         PROVE  BatchSizeExact'
    <2>1. /\ kind' = kind
          /\ \A c \in Categories :
               /\ batchTasks'[c] = IF c \in OldBatches THEN {} ELSE batchTasks[c]
               /\ batchTotalSize'[c] = IF c \in OldBatches THEN 0 ELSE batchTotalSize[c]
      BY <1>12 DEF MemoryPressured
    <2>2. SizeOf({}, kind) = 0
      BY SizeOfEmpty
    <2>3. QED
      BY <2>1, <2>2 DEF BatchSizeExact
  <1>13. CASE PollQueue
    BY <1>13, <1>a DEF PollQueue, queueVars
  <1>14. CASE Tick
    BY <1>14, <1>a DEF Tick
  <1>15. CASE UNCHANGED vars
    BY <1>15, <1>a DEF vars, queueVars
  <1>16. QED
    BY <1>1, <1>2, <1>3, <1>4, <1>5, <1>6, <1>7, <1>8, <1>9, <1>10, <1>11,
       <1>12, <1>13, <1>14, <1>15 DEF Next

\* totalSize never drifts from the tasks in the batch, after any mix of partial
\* dispatch, queue timeout and cleanup; its clamp at zero hides no error.
THEOREM BatchSizesExact == Spec => []BatchSizeExact
  <1>1. Init => BatchSizeExact
    BY SizeOfEmpty DEF Init, BatchSizeExact
  <1>2. QED
    BY <1>1, SizeStep, TypeCorrect, PTL DEF Spec

=============================================================================
