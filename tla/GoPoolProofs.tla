---------------------------- MODULE GoPoolProofs ----------------------------
(***************************************************************************)
(* Invariance proofs for GoPool, for every set of tasks, number of workers,  *)
(* queue limit, number of retries and choice of priorities.                  *)
(***************************************************************************)
EXTENDS GoPool, FiniteSetTheorems, TLAPS

-----------------------------------------------------------------------------
(* Counting tasks *)

\* Sets of tasks are finite.
LEMMA TasksFinite ==
  ASSUME NEW S \in SUBSET Tasks
  PROVE  IsFiniteSet(S) /\ Cardinality(S) \in Nat
  BY PoolAssumption, FS_Subset, FS_CardinalityType

\* Two sets of tasks that differ in one task at most differ by it in number.
LEMMA OneDiffers ==
  ASSUME NEW A \in SUBSET Tasks, NEW B \in SUBSET Tasks, NEW t \in Tasks,
         \A u \in Tasks \ {t} : u \in A <=> u \in B
  PROVE  Cardinality(B) = Cardinality(A) + (IF t \in B THEN 1 ELSE 0)
                                         - (IF t \in A THEN 1 ELSE 0)
  <1>1. IsFiniteSet(A) /\ Cardinality(A) \in Nat
    BY TasksFinite
  <1>2. CASE t \in A <=> t \in B
    <2>1. A = B
      BY <1>2
    <2>2. QED
      BY <2>1, <1>1
  <1>3. CASE t \in B /\ t \notin A
    <2>1. B = A \cup {t}
      BY <1>3
    <2>2. Cardinality(B) = Cardinality(A) + 1
      BY <2>1, <1>1, <1>3, FS_AddElement
    <2>3. QED
      BY <2>2, <1>1, <1>3
  <1>4. CASE t \notin B /\ t \in A
    <2>1. B = A \ {t}
      BY <1>4
    <2>2. Cardinality(B) = Cardinality(A) - 1
      BY <2>1, <1>1, <1>4, FS_RemoveElement
    <2>3. QED
      BY <2>2, <1>1, <1>4
  <1>5. QED
    BY <1>2, <1>3, <1>4

\* The tasks on which a function has one of some values.
Having(f, values) == {t \in Tasks : f[t] \in values}

\* Changing a function for one task changes these numbers for that task only.
LEMMA ChangeCounts ==
  ASSUME NEW f, NEW g, NEW t \in Tasks, NEW values,
         \A u \in Tasks \ {t} : g[u] = f[u]
  PROVE  Cardinality(Having(g, values)) =
           Cardinality(Having(f, values)) + (IF g[t] \in values THEN 1 ELSE 0)
                                          - (IF f[t] \in values THEN 1 ELSE 0)
  <1> DEFINE A == Having(f, values)
             B == Having(g, values)
  <1>1. /\ A \in SUBSET Tasks
        /\ B \in SUBSET Tasks
        /\ t \in A <=> f[t] \in values
        /\ t \in B <=> g[t] \in values
        /\ \A u \in Tasks \ {t} : u \in A <=> u \in B
    BY DEF Having
  <1> HIDE DEF A, B
  <1>2. Cardinality(B) = Cardinality(A) + (IF t \in B THEN 1 ELSE 0)
                                        - (IF t \in A THEN 1 ELSE 0)
    BY <1>1, OneDiffers
  <1>3. QED
    BY <1>1, <1>2 DEF A, B

-----------------------------------------------------------------------------
(* Tokens and gauge *)

Places == {"idle", "checked", "queued", "limit", "sem", "done", "refused"} \cup Holding

\* Where active counts a task: from Begin to Leave.
Busy == {"running", "backoff", "returned"}

\* The gauge is the number of tasks between Begin and Leave.
GaugeExact == active = Cardinality(At(Busy))

\* A task waits for another attempt only if it has one left.
AttemptLeft == \A t \in Tasks : pc[t] = "backoff" => attempt[t] < retries

\* The queue is the tasks that wait in it, and gRPC's tasks never do.
WaitingPlaces ==
  /\ queue = At({"queued"})
  /\ \A t \in Sync : pc[t] \notin {"checked", "queued"}

WorkersInv == TypeOK /\ SlotsExact /\ GaugeExact /\ AttemptLeft /\ WaitingPlaces

\* What a move of one task does to the tokens' and the gauge's counts.
LEMMA MoveCounts ==
  ASSUME TypeOK, NEW t \in Tasks, NEW p \in Places, goto(t, p), NEW S
  PROVE  /\ pc' \in [Tasks -> Places]
         /\ Cardinality(At(S)) \in Nat
         /\ Cardinality(At(S)') = Cardinality(At(S)) + (IF p \in S THEN 1 ELSE 0)
                                                     - (IF pc[t] \in S THEN 1 ELSE 0)
  <1>1. pc \in [Tasks -> Places] /\ pc' = [pc EXCEPT ![t] = p]
    BY DEF TypeOK, Places, goto
  <1>2. At(S) = Having(pc, S) /\ At(S)' = Having(pc', S)
    BY DEF At, Having
  <1>3. Cardinality(At(S)) \in Nat
    BY TasksFinite DEF At
  <1>4. pc'[t] = p /\ \A u \in Tasks \ {t} : pc'[u] = pc[u]
    BY <1>1
  <1>5. Cardinality(Having(pc', S)) =
          Cardinality(Having(pc, S)) + (IF pc'[t] \in S THEN 1 ELSE 0)
                                     - (IF pc[t] \in S THEN 1 ELSE 0)
    BY <1>4, ChangeCounts
  <1>6. QED
    BY <1>1, <1>2, <1>3, <1>4, <1>5

\* A holder makes the number of holders positive.
LEMMA HolderCounts ==
  ASSUME NEW S, NEW t \in At(S)
  PROVE  Cardinality(At(S)) \in Nat \ {0}
  <1>1. At(S) \in SUBSET Tasks /\ At(S) # {}
    BY DEF At
  <1>2. QED
    BY <1>1, TasksFinite, FS_EmptySet

\* There are at least as many tokens as the gauge shows.
LEMMA BusyHold == Cardinality(At(Busy)) <= Cardinality(At(Holding))
  <1>1. At(Busy) \in SUBSET At(Holding) /\ At(Holding) \in SUBSET Tasks
    BY DEF At, Busy, Holding
  <1>2. QED
    BY <1>1, TasksFinite, FS_Subset

\* executeWithRetry's counting keeps types, tokens and gauge.
LEMMA FinishWorkers ==
  ASSUME WorkersInv, NEW t \in Tasks, NEW result \in {"ok", "error"},
         pc[t] \in {"running", "backoff"}, finish(t, result)
  PROVE  WorkersInv'
  <1>1. /\ pc' \in [Tasks -> Places]
        /\ Cardinality(At(Holding)') = Cardinality(At(Holding))
        /\ Cardinality(At(Busy)') = Cardinality(At(Busy))
    BY MoveCounts DEF finish, WorkersInv, Places, Holding, Busy
  <1>2. TypeOK'
    <2>1. (pc \in [Tasks -> Places])'
      BY <1>1
    <2>2. {slots, active, processed, failed, racers}' \subseteq Nat
      BY DEF WorkersInv, TypeOK, finish
    <2>3. outcome' \in [Tasks -> {"none", "ok", "error"}]
      BY DEF WorkersInv, TypeOK, finish
    <2>4. QED
      BY <2>1, <2>2, <2>3 DEF WorkersInv, TypeOK, finish, Places, loopVars
  <1>3. SlotsExact' /\ GaugeExact'
    BY <1>1 DEF WorkersInv, SlotsExact, GaugeExact, finish
  <1>4. AttemptLeft'
    BY DEF WorkersInv, TypeOK, AttemptLeft, finish, goto, retries
  <1>5. WaitingPlaces'
    BY DEF WorkersInv, WaitingPlaces, TypeOK, At, finish, goto
  <1>6. QED
    BY <1>2, <1>3, <1>4, <1>5 DEF WorkersInv

\* A move that takes no worker and gives none back: what is left to show.
LEMMA PlainMove ==
  ASSUME WorkersInv, NEW t \in Tasks, NEW p \in Places, goto(t, p),
         p \in Holding <=> pc[t] \in Holding, p \in Busy <=> pc[t] \in Busy,
         p # "backoff", UNCHANGED <<slots, active, attempt>>
  PROVE  (pc \in [Tasks -> Places])' /\ SlotsExact' /\ GaugeExact' /\ AttemptLeft'
  <1>1. /\ pc' \in [Tasks -> Places]
        /\ Cardinality(At(Holding)') = Cardinality(At(Holding))
        /\ Cardinality(At(Busy)') = Cardinality(At(Busy))
    BY MoveCounts DEF WorkersInv
  <1>2. SlotsExact' /\ GaugeExact'
    BY <1>1 DEF WorkersInv, SlotsExact, GaugeExact
  <1>3. AttemptLeft'
    BY DEF WorkersInv, TypeOK, AttemptLeft, goto, retries
  <1>4. QED
    BY <1>1, <1>2, <1>3

\* Taking a token, whichever way the task came.
LEMMA AcquireWorkers ==
  ASSUME WorkersInv, NEW t \in Tasks, pc[t] = "sem", slots < Workers,
         slots' = slots + 1, goto(t, "acquired"), UNCHANGED <<active, attempt>>
  PROVE  (pc \in [Tasks -> Places])' /\ SlotsExact' /\ GaugeExact' /\ AttemptLeft'
  <1>1. /\ pc' \in [Tasks -> Places]
        /\ Cardinality(At(Holding)') = Cardinality(At(Holding)) + 1
        /\ Cardinality(At(Busy)') = Cardinality(At(Busy))
    BY MoveCounts DEF WorkersInv, Places, Holding, Busy
  <1>2. SlotsExact' /\ GaugeExact'
    BY <1>1, PoolAssumption DEF WorkersInv, TypeOK, SlotsExact, GaugeExact
  <1>3. AttemptLeft'
    BY DEF WorkersInv, TypeOK, AttemptLeft, goto, retries
  <1>4. QED
    BY <1>1, <1>2, <1>3

\* Every step keeps the types and the exactness of tokens and gauge.
LEMMA WorkersStep == WorkersInv /\ [Next]_vars => WorkersInv'
  <1> SUFFICES ASSUME WorkersInv, [Next]_vars
               PROVE  WorkersInv'
    OBVIOUS
  <1> USE DEF WorkersInv
  <1>1. ASSUME NEW t \in Tasks, SubmitCheck(t)
        PROVE  WorkersInv'
    <2>1. (pc \in [Tasks -> Places])' /\ SlotsExact' /\ GaugeExact' /\ AttemptLeft'
      BY <1>1, PlainMove DEF SubmitCheck, Places, Holding, Busy, stats
    <2>2. TypeOK'
      BY <1>1, <2>1 DEF SubmitCheck, TypeOK, Places, stats, loopVars
    <2>3. WaitingPlaces'
      BY <1>1 DEF SubmitCheck, TypeOK, WaitingPlaces, At, goto, Async
    <2>4. QED
      BY <2>1, <2>2, <2>3
  <1>2. ASSUME NEW t \in Tasks, Enqueue(t)
        PROVE  WorkersInv'
    <2>1. (pc \in [Tasks -> Places])' /\ SlotsExact' /\ GaugeExact' /\ AttemptLeft'
      BY <1>2, PlainMove DEF Enqueue, Places, Holding, Busy, stats
    <2>2. TypeOK'
      BY <1>2, <2>1 DEF Enqueue, WaitingPlaces, TypeOK, Places, stats, loopVars, Async
    <2>3. WaitingPlaces'
      BY <1>2 DEF Enqueue, TypeOK, WaitingPlaces, At, goto, Async
    <2>4. QED
      BY <2>1, <2>2, <2>3
  <1>3. ASSUME NEW t \in Tasks, Dequeue(t)
        PROVE  WorkersInv'
    <2>1. (pc \in [Tasks -> Places])' /\ SlotsExact' /\ GaugeExact' /\ AttemptLeft'
      BY <1>3, PlainMove DEF Dequeue, WaitingPlaces, At, Places, Holding, Busy, stats
    <2>2. TypeOK'
      BY <1>3, <2>1 DEF Dequeue, TypeOK, Places, stats, loopVars, Async
    <2>3. WaitingPlaces'
      BY <1>3 DEF Dequeue, TypeOK, WaitingPlaces, At, goto, Async
    <2>4. QED
      BY <2>1, <2>2, <2>3
  <1>4. ASSUME NEW t \in Tasks, LimiterPasses(t)
        PROVE  WorkersInv'
    <2>1. (pc \in [Tasks -> Places])' /\ SlotsExact' /\ GaugeExact' /\ AttemptLeft'
      BY <1>4, PlainMove DEF LimiterPasses, Places, Holding, Busy, stats
    <2>2. TypeOK'
      BY <1>4, <2>1 DEF LimiterPasses, TypeOK, Places, stats, loopVars
    <2>3. WaitingPlaces'
      BY <1>4 DEF LimiterPasses, TypeOK, WaitingPlaces, At, goto, Async
    <2>4. QED
      BY <2>1, <2>2, <2>3
  <1>5. ASSUME NEW t \in Tasks, Call(t)
        PROVE  WorkersInv'
    <2>1. (pc \in [Tasks -> Places])' /\ SlotsExact' /\ GaugeExact' /\ AttemptLeft'
      BY <1>5, PlainMove DEF Call, Places, Holding, Busy, stats
    <2>2. TypeOK'
      BY <1>5, <2>1 DEF Call, TypeOK, Places, stats, loopVars
    <2>3. WaitingPlaces'
      BY <1>5 DEF Call, TypeOK, WaitingPlaces, At, goto, Async
    <2>4. QED
      BY <2>1, <2>2, <2>3
  <1>6. ASSUME NEW t \in Tasks, RateLimited(t)
        PROVE  WorkersInv'
    <2>1. (pc \in [Tasks -> Places])' /\ SlotsExact' /\ GaugeExact' /\ AttemptLeft'
      BY <1>6, PlainMove DEF RateLimited, Places, Holding, Busy, stats
    <2>2. TypeOK'
      BY <1>6, <2>1 DEF RateLimited, TypeOK, Places, stats, loopVars
    <2>3. WaitingPlaces'
      BY <1>6 DEF RateLimited, TypeOK, WaitingPlaces, At, goto, Async
    <2>4. QED
      BY <2>1, <2>2, <2>3
  <1>7. ASSUME NEW t \in Tasks, NoWorker(t)
        PROVE  WorkersInv'
    <2>1. (pc \in [Tasks -> Places])' /\ SlotsExact' /\ GaugeExact' /\ AttemptLeft'
      BY <1>7, PlainMove DEF NoWorker, Places, Holding, Busy, stats
    <2>2. TypeOK'
      BY <1>7, <2>1 DEF NoWorker, TypeOK, Places, stats, loopVars
    <2>3. WaitingPlaces'
      BY <1>7 DEF NoWorker, TypeOK, WaitingPlaces, At, goto, Async
    <2>4. QED
      BY <2>1, <2>2, <2>3
  <1>8. ASSUME NEW t \in Tasks, AcquireAsync(t)
        PROVE  WorkersInv'
    <2>1. (pc \in [Tasks -> Places])' /\ SlotsExact' /\ GaugeExact' /\ AttemptLeft'
      BY <1>8, AcquireWorkers DEF AcquireAsync, stats
    <2>2. TypeOK'
      BY <1>8, <2>1 DEF AcquireAsync, TypeOK, Places, stats, loopVars
    <2>3. WaitingPlaces'
      BY <1>8 DEF AcquireAsync, TypeOK, WaitingPlaces, At, goto, Async
    <2>4. QED
      BY <2>1, <2>2, <2>3
  <1>9. ASSUME NEW t \in Tasks, AcquireSync(t)
        PROVE  WorkersInv'
    <2>1. (pc \in [Tasks -> Places])' /\ SlotsExact' /\ GaugeExact' /\ AttemptLeft'
      BY <1>9, AcquireWorkers DEF AcquireSync, stats
    <2>2. TypeOK'
      BY <1>9, <2>1 DEF AcquireSync, TypeOK, Places, stats, loopVars
    <2>3. WaitingPlaces'
      BY <1>9 DEF AcquireSync, TypeOK, WaitingPlaces, At, goto, Async
    <2>4. QED
      BY <2>1, <2>2, <2>3
  <1>10. ASSUME NEW t \in Tasks, Begin(t)
        PROVE  WorkersInv'
    <2>1. /\ pc' \in [Tasks -> Places]
          /\ Cardinality(At(Holding)') = Cardinality(At(Holding))
          /\ Cardinality(At(Busy)') = Cardinality(At(Busy)) + 1
      BY <1>10, MoveCounts DEF Begin, Places, Holding, Busy
    <2>3. SlotsExact' /\ GaugeExact'
      BY <1>10, <2>1, PoolAssumption DEF Begin, TypeOK, SlotsExact, GaugeExact, stats
    <2>4. AttemptLeft'
      BY <1>10 DEF Begin, TypeOK, AttemptLeft, goto, retries
    <2>5. TypeOK'
      BY <1>10, <2>1, PoolAssumption DEF Begin, TypeOK, AttemptLeft, SlotsExact, GaugeExact, retries, Places, stats, loopVars
    <2>6. WaitingPlaces'
      BY <1>10 DEF Begin, TypeOK, WaitingPlaces, At, goto
    <2>7. QED
      BY <2>3, <2>4, <2>5, <2>6
  <1>11. ASSUME NEW t \in Tasks, HandlerFails(t)
        PROVE  WorkersInv'
    <2>1. /\ pc' \in [Tasks -> Places]
          /\ Cardinality(At(Holding)') = Cardinality(At(Holding))
          /\ Cardinality(At(Busy)') = Cardinality(At(Busy))
      BY <1>11, MoveCounts DEF HandlerFails, Places, Holding, Busy
    <2>3. SlotsExact' /\ GaugeExact'
      BY <1>11, <2>1, PoolAssumption DEF HandlerFails, TypeOK, SlotsExact, GaugeExact, stats
    <2>4. AttemptLeft'
      BY <1>11 DEF HandlerFails, TypeOK, AttemptLeft, goto, retries
    <2>5. TypeOK'
      BY <1>11, <2>1, PoolAssumption DEF HandlerFails, TypeOK, AttemptLeft, SlotsExact, GaugeExact, retries, Places, stats, loopVars
    <2>6. WaitingPlaces'
      BY <1>11 DEF HandlerFails, TypeOK, WaitingPlaces, At, goto
    <2>7. QED
      BY <2>3, <2>4, <2>5, <2>6
  <1>12. ASSUME NEW t \in Tasks, Retry(t)
        PROVE  WorkersInv'
    <2>1. /\ pc' \in [Tasks -> Places]
          /\ Cardinality(At(Holding)') = Cardinality(At(Holding))
          /\ Cardinality(At(Busy)') = Cardinality(At(Busy))
      BY <1>12, MoveCounts DEF Retry, Places, Holding, Busy
    <2>2. SlotsExact' /\ GaugeExact'
      BY <1>12, <2>1, PoolAssumption DEF Retry, TypeOK, SlotsExact, GaugeExact, stats
    <2>3. AttemptLeft'
      BY <1>12 DEF Retry, TypeOK, AttemptLeft, goto, retries
    <2>4. attempt' \in [Tasks -> 0..retries]
      <3>1. attempt \in [Tasks -> 0..retries] /\ retries \in Nat
        BY PoolAssumption DEF TypeOK, retries
      <3>2. attempt[t] < retries
        BY <1>12 DEF Retry, AttemptLeft
      <3>3. attempt[t] + 1 \in 0..retries
        BY <3>1, <3>2
      <3>4. QED
        BY <1>12, <3>1, <3>3 DEF Retry
    <2>5. TypeOK'
      BY <1>12, <2>1, <2>4 DEF Retry, TypeOK, retries, Places, stats, loopVars
    <2>6. WaitingPlaces'
      BY <1>12 DEF Retry, TypeOK, WaitingPlaces, At, goto
    <2>7. QED
      BY <2>2, <2>3, <2>5, <2>6
  <1>13. ASSUME NEW t \in Tasks, Leave(t)
        PROVE  WorkersInv'
    <2>1. /\ pc' \in [Tasks -> Places]
          /\ Cardinality(At(Holding)') = Cardinality(At(Holding))
          /\ Cardinality(At(Busy)') = Cardinality(At(Busy)) - 1
      BY <1>13, MoveCounts DEF Leave, Places, Holding, Busy
    <2>2. Cardinality(At(Busy)) \in Nat \ {0}
      BY <1>13, HolderCounts DEF Leave, At, Busy
    <2>3. SlotsExact' /\ GaugeExact'
      BY <1>13, <2>1, <2>2, PoolAssumption DEF Leave, TypeOK, SlotsExact, GaugeExact, stats
    <2>4. AttemptLeft'
      BY <1>13 DEF Leave, TypeOK, AttemptLeft, goto, retries
    <2>5. TypeOK'
      BY <1>13, <2>1, <2>2, PoolAssumption DEF Leave, TypeOK, AttemptLeft, SlotsExact, GaugeExact, retries, Places, stats, loopVars
    <2>6. WaitingPlaces'
      BY <1>13 DEF Leave, TypeOK, WaitingPlaces, At, goto
    <2>7. QED
      BY <2>3, <2>4, <2>5, <2>6
  <1>14. ASSUME NEW t \in Tasks, Release(t)
        PROVE  WorkersInv'
    <2>1. /\ pc' \in [Tasks -> Places]
          /\ Cardinality(At(Holding)') = Cardinality(At(Holding)) - 1
          /\ Cardinality(At(Busy)') = Cardinality(At(Busy))
      BY <1>14, MoveCounts DEF Release, Places, Holding, Busy
    <2>2. Cardinality(At(Holding)) \in Nat \ {0}
      BY <1>14, HolderCounts DEF Release, At, Holding
    <2>3. SlotsExact' /\ GaugeExact'
      BY <1>14, <2>1, <2>2, PoolAssumption DEF Release, TypeOK, SlotsExact, GaugeExact, stats
    <2>4. AttemptLeft'
      BY <1>14 DEF Release, TypeOK, AttemptLeft, goto, retries
    <2>5. TypeOK'
      BY <1>14, <2>1, <2>2, PoolAssumption DEF Release, TypeOK, AttemptLeft, SlotsExact, GaugeExact, retries, Places, stats, loopVars
    <2>6. WaitingPlaces'
      BY <1>14 DEF Release, TypeOK, WaitingPlaces, At, goto
    <2>7. QED
      BY <2>3, <2>4, <2>5, <2>6
  <1>15. ASSUME NEW t \in Tasks, HandlerSucceeds(t)
        PROVE  WorkersInv'
    BY <1>15, FinishWorkers DEF HandlerSucceeds
  <1>16. ASSUME NEW t \in Tasks, LastAttemptFails(t)
        PROVE  WorkersInv'
    BY <1>16, FinishWorkers DEF LastAttemptFails
  <1>17. ASSUME NEW t \in Tasks, BackoffCancelled(t)
        PROVE  WorkersInv'
    BY <1>17, FinishWorkers DEF BackoffCancelled
  <1>18. ASSUME NEW t \in Tasks, Expire(t)
        PROVE  WorkersInv'
    BY <1>18 DEF Expire, TypeOK, SlotsExact, GaugeExact, AttemptLeft, WaitingPlaces, At, stats, loopVars, answer, Holding
  <1>19. ASSUME NEW t \in Tasks, Respond(t)
        PROVE  WorkersInv'
    BY <1>19 DEF Respond, TypeOK, SlotsExact, GaugeExact, AttemptLeft, WaitingPlaces, At, stats, loopVars, answer, Holding
  <1>20. ASSUME NEW t \in Tasks, CallFails(t)
        PROVE  WorkersInv'
    BY <1>20 DEF CallFails, TypeOK, SlotsExact, GaugeExact, AttemptLeft, WaitingPlaces, At, stats, loopVars, answer, Holding
  <1>21. CASE GracefulStop
    BY <1>21 DEF GracefulStop, TypeOK, SlotsExact, GaugeExact, AttemptLeft, WaitingPlaces, At, stats, retries
  <1>22. CASE Stop
    BY <1>22 DEF Stop, TypeOK, SlotsExact, GaugeExact, AttemptLeft, WaitingPlaces, At, stats, retries
  <1>23. CASE LoopExits
    BY <1>23 DEF LoopExits, TypeOK, SlotsExact, GaugeExact, AttemptLeft, WaitingPlaces, At, stats, retries
  <1>24. CASE StopReturns
    BY <1>24 DEF StopReturns, TypeOK, SlotsExact, GaugeExact, AttemptLeft, WaitingPlaces, At, stats, retries
  <1>25. CASE UNCHANGED vars
    BY <1>25 DEF vars, TypeOK, SlotsExact, GaugeExact, AttemptLeft, WaitingPlaces, At, stats, loopVars
  <1>26. QED
    BY <1>1, <1>2, <1>3, <1>4, <1>5, <1>6, <1>7, <1>8, <1>9, <1>10, <1>11, <1>12, <1>13, <1>14, <1>15, <1>16, <1>17, <1>18, <1>19, <1>20, <1>21, <1>22, <1>23, <1>24, <1>25
       DEF Next, Works, Acquires, Waits

\* The pool starts with no task anywhere and no worker taken.
LEMMA WorkersInit == Init => WorkersInv
  <1> SUFFICES ASSUME Init
               PROVE  WorkersInv
    OBVIOUS
  <1>1. At(Holding) = {} /\ At(Busy) = {} /\ At({"queued"}) = {}
    BY DEF Init, At, Holding, Busy
  <1>2. TypeOK
    <2>1. pc \in [Tasks -> Places]
      BY DEF Init, Places
    <2>2. attempt \in [Tasks -> 0..retries]
      BY PoolAssumption DEF Init, retries
    <2>3. outcome \in [Tasks -> {"none", "ok", "error"}]
      BY DEF Init
    <2>4. client \in [Sync -> {"none", "waiting", "ok", "failed", "rejected"}]
      BY DEF Init
    <2>5. {limited, draining, stopped, halted} \subseteq BOOLEAN
      BY DEF Init
    <2>6. QED
      BY <2>1, <2>2, <2>3, <2>4, <2>5 DEF Init, TypeOK, Places, retries
  <1>3. SlotsExact /\ GaugeExact
    BY <1>1, FS_EmptySet, PoolAssumption DEF Init, SlotsExact, GaugeExact
  <1>4. AttemptLeft /\ WaitingPlaces
    BY <1>1, PoolAssumption DEF Init, AttemptLeft, WaitingPlaces
  <1>5. QED
    BY <1>2, <1>3, <1>4 DEF WorkersInv

\* Types, exact tokens and an exact gauge, in every reachable state.
LEMMA WorkersInvariant == Spec => []WorkersInv
  BY WorkersInit, WorkersStep, PTL DEF Spec

\* In every reachable state the semaphore of the pool holds exactly one token
\* per task that has a worker (run) or is on its way out, never more than there
\* are workers, and the gauge that Stats reports is at most that.
THEOREM TokensExact == Spec => []WorkersExact
  <1>1. WorkersInv => WorkersExact
    BY BusyHold DEF WorkersInv, WorkersExact, SlotsExact, GaugeExact, GaugeWithinWorkers
  <1>2. QED
    BY <1>1, WorkersInvariant, PTL

-----------------------------------------------------------------------------
(* Counters and answers *)

\* The counters are the numbers of tasks that ended well and badly.
Counters ==
  /\ processed = Cardinality({t \in Tasks : outcome[t] = "ok"})
  /\ failed = Cardinality({t \in Tasks : outcome[t] = "error"})

\* A task has an outcome from the end of executeWithRetry on, and is tried only
\* after it began.
Tried ==
  \A t \in Tasks : /\ outcome[t] # "none" <=> pc[t] \in {"returned", "leaving", "done"}
                   /\ pc[t] \notin {"running", "backoff", "returned", "leaving", "done"}
                        => attempt[t] = 0

\* gRPC answers after the end, and the answer is then what was done.
Answered ==
  \A t \in Sync : client[t] \in {"ok", "failed"} => pc[t] \in Final

CountsInv == Counters /\ Tried /\ Answered /\ ClientTruth

\* Counting the result of executeWithRetry, once.
LEMMA FinishCounts ==
  ASSUME TypeOK, CountsInv, NEW t \in Tasks, NEW result \in {"ok", "error"},
         pc[t] \in {"running", "backoff"}, finish(t, result)
  PROVE  CountsInv'
  <1>1. outcome[t] = "none" /\ outcome' = [outcome EXCEPT ![t] = result]
    BY DEF CountsInv, Tried, TypeOK, finish
  <1>2. outcome'[t] = result /\ \A u \in Tasks \ {t} : outcome'[u] = outcome[u]
    BY <1>1 DEF TypeOK
  <1>3. ASSUME NEW v \in {"ok", "error"}
        PROVE  Cardinality({u \in Tasks : outcome'[u] = v}) =
                 Cardinality({u \in Tasks : outcome[u] = v}) + (IF result = v THEN 1 ELSE 0)
    <2> DEFINE A == {u \in Tasks : outcome[u] = v}
               B == {u \in Tasks : outcome'[u] = v}
    <2>1. /\ A \in SUBSET Tasks /\ B \in SUBSET Tasks
          /\ \A u \in Tasks \ {t} : u \in A <=> u \in B
          /\ t \notin A
          /\ t \in B <=> result = v
      BY <1>1, <1>2, <1>3
    <2> HIDE DEF A, B
    <2>2. Cardinality(A) \in Nat
      BY <2>1, TasksFinite
    <2>3. Cardinality(B) = Cardinality(A) + (IF t \in B THEN 1 ELSE 0)
                                          - (IF t \in A THEN 1 ELSE 0)
      BY <2>1, OneDiffers
    <2>4. Cardinality(B) = Cardinality(A) + (IF result = v THEN 1 ELSE 0)
      BY <2>1, <2>2, <2>3
    <2>5. QED
      BY <2>4 DEF A, B
  <1>4. Counters'
    BY <1>3 DEF Counters, CountsInv, finish, TypeOK
  <1>5. Tried'
    BY DEF CountsInv, Tried, TypeOK, finish, goto
  <1>6. Answered' /\ ClientTruth'
    BY DEF CountsInv, Answered, ClientTruth, TypeOK, finish, goto, Final
  <1>7. QED
    BY <1>4, <1>5, <1>6 DEF CountsInv

\* Every step keeps counters and answers true.
LEMMA CountsStep == WorkersInv /\ CountsInv /\ [Next]_vars => CountsInv'
  <1> SUFFICES ASSUME WorkersInv, CountsInv, [Next]_vars
               PROVE  CountsInv'
    OBVIOUS
  <1>0. TypeOK
    BY DEF WorkersInv
  <1> USE DEF CountsInv
  <1>1. ASSUME NEW t \in Tasks, SubmitCheck(t)
        PROVE  CountsInv'
    <2>1. Counters'
      BY <1>1 DEF SubmitCheck, Counters, stats
    <2>2. Tried'
      BY <1>0, <1>1 DEF SubmitCheck, Tried, TypeOK, goto
    <2>3. Answered' /\ ClientTruth'
      BY <1>0, <1>1 DEF SubmitCheck, Answered, ClientTruth, TypeOK, goto, Final
    <2>4. QED
      BY <2>1, <2>2, <2>3
  <1>2. ASSUME NEW t \in Tasks, Enqueue(t)
        PROVE  CountsInv'
    <2>1. Counters'
      BY <1>2 DEF Enqueue, Counters, stats
    <2>2. Tried'
      BY <1>0, <1>2 DEF Enqueue, Tried, TypeOK, goto
    <2>3. Answered' /\ ClientTruth'
      BY <1>0, <1>2 DEF Enqueue, Answered, ClientTruth, TypeOK, goto, Final
    <2>4. QED
      BY <2>1, <2>2, <2>3
  <1>3. ASSUME NEW t \in Tasks, Dequeue(t)
        PROVE  CountsInv'
    <2>1. Counters'
      BY <1>3 DEF Dequeue, Counters, stats
    <2>2. Tried'
      BY <1>0, <1>3 DEF Dequeue, Tried, TypeOK, goto, WorkersInv, WaitingPlaces, At
    <2>3. Answered' /\ ClientTruth'
      BY <1>0, <1>3 DEF Dequeue, Answered, ClientTruth, TypeOK, goto, Final, WorkersInv, WaitingPlaces, At
    <2>4. QED
      BY <2>1, <2>2, <2>3
  <1>4. ASSUME NEW t \in Tasks, LimiterPasses(t)
        PROVE  CountsInv'
    <2>1. Counters'
      BY <1>4 DEF LimiterPasses, Counters, stats
    <2>2. Tried'
      BY <1>0, <1>4 DEF LimiterPasses, Tried, TypeOK, goto
    <2>3. Answered' /\ ClientTruth'
      BY <1>0, <1>4 DEF LimiterPasses, Answered, ClientTruth, TypeOK, goto, Final
    <2>4. QED
      BY <2>1, <2>2, <2>3
  <1>5. ASSUME NEW t \in Tasks, Call(t)
        PROVE  CountsInv'
    <2>1. Counters'
      BY <1>5 DEF Call, Counters, stats
    <2>2. Tried'
      BY <1>0, <1>5 DEF Call, Tried, TypeOK, goto
    <2>3. Answered' /\ ClientTruth'
      BY <1>0, <1>5 DEF Call, Answered, ClientTruth, TypeOK, goto, Final
    <2>4. QED
      BY <2>1, <2>2, <2>3
  <1>6. ASSUME NEW t \in Tasks, RateLimited(t)
        PROVE  CountsInv'
    <2>1. Counters'
      BY <1>6 DEF RateLimited, Counters, stats
    <2>2. Tried'
      BY <1>0, <1>6 DEF RateLimited, Tried, TypeOK, goto
    <2>3. Answered' /\ ClientTruth'
      BY <1>0, <1>6 DEF RateLimited, Answered, ClientTruth, TypeOK, goto, Final
    <2>4. QED
      BY <2>1, <2>2, <2>3
  <1>7. ASSUME NEW t \in Tasks, NoWorker(t)
        PROVE  CountsInv'
    <2>1. Counters'
      BY <1>7 DEF NoWorker, Counters, stats
    <2>2. Tried'
      BY <1>0, <1>7 DEF NoWorker, Tried, TypeOK, goto
    <2>3. Answered' /\ ClientTruth'
      BY <1>0, <1>7 DEF NoWorker, Answered, ClientTruth, TypeOK, goto, Final
    <2>4. QED
      BY <2>1, <2>2, <2>3
  <1>8. ASSUME NEW t \in Tasks, AcquireAsync(t)
        PROVE  CountsInv'
    <2>1. Counters'
      BY <1>8 DEF AcquireAsync, Counters, stats
    <2>2. Tried'
      BY <1>0, <1>8 DEF AcquireAsync, Tried, TypeOK, goto
    <2>3. Answered' /\ ClientTruth'
      BY <1>0, <1>8 DEF AcquireAsync, Answered, ClientTruth, TypeOK, goto, Final
    <2>4. QED
      BY <2>1, <2>2, <2>3
  <1>9. ASSUME NEW t \in Tasks, AcquireSync(t)
        PROVE  CountsInv'
    <2>1. Counters'
      BY <1>9 DEF AcquireSync, Counters, stats
    <2>2. Tried'
      BY <1>0, <1>9 DEF AcquireSync, Tried, TypeOK, goto
    <2>3. Answered' /\ ClientTruth'
      BY <1>0, <1>9 DEF AcquireSync, Answered, ClientTruth, TypeOK, goto, Final
    <2>4. QED
      BY <2>1, <2>2, <2>3
  <1>10. ASSUME NEW t \in Tasks, Begin(t)
        PROVE  CountsInv'
    <2>1. Counters'
      BY <1>10 DEF Begin, Counters, stats
    <2>2. Tried'
      BY <1>0, <1>10 DEF Begin, Tried, TypeOK, goto
    <2>3. Answered' /\ ClientTruth'
      BY <1>0, <1>10 DEF Begin, Answered, ClientTruth, TypeOK, goto, Final
    <2>4. QED
      BY <2>1, <2>2, <2>3
  <1>11. ASSUME NEW t \in Tasks, HandlerFails(t)
        PROVE  CountsInv'
    <2>1. Counters'
      BY <1>11 DEF HandlerFails, Counters, stats
    <2>2. Tried'
      BY <1>0, <1>11 DEF HandlerFails, Tried, TypeOK, goto
    <2>3. Answered' /\ ClientTruth'
      BY <1>0, <1>11 DEF HandlerFails, Answered, ClientTruth, TypeOK, goto, Final
    <2>4. QED
      BY <2>1, <2>2, <2>3
  <1>12. ASSUME NEW t \in Tasks, Retry(t)
        PROVE  CountsInv'
    <2>1. Counters'
      BY <1>12 DEF Retry, Counters, stats
    <2>2. Tried'
      BY <1>0, <1>12 DEF Retry, Tried, TypeOK, goto
    <2>3. Answered' /\ ClientTruth'
      BY <1>0, <1>12 DEF Retry, Answered, ClientTruth, TypeOK, goto, Final
    <2>4. QED
      BY <2>1, <2>2, <2>3
  <1>13. ASSUME NEW t \in Tasks, Leave(t)
        PROVE  CountsInv'
    <2>1. Counters'
      BY <1>13 DEF Leave, Counters, stats
    <2>2. Tried'
      BY <1>0, <1>13 DEF Leave, Tried, TypeOK, goto
    <2>3. Answered' /\ ClientTruth'
      BY <1>0, <1>13 DEF Leave, Answered, ClientTruth, TypeOK, goto, Final
    <2>4. QED
      BY <2>1, <2>2, <2>3
  <1>14. ASSUME NEW t \in Tasks, Release(t)
        PROVE  CountsInv'
    <2>1. Counters'
      BY <1>14 DEF Release, Counters, stats
    <2>2. Tried'
      BY <1>0, <1>14 DEF Release, Tried, TypeOK, goto
    <2>3. Answered' /\ ClientTruth'
      BY <1>0, <1>14 DEF Release, Answered, ClientTruth, TypeOK, goto, Final
    <2>4. QED
      BY <2>1, <2>2, <2>3
  <1>15. ASSUME NEW t \in Tasks, HandlerSucceeds(t)
        PROVE  CountsInv'
    BY <1>0, <1>15, FinishCounts DEF HandlerSucceeds
  <1>16. ASSUME NEW t \in Tasks, LastAttemptFails(t)
        PROVE  CountsInv'
    BY <1>0, <1>16, FinishCounts DEF LastAttemptFails
  <1>17. ASSUME NEW t \in Tasks, BackoffCancelled(t)
        PROVE  CountsInv'
    BY <1>0, <1>17, FinishCounts DEF BackoffCancelled
  <1>18. ASSUME NEW t \in Tasks, Expire(t)
        PROVE  CountsInv'
    BY <1>18 DEF Expire, Counters, Tried, Answered, ClientTruth, stats
  <1>19. ASSUME NEW t \in Tasks, Respond(t)
        PROVE  CountsInv'
    <2>1. Counters' /\ Tried'
      BY <1>19 DEF Respond, Counters, Tried, stats
    <2>2. Answered' /\ ClientTruth'
      BY <1>0, <1>19 DEF Respond, answer, Answered, ClientTruth, TypeOK
    <2>3. QED
      BY <2>1, <2>2
  <1>20. ASSUME NEW t \in Tasks, CallFails(t)
        PROVE  CountsInv'
    <2>1. Counters' /\ Tried'
      BY <1>20 DEF CallFails, Counters, Tried, stats
    <2>2. Answered' /\ ClientTruth'
      BY <1>0, <1>20 DEF CallFails, Answered, ClientTruth, TypeOK
    <2>3. QED
      BY <2>1, <2>2
  <1>21. CASE GracefulStop
    BY <1>21 DEF GracefulStop, Counters, Tried, Answered, ClientTruth, stats
  <1>22. CASE Stop
    BY <1>22 DEF Stop, Counters, Tried, Answered, ClientTruth, stats
  <1>23. CASE LoopExits
    BY <1>23 DEF LoopExits, Counters, Tried, Answered, ClientTruth, stats
  <1>24. CASE StopReturns
    BY <1>24 DEF StopReturns, Counters, Tried, Answered, ClientTruth, stats
  <1>25. CASE UNCHANGED vars
    BY <1>25 DEF vars, Counters, Tried, Answered, ClientTruth, stats
  <1>26. QED
    BY <1>1, <1>2, <1>3, <1>4, <1>5, <1>6, <1>7, <1>8, <1>9, <1>10, <1>11, <1>12, <1>13, <1>14, <1>15, <1>16, <1>17, <1>18, <1>19, <1>20, <1>21, <1>22, <1>23, <1>24, <1>25
       DEF Next, Works, Acquires, Waits

\* No task has an outcome at the start.
LEMMA CountsInit == Init => CountsInv
  <1> SUFFICES ASSUME Init
               PROVE  CountsInv
    OBVIOUS
  <1>1. {t \in Tasks : outcome[t] = "ok"} = {} /\ {t \in Tasks : outcome[t] = "error"} = {}
    BY DEF Init
  <1>2. Counters
    BY <1>1, FS_EmptySet DEF Init, Counters
  <1>3. Tried /\ Answered /\ ClientTruth
    BY DEF Init, Tried, Answered, ClientTruth
  <1>4. QED
    BY <1>2, <1>3 DEF CountsInv

\* Processed and failed count the tasks that a handler ran for, each once and
\* no refused one, and what a client resolves with is what the engine did.
THEOREM CountsHonest == Spec => []HonestCounts
  <1>1. TypeOK /\ CountsInv => HonestCounts
    BY DEF TypeOK, CountsInv, Counters, Tried, HonestCounts, CountedOnce, At
  <1>2. WorkersInv => TypeOK
    BY DEF WorkersInv
  <1>3. Spec => []CountsInv
    BY CountsInit, CountsStep, WorkersInvariant, PTL DEF Spec
  <1>4. QED
    BY <1>1, <1>2, <1>3, WorkersInvariant, PTL

-----------------------------------------------------------------------------
(* Shutdown *)

\* A queued task that was taken out is in the loop's hands until it has a worker.
InHands ==
  \A t \in Async : pc[t] \in {"limit", "sem"} => loop = "dispatch" /\ t = picked

\* stopCh is closed after GracefulStop: no call is open and none comes.
NoCalls == stopped => draining /\ \A t \in Sync : pc[t] \in Final \cup {"idle"}

\* Stop has waited for the loop and for dispatch()'s goroutines.
NoWork == halted => stopped /\ loop = "exited" /\ At(Holding) \cap Async = {}

StopInv == InHands /\ NoCalls /\ NoWork

\* Every step keeps what Stop relies on.
LEMMA StopStep == WorkersInv /\ StopInv /\ [Next]_vars => StopInv'
  <1> SUFFICES ASSUME WorkersInv, StopInv, [Next]_vars
               PROVE  StopInv'
    OBVIOUS
  <1>0. TypeOK
    BY DEF WorkersInv
  <1> USE DEF StopInv
  <1>1. ASSUME NEW t \in Tasks, SubmitCheck(t)
        PROVE  StopInv'
    <2>1. InHands'
      BY <1>0, <1>1 DEF SubmitCheck, InHands, TypeOK, goto, Async, loopVars
    <2>2. NoCalls'
      BY <1>0, <1>1 DEF SubmitCheck, NoCalls, TypeOK, goto, Final, Async, loopVars
    <2>3. NoWork'
      BY <1>0, <1>1 DEF SubmitCheck, NoWork, InHands, NoCalls, TypeOK, goto, At, Holding, Async, Final, loopVars
    <2>4. QED
      BY <2>1, <2>2, <2>3
  <1>2. ASSUME NEW t \in Tasks, Enqueue(t)
        PROVE  StopInv'
    <2>1. InHands'
      BY <1>0, <1>2 DEF Enqueue, InHands, TypeOK, goto, Async, loopVars
    <2>2. NoCalls'
      BY <1>0, <1>2 DEF Enqueue, NoCalls, TypeOK, goto, Final, Async, loopVars
    <2>3. NoWork'
      BY <1>0, <1>2 DEF Enqueue, NoWork, InHands, NoCalls, TypeOK, goto, At, Holding, Async, Final, loopVars
    <2>4. QED
      BY <2>1, <2>2, <2>3
  <1>3. ASSUME NEW t \in Tasks, Dequeue(t)
        PROVE  StopInv'
    <2>1. InHands'
      BY <1>0, <1>3 DEF Dequeue, InHands, TypeOK, goto, Async, loopVars
    <2>2. NoCalls'
      BY <1>0, <1>3 DEF Dequeue, NoCalls, TypeOK, goto, Final, Async, loopVars
    <2>3. NoWork'
      BY <1>0, <1>3 DEF Dequeue, NoWork, InHands, NoCalls, TypeOK, goto, At, Holding, Async, Final, loopVars
    <2>4. QED
      BY <2>1, <2>2, <2>3
  <1>4. ASSUME NEW t \in Tasks, LimiterPasses(t)
        PROVE  StopInv'
    <2>1. InHands'
      BY <1>0, <1>4 DEF LimiterPasses, InHands, TypeOK, goto, Async, loopVars
    <2>2. NoCalls'
      BY <1>0, <1>4 DEF LimiterPasses, NoCalls, TypeOK, goto, Final, Async, loopVars
    <2>3. NoWork'
      BY <1>0, <1>4 DEF LimiterPasses, NoWork, InHands, NoCalls, TypeOK, goto, At, Holding, Async, Final, loopVars
    <2>4. QED
      BY <2>1, <2>2, <2>3
  <1>5. ASSUME NEW t \in Tasks, Call(t)
        PROVE  StopInv'
    <2>1. InHands'
      BY <1>0, <1>5 DEF Call, InHands, TypeOK, goto, Async, loopVars
    <2>2. NoCalls'
      BY <1>0, <1>5 DEF Call, NoCalls, TypeOK, goto, Final, Async, loopVars
    <2>3. NoWork'
      BY <1>0, <1>5 DEF Call, NoWork, InHands, NoCalls, TypeOK, goto, At, Holding, Async, Final, loopVars
    <2>4. QED
      BY <2>1, <2>2, <2>3
  <1>6. ASSUME NEW t \in Tasks, RateLimited(t)
        PROVE  StopInv'
    <2>1. InHands'
      BY <1>0, <1>6 DEF RateLimited, InHands, TypeOK, goto, Async, loopVars
    <2>2. NoCalls'
      BY <1>0, <1>6 DEF RateLimited, NoCalls, TypeOK, goto, Final, Async, loopVars
    <2>3. NoWork'
      BY <1>0, <1>6 DEF RateLimited, NoWork, InHands, NoCalls, TypeOK, goto, At, Holding, Async, Final, loopVars
    <2>4. QED
      BY <2>1, <2>2, <2>3
  <1>7. ASSUME NEW t \in Tasks, NoWorker(t)
        PROVE  StopInv'
    <2>1. InHands'
      BY <1>0, <1>7 DEF NoWorker, InHands, TypeOK, goto, Async, loopVars
    <2>2. NoCalls'
      BY <1>0, <1>7 DEF NoWorker, NoCalls, TypeOK, goto, Final, Async, loopVars
    <2>3. NoWork'
      BY <1>0, <1>7 DEF NoWorker, NoWork, InHands, NoCalls, TypeOK, goto, At, Holding, Async, Final, loopVars
    <2>4. QED
      BY <2>1, <2>2, <2>3
  <1>8. ASSUME NEW t \in Tasks, AcquireAsync(t)
        PROVE  StopInv'
    <2>1. InHands'
      BY <1>0, <1>8 DEF AcquireAsync, InHands, TypeOK, goto, Async, loopVars
    <2>2. NoCalls'
      BY <1>0, <1>8 DEF AcquireAsync, NoCalls, TypeOK, goto, Final, Async, loopVars
    <2>3. NoWork'
      BY <1>0, <1>8 DEF AcquireAsync, NoWork, InHands, NoCalls, TypeOK, goto, At, Holding, Async, Final, loopVars
    <2>4. QED
      BY <2>1, <2>2, <2>3
  <1>9. ASSUME NEW t \in Tasks, AcquireSync(t)
        PROVE  StopInv'
    <2>1. InHands'
      BY <1>0, <1>9 DEF AcquireSync, InHands, TypeOK, goto, Async, loopVars
    <2>2. NoCalls'
      BY <1>0, <1>9 DEF AcquireSync, NoCalls, TypeOK, goto, Final, Async, loopVars
    <2>3. NoWork'
      BY <1>0, <1>9 DEF AcquireSync, NoWork, InHands, NoCalls, TypeOK, goto, At, Holding, Async, Final, loopVars
    <2>4. QED
      BY <2>1, <2>2, <2>3
  <1>10. ASSUME NEW t \in Tasks, Begin(t)
        PROVE  StopInv'
    <2>1. InHands'
      BY <1>0, <1>10 DEF Begin, InHands, TypeOK, goto, Async, loopVars
    <2>2. NoCalls'
      BY <1>0, <1>10 DEF Begin, NoCalls, TypeOK, goto, Final, Async, loopVars
    <2>3. NoWork'
      BY <1>0, <1>10 DEF Begin, NoWork, InHands, NoCalls, TypeOK, goto, At, Holding, Async, Final, loopVars
    <2>4. QED
      BY <2>1, <2>2, <2>3
  <1>11. ASSUME NEW t \in Tasks, HandlerFails(t)
        PROVE  StopInv'
    <2>1. InHands'
      BY <1>0, <1>11 DEF HandlerFails, InHands, TypeOK, goto, Async, loopVars
    <2>2. NoCalls'
      BY <1>0, <1>11 DEF HandlerFails, NoCalls, TypeOK, goto, Final, Async, loopVars
    <2>3. NoWork'
      BY <1>0, <1>11 DEF HandlerFails, NoWork, InHands, NoCalls, TypeOK, goto, At, Holding, Async, Final, loopVars
    <2>4. QED
      BY <2>1, <2>2, <2>3
  <1>12. ASSUME NEW t \in Tasks, Retry(t)
        PROVE  StopInv'
    <2>1. InHands'
      BY <1>0, <1>12 DEF Retry, InHands, TypeOK, goto, Async, loopVars
    <2>2. NoCalls'
      BY <1>0, <1>12 DEF Retry, NoCalls, TypeOK, goto, Final, Async, loopVars
    <2>3. NoWork'
      BY <1>0, <1>12 DEF Retry, NoWork, InHands, NoCalls, TypeOK, goto, At, Holding, Async, Final, loopVars
    <2>4. QED
      BY <2>1, <2>2, <2>3
  <1>13. ASSUME NEW t \in Tasks, Leave(t)
        PROVE  StopInv'
    <2>1. InHands'
      BY <1>0, <1>13 DEF Leave, InHands, TypeOK, goto, Async, loopVars
    <2>2. NoCalls'
      BY <1>0, <1>13 DEF Leave, NoCalls, TypeOK, goto, Final, Async, loopVars
    <2>3. NoWork'
      BY <1>0, <1>13 DEF Leave, NoWork, InHands, NoCalls, TypeOK, goto, At, Holding, Async, Final, loopVars
    <2>4. QED
      BY <2>1, <2>2, <2>3
  <1>14. ASSUME NEW t \in Tasks, Release(t)
        PROVE  StopInv'
    <2>1. InHands'
      BY <1>0, <1>14 DEF Release, InHands, TypeOK, goto, Async, loopVars
    <2>2. NoCalls'
      BY <1>0, <1>14 DEF Release, NoCalls, TypeOK, goto, Final, Async, loopVars
    <2>3. NoWork'
      BY <1>0, <1>14 DEF Release, NoWork, InHands, NoCalls, TypeOK, goto, At, Holding, Async, Final, loopVars
    <2>4. QED
      BY <2>1, <2>2, <2>3
  <1>15. ASSUME NEW t \in Tasks, HandlerSucceeds(t)
        PROVE  StopInv'
    <2>1. InHands'
      BY <1>0, <1>15 DEF HandlerSucceeds, finish, InHands, TypeOK, goto, Async, loopVars
    <2>2. NoCalls'
      BY <1>0, <1>15 DEF HandlerSucceeds, finish, NoCalls, TypeOK, goto, Final, Async, loopVars
    <2>3. NoWork'
      BY <1>0, <1>15 DEF HandlerSucceeds, finish, NoWork, InHands, NoCalls, TypeOK, goto, At, Holding, Async, Final, loopVars
    <2>4. QED
      BY <2>1, <2>2, <2>3
  <1>16. ASSUME NEW t \in Tasks, LastAttemptFails(t)
        PROVE  StopInv'
    <2>1. InHands'
      BY <1>0, <1>16 DEF LastAttemptFails, finish, InHands, TypeOK, goto, Async, loopVars
    <2>2. NoCalls'
      BY <1>0, <1>16 DEF LastAttemptFails, finish, NoCalls, TypeOK, goto, Final, Async, loopVars
    <2>3. NoWork'
      BY <1>0, <1>16 DEF LastAttemptFails, finish, NoWork, InHands, NoCalls, TypeOK, goto, At, Holding, Async, Final, loopVars
    <2>4. QED
      BY <2>1, <2>2, <2>3
  <1>17. ASSUME NEW t \in Tasks, BackoffCancelled(t)
        PROVE  StopInv'
    <2>1. InHands'
      BY <1>0, <1>17 DEF BackoffCancelled, finish, InHands, TypeOK, goto, Async, loopVars
    <2>2. NoCalls'
      BY <1>0, <1>17 DEF BackoffCancelled, finish, NoCalls, TypeOK, goto, Final, Async, loopVars
    <2>3. NoWork'
      BY <1>0, <1>17 DEF BackoffCancelled, finish, NoWork, InHands, NoCalls, TypeOK, goto, At, Holding, Async, Final, loopVars
    <2>4. QED
      BY <2>1, <2>2, <2>3
  <1>18. ASSUME NEW t \in Tasks, Expire(t)
        PROVE  StopInv'
    <2>1. InHands'
      BY <1>0, <1>18 DEF Expire, InHands, TypeOK, goto, Async, loopVars
    <2>2. NoCalls'
      BY <1>0, <1>18 DEF Expire, NoCalls, TypeOK, goto, Final, Async, loopVars
    <2>3. NoWork'
      BY <1>0, <1>18 DEF Expire, NoWork, InHands, NoCalls, TypeOK, goto, At, Holding, Async, Final, loopVars
    <2>4. QED
      BY <2>1, <2>2, <2>3
  <1>19. ASSUME NEW t \in Tasks, Respond(t)
        PROVE  StopInv'
    <2>1. InHands'
      BY <1>0, <1>19 DEF Respond, InHands, TypeOK, goto, Async, loopVars
    <2>2. NoCalls'
      BY <1>0, <1>19 DEF Respond, NoCalls, TypeOK, goto, Final, Async, loopVars
    <2>3. NoWork'
      BY <1>0, <1>19 DEF Respond, NoWork, InHands, NoCalls, TypeOK, goto, At, Holding, Async, Final, loopVars
    <2>4. QED
      BY <2>1, <2>2, <2>3
  <1>20. ASSUME NEW t \in Tasks, CallFails(t)
        PROVE  StopInv'
    <2>1. InHands'
      BY <1>0, <1>20 DEF CallFails, InHands, TypeOK, goto, Async, loopVars
    <2>2. NoCalls'
      BY <1>0, <1>20 DEF CallFails, NoCalls, TypeOK, goto, Final, Async, loopVars
    <2>3. NoWork'
      BY <1>0, <1>20 DEF CallFails, NoWork, InHands, NoCalls, TypeOK, goto, At, Holding, Async, Final, loopVars
    <2>4. QED
      BY <2>1, <2>2, <2>3
  <1>21. CASE GracefulStop
    BY <1>0, <1>21 DEF GracefulStop, InHands, NoCalls, NoWork, TypeOK, At, allDone
  <1>22. CASE Stop
    BY <1>0, <1>22 DEF Stop, InHands, NoCalls, NoWork, TypeOK, At, allDone
  <1>23. CASE LoopExits
    BY <1>0, <1>23 DEF LoopExits, InHands, NoCalls, NoWork, TypeOK, At, allDone
  <1>24. CASE StopReturns
    BY <1>0, <1>24 DEF StopReturns, InHands, NoCalls, NoWork, TypeOK, At, allDone
  <1>25. CASE UNCHANGED vars
    BY <1>25 DEF vars, loopVars, InHands, NoCalls, NoWork, At
  <1>26. QED
    BY <1>1, <1>2, <1>3, <1>4, <1>5, <1>6, <1>7, <1>8, <1>9, <1>10, <1>11, <1>12, <1>13, <1>14, <1>15, <1>16, <1>17, <1>18, <1>19, <1>20, <1>21, <1>22, <1>23, <1>24, <1>25
       DEF Next, Works, Acquires, Waits

\* When Stop has returned no worker is taken and the gauge shows none, for ever:
\* no accepted task and no late call can start.
THEOREM StopIsQuiet == Spec => []QuietAfterStop
  <1>1. Init => StopInv
    BY DEF Init, StopInv, InHands, NoCalls, NoWork, Async
  <1>2. Spec => []StopInv
    BY <1>1, StopStep, WorkersInvariant, PTL DEF Spec
  <1>3. WorkersInv /\ StopInv => QuietAfterStop
    <2> SUFFICES ASSUME WorkersInv, StopInv, halted
                 PROVE  slots = 0 /\ active = 0 /\ At(Holding) = {}
      BY DEF QuietAfterStop
    <2>1. At(Holding) = {}
      BY DEF StopInv, NoCalls, NoWork, At, Holding, Final, Async
    <2>2. At(Busy) = {}
      BY <2>1 DEF At, Busy, Holding
    <2>3. QED
      BY <2>1, <2>2, FS_EmptySet DEF WorkersInv, SlotsExact, GaugeExact
  <1>4. QED
    BY <1>2, <1>3, WorkersInvariant, PTL

-----------------------------------------------------------------------------
(* The queue *)

\* Moving a task between places other than "checked" leaves both bounds' sets.
LEMMA QuietQueue ==
  ASSUME QueueDiscipline, NEW t \in Tasks, NEW p, TypeOK, goto(t, p),
         pc[t] # "checked", p # "checked", UNCHANGED <<queue, since, racers>>,
         loop' = "dispatch" => loop = "dispatch" /\ picked' = picked
  PROVE  QueueDiscipline'
  <1>1. At({"checked"})' = At({"checked"})
    BY DEF At, goto, TypeOK
  <1>2. QueueOvershoot'
    BY <1>1 DEF QueueDiscipline, QueueOvershoot
  <1>3. HeadOfLine'
    BY DEF QueueDiscipline, HeadOfLine
  <1>4. QED
    BY <1>2, <1>3 DEF QueueDiscipline

\* Every step keeps the bound on the queue and the order of the heap.
LEMMA QueueStep == WorkersInv /\ QueueDiscipline /\ [Next]_vars => QueueDiscipline'
  <1> SUFFICES ASSUME WorkersInv, QueueDiscipline, [Next]_vars
               PROVE  QueueDiscipline'
    OBVIOUS
  <1>0. TypeOK
    BY DEF WorkersInv
  <1>q. queue \in SUBSET Tasks /\ IsFiniteSet(queue) /\ Cardinality(queue) \in Nat
    BY <1>0, TasksFinite DEF TypeOK, Async
  <1>1. ASSUME NEW t \in Tasks, SubmitCheck(t)
        PROVE  QueueDiscipline'
    <2> DEFINE n == Cardinality(At({"checked"}))
    <2>1. CASE queueFull
      <3>1. goto(t, "refused") /\ racers' = racers
        BY <1>1, <2>1 DEF SubmitCheck
      <3>2. QED
        BY <1>0, <1>1, <3>1, QuietQueue DEF SubmitCheck, loopVars
    <2>2. CASE ~queueFull
      <3>1. goto(t, "checked") /\ queue' = queue /\ n \in Nat
            /\ racers' = IF n + 1 > racers THEN n + 1 ELSE racers
        BY <1>1, <2>2, TasksFinite DEF SubmitCheck, At
      <3>2. Cardinality(At({"checked"})') = n + 1
        BY <1>0, <1>1, <3>1, MoveCounts DEF SubmitCheck, Places
      <3>3. Cardinality(queue) <= MaxQueue - 1
        BY <1>q, <2>2, PoolAssumption DEF queueFull
      <3>4. racers' \in Nat /\ racers' >= n + 1
        BY <1>0, <3>1 DEF TypeOK
      <3>5. QueueOvershoot'
        BY <1>q, <3>1, <3>2, <3>3, <3>4, PoolAssumption DEF QueueOvershoot
      <3>6. HeadOfLine'
        BY <1>1 DEF SubmitCheck, loopVars, QueueDiscipline, HeadOfLine
      <3>7. QED
        BY <3>5, <3>6 DEF QueueDiscipline
    <2>3. QED
      BY <2>1, <2>2
  <1>2. ASSUME NEW t \in Tasks, Enqueue(t)
        PROVE  QueueDiscipline'
    <2> DEFINE n == Cardinality(At({"checked"}))
    <2>1. t \notin queue
      BY <1>2 DEF Enqueue, WorkersInv, WaitingPlaces, At
    <2>2. Cardinality(queue') = Cardinality(queue) + 1
      BY <1>2, <1>q, <2>1, FS_AddElement DEF Enqueue
    <2>3. n \in Nat /\ Cardinality(At({"checked"})') = n - 1
      BY <1>0, <1>2, MoveCounts DEF Enqueue, Places
    <2>4. QueueOvershoot'
      BY <1>0, <1>2, <1>q, <2>2, <2>3, PoolAssumption DEF Enqueue, TypeOK, QueueDiscipline, QueueOvershoot
    <2>5. HeadOfLine'
      BY <1>2 DEF Enqueue, loopVars, QueueDiscipline, HeadOfLine
    <2>6. QED
      BY <2>4, <2>5 DEF QueueDiscipline
  <1>3. ASSUME NEW t \in Tasks, Dequeue(t)
        PROVE  QueueDiscipline'
    <2> DEFINE n == Cardinality(At({"checked"}))
    <2>1. pc[t] = "queued" /\ t \in queue
      BY <1>3 DEF Dequeue, WorkersInv, WaitingPlaces, At
    <2>2. Cardinality(queue') = Cardinality(queue) - 1
      BY <1>3, <1>q, <2>1, FS_RemoveElement DEF Dequeue
    <2>3. n \in Nat /\ Cardinality(At({"checked"})') = n
      BY <1>0, <1>3, <2>1, MoveCounts DEF Dequeue, Places
    <2>4. QueueOvershoot'
      BY <1>0, <1>3, <1>q, <2>2, <2>3, PoolAssumption DEF Dequeue, TypeOK, QueueDiscipline, QueueOvershoot
    <2>5. HeadOfLine'
      <3>1. \A u \in queue : Priority[u] <= Priority[t]
        BY <1>3 DEF Dequeue, isNext
      <3>2. \A u \in queue : Priority[u] \in Int /\ Priority[t] \in Int
        BY <1>q, PoolAssumption
      <3>3. \A u \in queue' : ~(Priority[u] > Priority[picked'])
        BY <1>3, <3>1, <3>2 DEF Dequeue
      <3>4. QED
        BY <3>3 DEF HeadOfLine
    <2>6. QED
      BY <2>4, <2>5 DEF QueueDiscipline
  <1>4. ASSUME NEW t \in Tasks, LimiterPasses(t)
        PROVE  QueueDiscipline'
    BY <1>0, <1>4, QuietQueue DEF LimiterPasses, loopVars
  <1>5. ASSUME NEW t \in Tasks, Call(t)
        PROVE  QueueDiscipline'
    BY <1>0, <1>5, QuietQueue DEF Call, loopVars
  <1>6. ASSUME NEW t \in Tasks, RateLimited(t)
        PROVE  QueueDiscipline'
    BY <1>0, <1>6, QuietQueue DEF RateLimited, loopVars
  <1>7. ASSUME NEW t \in Tasks, NoWorker(t)
        PROVE  QueueDiscipline'
    BY <1>0, <1>7, QuietQueue DEF NoWorker, loopVars
  <1>8. ASSUME NEW t \in Tasks, AcquireAsync(t)
        PROVE  QueueDiscipline'
    BY <1>0, <1>8, QuietQueue DEF AcquireAsync, loopVars
  <1>9. ASSUME NEW t \in Tasks, AcquireSync(t)
        PROVE  QueueDiscipline'
    BY <1>0, <1>9, QuietQueue DEF AcquireSync, loopVars
  <1>10. ASSUME NEW t \in Tasks, Begin(t)
        PROVE  QueueDiscipline'
    BY <1>0, <1>10, QuietQueue DEF Begin, loopVars
  <1>11. ASSUME NEW t \in Tasks, HandlerFails(t)
        PROVE  QueueDiscipline'
    BY <1>0, <1>11, QuietQueue DEF HandlerFails, loopVars
  <1>12. ASSUME NEW t \in Tasks, Retry(t)
        PROVE  QueueDiscipline'
    BY <1>0, <1>12, QuietQueue DEF Retry, loopVars
  <1>13. ASSUME NEW t \in Tasks, Leave(t)
        PROVE  QueueDiscipline'
    BY <1>0, <1>13, QuietQueue DEF Leave, loopVars
  <1>14. ASSUME NEW t \in Tasks, Release(t)
        PROVE  QueueDiscipline'
    BY <1>0, <1>14, QuietQueue DEF Release, loopVars
  <1>15. ASSUME NEW t \in Tasks, HandlerSucceeds(t)
        PROVE  QueueDiscipline'
    BY <1>0, <1>15, QuietQueue DEF HandlerSucceeds, finish, loopVars
  <1>16. ASSUME NEW t \in Tasks, LastAttemptFails(t)
        PROVE  QueueDiscipline'
    BY <1>0, <1>16, QuietQueue DEF LastAttemptFails, finish, loopVars
  <1>17. ASSUME NEW t \in Tasks, BackoffCancelled(t)
        PROVE  QueueDiscipline'
    BY <1>0, <1>17, QuietQueue DEF BackoffCancelled, finish, loopVars
  <1>18. ASSUME NEW t \in Tasks, Expire(t)
        PROVE  QueueDiscipline'
    BY <1>18 DEF Expire, loopVars, QueueDiscipline, QueueOvershoot, HeadOfLine, At
  <1>19. ASSUME NEW t \in Tasks, Respond(t)
        PROVE  QueueDiscipline'
    BY <1>19 DEF Respond, loopVars, QueueDiscipline, QueueOvershoot, HeadOfLine, At
  <1>20. ASSUME NEW t \in Tasks, CallFails(t)
        PROVE  QueueDiscipline'
    BY <1>20 DEF CallFails, loopVars, QueueDiscipline, QueueOvershoot, HeadOfLine, At
  <1>21. CASE GracefulStop
    BY <1>21 DEF GracefulStop, QueueDiscipline, QueueOvershoot, HeadOfLine, At
  <1>22. CASE Stop
    BY <1>22 DEF Stop, QueueDiscipline, QueueOvershoot, HeadOfLine, At
  <1>23. CASE LoopExits
    BY <1>23 DEF LoopExits, QueueDiscipline, QueueOvershoot, HeadOfLine, At
  <1>24. CASE StopReturns
    BY <1>24 DEF StopReturns, QueueDiscipline, QueueOvershoot, HeadOfLine, At
  <1>25. CASE UNCHANGED vars
    BY <1>25 DEF vars, loopVars, QueueDiscipline, QueueOvershoot, HeadOfLine, At
  <1>26. QED
    BY <1>1, <1>2, <1>3, <1>4, <1>5, <1>6, <1>7, <1>8, <1>9, <1>10, <1>11, <1>12, <1>13, <1>14, <1>15, <1>16, <1>17, <1>18, <1>19, <1>20, <1>21, <1>22, <1>23, <1>24, <1>25
       DEF Next, Works, Acquires, Waits

\* The queue outgrows MaxQueue by no more than the submitters that raced between
\* the check and the Enqueue, less one, and the task in the loop's hands is only
\* ever overtaken in priority by tasks that came after it was taken out.
THEOREM QueueDisciplined == Spec => []QueueDiscipline
  <1>1. Init => QueueDiscipline
    <2> SUFFICES ASSUME Init
                 PROVE  QueueDiscipline
      OBVIOUS
    <2>1. At({"checked"}) = {} /\ queue = {}
      BY DEF Init, At
    <2>2. QueueOvershoot
      <3>1. Cardinality(queue) = 0 /\ Cardinality(At({"checked"})) = 0
        BY <2>1, FS_EmptySet
      <3>2. racers = 0 /\ MaxQueue \in Nat \ {0}
        BY PoolAssumption DEF Init
      <3>3. QED
        BY <3>1, <3>2 DEF QueueOvershoot
    <2>3. HeadOfLine
      BY <2>1 DEF HeadOfLine
    <2>4. QED
      BY <2>2, <2>3 DEF QueueDiscipline
  <1>2. QED
    BY <1>1, QueueStep, WorkersInvariant, PTL DEF Spec

=============================================================================
