----------------------------- MODULE WorkerPool ------------------------------
(***************************************************************************)
(* The pool of worker threads: WorkerPoolService, WorkerTaskRouterService,  *)
(* WorkerHealthService, worker.js, and the part of QueueProcessorService    *)
(* that calls them and is called back.                                      *)
(*                                                                         *)
(* The main thread runs one callback at a time.  A callback that ends in    *)
(* processWorkerTasks walks over the workers; cursor is the worker the walk  *)
(* has come to (0: the main thread is between callbacks) and failing the     *)
(* worker whose handleWorkerFailure is suspended in that walk (0: none).     *)
(* The threads run in parallel and talk to the main thread through two FIFO  *)
(* mailboxes each.  A message carries no task identity in the code; here a   *)
(* result carries the task it was computed for, which only properties read.  *)
(*                                                                         *)
(* Ids are given to tasks in the order addTask receives them, so the array   *)
(* workerTaskQueue is the set of its ids.                                    *)
(***************************************************************************)
EXTENDS Integers, Sequences, FiniteSets

CONSTANTS
  WorkerCount,     \* WORKER_POOL_SIZE
  Types,           \* the dispatchable workload types
  Limit,           \* WORKER_MAX_<type>_CONCURRENCY, clamped to the pool size
  ConcurrentTasks, \* QUEUE_CONCURRENT_TASKS: tasks one processQueue hands over
  ColdStart,       \* TRUE: tasks may come before the threads have booted
  MaxTasks,        \* bound: tasks submitted in one behaviour
  MaxFailures,     \* bound: crashed threads and pings of live threads expired
  MaxHangs,        \* bound: tasks that never return
  MaxPostFailures  \* bound: postMessage calls that throw

Workers == 1..WorkerCount

ASSUME PoolAssumption ==
  /\ WorkerCount \in Nat \ {0}
  /\ Limit \in [Types -> Workers]
  /\ ConcurrentTasks \in Nat \ {0}
  /\ ColdStart \in BOOLEAN
  /\ MaxTasks \in Nat
  /\ MaxFailures \in Nat
  /\ MaxHangs \in Nat
  /\ MaxPostFailures \in Nat

VARIABLES
  type,              \* workload types of the tasks submitted so far, by id
  workerTaskQueue,
  workerBusy,
  assignedTasks,     \* task of a worker, NoTask when the Map has no entry
  activeByType,
  pinging,           \* workers with an entry in pingTimeoutMap
  activeRequests,    \* slots of QueueStateHolder held by pool tasks
  resolved, rejected,
  cursor, failing,   \* where the main thread is
  thread,            \* life of the Worker object now in workerPool
  inbox, outbox,     \* messages to and from that thread
  failures, hangs, postFailures   \* how often the environment misbehaved

poolVars   == <<workerTaskQueue, workerBusy, assignedTasks, activeByType>>
slotVars   == <<activeRequests, resolved, rejected>>
threadVars == <<thread, inbox, outbox>>
faultVars  == <<failures, hangs, postFailures>>
vars == <<type, poolVars, pinging, slotVars, cursor, failing, threadVars,
          faultVars>>

NoTask   == 0
Ping     == 0
Tasks    == 1..Len(type)
Settled  == resolved \cup rejected
MainIdle == cursor = 0
ThreadGone(i) == thread[i] \in {"hung", "dead"}

AtLeast0(n) == IF n >= 0 THEN n ELSE 0

Initialized   == [msg |-> "initialized", task |-> NoTask, ok |-> TRUE]
Pong          == [msg |-> "healthCheck", task |-> NoTask, ok |-> TRUE]
Result(t, ok) == [msg |-> "result", task |-> t, ok |-> ok]

-----------------------------------------------------------------------------
(* processWorkerTasks and dequeueDispatchableTask *)

\* Mutant: the limit is checked after the increment.
OverLimitByOne(ty) == activeByType[ty] <= Limit[ty]

canDispatchType(ty) == activeByType[ty] < Limit[ty]

\* Mutant: only the head of the queue is looked at.
HeadOfQueueOnly ==
  {t \in workerTaskQueue : /\ canDispatchType(type[t])
                           /\ \A u \in workerTaskQueue : t <= u}

\* The queue is searched for tasks whose type has capacity left.  (One of an
\* unknown type would be dropped, but the processor hands over none.)
Dispatchable == {t \in workerTaskQueue : canDispatchType(type[t])}

\* Mutant: a task is given out and left in the queue.
QueueUnspliced(t) == workerTaskQueue

\* workerTaskQueue.splice of the task that is given out.
queueWithout(t) == workerTaskQueue \ {t}

\* Mutant: the walk does not look at workerBusy.
AnyWorker(i) == TRUE

isIdle(i) == ~workerBusy[i]

\* Mutant: only a successful task gives its slot back.
KeepSlotOnFailure(ok) == IF ok THEN AtLeast0(activeRequests - 1)
                         ELSE activeRequests

\* decrementActiveRequests in onSuccess, onFailed and onWorkerTaskDispatchFailed.
slotsAfter(ok) == AtLeast0(activeRequests - 1)

\* postMessage to a thread that has ended is silently dropped.
postMessage(i, m) ==
  inbox' = IF thread[i] = "dead" THEN inbox
           ELSE [inbox EXCEPT ![i] = Append(@, m)]

\* The calls of addTask in one processQueue, which then walks over the workers.
SubmitTasks(tys) ==
  /\ MainIdle
  /\ Len(type) + Len(tys) <= MaxTasks
  /\ type' = type \o tys
  /\ workerTaskQueue' = workerTaskQueue \cup ((Len(type) + 1)..(Len(type) + Len(tys)))
  /\ activeRequests' = activeRequests + Len(tys)
  /\ cursor' = 1
  /\ UNCHANGED <<workerBusy, assignedTasks, activeByType, pinging, resolved,
                 rejected, failing, threadVars, faultVars>>

\* The walk passes a busy worker, or finds no dispatchable task.
SkipWorker ==
  /\ cursor \in Workers
  /\ ~isIdle(cursor) \/ Dispatchable = {}
  /\ cursor' = cursor + 1
  /\ UNCHANGED <<type, poolVars, pinging, slotVars, failing, threadVars,
                 faultVars>>

PostTask ==
  /\ cursor \in Workers
  /\ isIdle(cursor)
  /\ \E t \in Dispatchable :
       /\ \A u \in Dispatchable : t <= u
       /\ workerTaskQueue' = queueWithout(t)
       /\ postMessage(cursor, t)
       /\ workerBusy' = [workerBusy EXCEPT ![cursor] = TRUE]
       /\ activeByType' = [activeByType EXCEPT ![type[t]] = @ + 1]
       /\ assignedTasks' = [assignedTasks EXCEPT ![cursor] = t]
  /\ cursor' = cursor + 1
  /\ UNCHANGED <<type, pinging, slotVars, failing, thread, outbox, faultVars>>

\* postMessage throws (parameters that cannot be cloned).
PostFails ==
  /\ cursor \in Workers
  /\ isIdle(cursor)
  /\ \E t \in Dispatchable :
       /\ \A u \in Dispatchable : t <= u
       /\ workerTaskQueue' = queueWithout(t)
       /\ rejected' = rejected \cup {t}
  /\ postFailures < MaxPostFailures
  /\ postFailures' = postFailures + 1
  /\ activeRequests' = slotsAfter(FALSE)
  /\ assignedTasks' = [assignedTasks EXCEPT ![cursor] = NoTask]
  /\ cursor' = cursor + 1
  /\ UNCHANGED <<type, workerBusy, activeByType, pinging, resolved, failing,
                 threadVars, failures, hangs>>

-----------------------------------------------------------------------------
(* handleWorkerResult, handleWorkerFailure, createOrReplaceWorker *)

\* Mutant: a failed task keeps its place in activeByType.
KeepTypeOnFailure(ty, ok) == IF ok THEN AtLeast0(activeByType[ty] - 1)
                             ELSE activeByType[ty]

\* decrementActiveByType for a task that ended well or not.
typeCountAfter(ty, ok) == AtLeast0(activeByType[ty] - 1)

\* Both handleWorkerResult methods, up to the final processWorkerTasks.
handleWorkerResult(i, ok) ==
  LET t == assignedTasks[i] IN
  /\ assignedTasks' = [assignedTasks EXCEPT ![i] = NoTask]
  /\ workerBusy' = [workerBusy EXCEPT ![i] = FALSE]
  /\ \/ /\ t = NoTask
        /\ UNCHANGED <<activeByType, slotVars>>
     \/ /\ t # NoTask
        /\ activeByType' =
             [activeByType EXCEPT ![type[t]] = typeCountAfter(type[t], ok)]
        /\ resolved' = IF ok THEN resolved \cup {t} ELSE resolved
        /\ rejected' = IF ok THEN rejected ELSE rejected \cup {t}
        /\ activeRequests' = slotsAfter(ok)
  /\ UNCHANGED workerTaskQueue

\* A new Worker takes the place of the old one, whose listeners are removed.
replaceThread(i) ==
  /\ thread' = [thread EXCEPT ![i] = "booting"]
  /\ inbox' = [inbox EXCEPT ![i] = << >>]
  /\ outbox' = [outbox EXCEPT ![i] = << >>]

\* The walk is over; a suspended handleWorkerFailure goes on.
EndWalk ==
  /\ cursor > WorkerCount
  /\ cursor' = 0
  /\ failing' = 0
  /\ \/ failing = 0 /\ UNCHANGED <<workerBusy, threadVars>>
     \/ /\ failing # 0
        /\ workerBusy' = [workerBusy EXCEPT ![failing] = FALSE]
        /\ replaceThread(failing)
  /\ UNCHANGED <<type, workerTaskQueue, assignedTasks, activeByType, pinging,
                 slotVars, faultVars>>

\* The 'message' listener of a worker.
DeliverMessage(i) ==
  /\ MainIdle
  /\ outbox[i] # << >>
  /\ outbox' = [outbox EXCEPT ![i] = Tail(@)]
  /\ LET m == Head(outbox[i]) IN
     \/ /\ m = Initialized
        /\ workerBusy' = [workerBusy EXCEPT ![i] = FALSE]
        /\ UNCHANGED <<workerTaskQueue, assignedTasks, activeByType, pinging,
                       slotVars, cursor>>
     \/ /\ m = Pong
        /\ pinging' = pinging \ {i}
        /\ UNCHANGED <<poolVars, slotVars, cursor>>
     \/ /\ m.msg = "result"
        /\ pinging' = pinging \ {i}
        /\ handleWorkerResult(i, m.ok)
        /\ cursor' = 1
  /\ UNCHANGED <<type, failing, thread, inbox, faultVars>>

\* With a task assigned, onResult runs (and walks) before the replacement.
handleWorkerFailure(i) ==
  /\ pinging' = pinging \ {i}
  /\ \/ /\ assignedTasks[i] # NoTask
        /\ handleWorkerResult(i, FALSE)
        /\ cursor' = 1
        /\ failing' = i
        /\ UNCHANGED threadVars
     \/ /\ assignedTasks[i] = NoTask
        /\ workerBusy' = [workerBusy EXCEPT ![i] = FALSE]
        /\ replaceThread(i)
        /\ UNCHANGED <<workerTaskQueue, assignedTasks, activeByType, slotVars,
                       cursor, failing>>
  /\ UNCHANGED <<type, hangs, postFailures>>

\* The 'error' or 'exit' (code # 0) listener of a worker.
WorkerFailed(i) ==
  /\ MainIdle
  /\ thread[i] = "dead"
  /\ handleWorkerFailure(i)
  /\ UNCHANGED failures

-----------------------------------------------------------------------------
(* WorkerHealthService *)

\* The health check interval: every idle worker without an open ping.
HealthCheck ==
  LET P == {i \in Workers : ~workerBusy[i] /\ i \notin pinging} IN
  /\ MainIdle
  /\ P # {}
  /\ pinging' = pinging \cup P
  /\ inbox' = [i \in Workers |->
       IF i \in P /\ thread[i] # "dead" THEN Append(inbox[i], Ping) ELSE inbox[i]]
  /\ UNCHANGED <<type, poolVars, slotVars, cursor, failing, thread, outbox,
                 faultVars>>

\* Two seconds without an answer: the thread is dead, hung, still booting, or
\* its answer has not been read yet.
PingTimeout(i) ==
  /\ MainIdle
  /\ i \in pinging
  /\ \/ ThreadGone(i) /\ UNCHANGED failures
     \/ /\ ~ThreadGone(i)
        /\ failures < MaxFailures
        /\ failures' = failures + 1
  /\ handleWorkerFailure(i)

-----------------------------------------------------------------------------
(* worker.js *)

Boot(i) ==
  /\ thread[i] = "booting"
  /\ thread' = [thread EXCEPT ![i] = "up"]
  /\ outbox' = [outbox EXCEPT ![i] = Append(@, Initialized)]
  /\ UNCHANGED <<type, poolVars, pinging, slotVars, cursor, failing, inbox,
                 faultVars>>

\* The thread answers the first message of its inbox.
Work(i) ==
  /\ thread[i] = "up"
  /\ inbox[i] # << >>
  /\ inbox' = [inbox EXCEPT ![i] = Tail(@)]
  /\ \/ /\ Head(inbox[i]) = Ping
        /\ outbox' = [outbox EXCEPT ![i] = Append(@, Pong)]
     \/ /\ Head(inbox[i]) # Ping
        /\ \E ok \in BOOLEAN :
             outbox' = [outbox EXCEPT ![i] = Append(@, Result(Head(inbox[i]), ok))]
  /\ UNCHANGED <<type, poolVars, pinging, slotVars, cursor, failing, thread,
                 faultVars>>

\* The thread ends with an error, out of memory for example.
Crash(i) ==
  /\ thread[i] \in {"booting", "up", "hung"}
  /\ failures < MaxFailures
  /\ failures' = failures + 1
  /\ thread' = [thread EXCEPT ![i] = "dead"]
  /\ inbox' = [inbox EXCEPT ![i] = << >>]
  /\ UNCHANGED <<type, poolVars, pinging, slotVars, cursor, failing, outbox,
                 hangs, postFailures>>

\* A task that never returns: withTimeout of worker.js runs on the same thread.
Hang(i) ==
  /\ thread[i] = "up"
  /\ inbox[i] # << >>
  /\ Head(inbox[i]) # Ping
  /\ hangs < MaxHangs
  /\ hangs' = hangs + 1
  /\ thread' = [thread EXCEPT ![i] = "hung"]
  /\ UNCHANGED <<type, poolVars, pinging, slotVars, cursor, failing, inbox,
                 outbox, failures, postFailures>>

-----------------------------------------------------------------------------

Init ==
  /\ type = << >>
  /\ workerTaskQueue = {}
  /\ workerBusy = [i \in Workers |-> FALSE]
  /\ assignedTasks = [i \in Workers |-> NoTask]
  /\ activeByType = [ty \in Types |-> 0]
  /\ pinging = {}
  /\ activeRequests = 0
  /\ resolved = {} /\ rejected = {}
  /\ cursor = 0 /\ failing = 0
  /\ thread = [i \in Workers |-> IF ColdStart THEN "booting" ELSE "up"]
  /\ inbox = [i \in Workers |-> << >>]
  /\ outbox = [i \in Workers |-> << >>]
  /\ failures = 0 /\ hangs = 0 /\ postFailures = 0

MainThread ==
  \/ SkipWorker \/ PostTask \/ PostFails \/ EndWalk
  \/ \E i \in Workers : DeliverMessage(i) \/ WorkerFailed(i)

Next ==
  \/ \E n \in 1..ConcurrentTasks : \E tys \in [1..n -> Types] : SubmitTasks(tys)
  \/ MainThread
  \/ HealthCheck
  \/ \E i \in Workers : \/ PingTimeout(i) \/ Boot(i) \/ Work(i)
                        \/ Crash(i) \/ Hang(i)

Spec == Init /\ [][Next]_vars

-----------------------------------------------------------------------------
(* Safety that holds whatever the threads do *)

\* Every variable keeps its type.
TypeOK ==
  /\ type \in Seq(Types)
  /\ workerTaskQueue \subseteq Tasks
  /\ workerBusy \in [Workers -> BOOLEAN]
  /\ assignedTasks \in [Workers -> Tasks \cup {NoTask}]
  /\ activeByType \in [Types -> Nat]
  /\ pinging \subseteq Workers
  /\ activeRequests \in Nat
  /\ resolved \subseteq Tasks
  /\ rejected \subseteq Tasks
  /\ cursor \in 0..WorkerCount + 1
  /\ failing \in 0..WorkerCount
  /\ thread \in [Workers -> {"booting", "up", "hung", "dead"}]
  /\ inbox \in [Workers -> Seq(Tasks \cup {Ping})]
  /\ outbox \in [Workers -> Seq([msg : {"initialized", "healthCheck", "result"},
                                 task : Tasks \cup {NoTask}, ok : BOOLEAN])]
  /\ failures \in 0..MaxFailures
  /\ hangs \in 0..MaxHangs
  /\ postFailures \in 0..MaxPostFailures

Assigned == {assignedTasks[i] : i \in Workers} \ {NoTask}

\* A task is settled at most once and never after it was queued or assigned
\* again: late results, crashes and ping timeouts cannot answer it twice.
SettledOnce ==
  /\ resolved \cap rejected = {}
  /\ Settled \cap (workerTaskQueue \cup Assigned) = {}
  /\ workerTaskQueue \cap Assigned = {}
  /\ \A i, j \in Workers :
       assignedTasks[i] = assignedTasks[j] /\ assignedTasks[i] # NoTask => i = j

\* Each unanswered task holds exactly one slot of the queue, each answered
\* one none: a callback is made once for every settled task.
SlotPerOpenTask == activeRequests = Cardinality(Tasks \ Settled)

-----------------------------------------------------------------------------
(* Safety of a pool whose threads have booted and stay up *)

\* README, request flow 6: every task is answered, so none may drop out of the
\* pool's books before it is settled.
NoTaskLost == Tasks = workerTaskQueue \cup Assigned \cup Settled

\* The messages in a worker's two mailboxes about tasks are one message, about
\* the task assigned to it: a result settles the task it was computed for.
ResultMatchesTask ==
  \A i \in Workers :
    LET sent == {k \in DOMAIN inbox[i] : inbox[i][k] # Ping}
        back == {k \in DOMAIN outbox[i] : outbox[i][k].msg = "result"}
    IN  /\ \A k, n \in sent : k = n
        /\ \A k, n \in back : k = n
        /\ sent = {} \/ back = {}
        /\ \A k \in sent : inbox[i][k] = assignedTasks[i]
        /\ \A k \in back : outbox[i][k].task = assignedTasks[i]

\* activeByType counts the assigned tasks of each type: no type's capacity
\* shrinks for good.
ActiveByTypeExact ==
  \A ty \in Types :
    activeByType[ty]
      = Cardinality({i \in Workers : /\ assignedTasks[i] # NoTask
                                     /\ type[assignedTasks[i]] = ty})

\* README, worker rules: no more threads have a task of one type to run than
\* its limit says.  The code compares a counter, which it lowers when a result
\* comes in; the threads know nothing of it.
RunningWithinLimit ==
  \A ty \in Types :
    Cardinality({i \in Workers : \E k \in DOMAIN inbox[i] :
                   inbox[i][k] # Ping /\ type[inbox[i][k]] = ty}) <= Limit[ty]

\* Between callbacks no idle worker faces a task it could take: nothing else
\* would wake the pool up.
NoIdleWorkerWithWork ==
  (MainIdle /\ \E t \in workerTaskQueue : canDispatchType(type[t]))
    => \A i \in Workers : workerBusy[i]

-----------------------------------------------------------------------------
(* Liveness *)

\* The main thread runs its callbacks, threads that are not hung go on, the
\* health check interval and the ping timers of threads that are gone fire.
Fairness ==
  /\ WF_vars(SkipWorker \/ PostTask \/ EndWalk)
  /\ WF_vars(HealthCheck)
  /\ \A i \in Workers :
       /\ WF_vars(DeliverMessage(i))
       /\ WF_vars(WorkerFailed(i))
       /\ WF_vars(Boot(i))
       /\ WF_vars(Work(i))
       /\ WF_vars(ThreadGone(i) /\ PingTimeout(i))

FairSpec == Spec /\ Fairness

\* Every task handed to the pool is answered.
PoolEventuallySettles ==
  \A t \in 1..MaxTasks : (t \in Tasks) ~> (t \in Settled)

\* One slot per open task, in every typed state that faults can lead to.
SlotsHeld == TypeOK /\ SlotPerOpenTask

\* The pool's books while threads stay up: no task is lost, every result meets
\* its own task, and activeByType counts what is running.
AssignmentsExact == NoTaskLost /\ ResultMatchesTask /\ ActiveByTypeExact
=============================================================================
