----------------------------- MODULE RequestPath ------------------------------
(***************************************************************************)
(* The way of an HTTP request: QueueMiddleware, QueueRequestAnalyzer,       *)
(* RequestStateStore and AllExceptionsFilter (src/src/queue/middleware,     *)
(* src/src/filters).  The queue behind the middleware is seen through       *)
(* TaskLifecycle, which QueueCore implements.                               *)
(*                                                                         *)
(* One step is one macrotask of the event loop with the microtasks it        *)
(* settles: when the queue settles a task, use() goes on after its await,    *)
(* runs its catch and finally, and returns before the next timer.           *)
(***************************************************************************)
EXTENDS Integers, Sequences

CONSTANTS
  MaxRequests,           \* bound: requests in one behaviour
  Incoming,              \* the requests that may arrive
  AllowCustom,           \* ALLOW_CUSTOM_WORKLOAD
  WorkersEnabled,        \* WorkerPoolService.isEnabled
  BatchEligibleSizeMax   \* BATCH_ELIGIBLE_SIZE_MAX

\* What analyze() reads of a request.  path is the first of the markers it
\* looks for, hint the workload its path suggests, weight the body's size class.
RequestType == [method : {"GET", "DELETE", "PUT", "POST", "HEAD"},
                path   : {"status", "admin", "bulk", "analytics", "user", "other"},
                query  : BOOLEAN,
                weight : {0, 1, 2, 4},
                hint   : {"cpu", "memory", "none"},
                body   : {"cpu", "memory", "custom", "io", "none"},
                code   : BOOLEAN]

ASSUME RequestAssumption ==
  /\ MaxRequests \in Nat
  /\ Incoming \subseteq RequestType
  /\ AllowCustom \in BOOLEAN
  /\ WorkersEnabled \in BOOLEAN
  /\ BatchEligibleSizeMax \in Nat \ {0}

Requests == 1..MaxRequests

VARIABLES
  request,      \* the request, NoRequest before it arrives
  task,         \* its task in the queue, a state of TaskLifecycle
  awaiting,     \* use() is suspended in await enqueue
  entry,        \* its entry in requestStateMap
  listening,    \* executeQueuedRequest has its listeners and timer set
  controller,   \* what next() started
  answer,       \* who sent the response, in order
  ended         \* the response has finished, or its connection has closed

vars == <<request, task, awaiting, entry, listening, controller, answer, ended>>

Queue == INSTANCE TaskLifecycle WITH MaxTasks <- MaxRequests, state <- task

NoRequest == [method |-> "none"]

-----------------------------------------------------------------------------
(* QueueRequestAnalyzer.analyze *)

methodPriority(q) == CASE q.method = "GET"    -> 2
                       [] q.method = "DELETE" -> -1
                       [] q.method = "PUT"    -> -2
                       [] q.method = "POST"   -> -3
                       [] q.method = "HEAD"   -> 0

pathPriority(q) == CASE q.path = "admin"     -> 5
                     [] q.path = "bulk"      -> -5
                     [] q.path = "analytics" -> -3
                     [] OTHER -> IF q.path = "user" /\ q.method = "GET" THEN 1 ELSE 0

pathSize(q) == CASE q.path = "bulk"      -> 3
                 [] q.path = "analytics" -> 2
                 [] OTHER                -> 0

analyze(q) ==
  [bypass   |-> q.path = "status",
   priority |-> methodPriority(q) + pathPriority(q),
   batch    |-> \/ q.method = "GET" /\ ~q.query
                \/ q.path \in {"bulk", "analytics"},
   size     |-> 1 + q.weight + pathSize(q) + (IF q.method = "POST" THEN 1 ELSE 0),
   workload |-> IF q.code THEN "custom"
                ELSE IF q.body # "none" THEN q.body ELSE q.hint]

decision(r) == analyze(request[r])

Heavy == {"cpu", "memory", "custom"}

\* Where enqueue and processQueue may take the task (QueueCore has the detail):
\* a batch takes it for sure if its size may start one.
mayJoinBatch(r) == decision(r).batch /\ decision(r).priority < 5
mustJoinBatch(r) == mayJoinBatch(r) /\ decision(r).size <= BatchEligibleSizeMax
eligibleForWorker(r) ==
  WorkersEnabled /\ decision(r).priority >= 0 /\ decision(r).workload \in Heavy

-----------------------------------------------------------------------------
(* RequestStateStore, and the response *)

headersSent(r) == answer[r] # << >>
hasResponded(r) == entry[r] = "responded"

\* Mutant: only the store is asked, which forgets and learns late.
StoreOnly(r) == ~hasResponded(r)

mayAnswer(r) == ~hasResponded(r) /\ ~headersSent(r)

\* Mutant: the entry is left to its time-to-live.
KeptForTtl(r) == entry[r]

\* markResponded()
marked(r) == IF entry[r] = "absent" THEN "absent" ELSE "responded"

\* release(): the entry and its timer are gone.
released(r) == "absent"

\* res.status(...).send(...)
send(r, who) == answer' = [answer EXCEPT ![r] = Append(@, who)]

\* The catch and finally blocks of use() after a failed enqueue.
useFails(r) ==
  /\ awaiting' = [awaiting EXCEPT ![r] = FALSE]
  /\ entry' = [entry EXCEPT ![r] = released(r)]
  /\ \/ mayAnswer(r) /\ send(r, "middleware")
     \/ ~mayAnswer(r) /\ UNCHANGED answer

\* enqueue has resolved: nothing follows it but the finally block.
useReturns(r) ==
  /\ awaiting' = [awaiting EXCEPT ![r] = FALSE]
  /\ entry' = [entry EXCEPT ![r] = released(r)]

move(r, to) ==
  /\ <<task[r], to>> \in Queue!Moves
  /\ task' = [task EXCEPT ![r] = to]

-----------------------------------------------------------------------------
(* QueueMiddleware.use *)

Arrives(r, q) ==
  /\ request[r] = NoRequest
  /\ request' = [request EXCEPT ![r] = q]

Bypass(r, q) ==
  /\ Arrives(r, q)
  /\ analyze(q).bypass
  /\ controller' = [controller EXCEPT ![r] = "active"]
  /\ UNCHANGED <<task, awaiting, entry, listening, answer, ended>>

\* 503 under memory pressure, 403 for disabled custom code, or enqueue throws
\* (invalid options, pressure, overflow): use() answers and returns.
Refuse(r, q) ==
  /\ Arrives(r, q)
  /\ ~analyze(q).bypass
  /\ send(r, "middleware")
  /\ UNCHANGED <<task, awaiting, entry, listening, controller, ended>>

Enqueue(r, q) ==
  /\ Arrives(r, q)
  /\ ~analyze(q).bypass
  /\ analyze(q).workload = "custom" => AllowCustom
  /\ move(r, "waiting")
  /\ awaiting' = [awaiting EXCEPT ![r] = TRUE]
  /\ entry' = [entry EXCEPT ![r] = "open"]
  /\ UNCHANGED <<listening, controller, answer, ended>>

-----------------------------------------------------------------------------
(* The queue starts, drops or settles the task *)

\* executeQueuedRequest, up to a next() that does not throw.
Start(r) ==
  /\ task[r] = "waiting"
  /\ mayJoinBatch(r) \/ ~eligibleForWorker(r)
  /\ move(r, "running")
  /\ listening' = [listening EXCEPT ![r] = TRUE]
  /\ controller' = [controller EXCEPT ![r] = "active"]
  /\ UNCHANGED <<request, awaiting, entry, answer, ended>>

\* The execution timer of the queue rejects the task; listeners stay.
ExecutionTimeout(r) ==
  /\ task[r] = "running"
  /\ move(r, "rejected")
  /\ useFails(r)
  /\ UNCHANGED <<request, listening, controller, ended>>

\* Queue timeout, cleanup or forced reduction; or next() throws at once.
Drop(r, to) ==
  /\ task[r] = "waiting"
  /\ move(r, to)
  /\ useFails(r)
  /\ UNCHANGED <<request, listening, controller, ended>>

\* The worker pool gets type and parameters of the task, never its execute().
StartOnWorker(r) ==
  /\ task[r] = "waiting"
  /\ eligibleForWorker(r) /\ ~mustJoinBatch(r)
  /\ move(r, "pool")
  /\ UNCHANGED <<request, awaiting, entry, listening, controller, answer, ended>>

WorkerDone(r, ok) ==
  /\ task[r] = "pool"
  /\ move(r, IF ok THEN "resolved" ELSE "rejected")
  /\ \/ ok /\ useReturns(r) /\ UNCHANGED answer
     \/ ~ok /\ useFails(r)
  /\ UNCHANGED <<request, listening, controller, ended>>

-----------------------------------------------------------------------------
(* What happens to the response while the task runs *)

\* The controller sends its value, or AllExceptionsFilter its error; once the
\* headers are sent Express refuses and the filter returns.
ControllerEnds(r) ==
  /\ controller[r] = "active"
  /\ controller' = [controller EXCEPT ![r] = "ended"]
  /\ \/ ~headersSent(r) /\ send(r, "controller")
     \/ headersSent(r) /\ UNCHANGED answer
  /\ UNCHANGED <<request, task, awaiting, entry, listening, ended>>

\* Mutant: finish() resolves and forgets cleanup().
ResolveOnly(r, marks) ==
  /\ UNCHANGED listening
  /\ \/ task[r] = "running" /\ move(r, "resolved") /\ useReturns(r)
     \/ task[r] # "running" /\ UNCHANGED <<task, awaiting, entry>>

\* finish(), after markResponded() or without it: listeners and timer are
\* removed; the task is resolved unless its execution timer was first.
finish(r, marks) ==
  /\ listening' = [listening EXCEPT ![r] = FALSE]
  /\ \/ task[r] = "running" /\ move(r, "resolved") /\ useReturns(r)
     \/ /\ task[r] # "running"
        /\ entry' = IF marks THEN [entry EXCEPT ![r] = marked(r)] ELSE entry
        /\ UNCHANGED <<task, awaiting>>

\* The response has been written, or the client has gone; after the latter no
\* 'finish' follows.  onResponseFinished runs if it is registered.
ResponseEnds(r) ==
  /\ request[r] # NoRequest
  /\ ~ended[r]
  /\ ended' = [ended EXCEPT ![r] = TRUE]
  /\ \/ listening[r] /\ finish(r, TRUE)
     \/ ~listening[r] /\ UNCHANGED <<task, awaiting, entry, listening>>
  /\ UNCHANGED <<request, controller, answer>>

\* Both timers have the same duration and the queue's is set first, so Node
\* runs it first.
executionTimerRan(r) == task[r] # "running"

\* The timer of executeQueuedRequest: 408 if nobody has answered, then finish.
RequestTimeout(r) ==
  /\ listening[r]
  /\ executionTimerRan(r)
  /\ finish(r, mayAnswer(r))
  /\ answer' = IF mayAnswer(r) THEN [answer EXCEPT ![r] = Append(@, "timer")]
               ELSE answer
  /\ UNCHANGED <<request, controller, ended>>

\* The entry's time-to-live is over.
EntryExpires(r) ==
  /\ entry[r] # "absent"
  /\ entry' = [entry EXCEPT ![r] = "absent"]
  /\ UNCHANGED <<request, task, awaiting, listening, controller, answer, ended>>

-----------------------------------------------------------------------------

Init ==
  /\ request = [r \in Requests |-> NoRequest]
  /\ task = [r \in Requests |-> "new"]
  /\ awaiting = [r \in Requests |-> FALSE]
  /\ entry = [r \in Requests |-> "absent"]
  /\ listening = [r \in Requests |-> FALSE]
  /\ controller = [r \in Requests |-> "idle"]
  /\ answer = [r \in Requests |-> << >>]
  /\ ended = [r \in Requests |-> FALSE]

Next ==
  \E r \in Requests :
    \/ \E q \in Incoming : Bypass(r, q) \/ Refuse(r, q) \/ Enqueue(r, q)
    \/ Start(r) \/ ExecutionTimeout(r) \/ StartOnWorker(r)
    \/ \E to \in {"rejected", "timedOut"} : Drop(r, to)
    \/ \E ok \in BOOLEAN : WorkerDone(r, ok)
    \/ ControllerEnds(r) \/ ResponseEnds(r) \/ RequestTimeout(r) \/ EntryExpires(r)

Spec == Init /\ [][Next]_vars

-----------------------------------------------------------------------------
(* Safety *)

\* Every variable keeps its type.
TypeOK ==
  /\ request \in [Requests -> Incoming \cup {NoRequest}]
  /\ task \in [Requests -> Queue!States]
  /\ awaiting \in [Requests -> BOOLEAN]
  /\ entry \in [Requests -> {"absent", "open", "responded"}]
  /\ listening \in [Requests -> BOOLEAN]
  /\ controller \in [Requests -> {"idle", "active", "ended"}]
  /\ answer \in [Requests -> Seq({"middleware", "controller", "timer"})]
  /\ ended \in [Requests -> BOOLEAN]

\* A request is answered at most once, although use(), the request timer and
\* the controller (or its exception filter) race, and the state store may have
\* forgotten the request.
AnsweredOnce == \A r \in Requests : Len(answer[r]) <= 1

\* A slot is held only by a request whose listeners and timer can still give
\* it back.
RunningIsWatched == \A r \in Requests : task[r] = "running" => listening[r]

\* requestStateMap does not grow with the requests served: an entry outlives
\* neither its time-to-live nor the call of use() that made it.
StoreHoldsOpenRequests == \A r \in Requests : entry[r] # "absent" => awaiting[r]

\* A request whose time is up is answered by use(), with 503: the queue's timer
\* is always ahead of the request timer, whose 408 is never sent.
TimerNeverAnswers ==
  \A r \in Requests : \A i \in DOMAIN answer[r] : answer[r][i] # "timer"

-----------------------------------------------------------------------------
(* Liveness *)

\* Timers run, the queue starts or drops every waiting task (EventuallySettled
\* of QueueCore), the worker pool calls back, and a response that was sent is
\* written or its connection closes.  Controllers may hang.
Fairness ==
  \A r \in Requests :
    /\ WF_vars(Start(r) \/ StartOnWorker(r) \/ Drop(r, "timedOut"))
    /\ WF_vars(\E ok \in BOOLEAN : WorkerDone(r, ok))
    /\ WF_vars(ExecutionTimeout(r))
    /\ WF_vars(RequestTimeout(r))
    /\ WF_vars(headersSent(r) /\ ResponseEnds(r))

FairSpec == Spec /\ Fairness

Answered(r) == headersSent(r) \/ ended[r]

\* README, request flow 6: every request is settled; a request that entered the
\* queue is answered, or its client has gone, even if its controller hangs.
EventuallyAnswered == \A r \in Requests : awaiting[r] ~> Answered(r)

\* The same of requests that do not go to the worker pool.
MainThreadAnswered ==
  \A r \in Requests : awaiting[r] ~> (Answered(r) \/ task[r] = "pool")

\* executeQueuedRequest always detaches its listeners and its timer.
ListenersRemoved == \A r \in Requests : listening[r] ~> ~listening[r]

\* Two timers, use(), the controller and the filter give one answer between
\* them, and the middleware's timer is never the one to give it.
OneAnswer == AnsweredOnce /\ TimerNeverAnswers

\* Nothing of a request is forgotten or left behind: the store has an entry for
\* open requests only, and a running task is watched by a listener or a timer.
RequestsTracked == TypeOK /\ RunningIsWatched /\ StoreHoldsOpenRequests

\* Off the worker pool every request is answered, and its listeners are removed.
RequestsEnd == MainThreadAnswered /\ ListenersRemoved
=============================================================================
