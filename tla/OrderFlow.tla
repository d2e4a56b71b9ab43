----------------------------- MODULE OrderFlow ------------------------------
(***************************************************************************)
(* The server's order path: requests that create orders and walk them       *)
(* through their lifecycle (OrderController, OrderService), the store they  *)
(* write (SqliteOrderStore) and the two channels their events leave by: the *)
(* in-process queue with its drain loop (MemoryOrderDispatcher) and Kafka    *)
(* (KafkaOrderDispatcher, OrderPublisher).                                  *)
(*                                                                          *)
(* All of it runs on one event loop.  An action is the code between two     *)
(* awaits.  What an already settled promise resumes is a microtask and runs *)
(* before anything from outside (a request, a timer, a broker's answer, a   *)
(* signal) is looked at; the order among microtasks is left free.           *)
(* better-sqlite3 is synchronous: a store call happens where it is made.    *)
(***************************************************************************)
EXTENDS Integers, FiniteSets, Sequences, Functions

\* The product of DEFAULT_ITEM, as a key beside the orders' ids.
Product == <<0, 0>>

CONSTANTS
  Requests,         \* HTTP requests
  Bodies,           \* their routes and bodies: [kind, count, delayed]
  Settings,         \* environments the server is started with
  MAX_COUNT,        \* MAX_BULK_COUNT and MAX_LIFECYCLE_COUNT
  Partitions,       \* partitions of every topic
  Hash,             \* the partition a key is sent to
  MaxDisturbances   \* bound: store errors, broker errors and resets

ASSUME FlowAssumption ==
  /\ Requests # {} /\ IsFiniteSet(Requests) /\ Requests \subseteq Nat \ {0}
  /\ MAX_COUNT \in Nat \ {0} /\ MaxDisturbances \in Nat
  /\ Hash \in [(Requests \X (1..MAX_COUNT)) \cup {Product} -> Partitions]
  /\ Bodies \subseteq [kind : {"order", "bulk", "lifecycle"}, count : Int,
                       delayed : BOOLEAN]
  /\ Settings \subseteq [mode : {"kafka", "memory"}, enabled : BOOLEAN,
                         idempotent : BOOLEAN, keyed : BOOLEAN, delayed : BOOLEAN]

\* Events are numbered in the order of their flow: 1 created, 2 inventory
\* reserved, 3 payment approved, 4 shipment started.  A status has the number
\* of the event that leads to it; 0 means no row.
Types == 1..4

StatusAfter(type) == type

Orders == Requests \X (1..MAX_COUNT)      \* the i-th order of a request
Events == Orders \X Types

\* Mutant: the creation is published again with the rest of the flow.
TypesWithCreated == <<1, 2, 3, 4>>

LIFECYCLE_EVENT_TYPES == <<2, 3, 4>>

VARIABLES
  setting,    \* the environment of this server
  \* requests
  body,       \* request -> its body
  at,         \* request -> idle | loop | saved | sending | dispatched | pause | done
  index,      \* request -> number of the order it is at
  step,       \* request -> position in the flow of that order
  parts,      \* request -> partitions the order's steps were acknowledged from
  results,    \* request -> the orders that succeeded, with how many partitions each
  \* SqliteOrderStore
  orders,     \* order -> its status
  events,     \* event -> rows of order_events
  \* MemoryOrderDispatcher
  queue, draining, stopped,
  inflight,   \* the event shifted from the queue, and where its handling is
  enqueued, processed, failed,
  \* OrderPublisher and broker
  connected,
  \* the process
  closing, exited,
  \* bookkeeping
  out,        \* order -> the events a channel accepted, oldest first
  wiped,      \* orders deleted by a reset
  disturbances

requestVars == <<body, at, index, step, parts, results>>
queueVars == <<queue, draining, inflight, enqueued, processed, failed>>
hostVars == <<setting, stopped, connected, closing, exited>>
vars == <<requestVars, orders, events, queueVars, hostVars, out, wiped, disturbances>>

InMemory == setting.mode = "memory"
OrderOf(r) == <<r, index[r]>>
IsLifecycle(r) == body[r].kind = "lifecycle"
Flow(r) == IF IsLifecycle(r) THEN <<1>> \o LIFECYCLE_EVENT_TYPES ELSE <<1>>
EventOf(r) == <<OrderOf(r), Flow(r)[step[r]]>>

\* Microtasks that are due; the outside is looked at only when there is none.
Resumable == {r \in Requests : at[r] \in {"loop", "saved", "dispatched"}}
Quiet == ~exited /\ Resumable = {} /\ \A d \in inflight : d.at = "delay"

Disturb == disturbances < MaxDisturbances /\ disturbances' = disturbances + 1

-----------------------------------------------------------------------------
(* repeatCollecting and the store *)

\* One order of the loop is done or its error was caught; a POST /orders
\* answers with the one or with an error.
AfterOne(r, done) ==
  /\ results' = IF done
                THEN [results EXCEPT ![r] = @ \cup
                        {[i |-> index[r], partitions |-> Cardinality(parts[r])]}]
                ELSE results
  /\ step' = [step EXCEPT ![r] = 1] /\ parts' = [parts EXCEPT ![r] = {}]
  /\ IF body[r].delayed
     THEN at' = [at EXCEPT ![r] = "pause"] /\ UNCHANGED index
     ELSE IF index[r] < body[r].count
     THEN at' = [at EXCEPT ![r] = "loop"] /\ index' = [index EXCEPT ![r] = @ + 1]
     ELSE at' = [at EXCEPT ![r] = "done"] /\ UNCHANGED index

goOn(r, where) == at' = [at EXCEPT ![r] = where] /\ UNCHANGED <<index, step, parts, results>>

nextStep(r) ==
  /\ at' = [at EXCEPT ![r] = "saved"] /\ step' = [step EXCEPT ![r] = @ + 1]
  /\ UNCHANGED <<index, parts, results>>

\* Mutant: an upsert where the code updates.
UpsertStatus(o, status) == orders' = [orders EXCEPT ![o] = status]

updateStatus(o, status) == orders[o] # 0 /\ orders' = [orders EXCEPT ![o] = status]

\* Math.min(Math.max(count, 1), MAX): a count from the body is clamped.  One
\* that is absent was replaced by the default before, which is inside the range.
clamp(n) == IF n < 1 THEN 1 ELSE IF n > MAX_COUNT THEN MAX_COUNT ELSE n

Arrive(r) ==
  /\ Quiet /\ at[r] = "idle"
  /\ \E b \in Bodies :
       body' = [body EXCEPT ![r] =
         [b EXCEPT !.count = IF b.kind = "order" THEN 1 ELSE clamp(@)]]
  /\ at' = [at EXCEPT ![r] = "loop"]
  /\ UNCHANGED <<index, step, parts, results, orders, events, queueVars, hostVars>>
  /\ UNCHANGED <<out, wiped, disturbances>>

\* createOrder up to its first await: saveOrder; the database may be locked
\* by a consumer process.
Create(r) ==
  /\ at[r] = "loop"
  /\ \/ /\ orders' = [orders EXCEPT ![OrderOf(r)] = StatusAfter(1)]
        /\ goOn(r, "saved") /\ UNCHANGED disturbances
     \/ Disturb /\ AfterOne(r, FALSE) /\ UNCHANGED orders
  /\ UNCHANGED <<body, events, queueVars, hostVars, out, wiped>>

PauseElapsed(r) ==
  /\ Quiet /\ at[r] = "pause"
  /\ IF index[r] < body[r].count
     THEN at' = [at EXCEPT ![r] = "loop"] /\ index' = [index EXCEPT ![r] = @ + 1]
     ELSE at' = [at EXCEPT ![r] = "done"] /\ UNCHANGED index
  /\ UNCHANGED <<body, step, parts, results, orders, events, queueVars, hostVars>>
  /\ UNCHANGED <<out, wiped, disturbances>>

-----------------------------------------------------------------------------
(* MemoryOrderDispatcher *)

\* recordEvent, from the drain loop.
Record(e, others) ==
  \/ /\ events' = [events EXCEPT ![e] = @ + 1]
     /\ inflight' = others \cup {[ev |-> e, at |-> "recorded"]}
     /\ UNCHANGED disturbances
  \/ Disturb /\ inflight' = others \cup {[ev |-> e, at |-> "failed"]} /\ UNCHANGED events

shift(q) == [ev |-> Head(q), rest |-> Tail(q)]

\* Mutant: the flag is not lowered when the loop ends.
FlagKept(q) == TRUE

drainingAfter(q) == q # <<>> /\ ~stopped

\* The drain loop up to its next await.
drain(q, others) ==
  /\ draining' = drainingAfter(q)
  /\ IF q = <<>> \/ stopped
     THEN queue' = q /\ inflight' = others /\ UNCHANGED <<events, disturbances>>
     ELSE /\ queue' = shift(q).rest
          /\ IF setting.delayed
             THEN /\ inflight' = others \cup {[ev |-> shift(q).ev, at |-> "delay"]}
                  /\ UNCHANGED <<events, disturbances>>
             ELSE Record(shift(q).ev, others)

\* dispatch() of the queue: accepted, and drained at once if nobody drains.
Push(e) ==
  /\ enqueued' = enqueued + 1
  /\ IF draining
     THEN /\ queue' = Append(queue, e)
          /\ UNCHANGED <<draining, inflight, events, disturbances>>
     ELSE drain(Append(queue, e), inflight)
  /\ UNCHANGED <<processed, failed>>

DelayElapsed ==
  /\ Quiet
  /\ \E d \in inflight : d.at = "delay" /\ Record(d.ev, inflight \ {d})
  /\ UNCHANGED <<requestVars, orders, queue, draining, enqueued, processed, failed>>
  /\ UNCHANGED <<hostVars, out, wiped>>

\* Mutant: an error leaves the loop.
LeaveAtFailure ==
  /\ \E d \in inflight :
       /\ d.at # "delay"
       /\ IF d.at = "recorded"
          THEN processed' = processed + 1 /\ UNCHANGED failed /\ drain(queue, inflight \ {d})
          ELSE /\ failed' = failed + 1 /\ inflight' = inflight \ {d} /\ draining' = FALSE
               /\ UNCHANGED <<processed, queue, events, disturbances>>
  /\ UNCHANGED <<requestVars, orders, enqueued, hostVars, out, wiped>>

\* The loop resumes after recordEvent.
DrainResumes ==
  /\ \E d \in inflight :
       /\ d.at # "delay"
       /\ processed' = IF d.at = "recorded" THEN processed + 1 ELSE processed
       /\ failed' = IF d.at = "failed" THEN failed + 1 ELSE failed
       /\ drain(queue, inflight \ {d})
  /\ UNCHANGED <<requestVars, orders, enqueued, hostVars, out, wiped>>

-----------------------------------------------------------------------------
(* dispatch *)

accept(e, n) == out' = [out EXCEPT ![e[1]] = @ \o [j \in 1..n |-> e[2]]]

refused(r) ==
  /\ AfterOne(r, FALSE)
  /\ UNCHANGED <<events, queueVars, out, disturbances>>

DispatchToMemory(r) ==
  /\ InMemory /\ at[r] = "saved"
  /\ IF stopped
     THEN refused(r)
     ELSE Push(EventOf(r)) /\ accept(EventOf(r), 1) /\ goOn(r, "dispatched")
  /\ UNCHANGED <<body, orders, hostVars, wiped>>

DispatchToKafka(r) ==
  /\ ~InMemory /\ at[r] = "saved"
  /\ IF connected
     THEN goOn(r, "sending") /\ UNCHANGED <<events, queueVars, out, disturbances>>
     ELSE refused(r)
  /\ UNCHANGED <<body, orders, hostVars, wiped>>

\* Copies one send can leave in the log: a producer that is not idempotent
\* repeats a message whose answer was lost.
copies == IF setting.idempotent THEN 1 ELSE 2

pickEventKey(e) == IF e[2] = 2 THEN Product ELSE e[1]

\* The partition the broker reports; without a key it is the partitioner's choice.
partitionsFor(e) == IF setting.keyed THEN {Hash[pickEventKey(e)]} ELSE Partitions

\* The steps whose partition counts: CREATED's only where it is the whole flow.
counts(r) == ~IsLifecycle(r) \/ step[r] > 1

SendResolves(r) ==
  /\ Quiet /\ at[r] = "sending"
  /\ \/ accept(EventOf(r), 1) /\ UNCHANGED disturbances
     \/ copies = 2 /\ Disturb /\ accept(EventOf(r), 2)
  /\ \E p \in partitionsFor(EventOf(r)) :
       parts' = IF counts(r) THEN [parts EXCEPT ![r] = @ \cup {p}] ELSE parts
  /\ at' = [at EXCEPT ![r] = "dispatched"]
  /\ UNCHANGED <<body, index, step, results, orders, events, queueVars, hostVars, wiped>>

\* Mutant: the error is logged and the flow goes on.
SendErrorSwallowed(r) ==
  /\ Quiet /\ at[r] = "sending"
  /\ (closing /\ UNCHANGED disturbances) \/ Disturb
  /\ \E n \in 0..copies : accept(EventOf(r), n)
  /\ goOn(r, "dispatched")
  /\ UNCHANGED <<body, orders, events, queueVars, hostVars, wiped>>

\* send() rejects: the message may be in the log all the same.
SendRejects(r) ==
  /\ Quiet /\ at[r] = "sending"
  /\ (closing /\ UNCHANGED disturbances) \/ Disturb
  /\ \E n \in 0..copies : accept(EventOf(r), n)
  /\ AfterOne(r, FALSE)
  /\ UNCHANGED <<body, orders, events, queueVars, hostVars, wiped>>

-----------------------------------------------------------------------------
(* After dispatch() *)

\* createOrder returns; dispatchLifecycle looks the order up.
Created(r) ==
  /\ at[r] = "dispatched" /\ step[r] = 1
  /\ IF IsLifecycle(r)
     THEN IF orders[OrderOf(r)] # 0
          THEN nextStep(r)
          ELSE AfterOne(r, FALSE)
     ELSE AfterOne(r, TRUE)
  /\ UNCHANGED <<body, orders, events, queueVars, hostVars, out, wiped, disturbances>>

\* A step of dispatchLifecycle was sent: updateStatus, which throws when a
\* reset took the row (or the database is locked), then the next step.
Advance(r) ==
  /\ at[r] = "dispatched" /\ step[r] > 1
  /\ \/ /\ updateStatus(OrderOf(r), StatusAfter(Flow(r)[step[r]]))
        /\ UNCHANGED disturbances
        /\ IF step[r] = Len(Flow(r))
           THEN AfterOne(r, TRUE)
           ELSE nextStep(r)
     \/ /\ (orders[OrderOf(r)] = 0 /\ UNCHANGED disturbances) \/ Disturb
        /\ AfterOne(r, FALSE) /\ UNCHANGED orders
  /\ UNCHANGED <<body, events, queueVars, hostVars, out, wiped>>

-----------------------------------------------------------------------------
(* Reset and shutdown *)

\* Two DELETEs outside a transaction: the second may find the database locked,
\* which leaves the orders without their events.  (A first one that fails
\* changes nothing.)
Reset ==
  /\ Quiet /\ Disturb
  /\ events' = [e \in Events |-> 0]
  /\ \/ /\ orders' = [o \in Orders |-> 0]
        /\ wiped' = wiped \cup {o \in Orders : orders[o] # 0}
     \/ UNCHANGED <<orders, wiped>>
  /\ UNCHANGED <<requestVars, queueVars, hostVars, out>>

\* SIGTERM: app.close() calls every onModuleDestroy.
Terminate ==
  /\ Quiet /\ ~closing
  /\ closing' = TRUE /\ stopped' = TRUE
  /\ UNCHANGED <<setting, connected, exited, requestVars, orders, events>>
  /\ UNCHANGED <<queueVars, out, wiped, disturbances>>

\* OrderPublisher.onModuleDestroy after producer.disconnect().
Disconnected ==
  /\ Quiet /\ closing /\ connected
  /\ connected' = FALSE
  /\ UNCHANGED <<setting, stopped, closing, exited, requestVars, orders, events>>
  /\ UNCHANGED <<queueVars, out, wiped, disturbances>>

\* close() has waited for the requests under way; process.exit(0).
Exit ==
  /\ Quiet /\ closing /\ ~connected
  /\ \A r \in Requests : at[r] \in {"idle", "done"}
  /\ exited' = TRUE
  /\ UNCHANGED <<setting, stopped, connected, closing, requestVars, orders, events>>
  /\ UNCHANGED <<queueVars, out, wiped, disturbances>>

Init ==
  /\ setting \in Settings
  /\ body = [r \in Requests |-> [kind |-> "order", count |-> 1, delayed |-> FALSE]]
  /\ at = [r \in Requests |-> "idle"]
  /\ index = [r \in Requests |-> 1] /\ step = [r \in Requests |-> 1]
  /\ parts = [r \in Requests |-> {}] /\ results = [r \in Requests |-> {}]
  /\ orders = [o \in Orders |-> 0] /\ events = [e \in Events |-> 0]
  /\ queue = <<>> /\ inflight = {} /\ draining = FALSE /\ stopped = FALSE
  /\ enqueued = 0 /\ processed = 0 /\ failed = 0
  /\ connected = setting.enabled
  /\ closing = FALSE /\ exited = FALSE
  /\ out = [o \in Orders |-> <<>>] /\ wiped = {} /\ disturbances = 0

Settles(r) == SendResolves(r) \/ SendRejects(r)
Resumes(r) == Create(r) \/ DispatchToMemory(r) \/ DispatchToKafka(r)
              \/ Created(r) \/ Advance(r)

Next ==
  \/ \E r \in Requests : Arrive(r) \/ PauseElapsed(r) \/ Resumes(r) \/ Settles(r)
  \/ DelayElapsed \/ DrainResumes
  \/ Reset \/ Terminate \/ Disconnected \/ Exit

Spec == Init /\ [][Next]_vars

\* Microtasks and elapsed timers run; kafkajs settles every send and every
\* disconnect, by its own timeouts if need be.
Fairness ==
  /\ \A r \in Requests :
       WF_vars(Resumes(r)) /\ WF_vars(Settles(r)) /\ WF_vars(PauseElapsed(r))
  /\ WF_vars(DelayElapsed) /\ WF_vars(DrainResumes) /\ WF_vars(Disconnected)

FairSpec == Spec /\ Fairness

-----------------------------------------------------------------------------
(* What the server reports *)

summarizeScatter(r) ==
  [single |-> Cardinality({x \in results[r] : x.partitions = 1}),
   multi |-> Cardinality({x \in results[r] : x.partitions > 1})]

\* getStats of OrderService: the rows beyond the first of every event.
duplicateExtra == Cardinality(UNION {{e} \X (2..events[e]) : e \in Events})

\* getStats of the queue.
pending == Len(queue)

-----------------------------------------------------------------------------
(* Properties *)

\* Every variable holds values of its kind.
TypeOK ==
  /\ setting \in Settings
  /\ at \in [Requests -> {"idle", "loop", "saved", "sending", "dispatched", "pause", "done"}]
  /\ index \in [Requests -> 1..MAX_COUNT]
  /\ \A r \in Requests : body[r].count \in 1..MAX_COUNT /\ step[r] \in 1..Len(Flow(r))
  /\ parts \in [Requests -> SUBSET Partitions]
  /\ \A r \in Requests : \A x \in results[r] : x.i \in 1..body[r].count
  /\ orders \in [Orders -> 0..4]
  /\ events \in [Events -> Nat]
  /\ queue \in Seq(Events)
  /\ \A d \in inflight : d.ev \in Events /\ d.at \in {"delay", "recorded", "failed"}
  /\ {draining, stopped, connected, closing, exited} \subseteq BOOLEAN
  /\ {enqueued, processed, failed, disturbances} \subseteq Nat

\* drain() returns early while another loop runs: no accepted event may be
\* left in the queue of a live dispatcher without a loop that will take it.
NoStrandedEvent == queue # <<>> => draining \/ stopped

\* The counters of the in-process queue add up at every await: what is
\* neither pending nor counted is the one event in the loop's hands, which
\* `pending` does not show.
DrainAccounting ==
  /\ enqueued = pending + Cardinality(inflight) + processed + failed
  /\ Cardinality(inflight) <= 1

\* What the comments of the dispatcher say of its counters: what was put in
\* less what was handled is the amount still queued, and `pending` is what
\* would be lost if the process died now.  The event the loop has shifted
\* and waits with (MEMORY_CONSUMER_DELAY_MS) is in the first and not in the second.
PendingIsTheRest == Quiet => pending = enqueued - (processed + failed)

\* The in-process queue never records a later event of an order while an
\* earlier one is still to be recorded.
NoOvertaking ==
  \A e \in Events : events[e] > 0 =>
    \A d \in Range(queue) \cup {x.ev : x \in {y \in inflight : y.at = "delay"}} :
      d[1] = e[1] => d[2] >= e[2]

\* Whatever fails or is retried, the events a channel accepts of one order
\* are in the order of the flow and leave no step out.
EventsInOrder ==
  \A o \in Orders : \A j \in 1..Len(out[o]) :
    out[o][j] \in IF j = 1 THEN {1} ELSE {out[o][j - 1], out[o][j - 1] + 1}

\* An idempotent producer, and the in-process queue, emit no event twice, so
\* the duplicates that the statistics report stem from consumers alone.
EmittedOnce ==
  InMemory \/ setting.idempotent =>
    /\ \A o \in Orders : \A j, k \in 1..Len(out[o]) : out[o][j] = out[o][k] => j = k
    /\ duplicateExtra = 0

\* The status of a stored order is never ahead of the events that went out
\* for it and at most one step behind, though a reset, a lock or a failed
\* send may end the flow anywhere.
StatusFollowsEvents ==
  \A o \in Orders : orders[o] # 0 =>
    LET last == IF out[o] = <<>> THEN 0 ELSE out[o][Len(out[o])]
    IN  orders[o] \in {last - 1, last} \/ (last = 0 /\ orders[o] = StatusAfter(1))

\* An order reported as created or completed really had all its events
\* accepted, and one that is not was met by a fault or a shutdown.
HonestResults ==
  \A r \in Requests :
    /\ \A x \in results[r] : Range(Flow(r)) \subseteq Range(out[<<r, x.i>>])
    /\ at[r] = "done" =>
         (Cardinality(results[r]) < body[r].count =>
            disturbances > 0 \/ closing \/ (~InMemory /\ ~setting.enabled))

\* An event row without its order row appears only for orders that a reset
\* deleted while their events were on the way.
OrphansWereWiped ==
  \A e \in Events : events[e] > 0 /\ orders[e[1]] = 0 => e[1] \in wiped

\* A lifecycle under way cannot bring back an order that a reset deleted.
ResetIsFinal == \A o \in wiped : orders[o] = 0

\* The scatter report covers exactly the orders whose partitions are known,
\* and with keys an order scatters exactly when its product hashes elsewhere.
ScatterIsHonest ==
  \A r \in Requests : IsLifecycle(r) =>
    LET s == summarizeScatter(r)
    IN  /\ s.single + s.multi = IF InMemory THEN 0 ELSE Cardinality(results[r])
        /\ setting.keyed /\ ~InMemory =>
             s.multi = Cardinality({x \in results[r] : Hash[<<r, x.i>>] # Hash[Product]})

\* Every request is answered, whatever fails under it, shutdown included.
RequestsAnswered ==
  \A r \in Requests : at[r] = "loop" ~> at[r] = "done"

\* A live in-process queue gets to every event it accepted.
QueueDrains == queue # <<>> ~> (queue = <<>> \/ stopped)

\* The in-process queue: nothing stranded, everything accounted for, no event
\* of an order recorded before an earlier one.
QueueConsistent == TypeOK /\ NoStrandedEvent /\ DrainAccounting /\ NoOvertaking

\* Events of an order go out in the order of its flow, once, and its stored
\* status keeps up with them.
EventsFollowFlow == EventsInOrder /\ EmittedOnce /\ StatusFollowsEvents

\* What the routes report to the caller is what happened.
HonestReports == HonestResults /\ ScatterIsHonest

\* A reset in the middle of a lifecycle is not undone by it.
ResetIsClean == OrphansWereWiped /\ ResetIsFinal

\* Requests and the drain loop come to an end.
FlowProgress == RequestsAnswered /\ QueueDrains
=============================================================================
