--------------------------- MODULE OrderFlowProofs ---------------------------
(***************************************************************************)
(* Machine-checked invariance proofs for OrderFlow, for any number of        *)
(* requests, orders per request, partitions and disturbances.                *)
(***************************************************************************)
EXTENDS OrderFlow, FiniteSetTheorems, SequenceTheorems, TLAPS

-----------------------------------------------------------------------------
(* The inductive invariant *)

BodyType == [kind : {"order", "bulk", "lifecycle"}, count : 1..MAX_COUNT, delayed : BOOLEAN]
Places == {"idle", "loop", "saved", "sending", "dispatched", "pause", "done"}
Held == [ev : Events, at : {"delay", "recorded", "failed"}]

\* The type of every variable, the bookkeeping included.
RequestTypes ==
  /\ body \in [Requests -> BodyType]
  /\ at \in [Requests -> Places]
  /\ index \in [Requests -> 1..MAX_COUNT]
  /\ step \in [Requests -> Types]
  /\ parts \in [Requests -> SUBSET Partitions]
  /\ results \in [Requests -> SUBSET [i : 1..MAX_COUNT, partitions : Nat]]

StoreTypes ==
  /\ orders \in [Orders -> 0..4]
  /\ events \in [Events -> Nat]
  /\ out \in [Orders -> Seq(Types)]
  /\ wiped \subseteq Orders

QueueTypes ==
  /\ queue \in Seq(Events)
  /\ inflight \subseteq Held
  /\ enqueued \in Nat /\ processed \in Nat /\ failed \in Nat /\ disturbances \in Nat

HostTypes ==
  /\ setting \in Settings
  /\ draining \in BOOLEAN /\ stopped \in BOOLEAN /\ connected \in BOOLEAN
  /\ closing \in BOOLEAN /\ exited \in BOOLEAN

Shape == RequestTypes /\ StoreTypes /\ QueueTypes /\ HostTypes

\* Where a request can be with what it holds.
Walk(r) ==
  /\ index[r] <= body[r].count
  /\ step[r] > 1 => IsLifecycle(r)
  /\ at[r] \in {"idle", "loop", "pause", "done"} => step[r] = 1 /\ parts[r] = {}
  /\ at[r] = "idle" => index[r] = 1 /\ results[r] = {}
  /\ at[r] = "done" => index[r] = body[r].count
  /\ \A x \in results[r] : x.i <= index[r]
  /\ IsFiniteSet(parts[r]) /\ IsFiniteSet(results[r])

Walks == \A r \in Requests : Walk(r)

\* The flags of the host agree, and Kafka leaves the in-process queue alone.
Host ==
  /\ stopped => closing
  /\ ~connected => closing \/ ~setting.enabled
  /\ InMemory => \A r \in Requests : at[r] # "sending"
  /\ ~InMemory => queue = <<>> /\ inflight = {} /\ \A e \in Events : events[e] = 0

\* A loop runs exactly while it holds one event.
Hand ==
  \/ draining /\ \E d \in Held : inflight = {d}
  \/ ~draining /\ inflight = {}

Counted == enqueued = Len(queue) + Cardinality(inflight) + processed + failed

QueueInv == Hand /\ NoStrandedEvent /\ Counted

\* Orders a request has not come to, and the one it is at.
Fresh(r, i) == i > index[r] \/ (i = index[r] /\ at[r] \in {"idle", "loop"})
Current(r) == at[r] \in {"saved", "sending", "dispatched"}

\* How far the flow of the current order went out.
Sent(r) == IF at[r] = "dispatched" THEN step[r] ELSE step[r] - 1

\* The status of an order whose current step has not been stored.
Due(r) == IF step[r] = 1 THEN 1 ELSE step[r] - 1

Last(s) == IF s = <<>> THEN 0 ELSE s[Len(s)]

\* Events in the order of the flow, none left out.
Flowing(s) ==
  /\ \A j \in 1..Len(s) : s[j] \in IF j = 1 THEN {1} ELSE {s[j - 1], s[j - 1] + 1}
  /\ \A j \in 1..Len(s) : s[j] <= Last(s)
  /\ \A v \in 1..Last(s) : \E j \in 1..Len(s) : s[j] = v

Distinct(s) == \A j, k \in 1..Len(s) : s[j] = s[k] => j = k

Sound(o) ==
  /\ Flowing(out[o])
  /\ InMemory \/ setting.idempotent => Distinct(out[o])
  /\ orders[o] # 0 => \/ orders[o] \in {Last(out[o]) - 1, Last(out[o])}
                      \/ Last(out[o]) = 0 /\ orders[o] = 1
  /\ out[o] # <<>> /\ orders[o] = 0 => o \in wiped
  /\ o \in wiped => orders[o] = 0

Untouched(r) ==
  \A i \in 1..MAX_COUNT : Fresh(r, i) =>
    orders[<<r, i>>] = 0 /\ <<r, i>> \notin wiped /\ out[<<r, i>>] = <<>>

\* The order under way: what went out and what the store says of it.
UnderWay(r) ==
  Current(r) =>
    /\ Last(out[OrderOf(r)]) = Sent(r)
    /\ orders[OrderOf(r)] \in {0, Due(r)}
    /\ orders[OrderOf(r)] = 0 => OrderOf(r) \in wiped

OutInv ==
  /\ \A o \in Orders : Sound(o)
  /\ \A r \in Requests : Untouched(r) /\ UnderWay(r)
  /\ wiped # {} => disturbances > 0

\* What is in queue q, in hand and in the rows went out before, by sent.
Seen(q, held, rows, sent) ==
  /\ \A j \in 1..Len(q) : q[j][2] <= Last(sent[q[j][1]])
  /\ \A d \in held : d.ev[2] <= Last(sent[d.ev[1]])
  /\ \A e \in Events : rows[e] > 0 => e[2] <= Last(sent[e[1]])

\* Queue q, events in hand and rows are in the order of each order's flow.
Ordered(q, held, rows) ==
  /\ \A i, j \in 1..Len(q) : i < j /\ q[i][1] = q[j][1] => q[i][2] < q[j][2]
  /\ \A d \in held : d.at = "delay" =>
       \A j \in 1..Len(q) : d.ev[1] = q[j][1] => d.ev[2] < q[j][2]
  /\ \A e \in Events : rows[e] > 0 =>
       /\ rows[e] = 1
       /\ \A j \in 1..Len(q) : q[j][1] = e[1] => e[2] < q[j][2]
       /\ \A d \in held : d.at = "delay" /\ d.ev[1] = e[1] => e[2] < d.ev[2]

Line(q, held, rows, sent) == Seen(q, held, rows, sent) /\ Ordered(q, held, rows)

LineInv == Line(queue, inflight, events, out)

\* Nothing has met the server that could end an order early.
Trouble == disturbances > 0 \/ closing \/ (~InMemory /\ ~setting.enabled)

\* The partitions that an order's events went to.
Scattered(r) ==
  /\ InMemory => parts[r] = {}
  /\ Current(r) /\ IsLifecycle(r) /\ ~InMemory =>
       /\ Sent(r) > 1 => parts[r] # {}
       /\ setting.keyed =>
            parts[r] = IF Sent(r) <= 1 THEN {}
                       ELSE IF Sent(r) = 2 THEN {Hash[Product]}
                       ELSE {Hash[Product], Hash[OrderOf(r)]}

Reported(r, x) ==
  /\ Len(Flow(r)) <= Last(out[<<r, x.i>>])
  /\ InMemory => x.partitions = 0
  /\ IsLifecycle(r) /\ ~InMemory =>
       /\ x.partitions > 0
       /\ setting.keyed => (x.partitions > 1 <=> Hash[<<r, x.i>>] # Hash[Product])

Complete(r) ==
  ~Trouble => \A i \in 1..index[r] :
    i < index[r] \/ at[r] \in {"pause", "done"} => \E x \in results[r] : x.i = i

ReportInv ==
  \A r \in Requests :
    Scattered(r) /\ Complete(r) /\ \A x \in results[r] : Reported(r, x)
-----------------------------------------------------------------------------
(* What the operators of the model do, request by request *)

\* The flow of a request runs through the event types one by one.
LEMMA FlowFacts ==
  ASSUME NEW r
  PROVE  /\ IsLifecycle(r) => Len(Flow(r)) = 4 /\ \A i \in 1..4 : Flow(r)[i] = i
         /\ ~IsLifecycle(r) => Len(Flow(r)) = 1 /\ Flow(r)[1] = 1
  <1>1. CASE IsLifecycle(r)
    <2> DEFINE s == <<1>>
               u == <<2, 3, 4>>
    <2>1. s \in Seq(Types) /\ u \in Seq(Types) /\ Len(s) = 1 /\ Len(u) = 3
      BY DEF Types
    <2>2. s[1] = 1 /\ u[1] = 2 /\ u[2] = 3 /\ u[3] = 4
      OBVIOUS
    <2>3. Flow(r) = s \o u
      BY <1>1 DEF Flow, LIFECYCLE_EVENT_TYPES
    <2> HIDE DEF s, u
    <2>4. /\ Len(s \o u) = Len(s) + Len(u)
          /\ \A i \in 1..(Len(s) + Len(u)) :
               (s \o u)[i] = IF i <= Len(s) THEN s[i] ELSE u[i - Len(s)]
      BY <2>1, ConcatProperties
    <2>5. Len(s \o u) = 4 /\ \A i \in 1..4 : (s \o u)[i] = i
      BY <2>1, <2>2, <2>4
    <2>6. QED
      BY <1>1, <2>3, <2>5
  <1>2. CASE ~IsLifecycle(r)
    BY <1>2 DEF Flow
  <1>3. QED
    BY <1>1, <1>2

\* The order and the event a request is at.
LEMMA EventFacts ==
  ASSUME Shape, Walks, NEW r \in Requests
  PROVE  /\ OrderOf(r) = <<r, index[r]>> /\ OrderOf(r) \in Orders
         /\ EventOf(r) = <<OrderOf(r), step[r]>> /\ EventOf(r) \in Events
         /\ step[r] \in 1..Len(Flow(r)) /\ Flow(r)[step[r]] = step[r]
  <1>1. index[r] \in 1..MAX_COUNT /\ step[r] \in 1..4
    BY DEF Shape, RequestTypes, Types
  <1>2. OrderOf(r) = <<r, index[r]>> /\ OrderOf(r) \in Orders
    BY <1>1 DEF OrderOf, Orders
  <1>3. step[r] > 1 => IsLifecycle(r)
    BY DEF Walks, Walk
  <1>4. Flow(r)[step[r]] = step[r] /\ step[r] \in 1..Len(Flow(r))
    BY <1>1, <1>3, FlowFacts
  <1>5. QED
    BY <1>1, <1>2, <1>4 DEF EventOf, Events, Types

\* The other requests are left alone.
Others(r) ==
  \A q \in Requests \ {r} :
    /\ body'[q] = body[q] /\ at'[q] = at[q] /\ index'[q] = index[q]
    /\ step'[q] = step[q] /\ parts'[q] = parts[q] /\ results'[q] = results[q]

Result(r) == [i |-> index[r], partitions |-> Cardinality(parts[r])]

\* A request goes somewhere else with its order.
Moves(r, where) ==
  /\ Others(r)
  /\ at'[r] = where /\ body'[r] = body[r] /\ index'[r] = index[r]
  /\ results'[r] = results[r]

\* A request is through with its order.
Ends(r, done) ==
  /\ Others(r)
  /\ body'[r] = body[r] /\ step'[r] = 1 /\ parts'[r] = {}
  /\ \/ at'[r] = "pause" /\ index'[r] = index[r]
     \/ at'[r] = "done" /\ index'[r] = index[r] /\ index[r] = body[r].count
     \/ at'[r] = "loop" /\ index'[r] = index[r] + 1 /\ index[r] < body[r].count
  /\ results'[r] = IF done THEN results[r] \cup {Result(r)} ELSE results[r]

LEMMA AfterOneEnds ==
  ASSUME Shape, Walks, NEW r \in Requests, NEW done \in BOOLEAN, AfterOne(r, done),
         body' = body
  PROVE  RequestTypes' /\ Ends(r, done)
  <1>1. /\ body[r] \in BodyType /\ body[r].count \in 1..MAX_COUNT
        /\ index[r] \in 1..MAX_COUNT /\ index[r] <= body[r].count
    BY DEF Shape, RequestTypes, BodyType, Walks, Walk
  <1>2. IsFiniteSet(parts[r])
    BY DEF Walks, Walk
  <1>3. Cardinality(parts[r]) \in Nat
    BY <1>2, FS_CardinalityType
  <1>4. Result(r) \in [i : 1..MAX_COUNT, partitions : Nat]
    BY <1>1, <1>3 DEF Result
  <1>5. /\ results' \in [Requests -> SUBSET [i : 1..MAX_COUNT, partitions : Nat]]
        /\ results'[r] = IF done THEN results[r] \cup {Result(r)} ELSE results[r]
        /\ \A q \in Requests \ {r} : results'[q] = results[q]
    <2>1. results \in [Requests -> SUBSET [i : 1..MAX_COUNT, partitions : Nat]]
      BY DEF Shape, RequestTypes
    <2>2. results' = IF done THEN [results EXCEPT ![r] = @ \cup {Result(r)}] ELSE results
      BY DEF AfterOne, Result
    <2> HIDE DEF Result
    <2>3. QED
      BY <1>4, <2>1, <2>2
  <1>6. /\ step' \in [Requests -> Types] /\ step'[r] = 1
        /\ \A q \in Requests \ {r} : step'[q] = step[q]
    BY DEF AfterOne, Shape, RequestTypes, Types
  <1>7. /\ parts' \in [Requests -> SUBSET Partitions] /\ parts'[r] = {}
        /\ \A q \in Requests \ {r} : parts'[q] = parts[q]
    BY DEF AfterOne, Shape, RequestTypes
  <1>8. /\ at' \in [Requests -> Places] /\ index' \in [Requests -> 1..MAX_COUNT]
        /\ \A q \in Requests \ {r} : at'[q] = at[q] /\ index'[q] = index[q]
        /\ \/ at'[r] = "pause" /\ index'[r] = index[r]
           \/ at'[r] = "done" /\ index'[r] = index[r] /\ index[r] = body[r].count
           \/ at'[r] = "loop" /\ index'[r] = index[r] + 1 /\ index[r] < body[r].count
    <2>0. /\ at \in [Requests -> Places] /\ index \in [Requests -> 1..MAX_COUNT]
          /\ MAX_COUNT \in Nat
      BY FlowAssumption DEF Shape, RequestTypes
    <2>1. CASE body[r].delayed
      BY <2>0, <2>1 DEF AfterOne, Places
    <2>2. CASE ~body[r].delayed /\ index[r] < body[r].count
      BY <1>1, <2>0, <2>2 DEF AfterOne, Places
    <2>3. CASE ~body[r].delayed /\ ~(index[r] < body[r].count)
      <3>1. at' = [at EXCEPT ![r] = "done"] /\ index' = index
        BY <2>3 DEF AfterOne
      <3>2. index[r] = body[r].count
        BY <1>1, <2>3
      <3>3. QED
        BY <2>0, <3>1, <3>2 DEF Places
    <2>4. QED
      BY <2>1, <2>2, <2>3
  <1>9. body' \in [Requests -> BodyType]
    BY DEF Shape, RequestTypes
  <1>10. RequestTypes'
    BY <1>5, <1>6, <1>7, <1>8, <1>9 DEF RequestTypes
  <1>11. Ends(r, done)
    BY <1>5, <1>6, <1>7, <1>8 DEF Ends, Others
  <1>12. QED
    BY <1>10, <1>11

LEMMA GoOnMoves ==
  ASSUME Shape, NEW r \in Requests, NEW where \in Places, goOn(r, where), body' = body
  PROVE  /\ RequestTypes' /\ Moves(r, where)
         /\ step'[r] = step[r] /\ parts'[r] = parts[r]
  BY DEF goOn, Shape, RequestTypes, Moves, Others

LEMMA NextStepMoves ==
  ASSUME Shape, NEW r \in Requests, nextStep(r), body' = body, step[r] < 4
  PROVE  /\ RequestTypes' /\ Moves(r, "saved")
         /\ step'[r] = step[r] + 1 /\ parts'[r] = parts[r]
  <1>1. step \in [Requests -> Types] /\ step[r] + 1 \in Types
    BY DEF Shape, RequestTypes, Types
  <1>2. /\ step' \in [Requests -> Types] /\ step'[r] = step[r] + 1
        /\ \A q \in Requests \ {r} : step'[q] = step[q]
    BY <1>1 DEF nextStep
  <1>3. /\ at' \in [Requests -> Places] /\ at'[r] = "saved"
        /\ \A q \in Requests \ {r} : at'[q] = at[q]
    BY DEF nextStep, Shape, RequestTypes, Places
  <1>4. QED
    BY <1>2, <1>3 DEF nextStep, Shape, RequestTypes, Moves, Others

\* Requests that are left alone, and one that moves on or ends an order, are
\* where a request can be.
LEMMA WalkOthers ==
  ASSUME Walks, NEW r \in Requests, Others(r), Walk(r)'
  PROVE  Walks'
  BY DEF Walks, Walk, Others, IsLifecycle

LEMMA EndsWalk ==
  ASSUME Shape, Walks, NEW r \in Requests, NEW done \in BOOLEAN, Ends(r, done)
  PROVE  Walks'
  <1>1. /\ index[r] \in 1..MAX_COUNT /\ body[r].count \in 1..MAX_COUNT
        /\ index[r] <= body[r].count /\ MAX_COUNT \in Nat
    BY FlowAssumption DEF Shape, RequestTypes, BodyType, Walks, Walk
  <1>2. /\ body'[r] = body[r] /\ step'[r] = 1 /\ parts'[r] = {}
        /\ index'[r] <= body[r].count /\ index'[r] >= index[r]
        /\ at'[r] # "idle" /\ (at'[r] = "done" => index'[r] = body[r].count)
    BY <1>1 DEF Ends
  <1>3. \A x \in results'[r] : x.i <= index'[r]
    <2>1. \A x \in results[r] : x.i \in 1..MAX_COUNT /\ x.i <= index[r]
      BY DEF Shape, RequestTypes, Walks, Walk
    <2>2. \A x \in results[r] : x.i <= index'[r]
      BY <1>1, <1>2, <2>1 DEF Ends
    <2>3. Result(r).i = index[r]
      BY DEF Result
    <2>4. results'[r] \subseteq results[r] \cup {Result(r)}
      BY DEF Ends
    <2> HIDE DEF Result
    <2>5. QED
      BY <1>2, <2>2, <2>3, <2>4
  <1>4. IsFiniteSet(parts'[r]) /\ IsFiniteSet(results'[r])
    <2>1. IsFiniteSet(results[r])
      BY DEF Walks, Walk
    <2>2. IsFiniteSet(results[r] \cup {Result(r)})
      BY <2>1, FS_AddElement
    <2>3. IsFiniteSet({})
      BY FS_EmptySet
    <2>4. QED
      BY <1>2, <2>1, <2>2, <2>3 DEF Ends
  <1>5. Walk(r)'
    BY <1>2, <1>3, <1>4 DEF Walk
  <1>6. QED
    BY <1>5, WalkOthers DEF Ends
-----------------------------------------------------------------------------
(* The in-process queue *)

Entry(e, where) == [ev |-> e, at |-> where]

\* recordEvent writes one row, or fails and costs a disturbance.
LEMMA RecordFacts ==
  ASSUME Shape, NEW e \in Events, Record(e, {})
  PROVE  /\ events' \in [Events -> Nat] /\ disturbances' \in Nat
         /\ disturbances' >= disturbances
         /\ \E d \in Held : inflight' = {d} /\ d.ev = e /\ d.at # "delay"
         /\ \/ events'[e] = events[e] + 1 /\ \A x \in Events \ {e} : events'[x] = events[x]
            \/ events' = events
  <1>0. events \in [Events -> Nat] /\ disturbances \in Nat
    BY DEF Shape, StoreTypes, QueueTypes
  <1>1. Entry(e, "recorded") \in Held /\ Entry(e, "failed") \in Held
    BY DEF Held, Entry
  <1>2. /\ Entry(e, "recorded").ev = e /\ Entry(e, "recorded").at = "recorded"
        /\ Entry(e, "failed").ev = e /\ Entry(e, "failed").at = "failed"
    BY DEF Entry
  <1>3. \/ /\ events' = [events EXCEPT ![e] = @ + 1] /\ disturbances' = disturbances
           /\ inflight' = {Entry(e, "recorded")}
        \/ /\ events' = events /\ disturbances' = disturbances + 1
           /\ inflight' = {Entry(e, "failed")}
    BY DEF Record, Disturb, Entry
  <1> HIDE DEF Entry
  <1>4. CASE /\ events' = [events EXCEPT ![e] = @ + 1] /\ disturbances' = disturbances
             /\ inflight' = {Entry(e, "recorded")}
    BY <1>0, <1>1, <1>2, <1>4
  <1>5. CASE /\ events' = events /\ disturbances' = disturbances + 1
             /\ inflight' = {Entry(e, "failed")}
    BY <1>0, <1>1, <1>2, <1>5
  <1>6. QED
    BY <1>3, <1>4, <1>5

\* The drain loop stops with an empty hand or goes on with the head of the queue.
LEMMA DrainFacts ==
  ASSUME Shape, NEW q \in Seq(Events), drain(q, {})
  PROVE  \/ /\ q = <<>> \/ stopped
            /\ draining' = FALSE /\ queue' = q /\ inflight' = {}
            /\ UNCHANGED <<events, disturbances>>
         \/ /\ q # <<>> /\ ~stopped /\ draining' = TRUE /\ queue' = Tail(q)
            /\ \/ /\ inflight' = {Entry(Head(q), "delay")}
                  /\ UNCHANGED <<events, disturbances>>
               \/ Record(Head(q), {})
  <1>1. CASE q = <<>> \/ stopped
    BY <1>1 DEF drain, drainingAfter
  <1>2. CASE ~(q = <<>> \/ stopped)
    <2>1. draining' = TRUE /\ queue' = shift(q).rest
      BY <1>2 DEF drain, drainingAfter
    <2>2. shift(q).rest = Tail(q) /\ shift(q).ev = Head(q)
      BY DEF shift
    <2>3. \/ /\ inflight' = {} \cup {[ev |-> shift(q).ev, at |-> "delay"]}
             /\ UNCHANGED <<events, disturbances>>
          \/ Record(shift(q).ev, {})
      BY <1>2 DEF drain
    <2>4. \/ /\ inflight' = {Entry(Head(q), "delay")}
             /\ UNCHANGED <<events, disturbances>>
          \/ Record(Head(q), {})
      BY <2>2, <2>3 DEF Entry
    <2>5. QED
      BY <1>2, <2>1, <2>2, <2>4
  <1>3. QED
    BY <1>1, <1>2

\* What the loop leaves behind has its types, holds one event exactly while the
\* loop runs, strands nothing, and counts every event of q.
LEMMA DrainLeaves ==
  ASSUME Shape, NEW q \in Seq(Events), drain(q, {}), stopped' = stopped
  PROVE  /\ events' \in [Events -> Nat] /\ disturbances' \in Nat
         /\ disturbances' >= disturbances
         /\ queue' \in Seq(Events) /\ inflight' \subseteq Held /\ draining' \in BOOLEAN
         /\ Hand' /\ NoStrandedEvent'
         /\ Len(queue') + Cardinality(inflight') = Len(q)
  <1>0. events \in [Events -> Nat] /\ disturbances \in Nat
    BY DEF Shape, StoreTypes, QueueTypes
  <1>1. CASE /\ q = <<>> \/ stopped
             /\ draining' = FALSE /\ queue' = q /\ inflight' = {}
             /\ UNCHANGED <<events, disturbances>>
    <2>1. Cardinality(inflight') = 0 /\ Len(q) \in Nat
      BY <1>1, FS_EmptySet, LenProperties
    <2>2. Hand'
      BY <1>1 DEF Hand
    <2>3. NoStrandedEvent'
      BY <1>1 DEF NoStrandedEvent
    <2>4. Len(queue') + Cardinality(inflight') = Len(q)
      BY <1>1, <2>1
    <2>5. /\ events' \in [Events -> Nat] /\ disturbances' \in Nat
          /\ disturbances' >= disturbances
      BY <1>0, <1>1
    <2>6. queue' \in Seq(Events) /\ inflight' \subseteq Held /\ draining' \in BOOLEAN
      BY <1>1
    <2>7. QED
      BY <2>2, <2>3, <2>4, <2>5, <2>6
  <1>2. ASSUME q # <<>>, draining' = TRUE, queue' = Tail(q),
               \/ /\ inflight' = {Entry(Head(q), "delay")}
                  /\ UNCHANGED <<events, disturbances>>
               \/ Record(Head(q), {})
        PROVE  /\ events' \in [Events -> Nat] /\ disturbances' \in Nat
               /\ disturbances' >= disturbances
               /\ queue' \in Seq(Events) /\ inflight' \subseteq Held /\ draining' \in BOOLEAN
               /\ Hand' /\ NoStrandedEvent'
               /\ Len(queue') + Cardinality(inflight') = Len(q)
    <2>1. Head(q) \in Events /\ Tail(q) \in Seq(Events) /\ Len(Tail(q)) = Len(q) - 1
      BY <1>2, HeadTailProperties
    <2>2. Len(q) \in Nat
      BY LenProperties
    <2>3. /\ events' \in [Events -> Nat] /\ disturbances' \in Nat
          /\ disturbances' >= disturbances
          /\ \E d \in Held : inflight' = {d}
      <3>1. CASE inflight' = {Entry(Head(q), "delay")} /\ UNCHANGED <<events, disturbances>>
        <4>1. Entry(Head(q), "delay") \in Held
          BY <2>1 DEF Held, Entry
        <4>2. QED
          BY <1>0, <3>1, <4>1
      <3>2. CASE Record(Head(q), {})
        BY <2>1, <3>2, RecordFacts
      <3>3. QED
        BY <1>2, <3>1, <3>2
    <2>4. PICK d \in Held : inflight' = {d}
      BY <2>3
    <2>5. Cardinality(inflight') = 1
      BY <2>4, FS_Singleton
    <2>6. Hand'
      BY <1>2, <2>4 DEF Hand
    <2>7. NoStrandedEvent'
      BY <1>2 DEF NoStrandedEvent
    <2>8. Len(queue') + Cardinality(inflight') = Len(q)
      BY <1>2, <2>1, <2>2, <2>5
    <2>9. QED
      BY <1>2, <2>1, <2>3, <2>4, <2>6, <2>7, <2>8
  <1>3. QED
    BY <1>1, <1>2, DrainFacts

\* dispatch() takes one event in.
LEMMA PushLeaves ==
  ASSUME Shape, QueueInv, NEW e \in Events, Push(e), stopped' = stopped
  PROVE  /\ events' \in [Events -> Nat] /\ QueueTypes' /\ draining' \in BOOLEAN
         /\ disturbances' >= disturbances /\ QueueInv'
  <1>0. /\ events \in [Events -> Nat] /\ queue \in Seq(Events) /\ inflight \subseteq Held
        /\ enqueued \in Nat /\ processed \in Nat /\ failed \in Nat /\ disturbances \in Nat
    BY DEF Shape, StoreTypes, QueueTypes
  <1>1. /\ Append(queue, e) \in Seq(Events) /\ Len(Append(queue, e)) = Len(queue) + 1
        /\ Len(queue) \in Nat
    BY <1>0, AppendProperties, LenProperties
  <1>2. /\ enqueued' = enqueued + 1 /\ processed' = processed /\ failed' = failed
    BY DEF Push
  <1>3. Cardinality(inflight) \in Nat
    <2>1. IsFiniteSet(inflight)
      BY FS_EmptySet, FS_Singleton DEF QueueInv, Hand
    <2>2. QED
      BY <2>1, FS_CardinalityType
  <1>4. CASE draining
    <2>1. /\ queue' = Append(queue, e)
          /\ UNCHANGED <<draining, inflight, events, disturbances>>
      BY <1>4 DEF Push
    <2>2. Hand' /\ NoStrandedEvent'
      BY <1>4, <2>1 DEF QueueInv, Hand, NoStrandedEvent
    <2>3. Counted'
      <3>1. enqueued = Len(queue) + Cardinality(inflight) + processed + failed
        BY DEF QueueInv, Counted
      <3>2. enqueued' = Len(queue') + Cardinality(inflight') + processed' + failed'
        BY <1>0, <1>1, <1>2, <1>3, <2>1, <3>1
      <3>3. QED
        BY <3>2 DEF Counted
    <2>4. draining' \in BOOLEAN
      BY <2>1 DEF Shape, HostTypes
    <2>5. QED
      BY <1>0, <1>1, <1>2, <2>1, <2>2, <2>3, <2>4 DEF QueueTypes, QueueInv
  <1>5. CASE ~draining
    <2>1. inflight = {}
      BY <1>5 DEF QueueInv, Hand
    <2>2. drain(Append(queue, e), {})
      BY <1>5, <2>1 DEF Push
    <2> DEFINE q == Append(queue, e)
    <2> HIDE DEF q
    <2>3. /\ events' \in [Events -> Nat] /\ disturbances' \in Nat
          /\ disturbances' >= disturbances
          /\ queue' \in Seq(Events) /\ inflight' \subseteq Held /\ draining' \in BOOLEAN
          /\ Hand' /\ NoStrandedEvent'
          /\ Len(queue') + Cardinality(inflight') = Len(Append(queue, e))
      BY <1>1, <2>2, DrainLeaves
    <2>4. Counted'
      <3>1. enqueued = Len(queue) + processed + failed
        BY <1>0, <1>1, <2>1, FS_EmptySet DEF QueueInv, Counted
      <3>2. enqueued' = Len(queue') + Cardinality(inflight') + processed' + failed'
        BY <1>0, <1>1, <1>2, <2>3, <3>1
      <3>3. QED
        BY <3>2 DEF Counted
    <2>5. QED
      BY <1>0, <1>2, <2>3, <2>4 DEF QueueTypes, QueueInv
  <1>6. QED
    BY <1>4, <1>5

\* The loop resumes: its event is counted and leaves its hand.
LEMMA ResumeLeaves ==
  ASSUME Shape, QueueInv, DrainResumes
  PROVE  /\ events' \in [Events -> Nat] /\ QueueTypes' /\ draining' \in BOOLEAN
         /\ disturbances' >= disturbances /\ QueueInv'
  <1>0. /\ events \in [Events -> Nat] /\ queue \in Seq(Events) /\ inflight \subseteq Held
        /\ enqueued \in Nat /\ processed \in Nat /\ failed \in Nat /\ disturbances \in Nat
    BY DEF Shape, StoreTypes, QueueTypes
  <1>1. PICK d \in inflight :
          /\ d.at # "delay"
          /\ processed' = IF d.at = "recorded" THEN processed + 1 ELSE processed
          /\ failed' = IF d.at = "failed" THEN failed + 1 ELSE failed
          /\ drain(queue, inflight \ {d})
    BY DEF DrainResumes
  <1>2. inflight = {d} /\ inflight \ {d} = {}
    BY <1>1 DEF QueueInv, Hand
  <1>3. drain(queue, {})
    BY <1>1, <1>2
  <1>4. stopped' = stopped /\ enqueued' = enqueued
    BY DEF DrainResumes, hostVars
  <1>5. /\ events' \in [Events -> Nat] /\ disturbances' \in Nat
        /\ disturbances' >= disturbances
        /\ queue' \in Seq(Events) /\ inflight' \subseteq Held /\ draining' \in BOOLEAN
        /\ Hand' /\ NoStrandedEvent'
        /\ Len(queue') + Cardinality(inflight') = Len(queue)
    BY <1>0, <1>3, <1>4, DrainLeaves
  <1>6. /\ processed' \in Nat /\ failed' \in Nat
        /\ processed' + failed' = processed + failed + 1
    <2>1. d.at \in {"recorded", "failed"}
      BY <1>0, <1>1 DEF Held
    <2>2. QED
      BY <1>0, <1>1, <2>1
  <1>7. Counted'
    <2>1. Cardinality(inflight) = 1
      BY <1>2, FS_Singleton
    <2>2. enqueued = Len(queue) + 1 + processed + failed
      BY <2>1 DEF QueueInv, Counted
    <2>3. Len(queue) \in Nat /\ Len(queue') \in Nat
      BY <1>0, <1>5, LenProperties
    <2>4. IsFiniteSet(inflight')
      <3>1. inflight' = {} \/ \E x \in Held : inflight' = {x}
        BY <1>5 DEF Hand
      <3>2. QED
        BY <3>1, FS_EmptySet, FS_Singleton
    <2>5. Cardinality(inflight') \in Nat
      BY <2>4, FS_CardinalityType
    <2>6. enqueued' = Len(queue') + Cardinality(inflight') + processed' + failed'
      <3>1. Len(queue') + Cardinality(inflight') = Len(queue)
        BY <1>5
      <3>2. enqueued' = enqueued
        BY <1>4
      <3>3. QED
        <4>1. processed \in Nat /\ failed \in Nat /\ processed' \in Nat /\ failed' \in Nat
          BY <1>0, <1>6
        <4>2. enqueued = Len(queue) + (processed + failed + 1)
          BY <2>2, <2>3, <4>1
        <4>3. processed' + failed' = processed + failed + 1
          BY <1>6
        <4>4. enqueued' = (Len(queue') + Cardinality(inflight')) + (processed' + failed')
          BY <3>1, <3>2, <4>2, <4>3
        <4>5. QED
          BY <2>3, <2>5, <4>1, <4>4
    <2>7. QED
      BY <2>6 DEF Counted
  <1>8. QED
    BY <1>0, <1>4, <1>5, <1>6, <1>7 DEF QueueTypes, QueueInv

\* The delay of the event in hand is over.
LEMMA DelayLeaves ==
  ASSUME Shape, QueueInv, DelayElapsed
  PROVE  /\ events' \in [Events -> Nat] /\ QueueTypes'
         /\ disturbances' >= disturbances /\ QueueInv'
  <1>0. /\ queue \in Seq(Events) /\ inflight \subseteq Held
        /\ enqueued \in Nat /\ processed \in Nat /\ failed \in Nat
    BY DEF Shape, StoreTypes, QueueTypes
  <1>1. PICK d \in inflight : d.at = "delay" /\ Record(d.ev, inflight \ {d})
    BY DEF DelayElapsed
  <1>2. inflight = {d} /\ inflight \ {d} = {} /\ draining /\ d.ev \in Events
    BY <1>0, <1>1 DEF QueueInv, Hand, Held
  <1>3. Record(d.ev, {})
    BY <1>1, <1>2
  <1>4. /\ events' \in [Events -> Nat] /\ disturbances' \in Nat
        /\ disturbances' >= disturbances
        /\ \E x \in Held : inflight' = {x}
    BY <1>2, <1>3, RecordFacts
  <1>5. UNCHANGED <<queue, draining, enqueued, processed, failed, stopped>>
    BY DEF DelayElapsed, hostVars
  <1>6. PICK x \in Held : inflight' = {x}
    BY <1>4
  <1>7. Cardinality(inflight) = Cardinality(inflight')
    BY <1>2, <1>6, FS_Singleton
  <1>8. Hand'
    BY <1>2, <1>5, <1>6 DEF Hand
  <1>9. NoStrandedEvent' /\ Counted'
    BY <1>5, <1>7 DEF QueueInv, NoStrandedEvent, Counted
  <1>10. QED
    BY <1>0, <1>4, <1>5, <1>6, <1>8, <1>9 DEF QueueTypes, QueueInv
-----------------------------------------------------------------------------
(* The events that went out *)

\* t is s with n copies of v at its end.
Extends(t, s, v, n) ==
  /\ t \in Seq(Types) /\ Len(t) = Len(s) + n
  /\ \A j \in 1..Len(s) : t[j] = s[j]
  /\ \A j \in 1..Len(t) : j > Len(s) => t[j] = v

LEMMA CopyFacts ==
  ASSUME NEW s \in Seq(Types), NEW v \in Types, NEW n \in Nat
  PROVE  Extends(s \o [j \in 1..n |-> v], s, v, n)
  <1> DEFINE c == [j \in 1..n |-> v]
  <1>1. c \in Seq(Types) /\ Len(c) = n
    OBVIOUS
  <1>2. \A j \in 1..n : c[j] = v
    OBVIOUS
  <1>3. Len(s) \in Nat
    BY LenProperties
  <1> HIDE DEF c
  <1>4. /\ s \o c \in Seq(Types) /\ Len(s \o c) = Len(s) + n
        /\ \A j \in 1..(Len(s) + n) : (s \o c)[j] = IF j <= Len(s) THEN s[j] ELSE c[j - Len(s)]
    BY <1>1, ConcatProperties
  <1>5. \A j \in 1..Len(s) : (s \o c)[j] = s[j]
    BY <1>3, <1>4
  <1>6. \A j \in 1..Len(s \o c) : j > Len(s) => (s \o c)[j] = v
    BY <1>2, <1>3, <1>4
  <1>7. Extends(s \o c, s, v, n)
    BY <1>4, <1>5, <1>6 DEF Extends
  <1>8. QED
    BY <1>7 DEF c

LEMMA AcceptFacts ==
  ASSUME StoreTypes, NEW e \in Events, NEW n \in Nat, accept(e, n)
  PROVE  /\ out' \in [Orders -> Seq(Types)]
         /\ Extends(out'[e[1]], out[e[1]], e[2], n)
         /\ \A o \in Orders \ {e[1]} : out'[o] = out[o]
  <1>1. e[1] \in Orders /\ e[2] \in Types
    BY DEF Events
  <1>2. out \in [Orders -> Seq(Types)] /\ out[e[1]] \in Seq(Types)
    BY <1>1 DEF StoreTypes
  <1> DEFINE t == out[e[1]] \o [j \in 1..n |-> e[2]]
  <1>3. Extends(t, out[e[1]], e[2], n)
    BY <1>1, <1>2, CopyFacts
  <1>4. out' = [out EXCEPT ![e[1]] = t]
    BY DEF accept
  <1>5. t \in Seq(Types)
    BY <1>3 DEF Extends
  <1> HIDE DEF t
  <1>6. out' \in [Orders -> Seq(Types)] /\ out'[e[1]] = t
    BY <1>1, <1>2, <1>4, <1>5
  <1>7. \A o \in Orders \ {e[1]} : out'[o] = out[o]
    BY <1>2, <1>4
  <1>8. QED
    BY <1>3, <1>6, <1>7

\* Copies of the next event of the flow keep the flow.
LEMMA ExtendFlow ==
  ASSUME NEW s \in Seq(Types), Flowing(s), NEW v \in Types, v = Last(s) + 1,
         NEW n \in Nat, NEW t, Extends(t, s, v, n)
  PROVE  /\ Flowing(t)
         /\ Last(t) = IF n = 0 THEN Last(s) ELSE v
         /\ n <= 1 /\ Distinct(s) => Distinct(t)
         /\ n > 0 => t # <<>>
         /\ s # <<>> => t # <<>>
  <1>0. /\ t \in Seq(Types) /\ Len(t) = Len(s) + n
        /\ \A j \in 1..Len(s) : t[j] = s[j]
        /\ \A j \in 1..Len(t) : j > Len(s) => t[j] = v
    BY DEF Extends
  <1>1. /\ Len(s) \in Nat /\ Len(t) \in Nat /\ v \in Nat
        /\ \A j \in 1..Len(s) : s[j] \in Nat
    <2>1. Len(s) \in Nat /\ Len(t) \in Nat
      BY <1>0, LenProperties
    <2>2. \A j \in 1..Len(s) : s[j] \in Types
      BY ElementOfSeq
    <2>3. Types \subseteq Nat
      BY DEF Types
    <2>4. QED
      BY <2>1, <2>2, <2>3
  <1>2. (s = <<>> <=> Len(s) = 0) /\ (t = <<>> <=> Len(t) = 0)
    BY <1>0, EmptySeq
  <1>3. /\ Len(s) = 0 => Last(s) = 0
        /\ Len(s) > 0 => Last(s) = s[Len(s)]
        /\ Len(t) = 0 => Last(t) = 0
        /\ Len(t) > 0 => Last(t) = t[Len(t)]
    BY <1>1, <1>2 DEF Last
  <1>4. Last(s) \in Nat
    BY <1>1, <1>3
  <1>5. Last(t) = IF n = 0 THEN Last(s) ELSE v
    <2>1. CASE n = 0
      <3>1. Len(t) = Len(s)
        BY <1>0, <1>1, <2>1
      <3>2. QED
        BY <1>0, <1>1, <1>3, <2>1, <3>1
    <2>2. CASE n > 0
      <3>1. Len(t) > Len(s) /\ Len(t) \in 1..Len(t)
        BY <1>0, <1>1, <2>2
      <3>2. t[Len(t)] = v
        BY <1>0, <3>1
      <3>3. QED
        BY <1>1, <1>3, <2>2, <3>1, <3>2
    <2>3. QED
      BY <2>1, <2>2
  <1>6. ASSUME NEW j \in 1..Len(t)
        PROVE  t[j] \in IF j = 1 THEN {1} ELSE {t[j - 1], t[j - 1] + 1}
    <2>1. CASE j <= Len(s)
      <3>1. s[j] \in IF j = 1 THEN {1} ELSE {s[j - 1], s[j - 1] + 1}
        <4>1. j \in 1..Len(s)
          BY <1>1, <2>1
        <4>2. QED
          BY <4>1 DEF Flowing
      <3>2. t[j] = s[j] /\ (j # 1 => t[j - 1] = s[j - 1])
        BY <1>0, <1>1, <2>1
      <3>3. QED
        BY <3>1, <3>2
    <2>2. CASE j = Len(s) + 1
      <3>1. t[j] = v
        BY <1>0, <1>1, <2>2
      <3>2. CASE j = 1
        <4>1. Last(s) = 0
          BY <1>1, <1>3, <2>2, <3>2
        <4>2. QED
          BY <3>1, <3>2, <4>1
      <3>3. CASE j # 1
        <4>1. j - 1 = Len(s) /\ Len(s) > 0
          BY <1>1, <2>2, <3>3
        <4>2. t[j - 1] = Last(s)
          BY <1>0, <1>1, <1>3, <4>1
        <4>3. QED
          BY <3>1, <3>3, <4>2
      <3>4. QED
        BY <3>2, <3>3
    <2>3. CASE j > Len(s) + 1
      <3>1. t[j] = v /\ t[j - 1] = v /\ j # 1
        BY <1>0, <1>1, <2>3
      <3>2. QED
        BY <3>1
    <2>4. QED
      BY <1>1, <2>1, <2>2, <2>3
  <1>7. ASSUME NEW j \in 1..Len(t)
        PROVE  t[j] <= Last(t)
    <2>1. CASE j <= Len(s)
      <3>1. t[j] = s[j] /\ s[j] <= Last(s) /\ s[j] \in Nat
        BY <1>0, <1>1, <2>1 DEF Flowing
      <3>2. Last(s) <= Last(t)
        BY <1>4, <1>5
      <3>3. QED
        BY <1>1, <1>4, <1>5, <3>1, <3>2
    <2>2. CASE j > Len(s)
      <3>1. t[j] = v /\ n # 0
        BY <1>0, <1>1, <2>2
      <3>2. QED
        BY <1>1, <1>5, <3>1
    <2>3. QED
      BY <1>1, <2>1, <2>2
  <1>8. ASSUME NEW w \in 1..Last(t)
        PROVE  \E j \in 1..Len(t) : t[j] = w
    <2>1. CASE w <= Last(s)
      <3>1. w \in 1..Last(s)
        BY <1>1, <1>4, <1>5, <2>1
      <3>2. PICK j \in 1..Len(s) : s[j] = w
        BY <3>1 DEF Flowing
      <3>3. j \in 1..Len(t) /\ t[j] = w
        BY <1>0, <1>1, <3>2
      <3>4. QED
        BY <3>3
    <2>2. CASE w > Last(s)
      <3>1. n # 0 /\ w = v
        BY <1>1, <1>4, <1>5, <2>2
      <3>2. Len(t) \in 1..Len(t) /\ t[Len(t)] = v
        BY <1>0, <1>1, <3>1
      <3>3. QED
        BY <3>1, <3>2
    <2>3. QED
      BY <1>1, <1>4, <1>5, <2>1, <2>2
  <1>9. ASSUME n <= 1, Distinct(s), NEW j \in 1..Len(t), NEW k \in 1..Len(t), t[j] = t[k]
        PROVE  j = k
    <2>1. \A i \in 1..Len(s) : s[i] <= Last(s)
      BY DEF Flowing
    <2>2. CASE j <= Len(s) /\ k <= Len(s)
      BY <1>0, <1>1, <1>9, <2>2 DEF Distinct
    <2>3. CASE j <= Len(s) /\ k > Len(s)
      <3>1. t[j] <= Last(s) /\ t[k] = Last(s) + 1 /\ t[j] \in Nat
        BY <1>0, <1>1, <2>1, <2>3
      <3>2. QED
        BY <1>4, <1>9, <3>1
    <2>4. CASE j > Len(s) /\ k <= Len(s)
      <3>1. t[k] <= Last(s) /\ t[j] = Last(s) + 1 /\ t[k] \in Nat
        BY <1>0, <1>1, <2>1, <2>4
      <3>2. QED
        BY <1>4, <1>9, <3>1
    <2>5. CASE j > Len(s) /\ k > Len(s)
      BY <1>0, <1>1, <1>9, <2>5
    <2>6. QED
      BY <1>1, <2>2, <2>3, <2>4, <2>5
  <1>10. Flowing(t)
    BY <1>6, <1>7, <1>8 DEF Flowing
  <1>11. n <= 1 /\ Distinct(s) => Distinct(t)
    BY <1>9 DEF Distinct
  <1>12. (n > 0 => t # <<>>) /\ (s # <<>> => t # <<>>)
    BY <1>0, <1>1, <1>2
  <1>13. QED
    BY <1>5, <1>10, <1>11, <1>12
-----------------------------------------------------------------------------
(* What each action of a request does *)

LEMMA ArriveFacts ==
  ASSUME Shape, NEW r \in Requests, Arrive(r)
  PROVE  /\ RequestTypes' /\ Others(r)
         /\ at[r] = "idle" /\ at'[r] = "loop"
         /\ index'[r] = index[r] /\ step'[r] = step[r] /\ parts'[r] = parts[r]
         /\ results'[r] = results[r]
         /\ UNCHANGED <<index, step, parts, results, orders, events, queueVars, hostVars,
                        out, wiped, disturbances>>
  <1>1. PICK b \in Bodies :
          body' = [body EXCEPT ![r] =
            [b EXCEPT !.count = IF b.kind = "order" THEN 1 ELSE clamp(@)]]
    BY DEF Arrive
  <1> DEFINE n == IF b.kind = "order" THEN 1 ELSE clamp(b.count)
             nb == [b EXCEPT !.count = n]
  <1>2. b \in [kind : {"order", "bulk", "lifecycle"}, count : Int, delayed : BOOLEAN]
    BY FlowAssumption
  <1>3. n \in 1..MAX_COUNT
    BY <1>2, FlowAssumption DEF clamp
  <1>4. nb \in BodyType
    <2> HIDE DEF n
    <2>1. QED
      BY <1>2, <1>3 DEF BodyType
  <1>5. body' = [body EXCEPT ![r] = nb]
    BY <1>1
  <1>6. body' \in [Requests -> BodyType] /\ \A q \in Requests \ {r} : body'[q] = body[q]
    <2> HIDE DEF nb
    <2>1. QED
      BY <1>4, <1>5 DEF Shape, RequestTypes
  <1>7. /\ UNCHANGED <<index, step, parts, results, orders, events, queueVars, hostVars>>
        /\ UNCHANGED <<out, wiped, disturbances>>
        /\ at[r] = "idle" /\ at' = [at EXCEPT ![r] = "loop"]
    BY DEF Arrive
  <1>8. /\ at' \in [Requests -> Places] /\ at'[r] = "loop"
        /\ \A q \in Requests \ {r} : at'[q] = at[q]
    BY <1>7 DEF Shape, RequestTypes, Places
  <1>9. RequestTypes'
    BY <1>6, <1>7, <1>8 DEF Shape, RequestTypes
  <1>10. Others(r)
    BY <1>6, <1>7, <1>8 DEF Others
  <1>11. QED
    BY <1>7, <1>8, <1>9, <1>10

LEMMA CreateFacts ==
  ASSUME Shape, Walks, NEW r \in Requests, Create(r)
  PROVE  /\ RequestTypes' /\ at[r] = "loop"
         /\ UNCHANGED <<events, queueVars, hostVars, out, wiped>>
         /\ \/ /\ Moves(r, "saved") /\ step'[r] = step[r] /\ parts'[r] = parts[r]
               /\ orders' = [orders EXCEPT ![OrderOf(r)] = 1]
               /\ disturbances' = disturbances
            \/ Ends(r, FALSE) /\ orders' = orders /\ disturbances' = disturbances + 1
  <1>1. /\ at[r] = "loop" /\ body' = body
        /\ UNCHANGED <<events, queueVars, hostVars, out, wiped>>
    BY DEF Create
  <1>2. CASE /\ orders' = [orders EXCEPT ![OrderOf(r)] = StatusAfter(1)]
             /\ goOn(r, "saved") /\ UNCHANGED disturbances
    <2>1. RequestTypes' /\ Moves(r, "saved") /\ step'[r] = step[r] /\ parts'[r] = parts[r]
      BY <1>1, <1>2, GoOnMoves DEF Places
    <2>2. QED
      BY <1>1, <1>2, <2>1 DEF StatusAfter
  <1>3. CASE Disturb /\ AfterOne(r, FALSE) /\ UNCHANGED orders
    BY <1>1, <1>3, AfterOneEnds DEF Disturb
  <1>4. QED
    BY <1>2, <1>3 DEF Create

LEMMA PauseFacts ==
  ASSUME Shape, Walks, NEW r \in Requests, PauseElapsed(r)
  PROVE  /\ RequestTypes' /\ at[r] = "pause" /\ Ends(r, FALSE) /\ at'[r] # "pause"
         /\ UNCHANGED <<orders, events, queueVars, hostVars, out, wiped, disturbances>>
  <1>1. /\ UNCHANGED <<body, step, parts, results, orders, events, queueVars, hostVars>>
        /\ UNCHANGED <<out, wiped, disturbances>> /\ at[r] = "pause"
    BY DEF PauseElapsed
  <1>2. /\ at \in [Requests -> Places] /\ index \in [Requests -> 1..MAX_COUNT]
        /\ body[r].count \in 1..MAX_COUNT /\ index[r] <= body[r].count /\ MAX_COUNT \in Nat
        /\ step[r] = 1 /\ parts[r] = {}
    BY <1>1, FlowAssumption DEF Shape, RequestTypes, BodyType, Walks, Walk
  <1>3. /\ at' \in [Requests -> Places] /\ index' \in [Requests -> 1..MAX_COUNT]
        /\ \A q \in Requests \ {r} : at'[q] = at[q] /\ index'[q] = index[q]
        /\ \/ at'[r] = "done" /\ index'[r] = index[r] /\ index[r] = body[r].count
           \/ at'[r] = "loop" /\ index'[r] = index[r] + 1 /\ index[r] < body[r].count
    <2>1. CASE index[r] < body[r].count
      BY <1>2, <2>1 DEF PauseElapsed, Places
    <2>2. CASE ~(index[r] < body[r].count)
      <3>1. at' = [at EXCEPT ![r] = "done"] /\ index' = index
        BY <2>2 DEF PauseElapsed
      <3>2. index[r] = body[r].count
        BY <1>2, <2>2
      <3>3. QED
        BY <1>2, <3>1, <3>2 DEF Places
    <2>3. QED
      BY <2>1, <2>2
  <1>4. RequestTypes'
    BY <1>1, <1>3 DEF Shape, RequestTypes
  <1>5. Ends(r, FALSE)
    BY <1>1, <1>2, <1>3 DEF Ends, Others
  <1>6. QED
    BY <1>1, <1>3, <1>4, <1>5

LEMMA MemoryFacts ==
  ASSUME Shape, Walks, NEW r \in Requests, DispatchToMemory(r)
  PROVE  /\ RequestTypes' /\ at[r] = "saved" /\ InMemory
         /\ UNCHANGED <<orders, hostVars, wiped>>
         /\ \/ /\ stopped /\ Ends(r, FALSE)
               /\ UNCHANGED <<events, queueVars, out, disturbances>>
            \/ /\ ~stopped /\ Moves(r, "dispatched")
               /\ step'[r] = step[r] /\ parts'[r] = parts[r]
               /\ Push(EventOf(r)) /\ accept(EventOf(r), 1)
  <1>1. /\ at[r] = "saved" /\ InMemory /\ body' = body /\ UNCHANGED <<orders, hostVars, wiped>>
    BY DEF DispatchToMemory
  <1>2. CASE stopped
    <2>1. AfterOne(r, FALSE) /\ UNCHANGED <<events, queueVars, out, disturbances>>
      BY <1>2 DEF DispatchToMemory, refused
    <2>2. RequestTypes' /\ Ends(r, FALSE)
      BY <1>1, <2>1, AfterOneEnds
    <2>3. QED
      BY <1>1, <1>2, <2>1, <2>2
  <1>3. CASE ~stopped
    <2>1. Push(EventOf(r)) /\ accept(EventOf(r), 1) /\ goOn(r, "dispatched")
      BY <1>3 DEF DispatchToMemory
    <2>2. /\ RequestTypes' /\ Moves(r, "dispatched")
          /\ step'[r] = step[r] /\ parts'[r] = parts[r]
      BY <1>1, <2>1, GoOnMoves DEF Places
    <2>3. QED
      BY <1>1, <1>3, <2>1, <2>2
  <1>4. QED
    BY <1>2, <1>3

LEMMA KafkaFacts ==
  ASSUME Shape, Walks, NEW r \in Requests, DispatchToKafka(r)
  PROVE  /\ RequestTypes' /\ at[r] = "saved" /\ ~InMemory
         /\ UNCHANGED <<orders, hostVars, wiped, events, queueVars, out, disturbances>>
         /\ \/ ~connected /\ Ends(r, FALSE)
            \/ /\ connected /\ Moves(r, "sending")
               /\ step'[r] = step[r] /\ parts'[r] = parts[r]
  <1>1. /\ at[r] = "saved" /\ ~InMemory /\ body' = body
        /\ UNCHANGED <<orders, hostVars, wiped>>
    BY DEF DispatchToKafka
  <1>2. CASE connected
    <2>1. goOn(r, "sending") /\ UNCHANGED <<events, queueVars, out, disturbances>>
      BY <1>2 DEF DispatchToKafka
    <2>2. /\ RequestTypes' /\ Moves(r, "sending")
          /\ step'[r] = step[r] /\ parts'[r] = parts[r]
      BY <1>1, <2>1, GoOnMoves DEF Places
    <2>3. QED
      BY <1>1, <1>2, <2>1, <2>2
  <1>3. CASE ~connected
    <2>1. AfterOne(r, FALSE) /\ UNCHANGED <<events, queueVars, out, disturbances>>
      BY <1>3 DEF DispatchToKafka, refused
    <2>2. RequestTypes' /\ Ends(r, FALSE)
      BY <1>1, <2>1, AfterOneEnds
    <2>3. QED
      BY <1>1, <1>3, <2>1, <2>2
  <1>4. QED
    BY <1>2, <1>3

\* The broker reports a partition, the key's where there is one.
LEMMA PartitionFacts ==
  ASSUME Shape, Walks, NEW r \in Requests, NEW p \in partitionsFor(EventOf(r))
  PROVE  /\ p \in Partitions
         /\ setting.keyed => p = IF step[r] = 2 THEN Hash[Product] ELSE Hash[OrderOf(r)]
  <1>1. EventOf(r) = <<OrderOf(r), step[r]>> /\ OrderOf(r) \in Orders
    BY EventFacts
  <1>2. pickEventKey(EventOf(r)) = IF step[r] = 2 THEN Product ELSE OrderOf(r)
    BY <1>1 DEF pickEventKey
  <1>3. Hash[Product] \in Partitions /\ Hash[OrderOf(r)] \in Partitions
    BY <1>1, FlowAssumption DEF Orders
  <1>4. CASE setting.keyed
    <2>1. p = Hash[pickEventKey(EventOf(r))]
      BY <1>4 DEF partitionsFor
    <2>2. QED
      BY <1>2, <1>3, <2>1
  <1>5. CASE ~setting.keyed
    BY <1>5 DEF partitionsFor
  <1>6. QED
    BY <1>4, <1>5

LEMMA ResolveFacts ==
  ASSUME Shape, Walks, NEW r \in Requests, SendResolves(r)
  PROVE  /\ RequestTypes' /\ at[r] = "sending" /\ Moves(r, "dispatched")
         /\ step'[r] = step[r]
         /\ UNCHANGED <<orders, events, queueVars, hostVars, wiped>>
         /\ \E n \in {1, 2} : accept(EventOf(r), n) /\ (n = 2 => ~setting.idempotent)
         /\ disturbances' \in {disturbances, disturbances + 1}
         /\ \E p \in partitionsFor(EventOf(r)) :
              parts'[r] = IF counts(r) THEN parts[r] \cup {p} ELSE parts[r]
  <1>1. /\ at[r] = "sending" /\ at' = [at EXCEPT ![r] = "dispatched"]
        /\ UNCHANGED <<body, index, step, results, orders, events, queueVars, hostVars, wiped>>
    BY DEF SendResolves
  <1>2. /\ \E n \in {1, 2} : accept(EventOf(r), n) /\ (n = 2 => ~setting.idempotent)
        /\ disturbances' \in {disturbances, disturbances + 1}
    <2>1. CASE accept(EventOf(r), 1) /\ UNCHANGED disturbances
      BY <2>1
    <2>2. CASE copies = 2 /\ Disturb /\ accept(EventOf(r), 2)
      <3>1. ~setting.idempotent
        BY <2>2 DEF copies
      <3>2. QED
        BY <2>2, <3>1 DEF Disturb
    <2>3. QED
      BY <2>1, <2>2 DEF SendResolves
  <1>3. PICK p \in partitionsFor(EventOf(r)) :
          parts' = IF counts(r) THEN [parts EXCEPT ![r] = @ \cup {p}] ELSE parts
    BY DEF SendResolves
  <1>4. p \in Partitions /\ parts \in [Requests -> SUBSET Partitions]
    BY PartitionFacts DEF Shape, RequestTypes
  <1>5. /\ parts' \in [Requests -> SUBSET Partitions]
        /\ parts'[r] = IF counts(r) THEN parts[r] \cup {p} ELSE parts[r]
        /\ \A q \in Requests \ {r} : parts'[q] = parts[q]
    <2>1. CASE counts(r)
      BY <1>3, <1>4, <2>1
    <2>2. CASE ~counts(r)
      BY <1>3, <1>4, <2>2
    <2>3. QED
      BY <2>1, <2>2
  <1>6. /\ at' \in [Requests -> Places] /\ at'[r] = "dispatched"
        /\ \A q \in Requests \ {r} : at'[q] = at[q]
    BY <1>1 DEF Shape, RequestTypes, Places
  <1>7. RequestTypes'
    BY <1>1, <1>5, <1>6 DEF Shape, RequestTypes
  <1>8. Moves(r, "dispatched") /\ step'[r] = step[r]
    BY <1>1, <1>5, <1>6 DEF Moves, Others
  <1>9. QED
    BY <1>1, <1>2, <1>5, <1>7, <1>8

LEMMA RejectFacts ==
  ASSUME Shape, Walks, NEW r \in Requests, SendRejects(r)
  PROVE  /\ RequestTypes' /\ at[r] = "sending" /\ Ends(r, FALSE)
         /\ UNCHANGED <<orders, events, queueVars, hostVars, wiped>>
         /\ \E n \in 0..2 : accept(EventOf(r), n) /\ (n = 2 => ~setting.idempotent)
         /\ \/ closing /\ disturbances' = disturbances
            \/ disturbances' = disturbances + 1
  <1>1. /\ at[r] = "sending" /\ AfterOne(r, FALSE)
        /\ UNCHANGED <<body, orders, events, queueVars, hostVars, wiped>>
        /\ (closing /\ disturbances' = disturbances) \/ disturbances' = disturbances + 1
    BY DEF SendRejects, Disturb
  <1>2. RequestTypes' /\ Ends(r, FALSE)
    BY <1>1, AfterOneEnds
  <1>3. PICK n \in 0..copies : accept(EventOf(r), n)
    BY DEF SendRejects
  <1>4. n \in 0..2 /\ (n = 2 => ~setting.idempotent)
    <2>1. CASE setting.idempotent
      BY <2>1 DEF copies
    <2>2. CASE ~setting.idempotent
      BY <2>2 DEF copies
    <2>3. QED
      BY <2>1, <2>2
  <1>5. QED
    BY <1>1, <1>2, <1>3, <1>4

LEMMA CreatedFacts ==
  ASSUME Shape, Walks, NEW r \in Requests, Created(r)
  PROVE  /\ RequestTypes' /\ at[r] = "dispatched" /\ step[r] = 1
         /\ UNCHANGED <<orders, events, queueVars, hostVars, out, wiped, disturbances>>
         /\ \/ /\ IsLifecycle(r) /\ Moves(r, "saved") /\ step'[r] = 2
               /\ parts'[r] = parts[r]
            \/ IsLifecycle(r) /\ orders[OrderOf(r)] = 0 /\ Ends(r, FALSE)
            \/ ~IsLifecycle(r) /\ Ends(r, TRUE)
  <1>1. /\ at[r] = "dispatched" /\ step[r] = 1 /\ body' = body
        /\ UNCHANGED <<orders, events, queueVars, hostVars, out, wiped, disturbances>>
    BY DEF Created
  <1>2. \/ IsLifecycle(r) /\ nextStep(r)
        \/ IsLifecycle(r) /\ orders[OrderOf(r)] = 0 /\ AfterOne(r, FALSE)
        \/ ~IsLifecycle(r) /\ AfterOne(r, TRUE)
    BY DEF Created
  <1>3. CASE IsLifecycle(r) /\ nextStep(r)
    <2>1. step[r] < 4 /\ step[r] + 1 = 2
      BY <1>1
    <2>2. /\ RequestTypes' /\ Moves(r, "saved") /\ step'[r] = step[r] + 1
          /\ parts'[r] = parts[r]
      BY <1>1, <1>3, <2>1, NextStepMoves
    <2>3. QED
      BY <1>1, <1>3, <2>1, <2>2
  <1>4. CASE IsLifecycle(r) /\ orders[OrderOf(r)] = 0 /\ AfterOne(r, FALSE)
    BY <1>1, <1>4, AfterOneEnds
  <1>5. CASE ~IsLifecycle(r) /\ AfterOne(r, TRUE)
    BY <1>1, <1>5, AfterOneEnds
  <1>6. QED
    BY <1>2, <1>3, <1>4, <1>5

LEMMA AdvanceFacts ==
  ASSUME Shape, Walks, NEW r \in Requests, Advance(r)
  PROVE  /\ RequestTypes' /\ at[r] = "dispatched" /\ step[r] \in 2..4 /\ IsLifecycle(r)
         /\ UNCHANGED <<events, queueVars, hostVars, out, wiped>>
         /\ \/ /\ orders[OrderOf(r)] # 0 /\ orders' = [orders EXCEPT ![OrderOf(r)] = step[r]]
               /\ disturbances' = disturbances
               /\ \/ step[r] = 4 /\ Ends(r, TRUE)
                  \/ /\ Moves(r, "saved") /\ step'[r] = step[r] + 1
                     /\ parts'[r] = parts[r]
            \/ /\ Ends(r, FALSE) /\ orders' = orders
               /\ \/ orders[OrderOf(r)] = 0 /\ disturbances' = disturbances
                  \/ disturbances' = disturbances + 1
  <1>1. /\ at[r] = "dispatched" /\ step[r] > 1 /\ body' = body
        /\ UNCHANGED <<events, queueVars, hostVars, out, wiped>>
    BY DEF Advance
  <1>2. step[r] \in 2..4 /\ IsLifecycle(r)
    BY <1>1 DEF Shape, RequestTypes, Types, Walks, Walk
  <1>3. Flow(r)[step[r]] = step[r] /\ Len(Flow(r)) = 4
    BY <1>2, FlowFacts, EventFacts
  <1>4. CASE /\ updateStatus(OrderOf(r), StatusAfter(Flow(r)[step[r]]))
             /\ UNCHANGED disturbances
             /\ IF step[r] = Len(Flow(r)) THEN AfterOne(r, TRUE) ELSE nextStep(r)
    <2>1. /\ orders[OrderOf(r)] # 0 /\ orders' = [orders EXCEPT ![OrderOf(r)] = step[r]]
      BY <1>3, <1>4 DEF updateStatus, StatusAfter
    <2>2. CASE step[r] = 4
      <3>1. AfterOne(r, TRUE)
        BY <1>3, <1>4, <2>2
      <3>2. RequestTypes' /\ Ends(r, TRUE)
        BY <1>1, <3>1, AfterOneEnds
      <3>3. QED
        BY <1>1, <1>2, <1>4, <2>1, <2>2, <3>2
    <2>3. CASE step[r] # 4
      <3>1. nextStep(r) /\ step[r] < 4
        BY <1>2, <1>3, <1>4, <2>3
      <3>2. /\ RequestTypes' /\ Moves(r, "saved") /\ step'[r] = step[r] + 1
            /\ parts'[r] = parts[r]
        BY <1>1, <3>1, NextStepMoves
      <3>3. QED
        BY <1>1, <1>2, <1>4, <2>1, <3>2
    <2>4. QED
      BY <2>2, <2>3
  <1>5. CASE /\ (orders[OrderOf(r)] = 0 /\ UNCHANGED disturbances) \/ Disturb
             /\ AfterOne(r, FALSE) /\ UNCHANGED orders
    <2>1. RequestTypes' /\ Ends(r, FALSE)
      BY <1>1, <1>5, AfterOneEnds
    <2>2. \/ orders[OrderOf(r)] = 0 /\ disturbances' = disturbances
          \/ disturbances' = disturbances + 1
      BY <1>5 DEF Disturb
    <2>3. QED
      BY <1>1, <1>2, <1>5, <2>1, <2>2
  <1>6. QED
    BY <1>4, <1>5 DEF Advance
-----------------------------------------------------------------------------
(* Types, requests and the queue *)

BaseInv == Shape /\ Walks /\ Host /\ QueueInv

LEMMA MovesWalk ==
  ASSUME Shape, Walks, NEW r \in Requests, NEW where \in {"saved", "sending", "dispatched"},
         Moves(r, where), step'[r] > 1 => IsLifecycle(r), IsFiniteSet(parts'[r])
  PROVE  Walks'
  <1>1. Walk(r)
    BY DEF Walks
  <1>2. Walk(r)'
    BY <1>1 DEF Walk, Moves, IsLifecycle
  <1>3. QED
    BY <1>2, WalkOthers DEF Moves

\* A step of a request that leaves the queue and the host alone.
LEMMA BaseSame ==
  ASSUME BaseInv, RequestTypes', StoreTypes', Walks', disturbances' \in Nat,
         UNCHANGED <<queueVars, hostVars, events>>,
         \A q \in Requests : at'[q] = "sending" => at[q] = "sending" \/ ~InMemory
  PROVE  BaseInv'
  <1>1. QueueTypes'
    BY DEF BaseInv, Shape, QueueTypes, queueVars
  <1>2. HostTypes'
    BY DEF BaseInv, Shape, HostTypes, queueVars, hostVars
  <1>3. QueueInv'
    BY DEF BaseInv, QueueInv, Hand, NoStrandedEvent, Counted, queueVars, hostVars
  <1>4. Host'
    <2>1. UNCHANGED <<stopped, closing, connected, setting, queue, inflight, events>>
      BY DEF queueVars, hostVars
    <2>2. Host
      BY DEF BaseInv
    <2>3. stopped' => closing'
      BY <2>1, <2>2 DEF Host
    <2>4. ~connected' => closing' \/ ~setting'.enabled
      BY <2>1, <2>2 DEF Host
    <2>5. InMemory' => \A r \in Requests : at'[r] # "sending"
      BY <2>1, <2>2 DEF Host, InMemory
    <2>6. ~InMemory' => queue' = <<>> /\ inflight' = {} /\ \A e \in Events : events'[e] = 0
      BY <2>1, <2>2 DEF Host, InMemory
    <2>7. QED
      BY <2>3, <2>4, <2>5, <2>6 DEF Host
  <1>5. QED
    BY <1>1, <1>2, <1>3, <1>4 DEF BaseInv, Shape

\* A step of the queue that leaves the host and the requests' way alone.
LEMMA BaseQueue ==
  ASSUME BaseInv, RequestTypes', StoreTypes', QueueTypes', draining' \in BOOLEAN,
         Walks', QueueInv', UNCHANGED hostVars, InMemory,
         \A q \in Requests : at'[q] # "sending"
  PROVE  BaseInv'
  <1>1. UNCHANGED <<stopped, closing, connected, setting, exited>>
    BY DEF hostVars
  <1>2. HostTypes'
    BY <1>1 DEF BaseInv, Shape, HostTypes
  <1>3. InMemory'
    BY <1>1 DEF InMemory
  <1>4. (stopped' => closing') /\ (~connected' => closing' \/ ~setting'.enabled)
    BY <1>1 DEF BaseInv, Host
  <1>5. Host'
    BY <1>3, <1>4 DEF Host
  <1>6. QED
    BY <1>2, <1>5 DEF BaseInv, Shape

\* Steps of a request, by what they do with its order.
LEMMA EndsBase ==
  ASSUME BaseInv, NEW r \in Requests, NEW done \in BOOLEAN, Ends(r, done), RequestTypes',
         StoreTypes', disturbances' \in Nat, UNCHANGED <<queueVars, hostVars, events>>
  PROVE  BaseInv'
  <1>1. Walks'
    BY EndsWalk DEF BaseInv
  <1>2. \A q \in Requests : at'[q] = "sending" => at[q] = "sending"
    BY DEF Ends, Others
  <1>3. QED
    BY <1>1, <1>2, BaseSame

LEMMA MovesBase ==
  ASSUME BaseInv, NEW r \in Requests, NEW where \in {"saved", "sending", "dispatched"},
         Moves(r, where), RequestTypes', step'[r] > 1 => IsLifecycle(r),
         IsFiniteSet(parts'[r]), where = "sending" => ~InMemory,
         StoreTypes', disturbances' \in Nat, UNCHANGED <<queueVars, hostVars, events>>
  PROVE  BaseInv'
  <1>1. Walks'
    BY MovesWalk DEF BaseInv
  <1>2. \A q \in Requests : at'[q] = "sending" => at[q] = "sending" \/ ~InMemory
    BY DEF Moves, Others
  <1>3. QED
    BY <1>1, <1>2, BaseSame

\* saveOrder and updateStatus write one status.
LEMMA OrdersWritten ==
  ASSUME NEW f \in [Orders -> 0..4], NEW o, NEW v \in 0..4
  PROVE  [f EXCEPT ![o] = v] \in [Orders -> 0..4]
  OBVIOUS

LEMMA BaseStep == BaseInv /\ [Next]_vars => BaseInv'
  <1> SUFFICES ASSUME BaseInv, [Next]_vars
               PROVE  BaseInv'
    OBVIOUS
  <1>a. /\ Shape /\ Walks /\ Host /\ QueueInv /\ StoreTypes /\ RequestTypes
        /\ disturbances \in Nat
    BY DEF BaseInv, Shape, QueueTypes
  <1>b. \A r \in Requests : IsFiniteSet(parts[r]) /\ (step[r] > 1 => IsLifecycle(r))
    BY <1>a DEF Walks, Walk
  <1>c. ASSUME UNCHANGED <<orders, events, out, wiped>>
        PROVE  StoreTypes'
    BY <1>a, <1>c DEF StoreTypes
  <1>1. ASSUME NEW r \in Requests, Arrive(r)
        PROVE  BaseInv'
    <2>1. /\ RequestTypes' /\ Others(r) /\ at[r] = "idle" /\ at'[r] = "loop"
          /\ index'[r] = index[r] /\ step'[r] = step[r] /\ parts'[r] = parts[r]
          /\ results'[r] = results[r]
          /\ UNCHANGED <<orders, events, queueVars, hostVars, out, wiped, disturbances>>
      BY <1>1, <1>a, ArriveFacts
    <2>2. index[r] = 1 /\ results[r] = {} /\ step[r] = 1 /\ parts[r] = {}
      BY <1>a, <2>1 DEF Walks, Walk
    <2>3. body'[r].count \in 1..MAX_COUNT
      BY <2>1 DEF RequestTypes, BodyType
    <2>4. Walk(r)'
      BY <2>1, <2>2, <2>3, FS_EmptySet DEF Walk
    <2>5. Walks'
      BY <1>a, <2>1, <2>4, WalkOthers
    <2>6. \A q \in Requests : at'[q] = "sending" => at[q] = "sending"
      BY <2>1 DEF Others
    <2>7. StoreTypes'
      BY <1>c, <2>1
    <2>8. QED
      BY <1>a, <2>1, <2>5, <2>6, <2>7, BaseSame
  <1>2. ASSUME NEW r \in Requests, PauseElapsed(r)
        PROVE  BaseInv'
    <2>1. /\ RequestTypes' /\ Ends(r, FALSE)
          /\ UNCHANGED <<orders, events, queueVars, hostVars, out, wiped, disturbances>>
      BY <1>2, <1>a, PauseFacts
    <2>2. StoreTypes'
      BY <1>c, <2>1
    <2>3. QED
      BY <1>a, <2>1, <2>2, EndsBase
  <1>3. ASSUME NEW r \in Requests, Create(r)
        PROVE  BaseInv'
    <2>1. /\ RequestTypes' /\ UNCHANGED <<events, queueVars, hostVars, out, wiped>>
          /\ \/ /\ Moves(r, "saved") /\ step'[r] = step[r] /\ parts'[r] = parts[r]
                /\ orders' = [orders EXCEPT ![OrderOf(r)] = 1]
                /\ disturbances' = disturbances
             \/ Ends(r, FALSE) /\ orders' = orders /\ disturbances' = disturbances + 1
      BY <1>3, <1>a, CreateFacts
    <2>2. CASE /\ Moves(r, "saved") /\ step'[r] = step[r] /\ parts'[r] = parts[r]
               /\ orders' = [orders EXCEPT ![OrderOf(r)] = 1]
               /\ disturbances' = disturbances
      <3>1. orders' \in [Orders -> 0..4]
        BY <1>a, <2>2, OrdersWritten DEF StoreTypes
      <3>2. StoreTypes'
        BY <1>a, <2>1, <3>1 DEF StoreTypes
      <3>3. QED
        BY <1>a, <1>b, <2>1, <2>2, <3>2, MovesBase
    <2>3. CASE Ends(r, FALSE) /\ orders' = orders /\ disturbances' = disturbances + 1
      <3>1. StoreTypes' /\ disturbances' \in Nat
        BY <1>a, <1>c, <2>1, <2>3
      <3>2. QED
        BY <2>1, <2>3, <3>1, EndsBase
    <2>4. QED
      BY <2>1, <2>2, <2>3
  <1>4. ASSUME NEW r \in Requests, DispatchToMemory(r)
        PROVE  BaseInv'
    <2>1. /\ RequestTypes' /\ at[r] = "saved" /\ InMemory
          /\ UNCHANGED <<orders, hostVars, wiped>>
          /\ \/ /\ stopped /\ Ends(r, FALSE)
                /\ UNCHANGED <<events, queueVars, out, disturbances>>
             \/ /\ ~stopped /\ Moves(r, "dispatched")
                /\ step'[r] = step[r] /\ parts'[r] = parts[r]
                /\ Push(EventOf(r)) /\ accept(EventOf(r), 1)
      BY <1>4, <1>a, MemoryFacts
    <2>2. CASE Ends(r, FALSE) /\ UNCHANGED <<events, queueVars, out, disturbances>>
      <3>1. StoreTypes'
        BY <1>c, <2>1, <2>2
      <3>2. QED
        BY <1>a, <2>1, <2>2, <3>1, EndsBase
    <2>3. CASE /\ Moves(r, "dispatched") /\ step'[r] = step[r] /\ parts'[r] = parts[r]
               /\ Push(EventOf(r)) /\ accept(EventOf(r), 1)
      <3>1. EventOf(r) \in Events /\ stopped' = stopped
        BY <1>a, <2>1, EventFacts DEF hostVars
      <3>2. /\ events' \in [Events -> Nat] /\ QueueTypes' /\ draining' \in BOOLEAN
            /\ QueueInv'
        BY <1>a, <2>3, <3>1, PushLeaves
      <3>3. out' \in [Orders -> Seq(Types)]
        BY <1>a, <2>3, <3>1, AcceptFacts
      <3>4. StoreTypes'
        BY <1>a, <2>1, <3>2, <3>3 DEF StoreTypes
      <3>5. Walks'
        BY <1>a, <1>b, <2>3, MovesWalk
      <3>6. \A q \in Requests : at'[q] # "sending"
        BY <1>a, <2>1, <2>3 DEF Moves, Others, Host
      <3>7. QED
        BY <2>1, <3>2, <3>4, <3>5, <3>6, BaseQueue
    <2>4. QED
      BY <2>1, <2>2, <2>3
  <1>5. ASSUME NEW r \in Requests, DispatchToKafka(r)
        PROVE  BaseInv'
    <2>1. /\ RequestTypes' /\ ~InMemory
          /\ UNCHANGED <<orders, hostVars, wiped, events, queueVars, out, disturbances>>
          /\ \/ Ends(r, FALSE)
             \/ Moves(r, "sending") /\ step'[r] = step[r] /\ parts'[r] = parts[r]
      BY <1>5, <1>a, KafkaFacts
    <2>2. StoreTypes'
      BY <1>c, <2>1
    <2>3. CASE Ends(r, FALSE)
      BY <1>a, <2>1, <2>2, <2>3, EndsBase
    <2>4. CASE Moves(r, "sending") /\ step'[r] = step[r] /\ parts'[r] = parts[r]
      BY <1>a, <1>b, <2>1, <2>2, <2>4, MovesBase
    <2>5. QED
      BY <2>1, <2>3, <2>4
  <1>6. ASSUME NEW r \in Requests, Created(r)
        PROVE  BaseInv'
    <2>1. /\ RequestTypes'
          /\ UNCHANGED <<orders, events, queueVars, hostVars, out, wiped, disturbances>>
          /\ \/ IsLifecycle(r) /\ Moves(r, "saved") /\ parts'[r] = parts[r]
             \/ Ends(r, FALSE)
             \/ Ends(r, TRUE)
      BY <1>6, <1>a, CreatedFacts
    <2>2. StoreTypes'
      BY <1>c, <2>1
    <2>3. ASSUME NEW done \in BOOLEAN, Ends(r, done)
          PROVE  BaseInv'
      BY <1>a, <2>1, <2>2, <2>3, EndsBase
    <2>4. CASE IsLifecycle(r) /\ Moves(r, "saved") /\ parts'[r] = parts[r]
      BY <1>a, <1>b, <2>1, <2>2, <2>4, MovesBase
    <2>5. QED
      BY <2>1, <2>3, <2>4
  <1>7. ASSUME NEW r \in Requests, Advance(r)
        PROVE  BaseInv'
    <2>1. /\ RequestTypes' /\ step[r] \in 2..4 /\ IsLifecycle(r)
          /\ UNCHANGED <<events, queueVars, hostVars, out, wiped>>
          /\ \/ orders' = [orders EXCEPT ![OrderOf(r)] = step[r]]
             \/ orders' = orders
          /\ disturbances' \in {disturbances, disturbances + 1}
          /\ \/ Ends(r, TRUE)
             \/ Ends(r, FALSE)
             \/ Moves(r, "saved") /\ parts'[r] = parts[r]
      BY <1>7, <1>a, AdvanceFacts
    <2>2. StoreTypes' /\ disturbances' \in Nat
      <3>1. orders \in [Orders -> 0..4] /\ step[r] \in 0..4
        BY <1>a, <2>1 DEF StoreTypes
      <3>2. orders' \in [Orders -> 0..4]
        BY <2>1, <3>1, OrdersWritten
      <3>3. QED
        BY <1>a, <2>1, <3>2 DEF StoreTypes
    <2>3. ASSUME NEW done \in BOOLEAN, Ends(r, done)
          PROVE  BaseInv'
      BY <1>a, <2>1, <2>2, <2>3, EndsBase
    <2>4. CASE Moves(r, "saved") /\ parts'[r] = parts[r]
      BY <1>a, <1>b, <2>1, <2>2, <2>4, MovesBase
    <2>5. QED
      BY <2>1, <2>3, <2>4
  <1>8. ASSUME NEW r \in Requests, SendResolves(r)
        PROVE  BaseInv'
    <2>1. /\ RequestTypes' /\ Moves(r, "dispatched") /\ step'[r] = step[r]
          /\ UNCHANGED <<orders, events, queueVars, hostVars, wiped>>
          /\ disturbances' \in {disturbances, disturbances + 1}
      BY <1>8, <1>a, ResolveFacts
    <2>2. \E n \in {1, 2} : accept(EventOf(r), n)
      BY <1>8, <1>a, ResolveFacts
    <2>3. out' \in [Orders -> Seq(Types)]
      BY <1>a, <2>2, EventFacts, AcceptFacts
    <2>4. StoreTypes' /\ disturbances' \in Nat
      BY <1>a, <2>1, <2>3 DEF StoreTypes
    <2>5. IsFiniteSet(parts'[r])
      <3>1. PICK p \in partitionsFor(EventOf(r)) :
              parts'[r] = IF counts(r) THEN parts[r] \cup {p} ELSE parts[r]
        BY <1>8, <1>a, ResolveFacts
      <3>2. IsFiniteSet(parts[r] \cup {p})
        BY <1>b, FS_AddElement
      <3>3. QED
        BY <1>b, <3>1, <3>2
    <2>6. QED
      BY <1>a, <1>b, <2>1, <2>4, <2>5, MovesBase
  <1>9. ASSUME NEW r \in Requests, SendRejects(r)
        PROVE  BaseInv'
    <2>1. /\ RequestTypes' /\ Ends(r, FALSE)
          /\ UNCHANGED <<orders, events, queueVars, hostVars, wiped>>
          /\ disturbances' \in {disturbances, disturbances + 1}
      BY <1>9, <1>a, RejectFacts
    <2>2. \E n \in 0..2 : accept(EventOf(r), n)
      BY <1>9, <1>a, RejectFacts
    <2>3. out' \in [Orders -> Seq(Types)]
      BY <1>a, <2>2, EventFacts, AcceptFacts
    <2>4. StoreTypes' /\ disturbances' \in Nat
      BY <1>a, <2>1, <2>3 DEF StoreTypes
    <2>5. QED
      BY <2>1, <2>4, EndsBase
  <1>d. ASSUME UNCHANGED requestVars
        PROVE  RequestTypes' /\ Walks' /\ UNCHANGED at
    BY <1>a, <1>d DEF requestVars, RequestTypes, Walks, Walk, IsLifecycle
  <1>e. ASSUME inflight # {} PROVE InMemory
    BY <1>a, <1>e DEF Host
  <1>10. CASE DelayElapsed
    <2>1. UNCHANGED <<requestVars, orders, draining, hostVars, out, wiped>> /\ inflight # {}
      BY <1>10 DEF DelayElapsed
    <2>2. events' \in [Events -> Nat] /\ QueueTypes' /\ QueueInv'
      BY <1>a, <1>10, DelayLeaves
    <2>3. StoreTypes' /\ draining' \in BOOLEAN
      BY <1>a, <2>1, <2>2 DEF StoreTypes, Shape, HostTypes
    <2>4. \A q \in Requests : at'[q] # "sending"
      BY <1>a, <1>d, <1>e, <2>1 DEF Host
    <2>5. QED
      BY <1>d, <1>e, <2>1, <2>2, <2>3, <2>4, BaseQueue
  <1>11. CASE DrainResumes
    <2>1. UNCHANGED <<requestVars, orders, hostVars, out, wiped>> /\ inflight # {}
      BY <1>11 DEF DrainResumes
    <2>2. events' \in [Events -> Nat] /\ QueueTypes' /\ QueueInv' /\ draining' \in BOOLEAN
      BY <1>a, <1>11, ResumeLeaves
    <2>3. StoreTypes'
      BY <1>a, <2>1, <2>2 DEF StoreTypes
    <2>4. \A q \in Requests : at'[q] # "sending"
      BY <1>a, <1>d, <1>e, <2>1 DEF Host
    <2>5. QED
      BY <1>d, <1>e, <2>1, <2>2, <2>3, <2>4, BaseQueue
  <1>12. CASE Reset
    <2>1. /\ UNCHANGED <<requestVars, queueVars, hostVars, out>>
          /\ events' = [e \in Events |-> 0]
          /\ orders' = [o \in Orders |-> 0] \/ orders' = orders
          /\ wiped' = wiped \cup {o \in Orders : orders[o] # 0} \/ wiped' = wiped
          /\ disturbances' = disturbances + 1
      BY <1>12 DEF Reset, Disturb
    <2>2. StoreTypes' /\ disturbances' \in Nat
      BY <1>a, <2>1 DEF StoreTypes
    <2>3. QueueTypes'
      BY <1>a, <2>1, <2>2 DEF Shape, QueueTypes, queueVars
    <2>4. HostTypes'
      BY <1>a, <2>1 DEF Shape, HostTypes, queueVars, hostVars
    <2>5. QueueInv'
      BY <1>a, <2>1 DEF QueueInv, Hand, NoStrandedEvent, Counted, queueVars, hostVars
    <2>6. Host'
      <3>1. UNCHANGED <<stopped, closing, connected, setting, queue, inflight, at>>
        BY <2>1 DEF queueVars, hostVars, requestVars
      <3>2. \A e \in Events : events'[e] = 0
        BY <2>1
      <3>3. (stopped' => closing') /\ (~connected' => closing' \/ ~setting'.enabled)
        BY <1>a, <3>1 DEF Host
      <3>4. QED
        BY <1>a, <3>1, <3>2, <3>3 DEF Host, InMemory
    <2>7. QED
      BY <1>d, <2>1, <2>2, <2>3, <2>4, <2>5, <2>6 DEF BaseInv, Shape
  <1>f. ASSUME UNCHANGED <<requestVars, orders, events, queueVars, out, wiped,
                           disturbances>>, UNCHANGED setting,
               stopped' \in BOOLEAN, connected' \in BOOLEAN, closing' \in BOOLEAN,
               exited' \in BOOLEAN, stopped => stopped', stopped' => closing',
               ~connected' => closing' \/ ~setting.enabled
        PROVE  BaseInv'
    <2>1. UNCHANGED <<queue, draining, inflight, enqueued, processed, failed>>
      BY <1>f DEF queueVars
    <2>2. StoreTypes' /\ QueueTypes'
      BY <1>a, <1>c, <1>f, <2>1 DEF Shape, QueueTypes
    <2>3. HostTypes'
      BY <1>a, <1>f, <2>1 DEF Shape, HostTypes
    <2>4. QueueInv'
      <3>1. Hand' /\ Counted'
        BY <1>a, <2>1 DEF QueueInv, Hand, Counted
      <3>2. NoStrandedEvent'
        BY <1>a, <1>f, <2>1 DEF QueueInv, NoStrandedEvent
      <3>3. QED
        BY <3>1, <3>2 DEF QueueInv
    <2>5. Host'
      <3>1. UNCHANGED <<setting, queue, inflight, at, events>>
        BY <1>d, <1>f, <2>1
      <3>2. (stopped' => closing') /\ (~connected' => closing' \/ ~setting'.enabled)
        BY <1>f, <3>1
      <3>3. QED
        BY <1>a, <3>1, <3>2 DEF Host, InMemory
    <2>6. QED
      BY <1>d, <1>f, <2>2, <2>3, <2>4, <2>5 DEF BaseInv, Shape
  <1>g. /\ stopped \in BOOLEAN /\ connected \in BOOLEAN /\ closing \in BOOLEAN
        /\ exited \in BOOLEAN /\ (stopped => closing)
        /\ (~connected => closing \/ ~setting.enabled)
    BY <1>a DEF Shape, HostTypes, Host
  <1>13. CASE Terminate
    <2>1. /\ closing' = TRUE /\ stopped' = TRUE
          /\ UNCHANGED <<setting, connected, exited, requestVars, orders, events>>
          /\ UNCHANGED <<queueVars, out, wiped, disturbances>>
      BY <1>13 DEF Terminate
    <2>2. QED
      BY <1>f, <1>g, <2>1
  <1>14. CASE Disconnected
    <2>1. /\ closing /\ connected' = FALSE
          /\ UNCHANGED <<setting, stopped, closing, exited, requestVars, orders, events>>
          /\ UNCHANGED <<queueVars, out, wiped, disturbances>>
      BY <1>14 DEF Disconnected
    <2>2. QED
      BY <1>f, <1>g, <2>1
  <1>15. CASE Exit
    <2>1. /\ exited' = TRUE
          /\ UNCHANGED <<setting, stopped, connected, closing, requestVars, orders, events>>
          /\ UNCHANGED <<queueVars, out, wiped, disturbances>>
      BY <1>15 DEF Exit
    <2>2. QED
      BY <1>f, <1>g, <2>1
  <1>16. CASE UNCHANGED vars
    <2>1. /\ UNCHANGED <<requestVars, orders, events, queueVars, out, wiped, disturbances>>
          /\ UNCHANGED <<setting, stopped, connected, closing, exited>>
      BY <1>16 DEF vars, hostVars
    <2>2. QED
      BY <1>f, <1>g, <2>1
  <1>17. QED
    BY <1>1, <1>2, <1>3, <1>4, <1>5, <1>6, <1>7, <1>8, <1>9, <1>10, <1>11, <1>12, <1>13,
       <1>14, <1>15, <1>16 DEF Next, Resumes, Settles
-----------------------------------------------------------------------------
(* Events that went out, and the store *)

\* A step of request r leaves the orders of the others alone.
LEMMA OutOne ==
  ASSUME BaseInv, BaseInv', OutInv, NEW r \in Requests, Others(r), NEW o \in Orders,
         o = OrderOf(r), UNCHANGED <<setting, wiped>>, disturbances' >= disturbances,
         \A x \in Orders \ {o} : out'[x] = out[x] /\ orders'[x] = orders[x],
         Sound(o)', Untouched(r)', UnderWay(r)'
  PROVE  OutInv'
  <1>1. ASSUME NEW x \in Orders
        PROVE  Sound(x)'
    <2>1. CASE x = o
      BY <2>1
    <2>2. CASE x # o
      <3>1. out'[x] = out[x] /\ orders'[x] = orders[x] /\ Sound(x)
        BY <2>2 DEF OutInv
      <3>2. QED
        BY <3>1 DEF Sound, InMemory
    <2>3. QED
      BY <2>1, <2>2
  <1>2. ASSUME NEW q \in Requests
        PROVE  Untouched(q)' /\ UnderWay(q)'
    <2>1. CASE q = r
      BY <2>1
    <2>2. CASE q # r
      <3>1. at'[q] = at[q] /\ index'[q] = index[q] /\ step'[q] = step[q]
        BY <2>2 DEF Others
      <3>2. Untouched(q) /\ UnderWay(q)
        BY DEF OutInv
      <3>3. ASSUME NEW i \in 1..MAX_COUNT
            PROVE  <<q, i>> \in Orders \ {o}
        BY <2>2 DEF Orders, OrderOf
      <3>4. index[q] \in 1..MAX_COUNT
        BY DEF BaseInv, Shape, RequestTypes
      <3>5. Untouched(q)'
        BY <3>1, <3>2, <3>3 DEF Untouched, Fresh
      <3>6. UnderWay(q)'
        <4>1. /\ out'[<<q, index[q]>>] = out[<<q, index[q]>>]
              /\ orders'[<<q, index[q]>>] = orders[<<q, index[q]>>]
          BY <3>3, <3>4
        <4>2. QED
          BY <3>1, <3>2, <4>1 DEF UnderWay, OrderOf, Current, Sent, Due
      <3>7. QED
        BY <3>5, <3>6
    <2>3. QED
      BY <2>1, <2>2
  <1>3. wiped' # {} => disturbances' > 0
    <2>1. disturbances \in Nat /\ disturbances' \in Nat
      BY DEF BaseInv, Shape, QueueTypes
    <2>2. QED
      BY <2>1 DEF OutInv
  <1>4. QED
    BY <1>1, <1>2, <1>3 DEF OutInv

LEMMA SoundSame ==
  ASSUME NEW o, Sound(o), out'[o] = out[o], orders'[o] = orders[o],
         UNCHANGED <<wiped, setting>>
  PROVE  Sound(o)'
  BY DEF Sound, InMemory

\* A request that is through with an order has touched no later one.
LEMMA EndsOut ==
  ASSUME BaseInv, BaseInv', OutInv, NEW r \in Requests, NEW done \in BOOLEAN,
         Ends(r, done), NEW o \in Orders, o = OrderOf(r), UNCHANGED <<setting, wiped>>,
         disturbances' >= disturbances,
         \A x \in Orders \ {o} : out'[x] = out[x] /\ orders'[x] = orders[x],
         Sound(o)'
  PROVE  OutInv'
  <1>1. index[r] \in 1..MAX_COUNT /\ MAX_COUNT \in Nat /\ o = <<r, index[r]>>
    BY FlowAssumption DEF BaseInv, Shape, RequestTypes, OrderOf
  <1>2. Untouched(r)'
    <2>1. ASSUME NEW i \in 1..MAX_COUNT, Fresh(r, i)'
          PROVE  orders'[<<r, i>>] = 0 /\ <<r, i>> \notin wiped' /\ out'[<<r, i>>] = <<>>
      <3>1. i > index[r]
        BY <1>1, <2>1 DEF Fresh, Ends
      <3>2. <<r, i>> \in Orders \ {o}
        BY <1>1, <3>1 DEF Orders
      <3>3. orders[<<r, i>>] = 0 /\ <<r, i>> \notin wiped /\ out[<<r, i>>] = <<>>
        BY <3>1 DEF OutInv, Untouched, Fresh
      <3>4. QED
        BY <3>2, <3>3
    <2>2. QED
      BY <2>1 DEF Untouched
  <1>3. UnderWay(r)'
    BY DEF UnderWay, Current, Ends
  <1>4. QED
    BY <1>2, <1>3, OutOne DEF Ends

\* A request that stays with its order.
LEMMA MovesOut ==
  ASSUME BaseInv, BaseInv', OutInv, NEW r \in Requests,
         NEW where \in {"saved", "sending", "dispatched"}, Moves(r, where),
         NEW o \in Orders, o = OrderOf(r), UNCHANGED <<setting, wiped>>,
         disturbances' >= disturbances,
         \A x \in Orders \ {o} : out'[x] = out[x] /\ orders'[x] = orders[x],
         Sound(o)',
         Last(out'[o]) = IF where = "dispatched" THEN step'[r] ELSE step'[r] - 1,
         orders'[o] \in {0, IF step'[r] = 1 THEN 1 ELSE step'[r] - 1},
         orders'[o] = 0 => o \in wiped
  PROVE  OutInv'
  <1>1. /\ index[r] \in 1..MAX_COUNT /\ MAX_COUNT \in Nat /\ o = <<r, index[r]>>
        /\ index'[r] = index[r] /\ at'[r] = where
    BY FlowAssumption DEF BaseInv, Shape, RequestTypes, OrderOf, Moves
  <1>2. Untouched(r)'
    <2>1. ASSUME NEW i \in 1..MAX_COUNT, Fresh(r, i)'
          PROVE  orders'[<<r, i>>] = 0 /\ <<r, i>> \notin wiped' /\ out'[<<r, i>>] = <<>>
      <3>1. i > index[r]
        BY <1>1, <2>1 DEF Fresh
      <3>2. <<r, i>> \in Orders \ {o}
        BY <1>1, <3>1 DEF Orders
      <3>3. orders[<<r, i>>] = 0 /\ <<r, i>> \notin wiped /\ out[<<r, i>>] = <<>>
        BY <3>1 DEF OutInv, Untouched, Fresh
      <3>4. QED
        BY <3>2, <3>3
    <2>2. QED
      BY <2>1 DEF Untouched
  <1>3. UnderWay(r)'
    BY <1>1 DEF UnderWay, Current, Sent, Due, OrderOf
  <1>4. QED
    BY <1>2, <1>3, OutOne DEF Moves

\* Copies of the event a request is at go out.
LEMMA AcceptOut ==
  ASSUME BaseInv, OutInv, NEW r \in Requests, at[r] \in {"saved", "sending"},
         NEW n \in 0..2, accept(EventOf(r), n), n = 2 => ~setting.idempotent /\ ~InMemory,
         UNCHANGED <<setting, wiped, orders>>, NEW o \in Orders, o = OrderOf(r)
  PROVE  /\ Sound(o)'
         /\ Last(out[o]) = step[r] - 1
         /\ Last(out'[o]) = IF n = 0 THEN step[r] - 1 ELSE step[r]
         /\ out[o] # <<>> => out'[o] # <<>>
         /\ orders[o] \in {0, Due(r)} /\ (orders[o] = 0 => o \in wiped)
         /\ \A x \in Orders \ {o} : out'[x] = out[x] /\ orders'[x] = orders[x]
  <1>1. /\ EventOf(r) = <<o, step[r]>> /\ EventOf(r) \in Events /\ step[r] \in Types
        /\ StoreTypes /\ out[o] \in Seq(Types)
    BY EventFacts DEF BaseInv, Shape, StoreTypes, RequestTypes
  <1>2. /\ Extends(out'[o], out[o], step[r], n)
        /\ \A x \in Orders \ {o} : out'[x] = out[x]
    <2>1. EventOf(r)[1] = o /\ EventOf(r)[2] = step[r] /\ n \in Nat
      BY <1>1
    <2>2. QED
      BY <1>1, <2>1, AcceptFacts
  <1>3. /\ Last(out[o]) = step[r] - 1 /\ orders[o] \in {0, Due(r)}
        /\ (orders[o] = 0 => o \in wiped)
    BY DEF OutInv, UnderWay, Current, Sent
  <1>4. Sound(o)
    BY DEF OutInv
  <1>5. step[r] = Last(out[o]) + 1 /\ step[r] \in Nat
    BY <1>1, <1>3 DEF Types
  <1>6. /\ Flowing(out'[o])
        /\ Last(out'[o]) = IF n = 0 THEN Last(out[o]) ELSE step[r]
        /\ n <= 1 /\ Distinct(out[o]) => Distinct(out'[o])
        /\ out[o] # <<>> => out'[o] # <<>>
    <2>1. Flowing(out[o]) /\ n \in Nat
      BY <1>4 DEF Sound
    <2>2. QED
      BY <1>1, <1>2, <1>5, <2>1, ExtendFlow
  <1>7. Sound(o)'
    <2>1. InMemory' \/ setting'.idempotent => Distinct(out'[o])
      <3>1. InMemory' \/ setting'.idempotent => InMemory \/ setting.idempotent
        BY DEF InMemory
      <3>2. ASSUME InMemory \/ setting.idempotent
            PROVE  n <= 1 /\ Distinct(out[o])
        BY <1>4, <3>2 DEF Sound
      <3>3. QED
        BY <1>6, <3>1, <3>2
    <2>2. orders'[o] # 0 => \/ orders'[o] \in {Last(out'[o]) - 1, Last(out'[o])}
                            \/ Last(out'[o]) = 0 /\ orders'[o] = 1
      <3>1. CASE step[r] = 1
        BY <1>3, <1>6, <3>1 DEF Due
      <3>2. CASE step[r] # 1
        BY <1>3, <1>5, <1>6, <3>2 DEF Due
      <3>3. QED
        BY <3>1, <3>2
    <2>3. (out'[o] # <<>> /\ orders'[o] = 0 => o \in wiped') /\ (o \in wiped' => orders'[o] = 0)
      BY <1>3, <1>4 DEF Sound
    <2>4. QED
      BY <1>6, <2>1, <2>2, <2>3 DEF Sound
  <1>8. QED
    BY <1>2, <1>3, <1>6, <1>7

\* A step that leaves the requests, the store's orders and the channels alone.
LEMMA OutSame ==
  ASSUME BaseInv, BaseInv', OutInv, UNCHANGED <<setting, wiped, orders, out, at, index, step>>,
         disturbances' >= disturbances
  PROVE  OutInv'
  <1>1. \A o \in Orders : Sound(o)'
    BY DEF OutInv, Sound, InMemory
  <1>2. \A r \in Requests : Untouched(r)' /\ UnderWay(r)'
    BY DEF OutInv, Untouched, Fresh, UnderWay, Current, Sent, Due, OrderOf
  <1>3. wiped' # {} => disturbances' > 0
    <2>1. disturbances \in Nat /\ disturbances' \in Nat
      BY DEF BaseInv, Shape, QueueTypes
    <2>2. QED
      BY <2>1 DEF OutInv
  <1>4. QED
    BY <1>1, <1>2, <1>3 DEF OutInv

\* A reset that gets through takes every row.
LEMMA ResetOut ==
  ASSUME BaseInv, BaseInv', OutInv, Reset, orders' = [o \in Orders |-> 0],
         wiped' = wiped \cup {o \in Orders : orders[o] # 0}
  PROVE  OutInv'
  <1>1. /\ UNCHANGED <<setting, out, at, index, step>>
        /\ orders' = [o \in Orders |-> 0]
        /\ wiped' = wiped \cup {o \in Orders : orders[o] # 0}
        /\ disturbances' = disturbances + 1
    BY DEF Reset, Disturb, requestVars, hostVars
  <1>2. disturbances \in Nat /\ orders \in [Orders -> 0..4]
    BY DEF BaseInv, Shape, QueueTypes, StoreTypes
  <1>3. \A o \in Orders : orders'[o] = 0 /\ (o \in wiped' <=> o \in wiped \/ orders[o] # 0)
    BY <1>1
  <1>4. ASSUME NEW o \in Orders
        PROVE  Sound(o)'
    <2>1. Sound(o)
      BY DEF OutInv
    <2>2. QED
      BY <1>1, <1>3, <2>1 DEF Sound, InMemory
  <1>5. ASSUME NEW r \in Requests
        PROVE  Untouched(r)'
    <2>1. ASSUME NEW i \in 1..MAX_COUNT, Fresh(r, i)'
          PROVE  orders'[<<r, i>>] = 0 /\ <<r, i>> \notin wiped' /\ out'[<<r, i>>] = <<>>
      <3>1. Fresh(r, i)
        BY <1>1, <2>1 DEF Fresh
      <3>2. orders[<<r, i>>] = 0 /\ <<r, i>> \notin wiped /\ out[<<r, i>>] = <<>>
        BY <3>1 DEF OutInv, Untouched
      <3>3. <<r, i>> \in Orders
        BY DEF Orders
      <3>4. QED
        BY <1>1, <1>3, <3>2, <3>3
    <2>2. QED
      BY <2>1 DEF Untouched
  <1>6. ASSUME NEW r \in Requests
        PROVE  UnderWay(r)'
    <2>1. OrderOf(r) \in Orders /\ OrderOf(r)' = OrderOf(r)
      BY <1>1, EventFacts DEF BaseInv, OrderOf
    <2>2. UnderWay(r)
      BY DEF OutInv
    <2>3. ASSUME Current(r)
          PROVE  /\ Last(out'[OrderOf(r)]) = Sent(r) /\ orders'[OrderOf(r)] = 0
                 /\ OrderOf(r) \in wiped'
      BY <1>1, <1>3, <2>1, <2>2, <2>3 DEF UnderWay
    <2>4. Current(r)' = Current(r) /\ Sent(r)' = Sent(r)
      BY <1>1 DEF Current, Sent
    <2>5. QED
      BY <2>1, <2>3, <2>4 DEF UnderWay
  <1>7. wiped' # {} => disturbances' > 0
    BY <1>1, <1>2
  <1>8. QED
    BY <1>4, <1>5, <1>6, <1>7 DEF OutInv

LEMMA OutStep == BaseInv /\ BaseInv' /\ OutInv /\ [Next]_vars => OutInv'
  <1> SUFFICES ASSUME BaseInv, BaseInv', OutInv, [Next]_vars
               PROVE  OutInv'
    OBVIOUS
  <1>a. /\ Shape /\ Walks /\ Host /\ QueueInv /\ StoreTypes
        /\ disturbances \in Nat /\ disturbances >= disturbances
        /\ disturbances + 1 >= disturbances
    BY DEF BaseInv, Shape, QueueTypes
  <1>b. ASSUME NEW r \in Requests
        PROVE  /\ OrderOf(r) \in Orders /\ OrderOf(r) = <<r, index[r]>>
               /\ Sound(OrderOf(r)) /\ Untouched(r) /\ UnderWay(r)
    BY <1>a, EventFacts DEF OutInv
  \* The order of a request that is about to create it.
  <1>c. ASSUME NEW r \in Requests, at[r] \in {"idle", "loop"}
        PROVE  /\ orders[OrderOf(r)] = 0 /\ OrderOf(r) \notin wiped
               /\ out[OrderOf(r)] = <<>> /\ step[r] = 1
    <2>1. index[r] \in 1..MAX_COUNT /\ step[r] = 1
      BY <1>a, <1>c DEF Shape, RequestTypes, Walks, Walk
    <2>2. Fresh(r, index[r])
      BY <1>c, <2>1 DEF Fresh
    <2>3. QED
      BY <1>b, <2>1, <2>2 DEF Untouched
  <1>d. ASSUME NEW r \in Requests, NEW done \in BOOLEAN, Ends(r, done),
               UNCHANGED <<setting, wiped, orders, out>>, disturbances' >= disturbances
        PROVE  OutInv'
    <2>1. PICK o \in Orders : o = OrderOf(r)
      BY <1>b
    <2>2. Sound(o)'
      BY <1>b, <1>d, <2>1, SoundSame
    <2>3. QED
      BY <1>d, <2>1, <2>2, EndsOut
  <1>1. ASSUME NEW r \in Requests, Arrive(r)
        PROVE  OutInv'
    <2>1. /\ Others(r) /\ at[r] = "idle" /\ at'[r] = "loop" /\ index'[r] = index[r]
          /\ UNCHANGED <<orders, hostVars, out, wiped, disturbances>>
      BY <1>1, <1>a, ArriveFacts
    <2>2. setting' = setting
      BY <2>1 DEF hostVars
    <2>3. PICK o \in Orders : o = OrderOf(r)
      BY <1>b
    <2>4. Sound(o)'
      BY <1>b, <2>1, <2>2, <2>3, SoundSame
    <2>5. Untouched(r)'
      BY <1>b, <2>1 DEF Untouched, Fresh
    <2>6. UnderWay(r)'
      BY <2>1 DEF UnderWay, Current
    <2>7. QED
      BY <1>a, <2>1, <2>2, <2>3, <2>4, <2>5, <2>6, OutOne
  <1>2. ASSUME NEW r \in Requests, PauseElapsed(r)
        PROVE  OutInv'
    <2>1. Ends(r, FALSE) /\ UNCHANGED <<orders, hostVars, out, wiped, disturbances>>
      BY <1>2, <1>a, PauseFacts
    <2>2. QED
      BY <1>a, <1>d, <2>1 DEF hostVars
  <1>3. ASSUME NEW r \in Requests, Create(r)
        PROVE  OutInv'
    <2>1. /\ at[r] = "loop" /\ UNCHANGED <<hostVars, out, wiped>>
          /\ \/ /\ Moves(r, "saved") /\ step'[r] = step[r]
                /\ orders' = [orders EXCEPT ![OrderOf(r)] = 1]
                /\ disturbances' = disturbances
             \/ Ends(r, FALSE) /\ orders' = orders /\ disturbances' = disturbances + 1
      BY <1>3, <1>a, CreateFacts
    <2>2. setting' = setting
      BY <2>1 DEF hostVars
    <2>3. CASE /\ Moves(r, "saved") /\ step'[r] = step[r]
               /\ orders' = [orders EXCEPT ![OrderOf(r)] = 1]
               /\ disturbances' = disturbances
      <3>1. PICK o \in Orders : o = OrderOf(r)
        BY <1>b
      <3>2. /\ orders'[o] = 1 /\ \A x \in Orders \ {o} : orders'[x] = orders[x]
        BY <1>a, <2>3, <3>1 DEF StoreTypes
      <3>3. /\ out'[o] = <<>> /\ o \notin wiped' /\ step'[r] = 1 /\ Sound(o)
            /\ out[o] = <<>>
        BY <1>b, <1>c, <2>1, <2>3, <3>1
      <3>4. Last(out'[o]) = 0
        BY <3>3 DEF Last
      <3>5. Sound(o)'
        BY <2>1, <2>2, <3>2, <3>3, <3>4 DEF Sound, InMemory
      <3>6. Last(out'[o]) = step'[r] - 1 /\ orders'[o] = 1 /\ disturbances' >= disturbances
        BY <1>a, <2>3, <3>2, <3>3, <3>4
      <3>7. QED
        BY <2>1, <2>2, <2>3, <3>1, <3>2, <3>3, <3>5, <3>6, MovesOut
    <2>4. CASE Ends(r, FALSE) /\ orders' = orders /\ disturbances' = disturbances + 1
      BY <1>a, <1>d, <2>1, <2>2, <2>4
    <2>5. QED
      BY <2>1, <2>3, <2>4
  <1>4. ASSUME NEW r \in Requests, DispatchToMemory(r)
        PROVE  OutInv'
    <2>1. /\ at[r] = "saved" /\ InMemory /\ UNCHANGED <<orders, hostVars, wiped>>
          /\ \/ Ends(r, FALSE) /\ UNCHANGED <<out, disturbances>>
             \/ /\ Moves(r, "dispatched") /\ step'[r] = step[r]
                /\ Push(EventOf(r)) /\ accept(EventOf(r), 1)
      BY <1>4, <1>a, MemoryFacts
    <2>2. setting' = setting /\ stopped' = stopped
      BY <2>1 DEF hostVars
    <2>3. CASE Ends(r, FALSE) /\ UNCHANGED <<out, disturbances>>
      BY <1>a, <1>d, <2>1, <2>2, <2>3
    <2>4. CASE /\ Moves(r, "dispatched") /\ step'[r] = step[r]
               /\ Push(EventOf(r)) /\ accept(EventOf(r), 1)
      <3>1. PICK o \in Orders : o = OrderOf(r)
        BY <1>b
      <3>2. /\ Sound(o)' /\ Last(out'[o]) = step[r]
            /\ orders[o] \in {0, Due(r)} /\ (orders[o] = 0 => o \in wiped)
            /\ \A x \in Orders \ {o} : out'[x] = out[x] /\ orders'[x] = orders[x]
        BY <2>1, <2>2, <2>4, <3>1, AcceptOut
      <3>3. disturbances' >= disturbances
        BY <1>a, <2>2, <2>4, EventFacts, PushLeaves
      <3>4. orders'[o] \in {0, IF step'[r] = 1 THEN 1 ELSE step'[r] - 1}
        BY <2>1, <2>4, <3>2 DEF Due
      <3>5. QED
        BY <2>1, <2>2, <2>4, <3>1, <3>2, <3>3, <3>4, MovesOut
    <2>5. QED
      BY <2>1, <2>3, <2>4
  <1>5. ASSUME NEW r \in Requests, DispatchToKafka(r)
        PROVE  OutInv'
    <2>1. /\ at[r] = "saved" /\ UNCHANGED <<orders, hostVars, wiped, out, disturbances>>
          /\ \/ Ends(r, FALSE)
             \/ Moves(r, "sending") /\ step'[r] = step[r]
      BY <1>5, <1>a, KafkaFacts
    <2>2. setting' = setting
      BY <2>1 DEF hostVars
    <2>3. CASE Ends(r, FALSE)
      BY <1>a, <1>d, <2>1, <2>2, <2>3
    <2>4. CASE Moves(r, "sending") /\ step'[r] = step[r]
      <3>1. PICK o \in Orders : o = OrderOf(r)
        BY <1>b
      <3>2. Sound(o)'
        BY <1>b, <2>1, <2>2, <3>1, SoundSame
      <3>3. /\ Last(out'[o]) = step'[r] - 1 /\ (orders'[o] = 0 => o \in wiped)
            /\ orders'[o] \in {0, IF step'[r] = 1 THEN 1 ELSE step'[r] - 1}
        BY <1>b, <2>1, <2>4, <3>1 DEF UnderWay, Current, Sent, Due
      <3>4. QED
        BY <1>a, <2>1, <2>2, <2>4, <3>1, <3>2, <3>3, MovesOut
    <2>5. QED
      BY <2>1, <2>3, <2>4
  <1>6. ASSUME NEW r \in Requests, Created(r)
        PROVE  OutInv'
    <2>1. /\ at[r] = "dispatched" /\ step[r] = 1
          /\ UNCHANGED <<orders, hostVars, out, wiped, disturbances>>
          /\ \/ Moves(r, "saved") /\ step'[r] = 2
             \/ Ends(r, FALSE)
             \/ Ends(r, TRUE)
      BY <1>6, <1>a, CreatedFacts
    <2>2. setting' = setting
      BY <2>1 DEF hostVars
    <2>3. ASSUME NEW done \in BOOLEAN, Ends(r, done)
          PROVE  OutInv'
      BY <1>a, <1>d, <2>1, <2>2, <2>3
    <2>4. CASE Moves(r, "saved") /\ step'[r] = 2
      <3>1. PICK o \in Orders : o = OrderOf(r)
        BY <1>b
      <3>2. Sound(o)'
        BY <1>b, <2>1, <2>2, <3>1, SoundSame
      <3>3. /\ Last(out[o]) = 1 /\ (orders[o] = 0 => o \in wiped) /\ orders[o] \in {0, 1}
        BY <1>b, <2>1, <3>1 DEF UnderWay, Current, Sent, Due
      <3>4. /\ Last(out'[o]) = step'[r] - 1 /\ (orders'[o] = 0 => o \in wiped)
            /\ orders'[o] \in {0, IF step'[r] = 1 THEN 1 ELSE step'[r] - 1}
        BY <2>1, <2>4, <3>3
      <3>5. QED
        BY <1>a, <2>1, <2>2, <2>4, <3>1, <3>2, <3>4, MovesOut
    <2>5. QED
      BY <2>1, <2>3, <2>4
  <1>7. ASSUME NEW r \in Requests, Advance(r)
        PROVE  OutInv'
    <2>1. /\ at[r] = "dispatched" /\ step[r] \in 2..4
          /\ UNCHANGED <<hostVars, out, wiped>>
          /\ \/ /\ orders[OrderOf(r)] # 0 /\ orders' = [orders EXCEPT ![OrderOf(r)] = step[r]]
                /\ disturbances' = disturbances
                /\ \/ Ends(r, TRUE)
                   \/ Moves(r, "saved") /\ step'[r] = step[r] + 1
             \/ /\ Ends(r, FALSE) /\ orders' = orders
                /\ disturbances' \in {disturbances, disturbances + 1}
      BY <1>7, <1>a, AdvanceFacts
    <2>2. setting' = setting
      BY <2>1 DEF hostVars
    <2>3. CASE /\ orders[OrderOf(r)] # 0 /\ orders' = [orders EXCEPT ![OrderOf(r)] = step[r]]
               /\ disturbances' = disturbances
               /\ \/ Ends(r, TRUE)
                  \/ Moves(r, "saved") /\ step'[r] = step[r] + 1
      <3>1. PICK o \in Orders : o = OrderOf(r)
        BY <1>b
      <3>2. /\ orders'[o] = step[r] /\ \A x \in Orders \ {o} : orders'[x] = orders[x]
        BY <1>a, <2>3, <3>1 DEF StoreTypes
      <3>3. Last(out[o]) = step[r] /\ Sound(o)
        BY <1>b, <2>1, <3>1 DEF UnderWay, Current, Sent
      <3>4. o \notin wiped
        BY <2>3, <3>1, <3>3 DEF Sound
      <3>5. Last(out'[o]) = step[r]
        BY <2>1, <3>3
      <3>6. Sound(o)'
        <4>1. Flowing(out'[o]) /\ (InMemory' \/ setting'.idempotent => Distinct(out'[o]))
          BY <2>1, <2>2, <3>3 DEF Sound, InMemory
        <4>2. orders'[o] # 0 /\ o \notin wiped' /\ orders'[o] = Last(out'[o])
          BY <2>1, <3>2, <3>4, <3>5
        <4>3. QED
          BY <4>1, <4>2 DEF Sound
      <3>7. \A x \in Orders \ {o} : out'[x] = out[x] /\ orders'[x] = orders[x]
        BY <2>1, <3>2
      <3>8. CASE Ends(r, TRUE)
        BY <1>a, <2>1, <2>2, <2>3, <3>1, <3>6, <3>7, <3>8, EndsOut
      <3>9. CASE Moves(r, "saved") /\ step'[r] = step[r] + 1
        <4>1. /\ Last(out'[o]) = step'[r] - 1 /\ orders'[o] # 0
              /\ orders'[o] = IF step'[r] = 1 THEN 1 ELSE step'[r] - 1
          BY <2>1, <3>2, <3>5, <3>9
        <4>2. QED
          BY <1>a, <2>1, <2>2, <2>3, <3>1, <3>6, <3>7, <3>9, <4>1, MovesOut
      <3>10. QED
        BY <2>3, <3>8, <3>9
    <2>4. CASE /\ Ends(r, FALSE) /\ orders' = orders
               /\ disturbances' \in {disturbances, disturbances + 1}
      BY <1>a, <1>d, <2>1, <2>2, <2>4
    <2>5. QED
      BY <2>1, <2>3, <2>4
  <1>8. ASSUME NEW r \in Requests, SendResolves(r)
        PROVE  OutInv'
    <2>1. /\ at[r] = "sending" /\ Moves(r, "dispatched") /\ step'[r] = step[r]
          /\ UNCHANGED <<orders, hostVars, wiped>>
          /\ disturbances' \in {disturbances, disturbances + 1}
      BY <1>8, <1>a, ResolveFacts
    <2>2. PICK n \in {1, 2} : accept(EventOf(r), n) /\ (n = 2 => ~setting.idempotent)
      BY <1>8, <1>a, ResolveFacts
    <2>3. setting' = setting /\ ~InMemory
      BY <1>a, <2>1 DEF hostVars, Host
    <2>4. PICK o \in Orders : o = OrderOf(r)
      BY <1>b
    <2>5. /\ Sound(o)' /\ Last(out'[o]) = step[r]
          /\ orders[o] \in {0, Due(r)} /\ (orders[o] = 0 => o \in wiped)
          /\ \A x \in Orders \ {o} : out'[x] = out[x] /\ orders'[x] = orders[x]
      <3>1. n \in 0..2 /\ n # 0
        BY <2>2
      <3>2. QED
        BY <2>1, <2>2, <2>3, <2>4, <3>1, AcceptOut
    <2>6. orders'[o] \in {0, IF step'[r] = 1 THEN 1 ELSE step'[r] - 1}
      BY <2>1, <2>5 DEF Due
    <2>7. QED
      BY <1>a, <2>1, <2>3, <2>4, <2>5, <2>6, MovesOut
  <1>9. ASSUME NEW r \in Requests, SendRejects(r)
        PROVE  OutInv'
    <2>1. /\ at[r] = "sending" /\ Ends(r, FALSE)
          /\ UNCHANGED <<orders, hostVars, wiped>>
          /\ disturbances' \in {disturbances, disturbances + 1}
      BY <1>9, <1>a, RejectFacts
    <2>2. PICK n \in 0..2 : accept(EventOf(r), n) /\ (n = 2 => ~setting.idempotent)
      BY <1>9, <1>a, RejectFacts
    <2>3. setting' = setting /\ ~InMemory
      BY <1>a, <2>1 DEF hostVars, Host
    <2>4. PICK o \in Orders : o = OrderOf(r)
      BY <1>b
    <2>5. /\ Sound(o)'
          /\ \A x \in Orders \ {o} : out'[x] = out[x] /\ orders'[x] = orders[x]
      BY <2>1, <2>2, <2>3, <2>4, AcceptOut
    <2>6. QED
      BY <1>a, <2>1, <2>3, <2>4, <2>5, EndsOut
  <1>10. CASE DelayElapsed
    <2>1. UNCHANGED <<setting, wiped, orders, out, at, index, step>>
      BY <1>10 DEF DelayElapsed, requestVars, hostVars
    <2>2. QED
      BY <1>a, <1>10, <2>1, DelayLeaves, OutSame
  <1>11. CASE DrainResumes
    <2>1. UNCHANGED <<setting, wiped, orders, out, at, index, step>>
      BY <1>11 DEF DrainResumes, requestVars, hostVars
    <2>2. QED
      BY <1>a, <1>11, <2>1, ResumeLeaves, OutSame
  <1>12. CASE Reset
    <2>1. /\ UNCHANGED <<setting, out, at, index, step>>
          /\ disturbances' = disturbances + 1
          /\ \/ /\ orders' = [o \in Orders |-> 0]
                /\ wiped' = wiped \cup {o \in Orders : orders[o] # 0}
             \/ UNCHANGED <<orders, wiped>>
      BY <1>12 DEF Reset, Disturb, requestVars, hostVars
    <2>2. CASE UNCHANGED <<orders, wiped>>
      <3>1. disturbances \in Nat
        BY <1>a DEF BaseInv, Shape, QueueTypes
      <3>2. disturbances' >= disturbances
        BY <2>1, <3>1
      <3>3. QED
        BY <1>a, <2>1, <2>2, <3>2, OutSame
    <2>3. QED
      BY <1>a, <1>12, <2>1, <2>2, ResetOut
  <1>13. CASE Terminate \/ Disconnected \/ Exit \/ UNCHANGED vars
    <2>1. UNCHANGED <<setting, wiped, orders, out, at, index, step, disturbances>>
      BY <1>13 DEF Terminate, Disconnected, Exit, vars, requestVars, hostVars
    <2>2. QED
      BY <1>a, <2>1, OutSame
  <1>14. QED
    BY <1>1, <1>2, <1>3, <1>4, <1>5, <1>6, <1>7, <1>8, <1>9, <1>10, <1>11, <1>12, <1>13
       DEF Next, Resumes, Settles
-----------------------------------------------------------------------------
(* The line of the in-process queue *)

LEMMA EventParts ==
  ASSUME NEW e \in Events
  PROVE  e[1] \in Orders /\ e[2] \in Nat
  BY DEF Events, Types

\* An empty queue and an empty table are in line.
LEMMA EmptyLine ==
  ASSUME NEW rows, \A e \in Events : rows[e] = 0, NEW sent
  PROVE  Line(<<>>, {}, rows, sent)
  BY DEF Line, Seen, Ordered

\* Taking the head of the queue: it comes before what is left and after the rows.
LEMMA TailLine ==
  ASSUME NEW q \in Seq(Events), q # <<>>, NEW rows, NEW sent, Line(q, {}, rows, sent)
  PROVE  /\ Line(Tail(q), {}, rows, sent) /\ Tail(q) \in Seq(Events) /\ Head(q) \in Events
         /\ Head(q)[2] <= Last(sent[Head(q)[1]])
         /\ \A j \in 1..Len(Tail(q)) :
              Tail(q)[j][1] = Head(q)[1] => Head(q)[2] < Tail(q)[j][2]
         /\ \A x \in Events : rows[x] > 0 /\ x[1] = Head(q)[1] => x[2] < Head(q)[2]
  <1>1. /\ Head(q) \in Events /\ Tail(q) \in Seq(Events) /\ Len(Tail(q)) = Len(q) - 1
        /\ \A j \in 1..Len(Tail(q)) : Tail(q)[j] = q[j + 1]
    BY HeadTailProperties
  <1>2. Head(q) = q[1] /\ Len(q) \in Nat /\ Len(q) # 0
    BY EmptySeq, LenProperties
  <1>3. 1 \in 1..Len(q) /\ \A j \in 1..Len(Tail(q)) : j + 1 \in 1..Len(q)
    BY <1>1, <1>2
  <1>4. Seen(q, {}, rows, sent) /\ Ordered(q, {}, rows)
    BY DEF Line
  <1>5. Seen(Tail(q), {}, rows, sent)
    BY <1>1, <1>3, <1>4 DEF Seen
  <1>6. Ordered(Tail(q), {}, rows)
    <2>1. ASSUME NEW i \in 1..Len(Tail(q)), NEW j \in 1..Len(Tail(q)), i < j,
                 Tail(q)[i][1] = Tail(q)[j][1]
          PROVE  Tail(q)[i][2] < Tail(q)[j][2]
      <3>1. i + 1 \in 1..Len(q) /\ j + 1 \in 1..Len(q) /\ i + 1 < j + 1
        BY <1>3, <2>1
      <3>2. q[i + 1][1] = q[j + 1][1]
        BY <1>1, <2>1
      <3>3. q[i + 1][2] < q[j + 1][2]
        BY <1>4, <3>1, <3>2 DEF Ordered
      <3>4. QED
        BY <1>1, <3>3
    <2>2. ASSUME NEW e \in Events, rows[e] > 0
          PROVE  /\ rows[e] = 1
                 /\ \A j \in 1..Len(Tail(q)) : Tail(q)[j][1] = e[1] => e[2] < Tail(q)[j][2]
      BY <1>1, <1>3, <1>4, <2>2 DEF Ordered
    <2>3. QED
      BY <2>1, <2>2 DEF Ordered
  <1>7. Head(q)[2] <= Last(sent[Head(q)[1]])
    BY <1>2, <1>3, <1>4 DEF Seen
  <1>8. ASSUME NEW j \in 1..Len(Tail(q)), Tail(q)[j][1] = Head(q)[1]
        PROVE  Head(q)[2] < Tail(q)[j][2]
    <2>1. j + 1 \in 1..Len(q) /\ 1 < j + 1 /\ q[1][1] = q[j + 1][1]
      BY <1>1, <1>2, <1>3, <1>8
    <2>2. q[1][2] < q[j + 1][2]
      BY <1>3, <1>4, <2>1 DEF Ordered
    <2>3. QED
      BY <1>1, <1>2, <2>2
  <1>9. \A x \in Events : rows[x] > 0 /\ x[1] = Head(q)[1] => x[2] < Head(q)[2]
    BY <1>2, <1>3, <1>4 DEF Ordered
  <1>10. QED
    BY <1>1, <1>5, <1>6, <1>7, <1>8, <1>9 DEF Line

\* recordEvent of an event that comes after its order's rows and before the queue.
LEMMA RecordLine ==
  ASSUME Shape, NEW q \in Seq(Events), NEW sent, Line(q, {}, events, sent),
         NEW e \in Events, e[2] <= Last(sent[e[1]]),
         \A j \in 1..Len(q) : q[j][1] = e[1] => e[2] < q[j][2],
         \A x \in Events : events[x] > 0 /\ x[1] = e[1] => x[2] < e[2],
         Record(e, {})
  PROVE  Line(q, inflight', events', sent)
  <1>1. PICK d \in Held : inflight' = {d} /\ d.ev = e /\ d.at # "delay"
    BY RecordFacts
  <1>2. \/ events'[e] = events[e] + 1 /\ \A x \in Events \ {e} : events'[x] = events[x]
        \/ events' = events
    BY RecordFacts
  <1>3. events[e] = 0
    <2>1. events[e] \in Nat /\ e[2] \in Nat
      BY EventParts DEF Shape, StoreTypes
    <2>2. ~(events[e] > 0)
      BY <2>1
    <2>3. QED
      BY <2>1, <2>2
  <1>4. Seen(q, {}, events, sent) /\ Ordered(q, {}, events)
    BY DEF Line
  <1>5. \A x \in Events : events'[x] > 0 => (x = e /\ events'[x] = 1)
                                            \/ (events[x] > 0 /\ events'[x] = events[x])
    BY <1>2, <1>3
  <1>6. Seen(q, inflight', events', sent)
    BY <1>1, <1>4, <1>5 DEF Seen
  <1>7. ASSUME NEW x \in Events, events'[x] > 0
        PROVE  /\ events'[x] = 1
               /\ \A j \in 1..Len(q) : q[j][1] = x[1] => x[2] < q[j][2]
               /\ \A h \in inflight' : h.at = "delay" /\ h.ev[1] = x[1] => x[2] < h.ev[2]
    <2>1. CASE x = e /\ events'[x] = 1
      BY <1>1, <2>1
    <2>2. CASE events[x] > 0 /\ events'[x] = events[x]
      BY <1>1, <1>4, <2>2 DEF Ordered
    <2>3. QED
      BY <1>5, <1>7, <2>1, <2>2
  <1>8. Ordered(q, inflight', events')
    BY <1>1, <1>4, <1>7 DEF Ordered
  <1>9. QED
    BY <1>6, <1>8 DEF Line

\* The drain loop up to its next await keeps the line.
LEMMA DrainLine ==
  ASSUME Shape, NEW q \in Seq(Events), NEW sent, Line(q, {}, events, sent), drain(q, {})
  PROVE  Line(queue', inflight', events', sent)
  <1>1. CASE queue' = q /\ inflight' = {} /\ events' = events
    BY <1>1
  <1>2. ASSUME q # <<>>, queue' = Tail(q),
               \/ inflight' = {Entry(Head(q), "delay")} /\ events' = events
               \/ Record(Head(q), {})
        PROVE  Line(queue', inflight', events', sent)
    <2>1. /\ Line(Tail(q), {}, events, sent) /\ Tail(q) \in Seq(Events) /\ Head(q) \in Events
          /\ Head(q)[2] <= Last(sent[Head(q)[1]])
          /\ \A j \in 1..Len(Tail(q)) :
               Tail(q)[j][1] = Head(q)[1] => Head(q)[2] < Tail(q)[j][2]
          /\ \A x \in Events : events[x] > 0 /\ x[1] = Head(q)[1] => x[2] < Head(q)[2]
      BY <1>2, TailLine
    <2> DEFINE h == Head(q)
               t == Tail(q)
    <2>2. /\ Line(t, {}, events, sent) /\ t \in Seq(Events) /\ h \in Events
          /\ h[2] <= Last(sent[h[1]])
          /\ \A j \in 1..Len(t) : t[j][1] = h[1] => h[2] < t[j][2]
          /\ \A x \in Events : events[x] > 0 /\ x[1] = h[1] => x[2] < h[2]
          /\ queue' = t
          /\ \/ inflight' = {Entry(h, "delay")} /\ events' = events
             \/ Record(h, {})
      BY <1>2, <2>1
    <2> HIDE DEF h, t
    <2>3. CASE inflight' = {Entry(h, "delay")} /\ events' = events
      <3>1. Entry(h, "delay").ev = h
        BY DEF Entry
      <3>2. Seen(t, {}, events, sent) /\ Ordered(t, {}, events)
        BY <2>2 DEF Line
      <3>3. \A d \in inflight' : d.ev = h
        BY <2>3, <3>1
      <3>4. Seen(t, inflight', events, sent)
        BY <2>2, <3>2, <3>3 DEF Seen
      <3>5. Ordered(t, inflight', events)
        BY <2>2, <3>2, <3>3 DEF Ordered
      <3>6. QED
        BY <2>2, <2>3, <3>4, <3>5 DEF Line
    <2>4. CASE Record(h, {})
      BY <2>2, <2>4, RecordLine
    <2>5. QED
      BY <2>2, <2>3, <2>4
  <1>3. QED
    BY <1>1, <1>2, DrainFacts

\* The next event of an order goes to the end of the queue.
LEMMA AppendLine ==
  ASSUME NEW q \in Seq(Events), NEW held \in SUBSET Held, NEW rows, NEW e \in Events,
         NEW sent, NEW w, Line(q, held, rows, sent),
         Last(sent[e[1]]) = e[2] - 1, Last(w[e[1]]) = e[2],
         \A o \in Orders \ {e[1]} : w[o] = sent[o]
  PROVE  Line(Append(q, e), held, rows, w)
  <1>1. /\ Append(q, e) \in Seq(Events) /\ Len(Append(q, e)) = Len(q) + 1
        /\ Append(q, e)[Len(q) + 1] = e
        /\ \A j \in 1..Len(q) : Append(q, e)[j] = q[j]
    BY AppendProperties
  <1>2. Len(q) \in Nat /\ e[1] \in Orders /\ e[2] \in Nat
    BY EventParts, LenProperties
  <1> DEFINE t == Append(q, e)
  <1>3. \A j \in 1..Len(t) : (j \in 1..Len(q) /\ t[j] = q[j]) \/ (j = Len(q) + 1 /\ t[j] = e)
    BY <1>1, <1>2
  <1>4. t \in Seq(Events)
    BY <1>1
  <1> HIDE DEF t
  <1>5. Seen(q, held, rows, sent) /\ Ordered(q, held, rows)
    BY DEF Line
  <1>6. ASSUME NEW x \in Events, x[2] <= Last(sent[x[1]])
        PROVE  x[2] <= Last(w[x[1]]) /\ (x[1] = e[1] => x[2] < e[2])
    <2>1. x[1] \in Orders /\ x[2] \in Nat
      BY EventParts
    <2>2. CASE x[1] = e[1]
      BY <1>2, <1>6, <2>1, <2>2
    <2>3. CASE x[1] # e[1]
      BY <1>6, <2>1, <2>3
    <2>4. QED
      BY <2>2, <2>3
  <1>7. \A j \in 1..Len(q) :
          q[j] \in Events /\ q[j][2] <= Last(w[q[j][1]]) /\ (q[j][1] = e[1] => q[j][2] < e[2])
    <2>1. \A j \in 1..Len(q) : q[j] \in Events
      BY ElementOfSeq
    <2>2. QED
      BY <1>5, <1>6, <2>1 DEF Seen
  <1>8. \A d \in held :
          d.ev[2] <= Last(w[d.ev[1]]) /\ (d.ev[1] = e[1] => d.ev[2] < e[2])
    <2>1. \A d \in held : d.ev \in Events
      BY DEF Held
    <2>2. QED
      BY <1>5, <1>6, <2>1 DEF Seen
  <1>9. \A x \in Events : rows[x] > 0 =>
          x[2] <= Last(w[x[1]]) /\ (x[1] = e[1] => x[2] < e[2])
    BY <1>5, <1>6 DEF Seen
  <1>10. Seen(t, held, rows, w)
    <2>1. e[2] <= Last(w[e[1]])
      BY <1>2
    <2>2. QED
      BY <1>3, <1>7, <1>8, <1>9, <2>1 DEF Seen
  <1>11. Ordered(t, held, rows)
    <2>1. ASSUME NEW i \in 1..Len(t), NEW j \in 1..Len(t), i < j, t[i][1] = t[j][1]
          PROVE  t[i][2] < t[j][2]
      <3>1. CASE j \in 1..Len(q) /\ t[j] = q[j]
        <4>1. i \in 1..Len(q) /\ t[i] = q[i]
          BY <1>2, <1>3, <2>1, <3>1
        <4>2. QED
          BY <1>5, <2>1, <3>1, <4>1 DEF Ordered
      <3>2. CASE j = Len(q) + 1 /\ t[j] = e
        <4>1. i \in 1..Len(q) /\ t[i] = q[i]
          BY <1>2, <1>3, <2>1, <3>2
        <4>2. QED
          BY <1>7, <2>1, <3>2, <4>1
      <3>3. QED
        BY <1>3, <3>1, <3>2
    <2>2. ASSUME NEW d \in held, d.at = "delay", NEW j \in 1..Len(t), d.ev[1] = t[j][1]
          PROVE  d.ev[2] < t[j][2]
      BY <1>3, <1>5, <1>8, <2>2 DEF Ordered
    <2>3. ASSUME NEW x \in Events, rows[x] > 0
          PROVE  /\ rows[x] = 1
                 /\ \A j \in 1..Len(t) : t[j][1] = x[1] => x[2] < t[j][2]
                 /\ \A d \in held : d.at = "delay" /\ d.ev[1] = x[1] => x[2] < d.ev[2]
      <3>1. /\ rows[x] = 1
            /\ \A j \in 1..Len(q) : q[j][1] = x[1] => x[2] < q[j][2]
            /\ \A d \in held : d.at = "delay" /\ d.ev[1] = x[1] => x[2] < d.ev[2]
        BY <1>5, <2>3 DEF Ordered
      <3>2. x[1] = e[1] => x[2] < e[2]
        BY <1>9, <2>3
      <3>3. QED
        BY <1>3, <3>1, <3>2
    <2>4. QED
      BY <2>1, <2>2, <2>3 DEF Ordered
  <1>12. Line(t, held, rows, w)
    BY <1>10, <1>11 DEF Line
  <1>13. QED
    BY <1>12 DEF t

LEMMA LineStep == BaseInv /\ BaseInv' /\ OutInv /\ LineInv /\ [Next]_vars => LineInv'
  <1> SUFFICES ASSUME BaseInv, BaseInv', OutInv, LineInv, [Next]_vars
               PROVE  LineInv'
    OBVIOUS
  <1>a. /\ Shape /\ Walks /\ Host /\ QueueInv /\ queue \in Seq(Events) /\ inflight \subseteq Held
        /\ Line(queue, inflight, events, out)
    BY DEF BaseInv, Shape, QueueTypes, LineInv
  <1>b. Line(queue, {}, events, out)
    BY <1>a DEF Line, Seen, Ordered
  <1>c. ASSUME ~InMemory'
        PROVE  LineInv'
    <2>1. queue' = <<>> /\ inflight' = {} /\ \A e \in Events : events'[e] = 0
      BY <1>c DEF BaseInv, Host
    <2>2. QED
      BY <2>1, EmptyLine DEF LineInv
  <1>d. ASSUME UNCHANGED <<queue, inflight, events, out>>
        PROVE  LineInv'
    BY <1>d DEF LineInv
  <1>1. ASSUME NEW r \in Requests,
               Arrive(r) \/ PauseElapsed(r) \/ Create(r) \/ Created(r) \/ Advance(r)
        PROVE  LineInv'
    BY <1>1, <1>d DEF Arrive, PauseElapsed, Create, Created, Advance, queueVars
  <1>2. ASSUME NEW r \in Requests, DispatchToKafka(r) \/ SendResolves(r) \/ SendRejects(r)
        PROVE  LineInv'
    <2>1. ~InMemory
      BY <1>2, <1>a DEF DispatchToKafka, SendResolves, SendRejects, Host
    <2>2. setting' = setting
      BY <1>2 DEF DispatchToKafka, SendResolves, SendRejects, hostVars
    <2>3. QED
      BY <1>c, <2>1, <2>2 DEF InMemory
  <1>3. ASSUME NEW r \in Requests, DispatchToMemory(r)
        PROVE  LineInv'
    <2>1. /\ at[r] = "saved" /\ InMemory /\ UNCHANGED <<orders, hostVars, wiped>>
          /\ \/ UNCHANGED <<events, queueVars, out>>
             \/ Push(EventOf(r)) /\ accept(EventOf(r), 1)
      BY <1>3, <1>a, MemoryFacts
    <2>2. CASE UNCHANGED <<events, queueVars, out>>
      BY <1>d, <2>2 DEF queueVars
    <2>3. CASE Push(EventOf(r)) /\ accept(EventOf(r), 1)
      <3>1. PICK o \in Orders : o = OrderOf(r)
        BY <1>a, EventFacts
      <3>2. PICK e \in Events : e = EventOf(r) /\ e[1] = o /\ e[2] = step[r]
        BY <1>a, <3>1, EventFacts
      <3>3. /\ Last(out[o]) = step[r] - 1 /\ Last(out'[o]) = step[r]
            /\ \A x \in Orders \ {o} : out'[x] = out[x]
        <4>1. setting' = setting
          BY <2>1 DEF hostVars
        <4>2. QED
          BY <2>1, <2>3, <3>1, <4>1, AcceptOut
      <3>4. \A held \in SUBSET Held :
              Line(queue, held, events, out) => Line(Append(queue, e), held, events, out')
        <4>1. \A w : (w = out') =>
                \A held \in SUBSET Held :
                  Line(queue, held, events, out) => Line(Append(queue, e), held, events, w)
          BY <1>a, <3>2, <3>3, AppendLine
        <4>2. QED
          BY <4>1
      <3>5. CASE draining
        <4>1. queue' = Append(queue, e) /\ inflight' = inflight /\ events' = events
          BY <2>3, <3>2, <3>5 DEF Push
        <4>2. QED
          BY <1>a, <3>4, <4>1 DEF LineInv
      <3>6. CASE ~draining
        <4>1. inflight = {}
          BY <1>a, <3>6 DEF QueueInv, Hand
        <4>2. drain(Append(queue, e), {})
          BY <2>3, <3>2, <3>6, <4>1 DEF Push
        <4>3. Append(queue, e) \in Seq(Events)
          BY <1>a, AppendProperties
        <4>4. Line(Append(queue, e), {}, events, out')
          BY <1>b, <3>4
        <4>5. Line(queue', inflight', events', out')
          BY <1>a, <4>2, <4>3, <4>4, DrainLine
        <4>6. QED
          BY <4>5 DEF LineInv
      <3>7. QED
        BY <3>5, <3>6
    <2>4. QED
      BY <2>1, <2>2, <2>3
  <1>4. CASE DelayElapsed
    <2>1. PICK d \in inflight : d.at = "delay" /\ Record(d.ev, inflight \ {d})
      BY <1>4 DEF DelayElapsed
    <2>2. inflight = {d} /\ inflight \ {d} = {} /\ d.ev \in Events
      BY <1>a, <2>1 DEF QueueInv, Hand, Held
    <2>3. UNCHANGED <<queue, out>>
      BY <1>4 DEF DelayElapsed
    <2>4. /\ d.ev[2] <= Last(out[d.ev[1]])
          /\ \A j \in 1..Len(queue) : queue[j][1] = d.ev[1] => d.ev[2] < queue[j][2]
          /\ \A x \in Events : events[x] > 0 /\ x[1] = d.ev[1] => x[2] < d.ev[2]
      BY <1>a, <2>1 DEF Line, Seen, Ordered
    <2>5. Line(queue, inflight', events', out)
      BY <1>a, <1>b, <2>1, <2>2, <2>4, RecordLine
    <2>6. QED
      BY <2>3, <2>5 DEF LineInv
  <1>5. CASE DrainResumes
    <2>1. PICK d \in inflight : drain(queue, inflight \ {d})
      BY <1>5 DEF DrainResumes
    <2>2. inflight \ {d} = {}
      BY <1>a, <2>1 DEF QueueInv, Hand
    <2>3. Line(queue', inflight', events', out)
      BY <1>a, <1>b, <2>1, <2>2, DrainLine
    <2>4. out' = out
      BY <1>5 DEF DrainResumes
    <2>5. QED
      BY <2>3, <2>4 DEF LineInv
  <1>6. CASE Reset
    <2>1. UNCHANGED <<queue, inflight, out>> /\ \A e \in Events : events'[e] = 0
      BY <1>6 DEF Reset, queueVars
    <2>2. Line(queue, inflight, events', out)
      BY <1>a, <2>1 DEF Line, Seen, Ordered
    <2>3. QED
      BY <2>1, <2>2 DEF LineInv
  <1>7. CASE Terminate \/ Disconnected \/ Exit \/ UNCHANGED vars
    BY <1>7, <1>d DEF Terminate, Disconnected, Exit, vars, queueVars
  <1>8. QED
    BY <1>1, <1>2, <1>3, <1>4, <1>5, <1>6, <1>7 DEF Next, Resumes, Settles
-----------------------------------------------------------------------------
(* What is reported *)

LEMMA LastType ==
  ASSUME NEW s \in Seq(Types)
  PROVE  Last(s) \in 0..4
  <1>1. CASE s = <<>>
    BY <1>1 DEF Last
  <1>2. CASE s # <<>>
    <2>1. Len(s) \in 1..Len(s)
      BY <1>2, EmptySeq, LenProperties
    <2>2. s[Len(s)] \in Types
      BY <2>1, ElementOfSeq
    <2>3. QED
      BY <1>2, <2>2 DEF Last, Types
  <1>3. QED
    BY <1>1, <1>2

\* Trouble does not go away.
LEMMA TroubleStays ==
  ASSUME Trouble, setting' = setting, closing => closing', disturbances \in Nat,
         disturbances' \in Nat, disturbances' >= disturbances
  PROVE  Trouble'
  BY DEF Trouble, InMemory

\* A step of request r leaves the reports of the others alone.
LEMMA ReportOne ==
  ASSUME BaseInv, BaseInv', ReportInv, NEW r \in Requests, Others(r), setting' = setting,
         Trouble => Trouble', body'[r] = body[r] \/ results[r] = {},
         \A o \in Orders : Last(out[o]) <= Last(out'[o]),
         Scattered(r)', Complete(r)',
         \A x \in results'[r] : x \in results[r] \/ Reported(r, x)'
  PROVE  ReportInv'
  <1>0. StoreTypes /\ StoreTypes' /\ RequestTypes
    BY DEF BaseInv, Shape
  <1>1. ASSUME NEW q \in Requests, body'[q] = body[q], NEW x \in results[q]
        PROVE  Reported(q, x)'
    <2>1. Reported(q, x)
      BY DEF ReportInv
    <2>2. IsLifecycle(q)' = IsLifecycle(q)
      BY <1>1 DEF IsLifecycle
    <2>3. Flow(q)' = Flow(q)
      BY <2>2 DEF Flow
    <2>4. <<q, x.i>> \in Orders
      BY <1>0, <1>1 DEF RequestTypes, Orders
    <2>5. Len(Flow(q)) <= Last(out'[<<q, x.i>>])
      <3>1. Last(out[<<q, x.i>>]) \in 0..4
        BY <1>0, <2>4, LastType DEF StoreTypes
      <3>2. \A o \in Orders : Last(out'[o]) \in 0..4
        BY <1>0, LastType DEF StoreTypes
      <3>3. Len(Flow(q)) \in Nat
        BY FlowFacts
      <3>4. Len(Flow(q)) <= Last(out[<<q, x.i>>])
        BY <2>1 DEF Reported
      <3>5. Last(out'[<<q, x.i>>]) \in 0..4 /\ Last(out[<<q, x.i>>]) <= Last(out'[<<q, x.i>>])
        BY <2>4, <3>2
      <3>6. QED
        BY <3>1, <3>3, <3>4, <3>5
    <2>6. InMemory' = InMemory
      BY DEF InMemory
    <2>7. QED
      BY <2>1, <2>2, <2>3, <2>5, <2>6 DEF Reported
  <1>2. ASSUME NEW q \in Requests
        PROVE  Scattered(q)' /\ Complete(q)' /\ \A x \in results'[q] : Reported(q, x)'
    <2>1. CASE q = r
      <3>1. ASSUME NEW x \in results'[r]
            PROVE  Reported(r, x)'
        <4>1. CASE x \in results[r]
          <5>1. body'[r] = body[r]
            BY <4>1
          <5>2. QED
            BY <1>1, <4>1, <5>1
        <4>2. CASE x \notin results[r]
          BY <3>1, <4>2
        <4>3. QED
          BY <4>1, <4>2
      <3>2. QED
        BY <2>1, <3>1
    <2>2. CASE q # r
      <3>1. /\ body'[q] = body[q] /\ at'[q] = at[q] /\ index'[q] = index[q]
            /\ step'[q] = step[q] /\ parts'[q] = parts[q] /\ results'[q] = results[q]
        BY <2>2 DEF Others
      <3>2. Scattered(q) /\ Complete(q)
        BY DEF ReportInv
      <3>3. Scattered(q)'
        <4>1. InMemory' = InMemory /\ IsLifecycle(q)' = IsLifecycle(q)
          BY <3>1 DEF InMemory, IsLifecycle
        <4>2. Current(q)' = Current(q) /\ Sent(q)' = Sent(q) /\ OrderOf(q)' = OrderOf(q)
          BY <3>1 DEF Current, Sent, OrderOf
        <4>3. QED
          BY <3>1, <3>2, <4>1, <4>2 DEF Scattered
      <3>4. Complete(q)'
        BY <3>1, <3>2 DEF Complete
      <3>5. QED
        BY <1>1, <3>1, <3>3, <3>4
    <2>3. QED
      BY <2>1, <2>2
  <1>3. QED
    BY <1>2 DEF ReportInv

\* A request ends an order: it reports it, or something was wrong.
LEMMA EndsReport ==
  ASSUME BaseInv, BaseInv', ReportInv, NEW r \in Requests, NEW done \in BOOLEAN,
         Ends(r, done), setting' = setting, Trouble => Trouble',
         \A o \in Orders : Last(out[o]) <= Last(out'[o]),
         done \/ Trouble' \/ at[r] = "pause",
         \A x : done /\ x = Result(r) => Reported(r, x)'
  PROVE  ReportInv'
  <1>1. /\ index[r] \in 1..MAX_COUNT /\ MAX_COUNT \in Nat
    BY FlowAssumption DEF BaseInv, Shape, RequestTypes
  <1>2. Scattered(r)'
    BY DEF Scattered, Current, Ends
  <1>3. Complete(r)'
    <2>1. ASSUME ~Trouble', NEW i \in 1..index'[r], i < index'[r] \/ at'[r] \in {"pause", "done"}
          PROVE  \E x \in results'[r] : x.i = i
      <3>1. i \in 1..index[r] /\ results[r] \subseteq results'[r]
        BY <1>1, <2>1 DEF Ends
      <3>2. CASE i < index[r] \/ at[r] = "pause"
        <4>1. \E x \in results[r] : x.i = i
          BY <2>1, <3>1, <3>2 DEF ReportInv, Complete
        <4>2. QED
          BY <3>1, <4>1
      <3>3. CASE i = index[r] /\ at[r] # "pause"
        <4>1. Result(r) \in results'[r]
          BY <2>1, <3>3 DEF Ends
        <4>2. Result(r).i = i
          BY <3>3 DEF Result
        <4>3. QED
          BY <4>1, <4>2
      <3>4. QED
        BY <1>1, <3>1, <3>2, <3>3
    <2>2. QED
      BY <2>1 DEF Complete
  <1>4. \A x \in results'[r] : x \in results[r] \/ Reported(r, x)'
    <2>1. ASSUME NEW x \in results'[r], x \notin results[r]
          PROVE  Reported(r, x)'
      <3>1. done /\ x = Result(r)
        BY <2>1 DEF Ends
      <3>2. QED
        BY <3>1
    <2>2. QED
      BY <2>1
  <1>5. Others(r) /\ body'[r] = body[r]
    BY DEF Ends
  <1>6. QED
    BY <1>2, <1>3, <1>4, <1>5, ReportOne

\* A request stays with its order.
LEMMA MovesReport ==
  ASSUME BaseInv, BaseInv', ReportInv, NEW r \in Requests,
         NEW where \in {"saved", "sending", "dispatched"},
         Moves(r, where), setting' = setting, Trouble => Trouble',
         \A o \in Orders : Last(out[o]) <= Last(out'[o]), Scattered(r)'
  PROVE  ReportInv'
  <1>1. Complete(r)'
    <2>1. ASSUME ~Trouble', NEW i \in 1..index'[r], i < index'[r]
          PROVE  \E x \in results'[r] : x.i = i
      BY <2>1 DEF Moves, ReportInv, Complete
    <2>2. QED
      BY <2>1 DEF Complete, Moves
  <1>2. QED
    BY <1>1, ReportOne DEF Moves

LEMMA ReportSame ==
  ASSUME ReportInv, UNCHANGED <<requestVars, setting, out>>, Trouble => Trouble'
  PROVE  ReportInv'
  <1>1. UNCHANGED <<body, at, index, step, parts, results>>
    BY DEF requestVars
  <1>2. ASSUME NEW r \in Requests
        PROVE  Scattered(r)' /\ Complete(r)' /\ \A x \in results'[r] : Reported(r, x)'
    <2>1. Scattered(r) /\ Complete(r) /\ \A x \in results[r] : Reported(r, x)
      BY DEF ReportInv
    <2>2. /\ InMemory' = InMemory /\ IsLifecycle(r)' = IsLifecycle(r)
          /\ Current(r)' = Current(r) /\ Sent(r)' = Sent(r) /\ OrderOf(r)' = OrderOf(r)
      BY <1>1 DEF InMemory, IsLifecycle, Current, Sent, OrderOf
    <2>3. Flow(r)' = Flow(r)
      BY <2>2 DEF Flow
    <2>4. Scattered(r)'
      BY <1>1, <2>1, <2>2 DEF Scattered
    <2>5. Complete(r)'
      BY <1>1, <2>1 DEF Complete
    <2>6. \A x \in results'[r] : Reported(r, x)'
      BY <1>1, <2>1, <2>2, <2>3 DEF Reported
    <2>7. QED
      BY <2>4, <2>5, <2>6
  <1>3. QED
    BY <1>2 DEF ReportInv

\* The partitions of a whole flow, counted.
LEMMA ScatterCount ==
  ASSUME NEW a, NEW b
  PROVE  Cardinality({a, b}) > 1 <=> a # b
  <1>1. IsFiniteSet({a}) /\ Cardinality({a}) = 1
    BY FS_Singleton
  <1>2. CASE a = b
    <2>1. {a, b} = {a}
      BY <1>2
    <2>2. QED
      BY <1>1, <1>2, <2>1
  <1>3. CASE a # b
    <2>1. Cardinality({a} \cup {b}) = 2
      BY <1>1, <1>3, FS_AddElement
    <2>2. {a, b} = {a} \cup {b}
      OBVIOUS
    <2>3. QED
      BY <1>3, <2>1, <2>2
  <1>4. QED
    BY <1>2, <1>3

\* A finished order is reported with what happened to it.
LEMMA ResultReported ==
  ASSUME BaseInv, OutInv, ReportInv, NEW r \in Requests, at[r] = "dispatched",
         step[r] = Len(Flow(r)), setting' = setting, body'[r] = body[r], out' = out,
         NEW x, x = Result(r)
  PROVE  Reported(r, x)'
  <1>1. /\ OrderOf(r) = <<r, index[r]>> /\ x.i = index[r]
        /\ x.partitions = Cardinality(parts[r])
    BY DEF OrderOf, Result
  <1>2. /\ InMemory' = InMemory /\ IsLifecycle(r)' = IsLifecycle(r)
    BY DEF InMemory, IsLifecycle
  <1>3. Flow(r)' = Flow(r)
    BY <1>2 DEF Flow
  <1>4. Sent(r) = Len(Flow(r)) /\ Current(r)
    BY DEF Sent, Current
  <1>5. Len(Flow(r)) <= Last(out'[<<r, x.i>>])
    <2>1. Last(out[OrderOf(r)]) = Len(Flow(r))
      BY <1>4 DEF OutInv, UnderWay
    <2>2. Len(Flow(r)) \in Nat
      BY FlowFacts
    <2>3. QED
      BY <1>1, <2>1, <2>2
  <1>6. IsFiniteSet(parts[r]) /\ Scattered(r)
    BY DEF BaseInv, Walks, Walk, ReportInv
  <1>7. InMemory => x.partitions = 0
    BY <1>1, <1>6, FS_EmptySet DEF Scattered
  <1>8. ASSUME IsLifecycle(r), ~InMemory
        PROVE  /\ x.partitions > 0
               /\ setting.keyed => (x.partitions > 1 <=> Hash[<<r, x.i>>] # Hash[Product])
    <2>1. Sent(r) = 4
      BY <1>4, <1>8, FlowFacts
    <2>2. parts[r] # {}
      BY <1>4, <1>6, <1>8, <2>1 DEF Scattered
    <2>3. x.partitions > 0
      <3>1. Cardinality(parts[r]) \in Nat /\ Cardinality(parts[r]) # 0
        BY <1>6, <2>2, FS_CardinalityType, FS_EmptySet
      <3>2. QED
        BY <1>1, <3>1
    <2>4. ASSUME setting.keyed
          PROVE  x.partitions > 1 <=> Hash[<<r, x.i>>] # Hash[Product]
      <3>1. parts[r] = {Hash[Product], Hash[OrderOf(r)]}
        BY <1>4, <1>6, <1>8, <2>1, <2>4 DEF Scattered
      <3>2. Cardinality({Hash[Product], Hash[OrderOf(r)]}) > 1
              <=> Hash[Product] # Hash[OrderOf(r)]
        BY ScatterCount
      <3>3. QED
        BY <1>1, <3>1, <3>2
    <2>5. QED
      BY <2>3, <2>4
  <1>9. QED
    BY <1>2, <1>3, <1>5, <1>7, <1>8 DEF Reported

LEMMA ReportStep ==
  BaseInv /\ BaseInv' /\ OutInv /\ ReportInv /\ [Next]_vars => ReportInv'
  <1> SUFFICES ASSUME BaseInv, BaseInv', OutInv, ReportInv, [Next]_vars
               PROVE  ReportInv'
    OBVIOUS
  <1>a. /\ Shape /\ Walks /\ Host /\ QueueInv /\ StoreTypes
        /\ disturbances \in Nat /\ disturbances' \in Nat
    BY DEF BaseInv, Shape, QueueTypes
  <1>b. ASSUME setting' = setting, closing => closing', disturbances' >= disturbances
        PROVE  Trouble => Trouble'
    BY <1>a, <1>b, TroubleStays
  <1>c. \A o \in Orders : Last(out[o]) \in 0..4 /\ Last(out[o]) <= Last(out[o])
    BY <1>a, LastType DEF StoreTypes
  <1>d. ASSUME NEW r \in Requests
        PROVE  /\ OrderOf(r) \in Orders /\ Scattered(r) /\ UnderWay(r)
               /\ step[r] \in 1..4
    BY <1>a, EventFacts DEF ReportInv, OutInv, Shape, RequestTypes, Types
  \* A request under way meets no row only after a reset.
  <1>e. ASSUME NEW r \in Requests, Current(r), orders[OrderOf(r)] = 0
        PROVE  Trouble
    BY <1>d, <1>e DEF UnderWay, OutInv, Trouble
  <1>1. ASSUME NEW r \in Requests, Arrive(r)
        PROVE  ReportInv'
    <2>1. /\ Others(r) /\ at[r] = "idle" /\ at'[r] = "loop" /\ index'[r] = index[r]
          /\ results'[r] = results[r] /\ parts'[r] = parts[r]
          /\ UNCHANGED <<hostVars, out, disturbances>>
      BY <1>1, <1>a, ArriveFacts
    <2>2. setting' = setting /\ closing' = closing
      BY <2>1 DEF hostVars
    <2>3. results[r] = {} /\ parts[r] = {} /\ index[r] = 1
      BY <1>a, <2>1 DEF Walks, Walk
    <2>4. Scattered(r)'
      BY <2>1, <2>3 DEF Scattered, Current
    <2>5. Complete(r)'
      <3>1. \A i \in 1..index'[r] : ~(i < index'[r])
        BY <2>1, <2>3
      <3>2. QED
        BY <2>1, <3>1 DEF Complete
    <2>6. Trouble => Trouble'
      BY <1>a, <1>b, <2>1, <2>2
    <2>7. QED
      BY <1>c, <2>1, <2>2, <2>3, <2>4, <2>5, <2>6, ReportOne
  <1>2. ASSUME NEW r \in Requests, PauseElapsed(r)
        PROVE  ReportInv'
    <2>1. Ends(r, FALSE) /\ at[r] = "pause" /\ UNCHANGED <<hostVars, out, disturbances>>
      BY <1>2, <1>a, PauseFacts
    <2>2. setting' = setting /\ closing' = closing
      BY <2>1 DEF hostVars
    <2>3. Trouble => Trouble'
      BY <1>a, <1>b, <2>1, <2>2
    <2>4. QED
      BY <1>c, <2>1, <2>2, <2>3, EndsReport
  <1>3. ASSUME NEW r \in Requests, Create(r)
        PROVE  ReportInv'
    <2>1. /\ at[r] = "loop" /\ UNCHANGED <<hostVars, out>>
          /\ \/ /\ Moves(r, "saved") /\ step'[r] = step[r] /\ parts'[r] = parts[r]
                /\ disturbances' = disturbances
             \/ Ends(r, FALSE) /\ disturbances' = disturbances + 1
      BY <1>3, <1>a, CreateFacts
    <2>2. setting' = setting /\ closing' = closing
      BY <2>1 DEF hostVars
    <2>3. Trouble => Trouble'
      <3>1. disturbances' = disturbances \/ disturbances' = disturbances + 1
        BY <2>1
      <3>2. disturbances' >= disturbances
        BY <1>a, <3>1
      <3>3. QED
        BY <1>b, <2>2, <3>2
    <2>4. CASE Moves(r, "saved") /\ step'[r] = step[r] /\ parts'[r] = parts[r]
      <3>1. step[r] = 1 /\ parts[r] = {}
        BY <1>a, <2>1 DEF Walks, Walk
      <3>2. Sent(r)' = 0
        BY <2>4, <3>1 DEF Sent, Moves
      <3>3. Scattered(r)'
        BY <2>4, <3>1, <3>2 DEF Scattered
      <3>4. QED
        BY <1>c, <2>1, <2>2, <2>3, <2>4, <3>3, MovesReport
    <2>5. CASE Ends(r, FALSE) /\ disturbances' = disturbances + 1
      <3>1. Trouble'
        BY <1>a, <2>5 DEF Trouble
      <3>2. QED
        BY <1>c, <2>1, <2>2, <2>5, <3>1, EndsReport
    <2>6. QED
      BY <2>1, <2>4, <2>5
  <1>4. ASSUME NEW r \in Requests, DispatchToMemory(r)
        PROVE  ReportInv'
    <2>1. /\ at[r] = "saved" /\ InMemory /\ UNCHANGED <<orders, hostVars, wiped>>
          /\ \/ stopped /\ Ends(r, FALSE) /\ UNCHANGED <<out, disturbances>>
             \/ /\ Moves(r, "dispatched") /\ step'[r] = step[r] /\ parts'[r] = parts[r]
                /\ Push(EventOf(r)) /\ accept(EventOf(r), 1)
      BY <1>4, <1>a, MemoryFacts
    <2>2. setting' = setting /\ closing' = closing /\ stopped' = stopped
      BY <2>1 DEF hostVars
    <2>3. CASE stopped /\ Ends(r, FALSE) /\ UNCHANGED <<out, disturbances>>
      <3>1. Trouble'
        BY <1>a, <2>2, <2>3 DEF Trouble, Host
      <3>2. QED
        BY <1>c, <2>2, <2>3, <3>1, EndsReport
    <2>4. CASE /\ Moves(r, "dispatched") /\ step'[r] = step[r] /\ parts'[r] = parts[r]
               /\ Push(EventOf(r)) /\ accept(EventOf(r), 1)
      <3>1. PICK o \in Orders : o = OrderOf(r)
        BY <1>d
      <3>2. /\ Last(out[o]) = step[r] - 1 /\ Last(out'[o]) = step[r]
            /\ \A x \in Orders \ {o} : out'[x] = out[x]
        BY <2>1, <2>2, <2>4, <3>1, AcceptOut
      <3>3. \A x \in Orders : Last(out[x]) <= Last(out'[x])
        <4>1. Last(out[o]) <= Last(out'[o])
          BY <1>d, <3>2
        <4>2. QED
          BY <1>c, <3>2, <4>1
      <3>4. disturbances' >= disturbances
        BY <1>a, <2>2, <2>4, EventFacts, PushLeaves
      <3>5. Trouble => Trouble'
        BY <1>b, <2>2, <3>4
      <3>6. Scattered(r)'
        <4>1. InMemory' /\ parts'[r] = {}
          BY <1>d, <2>1, <2>2, <2>4 DEF InMemory, Scattered
        <4>2. QED
          BY <4>1 DEF Scattered
      <3>7. QED
        BY <2>2, <2>4, <3>3, <3>5, <3>6, MovesReport
    <2>5. QED
      BY <2>1, <2>3, <2>4
  <1>5. ASSUME NEW r \in Requests, DispatchToKafka(r)
        PROVE  ReportInv'
    <2>1. /\ at[r] = "saved" /\ ~InMemory /\ UNCHANGED <<hostVars, out, disturbances>>
          /\ \/ ~connected /\ Ends(r, FALSE)
             \/ Moves(r, "sending") /\ step'[r] = step[r] /\ parts'[r] = parts[r]
      BY <1>5, <1>a, KafkaFacts
    <2>2. setting' = setting /\ closing' = closing
      BY <2>1 DEF hostVars
    <2>3. Trouble => Trouble'
      BY <1>a, <1>b, <2>1, <2>2
    <2>4. CASE ~connected /\ Ends(r, FALSE)
      <3>1. Trouble
        BY <1>a, <2>1, <2>4 DEF Trouble, Host
      <3>2. QED
        BY <1>c, <2>1, <2>2, <2>3, <2>4, <3>1, EndsReport
    <2>5. CASE Moves(r, "sending") /\ step'[r] = step[r] /\ parts'[r] = parts[r]
      <3>1. /\ Sent(r)' = Sent(r) /\ OrderOf(r)' = OrderOf(r) /\ Current(r)
            /\ InMemory' = InMemory /\ IsLifecycle(r)' = IsLifecycle(r)
        BY <2>1, <2>2, <2>5 DEF Sent, Moves, OrderOf, Current, InMemory, IsLifecycle
      <3>2. Scattered(r)'
        BY <1>d, <2>2, <2>5, <3>1 DEF Scattered
      <3>3. QED
        BY <1>c, <2>1, <2>2, <2>3, <2>5, <3>2, MovesReport
    <2>6. QED
      BY <2>1, <2>4, <2>5
  <1>6. ASSUME NEW r \in Requests, Created(r)
        PROVE  ReportInv'
    <2>1. /\ at[r] = "dispatched" /\ step[r] = 1
          /\ UNCHANGED <<hostVars, out, disturbances>>
          /\ \/ Moves(r, "saved") /\ step'[r] = 2 /\ parts'[r] = parts[r]
             \/ orders[OrderOf(r)] = 0 /\ Ends(r, FALSE)
             \/ ~IsLifecycle(r) /\ Ends(r, TRUE)
      BY <1>6, <1>a, CreatedFacts
    <2>2. setting' = setting /\ closing' = closing
      BY <2>1 DEF hostVars
    <2>3. Trouble => Trouble'
      BY <1>a, <1>b, <2>1, <2>2
    <2>4. CASE Moves(r, "saved") /\ step'[r] = 2 /\ parts'[r] = parts[r]
      <3>1. /\ Sent(r)' = Sent(r) /\ OrderOf(r)' = OrderOf(r) /\ Current(r)
            /\ InMemory' = InMemory /\ IsLifecycle(r)' = IsLifecycle(r)
        BY <2>1, <2>2, <2>4 DEF Sent, Moves, OrderOf, Current, InMemory, IsLifecycle
      <3>2. Scattered(r)'
        BY <1>d, <2>2, <2>4, <3>1 DEF Scattered
      <3>3. QED
        BY <1>c, <2>1, <2>2, <2>3, <2>4, <3>2, MovesReport
    <2>5. CASE orders[OrderOf(r)] = 0 /\ Ends(r, FALSE)
      <3>1. Trouble
        BY <1>e, <2>1, <2>5 DEF Current
      <3>2. QED
        BY <1>c, <2>1, <2>2, <2>3, <2>5, <3>1, EndsReport
    <2>6. CASE ~IsLifecycle(r) /\ Ends(r, TRUE)
      <3>1. step[r] = Len(Flow(r)) /\ body'[r] = body[r]
        BY <2>1, <2>6, FlowFacts DEF Ends
      <3>2. \A x : x = Result(r) => Reported(r, x)'
        BY <2>1, <2>2, <3>1, ResultReported
      <3>3. QED
        BY <1>c, <2>1, <2>2, <2>3, <2>6, <3>2, EndsReport
    <2>7. QED
      BY <2>1, <2>4, <2>5, <2>6
  <1>7. ASSUME NEW r \in Requests, Advance(r)
        PROVE  ReportInv'
    <2>1. /\ at[r] = "dispatched" /\ step[r] \in 2..4 /\ IsLifecycle(r)
          /\ UNCHANGED <<hostVars, out>>
          /\ \/ /\ disturbances' = disturbances
                /\ \/ step[r] = 4 /\ Ends(r, TRUE)
                   \/ /\ Moves(r, "saved") /\ step'[r] = step[r] + 1
                      /\ parts'[r] = parts[r]
             \/ /\ Ends(r, FALSE)
                /\ \/ orders[OrderOf(r)] = 0 /\ disturbances' = disturbances
                   \/ disturbances' = disturbances + 1
      BY <1>7, <1>a, AdvanceFacts
    <2>2. setting' = setting /\ closing' = closing
      BY <2>1 DEF hostVars
    <2>3. Trouble => Trouble'
      <3>1. disturbances' = disturbances \/ disturbances' = disturbances + 1
        BY <2>1
      <3>2. disturbances' >= disturbances
        BY <1>a, <3>1
      <3>3. QED
        BY <1>b, <2>2, <3>2
    <2>4. CASE Moves(r, "saved") /\ step'[r] = step[r] + 1 /\ parts'[r] = parts[r]
      <3>1. /\ Sent(r)' = Sent(r) /\ OrderOf(r)' = OrderOf(r) /\ Current(r)
            /\ InMemory' = InMemory /\ IsLifecycle(r)' = IsLifecycle(r)
        BY <2>1, <2>2, <2>4 DEF Sent, Moves, OrderOf, Current, InMemory, IsLifecycle
      <3>2. Scattered(r)'
        BY <1>d, <2>2, <2>4, <3>1 DEF Scattered
      <3>3. QED
        BY <1>c, <2>1, <2>2, <2>3, <2>4, <3>2, MovesReport
    <2>5. CASE step[r] = 4 /\ Ends(r, TRUE)
      <3>1. step[r] = Len(Flow(r)) /\ body'[r] = body[r]
        BY <2>1, <2>5, FlowFacts DEF Ends
      <3>2. \A x : x = Result(r) => Reported(r, x)'
        BY <2>1, <2>2, <3>1, ResultReported
      <3>3. QED
        BY <1>c, <2>1, <2>2, <2>3, <2>5, <3>2, EndsReport
    <2>6. CASE /\ Ends(r, FALSE)
               /\ \/ orders[OrderOf(r)] = 0 /\ disturbances' = disturbances
                  \/ disturbances' = disturbances + 1
      <3>1. Trouble'
        <4>1. CASE orders[OrderOf(r)] = 0
          BY <1>e, <2>1, <2>3, <4>1 DEF Current
        <4>2. CASE disturbances' = disturbances + 1
          BY <1>a, <4>2 DEF Trouble
        <4>3. QED
          BY <2>6, <4>1, <4>2
      <3>2. QED
        BY <1>c, <2>1, <2>2, <2>6, <3>1, EndsReport
    <2>7. QED
      BY <2>1, <2>4, <2>5, <2>6
  <1>8. ASSUME NEW r \in Requests, SendResolves(r)
        PROVE  ReportInv'
    <2>1. /\ at[r] = "sending" /\ Moves(r, "dispatched") /\ step'[r] = step[r]
          /\ UNCHANGED <<orders, hostVars, wiped>>
          /\ disturbances' \in {disturbances, disturbances + 1}
      BY <1>8, <1>a, ResolveFacts
    <2>2. PICK n \in {1, 2} : accept(EventOf(r), n) /\ (n = 2 => ~setting.idempotent)
      BY <1>8, <1>a, ResolveFacts
    <2>3. setting' = setting /\ closing' = closing /\ ~InMemory
      BY <1>a, <2>1 DEF hostVars, Host
    <2>4. PICK o \in Orders : o = OrderOf(r)
      BY <1>d
    <2>5. /\ Last(out[o]) = step[r] - 1 /\ Last(out'[o]) = step[r]
          /\ \A x \in Orders \ {o} : out'[x] = out[x]
      <3>1. n \in 0..2 /\ n # 0
        BY <2>2
      <3>2. QED
        BY <2>1, <2>2, <2>3, <2>4, <3>1, AcceptOut
    <2>6. \A x \in Orders : Last(out[x]) <= Last(out'[x])
      <3>1. Last(out[o]) <= Last(out'[o])
        BY <1>d, <2>5
      <3>2. QED
        BY <1>c, <2>5, <3>1
    <2>7. Trouble => Trouble'
      <3>1. disturbances' >= disturbances
        BY <1>a, <2>1
      <3>2. QED
        BY <1>b, <2>3, <3>1
    <2>8. Scattered(r)'
      <3>1. PICK p \in partitionsFor(EventOf(r)) :
              parts'[r] = IF counts(r) THEN parts[r] \cup {p} ELSE parts[r]
        BY <1>8, <1>a, ResolveFacts
      <3>2. setting.keyed => p = IF step[r] = 2 THEN Hash[Product] ELSE Hash[OrderOf(r)]
        BY <1>a, PartitionFacts
      <3>3. /\ Sent(r) = step[r] - 1 /\ Sent(r)' = step[r] /\ Current(r)
            /\ OrderOf(r)' = OrderOf(r) /\ InMemory' = InMemory
            /\ IsLifecycle(r)' = IsLifecycle(r)
        BY <2>1, <2>3 DEF Sent, Moves, OrderOf, Current, InMemory, IsLifecycle
      <3>4. ASSUME IsLifecycle(r)
            PROVE  /\ step[r] > 1 => parts'[r] # {}
                   /\ setting.keyed =>
                        parts'[r] = IF step[r] <= 1 THEN {}
                                    ELSE IF step[r] = 2 THEN {Hash[Product]}
                                    ELSE {Hash[Product], Hash[OrderOf(r)]}
        <4>1. counts(r) <=> step[r] > 1
          BY <3>4 DEF counts
        <4>2. step[r] > 1 => parts'[r] = parts[r] \cup {p}
          BY <3>1, <4>1
        <4>3. ASSUME setting.keyed
              PROVE  parts'[r] = IF step[r] <= 1 THEN {}
                                 ELSE IF step[r] = 2 THEN {Hash[Product]}
                                 ELSE {Hash[Product], Hash[OrderOf(r)]}
          <5>1. parts[r] = IF step[r] - 1 <= 1 THEN {}
                           ELSE IF step[r] - 1 = 2 THEN {Hash[Product]}
                           ELSE {Hash[Product], Hash[OrderOf(r)]}
            BY <1>d, <2>3, <3>3, <3>4, <4>3 DEF Scattered
          <5>2. CASE step[r] = 1
            BY <3>1, <4>1, <5>1, <5>2
          <5>3. CASE step[r] = 2
            BY <3>2, <4>2, <4>3, <5>1, <5>3
          <5>4. CASE step[r] = 3
            BY <3>2, <4>2, <4>3, <5>1, <5>4
          <5>5. CASE step[r] = 4
            BY <3>2, <4>2, <4>3, <5>1, <5>5
          <5>6. QED
            BY <1>d, <5>2, <5>3, <5>4, <5>5
        <4>4. QED
          BY <4>2, <4>3
      <3>5. QED
        BY <2>3, <3>3, <3>4 DEF Scattered
    <2>9. QED
      BY <2>1, <2>3, <2>6, <2>7, <2>8, MovesReport
  <1>9. ASSUME NEW r \in Requests, SendRejects(r)
        PROVE  ReportInv'
    <2>1. /\ at[r] = "sending" /\ Ends(r, FALSE)
          /\ UNCHANGED <<orders, hostVars, wiped>>
          /\ \/ closing /\ disturbances' = disturbances
             \/ disturbances' = disturbances + 1
      BY <1>9, <1>a, RejectFacts
    <2>2. PICK n \in 0..2 : accept(EventOf(r), n) /\ (n = 2 => ~setting.idempotent)
      BY <1>9, <1>a, RejectFacts
    <2>3. setting' = setting /\ closing' = closing /\ ~InMemory
      BY <1>a, <2>1 DEF hostVars, Host
    <2>4. PICK o \in Orders : o = OrderOf(r)
      BY <1>d
    <2>5. /\ Last(out[o]) = step[r] - 1
          /\ Last(out'[o]) = IF n = 0 THEN step[r] - 1 ELSE step[r]
          /\ \A x \in Orders \ {o} : out'[x] = out[x]
      BY <2>1, <2>2, <2>3, <2>4, AcceptOut
    <2>6. \A x \in Orders : Last(out[x]) <= Last(out'[x])
      <3>1. Last(out[o]) <= Last(out'[o])
        BY <1>d, <2>5
      <3>2. QED
        BY <1>c, <2>5, <3>1
    <2>7. Trouble'
      BY <1>a, <2>1, <2>3 DEF Trouble
    <2>8. QED
      BY <2>1, <2>3, <2>6, <2>7, EndsReport
  <1>10. CASE DelayElapsed
    <2>1. UNCHANGED <<requestVars, setting, closing, out>>
      BY <1>10 DEF DelayElapsed, hostVars
    <2>2. QED
      BY <1>a, <1>b, <1>10, <2>1, DelayLeaves, ReportSame
  <1>11. CASE DrainResumes
    <2>1. UNCHANGED <<requestVars, setting, closing, out>>
      BY <1>11 DEF DrainResumes, hostVars
    <2>2. QED
      BY <1>a, <1>b, <1>11, <2>1, ResumeLeaves, ReportSame
  <1>12. CASE Reset
    <2>1. UNCHANGED <<requestVars, setting, closing, out>> /\ disturbances' = disturbances + 1
      BY <1>12 DEF Reset, hostVars, Disturb
    <2>2. disturbances' >= disturbances
      BY <1>a, <2>1
    <2>3. QED
      BY <1>b, <2>1, <2>2, ReportSame
  <1>13. CASE Terminate \/ Disconnected \/ Exit \/ UNCHANGED vars
    <2>1. UNCHANGED <<requestVars, setting, out, disturbances>> /\ (closing => closing')
      BY <1>13 DEF Terminate, Disconnected, Exit, vars, hostVars
    <2>2. disturbances' >= disturbances
      BY <1>a, <2>1
    <2>3. QED
      BY <1>b, <2>1, <2>2, ReportSame
  <1>14. QED
    BY <1>1, <1>2, <1>3, <1>4, <1>5, <1>6, <1>7, <1>8, <1>9, <1>10, <1>11, <1>12, <1>13
       DEF Next, Resumes, Settles
-----------------------------------------------------------------------------
(* The inductive invariant holds, and what it implies *)

FlowInv == BaseInv /\ OutInv /\ LineInv /\ ReportInv

LEMMA FlowInit == Init => FlowInv
  <1> SUFFICES ASSUME Init
               PROVE  FlowInv
    OBVIOUS
  <1>1. MAX_COUNT \in Nat \ {0} /\ 1 \in 1..MAX_COUNT
    BY FlowAssumption
  <1>2. /\ \A r \in Requests : /\ body[r] = [kind |-> "order", count |-> 1, delayed |-> FALSE]
                               /\ at[r] = "idle" /\ index[r] = 1 /\ step[r] = 1
                               /\ parts[r] = {} /\ results[r] = {}
        /\ \A o \in Orders : orders[o] = 0 /\ out[o] = <<>>
        /\ \A e \in Events : events[e] = 0
        /\ queue = <<>> /\ inflight = {} /\ wiped = {} /\ disturbances = 0
        /\ enqueued = 0 /\ processed = 0 /\ failed = 0
        /\ connected = setting.enabled
    BY DEF Init
  <1>3. RequestTypes
    <2>1. [kind |-> "order", count |-> 1, delayed |-> FALSE] \in BodyType
      BY <1>1 DEF BodyType
    <2>2. QED
      BY <1>1, <2>1 DEF Init, RequestTypes, Places, Types
  <1>4. StoreTypes
    BY DEF Init, StoreTypes
  <1>5. QueueTypes
    BY DEF Init, QueueTypes
  <1>6. HostTypes
    <2>1. setting \in Settings /\ setting.enabled \in BOOLEAN
      BY FlowAssumption DEF Init
    <2>2. QED
      BY <2>1 DEF Init, HostTypes
  <1>7. Walks
    <2>1. IsFiniteSet({})
      BY FS_EmptySet
    <2>2. ASSUME NEW r \in Requests
          PROVE  Walk(r)
      <3>1. /\ body[r].count = 1 /\ at[r] = "idle" /\ index[r] = 1 /\ step[r] = 1
            /\ parts[r] = {} /\ results[r] = {}
        BY <1>2
      <3>2. QED
        BY <2>1, <3>1 DEF Walk
    <2>3. QED
      BY <2>2 DEF Walks
  <1>8. Host
    <2>1. stopped = FALSE /\ (~connected => ~setting.enabled)
      BY <1>2 DEF Init
    <2>2. QED
      BY <1>2, <2>1 DEF Host
  <1>9. QueueInv
    <2>1. Hand /\ NoStrandedEvent
      BY DEF Init, Hand, NoStrandedEvent
    <2>2. Counted
      <3>1. Len(queue) = 0 /\ Cardinality(inflight) = 0
        BY <1>2, FS_EmptySet
      <3>2. QED
        BY <1>2, <3>1 DEF Counted
    <2>3. QED
      BY <2>1, <2>2 DEF QueueInv
  <1>10. OutInv
    <2>1. ASSUME NEW o \in Orders
          PROVE  Sound(o)
      BY <1>2 DEF Sound, Flowing, Distinct, Last
    <2>2. ASSUME NEW r \in Requests
          PROVE  Untouched(r) /\ UnderWay(r)
      <3>1. \A i \in 1..MAX_COUNT : <<r, i>> \in Orders
        BY DEF Orders
      <3>2. Untouched(r)
        BY <1>2, <3>1 DEF Untouched
      <3>3. UnderWay(r)
        BY <1>2 DEF UnderWay, Current
      <3>4. QED
        BY <3>2, <3>3
    <2>3. QED
      BY <1>2, <2>1, <2>2 DEF OutInv
  <1>11. LineInv
    BY <1>2, EmptyLine DEF LineInv
  <1>12. ReportInv
    BY <1>2 DEF ReportInv, Scattered, Complete, Current
  <1>13. QED
    BY <1>3, <1>4, <1>5, <1>6, <1>7, <1>8, <1>9, <1>10, <1>11, <1>12
       DEF FlowInv, BaseInv, Shape

LEMMA FlowInvariant == Spec => []FlowInv
  <1>1. FlowInv /\ [Next]_vars => FlowInv'
    BY BaseStep, OutStep, LineStep, ReportStep DEF FlowInv
  <1>2. QED
    BY <1>1, FlowInit, PTL DEF Spec

\* The in-process queue of orders, for every interleaving of requests, drain
\* loop, resets and shutdown: every variable has its type, no accepted event is
\* left without a loop that will take it, enqueued = pending + in hand +
\* processed + failed with at most one event in hand, and no event of an order
\* is recorded while an earlier one waits.
THEOREM QueueStaysConsistent == Spec => []QueueConsistent
  <1>1. FlowInv => QueueConsistent
    <2> SUFFICES ASSUME FlowInv
                 PROVE  QueueConsistent
      OBVIOUS
    <2>0. /\ Shape /\ Walks /\ QueueInv /\ Line(queue, inflight, events, out)
          /\ RequestTypes /\ StoreTypes /\ QueueTypes /\ HostTypes
      BY DEF FlowInv, BaseInv, Shape, LineInv
    <2>1. ASSUME NEW r \in Requests
          PROVE  /\ body[r].count \in 1..MAX_COUNT /\ step[r] \in 1..Len(Flow(r))
                 /\ \A x \in results[r] : x.i \in 1..body[r].count
      <3>1. /\ body[r].count \in 1..MAX_COUNT /\ index[r] \in 1..MAX_COUNT
            /\ MAX_COUNT \in Nat /\ index[r] <= body[r].count
        BY <2>0, FlowAssumption DEF RequestTypes, BodyType, Walks, Walk
      <3>2. step[r] \in 1..Len(Flow(r))
        BY <2>0, EventFacts
      <3>3. \A x \in results[r] : x.i \in 1..MAX_COUNT /\ x.i <= index[r]
        BY <2>0 DEF RequestTypes, Walks, Walk
      <3>4. QED
        BY <3>1, <3>2, <3>3
    <2>2. TypeOK
      <3>1. \A d \in inflight : d.ev \in Events /\ d.at \in {"delay", "recorded", "failed"}
        BY <2>0 DEF QueueTypes, Held
      <3>2. {draining, stopped, connected, closing, exited} \subseteq BOOLEAN
        BY <2>0 DEF HostTypes
      <3>3. {enqueued, processed, failed, disturbances} \subseteq Nat
        BY <2>0 DEF QueueTypes
      <3>4. /\ setting \in Settings /\ index \in [Requests -> 1..MAX_COUNT]
            /\ at \in [Requests -> {"idle", "loop", "saved", "sending", "dispatched",
                                    "pause", "done"}]
            /\ parts \in [Requests -> SUBSET Partitions]
            /\ orders \in [Orders -> 0..4] /\ events \in [Events -> Nat]
            /\ queue \in Seq(Events)
        BY <2>0 DEF RequestTypes, StoreTypes, QueueTypes, HostTypes, Places
      <3>5. QED
        BY <2>1, <3>1, <3>2, <3>3, <3>4 DEF TypeOK
    <2>3. DrainAccounting
      <3>1. Cardinality(inflight) <= 1
        <4>1. inflight = {} \/ \E d \in Held : inflight = {d}
          BY <2>0 DEF QueueInv, Hand
        <4>2. Cardinality(inflight) = 0 \/ Cardinality(inflight) = 1
          BY <4>1, FS_EmptySet, FS_Singleton
        <4>3. QED
          BY <4>2
      <3>2. QED
        BY <2>0, <3>1 DEF QueueInv, Counted, DrainAccounting, pending
    <2>4. NoOvertaking
      <3> SUFFICES ASSUME NEW e \in Events, events[e] > 0,
                          NEW d \in Range(queue) \cup
                                      {x.ev : x \in {y \in inflight : y.at = "delay"}},
                          d[1] = e[1]
                   PROVE  d[2] >= e[2]
        BY DEF NoOvertaking
      <3>1. e[2] \in Nat
        BY EventParts
      <3>2. CASE d \in Range(queue)
        <4>1. PICK j \in 1..Len(queue) : d = queue[j]
          BY <2>0, <3>2 DEF Range, QueueTypes
        <4>2. d \in Events
          BY <2>0, <4>1, ElementOfSeq DEF QueueTypes
        <4>3. e[2] < d[2]
          BY <2>0, <4>1 DEF Line, Ordered
        <4>4. QED
          BY <3>1, <4>2, <4>3, EventParts
      <3>3. CASE d \in {x.ev : x \in {y \in inflight : y.at = "delay"}}
        <4>1. PICK x \in inflight : x.at = "delay" /\ d = x.ev
          BY <3>3
        <4>2. d \in Events
          BY <2>0, <4>1 DEF QueueTypes, Held
        <4>3. e[2] < d[2]
          BY <2>0, <4>1 DEF Line, Ordered
        <4>4. QED
          BY <3>1, <4>2, <4>3, EventParts
      <3>4. QED
        BY <3>2, <3>3
    <2>5. QED
      BY <2>0, <2>2, <2>3, <2>4 DEF QueueConsistent, QueueInv
  <1>2. QED
    BY <1>1, FlowInvariant, PTL

\* Whatever fails, is retried, is reset or shut down under a request: the events
\* a channel accepts of an order are in the order of dispatchLifecycle without a
\* gap, once each where the channel is the in-process queue or an idempotent
\* producer, and the stored status is the last of them or the one before.
THEOREM FlowFollowed == Spec => []EventsFollowFlow
  <1>1. FlowInv => EventsFollowFlow
    <2> SUFFICES ASSUME FlowInv
                 PROVE  EventsFollowFlow
      OBVIOUS
    <2>0. /\ \A o \in Orders : Sound(o)
          /\ Line(queue, inflight, events, out) /\ StoreTypes
      BY DEF FlowInv, OutInv, LineInv, BaseInv, Shape
    <2>1. EventsInOrder
      BY <2>0 DEF Sound, Flowing, EventsInOrder
    <2>2. EmittedOnce
      <3>1. ASSUME NEW e \in Events
            PROVE  {e} \X (2..events[e]) = {}
        <4>1. events[e] \in Nat /\ (events[e] > 0 => events[e] = 1)
          BY <2>0 DEF StoreTypes, Line, Ordered
        <4>2. 2..events[e] = {}
          BY <4>1
        <4>3. QED
          BY <4>2
      <3>2. UNION {{e} \X (2..events[e]) : e \in Events} = {}
        BY <3>1
      <3>3. duplicateExtra = 0
        BY <3>2, FS_EmptySet DEF duplicateExtra
      <3>4. QED
        BY <2>0, <3>3 DEF Sound, Distinct, EmittedOnce
    <2>3. StatusFollowsEvents
      BY <2>0 DEF Sound, Last, StatusFollowsEvents, StatusAfter
    <2>4. QED
      BY <2>1, <2>2, <2>3 DEF EventsFollowFlow
  <1>2. QED
    BY <1>1, FlowInvariant, PTL

\* A reset in the middle of a lifecycle leaves event rows without an order only
\* for orders it deleted, and no step of the lifecycle brings such an order back.
THEOREM ResetHonoured == Spec => []ResetIsClean
  <1>1. FlowInv => ResetIsClean
    <2> SUFFICES ASSUME FlowInv
                 PROVE  ResetIsClean
      OBVIOUS
    <2>0. /\ \A o \in Orders : Sound(o)
          /\ Line(queue, inflight, events, out) /\ wiped \subseteq Orders
      BY DEF FlowInv, OutInv, LineInv, BaseInv, Shape, StoreTypes
    <2>1. ASSUME NEW e \in Events, events[e] > 0, orders[e[1]] = 0
          PROVE  e[1] \in wiped
      <3>1. e[1] \in Orders /\ e[2] \in 1..4
        BY DEF Events, Types
      <3>2. e[2] <= Last(out[e[1]])
        BY <2>0, <2>1 DEF Line, Seen
      <3>3. out[e[1]] # <<>>
        <4>1. Last(<<>>) = 0
          BY DEF Last
        <4>2. QED
          BY <3>1, <3>2, <4>1
      <3>4. QED
        BY <2>0, <2>1, <3>1, <3>3 DEF Sound
    <2>2. ResetIsFinal
      BY <2>0 DEF Sound, ResetIsFinal
    <2>3. QED
      BY <2>1, <2>2 DEF ResetIsClean, OrphansWereWiped
  <1>2. QED
    BY <1>1, FlowInvariant, PTL

\* Splitting a finite set by a number that every member has.
LEMMA SplitCount ==
  ASSUME NEW S, IsFiniteSet(S), \A x \in S : x.partitions \in Nat /\ x.partitions > 0
  PROVE  Cardinality({x \in S : x.partitions = 1}) + Cardinality({x \in S : x.partitions > 1})
           = Cardinality(S)
  <1> DEFINE A == {x \in S : x.partitions = 1}
             B == {x \in S : x.partitions > 1}
  <1>1. A \cup B = S /\ A \cap B = {}
    OBVIOUS
  <1>2. A \in SUBSET S /\ B \in SUBSET S
    OBVIOUS
  <1> HIDE DEF A, B
  <1>3. IsFiniteSet(A) /\ IsFiniteSet(B)
    BY <1>2, FS_Subset
  <1>4. Cardinality(A \cup B) = Cardinality(A) + Cardinality(B) - Cardinality(A \cap B)
    BY <1>3, FS_Union
  <1>5. Cardinality(A \cap B) = 0 /\ Cardinality(A) \in Nat /\ Cardinality(B) \in Nat
    BY <1>1, <1>3, FS_EmptySet, FS_CardinalityType
  <1>6. Cardinality(A) + Cardinality(B) = Cardinality(S)
    <2>1. Cardinality(A \cup B) = Cardinality(S)
      BY <1>1
    <2>2. Cardinality(A \cup B) = Cardinality(A) + Cardinality(B)
      BY <1>4, <1>5
    <2>3. QED
      BY <2>1, <2>2
  <1>7. QED
    BY <1>6 DEF A, B

\* What the routes report is what happened: an order in the results had every
\* event of its flow accepted, a request that is done misses an order only after
\* a fault, a shutdown or with Kafka disabled, and the scatter summary counts
\* each order once, as multi exactly where its keys hash apart.
THEOREM ReportsHonest == Spec => []HonestReports
  <1>1. FlowInv => HonestReports
    <2> SUFFICES ASSUME FlowInv
                 PROVE  HonestReports
      OBVIOUS
    <2>0. /\ Shape /\ Walks /\ RequestTypes /\ StoreTypes
          /\ \A o \in Orders : Sound(o)
      BY DEF FlowInv, OutInv, BaseInv, Shape
    <2>1. ASSUME NEW r \in Requests
          PROVE  /\ Complete(r) /\ \A x \in results[r] : Reported(r, x)
                 /\ IsFiniteSet(results[r]) /\ \A x \in results[r] : x.i <= index[r]
                 /\ at[r] = "done" => index[r] = body[r].count
                 /\ \A x \in results[r] : x.i \in 1..MAX_COUNT /\ x.partitions \in Nat
                 /\ body[r].count \in 1..MAX_COUNT
      BY <2>0 DEF FlowInv, ReportInv, Walks, Walk, RequestTypes, BodyType
    <2>2. ASSUME NEW r \in Requests, NEW x \in results[r]
          PROVE  Range(Flow(r)) \subseteq Range(out[<<r, x.i>>])
      <3>1. PICK o \in Orders : o = <<r, x.i>>
        BY <2>1, <2>2 DEF Orders
      <3>2. Len(Flow(r)) <= Last(out[o]) /\ Last(out[o]) \in 0..4
        BY <2>0, <2>1, <2>2, <3>1, LastType DEF Reported, StoreTypes
      <3>3. \A v \in 1..Last(out[o]) : \E j \in 1..Len(out[o]) : out[o][j] = v
        BY <2>0, <3>1 DEF Sound, Flowing
      <3>4. DOMAIN out[o] = 1..Len(out[o])
        BY <2>0 DEF StoreTypes
      <3>5. ASSUME NEW v \in Range(Flow(r))
            PROVE  v \in 1..Len(Flow(r)) /\ Len(Flow(r)) \in Nat
        <4>1. Flow(r) \in Seq(Types)
          <5>1. <<1>> \in Seq(Types) /\ <<2, 3, 4>> \in Seq(Types)
            BY DEF Types
          <5>2. <<1>> \o <<2, 3, 4>> \in Seq(Types)
            BY <5>1, ConcatProperties
          <5>3. QED
            BY <5>1, <5>2 DEF Flow, LIFECYCLE_EVENT_TYPES
        <4>2. PICK i \in 1..Len(Flow(r)) : v = Flow(r)[i]
          BY <3>5, <4>1 DEF Range
        <4>3. QED
          BY <4>2, FlowFacts
      <3>6. ASSUME NEW v \in Range(Flow(r))
            PROVE  v \in Range(out[o])
        <4>1. v \in 1..Last(out[o])
          BY <3>2, <3>5
        <4>2. PICK j \in 1..Len(out[o]) : out[o][j] = v
          BY <3>3, <4>1
        <4>3. QED
          BY <3>4, <4>2 DEF Range
      <3>7. QED
        BY <3>1, <3>6
    <2>3. ASSUME NEW r \in Requests, at[r] = "done", Cardinality(results[r]) < body[r].count
          PROVE  Trouble
      <3> SUFFICES ASSUME ~Trouble
                   PROVE  FALSE
        OBVIOUS
      <3> DEFINE n == body[r].count
                 f == [x \in results[r] |-> x.i]
      <3>1. n \in Nat \ {0} /\ n = index[r] /\ MAX_COUNT \in Nat
        BY <2>1, <2>3, FlowAssumption
      <3>2. \A i \in 1..n : \E x \in results[r] : x.i = i
        BY <2>1, <2>3, <3>1 DEF Complete
      <3>3. \A x \in results[r] : x.i \in 1..n
        BY <2>1, <3>1
      <3> HIDE DEF n
      <3>4. f \in Surjection(results[r], 1..n)
        <4>1. f \in [results[r] -> 1..n]
          BY <3>3
        <4>2. \A i \in 1..n : \E x \in results[r] : f[x] = i
          BY <3>2
        <4> HIDE DEF f
        <4>3. QED
          BY <4>1, <4>2 DEF Surjection
      <3> HIDE DEF f
      <3>5. Cardinality(1..n) <= Cardinality(results[r])
        BY <2>1, <3>4, FS_Surjection
      <3>6. Cardinality(1..n) = n
        BY <3>1, FS_Interval
      <3>7. Cardinality(results[r]) \in Nat
        BY <2>1, FS_CardinalityType
      <3>8. Cardinality(results[r]) < n
        BY <2>3 DEF n
      <3>9. QED
        BY <3>1, <3>5, <3>6, <3>7, <3>8
    <2>4. HonestResults
      BY <2>2, <2>3 DEF HonestResults, Trouble
    <2>5. ASSUME NEW r \in Requests, IsLifecycle(r)
          PROVE  /\ summarizeScatter(r).single + summarizeScatter(r).multi
                      = IF InMemory THEN 0 ELSE Cardinality(results[r])
                 /\ setting.keyed /\ ~InMemory =>
                      summarizeScatter(r).multi =
                        Cardinality({x \in results[r] : Hash[<<r, x.i>>] # Hash[Product]})
      <3>1. /\ summarizeScatter(r).single = Cardinality({x \in results[r] : x.partitions = 1})
            /\ summarizeScatter(r).multi = Cardinality({x \in results[r] : x.partitions > 1})
        BY DEF summarizeScatter
      <3>2. CASE InMemory
        <4>1. \A x \in results[r] : x.partitions = 0
          BY <2>1, <3>2 DEF Reported
        <4>2. /\ {x \in results[r] : x.partitions = 1} = {}
              /\ {x \in results[r] : x.partitions > 1} = {}
          BY <4>1
        <4>3. QED
          BY <3>1, <3>2, <4>2, FS_EmptySet
      <3>3. CASE ~InMemory
        <4>1. \A x \in results[r] : x.partitions \in Nat /\ x.partitions > 0
          BY <2>1, <2>5, <3>3 DEF Reported
        <4>2. Cardinality({x \in results[r] : x.partitions = 1})
                + Cardinality({x \in results[r] : x.partitions > 1}) = Cardinality(results[r])
          BY <2>1, <4>1, SplitCount
        <4>3. ASSUME setting.keyed
              PROVE  {x \in results[r] : x.partitions > 1}
                       = {x \in results[r] : Hash[<<r, x.i>>] # Hash[Product]}
          <5>1. \A x \in results[r] : x.partitions > 1 <=> Hash[<<r, x.i>>] # Hash[Product]
            BY <2>1, <2>5, <3>3, <4>3 DEF Reported
          <5>2. QED
            BY <5>1
        <4>4. QED
          BY <3>1, <3>3, <4>2, <4>3
      <3>4. QED
        BY <3>2, <3>3
    <2>6. ScatterIsHonest
      BY <2>5 DEF ScatterIsHonest
    <2>7. QED
      BY <2>4, <2>6 DEF HonestReports
  <1>2. QED
    BY <1>1, FlowInvariant, PTL

=============================================================================
