-------------------------- MODULE WorkerPoolProofs --------------------------
(***************************************************************************)
(* Invariance proofs for WorkerPool, for every number of workers, set of     *)
(* types, limits and bounds on tasks and faults.  The first part holds       *)
(* whatever the threads do; the second is about threads that have booted     *)
(* and stay up.                                                              *)
(***************************************************************************)
EXTENDS WorkerPool, FiniteSetTheorems, SequenceTheorems, TLAPS

-----------------------------------------------------------------------------
(* Types *)

Messages == [msg : {"initialized", "healthCheck", "result"},
             task : Tasks \cup {NoTask}, ok : BOOLEAN]

\* The three messages of a thread are messages.
LEMMA MessagesTyped ==
  /\ Initialized \in Messages
  /\ Pong \in Messages
  /\ \A t \in Tasks, ok \in BOOLEAN : Result(t, ok) \in Messages
  BY DEF Messages, Initialized, Pong, Result, NoTask

\* A mailbox keeps its type when a message is appended to it or read from it.
LEMMA MailboxTyped ==
  ASSUME NEW S, NEW box \in Seq(S)
  PROVE  /\ << >> \in Seq(S)
         /\ \A m \in S : Append(box, m) \in Seq(S)
         /\ box # << >> => Head(box) \in S /\ Tail(box) \in Seq(S)
  BY EmptySeq, AppendProperties, HeadTailProperties

\* A task has a type, and there are finitely many.
LEMMA TaskTyped ==
  ASSUME TypeOK
  PROVE  /\ Len(type) \in Nat
         /\ NoTask \notin Tasks
         /\ \A t \in Tasks : type[t] \in Types
  <1>1. type \in Seq(Types)
    BY DEF TypeOK
  <1>2. QED
    BY <1>1, LenProperties DEF Tasks, NoTask

\* addTask: the new tasks get the next ids.
LEMMA TasksGrow ==
  ASSUME TypeOK, NEW n \in 1..ConcurrentTasks, NEW tys \in [1..n -> Types],
         SubmitTasks(tys)
  PROVE  /\ Len(tys) = n
         /\ type' \in Seq(Types)
         /\ Len(type') = Len(type) + n
         /\ Tasks \subseteq Tasks'
         /\ Tasks' = Tasks \cup ((Len(type) + 1)..(Len(type) + n))
         /\ \A t \in Tasks : type'[t] = type[t]
  <1>1. n \in Nat
    BY PoolAssumption
  <1>2. tys \in Seq(Types) /\ Len(tys) = n
    BY <1>1
  <1>3. type \in Seq(Types) /\ Len(type) \in Nat
    BY LenProperties DEF TypeOK
  <1>4. /\ type' \in Seq(Types)
        /\ Len(type') = Len(type) + n
        /\ \A t \in 1..Len(type) : type'[t] = type[t]
    <2>1. type' = type \o tys
      BY DEF SubmitTasks
    <2>2. /\ type \o tys \in Seq(Types)
          /\ Len(type \o tys) = Len(type) + Len(tys)
          /\ \A t \in 1..(Len(type) + Len(tys)) :
               (type \o tys)[t] = IF t <= Len(type) THEN type[t]
                                  ELSE tys[t - Len(type)]
      BY <1>2, <1>3, ConcatProperties
    <2>3. \A t \in 1..Len(type) : t \in 1..(Len(type) + Len(tys)) /\ t <= Len(type)
      BY <1>1, <1>2, <1>3
    <2>4. QED
      BY <1>2, <2>1, <2>2, <2>3
  <1>5. QED
    BY <1>1, <1>2, <1>3, <1>4 DEF Tasks

\* SubmitTasks keeps the types.
LEMMA SubmitTyped ==
  ASSUME TypeOK, NEW n \in 1..ConcurrentTasks, NEW tys \in [1..n -> Types],
         SubmitTasks(tys)
  PROVE  TypeOK'
  <1>1. /\ Len(tys) = n /\ n \in Nat
        /\ Len(type) \in Nat
        /\ type' \in Seq(Types)
        /\ Tasks \subseteq Tasks'
        /\ Tasks' = Tasks \cup ((Len(type) + 1)..(Len(type) + n))
    BY TasksGrow, TaskTyped, PoolAssumption
  <1>2. inbox' \in [Workers -> Seq(Tasks' \cup {Ping})]
    <2> DEFINE S == Tasks \cup {Ping}
               T == Tasks' \cup {Ping}
    <2>1. inbox \in [Workers -> Seq(S)] /\ S \subseteq T
      BY <1>1 DEF TypeOK
    <2> HIDE DEF S, T
    <2>2. ASSUME NEW i \in Workers PROVE inbox[i] \in Seq(T)
      <3>1. inbox[i] \in Seq(S)
        BY <2>1
      <3>2. QED
        BY <2>1, <3>1, SeqMonotonic
    <2>3. QED
      BY <2>2 DEF TypeOK, SubmitTasks, threadVars, T
  <1>3. outbox' \in [Workers -> Seq(Messages')]
    <2> DEFINE S == Messages
               T == Messages'
    <2>1. outbox \in [Workers -> Seq(S)] /\ S \subseteq T
      BY <1>1 DEF TypeOK, Messages
    <2> HIDE DEF S, T
    <2>2. ASSUME NEW i \in Workers PROVE outbox[i] \in Seq(T)
      <3>1. outbox[i] \in Seq(S)
        BY <2>1
      <3>2. QED
        BY <2>1, <3>1, SeqMonotonic
    <2>3. QED
      BY <2>2 DEF TypeOK, SubmitTasks, threadVars, T
  <1>4. workerBusy' \in [Workers -> BOOLEAN]
    BY DEF TypeOK, SubmitTasks
  <1>5. workerTaskQueue' \subseteq Tasks'
    BY <1>1 DEF TypeOK, SubmitTasks
  <1>6. cursor' \in 0..WorkerCount + 1 /\ failing' \in 0..WorkerCount
    BY PoolAssumption DEF TypeOK, SubmitTasks
  <1>7. activeRequests' \in Nat
    BY <1>1 DEF TypeOK, SubmitTasks
  <1>8. QED
    BY <1>1, <1>2, <1>3, <1>4, <1>5, <1>6, <1>7
    DEF TypeOK, SubmitTasks, Messages, threadVars, faultVars

\* handleWorkerResult keeps the types of what it changes.
LEMMA ResultTyped ==
  ASSUME TypeOK, NEW i \in Workers, NEW ok \in BOOLEAN,
         handleWorkerResult(i, ok), type' = type
  PROVE  /\ workerTaskQueue' \subseteq Tasks
         /\ workerBusy' \in [Workers -> BOOLEAN]
         /\ assignedTasks' \in [Workers -> Tasks \cup {NoTask}]
         /\ activeByType' \in [Types -> Nat]
         /\ activeRequests' \in Nat
         /\ resolved' \subseteq Tasks
         /\ rejected' \subseteq Tasks
  <1>1. workerBusy' \in [Workers -> BOOLEAN]
    BY DEF TypeOK, handleWorkerResult
  <1>2. assignedTasks' \in [Workers -> Tasks \cup {NoTask}]
    BY DEF TypeOK, handleWorkerResult
  <1>3. CASE assignedTasks[i] = NoTask
    BY <1>1, <1>2, <1>3 DEF TypeOK, handleWorkerResult, slotVars
  <1>4. CASE assignedTasks[i] # NoTask
    <2>1. assignedTasks[i] \in Tasks /\ type[assignedTasks[i]] \in Types
      BY <1>4, TaskTyped DEF TypeOK
    <2>2. /\ typeCountAfter(type[assignedTasks[i]], ok) \in Nat
          /\ slotsAfter(ok) \in Nat
      BY <2>1 DEF TypeOK, typeCountAfter, slotsAfter, AtLeast0
    <2>3. activeByType' \in [Types -> Nat]
      BY <1>4, <2>1, <2>2 DEF TypeOK, handleWorkerResult
    <2>4. QED
      BY <1>1, <1>2, <1>4, <2>1, <2>2, <2>3 DEF TypeOK, handleWorkerResult
  <1>5. QED
    BY <1>3, <1>4

\* replaceThread keeps the types of what it changes.
LEMMA ReplaceTyped ==
  ASSUME TypeOK, NEW i \in Workers, replaceThread(i)
  PROVE  /\ thread' \in [Workers -> {"booting", "up", "hung", "dead"}]
         /\ inbox' \in [Workers -> Seq(Tasks \cup {Ping})]
         /\ outbox' \in [Workers -> Seq(Messages)]
  <1>1. << >> \in Seq(Tasks \cup {Ping}) /\ << >> \in Seq(Messages)
    BY EmptySeq
  <1>2. QED
    BY <1>1 DEF TypeOK, replaceThread, Messages

\* handleWorkerFailure keeps the types of what it changes.
LEMMA FailureTyped ==
  ASSUME TypeOK, NEW i \in Workers, handleWorkerFailure(i),
         failures' \in 0..MaxFailures
  PROVE  TypeOK'
  <1>1. /\ type' = type /\ Tasks' = Tasks /\ Messages' = Messages
        /\ pinging' \subseteq Workers
        /\ hangs' = hangs /\ postFailures' = postFailures
    BY DEF TypeOK, handleWorkerFailure, Tasks, Messages
  <1>2. CASE assignedTasks[i] # NoTask
    <2>1. /\ handleWorkerResult(i, FALSE)
          /\ cursor' = 1 /\ failing' = i /\ UNCHANGED threadVars
      BY <1>2 DEF handleWorkerFailure
    <2>2. cursor' \in 0..WorkerCount + 1 /\ failing' \in 0..WorkerCount
      BY <2>1, PoolAssumption DEF Workers
    <2>3. QED
      BY <1>1, <2>1, <2>2, ResultTyped DEF TypeOK, threadVars
  <1>3. CASE assignedTasks[i] = NoTask
    <2>1. /\ workerBusy' = [workerBusy EXCEPT ![i] = FALSE]
          /\ replaceThread(i)
          /\ UNCHANGED <<workerTaskQueue, assignedTasks, activeByType, slotVars,
                         cursor, failing>>
      BY <1>3 DEF handleWorkerFailure, handleWorkerResult
    <2>2. workerBusy' \in [Workers -> BOOLEAN]
      BY <2>1 DEF TypeOK
    <2>3. QED
      BY <1>1, <2>1, <2>2, ReplaceTyped DEF TypeOK, slotVars, Messages
  <1>4. QED
    BY <1>2, <1>3

\* The walk's three steps at a worker keep the types.
LEMMA WalkTyped ==
  ASSUME TypeOK, SkipWorker \/ PostTask \/ PostFails
  PROVE  TypeOK'
  <1>1. type' = type /\ Tasks' = Tasks /\ Messages' = Messages
    BY DEF SkipWorker, PostTask, PostFails, Tasks, Messages
  <1>2. /\ cursor \in Workers
        /\ cursor' \in 0..WorkerCount + 1
    <2>1. cursor \in Workers /\ cursor' = cursor + 1
      BY DEF SkipWorker, PostTask, PostFails
    <2>2. QED
      BY <2>1, PoolAssumption DEF Workers
  <1>3. CASE SkipWorker
    BY <1>1, <1>2, <1>3 DEF TypeOK, SkipWorker, poolVars, slotVars, threadVars,
       faultVars
  <1>4. CASE PostTask
    <2>1. PICK t \in Dispatchable :
            /\ workerTaskQueue' = queueWithout(t)
            /\ postMessage(cursor, t)
            /\ workerBusy' = [workerBusy EXCEPT ![cursor] = TRUE]
            /\ activeByType' = [activeByType EXCEPT ![type[t]] = @ + 1]
            /\ assignedTasks' = [assignedTasks EXCEPT ![cursor] = t]
      BY <1>4 DEF PostTask
    <2>2. t \in Tasks /\ t \in workerTaskQueue /\ type[t] \in Types
      BY TaskTyped DEF Dispatchable, TypeOK
    <2>3. inbox' \in [Workers -> Seq(Tasks \cup {Ping})]
      <3>1. Append(inbox[cursor], t) \in Seq(Tasks \cup {Ping})
        BY <1>2, <2>2, MailboxTyped DEF TypeOK
      <3>2. QED
        BY <2>1, <3>1 DEF TypeOK, postMessage
    <2>4. workerBusy' \in [Workers -> BOOLEAN]
      BY <2>1 DEF TypeOK
    <2>5. assignedTasks' \in [Workers -> Tasks \cup {NoTask}]
      BY <2>1, <2>2 DEF TypeOK
    <2>6. activeByType' \in [Types -> Nat]
      BY <2>1, <2>2 DEF TypeOK
    <2>7. QED
      BY <1>1, <1>2, <1>4, <2>1, <2>3, <2>4, <2>5, <2>6
      DEF TypeOK, PostTask, queueWithout, slotVars, faultVars
  <1>5. CASE PostFails
    <2>1. PICK t \in Dispatchable :
            /\ workerTaskQueue' = queueWithout(t)
            /\ rejected' = rejected \cup {t}
      BY <1>5 DEF PostFails
    <2>2. t \in Tasks
      BY DEF Dispatchable, TypeOK
    <2>3. assignedTasks' \in [Workers -> Tasks \cup {NoTask}]
      BY <1>5 DEF TypeOK, PostFails
    <2>4. activeRequests' \in Nat /\ postFailures' \in 0..MaxPostFailures
      BY <1>5, PoolAssumption DEF TypeOK, PostFails, slotsAfter, AtLeast0
    <2>5. QED
      BY <1>1, <1>2, <1>5, <2>1, <2>2, <2>3, <2>4
      DEF TypeOK, PostFails, queueWithout, threadVars
  <1>6. QED
    BY <1>3, <1>4, <1>5

\* EndWalk and the 'message' listener keep the types.
LEMMA CallbackTyped ==
  ASSUME TypeOK, EndWalk \/ \E i \in Workers : DeliverMessage(i)
  PROVE  TypeOK'
  <1>1. type' = type /\ Tasks' = Tasks /\ Messages' = Messages
    BY DEF EndWalk, DeliverMessage, Tasks, Messages
  <1>2. 0 \in 0..WorkerCount + 1 /\ 1 \in 0..WorkerCount + 1 /\ 0 \in 0..WorkerCount
    BY PoolAssumption
  <1>3. CASE EndWalk
    <2>1. CASE failing = 0
      <3>1. UNCHANGED <<workerBusy, threadVars>>
        BY <1>3, <2>1 DEF EndWalk
      <3>2. QED
        BY <1>1, <1>2, <1>3, <3>1 DEF TypeOK, EndWalk, threadVars, slotVars, faultVars
    <2>2. CASE failing # 0
      <3>1. /\ failing \in Workers
            /\ workerBusy' = [workerBusy EXCEPT ![failing] = FALSE]
            /\ replaceThread(failing)
        BY <1>3, <2>2, PoolAssumption DEF EndWalk, TypeOK, Workers
      <3>2. workerBusy' \in [Workers -> BOOLEAN]
        BY <3>1 DEF TypeOK
      <3>3. QED
        BY <1>1, <1>2, <1>3, <3>1, <3>2, ReplaceTyped
        DEF TypeOK, EndWalk, slotVars, faultVars, Messages
    <2>3. QED
      BY <2>1, <2>2
  <1>4. ASSUME NEW i \in Workers, DeliverMessage(i)
        PROVE  TypeOK'
    <2> DEFINE m == Head(outbox[i])
    <2>1. /\ outbox[i] \in Seq(Messages) /\ outbox[i] # << >>
          /\ outbox' = [outbox EXCEPT ![i] = Tail(@)]
      BY <1>4 DEF TypeOK, DeliverMessage, Messages
    <2>2. m \in Messages /\ Tail(outbox[i]) \in Seq(Messages)
      BY <2>1, MailboxTyped
    <2>3. outbox' \in [Workers -> Seq(Messages)]
      BY <2>1, <2>2 DEF TypeOK, Messages
    <2>4. CASE m = Initialized
      <3>1. /\ workerBusy' = [workerBusy EXCEPT ![i] = FALSE]
            /\ UNCHANGED <<workerTaskQueue, assignedTasks, activeByType, pinging,
                           slotVars, cursor>>
        BY <1>4, <2>4 DEF DeliverMessage, Initialized, Pong
      <3>2. workerBusy' \in [Workers -> BOOLEAN]
        BY <3>1 DEF TypeOK
      <3>3. QED
        BY <1>1, <1>4, <2>3, <3>1, <3>2
        DEF TypeOK, DeliverMessage, slotVars, faultVars, Messages
    <2>5. CASE m = Pong
      <3>1. /\ pinging' = pinging \ {i}
            /\ UNCHANGED <<poolVars, slotVars, cursor>>
        BY <1>4, <2>5 DEF DeliverMessage, Initialized, Pong
      <3>2. QED
        BY <1>1, <1>4, <2>3, <3>1
        DEF TypeOK, DeliverMessage, slotVars, poolVars, faultVars, Messages
    <2>6. CASE m.msg = "result"
      <3>1. /\ pinging' = pinging \ {i}
            /\ handleWorkerResult(i, m.ok)
            /\ cursor' = 1
        BY <1>4, <2>6 DEF DeliverMessage, Initialized, Pong
      <3>2. m.ok \in BOOLEAN
        BY <2>2 DEF Messages
      <3> HIDE DEF m
      <3>3. /\ workerTaskQueue' \subseteq Tasks
            /\ workerBusy' \in [Workers -> BOOLEAN]
            /\ assignedTasks' \in [Workers -> Tasks \cup {NoTask}]
            /\ activeByType' \in [Types -> Nat]
            /\ activeRequests' \in Nat
            /\ resolved' \subseteq Tasks
            /\ rejected' \subseteq Tasks
        BY <1>1, <3>1, <3>2, ResultTyped
      <3>4. QED
        BY <1>1, <1>2, <1>4, <2>3, <3>1, <3>3
        DEF TypeOK, DeliverMessage, faultVars, Messages
    <2>7. QED
      BY <1>4, <2>4, <2>5, <2>6 DEF DeliverMessage
  <1>5. QED
    BY <1>3, <1>4

\* The threads' own steps keep the types.
LEMMA ThreadTyped ==
  ASSUME TypeOK, NEW i \in Workers, Boot(i) \/ Work(i) \/ Crash(i) \/ Hang(i)
  PROVE  TypeOK'
  <1>1. type' = type /\ Tasks' = Tasks /\ Messages' = Messages
    BY DEF Boot, Work, Crash, Hang, Tasks, Messages
  <1>2. /\ inbox \in [Workers -> Seq(Tasks \cup {Ping})]
        /\ outbox \in [Workers -> Seq(Messages)]
    BY DEF TypeOK, Messages
  <1>3. CASE Boot(i)
    <2>1. Append(outbox[i], Initialized) \in Seq(Messages)
      BY <1>2, MessagesTyped, MailboxTyped
    <2>2. outbox' \in [Workers -> Seq(Messages)]
      BY <1>2, <1>3, <2>1 DEF Boot
    <2>3. QED
      BY <1>1, <1>3, <2>2 DEF TypeOK, Boot, poolVars, slotVars, faultVars, Messages
  <1>4. CASE Work(i)
    <2>1. /\ Head(inbox[i]) \in Tasks \cup {Ping}
          /\ Tail(inbox[i]) \in Seq(Tasks \cup {Ping})
      BY <1>2, <1>4, MailboxTyped DEF Work
    <2>2. inbox' \in [Workers -> Seq(Tasks \cup {Ping})]
      BY <1>2, <1>4, <2>1 DEF Work
    <2>3. outbox' \in [Workers -> Seq(Messages)]
      <3>1. PICK m \in Messages : outbox' = [outbox EXCEPT ![i] = Append(@, m)]
        BY <1>4, <2>1, MessagesTyped DEF Work
      <3>2. Append(outbox[i], m) \in Seq(Messages)
        BY <1>2, MailboxTyped
      <3>3. QED
        BY <1>2, <3>1, <3>2
    <2>4. QED
      BY <1>1, <1>4, <2>2, <2>3 DEF TypeOK, Work, poolVars, slotVars, faultVars, Messages
  <1>5. CASE Crash(i)
    <2>1. << >> \in Seq(Tasks \cup {Ping})
      BY EmptySeq
    <2>2. failures' \in 0..MaxFailures
      BY <1>5, PoolAssumption DEF TypeOK, Crash
    <2>3. QED
      BY <1>1, <1>5, <2>1, <2>2 DEF TypeOK, Crash, poolVars, slotVars, Messages
  <1>6. CASE Hang(i)
    <2>1. hangs' \in 0..MaxHangs
      BY <1>6, PoolAssumption DEF TypeOK, Hang
    <2>2. QED
      BY <1>1, <1>6, <2>1 DEF TypeOK, Hang, poolVars, slotVars, Messages
  <1>7. QED
    BY <1>3, <1>4, <1>5, <1>6

\* The health check keeps the types.
LEMMA HealthTyped ==
  ASSUME TypeOK, HealthCheck
  PROVE  TypeOK'
  <1>1. type' = type /\ Tasks' = Tasks /\ Messages' = Messages
    BY DEF HealthCheck, Tasks, Messages
  <1>2. \A i \in Workers : Append(inbox[i], Ping) \in Seq(Tasks \cup {Ping})
    BY MailboxTyped DEF TypeOK
  <1>3. inbox' \in [Workers -> Seq(Tasks \cup {Ping})]
    BY <1>2 DEF TypeOK, HealthCheck
  <1>4. pinging' \subseteq Workers
    BY DEF TypeOK, HealthCheck
  <1>5. QED
    BY <1>1, <1>3, <1>4 DEF TypeOK, HealthCheck, poolVars, slotVars, faultVars, Messages

\* Every step keeps the types.
LEMMA TypesStep == TypeOK /\ [Next]_vars => TypeOK'
  <1> SUFFICES ASSUME TypeOK, [Next]_vars PROVE TypeOK'
    OBVIOUS
  <1>1. ASSUME NEW i \in Workers, WorkerFailed(i) \/ PingTimeout(i)
        PROVE  TypeOK'
    <2>1. failures' \in 0..MaxFailures /\ handleWorkerFailure(i)
      BY <1>1, PoolAssumption DEF TypeOK, WorkerFailed, PingTimeout
    <2>2. QED
      BY <2>1, FailureTyped
  <1>2. CASE UNCHANGED vars
    BY <1>2 DEF TypeOK, Tasks, vars, poolVars, slotVars, threadVars, faultVars
  <1>3. QED
    BY <1>1, <1>2, SubmitTyped, WalkTyped, CallbackTyped, ThreadTyped, HealthTyped
    DEF Next, MainThread

-----------------------------------------------------------------------------
(* Whatever the threads do *)

\* The open tasks of the pool, each of which holds a slot.
Open == Tasks \ Settled

\* handleWorkerResult settles the task of the worker, if it has one.
LEMMA ResultSettles ==
  ASSUME TypeOK, SettledOnce, NEW i \in Workers, NEW ok \in BOOLEAN,
         handleWorkerResult(i, ok), type' = type
  PROVE  /\ SettledOnce'
         /\ assignedTasks[i] = NoTask => UNCHANGED <<Open, activeRequests>>
         /\ assignedTasks[i] # NoTask =>
              /\ assignedTasks[i] \in Open
              /\ Open' = Open \ {assignedTasks[i]}
              /\ activeRequests' = slotsAfter(ok)
  <1>1. /\ workerTaskQueue' = workerTaskQueue
        /\ assignedTasks' = [assignedTasks EXCEPT ![i] = NoTask]
        /\ Tasks' = Tasks
    BY DEF handleWorkerResult, Tasks
  <1>2. /\ assignedTasks'[i] = NoTask
        /\ \A j \in Workers \ {i} : assignedTasks'[j] = assignedTasks[j]
    BY <1>1 DEF TypeOK
  <1>3. \A t \in Assigned' : t \in Assigned /\ t # assignedTasks[i]
    BY <1>2 DEF Assigned, SettledOnce
  <1>4. CASE assignedTasks[i] = NoTask
    <2>1. UNCHANGED <<resolved, rejected, activeRequests>>
      BY <1>4 DEF handleWorkerResult, slotVars
    <2>2. QED
      BY <1>1, <1>2, <1>3, <1>4, <2>1 DEF SettledOnce, Settled, Open
  <1>5. CASE assignedTasks[i] # NoTask
    <2>1. /\ assignedTasks[i] \in Assigned
          /\ assignedTasks[i] \in Tasks
          /\ assignedTasks[i] \notin Settled
          /\ assignedTasks[i] \notin workerTaskQueue
      BY <1>5 DEF TypeOK, SettledOnce, Assigned
    <2>2. /\ resolved' = IF ok THEN resolved \cup {assignedTasks[i]} ELSE resolved
          /\ rejected' = IF ok THEN rejected ELSE rejected \cup {assignedTasks[i]}
          /\ activeRequests' = slotsAfter(ok)
      BY <1>5 DEF handleWorkerResult
    <2>3. Settled' = Settled \cup {assignedTasks[i]}
      BY <2>2 DEF Settled
    <2>4. SettledOnce'
      <3>1. resolved' \cap rejected' = {}
        BY <2>1, <2>2 DEF SettledOnce, Settled
      <3>2. Settled' \cap (workerTaskQueue' \cup Assigned') = {}
        BY <1>1, <1>3, <2>1, <2>3 DEF SettledOnce
      <3>3. workerTaskQueue' \cap Assigned' = {}
        BY <1>1, <1>3 DEF SettledOnce
      <3>4. QED
        BY <1>2, <3>1, <3>2, <3>3 DEF SettledOnce
    <2>5. QED
      BY <1>1, <1>5, <2>1, <2>2, <2>3, <2>4 DEF Open
  <1>6. QED
    BY <1>4, <1>5

\* What a step does to the open tasks and to the slots: new tasks come with
\* their slots, one task is settled and gives its slot back, or neither.
SlotStep ==
  \/ UNCHANGED <<Open, activeRequests>>
  \/ \E n \in 1..ConcurrentTasks :
       /\ Open' = Open \cup ((Len(type) + 1)..(Len(type) + n))
       /\ activeRequests' = activeRequests + n
  \/ \E t \in Open :
       /\ Open' = Open \ {t}
       /\ activeRequests' = AtLeast0(activeRequests - 1)

\* handleWorkerFailure settles the task of the worker, if it has one.
LEMMA FailureSettles ==
  ASSUME TypeOK, SettledOnce, NEW i \in Workers, handleWorkerFailure(i)
  PROVE  SettledOnce' /\ SlotStep
  <1>1. type' = type
    BY DEF handleWorkerFailure
  <1>2. CASE assignedTasks[i] # NoTask
    <2>1. handleWorkerResult(i, FALSE)
      BY <1>2 DEF handleWorkerFailure
    <2>2. QED
      BY <1>1, <1>2, <2>1, ResultSettles DEF SlotStep, slotsAfter
  <1>3. CASE assignedTasks[i] = NoTask
    <2>1. UNCHANGED <<type, workerTaskQueue, assignedTasks, slotVars>>
      BY <1>3 DEF handleWorkerFailure, handleWorkerResult
    <2>2. QED
      BY <2>1 DEF SettledOnce, Settled, Assigned, slotVars, SlotStep, Open, Tasks
  <1>4. QED
    BY <1>2, <1>3

\* Every step keeps a task from being settled twice, and moves slots with tasks.
LEMMA SettleStep ==
  ASSUME TypeOK, SettledOnce, [Next]_vars
  PROVE  SettledOnce' /\ SlotStep
  <1>1. ASSUME NEW n \in 1..ConcurrentTasks, NEW tys \in [1..n -> Types],
               SubmitTasks(tys)
        PROVE  SettledOnce' /\ SlotStep
    <2> DEFINE new == (Len(type) + 1)..(Len(type) + n)
    <2>1. /\ Len(tys) = n /\ Len(type) \in Nat /\ n \in Nat
          /\ Tasks' = Tasks \cup new
      BY <1>1, TasksGrow, TaskTyped, PoolAssumption
    <2>2. /\ workerTaskQueue' = workerTaskQueue \cup new
          /\ activeRequests' = activeRequests + n
          /\ UNCHANGED <<assignedTasks, resolved, rejected>>
      BY <1>1, <2>1 DEF SubmitTasks
    <2>3. \A t \in new : t \notin Tasks /\ t # NoTask
      BY <2>1 DEF Tasks, NoTask
    <2>4. Settled \subseteq Tasks /\ Assigned \subseteq Tasks
      BY DEF TypeOK, Settled, Assigned
    <2> HIDE DEF new
    <2>5. SettledOnce'
      BY <2>2, <2>3, <2>4 DEF SettledOnce, Settled, Assigned
    <2>6. Open' = Open \cup new
      BY <2>1, <2>2, <2>3, <2>4 DEF Open, Settled
    <2>7. QED
      BY <2>2, <2>5, <2>6 DEF SlotStep, new
  <1>2. CASE PostTask
    <2>1. PICK t \in workerTaskQueue :
            /\ workerTaskQueue' = workerTaskQueue \ {t}
            /\ assignedTasks' = [assignedTasks EXCEPT ![cursor] = t]
      BY <1>2 DEF PostTask, Dispatchable, queueWithout
    <2>2. /\ UNCHANGED <<type, resolved, rejected, activeRequests>>
          /\ cursor \in Workers
      BY <1>2 DEF PostTask, slotVars
    <2>3. t \notin Settled /\ t \notin Assigned
      BY DEF SettledOnce
    <2>4. /\ assignedTasks'[cursor] = t
          /\ \A j \in Workers \ {cursor} : assignedTasks'[j] = assignedTasks[j]
      BY <2>1, <2>2 DEF TypeOK
    <2>5. Assigned' \subseteq Assigned \cup {t}
      BY <2>4 DEF Assigned
    <2>6. /\ Settled' = Settled /\ Open' = Open
      BY <2>2 DEF Settled, Open, Tasks
    <2>7. \A j \in Workers : assignedTasks[j] # NoTask => assignedTasks[j] # t
      BY <2>3 DEF Assigned
    <2>8. /\ resolved' \cap rejected' = {}
          /\ Settled' \cap (workerTaskQueue' \cup Assigned') = {}
          /\ workerTaskQueue' \cap Assigned' = {}
      BY <2>1, <2>2, <2>3, <2>5, <2>6 DEF SettledOnce
    <2>9. \A j, k \in Workers :
            assignedTasks'[j] = assignedTasks'[k] /\ assignedTasks'[j] # NoTask => j = k
      BY <2>4, <2>7 DEF SettledOnce
    <2>10. QED
      BY <2>2, <2>6, <2>8, <2>9 DEF SettledOnce, SlotStep
  <1>3. CASE PostFails
    <2>1. PICK t \in workerTaskQueue :
            /\ workerTaskQueue' = workerTaskQueue \ {t}
            /\ rejected' = rejected \cup {t}
      BY <1>3 DEF PostFails, Dispatchable, queueWithout
    <2>2. /\ UNCHANGED <<type, resolved>>
          /\ activeRequests' = AtLeast0(activeRequests - 1)
          /\ cursor \in Workers
          /\ assignedTasks' = [assignedTasks EXCEPT ![cursor] = NoTask]
      BY <1>3 DEF PostFails, slotsAfter
    <2>3. t \notin Settled /\ t \notin Assigned /\ t \in Tasks
      BY DEF SettledOnce, TypeOK
    <2>4. \A j \in Workers : assignedTasks'[j] \in {assignedTasks[j], NoTask}
      BY <2>2 DEF TypeOK
    <2>5. Assigned' \subseteq Assigned
      BY <2>4 DEF Assigned
    <2>6. /\ Settled' = Settled \cup {t} /\ t \in Open /\ Open' = Open \ {t}
      BY <2>1, <2>2, <2>3 DEF Settled, Open, Tasks
    <2>7. /\ resolved' \cap rejected' = {}
          /\ Settled' \cap (workerTaskQueue' \cup Assigned') = {}
          /\ workerTaskQueue' \cap Assigned' = {}
      BY <2>1, <2>2, <2>3, <2>5, <2>6 DEF SettledOnce, Settled
    <2>8. SettledOnce'
      BY <2>4, <2>7 DEF SettledOnce
    <2>9. QED
      BY <2>2, <2>6, <2>8 DEF SlotStep
  <1>4. ASSUME NEW i \in Workers, DeliverMessage(i)
        PROVE  SettledOnce' /\ SlotStep
    <2> DEFINE m == Head(outbox[i])
    <2>1. CASE UNCHANGED <<type, workerTaskQueue, assignedTasks, slotVars>>
      BY <2>1 DEF SettledOnce, Settled, Assigned, slotVars, SlotStep, Open, Tasks
    <2>2. CASE handleWorkerResult(i, m.ok)
      <3>1. outbox[i] \in Seq(Messages) /\ outbox[i] # << >> /\ type' = type
        BY <1>4 DEF TypeOK, Messages, DeliverMessage
      <3>2. m \in Messages
        BY <3>1, MailboxTyped
      <3> HIDE DEF m
      <3>3. m.ok \in BOOLEAN
        BY <3>2 DEF Messages
      <3>4. QED
        BY <2>2, <3>1, <3>3, ResultSettles DEF SlotStep, slotsAfter
    <2>3. QED
      BY <1>4, <2>1, <2>2 DEF DeliverMessage, poolVars
  <1>5. ASSUME NEW i \in Workers, WorkerFailed(i) \/ PingTimeout(i)
        PROVE  SettledOnce' /\ SlotStep
    BY <1>5, FailureSettles DEF WorkerFailed, PingTimeout
  <1>6. CASE UNCHANGED <<type, workerTaskQueue, assignedTasks, slotVars>>
    BY <1>6 DEF SettledOnce, Settled, Assigned, slotVars, SlotStep, Open, Tasks
  <1>7. QED
    BY <1>1, <1>2, <1>3, <1>4, <1>5, <1>6
    DEF Next, MainThread, SkipWorker, EndWalk, HealthCheck, Boot, Work, Crash, Hang,
        vars, poolVars

\* The slots follow the open tasks.
LEMMA SlotsFollow ==
  ASSUME TypeOK, SlotPerOpenTask, SlotStep
  PROVE  SlotPerOpenTask'
  <1>1. activeRequests = Cardinality(Open)
    BY DEF SlotPerOpenTask, Open
  <1>2. SUFFICES activeRequests' = Cardinality(Open')
    BY DEF SlotPerOpenTask, Open
  <1>3. Len(type) \in Nat /\ Open \subseteq 1..Len(type)
    BY TaskTyped DEF Open, Tasks
  <1>4. IsFiniteSet(Open) /\ Cardinality(Open) \in Nat
    <2>1. IsFiniteSet(1..Len(type))
      BY <1>3, FS_Interval
    <2>2. IsFiniteSet(Open)
      BY <1>3, <2>1, FS_Subset
    <2>3. QED
      BY <2>2, FS_CardinalityType
  <1>5. CASE UNCHANGED <<Open, activeRequests>>
    BY <1>1, <1>5
  <1>6. ASSUME NEW n \in 1..ConcurrentTasks,
               Open' = Open \cup ((Len(type) + 1)..(Len(type) + n)),
               activeRequests' = activeRequests + n
        PROVE  activeRequests' = Cardinality(Open')
    <2> DEFINE new == (Len(type) + 1)..(Len(type) + n)
    <2>1. n \in Nat /\ n # 0
      BY PoolAssumption
    <2>2. IsFiniteSet(new) /\ Cardinality(new) = n
      <3> DEFINE a == Len(type) + 1
                 b == Len(type) + n
      <3>1. a \in Int /\ b \in Int /\ ~(a > b) /\ b - a + 1 = n /\ new = a..b
        BY <1>3, <2>1
      <3> HIDE DEF a, b, new
      <3>2. QED
        BY <3>1, FS_Interval
    <2>3. Open \cap new = {} /\ Open' = Open \cup new
      BY <1>3, <1>6, <2>1
    <2> HIDE DEF new
    <2>4. Cardinality(Open \cup new) = Cardinality(Open) + Cardinality(new)
                                       - Cardinality(Open \cap new)
      BY <1>4, <2>2, FS_Union
    <2>5. Cardinality(Open \cap new) = 0
      BY <2>3, FS_EmptySet
    <2>6. Cardinality(Open \cup new) = Cardinality(Open) + n
      BY <1>4, <2>1, <2>2, <2>4, <2>5
    <2>7. QED
      BY <1>1, <1>6, <2>3, <2>6
  <1>7. ASSUME NEW t \in Open, Open' = Open \ {t},
               activeRequests' = AtLeast0(activeRequests - 1)
        PROVE  activeRequests' = Cardinality(Open')
    <2>1. Cardinality(Open \ {t}) = Cardinality(Open) - 1 /\ IsFiniteSet(Open \ {t})
      BY <1>4, FS_RemoveElement
    <2>2. Cardinality(Open \ {t}) \in Nat
      BY <2>1, FS_CardinalityType
    <2>3. QED
      BY <1>1, <1>4, <1>7, <2>1, <2>2 DEF AtLeast0
  <1>8. QED
    BY <1>5, <1>6, <1>7 DEF SlotStep

\* The counters that canDispatchType compares stay within the limits.
CountersBounded == \A ty \in Types : activeByType[ty] <= Limit[ty]

\* A type's count grows only when the walk found it below its limit.
LEMMA LimitStep ==
  ASSUME TypeOK, CountersBounded, [Next]_vars
  PROVE  CountersBounded'
  <1>1. Limit \in [Types -> Nat]
    BY PoolAssumption DEF Workers
  <1>2. ASSUME NEW i \in Workers, NEW ok, handleWorkerResult(i, ok)
        PROVE  CountersBounded'
    <2>1. CASE activeByType' = activeByType
      BY <2>1 DEF CountersBounded
    <2>2. CASE assignedTasks[i] # NoTask
      <3>1. type[assignedTasks[i]] \in Types
        BY <2>2, TaskTyped DEF TypeOK
      <3>2. activeByType' = [activeByType EXCEPT ![type[assignedTasks[i]]] =
                               typeCountAfter(type[assignedTasks[i]], ok)]
        BY <1>2, <2>2 DEF handleWorkerResult
      <3>3. /\ activeByType[type[assignedTasks[i]]] \in Nat
            /\ typeCountAfter(type[assignedTasks[i]], ok)
                 <= activeByType[type[assignedTasks[i]]]
        BY <3>1 DEF TypeOK, typeCountAfter, AtLeast0
      <3>4. \A ty \in Types : activeByType'[ty] \in Nat /\ activeByType'[ty] <= activeByType[ty]
        BY <3>1, <3>2, <3>3 DEF TypeOK, typeCountAfter, AtLeast0
      <3>5. QED
        BY <1>1, <3>4 DEF CountersBounded, TypeOK
    <2>3. QED
      BY <1>2, <2>1, <2>2 DEF handleWorkerResult
  <1>3. CASE PostTask
    <2>1. PICK t \in Dispatchable : activeByType' = [activeByType EXCEPT ![type[t]] = @ + 1]
      BY <1>3 DEF PostTask
    <2>2. /\ type[t] \in Types
          /\ activeByType[type[t]] < Limit[type[t]]
      BY TaskTyped DEF Dispatchable, canDispatchType, TypeOK
    <2>3. QED
      BY <1>1, <2>1, <2>2 DEF CountersBounded, TypeOK
  <1>4. ASSUME NEW i \in Workers, DeliverMessage(i) \/ handleWorkerFailure(i)
        PROVE  CountersBounded'
    <2>1. activeByType' = activeByType \/ \E ok : handleWorkerResult(i, ok)
      BY <1>4 DEF DeliverMessage, handleWorkerFailure, poolVars
    <2>2. QED
      BY <1>2, <2>1 DEF CountersBounded
  <1>5. CASE activeByType' = activeByType
    BY <1>5 DEF CountersBounded
  <1>6. QED
    BY <1>3, <1>4, <1>5
    DEF Next, MainThread, SubmitTasks, SkipWorker, PostFails, EndWalk, HealthCheck,
        WorkerFailed, PingTimeout, Boot, Work, Crash, Hang, vars, poolVars

\* What holds whatever the threads do.
ChaosInv == TypeOK /\ SettledOnce /\ SlotPerOpenTask /\ CountersBounded

LEMMA ChaosInit == Init => ChaosInv
  <1> SUFFICES ASSUME Init PROVE ChaosInv
    OBVIOUS
  <1>1. type = << >> /\ Tasks = {} /\ Len(type) = 0
    BY DEF Init, Tasks
  <1>2. TypeOK
    <2>1. << >> \in Seq(Types) /\ << >> \in Seq(Tasks \cup {Ping})
      BY EmptySeq
    <2>2. << >> \in Seq(Messages)
      BY EmptySeq
    <2>3. workerBusy \in [Workers -> BOOLEAN]
      BY DEF Init
    <2>4. /\ inbox \in [Workers -> Seq(Tasks \cup {Ping})]
          /\ outbox \in [Workers -> Seq(Messages)]
      BY <2>1, <2>2 DEF Init
    <2>5. thread \in [Workers -> {"booting", "up", "hung", "dead"}]
      BY DEF Init
    <2>6. /\ cursor \in 0..WorkerCount + 1 /\ failing \in 0..WorkerCount
          /\ failures \in 0..MaxFailures /\ hangs \in 0..MaxHangs
          /\ postFailures \in 0..MaxPostFailures
      BY PoolAssumption DEF Init
    <2>7. QED
      BY <1>1, <2>1, <2>3, <2>4, <2>5, <2>6 DEF Init, TypeOK, Messages
  <1>3. Settled = {} /\ Assigned = {}
    BY DEF Init, Settled, Assigned
  <1>4. SettledOnce
    BY <1>3 DEF Init, SettledOnce
  <1>5. SlotPerOpenTask
    BY <1>1, FS_EmptySet DEF Init, SlotPerOpenTask
  <1>6. CountersBounded
    BY PoolAssumption DEF Init, CountersBounded, Workers
  <1>7. QED
    BY <1>2, <1>4, <1>5, <1>6 DEF ChaosInv

LEMMA ChaosInvariant == Spec => []ChaosInv
  <1>1. ChaosInv /\ [Next]_vars => ChaosInv'
    BY TypesStep, SettleStep, SlotsFollow, LimitStep DEF ChaosInv
  <1>2. QED
    BY <1>1, ChaosInit, PTL DEF Spec

\* onSuccess and onFailed answer a task once, and neither while it is queued
\* or assigned: a result, a crash and a ping timeout cannot both settle it.
THEOREM TasksSettledOnce == Spec => []SettledOnce
  <1>1. ChaosInv => SettledOnce
    BY DEF ChaosInv
  <1>2. QED
    BY <1>1, ChaosInvariant, PTL

\* decrementActiveRequests runs once for every settled task and for no other:
\* activeRequests is the number of the pool's unanswered tasks, so its clamp at
\* zero never hides a second release.
THEOREM SlotsExactlyHeld == Spec => []SlotsHeld
  <1>1. ChaosInv => SlotsHeld
    BY DEF ChaosInv, SlotsHeld
  <1>2. QED
    BY <1>1, ChaosInvariant, PTL

-----------------------------------------------------------------------------
(* A pool whose threads have booted and stay up: its mailboxes *)

\* What is in the mailboxes of a worker with task a: at most one message about
\* a task, which is a; no 'initialized'.
MailOK(in, out, a) ==
  LET sent == {k \in DOMAIN in : in[k] # Ping}
      back == {k \in DOMAIN out : out[k].msg = "result"}
  IN  /\ \A k, n \in sent : k = n
      /\ \A k, n \in back : k = n
      /\ sent = {} \/ back = {}
      /\ \A k \in sent : in[k] = a
      /\ \A k \in back : out[k].task = a /\ a # NoTask
      /\ \A k \in DOMAIN out : out[k].msg # "initialized"

\* The elements of a sequence after a message is appended or read.
LEMMA MailElements ==
  ASSUME NEW S, NEW box \in Seq(S), NEW m \in S
  PROVE  /\ DOMAIN box = 1..Len(box) /\ Len(box) \in Nat
         /\ DOMAIN Append(box, m) = 1..(Len(box) + 1)
         /\ \A k \in 1..Len(box) : Append(box, m)[k] = box[k]
         /\ Append(box, m)[Len(box) + 1] = m
         /\ box # << >> =>
              /\ Len(box) # 0 /\ Head(box) = box[1]
              /\ DOMAIN Tail(box) = 1..(Len(box) - 1)
              /\ \A k \in 1..(Len(box) - 1) : Tail(box)[k] = box[k + 1]
  <1>1. DOMAIN box = 1..Len(box) /\ Len(box) \in Nat
    BY LenProperties
  <1>2. /\ Append(box, m) \in Seq(S)
        /\ Len(Append(box, m)) = Len(box) + 1
        /\ \A k \in 1..Len(box) : Append(box, m)[k] = box[k]
        /\ Append(box, m)[Len(box) + 1] = m
    BY AppendProperties
  <1>3. DOMAIN Append(box, m) = 1..(Len(box) + 1)
    BY <1>2, LenProperties
  <1>4. ASSUME box # << >>
        PROVE  /\ Len(box) # 0 /\ Head(box) = box[1]
               /\ DOMAIN Tail(box) = 1..(Len(box) - 1)
               /\ \A k \in 1..(Len(box) - 1) : Tail(box)[k] = box[k + 1]
    <2>1. Len(box) # 0
      BY <1>4, EmptySeq
    <2>2. Head(box) = box[1]
      BY <1>4
    <2>3. /\ Tail(box) \in Seq(S)
          /\ Len(Tail(box)) = Len(box) - 1
          /\ \A k \in 1..Len(Tail(box)) : Tail(box)[k] = box[k + 1]
      BY <1>4, HeadTailProperties
    <2>4. QED
      BY <2>1, <2>2, <2>3, LenProperties
  <1>5. QED
    BY <1>1, <1>2, <1>3, <1>4

\* What the pool and the thread do to a worker's mailboxes.
LEMMA MailSteps ==
  ASSUME NEW S, NEW in \in Seq(S), Ping \in S,
         NEW M, NEW out \in Seq(M), Pong \in M, NEW a, MailOK(in, out, a)
  PROVE  /\ MailOK(Append(in, Ping), out, a)
         /\ \A t \in S \ {NoTask} : a = NoTask => MailOK(Append(in, t), out, t)
         /\ in # << >> /\ Head(in) = Ping => MailOK(Tail(in), Append(out, Pong), a)
         /\ \A ok \in BOOLEAN :
              in # << >> /\ Head(in) # Ping /\ Result(Head(in), ok) \in M =>
                MailOK(Tail(in), Append(out, Result(Head(in), ok)), a)
         /\ out # << >> /\ Head(out).msg # "result" => MailOK(in, Tail(out), a)
         /\ out # << >> /\ Head(out).msg = "result" => MailOK(in, Tail(out), NoTask)
  <1>1. MailOK(Append(in, Ping), out, a)
    BY MailElements DEF MailOK
  <1>2. ASSUME NEW t \in S \ {NoTask}, a = NoTask
        PROVE  MailOK(Append(in, t), out, t)
    BY <1>2, MailElements DEF MailOK, NoTask, Ping
  <1>3. ASSUME in # << >>, Head(in) = Ping
        PROVE  MailOK(Tail(in), Append(out, Pong), a)
    BY <1>3, MailElements DEF MailOK, Pong
  <1>4. ASSUME NEW ok \in BOOLEAN, in # << >>, Head(in) # Ping,
               Result(Head(in), ok) \in M
        PROVE  MailOK(Tail(in), Append(out, Result(Head(in), ok)), a)
    <2> DEFINE r == Result(Head(in), ok)
    <2>1. /\ Len(in) # 0 /\ Head(in) = in[1] /\ DOMAIN in = 1..Len(in) /\ Len(in) \in Nat
          /\ DOMAIN Tail(in) = 1..(Len(in) - 1)
          /\ \A k \in 1..(Len(in) - 1) : Tail(in)[k] = in[k + 1]
      BY <1>4, MailElements
    <2>2. /\ DOMAIN out = 1..Len(out) /\ Len(out) \in Nat
          /\ DOMAIN Append(out, r) = 1..(Len(out) + 1)
          /\ \A k \in 1..Len(out) : Append(out, r)[k] = out[k]
          /\ Append(out, r)[Len(out) + 1] = r
      BY <1>4, MailElements
    <2>3. in[1] = a /\ a # Ping
      BY <1>4, <2>1 DEF MailOK
    <2>4. \A k \in 1..(Len(in) - 1) : Tail(in)[k] = Ping
      BY <2>1, <2>3 DEF MailOK
    <2>5. \A k \in 1..Len(out) : out[k].msg # "result" /\ out[k].msg # "initialized"
      BY <2>1, <2>2, <2>3 DEF MailOK
    <2>6. r.msg = "result" /\ r.task = a
      BY <2>1, <2>3 DEF Result
    <2>7. {k \in DOMAIN Tail(in) : Tail(in)[k] # Ping} = {}
      BY <2>1, <2>4
    <2>8. {k \in DOMAIN Append(out, r) : Append(out, r)[k].msg = "result"} = {Len(out) + 1}
      BY <2>2, <2>5, <2>6
    <2>9. \A k \in DOMAIN Append(out, r) : Append(out, r)[k].msg # "initialized"
      BY <2>2, <2>5, <2>6
    <2>10. a # NoTask
      BY <2>3 DEF NoTask, Ping
    <2> HIDE DEF r
    <2>11. MailOK(Tail(in), Append(out, r), a)
      BY <2>2, <2>6, <2>7, <2>8, <2>9, <2>10 DEF MailOK
    <2>12. QED
      BY <2>11 DEF r
  <1>5. ASSUME out # << >>, Head(out).msg # "result"
        PROVE  MailOK(in, Tail(out), a)
    BY <1>5, MailElements DEF MailOK
  <1>6. ASSUME out # << >>, Head(out).msg = "result"
        PROVE  MailOK(in, Tail(out), NoTask)
    BY <1>6, MailElements DEF MailOK
  <1>7. QED
    BY <1>1, <1>2, <1>3, <1>4, <1>5, <1>6

-----------------------------------------------------------------------------
(* The books of a pool whose threads have booted and stay up *)

\* The threads are up before the first task, and none crashes, hangs or lets
\* a ping expire.
SteadyPool == ColdStart = FALSE /\ MaxFailures = 0 /\ MaxHangs = 0

AllUp == failing = 0 /\ \A i \in Workers : thread[i] = "up"

\* workerBusy and assignedTasks agree.
BusyExact == \A i \in Workers : workerBusy[i] <=> assignedTasks[i] # NoTask

MailExact == \A i \in Workers : MailOK(inbox[i], outbox[i], assignedTasks[i])

\* The workers that run a task of a type.
Running(ty) == {i \in Workers : /\ assignedTasks[i] # NoTask
                                /\ type[assignedTasks[i]] = ty}

BooksInv == AllUp /\ BusyExact /\ MailExact /\ NoTaskLost /\ ActiveByTypeExact

\* Two sets of workers that differ in one worker at most differ by it in number.
LEMMA OneWorkerDiffers ==
  ASSUME NEW A \in SUBSET Workers, NEW B \in SUBSET Workers, NEW i \in Workers,
         \A j \in Workers \ {i} : j \in A <=> j \in B
  PROVE  /\ Cardinality(A) \in Nat
         /\ Cardinality(B) \in Nat
         /\ Cardinality(B) = Cardinality(A) + (IF i \in B THEN 1 ELSE 0)
                                            - (IF i \in A THEN 1 ELSE 0)
  <1>1. IsFiniteSet(Workers)
    BY PoolAssumption, FS_Interval DEF Workers
  <1>2. /\ IsFiniteSet(A) /\ Cardinality(A) \in Nat
        /\ IsFiniteSet(B) /\ Cardinality(B) \in Nat
    BY <1>1, FS_Subset, FS_CardinalityType
  <1>3. CASE i \in A <=> i \in B
    <2>1. A = B
      BY <1>3
    <2>2. QED
      BY <1>2, <2>1
  <1>4. CASE i \in B /\ i \notin A
    <2>1. B = A \cup {i}
      BY <1>4
    <2>2. Cardinality(B) = Cardinality(A) + 1
      BY <1>2, <1>4, <2>1, FS_AddElement
    <2>3. QED
      BY <1>2, <1>4, <2>2
  <1>5. CASE i \notin B /\ i \in A
    <2>1. B = A \ {i}
      BY <1>5
    <2>2. Cardinality(B) = Cardinality(A) - 1
      BY <1>2, <1>5, <2>1, FS_RemoveElement
    <2>3. QED
      BY <1>2, <1>5, <2>2
  <1>6. QED
    BY <1>3, <1>4, <1>5

\* What giving a worker a task, or taking its task away, does to the counts.
LEMMA RunningCounts ==
  ASSUME NEW i \in Workers, NEW ty, type' = type,
         \A j \in Workers \ {i} : assignedTasks'[j] = assignedTasks[j]
  PROVE  /\ Cardinality(Running(ty)) \in Nat
         /\ Cardinality(Running(ty)') \in Nat
         /\ Cardinality(Running(ty)') =
              Cardinality(Running(ty)) + (IF i \in Running(ty)' THEN 1 ELSE 0)
                                       - (IF i \in Running(ty) THEN 1 ELSE 0)
  <1> DEFINE A == Running(ty)
             B == Running(ty)'
  <1>1. /\ A \in SUBSET Workers /\ B \in SUBSET Workers
        /\ \A j \in Workers \ {i} : j \in A <=> j \in B
    BY DEF Running
  <1> HIDE DEF A, B
  <1>2. /\ Cardinality(A) \in Nat
        /\ Cardinality(B) \in Nat
        /\ Cardinality(B) = Cardinality(A) + (IF i \in B THEN 1 ELSE 0)
                                           - (IF i \in A THEN 1 ELSE 0)
    BY <1>1, OneWorkerDiffers
  <1>3. QED
    BY <1>2 DEF A, B

\* The books are kept when nothing of them changes.
LEMMA BooksUnchanged ==
  ASSUME BooksInv,
         UNCHANGED <<type, workerTaskQueue, workerBusy, assignedTasks, activeByType,
                     resolved, rejected, failing, thread, inbox, outbox>>
  PROVE  BooksInv'
  BY DEF BooksInv, AllUp, BusyExact, MailExact, NoTaskLost, ActiveByTypeExact, Assigned,
         Settled, Tasks

\* addTask adds the new tasks to the queue.
LEMMA SubmitBooks ==
  ASSUME TypeOK, BooksInv, NEW n \in 1..ConcurrentTasks, NEW tys \in [1..n -> Types],
         SubmitTasks(tys)
  PROVE  BooksInv'
  <1>1. /\ Len(tys) = n
        /\ Tasks' = Tasks \cup ((Len(type) + 1)..(Len(type) + n))
        /\ \A t \in Tasks : type'[t] = type[t]
    BY TasksGrow
  <1>2. /\ workerTaskQueue' = workerTaskQueue \cup ((Len(type) + 1)..(Len(type) + n))
        /\ UNCHANGED <<workerBusy, assignedTasks, activeByType, resolved, rejected,
                       failing, thread, inbox, outbox>>
    BY <1>1 DEF SubmitTasks, threadVars
  <1>3. NoTaskLost'
    BY <1>1, <1>2 DEF BooksInv, NoTaskLost, Assigned, Settled
  <1>4. \A ty \in Types : Running(ty)' = Running(ty)
    BY <1>1, <1>2 DEF Running, TypeOK
  <1>5. ActiveByTypeExact'
    BY <1>2, <1>4 DEF BooksInv, ActiveByTypeExact, Running
  <1>6. QED
    BY <1>2, <1>3, <1>5 DEF BooksInv, AllUp, BusyExact, MailExact

\* processWorkerTasks gives an idle worker a task.
LEMMA PostBooks ==
  ASSUME TypeOK, BooksInv, PostTask
  PROVE  BooksInv'
  <1>1. PICK t \in Dispatchable :
          /\ workerTaskQueue' = queueWithout(t)
          /\ postMessage(cursor, t)
          /\ workerBusy' = [workerBusy EXCEPT ![cursor] = TRUE]
          /\ activeByType' = [activeByType EXCEPT ![type[t]] = @ + 1]
          /\ assignedTasks' = [assignedTasks EXCEPT ![cursor] = t]
    BY DEF PostTask
  <1>2. /\ cursor \in Workers /\ ~workerBusy[cursor]
        /\ UNCHANGED <<type, resolved, rejected, failing, thread, outbox>>
    BY DEF PostTask, isIdle, slotVars
  <1>3. t \in workerTaskQueue /\ t \in Tasks /\ t # NoTask /\ type[t] \in Types
    BY TaskTyped DEF Dispatchable, TypeOK
  <1>4. assignedTasks[cursor] = NoTask
    BY <1>2 DEF BooksInv, BusyExact
  <1>5. /\ assignedTasks'[cursor] = t
        /\ \A j \in Workers \ {cursor} : assignedTasks'[j] = assignedTasks[j]
    BY <1>1, <1>2 DEF TypeOK
  <1>6. AllUp'
    BY <1>2 DEF BooksInv, AllUp
  <1>7. BusyExact'
    BY <1>1, <1>2, <1>3, <1>5 DEF BooksInv, BusyExact, TypeOK
  <1>8. MailExact'
    <2>1. inbox' = [inbox EXCEPT ![cursor] = Append(@, t)]
      BY <1>1, <1>2 DEF BooksInv, AllUp, postMessage
    <2>2. MailOK(Append(inbox[cursor], t), outbox[cursor], t)
      <3>1. /\ inbox[cursor] \in Seq(Tasks \cup {Ping})
            /\ outbox[cursor] \in Seq(Messages)
            /\ MailOK(inbox[cursor], outbox[cursor], NoTask)
        BY <1>2, <1>4 DEF TypeOK, Messages, BooksInv, MailExact
      <3>2. QED
        BY <1>3, <3>1, MailSteps, MessagesTyped
    <2>3. QED
      BY <1>2, <1>5, <2>1, <2>2 DEF BooksInv, MailExact, TypeOK
  <1>9. NoTaskLost'
    <2>1. Assigned' = Assigned \cup {t}
      BY <1>2, <1>3, <1>4, <1>5 DEF Assigned
    <2>2. QED
      BY <1>1, <1>2, <1>3, <2>1 DEF BooksInv, NoTaskLost, Settled, Tasks, queueWithout
  <1>10. ASSUME NEW ty \in Types
         PROVE  activeByType'[ty] = Cardinality(Running(ty)')
    <2>1. activeByType[ty] = Cardinality(Running(ty))
      BY DEF BooksInv, ActiveByTypeExact, Running
    <2>2. cursor \notin Running(ty) /\ (cursor \in Running(ty)' <=> type[t] = ty)
      BY <1>2, <1>3, <1>4, <1>5 DEF Running
    <2>3. activeByType'[ty] = activeByType[ty] + (IF type[t] = ty THEN 1 ELSE 0)
      BY <1>1, <1>3 DEF TypeOK
    <2>4. /\ Cardinality(Running(ty)) \in Nat
          /\ Cardinality(Running(ty)') =
               Cardinality(Running(ty)) + (IF cursor \in Running(ty)' THEN 1 ELSE 0)
                                        - (IF cursor \in Running(ty) THEN 1 ELSE 0)
      BY <1>2, <1>5, RunningCounts
    <2>5. QED
      BY <2>1, <2>2, <2>3, <2>4
  <1>11. ActiveByTypeExact'
    BY <1>10 DEF ActiveByTypeExact, Running
  <1>12. QED
    BY <1>6, <1>7, <1>8, <1>9, <1>11 DEF BooksInv

\* A task whose postMessage throws is settled at once.
LEMMA PostFailsBooks ==
  ASSUME TypeOK, BooksInv, PostFails
  PROVE  BooksInv'
  <1>1. PICK t \in Dispatchable :
          /\ workerTaskQueue' = queueWithout(t)
          /\ rejected' = rejected \cup {t}
    BY DEF PostFails
  <1>2. /\ cursor \in Workers /\ ~workerBusy[cursor]
        /\ assignedTasks' = [assignedTasks EXCEPT ![cursor] = NoTask]
        /\ UNCHANGED <<type, resolved, failing, workerBusy, activeByType, thread,
                       inbox, outbox>>
    BY DEF PostFails, isIdle, threadVars
  <1>3. assignedTasks' = assignedTasks
    <2>1. assignedTasks[cursor] = NoTask
      BY <1>2 DEF BooksInv, BusyExact
    <2>2. QED
      BY <1>2, <2>1 DEF TypeOK
  <1>4. t \in workerTaskQueue
    BY DEF Dispatchable
  <1>5. NoTaskLost'
    BY <1>1, <1>2, <1>3, <1>4
    DEF BooksInv, NoTaskLost, Settled, Assigned, Tasks, queueWithout
  <1>6. QED
    BY <1>2, <1>3, <1>5 DEF BooksInv, AllUp, BusyExact, MailExact, ActiveByTypeExact

\* A message read from a thread that is up is an answer to a ping or the result
\* of the task assigned to it.
LEMMA MessageBooks ==
  ASSUME TypeOK, BooksInv, NEW i \in Workers, DeliverMessage(i)
  PROVE  BooksInv'
  <1> DEFINE m == Head(outbox[i])
  <1>1. /\ outbox[i] \in Seq(Messages) /\ outbox[i] # << >>
        /\ inbox[i] \in Seq(Tasks \cup {Ping})
        /\ MailOK(inbox[i], outbox[i], assignedTasks[i])
        /\ outbox' = [outbox EXCEPT ![i] = Tail(@)]
        /\ UNCHANGED <<type, failing, thread, inbox>>
    BY DEF TypeOK, Messages, DeliverMessage, BooksInv, MailExact
  <1>2. /\ m \in Messages /\ m = outbox[i][1] /\ 1 \in DOMAIN outbox[i]
    BY <1>1, MailElements, MailboxTyped
  <1>3. m.msg # "initialized"
    BY <1>1, <1>2 DEF MailOK
  <1>4. CASE m.msg # "result"
    <2>1. UNCHANGED <<poolVars, slotVars>>
      BY <1>3, <1>4 DEF DeliverMessage, Initialized
    <2>2. MailOK(inbox[i], Tail(outbox[i]), assignedTasks[i])
      BY <1>1, <1>4, MailSteps, MessagesTyped
    <2>3. MailExact'
      BY <1>1, <2>1, <2>2 DEF BooksInv, MailExact, TypeOK, poolVars
    <2>4. QED
      BY <1>1, <2>1, <2>3
      DEF BooksInv, AllUp, BusyExact, NoTaskLost, ActiveByTypeExact, Assigned, Settled,
          Tasks, poolVars, slotVars
  <1>5. CASE m.msg = "result"
    <2> DEFINE t == assignedTasks[i]
    <2>1. handleWorkerResult(i, m.ok)
      BY <1>5 DEF DeliverMessage, Initialized, Pong
    <2>2. t # NoTask /\ t \in Tasks /\ type[t] \in Types
      <3>1. t # NoTask
        BY <1>1, <1>2, <1>5 DEF MailOK
      <3>2. QED
        BY <3>1, TaskTyped DEF TypeOK
    <2>3. /\ assignedTasks' = [assignedTasks EXCEPT ![i] = NoTask]
          /\ workerBusy' = [workerBusy EXCEPT ![i] = FALSE]
          /\ activeByType' = [activeByType EXCEPT ![type[t]] = AtLeast0(activeByType[type[t]] - 1)]
          /\ workerTaskQueue' = workerTaskQueue
          /\ Settled' = Settled \cup {t}
      BY <2>1, <2>2 DEF handleWorkerResult, typeCountAfter, Settled
    <2>4. /\ assignedTasks'[i] = NoTask
          /\ \A j \in Workers \ {i} : assignedTasks'[j] = assignedTasks[j]
      BY <2>3 DEF TypeOK
    <2>5. BusyExact'
      BY <2>3, <2>4 DEF BooksInv, BusyExact, TypeOK
    <2>6. MailExact'
      <3>1. MailOK(inbox[i], Tail(outbox[i]), NoTask)
        BY <1>1, <1>5, MailSteps, MessagesTyped
      <3>2. QED
        BY <1>1, <2>4, <3>1 DEF BooksInv, MailExact, TypeOK
    <2>7. NoTaskLost'
      <3>1. Assigned \subseteq Assigned' \cup {t} /\ Assigned' \subseteq Assigned
        BY <2>4 DEF Assigned
      <3>2. Tasks' = Tasks
        BY <1>1 DEF Tasks
      <3>3. QED
        BY <2>2, <2>3, <3>1, <3>2 DEF BooksInv, NoTaskLost
    <2>8. ASSUME NEW ty \in Types
          PROVE  activeByType'[ty] = Cardinality(Running(ty)')
      <3>1. activeByType[ty] = Cardinality(Running(ty))
        BY DEF BooksInv, ActiveByTypeExact, Running
      <3>2. (i \in Running(ty) <=> type[t] = ty) /\ i \notin Running(ty)'
        BY <2>2, <2>4 DEF Running
      <3>3. /\ Cardinality(Running(ty)) \in Nat
            /\ Cardinality(Running(ty)') \in Nat
            /\ Cardinality(Running(ty)') =
                 Cardinality(Running(ty)) + (IF i \in Running(ty)' THEN 1 ELSE 0)
                                          - (IF i \in Running(ty) THEN 1 ELSE 0)
        BY <1>1, <2>4, RunningCounts
      <3>4. activeByType'[ty] = IF type[t] = ty THEN AtLeast0(activeByType[ty] - 1)
                                ELSE activeByType[ty]
        BY <2>2, <2>3 DEF TypeOK
      <3>5. QED
        BY <3>1, <3>2, <3>3, <3>4 DEF AtLeast0
    <2>9. ActiveByTypeExact'
      BY <2>8 DEF ActiveByTypeExact, Running
    <2>10. QED
      BY <1>1, <2>5, <2>6, <2>7, <2>9 DEF BooksInv, AllUp
  <1>6. QED
    BY <1>4, <1>5

\* A thread that is up answers the first message of its inbox.
LEMMA WorkBooks ==
  ASSUME TypeOK, BooksInv, NEW i \in Workers, Work(i)
  PROVE  BooksInv'
  <1>1. /\ outbox[i] \in Seq(Messages)
        /\ inbox[i] \in Seq(Tasks \cup {Ping}) /\ inbox[i] # << >>
        /\ MailOK(inbox[i], outbox[i], assignedTasks[i])
        /\ inbox' = [inbox EXCEPT ![i] = Tail(@)]
        /\ UNCHANGED <<type, poolVars, slotVars, failing, thread>>
    BY DEF TypeOK, Messages, Work, BooksInv, MailExact
  <1>2. Head(inbox[i]) \in Tasks \cup {Ping}
    BY <1>1, MailboxTyped
  <1>3. PICK m : /\ outbox' = [outbox EXCEPT ![i] = Append(@, m)]
                 /\ MailOK(Tail(inbox[i]), Append(outbox[i], m), assignedTasks[i])
    <2>1. CASE Head(inbox[i]) = Ping
      <3>1. outbox' = [outbox EXCEPT ![i] = Append(@, Pong)]
        BY <2>1 DEF Work
      <3>2. MailOK(Tail(inbox[i]), Append(outbox[i], Pong), assignedTasks[i])
        BY <1>1, <2>1, MailSteps, MessagesTyped
      <3>3. QED
        BY <3>1, <3>2
    <2>2. CASE Head(inbox[i]) # Ping
      <3>1. PICK ok \in BOOLEAN :
              outbox' = [outbox EXCEPT ![i] = Append(@, Result(Head(inbox[i]), ok))]
        BY <2>2 DEF Work
      <3>2. Result(Head(inbox[i]), ok) \in Messages
        BY <1>2, <2>2, MessagesTyped
      <3>3. MailOK(Tail(inbox[i]), Append(outbox[i], Result(Head(inbox[i]), ok)),
                   assignedTasks[i])
        BY <1>1, <2>2, <3>2, MailSteps, MessagesTyped
      <3>4. QED
        BY <3>1, <3>3
    <2>3. QED
      BY <2>1, <2>2
  <1>4. MailExact'
    BY <1>1, <1>3 DEF BooksInv, MailExact, TypeOK, poolVars
  <1>5. QED
    BY <1>1, <1>4
    DEF BooksInv, AllUp, BusyExact, NoTaskLost, ActiveByTypeExact, Assigned, Settled,
        Tasks, poolVars, slotVars

\* A ping is not about a task.
LEMMA HealthBooks ==
  ASSUME TypeOK, BooksInv, HealthCheck
  PROVE  BooksInv'
  <1>1. UNCHANGED <<type, poolVars, slotVars, failing, thread, outbox>>
    BY DEF HealthCheck
  <1>2. ASSUME NEW i \in Workers
        PROVE  MailOK(inbox'[i], outbox[i], assignedTasks[i])
    <2>1. /\ outbox[i] \in Seq(Messages)
          /\ inbox[i] \in Seq(Tasks \cup {Ping})
          /\ MailOK(inbox[i], outbox[i], assignedTasks[i])
      BY DEF TypeOK, Messages, BooksInv, MailExact
    <2>2. MailOK(Append(inbox[i], Ping), outbox[i], assignedTasks[i])
      BY <2>1, MailSteps, MessagesTyped
    <2>3. inbox'[i] = Append(inbox[i], Ping) \/ inbox'[i] = inbox[i]
      BY DEF HealthCheck
    <2>4. QED
      BY <2>1, <2>2, <2>3
  <1>3. MailExact'
    BY <1>1, <1>2 DEF MailExact, poolVars
  <1>4. QED
    BY <1>1, <1>3
    DEF BooksInv, AllUp, BusyExact, NoTaskLost, ActiveByTypeExact, Assigned, Settled,
        Tasks, poolVars, slotVars

\* Every step of a steady pool keeps the books.
LEMMA BooksStep ==
  ASSUME SteadyPool, TypeOK, BooksInv, [Next]_vars
  PROVE  BooksInv'
  <1>1. ASSUME NEW i \in Workers,
               WorkerFailed(i) \/ PingTimeout(i) \/ Boot(i) \/ Crash(i) \/ Hang(i)
        PROVE  FALSE
    <2>1. /\ thread[i] = "up"
          /\ ~(failures < MaxFailures) /\ ~(hangs < MaxHangs)
      BY DEF BooksInv, AllUp, TypeOK, SteadyPool
    <2>2. QED
      BY <1>1, <2>1 DEF WorkerFailed, PingTimeout, Boot, Crash, Hang, ThreadGone
  <1>2. CASE SkipWorker
    BY <1>2, BooksUnchanged DEF SkipWorker, poolVars, slotVars, threadVars
  <1>3. CASE EndWalk
    BY <1>3, BooksUnchanged DEF EndWalk, slotVars, threadVars, BooksInv, AllUp
  <1>4. CASE UNCHANGED vars
    BY <1>4, BooksUnchanged DEF vars, poolVars, slotVars, threadVars
  <1>5. QED
    BY <1>1, <1>2, <1>3, <1>4, SubmitBooks, PostBooks, PostFailsBooks, MessageBooks,
       WorkBooks, HealthBooks DEF Next, MainThread

\* The books are right before the first task.
LEMMA BooksInit ==
  ASSUME SteadyPool, Init
  PROVE  BooksInv
  <1>1. Tasks = {} /\ Settled = {} /\ Assigned = {} /\ workerTaskQueue = {}
    BY DEF Init, Tasks, Settled, Assigned
  <1>2. AllUp
    BY DEF Init, AllUp, SteadyPool
  <1>3. BusyExact
    BY DEF Init, BusyExact
  <1>4. MailExact
    BY DEF Init, MailExact, MailOK
  <1>5. ActiveByTypeExact
    <2>1. \A ty \in Types : Running(ty) = {} /\ activeByType[ty] = 0
      BY DEF Init, Running
    <2>2. QED
      BY <2>1, FS_EmptySet DEF ActiveByTypeExact, Running
  <1>6. QED
    BY <1>1, <1>2, <1>3, <1>4, <1>5 DEF BooksInv, NoTaskLost

\* In a pool whose threads stay up no task drops out of the books, a result
\* settles the task it was computed for although messages carry no task id, and
\* activeByType is the number of running tasks of each type: its clamp at zero
\* and decrementActiveByType never drift from what runs.
THEOREM BooksExact ==
  ASSUME SteadyPool
  PROVE  Spec => []AssignmentsExact
  <1>1. TypeOK /\ BooksInv => AssignmentsExact
    <2> SUFFICES ASSUME BooksInv PROVE AssignmentsExact
      OBVIOUS
    <2>1. ResultMatchesTask
      BY DEF BooksInv, MailExact, MailOK, ResultMatchesTask
    <2>2. QED
      BY <2>1 DEF BooksInv, AssignmentsExact
  <1>2. Init => TypeOK /\ BooksInv
    BY ChaosInit, BooksInit DEF ChaosInv
  <1>3. TypeOK /\ BooksInv /\ [Next]_vars => (TypeOK /\ BooksInv)'
    BY TypesStep, BooksStep
  <1>4. QED
    BY <1>1, <1>2, <1>3, PTL DEF Spec

\* README's worker rules: in a pool whose threads stay up no more threads have a
\* task of a type to run than its WORKER_MAX_<type>_CONCURRENCY, although what
\* is compared with the limit is a counter on the main thread.
THEOREM TypesLimited ==
  ASSUME SteadyPool
  PROVE  Spec => []RunningWithinLimit
  <1>1. ChaosInv /\ AssignmentsExact => RunningWithinLimit
    <2> SUFFICES ASSUME ChaosInv, AssignmentsExact, NEW ty \in Types
                 PROVE  Cardinality({i \in Workers : \E k \in DOMAIN inbox[i] :
                          inbox[i][k] # Ping /\ type[inbox[i][k]] = ty}) <= Limit[ty]
      BY DEF RunningWithinLimit
    <2> DEFINE R == {i \in Workers : \E k \in DOMAIN inbox[i] :
                       inbox[i][k] # Ping /\ type[inbox[i][k]] = ty}
               A == Running(ty)
    <2>1. R \subseteq A
      <3> SUFFICES ASSUME NEW i \in R PROVE i \in A
        OBVIOUS
      <3>1. PICK k \in DOMAIN inbox[i] : inbox[i][k] # Ping /\ type[inbox[i][k]] = ty
        OBVIOUS
      <3>2. inbox[i][k] = assignedTasks[i]
        BY <3>1 DEF AssignmentsExact, ResultMatchesTask
      <3>3. QED
        BY <3>1, <3>2 DEF Running, Ping, NoTask
    <2>2. activeByType[ty] = Cardinality(A)
      BY DEF AssignmentsExact, ActiveByTypeExact, Running
    <2>3. IsFiniteSet(A)
      <3>1. IsFiniteSet(Workers) /\ A \subseteq Workers
        BY PoolAssumption, FS_Interval DEF Workers, Running
      <3>2. QED
        BY <3>1, FS_Subset
    <2>4. activeByType[ty] <= Limit[ty] /\ activeByType[ty] \in Nat /\ Limit[ty] \in Nat
      BY PoolAssumption DEF ChaosInv, CountersBounded, TypeOK, Workers
    <2> HIDE DEF R, A
    <2>5. Cardinality(R) \in Nat /\ Cardinality(R) <= Cardinality(A)
      BY <2>1, <2>3, FS_Subset, FS_CardinalityType
    <2>6. Cardinality(R) <= Limit[ty]
      BY <2>2, <2>4, <2>5
    <2>7. QED
      BY <2>6 DEF R
  <1>2. QED
    BY <1>1, ChaosInvariant, BooksExact, PTL

-----------------------------------------------------------------------------
(* The walk leaves no worker idle *)

\* While a task can be dispatched, the workers the walk has passed are busy,
\* and all are when it is over.
WalkInv ==
  Dispatchable # {} =>
    \A i \in Workers : cursor = 0 \/ i < cursor => workerBusy[i]

LEMMA WalkStep ==
  ASSUME SteadyPool, MaxPostFailures = 0, TypeOK, BooksInv, WalkInv, [Next]_vars
  PROVE  WalkInv'
  <1>1. cursor \in Nat /\ \A i \in Workers : i \in Nat /\ i # 0 /\ i <= WorkerCount
    BY PoolAssumption DEF TypeOK, Workers
  <1>2. CASE cursor' = 1
    BY <1>1, <1>2 DEF WalkInv
  <1>3. CASE UNCHANGED <<type, poolVars, cursor>>
    BY <1>3 DEF WalkInv, Dispatchable, canDispatchType, poolVars
  <1>4. CASE SkipWorker
    <2>1. /\ cursor \in Workers /\ cursor' = cursor + 1
          /\ UNCHANGED <<type, poolVars>>
          /\ workerBusy[cursor] \/ Dispatchable = {}
      BY <1>4 DEF SkipWorker, isIdle
    <2>2. Dispatchable' = Dispatchable /\ workerBusy' = workerBusy
      BY <2>1 DEF Dispatchable, canDispatchType, poolVars
    <2>3. ASSUME Dispatchable # {}, NEW i \in Workers, i < cursor + 1
          PROVE  workerBusy[i]
      <3>1. i = cursor \/ i < cursor
        BY <1>1, <2>1, <2>3
      <3>2. QED
        BY <2>1, <2>3, <3>1 DEF WalkInv
    <2>4. cursor' # 0
      BY <1>1, <2>1
    <2>5. QED
      BY <2>1, <2>2, <2>3, <2>4 DEF WalkInv
  <1>5. CASE PostTask
    <2>1. PICK t \in Dispatchable :
            /\ workerTaskQueue' = queueWithout(t)
            /\ workerBusy' = [workerBusy EXCEPT ![cursor] = TRUE]
            /\ activeByType' = [activeByType EXCEPT ![type[t]] = @ + 1]
      BY <1>5 DEF PostTask
    <2>2. cursor \in Workers /\ cursor' = cursor + 1 /\ type' = type /\ cursor' # 0
      BY <1>1, <1>5 DEF PostTask
    <2>3. \A i \in Workers : i < cursor + 1 => workerBusy'[i]
      <3>1. ASSUME NEW i \in Workers, i < cursor + 1
            PROVE  i = cursor \/ i < cursor
        BY <1>1, <2>2, <3>1
      <3>2. Dispatchable # {}
        BY <2>1
      <3>3. \A i \in Workers : i = cursor \/ i < cursor => workerBusy'[i]
        BY <2>1, <2>2, <3>2 DEF WalkInv, TypeOK
      <3>4. QED
        BY <3>1, <3>3
    <2>4. QED
      BY <2>2, <2>3 DEF WalkInv
  <1>6. CASE EndWalk
    <2>1. /\ cursor > WorkerCount /\ cursor # 0
          /\ UNCHANGED <<type, poolVars>>
      BY <1>1, <1>6, PoolAssumption DEF EndWalk, BooksInv, AllUp, poolVars
    <2>2. \A i \in Workers : i < cursor
      BY <1>1, <2>1, PoolAssumption
    <2>3. Dispatchable' = Dispatchable /\ workerBusy' = workerBusy
      BY <2>1 DEF Dispatchable, canDispatchType, poolVars
    <2>4. QED
      BY <2>2, <2>3 DEF WalkInv
  <1>7. ~PostFails
    BY DEF PostFails, TypeOK
  <1>8. ASSUME NEW i \in Workers, DeliverMessage(i)
        PROVE  WalkInv'
    <2>1. Head(outbox[i]).msg # "initialized"
      <3>1. /\ outbox[i] \in Seq(Messages) /\ outbox[i] # << >>
            /\ MailOK(inbox[i], outbox[i], assignedTasks[i])
        BY <1>8 DEF TypeOK, Messages, DeliverMessage, BooksInv, MailExact
      <3>2. Head(outbox[i]) = outbox[i][1] /\ 1 \in DOMAIN outbox[i]
        BY <3>1, MailElements, MessagesTyped
      <3>3. QED
        BY <3>1, <3>2 DEF MailOK
    <2>2. cursor' = 1 \/ UNCHANGED <<type, poolVars, cursor>>
      BY <1>8, <2>1 DEF DeliverMessage, Initialized
    <2>3. QED
      BY <1>2, <1>3, <2>2
  <1>9. ASSUME NEW i \in Workers,
               WorkerFailed(i) \/ PingTimeout(i) \/ Boot(i) \/ Crash(i) \/ Hang(i)
        PROVE  FALSE
    <2>1. /\ thread[i] = "up"
          /\ ~(failures < MaxFailures) /\ ~(hangs < MaxHangs)
      BY DEF BooksInv, AllUp, TypeOK, SteadyPool
    <2>2. QED
      BY <1>9, <2>1 DEF WorkerFailed, PingTimeout, Boot, Crash, Hang, ThreadGone
  <1>10. QED
    BY <1>2, <1>3, <1>4, <1>5, <1>6, <1>7, <1>8, <1>9
    DEF Next, MainThread, SubmitTasks, HealthCheck, Work, vars

\* Between callbacks of a steady pool no worker is idle while a queued task's
\* type has capacity: processWorkerTasks leaves nothing for which no later
\* event would come.  (A postMessage that throws can break this.)
THEOREM NoneIdle ==
  ASSUME SteadyPool, MaxPostFailures = 0
  PROVE  Spec => []NoIdleWorkerWithWork
  <1> DEFINE Inv == TypeOK /\ BooksInv /\ WalkInv
  <1>1. Inv => NoIdleWorkerWithWork
    BY DEF WalkInv, NoIdleWorkerWithWork, MainIdle, Dispatchable
  <1>2. Init => Inv
    <2>1. Init => WalkInv
      BY DEF Init, WalkInv, Dispatchable
    <2>2. QED
      BY <2>1, ChaosInit, BooksInit DEF ChaosInv
  <1>3. Inv /\ [Next]_vars => Inv'
    BY TypesStep, BooksStep, WalkStep
  <1>4. QED
    BY <1>1, <1>2, <1>3, PTL DEF Spec

=============================================================================
