-------------------------- MODULE RequestPathProofs --------------------------
(***************************************************************************)
(* Invariance proofs for RequestPath, for any number of requests of any      *)
(* kind, with or without workers and custom workloads.                       *)
(***************************************************************************)
EXTENDS RequestPath, TLAPS

-----------------------------------------------------------------------------

\* What holds of a request at every moment: before it arrives nothing of it is
\* there; the store knows it only while use() awaits the queue, which is while
\* its task is open, and never as responded, so the headers alone decide who
\* may answer; listeners outlive the task only if it was rejected, and then the
\* answer was given.
Sound(r) ==
  /\ request[r] = NoRequest => /\ task[r] = "new" /\ answer[r] = << >>
                               /\ ~listening[r] /\ controller[r] = "idle"
  /\ entry[r] # "absent" => awaiting[r] /\ entry[r] = "open"
  /\ awaiting[r] => task[r] \in {"waiting", "running", "pool"}
  /\ task[r] = "running" => listening[r]
  /\ listening[r] => \/ task[r] = "running"
                     \/ task[r] = "rejected" /\ answer[r] # << >>
  /\ answer[r] \in {<< >>, <<"middleware">>, <<"controller">>}

RequestInv == TypeOK /\ \A r \in Requests : Sound(r)

\* The inductive invariant says what the runs check.
LEMMA RequestEnough == RequestInv => OneAnswer /\ RequestsTracked
  <1> SUFFICES ASSUME RequestInv
               PROVE  OneAnswer /\ RequestsTracked
    OBVIOUS
  <1>1. ASSUME NEW r \in Requests
        PROVE  Len(answer[r]) <= 1 /\ \A i \in DOMAIN answer[r] : answer[r][i] # "timer"
    <2>1. answer[r] \in {<< >>, <<"middleware">>, <<"controller">>}
      BY <1>1 DEF RequestInv, Sound
    <2>2. CASE answer[r] = << >>
      BY <2>2
    <2>3. CASE answer[r] = <<"middleware">>
      BY <2>3
    <2>4. CASE answer[r] = <<"controller">>
      BY <2>4
    <2>5. QED
      BY <2>1, <2>2, <2>3, <2>4
  <1>2. OneAnswer
    BY <1>1 DEF OneAnswer, AnsweredOnce, TimerNeverAnswers
  <1>3. RequestsTracked
    BY DEF RequestInv, Sound, RequestsTracked, RunningIsWatched, StoreHoldsOpenRequests
  <1>4. QED
    BY <1>2, <1>3

\* Nothing has arrived at the start.
LEMMA RequestInit == Init => RequestInv
  <1> SUFFICES ASSUME Init
               PROVE  RequestInv
    OBVIOUS
  <1>1. TypeOK
    BY DEF Init, TypeOK, Queue!States, Queue!Ends
  <1>2. \A r \in Requests : Sound(r)
    BY DEF Init, Sound
  <1>3. QED
    BY <1>1, <1>2 DEF RequestInv

\* An answer by someone who found none yet is the only one.
LEMMA FirstAnswer ==
  ASSUME TypeOK, NEW r \in Requests, answer[r] = << >>,
         NEW who \in {"middleware", "controller"}, send(r, who)
  PROVE  /\ answer' = [answer EXCEPT ![r] = <<who>>]
         /\ answer' \in [Requests -> Seq({"middleware", "controller", "timer"})]
  <1>1. Append(answer[r], who) = <<who>>
    OBVIOUS
  <1>2. answer' = [answer EXCEPT ![r] = <<who>>]
    BY <1>1 DEF send, TypeOK
  <1>3. <<who>> \in Seq({"middleware", "controller", "timer"})
    OBVIOUS
  <1>4. QED
    BY <1>2, <1>3 DEF TypeOK

\* The moves of the lifecycle stay within its states.
LEMMA MoveType ==
  ASSUME TypeOK, NEW r \in Requests, NEW to, move(r, to)
  PROVE  /\ task' = [task EXCEPT ![r] = to]
         /\ task' \in [Requests -> Queue!States]
  BY DEF TypeOK, move, Queue!Moves, Queue!States, Queue!Ends

\* use() fails: the request has an answer, its own or an earlier one.
LEMMA UseFails ==
  ASSUME RequestInv, NEW r \in Requests, useFails(r)
  PROVE  /\ awaiting' = [awaiting EXCEPT ![r] = FALSE] /\ awaiting' \in [Requests -> BOOLEAN]
         /\ entry' = [entry EXCEPT ![r] = "absent"]
         /\ entry' \in [Requests -> {"absent", "open", "responded"}]
         /\ answer' \in [Requests -> Seq({"middleware", "controller", "timer"})]
         /\ answer'[r] \in {<<"middleware">>, <<"controller">>} /\ answer'[r] # << >>
         /\ \A s \in Requests \ {r} : answer'[s] = answer[s]
  <1>1. TypeOK /\ Sound(r)
    BY DEF RequestInv
  <1>2. /\ awaiting' = [awaiting EXCEPT ![r] = FALSE]
        /\ entry' = [entry EXCEPT ![r] = "absent"]
    BY DEF useFails, released
  <1>3. awaiting' \in [Requests -> BOOLEAN]
    BY <1>1, <1>2 DEF TypeOK
  <1>4. entry' \in [Requests -> {"absent", "open", "responded"}]
    BY <1>1, <1>2 DEF TypeOK
  <1>5. mayAnswer(r) <=> answer[r] = << >>
    BY <1>1 DEF mayAnswer, hasResponded, headersSent, Sound
  <1>6. CASE answer[r] = << >>
    <2>1. send(r, "middleware")
      BY <1>5, <1>6 DEF useFails
    <2>2. /\ answer' = [answer EXCEPT ![r] = <<"middleware">>]
          /\ answer' \in [Requests -> Seq({"middleware", "controller", "timer"})]
      BY <1>1, <1>6, <2>1, FirstAnswer
    <2>3. QED
      BY <1>1, <1>2, <1>3, <1>4, <2>2 DEF TypeOK
  <1>7. CASE answer[r] # << >>
    <2>1. answer' = answer
      BY <1>5, <1>7 DEF useFails
    <2>2. QED
      BY <1>1, <1>2, <1>3, <1>4, <1>7, <2>1 DEF TypeOK, Sound
  <1>8. QED
    BY <1>6, <1>7

\* Every step keeps every request sound.
LEMMA RequestStep == RequestInv /\ [Next]_vars => RequestInv'
  <1> SUFFICES ASSUME RequestInv, [Next]_vars
               PROVE  RequestInv'
    OBVIOUS
  <1>0. TypeOK /\ \A r \in Requests : Sound(r)
    BY DEF RequestInv
  <1>q. \A q \in Incoming : q # NoRequest
    BY RequestAssumption DEF RequestType, NoRequest
  <1>1. ASSUME NEW r \in Requests, NEW q \in Incoming, Bypass(r, q)
        PROVE  RequestInv'
    <2>1. TypeOK'
      BY <1>0, <1>1 DEF Bypass, Arrives, TypeOK
    <2>2. Sound(r)'
      BY <1>0, <1>1, <1>q DEF Bypass, Arrives, TypeOK, Sound
    <2>3. \A s \in Requests \ {r} : Sound(s)'
      BY <1>0, <1>1 DEF Bypass, Arrives, TypeOK, Sound
    <2>4. QED
      BY <2>1, <2>2, <2>3 DEF RequestInv
  <1>2. ASSUME NEW r \in Requests, NEW q \in Incoming, Refuse(r, q)
        PROVE  RequestInv'
    <2>1. answer[r] = << >>
      BY <1>0, <1>2 DEF Refuse, Arrives, Sound
    <2>2. /\ answer' = [answer EXCEPT ![r] = <<"middleware">>]
          /\ answer' \in [Requests -> Seq({"middleware", "controller", "timer"})]
      BY <1>0, <1>2, <2>1, FirstAnswer DEF Refuse
    <2>3. TypeOK'
      BY <1>0, <1>2, <2>2 DEF Refuse, Arrives, TypeOK
    <2>4. Sound(r)'
      BY <1>0, <1>2, <1>q, <2>2 DEF Refuse, Arrives, TypeOK, Sound
    <2>5. \A s \in Requests \ {r} : Sound(s)'
      BY <1>0, <1>2, <2>2 DEF Refuse, Arrives, TypeOK, Sound
    <2>6. QED
      BY <2>3, <2>4, <2>5 DEF RequestInv
  <1>3. ASSUME NEW r \in Requests, NEW q \in Incoming, Enqueue(r, q)
        PROVE  RequestInv'
    <2>1. /\ task' = [task EXCEPT ![r] = "waiting"]
          /\ task' \in [Requests -> Queue!States]
      BY <1>0, <1>3, MoveType DEF Enqueue
    <2>2. TypeOK'
      BY <1>0, <1>3, <2>1 DEF Enqueue, Arrives, TypeOK
    <2>3. Sound(r)'
      BY <1>0, <1>3, <1>q, <2>1 DEF Enqueue, Arrives, TypeOK, Sound
    <2>4. \A s \in Requests \ {r} : Sound(s)'
      BY <1>0, <1>3, <2>1 DEF Enqueue, Arrives, TypeOK, Sound
    <2>5. QED
      BY <2>2, <2>3, <2>4 DEF RequestInv
  <1>4. ASSUME NEW r \in Requests, Start(r)
        PROVE  RequestInv'
    <2>1. /\ task' = [task EXCEPT ![r] = "running"]
          /\ task' \in [Requests -> Queue!States]
      BY <1>0, <1>4, MoveType DEF Start
    <2>2. TypeOK'
      BY <1>0, <1>4, <2>1 DEF Start, TypeOK
    <2>3. Sound(r)'
      BY <1>0, <1>4, <2>1 DEF Start, TypeOK, Sound
    <2>4. \A s \in Requests \ {r} : Sound(s)'
      BY <1>0, <1>4, <2>1 DEF Start, TypeOK, Sound
    <2>5. QED
      BY <2>2, <2>3, <2>4 DEF RequestInv
  <1>5. ASSUME NEW r \in Requests, StartOnWorker(r)
        PROVE  RequestInv'
    <2>1. /\ task' = [task EXCEPT ![r] = "pool"]
          /\ task' \in [Requests -> Queue!States]
      BY <1>0, <1>5, MoveType DEF StartOnWorker
    <2>2. TypeOK'
      BY <1>0, <1>5, <2>1 DEF StartOnWorker, TypeOK
    <2>3. \A s \in Requests : Sound(s)'
      BY <1>0, <1>5, <2>1 DEF StartOnWorker, TypeOK, Sound
    <2>4. QED
      BY <2>2, <2>3 DEF RequestInv
  <1>6. ASSUME NEW r \in Requests, NEW to \in {"rejected", "timedOut"},
               move(r, to), useFails(r), UNCHANGED <<request, listening, controller, ended>>,
               task[r] = "running" => to = "rejected"
        PROVE  RequestInv'
    <2>1. /\ task' = [task EXCEPT ![r] = to]
          /\ task' \in [Requests -> Queue!States]
      BY <1>0, <1>6, MoveType
    <2>2. /\ awaiting' = [awaiting EXCEPT ![r] = FALSE] /\ awaiting' \in [Requests -> BOOLEAN]
          /\ entry' = [entry EXCEPT ![r] = "absent"]
          /\ entry' \in [Requests -> {"absent", "open", "responded"}]
          /\ answer' \in [Requests -> Seq({"middleware", "controller", "timer"})]
          /\ answer'[r] \in {<<"middleware">>, <<"controller">>} /\ answer'[r] # << >>
          /\ \A s \in Requests \ {r} : answer'[s] = answer[s]
      BY <1>6, UseFails
    <2>3. TypeOK'
      BY <1>0, <1>6, <2>1, <2>2 DEF TypeOK
    <2>4. task[r] \in {"waiting", "running", "pool"}
      BY <1>6 DEF move, Queue!Moves
    <2>5. Sound(r)'
      <3>1. /\ task'[r] = to /\ awaiting'[r] = FALSE /\ entry'[r] = "absent"
            /\ request'[r] = request[r] /\ listening'[r] = listening[r]
        BY <1>0, <1>6, <2>1, <2>2 DEF TypeOK
      <3>2. request[r] # NoRequest /\ (listening[r] => to = "rejected")
        BY <1>0, <1>6, <2>4 DEF Sound
      <3>3. QED
        BY <1>6, <2>2, <3>1, <3>2 DEF Sound
    <2>6. \A s \in Requests \ {r} : Sound(s)'
      BY <1>0, <1>6, <2>1, <2>2 DEF TypeOK, Sound
    <2>7. QED
      BY <2>3, <2>5, <2>6 DEF RequestInv
  <1>7. ASSUME NEW r \in Requests, ExecutionTimeout(r)
        PROVE  RequestInv'
    BY <1>6, <1>7 DEF ExecutionTimeout
  <1>8. ASSUME NEW r \in Requests, NEW to \in {"rejected", "timedOut"}, Drop(r, to)
        PROVE  RequestInv'
    BY <1>6, <1>8 DEF Drop
  <1>9. ASSUME NEW r \in Requests, move(r, "resolved"), useReturns(r), listening'[r] = FALSE,
               \A s \in Requests \ {r} : listening'[s] = listening[s],
               listening' \in [Requests -> BOOLEAN], ended' \in [Requests -> BOOLEAN],
               UNCHANGED <<request, controller, answer>>
        PROVE  RequestInv'
    <2>1. /\ task' = [task EXCEPT ![r] = "resolved"]
          /\ task' \in [Requests -> Queue!States]
      BY <1>0, <1>9, MoveType
    <2>2. /\ awaiting' = [awaiting EXCEPT ![r] = FALSE]
          /\ entry' = [entry EXCEPT ![r] = "absent"]
      BY <1>9 DEF useReturns, released
    <2>3. TypeOK'
      BY <1>0, <1>9, <2>1, <2>2 DEF TypeOK
    <2>4. task[r] # "new"
      BY <1>9 DEF move, Queue!Moves
    <2>5. Sound(r)'
      BY <1>0, <1>9, <2>1, <2>2, <2>4 DEF TypeOK, Sound
    <2>6. \A s \in Requests \ {r} : Sound(s)'
      BY <1>0, <1>9, <2>1, <2>2 DEF TypeOK, Sound
    <2>7. QED
      BY <2>3, <2>5, <2>6 DEF RequestInv
  <1>10. ASSUME NEW r \in Requests, NEW ok \in BOOLEAN, WorkerDone(r, ok)
         PROVE  RequestInv'
    <2>1. CASE ok
      <3>1. /\ move(r, "resolved") /\ useReturns(r)
            /\ UNCHANGED <<request, listening, controller, ended, answer>>
        BY <1>10, <2>1 DEF WorkerDone
      <3>2. listening[r] = FALSE
        BY <1>0, <1>10 DEF WorkerDone, Sound, TypeOK
      <3>3. QED
        BY <1>0, <1>9, <3>1, <3>2 DEF TypeOK
    <2>2. CASE ~ok
      BY <1>6, <1>10, <2>2 DEF WorkerDone
    <2>3. QED
      BY <2>1, <2>2
  <1>11. ASSUME NEW r \in Requests, ControllerEnds(r)
         PROVE  RequestInv'
    <2>1. CASE answer[r] = << >>
      <3>1. /\ answer' = [answer EXCEPT ![r] = <<"controller">>]
            /\ answer' \in [Requests -> Seq({"middleware", "controller", "timer"})]
        BY <1>0, <1>11, <2>1, FirstAnswer DEF ControllerEnds, headersSent
      <3>2. TypeOK'
        BY <1>0, <1>11, <3>1 DEF ControllerEnds, TypeOK
      <3>3. request[r] # NoRequest
        BY <1>0, <1>11 DEF ControllerEnds, Sound
      <3>4. \A s \in Requests : Sound(s)'
        BY <1>0, <1>11, <3>1, <3>3 DEF ControllerEnds, TypeOK, Sound
      <3>5. QED
        BY <3>2, <3>4 DEF RequestInv
    <2>2. CASE answer[r] # << >>
      BY <1>0, <1>11, <2>2 DEF ControllerEnds, headersSent, TypeOK, Sound, RequestInv
    <2>3. QED
      BY <2>1, <2>2
  <1>12. ASSUME NEW r \in Requests, NEW marks \in BOOLEAN, listening[r], finish(r, marks),
                ended' \in [Requests -> BOOLEAN], UNCHANGED <<request, controller, answer>>
         PROVE  RequestInv'
    <2>1. /\ listening' = [listening EXCEPT ![r] = FALSE]
          /\ listening' \in [Requests -> BOOLEAN]
      BY <1>0, <1>12 DEF finish, TypeOK
    <2>2. CASE task[r] = "running"
      BY <1>0, <1>9, <1>12, <2>1, <2>2 DEF finish, TypeOK
    <2>3. CASE task[r] # "running"
      <3>1. entry[r] = "absent" /\ ~awaiting[r]
        BY <1>0, <1>12, <2>3 DEF Sound
      <3>2. entry' = entry /\ task' = task /\ awaiting' = awaiting
        BY <1>0, <1>12, <2>3, <3>1 DEF finish, marked, TypeOK
      <3>3. TypeOK'
        BY <1>0, <1>12, <2>1, <3>2 DEF TypeOK
      <3>4. \A s \in Requests : Sound(s)'
        BY <1>0, <1>12, <2>1, <2>3, <3>2 DEF TypeOK, Sound
      <3>5. QED
        BY <3>3, <3>4 DEF RequestInv
    <2>4. QED
      BY <2>2, <2>3
  <1>13. ASSUME NEW r \in Requests, ResponseEnds(r)
         PROVE  RequestInv'
    <2>1. ended' \in [Requests -> BOOLEAN]
      BY <1>0, <1>13 DEF ResponseEnds, TypeOK
    <2>2. CASE listening[r]
      BY <1>12, <1>13, <2>1, <2>2 DEF ResponseEnds
    <2>3. CASE ~listening[r]
      <3>1. UNCHANGED <<request, task, awaiting, entry, listening, controller, answer>>
        BY <1>13, <2>3 DEF ResponseEnds
      <3>2. TypeOK' /\ \A s \in Requests : Sound(s)'
        BY <1>0, <2>1, <3>1 DEF TypeOK, Sound
      <3>3. QED
        BY <3>2 DEF RequestInv
    <2>4. QED
      BY <2>2, <2>3
  <1>14. ASSUME NEW r \in Requests, RequestTimeout(r)
         PROVE  RequestInv'
    <2>1. ~mayAnswer(r)
      BY <1>0, <1>14 DEF RequestTimeout, executionTimerRan, Sound, mayAnswer, headersSent
    <2>2. finish(r, FALSE) /\ UNCHANGED <<request, controller, answer, ended>>
      BY <1>14, <2>1 DEF RequestTimeout, finish
    <2>3. QED
      BY <1>0, <1>12, <1>14, <2>2 DEF RequestTimeout, TypeOK
  <1>15. ASSUME NEW r \in Requests, EntryExpires(r)
         PROVE  RequestInv'
    <2>1. TypeOK'
      BY <1>0, <1>15 DEF EntryExpires, TypeOK
    <2>2. \A s \in Requests : Sound(s)'
      BY <1>0, <1>15 DEF EntryExpires, TypeOK, Sound
    <2>3. QED
      BY <2>1, <2>2 DEF RequestInv
  <1>16. CASE UNCHANGED vars
    BY <1>0, <1>16 DEF vars, TypeOK, Sound, RequestInv
  <1>17. QED
    BY <1>1, <1>2, <1>3, <1>4, <1>5, <1>7, <1>8, <1>10, <1>11, <1>13, <1>14, <1>15, <1>16
       DEF Next

\* Every request is sound in every reachable state.
LEMMA RequestInvariant == Spec => []RequestInv
  BY RequestInit, RequestStep, PTL DEF Spec

\* However use(), the two timers, the controller and the expiry of the state
\* entry interleave, a request gets at most one answer and never the 408 of the
\* request timer.
THEOREM AnsweredAtMostOnce == Spec => []OneAnswer
  BY RequestInvariant, RequestEnough, PTL

\* A running task is always watched by listeners that can end it, and the state
\* store has no entry of a request that use() is not waiting for.
THEOREM NothingLeftBehind == Spec => []RequestsTracked
  BY RequestInvariant, RequestEnough, PTL

=============================================================================
