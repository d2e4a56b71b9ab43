--------------------------- MODULE OrderConsumer ----------------------------
(***************************************************************************)
(* The consumers of the order events: the child processes that the server's *)
(* ConsumerProcessManager spawns and stops (dist/consumer.js), the          *)
(* OrderConsumer instances inside them, the Go consumer that reads the same *)
(* topics in a group of its own, and the offset reset and lag of            *)
(* KafkaInspector.  The broker (log, committed offsets, group membership,   *)
(* fencing of commits) is external and modelled from how the code uses it.  *)
(***************************************************************************)
EXTENDS Integers, FiniteSets

CONSTANTS
  Pids,            \* process ids the operating system hands out
  Partitions,      \* partitions of the topic
  Options,         \* the SpawnConsumerOptions (or GO_CONSUMER_* settings) tried
  MAX_INSTANCES,   \* most consumers of one process
  MaxEvents,       \* bound: events published to a partition
  MaxConsumers,    \* bound: consumers started, all processes together
  MaxDisturbances  \* bound: signals, disturbances and offset resets

ASSUME ConsumerAssumption ==
  /\ Pids # {} /\ IsFiniteSet(Pids)
  /\ Partitions # {} /\ IsFiniteSet(Partitions) /\ Partitions \subseteq Nat
  /\ MAX_INSTANCES \in Nat \ {0}
  /\ {MaxEvents, MaxConsumers, MaxDisturbances} \subseteq Nat
  /\ \A o \in Options :
       /\ o.runtime \in {"node", "go"}
       /\ o.commitMode \in {"after-process", "before-process"}
       /\ o.fromBeginning \in BOOLEAN
       /\ {o.instances, o.limit} \subseteq Int

None == <<0, 0>>                         \* no owner
Consumers == Pids \X (1..MAX_INSTANCES)
Offsets == 0..(MaxEvents - 1)
Earliest == [p \in Partitions |-> 0]
Idle == [at |-> "idle", part |-> -1, offset |-> 0]

VARIABLES
  \* broker (external)
  high,         \* partition -> number of events in its log
  committed,    \* partition -> the group's next offset, -1 when there is none
  members,      \* consumers the coordinator counts as members
  rebalancing,  \* members must rejoin before anybody fetches
  owner,        \* partition -> its consumer
  pos,          \* partition -> next offset its consumer reads, -1 before the first
  \* consumer processes
  cfg,          \* the options all processes of the group were started with
  proc,         \* pid -> none | alive | exiting | dead (exit not yet reported)
  st,           \* consumer -> off | joining | run | closing | left | stopped | done
  work,         \* consumer -> the step of its handler and the event in it
  processed,    \* consumer -> stats.processed
  \* the store
  rows,         \* partition -> offset -> rows recorded (Go: successes counted)
  failed,       \* partition -> offsets counted as failed
  \* ConsumerProcessManager and KafkaInspector
  info,         \* pid -> absent | alive | finished
  handles,      \* pids with a child handle
  destroyed,    \* onModuleDestroy has run: the server, its publisher included, is down
  reset,        \* the reset under way, and those done
  \* bookkeeping
  spawns, disturbances,
  cut           \* events in the hands of a consumer when it was cut off or its
                \* commit failed

brokerVars == <<high, committed, members, rebalancing, owner, pos>>
processVars == <<cfg, proc, st, work, processed>>
storeVars == <<rows, failed>>
managerVars == <<info, handles, destroyed, reset>>
counters == <<spawns, disturbances, cut>>
vars == <<brokerVars, processVars, storeVars, managerVars, counters>>

-----------------------------------------------------------------------------
(* Options *)

\* normalize() and the readers of the environment: what they do not refuse.
Valid(o) == o.instances \in 1..MAX_INSTANCES /\ o.limit >= 0

IsNode == cfg.runtime = "node"
Before == cfg.commitMode = "before-process"

\* crashAfter of the Node consumer, MaxMessages of the Go one; 0 means never.
LimitReached(n) == cfg.limit > 0 /\ n >= cfg.limit

\* stats.processed, followed only where it decides something.
Count(n) == IF cfg.limit > 0 THEN n + 1 ELSE 0

Instances(x) == {c \in Consumers : c[1] = x /\ c[2] <= cfg.instances}
Up(c) == proc[c[1]] \in {"alive", "exiting"}
Running(c) == st[c] \in {"run", "closing"}       \* isRunning()

\* The events that the consumers of C have in hand.
InHand(C) == {<<work[c].part, work[c].offset>> : c \in {d \in C : work[d] # Idle}}

\* Every consumer.start() has resolved, so the signal handlers are installed.
Started(x) == \A c \in Instances(x) : st[c] \notin {"off", "joining"}

-----------------------------------------------------------------------------
(* The broker *)

Publish(p) ==
  /\ ~destroyed /\ high[p] < MaxEvents
  /\ high' = [high EXCEPT ![p] = @ + 1]
  /\ UNCHANGED <<committed, members, rebalancing, owner, pos>>
  /\ UNCHANGED <<processVars, storeVars, managerVars, counters>>

\* The group after a member joined, left or expired.
GroupChange(m) ==
  /\ members' = m
  /\ rebalancing' = (m # {})
  /\ owner' = [p \in Partitions |-> IF owner[p] \in m THEN owner[p] ELSE None]

\* Mutant: fromBeginning is not passed on.
StartAtLatest(p) == IF committed[p] >= 0 THEN committed[p] ELSE high[p]

\* Where a newly assigned partition is read from.
StartOffset(p) == IF committed[p] >= 0 THEN committed[p]
                  ELSE IF cfg.fromBeginning THEN 0 ELSE high[p]

\* Assignors deal partitions out evenly.
Balanced(a, m) ==
  \A c, d \in m : Cardinality({p \in Partitions : a[p] = c})
                    <= Cardinality({p \in Partitions : a[p] = d}) + 1

\* All members have rejoined: they get their partitions, start() resolves.
Rebalance ==
  /\ rebalancing
  /\ \A c \in members : Up(c) /\ work[c] = Idle
  /\ \E a \in [Partitions -> members] : Balanced(a, members) /\ owner' = a
  /\ rebalancing' = FALSE
  /\ pos' = [p \in Partitions |-> StartOffset(p)]
  /\ st' = [c \in Consumers |->
              IF c \in members /\ st[c] = "joining" THEN "run" ELSE st[c]]
  /\ UNCHANGED <<high, committed, members, cfg, proc, work, processed>>
  /\ UNCHANGED <<storeVars, managerVars, counters>>

\* The session of a member that no longer answers runs out.
Expire(c) ==
  /\ c \in members
  /\ ~Up(c) \/ st[c] = "off"
  /\ GroupChange(members \ {c})
  /\ UNCHANGED <<high, committed, pos>>
  /\ UNCHANGED <<processVars, storeVars, managerVars, counters>>

Disturb == disturbances < MaxDisturbances /\ disturbances' = disturbances + 1

\* A slow handler misses its heartbeats and is thrown out, still working.
Evict(c) ==
  /\ Disturb
  /\ c \in members /\ Up(c) /\ work[c] # Idle
  /\ GroupChange(members \ {c})
  /\ cut' = cut \cup InHand({c})
  /\ UNCHANGED <<high, committed, pos, spawns>>
  /\ UNCHANGED <<processVars, storeVars, managerVars>>

\* A commit counts only from the member that holds the partition.
MayCommit(c) == c \in members /\ owner[work[c].part] = c

-----------------------------------------------------------------------------
(* OrderConsumer.start, handleMessage and the Go Run loop *)

\* start() of the next consumer; Node starts them one after the other.
Join(c) ==
  /\ Up(c) /\ c \in Instances(c[1]) /\ st[c] = "off"
  /\ IsNode => \A d \in Instances(c[1]) : d[2] < c[2] => st[d] \notin {"off", "joining"}
  /\ GroupChange(members \cup {c})
  /\ st' = [st EXCEPT ![c] = "joining"]
  /\ UNCHANGED <<high, committed, pos, cfg, proc, work, processed>>
  /\ UNCHANGED <<storeVars, managerVars, counters>>

\* A consumer that was thrown out joins again (the client library's loop).
Rejoin(c) ==
  /\ Up(c) /\ st[c] \in {"run", "done"} /\ c \notin members /\ work[c] = Idle
  /\ GroupChange(members \cup {c})
  /\ UNCHANGED <<high, committed, pos>>
  /\ UNCHANGED <<processVars, storeVars, managerVars, counters>>

Fetch(c, p) ==
  /\ Up(c) /\ st[c] = "run" /\ work[c] = Idle
  /\ c \in members /\ owner[p] = c /\ ~rebalancing
  /\ pos[p] < high[p]
  /\ ~IsNode => proc[c[1]] = "alive"
  /\ work' = [work EXCEPT ![c] =
                [at |-> IF Before THEN "precommit" ELSE "process",
                 part |-> p, offset |-> pos[p]]]
  /\ UNCHANGED <<cfg, proc, st, processed>>
  /\ UNCHANGED <<brokerVars, storeVars, managerVars, counters>>

\* The handler returns: the client moves on to the next offset.  A Go consumer
\* that has read enough ends its Run and keeps its reader open.
Finish(c, n) ==
  /\ work' = [work EXCEPT ![c] = Idle]
  /\ pos' = IF owner[work[c].part] = c /\ c \in members
            THEN [pos EXCEPT ![work[c].part] = work[c].offset + 1] ELSE pos
  /\ st' = IF ~IsNode /\ LimitReached(n) THEN [st EXCEPT ![c] = "done"] ELSE st

\* commitOffsets(offset + 1) / CommitMessages(msg) is accepted.
Commit(c) == committed' = [committed EXCEPT ![work[c].part] = work[c].offset + 1]

\* Mutant: after the commit the handler makes way for a pending rebalance.
PreCommitYields(c) ==
  /\ Up(c) /\ work[c].at = "precommit" /\ MayCommit(c)
  /\ Commit(c)
  /\ IF rebalancing THEN Finish(c, processed[c])
     ELSE work' = [work EXCEPT ![c].at = "process"] /\ UNCHANGED <<pos, st>>
  /\ UNCHANGED <<high, members, rebalancing, owner, cfg, proc, processed>>
  /\ UNCHANGED <<storeVars, managerVars, counters>>

PreCommit(c) ==
  /\ Up(c) /\ work[c].at = "precommit" /\ MayCommit(c)
  /\ Commit(c)
  /\ work' = [work EXCEPT ![c].at = "process"]
  /\ UNCHANGED <<high, members, rebalancing, owner, pos, cfg, proc, st, processed>>
  /\ UNCHANGED <<storeVars, managerVars, counters>>

\* process(): the event is checked, the row written, the statistics updated;
\* at crashAfter the Node consumer goes on to leave without a commit.
NextStep(n) == IF IsNode /\ LimitReached(n) THEN "leave"
               ELSE IF Before THEN "finish" ELSE "commit"

Process(c) ==
  LET p == work[c].part
      o == work[c].offset
      after(n) == IF NextStep(n) = "finish" THEN Finish(c, n)
                  ELSE /\ work' = [work EXCEPT ![c].at = NextStep(n)]
                       /\ UNCHANGED <<pos, st>>
  IN
  /\ Up(c) /\ work[c].at = "process"
  /\ \/ /\ rows' = [rows EXCEPT ![p][o] = @ + 1]
        /\ processed' = [processed EXCEPT ![c] = Count(@)]
        /\ after(Count(processed[c]))
        /\ UNCHANGED failed
     \/ \* a body that does not parse, or (Node) recordEvent fails
        /\ failed' = [failed EXCEPT ![p] = @ \cup {o}]
        /\ after(processed[c])
        /\ UNCHANGED <<rows, processed>>
  /\ UNCHANGED <<high, committed, members, rebalancing, owner, cfg, proc>>
  /\ UNCHANGED <<managerVars, counters>>

CommitAfter(c) ==
  /\ Up(c) /\ work[c].at = "commit" /\ MayCommit(c)
  /\ Commit(c)
  /\ Finish(c, processed[c])
  /\ UNCHANGED <<high, members, rebalancing, owner, cfg, proc, processed>>
  /\ UNCHANGED <<storeVars, managerVars, counters>>

\* Mutant: the refusal is caught and the event processed all the same.
CommitRefusalIgnored(c) ==
  /\ Up(c) /\ work[c].at = "precommit" /\ ~MayCommit(c)
  /\ work' = [work EXCEPT ![c].at = "process"]
  /\ UNCHANGED <<cfg, proc, st, processed>>
  /\ UNCHANGED <<brokerVars, storeVars, managerVars, counters>>

\* The commit of a consumer that was thrown out is refused: the Node handler
\* throws and the client rejoins, the Go Run returns the error and stays out.
CommitRefused(c) ==
  /\ Up(c) /\ work[c].at \in {"precommit", "commit"} /\ ~MayCommit(c)
  /\ work' = [work EXCEPT ![c] = Idle]
  /\ st' = IF IsNode THEN st ELSE [st EXCEPT ![c] = "done"]
  /\ UNCHANGED <<cfg, proc, processed>>
  /\ UNCHANGED <<brokerVars, storeVars, managerVars, counters>>

\* The commit of a live member fails, whether or not the broker stored it: the
\* Node handler throws and the client reads the same event again, the Go Run
\* returns the error.
CommitFails(c) ==
  /\ Disturb
  /\ Up(c) /\ work[c].at \in {"precommit", "commit"} /\ MayCommit(c)
  /\ Commit(c) \/ UNCHANGED committed
  /\ work' = [work EXCEPT ![c] = Idle]
  /\ st' = IF IsNode THEN st ELSE [st EXCEPT ![c] = "done"]
  /\ cut' = cut \cup InHand({c})
  /\ UNCHANGED <<high, members, rebalancing, owner, pos, cfg, proc, processed, spawns>>
  /\ UNCHANGED <<storeVars, managerVars>>

\* Go: after SIGTERM the context is cancelled, and commit() takes the
\* cancelled commit for a success.
CommitCancelled(c) ==
  /\ ~IsNode /\ proc[c[1]] = "exiting"
  /\ \/ /\ work[c].at = "precommit"
        /\ work' = [work EXCEPT ![c].at = "process"]
        /\ UNCHANGED <<pos, st>>
     \/ /\ work[c].at = "commit"
        /\ Finish(c, processed[c])
  /\ cut' = cut \cup InHand({c})
  /\ UNCHANGED <<high, committed, members, rebalancing, owner>>
  /\ UNCHANGED <<cfg, proc, processed, storeVars, managerVars, spawns, disturbances>>

\* Mutant: the consumer only stops reading, it does not disconnect.
LeaveWithoutDisconnect(c) ==
  /\ Up(c) /\ work[c].at = "leave"
  /\ st' = [st EXCEPT ![c] = "left"]
  /\ work' = [work EXCEPT ![c] = Idle]
  /\ cut' = cut \cup InHand({c})
  /\ UNCHANGED <<brokerVars, cfg, proc, processed, spawns, disturbances>>
  /\ UNCHANGED <<storeVars, managerVars>>

\* leaveWithoutCommit and onCrashPoint: when no consumer of the process is
\* running any more, the process shuts down with exit code 137.  That
\* disconnect() (external) returns inside a handler is taken from the comment.
LeaveWithoutCommit(c) ==
  LET last == \A d \in Instances(c[1]) \ {c} : ~Running(d) IN
  /\ Up(c) /\ work[c].at = "leave"
  /\ IF c \in members THEN GroupChange(members \ {c})
     ELSE UNCHANGED <<members, rebalancing, owner>>
  /\ st' = [st EXCEPT ![c] = "left"]
  /\ work' = [work EXCEPT ![c] = Idle]
  /\ proc' = IF last THEN [proc EXCEPT ![c[1]] = "exiting"] ELSE proc
  /\ cut' = cut \cup InHand({c})
  /\ UNCHANGED <<high, committed, pos, cfg, processed, spawns, disturbances>>
  /\ UNCHANGED <<storeVars, managerVars>>

\* stop(): disconnect() (external) lets the handler end and leaves the group.
Disconnect(c) ==
  /\ Up(c) /\ st[c] = "closing" /\ work[c] = Idle
  /\ IF c \in members THEN GroupChange(members \ {c})
     ELSE UNCHANGED <<members, rebalancing, owner>>
  /\ st' = [st EXCEPT ![c] = "stopped"]
  /\ UNCHANGED <<high, committed, pos, cfg, proc, work, processed>>
  /\ UNCHANGED <<storeVars, managerVars, counters>>

\* Go: Run returns when FetchMessage sees the cancelled context.
RunCancelled(c) ==
  /\ ~IsNode /\ proc[c[1]] = "exiting"
  /\ st[c] \in {"off", "joining", "run"} /\ work[c] = Idle /\ c \in Instances(c[1])
  /\ st' = [st EXCEPT ![c] = "done"]
  /\ UNCHANGED <<cfg, proc, work, processed>>
  /\ UNCHANGED <<brokerVars, storeVars, managerVars, counters>>

-----------------------------------------------------------------------------
(* Processes and their manager *)

\* The processes of S end at once; what their consumers held stays with the
\* broker until the sessions expire.
Cut(S) ==
  /\ st' = [c \in Consumers |-> IF c[1] \in S THEN "off" ELSE st[c]]
  /\ work' = [c \in Consumers |-> IF c[1] \in S THEN Idle ELSE work[c]]
  /\ processed' = [c \in Consumers |-> IF c[1] \in S THEN 0 ELSE processed[c]]

\* process.exit() at the end of shutdown(): consumers that stop() skipped,
\* because start() had not resolved, are cut off.
ExitProcess(x) ==
  /\ IsNode /\ proc[x] = "exiting"
  /\ \A c \in Instances(x) : st[c] # "closing"
  /\ proc' = [proc EXCEPT ![x] = "dead"]
  /\ Cut({x})
  /\ cut' = cut \cup InHand(Instances(x))
  /\ UNCHANGED <<brokerVars, cfg, storeVars, managerVars, spawns, disturbances>>

\* Go: wg.Wait() returns when every Run has, and only then the readers close.
CloseReaders(x) ==
  /\ ~IsNode /\ proc[x] \in {"alive", "exiting"}
  /\ \A c \in Instances(x) : st[c] = "done"
  /\ GroupChange(members \ Instances(x))
  /\ proc' = [proc EXCEPT ![x] = "dead"]
  /\ Cut({x})
  /\ UNCHANGED <<high, committed, pos, cfg, storeVars, managerVars, counters>>

\* A signal reaches the processes of S.  SIGTERM starts shutdown() where its
\* handler is installed, and kills where it is not.
Deliver(S, signal) ==
  LET live   == {x \in S : proc[x] \in {"alive", "exiting"}}
      killed == {x \in live : signal = "SIGKILL" \/ (IsNode /\ ~Started(x))}
      asked  == {x \in live \ killed : proc[x] = "alive"}
  IN
  /\ proc' = [x \in Pids |-> IF x \in killed THEN "dead"
                             ELSE IF x \in asked THEN "exiting" ELSE proc[x]]
  /\ st' = [c \in Consumers |->
              IF c[1] \in killed THEN "off"
              ELSE IF c[1] \in asked /\ IsNode /\ st[c] = "run" THEN "closing"
              ELSE st[c]]
  /\ work' = [c \in Consumers |-> IF c[1] \in killed THEN Idle ELSE work[c]]
  /\ processed' = [c \in Consumers |-> IF c[1] \in killed THEN 0 ELSE processed[c]]
  /\ cut' = cut \cup InHand({c \in Consumers : c[1] \in killed})
  /\ UNCHANGED <<brokerVars, cfg, storeVars, spawns>>

\* Go processes are started and stopped by hand, outside the manager.
SpawnConsumer(x) ==
  /\ (spawns + 1) * cfg.instances <= MaxConsumers /\ ~destroyed
  /\ proc[x] = "none" /\ \A c \in members : c[1] # x
  /\ proc' = [proc EXCEPT ![x] = "alive"]
  /\ info' = IF IsNode THEN [info EXCEPT ![x] = "alive"] ELSE info
  /\ handles' = IF IsNode THEN handles \cup {x} ELSE handles
  /\ spawns' = spawns + 1
  /\ UNCHANGED <<brokerVars, cfg, st, work, processed, storeVars>>
  /\ UNCHANGED <<destroyed, reset, disturbances, cut>>

\* The pids stop() sends the signal to; for the others it throws.
Signalled(S) == {x \in S : info[x] # "absent" /\ x \in handles}

Stop(x, signal) ==
  /\ ~destroyed
  /\ IF IsNode THEN x \in Signalled({x}) ELSE proc[x] \in {"alive", "exiting"}
  /\ Deliver({x}, signal) /\ Disturb
  /\ UNCHANGED managerVars

StopAll(signal) ==
  /\ IsNode /\ ~destroyed /\ handles # {}
  /\ Deliver(Signalled(handles), signal) /\ Disturb
  /\ UNCHANGED managerVars

\* Mutant: the server goes down without stopping its children.
DestroyKeepsChildren ==
  /\ IsNode /\ ~destroyed
  /\ destroyed' = TRUE
  /\ UNCHANGED <<brokerVars, processVars, storeVars, counters, info, handles, reset>>

OnModuleDestroy ==
  /\ IsNode /\ ~destroyed
  /\ Deliver(Signalled(handles), "SIGTERM")
  /\ destroyed' = TRUE
  /\ UNCHANGED <<info, handles, reset, disturbances>>

\* Mutant: the exit listener keeps the handle.
ExitKeepsHandle(x) ==
  /\ proc[x] = "dead"
  /\ proc' = [proc EXCEPT ![x] = "none"]
  /\ info' = IF IsNode THEN [info EXCEPT ![x] = "finished"] ELSE info
  /\ UNCHANGED <<brokerVars, cfg, st, work, processed, storeVars, counters>>
  /\ UNCHANGED <<handles, destroyed, reset>>

\* The 'exit' listener of the child.
ExitEvent(x) ==
  /\ proc[x] = "dead"
  /\ proc' = [proc EXCEPT ![x] = "none"]
  /\ info' = IF IsNode THEN [info EXCEPT ![x] = "finished"] ELSE info
  /\ handles' = handles \ {x}
  /\ UNCHANGED <<brokerVars, cfg, st, work, processed, storeVars, counters>>
  /\ UNCHANGED <<destroyed, reset>>

ClearFinished ==
  /\ ~destroyed /\ \E x \in Pids : info[x] = "finished"
  /\ info' = [x \in Pids |-> IF info[x] = "finished" THEN "absent" ELSE info[x]]
  /\ UNCHANGED <<brokerVars, processVars, storeVars, handles, destroyed, reset, counters>>

-----------------------------------------------------------------------------
(* KafkaInspector *)

\* topicLag() for one partition (low is 0: nothing is deleted from the log).
Lag(p) == IF committed[p] >= 0 THEN high[p] - committed[p] ELSE high[p]

\* resetOffsets(): the targets are read first ...
ResetRead(target) ==
  /\ ~destroyed /\ ~reset.busy /\ Disturb
  /\ reset' = [reset EXCEPT !.busy = TRUE, !.offsets =
                 [p \in Partitions |-> IF target = "earliest" THEN 0 ELSE high[p]]]
  /\ UNCHANGED <<brokerVars, processVars, storeVars, info, handles, destroyed, spawns, cut>>

\* ... and set later, which the broker refuses while the group has members.
ResetApply ==
  /\ ~destroyed /\ reset.busy
  /\ IF members = {}
     THEN /\ committed' = reset.offsets
          /\ reset' = [busy |-> FALSE, count |-> reset.count + 1, offsets |-> Earliest,
                       skipped |-> reset.skipped \/ reset.offsets # Earliest]
     ELSE /\ reset' = [reset EXCEPT !.busy = FALSE, !.offsets = Earliest]
          /\ UNCHANGED committed
  /\ UNCHANGED <<high, members, rebalancing, owner, pos>>
  /\ UNCHANGED <<processVars, storeVars, info, handles, destroyed, counters>>

-----------------------------------------------------------------------------
Init ==
  /\ high = [p \in Partitions |-> 0]
  /\ committed = [p \in Partitions |-> -1]
  /\ members = {} /\ rebalancing = FALSE
  /\ owner = [p \in Partitions |-> None]
  /\ pos = [p \in Partitions |-> -1]
  /\ cfg \in {o \in Options : Valid(o)}
  /\ proc = [x \in Pids |-> "none"]
  /\ st = [c \in Consumers |-> "off"]
  /\ work = [c \in Consumers |-> Idle]
  /\ processed = [c \in Consumers |-> 0]
  /\ rows = [p \in Partitions |-> [o \in Offsets |-> 0]]
  /\ failed = [p \in Partitions |-> {}]
  /\ info = [x \in Pids |-> "absent"] /\ handles = {} /\ destroyed = FALSE
  /\ reset = [busy |-> FALSE, count |-> 0, offsets |-> Earliest, skipped |-> FALSE]
  /\ spawns = 0 /\ disturbances = 0 /\ cut = {}

\* What the code and the client library do by themselves.
ConsumerStep(c) ==
  \/ Join(c) \/ Rejoin(c)
  \/ \E p \in Partitions : Fetch(c, p)
  \/ PreCommit(c) \/ Process(c) \/ CommitAfter(c)
  \/ CommitRefused(c) \/ CommitCancelled(c)
  \/ LeaveWithoutCommit(c) \/ Disconnect(c) \/ RunCancelled(c)

ProcessStep(x) == ExitProcess(x) \/ CloseReaders(x) \/ ExitEvent(x)

\* What users, operators and slow machines do.
Environment ==
  \/ \E p \in Partitions : Publish(p)
  \/ \E c \in Consumers : Evict(c) \/ CommitFails(c)
  \/ \E x \in Pids : SpawnConsumer(x)
  \/ \E x \in Pids, signal \in {"SIGTERM", "SIGKILL"} : Stop(x, signal)
  \/ \E signal \in {"SIGTERM", "SIGKILL"} : StopAll(signal)
  \/ OnModuleDestroy
  \/ ClearFinished
  \/ \E target \in {"earliest", "latest"} : ResetRead(target)
  \/ ResetApply

Next ==
  \/ \E c \in Consumers : ConsumerStep(c) \/ Expire(c)
  \/ \E x \in Pids : ProcessStep(x)
  \/ Rebalance
  \/ Environment

Spec == Init /\ [][Next]_vars

\* Event loops, goroutines and the coordinator keep going; nobody has to
\* publish, spawn, stop or reset.
FairSpec ==
  /\ Spec
  /\ \A c \in Consumers : WF_vars(ConsumerStep(c))
  /\ WF_vars(\E x \in Pids : ProcessStep(x))
  /\ WF_vars(Rebalance \/ \E c \in Consumers : Expire(c))

-----------------------------------------------------------------------------
(* Properties *)

\* Every variable holds values of its kind; no partition is committed or read
\* past the end of its log, and no consumer goes on past its limit.
TypeOK ==
  /\ high \in [Partitions -> 0..MaxEvents]
  /\ \A p \in Partitions : committed[p] \in -1..high[p]
  /\ \A p \in Partitions : pos[p] \in -1..high[p]
  /\ members \subseteq Consumers /\ rebalancing \in BOOLEAN
  /\ owner \in [Partitions -> Consumers \cup {None}]
  /\ proc \in [Pids -> {"none", "alive", "exiting", "dead"}]
  /\ st \in [Consumers -> {"off", "joining", "run", "closing", "left", "stopped", "done"}]
  /\ \A c \in Consumers : work[c].at \in {"idle", "precommit", "process", "commit", "leave"}
  /\ \A c \in Consumers : cfg.limit > 0 => processed[c] <= cfg.limit
  /\ info \in [Pids -> {"absent", "alive", "finished"}] /\ handles \subseteq Pids

Handled(p, o) == rows[p][o] > 0 \/ o \in failed[p]

\* before-process on Node is at-most-once: however often consumers are killed,
\* evicted, restarted or added, an event gets a second row only by a reset.
AtMostOnce ==
  IsNode /\ Before =>
    \A p \in Partitions, o \in Offsets : rows[p][o] <= 1 + reset.count

\* An event is processed again only if a consumer was cut off with it in hand
\* or could not commit it: joins, rebalances and graceful stops hand partitions
\* over without repeats.
DuplicatesWereCut ==
  \A p \in Partitions, o \in Offsets :
    <<p, o>> \notin cut => rows[p][o] <= 1 + reset.count

\* before-process loses only events a consumer was cut off with, or whose
\* commit was stored but reported as failed.
LossWasCut ==
  Before /\ cfg.fromBeginning /\ ~reset.skipped =>
    \A p \in Partitions : \A o \in 0..(committed[p] - 1) :
      Handled(p, o) \/ <<p, o>> \in cut \cup InHand(Consumers)

\* after-process, read from the beginning: the lag topicLag() reports never
\* hides an event that nobody has handled.
LagNeverHidesEvents ==
  ~Before /\ cfg.fromBeginning /\ ~reset.skipped =>
    \A p \in Partitions :
      Cardinality({o \in 0..(high[p] - 1) : ~Handled(p, o)}) <= Lag(p)

\* The manager holds a handle exactly for the children it has not seen exit, so
\* stop() cannot signal a stranger and no child is forgotten.
HandlesAreChildren ==
  IsNode => /\ handles = {x \in Pids : proc[x] # "none"}
            /\ handles = {x \in Pids : info[x] = "alive"}

\* A step that moves a partition's position past handled events only.
PassesHandled ==
  \A p \in Partitions : pos[p] >= 0 =>
    \A o \in pos[p]..(pos'[p] - 1) : Handled(p, o)

\* The documented at-least-once: in after-process mode no event that the group
\* has yet to read is passed over, except by a reset to the latest offsets.
AtLeastOnce == [][~Before /\ ~reset.skipped => PassesHandled]_vars

\* ... and where it holds: when partitions without a commit are read from the
\* beginning.
AtLeastOnceFromBeginning ==
  [][~Before /\ ~reset.skipped /\ cfg.fromBeginning => PassesHandled]_vars

\* A Node group in which somebody keeps running reads everything: partitions of
\* killed, evicted and departed consumers are taken over.
EventuallyRead ==
  IsNode /\ <>[](\E c \in Consumers : st[c] = "run")
    => <>[](\A p \in Partitions : pos[p] = high[p])

\* onModuleDestroy leaves no orphan: every child ends.
NoOrphans == destroyed ~> \A x \in Pids : proc[x] = "none"

\* What may be processed twice, whatever happens to consumers and processes.
RepeatsExplained == AtMostOnce /\ DuplicatesWereCut

\* What may go unhandled: before-process loses what was cut off in hand,
\* after-process shows the rest as lag.
LossExplained == LossWasCut /\ LagNeverHidesEvents

\* Broker, processes and manager agree on who is there.
ManagerConsistent == TypeOK /\ HandlesAreChildren
=============================================================================
