------------------------ MODULE OrderConsumerProofs -------------------------
(***************************************************************************)
(* Invariance proofs for OrderConsumer, for every set of processes,          *)
(* partitions and options, any number of consumers, and any bounds on        *)
(* events, spawns and disturbances.                                          *)
(***************************************************************************)
EXTENDS OrderConsumer, FiniteSetTheorems, TLAPS

-----------------------------------------------------------------------------
(* Types, and the lives of consumers and processes *)

States == {"off", "joining", "run", "closing", "left", "stopped", "done"}
Lifes  == {"none", "alive", "exiting", "dead"}
Jobs   == [at : {"precommit", "process", "commit", "leave"},
           part : Partitions, offset : Int]

Typed ==
  /\ cfg \in Options /\ Valid(cfg)
  /\ high \in [Partitions -> Nat]
  /\ committed \in [Partitions -> Int]
  /\ pos \in [Partitions -> Int]
  /\ members \subseteq Consumers
  /\ owner \in [Partitions -> Consumers \cup {None}]
  /\ proc \in [Pids -> Lifes]
  /\ st \in [Consumers -> States]
  /\ work \in [Consumers -> Jobs \cup {Idle}]
  /\ processed \in [Consumers -> Nat]
  /\ rows \in [Partitions -> [Offsets -> Nat]]
  /\ failed \in [Partitions -> SUBSET Int]
  /\ info \in [Pids -> {"absent", "alive", "finished"}]
  /\ handles \subseteq Pids
  /\ reset \in [busy : BOOLEAN, count : Nat, offsets : [Partitions -> Nat],
                skipped : BOOLEAN]

\* A consumer works only while isRunning(), is off while its process is not up,
\* and never starts beyond `instances`; the modes have their own steps.
Lives ==
  \A c \in Consumers :
    /\ ~Up(c) => st[c] = "off"
    /\ work[c] # Idle => Running(c)
    /\ c \notin Instances(c[1]) => st[c] = "off"
    /\ Before => work[c].at # "commit"
    /\ ~Before => work[c].at # "precommit"

\* A consumer that has reached its limit is on its way out.
Limits ==
  cfg.limit > 0 =>
    \A c \in Consumers :
      /\ processed[c] <= cfg.limit
      /\ processed[c] = cfg.limit =>
           /\ st[c] \notin {"off", "joining"}
           /\ Running(c) => \/ work[c].at = "leave"
                            \/ work[c].at = "commit" /\ ~IsNode

\* Of the option and consumer types.
LEMMA ConsumerFacts ==
  ASSUME Typed
  PROVE  /\ cfg.limit \in Int /\ cfg.instances \in Int
         /\ None \notin Consumers
         /\ Idle \notin Jobs
         /\ \A c \in Consumers : c[1] \in Pids
         /\ \A c \in Consumers : work[c] # Idle =>
              /\ work[c] \in Jobs
              /\ work[c].part \in Partitions /\ work[c].offset \in Int
         /\ \A c \in Consumers : work[c] # Idle <=> work[c].at # "idle"
  <1>1. cfg.limit \in Int /\ cfg.instances \in Int
    BY ConsumerAssumption DEF Typed
  <1>2. None \notin Consumers /\ \A c \in Consumers : c[1] \in Pids
    BY DEF None, Consumers
  <1>3. Idle \notin Jobs
    BY ConsumerAssumption DEF Idle, Jobs
  <1>4. \A c \in Consumers : work[c] # Idle => work[c] \in Jobs
    BY DEF Typed
  <1>5. Idle.at = "idle" /\ \A j \in Jobs :
          j.at # "idle" /\ j.part \in Partitions /\ j.offset \in Int
    BY DEF Idle, Jobs
  <1>6. QED
    BY <1>1, <1>2, <1>3, <1>4, <1>5

LivesInv == Typed /\ Lives /\ Limits /\ HandlesAreChildren


\* What the broker, the manager and the inspector do leaves consumers alone.
LEMMA StillLives ==
  ASSUME LivesInv, UNCHANGED <<processVars, storeVars, handles>>,
         high' \in [Partitions -> Nat],
         committed' \in [Partitions -> Int],
         pos' = pos,
         members' \subseteq Consumers,
         owner' \in [Partitions -> Consumers \cup {None}],
         info' \in [Pids -> {"absent", "alive", "finished"}],
         \A x \in Pids : info'[x] = "alive" <=> info[x] = "alive",
         reset' \in [busy : BOOLEAN, count : Nat, offsets : [Partitions -> Nat],
                     skipped : BOOLEAN]
  PROVE  LivesInv'
  <1>1. Typed'
    BY DEF LivesInv, Typed, processVars, storeVars, Valid
  <1>2. Lives' /\ Limits'
    BY DEF LivesInv, Lives, Limits, processVars, Up, Running, Instances, Before, IsNode
  <1>3. HandlesAreChildren'
    BY DEF LivesInv, HandlesAreChildren, processVars, IsNode
  <1>4. QED
    BY <1>1, <1>2, <1>3 DEF LivesInv

\* A step of one consumer, whose process may begin to exit.
LEMMA ConsumerLives ==
  ASSUME LivesInv, NEW c \in Consumers, Up(c),
         UNCHANGED <<cfg, high, info, handles, reset>>,
         committed' \in [Partitions -> Int],
         pos' \in [Partitions -> Int],
         members' \subseteq Consumers,
         owner' \in [Partitions -> Consumers \cup {None}],
         rows' \in [Partitions -> [Offsets -> Nat]],
         failed' \in [Partitions -> SUBSET Int],
         proc' = proc \/ proc' = [proc EXCEPT ![c[1]] = "exiting"],
         st' \in [Consumers -> States],
         work' \in [Consumers -> Jobs \cup {Idle}],
         processed' \in [Consumers -> Nat],
         \A d \in Consumers \ {c} :
           st'[d] = st[d] /\ work'[d] = work[d] /\ processed'[d] = processed[d],
         work'[c] # Idle => Running(c)',
         c \notin Instances(c[1]) => st'[c] = "off",
         Before => work'[c].at # "commit",
         ~Before => work'[c].at # "precommit",
         cfg.limit > 0 =>
           /\ processed'[c] <= cfg.limit
           /\ processed'[c] = cfg.limit =>
                /\ st'[c] \notin {"off", "joining"}
                /\ Running(c)' => \/ work'[c].at = "leave"
                                  \/ work'[c].at = "commit" /\ ~IsNode
  PROVE  LivesInv'
  <1>1. c[1] \in Pids /\ proc[c[1]] \in {"alive", "exiting"}
    BY ConsumerFacts DEF LivesInv, Up
  <1>2. /\ proc' \in [Pids -> Lifes]
        /\ \A x \in Pids : proc'[x] = proc[x]
                            \/ {proc[x], proc'[x]} \subseteq {"alive", "exiting"}
    BY <1>1 DEF LivesInv, Typed, Lifes
  <1>3. Typed'
    BY <1>2 DEF LivesInv, Typed, Valid
  <1>4. \A d \in Consumers : Up(d)' <=> Up(d)
    BY <1>2, ConsumerFacts DEF LivesInv, Up
  <1>5. \A d \in Consumers : Instances(d[1])' = Instances(d[1])
    BY DEF Instances
  <1>6. (Before' <=> Before) /\ (IsNode' <=> IsNode)
    BY DEF Before, IsNode
  <1>7. Lives'
    BY <1>4, <1>5, <1>6 DEF LivesInv, Lives, Running
  <1>8. Limits'
    BY <1>6 DEF LivesInv, Limits, Running
  <1>9. HandlesAreChildren'
    BY <1>2, <1>6 DEF LivesInv, HandlesAreChildren, Typed
  <1>10. QED
    BY <1>3, <1>7, <1>8, <1>9 DEF LivesInv

\* A change of the group keeps the types.
LEMMA GroupTyped ==
  ASSUME Typed, NEW m \in SUBSET Consumers, GroupChange(m)
  PROVE  /\ members' = m
         /\ owner' \in [Partitions -> Consumers \cup {None}]
         /\ \A p \in Partitions : owner'[p] = IF owner[p] \in m THEN owner[p] ELSE None
  BY DEF Typed, GroupChange

\* The handler's return keeps the types.
LEMMA FinishTyped ==
  ASSUME Typed, NEW c \in Consumers, work[c] # Idle, NEW n, Finish(c, n)
  PROVE  /\ work' \in [Consumers -> Jobs \cup {Idle}]
         /\ pos' \in [Partitions -> Int]
         /\ st' \in [Consumers -> States]
         /\ work'[c] = Idle
         /\ \A d \in Consumers \ {c} : st'[d] = st[d] /\ work'[d] = work[d]
         /\ st'[c] = IF ~IsNode /\ LimitReached(n) THEN "done" ELSE st[c]
  <1>1. work[c].part \in Partitions /\ work[c].offset + 1 \in Int
    BY ConsumerFacts
  <1>2. work' = [work EXCEPT ![c] = Idle]
    BY DEF Finish
  <1>3. pos' \in [Partitions -> Int]
    BY <1>1 DEF Typed, Finish
  <1>4. /\ st' \in [Consumers -> States]
        /\ \A d \in Consumers \ {c} : st'[d] = st[d]
        /\ st'[c] = IF ~IsNode /\ LimitReached(n) THEN "done" ELSE st[c]
    BY DEF Typed, Finish, States
  <1>5. QED
    BY <1>2, <1>3, <1>4 DEF Typed

\* Joining, leaving and stopping.
LEMMA MembershipLives ==
  ASSUME LivesInv, NEW c \in Consumers,
         Join(c) \/ LeaveWithoutCommit(c) \/ Disconnect(c) \/ RunCancelled(c)
         \/ CommitRefused(c) \/ CommitFails(c)
  PROVE  LivesInv'
  <1> USE DEF LivesInv
  <1>1. /\ c[1] \in Pids /\ Idle \in Jobs \cup {Idle} /\ Idle.at = "idle"
        /\ \A d \in Consumers : work[d].at # "idle" => work[d] # Idle
    BY ConsumerFacts DEF Idle
  <1>2. \A S \in {members \cup {c}, members \ {c}} : S \in SUBSET Consumers
    BY DEF Typed
  <1>3. CASE Join(c)
    <2>1. /\ members' \subseteq Consumers
          /\ owner' \in [Partitions -> Consumers \cup {None}]
      BY <1>2, <1>3, GroupTyped DEF Join
    <2>2. /\ Up(c) /\ c \in Instances(c[1]) /\ work[c] = Idle
          /\ st' = [st EXCEPT ![c] = "joining"]
          /\ UNCHANGED <<cfg, high, info, handles, reset, committed, pos, rows, failed,
                         proc, work, processed>>
      BY <1>3 DEF Join, Lives, Running, storeVars, managerVars
    <2>3. st' \in [Consumers -> States] /\ st'[c] = "joining"
          /\ \A d \in Consumers \ {c} : st'[d] = st[d]
      BY <2>2 DEF Typed, States
    <2>4. cfg.limit > 0 => processed[c] <= cfg.limit /\ processed[c] # cfg.limit
      BY <1>3 DEF Limits, Join
    <2>5. QED
      BY <1>1, <2>1, <2>2, <2>3, <2>4, ConsumerLives DEF Typed, Running
  <1>4. CASE LeaveWithoutCommit(c)
    <2>1. /\ members' \subseteq Consumers
          /\ owner' \in [Partitions -> Consumers \cup {None}]
      BY <1>2, <1>4, GroupTyped DEF LeaveWithoutCommit, Typed
    <2>2. /\ Up(c) /\ work[c] # Idle
          /\ st' = [st EXCEPT ![c] = "left"]
          /\ work' = [work EXCEPT ![c] = Idle]
          /\ proc' = proc \/ proc' = [proc EXCEPT ![c[1]] = "exiting"]
          /\ UNCHANGED <<cfg, high, info, handles, reset, committed, pos, rows, failed,
                         processed>>
      BY <1>1, <1>4 DEF LeaveWithoutCommit, storeVars, managerVars
    <2>3. /\ st' \in [Consumers -> States] /\ st'[c] = "left"
          /\ work' \in [Consumers -> Jobs \cup {Idle}] /\ work'[c] = Idle
          /\ \A d \in Consumers \ {c} : st'[d] = st[d] /\ work'[d] = work[d]
      BY <2>2 DEF Typed, States
    <2>4. c \in Instances(c[1])
      BY <2>2 DEF Lives, Running
    <2>5. QED
      BY <1>1, <2>1, <2>2, <2>3, <2>4, ConsumerLives DEF Typed, Running, Limits
  <1>5. CASE Disconnect(c)
    <2>1. /\ members' \subseteq Consumers
          /\ owner' \in [Partitions -> Consumers \cup {None}]
      BY <1>2, <1>5, GroupTyped DEF Disconnect, Typed
    <2>2. /\ Up(c) /\ work[c] = Idle /\ st[c] = "closing"
          /\ st' = [st EXCEPT ![c] = "stopped"]
          /\ UNCHANGED <<cfg, high, info, handles, reset, committed, pos, rows, failed,
                         proc, work, processed>>
      BY <1>5 DEF Disconnect, storeVars, managerVars
    <2>3. /\ st' \in [Consumers -> States] /\ st'[c] = "stopped"
          /\ \A d \in Consumers \ {c} : st'[d] = st[d]
      BY <2>2 DEF Typed, States
    <2>4. c \in Instances(c[1])
      BY <2>2 DEF Lives
    <2>5. QED
      BY <1>1, <2>1, <2>2, <2>3, <2>4, ConsumerLives DEF Typed, Running, Limits
  <1>6. CASE RunCancelled(c)
    <2>1. /\ Up(c) /\ work[c] = Idle /\ c \in Instances(c[1])
          /\ st' = [st EXCEPT ![c] = "done"]
          /\ UNCHANGED <<cfg, high, info, handles, reset, committed, pos, rows, failed,
                         members, owner, proc, work, processed>>
      BY <1>6 DEF RunCancelled, Up, brokerVars, storeVars, managerVars
    <2>2. /\ st' \in [Consumers -> States] /\ st'[c] = "done"
          /\ \A d \in Consumers \ {c} : st'[d] = st[d]
      BY <2>1 DEF Typed, States
    <2>3. QED
      BY <1>1, <2>1, <2>2, ConsumerLives DEF Typed, Running, Limits
  <1>7. CASE CommitRefused(c)
    <2>1. /\ Up(c) /\ work[c] # Idle /\ work[c].at \in {"precommit", "commit"}
          /\ st' = IF IsNode THEN st ELSE [st EXCEPT ![c] = "done"]
          /\ work' = [work EXCEPT ![c] = Idle]
          /\ UNCHANGED <<cfg, high, info, handles, reset, committed, pos, rows, failed,
                         members, owner, proc, processed>>
      BY <1>1, <1>7 DEF CommitRefused, brokerVars, storeVars, managerVars
    <2>2. /\ st' \in [Consumers -> States]
          /\ st'[c] = IF IsNode THEN st[c] ELSE "done"
          /\ work' \in [Consumers -> Jobs \cup {Idle}] /\ work'[c] = Idle
          /\ \A d \in Consumers \ {c} : st'[d] = st[d] /\ work'[d] = work[d]
      BY <2>1 DEF Typed, States
    <2>3. c \in Instances(c[1]) /\ Running(c)
      BY <2>1 DEF Lives, Running
    <2>4. cfg.limit > 0 =>
            /\ processed[c] <= cfg.limit
            /\ processed[c] = cfg.limit => st'[c] = "done"
      BY <2>1, <2>2, <2>3 DEF Limits
    <2>5. QED
      BY <1>1, <2>1, <2>2, <2>3, <2>4, ConsumerLives DEF Typed, Running
  <1>8. CASE CommitFails(c)
    <2>1. /\ Up(c) /\ work[c] # Idle /\ work[c].at \in {"precommit", "commit"}
          /\ st' = IF IsNode THEN st ELSE [st EXCEPT ![c] = "done"]
          /\ work' = [work EXCEPT ![c] = Idle]
          /\ Commit(c) \/ committed' = committed
          /\ UNCHANGED <<cfg, high, info, handles, reset, pos, rows, failed,
                         members, owner, proc, processed>>
      BY <1>1, <1>8 DEF CommitFails, storeVars, managerVars
    <2>2. /\ st' \in [Consumers -> States]
          /\ st'[c] = IF IsNode THEN st[c] ELSE "done"
          /\ work' \in [Consumers -> Jobs \cup {Idle}] /\ work'[c] = Idle
          /\ \A d \in Consumers \ {c} : st'[d] = st[d] /\ work'[d] = work[d]
      BY <2>1 DEF Typed, States
    <2>3. c \in Instances(c[1]) /\ Running(c)
      BY <2>1 DEF Lives, Running
    <2>4. cfg.limit > 0 =>
            /\ processed[c] <= cfg.limit
            /\ processed[c] = cfg.limit => st'[c] = "done"
      BY <2>1, <2>2, <2>3 DEF Limits
    <2>5. committed' \in [Partitions -> Int]
      <3>1. work[c].part \in Partitions /\ work[c].offset + 1 \in Int
        BY <2>1, ConsumerFacts
      <3>2. QED
        BY <2>1, <3>1 DEF Commit, Typed
    <2>6. QED
      BY <1>1, <2>1, <2>2, <2>3, <2>4, <2>5, ConsumerLives DEF Typed, Running
  <1>9. QED
    BY <1>3, <1>4, <1>5, <1>6, <1>7, <1>8

\* The steps of the handler.
LEMMA HandlerLives ==
  ASSUME LivesInv, NEW c \in Consumers,
         (\E p \in Partitions : Fetch(c, p)) \/ PreCommit(c) \/ CommitAfter(c)
         \/ CommitCancelled(c)
  PROVE  LivesInv'
  <1> USE DEF LivesInv
  <1>1. /\ Idle.at = "idle" /\ Idle \notin Jobs
        /\ \A d \in Consumers : work[d].at # "idle" => work[d] # Idle
        /\ work[c] # Idle => work[c] \in Jobs /\ work[c].part \in Partitions
                              /\ work[c].offset + 1 \in Int
    BY ConsumerFacts DEF Idle
  <1>2. ASSUME NEW p \in Partitions, Fetch(c, p)
        PROVE  LivesInv'
    <2> DEFINE j == [at |-> IF Before THEN "precommit" ELSE "process",
                     part |-> p, offset |-> pos[p]]
    <2>1. /\ Up(c) /\ work[c] = Idle /\ st[c] = "run"
          /\ work' = [work EXCEPT ![c] = j]
          /\ UNCHANGED <<cfg, high, info, handles, reset, committed, pos, rows, failed,
                         members, owner, proc, st, processed>>
      BY <1>2 DEF Fetch, brokerVars, storeVars, managerVars
    <2>2. j \in Jobs /\ j.at # "commit" /\ (~Before => j.at = "process")
      BY DEF Jobs, Typed
    <2> HIDE DEF j
    <2>3. /\ work' \in [Consumers -> Jobs \cup {Idle}] /\ work'[c] = j
          /\ \A d \in Consumers \ {c} : work'[d] = work[d]
      BY <2>1, <2>2 DEF Typed
    <2>4. c \in Instances(c[1]) /\ Running(c)
      BY <2>1 DEF Lives, Running
    <2>5. cfg.limit > 0 => processed[c] <= cfg.limit /\ processed[c] # cfg.limit
      BY <1>1, <2>1, <2>4 DEF Limits
    <2>6. QED
      BY <2>1, <2>2, <2>3, <2>4, <2>5, ConsumerLives DEF Typed, Running
  <1>3. CASE PreCommit(c)
    <2>1. /\ Up(c) /\ work[c] # Idle /\ work[c].at = "precommit"
          /\ work' = [work EXCEPT ![c].at = "process"]
          /\ committed' = [committed EXCEPT ![work[c].part] = work[c].offset + 1]
          /\ UNCHANGED <<cfg, high, info, handles, reset, pos, rows, failed,
                         members, owner, proc, st, processed>>
      BY <1>1, <1>3 DEF PreCommit, Commit, storeVars, managerVars
    <2>2. [work[c] EXCEPT !.at = "process"] \in Jobs
      BY <1>1, <2>1 DEF Jobs
    <2>3. /\ work' \in [Consumers -> Jobs \cup {Idle}]
          /\ work'[c] = [work[c] EXCEPT !.at = "process"]
          /\ \A d \in Consumers \ {c} : work'[d] = work[d]
      BY <2>1, <2>2 DEF Typed
    <2>4. work'[c].at = "process"
      BY <1>1, <2>1, <2>3 DEF Jobs
    <2>5. committed' \in [Partitions -> Int]
      BY <1>1, <2>1 DEF Typed
    <2>6. c \in Instances(c[1]) /\ Running(c)
      BY <2>1 DEF Lives, Running
    <2>7. cfg.limit > 0 => processed[c] <= cfg.limit /\ processed[c] # cfg.limit
      BY <2>1, <2>6 DEF Limits
    <2>8. QED
      BY <2>1, <2>3, <2>4, <2>5, <2>6, <2>7, ConsumerLives DEF Typed, Running
  <1>4. CASE CommitAfter(c)
    <2>1. /\ Up(c) /\ work[c] # Idle /\ work[c].at = "commit"
          /\ Finish(c, processed[c])
          /\ committed' = [committed EXCEPT ![work[c].part] = work[c].offset + 1]
          /\ UNCHANGED <<cfg, high, info, handles, reset, rows, failed,
                         members, owner, proc, processed>>
      BY <1>1, <1>4 DEF CommitAfter, Commit, storeVars, managerVars
    <2>2. committed' \in [Partitions -> Int]
      BY <1>1, <2>1 DEF Typed
    <2>3. c \in Instances(c[1]) /\ Running(c)
      BY <2>1 DEF Lives, Running
    <2>4. /\ work' \in [Consumers -> Jobs \cup {Idle}]
          /\ pos' \in [Partitions -> Int]
          /\ st' \in [Consumers -> States]
          /\ work'[c] = Idle
          /\ \A d \in Consumers \ {c} : st'[d] = st[d] /\ work'[d] = work[d]
          /\ st'[c] = IF ~IsNode /\ LimitReached(processed[c]) THEN "done" ELSE st[c]
      BY <2>1, FinishTyped
    <2>5. cfg.limit > 0 =>
            /\ processed[c] <= cfg.limit
            /\ processed[c] = cfg.limit => st'[c] = "done"
      <3>1. cfg.limit \in Int /\ processed[c] \in Nat
        BY ConsumerFacts DEF Typed
      <3>2. QED
        BY <2>1, <2>3, <2>4, <3>1 DEF Limits, LimitReached
    <2>6. QED
      BY <1>1, <2>1, <2>2, <2>3, <2>4, <2>5, ConsumerLives DEF Typed, Running
  <1>5. CASE CommitCancelled(c)
    <2>1. /\ Up(c) /\ work[c] # Idle /\ ~IsNode
          /\ UNCHANGED <<cfg, high, committed, info, handles, reset, rows, failed,
                         members, owner, proc, processed>>
      BY <1>1, <1>5 DEF CommitCancelled, Up, storeVars, managerVars
    <2>2. c \in Instances(c[1]) /\ Running(c)
      BY <2>1 DEF Lives, Running
    <2>3. CASE work[c].at = "precommit"
      <3>1. work' = [work EXCEPT ![c].at = "process"] /\ UNCHANGED <<pos, st>>
        BY <1>5, <2>3 DEF CommitCancelled
      <3>2. [work[c] EXCEPT !.at = "process"] \in Jobs
        BY <1>1, <2>1 DEF Jobs
      <3>3. /\ work' \in [Consumers -> Jobs \cup {Idle}]
            /\ work'[c] = [work[c] EXCEPT !.at = "process"]
            /\ \A d \in Consumers \ {c} : work'[d] = work[d]
        BY <3>1, <3>2 DEF Typed
      <3>4. work'[c].at = "process"
        BY <1>1, <2>1, <3>3 DEF Jobs
      <3>5. cfg.limit > 0 => processed[c] <= cfg.limit /\ processed[c] # cfg.limit
        BY <2>2, <2>3 DEF Limits
      <3>6. QED
        BY <2>1, <2>2, <3>1, <3>3, <3>4, <3>5, ConsumerLives DEF Typed, Running
    <2>4. CASE work[c].at = "commit"
      <3>1. Finish(c, processed[c])
        BY <1>5, <2>4 DEF CommitCancelled
      <3>2. /\ work' \in [Consumers -> Jobs \cup {Idle}]
            /\ pos' \in [Partitions -> Int]
            /\ st' \in [Consumers -> States]
            /\ work'[c] = Idle
            /\ \A d \in Consumers \ {c} : st'[d] = st[d] /\ work'[d] = work[d]
            /\ st'[c] = IF ~IsNode /\ LimitReached(processed[c]) THEN "done" ELSE st[c]
        BY <2>1, <3>1, FinishTyped
      <3>3. cfg.limit > 0 =>
              /\ processed[c] <= cfg.limit
              /\ processed[c] = cfg.limit => st'[c] = "done"
        <4>1. cfg.limit \in Int /\ processed[c] \in Nat
          BY ConsumerFacts DEF Typed
        <4>2. QED
          BY <2>1, <2>2, <2>4, <3>2, <4>1 DEF Limits, LimitReached
      <3>4. QED
        BY <1>1, <2>1, <2>2, <3>2, <3>3, ConsumerLives DEF Typed, Running
    <2>5. QED
      BY <1>5, <2>3, <2>4 DEF CommitCancelled
  <1>6. QED
    BY <1>2, <1>3, <1>4, <1>5

\* Adding one to one value of a function to the naturals.
LEMMA CountUp ==
  ASSUME NEW D, NEW f \in [D -> Nat], NEW o
  PROVE  [f EXCEPT ![o] = @ + 1] \in [D -> Nat]
  <1>1. CASE o \in D
    BY <1>1
  <1>2. CASE o \notin D
    <2>1. [f EXCEPT ![o] = @ + 1] = f
      BY <1>2
    <2>2. QED
      BY <2>1
  <1>3. QED
    BY <1>1, <1>2

\* What process() does to the consumer that runs it; n is stats.processed after.
LEMMA ProcessEffect ==
  ASSUME LivesInv, NEW c \in Consumers, Process(c)
  PROVE  LET n == processed'[c] IN
         /\ Up(c) /\ work[c] # Idle /\ work[c].at = "process"
         /\ UNCHANGED <<cfg, high, committed, members, rebalancing, owner, proc, info,
                        handles, destroyed, reset, cut>>
         /\ rows' \in [Partitions -> [Offsets -> Nat]]
         /\ failed' \in [Partitions -> SUBSET Int]
         /\ \/ /\ rows' = [rows EXCEPT ![work[c].part][work[c].offset] = @ + 1]
               /\ failed' = failed
            \/ /\ failed' = [failed EXCEPT ![work[c].part] = @ \cup {work[c].offset}]
               /\ rows' = rows
         /\ processed' \in [Consumers -> Nat]
         /\ \A d \in Consumers \ {c} : processed'[d] = processed[d]
         /\ cfg.limit > 0 => n <= cfg.limit
         /\ IF NextStep(n) = "finish" THEN Finish(c, n)
            ELSE /\ work' = [work EXCEPT ![c].at = NextStep(n)]
                 /\ UNCHANGED <<pos, st>>
  <1> USE DEF LivesInv
  <1>1. /\ Up(c) /\ work[c].at = "process"
        /\ UNCHANGED <<cfg, high, committed, members, rebalancing, owner, proc, info,
                       handles, destroyed, reset, cut>>
    BY DEF Process, managerVars, counters
  <1>2. work[c] # Idle /\ work[c].part \in Partitions /\ work[c].offset \in Int
    BY <1>1, ConsumerFacts DEF Idle
  <1>3. Running(c) /\ cfg.limit \in Int /\ processed[c] \in Nat
    BY <1>2, ConsumerFacts DEF Lives, Typed
  <1>4. cfg.limit > 0 => processed[c] <= cfg.limit /\ processed[c] # cfg.limit
    BY <1>1, <1>3 DEF Limits
  <1>5. CASE /\ rows' = [rows EXCEPT ![work[c].part][work[c].offset] = @ + 1]
             /\ processed' = [processed EXCEPT ![c] = Count(@)]
             /\ failed' = failed
             /\ IF NextStep(Count(processed[c])) = "finish"
                THEN Finish(c, Count(processed[c]))
                ELSE /\ work' = [work EXCEPT ![c].at = NextStep(Count(processed[c]))]
                     /\ UNCHANGED <<pos, st>>
    <2>1. Count(processed[c]) \in Nat
      BY <1>3 DEF Count
    <2>2. /\ processed' \in [Consumers -> Nat] /\ processed'[c] = Count(processed[c])
          /\ \A d \in Consumers \ {c} : processed'[d] = processed[d]
      BY <1>5, <2>1 DEF Typed
    <2>3. cfg.limit > 0 => processed'[c] <= cfg.limit
      BY <1>3, <1>4, <2>2 DEF Count
    <2>4. rows' \in [Partitions -> [Offsets -> Nat]]
      <3> DEFINE row == [rows[work[c].part] EXCEPT ![work[c].offset] = @ + 1]
      <3>1. rows[work[c].part] \in [Offsets -> Nat]
        BY <1>2 DEF Typed
      <3>2. row \in [Offsets -> Nat]
        BY <3>1, CountUp
      <3>3. rows' = [rows EXCEPT ![work[c].part] = row]
        BY <1>5
      <3> HIDE DEF row
      <3>4. QED
        BY <1>2, <3>2, <3>3 DEF Typed
    <2>5. failed' \in [Partitions -> SUBSET Int]
      BY <1>5 DEF Typed
    <2>6. QED
      BY <1>1, <1>2, <1>5, <2>2, <2>3, <2>4, <2>5
  <1>6. CASE /\ failed' = [failed EXCEPT ![work[c].part] = @ \cup {work[c].offset}]
             /\ UNCHANGED <<rows, processed>>
             /\ IF NextStep(processed[c]) = "finish"
                THEN Finish(c, processed[c])
                ELSE /\ work' = [work EXCEPT ![c].at = NextStep(processed[c])]
                     /\ UNCHANGED <<pos, st>>
    <2>1. failed' \in [Partitions -> SUBSET Int]
      BY <1>2, <1>6 DEF Typed
    <2>2. QED
      BY <1>1, <1>2, <1>4, <1>6, <2>1 DEF Typed
  <1>7. QED
    BY <1>5, <1>6 DEF Process

LEMMA ProcessLives ==
  ASSUME LivesInv, NEW c \in Consumers, Process(c)
  PROVE  LivesInv'
  <1> USE DEF LivesInv
  <1> DEFINE n == processed'[c]
  <1>1. /\ Up(c) /\ work[c] # Idle /\ work[c].at = "process"
        /\ UNCHANGED <<cfg, high, committed, members, owner, proc, info, handles, reset>>
        /\ rows' \in [Partitions -> [Offsets -> Nat]]
        /\ failed' \in [Partitions -> SUBSET Int]
        /\ processed' \in [Consumers -> Nat]
        /\ \A d \in Consumers \ {c} : processed'[d] = processed[d]
        /\ cfg.limit > 0 => n <= cfg.limit
        /\ IF NextStep(n) = "finish" THEN Finish(c, n)
           ELSE /\ work' = [work EXCEPT ![c].at = NextStep(n)]
                /\ UNCHANGED <<pos, st>>
    BY ProcessEffect
  <1>2. /\ n \in Nat /\ cfg.limit \in Int /\ work[c] \in Jobs /\ Idle.at = "idle"
        /\ c \in Instances(c[1]) /\ Running(c)
    BY <1>1, ConsumerFacts DEF Lives, Running, Idle
  <1> HIDE DEF n
  <1>3. CASE NextStep(n) = "finish"
    <2>1. /\ work' \in [Consumers -> Jobs \cup {Idle}]
          /\ pos' \in [Partitions -> Int]
          /\ st' \in [Consumers -> States]
          /\ work'[c] = Idle
          /\ \A d \in Consumers \ {c} : st'[d] = st[d] /\ work'[d] = work[d]
          /\ st'[c] = IF ~IsNode /\ LimitReached(n) THEN "done" ELSE st[c]
      BY <1>1, <1>3, FinishTyped
    <2>2. cfg.limit > 0 => (n = cfg.limit => st'[c] = "done")
      BY <1>2, <1>3, <2>1 DEF NextStep, LimitReached
    <2>3. QED
      BY <1>1, <1>2, <2>1, <2>2, ConsumerLives DEF Typed, Running, n
  <1>4. CASE NextStep(n) # "finish"
    <2>1. work' = [work EXCEPT ![c].at = NextStep(n)] /\ UNCHANGED <<pos, st>>
      BY <1>1, <1>4
    <2>2. /\ NextStep(n) \in {"leave", "commit"}
          /\ Before => NextStep(n) = "leave"
          /\ cfg.limit > 0 /\ n = cfg.limit =>
               NextStep(n) = "leave" \/ (NextStep(n) = "commit" /\ ~IsNode)
      <3>1. NextStep(n) \in {"leave", "commit"} /\ (Before => NextStep(n) = "leave")
        BY <1>4 DEF NextStep
      <3>2. cfg.limit > 0 /\ n = cfg.limit => LimitReached(n)
        BY <1>2 DEF LimitReached
      <3>3. ASSUME LimitReached(n)
            PROVE  NextStep(n) = "leave" \/ (NextStep(n) = "commit" /\ ~IsNode)
        <4>1. CASE IsNode
          BY <3>3, <4>1 DEF NextStep
        <4>2. CASE ~IsNode
          BY <3>1, <4>2
        <4>3. QED
          BY <4>1, <4>2
      <3>4. QED
        BY <3>1, <3>2, <3>3
    <2>3. [work[c] EXCEPT !.at = NextStep(n)] \in Jobs
      BY <1>2, <2>2 DEF Jobs
    <2>4. /\ work' \in [Consumers -> Jobs \cup {Idle}]
          /\ work'[c] = [work[c] EXCEPT !.at = NextStep(n)]
          /\ \A d \in Consumers \ {c} : work'[d] = work[d]
      BY <2>1, <2>3 DEF Typed
    <2>5. work'[c].at = NextStep(n)
      BY <1>2, <2>4 DEF Jobs
    <2>6. QED
      BY <1>1, <1>2, <2>1, <2>2, <2>4, <2>5, ConsumerLives DEF Typed, Running, n
  <1>5. QED
    BY <1>3, <1>4

\* A step that ends some processes, and moves other consumers on.
LEMMA WholeProcessLives ==
  ASSUME LivesInv, UNCHANGED <<cfg, high, committed, rows, failed, reset>>,
         pos' \in [Partitions -> Int],
         members' \subseteq Consumers,
         owner' \in [Partitions -> Consumers \cup {None}],
         proc' \in [Pids -> Lifes],
         info' \in [Pids -> {"absent", "alive", "finished"}],
         handles' \subseteq Pids,
         st' \in [Consumers -> States],
         work' \in [Consumers -> Jobs \cup {Idle}],
         processed' \in [Consumers -> Nat],
         \A c \in Consumers :
           \/ st'[c] = "off" /\ work'[c] = Idle /\ processed'[c] = 0
           \/ /\ work'[c] = work[c] /\ processed'[c] = processed[c]
              /\ Up(c) => Up(c)'
              /\ \/ st'[c] = st[c]
                 \/ st[c] = "run" /\ st'[c] = "closing" /\ Up(c)'
                 \/ st[c] = "joining" /\ st'[c] = "run" /\ Up(c)',
         HandlesAreChildren'
  PROVE  LivesInv'
  <1> USE DEF LivesInv
  <1>1. Typed'
    BY DEF Typed, Valid
  <1>2. (Before' <=> Before) /\ (IsNode' <=> IsNode)
        /\ \A c \in Consumers : Instances(c[1])' = Instances(c[1])
    BY DEF Before, IsNode, Instances
  <1>3. Idle.at = "idle" /\ cfg.limit \in Int
    BY ConsumerFacts DEF Idle
  <1>4. Lives'
    BY <1>2, <1>3 DEF Lives, Running
  <1>5. Limits'
    BY <1>2, <1>3 DEF Limits, Running
  <1>6. QED
    BY <1>1, <1>4, <1>5

\* The consumers of processes that end.
LEMMA CutEffect ==
  ASSUME Typed, NEW S, Cut(S)
  PROVE  /\ st' \in [Consumers -> States]
         /\ work' \in [Consumers -> Jobs \cup {Idle}]
         /\ processed' \in [Consumers -> Nat]
         /\ \A c \in Consumers :
              IF c[1] \in S
              THEN st'[c] = "off" /\ work'[c] = Idle /\ processed'[c] = 0
              ELSE st'[c] = st[c] /\ work'[c] = work[c] /\ processed'[c] = processed[c]
  BY DEF Typed, Cut, States

\* A child that ends is still a child until its exit is reported.
LEMMA ChildrenKept ==
  ASSUME LivesInv, UNCHANGED <<cfg, info, handles>>, proc' \in [Pids -> Lifes],
         \A x \in Pids : proc'[x] = "none" <=> proc[x] = "none"
  PROVE  HandlesAreChildren'
  BY DEF LivesInv, HandlesAreChildren, IsNode

\* Rebalances and processes that end.
LEMMA EndLives ==
  ASSUME LivesInv, Rebalance \/ \E x \in Pids : ExitProcess(x) \/ CloseReaders(x)
  PROVE  LivesInv'
  <1> USE DEF LivesInv
  <1>1. CASE Rebalance
    <2>1. /\ UNCHANGED <<cfg, high, committed, rows, failed, reset, members, proc, info,
                         handles, work, processed>>
          /\ \A c \in members : Up(c)
          /\ pos' = [p \in Partitions |-> StartOffset(p)]
          /\ st' = [c \in Consumers |->
                      IF c \in members /\ st[c] = "joining" THEN "run" ELSE st[c]]
      BY <1>1 DEF Rebalance, storeVars, managerVars
    <2>2. pos' \in [Partitions -> Int]
      BY <2>1 DEF StartOffset, Typed
    <2>3. owner' \in [Partitions -> Consumers \cup {None}]
      BY <1>1 DEF Rebalance, Typed
    <2>4. st' \in [Consumers -> States]
      BY <2>1 DEF Typed, States
    <2>5. \A c \in Consumers : Up(c)' <=> Up(c)
      BY <2>1 DEF Up
    <2>6. \A c \in Consumers : \/ st'[c] = st[c]
                               \/ st[c] = "joining" /\ st'[c] = "run" /\ Up(c)'
      BY <2>1, <2>5
    <2>7. HandlesAreChildren'
      BY <2>1, ChildrenKept DEF Typed
    <2>8. QED
      BY <2>1, <2>2, <2>3, <2>4, <2>5, <2>6, <2>7, WholeProcessLives DEF Typed
  <1>2. ASSUME NEW x \in Pids, ExitProcess(x) \/ CloseReaders(x)
        PROVE  LivesInv'
    <2>1. /\ UNCHANGED <<cfg, high, committed, pos, rows, failed, reset, info, handles>>
          /\ proc[x] \in {"alive", "exiting"}
          /\ proc' = [proc EXCEPT ![x] = "dead"]
          /\ Cut({x})
      BY <1>2 DEF ExitProcess, CloseReaders, brokerVars, storeVars, managerVars
    <2>2. /\ members' \subseteq Consumers
          /\ owner' \in [Partitions -> Consumers \cup {None}]
      <3>1. members \ Instances(x) \in SUBSET Consumers
        BY DEF Typed
      <3>2. QED
        BY <1>2, <3>1, GroupTyped DEF ExitProcess, CloseReaders, brokerVars, Typed
    <2>3. /\ proc' \in [Pids -> Lifes]
          /\ \A y \in Pids : proc'[y] = IF y = x THEN "dead" ELSE proc[y]
      BY <2>1 DEF Typed, Lifes
    <2>4. \A c \in Consumers : c[1] # x => (Up(c)' <=> Up(c))
      BY <2>3, ConsumerFacts DEF Up
    <2>5. \A c \in Consumers :
            \/ st'[c] = "off" /\ work'[c] = Idle /\ processed'[c] = 0
            \/ /\ work'[c] = work[c] /\ processed'[c] = processed[c] /\ st'[c] = st[c]
               /\ Up(c) => Up(c)'
      BY <2>1, <2>4, CutEffect
    <2>6. HandlesAreChildren'
      BY <2>1, <2>3, ChildrenKept
    <2>7. QED
      BY <2>1, <2>2, <2>3, <2>5, <2>6, CutEffect, WholeProcessLives DEF Typed
  <1>3. QED
    BY <1>1, <1>2

\* A signal: what becomes of each consumer.
LEMMA DeliverEffect ==
  ASSUME LivesInv, NEW S \in SUBSET Pids, NEW signal, Deliver(S, signal)
  PROVE  /\ UNCHANGED <<brokerVars, cfg, storeVars, spawns>>
         /\ proc' \in [Pids -> Lifes]
         /\ \A x \in Pids : proc'[x] = "none" <=> proc[x] = "none"
         /\ st' \in [Consumers -> States]
         /\ work' \in [Consumers -> Jobs \cup {Idle}]
         /\ processed' \in [Consumers -> Nat]
         /\ cut \subseteq cut'
         /\ \A c \in Consumers :
              \/ /\ st'[c] = "off" /\ work'[c] = Idle /\ processed'[c] = 0
                 /\ work[c] # Idle => <<work[c].part, work[c].offset>> \in cut'
              \/ /\ work'[c] = work[c] /\ processed'[c] = processed[c]
                 /\ Up(c) => Up(c)'
                 /\ \/ st'[c] = st[c]
                    \/ st[c] = "run" /\ st'[c] = "closing" /\ Up(c)'
  <1> USE DEF LivesInv
  <1> DEFINE live   == {x \in S : proc[x] \in {"alive", "exiting"}}
             killed == {x \in live : signal = "SIGKILL" \/ (IsNode /\ ~Started(x))}
             asked  == {x \in live \ killed : proc[x] = "alive"}
             dead   == {c \in Consumers : c[1] \in killed}
  <1>1. /\ proc' = [x \in Pids |-> IF x \in killed THEN "dead"
                                    ELSE IF x \in asked THEN "exiting" ELSE proc[x]]
        /\ st' = [c \in Consumers |->
                    IF c[1] \in killed THEN "off"
                    ELSE IF c[1] \in asked /\ IsNode /\ st[c] = "run" THEN "closing"
                    ELSE st[c]]
        /\ work' = [c \in Consumers |-> IF c[1] \in killed THEN Idle ELSE work[c]]
        /\ processed' = [c \in Consumers |-> IF c[1] \in killed THEN 0 ELSE processed[c]]
        /\ cut' = cut \cup InHand(dead)
        /\ UNCHANGED <<brokerVars, cfg, storeVars, spawns>>
    BY DEF Deliver
  <1>2. /\ \A x \in killed : proc[x] \in {"alive", "exiting"}
        /\ \A x \in asked : x \notin killed /\ proc[x] = "alive"
    OBVIOUS
  <1>3. \A c \in dead : work[c] # Idle => <<work[c].part, work[c].offset>> \in InHand(dead)
    BY DEF InHand
  <1>4. \A c \in Consumers : c \in dead <=> c[1] \in killed
    OBVIOUS
  <1> HIDE DEF live, killed, asked, dead
  <1>5. /\ proc' \in [Pids -> Lifes]
        /\ \A x \in Pids : proc'[x] = "none" <=> proc[x] = "none"
        /\ \A x \in Pids \ killed : proc[x] \in {"alive", "exiting"}
                                      => proc'[x] \in {"alive", "exiting"}
        /\ \A x \in Pids : x \in asked => proc'[x] = "exiting"
    BY <1>1, <1>2 DEF Typed, Lifes
  <1>6. /\ st' \in [Consumers -> States]
        /\ work' \in [Consumers -> Jobs \cup {Idle}]
        /\ processed' \in [Consumers -> Nat]
    BY <1>1 DEF Typed, States
  <1>7. ASSUME NEW c \in Consumers, c[1] \in killed
        PROVE  /\ st'[c] = "off" /\ work'[c] = Idle /\ processed'[c] = 0
               /\ work[c] # Idle => <<work[c].part, work[c].offset>> \in cut'
    BY <1>1, <1>3, <1>4, <1>7
  <1>8. ASSUME NEW c \in Consumers, c[1] \notin killed
        PROVE  /\ work'[c] = work[c] /\ processed'[c] = processed[c]
               /\ Up(c) => Up(c)'
               /\ \/ st'[c] = st[c]
                  \/ st[c] = "run" /\ st'[c] = "closing" /\ Up(c)'
    <2>1. c[1] \in Pids
      BY ConsumerFacts
    <2>2. (Up(c) => Up(c)') /\ (c[1] \in asked => Up(c)')
      BY <1>5, <1>8, <2>1 DEF Up
    <2>3. /\ work'[c] = work[c] /\ processed'[c] = processed[c]
          /\ \/ st'[c] = st[c]
             \/ st[c] = "run" /\ st'[c] = "closing" /\ c[1] \in asked
      BY <1>1, <1>8
    <2>4. QED
      BY <2>2, <2>3
  <1>9. QED
    BY <1>1, <1>5, <1>6, <1>7, <1>8

\* What the manager and the operating system do to whole processes.
LEMMA ManagerLives ==
  ASSUME LivesInv,
         \/ \E x \in Pids : SpawnConsumer(x) \/ ExitEvent(x)
         \/ \E x \in Pids, signal \in {"SIGTERM", "SIGKILL"} : Stop(x, signal)
         \/ \E signal \in {"SIGTERM", "SIGKILL"} : StopAll(signal)
         \/ OnModuleDestroy
  PROVE  LivesInv'
  <1> USE DEF LivesInv
  <1>1. ASSUME NEW S \in SUBSET Pids, NEW signal, Deliver(S, signal),
               UNCHANGED <<info, handles, reset>>
        PROVE  LivesInv'
    <2>1. /\ UNCHANGED <<cfg, high, committed, pos, members, owner, rows, failed>>
          /\ proc' \in [Pids -> Lifes]
          /\ \A x \in Pids : proc'[x] = "none" <=> proc[x] = "none"
          /\ st' \in [Consumers -> States]
          /\ work' \in [Consumers -> Jobs \cup {Idle}]
          /\ processed' \in [Consumers -> Nat]
      BY <1>1, DeliverEffect DEF brokerVars, storeVars
    <2>2. \A c \in Consumers :
            \/ st'[c] = "off" /\ work'[c] = Idle /\ processed'[c] = 0
            \/ /\ work'[c] = work[c] /\ processed'[c] = processed[c]
               /\ Up(c) => Up(c)'
               /\ \/ st'[c] = st[c]
                  \/ st[c] = "run" /\ st'[c] = "closing" /\ Up(c)'
      BY <1>1, DeliverEffect
    <2>3. HandlesAreChildren'
      BY <1>1, <2>1, ChildrenKept
    <2>4. QED
      BY <1>1, <2>1, <2>2, <2>3, WholeProcessLives DEF Typed
  <1>2. ASSUME NEW x \in Pids, SpawnConsumer(x) \/ ExitEvent(x)
        PROVE  LivesInv'
    <2>1. /\ UNCHANGED <<cfg, high, committed, pos, members, owner, rows, failed, reset,
                         st, work, processed>>
          /\ \/ /\ proc[x] = "none" /\ proc' = [proc EXCEPT ![x] = "alive"]
                /\ info' = IF IsNode THEN [info EXCEPT ![x] = "alive"] ELSE info
                /\ handles' = IF IsNode THEN handles \cup {x} ELSE handles
             \/ /\ proc[x] = "dead" /\ proc' = [proc EXCEPT ![x] = "none"]
                /\ info' = IF IsNode THEN [info EXCEPT ![x] = "finished"] ELSE info
                /\ handles' = handles \ {x}
      BY <1>2 DEF SpawnConsumer, ExitEvent, brokerVars, storeVars
    <2>2. /\ proc' \in [Pids -> Lifes]
          /\ info' \in [Pids -> {"absent", "alive", "finished"}]
          /\ handles' \subseteq Pids
      BY <2>1 DEF Typed, Lifes
    <2>3. \A c \in Consumers : Up(c) => Up(c)'
      BY <2>1, ConsumerFacts DEF Up, Typed
    <2>4. HandlesAreChildren'
      <3>1. IsNode' <=> IsNode
        BY <2>1 DEF IsNode
      <3>2. CASE ~IsNode
        BY <3>1, <3>2 DEF HandlesAreChildren
      <3>3. CASE IsNode /\ proc[x] = "none"
        <4>1. /\ proc' = [proc EXCEPT ![x] = "alive"]
              /\ info' = [info EXCEPT ![x] = "alive"]
              /\ handles' = handles \cup {x}
          BY <2>1, <3>3
        <4>2. QED
          BY <3>1, <3>3, <4>1 DEF HandlesAreChildren, Typed
      <3>4. CASE IsNode /\ proc[x] # "none"
        <4>1. /\ proc' = [proc EXCEPT ![x] = "none"]
              /\ info' = [info EXCEPT ![x] = "finished"]
              /\ handles' = handles \ {x}
          BY <2>1, <3>4
        <4>2. QED
          BY <3>1, <3>4, <4>1 DEF HandlesAreChildren, Typed
      <3>5. QED
        BY <3>2, <3>3, <3>4
    <2>5. QED
      BY <2>1, <2>2, <2>3, <2>4, WholeProcessLives DEF Typed
  <1>3. ASSUME NEW x \in Pids, NEW signal, Stop(x, signal)
        PROVE  LivesInv'
    BY <1>1, <1>3 DEF Stop, managerVars
  <1>4. Signalled(handles) \in SUBSET Pids
    BY DEF Signalled, Typed
  <1>5. ASSUME NEW signal, StopAll(signal)
        PROVE  LivesInv'
    BY <1>1, <1>4, <1>5 DEF StopAll, managerVars
  <1>6. CASE OnModuleDestroy
    BY <1>1, <1>4, <1>6 DEF OnModuleDestroy
  <1>7. QED
    BY <1>2, <1>3, <1>5, <1>6

\* What the broker, ClearFinished and the inspector do.
LEMMA BrokerLives ==
  ASSUME LivesInv,
         \/ \E p \in Partitions : Publish(p)
         \/ \E c \in Consumers : Expire(c) \/ Evict(c) \/ Rejoin(c)
         \/ ClearFinished
         \/ \E target \in {"earliest", "latest"} : ResetRead(target)
         \/ ResetApply
         \/ UNCHANGED vars
  PROVE  LivesInv'
  <1> USE DEF LivesInv
  <1>1. ASSUME NEW p \in Partitions, Publish(p)
        PROVE  LivesInv'
    <2>1. high' \in [Partitions -> Nat]
      BY <1>1 DEF Publish, Typed
    <2>2. QED
      BY <1>1, <2>1, StillLives DEF Publish, Typed, managerVars
  <1>2. ASSUME NEW c \in Consumers, Expire(c) \/ Evict(c) \/ Rejoin(c)
        PROVE  LivesInv'
    <2>1. members \ {c} \in SUBSET Consumers /\ members \cup {c} \in SUBSET Consumers
      BY DEF Typed
    <2>2. members' \subseteq Consumers /\ owner' \in [Partitions -> Consumers \cup {None}]
      BY <1>2, <2>1, GroupTyped DEF Expire, Evict, Rejoin
    <2>3. UNCHANGED <<processVars, storeVars, high, committed, pos, info, handles, reset>>
      BY <1>2 DEF Expire, Evict, Rejoin, managerVars
    <2>4. QED
      BY <2>2, <2>3, StillLives DEF Typed
  <1>3. CASE ClearFinished
    <2>1. info' \in [Pids -> {"absent", "alive", "finished"}]
      BY <1>3 DEF ClearFinished, Typed
    <2>2. \A x \in Pids : info'[x] = "alive" <=> info[x] = "alive"
      BY <1>3 DEF ClearFinished, Typed
    <2>3. QED
      BY <1>3, <2>1, <2>2, StillLives DEF ClearFinished, Typed, brokerVars
  <1>4. ASSUME NEW target, ResetRead(target)
        PROVE  LivesInv'
    <2> DEFINE t == [p \in Partitions |-> IF target = "earliest" THEN 0 ELSE high[p]]
    <2>1. t \in [Partitions -> Nat]
      BY DEF Typed
    <2>2. reset' = [reset EXCEPT !.busy = TRUE, !.offsets = t]
      BY <1>4 DEF ResetRead
    <2> HIDE DEF t
    <2>3. reset' \in [busy : BOOLEAN, count : Nat, offsets : [Partitions -> Nat],
                      skipped : BOOLEAN]
      BY <2>1, <2>2 DEF Typed
    <2>4. QED
      BY <1>4, <2>3, StillLives DEF ResetRead, Typed, brokerVars
  <1>5. CASE ResetApply
    <2>1. Earliest \in [Partitions -> Nat]
      BY DEF Earliest
    <2>2. committed' \in [Partitions -> Int]
      BY <1>5 DEF ResetApply, Typed
    <2>3. reset' \in [busy : BOOLEAN, count : Nat, offsets : [Partitions -> Nat],
                      skipped : BOOLEAN]
      <3>1. (reset.skipped \/ reset.offsets # Earliest) \in BOOLEAN
        OBVIOUS
      <3>2. CASE members = {}
        <4>1. reset' = [busy |-> FALSE, count |-> reset.count + 1, offsets |-> Earliest,
                        skipped |-> reset.skipped \/ reset.offsets # Earliest]
          BY <1>5, <3>2 DEF ResetApply
        <4>2. reset.count + 1 \in Nat
          BY DEF Typed
        <4>3. QED
          BY <2>1, <3>1, <4>1, <4>2
      <3>3. CASE members # {}
        <4>1. reset' = [reset EXCEPT !.busy = FALSE, !.offsets = Earliest]
          BY <1>5, <3>3 DEF ResetApply
        <4>2. QED
          BY <2>1, <4>1 DEF Typed
      <3>4. QED
        BY <3>2, <3>3
    <2>4. QED
      BY <1>5, <2>2, <2>3, StillLives DEF ResetApply, Typed
  <1>6. CASE UNCHANGED vars
    BY <1>6, StillLives DEF vars, brokerVars, managerVars, Typed
  <1>7. QED
    BY <1>1, <1>2, <1>3, <1>4, <1>5, <1>6

LEMMA LivesStep == LivesInv /\ [Next]_vars => LivesInv'
  BY StillLives, MembershipLives, HandlerLives, ProcessLives, EndLives, ManagerLives,
     BrokerLives DEF Next, ConsumerStep, ProcessStep, Environment

-----------------------------------------------------------------------------
(* The group: who holds which event, and how far the group has come *)

\* The event a consumer has in hand.
Event(c) == <<work[c].part, work[c].offset>>

\* Partitions belong to members.
Joined == \A p \in Partitions : owner[p] \in members \cup {None}

\* A member's event is the next one of a partition it owns; the event of
\* anybody else was cut off.  Before-process has committed what it processes.
Held ==
  \A c \in Consumers : work[c] # Idle =>
    /\ 0 <= work[c].offset /\ work[c].offset < high[work[c].part]
    /\ IF c \in members
       THEN owner[work[c].part] = c /\ work[c].offset = pos[work[c].part]
       ELSE Event(c) \in cut
    /\ Before /\ work[c].at = "process" /\ Event(c) \notin cut =>
         committed[work[c].part] = work[c].offset + 1

\* Nothing is committed, read or reset past the end of the log.
Bounds ==
  \A p \in Partitions :
    /\ high[p] <= MaxEvents
    /\ -1 <= committed[p] /\ committed[p] <= high[p]
    /\ -1 <= pos[p] /\ pos[p] <= high[p]
    /\ reset.offsets[p] <= high[p]

\* The owner of a partition reads at or behind the committed offset, never
\* before it: except for the event that it committed first and has in hand, and
\* for one whose commit was stored and reported as failed.
Ahead ==
  \A p \in Partitions : owner[p] \in members /\ Running(owner[p]) =>
    /\ 0 <= pos[p]
    /\ \/ committed[p] <= pos[p]
       \/ /\ committed[p] = pos[p] + 1
          /\ \/ /\ Before /\ work[owner[p]].part = p
                /\ work[owner[p]].at \in {"process", "leave"}
             \/ <<p, pos[p]>> \in cut

GroupInv == Joined /\ Held /\ Bounds /\ Ahead

\* A step that changes who is in the group and who still works, and nothing
\* else: what a consumer loses hold of is marked as cut off.
Regroup ==
  /\ UNCHANGED <<cfg, high, committed, pos, rows, failed>>
  /\ reset'.count = reset.count /\ reset'.skipped = reset.skipped
  /\ \A p \in Partitions : reset'.offsets[p] <= high[p]
  /\ cut \subseteq cut'
  /\ \A p \in Partitions : owner'[p] = IF owner[p] \in members' THEN owner[p] ELSE None
  /\ \A c \in Consumers :
       /\ \/ work'[c] = work[c] /\ (Running(c)' => Running(c))
          \/ /\ work'[c] = Idle /\ Event(c) \in cut'
             /\ Running(c)' => c \notin members'
       /\ c \in members' /\ c \notin members => work'[c] = Idle
       /\ c \in members /\ c \notin members' => work'[c] = Idle \/ Event(c) \in cut'

\* Joining, leaving, expiring and being thrown out.
LEMMA MembershipRegroups ==
  ASSUME LivesInv, GroupInv, NEW c \in Consumers,
         Expire(c) \/ Evict(c) \/ Join(c) \/ Rejoin(c) \/ Disconnect(c)
         \/ LeaveWithoutCommit(c) \/ RunCancelled(c) \/ CommitRefused(c)
  PROVE  Regroup
  <1> USE DEF LivesInv
  <1>1. /\ UNCHANGED <<cfg, high, committed, pos, rows, failed, reset>>
        /\ cut \subseteq cut'
    BY DEF Expire, Evict, Join, Rejoin, Disconnect, LeaveWithoutCommit, RunCancelled,
           CommitRefused, brokerVars, processVars, storeVars, managerVars, counters
  <1>2. /\ members' \in {members, members \cup {c}, members \ {c}}
        /\ \A p \in Partitions : owner'[p] = IF owner[p] \in members' THEN owner[p] ELSE None
    <2>1. \A m \in {members \cup {c}, members \ {c}} : m \in SUBSET Consumers
      BY DEF Typed
    <2>2. \A m \in {members \cup {c}, members \ {c}} : GroupChange(m) =>
            /\ members' = m
            /\ \A p \in Partitions : owner'[p] = IF owner[p] \in members' THEN owner[p] ELSE None
      BY <2>1, GroupTyped
    <2>3. UNCHANGED <<members, owner>> =>
            \A p \in Partitions : owner'[p] = IF owner[p] \in members' THEN owner[p] ELSE None
      BY DEF GroupInv, Joined
    <2>4. \/ UNCHANGED <<members, owner>>
          \/ \E m \in {members \cup {c}, members \ {c}} : GroupChange(m)
      BY DEF Expire, Evict, Join, Rejoin, Disconnect, LeaveWithoutCommit, RunCancelled,
             CommitRefused, brokerVars
    <2>5. QED
      BY <2>2, <2>3, <2>4
  <1>3. \A d \in Consumers \ {c} : work'[d] = work[d] /\ st'[d] = st[d]
    BY DEF Typed, Expire, Evict, Join, Rejoin, Disconnect, LeaveWithoutCommit, RunCancelled,
           CommitRefused, processVars
  <1>4. /\ Idle.at = "idle"
        /\ work[c] # Idle => Event(c) \in InHand({c})
    BY DEF InHand, Event, Idle
  <1>5. /\ \/ work'[c] = work[c] /\ (Running(c)' => Running(c))
           \/ /\ work'[c] = Idle /\ Event(c) \in cut'
              /\ Running(c)' => c \notin members'
        /\ c \in members' /\ c \notin members => work'[c] = Idle
        /\ c \in members /\ c \notin members' => work'[c] = Idle \/ Event(c) \in cut'
    <2>1. CASE Expire(c)
      <3>1. members' = members \ {c} /\ UNCHANGED <<work, st>> /\ work[c] = Idle
        BY <2>1 DEF Expire, GroupChange, processVars, Lives, Running
      <3>2. QED
        BY <3>1 DEF Running
    <2>2. CASE Evict(c)
      <3>1. /\ members' = members \ {c} /\ UNCHANGED <<work, st>>
            /\ cut' = cut \cup InHand({c}) /\ work[c] # Idle
        BY <2>2 DEF Evict, GroupChange, processVars
      <3>2. QED
        BY <1>4, <3>1 DEF Running
    <2>3. CASE Join(c)
      <3>1. /\ members' = members \cup {c} /\ work' = work /\ work[c] = Idle
            /\ st'[c] = "joining"
        BY <2>3 DEF Join, GroupChange, Lives, Running, Typed
      <3>2. QED
        BY <3>1 DEF Running
    <2>4. CASE Rejoin(c)
      <3>1. members' = members \cup {c} /\ UNCHANGED <<work, st>> /\ work[c] = Idle
        BY <2>4 DEF Rejoin, GroupChange, processVars
      <3>2. QED
        BY <3>1 DEF Running
    <2>5. CASE Disconnect(c)
      <3>1. /\ members' \subseteq members /\ work' = work /\ work[c] = Idle
            /\ st'[c] = "stopped"
        BY <2>5 DEF Disconnect, GroupChange, Typed
      <3>2. QED
        BY <3>1 DEF Running
    <2>6. CASE LeaveWithoutCommit(c)
      <3>1. /\ members' \subseteq members /\ work'[c] = Idle /\ work[c] # Idle
            /\ st'[c] = "left" /\ cut' = cut \cup InHand({c})
        BY <1>4, <2>6 DEF LeaveWithoutCommit, GroupChange, Typed
      <3>2. QED
        BY <1>4, <3>1 DEF Running
    <2>7. CASE RunCancelled(c)
      <3>1. members' = members /\ work' = work /\ st'[c] = "done"
        BY <2>7 DEF RunCancelled, brokerVars, Typed
      <3>2. QED
        BY <3>1 DEF Running
    <2>8. CASE CommitRefused(c)
      <3>1. /\ members' = members /\ cut' = cut /\ work'[c] = Idle
            /\ work[c] # Idle /\ ~MayCommit(c)
        BY <1>4, <2>8 DEF CommitRefused, brokerVars, counters, Typed
      <3>2. c \notin members /\ Event(c) \in cut
        BY <3>1 DEF GroupInv, Held, MayCommit
      <3>3. QED
        BY <3>1, <3>2
    <2>9. QED
      BY <2>1, <2>2, <2>3, <2>4, <2>5, <2>6, <2>7, <2>8
  <1>6. \A d \in Consumers \ {c} :
          /\ work'[d] = work[d] /\ (Running(d)' => Running(d))
          /\ d \in members' <=> d \in members
    BY <1>2, <1>3 DEF Running
  <1>7. \A p \in Partitions : reset'.offsets[p] <= high[p]
    BY <1>1 DEF GroupInv, Bounds
  <1>8. QED
    BY <1>1, <1>2, <1>5, <1>6, <1>7 DEF Regroup

\* Processes that end, signals, and what the manager and ResetRead do.
LEMMA ProcessesRegroup ==
  ASSUME LivesInv, GroupInv,
         \/ \E x \in Pids : ProcessStep(x) \/ SpawnConsumer(x)
         \/ \E x \in Pids, signal \in {"SIGTERM", "SIGKILL"} : Stop(x, signal)
         \/ \E signal \in {"SIGTERM", "SIGKILL"} : StopAll(signal)
         \/ OnModuleDestroy \/ ClearFinished
         \/ \E target \in {"earliest", "latest"} : ResetRead(target)
         \/ UNCHANGED vars
  PROVE  Regroup
  <1> USE DEF LivesInv
  <1>1. ASSUME UNCHANGED <<cfg, high, committed, pos, rows, failed, members, owner, cut, work, st>>,
               reset'.count = reset.count, reset'.skipped = reset.skipped,
               \A p \in Partitions : reset'.offsets[p] <= high[p]
        PROVE  Regroup
    BY <1>1 DEF Regroup, GroupInv, Joined, Running
  <1>2. \A p \in Partitions : reset.offsets[p] <= high[p]
    BY DEF GroupInv, Bounds
  <1>3. CASE \/ \E x \in Pids : SpawnConsumer(x) \/ ExitEvent(x)
             \/ ClearFinished \/ UNCHANGED vars
    BY <1>1, <1>2, <1>3 DEF SpawnConsumer, ExitEvent, ClearFinished, vars, brokerVars,
       processVars, storeVars, managerVars, counters
  <1>4. ASSUME NEW target, ResetRead(target)
        PROVE  Regroup
    <2> DEFINE t == [p \in Partitions |-> IF target = "earliest" THEN 0 ELSE high[p]]
    <2>1. \A p \in Partitions : t[p] <= high[p]
      BY DEF Typed
    <2>2. reset' = [reset EXCEPT !.busy = TRUE, !.offsets = t]
      BY <1>4 DEF ResetRead
    <2> HIDE DEF t
    <2>3. /\ reset'.count = reset.count /\ reset'.skipped = reset.skipped
          /\ reset'.offsets = t
      BY <2>2 DEF Typed
    <2>4. QED
      BY <1>1, <1>4, <2>1, <2>3 DEF ResetRead, brokerVars, processVars, storeVars
  <1>5. ASSUME NEW S \in SUBSET Pids, NEW signal, Deliver(S, signal), reset' = reset
        PROVE  Regroup
    <2>1. /\ UNCHANGED <<cfg, high, committed, pos, rows, failed, members, owner>>
          /\ cut \subseteq cut'
      BY <1>5, DeliverEffect DEF brokerVars, storeVars
    <2>2. \A c \in Consumers :
            \/ /\ st'[c] = "off" /\ work'[c] = Idle
               /\ work[c] # Idle => Event(c) \in cut'
            \/ /\ work'[c] = work[c]
               /\ st'[c] = st[c] \/ (st[c] = "run" /\ st'[c] = "closing")
      BY <1>5, DeliverEffect DEF Event
    <2>3. \A c \in Consumers :
            \/ work'[c] = work[c] /\ (Running(c)' => Running(c))
            \/ /\ work'[c] = Idle /\ Event(c) \in cut'
               /\ Running(c)' => c \notin members'
      BY <2>2 DEF Running
    <2>4. QED
      BY <1>2, <1>5, <2>1, <2>3 DEF Regroup, GroupInv, Joined
  <1>6. ASSUME NEW x \in Pids, ExitProcess(x) \/ CloseReaders(x)
        PROVE  Regroup
    <2>1. /\ UNCHANGED <<cfg, high, committed, pos, rows, failed, reset>>
          /\ cut \subseteq cut' /\ Cut({x})
      BY <1>6 DEF ExitProcess, CloseReaders, brokerVars, storeVars, managerVars, counters
    <2>2. \A c \in Consumers : c[1] = x /\ c \notin Instances(x) => work[c] = Idle
      BY DEF Lives, Running
    <2>3. \A c \in Consumers :
            IF c[1] = x THEN st'[c] = "off" /\ work'[c] = Idle
            ELSE st'[c] = st[c] /\ work'[c] = work[c]
      BY <2>1, CutEffect
    <2>4. \A c \in Consumers : c[1] = x /\ work[c] # Idle => Event(c) \in cut'
      <3>1. CASE ExitProcess(x)
        <4>1. cut' = cut \cup InHand(Instances(x))
          BY <3>1 DEF ExitProcess
        <4>2. \A c \in Instances(x) : work[c] # Idle => Event(c) \in InHand(Instances(x))
          BY DEF InHand, Event
        <4>3. QED
          BY <2>2, <4>1, <4>2
      <3>2. CASE CloseReaders(x)
        <4>1. \A c \in Instances(x) : st[c] = "done"
          BY <3>2 DEF CloseReaders
        <4>2. QED
          BY <2>2, <4>1 DEF Lives, Running, Instances
      <3>3. QED
        BY <1>6, <3>1, <3>2
    <2>5. /\ members' = members \/ members' = members \ Instances(x)
          /\ \A p \in Partitions : owner'[p] = IF owner[p] \in members' THEN owner[p] ELSE None
      <3>1. CASE ExitProcess(x)
        BY <3>1 DEF ExitProcess, brokerVars, GroupInv, Joined
      <3>2. CASE CloseReaders(x)
        <4>1. members \ Instances(x) \in SUBSET Consumers
          BY DEF Typed
        <4>2. QED
          BY <3>2, <4>1, GroupTyped DEF CloseReaders
      <3>3. QED
        BY <1>6, <3>1, <3>2
    <2>6. \A c \in Instances(x) : c[1] = x
      BY DEF Instances
    <2>7. \A c \in Consumers :
            /\ \/ work'[c] = work[c] /\ (Running(c)' => Running(c))
               \/ /\ work'[c] = Idle /\ Event(c) \in cut'
                  /\ Running(c)' => c \notin members'
            /\ ~(c \in members' /\ c \notin members)
            /\ c \in members /\ c \notin members' => work'[c] = Idle
      BY <2>3, <2>4, <2>5, <2>6 DEF Running
    <2>8. QED
      BY <1>2, <2>1, <2>5, <2>7 DEF Regroup
  <1>7. Signalled(handles) \in SUBSET Pids
    BY DEF Signalled, Typed
  <1>8. CASE \/ \E x \in Pids, signal \in {"SIGTERM", "SIGKILL"} : Stop(x, signal)
             \/ \E signal \in {"SIGTERM", "SIGKILL"} : StopAll(signal)
             \/ OnModuleDestroy
    BY <1>5, <1>7, <1>8 DEF Stop, StopAll, OnModuleDestroy, managerVars
  <1>9. QED
    BY <1>3, <1>4, <1>6, <1>8 DEF ProcessStep

\* Every step changes the group, or is one of the steps that move events.
LEMMA StepKinds ==
  ASSUME LivesInv, GroupInv, [Next]_vars
  PROVE  \/ Regroup \/ Rebalance \/ ResetApply
         \/ \E p \in Partitions : Publish(p)
         \/ \E c \in Consumers : \/ \E p \in Partitions : Fetch(c, p)
                                 \/ PreCommit(c) \/ Process(c) \/ CommitAfter(c)
                                 \/ CommitCancelled(c) \/ CommitFails(c)
  BY MembershipRegroups, ProcessesRegroup DEF Next, ConsumerStep, Environment

\* The handler goes on to its next step with the same event.
LEMMA JobMoves ==
  ASSUME Typed, NEW c \in Consumers, work[c] # Idle,
         NEW a \in {"precommit", "process", "commit", "leave"},
         work' = [work EXCEPT ![c].at = a]
  PROVE  /\ work'[c] # Idle /\ work'[c].at = a
         /\ work'[c].part = work[c].part /\ work'[c].offset = work[c].offset
         /\ Event(c)' = Event(c)
         /\ \A d \in Consumers \ {c} : work'[d] = work[d] /\ Event(d)' = Event(d)
  <1>1. work[c] \in Jobs /\ Idle \notin Jobs
    BY ConsumerFacts
  <1>2. /\ work'[c] = [work[c] EXCEPT !.at = a]
        /\ \A d \in Consumers \ {c} : work'[d] = work[d]
    BY DEF Typed
  <1>3. /\ [work[c] EXCEPT !.at = a] \in Jobs
        /\ work'[c].at = a
        /\ work'[c].part = work[c].part /\ work'[c].offset = work[c].offset
    BY <1>1, <1>2 DEF Jobs
  <1>4. QED
    BY <1>1, <1>2, <1>3 DEF Event

\* The handler returns: the client moves on if the consumer still owns the
\* partition.
LEMMA JobEnds ==
  ASSUME Typed, NEW c \in Consumers, work[c] # Idle, NEW n, Finish(c, n)
  PROVE  /\ work'[c] = Idle
         /\ \A d \in Consumers \ {c} : work'[d] = work[d] /\ Event(d)' = Event(d)
         /\ \A d \in Consumers : Running(d)' => Running(d)
         /\ \A p \in Partitions :
              pos'[p] = IF p = work[c].part /\ owner[p] = c /\ c \in members
                        THEN work[c].offset + 1 ELSE pos[p]
  <1>1. /\ work[c].part \in Partitions
        /\ pos' = IF owner[work[c].part] = c /\ c \in members
                  THEN [pos EXCEPT ![work[c].part] = work[c].offset + 1] ELSE pos
    BY ConsumerFacts DEF Finish
  <1>2. \A p \in Partitions :
          pos'[p] = IF p = work[c].part /\ owner[p] = c /\ c \in members
                    THEN work[c].offset + 1 ELSE pos[p]
    BY <1>1 DEF Typed
  <1>3. /\ work'[c] = Idle
        /\ \A d \in Consumers \ {c} : st'[d] = st[d] /\ work'[d] = work[d]
        /\ st'[c] = st[c] \/ st'[c] = "done"
    BY FinishTyped
  <1>4. QED
    BY <1>2, <1>3 DEF Running, Event

\* A change of the group keeps the group's order.
LEMMA RegroupGroup ==
  ASSUME LivesInv, GroupInv, Regroup, LivesInv'
  PROVE  GroupInv'
  <1> USE DEF LivesInv
  <1>1. /\ \A p \in Partitions : owner[p] \in members' => owner'[p] = owner[p]
        /\ \A p \in Partitions : owner'[p] \in members' => owner[p] = owner'[p]
        /\ \A p \in Partitions : owner'[p] \in members' => owner[p] \in members
    <2>1. None \notin members'
      BY ConsumerFacts DEF Typed
    <2>2. QED
      BY <2>1 DEF Regroup, GroupInv, Joined
  <1>2. Joined'
    BY <1>1 DEF Regroup, Joined
  <1>3. Before' <=> Before
    BY DEF Regroup, Before
  <1>4. Held'
    <2> SUFFICES ASSUME NEW c \in Consumers, work'[c] # Idle
                 PROVE  /\ 0 <= work'[c].offset /\ work'[c].offset < high'[work'[c].part]
                        /\ IF c \in members'
                           THEN /\ owner'[work'[c].part] = c
                                /\ work'[c].offset = pos'[work'[c].part]
                           ELSE Event(c)' \in cut'
                        /\ Before /\ work'[c].at = "process" /\ Event(c)' \notin cut' =>
                             committed'[work'[c].part] = work'[c].offset + 1
      BY <1>3 DEF Held
    <2>1. work'[c] = work[c] /\ Event(c)' = Event(c) /\ work[c].part \in Partitions
      BY ConsumerFacts DEF Regroup, Event
    <2>2. UNCHANGED <<high, pos, committed>> /\ cut \subseteq cut'
      BY DEF Regroup
    <2>3. CASE c \in members'
      <3>1. c \in members
        BY <2>3 DEF Regroup
      <3>2. QED
        BY <1>1, <2>1, <2>2, <2>3, <3>1 DEF GroupInv, Held
    <2>4. CASE c \notin members'
      <3>1. Event(c) \in cut'
        BY <2>1, <2>2, <2>4 DEF Regroup, GroupInv, Held
      <3>2. QED
        BY <2>1, <2>2, <2>4, <3>1 DEF GroupInv, Held
    <2>5. QED
      BY <2>3, <2>4
  <1>5. Bounds'
    BY DEF Regroup, GroupInv, Bounds
  <1>6. Ahead'
    <2> SUFFICES ASSUME NEW p \in Partitions, owner'[p] \in members',
                        st'[owner'[p]] \in {"run", "closing"}
                 PROVE  /\ 0 <= pos'[p]
                        /\ \/ committed'[p] <= pos'[p]
                           \/ /\ committed'[p] = pos'[p] + 1
                              /\ \/ /\ Before /\ work'[owner'[p]].part = p
                                    /\ work'[owner'[p]].at \in {"process", "leave"}
                                 \/ <<p, pos'[p]>> \in cut'
      BY <1>3 DEF Ahead, Running
    <2>1. owner[p] = owner'[p] /\ owner[p] \in members /\ owner[p] \in Consumers
      BY <1>1 DEF Typed
    <2>2. work'[owner[p]] = work[owner[p]] /\ Running(owner[p])
      BY <2>1 DEF Regroup, Running
    <2>3. QED
      BY <2>1, <2>2 DEF Regroup, GroupInv, Ahead
  <1>7. QED
    BY <1>2, <1>4, <1>5, <1>6 DEF GroupInv

\* A step of a handler: only the owner of a partition moves its offsets.
LEMMA HandlerGroup ==
  ASSUME LivesInv, GroupInv, NEW c \in Consumers, work[c] # Idle,
         UNCHANGED <<cfg, high, members, owner, reset>>, cut \subseteq cut',
         \A d \in Consumers \ {c} : work'[d] = work[d] /\ Event(d)' = Event(d),
         \A d \in Consumers : Running(d)' => Running(d),
         \A p \in Partitions :
           \/ committed'[p] = committed[p]
           \/ /\ p = work[c].part /\ MayCommit(c)
              /\ committed'[p] = work[c].offset + 1,
         \A p \in Partitions :
           \/ pos'[p] = pos[p]
           \/ /\ p = work[c].part /\ MayCommit(c)
              /\ pos'[p] = work[c].offset + 1,
         work'[c] # Idle =>
           /\ work'[c].part = work[c].part /\ work'[c].offset = work[c].offset
           /\ Event(c)' = Event(c) /\ pos' = pos
           /\ Before /\ work'[c].at = "process" /\ Event(c) \notin cut' =>
                committed'[work[c].part] = work[c].offset + 1,
         MayCommit(c) =>
           \/ committed'[work[c].part] <= pos'[work[c].part]
           \/ /\ committed'[work[c].part] = pos'[work[c].part] + 1
              /\ \/ /\ Before /\ work'[c].part = work[c].part
                    /\ work'[c].at \in {"process", "leave"}
                 \/ <<work[c].part, pos'[work[c].part]>> \in cut'
  PROVE  GroupInv'
  <1> USE DEF LivesInv
  <1>1. work[c].part \in Partitions /\ work[c].offset \in Int
    BY ConsumerFacts
  <1>2. Before' <=> Before
    BY DEF Before
  <1>3. /\ \A d \in Consumers : work[d] # Idle /\ d \in members => MayCommit(d)
        /\ \A d \in Consumers : work[d] # Idle /\ MayCommit(d) =>
             work[d].offset = pos[work[d].part]
        /\ \A d \in Consumers \ {c} : d \in members /\ work[d] # Idle /\ MayCommit(c) =>
             work[d].part # work[c].part
    BY DEF GroupInv, Held, MayCommit
  <1>4. Joined'
    BY DEF GroupInv, Joined
  <1>5. Bounds'
    <2>1. 0 <= work[c].offset /\ work[c].offset + 1 <= high[work[c].part]
      BY <1>1 DEF GroupInv, Held, Typed
    <2>2. ASSUME NEW p \in Partitions
          PROVE  /\ -1 <= committed'[p] /\ committed'[p] <= high[p]
                 /\ -1 <= pos'[p] /\ pos'[p] <= high[p]
      BY <1>1, <2>1 DEF GroupInv, Bounds, Typed
    <2>3. QED
      BY <2>2 DEF GroupInv, Bounds
  <1>6. Held'
    <2> SUFFICES ASSUME NEW d \in Consumers, work'[d] # Idle
                 PROVE  /\ 0 <= work'[d].offset /\ work'[d].offset < high'[work'[d].part]
                        /\ IF d \in members'
                           THEN /\ owner'[work'[d].part] = d
                                /\ work'[d].offset = pos'[work'[d].part]
                           ELSE Event(d)' \in cut'
                        /\ Before /\ work'[d].at = "process" /\ Event(d)' \notin cut' =>
                             committed'[work'[d].part] = work'[d].offset + 1
      BY <1>2 DEF Held
    <2>1. CASE d = c
      BY <1>1, <2>1 DEF GroupInv, Held
    <2>2. CASE d # c
      <3>1. /\ work'[d] = work[d] /\ Event(d)' = Event(d) /\ work[d] # Idle
            /\ work[d].part \in Partitions
        BY <2>2, ConsumerFacts
      <3>2. d \notin members => Event(d) \in cut
        BY <3>1 DEF GroupInv, Held
      <3>3. d \in members => /\ pos'[work[d].part] = pos[work[d].part]
                             /\ committed'[work[d].part] = committed[work[d].part]
        BY <1>3, <2>2, <3>1
      <3>4. QED
        BY <3>1, <3>2, <3>3 DEF GroupInv, Held
    <2>3. QED
      BY <2>1, <2>2
  <1>7. Ahead'
    <2> SUFFICES ASSUME NEW p \in Partitions, owner[p] \in members,
                        st'[owner[p]] \in {"run", "closing"}
                 PROVE  /\ 0 <= pos'[p]
                        /\ \/ committed'[p] <= pos'[p]
                           \/ /\ committed'[p] = pos'[p] + 1
                              /\ \/ /\ Before /\ work'[owner[p]].part = p
                                    /\ work'[owner[p]].at \in {"process", "leave"}
                                 \/ <<p, pos'[p]>> \in cut'
      BY <1>2 DEF Ahead, Running
    <2>1. owner[p] \in Consumers /\ Running(owner[p])
      BY DEF Typed, Running
    <2>2. 0 <= pos'[p]
      <3>1. 0 <= pos[p]
        BY <2>1 DEF GroupInv, Ahead
      <3>2. 0 <= work[c].offset + 1
        BY <1>1 DEF GroupInv, Held
      <3>3. QED
        BY <3>1, <3>2
    <2>3. CASE p = work[c].part /\ owner[p] = c
      BY <2>2, <2>3 DEF MayCommit
    <2>4. CASE p # work[c].part \/ owner[p] # c
      <3>1. pos'[p] = pos[p] /\ committed'[p] = committed[p]
        BY <2>4 DEF MayCommit
      <3>2. CASE owner[p] # c
        BY <2>1, <2>2, <3>1, <3>2 DEF GroupInv, Ahead
      <3>3. CASE owner[p] = c /\ p # work[c].part
        BY <2>1, <2>2, <3>1, <3>3 DEF GroupInv, Ahead
      <3>4. QED
        BY <2>4, <3>2, <3>3
    <2>5. QED
      BY <2>3, <2>4
  <1>8. QED
    BY <1>4, <1>5, <1>6, <1>7 DEF GroupInv

\* What a handler commits and where it goes on, per step.
LEMMA CommitEffect ==
  ASSUME Typed, NEW c \in Consumers, work[c] # Idle, Commit(c)
  PROVE  \A p \in Partitions :
           committed'[p] = IF p = work[c].part THEN work[c].offset + 1 ELSE committed[p]
  BY ConsumerFacts DEF Commit, Typed

\* process() either goes on to its next step or returns.
LEMMA ProcessMoves ==
  ASSUME LivesInv, NEW c \in Consumers, Process(c)
  PROVE  /\ work[c] # Idle /\ work[c].at = "process"
         /\ UNCHANGED <<cfg, high, committed, members, owner, reset, cut>>
         /\ \/ \E n : Before /\ Finish(c, n)
            \/ \E a \in {"leave", "commit"} :
                 /\ a = "commit" => ~Before
                 /\ work' = [work EXCEPT ![c].at = a] /\ UNCHANGED <<pos, st>>
  <1>1. Idle.at = "idle"
    BY DEF Idle
  <1>2. \E n : IF NextStep(n) = "finish" THEN Finish(c, n)
               ELSE work' = [work EXCEPT ![c].at = NextStep(n)] /\ UNCHANGED <<pos, st>>
    BY DEF Process
  <1>3. \A n : \/ NextStep(n) = "leave"
               \/ NextStep(n) = "finish" /\ Before
               \/ NextStep(n) = "commit" /\ ~Before
    BY DEF NextStep
  <1>4. \/ \E n : Before /\ Finish(c, n)
        \/ \E a \in {"leave", "commit"} :
             /\ a = "commit" => ~Before
             /\ work' = [work EXCEPT ![c].at = a] /\ UNCHANGED <<pos, st>>
    BY <1>2, <1>3
  <1>5. QED
    BY <1>1, <1>4 DEF Process, managerVars, counters

\* The handler's steps keep the group's order.
LEMMA HandlersGroup ==
  ASSUME LivesInv, GroupInv, NEW c \in Consumers,
         PreCommit(c) \/ Process(c) \/ CommitAfter(c) \/ CommitCancelled(c)
         \/ CommitFails(c)
  PROVE  GroupInv'
  <1> USE DEF LivesInv
  <1>1. Idle.at = "idle"
    BY DEF Idle
  <1>2. /\ work[c] # Idle /\ work[c].part \in Partitions /\ work[c].offset \in Int
        /\ UNCHANGED <<cfg, high, members, owner, reset>> /\ cut \subseteq cut'
    <2>1. work[c] # Idle
      BY <1>1 DEF PreCommit, Process, CommitAfter, CommitCancelled, CommitFails
    <2>2. QED
      BY <2>1, ConsumerFacts DEF PreCommit, Process, CommitAfter, CommitCancelled,
         CommitFails, managerVars, counters
  <1>3. /\ work[c].offset < high[work[c].part]
        /\ MayCommit(c) => work[c].offset = pos[work[c].part]
        /\ pos[work[c].part] \in Int /\ committed[work[c].part] \in Int
    BY <1>2 DEF GroupInv, Held, MayCommit, Typed
  <1>4. MayCommit(c) =>
          /\ 0 <= pos[work[c].part]
          /\ \/ committed[work[c].part] <= pos[work[c].part]
             \/ /\ committed[work[c].part] = pos[work[c].part] + 1
                /\ \/ Before /\ work[c].at \in {"process", "leave"}
                   \/ <<work[c].part, pos[work[c].part]>> \in cut
    BY <1>2 DEF GroupInv, Ahead, MayCommit, Lives
  <1>5. CASE PreCommit(c)
    <2>1. /\ Before /\ MayCommit(c) /\ Commit(c) /\ UNCHANGED <<pos, st>>
          /\ work' = [work EXCEPT ![c].at = "process"]
      BY <1>5 DEF PreCommit, Lives
    <2>2. \A p \in Partitions :
            committed'[p] = IF p = work[c].part THEN work[c].offset + 1 ELSE committed[p]
      BY <1>2, <2>1, CommitEffect
    <2>3. /\ work'[c].at = "process"
          /\ work'[c].part = work[c].part /\ work'[c].offset = work[c].offset
          /\ Event(c)' = Event(c)
          /\ \A d \in Consumers \ {c} : work'[d] = work[d] /\ Event(d)' = Event(d)
      BY <1>2, <2>1, JobMoves
    <2>4. \A d \in Consumers : Running(d)' => Running(d)
      BY <2>1 DEF Running
    <2>5. committed'[work[c].part] = pos'[work[c].part] + 1
      BY <1>2, <1>3, <2>1, <2>2
    <2>6. QED
      BY <1>2, <2>1, <2>2, <2>3, <2>4, <2>5, HandlerGroup
  <1>6. CASE Process(c)
    <2>1. work[c].at = "process" /\ UNCHANGED committed
      BY <1>6, ProcessMoves
    <2>2. ASSUME NEW n, Before, Finish(c, n)
          PROVE  GroupInv'
      <3>1. /\ work'[c] = Idle
            /\ \A d \in Consumers \ {c} : work'[d] = work[d] /\ Event(d)' = Event(d)
            /\ \A d \in Consumers : Running(d)' => Running(d)
            /\ \A p \in Partitions :
                 pos'[p] = IF p = work[c].part /\ owner[p] = c /\ c \in members
                           THEN work[c].offset + 1 ELSE pos[p]
        BY <1>2, <2>2, JobEnds
      <3>2. MayCommit(c) => committed'[work[c].part] <= pos'[work[c].part]
        BY <1>2, <1>3, <1>4, <2>1, <3>1 DEF MayCommit
      <3>3. QED
        BY <1>2, <2>1, <3>1, <3>2, HandlerGroup DEF MayCommit
    <2>3. ASSUME NEW a \in {"leave", "commit"}, a = "commit" => ~Before,
                 work' = [work EXCEPT ![c].at = a], UNCHANGED <<pos, st>>
          PROVE  GroupInv'
      <3>1. /\ work'[c].at = a
            /\ work'[c].part = work[c].part /\ work'[c].offset = work[c].offset
            /\ Event(c)' = Event(c)
            /\ \A d \in Consumers \ {c} : work'[d] = work[d] /\ Event(d)' = Event(d)
        BY <1>2, <2>3, JobMoves
      <3>2. \A d \in Consumers : Running(d)' => Running(d)
        BY <2>3 DEF Running
      <3>3. QED
        BY <1>2, <1>4, <2>1, <2>3, <3>1, <3>2, HandlerGroup
    <2>4. QED
      BY <1>6, <2>2, <2>3, ProcessMoves
  <1>7. CASE CommitAfter(c)
    <2>1. MayCommit(c) /\ Commit(c) /\ Finish(c, processed[c])
      BY <1>7 DEF CommitAfter
    <2>2. \A p \in Partitions :
            committed'[p] = IF p = work[c].part THEN work[c].offset + 1 ELSE committed[p]
      BY <1>2, <2>1, CommitEffect
    <2>3. /\ work'[c] = Idle
          /\ \A d \in Consumers \ {c} : work'[d] = work[d] /\ Event(d)' = Event(d)
          /\ \A d \in Consumers : Running(d)' => Running(d)
          /\ \A p \in Partitions :
               pos'[p] = IF p = work[c].part /\ owner[p] = c /\ c \in members
                         THEN work[c].offset + 1 ELSE pos[p]
      BY <1>2, <2>1, JobEnds
    <2>4. committed'[work[c].part] <= pos'[work[c].part]
      BY <1>2, <2>1, <2>2, <2>3 DEF MayCommit
    <2>5. QED
      BY <1>2, <2>1, <2>2, <2>3, <2>4, HandlerGroup DEF MayCommit
  <1>8. CASE CommitCancelled(c)
    <2>1. UNCHANGED committed /\ Event(c) \in cut'
      BY <1>2, <1>8 DEF CommitCancelled, InHand, Event
    <2>2. CASE /\ work[c].at = "precommit" /\ UNCHANGED <<pos, st>>
               /\ work' = [work EXCEPT ![c].at = "process"]
      <3>1. /\ work'[c].part = work[c].part /\ work'[c].offset = work[c].offset
            /\ Event(c)' = Event(c)
            /\ \A d \in Consumers \ {c} : work'[d] = work[d] /\ Event(d)' = Event(d)
        BY <1>2, <2>2, JobMoves
      <3>2. \A d \in Consumers : Running(d)' => Running(d)
        BY <2>2 DEF Running
      <3>3. QED
        BY <1>2, <1>4, <2>1, <2>2, <3>1, <3>2, HandlerGroup
    <2>3. CASE work[c].at = "commit" /\ Finish(c, processed[c])
      <3>1. /\ work'[c] = Idle
            /\ \A d \in Consumers \ {c} : work'[d] = work[d] /\ Event(d)' = Event(d)
            /\ \A d \in Consumers : Running(d)' => Running(d)
            /\ \A p \in Partitions :
                 pos'[p] = IF p = work[c].part /\ owner[p] = c /\ c \in members
                           THEN work[c].offset + 1 ELSE pos[p]
        BY <1>2, <2>3, JobEnds
      <3>2. MayCommit(c) => committed'[work[c].part] <= pos'[work[c].part]
        BY <1>2, <1>3, <1>4, <2>1, <2>3, <3>1 DEF MayCommit
      <3>3. QED
        BY <1>2, <2>1, <3>1, <3>2, HandlerGroup DEF MayCommit
    <2>4. QED
      BY <1>8, <2>2, <2>3 DEF CommitCancelled
  <1>9. CASE CommitFails(c)
    <2>1. /\ MayCommit(c) /\ pos' = pos /\ Event(c) \in cut'
          /\ Commit(c) \/ committed' = committed
          /\ work'[c] = Idle
          /\ \A d \in Consumers \ {c} : work'[d] = work[d] /\ Event(d)' = Event(d)
      BY <1>2, <1>9 DEF CommitFails, InHand, Event, Typed
    <2>2. \A d \in Consumers : Running(d)' => Running(d)
      BY <1>9 DEF CommitFails, Running, Typed
    <2>3. <<work[c].part, pos'[work[c].part]>> \in cut'
      BY <1>3, <2>1 DEF Event
    <2>4. CASE committed' = committed
      <3>1. \/ committed'[work[c].part] <= pos'[work[c].part]
            \/ committed'[work[c].part] = pos'[work[c].part] + 1
        BY <1>4, <2>1, <2>4
      <3>2. QED
        BY <1>2, <2>1, <2>2, <2>3, <2>4, <3>1, HandlerGroup
    <2>5. CASE Commit(c)
      <3>1. \A p \in Partitions :
              committed'[p] = IF p = work[c].part THEN work[c].offset + 1 ELSE committed[p]
        BY <1>2, <2>5, CommitEffect
      <3>2. committed'[work[c].part] = pos'[work[c].part] + 1
        BY <1>2, <1>3, <2>1, <3>1
      <3>3. QED
        BY <1>2, <2>1, <2>2, <2>3, <3>1, <3>2, HandlerGroup
    <2>6. QED
      BY <2>1, <2>4, <2>5
  <1>10. QED
    BY <1>5, <1>6, <1>7, <1>8, <1>9

\* New events, assignments, fetches and resets keep it too.
LEMMA BrokerGroup ==
  ASSUME LivesInv, GroupInv,
         \/ \E p \in Partitions : Publish(p)
         \/ Rebalance \/ ResetApply
         \/ \E c \in Consumers, p \in Partitions : Fetch(c, p)
  PROVE  GroupInv'
  <1> USE DEF LivesInv
  <1>1. ASSUME NEW p \in Partitions, Publish(p)
        PROVE  GroupInv'
    <2>1. /\ UNCHANGED <<committed, members, owner, pos, cfg, st, work, reset, cut>>
          /\ high[p] < MaxEvents /\ high' = [high EXCEPT ![p] = @ + 1]
      BY <1>1 DEF Publish, processVars, managerVars, counters
    <2>2. \A q \in Partitions : high'[q] \in Nat /\ high[q] <= high'[q] /\ high'[q] <= MaxEvents
      BY <2>1, ConsumerAssumption DEF Typed, GroupInv, Bounds
    <2>3. Joined' /\ Ahead'
      BY <2>1 DEF GroupInv, Joined, Ahead, Before, Running
    <2>4. Bounds'
      <3>1. \A q \in Partitions :
              {high[q], committed[q], pos[q], reset.offsets[q]} \subseteq Int
        BY DEF Typed
      <3>2. QED
        BY <2>1, <2>2, <3>1 DEF GroupInv, Bounds
    <2>5. Held'
      <3>1. \A c \in Consumers : work[c] # Idle =>
              work[c].offset < high'[work[c].part]
        BY <2>2, ConsumerFacts DEF GroupInv, Held, Typed
      <3>2. QED
        BY <2>1, <3>1 DEF GroupInv, Held, Event, Before
    <2>6. QED
      BY <2>3, <2>4, <2>5 DEF GroupInv
  <1>2. ASSUME NEW c \in Consumers, NEW p \in Partitions, Fetch(c, p)
        PROVE  GroupInv'
    <2>1. /\ UNCHANGED <<high, committed, members, owner, pos, cfg, st, reset, cut>>
          /\ work[c] = Idle /\ c \in members /\ owner[p] = c
          /\ pos[p] < high[p] /\ Running(c)
      BY <1>2 DEF Fetch, brokerVars, managerVars, counters, Running
    <2>2. /\ work'[c].part = p /\ work'[c].offset = pos[p]
          /\ Before => work'[c].at # "process"
          /\ \A d \in Consumers \ {c} : work'[d] = work[d]
      BY <1>2 DEF Fetch, Typed
    <2>3. 0 <= pos[p]
      BY <2>1 DEF GroupInv, Ahead
    <2>4. Joined' /\ Bounds'
      BY <2>1 DEF GroupInv, Joined, Bounds
    <2>5. Held'
      <3>1. ASSUME NEW d \in Consumers, d # c, work'[d] # Idle
            PROVE  work'[d] = work[d] /\ Event(d)' = Event(d)
        BY <2>2, <3>1 DEF Event
      <3>2. QED
        BY <2>1, <2>2, <2>3, <3>1 DEF GroupInv, Held, Before
    <2>6. Ahead'
      <3>1. Idle.at = "idle"
        BY DEF Idle
      <3>2. \A q \in Partitions : owner[q] = c =>
              \/ committed[q] <= pos[q]
              \/ committed[q] = pos[q] + 1 /\ <<q, pos[q]>> \in cut
        BY <2>1, <3>1 DEF GroupInv, Ahead
      <3>3. \A q \in Partitions : owner[q] \in members /\ owner[q] # c =>
              work'[owner[q]] = work[owner[q]]
        BY <2>2 DEF Typed
      <3>4. QED
        BY <2>1, <3>2, <3>3 DEF GroupInv, Ahead, Before, Running
    <2>7. QED
      BY <2>4, <2>5, <2>6 DEF GroupInv
  <1>3. CASE Rebalance
    <2>1. /\ UNCHANGED <<high, committed, members, cfg, work, reset, cut>>
          /\ \A c \in members : work[c] = Idle
          /\ owner' \in [Partitions -> members]
          /\ pos' = [p \in Partitions |-> StartOffset(p)]
      BY <1>3 DEF Rebalance, managerVars, counters
    <2>2. \A p \in Partitions :
            /\ pos'[p] \in Int /\ 0 <= pos'[p] /\ pos'[p] <= high[p]
            /\ committed[p] <= pos'[p]
      BY <2>1 DEF StartOffset, GroupInv, Bounds, Typed
    <2>3. Joined' /\ Ahead'
      BY <2>1, <2>2 DEF Joined, Ahead
    <2>4. Bounds'
      BY <2>1, <2>2 DEF GroupInv, Bounds
    <2>5. Held'
      BY <2>1 DEF GroupInv, Held, Event, Before
    <2>6. QED
      BY <2>3, <2>4, <2>5 DEF GroupInv
  <1>4. CASE ResetApply
    <2>1. UNCHANGED <<high, members, owner, pos, cfg, st, work, cut>>
      BY <1>4 DEF ResetApply, processVars, counters
    <2>2. \A p \in Partitions : Earliest[p] = 0 /\ 0 <= high[p]
      BY DEF Earliest, Typed
    <2>3. reset'.offsets = Earliest
      <3>1. reset' = [reset EXCEPT !.busy = FALSE, !.offsets = Earliest] =>
              reset'.offsets = Earliest
        BY DEF Typed
      <3>2. QED
        BY <1>4, <3>1 DEF ResetApply
    <2>4. CASE members = {}
      <3>1. \A p \in Partitions : committed'[p] \in Nat /\ committed'[p] <= high[p]
        BY <1>4, <2>4 DEF ResetApply, GroupInv, Bounds, Typed
      <3>2. Bounds'
        BY <2>1, <2>2, <2>3, <3>1 DEF GroupInv, Bounds
      <3>3. Joined' /\ Ahead' /\ Held'
        BY <2>1, <2>4 DEF GroupInv, Joined, Ahead, Held, Event, Before
      <3>4. QED
        BY <3>2, <3>3 DEF GroupInv
    <2>5. CASE members # {}
      <3>1. UNCHANGED committed
        BY <1>4, <2>5 DEF ResetApply
      <3>2. Bounds'
        BY <2>1, <2>2, <2>3, <3>1 DEF GroupInv, Bounds
      <3>3. Joined' /\ Ahead' /\ Held'
        BY <2>1, <3>1 DEF GroupInv, Joined, Ahead, Held, Event, Before, Running
      <3>4. QED
        BY <3>2, <3>3 DEF GroupInv
    <2>6. QED
      BY <2>4, <2>5
  <1>5. QED
    BY <1>1, <1>2, <1>3, <1>4

LEMMA GroupStep == LivesInv /\ GroupInv /\ [Next]_vars => LivesInv' /\ GroupInv'
  BY LivesStep, StepKinds, RegroupGroup, HandlersGroup, BrokerGroup

LEMMA GroupInit == Init => LivesInv /\ GroupInv
  <1> SUFFICES ASSUME Init
               PROVE  LivesInv /\ GroupInv
    OBVIOUS
  <1>1. /\ Earliest \in [Partitions -> Nat] /\ \A p \in Partitions : Earliest[p] = 0
        /\ Idle.at = "idle"
    BY DEF Earliest, Idle
  <1>2. reset = [busy |-> FALSE, count |-> 0, offsets |-> Earliest, skipped |-> FALSE]
    BY DEF Init
  <1>3. reset \in [busy : BOOLEAN, count : Nat, offsets : [Partitions -> Nat],
                   skipped : BOOLEAN] /\ \A p \in Partitions : reset.offsets[p] = 0
    BY <1>1, <1>2
  <1>4. Typed
    BY <1>3 DEF Init, Typed, Lifes, States
  <1>5. cfg.limit \in Int
    BY <1>4, ConsumerFacts
  <1>6. Lives /\ Limits /\ HandlesAreChildren
    BY <1>1, <1>4, <1>5 DEF Init, Lives, Limits, HandlesAreChildren, Up, Running, Typed
  <1>7. Joined /\ Held /\ Ahead
    <2>1. /\ members = {} /\ \A p \in Partitions : owner[p] = None
          /\ \A c \in Consumers : work[c] = Idle
      BY DEF Init
    <2>2. QED
      BY <2>1 DEF Joined, Held, Ahead
  <1>8. Bounds
    <2>1. \A p \in Partitions : high[p] = 0 /\ committed[p] = -1 /\ pos[p] = -1
      BY DEF Init
    <2>2. 0 <= MaxEvents
      BY ConsumerAssumption
    <2>3. QED
      BY <1>3, <2>1, <2>2 DEF Bounds
  <1>9. QED
    BY <1>4, <1>6, <1>7, <1>8 DEF LivesInv, GroupInv

LEMMA GroupHolds == Spec => [](LivesInv /\ GroupInv)
  BY GroupInit, GroupStep, PTL DEF Spec

FlagTyped == rebalancing \in BOOLEAN

LEMMA RebalancingIsBoolean == Spec => []FlagTyped
  <1>1. Init => FlagTyped
    BY DEF Init, FlagTyped
  <1>2. ASSUME rebalancing \in BOOLEAN, [Next]_vars
        PROVE  rebalancing' \in BOOLEAN
    <2>1. ASSUME NEW m, GroupChange(m)
          PROVE  rebalancing' \in BOOLEAN
      BY <2>1 DEF GroupChange
    <2>2. ASSUME NEW c \in Consumers, ConsumerStep(c) \/ Expire(c)
          PROVE  rebalancing' \in BOOLEAN
      BY <1>2, <2>1, <2>2 DEF ConsumerStep, Expire, Join, Rejoin, Fetch, PreCommit, Process,
         CommitAfter, CommitRefused, CommitCancelled, LeaveWithoutCommit, Disconnect,
         RunCancelled, brokerVars
    <2>3. ASSUME NEW x \in Pids, ProcessStep(x)
          PROVE  rebalancing' \in BOOLEAN
      BY <1>2, <2>1, <2>3 DEF ProcessStep, ExitProcess, CloseReaders, ExitEvent, brokerVars
    <2>4. CASE Rebalance
      BY <2>4 DEF Rebalance
    <2>5. CASE Environment
      BY <1>2, <2>1, <2>5 DEF Environment, Publish, Evict, SpawnConsumer, Stop, StopAll,
         Deliver, OnModuleDestroy, ClearFinished, ResetRead, ResetApply, CommitFails, brokerVars
    <2>6. CASE UNCHANGED vars
      BY <1>2, <2>6 DEF vars, brokerVars
    <2>7. QED
      BY <1>2, <2>2, <2>3, <2>4, <2>5, <2>6 DEF Next
  <1>3. FlagTyped /\ [Next]_vars => FlagTyped'
    BY <1>2 DEF FlagTyped
  <1>4. QED
    BY <1>1, <1>3, PTL DEF Spec

\* The manager's handles are exactly its children, no partition is committed or
\* read past its log, and no consumer goes on past its limit, whatever signals,
\* evictions, rebalances and resets come in between.
THEOREM ManagerIsConsistent == Spec => []ManagerConsistent
  <1>1. ASSUME LivesInv, GroupInv, FlagTyped
        PROVE  ManagerConsistent
    <2> USE <1>1 DEF LivesInv
    <2>1. high \in [Partitions -> 0..MaxEvents]
      <3>1. \A p \in Partitions : high[p] \in 0..MaxEvents
        BY ConsumerAssumption DEF Typed, GroupInv, Bounds
      <3>2. QED
        BY <3>1 DEF Typed
    <2>2. /\ \A p \in Partitions : committed[p] \in -1..high[p]
          /\ \A p \in Partitions : pos[p] \in -1..high[p]
      BY DEF Typed, GroupInv, Bounds
    <2>3. \A c \in Consumers : work[c].at \in {"idle", "precommit", "process", "commit", "leave"}
      <3>1. /\ Idle.at = "idle"
            /\ \A j \in Jobs : j.at \in {"precommit", "process", "commit", "leave"}
        BY DEF Idle, Jobs
      <3>2. QED
        BY <3>1 DEF Typed
    <2>4. \A c \in Consumers : cfg.limit > 0 => processed[c] <= cfg.limit
      BY DEF Limits
    <2>5. TypeOK
      BY <2>1, <2>2, <2>3, <2>4 DEF TypeOK, Typed, Lifes, States, FlagTyped
    <2>6. QED
      BY <2>5 DEF ManagerConsistent
  <1>2. QED
    BY <1>1, GroupHolds, RebalancingIsBoolean, PTL

-----------------------------------------------------------------------------
(* What is processed again *)

\* Consumer c has the event at offset o of partition p in hand, at a step of A.
Has(c, p, o, A) == work[c] # Idle /\ Event(c) = <<p, o>> /\ work[c].at \in A

\* Beyond the resets, an event that was never cut off has one row at most, none
\* while it is waiting to be processed, and none while the group has neither
\* committed it nor has it at a step behind process().
Repeats ==
  \A p \in Partitions, o \in Offsets : <<p, o>> \notin cut =>
    /\ rows[p][o] <= reset.count + 1
    /\ (\E c \in Consumers : Has(c, p, o, {"precommit", "process"})) =>
         rows[p][o] <= reset.count
    /\ committed[p] <= o /\ (\A c \in Consumers : ~Has(c, p, o, {"commit", "leave"})) =>
         rows[p][o] <= reset.count

\* Two consumers have the same event in hand only if it was cut off.
LEMMA HeldOnce ==
  ASSUME GroupInv, NEW c \in Consumers, NEW d \in Consumers,
         work[c] # Idle, work[d] # Idle, Event(c) = Event(d), Event(c) \notin cut
  PROVE  c = d
  BY DEF GroupInv, Held, Event

\* A handler's step concerns the event in its hands and no other.
LEMMA HandlerMoves ==
  ASSUME LivesInv, GroupInv, NEW c \in Consumers,
         PreCommit(c) \/ Process(c) \/ CommitAfter(c) \/ CommitCancelled(c)
         \/ CommitFails(c)
  PROVE  /\ work[c] # Idle /\ work[c].part \in Partitions /\ work[c].offset \in Offsets
         /\ UNCHANGED <<cfg, high, members, owner, reset>> /\ cut \subseteq cut'
         /\ \A d \in Consumers \ {c} : work'[d] = work[d] /\ Event(d)' = Event(d)
         /\ work'[c] = Idle \/ (work'[c] # Idle /\ Event(c)' = Event(c))
         /\ Event(c) = <<work[c].part, work[c].offset>>
         /\ committed[work[c].part] <= work[c].offset + 1 \/ ~MayCommit(c)
  <1> USE DEF LivesInv
  <1>1. Idle.at = "idle"
    BY DEF Idle
  <1>2. work[c] # Idle
    BY <1>1 DEF PreCommit, Process, CommitAfter, CommitCancelled, CommitFails
  <1>3. /\ work[c].part \in Partitions /\ work[c].offset \in Int
        /\ UNCHANGED <<cfg, high, members, owner, reset>> /\ cut \subseteq cut'
    BY <1>2, ConsumerFacts DEF PreCommit, Process, CommitAfter, CommitCancelled,
       CommitFails, managerVars, counters
  <1>4. work[c].offset \in Offsets
    <2>1. /\ high[work[c].part] \in Nat /\ high[work[c].part] <= MaxEvents
          /\ MaxEvents \in Nat
      BY <1>3, ConsumerAssumption DEF GroupInv, Bounds, Typed
    <2>2. 0 <= work[c].offset /\ work[c].offset < high[work[c].part]
      BY <1>2 DEF GroupInv, Held
    <2>3. QED
      BY <1>3, <2>1, <2>2 DEF Offsets
  <1>5. \/ \E a \in {"precommit", "process", "commit", "leave"} :
             work' = [work EXCEPT ![c].at = a]
        \/ \E n : Finish(c, n)
        \/ work' = [work EXCEPT ![c] = Idle]
    <2>1. CASE Process(c)
      BY <2>1, ProcessMoves
    <2>2. CASE PreCommit(c) \/ CommitAfter(c) \/ CommitCancelled(c) \/ CommitFails(c)
      BY <2>2 DEF PreCommit, CommitAfter, CommitCancelled, CommitFails
    <2>3. QED
      BY <2>1, <2>2
  <1>6. /\ \A d \in Consumers \ {c} : work'[d] = work[d] /\ Event(d)' = Event(d)
        /\ work'[c] = Idle \/ (work'[c] # Idle /\ Event(c)' = Event(c))
    <2>1. CASE work' = [work EXCEPT ![c] = Idle]
      BY <2>1 DEF Event, Typed
    <2>2. QED
      BY <1>2, <1>5, <2>1, JobMoves, JobEnds
  <1>7. committed[work[c].part] <= work[c].offset + 1 \/ ~MayCommit(c)
    <2>1. MayCommit(c) => /\ work[c].offset = pos[work[c].part]
                          /\ owner[work[c].part] \in members /\ Running(owner[work[c].part])
      BY <1>2 DEF GroupInv, Held, MayCommit, Lives
    <2>2. MayCommit(c) => \/ committed[work[c].part] <= pos[work[c].part]
                          \/ committed[work[c].part] = pos[work[c].part] + 1
      BY <1>3, <2>1 DEF GroupInv, Ahead
    <2>3. committed[work[c].part] \in Int
      BY <1>3 DEF Typed
    <2>4. QED
      BY <1>3, <2>1, <2>2, <2>3
  <1>8. QED
    BY <1>2, <1>3, <1>4, <1>6, <1>7 DEF Event

\* process() adds at most one row, to the event in hand, and handles it.
LEMMA RowEffect ==
  ASSUME LivesInv, GroupInv, NEW c \in Consumers, Process(c)
  PROVE  /\ \A p \in Partitions, o \in Offsets :
              /\ rows[p][o] <= rows'[p][o]
              /\ <<p, o>> # Event(c) => rows'[p][o] = rows[p][o]
              /\ rows'[p][o] <= rows[p][o] + 1
         /\ \A p \in Partitions, o \in Offsets : Handled(p, o) => Handled(p, o)'
         /\ \A p \in Partitions, o \in Offsets : <<p, o>> = Event(c) => Handled(p, o)'
  <1> USE DEF LivesInv
  <1>1. /\ work[c].part \in Partitions /\ work[c].offset \in Offsets
        /\ Event(c) = <<work[c].part, work[c].offset>>
    BY HandlerMoves
  <1>2. \/ /\ rows' = [rows EXCEPT ![work[c].part][work[c].offset] = @ + 1]
           /\ failed' = failed
        \/ /\ failed' = [failed EXCEPT ![work[c].part] = @ \cup {work[c].offset}]
           /\ rows' = rows
    BY ProcessEffect
  <1>3. ASSUME NEW p \in Partitions, NEW o \in Offsets
        PROVE  /\ rows[p][o] \in Nat
               /\ \/ rows'[p][o] = rows[p][o]
                  \/ /\ p = work[c].part /\ o = work[c].offset
                     /\ rows'[p][o] = rows[p][o] + 1
               /\ failed[p] \subseteq failed'[p]
    BY <1>1, <1>2 DEF Typed
  <1>4. ASSUME NEW p \in Partitions, NEW o \in Offsets, Handled(p, o)
        PROVE  Handled(p, o)'
    <2>1. rows[p][o] <= rows'[p][o] /\ rows[p][o] \in Nat /\ rows'[p][o] \in Nat
      BY <1>3
    <2>2. QED
      BY <1>3, <1>4, <2>1 DEF Handled
  <1>5. ASSUME NEW p \in Partitions, NEW o \in Offsets, <<p, o>> = Event(c)
        PROVE  Handled(p, o)'
    <2>1. p = work[c].part /\ o = work[c].offset
      BY <1>1, <1>5
    <2>2. CASE rows' = [rows EXCEPT ![work[c].part][work[c].offset] = @ + 1]
      <3>1. rows'[p][o] = rows[p][o] + 1
        BY <2>1, <2>2 DEF Typed
      <3>2. rows'[p][o] > 0
        BY <1>3, <3>1
      <3>3. QED
        BY <3>2 DEF Handled
    <2>3. CASE failed' = [failed EXCEPT ![work[c].part] = @ \cup {work[c].offset}]
      BY <2>1, <2>3 DEF Handled, Typed
    <2>4. QED
      BY <1>2, <2>2, <2>3
  <1>6. QED
    BY <1>1, <1>3, <1>4, <1>5

\* Only the handlers' own steps change what they have in hand, other than by
\* cutting it off.
LEMMA HasKept ==
  ASSUME NEW p, NEW o, NEW d \in Consumers,
         work'[d] = work[d] \/ (Event(d) # <<p, o>> /\ (work'[d] = Idle \/ Event(d)' = Event(d)))
  PROVE  \A A : Has(d, p, o, A)' <=> Has(d, p, o, A)
  BY DEF Has, Event

LEMMA RegroupHas ==
  ASSUME Regroup, NEW p, NEW o, <<p, o>> \notin cut', NEW d \in Consumers
  PROVE  \A A : Has(d, p, o, A)' <=> Has(d, p, o, A)
  <1>1. work'[d] = work[d] \/ (Event(d) # <<p, o>> /\ work'[d] = Idle)
    BY DEF Regroup
  <1>2. QED
    BY <1>1, HasKept

LEMMA RepeatsStep ==
  ASSUME LivesInv, GroupInv, Repeats, [Next]_vars, LivesInv'
  PROVE  Repeats'
  <1> USE DEF LivesInv
  <1> SUFFICES ASSUME NEW p \in Partitions, NEW o \in Offsets, <<p, o>> \notin cut'
               PROVE  /\ rows'[p][o] <= reset'.count + 1
                      /\ (\E c \in Consumers : Has(c, p, o, {"precommit", "process"})') =>
                           rows'[p][o] <= reset'.count
                      /\ committed'[p] <= o
                         /\ (\A c \in Consumers : ~Has(c, p, o, {"commit", "leave"})') =>
                           rows'[p][o] <= reset'.count
    BY DEF Repeats
  <1>1. /\ rows[p][o] \in Nat /\ reset.count \in Nat /\ committed[p] \in Int /\ o \in Int
        /\ rows'[p][o] \in Nat /\ committed'[p] \in Int
    <2>1. o \in Int
      BY DEF Offsets
    <2>2. rows[p][o] \in Nat /\ reset.count \in Nat /\ committed[p] \in Int
      BY DEF Typed
    <2>3. rows'[p][o] \in Nat /\ committed'[p] \in Int
      BY DEF Typed
    <2>4. QED
      BY <2>1, <2>2, <2>3
  <1>2. <<p, o>> \notin cut =>
          /\ rows[p][o] <= reset.count + 1
          /\ (\E c \in Consumers : Has(c, p, o, {"precommit", "process"})) =>
               rows[p][o] <= reset.count
          /\ committed[p] <= o /\ (\A c \in Consumers : ~Has(c, p, o, {"commit", "leave"})) =>
               rows[p][o] <= reset.count
    BY DEF Repeats
  <1>3. CASE Regroup
    <2>1. rows' = rows /\ committed' = committed /\ reset'.count = reset.count
          /\ <<p, o>> \notin cut
      BY <1>3 DEF Regroup
    <2>2. \A d \in Consumers : \A A : Has(d, p, o, A)' <=> Has(d, p, o, A)
      BY <1>3, RegroupHas
    <2>3. QED
      BY <1>2, <2>1, <2>2
  <1>4. CASE Rebalance \/ \E q \in Partitions : Publish(q)
    <2>1. UNCHANGED <<rows, committed, reset, cut, work>>
      BY <1>4 DEF Rebalance, Publish, storeVars, managerVars, counters, processVars
    <2>2. \A d \in Consumers : \A A : Has(d, p, o, A)' <=> Has(d, p, o, A)
      BY <2>1, HasKept
    <2>3. QED
      BY <1>2, <2>1, <2>2
  <1>5. CASE ResetApply
    <2>1. UNCHANGED <<rows, cut, work>>
      BY <1>5 DEF ResetApply, storeVars, counters, processVars
    <2>2. \A d \in Consumers : \A A : Has(d, p, o, A)' <=> Has(d, p, o, A)
      BY <2>1, HasKept
    <2>3. CASE members = {}
      <3>1. reset'.count = reset.count + 1
        BY <1>5, <2>3 DEF ResetApply
      <3>2. QED
        BY <1>1, <1>2, <2>1, <3>1
    <2>4. CASE members # {}
      <3>1. reset' = [reset EXCEPT !.busy = FALSE, !.offsets = Earliest]
            /\ committed' = committed
        BY <1>5, <2>4 DEF ResetApply
      <3>2. reset'.count = reset.count
        BY <3>1 DEF Typed
      <3>3. QED
        BY <1>2, <2>1, <2>2, <3>1, <3>2
    <2>5. QED
      BY <2>3, <2>4
  <1>6. ASSUME NEW c \in Consumers, NEW q \in Partitions, Fetch(c, q)
        PROVE  /\ rows'[p][o] <= reset'.count + 1
               /\ (\E d \in Consumers : Has(d, p, o, {"precommit", "process"})') =>
                    rows'[p][o] <= reset'.count
               /\ committed'[p] <= o
                  /\ (\A d \in Consumers : ~Has(d, p, o, {"commit", "leave"})') =>
                    rows'[p][o] <= reset'.count
    <2>1. /\ UNCHANGED <<rows, committed, reset, cut, st, owner, members, pos>>
          /\ work[c] = Idle /\ c \in members /\ owner[q] = c /\ Running(c)
      BY <1>6 DEF Fetch, brokerVars, storeVars, managerVars, counters, Running
    <2>2. /\ work'[c].part = q /\ work'[c].offset = pos[q]
          /\ \A d \in Consumers \ {c} : work'[d] = work[d]
      BY <1>6 DEF Fetch, Typed
    <2>3. CASE p = q /\ o = pos[q]
      <3>1. committed[p] <= o
        <4>1. work[owner[p]].at = "idle" /\ <<p, pos[p]>> \notin cut
          BY <2>1, <2>3 DEF Idle
        <4>2. QED
          BY <2>1, <2>3, <4>1 DEF GroupInv, Ahead
      <3>2. \A d \in Consumers : ~Has(d, p, o, {"commit", "leave"})
        <4> SUFFICES ASSUME NEW d \in Consumers, work[d] # Idle, Event(d) = <<p, o>>
                     PROVE  FALSE
          BY DEF Has
        <4>1. d \in members /\ owner[work[d].part] = d
          BY <2>1 DEF GroupInv, Held
        <4>2. work[d].part = p
          BY DEF Event
        <4>3. QED
          BY <2>1, <2>3, <4>1, <4>2
      <3>3. QED
        BY <1>1, <1>2, <2>1, <3>1, <3>2
    <2>4. CASE ~(p = q /\ o = pos[q])
      <3>1. Event(c)' # <<p, o>>
        BY <2>2, <2>4 DEF Event
      <3>2. \A d \in Consumers : \A A : Has(d, p, o, A)' <=> Has(d, p, o, A)
        BY <2>1, <2>2, <3>1 DEF Has, Event
      <3>3. QED
        BY <1>2, <2>1, <3>2
    <2>5. QED
      BY <2>3, <2>4
  <1>7. ASSUME NEW c \in Consumers,
               PreCommit(c) \/ Process(c) \/ CommitAfter(c) \/ CommitCancelled(c)
               \/ CommitFails(c)
        PROVE  /\ rows'[p][o] <= reset'.count + 1
               /\ (\E d \in Consumers : Has(d, p, o, {"precommit", "process"})') =>
                    rows'[p][o] <= reset'.count
               /\ committed'[p] <= o
                  /\ (\A d \in Consumers : ~Has(d, p, o, {"commit", "leave"})') =>
                    rows'[p][o] <= reset'.count
    <2>1. /\ work[c] # Idle /\ work[c].part \in Partitions /\ work[c].offset \in Offsets
          /\ reset' = reset /\ cut \subseteq cut'
          /\ \A d \in Consumers \ {c} : work'[d] = work[d] /\ Event(d)' = Event(d)
          /\ work'[c] = Idle \/ (work'[c] # Idle /\ Event(c)' = Event(c))
          /\ Event(c) = <<work[c].part, work[c].offset>>
          /\ committed[work[c].part] <= work[c].offset + 1 \/ ~MayCommit(c)
      BY <1>7, HandlerMoves
    <2>2. <<p, o>> \notin cut
      BY <2>1
    <2>3. work[c].offset \in Int
      BY <2>1 DEF Offsets
    <2>4. CASE Event(c) # <<p, o>>
      <3>1. \A d \in Consumers : \A A : Has(d, p, o, A)' <=> Has(d, p, o, A)
        BY <2>1, <2>4, HasKept
      <3>2. rows'[p][o] = rows[p][o]
        <4>1. CASE Process(c)
          BY <2>4, <4>1, RowEffect
        <4>2. CASE PreCommit(c) \/ CommitAfter(c) \/ CommitCancelled(c) \/ CommitFails(c)
          BY <4>2 DEF PreCommit, CommitAfter, CommitCancelled, CommitFails, storeVars
        <4>3. QED
          BY <1>7, <4>1, <4>2
      <3>3. committed'[p] <= o => committed[p] <= o
        <4>1. CASE Process(c) \/ CommitCancelled(c)
          BY <4>1 DEF Process, CommitCancelled
        <4>2. CASE MayCommit(c) /\ Commit(c)
          <5>1. MayCommit(c) /\ Commit(c)
            BY <4>2
          <5>2. committed'[p] = IF p = work[c].part THEN work[c].offset + 1 ELSE committed[p]
            BY <2>1, <5>1, CommitEffect
          <5>3. CASE p = work[c].part
            BY <1>1, <2>1, <2>3, <5>1, <5>2, <5>3
          <5>4. CASE p # work[c].part
            BY <5>2, <5>4
          <5>5. QED
            BY <5>3, <5>4
        <4>3. CASE committed' = committed
          BY <4>3
        <4>4. QED
          BY <1>7, <4>1, <4>2, <4>3 DEF PreCommit, CommitAfter, CommitFails
      <3>4. QED
        BY <1>2, <2>1, <2>2, <3>1, <3>2, <3>3
    <2>5. CASE Event(c) = <<p, o>>
      <3>1. p = work[c].part /\ o = work[c].offset
        BY <2>1, <2>5
      <3>2. \A d \in Consumers : (\E A : Has(d, p, o, A)') => d = c
        <4> SUFFICES ASSUME NEW d \in Consumers, d # c, work[d] # Idle, Event(d) = <<p, o>>
                     PROVE  FALSE
          BY <2>1 DEF Has
        <4>1. QED
          BY <2>1, <2>2, <2>5, HeldOnce
      <3>3. CASE PreCommit(c)
        <4>1. work[c].at = "precommit" /\ rows' = rows
          BY <3>3 DEF PreCommit, storeVars
        <4>2. rows[p][o] <= reset.count
          BY <1>2, <2>1, <2>2, <2>5, <4>1 DEF Has
        <4>3. QED
          BY <1>1, <2>1, <4>1, <4>2
      <3>4. CASE Process(c)
        <4>1. work[c].at = "process" /\ committed' = committed
              /\ rows'[p][o] <= rows[p][o] + 1
          BY <3>4, RowEffect, ProcessMoves
        <4>2. rows[p][o] <= reset.count
          BY <1>2, <2>1, <2>2, <2>5, <4>1 DEF Has
        <4>3. rows'[p][o] <= reset'.count + 1
          BY <1>1, <2>1, <4>1, <4>2
        <4>4. CASE \E n : Before /\ Finish(c, n)
          <5>1. work'[c] = Idle
            BY <2>1, <4>4, JobEnds
          <5>2. ~\E d \in Consumers : Has(d, p, o, {"precommit", "process"})'
            BY <3>2, <5>1 DEF Has
          <5>3. committed[p] = o + 1
            BY <2>1, <2>2, <2>5, <3>1, <4>1, <4>4 DEF GroupInv, Held
          <5>4. ~(committed'[p] <= o)
            BY <1>1, <4>1, <5>3
          <5>5. QED
            BY <4>3, <5>2, <5>4
        <4>5. CASE \E a \in {"leave", "commit"} : work' = [work EXCEPT ![c].at = a]
          <5>1. work'[c] # Idle /\ work'[c].at \in {"leave", "commit"} /\ Event(c)' = Event(c)
            BY <2>1, <4>5, JobMoves
          <5>2. ~\E d \in Consumers : Has(d, p, o, {"precommit", "process"})'
            BY <3>2, <5>1 DEF Has
          <5>3. Has(c, p, o, {"commit", "leave"})'
            BY <2>5, <5>1 DEF Has
          <5>4. QED
            BY <4>3, <5>2, <5>3
        <4>6. QED
          BY <3>4, <4>4, <4>5, ProcessMoves
      <3>5. CASE CommitAfter(c)
        <4>1. Commit(c) /\ Finish(c, processed[c]) /\ rows' = rows
          BY <3>5 DEF CommitAfter, storeVars
        <4>2. work'[c] = Idle
          BY <2>1, <4>1, JobEnds
        <4>3. ~\E d \in Consumers : Has(d, p, o, {"precommit", "process"})'
          BY <3>2, <4>2 DEF Has
        <4>4. committed'[p] = o + 1
          BY <2>1, <3>1, <4>1, CommitEffect
        <4>5. ~(committed'[p] <= o)
          BY <1>1, <4>4
        <4>6. QED
          BY <1>2, <2>1, <2>2, <4>1, <4>3, <4>5
      <3>6. CASE CommitCancelled(c) \/ CommitFails(c)
        <4>1. Event(c) \in cut'
          BY <2>1, <3>6 DEF CommitCancelled, CommitFails, InHand, Event
        <4>2. QED
          BY <2>5, <4>1
      <3>7. QED
        BY <1>7, <3>3, <3>4, <3>5, <3>6
    <2>6. QED
      BY <2>4, <2>5
  <1>8. QED
    BY <1>3, <1>4, <1>5, <1>6, <1>7, StepKinds

\* In before-process mode on Node, the rows of an event and the consumers about
\* to write one are paid for by its commit and by the resets; its commit is
\* still unspent while the owner has yet to get past it.
Processing(p, o) == {c \in Consumers : Has(c, p, o, {"process"})}

\* The owner is about to read the event, or about to commit it.
Unspent(p, o) ==
  /\ owner[p] \in members /\ Running(owner[p]) /\ pos[p] = o
  /\ work[owner[p]].part = p => work[owner[p]].at = "precommit"

PaidFor ==
  IsNode /\ Before =>
    \A p \in Partitions, o \in Offsets :
      rows[p][o] + Cardinality(Processing(p, o))
        <= reset.count + (IF o < committed[p] /\ ~Unspent(p, o) THEN 1 ELSE 0)

LEMMA ConsumersFinite == IsFiniteSet(Consumers)
  <1>1. IsFiniteSet(1..MAX_INSTANCES)
    BY ConsumerAssumption, FS_Interval
  <1>2. QED
    BY <1>1, ConsumerAssumption, FS_Product DEF Consumers

LEMMA ProcessingShrinks ==
  ASSUME NEW S \in SUBSET Consumers, NEW T \in SUBSET Consumers
  PROVE  /\ Cardinality(S) \in Nat
         /\ T \subseteq S => Cardinality(T) <= Cardinality(S)
         /\ \A c : T \subseteq S \cup {c} => Cardinality(T) <= Cardinality(S) + 1
         /\ \A c \in S : T \subseteq S \ {c} => Cardinality(T) + 1 <= Cardinality(S)
  <1>1. IsFiniteSet(S) /\ IsFiniteSet(T)
    BY ConsumersFinite, FS_Subset
  <1>2. Cardinality(S) \in Nat /\ Cardinality(T) \in Nat
    BY <1>1, FS_CardinalityType
  <1>3. T \subseteq S => Cardinality(T) <= Cardinality(S)
    BY <1>1, FS_Subset
  <1>4. ASSUME NEW c, T \subseteq S \cup {c}
        PROVE  Cardinality(T) <= Cardinality(S) + 1
    <2>1. /\ IsFiniteSet(S \cup {c})
          /\ Cardinality(S \cup {c}) = IF c \in S THEN Cardinality(S) ELSE Cardinality(S) + 1
      BY <1>1, FS_AddElement
    <2>2. IsFiniteSet(S \cup {c}) /\ Cardinality(S \cup {c}) \in Nat
          /\ Cardinality(S \cup {c}) <= Cardinality(S) + 1
      BY <1>2, <2>1
    <2>3. Cardinality(T) <= Cardinality(S \cup {c})
      BY <1>4, <2>2, FS_Subset
    <2>4. QED
      BY <1>2, <2>2, <2>3
  <1>5. ASSUME NEW c \in S, T \subseteq S \ {c}
        PROVE  Cardinality(T) + 1 <= Cardinality(S)
    <2>1. IsFiniteSet(S \ {c}) /\ Cardinality(S \ {c}) = Cardinality(S) - 1
      BY <1>1, <1>5, FS_RemoveElement
    <2>2. Cardinality(T) <= Cardinality(S \ {c})
      BY <1>5, <2>1, FS_Subset
    <2>3. QED
      BY <1>2, <2>1, <2>2
  <1>6. QED
    BY <1>2, <1>3, <1>4, <1>5

LEMMA PaidForStep ==
  ASSUME LivesInv, GroupInv, PaidFor, [Next]_vars, LivesInv'
  PROVE  PaidFor'
  <1> USE DEF LivesInv
  <1>1. cfg' = cfg
    BY DEF Next, ConsumerStep, Expire, Join, Rejoin, Fetch, PreCommit, Process, CommitAfter,
       CommitRefused, CommitFails, CommitCancelled, LeaveWithoutCommit, Disconnect,
       RunCancelled, ProcessStep, ExitProcess, CloseReaders, ExitEvent, Rebalance, Environment, Publish,
       Evict, SpawnConsumer, Stop, StopAll, Deliver, OnModuleDestroy, ClearFinished,
       ResetRead, ResetApply, processVars, vars
  <1> SUFFICES ASSUME IsNode, Before, NEW p \in Partitions, NEW o \in Offsets
               PROVE  rows'[p][o] + Cardinality(Processing(p, o)')
                        <= reset'.count + (IF o < committed'[p] /\ ~Unspent(p, o)' THEN 1 ELSE 0)
    BY <1>1 DEF PaidFor, IsNode, Before
  <1> DEFINE S == Processing(p, o)
             T == Processing(p, o)'
             U == Unspent(p, o)
             V == Unspent(p, o)'
  <1>2. /\ rows[p][o] \in Nat /\ reset.count \in Nat /\ committed[p] \in Int
        /\ rows'[p][o] \in Nat /\ reset'.count \in Nat /\ committed'[p] \in Int
    <2>1. rows[p][o] \in Nat /\ reset.count \in Nat /\ committed[p] \in Int
      BY DEF Typed
    <2>2. rows'[p][o] \in Nat /\ reset'.count \in Nat /\ committed'[p] \in Int
      BY DEF Typed
    <2>3. QED
      BY <2>1, <2>2
  <1>3. o \in Int
    BY DEF Offsets
  <1>4. rows[p][o] + Cardinality(S) <= reset.count + (IF o < committed[p] /\ ~U THEN 1 ELSE 0)
    BY DEF PaidFor
  <1>5. S \in SUBSET Consumers /\ T \in SUBSET Consumers
    BY DEF Processing
  <1>6. /\ Cardinality(S) \in Nat /\ Cardinality(T) \in Nat
        /\ T \subseteq S => Cardinality(T) <= Cardinality(S)
        /\ \A c : T \subseteq S \cup {c} => Cardinality(T) <= Cardinality(S) + 1
        /\ \A c \in S : T \subseteq S \ {c} => Cardinality(T) + 1 <= Cardinality(S)
    <2> HIDE DEF S, T
    <2>1. QED
      BY <1>5, ProcessingShrinks
  <1>7. /\ \A c \in Consumers : c \in S <=> Has(c, p, o, {"process"})
        /\ \A c \in Consumers : c \in T <=> Has(c, p, o, {"process"})'
    BY DEF Processing
  <1>u. /\ U <=> /\ owner[p] \in members /\ st[owner[p]] \in {"run", "closing"} /\ pos[p] = o
                 /\ work[owner[p]].part = p => work[owner[p]].at = "precommit"
        /\ V <=> /\ owner'[p] \in members' /\ st'[owner'[p]] \in {"run", "closing"}
                 /\ pos'[p] = o
                 /\ work'[owner'[p]].part = p => work'[owner'[p]].at = "precommit"
    BY DEF Unspent, Running
  <1>v. Idle.part # p /\ Idle.at = "idle"
    BY ConsumerAssumption DEF Idle
  <1>w. owner[p] \in members => owner[p] \in Consumers
    BY DEF Typed
  <1> HIDE DEF S, T, U, V
  <1>8. ASSUME T \subseteq S, rows'[p][o] = rows[p][o], reset'.count = reset.count,
               o < committed[p] /\ ~U => o < committed'[p] /\ ~V
        PROVE  rows'[p][o] + Cardinality(T)
                 <= reset'.count + (IF o < committed'[p] /\ ~V THEN 1 ELSE 0)
    BY <1>2, <1>3, <1>4, <1>6, <1>8
  <1>9. CASE Regroup
    <2>1. rows' = rows /\ committed' = committed /\ reset'.count = reset.count
      BY <1>9 DEF Regroup
    <2>2. \A c \in Consumers : work'[c] = work[c] \/ work'[c] = Idle
      BY <1>9 DEF Regroup
    <2>3. T \subseteq S
      BY <1>5, <1>7, <2>2 DEF Has, Event
    <2>4. V => U
      <3> SUFFICES ASSUME V
                   PROVE  U
        OBVIOUS
      <3>1. owner'[p] = owner[p] /\ owner[p] \in members
        <4>1. None \notin members'
          BY ConsumerFacts DEF Typed
        <4>2. QED
          BY <1>9, <1>u, <4>1 DEF Regroup, GroupInv, Joined
      <3>2. work'[owner[p]] = work[owner[p]] /\ Running(owner[p])
        BY <1>9, <1>u, <1>w, <3>1 DEF Regroup, Running
      <3>3. pos' = pos
        BY <1>9 DEF Regroup
      <3>4. QED
        BY <1>u, <3>1, <3>2, <3>3 DEF Running
    <2>5. QED
      BY <1>8, <2>1, <2>3, <2>4 DEF T, V
  <1>10. CASE Rebalance \/ \E q \in Partitions : Publish(q)
    <2>1. UNCHANGED <<rows, committed, reset, work>>
      BY <1>10 DEF Rebalance, Publish, storeVars, managerVars, processVars
    <2>2. T \subseteq S
      BY <1>5, <1>7, <2>1 DEF Has, Event
    <2>3. o < committed[p] /\ ~U => ~V
      <3>1. CASE Rebalance
        <4>1. pos'[p] = StartOffset(p)
          BY <3>1 DEF Rebalance
        <4>2. 0 <= o
          BY DEF Offsets
        <4>3. QED
          BY <1>2, <1>3, <1>u, <4>1, <4>2 DEF StartOffset
      <3>2. CASE \E q \in Partitions : Publish(q)
        <4>1. UNCHANGED <<owner, members, st, pos>>
          BY <3>2 DEF Publish, processVars
        <4>2. QED
          BY <1>u, <2>1, <4>1
      <3>3. QED
        BY <1>10, <3>1, <3>2
    <2>4. QED
      BY <1>8, <2>1, <2>2, <2>3 DEF T, V
  <1>11. CASE ResetApply
    <2>1. UNCHANGED <<rows, work>>
      BY <1>11 DEF ResetApply, storeVars, processVars
    <2>2. T \subseteq S
      BY <1>5, <1>7, <2>1 DEF Has, Event
    <2>3. CASE members = {}
      <3>1. reset'.count = reset.count + 1
        BY <1>11, <2>3 DEF ResetApply
      <3>2. QED
        BY <1>2, <1>4, <1>6, <2>1, <2>2, <3>1 DEF T, V
    <2>4. CASE members # {}
      <3>1. reset' = [reset EXCEPT !.busy = FALSE, !.offsets = Earliest]
            /\ committed' = committed
        BY <1>11, <2>4 DEF ResetApply
      <3>2. reset'.count = reset.count
        BY <3>1 DEF Typed
      <3>3. V <=> U
        BY <1>11, <1>u, <2>1 DEF ResetApply, processVars
      <3>4. QED
        BY <1>8, <2>1, <2>2, <3>1, <3>2, <3>3 DEF T, V
    <2>5. QED
      BY <2>3, <2>4
  <1>12. ASSUME NEW c \in Consumers, NEW q \in Partitions, Fetch(c, q)
         PROVE  rows'[p][o] + Cardinality(T)
                  <= reset'.count + (IF o < committed'[p] /\ ~V THEN 1 ELSE 0)
    <2>1. UNCHANGED <<rows, committed, reset, owner, members, st, pos>> /\ work[c] = Idle
      BY <1>12 DEF Fetch, brokerVars, storeVars, managerVars
    <2>2. work'[c].at = "precommit" /\ \A d \in Consumers \ {c} : work'[d] = work[d]
      BY <1>12 DEF Fetch, Typed
    <2>3. T \subseteq S
      BY <1>5, <1>7, <2>2 DEF Has, Event
    <2>4. V => U
      BY <1>u, <1>v, <1>w, <2>1, <2>2
    <2>5. QED
      BY <1>8, <2>1, <2>3, <2>4
  <1>13. ASSUME NEW c \in Consumers, PreCommit(c)
         PROVE  rows'[p][o] + Cardinality(T)
                  <= reset'.count + (IF o < committed'[p] /\ ~V THEN 1 ELSE 0)
    <2>1. /\ work[c] # Idle /\ work[c].part \in Partitions /\ work[c].offset \in Int
          /\ reset' = reset /\ Event(c) = <<work[c].part, work[c].offset>>
          /\ \A d \in Consumers \ {c} : work'[d] = work[d] /\ Event(d)' = Event(d)
          /\ work'[c] = Idle \/ Event(c)' = Event(c)
      BY <1>13, HandlerMoves DEF Offsets
    <2>2. /\ rows' = rows /\ Commit(c) /\ MayCommit(c) /\ work[c].at = "precommit"
      BY <1>13 DEF PreCommit, storeVars
    <2>3. committed'[p] = IF p = work[c].part THEN work[c].offset + 1 ELSE committed[p]
      BY <2>1, <2>2, CommitEffect
    <2>4. /\ work[c].offset = pos[work[c].part] /\ owner[work[c].part] = c
          /\ c \in members /\ st[c] \in {"run", "closing"}
          /\ committed[work[c].part] <= work[c].offset + 1
          /\ UNCHANGED <<owner, members, st, pos>>
          /\ work'[c].part = work[c].part /\ work'[c].at = "process"
      <3>1. /\ work[c].offset = pos[work[c].part] /\ owner[work[c].part] = c
            /\ c \in members /\ Running(c)
        BY <2>1, <2>2 DEF GroupInv, Held, MayCommit, Lives
      <3>2. committed[work[c].part] <= work[c].offset + 1
        BY <1>13, <2>2, HandlerMoves
      <3>3. /\ UNCHANGED <<owner, members, st, pos>>
            /\ work' = [work EXCEPT ![c].at = "process"]
        BY <1>13 DEF PreCommit
      <3>4. work'[c].part = work[c].part /\ work'[c].at = "process"
        BY <2>1, <3>3, JobMoves
      <3>5. QED
        BY <3>1, <3>2, <3>3, <3>4 DEF Running
    <2>5. CASE Event(c) = <<p, o>>
      <3>1. p = work[c].part /\ o = work[c].offset
        BY <2>1, <2>5
      <3>2. T \subseteq S \cup {c}
        BY <1>5, <1>7, <2>1 DEF Has
      <3>3. o < committed'[p] /\ U /\ ~V
        BY <1>2, <1>3, <1>u, <2>2, <2>3, <2>4, <3>1
      <3>4. QED
        BY <1>2, <1>4, <1>6, <2>1, <2>2, <3>2, <3>3
    <2>6. CASE Event(c) # <<p, o>>
      <3>1. T \subseteq S
        BY <1>5, <1>7, <2>1, <2>6 DEF Has
      <3>2. o < committed[p] => o < committed'[p]
        BY <1>2, <1>3, <2>1, <2>3, <2>4
      <3>3. V => U
        <4>1. CASE owner[p] = c
          BY <1>u, <2>1, <2>4, <2>6, <4>1
        <4>2. CASE owner[p] # c
          BY <1>u, <1>w, <2>1, <2>4, <4>2
        <4>3. QED
          BY <4>1, <4>2
      <3>4. QED
        BY <1>8, <2>1, <2>2, <3>1, <3>2, <3>3
    <2>7. QED
      BY <2>5, <2>6
  <1>14. ASSUME NEW c \in Consumers, Process(c)
         PROVE  rows'[p][o] + Cardinality(T)
                  <= reset'.count + (IF o < committed'[p] /\ ~V THEN 1 ELSE 0)
    <2>1. /\ work[c] # Idle /\ work[c].at = "process" /\ UNCHANGED <<committed, reset>>
          /\ work'[c] = Idle \/ work'[c].at # "process"
      <3>1. ASSUME NEW n, Finish(c, n), work[c] # Idle
            PROVE  work'[c] = Idle
        BY <3>1, JobEnds
      <3>2. ASSUME NEW a \in {"leave", "commit"}, work' = [work EXCEPT ![c].at = a],
                   work[c] # Idle
            PROVE  work'[c].at # "process"
        BY <3>2, JobMoves
      <3>3. QED
        BY <1>14, <3>1, <3>2, ProcessMoves
    <2>2. /\ \A d \in Consumers \ {c} : work'[d] = work[d] /\ Event(d)' = Event(d)
          /\ work'[c] = Idle \/ Event(c)' = Event(c)
      BY <1>14, HandlerMoves
    <2>3. /\ rows'[p][o] <= rows[p][o] + 1
          /\ Event(c) # <<p, o>> => rows'[p][o] = rows[p][o]
      BY <1>14, RowEffect
    <2>4. T \subseteq S \ {c}
      BY <1>5, <1>7, <2>1, <2>2 DEF Has
    <2>p. o < committed[p] /\ V => U
      <3> SUFFICES ASSUME o < committed[p], V
                   PROVE  U
        OBVIOUS
      <3>1. /\ UNCHANGED <<owner, members>>
            /\ work[c].part \in Partitions /\ work[c].offset \in Int
            /\ committed[work[c].part] <= work[c].offset + 1 \/ ~MayCommit(c)
        BY <1>14, HandlerMoves DEF Offsets
      <3>2. /\ \A d \in Consumers : Running(d)' => Running(d)
            /\ \/ pos'[p] = pos[p] /\ (p # work[c].part \/ ~MayCommit(c))
               \/ p = work[c].part /\ MayCommit(c) /\ pos'[p] = work[c].offset + 1
               \/ pos' = pos /\ work'[c].part = work[c].part /\ work'[c].at # "precommit"
        <4>1. ASSUME NEW n, Finish(c, n)
              PROVE  /\ \A d \in Consumers : Running(d)' => Running(d)
                     /\ \/ pos'[p] = pos[p] /\ (p # work[c].part \/ ~MayCommit(c))
                        \/ p = work[c].part /\ MayCommit(c) /\ pos'[p] = work[c].offset + 1
          BY <2>1, <4>1, JobEnds DEF MayCommit
        <4>2. ASSUME NEW a \in {"leave", "commit"}, work' = [work EXCEPT ![c].at = a],
                     UNCHANGED <<pos, st>>
              PROVE  /\ \A d \in Consumers : Running(d)' => Running(d)
                     /\ pos' = pos /\ work'[c].part = work[c].part
                     /\ work'[c].at # "precommit"
          BY <2>1, <4>2, JobMoves DEF Running
        <4>3. QED
          BY <1>14, <4>1, <4>2, ProcessMoves
      <3>3. owner[p] \in members /\ Running(owner[p]) /\ pos'[p] = o
        BY <1>u, <1>w, <3>1, <3>2 DEF Running
      <3>4. ~(p = work[c].part /\ MayCommit(c) /\ pos'[p] = work[c].offset + 1)
        BY <1>2, <1>3, <3>1, <3>3
      <3>5. pos[p] = o
        BY <3>2, <3>3, <3>4
      <3>6. CASE owner[p] # c
        BY <1>u, <1>w, <2>2, <3>1, <3>3, <3>5, <3>6 DEF Running
      <3>7. CASE owner[p] = c
        <4>1. p # work[c].part
          BY <1>u, <3>1, <3>2, <3>3, <3>4, <3>7 DEF MayCommit
        <4>2. QED
          BY <1>u, <3>3, <3>5, <3>7, <4>1 DEF Running
      <3>8. QED
        BY <3>6, <3>7
    <2>5. CASE Event(c) = <<p, o>>
      <3>1. c \in S
        BY <1>7, <2>1, <2>5 DEF Has
      <3>2. Cardinality(T) + 1 <= Cardinality(S)
        BY <1>6, <2>4, <3>1
      <3>3. QED
        BY <1>2, <1>4, <1>6, <2>1, <2>3, <2>p, <3>2
    <2>6. CASE Event(c) # <<p, o>>
      BY <1>8, <2>1, <2>3, <2>4, <2>6, <2>p
    <2>7. QED
      BY <2>5, <2>6
  <1>15. ASSUME NEW c \in Consumers, CommitAfter(c) \/ CommitCancelled(c)
         PROVE  FALSE
    BY <1>15 DEF CommitAfter, CommitCancelled, Lives
  <1>16. ASSUME NEW c \in Consumers, CommitFails(c)
         PROVE  rows'[p][o] + Cardinality(T)
                  <= reset'.count + (IF o < committed'[p] /\ ~V THEN 1 ELSE 0)
    <2>1. /\ work[c] # Idle /\ work[c].part \in Partitions /\ work[c].offset \in Int
          /\ UNCHANGED <<reset, owner, members>>
          /\ \A d \in Consumers \ {c} : work'[d] = work[d] /\ Event(d)' = Event(d)
          /\ committed[work[c].part] <= work[c].offset + 1 \/ ~MayCommit(c)
      BY <1>16, HandlerMoves DEF Offsets
    <2>2. /\ MayCommit(c) /\ UNCHANGED <<rows, pos, st>> /\ work[c].at = "precommit"
          /\ work'[c] = Idle /\ (Commit(c) \/ committed' = committed)
      BY <1>16 DEF CommitFails, storeVars, Lives, Typed
    <2>3. T \subseteq S
      BY <1>5, <1>7, <2>1, <2>2 DEF Has
    <2>4. o < committed[p] => o < committed'[p]
      <3>1. CASE Commit(c)
        <4>1. committed'[p] = IF p = work[c].part THEN work[c].offset + 1 ELSE committed[p]
          BY <2>1, <3>1, CommitEffect
        <4>2. QED
          BY <1>2, <1>3, <2>1, <2>2, <4>1
      <3>2. QED
        BY <2>2, <3>1
    <2>5. V => U
      <3>1. CASE owner[p] = c
        BY <1>u, <2>1, <2>2, <3>1
      <3>2. CASE owner[p] # c
        BY <1>u, <1>w, <2>1, <2>2, <3>2
      <3>3. QED
        BY <3>1, <3>2
    <2>6. QED
      BY <1>8, <2>1, <2>2, <2>3, <2>4, <2>5
  <1>17. QED
    BY <1>9, <1>10, <1>11, <1>12, <1>13, <1>14, <1>15, <1>16, StepKinds DEF T, V

\* An event is processed a second time only by a reset or, where the mode allows
\* it at all, after a consumer was cut off with it in hand.
THEOREM RepeatsAreExplained == Spec => []RepeatsExplained
  <1>1. Init => Repeats /\ PaidFor
    <2> SUFFICES ASSUME Init
                 PROVE  Repeats /\ PaidFor
      OBVIOUS
    <2>1. /\ reset.count = 0 /\ \A c \in Consumers : work[c] = Idle
          /\ \A p \in Partitions, o \in Offsets : rows[p][o] = 0
          /\ \A p \in Partitions : committed[p] = -1
      BY DEF Init
    <2>2. Repeats
      BY <2>1 DEF Repeats
    <2>3. \A p, o : Processing(p, o) = {}
      BY <2>1 DEF Processing, Has
    <2>4. \A p \in Partitions, o \in Offsets : ~(o < committed[p])
      BY <2>1 DEF Offsets
    <2>5. PaidFor
      <3>1. \A p \in Partitions, o \in Offsets : Cardinality(Processing(p, o)) = 0
        BY <2>3, FS_EmptySet
      <3>2. QED
        BY <2>1, <2>4, <3>1 DEF PaidFor
    <2>6. QED
      BY <2>2, <2>5
  <1>2. LivesInv /\ GroupInv /\ (Repeats /\ PaidFor) /\ [Next]_vars => Repeats' /\ PaidFor'
    BY GroupStep, RepeatsStep, PaidForStep
  <1>3. LivesInv /\ GroupInv /\ Repeats /\ PaidFor => RepeatsExplained
    <2> SUFFICES ASSUME LivesInv, Repeats, PaidFor
                 PROVE  RepeatsExplained
      OBVIOUS
    <2>1. /\ reset.count \in Nat
          /\ \A p \in Partitions, o \in Offsets : rows[p][o] \in Nat
      BY DEF LivesInv, Typed
    <2>2. DuplicatesWereCut
      BY <2>1 DEF Repeats, DuplicatesWereCut
    <2>3. AtMostOnce
      <3> SUFFICES ASSUME IsNode, Before, NEW p \in Partitions, NEW o \in Offsets
                   PROVE  rows[p][o] <= 1 + reset.count
        BY DEF AtMostOnce
      <3>1. Processing(p, o) \in SUBSET Consumers
        BY DEF Processing
      <3>2. Cardinality(Processing(p, o)) \in Nat
        BY <3>1, ProcessingShrinks
      <3>3. rows[p][o] + Cardinality(Processing(p, o))
              <= reset.count + (IF o < committed[p] /\ ~Unspent(p, o) THEN 1 ELSE 0)
        BY DEF PaidFor
      <3>4. QED
        BY <2>1, <3>2, <3>3
    <2>4. QED
      BY <2>2, <2>3 DEF RepeatsExplained
  <1>4. QED
    BY <1>1, <1>2, <1>3, GroupHolds, PTL DEF Spec

-----------------------------------------------------------------------------
(* What is passed over *)

\* Somebody has the event in hand.
InHands(p, o) == \E c \in Consumers : work[c] # Idle /\ Event(c) = <<p, o>>

\* The group has passed the event: it is committed, or the running owner of its
\* partition reads beyond it.
Passed(p, o) ==
  \/ o < committed[p]
  \/ owner[p] \in members /\ Running(owner[p]) /\ o < pos[p]

\* An event at a step behind process() is handled.
BehindProcess ==
  \A c \in Consumers, p \in Partitions, o \in Offsets :
    Has(c, p, o, {"commit", "leave"}) => Handled(p, o)

\* From the beginning and unless a reset skipped events, what the group has
\* passed is handled, or before-process committed it first.
PassedHandled ==
  cfg.fromBeginning /\ ~reset.skipped =>
    \A p \in Partitions, o \in Offsets : Passed(p, o) =>
      \/ Handled(p, o)
      \/ Before /\ (<<p, o>> \in cut \/ InHands(p, o))

LEMMA HandledKept ==
  ASSUME UNCHANGED <<rows, failed>>
  PROVE  \A p, o : Handled(p, o)' <=> Handled(p, o)
  BY DEF Handled

LEMMA BehindProcessStep ==
  ASSUME LivesInv, GroupInv, BehindProcess, [Next]_vars
  PROVE  BehindProcess'
  <1> USE DEF LivesInv
  <1> SUFFICES ASSUME NEW d \in Consumers, NEW p \in Partitions, NEW o \in Offsets,
                      Has(d, p, o, {"commit", "leave"})'
               PROVE  Handled(p, o)'
    BY DEF BehindProcess
  <1>1. Has(d, p, o, {"commit", "leave"}) => Handled(p, o)
    BY DEF BehindProcess
  <1>2. CASE Regroup
    BY <1>1, <1>2, HandledKept DEF Regroup, Has, Event
  <1>3. CASE Rebalance \/ ResetApply \/ \E q \in Partitions : Publish(q)
    <2>1. UNCHANGED <<rows, failed, work>>
      BY <1>3 DEF Rebalance, ResetApply, Publish, storeVars, processVars
    <2>2. QED
      BY <1>1, <2>1, HandledKept DEF Has, Event
  <1>4. ASSUME NEW c \in Consumers, NEW q \in Partitions, Fetch(c, q)
        PROVE  Handled(p, o)'
    <2>1. UNCHANGED <<rows, failed>> /\ work'[c].at \in {"precommit", "process"}
          /\ \A e \in Consumers \ {c} : work'[e] = work[e]
      BY <1>4 DEF Fetch, storeVars, Typed
    <2>2. QED
      BY <1>1, <2>1, HandledKept DEF Has, Event
  <1>5. ASSUME NEW c \in Consumers, Process(c)
        PROVE  Handled(p, o)'
    <2>1. /\ \A e \in Consumers \ {c} : work'[e] = work[e] /\ Event(e)' = Event(e)
          /\ work'[c] = Idle \/ Event(c)' = Event(c)
      BY <1>5, HandlerMoves
    <2>2. CASE d = c
      <3>1. <<p, o>> = Event(c)
        BY <2>1, <2>2 DEF Has
      <3>2. QED
        BY <1>5, <3>1, RowEffect
    <2>3. CASE d # c
      <3>1. Handled(p, o)
        BY <1>1, <2>1, <2>3 DEF Has
      <3>2. QED
        BY <1>5, <3>1, RowEffect
    <2>4. QED
      BY <2>2, <2>3
  <1>6. ASSUME NEW c \in Consumers,
               PreCommit(c) \/ CommitAfter(c) \/ CommitCancelled(c) \/ CommitFails(c)
        PROVE  Handled(p, o)'
    <2>1. /\ \A e \in Consumers \ {c} : work'[e] = work[e] /\ Event(e)' = Event(e)
          /\ work[c] # Idle
      BY <1>6, HandlerMoves
    <2>2. UNCHANGED <<rows, failed>>
      BY <1>6 DEF PreCommit, CommitAfter, CommitCancelled, CommitFails, storeVars
    <2>3. work'[c] = Idle \/ work'[c].at = "process"
      <3>1. \/ work' = [work EXCEPT ![c].at = "process"]
            \/ Finish(c, processed[c])
            \/ work'[c] = Idle
        BY <1>6 DEF PreCommit, CommitAfter, CommitCancelled, CommitFails, Typed
      <3>2. QED
        BY <2>1, <3>1, JobMoves, JobEnds
    <2>4. QED
      BY <1>1, <2>1, <2>2, <2>3, HandledKept DEF Has
  <1>7. QED
    BY <1>2, <1>3, <1>4, <1>5, <1>6, StepKinds

\* A handler's step moves the offsets past the event in hand only.
LEMMA HandlerPasses ==
  ASSUME LivesInv, GroupInv, NEW c \in Consumers,
         PreCommit(c) \/ Process(c) \/ CommitAfter(c) \/ CommitCancelled(c)
         \/ CommitFails(c),
         NEW p \in Partitions, NEW o \in Offsets, Passed(p, o)'
  PROVE  Passed(p, o) \/ <<p, o>> = Event(c)
  <1> USE DEF LivesInv
  <1>1. /\ work[c] # Idle /\ work[c].part \in Partitions /\ work[c].offset \in Int
        /\ UNCHANGED <<owner, members>>
        /\ Event(c) = <<work[c].part, work[c].offset>>
    BY HandlerMoves DEF Offsets
  <1>2. o \in Int /\ pos[p] \in Int /\ committed[p] \in Int
    <2>1. o \in Int
      BY DEF Offsets
    <2>2. QED
      BY <2>1 DEF Typed
  <1>3. MayCommit(c) /\ p = work[c].part =>
          owner[p] \in members /\ Running(owner[p]) /\ pos[p] = work[c].offset
    BY <1>1 DEF GroupInv, Held, MayCommit, Lives
  <1>4. ASSUME NEW n, Finish(c, n)
        PROVE  /\ \A d \in Consumers : Running(d)' => Running(d)
               /\ \/ pos'[p] = pos[p]
                  \/ /\ p = work[c].part /\ MayCommit(c)
                     /\ pos'[p] = work[c].offset + 1
    BY <1>1, <1>4, JobEnds DEF MayCommit
  <1>5. /\ \A d \in Consumers : Running(d)' => Running(d)
        /\ \/ pos'[p] = pos[p]
           \/ p = work[c].part /\ MayCommit(c) /\ pos'[p] = work[c].offset + 1
    <2>1. st' = st => \A d \in Consumers : Running(d)' => Running(d)
      BY DEF Running
    <2>2. CASE Process(c)
      BY <1>4, <2>1, <2>2, ProcessMoves
    <2>3. CASE PreCommit(c) \/ CommitAfter(c) \/ CommitCancelled(c)
      BY <1>4, <2>1, <2>3 DEF PreCommit, CommitAfter, CommitCancelled
    <2>4. CASE CommitFails(c)
      BY <2>4 DEF CommitFails, Running, Typed
    <2>5. QED
      BY <2>2, <2>3, <2>4
  <1>6. \/ committed'[p] = committed[p]
        \/ p = work[c].part /\ MayCommit(c) /\ committed'[p] = work[c].offset + 1
    <2>1. CASE Commit(c) /\ MayCommit(c)
      BY <1>1, <2>1, CommitEffect
    <2>2. CASE committed' = committed
      BY <2>2
    <2>3. QED
      BY <2>1, <2>2 DEF PreCommit, CommitAfter, CommitFails, Process, CommitCancelled
  <1>7. \/ o < committed'[p]
        \/ owner[p] \in members /\ st'[owner[p]] \in {"run", "closing"} /\ o < pos'[p]
    BY <1>1 DEF Passed, Running
  <1>8. owner[p] \in members => owner[p] \in Consumers
    BY DEF Typed
  <1>9. \/ o < committed[p]
        \/ owner[p] \in members /\ Running(owner[p]) /\ o < pos[p]
        \/ p = work[c].part /\ MayCommit(c) /\ o < work[c].offset + 1
    BY <1>5, <1>6, <1>7, <1>8 DEF Running
  <1>10. CASE p = work[c].part /\ MayCommit(c) /\ o < work[c].offset + 1
    <2>1. o = work[c].offset \/ o < pos[p]
      BY <1>1, <1>2, <1>3, <1>10
    <2>2. QED
      BY <1>1, <1>3, <1>10, <2>1 DEF Passed
  <1>11. QED
    BY <1>9, <1>10 DEF Passed

LEMMA PassedHandledStep ==
  ASSUME LivesInv, GroupInv, BehindProcess, PassedHandled, [Next]_vars
  PROVE  PassedHandled'
  <1> USE DEF LivesInv
  <1>1. \A p \in Partitions, o \in Offsets : o \in Int /\ 0 <= o
    BY DEF Offsets
  <1>2. CASE Regroup
    <2> SUFFICES ASSUME cfg.fromBeginning, ~reset.skipped,
                        NEW p \in Partitions, NEW o \in Offsets, Passed(p, o)'
                 PROVE  \/ Handled(p, o)'
                        \/ Before /\ (<<p, o>> \in cut' \/ InHands(p, o)')
      BY <1>2 DEF PassedHandled, Regroup, Before
    <2>1. UNCHANGED <<committed, pos, rows, failed>> /\ cut \subseteq cut'
      BY <1>2 DEF Regroup
    <2>2. Passed(p, o)
      <3>1. CASE o < committed'[p]
        BY <2>1, <3>1 DEF Passed
      <3>2. CASE /\ owner'[p] \in members' /\ st'[owner'[p]] \in {"run", "closing"}
                 /\ o < pos'[p]
        <4>1. owner'[p] = owner[p] /\ owner[p] \in members /\ owner[p] \in Consumers
          <5>1. None \notin members'
            BY LivesStep, ConsumerFacts DEF Typed
          <5>2. QED
            BY <1>2, <3>2, <5>1 DEF Regroup, GroupInv, Joined, Typed
        <4>2. Running(owner[p])
          BY <1>2, <3>2, <4>1 DEF Regroup, Running
        <4>3. QED
          BY <2>1, <3>2, <4>1, <4>2 DEF Passed
      <3>3. QED
        BY <3>1, <3>2 DEF Passed, Running
    <2>3. InHands(p, o) => <<p, o>> \in cut' \/ InHands(p, o)'
      BY <1>2 DEF Regroup, InHands, Event
    <2>4. QED
      BY <2>1, <2>2, <2>3, HandledKept DEF PassedHandled
  <1>3. CASE Rebalance \/ \E q \in Partitions : Publish(q)
    <2> SUFFICES ASSUME cfg.fromBeginning, ~reset.skipped,
                        NEW p \in Partitions, NEW o \in Offsets, Passed(p, o)'
                 PROVE  \/ Handled(p, o)'
                        \/ Before /\ (<<p, o>> \in cut' \/ InHands(p, o)')
      BY <1>3 DEF PassedHandled, Rebalance, Publish, managerVars, processVars, Before
    <2>1. UNCHANGED <<committed, rows, failed, cut, work, members>>
      BY <1>3 DEF Rebalance, Publish, storeVars, counters, processVars
    <2>2. Passed(p, o)
      <3>1. CASE Rebalance
        <4>1. pos'[p] = StartOffset(p)
          BY <3>1 DEF Rebalance
        <4>2. o < committed'[p] \/ o < pos'[p]
          BY DEF Passed
        <4>3. o < committed[p]
          BY <1>1, <2>1, <4>1, <4>2 DEF StartOffset
        <4>4. QED
          BY <4>3 DEF Passed
      <3>2. CASE \E q \in Partitions : Publish(q)
        BY <2>1, <3>2 DEF Publish, processVars, Passed, Running
      <3>3. QED
        BY <1>3, <3>1, <3>2
    <2>3. InHands(p, o)' <=> InHands(p, o)
      BY <2>1 DEF InHands, Event
    <2>4. QED
      BY <2>1, <2>2, <2>3, HandledKept DEF PassedHandled
  <1>4. CASE ResetApply
    <2>1. UNCHANGED <<cfg, rows, failed, cut, work, st, members, owner, pos>>
      BY <1>4 DEF ResetApply, storeVars, processVars, counters
    <2>2. \A p, o : InHands(p, o)' <=> InHands(p, o)
      BY <2>1 DEF InHands, Event
    <2>3. CASE members = {}
      <3>1. /\ committed' = reset.offsets
            /\ reset'.skipped = (reset.skipped \/ reset.offsets # Earliest)
        BY <1>4, <2>3 DEF ResetApply
      <3>2. ~reset'.skipped => \A p \in Partitions : committed'[p] = 0
        BY <3>1 DEF Earliest
      <3>3. \A p \in Partitions, o \in Offsets : ~reset'.skipped => ~Passed(p, o)'
        BY <1>1, <2>1, <2>3, <3>2 DEF Passed
      <3>4. QED
        BY <3>3 DEF PassedHandled
    <2>4. CASE members # {}
      <3>1. reset' = [reset EXCEPT !.busy = FALSE, !.offsets = Earliest]
            /\ committed' = committed
        BY <1>4, <2>4 DEF ResetApply
      <3>2. reset'.skipped = reset.skipped
        BY <3>1 DEF Typed
      <3>3. \A p, o : Passed(p, o)' <=> Passed(p, o)
        BY <2>1, <3>1 DEF Passed, Running
      <3>4. QED
        BY <2>1, <2>2, <3>2, <3>3, HandledKept DEF PassedHandled, Before
    <2>5. QED
      BY <2>3, <2>4
  <1>5. ASSUME NEW c \in Consumers, NEW q \in Partitions, Fetch(c, q)
        PROVE  PassedHandled'
    <2>1. /\ UNCHANGED <<cfg, rows, failed, cut, st, members, owner, pos, committed, reset>>
          /\ work[c] = Idle
      BY <1>5 DEF Fetch, brokerVars, storeVars, managerVars, counters
    <2>2. \A d \in Consumers \ {c} : work'[d] = work[d]
      BY <1>5 DEF Fetch, Typed
    <2>3. \A p, o : InHands(p, o) => InHands(p, o)'
      BY <2>1, <2>2 DEF InHands, Event
    <2>4. \A p, o : Passed(p, o)' <=> Passed(p, o)
      BY <2>1 DEF Passed, Running
    <2>5. QED
      BY <2>1, <2>3, <2>4, HandledKept DEF PassedHandled, Before
  <1>6. ASSUME NEW c \in Consumers,
               PreCommit(c) \/ Process(c) \/ CommitAfter(c) \/ CommitCancelled(c)
               \/ CommitFails(c)
        PROVE  PassedHandled'
    <2>1. /\ work[c] # Idle /\ work[c].part \in Partitions /\ work[c].offset \in Offsets
          /\ UNCHANGED <<cfg, reset>> /\ cut \subseteq cut'
          /\ \A d \in Consumers \ {c} : work'[d] = work[d] /\ Event(d)' = Event(d)
          /\ work'[c] = Idle \/ (work'[c] # Idle /\ Event(c)' = Event(c))
          /\ Event(c) = <<work[c].part, work[c].offset>>
      BY <1>6, HandlerMoves
    <2>2. \A p \in Partitions, o \in Offsets : Handled(p, o) => Handled(p, o)'
      <3>1. CASE Process(c)
        BY <3>1, RowEffect
      <3>2. CASE PreCommit(c) \/ CommitAfter(c) \/ CommitCancelled(c) \/ CommitFails(c)
        BY <3>2, HandledKept DEF PreCommit, CommitAfter, CommitCancelled, CommitFails, storeVars
      <3>3. QED
        BY <1>6, <3>1, <3>2
    <2>3. ASSUME NEW p \in Partitions, NEW o \in Offsets, <<p, o>> = Event(c)
          PROVE  \/ Handled(p, o)'
                 \/ Before /\ (<<p, o>> \in cut' \/ InHands(p, o)')
      <3>1. CASE Process(c)
        BY <2>3, <3>1, RowEffect
      <3>2. CASE work[c].at = "commit"
        <4>1. Has(c, p, o, {"commit", "leave"})
          BY <2>1, <2>3, <3>2 DEF Has
        <4>2. Handled(p, o)
          BY <4>1 DEF BehindProcess
        <4>3. QED
          BY <2>2, <4>2
      <3>3. CASE work[c].at = "precommit" /\ work' = [work EXCEPT ![c].at = "process"]
        <4>1. work'[c] # Idle /\ Event(c)' = Event(c)
          BY <2>1, <3>3, JobMoves
        <4>2. InHands(p, o)'
          BY <2>3, <4>1 DEF InHands
        <4>3. Before
          BY <3>3 DEF Lives
        <4>4. QED
          BY <4>2, <4>3
      <3>4. CASE CommitFails(c) /\ work[c].at = "precommit"
        <4>1. Event(c) \in cut'
          BY <2>1, <3>4 DEF CommitFails, InHand, Event
        <4>2. Before
          BY <3>4 DEF Lives
        <4>3. QED
          BY <2>3, <4>1, <4>2
      <3>5. QED
        BY <1>6, <3>1, <3>2, <3>3, <3>4 DEF PreCommit, CommitAfter, CommitCancelled, CommitFails
    <2>4. ASSUME NEW p \in Partitions, NEW o \in Offsets, <<p, o>> # Event(c), InHands(p, o)
          PROVE  InHands(p, o)'
      <3>1. PICK d \in Consumers : work[d] # Idle /\ Event(d) = <<p, o>>
        BY <2>4 DEF InHands
      <3>2. d # c
        BY <2>4, <3>1
      <3>3. work'[d] # Idle /\ Event(d)' = <<p, o>>
        BY <2>1, <3>1, <3>2
      <3>4. QED
        BY <3>3 DEF InHands
    <2> SUFFICES ASSUME cfg.fromBeginning, ~reset.skipped,
                        NEW p \in Partitions, NEW o \in Offsets, Passed(p, o)'
                 PROVE  \/ Handled(p, o)'
                        \/ Before /\ (<<p, o>> \in cut' \/ InHands(p, o)')
      BY <2>1 DEF PassedHandled, Before
    <2>5. Passed(p, o) \/ <<p, o>> = Event(c)
      BY <1>6, HandlerPasses
    <2>6. QED
      BY <2>1, <2>2, <2>3, <2>4, <2>5 DEF PassedHandled
  <1>7. QED
    BY <1>2, <1>3, <1>4, <1>5, <1>6, StepKinds

ReadInv == BehindProcess /\ PassedHandled

LEMMA ReadHolds == Spec => []ReadInv
  <1>1. Init => ReadInv
    <2> SUFFICES ASSUME Init
                 PROVE  ReadInv
      OBVIOUS
    <2>1. /\ \A p \in Partitions : committed[p] = -1 /\ pos[p] = -1
          /\ \A c \in Consumers : work[c] = Idle
      BY DEF Init
    <2>2. \A o \in Offsets : ~(o < -1)
      BY DEF Offsets
    <2>3. QED
      BY <2>1, <2>2 DEF ReadInv, BehindProcess, PassedHandled, Has, Passed
  <1>2. LivesInv /\ GroupInv /\ ReadInv /\ [Next]_vars => ReadInv'
    BY BehindProcessStep, PassedHandledStep DEF ReadInv
  <1>3. QED
    BY <1>1, <1>2, GroupHolds, PTL DEF Spec

\* What the log holds below an offset are events.
LEMMA BelowLog ==
  ASSUME LivesInv, GroupInv, NEW p \in Partitions,
         NEW n \in {committed[p], pos[p], high[p]}, NEW o \in Int, 0 <= o, o < n
  PROVE  o \in Offsets
  <1>1. committed[p] \in Int /\ pos[p] \in Int /\ high[p] \in Int /\ MaxEvents \in Int
    BY ConsumerAssumption DEF LivesInv, Typed
  <1>2. n <= MaxEvents
    BY <1>1 DEF GroupInv, Bounds
  <1>3. QED
    BY <1>1, <1>2 DEF Offsets

\* Committed and not handled: before-process has cut such events off or has them
\* in hand, and the lag of after-process counts every one.
THEOREM LossIsExplained == Spec => []LossExplained
  <1>1. ASSUME LivesInv, GroupInv, ReadInv
        PROVE  LossExplained
    <2> USE <1>1 DEF LivesInv
    <2>1. ASSUME cfg.fromBeginning, ~reset.skipped, NEW p \in Partitions,
                 NEW o \in Int, 0 <= o, o < committed[p]
          PROVE  \/ Handled(p, o)
                 \/ Before /\ (<<p, o>> \in cut \/ InHands(p, o))
      <3>1. o \in Offsets
        BY <2>1, BelowLog
      <3>2. QED
        BY <2>1, <3>1 DEF ReadInv, PassedHandled, Passed
    <2>2. \A p, o : InHands(p, o) => <<p, o>> \in InHand(Consumers)
      BY DEF InHands, InHand, Event
    <2>3. LossWasCut
      <3> SUFFICES ASSUME Before, cfg.fromBeginning, ~reset.skipped, NEW p \in Partitions,
                          NEW o \in 0..(committed[p] - 1)
                   PROVE  Handled(p, o) \/ <<p, o>> \in cut \cup InHand(Consumers)
        BY DEF LossWasCut
      <3>1. o \in Int /\ 0 <= o /\ o < committed[p]
        BY DEF Typed
      <3>2. QED
        BY <2>1, <2>2, <3>1
    <2>4. LagNeverHidesEvents
      <3> SUFFICES ASSUME ~Before, cfg.fromBeginning, ~reset.skipped, NEW p \in Partitions
                   PROVE  Cardinality({o \in 0..(high[p] - 1) : ~Handled(p, o)}) <= Lag(p)
        BY DEF LagNeverHidesEvents
      <3> DEFINE low == IF committed[p] >= 0 THEN committed[p] ELSE 0
                 S == {o \in 0..(high[p] - 1) : ~Handled(p, o)}
                 T == low..(high[p] - 1)
      <3>1. /\ high[p] \in Nat /\ committed[p] \in Int /\ committed[p] <= high[p]
            /\ low \in Nat /\ low <= high[p] /\ Lag(p) = high[p] - low
        BY DEF Typed, GroupInv, Bounds, Lag
      <3>2. S \subseteq T
        <4> SUFFICES ASSUME NEW o \in 0..(high[p] - 1), ~Handled(p, o)
                     PROVE  o \in T
          OBVIOUS
        <4>1. o \in Int /\ 0 <= o /\ o <= high[p] - 1
          BY <3>1
        <4>2. ~(o < committed[p])
          BY <2>1, <4>1
        <4>3. QED
          BY <3>1, <4>1, <4>2
      <3> HIDE DEF low
      <3>3. high[p] - 1 \in Int /\ low \in Int
        BY <3>1
      <3>4. IsFiniteSet(T) /\ Cardinality(T) = IF low > high[p] - 1 THEN 0
                                                ELSE (high[p] - 1) - low + 1
        BY <3>3, FS_Interval
      <3>5. Cardinality(T) = high[p] - low
        BY <3>1, <3>4
      <3> HIDE DEF S, T
      <3>6. Cardinality(S) <= Cardinality(T)
        BY <3>2, <3>4, FS_Subset
      <3>7. QED
        BY <3>1, <3>5, <3>6 DEF S
    <2>5. QED
      BY <2>3, <2>4 DEF LossExplained
  <1>2. QED
    BY <1>1, GroupHolds, ReadHolds, PTL

\* after-process, read from the beginning: no step moves the position of a
\* partition past an event that nobody has handled.
THEOREM ReadAtLeastOnce == Spec => AtLeastOnceFromBeginning
  <1>1. ASSUME LivesInv, GroupInv, ReadInv, [Next]_vars,
               ~Before, ~reset.skipped, cfg.fromBeginning
        PROVE  PassesHandled
    <2> USE <1>1 DEF LivesInv
    <2> SUFFICES ASSUME NEW p \in Partitions, pos[p] >= 0,
                        NEW o \in pos[p]..(pos'[p] - 1)
                 PROVE  Handled(p, o)
      BY DEF PassesHandled
    <2>1. /\ pos[p] \in Int /\ pos'[p] \in Int /\ committed[p] \in Int
          /\ o \in Int /\ pos[p] <= o /\ o < pos'[p] /\ 0 <= o
      <3>1. pos[p] \in Int /\ committed[p] \in Int
        BY DEF Typed
      <3>2. pos'[p] \in Int
        BY LivesStep DEF Typed
      <3>3. QED
        BY <3>1, <3>2
    <2>2. CASE pos'[p] = pos[p]
      BY <2>1, <2>2
    <2>3. CASE Rebalance
      <3>1. pos'[p] = StartOffset(p)
        BY <2>3 DEF Rebalance
      <3>2. o < committed[p]
        BY <2>1, <3>1 DEF StartOffset
      <3>3. o \in Offsets
        BY <2>1, <3>2, BelowLog
      <3>4. QED
        BY <3>2, <3>3 DEF ReadInv, PassedHandled, Passed
    <2>4. ASSUME NEW c \in Consumers, CommitAfter(c) \/ CommitCancelled(c)
          PROVE  Handled(p, o)
      <3>1. CASE work[c].at = "commit" /\ Finish(c, processed[c])
        <4>1. /\ work[c] # Idle /\ work[c].part \in Partitions /\ work[c].offset \in Offsets
              /\ Event(c) = <<work[c].part, work[c].offset>>
          BY <2>4, HandlerMoves
        <4>2. pos'[p] = IF p = work[c].part /\ owner[p] = c /\ c \in members
                        THEN work[c].offset + 1 ELSE pos[p]
          BY <3>1, <4>1, JobEnds
        <4>3. CASE p = work[c].part /\ owner[p] = c /\ c \in members
          <5>1. work[c].offset = pos[p] /\ work[c].offset \in Int
            BY <2>1, <4>1, <4>3 DEF GroupInv, Held
          <5>2. o = work[c].offset
            BY <2>1, <4>2, <4>3, <5>1
          <5>3. Has(c, p, o, {"commit", "leave"})
            BY <3>1, <4>1, <4>3, <5>2 DEF Has
          <5>4. QED
            BY <4>1, <5>2, <5>3 DEF ReadInv, BehindProcess
        <4>4. CASE ~(p = work[c].part /\ owner[p] = c /\ c \in members)
          BY <2>2, <4>2, <4>4
        <4>5. QED
          BY <4>3, <4>4
      <3>2. CASE pos' = pos
        BY <2>2, <3>2
      <3>3. QED
        BY <2>4, <3>1, <3>2 DEF CommitAfter, CommitCancelled
    <2>5. ASSUME NEW c \in Consumers,
                 (\E q \in Partitions : Fetch(c, q)) \/ PreCommit(c) \/ Process(c)
                 \/ CommitFails(c)
          PROVE  pos' = pos
      <3>1. CASE Process(c)
        BY <3>1, ProcessMoves
      <3>2. CASE (\E q \in Partitions : Fetch(c, q)) \/ PreCommit(c) \/ CommitFails(c)
        BY <3>2 DEF Fetch, PreCommit, CommitFails, brokerVars
      <3>3. QED
        BY <2>5, <3>1, <3>2
    <2>6. Regroup \/ ResetApply \/ (\E q \in Partitions : Publish(q)) => pos' = pos
      BY DEF Regroup, ResetApply, Publish
    <2>7. QED
      BY <2>2, <2>3, <2>4, <2>5, <2>6, StepKinds
  <1>2. LivesInv /\ GroupInv /\ ReadInv /\ [Next]_vars
          => [~Before /\ ~reset.skipped /\ cfg.fromBeginning => PassesHandled]_vars
    BY <1>1
  <1>3. QED
    BY <1>2, GroupHolds, ReadHolds, PTL DEF Spec, AtLeastOnceFromBeginning

=============================================================================
