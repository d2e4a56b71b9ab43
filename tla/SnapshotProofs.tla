--------------------------- MODULE SnapshotProofs ---------------------------
(***************************************************************************)
(* Invariance proofs for Snapshot: for every number of tasks, saves, starts  *)
(* and faults.                                                               *)
(***************************************************************************)
EXTENDS Snapshot, TLAPS

-----------------------------------------------------------------------------
(* Only real counters are on disk *)

Kinds == {"absent", "empty", "garbage", "snapshot"}
Files == [kind : Kinds, save : Nat, ids : Nat, total : Nat, rejected : Nat]
WriteCalls == [at : {"open", "write"}, final : BOOLEAN, save : Nat,
               ids : Nat, total : Nat, rejected : Nat]

\* The kinds of the values; a save's number is at most the number of saves.
Typed ==
  /\ {enabled, overlapped, torn} \subseteq BOOLEAN
  /\ phase \in {"down", "crashed", "loading", "clearing", "running", "closing"}
  /\ ids \in Nat /\ total \in Nat /\ rejected \in Nat /\ open \in Nat
  /\ tasks \in Nat /\ saves \in Nat /\ first \in Nat /\ tasks <= MaxTasks
  /\ file \in Files /\ due \in Files /\ writes \in SUBSET WriteCalls
  /\ file.save <= saves /\ due.save <= saves
  /\ \A w \in writes : 1 <= w.save /\ w.save <= saves
  /\ used \in [once : SUBSET Nat, twice : SUBSET Nat] /\ excused \in SUBSET Nat
  /\ \A k \in used.once \cup used.twice \cup excused : k <= saves
  /\ real \in SUBSET (Nat \X Nat \X Nat)

\* A process that has not come up has no open task and no save under way.
FreshStart == ~Up => open = 0 /\ writes = {}

\* What the counters may be: no more ends than ids, and nothing counted that
\* was not taken.
Accounted ==
  /\ total + open <= ids /\ ids <= tasks
  /\ total + rejected + open <= tasks

\* The same of every figure that some process had.
RealAccounted ==
  \A r \in real : r[2] <= r[1] /\ r[1] <= tasks /\ r[2] + r[3] <= tasks

\* The counters, what is being written and what was written are such figures.
AllReal ==
  /\ <<0, 0, 0>> \in real /\ <<ids, total, rejected>> \in real
  /\ \A w \in writes : figures(w) \in real
  /\ SnapshotWasReal

SoundInv == Typed /\ FreshStart /\ Accounted /\ RealAccounted /\ AllReal

\* The inductive invariant is stronger than the checked one.
LEMMA SoundEnough == SoundInv => SnapshotSound
  <1> SUFFICES ASSUME SoundInv
               PROVE  SnapshotSound
    OBVIOUS
  <1>1. {ids, total, rejected, open} \subseteq 0..MaxTasks
    BY SnapshotAssumption DEF SoundInv, Typed, Accounted
  <1>2. /\ {file.kind, due.kind} \subseteq {"absent", "empty", "garbage", "snapshot"}
        /\ {file.save, due.save} \subseteq 0..saves
    BY DEF SoundInv, Typed, Files, Kinds
  <1>3. \A w \in writes : w.at \in {"open", "write"} /\ w.save \in 1..saves
    BY DEF SoundInv, Typed, WriteCalls
  <1>4. used.once \cup used.twice \cup excused \subseteq 0..saves
    <2> DEFINE U == used.once \cup used.twice \cup excused
    <2>1. U \subseteq Nat
      BY DEF SoundInv, Typed
    <2>2. saves \in Nat /\ \A k \in U : k <= saves
      BY DEF SoundInv, Typed
    <2> HIDE DEF U
    <2>3. U \subseteq 0..saves
      BY <2>1, <2>2
    <2>4. QED
      BY <2>3 DEF U
  <1>5. /\ {enabled, overlapped, torn} \subseteq BOOLEAN
        /\ phase \in {"down", "crashed", "loading", "clearing", "running", "closing"}
    BY DEF SoundInv, Typed
  <1>6. TypeOK
    BY <1>1, <1>2, <1>3, <1>4, <1>5 DEF TypeOK
  <1>7. SnapshotWasReal /\ CountersConsistent
    BY DEF SoundInv, AllReal, Accounted, CountersConsistent
  <1>8. QED
    BY <1>6, <1>7 DEF SnapshotSound

\* The constant files are files, and none of them is a snapshot.
LEMMA NoSnapshots ==
  /\ None \in Files /\ Empty \in Files /\ Garbage \in Files
  /\ ~Whole(None) /\ ~Whole(Empty) /\ ~Whole(Garbage)
  /\ None.save = 0 /\ Empty.save = 0 /\ Garbage.save = 0
  /\ Empty.kind = "empty" /\ None.kind = "absent" /\ Garbage.kind = "garbage"
  BY DEF None, Empty, Garbage, Whole, Files, Kinds

\* What onModuleDestroy expects its save to leave, once it is there.
LEMMA DueNoted ==
  ASSUME Typed
  PROVE  LET d == [None EXCEPT !.save = saves + 1, !.ids = ids, !.total = total,
                               !.rejected = rejected]
         IN  /\ d \in Files /\ ~Whole(d) /\ d.save = saves + 1
             /\ figures(d) = <<ids, total, rejected>>
  <1>1. saves + 1 \in Nat /\ ids \in Nat /\ total \in Nat /\ rejected \in Nat
    BY DEF Typed
  <1>2. None \in Files /\ None.kind = "absent"
    BY NoSnapshots
  <1>3. QED
    BY <1>1, <1>2 DEF Files, Whole, figures

\* Two files with the same fields are the same.
LEMMA SameFile ==
  ASSUME NEW f \in Files, NEW g \in Files, f.kind = g.kind, f.save = g.save,
         figures(f) = figures(g)
  PROVE  f = g
  BY DEF Files, figures

\* What a write call leaves in the file.
LEMMA ContentIsFile ==
  ASSUME NEW w \in WriteCalls
  PROVE  /\ content(w) \in Files /\ Whole(content(w))
         /\ content(w).save = w.save /\ figures(content(w)) = figures(w)
  BY DEF WriteCalls, content, Files, Kinds, Whole, figures

\* No process, no counters and no file at the start.
LEMMA SoundInit == Init => SoundInv
  <1> SUFFICES ASSUME Init
               PROVE  SoundInv
    OBVIOUS
  <1>1. Typed
    <2>1. {enabled, overlapped, torn} \subseteq BOOLEAN
      BY DEF Init
    <2>2. QED
      BY <2>1, NoSnapshots, SnapshotAssumption DEF Init, Typed
  <1>2. FreshStart /\ Accounted /\ RealAccounted
    BY DEF Init, FreshStart, Accounted, RealAccounted
  <1>3. AllReal
    BY NoSnapshots DEF Init, AllReal, SnapshotWasReal
  <1>4. QED
    BY <1>1, <1>2, <1>3 DEF SoundInv

\* save() adds one call with the next number and the counters of this instant.
LEMMA BeginSaveType ==
  ASSUME Typed, NEW final \in BOOLEAN, beginSave(final)
  PROVE  /\ saves' = saves + 1
         /\ writes' \in SUBSET WriteCalls
         /\ \A w \in writes' : 1 <= w.save /\ w.save <= saves'
         /\ overlapped' \in BOOLEAN
  <1> DEFINE new == [at |-> "open", final |-> final, save |-> saves + 1,
                     ids |-> ids, total |-> total, rejected |-> rejected]
  <1>1. new \in WriteCalls /\ new.save = saves + 1
    BY DEF Typed, WriteCalls
  <1>2. writes' = writes \cup {new} /\ saves' = saves + 1
    BY DEF beginSave
  <1> HIDE DEF new
  <1>3. writes' \in SUBSET WriteCalls
    BY <1>1, <1>2 DEF Typed
  <1>4. \A w \in writes' : 1 <= w.save /\ w.save <= saves'
    BY <1>1, <1>2 DEF Typed, WriteCalls
  <1>5. overlapped' \in BOOLEAN
    BY DEF beginSave
  <1>6. QED
    BY <1>2, <1>3, <1>4, <1>5

\* What the new call will write is what the process has now.
LEMMA BeginSaveReal ==
  ASSUME AllReal, NEW final \in BOOLEAN, beginSave(final), real' = real
  PROVE  \A w \in writes' : figures(w) \in real'
  <1> DEFINE new == [at |-> "open", final |-> final, save |-> saves + 1,
                     ids |-> ids, total |-> total, rejected |-> rejected]
  <1>1. figures(new) = <<ids, total, rejected>>
    BY DEF figures
  <1>2. writes' = writes \cup {new}
    BY DEF beginSave
  <1> HIDE DEF new
  <1>3. QED
    BY <1>1, <1>2 DEF AllReal

\* Every step keeps the figures real and accounted for.
LEMMA SoundStep == SoundInv /\ [Next]_vars => SoundInv'
  <1> SUFFICES ASSUME SoundInv, [Next]_vars
               PROVE  SoundInv'
    OBVIOUS
  <1> USE DEF SoundInv
  <1>1. CASE TakeTask
    <2>1. Typed'
      BY <1>1, SnapshotAssumption DEF TakeTask, Typed
    <2>2. FreshStart'
      BY <1>1 DEF TakeTask, FreshStart, Up
    <2>3. Accounted'
      BY <1>1 DEF TakeTask, Accounted, Typed
    <2>4. RealAccounted'
      BY <1>1, <2>3 DEF TakeTask, Accounted, RealAccounted, Typed
    <2>5. AllReal'
      BY <1>1 DEF TakeTask, AllReal, SnapshotWasReal
    <2>6. QED
      BY <2>1, <2>2, <2>3, <2>4, <2>5
  <1>2. CASE SettleTask
    <2>1. Typed'
      BY <1>2 DEF SettleTask, settled, Typed, bounds
    <2>2. FreshStart'
      BY <1>2 DEF SettleTask, settled, FreshStart, Up
    <2>3. Accounted'
      BY <1>2 DEF SettleTask, settled, Accounted, Typed, bounds
    <2>4. RealAccounted'
      BY <1>2, <2>3 DEF SettleTask, settled, Accounted, RealAccounted, Typed, bounds
    <2>5. AllReal'
      BY <1>2 DEF SettleTask, settled, AllReal, SnapshotWasReal
    <2>6. QED
      BY <2>1, <2>2, <2>3, <2>4, <2>5
  <1>3. CASE Start
    <2>1. Typed'
      BY <1>3 DEF Start, counters, Typed
    <2>2. FreshStart' /\ Accounted' /\ RealAccounted'
      BY <1>3 DEF Start, counters, FreshStart, Up, Accounted, RealAccounted, Typed
    <2>3. AllReal'
      BY <1>3 DEF Start, counters, AllReal, SnapshotWasReal, Typed
    <2>4. QED
      BY <2>1, <2>2, <2>3
  <1>4. CASE LoadNothing
    <2>1. Typed'
      BY <1>4, NoSnapshots DEF LoadNothing, counters, bounds, Typed
    <2>2. FreshStart' /\ Accounted' /\ RealAccounted'
      BY <1>4 DEF LoadNothing, counters, bounds, FreshStart, Up, Accounted, RealAccounted, Typed
    <2>3. AllReal'
      BY <1>4, NoSnapshots DEF LoadNothing, counters, bounds, AllReal, SnapshotWasReal, Typed
    <2>4. QED
      BY <2>1, <2>2, <2>3
  <1>4f. CASE LoadFails
    <2>1. Typed'
      BY <1>4f, NoSnapshots DEF LoadFails, counters, Typed
    <2>2. FreshStart' /\ Accounted' /\ RealAccounted'
      BY <1>4f DEF LoadFails, counters, FreshStart, Up, Accounted, RealAccounted, Typed
    <2>3. AllReal'
      BY <1>4f DEF LoadFails, counters, AllReal, SnapshotWasReal, Typed
    <2>4. QED
      BY <2>1, <2>2, <2>3
  <1>5. CASE LoadExpired
    <2>1. Typed'
      BY <1>5, NoSnapshots DEF LoadExpired, counters, bounds, Typed
    <2>2. FreshStart' /\ Accounted' /\ RealAccounted'
      BY <1>5 DEF LoadExpired, counters, bounds, FreshStart, Up, Accounted, RealAccounted, Typed
    <2>3. AllReal'
      BY <1>5, NoSnapshots DEF LoadExpired, counters, bounds, AllReal, SnapshotWasReal, Typed
    <2>4. QED
      BY <2>1, <2>2, <2>3
  <1>6. CASE Restore
    <2>1. figures(file) \in real
      BY <1>6 DEF Restore, AllReal, SnapshotWasReal
    <2>2. /\ ids' = file.ids /\ total' = file.total /\ rejected' = file.rejected
          /\ <<ids', total', rejected'>> \in real
          /\ UNCHANGED <<enabled, open, file, writes, tasks, saves, real, first, due, excused>>
      BY <1>6, <2>1 DEF Restore, setCounters, figures, bounds
    <2>3. ids' \in Nat /\ total' \in Nat /\ rejected' \in Nat
      BY <2>2 DEF Typed, Files
    <2>4. /\ used' \in [once : SUBSET Nat, twice : SUBSET Nat]
          /\ \A k \in used'.once \cup used'.twice : k <= saves
      BY <1>6 DEF Restore, Typed, Files
    <2>5. Typed'
      BY <1>6, <2>2, <2>3, <2>4 DEF Restore, Typed
    <2>6. total' <= ids' /\ ids' <= tasks /\ total' + rejected' <= tasks
      BY <2>2 DEF RealAccounted
    <2>7. FreshStart' /\ Accounted' /\ RealAccounted'
      BY <1>6, <2>2, <2>3, <2>6 DEF Restore, FreshStart, Up, Accounted, RealAccounted, Typed
    <2>8. AllReal'
      BY <2>2 DEF AllReal, SnapshotWasReal
    <2>9. QED
      BY <2>5, <2>7, <2>8
  <1>7. CASE Clear
    <2>1. Typed'
      BY <1>7, NoSnapshots DEF Clear, counters, bounds, Typed
    <2>2. FreshStart' /\ Accounted' /\ RealAccounted'
      BY <1>7 DEF Clear, counters, bounds, FreshStart, Up, Accounted, RealAccounted, Typed
    <2>3. AllReal'
      BY <1>7, NoSnapshots DEF Clear, counters, bounds, AllReal, SnapshotWasReal, Typed
    <2>4. QED
      BY <2>1, <2>2, <2>3
  <1>8. CASE ClearFails
    <2>0. file.save \in Nat /\ file.save <= saves
      BY DEF Typed, Files
    <2>1. Typed'
      <3>1. /\ excused' \in SUBSET Nat
            /\ \A k \in excused' : k <= saves
        BY <1>8, <2>0 DEF ClearFails, Typed
      <3>2. due' \in Files /\ due'.save <= saves
        BY <1>8, NoSnapshots DEF ClearFails, Typed
      <3>3. QED
        BY <1>8, <3>1, <3>2 DEF ClearFails, counters, Typed
    <2>2. FreshStart' /\ Accounted' /\ RealAccounted'
      BY <1>8 DEF ClearFails, counters, Fault, FreshStart, Up, Accounted, RealAccounted, Typed
    <2>3. AllReal'
      BY <1>8, NoSnapshots DEF ClearFails, counters, Fault, AllReal, SnapshotWasReal, Typed
    <2>4. QED
      BY <2>1, <2>2, <2>3
  <1>9. CASE SaveTick
    <2>0. /\ saves' = saves + 1
          /\ writes' \in SUBSET WriteCalls
          /\ \A w \in writes' : 1 <= w.save /\ w.save <= saves'
          /\ overlapped' \in BOOLEAN
      BY <1>9, BeginSaveType DEF SaveTick
    <2>1. Typed'
      <3>1. \A k \in Nat : k <= saves => k <= saves'
        BY <2>0 DEF Typed
      <3>2. file'.save <= saves' /\ due'.save <= saves'
        BY <1>9, <3>1 DEF SaveTick, Typed, Files
      <3>3. \A k \in (used.once \cup used.twice \cup excused)' : k <= saves'
        BY <1>9, <3>1 DEF SaveTick, Typed
      <3>4. QED
        BY <1>9, <2>0, <3>2, <3>3 DEF SaveTick, Typed, counters
    <2>2. FreshStart' /\ Accounted' /\ RealAccounted'
      BY <1>9 DEF SaveTick, counters, FreshStart, Up, Accounted, RealAccounted
    <2>3. AllReal'
      BY <1>9, BeginSaveReal DEF SaveTick, counters, AllReal, SnapshotWasReal
    <2>4. QED
      BY <2>1, <2>2, <2>3
  <1>10. ASSUME NEW w \in writes, Open(w)
        PROVE  SoundInv'
    <2>1. Typed'
      BY <1>10, NoSnapshots DEF Open, counters, bounds, ghosts, Typed, WriteCalls
    <2>2. FreshStart' /\ Accounted' /\ RealAccounted'
      BY <1>10 DEF Open, counters, bounds, ghosts, FreshStart, Up, Accounted, RealAccounted, Typed
    <2>3. AllReal'
      <3>1. figures([w EXCEPT !.at = "write"]) = figures(w)
        BY DEF Typed, WriteCalls, figures
      <3>2. \A v \in writes' : figures(v) \in real
        BY <1>10, <3>1 DEF Open, AllReal
      <3>3. QED
        BY <1>10, <3>2, NoSnapshots DEF Open, counters, ghosts, AllReal, SnapshotWasReal
    <2>4. QED
      BY <2>1, <2>2, <2>3
  <1>11. ASSUME NEW w \in writes, Write(w)
        PROVE  SoundInv'
    <2>1. Typed'
      BY <1>11, NoSnapshots, ContentIsFile DEF Write, counters, bounds, ghosts, Typed
    <2>2. FreshStart' /\ Accounted' /\ RealAccounted'
      BY <1>11 DEF Write, counters, bounds, ghosts, FreshStart, Up, Accounted, RealAccounted, Typed
    <2>3. AllReal'
      BY <1>11, NoSnapshots, ContentIsFile DEF Write, counters, bounds, ghosts, AllReal, SnapshotWasReal, Typed
    <2>4. QED
      BY <2>1, <2>2, <2>3
  <1>12. ASSUME NEW w \in writes, WriteFails(w)
        PROVE  SoundInv'
    <2>1. Typed'
      BY <1>12 DEF WriteFails, counters, Fault, Typed
    <2>2. FreshStart' /\ Accounted' /\ RealAccounted'
      BY <1>12 DEF WriteFails, counters, Fault, FreshStart, Up, Accounted, RealAccounted, Typed
    <2>3. AllReal'
      BY <1>12 DEF WriteFails, counters, Fault, AllReal, SnapshotWasReal, Typed
    <2>4. QED
      BY <2>1, <2>2, <2>3
  <1>13. CASE Destroy
    <2>1. Typed'
      <3>1. CASE enabled
        <4>1. /\ saves' = saves + 1
              /\ writes' \in SUBSET WriteCalls
              /\ \A w \in writes' : 1 <= w.save /\ w.save <= saves'
              /\ overlapped' \in BOOLEAN
          BY <1>13, <3>1, BeginSaveType DEF Destroy
        <4>2. due' \in Files /\ due'.save = saves'
          BY <1>13, <3>1, <4>1, DueNoted DEF Destroy
        <4>3. \A k \in Nat : k <= saves => k <= saves'
          BY <4>1 DEF Typed
        <4>4. file'.save <= saves' /\ due'.save <= saves'
          BY <1>13, <4>1, <4>2, <4>3 DEF Destroy, Typed, Files
        <4>5. \A k \in (used.once \cup used.twice \cup excused)' : k <= saves'
          BY <1>13, <4>3 DEF Destroy, Typed
        <4>6. QED
          BY <1>13, <4>1, <4>2, <4>4, <4>5 DEF Destroy, Typed, counters
      <3>2. CASE ~enabled
        BY <1>13, <3>2 DEF Destroy, Typed, counters
      <3>3. QED
        BY <3>1, <3>2
    <2>2. FreshStart' /\ Accounted' /\ RealAccounted'
      BY <1>13 DEF Destroy, counters, FreshStart, Up, Accounted, RealAccounted
    <2>3. AllReal'
      BY <1>13, BeginSaveReal DEF Destroy, counters, AllReal, SnapshotWasReal
    <2>4. QED
      BY <2>1, <2>2, <2>3
  <1>14. CASE Exit
    <2>0. due' \in Files /\ due'.save <= saves
      <3>1. [due EXCEPT !.kind = "snapshot"] \in Files
            /\ [due EXCEPT !.kind = "snapshot"].save = due.save
        BY DEF Typed, Files, Kinds
      <3>2. QED
        BY <1>14, <3>1, NoSnapshots DEF Exit, Typed
    <2>1. Typed'
      BY <1>14, <2>0 DEF Exit, die, Typed
    <2>2. FreshStart' /\ Accounted' /\ RealAccounted'
      BY <1>14 DEF Exit, die, FreshStart, Up, Accounted, RealAccounted, Typed
    <2>3. AllReal'
      BY <1>14, NoSnapshots DEF Exit, die, AllReal, SnapshotWasReal, Typed
    <2>4. QED
      BY <2>1, <2>2, <2>3
  <1>15. CASE Crash
    <2>0. /\ due' \in Files /\ due'.save <= saves
          /\ excused' \in SUBSET Nat /\ \A k \in excused' : k <= saves
      <3>1. due' \in Files /\ due'.save <= saves
        BY <1>15, NoSnapshots DEF Crash, Typed
      <3>2. file.save \in Nat /\ file.save <= saves
        BY DEF Typed, Files
      <3>3. excused' \in SUBSET Nat /\ \A k \in excused' : k <= saves
        BY <1>15, <3>2 DEF Crash, Typed
      <3>4. QED
        BY <3>1, <3>3
    <2>1. Typed'
      BY <1>15, <2>0 DEF Crash, die, Typed
    <2>2. FreshStart' /\ Accounted' /\ RealAccounted'
      BY <1>15 DEF Crash, die, Fault, FreshStart, Up, Accounted, RealAccounted, Typed
    <2>3. AllReal'
      BY <1>15, NoSnapshots DEF Crash, die, Fault, AllReal, SnapshotWasReal, Typed
    <2>4. QED
      BY <2>1, <2>2, <2>3
  <1>16. CASE UNCHANGED vars
    BY <1>16 DEF vars, counters, bounds, ghosts, Typed, FreshStart, Up, Accounted, RealAccounted,
                 AllReal, SnapshotWasReal
  <1>17. QED
    BY <1>1, <1>2, <1>3, <1>4, <1>4f, <1>5, <1>6, <1>7, <1>8, <1>9, <1>10, <1>11, <1>12, <1>13,
       <1>14, <1>15, <1>16
       DEF Next, Starting, Saving

\* The figures are real, accounted for and of their kinds in every state.
LEMMA SoundInvariant == Spec => []SoundInv
  BY SoundInit, SoundStep, PTL DEF Spec

\* Whatever overlaps, fails or crashes: a file that passes for a snapshot holds
\* counters that one process had at one instant, and the counters of every
\* process, restored ones too, never count more ends than ids.
THEOREM SnapshotsSound == Spec => []SnapshotSound
  BY SoundEnough, SoundInvariant, PTL

-----------------------------------------------------------------------------
(* Restored once *)

\* A save under way was never restored; a restored one is still in the file only
\* until Clear, or with an excuse.
OnceInv ==
  /\ RestoredOnce
  /\ \A w \in writes : w.save \notin used.once
  /\ Whole(file) /\ file.save \in used.once => file.save \in excused \/ phase = "clearing"

\* Every step keeps it.
LEMMA OnceStep == SoundInv /\ OnceInv /\ [Next]_vars => OnceInv'
  <1> SUFFICES ASSUME SoundInv, OnceInv, [Next]_vars
               PROVE  OnceInv'
    OBVIOUS
  <1>0. Typed /\ FreshStart
    BY DEF SoundInv
  <1> USE DEF OnceInv, RestoredOnce
  <1>1. CASE TakeTask
    BY <1>1 DEF TakeTask, Whole, Up
  <1>2. CASE SettleTask
    BY <1>2 DEF SettleTask, settled, Whole
  <1>3. CASE Start
    BY <1>3 DEF Start, Whole
  <1>4. CASE LoadNothing
    BY <1>4 DEF LoadNothing, Whole
  <1>4f. CASE LoadFails
    BY <1>4f DEF LoadFails, Whole
  <1>5. CASE LoadExpired
    BY <1>5 DEF LoadExpired, Whole
  <1>6. CASE Restore
    <2>1. writes' = {} /\ phase' = "clearing" /\ excused' = excused
      BY <1>0, <1>6 DEF Restore, FreshStart, Up
    <2>2. used'.twice \subseteq excused
      BY <1>6 DEF Restore
    <2>3. QED
      BY <2>1, <2>2
  <1>7. CASE Clear
    BY <1>7, NoSnapshots DEF Clear
  <1>8. CASE ClearFails
    BY <1>8 DEF ClearFails, Whole
  <1>9. ASSUME NEW final \in BOOLEAN, beginSave(final), used' = used
        PROVE  \A w \in writes' : w.save \notin used'.once
    <2>1. saves + 1 \notin used.once
      BY <1>0 DEF Typed
    <2>2. QED
      BY <1>9, <2>1 DEF beginSave
  <1>10. CASE SaveTick
    BY <1>9, <1>10 DEF SaveTick, Whole
  <1>11. ASSUME NEW w \in writes, Open(w)
         PROVE  OnceInv'
    <2>1. [w EXCEPT !.at = "write"].save = w.save
      BY <1>0 DEF Typed, WriteCalls
    <2>2. QED
      BY <1>11, <2>1, NoSnapshots DEF Open, ghosts
  <1>12. ASSUME NEW w \in writes, Write(w)
         PROVE  OnceInv'
    <2>1. Whole(file') => file'.save = w.save
      BY <1>0, <1>12, NoSnapshots, ContentIsFile DEF Write, Typed
    <2>2. QED
      BY <1>12, <2>1 DEF Write, ghosts
  <1>13. ASSUME NEW w \in writes, WriteFails(w)
         PROVE  OnceInv'
    BY <1>13 DEF WriteFails, Whole
  <1>14. CASE Destroy
    BY <1>9, <1>14 DEF Destroy, Whole
  <1>15. CASE Exit
    BY <1>15 DEF Exit, die, Whole
  <1>16. CASE Crash
    BY <1>16 DEF Crash, die, Whole
  <1>17. CASE UNCHANGED vars
    BY <1>17 DEF vars, ghosts, Whole
  <1>18. QED
    BY <1>1, <1>2, <1>3, <1>4, <1>4f, <1>5, <1>6, <1>7, <1>8, <1>10, <1>11, <1>12, <1>13,
       <1>14, <1>15, <1>16, <1>17
       DEF Next, Starting, Saving

\* A saved snapshot is restored a second time only if its removal failed or the
\* process died before it: no save under way brings an old one back.
THEOREM SnapshotsRestoredOnce == Spec => []RestoredOnce
  <1>1. Init => OnceInv
    BY NoSnapshots DEF Init, OnceInv, RestoredOnce
  <1>2. OnceInv => RestoredOnce
    BY DEF OnceInv
  <1>3. QED
    BY <1>1, <1>2, OnceStep, SoundInvariant, PTL DEF Spec

-----------------------------------------------------------------------------
(* The newest save is kept *)

\* A process begins no save while it starts; if its saves do not overlap it has
\* at most the newest one under way.
OneSave ==
  /\ first <= saves
  /\ phase \in {"loading", "clearing"} => first = saves
  /\ ~overlapped => \A w \in writes : writes = {w} /\ w.save = saves /\ first < saves

\* Its write finds the file as its open left it.
Opened == ~overlapped => \A w \in writes : w.at = "write" => file.kind = "empty"

\* While a process runs there is nothing to find; without persistence never.
NotDue == (Up \/ ~enabled) => ~Whole(due)

\* What onModuleDestroy noted is what its save writes and then what is there.
DueSaved ==
  phase = "closing" /\ enabled /\ ~overlapped =>
    /\ due.save = saves /\ first < saves
    /\ \A w \in writes : w.final = TRUE /\ figures(w) = figures(due)
    /\ writes = {} /\ ~torn => figures(file) = figures(due)

LatestInv == OneSave /\ Opened /\ NotDue /\ DueSaved /\ LatestSaveKept

\* A save that begins: the only one, or an overlap.
LEMMA BeginSaveLatest ==
  ASSUME SoundInv, OneSave, NEW final \in BOOLEAN, beginSave(final),
         phase' \notin {"loading", "clearing"}, UNCHANGED <<first, file>>
  PROVE  /\ OneSave' /\ Opened' /\ writes' # {}
         /\ ~overlapped' => \A w \in writes' : w.final = final /\ figures(w) = <<ids, total, rejected>>
  <1> DEFINE new == [at |-> "open", final |-> final, save |-> saves + 1,
                     ids |-> ids, total |-> total, rejected |-> rejected]
  <1>1. /\ new.save = saves + 1 /\ new.at = "open" /\ new.final = final
        /\ figures(new) = <<ids, total, rejected>>
    BY DEF figures
  <1>2. /\ writes' = writes \cup {new} /\ saves' = saves + 1
        /\ ~overlapped' => ~overlapped /\ writes = {}
    BY DEF beginSave
  <1>3. saves \in Nat /\ first \in Nat
    BY DEF SoundInv, Typed
  <1> HIDE DEF new
  <1>4. OneSave'
    BY <1>1, <1>2, <1>3 DEF OneSave
  <1>5. Opened'
    BY <1>1, <1>2 DEF Opened
  <1>6. QED
    BY <1>1, <1>2, <1>4, <1>5

\* Every step keeps the newest save.
LEMMA LatestStep == SoundInv /\ LatestInv /\ [Next]_vars => LatestInv'
  <1> SUFFICES ASSUME SoundInv, LatestInv, [Next]_vars
               PROVE  LatestInv'
    OBVIOUS
  <1>0. Typed /\ FreshStart
    BY DEF SoundInv
  <1> USE DEF LatestInv, LatestSaveKept
  <1>1. CASE TakeTask
    BY <1>1 DEF TakeTask, Up, Whole, OneSave, Opened, NotDue, DueSaved, CleanRestart, LatestWins
  <1>2. CASE SettleTask
    BY <1>2 DEF SettleTask, settled, bounds, Up, Whole, OneSave, Opened, NotDue, DueSaved,
                CleanRestart, LatestWins
  <1>3. CASE Start
    <2>1. writes' = {}
      BY <1>0, <1>3 DEF Start, FreshStart, Up
    <2>2. OneSave' /\ Opened' /\ LatestWins'
      BY <1>0, <1>3, <2>1 DEF Start, Typed, OneSave, Opened, LatestWins
    <2>3. NotDue' /\ DueSaved' /\ CleanRestart'
      BY <1>3 DEF Start, Up, Whole, NotDue, DueSaved, CleanRestart
    <2>4. QED
      BY <2>2, <2>3
  <1>4. CASE LoadNothing
    <2>1. writes' = {} /\ saves' = saves /\ first' = first /\ overlapped' = overlapped /\ enabled' = enabled
      BY <1>0, <1>4 DEF LoadNothing, FreshStart, Up, bounds
    <2>2. OneSave' /\ Opened' /\ DueSaved'
      BY <1>4, <2>1 DEF LoadNothing, OneSave, Opened, DueSaved
    <2>3. NotDue' /\ CleanRestart'
      BY <1>4, <2>1, NoSnapshots DEF LoadNothing, Up, Whole, NotDue, CleanRestart
    <2>4. LatestWins'
      BY <1>0, <1>4, <2>1 DEF LoadNothing, OneSave, Typed, LatestWins
    <2>5. QED
      BY <2>2, <2>3, <2>4
  <1>4f. CASE LoadFails
    <2>1. writes' = {} /\ saves' = saves /\ first' = first /\ overlapped' = overlapped /\ enabled' = enabled
      BY <1>0, <1>4f DEF LoadFails, FreshStart, Up
    <2>2. OneSave' /\ Opened' /\ DueSaved'
      BY <1>4f, <2>1 DEF LoadFails, OneSave, Opened, DueSaved
    <2>3. NotDue' /\ CleanRestart'
      BY <1>4f, <2>1, NoSnapshots DEF LoadFails, Up, Whole, NotDue, CleanRestart
    <2>4. LatestWins'
      BY <1>0, <1>4f, <2>1 DEF LoadFails, OneSave, Typed, LatestWins
    <2>5. QED
      BY <2>2, <2>3, <2>4
  <1>5. CASE LoadExpired
    <2>1. writes' = {} /\ saves' = saves /\ first' = first /\ overlapped' = overlapped /\ enabled' = enabled
      BY <1>0, <1>5 DEF LoadExpired, FreshStart, Up, bounds
    <2>2. OneSave' /\ Opened' /\ DueSaved'
      BY <1>5, <2>1 DEF LoadExpired, OneSave, Opened, DueSaved
    <2>3. NotDue' /\ CleanRestart'
      BY <1>5, <2>1, NoSnapshots DEF LoadExpired, Up, Whole, NotDue, CleanRestart
    <2>4. LatestWins'
      BY <1>0, <1>5, <2>1 DEF LoadExpired, OneSave, Typed, LatestWins, Up
    <2>5. QED
      BY <2>2, <2>3, <2>4
  <1>6. CASE Restore
    <2>1. writes' = {} /\ saves' = saves /\ first' = first /\ overlapped' = overlapped /\ enabled' = enabled
      BY <1>0, <1>6 DEF Restore, FreshStart, Up, bounds
    <2>2. OneSave' /\ Opened' /\ DueSaved'
      BY <1>6, <2>1 DEF Restore, OneSave, Opened, DueSaved
    <2>3. NotDue' /\ CleanRestart'
      BY <1>6, <2>1, NoSnapshots DEF Restore, Up, Whole, NotDue, CleanRestart
    <2>4. LatestWins'
      BY <1>0, <1>6, <2>1 DEF Restore, OneSave, Typed, LatestWins, Up
    <2>5. QED
      BY <2>2, <2>3, <2>4
  <1>7. CASE Clear
    <2>1. writes' = {} /\ saves' = saves /\ first' = first /\ overlapped' = overlapped /\ enabled' = enabled
      BY <1>0, <1>7 DEF Clear, FreshStart, Up, bounds
    <2>2. OneSave' /\ Opened' /\ DueSaved'
      BY <1>7, <2>1 DEF Clear, OneSave, Opened, DueSaved
    <2>3. NotDue' /\ CleanRestart'
      BY <1>7, <2>1, NoSnapshots DEF Clear, Up, Whole, NotDue, CleanRestart
    <2>4. LatestWins'
      BY <1>0, <1>7, <2>1 DEF Clear, OneSave, Typed, LatestWins
    <2>5. QED
      BY <2>2, <2>3, <2>4
  <1>8. CASE ClearFails
    <2>1. writes' = {} /\ saves' = saves /\ first' = first /\ overlapped' = overlapped /\ enabled' = enabled
      BY <1>0, <1>8 DEF ClearFails, FreshStart, Up, bounds
    <2>2. OneSave' /\ Opened' /\ DueSaved'
      BY <1>8, <2>1 DEF ClearFails, OneSave, Opened, DueSaved
    <2>3. NotDue' /\ CleanRestart'
      BY <1>8, <2>1, NoSnapshots DEF ClearFails, Up, Whole, NotDue, CleanRestart
    <2>4. LatestWins'
      BY <1>0, <1>8, <2>1 DEF ClearFails, OneSave, Typed, LatestWins
    <2>5. QED
      BY <2>2, <2>3, <2>4
  <1>9. CASE SaveTick
    <2>1. OneSave' /\ Opened' /\ writes' # {}
      BY <1>9, BeginSaveLatest DEF SaveTick
    <2>2. NotDue' /\ DueSaved' /\ CleanRestart' /\ LatestWins'
      BY <1>9, <2>1 DEF SaveTick, Up, Whole, NotDue, DueSaved, CleanRestart, LatestWins
    <2>3. QED
      BY <2>1, <2>2
  <1>10. ASSUME NEW w \in writes, Open(w)
         PROVE  LatestInv'
    <2> DEFINE v == [w EXCEPT !.at = "write"]
    <2>1. v.save = w.save /\ v.final = w.final /\ figures(v) = figures(w)
      BY <1>0 DEF Typed, WriteCalls, figures
    <2>2. /\ writes' = (writes \ {w}) \cup {v} /\ file' = Empty
          /\ UNCHANGED <<enabled, phase, saves, first, overlapped, torn, due>>
      BY <1>10 DEF Open, bounds, ghosts
    <2> HIDE DEF v
    <2>3. OneSave'
      BY <2>1, <2>2 DEF OneSave
    <2>4. Opened'
      BY <2>2, NoSnapshots DEF Opened
    <2>5. Up
      BY <1>0 DEF FreshStart
    <2>6. NotDue' /\ CleanRestart'
      BY <2>2, <2>5 DEF NotDue, CleanRestart, Up, Whole
    <2>7. DueSaved'
      BY <2>1, <2>2 DEF DueSaved
    <2>8. LatestWins'
      BY <2>2 DEF LatestWins
    <2>9. QED
      BY <2>3, <2>4, <2>6, <2>7, <2>8
  <1>11. ASSUME NEW w \in writes, Write(w)
         PROVE  LatestInv'
    <2>1. /\ writes' = writes \ {w}
          /\ UNCHANGED <<enabled, phase, saves, first, overlapped, torn, due>>
      BY <1>11 DEF Write, bounds, ghosts
    <2>2. ~overlapped => writes' = {} /\ file' = content(w) /\ w.save = saves
      BY <1>11, <2>1 DEF Write, Opened, OneSave
    <2>3. /\ Whole(content(w)) /\ content(w).save = w.save
          /\ figures(content(w)) = figures(w)
      BY <1>0, ContentIsFile DEF Typed
    <2>4. OneSave' /\ Opened'
      BY <2>1, <2>2 DEF OneSave, Opened
    <2>5. Up
      BY <1>0 DEF FreshStart
    <2>6. NotDue' /\ CleanRestart'
      BY <2>1, <2>5 DEF NotDue, CleanRestart, Up, Whole
    <2>7. DueSaved'
      BY <2>1, <2>2, <2>3 DEF DueSaved
    <2>8. LatestWins'
      BY <2>1, <2>2, <2>3 DEF LatestWins, Whole
    <2>9. QED
      BY <2>4, <2>6, <2>7, <2>8
  <1>12. ASSUME NEW w \in writes, WriteFails(w)
         PROVE  LatestInv'
    <2>1. /\ writes' = writes \ {w} /\ torn' = TRUE
          /\ UNCHANGED <<enabled, phase, file, saves, first, overlapped, due>>
      BY <1>12 DEF WriteFails
    <2>2. OneSave' /\ Opened' /\ NotDue' /\ CleanRestart' /\ LatestWins'
      BY <2>1 DEF OneSave, Opened, NotDue, CleanRestart, LatestWins, Up, Whole
    <2>3. DueSaved'
      BY <2>1 DEF DueSaved
    <2>4. QED
      BY <2>2, <2>3
  <1>13. CASE Destroy
    <2>1. CASE enabled
      <3>1. /\ OneSave' /\ Opened' /\ writes' # {} /\ saves' = saves + 1
            /\ ~overlapped' => \A w \in writes' : w.final = TRUE /\ figures(w) = <<ids, total, rejected>>
        BY <1>13, <2>1, BeginSaveLatest DEF Destroy, beginSave
      <3>2. ~Whole(due') /\ due'.save = saves' /\ figures(due') = <<ids, total, rejected>>
        BY <1>0, <1>13, <2>1, <3>1, DueNoted DEF Destroy
      <3>3. NotDue' /\ CleanRestart' /\ LatestWins'
        BY <3>1, <3>2 DEF NotDue, CleanRestart, LatestWins, Whole
      <3>4. first' < saves'
        BY <1>0, <1>13, <3>1 DEF Destroy, OneSave, Typed
      <3>5. DueSaved'
        BY <3>1, <3>2, <3>4 DEF DueSaved
      <3>6. QED
        BY <3>1, <3>3, <3>5
    <2>2. CASE ~enabled
      BY <1>13, <2>2 DEF Destroy, Up, Whole, OneSave, Opened, NotDue, DueSaved, CleanRestart, LatestWins
    <2>3. QED
      BY <2>1, <2>2
  <1>14. CASE Exit
    <2>1. /\ phase = "closing" /\ phase' = "down" /\ writes' = {}
          /\ UNCHANGED <<enabled, file, saves, first, overlapped, torn>>
      BY <1>14 DEF Exit, die
    <2>2. OneSave' /\ Opened' /\ DueSaved' /\ LatestWins'
      BY <2>1 DEF OneSave, Opened, DueSaved, LatestWins, Up
    <2>3. NotDue'
      BY <1>14, <2>1, NoSnapshots DEF Exit, NotDue, Up
    <2>4. CleanRestart'
      <3>1. CASE enabled /\ ~overlapped /\ ~torn
        <4>1. writes = {}
          BY <1>14, <3>1, <2>1 DEF Exit, saved, DueSaved
        <4>2. Whole(file) /\ file.save = saves /\ due.save = saves /\ figures(file) = figures(due)
          BY <2>1, <3>1, <4>1 DEF LatestWins, DueSaved, Up
        <4>3. due' = [due EXCEPT !.kind = "snapshot"]
          BY <1>14, <3>1 DEF Exit
        <4>4. /\ due' \in Files /\ due'.kind = "snapshot" /\ due'.save = due.save
              /\ figures(due') = figures(due)
          BY <1>0, <4>3 DEF Typed, Files, Kinds, figures
        <4>5. file \in Files /\ file.kind = due'.kind /\ file.save = due'.save
          BY <1>0, <4>2, <4>4 DEF Typed, Whole
        <4>6. file = due'
          BY <4>2, <4>4, <4>5, SameFile
        <4>7. QED
          BY <2>1, <4>6 DEF CleanRestart
      <3>2. CASE ~(enabled /\ ~overlapped /\ ~torn)
        BY <1>14, <3>2, NoSnapshots DEF Exit, CleanRestart
      <3>3. QED
        BY <3>1, <3>2
    <2>5. QED
      BY <2>2, <2>3, <2>4
  <1>15. CASE Crash
    <2>1. /\ phase' = "crashed" /\ writes' = {} /\ due' = None
          /\ UNCHANGED <<enabled, file, saves, first, overlapped, torn>>
      BY <1>15 DEF Crash, die
    <2>2. OneSave' /\ Opened' /\ DueSaved' /\ LatestWins'
      BY <2>1 DEF OneSave, Opened, DueSaved, LatestWins, Up
    <2>3. NotDue' /\ CleanRestart'
      BY <2>1, NoSnapshots DEF NotDue, CleanRestart
    <2>4. QED
      BY <2>2, <2>3
  <1>16. CASE UNCHANGED vars
    BY <1>16 DEF vars, bounds, ghosts, Up, Whole, OneSave, Opened, NotDue, DueSaved,
                 CleanRestart, LatestWins
  <1>17. QED
    BY <1>1, <1>2, <1>3, <1>4, <1>4f, <1>5, <1>6, <1>7, <1>8, <1>9, <1>10, <1>11, <1>12, <1>13,
       <1>14, <1>15, <1>16
       DEF Next, Starting, Saving

\* Without overlapping or failing saves the newest save is what is on disk, and
\* after a shutdown the next start finds exactly the counters that
\* onModuleDestroy saw, though requests went on changing them.
THEOREM NewestSaveKept == Spec => []LatestSaveKept
  <1>1. Init => LatestInv
    BY NoSnapshots DEF Init, LatestInv, LatestSaveKept, OneSave, Opened, NotDue, DueSaved,
                       CleanRestart, LatestWins, Up
  <1>2. LatestInv => LatestSaveKept
    BY DEF LatestInv
  <1>3. QED
    BY <1>1, <1>2, LatestStep, SoundInvariant, PTL DEF Spec

=============================================================================
