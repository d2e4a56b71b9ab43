------------------------------ MODULE Snapshot ------------------------------
(***************************************************************************)
(* The queue's persistence across restarts: QueueSnapshotManager saves and   *)
(* restores the totals and the task id counter, FilePersistenceService keeps *)
(* them in one file, QueueService calls them at start, on an interval and at *)
(* shutdown.  Queued tasks are written and never restored, so a snapshot is  *)
(* the counters.  Processed and timed out tasks share one total here.        *)
(*                                                                          *)
(* fs.writeFile truncates the file when it opens it and fills it later; two  *)
(* saves under way do both in any order.  A crash may come between any two   *)
(* steps.                                                                   *)
(***************************************************************************)
EXTENDS Integers, FiniteSets

CONSTANTS
  MaxTasks,    \* bound: tasks taken by all processes together
  MaxSaves,    \* bound: saves begun
  MaxStarts,   \* bound: processes started
  MaxFaults    \* bound: crashes and failing file operations

ASSUME SnapshotAssumption == {MaxTasks, MaxSaves, MaxStarts, MaxFaults} \subseteq Nat

VARIABLES
  enabled,     \* a persistence is configured
  phase,       \* down | crashed | loading | clearing | running | closing
  ids,         \* taskIdCounter
  total,       \* totalProcessed + totalTimeout
  rejected,    \* totalRejected: failed tasks and refused calls, which take no id
  open,        \* tasks taken and not yet settled
  file,        \* the snapshot file
  writes,      \* writeFile calls under way
  \* bookkeeping
  tasks, saves, starts, faults,
  real,        \* counters that some process had at some instant
  first,       \* saves before this process
  overlapped,  \* this process had two saves under way at once
  torn,        \* a file operation of this process failed
  due,         \* what the next start must find
  used,        \* saves that were restored, once and again
  excused      \* saves whose removal failed or was cut off by a crash

counters == <<ids, total, rejected, open>>
bounds == <<tasks, saves, starts, faults>>
ghosts == <<real, first, overlapped, torn, due, used, excused>>
vars == <<enabled, phase, counters, file, writes, bounds, ghosts>>

None == [kind |-> "absent", save |-> 0, ids |-> 0, total |-> 0, rejected |-> 0]
Empty == [None EXCEPT !.kind = "empty"]        \* opened and truncated
Garbage == [None EXCEPT !.kind = "garbage"]    \* the remains of two writes
Whole(f) == f.kind = "snapshot"

Fault == faults < MaxFaults /\ faults' = faults + 1
Up == phase \in {"running", "closing"}
figures(f) == <<f.ids, f.total, f.rejected>>

-----------------------------------------------------------------------------
(* The counters *)

\* enqueue() hands out an id or, refusing, only counts.
TakeTask ==
  /\ Up /\ tasks < MaxTasks
  /\ tasks' = tasks + 1
  /\ \/ ids' = ids + 1 /\ open' = open + 1 /\ UNCHANGED rejected
     \/ rejected' = rejected + 1 /\ UNCHANGED <<ids, open>>
  /\ real' = real \cup {<<ids', total, rejected'>>}
  /\ UNCHANGED <<enabled, phase, total, file, writes, saves, starts, faults>>
  /\ UNCHANGED <<first, overlapped, torn, due, used, excused>>

settled ==
  /\ \/ total' = total + 1 /\ UNCHANGED rejected
     \/ rejected' = rejected + 1 /\ UNCHANGED total
  /\ open' = open - 1
  /\ real' = real \cup {<<ids, total', rejected'>>}
  /\ UNCHANGED <<enabled, phase, ids, file, writes, bounds>>
  /\ UNCHANGED <<first, overlapped, torn, due, used, excused>>

SettleTask == Up /\ open > 0 /\ settled

-----------------------------------------------------------------------------
(* Start: restore() *)

Start ==
  /\ phase \in {"down", "crashed"} /\ starts < MaxStarts
  /\ starts' = starts + 1
  /\ phase' = IF enabled THEN "loading" ELSE "running"
  /\ first' = saves /\ overlapped' = FALSE /\ torn' = FALSE
  /\ UNCHANGED <<enabled, counters, file, writes, tasks, saves, faults, real, due, used, excused>>

\* Mutant: onModuleInit reads restored.taskIdCounter without asking for null.
NullThrows ==
  /\ phase = "loading" /\ ~Whole(file)
  /\ phase' = "down" /\ due' = None
  /\ UNCHANGED <<enabled, counters, file, writes, bounds, real, first, overlapped, torn, used, excused>>

\* Nothing to restore: no file, or one that does not parse.
LoadNothing ==
  /\ phase = "loading" /\ ~Whole(file)
  /\ phase' = "running" /\ due' = None
  /\ UNCHANGED <<enabled, counters, file, writes, bounds, real, first, overlapped, torn, used, excused>>

\* readFile fails although the snapshot is good: the process starts from zero
\* and the file stays where it is.
LoadFails ==
  /\ phase = "loading" /\ Whole(file) /\ Fault
  /\ phase' = "running" /\ due' = None
  /\ UNCHANGED <<enabled, counters, file, writes, tasks, saves, starts, real, first, overlapped>>
  /\ UNCHANGED <<torn, used, excused>>

LoadExpired ==
  /\ phase = "loading" /\ Whole(file)
  /\ phase' = "clearing" /\ due' = None
  /\ UNCHANGED <<enabled, counters, file, writes, bounds, real, first, overlapped, torn, used, excused>>

\* Mutant: restored.taskIdCounter is dropped.
OnlyTotals(f) == ids' = ids /\ total' = f.total /\ rejected' = f.rejected

setCounters(f) == ids' = f.ids /\ total' = f.total /\ rejected' = f.rejected

Restore ==
  /\ phase = "loading" /\ Whole(file)
  /\ phase' = "clearing"
  /\ setCounters(file)
  /\ used' = [twice |-> IF file.save \in used.once THEN used.twice \cup {file.save} ELSE used.twice,
              once |-> used.once \cup {file.save}]
  /\ UNCHANGED <<enabled, open, file, writes, bounds, real, first, overlapped, torn, due, excused>>

\* Mutant: the file stays.
KeepFile ==
  /\ phase = "clearing"
  /\ phase' = "running" /\ due' = None
  /\ UNCHANGED <<enabled, counters, file, writes, bounds, real, first, overlapped, torn, used, excused>>

Clear ==
  /\ phase = "clearing"
  /\ phase' = "running" /\ due' = None
  /\ file' = None
  /\ UNCHANGED <<enabled, counters, writes, bounds, real, first, overlapped, torn, used, excused>>

\* unlink fails; clearSnapshot swallows the error.
ClearFails ==
  /\ phase = "clearing" /\ Fault
  /\ phase' = "running" /\ due' = None
  /\ excused' = excused \cup {file.save}
  /\ UNCHANGED <<enabled, counters, file, writes, tasks, saves, starts, real, first, overlapped, torn, used>>

-----------------------------------------------------------------------------
(* save() *)

\* The counters are read when save() is called, the file is written later.
beginSave(final) ==
  /\ enabled /\ saves < MaxSaves
  /\ saves' = saves + 1
  /\ writes' = writes \cup {[at |-> "open", final |-> final, save |-> saves + 1,
                             ids |-> ids, total |-> total, rejected |-> rejected]}
  /\ overlapped' = (overlapped \/ writes # {})

SaveTick ==
  /\ phase = "running" /\ beginSave(FALSE)
  /\ UNCHANGED <<enabled, phase, counters, file, tasks, starts, faults>>
  /\ UNCHANGED <<real, first, torn, due, used, excused>>

Open(w) ==
  /\ w.at = "open"
  /\ file' = Empty
  /\ writes' = (writes \ {w}) \cup {[w EXCEPT !.at = "write"]}
  /\ UNCHANGED <<enabled, phase, counters, bounds, ghosts>>

content(w) == [kind |-> "snapshot", save |-> w.save, ids |-> w.ids, total |-> w.total,
               rejected |-> w.rejected]

\* Over what another save wrote since, a shorter text leaves a tail of it.
Write(w) ==
  /\ w.at = "write"
  /\ file' \in {content(w)} \cup IF file.kind \in {"absent", "empty"} THEN {} ELSE {Garbage}
  /\ writes' = writes \ {w}
  /\ UNCHANGED <<enabled, phase, counters, bounds, ghosts>>

\* saveSnapshot swallows the error.
WriteFails(w) ==
  /\ Fault
  /\ torn' = TRUE
  /\ writes' = writes \ {w}
  /\ UNCHANGED <<enabled, phase, counters, file, tasks, saves, starts>>
  /\ UNCHANGED <<real, first, overlapped, due, used, excused>>

-----------------------------------------------------------------------------
(* The end of a process *)

\* onModuleDestroy stops the interval and saves once more; the requests under
\* way go on.
Destroy ==
  /\ phase = "running"
  /\ phase' = "closing"
  /\ IF enabled
     THEN /\ beginSave(TRUE)
          /\ due' = [None EXCEPT !.save = saves + 1, !.ids = ids, !.total = total,
                                 !.rejected = rejected]
     ELSE UNCHANGED <<writes, saves, overlapped, due>>
  /\ UNCHANGED <<enabled, counters, file, tasks, starts, faults>>
  /\ UNCHANGED <<real, first, torn, used, excused>>

\* Mutant: the last save is not awaited.
DontWait == TRUE

saved == \A w \in writes : ~w.final

\* With the process its memory is gone, and its file operations are cut off.
die ==
  /\ ids' = 0 /\ total' = 0 /\ rejected' = 0 /\ open' = 0 /\ writes' = {}
  /\ UNCHANGED <<enabled, file, tasks, saves, starts, real, first, overlapped, torn, used>>

\* app.close() goes on to close the server, which waits for open connections.
Exit ==
  /\ phase = "closing" /\ saved
  /\ phase' = "down" /\ die /\ UNCHANGED <<faults, excused>>
  /\ due' = IF enabled /\ ~overlapped /\ ~torn
            THEN [due EXCEPT !.kind = "snapshot"] ELSE None

Crash ==
  /\ phase \notin {"down", "crashed"} /\ Fault
  /\ phase' = "crashed" /\ die /\ due' = None
  /\ excused' = IF phase = "clearing" THEN excused \cup {file.save} ELSE excused

Init ==
  /\ enabled \in BOOLEAN /\ phase = "down"
  /\ ids = 0 /\ total = 0 /\ rejected = 0 /\ open = 0 /\ file = None /\ writes = {}
  /\ tasks = 0 /\ saves = 0 /\ starts = 0 /\ faults = 0
  /\ real = {<<0, 0, 0>>} /\ first = 0 /\ overlapped = FALSE /\ torn = FALSE /\ due = None
  /\ used = [once |-> {}, twice |-> {}] /\ excused = {}

Starting == LoadNothing \/ LoadFails \/ LoadExpired \/ Restore \/ Clear \/ ClearFails
Saving == \E w \in writes : Open(w) \/ Write(w) \/ WriteFails(w)

Next ==
  \/ TakeTask \/ SettleTask
  \/ Start \/ Starting
  \/ SaveTick \/ Saving
  \/ Destroy \/ Exit \/ Crash

Spec == Init /\ [][Next]_vars

\* File operations end and awaits resume.  Nothing is assumed of Exit: a
\* connection may stay open for ever.
Fairness == WF_vars(Starting) /\ WF_vars(Saving)

FairSpec == Spec /\ Fairness
-----------------------------------------------------------------------------
(* Properties *)

\* Every variable holds values of its kind.
TypeOK ==
  /\ {enabled, overlapped, torn} \subseteq BOOLEAN
  /\ phase \in {"down", "crashed", "loading", "clearing", "running", "closing"}
  /\ {ids, total, rejected, open} \subseteq 0..MaxTasks
  /\ {file.kind, due.kind} \subseteq {"absent", "empty", "garbage", "snapshot"}
  /\ {file.save, due.save} \subseteq 0..saves
  /\ \A w \in writes : w.at \in {"open", "write"} /\ w.save \in 1..saves
  /\ used.once \cup used.twice \cup excused \subseteq 0..saves

\* What can be restored is what one process had at one instant: a torn or
\* mixed file is never taken for a snapshot, and the id counter and the
\* totals in it belong together.
SnapshotWasReal == Whole(file) => figures(file) \in real

\* After a restart too, no more tasks have ended well, timed out or are open
\* than ids were given: the totals and the id counter are restored together.
CountersConsistent == total + open <= ids

\* After a shutdown whose saves neither overlapped nor failed, the file holds
\* the counters that onModuleDestroy saw until the next start has read it.
CleanRestart ==
  Whole(due) => file = due

\* A snapshot is restored once: again only if its removal failed or the
\* process died before it.
RestoredOnce == used.twice \subseteq excused

\* Without overlapping or failing saves the newest save is what is on disk.
LatestWins ==
  Up /\ writes = {} /\ ~overlapped /\ ~torn /\ saves > first =>
    Whole(file) /\ file.save = saves

\* No file, a damaged or a stale one, nor an error of reading or removing it,
\* keeps the server from starting: only a crash does.
AlwaysStarts == phase \in {"loading", "clearing"} ~> phase \in {"running", "closing", "crashed"}

\* onModuleDestroy ends, whatever the file system does: after it only open
\* connections can keep app.close() from returning.
DestroyReturns == phase = "closing" ~> (saved \/ phase # "closing")

\* Only real counters are on disk, and the restored ones fit together.
SnapshotSound == TypeOK /\ SnapshotWasReal /\ CountersConsistent

\* The newest save is the one that is kept, at run time and over a restart.
LatestSaveKept == CleanRestart /\ LatestWins

\* Both hooks of the queue service return whatever the file system does.
HooksReturn == AlwaysStarts /\ DestroyReturns
=============================================================================
