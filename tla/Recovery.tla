------------------------------ MODULE Recovery ------------------------------
(***************************************************************************)
(* What F.R.I.D.A.Y. keeps over a crash: the checkpoints of its unfinished *)
(* tasks (src/friday/lifecycle/crash_recovery.py) and the backups of its   *)
(* data directory (src/friday/backup/backup_restore.py).                   *)
(*                                                                         *)
(* The program does a piece of work at a time: it checkpoints a task, or   *)
(* makes a backup, or restores one.  It may die between any two writes,    *)
(* and what it finds at the next start is what had reached the disk.  A    *)
(* read or a write may also fail while the program lives on.               *)
(***************************************************************************)
EXTENDS Naturals, FiniteSets, Sequences

CONSTANTS Tasks,         \* task ids
          Destructive,   \* tasks whose action should_retry_task refuses
          Items,         \* the files and directories a backup holds
          MaxVersion,    \* bound: how often an item of the data is changed
          MaxBackups,    \* bound: backups made
          MaxCheckpoints,\* bound: checkpoints begun
          MaxCrashes     \* bound: crashes

DestructiveAssumption == Destructive \subseteq Tasks

Unfinished == {"pending", "running", "interrupted"}
States == Unfinished \union {"completed", "failed"}
Observations == {"none", "success", "error"}
Missing == 0

Entry == [task : Tasks, state : States, seen : Observations]

VARIABLES
  step,        \* what the program is doing, or "down"
  entry,       \* the entry a checkpoint under way writes
  others,      \* the entries of other tasks it read from the file
  file,        \* incomplete_tasks.json: "absent", "torn" or "whole"
  listed,      \* the entries of the file, a task's one or none
  recorded,    \* recorded[t]: the last state whose checkpoint was finished
  lost,        \* history: the tasks with no checkpoint finished since the file was
               \* last torn or could not be read
  plan,        \* [retried, skipped, awaiting]: the result of execute_plan
  data,        \* data[i]: the version of item i in the data directory
  backups,     \* the backups, oldest first
  work,        \* the items a backup or a restore has still to do
  target,      \* the backup being made or restored
  crashes, checkpoints

tasksVars == <<entry, others, file, listed, recorded, lost, plan, checkpoints>>
dataVars == <<data, backups, work, target>>
vars == <<step, tasksVars, dataVars, crashes>>

NoEntry == [task |-> "none", state |-> "none", seen |-> "none"]
NoPlan == [retried |-> {}, skipped |-> {}, awaiting |-> {}]

Init ==
  /\ step = "running"
  /\ entry = NoEntry /\ others = {}
  /\ file = "absent" /\ listed = {}
  /\ recorded = [t \in Tasks |-> "none"]
  /\ lost = {}
  /\ plan = NoPlan
  /\ data = [i \in Items |-> 1]
  /\ backups = <<>> /\ work = {} /\ target = 0
  /\ crashes = 0 /\ checkpoints = 0

(***************************************************************************)
(* Checkpoints.                                                            *)
(***************************************************************************)

\* checkpoint_task begins: it makes up the entry of its task.
Begins(t, s, o) ==
  /\ step = "running" /\ checkpoints < MaxCheckpoints
  /\ step' = "read"
  /\ entry' = [task |-> t, state |-> s, seen |-> o]
  /\ checkpoints' = checkpoints + 1
  /\ UNCHANGED <<file, listed, recorded, plan, dataVars, crashes>>

\* Mutant: the other tasks of the file are not read before it is written.
ReadsNoOthers(t, s, o) ==
  /\ Begins(t, s, o)
  /\ others' = {} /\ lost' = lost

\* It reads the other entries first.  A file it cannot read, because it is torn or
\* because the reading fails, counts as empty.
ReadsOthers(t, s, o) ==
  /\ Begins(t, s, o)
  /\ \/ others' = {e \in listed : e.task # t} /\ lost' = lost
     \/ file # "absent" /\ others' = {} /\ lost' = Tasks

\* It opens the file for writing, which empties it.
Truncates ==
  /\ step = "read"
  /\ step' = "truncated"
  /\ file' = "torn" /\ listed' = {}
  /\ UNCHANGED <<entry, others, recorded, lost, plan, checkpoints, dataVars, crashes>>

WritesEntries ==
  /\ step = "truncated"
  /\ step' = "running"
  /\ file' = "whole"
  /\ listed' = others \union {entry}
  /\ recorded' = [recorded EXCEPT ![entry.task] = entry.state]
  /\ lost' = lost \ {entry.task}
  /\ entry' = NoEntry /\ others' = {}
  /\ UNCHANGED <<plan, checkpoints, dataVars, crashes>>

\* open or json.dump raises out of checkpoint_task and the program lives on: what
\* was truncated stays torn, until a later checkpoint takes it for empty.
WriteFails ==
  /\ step \in {"read", "truncated"}
  /\ step' = "running"
  /\ lost' = IF step = "truncated" THEN Tasks ELSE lost
  /\ entry' = NoEntry /\ others' = {}
  /\ UNCHANGED <<file, listed, recorded, plan, checkpoints, dataVars, crashes>>

(***************************************************************************)
(* The next start.                                                         *)
(***************************************************************************)

\* The state a checkpoint cut in its middle leaves: the file may be torn.
Crashes ==
  /\ step # "down" /\ crashes < MaxCrashes
  /\ step' = "down"
  /\ crashes' = crashes + 1
  /\ lost' = IF step = "truncated" THEN Tasks ELSE lost
  /\ entry' = NoEntry /\ others' = {}
  /\ work' = {} /\ target' = 0
  /\ UNCHANGED <<file, listed, recorded, plan, checkpoints, data, backups>>

\* detect_incomplete_tasks: the unfinished entries.
Detected == {e \in listed : e.state \in Unfinished}

\* should_retry_task: a destructive action is not retried, nor is a task that
\* started more than an hour ago.
Retries(e, old) == e.task \notin Destructive /\ ~old

\* reconcile_task_state: what the last observation says comes first.
Decision(e, old) ==
  IF e.seen # "none" THEN "skip" ELSE IF Retries(e, old) THEN "retry" ELSE "ask"

\* build_plan decides each task and execute_plan sorts them by the decision.
Plans(S) ==
  \E old \in SUBSET Tasks :
    LET With(d) == {e.task : e \in {x \in S : Decision(x, x.task \in old) = d}}
    IN  plan' = [retried |-> With("retry"), skipped |-> With("skip"), awaiting |-> With("ask")]

\* A file that is torn or cannot be read has no unfinished tasks.
Recovers ==
  /\ step = "down"
  /\ \/ Plans(Detected) /\ lost' = lost
     \/ file # "absent" /\ Plans({}) /\ lost' = Tasks
  /\ step' = "planned"
  /\ UNCHANGED <<entry, others, file, listed, recorded, checkpoints, dataVars, crashes>>

\* clear_recovery_checkpoint forgets every entry, the awaiting ones included.
ClearsCheckpoint ==
  /\ step = "planned"
  /\ step' = "running"
  /\ file' = "absent" /\ listed' = {}
  /\ recorded' = [t \in Tasks |-> "none"]
  /\ lost' = {} /\ plan' = NoPlan
  /\ UNCHANGED <<entry, others, checkpoints, dataVars, crashes>>

(***************************************************************************)
(* Backups.  A backup is [items, listed, copied, versions]: the content of *)
(* its directory and, once metadata.json is there, the items it names.     *)
(***************************************************************************)

ChangesData(i) ==
  /\ step \in {"running", "copying"} /\ data[i] # Missing /\ data[i] < MaxVersion
  /\ data' = [data EXCEPT ![i] = @ + 1]
  /\ UNCHANGED <<step, tasksVars, backups, work, target, crashes>>

\* Mutant: the metadata are written first.
BeginsBackupListed ==
  /\ step = "running" /\ Len(backups) < MaxBackups
  /\ step' = "copying"
  /\ backups' = Append(backups, [held |-> [i \in Items |-> Missing],
                                 names |-> Items, metadata |-> TRUE])
  /\ target' = Len(backups) + 1
  /\ work' = Items
  /\ UNCHANGED <<tasksVars, data, crashes>>

BeginsBackup ==
  /\ step = "running" /\ Len(backups) < MaxBackups
  /\ step' = "copying"
  /\ backups' = Append(backups, [held |-> [i \in Items |-> Missing],
                                 names |-> {}, metadata |-> FALSE])
  /\ target' = Len(backups) + 1
  /\ work' = Items
  /\ UNCHANGED <<tasksVars, data, crashes>>

\* An item is copied and then named; one that is missing, or whose copy fails,
\* is not named.
CopiesItem(i) ==
  /\ step = "copying" /\ i \in work
  /\ \E ok \in BOOLEAN :
       backups' = IF ok /\ data[i] # Missing
                  THEN [backups EXCEPT ![target].held[i] = data[i],
                                       ![target].names = @ \union {i}]
                  ELSE backups
  /\ work' = work \ {i}
  /\ UNCHANGED <<step, tasksVars, data, target, crashes>>

\* metadata.json is written last: without it the directory is no backup.
WritesMetadata ==
  /\ step = "copying" /\ work = {}
  /\ step' = "running"
  /\ backups' = [backups EXCEPT ![target].metadata = TRUE]
  /\ target' = 0
  /\ UNCHANGED <<tasksVars, data, work, crashes>>

\* list_backups shows the directories with metadata, and restore_backup
\* refuses the others.
Listed == {n \in DOMAIN backups : backups[n].metadata}

BeginsRestore(n) ==
  /\ step \in {"running", "planned"} /\ n \in Listed
  /\ step' = "restoring"
  /\ target' = n
  /\ work' = backups[n].names
  /\ UNCHANGED <<tasksVars, data, backups, crashes>>

\* Without force an item that exists is skipped; with force it is removed
\* first, so that a copy that fails, or a crash in between, leaves nothing.
SkipsItem(i) ==
  /\ step = "restoring" /\ i \in work /\ data[i] # Missing
  /\ work' = work \ {i}
  /\ UNCHANGED <<step, tasksVars, data, backups, target, crashes>>

RemovesItem(i) ==
  /\ step = "restoring" /\ i \in work /\ data[i] # Missing
  /\ data' = [data EXCEPT ![i] = Missing]
  /\ UNCHANGED <<step, tasksVars, backups, work, target, crashes>>

RestoresItem(i) ==
  /\ step = "restoring" /\ i \in work /\ data[i] = Missing
  /\ \E ok \in BOOLEAN : data' = IF ok THEN [data EXCEPT ![i] = backups[target].held[i]] ELSE data
  /\ work' = work \ {i}
  /\ UNCHANGED <<step, tasksVars, backups, target, crashes>>

EndsRestore ==
  /\ step = "restoring" /\ work = {}
  /\ step' = IF plan = NoPlan THEN "running" ELSE "planned"
  /\ target' = 0
  /\ UNCHANGED <<tasksVars, data, backups, work, crashes>>

Next ==
  \/ \E t \in Tasks, s \in States, o \in Observations : ReadsOthers(t, s, o)
  \/ Truncates \/ WritesEntries \/ WriteFails
  \/ Crashes \/ Recovers \/ ClearsCheckpoint
  \/ BeginsBackup \/ WritesMetadata \/ EndsRestore
  \/ \E i \in Items : \/ ChangesData(i) \/ CopiesItem(i)
                      \/ SkipsItem(i) \/ RemovesItem(i) \/ RestoresItem(i)
  \/ \E n \in DOMAIN backups : BeginsRestore(n)

Spec == Init /\ [][Next]_vars

(***************************************************************************)
(* Properties.                                                             *)
(***************************************************************************)

\* Every variable keeps its type (the files the two managers write).
TypeOK ==
  /\ step \in {"running", "read", "truncated", "down", "planned", "copying", "restoring"}
  /\ entry \in Entry \union {NoEntry}
  /\ others \subseteq Entry /\ listed \subseteq Entry
  /\ file \in {"absent", "torn", "whole"}
  /\ recorded \in [Tasks -> States \union {"none"}]
  /\ lost \subseteq Tasks
  /\ plan \in [retried : SUBSET Tasks, skipped : SUBSET Tasks, awaiting : SUBSET Tasks]
  /\ data \in [Items -> Missing .. MaxVersion]
  /\ \A n \in DOMAIN backups : backups[n].names \subseteq Items
  /\ work \subseteq Items /\ target \in 0 .. MaxBackups
  /\ crashes \in 0 .. MaxCrashes /\ checkpoints \in 0 .. MaxCheckpoints

Sorted == plan.retried \union plan.skipped \union plan.awaiting

\* The recovery plan sorts no task but those whose last finished checkpoint says they
\* were unfinished, and every one of those whose checkpoint was finished after the
\* file was last torn (by a crash or by a write that failed) or could not be read: a
\* checkpoint keeps the entries of the other tasks (checkpoint_task,
\* detect_incomplete_tasks, execute_plan).
NothingForgotten ==
  step = "planned" =>
    LET unfinished == {t \in Tasks : recorded[t] \in Unfinished}
    IN  Sorted \subseteq unfinished /\ unfinished \ lost \subseteq Sorted

\* A backup that can be listed and restored holds every item it names, even
\* when the program died while it was made (create_backup).
ListedIsComplete ==
  \A n \in Listed : \A i \in backups[n].names : backups[n].held[i] # Missing

\* What keeps the tasks: the file says of each task in it what the last finished
\* checkpoint said, and has every task but the lost ones; the plan sorts what it has.
Says(S, T) ==
  /\ \A e \in S : e.task \in Tasks /\ recorded[e.task] = e.state
  /\ \A t \in T \ lost : recorded[t] # "none" => \E e \in S : e.task = t
TasksInv ==
  /\ recorded \in [Tasks -> States \union {"none"}]
  /\ listed \subseteq Entry /\ lost \subseteq Tasks
  /\ step # "truncated" => Says(listed, Tasks)
  /\ step \in {"read", "truncated"} => /\ entry \in Entry /\ others \subseteq Entry
                                       /\ \A e \in others : e.task # entry.task
                                       /\ Says(others, Tasks \ {entry.task})
  /\ step = "truncated" => listed = {}
  /\ step \in {"running", "read", "truncated", "copying"} => plan = NoPlan
  /\ (step = "planned" \/ (step = "restoring" /\ plan # NoPlan)) =>
       /\ Sorted \subseteq {e.task : e \in Detected}
       /\ {e.task : e \in Detected} \ lost \subseteq Sorted

\* What keeps the backups: what a backup names has been copied, whether or not
\* the backup was finished.
BackupsInv ==
  /\ backups \in Seq([held : [Items -> Nat], names : SUBSET Items, metadata : BOOLEAN])
  /\ data \in [Items -> Nat] /\ work \subseteq Items
  /\ step \in {"copying", "restoring"} => target \in 1 .. Len(backups)
  /\ \A n \in 1 .. Len(backups) : \A i \in backups[n].names : backups[n].held[i] # Missing

=============================================================================
