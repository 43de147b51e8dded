---------------------------- MODULE WorkspaceBackup ----------------------------
(***************************************************************************)
(* Backups and restores of the root file system of one Environment.  Every *)
(* replica looks for Environments with a backup due or with more backups   *)
(* than their policy keeps, takes the lifecycle lock and checks again;      *)
(* users ask for a backup or a restore.  Sandbox0 keeps the snapshots,      *)
(* PostgreSQL their records.                                               *)
(*                                                                         *)
(* The root file system is the set of native sessions it holds.  The        *)
(* records are in the order of their creation.  A time is past or future.  *)
(*                                                                         *)
(* Simplifications.  The pause, the restart and the selection of a session *)
(* are EnvironmentLifecycle's and TerminalControl's: here they are single   *)
(* steps, taken while the lock is free.  Sessions of the first version of   *)
(* the product, which a restore marks failed, are left out.                *)
(***************************************************************************)
EXTENDS Naturals, SequencesExt

CONSTANTS
  Procs, NoProc,
  MaxSnaps,     \* bound on snapshots
  MaxSessions,  \* bound on native sessions
  MaxRetain,    \* the largest retention a user chooses
  MaxChanges,   \* bound on changes of the policy, changes and deletion
  MaxAsks,      \* bound on requests for a backup or a restore
  MaxFaults     \* bound on crashes, lost connections and failed calls

VARIABLES
  ready,        \* the Environment exists and is not being deleted
  desired,      \* environment_runtime.desired_state
  up,           \* the Sandbox runs
  rootfs,       \* the native sessions of its root file system
  coordinates,  \* agent_native_session_id, 0 if none
  snaps,        \* content of each snapshot at Sandbox0
  records,      \* environment_workspace_backups
  every, retain, \* the policy: an interval is set, and how many are kept
  due, retry,   \* workspace_backup_due_at and workspace_backup_retry_at
  lock,         \* holder of the lifecycle lock
  task,         \* what each process does, from where it stands to what it read
  taken, born, asks, changes, faults,
  least,        \* the smallest retention so far
  unanswered    \* a commit took effect and its answer was lost

sandbox  == <<up, rootfs, snaps>>
schedule == <<due, retry>>
policy   == <<every, retain, least>>
bounds   == <<taken, born, asks, changes, faults, unanswered>>
vars     == <<ready, desired, sandbox, coordinates, records, policy, schedule, lock, task, bounds>>

Ids  == 1 .. MaxSnaps
Jobs == {"automatic", "manual", "restore"}
Idle == [at |-> "idle", job |-> "none", keep |-> 0, snap |-> 0,
         doomed |-> <<>>, resume |-> FALSE, lost |-> FALSE]

Count == Len(records)

TypeOK ==
  /\ ready \in BOOLEAN /\ up \in BOOLEAN /\ unanswered \in BOOLEAN
  /\ desired \in {"running", "paused"}
  /\ rootfs \subseteq 1 .. MaxSessions /\ coordinates \in 0 .. MaxSessions
  /\ DOMAIN snaps \subseteq Ids
  /\ \A i, j \in 1 .. Count : i < j => records[i] < records[j]
  /\ \A i \in 1 .. Count : records[i] \in 1 .. taken
  /\ every \in BOOLEAN /\ retain \in 1 .. MaxRetain
  /\ due \in {"none", "future", "past"} /\ retry \in {"none", "future", "past"}
  /\ lock \in Procs \cup {NoProc}
  /\ \A p \in Procs : task[p].at = "idle" <=> task[p] = Idle

Init ==
  /\ ready = TRUE /\ desired = "running" /\ up = TRUE
  /\ rootfs = {} /\ coordinates = 0 /\ snaps = <<>> /\ records = <<>>
  /\ every = TRUE /\ retain = 1 /\ due = "future" /\ retry = "none"
  /\ lock = NoProc /\ task = [p \in Procs |-> Idle]
  /\ taken = 0 /\ born = 0 /\ asks = 0 /\ changes = 0 /\ faults = 0
  /\ least = retain /\ unanswered = FALSE

-----------------------------------------------------------------------------
(* The conditions the properties rest on.  Beside each, a mistake that the *)
(* properties must notice when it takes the condition's place.             *)

RetryUnset == retry = "none"
RetryDue == retry # "future"

IntervalSet == every
BackupDue == every /\ due # "future"
Excess == Count > retain
Wanted == BackupDue \/ Excess

OldestFirst(keep) == SubSeq(records, 1, IF Count > 0 THEN Count - keep + 1 ELSE 0)
BeyondRetention(keep) == IF Count > keep THEN SubSeq(records, 1, Count - keep) ELSE <<>>

CoordinatesKept == UNCHANGED coordinates
CoordinatesCleared == coordinates' = 0

-----------------------------------------------------------------------------
(* The rest of the system, and time.                                       *)

Change == changes < MaxChanges /\ changes' = changes + 1
Changed == <<taken, born, asks, faults, unanswered>>

NewSession ==
  /\ ready /\ up /\ lock = NoProc /\ born < MaxSessions
  /\ born' = born + 1 /\ rootfs' = rootfs \cup {born + 1} /\ coordinates' = born + 1
  /\ UNCHANGED <<ready, desired, up, snaps, records, policy, schedule, lock, task,
                 taken, asks, changes, faults, unanswered>>

Pause ==
  /\ ready /\ lock = NoProc /\ desired = "running" /\ Change
  /\ desired' = "paused" /\ up' = FALSE
  /\ UNCHANGED <<ready, rootfs, coordinates, snaps, records, policy, schedule, lock, task,
                 taken, born, asks, faults, unanswered>>

Access ==
  /\ ready /\ lock = NoProc /\ desired = "paused"
  /\ desired' = "running" /\ up' = TRUE
  /\ UNCHANGED <<ready, rootfs, coordinates, snaps, records, policy, schedule, lock, task, bounds>>

\* updateEnvironment, under the lock.
Update ==
  /\ ready /\ lock = NoProc /\ Change
  /\ every' \in BOOLEAN /\ retain' \in 1 .. MaxRetain /\ <<every', retain'>> # <<every, retain>>
  /\ due' = IF ~every' THEN "none" ELSE IF every # every' \/ due = "none" THEN "future" ELSE due
  /\ retry' = "none" /\ least' = IF retain' < least THEN retain' ELSE least
  /\ UNCHANGED <<ready, desired, sandbox, coordinates, records, lock, task, Changed>>

\* prepareEnvironmentDeletion, and what follows it.
Delete ==
  /\ ready /\ lock = NoProc /\ Change
  /\ ready' = FALSE /\ up' = FALSE /\ records' = <<>> /\ coordinates' = 0
  /\ due' = "none" /\ retry' = "none"
  /\ UNCHANGED <<desired, rootfs, snaps, every, retain, least, lock, task, Changed>>

DueComes ==
  /\ due = "future" /\ taken < MaxSnaps /\ due' = "past"
  /\ UNCHANGED <<ready, desired, sandbox, coordinates, records, policy, retry, lock, task, bounds>>

RetryComes ==
  /\ retry = "future" /\ retry' = "past"
  /\ UNCHANGED <<ready, desired, sandbox, coordinates, records, policy, due, lock, task, bounds>>

-----------------------------------------------------------------------------
(* The steps of a process.                                                 *)

At(p, l) == task[p].at = l
Go(p, l) == task' = [task EXCEPT ![p].at = l]
Release(p) ==
  /\ task' = [task EXCEPT ![p] = Idle]
  /\ lock' = IF lock = p THEN NoProc ELSE lock
\* A statement fails on a connection that is lost.
RowThere(p) == ready /\ ~task[p].lost

Candidate(p) ==
  /\ At(p, "idle") /\ ready /\ RetryDue /\ Wanted
  /\ task' = [task EXCEPT ![p].at = "lock", ![p].job = "automatic"]
  /\ UNCHANGED <<ready, desired, sandbox, coordinates, records, policy, schedule, lock, bounds>>

Ask(p) ==
  /\ At(p, "idle") /\ ready /\ asks < MaxAsks /\ asks' = asks + 1
  /\ \/ /\ taken < MaxSnaps
        /\ task' = [task EXCEPT ![p].at = "lock", ![p].job = "manual"]
     \/ \E i \in 1 .. Count :
          task' = [task EXCEPT ![p].at = "lock", ![p].job = "restore", ![p].snap = records[i]]
  /\ UNCHANGED <<ready, desired, sandbox, coordinates, records, policy, schedule, lock,
                 taken, born, changes, faults, unanswered>>

Acquire(p) ==
  /\ At(p, "lock") /\ lock = NoProc
  /\ lock' = p /\ Go(p, "prepare")
  /\ UNCHANGED <<ready, desired, sandbox, coordinates, records, policy, schedule, bounds>>

\* A pass goes on to its next candidate, a request gives up after a while.
Skip(p) ==
  /\ At(p, "lock") /\ lock # NoProc /\ Release(p)
  /\ UNCHANGED <<ready, desired, sandbox, coordinates, records, policy, schedule, bounds>>

\* prepareEnvironmentWorkspaceBackup
Prepare(p) ==
  /\ At(p, "prepare") /\ task[p].job # "restore"
  /\ IF RowThere(p) /\ (task[p].job = "manual" \/ (RetryDue /\ Wanted))
       THEN /\ retry' = "future" /\ UNCHANGED lock
            /\ task' = [task EXCEPT ![p].keep = retain,
                 ![p].at = IF task[p].job = "manual" \/ BackupDue THEN "hook" ELSE "list"]
       ELSE Release(p) /\ UNCHANGED retry
  /\ UNCHANGED <<ready, desired, sandbox, coordinates, records, policy, due, bounds>>

\* protectPersistenceBoundary: reading the file wakes the Sandbox.
Hook(p) ==
  /\ At(p, "hook") /\ up' = TRUE /\ Go(p, IF task[p].job = "restore" THEN "pause" ELSE "snapshot")
  /\ UNCHANGED <<ready, desired, rootfs, snaps, coordinates, records, policy, schedule, lock, bounds>>

Take(id) ==
  /\ taken < MaxSnaps /\ taken' = id
  /\ snaps' = [i \in DOMAIN snaps \cup {id} |-> IF i = id THEN rootfs ELSE snaps[i]]
Snapshot(p) ==
  /\ At(p, "snapshot") /\ Take(taken + 1)
  /\ task' = [task EXCEPT ![p].at = "record", ![p].snap = taken + 1]
  /\ UNCHANGED <<ready, desired, up, rootfs, coordinates, records, policy, schedule, lock,
                 born, asks, changes, faults, unanswered>>

\* Sandbox0 keeps no more.
SnapshotRefused(p) ==
  /\ At(p, "snapshot") /\ taken = MaxSnaps /\ Go(p, "failed")
  /\ UNCHANGED <<ready, desired, sandbox, coordinates, records, policy, schedule, lock, bounds>>

Inserted(p) ==
  /\ records' = Append(records, task[p].snap)
  /\ due' = IF every THEN "future" ELSE "none"
  /\ retry' = "none"
Record(p) ==
  /\ At(p, "record") /\ RowThere(p) /\ Inserted(p) /\ Go(p, "list")
  /\ UNCHANGED <<ready, desired, sandbox, coordinates, policy, lock, bounds>>

RecordRefused(p) ==
  /\ At(p, "record") /\ ~RowThere(p) /\ Go(p, "discard")
  /\ UNCHANGED <<ready, desired, sandbox, coordinates, records, policy, schedule, lock, bounds>>

Drop(id) == snaps' = [i \in DOMAIN snaps \ {id} |-> snaps[i]]
Discard(p) ==
  /\ At(p, "discard") /\ Go(p, "failed") /\ (Drop(task[p].snap) \/ UNCHANGED snaps)
  /\ UNCHANGED <<ready, desired, up, rootfs, coordinates, records, policy, schedule, lock, bounds>>

List(p) ==
  /\ At(p, "list")
  /\ LET doomed == BeyondRetention(task[p].keep) IN
     task' = [task EXCEPT ![p].doomed = doomed, ![p].keep = 0, ![p].snap = 0,
                          ![p].at = IF task[p].lost THEN "failed"
                                    ELSE IF doomed = <<>> THEN "healthy" ELSE "prune"]
  /\ UNCHANGED <<ready, desired, sandbox, coordinates, records, policy, schedule, lock, bounds>>

\* A snapshot that is missing counts as deleted.
Prune(p) ==
  /\ At(p, "prune") /\ Drop(Head(task[p].doomed)) /\ Go(p, "forget")
  /\ UNCHANGED <<ready, desired, up, rootfs, coordinates, records, policy, schedule, lock, bounds>>

Deleted(id) ==
  \/ \E i \in 1 .. Count : records[i] = id /\ records' = RemoveAt(records, i)
  \/ (\A i \in 1 .. Count : records[i] # id) /\ UNCHANGED records
Forget(p) ==
  /\ At(p, "forget")
  /\ IF task[p].lost THEN Go(p, "failed") /\ UNCHANGED records
       ELSE /\ Deleted(Head(task[p].doomed))
            /\ task' = [task EXCEPT ![p].doomed = Tail(@),
                   ![p].at = IF Len(task[p].doomed) = 1 THEN "healthy" ELSE "prune"]
  /\ UNCHANGED <<ready, desired, sandbox, coordinates, policy, schedule, lock, bounds>>

\* The pass is over: recordEnvironmentWorkspaceBackupHealthy or -Failure.
Conclude(p) ==
  /\ task[p].at \in {"healthy", "failed"} /\ Release(p)
  /\ retry' = IF ~RowThere(p) THEN retry ELSE IF At(p, "healthy") THEN "none" ELSE "future"
  /\ UNCHANGED <<ready, desired, sandbox, coordinates, records, policy, due, bounds>>

-----------------------------------------------------------------------------
(* restore.                                                                *)

PrepareRestore(p) ==
  /\ At(p, "prepare") /\ task[p].job = "restore"
  /\ IF RowThere(p) /\ \E i \in 1 .. Count : records[i] = task[p].snap
       THEN /\ task' = [task EXCEPT ![p].at = "hook", ![p].resume = desired = "running"]
            /\ UNCHANGED lock
       ELSE Release(p)
  /\ UNCHANGED <<ready, desired, sandbox, coordinates, records, policy, schedule, bounds>>

Stop(p) ==
  /\ At(p, "pause") /\ up' = FALSE /\ Go(p, "restore")
  /\ UNCHANGED <<ready, desired, rootfs, snaps, coordinates, records, policy, schedule, lock, bounds>>

\* What follows an error once the hook has run.
Recover(p) == IF task[p].resume THEN Go(p, "recover") /\ UNCHANGED lock ELSE Release(p)

RestoreRootFS(p) ==
  /\ At(p, "restore")
  /\ IF task[p].snap \in DOMAIN snaps
       THEN rootfs' = snaps[task[p].snap] /\ Go(p, "restored") /\ UNCHANGED lock
       ELSE Recover(p) /\ UNCHANGED rootfs
  /\ UNCHANGED <<ready, desired, up, snaps, coordinates, records, policy, schedule, bounds>>

\* recordEnvironmentWorkspaceRestored refuses when the record is gone.
RecordRestored(p) ==
  /\ At(p, "restored")
  /\ IF RowThere(p) /\ \E i \in 1 .. Count : records[i] = task[p].snap
       THEN CoordinatesCleared /\ Go(p, IF task[p].resume THEN "resume" ELSE "settle") /\ UNCHANGED lock
       ELSE Recover(p) /\ UNCHANGED coordinates
  /\ UNCHANGED <<ready, desired, sandbox, records, policy, schedule, bounds>>

\* Access resumes the Sandbox; after an error its failure is only logged.
Resume(p) ==
  /\ task[p].at \in {"resume", "recover"} /\ up' = ready /\ Go(p, "settle")
  /\ UNCHANGED <<ready, desired, rootfs, snaps, coordinates, records, policy, schedule, lock, bounds>>

Settle(p) ==
  /\ At(p, "settle") /\ Release(p)
  /\ desired' = IF ~RowThere(p) THEN desired ELSE IF task[p].resume THEN "running" ELSE "paused"
  /\ UNCHANGED <<ready, sandbox, coordinates, records, policy, schedule, bounds>>

-----------------------------------------------------------------------------
(* Failures.                                                               *)

Fault == faults < MaxFaults /\ faults' = faults + 1

\* A call to Sandbox0 fails, before or after it took effect.
CallFails(p) ==
  /\ Fault /\ task[p].at \in {"hook", "snapshot", "prune", "pause", "restore", "resume"}
  /\ CASE At(p, "hook") /\ task[p].job = "restore" -> Release(p)
       [] task[p].at \in {"pause", "restore", "resume"} -> Recover(p)
       [] OTHER -> Go(p, "failed") /\ UNCHANGED lock
  /\ up' \in CASE At(p, "hook") -> {up, TRUE} [] At(p, "pause") -> {up, FALSE}
              [] At(p, "resume") -> {up, ready} [] OTHER -> {up}
  /\ \/ UNCHANGED <<rootfs, snaps, taken>>
     \/ At(p, "snapshot") /\ Take(taken + 1) /\ UNCHANGED rootfs
     \/ At(p, "prune") /\ Drop(Head(task[p].doomed)) /\ UNCHANGED <<rootfs, taken>>
     \/ /\ At(p, "restore") /\ task[p].snap \in DOMAIN snaps
        /\ rootfs' = snaps[task[p].snap] /\ UNCHANGED <<snaps, taken>>
  /\ UNCHANGED <<ready, desired, coordinates, records, policy, schedule, born, asks, changes, unanswered>>

\* The commit of the record takes effect, its answer does not arrive.
AnswerLost(p) ==
  /\ Fault /\ At(p, "record") /\ RowThere(p) /\ Inserted(p) /\ Go(p, "discard")
  /\ unanswered' = TRUE
  /\ UNCHANGED <<ready, desired, sandbox, coordinates, policy, lock, taken, born, asks, changes>>

\* The connection that holds the advisory lock is lost; the process goes on.
LoseLock(p) ==
  /\ Fault /\ lock = p /\ lock' = NoProc /\ task' = [task EXCEPT ![p].lost = TRUE]
  /\ UNCHANGED <<ready, desired, sandbox, coordinates, records, policy, schedule,
                 taken, born, asks, changes, unanswered>>

Crash(p) ==
  /\ Fault /\ ~At(p, "idle") /\ Release(p)
  /\ UNCHANGED <<ready, desired, sandbox, coordinates, records, policy, schedule,
                 taken, born, asks, changes, unanswered>>

Backup(p) ==
  Prepare(p) \/ Snapshot(p) \/ SnapshotRefused(p) \/ Record(p) \/ RecordRefused(p) \/ Discard(p)
  \/ List(p) \/ Prune(p) \/ Forget(p) \/ Conclude(p)
Restore(p) ==
  PrepareRestore(p) \/ Stop(p) \/ RestoreRootFS(p) \/ RecordRestored(p) \/ Resume(p) \/ Settle(p)
Proceed(p) == Hook(p) \/ Backup(p) \/ Restore(p)

Next ==
  \/ NewSession \/ Pause \/ Access \/ Update \/ Delete \/ DueComes \/ RetryComes
  \/ \E p \in Procs :
       \/ Candidate(p) \/ Ask(p) \/ Acquire(p) \/ Skip(p) \/ Proceed(p)
       \/ CallFails(p) \/ AnswerLost(p) \/ LoseLock(p) \/ Crash(p)

Spec == Init /\ [][Next]_vars

\* Passes come round, the holder of the lock goes on, and the lock is free
\* again and again.
Work(p) == Candidate(p) \/ Acquire(p) \/ Proceed(p)
Fairness ==
  /\ WF_vars(RetryComes)
  /\ \A p \in Procs : WF_vars(Work(p)) /\ WF_vars(Skip(p))
FairSpec == Spec /\ Fairness
-----------------------------------------------------------------------------
(* Properties                                                              *)

\* Whatever replica dies in the middle, the backups come down to the number the
\* policy keeps, and a backup that is due is taken, or the policy changes.
PolicyReached ==
  /\ []<>(~ready \/ ~Excess)
  /\ []<>(~ready \/ ~BackupDue \/ taken = MaxSnaps)

\* The newest backups, as many as the smallest policy in force so far keeps, can
\* be restored: no pass, however late, deletes their snapshots.  The exception
\* is a record whose commit took effect without an answer: the service takes
\* it for unrecorded and deletes its snapshot.
RecordedUsable ==
  ~unanswered =>
    \A i \in 1 .. Count : i > Count - least => records[i] \in DOMAIN snaps

\* Replicas that saw the same backup due take one: the others find it taken.
OneBackupPerDue ==
  [][ \A p \in Procs :
        Record(p) /\ task[p].job = "automatic" /\ faults = 0
          => due # "future" ]_vars

\* The session an Environment would resume exists in its root file system,
\* except while a restore has yet to be recorded.
CoordinatesRestored ==
  faults = 0 /\ coordinates # 0 /\ coordinates \notin rootfs
    => \E p \in Procs : At(p, "restored")

\* "Restore invalidates runtime-local terminal coordinates"
\* (native-agent-terminal-authority.md:167), also when the replica that
\* restores dies before it has recorded the restore.
RestoreInvalidates ==
  coordinates # 0 /\ coordinates \notin rootfs => \E p \in Procs : At(p, "restored")
=============================================================================
