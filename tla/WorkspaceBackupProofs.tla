------------------------- MODULE WorkspaceBackupProofs -------------------------
(***************************************************************************)
(* The safety of WorkspaceBackup for any number of replicas, snapshots,    *)
(* native sessions, requests, changes and failures, and any retention.     *)
(***************************************************************************)
EXTENDS WorkspaceBackup, SequenceTheorems, TLAPS

Bounds ==
  /\ MaxSnaps \in Nat /\ MaxSessions \in Nat /\ MaxRetain \in Nat \ {0} /\ NoProc \notin Procs

Labels ==
  {"idle", "lock", "prepare", "hook", "snapshot", "record", "discard", "list", "prune",
   "forget", "healthy", "failed", "pause", "restore", "restored", "resume", "recover", "settle"}
Tasks == [at : Labels, job : Jobs \cup {"none"}, keep : Nat, snap : Nat,
          doomed : Seq(Nat), resume : BOOLEAN, lost : BOOLEAN]

\* What TypeOK leaves open: the tasks, the content of the snapshots, the counters.
Typed ==
  /\ records \in Seq(Nat) /\ task \in [Procs -> Tasks]
  /\ \A i \in DOMAIN snaps : snaps[i] \subseteq 1 .. MaxSessions
  /\ least \in 1 .. retain /\ taken \in 0 .. MaxSnaps /\ born \in 0 .. MaxSessions
  /\ faults \in Nat

\* The lock is held by the one process that has taken it and not lost it.
Beyond(p) == task[p].at \notin {"idle", "lock"}
Held == \A p \in Procs : /\ lock = p <=> Beyond(p) /\ ~task[p].lost
                         /\ task[p].lost => Beyond(p)

\* The steps that belong to each job.
Placed ==
  \A p \in Procs :
    /\ task[p].at \in {"snapshot", "record", "discard", "list", "prune", "forget"}
         => task[p].job # "restore"
    /\ task[p].at \in {"pause", "restore", "restored"} => task[p].job = "restore"

\* A snapshot that is not recorded yet exists, is nobody else's and newer than the
\* recorded ones; one that is discarded was not recorded, as far as that is known.
Fresh(p) ==
  /\ task[p].snap \in DOMAIN snaps
  /\ \A i \in 1 .. Count : records[i] # task[p].snap
  /\ ~task[p].lost => \A i \in 1 .. Count : records[i] < task[p].snap
  /\ \A q \in Procs : \A j \in 1 .. Len(task[q].doomed) : task[q].doomed[j] # task[p].snap
Unrecorded ==
  \A p \in Procs :
    /\ task[p].at \in {"record", "discard"} => task[p].snap \in 1 .. taken
    /\ task[p].at = "record" => Fresh(p)
    /\ task[p].at = "discard" /\ ~unanswered => \A i \in 1 .. Count : records[i] # task[p].snap
    /\ \A q \in Procs :
         /\ task[p].at \in {"record", "discard"} /\ task[q].at \in {"record", "discard"}
         /\ task[p].snap = task[q].snap
         => p = q

\* What a pass is going to prune is older than the backups it must keep.
Outdated(id) == least <= Count /\ \A i \in 1 .. Count : i > Count - least => records[i] > id
Doomed ==
  \A p \in Procs :
    /\ task[p].at \in {"hook", "snapshot", "record", "list"} /\ task[p].job # "restore"
         => task[p].keep >= least
    /\ task[p].at \in {"prune", "forget"} => task[p].doomed # <<>>
    /\ \A j \in 1 .. Len(task[p].doomed) :
         task[p].doomed[j] \in 1 .. taken /\ (ready => Outdated(task[p].doomed[j]))

\* With an Environment its records go.
Gone == ~ready => Count = 0

\* As long as it has the lock, a process finds what it has seen.
Seen ==
  \A p \in Procs : ~task[p].lost =>
    /\ task[p].job = "automatic" /\ task[p].at \in {"hook", "snapshot", "record"}
         => due # "future"
    /\ task[p].job = "restore" /\ task[p].at \in {"hook", "pause", "restore", "restored"}
         => ready /\ \E i \in 1 .. Count : records[i] = task[p].snap

\* Without a failure nobody loses the lock.
Kept == faults = 0 => \A p \in Procs : ~task[p].lost

Inductive ==
  /\ TypeOK /\ Typed /\ Held /\ Placed /\ Unrecorded /\ Doomed /\ Gone /\ Seen /\ Kept
  /\ RecordedUsable /\ CoordinatesRestored
-----------------------------------------------------------------------------
(* Records, snapshots and tasks, then lemmas for the conjuncts.            *)

\* A record is added after the others.
LEMMA Added ==
  ASSUME records \in Seq(Nat), NEW id \in Nat, records' = Append(records, id)
  PROVE  /\ records' \in Seq(Nat) /\ Count \in Nat /\ Count' = Count + 1
         /\ \A i \in 1 .. Count : records'[i] = records[i]
         /\ records'[Count'] = id
BY DEF Count

\* A record is taken out, or there is none.
LEMMA Removed ==
  ASSUME records \in Seq(Nat), NEW id, Deleted(id)
  PROVE  \/ records' = records /\ \A i \in 1 .. Count : records[i] # id
         \/ \E k \in 1 .. Count :
              /\ records[k] = id /\ records' \in Seq(Nat) /\ Count \in Nat /\ Count' = Count - 1
              /\ \A i \in 1 .. k - 1 : records'[i] = records[i]
              /\ \A i \in k .. Count - 1 : records'[i] = records[i + 1]
<1>1. CASE records' = records /\ \A i \in 1 .. Count : records[i] # id
  BY <1>1
<1>2. ASSUME NEW k \in 1 .. Count, records[k] = id, records' = RemoveAt(records, k)
      PROVE  /\ records' \in Seq(Nat) /\ Count \in Nat /\ Count' = Count - 1
             /\ \A i \in 1 .. k - 1 : records'[i] = records[i]
             /\ \A i \in k .. Count - 1 : records'[i] = records[i + 1]
  <2> DEFINE s == SubSeq(records, 1, k - 1)
  <2> DEFINE t == SubSeq(records, k + 1, Len(records))
  <2>1. Len(records) \in Nat /\ Count = Len(records) /\ k \in 1 .. Len(records)
    BY DEF Count
  <2>2. /\ s \in Seq(Nat) /\ Len(s) = k - 1
        /\ \A i \in 1 .. k - 1 : s[i] = records[i]
    BY <2>1
  <2>3. /\ t \in Seq(Nat) /\ Len(t) = Len(records) - k
        /\ \A i \in 1 .. Len(records) - k : t[i] = records[k + i]
    BY <2>1
  <2>4. records' = s \o t
    BY <1>2 DEF RemoveAt
  <2> HIDE DEF s, t
  <2>5. /\ s \o t \in Seq(Nat) /\ Len(s \o t) = Len(s) + Len(t)
        /\ \A i \in 1 .. Len(s) + Len(t) : (s \o t)[i] = IF i <= Len(s) THEN s[i] ELSE t[i - Len(s)]
    BY <2>2, <2>3, ConcatProperties
  <2>6. records' \in Seq(Nat) /\ Len(records') = Len(records) - 1
    <3>1. Len(s \o t) = Len(records) - 1
      BY <2>1, <2>2, <2>3, <2>5
    <3> QED
      BY <2>4, <2>5, <3>1
  <2>7. \A i \in 1 .. k - 1 : records'[i] = records[i]
    BY <2>1, <2>2, <2>3, <2>4, <2>5
  <2>8. ASSUME NEW i \in k .. Count - 1 PROVE records'[i] = records[i + 1]
    <3>1. i - (k - 1) \in 1 .. Len(t) /\ i \in 1 .. Len(s) + Len(t) /\ ~(i <= Len(s))
      BY <2>1, <2>2, <2>3
    <3>2. records'[i] = (s \o t)[i] /\ i - Len(s) = i - (k - 1)
      BY <2>2, <2>4
    <3>3. (s \o t)[i] = t[i - Len(s)]
      BY <2>5, <3>1
    <3>4. t[i - (k - 1)] = records[k + (i - (k - 1))]
      <4>1. i - (k - 1) \in 1 .. Len(records) - k
        BY <2>3, <3>1
      <4> QED
        BY <2>3, <4>1
    <3>5. k + (i - (k - 1)) = i + 1
      BY <2>1
    <3> QED
      BY <3>2, <3>3, <3>4, <3>5
  <2> QED
    BY <2>1, <2>6, <2>7, <2>8 DEF Count
<1> QED
  BY <1>1, <1>2 DEF Deleted

\* What is over the retention comes first.
LEMMA Over ==
  ASSUME records \in Seq(Nat), NEW keep \in Nat
  PROVE  /\ BeyondRetention(keep) \in Seq(Nat)
         /\ \/ BeyondRetention(keep) = <<>>
            \/ /\ Count > keep /\ Len(BeyondRetention(keep)) = Count - keep
               /\ \A j \in 1 .. Count - keep : BeyondRetention(keep)[j] = records[j]
BY DEF BeyondRetention, Count

-----------------------------------------------------------------------------

\* The plain facts of the types.
LEMMA Plain ==
  ASSUME Bounds, TypeOK, Typed
  PROVE  /\ records \in Seq(Nat) /\ Count \in Nat /\ taken \in Nat /\ taken \in 0 .. MaxSnaps
         /\ \A i \in 1 .. Count : records[i] \in 1 .. taken /\ records[i] \in Nat
         /\ \A i, j \in 1 .. Count : i < j => records[i] < records[j]
         /\ \A p \in Procs : task[p].snap \in Nat /\ task[p].keep \in Nat /\ task[p].doomed \in Seq(Nat)
         /\ least \in Nat \ {0} /\ retain \in Nat /\ least <= retain
<1>1. records \in Seq(Nat) /\ Count \in Nat
  BY DEF Typed, Count
<1>2. taken \in Nat /\ taken \in 0 .. MaxSnaps
  BY DEF Typed, Bounds
<1>3. \A i \in 1 .. Count : records[i] \in 1 .. taken /\ records[i] \in Nat
  BY <1>2 DEF TypeOK
<1>4. \A p \in Procs : task[p].snap \in Nat /\ task[p].keep \in Nat /\ task[p].doomed \in Seq(Nat)
  BY DEF Typed, Tasks
<1>5. least \in Nat \ {0} /\ retain \in Nat /\ least <= retain
  BY DEF TypeOK, Typed, Bounds
<1>6. \A i, j \in 1 .. Count : i < j => records[i] < records[j]
  BY DEF TypeOK
<1> QED
  BY <1>1, <1>2, <1>3, <1>4, <1>5, <1>6

\* Nothing comes to the records by a deletion, nor to the doomed by going on.
LEMMA Shrinks ==
  ASSUME records \in Seq(Nat), NEW id, Deleted(id)
  PROVE  \A i \in 1 .. Count' : \E k \in 1 .. Count : records'[i] = records[k]
<1>1. CASE records' = records
  BY <1>1 DEF Count
<1>2. ASSUME NEW k \in 1 .. Count, Count \in Nat, Count' = Count - 1,
             \A i \in 1 .. k - 1 : records'[i] = records[i],
             \A i \in k .. Count - 1 : records'[i] = records[i + 1]
      PROVE  \A i \in 1 .. Count' : \E n \in 1 .. Count : records'[i] = records[n]
  <2>1. ASSUME NEW i \in 1 .. Count' PROVE \E n \in 1 .. Count : records'[i] = records[n]
    <3>1. CASE i < k
      BY <1>2, <3>1
    <3>2. CASE i >= k
      <4>1. i + 1 \in 1 .. Count /\ records'[i] = records[i + 1]
        BY <1>2, <3>2
      <4> QED
        BY <4>1
    <3>3. i < k \/ i >= k
      BY <1>2
    <3> QED
      BY <3>1, <3>2, <3>3
  <2> QED
    BY <2>1
<1> QED
  BY <1>1, <1>2, Removed

LEMMA TailOf ==
  ASSUME NEW s \in Seq(Nat), s # <<>>
  PROVE  /\ Head(s) = s[1] /\ 1 \in 1 .. Len(s) /\ Len(s) \in Nat
         /\ Tail(s) \in Seq(Nat) /\ Len(Tail(s)) = Len(s) - 1
         /\ \A j \in 1 .. Len(Tail(s)) : j + 1 \in 1 .. Len(s) /\ Tail(s)[j] = s[j + 1]
OBVIOUS

\* The record of an outdated backup can go: the newest ones stay, and stay newest.
LEMMA OutdatedGoes ==
  ASSUME records \in Seq(Nat), NEW id, Outdated(id), Deleted(id), least \in Nat, UNCHANGED least
  PROVE  \/ UNCHANGED records
         \/ /\ least <= Count' /\ Count \in Nat /\ Count' = Count - 1
            /\ \A i \in 1 .. Count' : i > Count' - least =>
                 i + 1 \in 1 .. Count /\ i + 1 > Count - least /\ records'[i] = records[i + 1]
<1>1. ASSUME NEW k \in 1 .. Count, records[k] = id, Count \in Nat, Count' = Count - 1,
             \A i \in k .. Count - 1 : records'[i] = records[i + 1]
      PROVE  /\ least <= Count'
             /\ \A i \in 1 .. Count' : i > Count' - least =>
                  i + 1 \in 1 .. Count /\ i + 1 > Count - least /\ records'[i] = records[i + 1]
  <2>1. ~(records[k] > id)
    <3>1. records[k] \in Nat
      BY <1>1 DEF Count
    <3> QED
      BY <1>1, <3>1
  <2>2. k <= Count - least /\ least <= Count
    BY <1>1, <2>1 DEF Outdated
  <2> QED
    BY <1>1, <2>2
<1>2. CASE records' = records
  BY <1>2
<1> QED
  BY <1>1, <1>2, Removed

(* What the steps make of a task.                                          *)

Alone(p) == \A q \in Procs \ {p} : task'[q] = task[q]

\* The task goes on from another place, or ends.
Goes(p, l) ==
  /\ Alone(p) /\ task'[p].at = l
  /\ task'[p].job = task[p].job /\ task'[p].keep = task[p].keep
  /\ task'[p].snap = task[p].snap /\ task'[p].doomed = task[p].doomed
  /\ task'[p].resume = task[p].resume /\ task'[p].lost = task[p].lost
Ends(p) ==
  /\ Alone(p) /\ task'[p] = Idle
  /\ task'[p].at = "idle" /\ task'[p].job = "none" /\ task'[p].doomed = <<>>
  /\ task'[p].lost = FALSE

LEMMA GoGoes == ASSUME Typed, NEW p \in Procs, NEW l, Go(p, l) PROVE Goes(p, l)
BY DEF Go, Goes, Alone, Typed, Tasks

LEMMA ReleaseEnds ==
  ASSUME Typed, NEW p \in Procs, Release(p)
  PROVE  Ends(p) /\ lock' = IF lock = p THEN NoProc ELSE lock
<1>1. Idle.at = "idle" /\ Idle.job = "none" /\ Idle.doomed = <<>> /\ Idle.lost = FALSE
  BY DEF Idle
<1> QED
  BY <1>1 DEF Release, Ends, Alone, Typed

\* The step of each action.
LEMMA CandidateMoves ==
  ASSUME Typed, NEW p \in Procs, Candidate(p)
  PROVE  /\ Alone(p) /\ task[p].at = "idle" /\ task'[p].at = "lock"
         /\ task'[p].job = "automatic" /\ task'[p].doomed = task[p].doomed
         /\ task'[p].lost = task[p].lost /\ UNCHANGED lock
BY DEF Candidate, At, Alone, Typed, Tasks

LEMMA AskMoves ==
  ASSUME Typed, NEW p \in Procs, Ask(p)
  PROVE  /\ Alone(p) /\ task[p].at = "idle" /\ task'[p].at = "lock"
         /\ task'[p].job \in {"manual", "restore"} /\ task'[p].doomed = task[p].doomed
         /\ task'[p].lost = task[p].lost /\ UNCHANGED lock
<1>1. ASSUME task' = [task EXCEPT ![p].at = "lock", ![p].job = "manual"]
      PROVE  /\ Alone(p) /\ task'[p].at = "lock" /\ task'[p].job = "manual"
             /\ task'[p].doomed = task[p].doomed /\ task'[p].lost = task[p].lost
  BY <1>1 DEF Alone, Typed, Tasks
<1>2. ASSUME NEW i \in 1 .. Count,
             task' = [task EXCEPT ![p].at = "lock", ![p].job = "restore", ![p].snap = records[i]]
      PROVE  /\ Alone(p) /\ task'[p].at = "lock" /\ task'[p].job = "restore"
             /\ task'[p].doomed = task[p].doomed /\ task'[p].lost = task[p].lost
  BY <1>2 DEF Alone, Typed, Tasks
<1> QED
  BY <1>1, <1>2 DEF Ask, At

LEMMA PrepareMoves ==
  ASSUME Typed, NEW p \in Procs, Prepare(p)
  PROVE  /\ task[p].at = "prepare" /\ task[p].job # "restore"
         /\ \/ Ends(p) /\ lock' = (IF lock = p THEN NoProc ELSE lock) /\ UNCHANGED retry
            \/ /\ Alone(p) /\ task'[p].keep = retain /\ task'[p].at \in {"hook", "list"}
               /\ task'[p].at = "hook" /\ task[p].job = "automatic" => BackupDue
               /\ task'[p].job = task[p].job /\ task'[p].doomed = task[p].doomed
               /\ task'[p].lost = task[p].lost /\ UNCHANGED lock /\ retry' = "future"
<1>1. CASE Release(p) /\ UNCHANGED retry
  BY <1>1, ReleaseEnds DEF Prepare, At
<1>2. CASE /\ retry' = "future" /\ UNCHANGED lock
           /\ task' = [task EXCEPT ![p].keep = retain,
                ![p].at = IF task[p].job = "manual" \/ BackupDue THEN "hook" ELSE "list"]
  BY <1>2 DEF Prepare, At, Alone, Typed, Tasks
<1> QED
  BY <1>1, <1>2 DEF Prepare

LEMMA SnapshotMoves ==
  ASSUME Typed, NEW p \in Procs, Snapshot(p)
  PROVE  /\ Alone(p) /\ task[p].at = "snapshot" /\ task'[p].at = "record"
         /\ task'[p].snap = taken + 1 /\ task'[p].job = task[p].job
         /\ task'[p].keep = task[p].keep
         /\ task'[p].doomed = task[p].doomed /\ task'[p].lost = task[p].lost
         /\ UNCHANGED lock
BY DEF Snapshot, At, Alone, Typed, Tasks

LEMMA ListMoves ==
  ASSUME Typed, NEW p \in Procs, List(p)
  PROVE  /\ Alone(p) /\ task[p].at = "list" /\ task'[p].lost = task[p].lost
         /\ task'[p].job = task[p].job
         /\ task'[p].doomed = BeyondRetention(task[p].keep)
         /\ task'[p].at = IF task[p].lost THEN "failed"
                          ELSE IF task'[p].doomed = <<>> THEN "healthy" ELSE "prune"
         /\ UNCHANGED lock
BY DEF List, At, Alone, Typed, Tasks

LEMMA ForgetMoves ==
  ASSUME Typed, NEW p \in Procs, Forget(p)
  PROVE  /\ task[p].at = "forget" /\ UNCHANGED lock
         /\ \/ Goes(p, "failed") /\ task[p].lost /\ UNCHANGED records
            \/ /\ ~task[p].lost /\ Deleted(Head(task[p].doomed))
               /\ Alone(p) /\ task'[p].lost = task[p].lost
               /\ task'[p].job = task[p].job
               /\ task'[p].doomed = Tail(task[p].doomed)
               /\ task'[p].at = IF Len(task[p].doomed) = 1 THEN "healthy" ELSE "prune"
<1>1. CASE task[p].lost
  BY <1>1, GoGoes DEF Forget, At
<1>2. CASE ~task[p].lost
  <2>1. task' = [task EXCEPT ![p].doomed = Tail(@),
                   ![p].at = IF Len(task[p].doomed) = 1 THEN "healthy" ELSE "prune"]
    BY <1>2 DEF Forget
  <2>2. /\ Alone(p) /\ task'[p].lost = task[p].lost /\ task'[p].job = task[p].job
        /\ task'[p].doomed = Tail(task[p].doomed)
        /\ task'[p].at = IF Len(task[p].doomed) = 1 THEN "healthy" ELSE "prune"
    BY <2>1 DEF Alone, Typed, Tasks
  <2> QED
    BY <1>2, <2>2 DEF Forget, At
<1> QED
  BY <1>1, <1>2

LEMMA PrepareRestoreMoves ==
  ASSUME Typed, NEW p \in Procs, PrepareRestore(p)
  PROVE  /\ task[p].at = "prepare" /\ task[p].job = "restore"
         /\ \/ Ends(p) /\ lock' = IF lock = p THEN NoProc ELSE lock
            \/ /\ RowThere(p) /\ \E i \in 1 .. Count : records[i] = task[p].snap
               /\ Alone(p) /\ task'[p].at = "hook" /\ task'[p].lost = task[p].lost
               /\ task'[p].job = task[p].job /\ task'[p].snap = task[p].snap
               /\ task'[p].doomed = task[p].doomed
               /\ UNCHANGED lock
<1>1. CASE Release(p)
  BY <1>1, ReleaseEnds DEF PrepareRestore, At
<1>2. CASE /\ task' = [task EXCEPT ![p].at = "hook", ![p].resume = desired = "running"]
           /\ RowThere(p) /\ \E i \in 1 .. Count : records[i] = task[p].snap
           /\ UNCHANGED lock
  BY <1>2 DEF PrepareRestore, At, Alone, Typed, Tasks
<1> QED
  BY <1>1, <1>2 DEF PrepareRestore

LEMMA LoseLockMoves ==
  ASSUME Typed, NEW p \in Procs, LoseLock(p)
  PROVE  /\ lock = p /\ lock' = NoProc /\ Alone(p) /\ task'[p].at = task[p].at /\ task'[p].lost = TRUE
         /\ task'[p].job = task[p].job /\ task'[p].keep = task[p].keep
         /\ task'[p].snap = task[p].snap
         /\ task'[p].doomed = task[p].doomed
BY DEF LoseLock, Alone, Typed, Tasks

LEMMA HookMoves ==
  ASSUME Typed, NEW p \in Procs, Hook(p)
  PROVE  task[p].at = "hook" /\ Goes(p, IF task[p].job = "restore" THEN "pause" ELSE "snapshot") /\ UNCHANGED lock
BY GoGoes DEF Hook, At

LEMMA SnapshotRefusedMoves ==
  ASSUME Typed, NEW p \in Procs, SnapshotRefused(p)
  PROVE  task[p].at = "snapshot" /\ Goes(p, "failed") /\ UNCHANGED lock
BY GoGoes DEF SnapshotRefused, At

LEMMA RecordMoves ==
  ASSUME Typed, NEW p \in Procs, Record(p)
  PROVE  task[p].at = "record" /\ Goes(p, "list") /\ UNCHANGED lock
BY GoGoes DEF Record, At

LEMMA RecordRefusedMoves ==
  ASSUME Typed, NEW p \in Procs, RecordRefused(p)
  PROVE  task[p].at = "record" /\ Goes(p, "discard") /\ UNCHANGED lock
BY GoGoes DEF RecordRefused, At

LEMMA DiscardMoves ==
  ASSUME Typed, NEW p \in Procs, Discard(p)
  PROVE  task[p].at = "discard" /\ Goes(p, "failed") /\ UNCHANGED lock
BY GoGoes DEF Discard, At

LEMMA PruneMoves ==
  ASSUME Typed, NEW p \in Procs, Prune(p)
  PROVE  task[p].at = "prune" /\ Goes(p, "forget") /\ UNCHANGED lock
BY GoGoes DEF Prune, At

LEMMA StopMoves ==
  ASSUME Typed, NEW p \in Procs, Stop(p)
  PROVE  task[p].at = "pause" /\ Goes(p, "restore") /\ UNCHANGED lock
BY GoGoes DEF Stop, At

LEMMA ResumeMoves ==
  ASSUME Typed, NEW p \in Procs, Resume(p)
  PROVE  task[p].at \in {"resume", "recover"} /\ Goes(p, "settle") /\ UNCHANGED lock
BY GoGoes DEF Resume, At

LEMMA AnswerLostMoves ==
  ASSUME Typed, NEW p \in Procs, AnswerLost(p)
  PROVE  task[p].at = "record" /\ Goes(p, "discard") /\ UNCHANGED lock
BY GoGoes DEF AnswerLost, At

LEMMA SkipMoves ==
  ASSUME Typed, NEW p \in Procs, Skip(p)
  PROVE  task[p].at = "lock" /\ Ends(p) /\ lock' = IF lock = p THEN NoProc ELSE lock
BY ReleaseEnds DEF Skip, At

LEMMA ConcludeMoves ==
  ASSUME Typed, NEW p \in Procs, Conclude(p)
  PROVE  task[p].at \in {"healthy", "failed"} /\ Ends(p) /\ lock' = IF lock = p THEN NoProc ELSE lock
BY ReleaseEnds DEF Conclude, At

LEMMA SettleMoves ==
  ASSUME Typed, NEW p \in Procs, Settle(p)
  PROVE  task[p].at = "settle" /\ Ends(p) /\ lock' = IF lock = p THEN NoProc ELSE lock
BY ReleaseEnds DEF Settle, At

LEMMA CrashMoves ==
  ASSUME Typed, NEW p \in Procs, Crash(p)
  PROVE  task[p].at # "idle" /\ Ends(p) /\ lock' = IF lock = p THEN NoProc ELSE lock
BY ReleaseEnds DEF Crash, At

LEMMA AcquireMoves ==
  ASSUME Typed, NEW p \in Procs, Acquire(p)
  PROVE  task[p].at = "lock" /\ Goes(p, "prepare") /\ lock = NoProc /\ lock' = p
BY GoGoes DEF Acquire, At

LEMMA RecoverMoves ==
  ASSUME Typed, NEW p \in Procs, Recover(p)
  PROVE  \/ Goes(p, "recover") /\ UNCHANGED lock
         \/ Ends(p) /\ lock' = IF lock = p THEN NoProc ELSE lock
BY GoGoes, ReleaseEnds DEF Recover

LEMMA RestoreRootFSMoves ==
  ASSUME Typed, NEW p \in Procs, RestoreRootFS(p)
  PROVE  /\ task[p].at = "restore"
         /\ \/ Goes(p, "restored") /\ UNCHANGED lock
            \/ /\ UNCHANGED rootfs
               /\ \/ Goes(p, "recover") /\ UNCHANGED lock
                  \/ Ends(p) /\ lock' = IF lock = p THEN NoProc ELSE lock
BY GoGoes, RecoverMoves DEF RestoreRootFS, At

LEMMA RecordRestoredMoves ==
  ASSUME Typed, NEW p \in Procs, RecordRestored(p)
  PROVE  /\ task[p].at = "restored"
         /\ \/ /\ coordinates' = 0 /\ UNCHANGED lock
               /\ Goes(p, IF task[p].resume THEN "resume" ELSE "settle")
            \/ /\ UNCHANGED coordinates
               /\ ~(RowThere(p) /\ \E i \in 1 .. Count : records[i] = task[p].snap)
               /\ \/ Goes(p, "recover") /\ UNCHANGED lock
                  \/ Ends(p) /\ lock' = IF lock = p THEN NoProc ELSE lock
BY GoGoes, RecoverMoves DEF RecordRestored, CoordinatesCleared, At

LEMMA CallFailsMoves ==
  ASSUME Typed, NEW p \in Procs, CallFails(p)
  PROVE  /\ task[p].at \in {"hook", "snapshot", "prune", "pause", "restore", "resume"}
         /\ \/ /\ Goes(p, "failed") /\ UNCHANGED lock
               /\ \/ task[p].at \in {"snapshot", "prune"}
                  \/ task[p].at = "hook" /\ task[p].job # "restore"
            \/ Goes(p, "recover") /\ UNCHANGED lock
            \/ Ends(p) /\ lock' = IF lock = p THEN NoProc ELSE lock
<1> DEFINE Hooked == task[p].at = "hook" /\ task[p].job = "restore"
<1>1. task[p].at \in {"hook", "snapshot", "prune", "pause", "restore", "resume"}
  BY DEF CallFails
<1>2. CASE Hooked
  BY <1>2, ReleaseEnds DEF CallFails, At
<1>3. CASE task[p].at \in {"pause", "restore", "resume"}
  <2>1. Recover(p)
    BY <1>3 DEF CallFails, At
  <2> QED
    BY <1>1, <2>1, RecoverMoves
<1>4. CASE ~Hooked /\ task[p].at \in {"hook", "snapshot", "prune"}
  <2>1. /\ ~(At(p, "hook") /\ task[p].job = "restore")
        /\ task[p].at \notin {"pause", "restore", "resume"}
    BY <1>4 DEF At
  <2>2. Go(p, "failed") /\ UNCHANGED lock
    BY <2>1, Zenon DEF CallFails
  <2> QED
    BY <1>1, <1>4, <2>2, GoGoes
<1> QED
  BY <1>1, <1>2, <1>3, <1>4

\* What is taken is the root file system, and what is dropped is gone.
LEMMA Dropped ==
  ASSUME NEW id, Drop(id)
  PROVE  /\ DOMAIN snaps' = DOMAIN snaps \ {id}
         /\ \A i \in DOMAIN snaps \ {id} : snaps'[i] = snaps[i]
BY DEF Drop

LEMMA Taken ==
  ASSUME Typed, TypeOK, Bounds, Take(taken + 1)
  PROVE  /\ taken < MaxSnaps /\ taken' = taken + 1
         /\ DOMAIN snaps' = DOMAIN snaps \cup {taken + 1}
         /\ \A i \in DOMAIN snaps' : snaps'[i] = IF i = taken + 1 THEN rootfs ELSE snaps[i]
BY DEF Take

\* What a call that fails may have done all the same.
LEMMA CallFailsWrites ==
  ASSUME Typed, NEW p \in Procs, CallFails(p)
  PROVE  \/ UNCHANGED <<rootfs, snaps, taken>>
         \/ task[p].at = "snapshot" /\ Take(taken + 1) /\ UNCHANGED rootfs
         \/ task[p].at = "prune" /\ Drop(Head(task[p].doomed)) /\ UNCHANGED <<rootfs, taken>>
         \/ /\ task[p].at = "restore" /\ task[p].snap \in DOMAIN snaps
            /\ rootfs' = snaps[task[p].snap] /\ UNCHANGED <<snaps, taken>>
BY DEF CallFails, At

\* The lock is taken when it is free and given back by its holder.
LEMMA HeldStep == ASSUME Bounds, Typed, Held, [Next]_vars PROVE Held'
<1>m. ASSUME NEW p \in Procs, Alone(p), UNCHANGED lock, task'[p].lost = task[p].lost,
             task[p].at \notin {"idle", "lock"} <=> task'[p].at \notin {"idle", "lock"}
      PROVE  Held'
  BY <1>m DEF Alone, Held, Beyond
<1>g. ASSUME NEW p \in Procs, NEW l, Goes(p, l), task[p].at \notin {"idle", "lock"},
             l \notin {"idle", "lock"}, UNCHANGED lock
      PROVE  Held'
  BY <1>g, <1>m DEF Goes
<1>e. ASSUME NEW p \in Procs, Ends(p), lock' = IF lock = p THEN NoProc ELSE lock
      PROVE  Held'
  BY <1>e DEF Ends, Alone, Held, Beyond, Bounds
<1>u. ASSUME UNCHANGED <<task, lock>> PROVE Held'
  BY <1>u DEF Held, Beyond
<1> USE DEF sandbox, policy, schedule, bounds, Changed, vars
\* The rest of the system, and time.
<1>1. ASSUME NewSession PROVE Held'
  BY <1>1, <1>u DEF NewSession
<1>2. ASSUME Pause PROVE Held'
  BY <1>2, <1>u DEF Pause
<1>3. ASSUME Access PROVE Held'
  BY <1>3, <1>u DEF Access
<1>4. ASSUME Update PROVE Held'
  BY <1>4, <1>u DEF Update
<1>5. ASSUME Delete PROVE Held'
  BY <1>5, <1>u DEF Delete
<1>6. ASSUME DueComes PROVE Held'
  BY <1>6, <1>u DEF DueComes
<1>7. ASSUME RetryComes PROVE Held'
  BY <1>7, <1>u DEF RetryComes
\* Taking the lock, or not.
<1>8. ASSUME NEW p \in Procs, Candidate(p) PROVE Held'
  BY <1>8, CandidateMoves, <1>g, <1>e, <1>m
<1>9. ASSUME NEW p \in Procs, Ask(p) PROVE Held'
  BY <1>9, AskMoves, <1>g, <1>e, <1>m
<1>10. ASSUME NEW p \in Procs, Acquire(p) PROVE Held'
  BY <1>10, AcquireMoves DEF Goes, Alone, Held, Beyond, Bounds
<1>11. ASSUME NEW p \in Procs, Skip(p) PROVE Held'
  BY <1>11, SkipMoves, <1>e
\* A backup.
<1>12. ASSUME NEW p \in Procs, Prepare(p) PROVE Held'
  <2>1. CASE Ends(p)
    BY <1>12, <2>1, PrepareMoves, <1>e DEF Ends
  <2>2. CASE Alone(p) /\ task'[p].at \in {"hook", "list"} /\ task'[p].lost = task[p].lost /\ UNCHANGED lock
    BY <1>12, <2>2, PrepareMoves, <1>m
  <2> QED
    BY <1>12, <2>1, <2>2, PrepareMoves, <1>e
<1>13. ASSUME NEW p \in Procs, Hook(p) PROVE Held'
  <2>1. (IF task[p].job = "restore" THEN "pause" ELSE "snapshot") \notin {"idle", "lock"}
    OBVIOUS
  <2> QED
    BY <1>13, <2>1, HookMoves, <1>g
<1>14. ASSUME NEW p \in Procs, Snapshot(p) PROVE Held'
  BY <1>14, SnapshotMoves, <1>g, <1>e, <1>m
<1>15. ASSUME NEW p \in Procs, SnapshotRefused(p) PROVE Held'
  BY <1>15, SnapshotRefusedMoves, <1>g
<1>16. ASSUME NEW p \in Procs, Record(p) PROVE Held'
  BY <1>16, RecordMoves, <1>g
<1>17. ASSUME NEW p \in Procs, RecordRefused(p) PROVE Held'
  BY <1>17, RecordRefusedMoves, <1>g
<1>18. ASSUME NEW p \in Procs, Discard(p) PROVE Held'
  BY <1>18, DiscardMoves, <1>g
<1>19. ASSUME NEW p \in Procs, List(p) PROVE Held'
  BY <1>19, ListMoves, <1>g, <1>e, <1>m
<1>20. ASSUME NEW p \in Procs, Prune(p) PROVE Held'
  BY <1>20, PruneMoves, <1>g
<1>21. ASSUME NEW p \in Procs, Forget(p) PROVE Held'
  BY <1>21, ForgetMoves, <1>g, <1>e, <1>m
<1>22. ASSUME NEW p \in Procs, Conclude(p) PROVE Held'
  BY <1>22, ConcludeMoves, <1>e
\* A restore.
<1>23. ASSUME NEW p \in Procs, PrepareRestore(p) PROVE Held'
  BY <1>23, PrepareRestoreMoves, <1>g, <1>e, <1>m
<1>24. ASSUME NEW p \in Procs, Stop(p) PROVE Held'
  BY <1>24, StopMoves, <1>g
<1>25. ASSUME NEW p \in Procs, RestoreRootFS(p) PROVE Held'
  BY <1>25, RestoreRootFSMoves, <1>g, <1>e, <1>m
<1>26. ASSUME NEW p \in Procs, RecordRestored(p) PROVE Held'
  <2>1. (IF task[p].resume THEN "resume" ELSE "settle") \notin {"idle", "lock"}
    OBVIOUS
  <2> QED
    BY <1>26, <2>1, RecordRestoredMoves, <1>g, <1>e
<1>27. ASSUME NEW p \in Procs, Resume(p) PROVE Held'
  BY <1>27, ResumeMoves, <1>g
<1>28. ASSUME NEW p \in Procs, Settle(p) PROVE Held'
  BY <1>28, SettleMoves, <1>e
\* Failures.
<1>29. ASSUME NEW p \in Procs, CallFails(p) PROVE Held'
  <2>1. task[p].at \notin {"idle", "lock"}
    BY <1>29, CallFailsMoves
  <2>2. CASE Goes(p, "failed") /\ UNCHANGED lock
    BY <2>1, <2>2, <1>g
  <2>3. CASE Goes(p, "recover") /\ UNCHANGED lock
    BY <2>1, <2>3, <1>g
  <2> QED
    BY <1>29, <2>2, <2>3, CallFailsMoves, <1>e
<1>30. ASSUME NEW p \in Procs, AnswerLost(p) PROVE Held'
  BY <1>30, AnswerLostMoves, <1>g
<1>31. ASSUME NEW p \in Procs, LoseLock(p) PROVE Held'
  <2>1. /\ lock = p /\ lock' = NoProc /\ NoProc \notin Procs /\ Alone(p)
        /\ task'[p].at = task[p].at /\ task'[p].lost = TRUE
    BY <1>31, LoseLockMoves DEF Bounds
  <2>2. Beyond(p)
    BY <2>1 DEF Held
  <2> QED
    BY <2>1, <2>2 DEF Alone, Held, Beyond
<1>32. ASSUME NEW p \in Procs, Crash(p) PROVE Held'
  BY <1>32, CrashMoves, <1>e
<1>33. ASSUME UNCHANGED vars PROVE Held'
  BY <1>33, <1>u DEF vars
<1> QED
  BY <1>1, <1>2, <1>3, <1>4, <1>5, <1>6, <1>7, <1>8, <1>9, <1>10, <1>11, <1>12, <1>13,
       <1>14, <1>15, <1>16, <1>17, <1>18, <1>19, <1>20, <1>21, <1>22, <1>23, <1>24,
       <1>25, <1>26, <1>27, <1>28, <1>29, <1>30, <1>31, <1>32, <1>33 DEF Next, Proceed,
       Backup, Restore

\* Each step leads to one of the same job.
LEMMA PlacedStep == ASSUME Typed, Placed, [Next]_vars PROVE Placed'
<1> DEFINE Either == {"snapshot", "record", "discard", "list", "prune", "forget", "pause",
                      "restore", "restored"}
<1>m. ASSUME NEW p \in Procs, Alone(p),
             \/ task'[p].at \notin Either
             \/ task'[p].job # "restore" /\ task'[p].at \notin {"pause", "restore", "restored"}
             \/ task'[p].job = "restore" /\ task'[p].at \in {"pause", "restore", "restored"}
      PROVE  Placed'
  BY <1>m DEF Alone, Placed
<1>g. ASSUME NEW p \in Procs, NEW l, Goes(p, l),
             \/ l \notin Either
             \/ /\ l \notin {"pause", "restore", "restored"}
                /\ \/ task[p].job # "restore"
                   \/ task[p].at \in {"snapshot", "record", "discard", "list", "prune", "forget"}
             \/ /\ l \in {"pause", "restore", "restored"}
                /\ \/ task[p].job = "restore"
                   \/ task[p].at \in {"pause", "restore", "restored"}
      PROVE  Placed'
  BY <1>g, <1>m DEF Goes, Placed
<1>e. ASSUME NEW p \in Procs, Ends(p) PROVE Placed'
  BY <1>e, <1>m DEF Ends
<1>u. ASSUME UNCHANGED task PROVE Placed'
  BY <1>u DEF Placed
<1> USE DEF sandbox, policy, schedule, bounds, Changed, vars
\* The rest of the system, and time.
<1>1. ASSUME NewSession PROVE Placed'
  BY <1>1, <1>u DEF NewSession
<1>2. ASSUME Pause PROVE Placed'
  BY <1>2, <1>u DEF Pause
<1>3. ASSUME Access PROVE Placed'
  BY <1>3, <1>u DEF Access
<1>4. ASSUME Update PROVE Placed'
  BY <1>4, <1>u DEF Update
<1>5. ASSUME Delete PROVE Placed'
  BY <1>5, <1>u DEF Delete
<1>6. ASSUME DueComes PROVE Placed'
  BY <1>6, <1>u DEF DueComes
<1>7. ASSUME RetryComes PROVE Placed'
  BY <1>7, <1>u DEF RetryComes
\* Taking the lock, or not.
<1>8. ASSUME NEW p \in Procs, Candidate(p) PROVE Placed'
  BY <1>8, CandidateMoves, <1>g, <1>e, <1>m
<1>9. ASSUME NEW p \in Procs, Ask(p) PROVE Placed'
  BY <1>9, AskMoves, <1>g, <1>e, <1>m
<1>10. ASSUME NEW p \in Procs, Acquire(p) PROVE Placed'
  BY <1>10, AcquireMoves, <1>g, <1>e, <1>m
<1>11. ASSUME NEW p \in Procs, Skip(p) PROVE Placed'
  BY <1>11, SkipMoves, <1>e
\* A backup.
<1>12. ASSUME NEW p \in Procs, Prepare(p) PROVE Placed'
  BY <1>12, PrepareMoves, <1>g, <1>e, <1>m
<1>13. ASSUME NEW p \in Procs, Hook(p) PROVE Placed'
  BY <1>13, HookMoves, <1>g
<1>14. ASSUME NEW p \in Procs, Snapshot(p) PROVE Placed'
  <2>1. task[p].job # "restore"
    BY <1>14, SnapshotMoves DEF Placed
  <2> QED
    BY <1>14, <2>1, SnapshotMoves, <1>g, <1>m
<1>15. ASSUME NEW p \in Procs, SnapshotRefused(p) PROVE Placed'
  BY <1>15, SnapshotRefusedMoves, <1>g
<1>16. ASSUME NEW p \in Procs, Record(p) PROVE Placed'
  BY <1>16, RecordMoves, <1>g
<1>17. ASSUME NEW p \in Procs, RecordRefused(p) PROVE Placed'
  BY <1>17, RecordRefusedMoves, <1>g
<1>18. ASSUME NEW p \in Procs, Discard(p) PROVE Placed'
  BY <1>18, DiscardMoves, <1>g
<1>19. ASSUME NEW p \in Procs, List(p) PROVE Placed'
  <2>1. task[p].job # "restore"
    BY <1>19, ListMoves DEF Placed
  <2> QED
    BY <1>19, <2>1, ListMoves, <1>g, <1>m
<1>20. ASSUME NEW p \in Procs, Prune(p) PROVE Placed'
  BY <1>20, PruneMoves, <1>g
<1>21. ASSUME NEW p \in Procs, Forget(p) PROVE Placed'
  <2>1. task[p].job # "restore"
    BY <1>21, ForgetMoves DEF Placed
  <2> QED
    BY <1>21, <2>1, ForgetMoves, <1>g, <1>m
<1>22. ASSUME NEW p \in Procs, Conclude(p) PROVE Placed'
  BY <1>22, ConcludeMoves, <1>e
\* A restore.
<1>23. ASSUME NEW p \in Procs, PrepareRestore(p) PROVE Placed'
  BY <1>23, PrepareRestoreMoves, <1>g, <1>e, <1>m
<1>24. ASSUME NEW p \in Procs, Stop(p) PROVE Placed'
  BY <1>24, StopMoves, <1>g
<1>25. ASSUME NEW p \in Procs, RestoreRootFS(p) PROVE Placed'
  BY <1>25, RestoreRootFSMoves, <1>g, <1>e, <1>m
<1>26. ASSUME NEW p \in Procs, RecordRestored(p) PROVE Placed'
  BY <1>26, RecordRestoredMoves, <1>g, <1>e, <1>m
<1>27. ASSUME NEW p \in Procs, Resume(p) PROVE Placed'
  BY <1>27, ResumeMoves, <1>g
<1>28. ASSUME NEW p \in Procs, Settle(p) PROVE Placed'
  BY <1>28, SettleMoves, <1>e
\* Failures.
<1>29. ASSUME NEW p \in Procs, CallFails(p) PROVE Placed'
  <2>1. CASE Goes(p, "failed") \/ Goes(p, "recover")
    BY <2>1, <1>g
  <2> QED
    BY <1>29, <2>1, CallFailsMoves, <1>e
<1>30. ASSUME NEW p \in Procs, AnswerLost(p) PROVE Placed'
  BY <1>30, AnswerLostMoves, <1>g
<1>31. ASSUME NEW p \in Procs, LoseLock(p) PROVE Placed'
  BY <1>31, LoseLockMoves DEF Alone, Placed
<1>32. ASSUME NEW p \in Procs, Crash(p) PROVE Placed'
  BY <1>32, CrashMoves, <1>e
<1>33. ASSUME UNCHANGED vars PROVE Placed'
  BY <1>33, <1>u DEF vars
<1> QED
  BY <1>1, <1>2, <1>3, <1>4, <1>5, <1>6, <1>7, <1>8, <1>9, <1>10, <1>11, <1>12, <1>13,
       <1>14, <1>15, <1>16, <1>17, <1>18, <1>19, <1>20, <1>21, <1>22, <1>23, <1>24,
       <1>25, <1>26, <1>27, <1>28, <1>29, <1>30, <1>31, <1>32, <1>33 DEF Next, Proceed,
       Backup, Restore

\* The lock is lost by a failure.
LEMMA KeptStep == ASSUME Typed, Kept, [Next]_vars PROVE Kept'
<1>t. faults \in Nat
  BY DEF Typed
<1> USE DEF Goes, Ends, Alone, vars, Kept, bounds, Changed
\* The rest of the system, and time.
<1>1. ASSUME NewSession PROVE Kept'
  BY <1>1, <1>t DEF NewSession
<1>2. ASSUME Pause PROVE Kept'
  BY <1>2, <1>t DEF Pause, Change
<1>3. ASSUME Access PROVE Kept'
  BY <1>3, <1>t DEF Access
<1>4. ASSUME Update PROVE Kept'
  BY <1>4, <1>t DEF Update, Change
<1>5. ASSUME Delete PROVE Kept'
  BY <1>5, <1>t DEF Delete, Change
<1>6. ASSUME DueComes PROVE Kept'
  BY <1>6, <1>t DEF DueComes
<1>7. ASSUME RetryComes PROVE Kept'
  BY <1>7, <1>t DEF RetryComes
\* Taking the lock, or not.
<1>8. ASSUME NEW p \in Procs, Candidate(p) PROVE Kept'
  BY <1>8, <1>t, CandidateMoves DEF Candidate, At
<1>9. ASSUME NEW p \in Procs, Ask(p) PROVE Kept'
  BY <1>9, <1>t, AskMoves DEF Ask, At
<1>10. ASSUME NEW p \in Procs, Acquire(p) PROVE Kept'
  BY <1>10, <1>t, AcquireMoves DEF Acquire, At
<1>11. ASSUME NEW p \in Procs, Skip(p) PROVE Kept'
  BY <1>11, <1>t, SkipMoves DEF Skip, At
\* A backup.
<1>12. ASSUME NEW p \in Procs, Prepare(p) PROVE Kept'
  BY <1>12, <1>t, PrepareMoves DEF Prepare, At, RowThere
<1>13. ASSUME NEW p \in Procs, Hook(p) PROVE Kept'
  BY <1>13, <1>t, HookMoves DEF Hook, At
<1>14. ASSUME NEW p \in Procs, Snapshot(p) PROVE Kept'
  BY <1>14, <1>t, SnapshotMoves DEF Snapshot, At, Take
<1>15. ASSUME NEW p \in Procs, SnapshotRefused(p) PROVE Kept'
  BY <1>15, <1>t, SnapshotRefusedMoves DEF SnapshotRefused, At
<1>16. ASSUME NEW p \in Procs, Record(p) PROVE Kept'
  BY <1>16, <1>t, RecordMoves DEF Record, At, RowThere, Inserted
<1>17. ASSUME NEW p \in Procs, RecordRefused(p) PROVE Kept'
  BY <1>17, <1>t, RecordRefusedMoves DEF RecordRefused, At, RowThere
<1>18. ASSUME NEW p \in Procs, Discard(p) PROVE Kept'
  BY <1>18, <1>t, DiscardMoves DEF Discard, At, Drop
<1>19. ASSUME NEW p \in Procs, List(p) PROVE Kept'
  BY <1>19, <1>t, ListMoves DEF List, At
<1>20. ASSUME NEW p \in Procs, Prune(p) PROVE Kept'
  BY <1>20, <1>t, PruneMoves DEF Prune, At, Drop
<1>21. ASSUME NEW p \in Procs, Forget(p) PROVE Kept'
  BY <1>21, <1>t, ForgetMoves DEF Forget, At
<1>22. ASSUME NEW p \in Procs, Conclude(p) PROVE Kept'
  BY <1>22, <1>t, ConcludeMoves DEF Conclude, At
\* A restore.
<1>23. ASSUME NEW p \in Procs, PrepareRestore(p) PROVE Kept'
  BY <1>23, <1>t, PrepareRestoreMoves DEF PrepareRestore, At, RowThere
<1>24. ASSUME NEW p \in Procs, Stop(p) PROVE Kept'
  BY <1>24, <1>t, StopMoves DEF Stop, At
<1>25. ASSUME NEW p \in Procs, RestoreRootFS(p) PROVE Kept'
  BY <1>25, <1>t, RestoreRootFSMoves DEF RestoreRootFS, At, Recover
<1>26. ASSUME NEW p \in Procs, RecordRestored(p) PROVE Kept'
  BY <1>26, <1>t, RecordRestoredMoves DEF RecordRestored, At, Recover, RowThere
<1>27. ASSUME NEW p \in Procs, Resume(p) PROVE Kept'
  BY <1>27, <1>t, ResumeMoves DEF Resume
<1>28. ASSUME NEW p \in Procs, Settle(p) PROVE Kept'
  BY <1>28, <1>t, SettleMoves DEF Settle, At
\* Failures.
<1>29. ASSUME NEW p \in Procs, CallFails(p) PROVE Kept'
  BY <1>29, <1>t, CallFailsMoves DEF CallFails, At, Fault, Recover
<1>30. ASSUME NEW p \in Procs, AnswerLost(p) PROVE Kept'
  BY <1>30, <1>t, AnswerLostMoves DEF AnswerLost, At, Fault, RowThere, Inserted
<1>31. ASSUME NEW p \in Procs, LoseLock(p) PROVE Kept'
  BY <1>31, <1>t, LoseLockMoves DEF LoseLock, Fault
<1>32. ASSUME NEW p \in Procs, Crash(p) PROVE Kept'
  BY <1>32, <1>t, CrashMoves DEF Crash, At, Fault
<1>33. ASSUME UNCHANGED vars PROVE Kept'
  BY <1>33, <1>t DEF vars
<1> QED
  BY <1>1, <1>2, <1>3, <1>4, <1>5, <1>6, <1>7, <1>8, <1>9, <1>10, <1>11, <1>12, <1>13,
       <1>14, <1>15, <1>16, <1>17, <1>18, <1>19, <1>20, <1>21, <1>22, <1>23, <1>24,
       <1>25, <1>26, <1>27, <1>28, <1>29, <1>30, <1>31, <1>32, <1>33 DEF Next, Proceed,
       Backup, Restore

\* Every step keeps the type of the tasks.
LEMMA TaskStep ==
  ASSUME Bounds, TypeOK, Typed, Doomed, [Next]_vars
  PROVE  task' \in [Procs -> Tasks]
<1>t. task \in [Procs -> Tasks]
  BY DEF Typed
<1>l. /\ {"idle", "lock", "prepare", "hook", "snapshot", "record", "discard", "list", "prune",
          "forget", "healthy", "failed"} \subseteq Labels
      /\ {"pause", "restore", "restored", "resume", "recover", "settle"} \subseteq Labels
  BY DEF Labels
<1>j. {"automatic", "manual", "restore", "none"} \subseteq Jobs \cup {"none"}
  BY DEF Jobs
<1>s. ASSUME NEW p \in Procs, NEW r \in Tasks, task' = [task EXCEPT ![p] = r]
      PROVE  task' \in [Procs -> Tasks]
  BY <1>t, <1>s
<1>g. ASSUME NEW p \in Procs, NEW l \in Labels, Go(p, l) PROVE task' \in [Procs -> Tasks]
  <2> DEFINE r == [task[p] EXCEPT !.at = l]
  <2>1. r \in Tasks
    BY <1>t DEF Tasks
  <2>2. task' = [task EXCEPT ![p] = r]
    BY <1>g DEF Go
  <2> QED
    BY <2>1, <2>2, <1>s
<1>e. ASSUME NEW p \in Procs, Release(p) PROVE task' \in [Procs -> Tasks]
  <2>1. Idle \in Tasks
    <3>1. <<>> \in Seq(Nat)
      OBVIOUS
    <3> QED
      BY <1>l, <1>j, <3>1 DEF Idle, Tasks
  <2> QED
    BY <1>e, <2>1, <1>s DEF Release
<1>f. ASSUME NEW p \in Procs, Recover(p) PROVE task' \in [Procs -> Tasks]
  BY <1>f, <1>g, <1>e, <1>l DEF Recover
<1> USE DEF vars
\* The rest of the system, and time.
<1>1. ASSUME NewSession PROVE task' \in [Procs -> Tasks]
  BY <1>1, <1>t DEF NewSession
<1>2. ASSUME Pause PROVE task' \in [Procs -> Tasks]
  BY <1>2, <1>t DEF Pause, Change
<1>3. ASSUME Access PROVE task' \in [Procs -> Tasks]
  BY <1>3, <1>t DEF Access
<1>4. ASSUME Update PROVE task' \in [Procs -> Tasks]
  BY <1>4, <1>t DEF Update, Change
<1>5. ASSUME Delete PROVE task' \in [Procs -> Tasks]
  BY <1>5, <1>t DEF Delete, Change
<1>6. ASSUME DueComes PROVE task' \in [Procs -> Tasks]
  BY <1>6, <1>t DEF DueComes
<1>7. ASSUME RetryComes PROVE task' \in [Procs -> Tasks]
  BY <1>7, <1>t DEF RetryComes
\* Taking the lock, or not.
<1>8. ASSUME NEW p \in Procs, Candidate(p) PROVE task' \in [Procs -> Tasks]
  <2> DEFINE r == [task[p] EXCEPT !.at = "lock", !.job = "automatic"]
  <2>1. r \in Tasks
    BY <1>t, <1>l, <1>j DEF Tasks
  <2>2. task' = [task EXCEPT ![p] = r]
    BY <1>8 DEF Candidate
  <2> QED
    BY <2>1, <2>2, <1>s
<1>9. ASSUME NEW p \in Procs, Ask(p) PROVE task' \in [Procs -> Tasks]
  <2>1. CASE task' = [task EXCEPT ![p].at = "lock", ![p].job = "manual"]
    <3> DEFINE r == [task[p] EXCEPT !.at = "lock", !.job = "manual"]
    <3>1. r \in Tasks
      BY <1>t, <1>l, <1>j DEF Tasks
    <3>2. task' = [task EXCEPT ![p] = r]
      BY <2>1
    <3> QED
      BY <3>1, <3>2, <1>s
  <2>2. ASSUME NEW i \in 1 .. Count,
               task' = [task EXCEPT ![p].at = "lock", ![p].job = "restore", ![p].snap = records[i]]
        PROVE  task' \in [Procs -> Tasks]
    <3> DEFINE r == [task[p] EXCEPT !.at = "lock", !.job = "restore", !.snap = records[i]]
    <3>1. records[i] \in Nat
      BY DEF Typed, Count
    <3>2. r \in Tasks
      BY <1>t, <1>l, <1>j, <3>1 DEF Tasks
    <3>3. task' = [task EXCEPT ![p] = r]
      BY <2>2
    <3> QED
      BY <3>2, <3>3, <1>s
  <2> QED
    BY <1>9, <2>1, <2>2 DEF Ask
<1>10. ASSUME NEW p \in Procs, Acquire(p) PROVE task' \in [Procs -> Tasks]
  BY <1>10, <1>t, <1>g, <1>e, <1>f, <1>l DEF Acquire, At
<1>11. ASSUME NEW p \in Procs, Skip(p) PROVE task' \in [Procs -> Tasks]
  BY <1>11, <1>t, <1>g, <1>e, <1>f, <1>l DEF Skip, At
\* A backup.
<1>12. ASSUME NEW p \in Procs, Prepare(p) PROVE task' \in [Procs -> Tasks]
  <2>1. CASE Release(p)
    BY <2>1, <1>e
  <2>2. CASE task' = [task EXCEPT ![p].keep = retain,
               ![p].at = IF task[p].job = "manual" \/ BackupDue THEN "hook" ELSE "list"]
    <3> DEFINE l == IF task[p].job = "manual" \/ BackupDue THEN "hook" ELSE "list"
    <3> DEFINE r == [task[p] EXCEPT !.keep = retain, !.at = l]
    <3>1. l \in Labels /\ retain \in Nat
      BY <1>l DEF TypeOK, Bounds
    <3>2. task' = [task EXCEPT ![p] = r]
      BY <2>2
    <3> HIDE DEF l
    <3>3. r \in Tasks
      BY <1>t, <3>1 DEF Tasks
    <3> QED
      BY <3>2, <3>3, <1>s
  <2> QED
    BY <1>12, <2>1, <2>2 DEF Prepare
<1>13. ASSUME NEW p \in Procs, Hook(p) PROVE task' \in [Procs -> Tasks]
  <2>1. (IF task[p].job = "restore" THEN "pause" ELSE "snapshot") \in Labels
    BY <1>l
  <2> QED
    BY <1>13, <2>1, <1>g DEF Hook
<1>14. ASSUME NEW p \in Procs, Snapshot(p) PROVE task' \in [Procs -> Tasks]
  <2> DEFINE n == taken + 1
  <2> DEFINE r == [task[p] EXCEPT !.at = "record", !.snap = n]
  <2>1. n \in Nat
    BY DEF Typed, Bounds
  <2>2. task' = [task EXCEPT ![p] = r]
    BY <1>14 DEF Snapshot
  <2> HIDE DEF n
  <2>3. r \in Tasks
    BY <1>t, <1>l, <2>1 DEF Tasks
  <2> QED
    BY <2>2, <2>3, <1>s
<1>15. ASSUME NEW p \in Procs, SnapshotRefused(p) PROVE task' \in [Procs -> Tasks]
  BY <1>15, <1>t, <1>g, <1>e, <1>f, <1>l DEF SnapshotRefused, At
<1>16. ASSUME NEW p \in Procs, Record(p) PROVE task' \in [Procs -> Tasks]
  BY <1>16, <1>t, <1>g, <1>e, <1>f, <1>l DEF Record, At, RowThere, Inserted
<1>17. ASSUME NEW p \in Procs, RecordRefused(p) PROVE task' \in [Procs -> Tasks]
  BY <1>17, <1>t, <1>g, <1>e, <1>f, <1>l DEF RecordRefused, At, RowThere
<1>18. ASSUME NEW p \in Procs, Discard(p) PROVE task' \in [Procs -> Tasks]
  BY <1>18, <1>t, <1>g, <1>e, <1>f, <1>l DEF Discard, At, Drop
<1>19. ASSUME NEW p \in Procs, List(p) PROVE task' \in [Procs -> Tasks]
  <2> DEFINE d == BeyondRetention(task[p].keep)
  <2> DEFINE l == IF task[p].lost THEN "failed" ELSE IF d = <<>> THEN "healthy" ELSE "prune"
  <2> DEFINE r == [task[p] EXCEPT !.doomed = d, !.keep = 0, !.snap = 0, !.at = l]
  <2>1. task' = [task EXCEPT ![p] = r]
    BY <1>19 DEF List
  <2>2. task[p].keep \in Nat
    BY <1>t DEF Tasks
  <2>3. d \in Seq(Nat) /\ l \in Labels
    BY <1>l, <2>2, Over DEF Typed
  <2> HIDE DEF d, l
  <2>4. r \in Tasks
    BY <1>t, <2>3 DEF Tasks
  <2> QED
    BY <2>1, <2>4, <1>s
<1>20. ASSUME NEW p \in Procs, Prune(p) PROVE task' \in [Procs -> Tasks]
  BY <1>20, <1>t, <1>g, <1>e, <1>f, <1>l DEF Prune, At, Drop
<1>21. ASSUME NEW p \in Procs, Forget(p) PROVE task' \in [Procs -> Tasks]
  <2>1. CASE Go(p, "failed")
    BY <2>1, <1>g, <1>l
  <2>2. CASE task' = [task EXCEPT ![p].doomed = Tail(@),
                   ![p].at = IF Len(task[p].doomed) = 1 THEN "healthy" ELSE "prune"]
    <3> DEFINE d == Tail(task[p].doomed)
    <3> DEFINE l == IF Len(task[p].doomed) = 1 THEN "healthy" ELSE "prune"
    <3> DEFINE r == [task[p] EXCEPT !.doomed = d, !.at = l]
    <3>1. task' = [task EXCEPT ![p] = r]
      BY <2>2
    <3>2. task[p].doomed \in Seq(Nat) /\ task[p].doomed # <<>>
      BY <1>21, <1>t, ForgetMoves DEF Tasks, Doomed
    <3>3. d \in Seq(Nat) /\ l \in Labels
      BY <1>l, <3>2
    <3> HIDE DEF d, l
    <3>4. r \in Tasks
      BY <1>t, <3>3 DEF Tasks
    <3> QED
      BY <3>1, <3>4, <1>s
  <2> QED
    BY <1>21, <2>1, <2>2 DEF Forget
<1>22. ASSUME NEW p \in Procs, Conclude(p) PROVE task' \in [Procs -> Tasks]
  BY <1>22, <1>t, <1>g, <1>e, <1>f, <1>l DEF Conclude, At
\* A restore.
<1>23. ASSUME NEW p \in Procs, PrepareRestore(p) PROVE task' \in [Procs -> Tasks]
  <2>1. CASE Release(p)
    BY <2>1, <1>e
  <2>2. CASE task' = [task EXCEPT ![p].at = "hook", ![p].resume = desired = "running"]
    <3> DEFINE b == desired = "running"
    <3> DEFINE r == [task[p] EXCEPT !.at = "hook", !.resume = b]
    <3>1. task' = [task EXCEPT ![p] = r]
      BY <2>2
    <3>2. b \in BOOLEAN
      OBVIOUS
    <3> HIDE DEF b
    <3>3. r \in Tasks
      BY <1>t, <1>l, <3>2 DEF Tasks
    <3> QED
      BY <3>1, <3>3, <1>s
  <2> QED
    BY <1>23, <2>1, <2>2 DEF PrepareRestore
<1>24. ASSUME NEW p \in Procs, Stop(p) PROVE task' \in [Procs -> Tasks]
  BY <1>24, <1>t, <1>g, <1>e, <1>f, <1>l DEF Stop, At
<1>25. ASSUME NEW p \in Procs, RestoreRootFS(p) PROVE task' \in [Procs -> Tasks]
  BY <1>25, <1>f, <1>g, <1>l DEF RestoreRootFS
<1>26. ASSUME NEW p \in Procs, RecordRestored(p) PROVE task' \in [Procs -> Tasks]
  <2>1. \/ Recover(p)
        \/ Go(p, IF task[p].resume THEN "resume" ELSE "settle")
    BY <1>26 DEF RecordRestored
  <2>2. (IF task[p].resume THEN "resume" ELSE "settle") \in Labels
    BY <1>l
  <2> QED
    BY <2>1, <2>2, <1>f, <1>g
<1>27. ASSUME NEW p \in Procs, Resume(p) PROVE task' \in [Procs -> Tasks]
  BY <1>27, <1>t, <1>g, <1>e, <1>f, <1>l DEF Resume
<1>28. ASSUME NEW p \in Procs, Settle(p) PROVE task' \in [Procs -> Tasks]
  BY <1>28, <1>t, <1>g, <1>e, <1>f, <1>l DEF Settle, At
\* Failures.
<1>29. ASSUME NEW p \in Procs, CallFails(p) PROVE task' \in [Procs -> Tasks]
  <2>1. Release(p) \/ Recover(p) \/ Go(p, "failed")
    BY <1>29, Zenon DEF CallFails
  <2> QED
    BY <2>1, <1>e, <1>f, <1>g, <1>l
<1>30. ASSUME NEW p \in Procs, AnswerLost(p) PROVE task' \in [Procs -> Tasks]
  BY <1>30, <1>t, <1>g, <1>e, <1>f, <1>l DEF AnswerLost, At, Fault, RowThere, Inserted
<1>31. ASSUME NEW p \in Procs, LoseLock(p) PROVE task' \in [Procs -> Tasks]
  <2> DEFINE r == [task[p] EXCEPT !.lost = TRUE]
  <2>1. r \in Tasks
    BY <1>t, <1>l DEF Tasks
  <2>2. task' = [task EXCEPT ![p] = r]
    BY <1>31 DEF LoseLock
  <2> QED
    BY <2>1, <2>2, <1>s
<1>32. ASSUME NEW p \in Procs, Crash(p) PROVE task' \in [Procs -> Tasks]
  BY <1>32, <1>t, <1>g, <1>e, <1>f, <1>l DEF Crash, At, Fault
<1>33. ASSUME UNCHANGED vars PROVE task' \in [Procs -> Tasks]
  BY <1>33, <1>t DEF vars
<1> QED
  BY <1>1, <1>2, <1>3, <1>4, <1>5, <1>6, <1>7, <1>8, <1>9, <1>10, <1>11, <1>12, <1>13,
       <1>14, <1>15, <1>16, <1>17, <1>18, <1>19, <1>20, <1>21, <1>22, <1>23, <1>24,
       <1>25, <1>26, <1>27, <1>28, <1>29, <1>30, <1>31, <1>32, <1>33 DEF Next, Proceed,
       Backup, Restore

\* The records stay a sequence.
LEMMA RecordsStep == ASSUME Typed, [Next]_vars PROVE records' \in Seq(Nat)
<1>t. records \in Seq(Nat) /\ \A p \in Procs : task[p].snap \in Nat
  BY DEF Typed, Tasks
<1> USE DEF sandbox, policy, schedule, bounds, Changed, vars
\* The rest of the system, and time.
<1>1. ASSUME NewSession PROVE records' \in Seq(Nat)
  BY <1>1, <1>t DEF NewSession
<1>2. ASSUME Pause PROVE records' \in Seq(Nat)
  BY <1>2, <1>t DEF Pause, Change
<1>3. ASSUME Access PROVE records' \in Seq(Nat)
  BY <1>3, <1>t DEF Access
<1>4. ASSUME Update PROVE records' \in Seq(Nat)
  BY <1>4, <1>t DEF Update, Change
<1>5. ASSUME Delete PROVE records' \in Seq(Nat)
  BY <1>5, <1>t DEF Delete, Change
<1>6. ASSUME DueComes PROVE records' \in Seq(Nat)
  BY <1>6, <1>t DEF DueComes
<1>7. ASSUME RetryComes PROVE records' \in Seq(Nat)
  BY <1>7, <1>t DEF RetryComes
\* Taking the lock, or not.
<1>8. ASSUME NEW p \in Procs, Candidate(p) PROVE records' \in Seq(Nat)
  BY <1>8, <1>t DEF Candidate, At
<1>9. ASSUME NEW p \in Procs, Ask(p) PROVE records' \in Seq(Nat)
  BY <1>9, <1>t DEF Ask, At
<1>10. ASSUME NEW p \in Procs, Acquire(p) PROVE records' \in Seq(Nat)
  BY <1>10, <1>t DEF Acquire, At
<1>11. ASSUME NEW p \in Procs, Skip(p) PROVE records' \in Seq(Nat)
  BY <1>11, <1>t DEF Skip, At
\* A backup.
<1>12. ASSUME NEW p \in Procs, Prepare(p) PROVE records' \in Seq(Nat)
  BY <1>12, <1>t DEF Prepare, At, RowThere
<1>13. ASSUME NEW p \in Procs, Hook(p) PROVE records' \in Seq(Nat)
  BY <1>13, <1>t DEF Hook, At
<1>14. ASSUME NEW p \in Procs, Snapshot(p) PROVE records' \in Seq(Nat)
  BY <1>14, <1>t DEF Snapshot, At, Take
<1>15. ASSUME NEW p \in Procs, SnapshotRefused(p) PROVE records' \in Seq(Nat)
  BY <1>15, <1>t DEF SnapshotRefused, At
<1>16. ASSUME NEW p \in Procs, Record(p) PROVE records' \in Seq(Nat)
  BY <1>16, <1>t, Added DEF Record, Inserted
<1>17. ASSUME NEW p \in Procs, RecordRefused(p) PROVE records' \in Seq(Nat)
  BY <1>17, <1>t DEF RecordRefused, At, RowThere
<1>18. ASSUME NEW p \in Procs, Discard(p) PROVE records' \in Seq(Nat)
  BY <1>18, <1>t DEF Discard, At, Drop
<1>19. ASSUME NEW p \in Procs, List(p) PROVE records' \in Seq(Nat)
  BY <1>19, <1>t DEF List, At
<1>20. ASSUME NEW p \in Procs, Prune(p) PROVE records' \in Seq(Nat)
  BY <1>20, <1>t DEF Prune, At, Drop
<1>21. ASSUME NEW p \in Procs, Forget(p) PROVE records' \in Seq(Nat)
  BY <1>21, <1>t, ForgetMoves, Removed
<1>22. ASSUME NEW p \in Procs, Conclude(p) PROVE records' \in Seq(Nat)
  BY <1>22, <1>t DEF Conclude, At
\* A restore.
<1>23. ASSUME NEW p \in Procs, PrepareRestore(p) PROVE records' \in Seq(Nat)
  BY <1>23, <1>t DEF PrepareRestore, At, RowThere
<1>24. ASSUME NEW p \in Procs, Stop(p) PROVE records' \in Seq(Nat)
  BY <1>24, <1>t DEF Stop, At
<1>25. ASSUME NEW p \in Procs, RestoreRootFS(p) PROVE records' \in Seq(Nat)
  BY <1>25, <1>t DEF RestoreRootFS, At, Recover
<1>26. ASSUME NEW p \in Procs, RecordRestored(p) PROVE records' \in Seq(Nat)
  BY <1>26, <1>t DEF RecordRestored, At, Recover, RowThere
<1>27. ASSUME NEW p \in Procs, Resume(p) PROVE records' \in Seq(Nat)
  BY <1>27, <1>t DEF Resume
<1>28. ASSUME NEW p \in Procs, Settle(p) PROVE records' \in Seq(Nat)
  BY <1>28, <1>t DEF Settle, At
\* Failures.
<1>29. ASSUME NEW p \in Procs, CallFails(p) PROVE records' \in Seq(Nat)
  BY <1>29, <1>t DEF CallFails, At, Fault, Recover
<1>30. ASSUME NEW p \in Procs, AnswerLost(p) PROVE records' \in Seq(Nat)
  BY <1>30, <1>t, Added DEF AnswerLost, Inserted
<1>31. ASSUME NEW p \in Procs, LoseLock(p) PROVE records' \in Seq(Nat)
  BY <1>31, <1>t DEF LoseLock, Fault
<1>32. ASSUME NEW p \in Procs, Crash(p) PROVE records' \in Seq(Nat)
  BY <1>32, <1>t DEF Crash, At, Fault
<1>33. ASSUME UNCHANGED vars PROVE records' \in Seq(Nat)
  BY <1>33, <1>t DEF vars
<1> QED
  BY <1>1, <1>2, <1>3, <1>4, <1>5, <1>6, <1>7, <1>8, <1>9, <1>10, <1>11, <1>12, <1>13,
       <1>14, <1>15, <1>16, <1>17, <1>18, <1>19, <1>20, <1>21, <1>22, <1>23, <1>24,
       <1>25, <1>26, <1>27, <1>28, <1>29, <1>30, <1>31, <1>32, <1>33 DEF Next, Proceed,
       Backup, Restore

\* A snapshot has content that there was.
LEMMA SnapsStep ==
  ASSUME Bounds, TypeOK, Typed, [Next]_vars
  PROVE  /\ DOMAIN snaps' \subseteq Ids /\ rootfs' \subseteq 1 .. MaxSessions
         /\ \A i \in DOMAIN snaps' : snaps'[i] \subseteq 1 .. MaxSessions
<1> DEFINE Good == /\ DOMAIN snaps \subseteq Ids /\ rootfs \subseteq 1 .. MaxSessions
                   /\ \A i \in DOMAIN snaps : snaps[i] \subseteq 1 .. MaxSessions
<1>t. Good /\ taken \in 0 .. MaxSnaps /\ born \in 0 .. MaxSessions
  BY DEF TypeOK, Typed
<1>d. ASSUME NEW id, Drop(id), UNCHANGED rootfs PROVE Good'
  BY <1>t, <1>d, Dropped
<1>k. ASSUME Take(taken + 1), UNCHANGED rootfs PROVE Good'
  <2>1. taken + 1 \in Ids
    BY <1>t, <1>k, Taken DEF Ids, Bounds
  <2> QED
    BY <1>t, <1>k, <2>1, Taken
<1> USE DEF sandbox, policy, schedule, bounds, Changed, vars
\* The rest of the system, and time.
<1>1. ASSUME NewSession PROVE Good'
  BY <1>1, <1>t DEF NewSession, Bounds
<1>2. ASSUME Pause PROVE Good'
  BY <1>2, <1>t DEF Pause, Change
<1>3. ASSUME Access PROVE Good'
  BY <1>3, <1>t DEF Access
<1>4. ASSUME Update PROVE Good'
  BY <1>4, <1>t DEF Update, Change
<1>5. ASSUME Delete PROVE Good'
  BY <1>5, <1>t DEF Delete, Change
<1>6. ASSUME DueComes PROVE Good'
  BY <1>6, <1>t DEF DueComes
<1>7. ASSUME RetryComes PROVE Good'
  BY <1>7, <1>t DEF RetryComes
\* Taking the lock, or not.
<1>8. ASSUME NEW p \in Procs, Candidate(p) PROVE Good'
  BY <1>8, <1>t DEF Candidate, At
<1>9. ASSUME NEW p \in Procs, Ask(p) PROVE Good'
  BY <1>9, <1>t DEF Ask, At
<1>10. ASSUME NEW p \in Procs, Acquire(p) PROVE Good'
  BY <1>10, <1>t DEF Acquire, At
<1>11. ASSUME NEW p \in Procs, Skip(p) PROVE Good'
  BY <1>11, <1>t DEF Skip, At
\* A backup.
<1>12. ASSUME NEW p \in Procs, Prepare(p) PROVE Good'
  BY <1>12, <1>t DEF Prepare, At, RowThere
<1>13. ASSUME NEW p \in Procs, Hook(p) PROVE Good'
  BY <1>13, <1>t DEF Hook, At
<1>14. ASSUME NEW p \in Procs, Snapshot(p) PROVE Good'
  BY <1>14, <1>k DEF Snapshot
<1>15. ASSUME NEW p \in Procs, SnapshotRefused(p) PROVE Good'
  BY <1>15, <1>t DEF SnapshotRefused, At
<1>16. ASSUME NEW p \in Procs, Record(p) PROVE Good'
  BY <1>16, <1>t DEF Record, At, RowThere, Inserted
<1>17. ASSUME NEW p \in Procs, RecordRefused(p) PROVE Good'
  BY <1>17, <1>t DEF RecordRefused, At, RowThere
<1>18. ASSUME NEW p \in Procs, Discard(p) PROVE Good'
  BY <1>18, <1>t, <1>d DEF Discard
<1>19. ASSUME NEW p \in Procs, List(p) PROVE Good'
  BY <1>19, <1>t DEF List, At
<1>20. ASSUME NEW p \in Procs, Prune(p) PROVE Good'
  BY <1>20, <1>d DEF Prune
<1>21. ASSUME NEW p \in Procs, Forget(p) PROVE Good'
  BY <1>21, <1>t DEF Forget, At
<1>22. ASSUME NEW p \in Procs, Conclude(p) PROVE Good'
  BY <1>22, <1>t DEF Conclude, At
\* A restore.
<1>23. ASSUME NEW p \in Procs, PrepareRestore(p) PROVE Good'
  BY <1>23, <1>t DEF PrepareRestore, At, RowThere
<1>24. ASSUME NEW p \in Procs, Stop(p) PROVE Good'
  BY <1>24, <1>t DEF Stop, At
<1>25. ASSUME NEW p \in Procs, RestoreRootFS(p) PROVE Good'
  BY <1>25, <1>t, RestoreRootFSMoves DEF RestoreRootFS
<1>26. ASSUME NEW p \in Procs, RecordRestored(p) PROVE Good'
  BY <1>26, <1>t DEF RecordRestored, At, Recover, RowThere
<1>27. ASSUME NEW p \in Procs, Resume(p) PROVE Good'
  BY <1>27, <1>t DEF Resume
<1>28. ASSUME NEW p \in Procs, Settle(p) PROVE Good'
  BY <1>28, <1>t DEF Settle, At
\* Failures.
<1>29. ASSUME NEW p \in Procs, CallFails(p) PROVE Good'
  BY <1>29, <1>t, <1>k, <1>d, CallFailsWrites
<1>30. ASSUME NEW p \in Procs, AnswerLost(p) PROVE Good'
  BY <1>30, <1>t DEF AnswerLost, At, Fault, RowThere, Inserted
<1>31. ASSUME NEW p \in Procs, LoseLock(p) PROVE Good'
  BY <1>31, <1>t DEF LoseLock, Fault
<1>32. ASSUME NEW p \in Procs, Crash(p) PROVE Good'
  BY <1>32, <1>t DEF Crash, At, Fault
<1>33. ASSUME UNCHANGED vars PROVE Good'
  BY <1>33, <1>t DEF vars
<1> QED
  BY <1>1, <1>2, <1>3, <1>4, <1>5, <1>6, <1>7, <1>8, <1>9, <1>10, <1>11, <1>12, <1>13,
       <1>14, <1>15, <1>16, <1>17, <1>18, <1>19, <1>20, <1>21, <1>22, <1>23, <1>24,
       <1>25, <1>26, <1>27, <1>28, <1>29, <1>30, <1>31, <1>32, <1>33 DEF Next, Proceed,
       Backup, Restore

\* The numbers stay in their bounds.
LEMMA NumbersStep ==
  ASSUME Bounds, TypeOK, Typed, [Next]_vars
  PROVE  /\ retain' \in 1 .. MaxRetain /\ least' \in 1 .. retain' /\ taken' \in 0 .. MaxSnaps
         /\ born' \in 0 .. MaxSessions /\ faults' \in Nat
<1> DEFINE Good == /\ retain \in 1 .. MaxRetain /\ least \in 1 .. retain
                   /\ taken \in 0 .. MaxSnaps /\ born \in 0 .. MaxSessions /\ faults \in Nat
<1>t. Good
  BY DEF TypeOK, Typed
<1> USE DEF sandbox, policy, schedule, bounds, Changed, vars
\* The rest of the system, and time.
<1>1. ASSUME NewSession PROVE Good'
  BY <1>1, <1>t DEF NewSession, Bounds
<1>2. ASSUME Pause PROVE Good'
  BY <1>2, <1>t DEF Pause, Change
<1>3. ASSUME Access PROVE Good'
  BY <1>3, <1>t DEF Access
<1>4. ASSUME Update PROVE Good'
  BY <1>4, <1>t DEF Update, Change, Bounds
<1>5. ASSUME Delete PROVE Good'
  BY <1>5, <1>t DEF Delete, Change
<1>6. ASSUME DueComes PROVE Good'
  BY <1>6, <1>t DEF DueComes
<1>7. ASSUME RetryComes PROVE Good'
  BY <1>7, <1>t DEF RetryComes
\* Taking the lock, or not.
<1>8. ASSUME NEW p \in Procs, Candidate(p) PROVE Good'
  BY <1>8, <1>t DEF Candidate, At
<1>9. ASSUME NEW p \in Procs, Ask(p) PROVE Good'
  BY <1>9, <1>t DEF Ask, At
<1>10. ASSUME NEW p \in Procs, Acquire(p) PROVE Good'
  BY <1>10, <1>t DEF Acquire, At
<1>11. ASSUME NEW p \in Procs, Skip(p) PROVE Good'
  BY <1>11, <1>t DEF Skip, At
\* A backup.
<1>12. ASSUME NEW p \in Procs, Prepare(p) PROVE Good'
  BY <1>12, <1>t DEF Prepare, At, RowThere
<1>13. ASSUME NEW p \in Procs, Hook(p) PROVE Good'
  BY <1>13, <1>t DEF Hook, At
<1>14. ASSUME NEW p \in Procs, Snapshot(p) PROVE Good'
  BY <1>14, <1>t, Taken DEF Snapshot, Bounds
<1>15. ASSUME NEW p \in Procs, SnapshotRefused(p) PROVE Good'
  BY <1>15, <1>t DEF SnapshotRefused, At
<1>16. ASSUME NEW p \in Procs, Record(p) PROVE Good'
  BY <1>16, <1>t DEF Record, At, RowThere, Inserted
<1>17. ASSUME NEW p \in Procs, RecordRefused(p) PROVE Good'
  BY <1>17, <1>t DEF RecordRefused, At, RowThere
<1>18. ASSUME NEW p \in Procs, Discard(p) PROVE Good'
  BY <1>18, <1>t DEF Discard, At, Drop
<1>19. ASSUME NEW p \in Procs, List(p) PROVE Good'
  BY <1>19, <1>t DEF List, At
<1>20. ASSUME NEW p \in Procs, Prune(p) PROVE Good'
  BY <1>20, <1>t DEF Prune, At, Drop
<1>21. ASSUME NEW p \in Procs, Forget(p) PROVE Good'
  BY <1>21, <1>t DEF Forget, At
<1>22. ASSUME NEW p \in Procs, Conclude(p) PROVE Good'
  BY <1>22, <1>t DEF Conclude, At
\* A restore.
<1>23. ASSUME NEW p \in Procs, PrepareRestore(p) PROVE Good'
  BY <1>23, <1>t DEF PrepareRestore, At, RowThere
<1>24. ASSUME NEW p \in Procs, Stop(p) PROVE Good'
  BY <1>24, <1>t DEF Stop, At
<1>25. ASSUME NEW p \in Procs, RestoreRootFS(p) PROVE Good'
  BY <1>25, <1>t DEF RestoreRootFS, At, Recover
<1>26. ASSUME NEW p \in Procs, RecordRestored(p) PROVE Good'
  BY <1>26, <1>t DEF RecordRestored, At, Recover, RowThere
<1>27. ASSUME NEW p \in Procs, Resume(p) PROVE Good'
  BY <1>27, <1>t DEF Resume
<1>28. ASSUME NEW p \in Procs, Settle(p) PROVE Good'
  BY <1>28, <1>t DEF Settle, At
\* Failures.
<1>29. ASSUME NEW p \in Procs, CallFails(p) PROVE Good'
  <2>1. UNCHANGED <<retain, least, born>> /\ faults' = faults + 1
    BY <1>29 DEF CallFails, Fault
  <2>2. taken' \in 0 .. MaxSnaps
    BY <1>29, <1>t, CallFailsWrites, Taken DEF Bounds
  <2> QED
    BY <1>t, <2>1, <2>2
<1>30. ASSUME NEW p \in Procs, AnswerLost(p) PROVE Good'
  BY <1>30, <1>t DEF AnswerLost, At, Fault, RowThere, Inserted
<1>31. ASSUME NEW p \in Procs, LoseLock(p) PROVE Good'
  BY <1>31, <1>t DEF LoseLock, Fault
<1>32. ASSUME NEW p \in Procs, Crash(p) PROVE Good'
  BY <1>32, <1>t DEF Crash, At, Fault
<1>33. ASSUME UNCHANGED vars PROVE Good'
  BY <1>33, <1>t DEF vars
<1> QED
  BY <1>1, <1>2, <1>3, <1>4, <1>5, <1>6, <1>7, <1>8, <1>9, <1>10, <1>11, <1>12, <1>13,
       <1>14, <1>15, <1>16, <1>17, <1>18, <1>19, <1>20, <1>21, <1>22, <1>23, <1>24,
       <1>25, <1>26, <1>27, <1>28, <1>29, <1>30, <1>31, <1>32, <1>33 DEF Next, Proceed,
       Backup, Restore

LEMMA Lasting ==
  ASSUME Bounds, TypeOK, Typed, [Next]_vars
  PROVE  taken' \in Nat /\ least' \in Nat \ {0} /\ retain' \in Nat
<1>1. retain' \in 1 .. MaxRetain /\ least' \in 1 .. retain' /\ taken' \in 0 .. MaxSnaps
  BY NumbersStep
<1> QED
  BY <1>1 DEF Bounds

\* A process without a task is idle.
LEMMA IdleStep ==
  ASSUME TypeOK, Typed, Held, [Next]_vars
  PROVE  \A p \in Procs : task'[p].at = "idle" <=> task'[p] = Idle
<1> DEFINE Good == \A p \in Procs : task[p].at = "idle" <=> task[p] = Idle
<1>t. Good /\ Idle.at = "idle"
  BY DEF TypeOK, Idle
<1>a. ASSUME NEW p \in Procs, Alone(p), task'[p].at # "idle" PROVE Good'
  BY <1>a, <1>t DEF Alone
<1>b. ASSUME NEW p \in Procs, NEW l, Goes(p, l), l # "idle" PROVE Good'
  BY <1>a, <1>b DEF Goes
<1>c. ASSUME NEW p \in Procs, Ends(p) PROVE Good'
  BY <1>c, <1>t DEF Ends, Alone
<1>d. ASSUME UNCHANGED task PROVE Good'
  BY <1>d, <1>t
<1> USE DEF sandbox, policy, schedule, bounds, Changed, vars
\* The rest of the system, and time.
<1>1. ASSUME NewSession PROVE Good'
  BY <1>1, <1>d DEF NewSession
<1>2. ASSUME Pause PROVE Good'
  BY <1>2, <1>d DEF Pause, Change
<1>3. ASSUME Access PROVE Good'
  BY <1>3, <1>d DEF Access
<1>4. ASSUME Update PROVE Good'
  BY <1>4, <1>d DEF Update, Change
<1>5. ASSUME Delete PROVE Good'
  BY <1>5, <1>d DEF Delete, Change
<1>6. ASSUME DueComes PROVE Good'
  BY <1>6, <1>d DEF DueComes
<1>7. ASSUME RetryComes PROVE Good'
  BY <1>7, <1>d DEF RetryComes
\* Taking the lock, or not.
<1>8. ASSUME NEW p \in Procs, Candidate(p) PROVE Good'
  BY <1>8, CandidateMoves, <1>a, <1>b, <1>c
<1>9. ASSUME NEW p \in Procs, Ask(p) PROVE Good'
  BY <1>9, AskMoves, <1>a, <1>b, <1>c
<1>10. ASSUME NEW p \in Procs, Acquire(p) PROVE Good'
  BY <1>10, AcquireMoves, <1>a, <1>b, <1>c
<1>11. ASSUME NEW p \in Procs, Skip(p) PROVE Good'
  BY <1>11, SkipMoves, <1>a, <1>b, <1>c
\* A backup.
<1>12. ASSUME NEW p \in Procs, Prepare(p) PROVE Good'
  BY <1>12, PrepareMoves, <1>a, <1>b, <1>c
<1>13. ASSUME NEW p \in Procs, Hook(p) PROVE Good'
  BY <1>13, HookMoves, <1>a, <1>b, <1>c
<1>14. ASSUME NEW p \in Procs, Snapshot(p) PROVE Good'
  BY <1>14, SnapshotMoves, <1>a, <1>b, <1>c
<1>15. ASSUME NEW p \in Procs, SnapshotRefused(p) PROVE Good'
  BY <1>15, SnapshotRefusedMoves, <1>a, <1>b, <1>c
<1>16. ASSUME NEW p \in Procs, Record(p) PROVE Good'
  BY <1>16, RecordMoves, <1>a, <1>b, <1>c
<1>17. ASSUME NEW p \in Procs, RecordRefused(p) PROVE Good'
  BY <1>17, RecordRefusedMoves, <1>a, <1>b, <1>c
<1>18. ASSUME NEW p \in Procs, Discard(p) PROVE Good'
  BY <1>18, DiscardMoves, <1>a, <1>b, <1>c
<1>19. ASSUME NEW p \in Procs, List(p) PROVE Good'
  BY <1>19, ListMoves, <1>a, <1>b, <1>c
<1>20. ASSUME NEW p \in Procs, Prune(p) PROVE Good'
  BY <1>20, PruneMoves, <1>a, <1>b, <1>c
<1>21. ASSUME NEW p \in Procs, Forget(p) PROVE Good'
  BY <1>21, ForgetMoves, <1>a, <1>b, <1>c
<1>22. ASSUME NEW p \in Procs, Conclude(p) PROVE Good'
  BY <1>22, ConcludeMoves, <1>a, <1>b, <1>c
\* A restore.
<1>23. ASSUME NEW p \in Procs, PrepareRestore(p) PROVE Good'
  BY <1>23, PrepareRestoreMoves, <1>a, <1>b, <1>c
<1>24. ASSUME NEW p \in Procs, Stop(p) PROVE Good'
  BY <1>24, StopMoves, <1>a, <1>b, <1>c
<1>25. ASSUME NEW p \in Procs, RestoreRootFS(p) PROVE Good'
  BY <1>25, RestoreRootFSMoves, <1>a, <1>b, <1>c
<1>26. ASSUME NEW p \in Procs, RecordRestored(p) PROVE Good'
  BY <1>26, RecordRestoredMoves, <1>a, <1>b, <1>c
<1>27. ASSUME NEW p \in Procs, Resume(p) PROVE Good'
  BY <1>27, ResumeMoves, <1>a, <1>b, <1>c
<1>28. ASSUME NEW p \in Procs, Settle(p) PROVE Good'
  BY <1>28, SettleMoves, <1>a, <1>b, <1>c
\* Failures.
<1>29. ASSUME NEW p \in Procs, CallFails(p) PROVE Good'
  BY <1>29, CallFailsMoves, <1>a, <1>b, <1>c
<1>30. ASSUME NEW p \in Procs, AnswerLost(p) PROVE Good'
  BY <1>30, AnswerLostMoves, <1>a, <1>b, <1>c
<1>31. ASSUME NEW p \in Procs, LoseLock(p) PROVE Good'
  BY <1>31, LoseLockMoves, <1>a DEF Held, Beyond
<1>32. ASSUME NEW p \in Procs, Crash(p) PROVE Good'
  BY <1>32, CrashMoves, <1>a, <1>b, <1>c
<1>33. ASSUME UNCHANGED vars PROVE Good'
  BY <1>33, <1>d DEF vars
<1> QED
  BY <1>1, <1>2, <1>3, <1>4, <1>5, <1>6, <1>7, <1>8, <1>9, <1>10, <1>11, <1>12, <1>13,
       <1>14, <1>15, <1>16, <1>17, <1>18, <1>19, <1>20, <1>21, <1>22, <1>23, <1>24,
       <1>25, <1>26, <1>27, <1>28, <1>29, <1>30, <1>31, <1>32, <1>33 DEF Next, Proceed,
       Backup, Restore

\* The rest of TypeOK.
LEMMA FlagsStep ==
  ASSUME Bounds, TypeOK, Typed, [Next]_vars
  PROVE  /\ ready' \in BOOLEAN /\ up' \in BOOLEAN /\ unanswered' \in BOOLEAN /\ every' \in BOOLEAN
         /\ desired' \in {"running", "paused"} /\ coordinates' \in 0 .. MaxSessions
         /\ due' \in {"none", "future", "past"} /\ retry' \in {"none", "future", "past"}
         /\ lock' \in Procs \cup {NoProc}
<1> DEFINE Good ==
      /\ ready \in BOOLEAN /\ up \in BOOLEAN /\ unanswered \in BOOLEAN /\ every \in BOOLEAN
      /\ desired \in {"running", "paused"} /\ coordinates \in 0 .. MaxSessions
      /\ due \in {"none", "future", "past"} /\ retry \in {"none", "future", "past"}
      /\ lock \in Procs \cup {NoProc}
<1>t. Good
  BY DEF TypeOK
<1>n. 0 \in 0 .. MaxSessions
  BY DEF Bounds
<1> USE DEF sandbox, policy, schedule, bounds, Changed, vars
\* The rest of the system, and time.
<1>1. ASSUME NewSession PROVE Good'
  BY <1>1, <1>t DEF NewSession, Typed, Bounds
<1>2. ASSUME Pause PROVE Good'
  BY <1>2, <1>t DEF Pause, Change
<1>3. ASSUME Access PROVE Good'
  BY <1>3, <1>t DEF Access
<1>4. ASSUME Update PROVE Good'
  BY <1>4, <1>t DEF Update, Change
<1>5. ASSUME Delete PROVE Good'
  BY <1>5, <1>t, <1>n DEF Delete, Change
<1>6. ASSUME DueComes PROVE Good'
  BY <1>6, <1>t DEF DueComes
<1>7. ASSUME RetryComes PROVE Good'
  BY <1>7, <1>t DEF RetryComes
\* Taking the lock, or not.
<1>8. ASSUME NEW p \in Procs, Candidate(p) PROVE Good'
  BY <1>8, <1>t, CandidateMoves DEF Candidate, At
<1>9. ASSUME NEW p \in Procs, Ask(p) PROVE Good'
  BY <1>9, <1>t, AskMoves DEF Ask, At
<1>10. ASSUME NEW p \in Procs, Acquire(p) PROVE Good'
  BY <1>10, <1>t, AcquireMoves DEF Acquire, At
<1>11. ASSUME NEW p \in Procs, Skip(p) PROVE Good'
  BY <1>11, <1>t, SkipMoves DEF Skip, At
\* A backup.
<1>12. ASSUME NEW p \in Procs, Prepare(p) PROVE Good'
  BY <1>12, <1>t, PrepareMoves DEF Prepare, At, RowThere
<1>13. ASSUME NEW p \in Procs, Hook(p) PROVE Good'
  BY <1>13, <1>t, HookMoves DEF Hook, At
<1>14. ASSUME NEW p \in Procs, Snapshot(p) PROVE Good'
  BY <1>14, <1>t, SnapshotMoves DEF Snapshot, At, Take
<1>15. ASSUME NEW p \in Procs, SnapshotRefused(p) PROVE Good'
  BY <1>15, <1>t, SnapshotRefusedMoves DEF SnapshotRefused, At
<1>16. ASSUME NEW p \in Procs, Record(p) PROVE Good'
  BY <1>16, <1>t, RecordMoves DEF Record, At, RowThere, Inserted
<1>17. ASSUME NEW p \in Procs, RecordRefused(p) PROVE Good'
  BY <1>17, <1>t, RecordRefusedMoves DEF RecordRefused, At, RowThere
<1>18. ASSUME NEW p \in Procs, Discard(p) PROVE Good'
  BY <1>18, <1>t, DiscardMoves DEF Discard, At, Drop
<1>19. ASSUME NEW p \in Procs, List(p) PROVE Good'
  BY <1>19, <1>t, ListMoves DEF List, At
<1>20. ASSUME NEW p \in Procs, Prune(p) PROVE Good'
  BY <1>20, <1>t, PruneMoves DEF Prune, At, Drop
<1>21. ASSUME NEW p \in Procs, Forget(p) PROVE Good'
  BY <1>21, <1>t, ForgetMoves DEF Forget, At
<1>22. ASSUME NEW p \in Procs, Conclude(p) PROVE Good'
  BY <1>22, <1>t, ConcludeMoves DEF Conclude, At
\* A restore.
<1>23. ASSUME NEW p \in Procs, PrepareRestore(p) PROVE Good'
  BY <1>23, <1>t, PrepareRestoreMoves DEF PrepareRestore, At, RowThere
<1>24. ASSUME NEW p \in Procs, Stop(p) PROVE Good'
  BY <1>24, <1>t, StopMoves DEF Stop, At
<1>25. ASSUME NEW p \in Procs, RestoreRootFS(p) PROVE Good'
  BY <1>25, <1>t, RestoreRootFSMoves DEF RestoreRootFS, At, Recover
<1>26. ASSUME NEW p \in Procs, RecordRestored(p) PROVE Good'
  BY <1>26, <1>t, <1>n, RecordRestoredMoves DEF RecordRestored, sandbox, policy, schedule, bounds, Changed, vars
<1>27. ASSUME NEW p \in Procs, Resume(p) PROVE Good'
  BY <1>27, <1>t, ResumeMoves DEF Resume
<1>28. ASSUME NEW p \in Procs, Settle(p) PROVE Good'
  BY <1>28, <1>t, SettleMoves DEF Settle, At
\* Failures.
<1>29. ASSUME NEW p \in Procs, CallFails(p) PROVE Good'
  <2>1. up' \in {up, TRUE} \cup {up, FALSE} \cup {up, ready}
    BY <1>29 DEF CallFails
  <2>2. lock' \in Procs \cup {NoProc}
    BY <1>29, <1>t, CallFailsMoves
  <2>3. UNCHANGED <<ready, unanswered, every, desired, coordinates, due, retry>>
    BY <1>29 DEF CallFails
  <2> QED
    BY <1>t, <2>1, <2>2, <2>3
<1>30. ASSUME NEW p \in Procs, AnswerLost(p) PROVE Good'
  BY <1>30, <1>t, AnswerLostMoves DEF AnswerLost, At, Fault, RowThere, Inserted
<1>31. ASSUME NEW p \in Procs, LoseLock(p) PROVE Good'
  BY <1>31, <1>t, LoseLockMoves DEF LoseLock, Fault
<1>32. ASSUME NEW p \in Procs, Crash(p) PROVE Good'
  BY <1>32, <1>t, CrashMoves DEF Crash, At, Fault
<1>33. ASSUME UNCHANGED vars PROVE Good'
  BY <1>33, <1>t DEF vars
<1> QED
  BY <1>1, <1>2, <1>3, <1>4, <1>5, <1>6, <1>7, <1>8, <1>9, <1>10, <1>11, <1>12, <1>13,
       <1>14, <1>15, <1>16, <1>17, <1>18, <1>19, <1>20, <1>21, <1>22, <1>23, <1>24,
       <1>25, <1>26, <1>27, <1>28, <1>29, <1>30, <1>31, <1>32, <1>33 DEF Next, Proceed,
       Backup, Restore

\* The records are in the order in which their snapshots were taken.
LEMMA OrderStep ==
  ASSUME Bounds, TypeOK, Typed, Unrecorded, [Next]_vars
  PROVE  /\ \A i, j \in 1 .. Count' : i < j => records'[i] < records'[j]
         /\ \A i \in 1 .. Count' : records'[i] \in 1 .. taken'
<1> DEFINE Good == /\ \A i, j \in 1 .. Count : i < j => records[i] < records[j]
                   /\ \A i \in 1 .. Count : records[i] \in 1 .. taken
<1>t. /\ Good /\ records \in Seq(Nat) /\ Count \in Nat /\ taken \in Nat
      /\ \A p \in Procs : task[p].snap \in Nat
  BY Plain
<1>u. ASSUME UNCHANGED records, taken' \in Nat, taken <= taken' PROVE Good'
  BY <1>t, <1>u DEF Count
<1>a. ASSUME NEW id \in 1 .. taken, \A i \in 1 .. Count : records[i] < id,
             records' = Append(records, id), UNCHANGED taken
      PROVE  Good'
  <2>1. /\ records' \in Seq(Nat) /\ Count' = Count + 1 /\ records'[Count'] = id
        /\ \A i \in 1 .. Count : records'[i] = records[i]
    <3>1. id \in Nat
      BY <1>t
    <3> HIDE DEF Good
    <3> QED
      BY <1>t, <1>a, <3>1, Added
  <2>2. \A i \in 1 .. Count' : i \in 1 .. Count \/ i = Count'
    BY <1>t, <2>1
  <2>3. \A i, j \in 1 .. Count' : i < j => records'[i] < records'[j]
    <3>1. ASSUME NEW i \in 1 .. Count', NEW j \in 1 .. Count', i < j PROVE records'[i] < records'[j]
      <4>1. i \in 1 .. Count
        BY <1>t, <2>1, <2>2, <3>1
      <4> QED
        BY <1>t, <1>a, <2>1, <2>2, <3>1, <4>1
    <3> QED
      BY <3>1
  <2>4. \A i \in 1 .. Count' : records'[i] \in 1 .. taken'
    BY <1>t, <1>a, <2>1, <2>2
  <2> QED
    BY <2>3, <2>4
<1>d. ASSUME NEW id, Deleted(id), UNCHANGED taken PROVE Good'
  <2>1. CASE records' = records
    BY <1>d, <1>u, <1>t, <2>1
  <2>2. ASSUME NEW k \in 1 .. Count, Count' = Count - 1,
               \A i \in 1 .. k - 1 : records'[i] = records[i],
               \A i \in k .. Count - 1 : records'[i] = records[i + 1]
        PROVE  Good'
    <3> DEFINE was(i) == IF i < k THEN i ELSE i + 1
    <3>1. \A i \in 1 .. Count' : was(i) \in 1 .. Count /\ records'[i] = records[was(i)]
      BY <1>t, <2>2
    <3>2. \A i, j \in 1 .. Count' : i < j => was(i) < was(j)
      BY <1>t, <2>2
    <3> HIDE DEF was
    <3> QED
      BY <1>t, <1>d, <3>1, <3>2
  <2> QED
    BY <1>t, <1>d, <2>1, <2>2, Removed
<1> USE DEF sandbox, policy, schedule, bounds, Changed, vars
\* The rest of the system, and time.
<1>1. ASSUME NewSession PROVE Good'
  BY <1>1, <1>u, <1>t DEF NewSession
<1>2. ASSUME Pause PROVE Good'
  BY <1>2, <1>u, <1>t DEF Pause
<1>3. ASSUME Access PROVE Good'
  BY <1>3, <1>u, <1>t DEF Access
<1>4. ASSUME Update PROVE Good'
  BY <1>4, <1>u, <1>t DEF Update
<1>5. ASSUME Delete PROVE Good'
  BY <1>5 DEF Delete, Count
<1>6. ASSUME DueComes PROVE Good'
  BY <1>6, <1>u, <1>t DEF DueComes
<1>7. ASSUME RetryComes PROVE Good'
  BY <1>7, <1>u, <1>t DEF RetryComes
\* Taking the lock, or not.
<1>8. ASSUME NEW p \in Procs, Candidate(p) PROVE Good'
  BY <1>8, <1>u, <1>t DEF Candidate
<1>9. ASSUME NEW p \in Procs, Ask(p) PROVE Good'
  BY <1>9, <1>u, <1>t DEF Ask
<1>10. ASSUME NEW p \in Procs, Acquire(p) PROVE Good'
  BY <1>10, <1>u, <1>t DEF Acquire
<1>11. ASSUME NEW p \in Procs, Skip(p) PROVE Good'
  BY <1>11, <1>u, <1>t DEF Skip
\* A backup.
<1>12. ASSUME NEW p \in Procs, Prepare(p) PROVE Good'
  BY <1>12, <1>u, <1>t DEF Prepare
<1>13. ASSUME NEW p \in Procs, Hook(p) PROVE Good'
  BY <1>13, <1>u, <1>t DEF Hook
<1>14. ASSUME NEW p \in Procs, Snapshot(p) PROVE Good'
  BY <1>14, <1>u, <1>t, Taken DEF Snapshot
<1>15. ASSUME NEW p \in Procs, SnapshotRefused(p) PROVE Good'
  BY <1>15, <1>u, <1>t DEF SnapshotRefused
<1>16. ASSUME NEW p \in Procs, Record(p) PROVE Good'
  <2>1. /\ task[p].snap \in 1 .. taken /\ \A i \in 1 .. Count : records[i] < task[p].snap
        /\ records' = Append(records, task[p].snap) /\ UNCHANGED taken
    BY <1>16 DEF Record, At, RowThere, Inserted, Unrecorded, Fresh
  <2> QED
    BY <1>a, <2>1
<1>17. ASSUME NEW p \in Procs, RecordRefused(p) PROVE Good'
  BY <1>17, <1>u, <1>t DEF RecordRefused
<1>18. ASSUME NEW p \in Procs, Discard(p) PROVE Good'
  BY <1>18, <1>u, <1>t DEF Discard
<1>19. ASSUME NEW p \in Procs, List(p) PROVE Good'
  BY <1>19, <1>u, <1>t DEF List
<1>20. ASSUME NEW p \in Procs, Prune(p) PROVE Good'
  BY <1>20, <1>u, <1>t DEF Prune
<1>21. ASSUME NEW p \in Procs, Forget(p) PROVE Good'
  BY <1>21, <1>u, <1>t, <1>d, ForgetMoves DEF Forget
<1>22. ASSUME NEW p \in Procs, Conclude(p) PROVE Good'
  BY <1>22, <1>u, <1>t DEF Conclude
\* A restore.
<1>23. ASSUME NEW p \in Procs, PrepareRestore(p) PROVE Good'
  BY <1>23, <1>u, <1>t DEF PrepareRestore
<1>24. ASSUME NEW p \in Procs, Stop(p) PROVE Good'
  BY <1>24, <1>u, <1>t DEF Stop
<1>25. ASSUME NEW p \in Procs, RestoreRootFS(p) PROVE Good'
  BY <1>25, <1>u, <1>t DEF RestoreRootFS
<1>26. ASSUME NEW p \in Procs, RecordRestored(p) PROVE Good'
  BY <1>26, <1>u, <1>t DEF RecordRestored
<1>27. ASSUME NEW p \in Procs, Resume(p) PROVE Good'
  BY <1>27, <1>u, <1>t DEF Resume
<1>28. ASSUME NEW p \in Procs, Settle(p) PROVE Good'
  BY <1>28, <1>u, <1>t DEF Settle
\* Failures.
<1>29. ASSUME NEW p \in Procs, CallFails(p) PROVE Good'
  BY <1>29, <1>u, <1>t, CallFailsWrites, Taken DEF CallFails
<1>30. ASSUME NEW p \in Procs, AnswerLost(p) PROVE Good'
  <2>1. /\ task[p].snap \in 1 .. taken /\ \A i \in 1 .. Count : records[i] < task[p].snap
        /\ records' = Append(records, task[p].snap) /\ UNCHANGED taken
    BY <1>30 DEF AnswerLost, At, RowThere, Inserted, Unrecorded, Fresh
  <2> QED
    BY <1>a, <2>1
<1>31. ASSUME NEW p \in Procs, LoseLock(p) PROVE Good'
  BY <1>31, <1>u, <1>t DEF LoseLock
<1>32. ASSUME NEW p \in Procs, Crash(p) PROVE Good'
  BY <1>32, <1>u, <1>t DEF Crash
<1>33. ASSUME UNCHANGED vars PROVE Good'
  BY <1>33, <1>u, <1>t DEF vars
<1> QED
  BY <1>1, <1>2, <1>3, <1>4, <1>5, <1>6, <1>7, <1>8, <1>9, <1>10, <1>11, <1>12, <1>13,
       <1>14, <1>15, <1>16, <1>17, <1>18, <1>19, <1>20, <1>21, <1>22, <1>23, <1>24,
       <1>25, <1>26, <1>27, <1>28, <1>29, <1>30, <1>31, <1>32, <1>33 DEF Next, Proceed,
       Backup, Restore

\* A snapshot on its way to a record stays its process's own.
LEMMA UnrecordedStep ==
  ASSUME Bounds, TypeOK, Typed, Held, Doomed, Unrecorded, [Next]_vars
  PROVE  Unrecorded'
<1> DEFINE Known(p, id) == \/ \E k \in 1 .. Len(task[p].doomed) : id = task[p].doomed[k]
                           \/ \E k \in 1 .. Count : id = records[k]
<1> DEFINE Fewer == \A i \in 1 .. Count' : \E k \in 1 .. Count : records'[i] = records[k]
<1> DEFINE There == \A q \in Procs : task[q].at = "record" => task[q].snap \in DOMAIN snaps'
<1> DEFINE Same == UNCHANGED records /\ UNCHANGED snaps /\ UNCHANGED taken /\ UNCHANGED unanswered
<1>t. /\ records \in Seq(Nat) /\ Count \in Nat /\ taken \in Nat /\ taken \in 0 .. MaxSnaps
      /\ \A i \in 1 .. Count : records[i] \in 1 .. taken
      /\ \A q \in Procs : task[q].snap \in Nat /\ task[q].doomed \in Seq(Nat)
  BY Plain
<1>f. ASSUME NEW p \in Procs, Alone(p), task'[p].at \notin {"record", "discard"},
             \A j \in 1 .. Len(task'[p].doomed) : Known(p, task'[p].doomed[j]),
             Fewer, There, taken' \in Nat, taken <= taken', UNCHANGED unanswered
      PROVE  Unrecorded'
  <2>1. ASSUME NEW q \in Procs, task'[q].at \in {"record", "discard"}
        PROVE  q # p /\ task'[q] = task[q]
    BY <1>f, <2>1 DEF Alone
  <2>2. ASSUME NEW q \in Procs, task'[q].at = "record" PROVE Fresh(q)'
    <3>1. /\ task'[q] = task[q] /\ task[q].at = "record" /\ Fresh(q)
      BY <2>1, <2>2 DEF Unrecorded
    <3>2. ASSUME NEW r \in Procs, NEW j \in 1 .. Len(task'[r].doomed)
          PROVE  task'[r].doomed[j] # task'[q].snap
      BY <1>f, <3>1 DEF Fresh, Alone
    <3> QED
      BY <1>f, <3>1, <3>2 DEF Fresh
  <2>3. ASSUME NEW q \in Procs, task'[q].at = "discard", ~unanswered', NEW i \in 1 .. Count'
        PROVE  records'[i] # task'[q].snap
    <3>1. task'[q] = task[q] /\ task[q].at = "discard" /\ ~unanswered
      BY <1>f, <2>1, <2>3
    <3>2. PICK k \in 1 .. Count : records'[i] = records[k]
      BY <1>f, <2>3
    <3> QED
      BY <3>1, <3>2 DEF Unrecorded
  <2>4. \A q \in Procs : task'[q].at \in {"record", "discard"} => task'[q].snap \in 1 .. taken'
    BY <1>f, <1>t, <2>1 DEF Unrecorded
  <2>5. \A q, r \in Procs :
          /\ task'[q].at \in {"record", "discard"} /\ task'[r].at \in {"record", "discard"}
          /\ task'[q].snap = task'[r].snap
          => q = r
    BY <2>1 DEF Unrecorded
  <2> QED
    BY <2>2, <2>3, <2>4, <2>5 DEF Unrecorded
<1>o. Fewer \/ records' # records
  BY DEF Count
<1>h. ASSUME NEW p \in Procs, Alone(p), task'[p].at \notin {"record", "discard"},
             UNCHANGED task[p].doomed, Same
      PROVE  Unrecorded'
  <2>1. There
    BY <1>h DEF Unrecorded, Fresh
  <2>2. Fewer /\ taken' \in Nat /\ taken <= taken'
    BY <1>h, <1>t, <1>o
  <2>3. \A j \in 1 .. Len(task'[p].doomed) : Known(p, task'[p].doomed[j])
    BY <1>h
  <2> HIDE DEF Known, Fewer, There
  <2> QED
    BY <1>h, <1>f, <2>1, <2>2, <2>3
<1>g. ASSUME NEW p \in Procs, NEW l, Goes(p, l), l \notin {"record", "discard"}, Same
      PROVE  Unrecorded'
  <2>1. Alone(p) /\ task'[p].at = l /\ task'[p].doomed = task[p].doomed
    BY <1>g DEF Goes
  <2> QED
    BY <1>g, <1>h, <2>1
<1>e. ASSUME NEW p \in Procs, Ends(p), Same PROVE Unrecorded'
  <2>1. There
    BY <1>e DEF Unrecorded, Fresh
  <2>2. 1 .. Len(task'[p].doomed) = {}
    BY <1>e DEF Ends
  <2> QED
    BY <1>e, <1>t, <1>f, <1>o, <2>1, <2>2 DEF Ends
<1>u. ASSUME UNCHANGED task, Fewer, There, taken' \in Nat, taken <= taken', UNCHANGED unanswered
      PROVE  Unrecorded'
  BY <1>u, <1>t DEF Unrecorded, Fresh
<1>v. ASSUME UNCHANGED task, Same PROVE Unrecorded'
  <2>1. There
    BY <1>v DEF Unrecorded, Fresh
  <2> QED
    BY <1>v, <1>t, <1>u, <1>o, <2>1
<1>a. ASSUME NEW p \in Procs, task[p].at = "record", RowThere(p), Goes(p, task'[p].at),
             Inserted(p), UNCHANGED <<snaps, taken>>,
             \/ task'[p].at = "list" /\ UNCHANGED unanswered
             \/ task'[p].at = "discard" /\ unanswered'
      PROVE  Unrecorded'
  <2>1. /\ Count' = Count + 1 /\ records'[Count'] = task[p].snap
        /\ \A i \in 1 .. Count : records'[i] = records[i]
    BY <1>a, <1>t, Added DEF Inserted
  <2>2. ASSUME NEW q \in Procs, task[q].at = "record" PROVE q = p \/ task[q].lost
    BY <1>a, <2>2 DEF Held, Beyond, RowThere
  <2>3. \A q \in Procs : task[q].at \in {"record", "discard"} /\ task[q].snap = task[p].snap => q = p
    BY <1>a DEF Unrecorded
  <2>4. \A i \in 1 .. Count' : i \in 1 .. Count \/ i = Count'
    BY <1>t, <2>1
  <2>5. \A q \in Procs : /\ task'[q].snap = task[q].snap /\ task'[q].doomed = task[q].doomed
                         /\ q # p => task'[q] = task[q]
    BY <1>a DEF Goes, Alone
  <2>6. ASSUME NEW q \in Procs, task'[q].at = "record" PROVE Fresh(q)'
    <3>1. q # p /\ task[q].at = "record" /\ Fresh(q) /\ task'[q] = task[q] /\ task[q].lost
      BY <1>a, <2>6, <2>5, <2>2 DEF Unrecorded
    <3>2. task[q].snap # task[p].snap
      BY <2>3, <3>1
    <3>3. \A i \in 1 .. Count' : records'[i] # task[q].snap
      BY <2>1, <2>4, <3>1, <3>2 DEF Fresh
    <3> QED
      BY <1>a, <2>5, <3>1, <3>3 DEF Fresh
  <2>7. ASSUME NEW q \in Procs, task'[q].at = "discard", ~unanswered',
               NEW i \in 1 .. Count'
        PROVE  records'[i] # task'[q].snap
    <3>1. q # p /\ task'[q] = task[q] /\ task[q].at = "discard" /\ ~unanswered
      BY <1>a, <2>5, <2>7
    <3>2. task[q].snap # task[p].snap
      BY <2>3, <3>1
    <3> QED
      BY <2>1, <2>4, <2>7, <3>1, <3>2 DEF Unrecorded
  <2>8. \A q \in Procs : task'[q].at \in {"record", "discard"} => task[q].at \in {"record", "discard"}
    BY <1>a, <2>5
  <2> QED
    BY <1>a, <2>5, <2>6, <2>7, <2>8 DEF Unrecorded
<1>p. ASSUME NEW p \in Procs, task[p].at = "prune", Drop(Head(task[p].doomed)) PROVE There
  <2>1. Head(task[p].doomed) = task[p].doomed[1] /\ 1 \in 1 .. Len(task[p].doomed)
    BY <1>p, <1>t, TailOf DEF Doomed
  <2>2. ASSUME NEW q \in Procs, task[q].at = "record" PROVE task[q].snap \in DOMAIN snaps'
    <3>1. Fresh(q)
      BY <2>2 DEF Unrecorded
    <3>2. task[q].snap \in DOMAIN snaps /\ task[p].doomed[1] # task[q].snap
      BY <2>1, <3>1 DEF Fresh
    <3>3. DOMAIN snaps' = DOMAIN snaps \ {Head(task[p].doomed)}
      BY <1>p, Dropped
    <3> QED
      BY <2>1, <3>2, <3>3
  <2> QED
    BY <2>2
<1>k. Take(taken + 1) => There /\ taken' = taken + 1 /\ taken' \in Nat /\ taken <= taken'
  BY <1>t, Taken DEF Unrecorded, Fresh
<1> USE DEF sandbox, policy, schedule, bounds, Changed, vars
\* The rest of the system, and time.
<1>1. ASSUME NewSession PROVE Unrecorded'
  BY <1>1, <1>v DEF NewSession
<1>2. ASSUME Pause PROVE Unrecorded'
  BY <1>2, <1>v DEF Pause
<1>3. ASSUME Access PROVE Unrecorded'
  BY <1>3, <1>v DEF Access
<1>4. ASSUME Update PROVE Unrecorded'
  BY <1>4, <1>v DEF Update
<1>5. ASSUME Delete PROVE Unrecorded'
  <2>1. Count' = 0 /\ Fewer
    BY <1>5 DEF Delete, Count
  <2>2. There
    BY <1>5 DEF Delete, Unrecorded, Fresh
  <2> QED
    BY <1>5, <1>t, <1>u, <2>1, <2>2 DEF Delete
<1>6. ASSUME DueComes PROVE Unrecorded'
  BY <1>6, <1>v DEF DueComes
<1>7. ASSUME RetryComes PROVE Unrecorded'
  BY <1>7, <1>v DEF RetryComes
\* Taking the lock, or not.
<1>8. ASSUME NEW p \in Procs, Candidate(p) PROVE Unrecorded'
  BY <1>8, <1>h, <1>g, <1>e, CandidateMoves DEF Candidate
<1>9. ASSUME NEW p \in Procs, Ask(p) PROVE Unrecorded'
  BY <1>9, <1>h, <1>g, <1>e, AskMoves DEF Ask
<1>10. ASSUME NEW p \in Procs, Acquire(p) PROVE Unrecorded'
  BY <1>10, <1>h, <1>g, <1>e, AcquireMoves DEF Acquire
<1>11. ASSUME NEW p \in Procs, Skip(p) PROVE Unrecorded'
  BY <1>11, <1>h, <1>g, <1>e, SkipMoves DEF Skip
\* A backup.
<1>12. ASSUME NEW p \in Procs, Prepare(p) PROVE Unrecorded'
  BY <1>12, <1>h, <1>g, <1>e, PrepareMoves DEF Prepare
<1>13. ASSUME NEW p \in Procs, Hook(p) PROVE Unrecorded'
  BY <1>13, <1>h, <1>g, <1>e, HookMoves DEF Hook
<1>14. ASSUME NEW p \in Procs, Snapshot(p) PROVE Unrecorded'
  <2>1. /\ \A q \in Procs \ {p} : task'[q] = task[q]
        /\ task'[p].snap = taken + 1 /\ task'[p].at = "record" /\ task'[p].doomed = task[p].doomed
        /\ UNCHANGED <<records, unanswered>>
    BY <1>14, SnapshotMoves DEF Snapshot, Alone
  <2>2. taken' = taken + 1 /\ DOMAIN snaps' = DOMAIN snaps \cup {taken + 1}
    BY <1>14, Taken DEF Snapshot
  <2>3. \A q \in Procs : task'[q].doomed = task[q].doomed
    BY <2>1
  <2>4. Fresh(p)'
    <3>1. \A i \in 1 .. Count : records[i] < taken + 1
      BY <1>t
    <3>2. \A q \in Procs : \A j \in 1 .. Len(task[q].doomed) : task[q].doomed[j] # taken + 1
      BY <1>t DEF Doomed
    <3>3. \A i \in 1 .. Count : records[i] # taken + 1
      BY <1>t
    <3>4. /\ task'[p].snap = taken + 1 /\ UNCHANGED records
          /\ taken + 1 \in DOMAIN snaps'
      BY <2>1, <2>2
    <3> QED
      BY <2>3, <3>1, <3>2, <3>3, <3>4 DEF Fresh, Count
  <2>5. ASSUME NEW q \in Procs, q # p, task[q].at = "record" PROVE Fresh(q)'
    <3>1. Fresh(q)
      BY <2>5 DEF Unrecorded
    <3> QED
      BY <2>1, <2>2, <2>3, <2>5, <3>1 DEF Fresh, Count
  <2>6. \A q \in Procs : task'[q].at \in {"record", "discard"} => task'[q].snap \in 1 .. taken'
    BY <1>t, <2>1, <2>2 DEF Unrecorded
  <2>7. \A q, r \in Procs :
          /\ task'[q].at \in {"record", "discard"} /\ task'[r].at \in {"record", "discard"}
          /\ task'[q].snap = task'[r].snap
          => q = r
    <3>1. \A q \in Procs : q # p /\ task[q].at \in {"record", "discard"} => task[q].snap # taken + 1
      BY <1>t DEF Unrecorded
    <3> QED
      BY <2>1, <3>1 DEF Unrecorded
  <2>8. ASSUME NEW q \in Procs, task'[q].at = "record" PROVE Fresh(q)'
    BY <2>1, <2>4, <2>5, <2>8
  <2>9. \A q \in Procs : task'[q].at = "discard" /\ ~unanswered'
                         => \A i \in 1 .. Count' : records'[i] # task'[q].snap
    BY <2>1 DEF Unrecorded, Count
  <2> QED
    BY <2>6, <2>7, <2>8, <2>9 DEF Unrecorded
<1>15. ASSUME NEW p \in Procs, SnapshotRefused(p) PROVE Unrecorded'
  BY <1>15, <1>h, <1>g, <1>e, SnapshotRefusedMoves DEF SnapshotRefused
<1>16. ASSUME NEW p \in Procs, Record(p) PROVE Unrecorded'
  BY <1>16, <1>a, RecordMoves DEF Record, Goes
<1>17. ASSUME NEW p \in Procs, RecordRefused(p) PROVE Unrecorded'
  <2>1. /\ \A q \in Procs \ {p} : task'[q] = task[q]
        /\ task'[p].snap = task[p].snap /\ task'[p].at = "discard" /\ task[p].at = "record"
        /\ task'[p].doomed = task[p].doomed /\ UNCHANGED <<records, snaps, taken, unanswered>>
    BY <1>17, RecordRefusedMoves DEF RecordRefused, Goes, Alone
  <2>2. \A q \in Procs : task'[q].doomed = task[q].doomed /\ task'[q].snap = task[q].snap
    BY <2>1
  <2>3. ASSUME NEW q \in Procs, q # p, task[q].at = "record" PROVE Fresh(q)'
    <3>1. Fresh(q)
      BY <2>3 DEF Unrecorded
    <3> QED
      BY <2>1, <2>2, <2>3, <3>1 DEF Fresh, Count
  <2>4. \A i \in 1 .. Count : records[i] # task[p].snap
    BY <2>1 DEF Unrecorded, Fresh
  <2> QED
    BY <2>1, <2>2, <2>3, <2>4 DEF Unrecorded, Count
<1>18. ASSUME NEW p \in Procs, Discard(p) PROVE Unrecorded'
  <2>1. There
    <3>1. CASE UNCHANGED snaps
      BY <3>1 DEF Unrecorded, Fresh
    <3>2. ASSUME Drop(task[p].snap), NEW q \in Procs, task[q].at = "record"
          PROVE  task[q].snap \in DOMAIN snaps'
      <4>1. task[q].snap \in DOMAIN snaps /\ task[q].snap # task[p].snap
        BY <1>18, <3>2, DiscardMoves DEF Unrecorded, Fresh
      <4>2. DOMAIN snaps' = DOMAIN snaps \ {task[p].snap}
        BY <3>2, Dropped
      <4> QED
        BY <4>1, <4>2
    <3> QED
      BY <1>18, <3>1, <3>2 DEF Discard
  <2>2. Alone(p) /\ task'[p].at = "failed" /\ task'[p].doomed = task[p].doomed
    BY <1>18, DiscardMoves DEF Goes
  <2>3. Fewer /\ taken' \in Nat /\ taken <= taken' /\ UNCHANGED unanswered
    BY <1>18, <1>t, <1>o DEF Discard
  <2>4. \A j \in 1 .. Len(task'[p].doomed) : Known(p, task'[p].doomed[j])
    BY <2>2
  <2> HIDE DEF Known, Fewer, There
  <2> QED
    BY <1>f, <2>1, <2>2, <2>3, <2>4
<1>19. ASSUME NEW p \in Procs, List(p) PROVE Unrecorded'
  <2>1. There
    BY <1>19 DEF List, Unrecorded, Fresh
  <2>2. \A j \in 1 .. Len(task'[p].doomed) : Known(p, task'[p].doomed[j])
    <3>1. task[p].keep \in Nat
      BY DEF Typed, Tasks
    <3>2. CASE BeyondRetention(task[p].keep) = <<>>
      BY <1>19, ListMoves, <3>2
    <3>3. CASE /\ Len(BeyondRetention(task[p].keep)) = Count - task[p].keep
               /\ \A j \in 1 .. Count - task[p].keep : BeyondRetention(task[p].keep)[j] = records[j]
      <4>1. \A j \in 1 .. Count - task[p].keep : j \in 1 .. Count
        BY <1>t, <3>1
      <4> QED
        BY <1>19, ListMoves, <3>3, <4>1
    <3> QED
      BY <1>t, <3>1, <3>2, <3>3, Over
  <2>3. Alone(p) /\ task'[p].at \notin {"record", "discard"}
    BY <1>19, ListMoves
  <2>4. Same /\ Fewer
    BY <1>19, <1>o DEF List
  <2> HIDE DEF Known, Fewer, There
  <2> QED
    BY <1>t, <1>f, <2>1, <2>2, <2>3, <2>4
<1>20. ASSUME NEW p \in Procs, Prune(p) PROVE Unrecorded'
  BY <1>20, <1>t, <1>f, <1>o, <1>p, PruneMoves DEF Prune, Goes
<1>21. ASSUME NEW p \in Procs, Forget(p) PROVE Unrecorded'
  <2>1. There /\ task[p].doomed # <<>>
    BY <1>21, ForgetMoves DEF Forget, Unrecorded, Fresh, Doomed
  <2>2. CASE Goes(p, "failed") /\ UNCHANGED records
    BY <1>21, <2>2, <1>g DEF Forget
  <2>3. CASE /\ Alone(p) /\ Deleted(Head(task[p].doomed)) /\ task'[p].doomed = Tail(task[p].doomed)
             /\ task'[p].at = IF Len(task[p].doomed) = 1 THEN "healthy" ELSE "prune"
    <3>1. Fewer
      BY <1>t, <2>3, Shrinks
    <3>2. \A j \in 1 .. Len(task'[p].doomed) : Known(p, task'[p].doomed[j])
      BY <1>t, <2>1, <2>3, TailOf
    <3>3. task'[p].at \notin {"record", "discard"} /\ UNCHANGED <<taken, unanswered>>
      BY <1>21, <2>3 DEF Forget
    <3>4. Alone(p) /\ There /\ taken \in Nat
      BY <1>t, <2>1, <2>3
    <3> HIDE DEF Known, Fewer, There
    <3> QED
      BY <1>f, <3>1, <3>2, <3>3, <3>4
  <2> QED
    BY <1>21, <2>2, <2>3, ForgetMoves
<1>22. ASSUME NEW p \in Procs, Conclude(p) PROVE Unrecorded'
  BY <1>22, <1>h, <1>g, <1>e, ConcludeMoves DEF Conclude
\* A restore.
<1>23. ASSUME NEW p \in Procs, PrepareRestore(p) PROVE Unrecorded'
  BY <1>23, <1>h, <1>g, <1>e, PrepareRestoreMoves DEF PrepareRestore
<1>24. ASSUME NEW p \in Procs, Stop(p) PROVE Unrecorded'
  BY <1>24, <1>h, <1>g, <1>e, StopMoves DEF Stop
<1>25. ASSUME NEW p \in Procs, RestoreRootFS(p) PROVE Unrecorded'
  BY <1>25, <1>h, <1>g, <1>e, RestoreRootFSMoves DEF RestoreRootFS
<1>26. ASSUME NEW p \in Procs, RecordRestored(p) PROVE Unrecorded'
  BY <1>26, <1>g, <1>e, RecordRestoredMoves DEF RecordRestored
<1>27. ASSUME NEW p \in Procs, Resume(p) PROVE Unrecorded'
  BY <1>27, <1>h, <1>g, <1>e, ResumeMoves DEF Resume
<1>28. ASSUME NEW p \in Procs, Settle(p) PROVE Unrecorded'
  BY <1>28, <1>h, <1>g, <1>e, SettleMoves DEF Settle
\* Failures.
<1>29. ASSUME NEW p \in Procs, CallFails(p) PROVE Unrecorded'
  <2>1. UNCHANGED <<records, unanswered>>
    BY <1>29 DEF CallFails
  <2>2. There /\ taken' \in Nat /\ taken <= taken'
    <3>1. CASE UNCHANGED <<rootfs, snaps, taken>>
      BY <1>t, <3>1 DEF Unrecorded, Fresh
    <3>2. CASE Take(taken + 1)
      BY <1>k, <3>2
    <3>3. CASE task[p].at = "prune" /\ Drop(Head(task[p].doomed)) /\ UNCHANGED taken
      BY <1>p, <1>t, <3>3
    <3>4. CASE UNCHANGED <<snaps, taken>>
      BY <1>t, <3>4 DEF Unrecorded, Fresh
    <3> QED
      BY <1>29, <3>1, <3>2, <3>3, <3>4, CallFailsWrites
  <2>3. /\ Alone(p) /\ task'[p].at \in {"failed", "recover", "idle"}
        /\ task'[p].doomed \in {task[p].doomed, <<>>}
    BY <1>29, CallFailsMoves DEF Goes, Ends
  <2>4. \A j \in 1 .. Len(task'[p].doomed) : Known(p, task'[p].doomed[j])
    <3>1. CASE task'[p].doomed = task[p].doomed
      BY <3>1
    <3>2. CASE task'[p].doomed = <<>>
      BY <3>2
    <3> QED
      BY <2>3, <3>1, <3>2
  <2> QED
    BY <1>t, <1>f, <1>o, <2>1, <2>2, <2>3, <2>4
<1>30. ASSUME NEW p \in Procs, AnswerLost(p) PROVE Unrecorded'
  BY <1>30, <1>a, AnswerLostMoves DEF AnswerLost, Goes
<1>31. ASSUME NEW p \in Procs, LoseLock(p) PROVE Unrecorded'
  <2>1. /\ \A q \in Procs : /\ task'[q].at = task[q].at /\ task'[q].snap = task[q].snap
                            /\ task'[q].doomed = task[q].doomed
                            /\ ~task'[q].lost => ~task[q].lost
        /\ UNCHANGED <<records, snaps, taken, unanswered>>
    BY <1>31, LoseLockMoves DEF LoseLock, Alone
  <2> QED
    BY <2>1 DEF Unrecorded, Fresh, Count
<1>32. ASSUME NEW p \in Procs, Crash(p) PROVE Unrecorded'
  BY <1>32, <1>h, <1>g, <1>e, CrashMoves DEF Crash
<1>33. ASSUME UNCHANGED vars PROVE Unrecorded'
  BY <1>33, <1>v DEF vars
<1> QED
  BY <1>1, <1>2, <1>3, <1>4, <1>5, <1>6, <1>7, <1>8, <1>9, <1>10, <1>11, <1>12, <1>13,
       <1>14, <1>15, <1>16, <1>17, <1>18, <1>19, <1>20, <1>21, <1>22, <1>23, <1>24,
       <1>25, <1>26, <1>27, <1>28, <1>29, <1>30, <1>31, <1>32, <1>33 DEF Next, Proceed,
       Backup, Restore

\* What is older than the backups to keep stays so, as long as there is an Environment.
LEMMA OutdatedStep ==
  ASSUME Bounds, TypeOK, Typed, Unrecorded, Doomed, [Next]_vars
  PROVE  /\ least' <= least /\ taken <= taken'
         /\ \A id \in Nat : ready /\ ready' /\ Outdated(id) => Outdated(id)'
<1> DEFINE Good == /\ least' <= least /\ taken <= taken'
                   /\ \A id \in Nat : ready /\ ready' /\ Outdated(id) => Outdated(id)'
<1>t. /\ records \in Seq(Nat) /\ Count \in Nat /\ taken \in Nat /\ taken' \in Nat
      /\ least \in Nat \ {0} /\ least' \in Nat \ {0}
      /\ \A i \in 1 .. Count : records[i] \in Nat
      /\ \A q \in Procs : task[q].snap \in Nat /\ task[q].doomed \in Seq(Nat)
  BY Plain, Lasting
<1>u. ASSUME UNCHANGED records, least' <= least, taken <= taken' PROVE Good
  BY <1>t, <1>u DEF Outdated, Count
<1>a. ASSUME NEW p \in Procs, task[p].at = "record", RowThere(p),
             records' = Append(records, task[p].snap), UNCHANGED least, UNCHANGED taken
      PROVE  Good
  <2>1. /\ Count' = Count + 1 /\ records'[Count'] = task[p].snap
        /\ \A i \in 1 .. Count : records'[i] = records[i]
    BY <1>t, <1>a, Added
  <2>2. \A i \in 1 .. Count : records[i] < task[p].snap
    BY <1>a DEF Unrecorded, Fresh, RowThere
  <2>3. ASSUME NEW id \in Nat, Outdated(id) PROVE Outdated(id)'
    <3>1. least <= Count /\ records[Count] > id
      BY <1>t, <2>3 DEF Outdated
    <3>2. task[p].snap > id
      BY <1>t, <2>2, <3>1
    <3>3. ASSUME NEW i \in 1 .. Count', i > Count' - least PROVE records'[i] > id
      <4>1. CASE i = Count'
        BY <2>1, <3>2, <4>1
      <4>2. CASE i # Count'
        <5>1. i \in 1 .. Count /\ i > Count - least
          BY <1>t, <2>1, <3>3, <4>2
        <5> QED
          BY <2>1, <2>3, <5>1 DEF Outdated
      <4> QED
        BY <4>1, <4>2
    <3>4. least' <= Count' /\ Count' - least' = Count' - least
      BY <1>t, <1>a, <2>1, <3>1
    <3> QED
      BY <3>3, <3>4 DEF Outdated
  <2> QED
    BY <1>t, <1>a, <2>3
<1> USE DEF sandbox, policy, schedule, bounds, Changed, vars
\* The rest of the system, and time.
<1>1. ASSUME NewSession PROVE Good
  BY <1>1, <1>t, <1>u DEF NewSession
<1>2. ASSUME Pause PROVE Good
  BY <1>2, <1>t, <1>u DEF Pause
<1>3. ASSUME Access PROVE Good
  BY <1>3, <1>t, <1>u DEF Access
<1>4. ASSUME Update PROVE Good
  <2>1. least' <= least
    BY <1>4, <1>t, NumbersStep DEF Update, TypeOK, Typed, Bounds
  <2> QED
    BY <1>4, <1>t, <2>1, <1>u DEF Update
<1>5. ASSUME Delete PROVE Good
  BY <1>5, <1>t DEF Delete
<1>6. ASSUME DueComes PROVE Good
  BY <1>6, <1>t, <1>u DEF DueComes
<1>7. ASSUME RetryComes PROVE Good
  BY <1>7, <1>t, <1>u DEF RetryComes
\* Taking the lock, or not.
<1>8. ASSUME NEW p \in Procs, Candidate(p) PROVE Good
  BY <1>8, <1>t, <1>u DEF Candidate
<1>9. ASSUME NEW p \in Procs, Ask(p) PROVE Good
  BY <1>9, <1>t, <1>u DEF Ask
<1>10. ASSUME NEW p \in Procs, Acquire(p) PROVE Good
  BY <1>10, <1>t, <1>u DEF Acquire
<1>11. ASSUME NEW p \in Procs, Skip(p) PROVE Good
  BY <1>11, <1>t, <1>u DEF Skip
\* A backup.
<1>12. ASSUME NEW p \in Procs, Prepare(p) PROVE Good
  BY <1>12, <1>t, <1>u DEF Prepare
<1>13. ASSUME NEW p \in Procs, Hook(p) PROVE Good
  BY <1>13, <1>t, <1>u DEF Hook
<1>14. ASSUME NEW p \in Procs, Snapshot(p) PROVE Good
  BY <1>14, <1>u, <1>t, Taken DEF Snapshot
<1>15. ASSUME NEW p \in Procs, SnapshotRefused(p) PROVE Good
  BY <1>15, <1>t, <1>u DEF SnapshotRefused
<1>16. ASSUME NEW p \in Procs, Record(p) PROVE Good
  BY <1>16, <1>a DEF Record, Inserted, At
<1>17. ASSUME NEW p \in Procs, RecordRefused(p) PROVE Good
  BY <1>17, <1>t, <1>u DEF RecordRefused
<1>18. ASSUME NEW p \in Procs, Discard(p) PROVE Good
  BY <1>18, <1>t, <1>u DEF Discard
<1>19. ASSUME NEW p \in Procs, List(p) PROVE Good
  BY <1>19, <1>t, <1>u DEF List
<1>20. ASSUME NEW p \in Procs, Prune(p) PROVE Good
  BY <1>20, <1>t, <1>u DEF Prune
<1>21. ASSUME NEW p \in Procs, Forget(p) PROVE Good
  <2>1. UNCHANGED <<ready, taken, least>> /\ task[p].at = "forget"
    BY <1>21 DEF Forget, At
  <2>2. CASE UNCHANGED records
    BY <1>t, <1>u, <2>1, <2>2
  <2>3. CASE Deleted(Head(task[p].doomed))
    <3>1. Head(task[p].doomed) = task[p].doomed[1] /\ 1 \in 1 .. Len(task[p].doomed)
      BY <1>t, <2>1, TailOf DEF Doomed
    <3>2. CASE ready
      <4>1. Outdated(Head(task[p].doomed))
        BY <3>1, <3>2 DEF Doomed
      <4>2. CASE /\ least <= Count' /\ Count' = Count - 1
                 /\ \A i \in 1 .. Count' : i > Count' - least =>
                      i + 1 \in 1 .. Count /\ i + 1 > Count - least /\ records'[i] = records[i + 1]
        <5>1. ASSUME NEW id \in Nat, Outdated(id) PROVE Outdated(id)'
          BY <1>t, <2>1, <4>2, <5>1 DEF Outdated
        <5> QED
          BY <1>t, <2>1, <5>1
      <4> QED
        BY <1>t, <2>1, <2>2, <2>3, <4>1, <4>2, OutdatedGoes
    <3>3. CASE ~ready
      BY <1>t, <2>1, <3>3
    <3> QED
      BY <3>2, <3>3
  <2> QED
    BY <1>21, <2>2, <2>3, ForgetMoves
<1>22. ASSUME NEW p \in Procs, Conclude(p) PROVE Good
  BY <1>22, <1>t, <1>u DEF Conclude
\* A restore.
<1>23. ASSUME NEW p \in Procs, PrepareRestore(p) PROVE Good
  BY <1>23, <1>t, <1>u DEF PrepareRestore
<1>24. ASSUME NEW p \in Procs, Stop(p) PROVE Good
  BY <1>24, <1>t, <1>u DEF Stop
<1>25. ASSUME NEW p \in Procs, RestoreRootFS(p) PROVE Good
  BY <1>25, <1>t, <1>u DEF RestoreRootFS
<1>26. ASSUME NEW p \in Procs, RecordRestored(p) PROVE Good
  BY <1>26, <1>t, <1>u DEF RecordRestored
<1>27. ASSUME NEW p \in Procs, Resume(p) PROVE Good
  BY <1>27, <1>t, <1>u DEF Resume
<1>28. ASSUME NEW p \in Procs, Settle(p) PROVE Good
  BY <1>28, <1>t, <1>u DEF Settle
\* Failures.
<1>29. ASSUME NEW p \in Procs, CallFails(p) PROVE Good
  <2>1. UNCHANGED <<records, least>>
    BY <1>29 DEF CallFails
  <2> QED
    BY <1>29, <1>t, <1>u, <2>1, CallFailsWrites, Taken
<1>30. ASSUME NEW p \in Procs, AnswerLost(p) PROVE Good
  BY <1>30, <1>a DEF AnswerLost, Inserted, At
<1>31. ASSUME NEW p \in Procs, LoseLock(p) PROVE Good
  BY <1>31, <1>t, <1>u DEF LoseLock
<1>32. ASSUME NEW p \in Procs, Crash(p) PROVE Good
  BY <1>32, <1>t, <1>u DEF Crash
<1>33. ASSUME UNCHANGED vars PROVE Good
  BY <1>33, <1>t, <1>u DEF vars
<1> QED
  BY <1>1, <1>2, <1>3, <1>4, <1>5, <1>6, <1>7, <1>8, <1>9, <1>10, <1>11, <1>12, <1>13,
       <1>14, <1>15, <1>16, <1>17, <1>18, <1>19, <1>20, <1>21, <1>22, <1>23, <1>24,
       <1>25, <1>26, <1>27, <1>28, <1>29, <1>30, <1>31, <1>32, <1>33 DEF Next, Proceed,
       Backup, Restore

\* What a pass prunes stays outdated until it is pruned.
LEMMA DoomedStep ==
  ASSUME Bounds, TypeOK, Typed, Placed, Unrecorded, Doomed, [Next]_vars
  PROVE  Doomed'
<1> DEFINE Told(q) ==
      /\ task'[q].at \in {"hook", "snapshot", "record", "list"} /\ task'[q].job # "restore"
           => task'[q].keep >= least'
      /\ task'[q].at \in {"prune", "forget"} => task'[q].doomed # <<>>
<1> DEFINE Later(id) == least' <= Count' /\ \A i \in 1 .. Count' : i > Count' - least' => records'[i] > id
<1> DEFINE Old(id) == id \in 1 .. taken' /\ (ready' => Later(id))
<1>t. /\ records \in Seq(Nat) /\ Count \in Nat /\ taken \in Nat /\ taken' \in Nat
      /\ least \in Nat \ {0} /\ least' \in Nat \ {0} /\ retain \in Nat /\ least <= retain
      /\ \A i \in 1 .. Count : records[i] \in 1 .. taken
      /\ \A q \in Procs : task[q].keep \in Nat /\ task[q].doomed \in Seq(Nat)
      /\ least' <= least /\ taken <= taken'
      /\ \A id \in Nat : ready /\ ready' /\ Outdated(id) => Later(id)
  <2>1.  /\ least' <= least /\ taken <= taken'
        /\ \A id \in Nat : ready /\ ready' /\ Outdated(id) => Later(id)
    BY OutdatedStep DEF Outdated
  <2> QED
    BY <2>1, Plain, Lasting
<1>r. ASSUME NEW q \in Procs, NEW k \in 1 .. Len(task[q].doomed), ready' => ready
      PROVE  Old(task[q].doomed[k])
  <2>1. task[q].doomed[k] \in 1 .. taken /\ (ready => Outdated(task[q].doomed[k]))
    BY DEF Doomed
  <2>2. task[q].doomed[k] \in Nat /\ task[q].doomed[k] \in 1 .. taken'
    <3>1. taken \in Nat /\ taken' \in Nat /\ taken <= taken'
      BY <1>t
    <3> HIDE DEF Later
    <3> QED
      BY <2>1, <3>1
  <2> HIDE DEF Later
  <2> QED
    BY <1>t, <1>r, <2>1, <2>2
<1>d. ASSUME \A q \in Procs : Told(q),
             \A q \in Procs : \A j \in 1 .. Len(task'[q].doomed) : Old(task'[q].doomed[j])
      PROVE  Doomed'
  BY <1>d DEF Doomed, Outdated
<1>w. ASSUME NEW p \in Procs, Alone(p), Told(p), ready' => ready,
             \A j \in 1 .. Len(task'[p].doomed) : Old(task'[p].doomed[j])
      PROVE  Doomed'
  <2>1. ASSUME NEW q \in Procs \ {p}
        PROVE  Told(q) /\ \A j \in 1 .. Len(task'[q].doomed) : Old(task'[q].doomed[j])
    <3>1. task'[q] = task[q]
      BY <1>w DEF Alone
    <3>2. Told(q)
      BY <1>t, <3>1 DEF Doomed
    <3>3. \A j \in 1 .. Len(task'[q].doomed) : Old(task'[q].doomed[j])
      BY <1>w, <1>r, <3>1
    <3> QED
      BY <3>2, <3>3
  <2>2. \A q \in Procs : Told(q)
    BY <1>w, <2>1
  <2>3. \A q \in Procs : \A j \in 1 .. Len(task'[q].doomed) : Old(task'[q].doomed[j])
    BY <1>w, <2>1
  <2> QED
    BY <1>d, <2>2, <2>3
<1>g. ASSUME NEW p \in Procs, NEW l, Goes(p, l), UNCHANGED ready,
             \/ l \notin {"hook", "snapshot", "record", "list", "prune", "forget"}
             \/ /\ l \in {"snapshot", "record", "list"}
                /\ task[p].at \in {"hook", "snapshot", "record"} /\ task[p].job # "restore"
             \/ l = "forget" /\ task[p].at = "prune"
      PROVE  Doomed'
  <2>1. Told(p)
    BY <1>t, <1>g DEF Goes, Doomed
  <2>2. Alone(p) /\ task'[p].doomed = task[p].doomed
    BY <1>g DEF Goes
  <2>3. \A j \in 1 .. Len(task'[p].doomed) : Old(task'[p].doomed[j])
    BY <1>g, <1>r, <2>2
  <2> QED
    BY <1>g, <1>w, <2>1, <2>2, <2>3
<1>e. ASSUME NEW p \in Procs, Ends(p), UNCHANGED ready PROVE Doomed'
  <2>1. 1 .. Len(task'[p].doomed) = {} /\ Told(p) /\ Alone(p)
    BY <1>e DEF Ends
  <2> QED
    BY <1>e, <1>w, <2>1
<1>s. ASSUME NEW p \in Procs, Alone(p), task'[p].doomed = task[p].doomed, UNCHANGED ready, Told(p)
      PROVE  Doomed'
  BY <1>s, <1>w, <1>r
<1>u. ASSUME UNCHANGED task, ready' => ready PROVE Doomed'
  <2>1. \A q \in Procs : Told(q)
    BY <1>t, <1>u DEF Doomed
  <2>2. \A q \in Procs : \A j \in 1 .. Len(task'[q].doomed) : Old(task'[q].doomed[j])
    BY <1>u, <1>r
  <2> QED
    BY <1>d, <2>1, <2>2
<1> USE DEF sandbox, policy, schedule, bounds, Changed, vars
\* The rest of the system, and time.
<1>1. ASSUME NewSession PROVE Doomed'
  BY <1>1, <1>u DEF NewSession
<1>2. ASSUME Pause PROVE Doomed'
  BY <1>2, <1>u DEF Pause
<1>3. ASSUME Access PROVE Doomed'
  BY <1>3, <1>u DEF Access
<1>4. ASSUME Update PROVE Doomed'
  BY <1>4, <1>u DEF Update
<1>5. ASSUME Delete PROVE Doomed'
  BY <1>5, <1>u DEF Delete
<1>6. ASSUME DueComes PROVE Doomed'
  BY <1>6, <1>u DEF DueComes
<1>7. ASSUME RetryComes PROVE Doomed'
  BY <1>7, <1>u DEF RetryComes
\* Taking the lock, or not.
<1>8. ASSUME NEW p \in Procs, Candidate(p) PROVE Doomed'
  <2>1. UNCHANGED ready
    BY <1>8 DEF Candidate
  <2> QED
    BY <1>8, <2>1, <1>t, <1>g, <1>e, <1>s, CandidateMoves DEF Placed
<1>9. ASSUME NEW p \in Procs, Ask(p) PROVE Doomed'
  <2>1. UNCHANGED ready
    BY <1>9 DEF Ask
  <2> QED
    BY <1>9, <2>1, <1>t, <1>g, <1>e, <1>s, AskMoves DEF Placed
<1>10. ASSUME NEW p \in Procs, Acquire(p) PROVE Doomed'
  <2>1. UNCHANGED ready
    BY <1>10 DEF Acquire
  <2> QED
    BY <1>10, <2>1, <1>t, <1>g, <1>e, <1>s, AcquireMoves DEF Placed
<1>11. ASSUME NEW p \in Procs, Skip(p) PROVE Doomed'
  <2>1. UNCHANGED ready
    BY <1>11 DEF Skip
  <2> QED
    BY <1>11, <2>1, <1>t, <1>g, <1>e, <1>s, SkipMoves DEF Placed
\* A backup.
<1>12. ASSUME NEW p \in Procs, Prepare(p) PROVE Doomed'
  <2>1. UNCHANGED ready
    BY <1>12 DEF Prepare
  <2> QED
    BY <1>12, <2>1, <1>t, <1>g, <1>e, <1>s, PrepareMoves DEF Placed
<1>13. ASSUME NEW p \in Procs, Hook(p) PROVE Doomed'
  <2>1. UNCHANGED ready
    BY <1>13 DEF Hook
  <2> QED
    BY <1>13, <2>1, <1>t, <1>g, <1>e, <1>s, HookMoves DEF Placed
<1>14. ASSUME NEW p \in Procs, Snapshot(p) PROVE Doomed'
  <2>1. UNCHANGED ready
    BY <1>14 DEF Snapshot
  <2>2. Told(p)
    BY <1>14, <1>t, SnapshotMoves DEF Doomed
  <2> QED
    BY <1>14, <2>1, <2>2, <1>s, SnapshotMoves
<1>15. ASSUME NEW p \in Procs, SnapshotRefused(p) PROVE Doomed'
  <2>1. UNCHANGED ready
    BY <1>15 DEF SnapshotRefused
  <2> QED
    BY <1>15, <2>1, <1>t, <1>g, <1>e, <1>s, SnapshotRefusedMoves DEF Placed
<1>16. ASSUME NEW p \in Procs, Record(p) PROVE Doomed'
  <2>1. UNCHANGED ready
    BY <1>16 DEF Record
  <2> QED
    BY <1>16, <2>1, <1>t, <1>g, <1>e, <1>s, RecordMoves DEF Placed
<1>17. ASSUME NEW p \in Procs, RecordRefused(p) PROVE Doomed'
  <2>1. UNCHANGED ready
    BY <1>17 DEF RecordRefused
  <2> QED
    BY <1>17, <2>1, <1>t, <1>g, <1>e, <1>s, RecordRefusedMoves DEF Placed
<1>18. ASSUME NEW p \in Procs, Discard(p) PROVE Doomed'
  <2>1. UNCHANGED ready
    BY <1>18 DEF Discard
  <2> QED
    BY <1>18, <2>1, <1>t, <1>g, <1>e, <1>s, DiscardMoves DEF Placed
<1>19. ASSUME NEW p \in Procs, List(p) PROVE Doomed'
  <2>1. /\ UNCHANGED ready /\ UNCHANGED records /\ UNCHANGED least /\ UNCHANGED taken
    BY <1>19 DEF List
  <2>2. Alone(p) /\ Told(p)
    BY <1>19, ListMoves
  <2>3. task[p].keep \in Nat /\ task[p].keep >= least
    BY <1>19, <1>t, ListMoves DEF Doomed, Placed
  <2>4. ASSUME NEW j \in 1 .. Len(task'[p].doomed) PROVE Old(task'[p].doomed[j])
    <3>1. /\ Count > task[p].keep /\ j \in 1 .. Count - task[p].keep
          /\ task'[p].doomed[j] = records[j]
      <4>1. task'[p].doomed = BeyondRetention(task[p].keep) /\ task'[p].doomed # <<>>
        BY <1>19, <2>4, ListMoves
      <4> HIDE DEF Old
      <4> QED
        BY <1>t, <2>3, <2>4, <4>1, Over
    <3>2. j \in 1 .. Count /\ j <= Count - least /\ least <= Count
      BY <1>t, <2>3, <3>1
    <3>3. \A i \in 1 .. Count : i > Count - least => records[i] > records[j]
      BY <1>t, <3>2 DEF TypeOK
    <3>4. Outdated(records[j])
      BY <3>2, <3>3 DEF Outdated
    <3>5. Later(records[j])
      BY <2>1, <3>4 DEF Outdated, Count
    <3>6. records[j] \in 1 .. taken'
      BY <1>t, <2>1, <3>2
    <3> QED
      BY <3>1, <3>5, <3>6
  <2> QED
    BY <2>1, <2>2, <2>4, <1>w
<1>20. ASSUME NEW p \in Procs, Prune(p) PROVE Doomed'
  <2>1. UNCHANGED ready
    BY <1>20 DEF Prune
  <2> QED
    BY <1>20, <2>1, <1>t, <1>g, <1>e, <1>s, PruneMoves DEF Placed
<1>21. ASSUME NEW p \in Procs, Forget(p) PROVE Doomed'
  <2>1. UNCHANGED ready
    BY <1>21 DEF Forget
  <2>2. CASE Goes(p, "failed")
    BY <2>1, <2>2, <1>g
  <2>3. CASE /\ Alone(p) /\ task'[p].doomed = Tail(task[p].doomed)
             /\ task'[p].at = IF Len(task[p].doomed) = 1 THEN "healthy" ELSE "prune"
    <3>1. task[p].doomed # <<>> /\ task[p].doomed \in Seq(Nat)
      BY <1>21, <1>t, ForgetMoves DEF Doomed
    <3>2. /\ Len(task[p].doomed) \in Nat /\ Len(Tail(task[p].doomed)) = Len(task[p].doomed) - 1
          /\ \A j \in 1 .. Len(Tail(task[p].doomed)) :
               /\ j + 1 \in 1 .. Len(task[p].doomed)
               /\ Tail(task[p].doomed)[j] = task[p].doomed[j + 1]
      BY <3>1, TailOf
    <3>3. Told(p)
      <4>1. CASE Len(task[p].doomed) = 1
        BY <2>3, <4>1
      <4>2. CASE Len(task[p].doomed) # 1
        <5>1. Len(<<>>) = 0 /\ Len(Tail(task[p].doomed)) # 0
          BY <3>2, <4>2
        <5> QED
          BY <2>3, <4>2, <5>1
      <4> QED
        BY <4>1, <4>2
    <3>4. \A j \in 1 .. Len(task'[p].doomed) : Old(task'[p].doomed[j])
      BY <1>r, <2>1, <2>3, <3>2
    <3> QED
      BY <2>1, <2>3, <3>3, <3>4, <1>w
  <2> QED
    BY <1>21, <2>2, <2>3, ForgetMoves
<1>22. ASSUME NEW p \in Procs, Conclude(p) PROVE Doomed'
  <2>1. UNCHANGED ready
    BY <1>22 DEF Conclude
  <2> QED
    BY <1>22, <2>1, <1>t, <1>g, <1>e, <1>s, ConcludeMoves DEF Placed
\* A restore.
<1>23. ASSUME NEW p \in Procs, PrepareRestore(p) PROVE Doomed'
  <2>1. UNCHANGED ready
    BY <1>23 DEF PrepareRestore
  <2> QED
    BY <1>23, <2>1, <1>t, <1>g, <1>e, <1>s, PrepareRestoreMoves DEF Placed
<1>24. ASSUME NEW p \in Procs, Stop(p) PROVE Doomed'
  <2>1. UNCHANGED ready
    BY <1>24 DEF Stop
  <2> QED
    BY <1>24, <2>1, <1>t, <1>g, <1>e, <1>s, StopMoves DEF Placed
<1>25. ASSUME NEW p \in Procs, RestoreRootFS(p) PROVE Doomed'
  <2>1. UNCHANGED ready
    BY <1>25 DEF RestoreRootFS
  <2> QED
    BY <1>25, <2>1, <1>t, <1>g, <1>e, <1>s, RestoreRootFSMoves DEF Placed
<1>26. ASSUME NEW p \in Procs, RecordRestored(p) PROVE Doomed'
  <2>1. UNCHANGED ready
    BY <1>26 DEF RecordRestored
  <2> QED
    BY <1>26, <2>1, <1>t, <1>g, <1>e, <1>s, RecordRestoredMoves DEF Placed
<1>27. ASSUME NEW p \in Procs, Resume(p) PROVE Doomed'
  <2>1. UNCHANGED ready
    BY <1>27 DEF Resume
  <2> QED
    BY <1>27, <2>1, <1>t, <1>g, <1>e, <1>s, ResumeMoves DEF Placed
<1>28. ASSUME NEW p \in Procs, Settle(p) PROVE Doomed'
  <2>1. UNCHANGED ready
    BY <1>28 DEF Settle
  <2> QED
    BY <1>28, <2>1, <1>t, <1>g, <1>e, <1>s, SettleMoves DEF Placed
\* Failures.
<1>29. ASSUME NEW p \in Procs, CallFails(p) PROVE Doomed'
  <2>1. UNCHANGED ready
    BY <1>29 DEF CallFails
  <2> QED
    BY <1>29, <2>1, <1>t, <1>g, <1>e, <1>s, CallFailsMoves DEF Placed
<1>30. ASSUME NEW p \in Procs, AnswerLost(p) PROVE Doomed'
  <2>1. UNCHANGED ready
    BY <1>30 DEF AnswerLost
  <2> QED
    BY <1>30, <2>1, <1>t, <1>g, <1>e, <1>s, AnswerLostMoves DEF Placed
<1>31. ASSUME NEW p \in Procs, LoseLock(p) PROVE Doomed'
  <2>1. UNCHANGED ready
    BY <1>31 DEF LoseLock
  <2>2. Told(p)
    <3>1. /\ task'[p].at = task[p].at /\ task'[p].job = task[p].job
          /\ task'[p].keep = task[p].keep /\ task'[p].doomed = task[p].doomed
      BY <1>31, LoseLockMoves
    <3> QED
      BY <1>t, <3>1 DEF Doomed
  <2> QED
    BY <1>31, <2>1, <2>2, <1>s, LoseLockMoves
<1>32. ASSUME NEW p \in Procs, Crash(p) PROVE Doomed'
  <2>1. UNCHANGED ready
    BY <1>32 DEF Crash
  <2> QED
    BY <1>32, <2>1, <1>t, <1>g, <1>e, <1>s, CrashMoves DEF Placed
<1>33. ASSUME UNCHANGED vars PROVE Doomed'
  BY <1>33, <1>u DEF vars
<1> QED
  BY <1>1, <1>2, <1>3, <1>4, <1>5, <1>6, <1>7, <1>8, <1>9, <1>10, <1>11, <1>12, <1>13,
       <1>14, <1>15, <1>16, <1>17, <1>18, <1>19, <1>20, <1>21, <1>22, <1>23, <1>24,
       <1>25, <1>26, <1>27, <1>28, <1>29, <1>30, <1>31, <1>32, <1>33 DEF Next, Proceed,
       Backup, Restore

\* No record comes to an Environment that is gone.
LEMMA GoneStep == ASSUME Typed, Gone, [Next]_vars PROVE Gone'
<1>t. records \in Seq(Nat) /\ Count \in Nat
  BY DEF Typed, Count
<1> USE DEF Gone, sandbox, policy, schedule, bounds, Changed, vars
\* The rest of the system, and time.
<1>1. ASSUME NewSession PROVE Gone'
  BY <1>1, <1>t DEF NewSession, Count
<1>2. ASSUME Pause PROVE Gone'
  BY <1>2, <1>t DEF Pause, Change, Count
<1>3. ASSUME Access PROVE Gone'
  BY <1>3, <1>t DEF Access, Count
<1>4. ASSUME Update PROVE Gone'
  BY <1>4, <1>t DEF Update, Change, Count
<1>5. ASSUME Delete PROVE Gone'
  BY <1>5, <1>t DEF Delete, Change, Count
<1>6. ASSUME DueComes PROVE Gone'
  BY <1>6, <1>t DEF DueComes, Count
<1>7. ASSUME RetryComes PROVE Gone'
  BY <1>7, <1>t DEF RetryComes, Count
\* Taking the lock, or not.
<1>8. ASSUME NEW p \in Procs, Candidate(p) PROVE Gone'
  BY <1>8, <1>t DEF Candidate, At, Count
<1>9. ASSUME NEW p \in Procs, Ask(p) PROVE Gone'
  BY <1>9, <1>t DEF Ask, At, Count
<1>10. ASSUME NEW p \in Procs, Acquire(p) PROVE Gone'
  BY <1>10, <1>t DEF Acquire, At, Count
<1>11. ASSUME NEW p \in Procs, Skip(p) PROVE Gone'
  BY <1>11, <1>t DEF Skip, At, Count
\* A backup.
<1>12. ASSUME NEW p \in Procs, Prepare(p) PROVE Gone'
  BY <1>12, <1>t DEF Prepare, At, RowThere, Count
<1>13. ASSUME NEW p \in Procs, Hook(p) PROVE Gone'
  BY <1>13, <1>t DEF Hook, At, Count
<1>14. ASSUME NEW p \in Procs, Snapshot(p) PROVE Gone'
  BY <1>14, <1>t DEF Snapshot, At, Take, Count
<1>15. ASSUME NEW p \in Procs, SnapshotRefused(p) PROVE Gone'
  BY <1>15, <1>t DEF SnapshotRefused, At, Count
<1>16. ASSUME NEW p \in Procs, Record(p) PROVE Gone'
  BY <1>16 DEF Record, RowThere
<1>17. ASSUME NEW p \in Procs, RecordRefused(p) PROVE Gone'
  BY <1>17, <1>t DEF RecordRefused, At, RowThere, Count
<1>18. ASSUME NEW p \in Procs, Discard(p) PROVE Gone'
  BY <1>18, <1>t DEF Discard, At, Drop, Count
<1>19. ASSUME NEW p \in Procs, List(p) PROVE Gone'
  BY <1>19, <1>t DEF List, At, Count
<1>20. ASSUME NEW p \in Procs, Prune(p) PROVE Gone'
  BY <1>20, <1>t DEF Prune, At, Drop, Count
<1>21. ASSUME NEW p \in Procs, Forget(p) PROVE Gone'
  <2>1. UNCHANGED ready
    BY <1>21 DEF Forget
  <2>2. CASE UNCHANGED records
    BY <2>1, <2>2 DEF Count
  <2>3. CASE Deleted(Head(task[p].doomed))
    BY <1>t, <2>1, <2>3, Removed DEF Count
  <2> QED
    BY <1>21, <2>2, <2>3, ForgetMoves
<1>22. ASSUME NEW p \in Procs, Conclude(p) PROVE Gone'
  BY <1>22, <1>t DEF Conclude, At, Count
\* A restore.
<1>23. ASSUME NEW p \in Procs, PrepareRestore(p) PROVE Gone'
  BY <1>23, <1>t DEF PrepareRestore, At, RowThere, Count
<1>24. ASSUME NEW p \in Procs, Stop(p) PROVE Gone'
  BY <1>24, <1>t DEF Stop, At, Count
<1>25. ASSUME NEW p \in Procs, RestoreRootFS(p) PROVE Gone'
  BY <1>25, <1>t DEF RestoreRootFS, At, Recover, Count
<1>26. ASSUME NEW p \in Procs, RecordRestored(p) PROVE Gone'
  BY <1>26, <1>t DEF RecordRestored, At, Recover, RowThere, Count
<1>27. ASSUME NEW p \in Procs, Resume(p) PROVE Gone'
  BY <1>27, <1>t DEF Resume, Count
<1>28. ASSUME NEW p \in Procs, Settle(p) PROVE Gone'
  BY <1>28, <1>t DEF Settle, At, Count
\* Failures.
<1>29. ASSUME NEW p \in Procs, CallFails(p) PROVE Gone'
  BY <1>29, <1>t DEF CallFails, At, Fault, Recover, Count
<1>30. ASSUME NEW p \in Procs, AnswerLost(p) PROVE Gone'
  BY <1>30 DEF AnswerLost, RowThere
<1>31. ASSUME NEW p \in Procs, LoseLock(p) PROVE Gone'
  BY <1>31, <1>t DEF LoseLock, Fault, Count
<1>32. ASSUME NEW p \in Procs, Crash(p) PROVE Gone'
  BY <1>32, <1>t DEF Crash, At, Fault, Count
<1>33. ASSUME UNCHANGED vars PROVE Gone'
  BY <1>33, <1>t DEF vars, Count
<1> QED
  BY <1>1, <1>2, <1>3, <1>4, <1>5, <1>6, <1>7, <1>8, <1>9, <1>10, <1>11, <1>12, <1>13,
       <1>14, <1>15, <1>16, <1>17, <1>18, <1>19, <1>20, <1>21, <1>22, <1>23, <1>24,
       <1>25, <1>26, <1>27, <1>28, <1>29, <1>30, <1>31, <1>32, <1>33 DEF Next, Proceed,
       Backup, Restore

\* The newest backups keep their snapshots.
LEMMA UsableStep ==
  ASSUME Bounds, TypeOK, Typed, Doomed, Unrecorded, Gone, RecordedUsable, [Next]_vars
  PROVE  RecordedUsable'
<1>t. /\ records \in Seq(Nat) /\ Count \in Nat /\ least \in Nat /\ least' \in Nat
      /\ \A p \in Procs : task[p].doomed \in Seq(Nat) /\ task[p].snap \in Nat
  BY Plain, Lasting
<1>u. ASSUME UNCHANGED records, least' <= least, DOMAIN snaps \subseteq DOMAIN snaps',
             UNCHANGED unanswered
      PROVE  RecordedUsable'
  BY <1>t, <1>u DEF RecordedUsable, Count
<1>a. ASSUME NEW id \in DOMAIN snaps \cap Nat, records' = Append(records, id),
             UNCHANGED snaps, UNCHANGED least, UNCHANGED unanswered
      PROVE  RecordedUsable'
  <2>1. /\ Count' = Count + 1 /\ records'[Count'] = id
        /\ \A i \in 1 .. Count : records'[i] = records[i]
    BY <1>t, <1>a, Added
  <2>2. \A i \in 1 .. Count' : i \in 1 .. Count \/ i = Count'
    BY <1>t, <2>1
  <2>3. ASSUME ~unanswered', NEW i \in 1 .. Count', i > Count' - least'
        PROVE  records'[i] \in DOMAIN snaps'
    <3>1. CASE i = Count'
      BY <1>a, <2>1, <3>1
    <3>2. CASE i \in 1 .. Count
      <4>1. i > Count - least /\ ~unanswered
        BY <1>t, <1>a, <2>1, <2>3, <3>2
      <4> QED
        BY <1>a, <2>1, <3>2, <4>1 DEF RecordedUsable
    <3> QED
      BY <2>2, <3>1, <3>2
  <2> QED
    BY <2>3 DEF RecordedUsable
<1>p. ASSUME NEW p \in Procs, task[p].at = "prune", Drop(Head(task[p].doomed)),
             UNCHANGED records, UNCHANGED least, UNCHANGED unanswered
      PROVE  RecordedUsable'
  <2>1. Head(task[p].doomed) = task[p].doomed[1] /\ 1 \in 1 .. Len(task[p].doomed)
    BY <1>p, <1>t, TailOf DEF Doomed
  <2>2. DOMAIN snaps' = DOMAIN snaps \ {task[p].doomed[1]}
    BY <1>p, <2>1, Dropped
  <2>3. \A i \in 1 .. Count : i > Count - least => records[i] # task[p].doomed[1]
    <3>1. task[p].doomed[1] \in Nat /\ \A i \in 1 .. Count : records[i] \in Nat
      BY <1>t, <2>1 DEF Count
    <3>2. CASE ready
      <4>1. Outdated(task[p].doomed[1])
        BY <2>1, <3>2 DEF Doomed
      <4> QED
        BY <3>1, <4>1 DEF Outdated
    <3>3. CASE ~ready
      BY <3>3 DEF Gone
    <3> QED
      BY <3>2, <3>3
  <2> QED
    BY <1>p, <2>2, <2>3 DEF RecordedUsable, Count
<1> USE DEF sandbox, policy, schedule, bounds, Changed, vars
\* The rest of the system, and time.
<1>1. ASSUME NewSession PROVE RecordedUsable'
  BY <1>1, <1>t, <1>u DEF NewSession
<1>2. ASSUME Pause PROVE RecordedUsable'
  BY <1>2, <1>t, <1>u DEF Pause
<1>3. ASSUME Access PROVE RecordedUsable'
  BY <1>3, <1>t, <1>u DEF Access
<1>4. ASSUME Update PROVE RecordedUsable'
  <2>1. least' <= least
    BY <1>4, <1>t, NumbersStep DEF Update, TypeOK, Typed, Bounds
  <2> QED
    BY <1>4, <2>1, <1>u DEF Update
<1>5. ASSUME Delete PROVE RecordedUsable'
  BY <1>5 DEF Delete, RecordedUsable, Count
<1>6. ASSUME DueComes PROVE RecordedUsable'
  BY <1>6, <1>t, <1>u DEF DueComes
<1>7. ASSUME RetryComes PROVE RecordedUsable'
  BY <1>7, <1>t, <1>u DEF RetryComes
\* Taking the lock, or not.
<1>8. ASSUME NEW p \in Procs, Candidate(p) PROVE RecordedUsable'
  BY <1>8, <1>t, <1>u DEF Candidate
<1>9. ASSUME NEW p \in Procs, Ask(p) PROVE RecordedUsable'
  BY <1>9, <1>t, <1>u DEF Ask
<1>10. ASSUME NEW p \in Procs, Acquire(p) PROVE RecordedUsable'
  BY <1>10, <1>t, <1>u DEF Acquire
<1>11. ASSUME NEW p \in Procs, Skip(p) PROVE RecordedUsable'
  BY <1>11, <1>t, <1>u DEF Skip
\* A backup.
<1>12. ASSUME NEW p \in Procs, Prepare(p) PROVE RecordedUsable'
  BY <1>12, <1>t, <1>u DEF Prepare
<1>13. ASSUME NEW p \in Procs, Hook(p) PROVE RecordedUsable'
  BY <1>13, <1>t, <1>u DEF Hook
<1>14. ASSUME NEW p \in Procs, Snapshot(p) PROVE RecordedUsable'
  BY <1>14, <1>u, <1>t, Taken DEF Snapshot
<1>15. ASSUME NEW p \in Procs, SnapshotRefused(p) PROVE RecordedUsable'
  BY <1>15, <1>t, <1>u DEF SnapshotRefused
<1>16. ASSUME NEW p \in Procs, Record(p) PROVE RecordedUsable'
  <2>1. task[p].snap \in DOMAIN snaps /\ task[p].at = "record"
    BY <1>16 DEF Record, At, Unrecorded, Fresh
  <2> QED
    BY <1>16, <1>t, <1>a, <2>1 DEF Record, Inserted
<1>17. ASSUME NEW p \in Procs, RecordRefused(p) PROVE RecordedUsable'
  BY <1>17, <1>t, <1>u DEF RecordRefused
<1>18. ASSUME NEW p \in Procs, Discard(p) PROVE RecordedUsable'
  <2>1. task[p].at = "discard" /\ UNCHANGED <<records, least, unanswered>>
    BY <1>18 DEF Discard, At
  <2>2. CASE Drop(task[p].snap)
    <3>1. DOMAIN snaps' = DOMAIN snaps \ {task[p].snap}
      BY <2>2, Dropped
    <3> QED
      BY <2>1, <3>1 DEF RecordedUsable, Unrecorded, Count
  <2>3. CASE UNCHANGED snaps
    BY <1>t, <1>u, <2>1, <2>3
  <2> QED
    BY <1>18, <2>2, <2>3 DEF Discard
<1>19. ASSUME NEW p \in Procs, List(p) PROVE RecordedUsable'
  BY <1>19, <1>t, <1>u DEF List
<1>20. ASSUME NEW p \in Procs, Prune(p) PROVE RecordedUsable'
  BY <1>20, <1>p DEF Prune, At
<1>21. ASSUME NEW p \in Procs, Forget(p) PROVE RecordedUsable'
  <2>1. UNCHANGED <<snaps, least, unanswered>> /\ task[p].at = "forget"
    BY <1>21 DEF Forget, At
  <2>2. CASE UNCHANGED records
    BY <1>t, <1>u, <2>1, <2>2
  <2>3. CASE Deleted(Head(task[p].doomed))
    <3>1. Head(task[p].doomed) = task[p].doomed[1] /\ 1 \in 1 .. Len(task[p].doomed)
      BY <1>t, <2>1, TailOf DEF Doomed
    <3>2. CASE ready
      <4>1. Outdated(Head(task[p].doomed))
        BY <3>1, <3>2 DEF Doomed
      <4> QED
        BY <1>t, <2>1, <2>2, <2>3, <4>1, OutdatedGoes DEF RecordedUsable
    <3>3. CASE ~ready
      <4>1. Count' = 0
        BY <1>t, <2>3, <3>3, Removed DEF Gone, Count
      <4> QED
        BY <4>1 DEF RecordedUsable
    <3> QED
      BY <3>2, <3>3
  <2> QED
    BY <1>21, <2>2, <2>3, ForgetMoves
<1>22. ASSUME NEW p \in Procs, Conclude(p) PROVE RecordedUsable'
  BY <1>22, <1>t, <1>u DEF Conclude
\* A restore.
<1>23. ASSUME NEW p \in Procs, PrepareRestore(p) PROVE RecordedUsable'
  BY <1>23, <1>t, <1>u DEF PrepareRestore
<1>24. ASSUME NEW p \in Procs, Stop(p) PROVE RecordedUsable'
  BY <1>24, <1>t, <1>u DEF Stop
<1>25. ASSUME NEW p \in Procs, RestoreRootFS(p) PROVE RecordedUsable'
  BY <1>25, <1>t, <1>u DEF RestoreRootFS
<1>26. ASSUME NEW p \in Procs, RecordRestored(p) PROVE RecordedUsable'
  BY <1>26, <1>t, <1>u DEF RecordRestored
<1>27. ASSUME NEW p \in Procs, Resume(p) PROVE RecordedUsable'
  BY <1>27, <1>t, <1>u DEF Resume
<1>28. ASSUME NEW p \in Procs, Settle(p) PROVE RecordedUsable'
  BY <1>28, <1>t, <1>u DEF Settle
\* Failures.
<1>29. ASSUME NEW p \in Procs, CallFails(p) PROVE RecordedUsable'
  <2>1. UNCHANGED <<records, least, unanswered>>
    BY <1>29 DEF CallFails
  <2>2. CASE UNCHANGED snaps
    BY <1>t, <1>u, <2>1, <2>2
  <2>3. CASE Take(taken + 1)
    BY <1>t, <1>u, <2>1, <2>3, Taken
  <2>4. CASE task[p].at = "prune" /\ Drop(Head(task[p].doomed))
    BY <1>p, <2>1, <2>4
  <2> QED
    BY <1>29, <2>2, <2>3, <2>4, CallFailsWrites
<1>30. ASSUME NEW p \in Procs, AnswerLost(p) PROVE RecordedUsable'
  BY <1>30 DEF AnswerLost, RecordedUsable
<1>31. ASSUME NEW p \in Procs, LoseLock(p) PROVE RecordedUsable'
  BY <1>31, <1>t, <1>u DEF LoseLock
<1>32. ASSUME NEW p \in Procs, Crash(p) PROVE RecordedUsable'
  BY <1>32, <1>t, <1>u DEF Crash
<1>33. ASSUME UNCHANGED vars PROVE RecordedUsable'
  BY <1>33, <1>t, <1>u DEF vars
<1> QED
  BY <1>1, <1>2, <1>3, <1>4, <1>5, <1>6, <1>7, <1>8, <1>9, <1>10, <1>11, <1>12, <1>13,
       <1>14, <1>15, <1>16, <1>17, <1>18, <1>19, <1>20, <1>21, <1>22, <1>23, <1>24,
       <1>25, <1>26, <1>27, <1>28, <1>29, <1>30, <1>31, <1>32, <1>33 DEF Next, Proceed,
       Backup, Restore

\* Under the lock nothing changes that the process has seen.
LEMMA SeenStep == ASSUME Bounds, Typed, Held, Placed, Seen, [Next]_vars PROVE Seen'
<1> DEFINE On(q) ==
      ~task'[q].lost =>
        /\ task'[q].job = "automatic" /\ task'[q].at \in {"hook", "snapshot", "record"}
             => due' # "future"
        /\ task'[q].job = "restore" /\ task'[q].at \in {"hook", "pause", "restore", "restored"}
             => ready' /\ \E i \in 1 .. Count' : records'[i] = task'[q].snap
<1> DEFINE Same == UNCHANGED ready /\ UNCHANGED records /\ UNCHANGED due
<1>w. ASSUME NEW p \in Procs, Alone(p), On(p),
             Same \/ (lock = p /\ task[p].at \notin {"idle", "lock"})
      PROVE  Seen'
  <2>1. ASSUME NEW q \in Procs \ {p} PROVE On(q)
    <3>1. task'[q] = task[q]
      BY <1>w DEF Alone
    <3>2. CASE Same
      BY <3>1, <3>2 DEF Seen, Count
    <3>3. CASE lock = p
      BY <3>1, <3>3 DEF Held, Beyond
    <3> QED
      BY <1>w, <3>2, <3>3
  <2> QED
    BY <1>w, <2>1 DEF Seen
<1>g. ASSUME NEW p \in Procs, NEW l, Goes(p, l), Same,
             \/ l \notin {"hook", "snapshot", "record", "pause", "restore", "restored"}
             \/ /\ l \in {"snapshot", "pause", "restore", "restored"}
                /\ task[p].at \in {"hook", "pause", "restore"}
                /\ l = "snapshot" => task[p].job # "restore" /\ task[p].at = "hook"
                /\ l # "snapshot" => task[p].job = "restore"
      PROVE  Seen'
  <2>1. On(p)
    BY <1>g DEF Goes, Seen, Count
  <2> QED
    BY <1>g, <1>w, <2>1 DEF Goes
<1>e. ASSUME NEW p \in Procs, Ends(p), Same PROVE Seen'
  <2>1. On(p)
    BY <1>e DEF Ends
  <2> QED
    BY <1>e, <1>w, <2>1 DEF Ends
<1>u. ASSUME UNCHANGED task, Same PROVE Seen'
  BY <1>u DEF Seen, Count
<1>n. lock = NoProc => \A q \in Procs : task[q].lost \/ task[q].at \in {"idle", "lock"}
  BY DEF Held, Beyond, Bounds
<1> HIDE DEF Same
<1> USE DEF sandbox, policy, schedule, bounds, Changed, vars
\* The rest of the system, and time.
<1>1. ASSUME NewSession PROVE Seen'
  BY <1>1, <1>u DEF NewSession, Same
<1>2. ASSUME Pause PROVE Seen'
  BY <1>2, <1>u DEF Pause, Same
<1>3. ASSUME Access PROVE Seen'
  BY <1>3, <1>u DEF Access, Same
<1>4. ASSUME Update PROVE Seen'
  BY <1>4, <1>n DEF Update, Seen
<1>5. ASSUME Delete PROVE Seen'
  BY <1>5, <1>n DEF Delete, Seen
<1>6. ASSUME DueComes PROVE Seen'
  BY <1>6 DEF DueComes, Seen, Count
<1>7. ASSUME RetryComes PROVE Seen'
  BY <1>7, <1>u DEF RetryComes, Same
\* Taking the lock, or not.
<1>8. ASSUME NEW p \in Procs, Candidate(p) PROVE Seen'
  <2>1. Same /\ Alone(p) /\ On(p)
    BY <1>8, CandidateMoves DEF Candidate, Same
  <2> QED
    BY <2>1, <1>w
<1>9. ASSUME NEW p \in Procs, Ask(p) PROVE Seen'
  <2>1. Same /\ Alone(p) /\ On(p)
    BY <1>9, AskMoves DEF Ask, Same
  <2> QED
    BY <2>1, <1>w
<1>10. ASSUME NEW p \in Procs, Acquire(p) PROVE Seen'
  <2>1. Same
    BY <1>10 DEF Acquire, Same
  <2> QED
    BY <1>10, <2>1, <1>g, <1>e, AcquireMoves DEF Placed
<1>11. ASSUME NEW p \in Procs, Skip(p) PROVE Seen'
  <2>1. Same
    BY <1>11 DEF Skip, Same
  <2> QED
    BY <1>11, <2>1, <1>g, <1>e, SkipMoves DEF Placed
\* A backup.
<1>12. ASSUME NEW p \in Procs, Prepare(p) PROVE Seen'
  <2>1. Same
    BY <1>12 DEF Prepare, Same
  <2>2. CASE Ends(p)
    BY <2>1, <2>2, <1>e
  <2>3. CASE ~Ends(p)
    <3>1. Alone(p) /\ On(p)
      BY <1>12, <2>1, <2>3, PrepareMoves DEF BackupDue, Same
    <3> QED
      BY <2>1, <3>1, <1>w
  <2> QED
    BY <2>2, <2>3
<1>13. ASSUME NEW p \in Procs, Hook(p) PROVE Seen'
  <2>1. Same
    BY <1>13 DEF Hook, Same
  <2> QED
    BY <1>13, <2>1, <1>g, <1>e, HookMoves DEF Placed
<1>14. ASSUME NEW p \in Procs, Snapshot(p) PROVE Seen'
  <2>1. Same
    BY <1>14 DEF Snapshot, Same
  <2>2. Alone(p) /\ On(p)
    BY <1>14, <2>1, SnapshotMoves DEF Seen, Placed, Same
  <2> QED
    BY <2>1, <2>2, <1>w
<1>15. ASSUME NEW p \in Procs, SnapshotRefused(p) PROVE Seen'
  <2>1. Same
    BY <1>15 DEF SnapshotRefused, Same
  <2> QED
    BY <1>15, <2>1, <1>g, <1>e, SnapshotRefusedMoves DEF Placed
<1>16. ASSUME NEW p \in Procs, Record(p) PROVE Seen'
  <2>1. ~task[p].lost
    BY <1>16 DEF Record, RowThere
  <2>2. lock = p /\ task[p].at \notin {"idle", "lock"}
    BY <1>16, <2>1, RecordMoves DEF Held, Beyond
  <2>3. Alone(p) /\ On(p)
    BY <1>16, RecordMoves DEF Goes
  <2> QED
    BY <2>2, <2>3, <1>w
<1>17. ASSUME NEW p \in Procs, RecordRefused(p) PROVE Seen'
  <2>1. Same
    BY <1>17 DEF RecordRefused, Same
  <2> QED
    BY <1>17, <2>1, <1>g, <1>e, RecordRefusedMoves DEF Placed
<1>18. ASSUME NEW p \in Procs, Discard(p) PROVE Seen'
  <2>1. Same
    BY <1>18 DEF Discard, Same
  <2> QED
    BY <1>18, <2>1, <1>g, <1>e, DiscardMoves DEF Placed
<1>19. ASSUME NEW p \in Procs, List(p) PROVE Seen'
  <2>1. Same
    BY <1>19 DEF List, Same
  <2>2. Alone(p) /\ task'[p].at \in {"failed", "healthy", "prune"}
    BY <1>19, ListMoves
  <2>3. On(p)
    BY <2>2
  <2> QED
    BY <2>1, <2>2, <2>3, <1>w
<1>20. ASSUME NEW p \in Procs, Prune(p) PROVE Seen'
  <2>1. Same
    BY <1>20 DEF Prune, Same
  <2> QED
    BY <1>20, <2>1, <1>g, <1>e, PruneMoves DEF Placed
<1>21. ASSUME NEW p \in Procs, Forget(p) PROVE Seen'
  <2>1. CASE Goes(p, "failed") /\ UNCHANGED records
    <3>1. Same
      BY <1>21, <2>1 DEF Forget, Same
    <3> QED
      BY <2>1, <3>1, <1>g
  <2>2. CASE ~task[p].lost /\ Alone(p) /\ task'[p].at \in {"healthy", "prune"}
    <3>1. lock = p /\ task[p].at \notin {"idle", "lock"}
      BY <1>21, <2>2, ForgetMoves DEF Held, Beyond
    <3>2. On(p)
      BY <2>2
    <3> QED
      BY <2>2, <3>1, <3>2, <1>w
  <2> QED
    BY <1>21, <2>1, <2>2, ForgetMoves
<1>22. ASSUME NEW p \in Procs, Conclude(p) PROVE Seen'
  <2>1. Same
    BY <1>22 DEF Conclude, Same
  <2> QED
    BY <1>22, <2>1, <1>g, <1>e, ConcludeMoves DEF Placed
\* A restore.
<1>23. ASSUME NEW p \in Procs, PrepareRestore(p) PROVE Seen'
  <2>1. Same
    BY <1>23 DEF PrepareRestore, Same
  <2>2. CASE Ends(p)
    BY <2>1, <2>2, <1>e
  <2>3. CASE ~Ends(p)
    <3>1. Alone(p) /\ On(p)
      BY <1>23, <2>1, <2>3, PrepareRestoreMoves DEF RowThere, Same, Count
    <3> QED
      BY <2>1, <3>1, <1>w
  <2> QED
    BY <2>2, <2>3
<1>24. ASSUME NEW p \in Procs, Stop(p) PROVE Seen'
  <2>1. Same
    BY <1>24 DEF Stop, Same
  <2> QED
    BY <1>24, <2>1, <1>g, <1>e, StopMoves DEF Placed
<1>25. ASSUME NEW p \in Procs, RestoreRootFS(p) PROVE Seen'
  <2>1. Same
    BY <1>25 DEF RestoreRootFS, Same
  <2> QED
    BY <1>25, <2>1, <1>g, <1>e, RestoreRootFSMoves DEF Placed
<1>26. ASSUME NEW p \in Procs, RecordRestored(p) PROVE Seen'
  <2>1. Same
    BY <1>26 DEF RecordRestored, Same
  <2> QED
    BY <1>26, <2>1, <1>g, <1>e, RecordRestoredMoves DEF Placed
<1>27. ASSUME NEW p \in Procs, Resume(p) PROVE Seen'
  <2>1. Same
    BY <1>27 DEF Resume, Same
  <2> QED
    BY <1>27, <2>1, <1>g, <1>e, ResumeMoves DEF Placed
<1>28. ASSUME NEW p \in Procs, Settle(p) PROVE Seen'
  <2>1. Same
    BY <1>28 DEF Settle, Same
  <2> QED
    BY <1>28, <2>1, <1>g, <1>e, SettleMoves DEF Placed
\* Failures.
<1>29. ASSUME NEW p \in Procs, CallFails(p) PROVE Seen'
  <2>1. Same
    BY <1>29 DEF CallFails, Same
  <2> QED
    BY <1>29, <2>1, <1>g, <1>e, CallFailsMoves DEF Placed
<1>30. ASSUME NEW p \in Procs, AnswerLost(p) PROVE Seen'
  <2>1. ~task[p].lost
    BY <1>30 DEF AnswerLost, RowThere
  <2>2. lock = p /\ task[p].at \notin {"idle", "lock"}
    BY <1>30, <2>1, AnswerLostMoves DEF Held, Beyond
  <2>3. Alone(p) /\ On(p)
    BY <1>30, AnswerLostMoves DEF Goes
  <2> QED
    BY <2>2, <2>3, <1>w
<1>31. ASSUME NEW p \in Procs, LoseLock(p) PROVE Seen'
  <2>1. Same /\ Alone(p) /\ On(p)
    BY <1>31, LoseLockMoves DEF LoseLock, Same
  <2> QED
    BY <2>1, <1>w
<1>32. ASSUME NEW p \in Procs, Crash(p) PROVE Seen'
  <2>1. Same
    BY <1>32 DEF Crash, Same
  <2> QED
    BY <1>32, <2>1, <1>g, <1>e, CrashMoves DEF Placed
<1>33. ASSUME UNCHANGED vars PROVE Seen'
  BY <1>33, <1>u DEF vars, Same
<1> QED
  BY <1>1, <1>2, <1>3, <1>4, <1>5, <1>6, <1>7, <1>8, <1>9, <1>10, <1>11, <1>12, <1>13,
       <1>14, <1>15, <1>16, <1>17, <1>18, <1>19, <1>20, <1>21, <1>22, <1>23, <1>24,
       <1>25, <1>26, <1>27, <1>28, <1>29, <1>30, <1>31, <1>32, <1>33 DEF Next, Proceed,
       Backup, Restore

\* The coordinates are cleared when a restore is recorded.
LEMMA CoordinatesStep ==
  ASSUME Bounds, Typed, Placed, Seen, Kept, CoordinatesRestored, [Next]_vars
  PROVE  CoordinatesRestored'
<1>t. faults \in Nat
  BY DEF Typed
<1>u. ASSUME UNCHANGED <<coordinates, rootfs, faults>>,
             \A q \in Procs : task[q].at = "restored" => task'[q].at = "restored"
      PROVE  CoordinatesRestored'
  BY <1>u DEF CoordinatesRestored, At
<1>w. ASSUME NEW p \in Procs, Alone(p), task[p].at # "restored" PROVE
        \A q \in Procs : task[q].at = "restored" => task'[q].at = "restored"
  BY <1>w DEF Alone
<1>z. coordinates' = 0 => CoordinatesRestored'
  BY DEF CoordinatesRestored
<1>f. faults' = faults + 1 => CoordinatesRestored'
  BY <1>t DEF CoordinatesRestored
<1> USE DEF sandbox, policy, schedule, bounds, Changed, vars
\* The rest of the system, and time.
<1>1. ASSUME NewSession PROVE CoordinatesRestored'
  BY <1>1 DEF NewSession, CoordinatesRestored
<1>2. ASSUME Pause PROVE CoordinatesRestored'
  BY <1>2, <1>u DEF Pause
<1>3. ASSUME Access PROVE CoordinatesRestored'
  BY <1>3, <1>u DEF Access
<1>4. ASSUME Update PROVE CoordinatesRestored'
  BY <1>4, <1>u DEF Update
<1>5. ASSUME Delete PROVE CoordinatesRestored'
  BY <1>5, <1>z DEF Delete
<1>6. ASSUME DueComes PROVE CoordinatesRestored'
  BY <1>6, <1>u DEF DueComes
<1>7. ASSUME RetryComes PROVE CoordinatesRestored'
  BY <1>7, <1>u DEF RetryComes
\* Taking the lock, or not.
<1>8. ASSUME NEW p \in Procs, Candidate(p) PROVE CoordinatesRestored'
  <2>1. Alone(p) /\ task[p].at # "restored"
    BY <1>8, CandidateMoves DEF Goes, Ends
  <2> QED
    BY <1>8, <2>1, <1>w, <1>u DEF Candidate
<1>9. ASSUME NEW p \in Procs, Ask(p) PROVE CoordinatesRestored'
  <2>1. Alone(p) /\ task[p].at # "restored"
    BY <1>9, AskMoves DEF Goes, Ends
  <2> QED
    BY <1>9, <2>1, <1>w, <1>u DEF Ask
<1>10. ASSUME NEW p \in Procs, Acquire(p) PROVE CoordinatesRestored'
  <2>1. Alone(p) /\ task[p].at # "restored"
    BY <1>10, AcquireMoves DEF Goes, Ends
  <2> QED
    BY <1>10, <2>1, <1>w, <1>u DEF Acquire
<1>11. ASSUME NEW p \in Procs, Skip(p) PROVE CoordinatesRestored'
  <2>1. Alone(p) /\ task[p].at # "restored"
    BY <1>11, SkipMoves DEF Goes, Ends
  <2> QED
    BY <1>11, <2>1, <1>w, <1>u DEF Skip
\* A backup.
<1>12. ASSUME NEW p \in Procs, Prepare(p) PROVE CoordinatesRestored'
  <2>1. Alone(p) /\ task[p].at # "restored"
    BY <1>12, PrepareMoves DEF Goes, Ends
  <2> QED
    BY <1>12, <2>1, <1>w, <1>u DEF Prepare
<1>13. ASSUME NEW p \in Procs, Hook(p) PROVE CoordinatesRestored'
  <2>1. Alone(p) /\ task[p].at # "restored"
    BY <1>13, HookMoves DEF Goes, Ends
  <2> QED
    BY <1>13, <2>1, <1>w, <1>u DEF Hook
<1>14. ASSUME NEW p \in Procs, Snapshot(p) PROVE CoordinatesRestored'
  <2>1. Alone(p) /\ task[p].at # "restored"
    BY <1>14, SnapshotMoves DEF Goes, Ends
  <2> QED
    BY <1>14, <2>1, <1>w, <1>u DEF Snapshot
<1>15. ASSUME NEW p \in Procs, SnapshotRefused(p) PROVE CoordinatesRestored'
  <2>1. Alone(p) /\ task[p].at # "restored"
    BY <1>15, SnapshotRefusedMoves DEF Goes, Ends
  <2> QED
    BY <1>15, <2>1, <1>w, <1>u DEF SnapshotRefused
<1>16. ASSUME NEW p \in Procs, Record(p) PROVE CoordinatesRestored'
  <2>1. Alone(p) /\ task[p].at # "restored"
    BY <1>16, RecordMoves DEF Goes, Ends
  <2> QED
    BY <1>16, <2>1, <1>w, <1>u DEF Record
<1>17. ASSUME NEW p \in Procs, RecordRefused(p) PROVE CoordinatesRestored'
  <2>1. Alone(p) /\ task[p].at # "restored"
    BY <1>17, RecordRefusedMoves DEF Goes, Ends
  <2> QED
    BY <1>17, <2>1, <1>w, <1>u DEF RecordRefused
<1>18. ASSUME NEW p \in Procs, Discard(p) PROVE CoordinatesRestored'
  <2>1. Alone(p) /\ task[p].at # "restored"
    BY <1>18, DiscardMoves DEF Goes, Ends
  <2> QED
    BY <1>18, <2>1, <1>w, <1>u DEF Discard
<1>19. ASSUME NEW p \in Procs, List(p) PROVE CoordinatesRestored'
  <2>1. Alone(p) /\ task[p].at # "restored"
    BY <1>19, ListMoves DEF Goes, Ends
  <2> QED
    BY <1>19, <2>1, <1>w, <1>u DEF List
<1>20. ASSUME NEW p \in Procs, Prune(p) PROVE CoordinatesRestored'
  <2>1. Alone(p) /\ task[p].at # "restored"
    BY <1>20, PruneMoves DEF Goes, Ends
  <2> QED
    BY <1>20, <2>1, <1>w, <1>u DEF Prune
<1>21. ASSUME NEW p \in Procs, Forget(p) PROVE CoordinatesRestored'
  <2>1. Alone(p) /\ task[p].at # "restored"
    BY <1>21, ForgetMoves DEF Goes, Ends
  <2> QED
    BY <1>21, <2>1, <1>w, <1>u DEF Forget
<1>22. ASSUME NEW p \in Procs, Conclude(p) PROVE CoordinatesRestored'
  <2>1. Alone(p) /\ task[p].at # "restored"
    BY <1>22, ConcludeMoves DEF Goes, Ends
  <2> QED
    BY <1>22, <2>1, <1>w, <1>u DEF Conclude
\* A restore.
<1>23. ASSUME NEW p \in Procs, PrepareRestore(p) PROVE CoordinatesRestored'
  <2>1. Alone(p) /\ task[p].at # "restored"
    BY <1>23, PrepareRestoreMoves DEF Goes, Ends
  <2> QED
    BY <1>23, <2>1, <1>w, <1>u DEF PrepareRestore
<1>24. ASSUME NEW p \in Procs, Stop(p) PROVE CoordinatesRestored'
  <2>1. Alone(p) /\ task[p].at # "restored"
    BY <1>24, StopMoves DEF Goes, Ends
  <2> QED
    BY <1>24, <2>1, <1>w, <1>u DEF Stop
<1>25. ASSUME NEW p \in Procs, RestoreRootFS(p) PROVE CoordinatesRestored'
  <2>1. UNCHANGED <<coordinates, faults>> /\ task[p].at = "restore"
    BY <1>25 DEF RestoreRootFS, At
  <2>2. CASE Goes(p, "restored")
    BY <2>2 DEF Goes, CoordinatesRestored, At
  <2>3. CASE UNCHANGED rootfs /\ (Goes(p, "recover") \/ Ends(p))
    BY <2>1, <2>3, <1>w, <1>u DEF Goes, Ends
  <2> QED
    BY <1>25, <2>2, <2>3, RestoreRootFSMoves
<1>26. ASSUME NEW p \in Procs, RecordRestored(p) PROVE CoordinatesRestored'
  <2>1. UNCHANGED <<rootfs, faults>> /\ task[p].at = "restored"
    BY <1>26 DEF RecordRestored, At
  <2>2. CASE coordinates' = 0
    BY <2>2, <1>z
  <2>3. CASE ~(RowThere(p) /\ \E i \in 1 .. Count : records[i] = task[p].snap)
    <3>1. faults # 0
      BY <2>1, <2>3 DEF RowThere, Kept, Seen, Placed
    <3> QED
      BY <2>1, <3>1 DEF CoordinatesRestored
  <2> QED
    BY <1>26, <2>2, <2>3, RecordRestoredMoves
<1>27. ASSUME NEW p \in Procs, Resume(p) PROVE CoordinatesRestored'
  <2>1. Alone(p) /\ task[p].at # "restored"
    BY <1>27, ResumeMoves DEF Goes, Ends
  <2> QED
    BY <1>27, <2>1, <1>w, <1>u DEF Resume
<1>28. ASSUME NEW p \in Procs, Settle(p) PROVE CoordinatesRestored'
  <2>1. Alone(p) /\ task[p].at # "restored"
    BY <1>28, SettleMoves DEF Goes, Ends
  <2> QED
    BY <1>28, <2>1, <1>w, <1>u DEF Settle
\* Failures.
<1>29. ASSUME NEW p \in Procs, CallFails(p) PROVE CoordinatesRestored'
  BY <1>29, <1>f DEF CallFails, Fault
<1>30. ASSUME NEW p \in Procs, AnswerLost(p) PROVE CoordinatesRestored'
  BY <1>30, <1>f DEF AnswerLost, Fault
<1>31. ASSUME NEW p \in Procs, LoseLock(p) PROVE CoordinatesRestored'
  BY <1>31, <1>f DEF LoseLock, Fault
<1>32. ASSUME NEW p \in Procs, Crash(p) PROVE CoordinatesRestored'
  BY <1>32, <1>f DEF Crash, Fault
<1>33. ASSUME UNCHANGED vars PROVE CoordinatesRestored'
  BY <1>33, <1>u DEF vars
<1> QED
  BY <1>1, <1>2, <1>3, <1>4, <1>5, <1>6, <1>7, <1>8, <1>9, <1>10, <1>11, <1>12, <1>13,
       <1>14, <1>15, <1>16, <1>17, <1>18, <1>19, <1>20, <1>21, <1>22, <1>23, <1>24,
       <1>25, <1>26, <1>27, <1>28, <1>29, <1>30, <1>31, <1>32, <1>33 DEF Next, Proceed,
       Backup, Restore

-----------------------------------------------------------------------------
\* Replicas, users and failures in any number and any order keep the invariant.
LEMMA InitInductive == ASSUME Bounds, Init PROVE Inductive
<1>1. Count = 0 /\ records \in Seq(Nat) /\ DOMAIN snaps = {}
  BY DEF Init, Count
<1>2. \A p \in Procs : /\ task[p] = Idle /\ task[p].at = "idle" /\ task[p].job = "none"
                       /\ task[p].doomed = <<>> /\ task[p].lost = FALSE
  BY DEF Init, Idle
<1>3. TypeOK
  <2>1. /\ ready \in BOOLEAN /\ up \in BOOLEAN /\ unanswered \in BOOLEAN /\ every \in BOOLEAN
        /\ desired \in {"running", "paused"} /\ lock \in Procs \cup {NoProc}
        /\ due \in {"none", "future", "past"} /\ retry \in {"none", "future", "past"}
    BY DEF Init
  <2>2. /\ rootfs \subseteq 1 .. MaxSessions /\ coordinates \in 0 .. MaxSessions
        /\ DOMAIN snaps \subseteq Ids /\ retain \in 1 .. MaxRetain
    BY <1>1 DEF Init, Bounds
  <2>3. /\ \A i, j \in 1 .. Count : i < j => records[i] < records[j]
        /\ \A i \in 1 .. Count : records[i] \in 1 .. taken
    BY <1>1
  <2> QED
    BY <1>2, <2>1, <2>2, <2>3 DEF TypeOK
<1>4. Typed
  <2>1. Idle \in Tasks
    <3>1. "idle" \in Labels /\ "none" \in Jobs \cup {"none"} /\ <<>> \in Seq(Nat)
      BY DEF Labels
    <3> QED
      BY <3>1 DEF Idle, Tasks
  <2> QED
    BY <1>1, <2>1 DEF Init, Typed, Bounds
<1>5. Held
  BY <1>2 DEF Init, Held, Beyond, Bounds
<1>6. Placed /\ Seen /\ Kept
  BY <1>2 DEF Placed, Seen, Kept
<1>7. Unrecorded
  BY <1>2 DEF Unrecorded
<1>8. Doomed
  <2>1. \A p \in Procs : 1 .. Len(task[p].doomed) = {}
    BY <1>2
  <2> QED
    BY <1>2, <2>1 DEF Doomed
<1>9. Gone /\ RecordedUsable /\ CoordinatesRestored
  BY <1>1 DEF Init, Gone, RecordedUsable, CoordinatesRestored
<1> QED
  BY <1>3, <1>4, <1>5, <1>6, <1>7, <1>8, <1>9 DEF Inductive

LEMMA NextInductive == ASSUME Bounds, Inductive, [Next]_vars PROVE Inductive'
<1>1. /\ TypeOK /\ Typed /\ Held /\ Placed /\ Unrecorded /\ Doomed /\ Gone /\ Seen /\ Kept
      /\ RecordedUsable /\ CoordinatesRestored
  BY DEF Inductive
<1>2. TypeOK'
  BY <1>1, FlagsStep, NumbersStep, SnapsStep, OrderStep, IdleStep DEF TypeOK, Ids
<1>3. Typed'
  BY <1>1, TaskStep, RecordsStep, SnapsStep, NumbersStep DEF Typed
<1>4. Held' /\ Placed' /\ Kept' /\ Gone'
  BY <1>1, HeldStep, PlacedStep, KeptStep, GoneStep
<1>5. Unrecorded' /\ Doomed' /\ RecordedUsable'
  BY <1>1, UnrecordedStep, DoomedStep, UsableStep
<1>6. Seen' /\ CoordinatesRestored'
  BY <1>1, SeenStep, CoordinatesStep
<1> QED
  BY <1>2, <1>3, <1>4, <1>5, <1>6 DEF Inductive

\* THE INVARIANT.  Every reachable state satisfies every conjunct.
THEOREM InductiveHolds == ASSUME Bounds PROVE Spec => []Inductive
<1>1. Init => Inductive
  BY InitInductive
<1>2. Inductive /\ [Next]_vars => Inductive'
  BY NextInductive
<1> QED
  BY <1>1, <1>2, PTL DEF Spec

\* The records, the leases, the Sandboxes and the tasks keep their types.
THEOREM TypeCorrect == ASSUME Bounds PROVE Spec => []TypeOK
<1>1. Inductive => TypeOK
  BY DEF Inductive
<1> QED
  BY InductiveHolds, <1>1, PTL

\* RecordedUsable: whatever passes, requests, lost locks and crashes interleave, the
\* newest backups, as many as the smallest retention so far, have their snapshots,
\* unless the answer to a commit has been lost.
THEOREM RecordedStayUsable == ASSUME Bounds PROVE Spec => []RecordedUsable
<1>1. Inductive => RecordedUsable
  BY DEF Inductive
<1> QED
  BY <1>1, InductiveHolds, PTL

\* CoordinatesRestored: without a failure the session an Environment would resume is
\* in its root file system, except between a restore and its record.
THEOREM CoordinatesExist == ASSUME Bounds PROVE Spec => []CoordinatesRestored
<1>1. Inductive => CoordinatesRestored
  BY DEF Inductive
<1> QED
  BY <1>1, InductiveHolds, PTL

\* OneBackupPerDue: without a failure an automatic backup is recorded only while it is
\* due, whatever other replicas saw it due.
THEOREM OneBackup == ASSUME Bounds PROVE Spec => OneBackupPerDue
<1>1. Inductive /\ [Next]_vars
      => [\A p \in Procs : Record(p) /\ task[p].job = "automatic" /\ faults = 0
            => due # "future"]_vars
  <2>1. ASSUME Inductive, NEW p \in Procs, Record(p), task[p].job = "automatic", faults = 0
        PROVE  due # "future"
    BY <2>1 DEF Inductive, Kept, Seen, Record, At
  <2> QED
    BY <2>1
<1> QED
  BY <1>1, InductiveHolds, PTL DEF Spec, OneBackupPerDue

=============================================================================
