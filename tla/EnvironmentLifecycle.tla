------------------------ MODULE EnvironmentLifecycle ------------------------
(***************************************************************************)
(* One Environment of Sandpi: its PostgreSQL row, its Sandbox at Sandbox0, *)
(* and the processes of every server replica that provision, pause,        *)
(* restart, use, repair and delete it under one PostgreSQL advisory lock.  *)
(*                                                                         *)
(* The lock is a session lock of one connection.  The callback that holds  *)
(* it writes the row through that same connection (onClient), so a process *)
(* that loses the connection loses both the lock and its row writes, while *)
(* the Sandbox0 call it has in flight may still land.  A process that dies *)
(* leaves its call in flight too: strays holds the abandoned calls.        *)
(*                                                                         *)
(* Simplifications.  Deadlines are abstracted to none / future / past.     *)
(* Claiming a Sandbox yields a running one.  Quota answers are free        *)
(* choices.  lifecycle_error, version counters and the one-minute backoffs *)
(* they drive are left out: a background pass may run at any time.         *)
(* requests and faults only bound the exploration.                         *)
(***************************************************************************)
EXTENDS Naturals, FiniteSets

CONSTANTS
  Procs,        \* request handlers and reconcilers, of all replicas
  Sandboxes,    \* identities Sandbox0 can give to Sandboxes
  NoSandbox,    \* sandbox_id IS NULL
  NoProc,       \* nobody
  Ops,          \* the operations this instance explores
  MaxRequests,  \* bound on user requests
  MaxFaults     \* bound on crashes, lost connections and failed calls

ExclusiveOps == {"idle", "quota", "manual", "restart", "retire", "policy",
                 "update", "provision", "delete", "remove", "repair"}
SharedOps    == {"access", "readmit"}
UserOps      == {"manual", "restart", "update", "delete", "access", "reprovision"}
Background   == {"idle", "quota", "retire", "policy", "provision"}

ASSUME OpsAssumption ==
  /\ Ops \subseteq UserOps \cup Background
  /\ NoSandbox \notin Sandboxes
  /\ NoProc \notin Procs

ASSUME BoundsAssumption == MaxRequests \in Nat /\ MaxFaults \in Nat

VARIABLES
  status,     \* environments.status, "gone" once the row is deleted
  desired,    \* environment_runtime.desired_state
  sandbox,    \* environment_runtime.sandbox_id
  pause,      \* pause_reason while paused_at is set, else "none"
  due,        \* idle_pause_due_at
  idleOn,     \* idle_pause_timeout_seconds > 0
  supervisor, \* supervisor_session_id IS NOT NULL, a v1 leftover
  policy,     \* lifecycle_policy_version is the current one
  sb,         \* the state of each Sandbox at Sandbox0
  waker,      \* what last made each Sandbox running
  strays,     \* calls in flight whose caller no longer waits
  terminals,  \* Sandboxes with an open Agent terminal connection
  lockX,      \* holder of the exclusive advisory lock
  lockS,      \* holders of the shared advisory lock
  pc, op,     \* where each process is, and in which operation
  rt,         \* sandbox_id of the row copy each process works from
  sent,       \* its Sandbox0 mutation has been sent and not yet landed
  requests, faults

row   == <<status, desired, sandbox, pause, due, idleOn, supervisor, policy>>
cloud == <<sb, waker, strays, terminals>>
locks == <<lockX, lockS>>
local == <<op, rt, sent>>
bounds == <<requests, faults>>
vars  == <<row, cloud, locks, pc, local, bounds>>

Labels == {"free", "acquire", "locked", "intend", "stop", "stopPaused", "hook", "pause", "pausing",
           "recordPaused", "resume", "resuming", "recordAccess", "retired",
           "policed", "failing", "operating", "repairing", "portal",
           "claiming", "publish", "await", "markReady", "cleanup", "clear",
           "markFailed", "beforeDelete", "deleting", "afterDelete",
           "removeRow", "deleteFailed", "restatus", "reintend"}

\* What can make a Sandbox run, besides Sandbox0 itself.
Wakers == {"claim", "hook", "restart", "access", "repair", "retire",
           "sync", "stray"}

TypeOK ==
  /\ status \in {"updating", "ready", "error", "gone"}
  /\ desired \in {"running", "paused", "terminated"}
  /\ sandbox \in Sandboxes \cup {NoSandbox}
  /\ pause \in {"none", "idle", "quota", "manual"}
  /\ due \in {"none", "future", "past"}
  /\ idleOn \in BOOLEAN /\ supervisor \in BOOLEAN /\ policy \in BOOLEAN
  /\ sb \in [Sandboxes -> {"absent", "running", "paused", "deleted"}]
  /\ waker \in [Sandboxes -> Wakers]
  /\ strays \subseteq ({"pause", "resume", "delete"} \X Sandboxes)
  /\ terminals \subseteq Sandboxes
  /\ lockX \in Procs \cup {NoProc}
  /\ lockS \subseteq Procs
  /\ pc \in [Procs -> Labels]
  /\ op \in [Procs -> ExclusiveOps \cup SharedOps \cup {"reprovision", "none"}]
  /\ rt \in [Procs -> Sandboxes \cup {NoSandbox}]
  /\ sent \in [Procs -> BOOLEAN]
  /\ requests \in Nat /\ faults \in Nat
-----------------------------------------------------------------------------
(* A created row waits for its first Sandbox; an established one, possibly *)
(* migrated from v1, has one running.                                      *)
Init ==
  /\ \E s \in Sandboxes : \E created \in BOOLEAN :
       /\ status = IF created THEN "updating" ELSE "ready"
       /\ sandbox = IF created THEN NoSandbox ELSE s
       /\ sb = [x \in Sandboxes |-> IF x = sandbox THEN "running" ELSE "absent"]
       /\ idleOn \in BOOLEAN
       /\ due = IF created \/ ~idleOn THEN "none" ELSE "future"
       /\ supervisor \in IF created THEN {FALSE} ELSE BOOLEAN
       /\ policy \in IF created THEN {FALSE} ELSE BOOLEAN
  /\ desired = "running" /\ pause = "none"
  /\ waker = [x \in Sandboxes |-> "claim"] /\ strays = {} /\ terminals = {}
  /\ lockX = NoProc /\ lockS = {}
  /\ pc = [p \in Procs |-> "free"] /\ op = [p \in Procs |-> "none"]
  /\ rt = [p \in Procs |-> NoSandbox] /\ sent = [p \in Procs |-> FALSE]
  /\ requests = 0 /\ faults = 0

Goto(p, l) == pc' = [pc EXCEPT ![p] = l]
Release(p) ==
  /\ lockX' = IF lockX = p THEN NoProc ELSE lockX
  /\ lockS' = lockS \ {p}
\* The callback returns or throws: its connection goes back to the pool.
Finish(p) ==
  /\ Goto(p, "free") /\ Release(p)
  /\ op' = [op EXCEPT ![p] = "none"]
  /\ rt' = [rt EXCEPT ![p] = NoSandbox]
  /\ sent' = [sent EXCEPT ![p] = FALSE]

Holds(p) == lockX = p \/ p \in lockS
Faulty   == faults < MaxFaults /\ faults' = faults + 1 /\ UNCHANGED requests
\* A call that wakes a Sandbox counts for its caller only under the lock.
By(p, cause) == IF Holds(p) THEN cause ELSE "stray"
Wake(s, cause) ==
  /\ s \in Sandboxes /\ sb[s] \in {"running", "paused"}
  /\ sb' = [sb EXCEPT ![s] = "running"]
  /\ waker' = IF sb[s] = "paused" THEN [waker EXCEPT ![s] = cause] ELSE waker
  /\ UNCHANGED <<strays, terminals>>

-----------------------------------------------------------------------------
(* The conditions the properties rest on.  Beside each, a mistake that the *)
(* properties must notice when it takes the condition's place.             *)

SharedIgnored == lockX = NoProc
ExclusiveFree == lockX = NoProc /\ lockS = {}

ExclusiveIgnored == TRUE
SharedFree == lockX = NoProc

ProvisionAgain == status \in {"updating", "error"}
NeedsSandbox == status \in {"updating", "error"} /\ sandbox = NoSandbox

\* An idle pause that a crash has left requested is still wanted.
StillRunning == desired = "running"
WantsIdlePause == desired \in {"running", "paused"}

\* The deadline after an access, a claim or a touch.
WindowOfZero == IF idleOn THEN "future" ELSE "now"
WindowKept == due
Window == IF idleOn THEN "future" ELSE "none"

\* The reason of the interval: the first pause to complete has named it.
LastReason(o) == IF o = "quota" THEN "quota"
                 ELSE IF o \in {"manual", "restart"} THEN "manual" ELSE "idle"
Reason(o) == IF pause # "none" THEN pause ELSE LastReason(o)

\* Retirement restores a requested pause.
NothingToRestore == FALSE
RestoresPause == desired = "paused"

-----------------------------------------------------------------------------
(* Starting an operation: the check made before any lock, then one try.    *)

\* What the candidate queries and the handlers ask of the row beforehand.
Candidate(o) ==
  CASE o = "idle"        -> /\ status = "ready" /\ idleOn /\ sandbox # NoSandbox
                            /\ due = "past" /\ WantsIdlePause /\ pause = "none"
    [] o = "quota"       -> status # "gone"
    [] o = "retire"      -> /\ status = "ready" /\ sandbox # NoSandbox
                            /\ supervisor /\ desired # "terminated"
    [] o = "policy"      -> status = "ready" /\ sandbox # NoSandbox /\ ~policy
    [] o = "provision"   -> NeedsSandbox
    [] o = "delete"      -> status \notin {"updating", "gone"}
    [] o = "reprovision" -> status \notin {"ready", "gone"}
    [] OTHER             -> status # "gone"

Start(p, o) ==
  /\ pc[p] = "free" /\ o \in Ops /\ Candidate(o)
  /\ o \in UserOps => requests < MaxRequests
  /\ requests' = requests + (IF o \in UserOps THEN 1 ELSE 0)
  /\ Goto(p, IF o = "reprovision" THEN "restatus" ELSE "acquire")
  /\ op' = [op EXCEPT ![p] = o]
  /\ UNCHANGED <<row, cloud, locks, rt, sent, faults>>

AcquireX(p) ==
  /\ pc[p] = "acquire" /\ op[p] \in ExclusiveOps
  /\ ExclusiveFree
  /\ lockX' = p /\ Goto(p, "locked")
  /\ UNCHANGED <<row, cloud, lockS, local, bounds>>

AcquireS(p) ==
  /\ pc[p] = "acquire" /\ op[p] \in SharedOps
  /\ SharedFree
  /\ lockS' = lockS \cup {p} /\ Goto(p, "locked")
  /\ UNCHANGED <<row, cloud, lockX, local, bounds>>

\* A background pass skips a busy Environment, a request gives up in time.
GiveUp(p) ==
  /\ pc[p] = "acquire"
  /\ lockX # NoProc \/ lockS # {}
  /\ Finish(p)
  /\ UNCHANGED <<row, cloud, bounds>>

-----------------------------------------------------------------------------
(* Idle, quota and manual pause, and restart.                              *)

MayPauseAnyway(o) ==
  CASE o = "idle"  -> idleOn /\ sandbox # NoSandbox /\ due = "past" /\ pause = "none"
    [] o = "quota" -> sandbox # NoSandbox /\ pause = "none"
    [] OTHER       -> sandbox # NoSandbox
MayPause(o) ==
  CASE o = "idle"  -> /\ idleOn /\ sandbox # NoSandbox /\ due = "past"
                      /\ WantsIdlePause /\ pause = "none"
    [] o = "quota" -> /\ sandbox # NoSandbox /\ desired # "terminated"
                      /\ pause = "none"
    [] OTHER       -> sandbox # NoSandbox /\ desired # "terminated"

\* What a user asks for reads the row first and writes it in a second statement;
\* a retry, which takes no lock, may come between the two.
CheckReady(p) ==
  /\ pc[p] = "locked" /\ op[p] \in {"manual", "restart"} /\ Holds(p)
  /\ status = "ready" /\ sandbox # NoSandbox
  /\ Goto(p, "intend")
  /\ UNCHANGED <<row, cloud, locks, local, bounds>>

PreparePause(p) ==
  /\ pc[p] = IF op[p] \in {"idle", "quota"} THEN "locked" ELSE "intend"
  /\ op[p] \in {"idle", "quota", "manual", "restart"}
  /\ Holds(p) /\ MayPause(op[p])
  /\ desired' = "paused"
  /\ rt' = [rt EXCEPT ![p] = sandbox] /\ Goto(p, "hook")
  /\ UNCHANGED <<status, sandbox, pause, due, idleOn, supervisor, policy,
                 cloud, locks, op, sent, bounds>>

\* The recheck fails, or the quota gate answers otherwise under the lock.
SkipPause(p) ==
  /\ \/ pc[p] = "locked" /\ op[p] \in {"idle", "quota"} /\ ~MayPause(op[p])
     \/ pc[p] = "locked" /\ op[p] \in {"quota", "restart"}
     \/ pc[p] = "locked" /\ op[p] = "manual" /\ (status # "ready" \/ sandbox = NoSandbox)
     \/ pc[p] = "intend" /\ op[p] \in {"manual", "restart"} /\ ~MayPause(op[p])
  /\ Finish(p)
  /\ UNCHANGED <<row, cloud, bounds>>

\* beforePause reads and seals Agent state inside the Sandbox.  If there is any,
\* that is a Workspace access, which wakes a paused Sandbox.
BeforePause(p) ==
  /\ pc[p] = "hook"
  /\ Wake(rt[p], By(p, "hook")) \/ UNCHANGED cloud
  /\ Goto(p, "pause")
  /\ UNCHANGED <<row, locks, local, bounds>>

BeforePauseFails(p) ==
  /\ pc[p] = "hook" /\ Faulty
  /\ Wake(rt[p], By(p, "hook")) \/ UNCHANGED cloud
  /\ Goto(p, "failing")
  /\ UNCHANGED <<row, locks, local>>

\* pauseEnvironment: nothing to do for a paused Sandbox, else one call.
SendPause(p) ==
  /\ pc[p] = "pause" /\ rt[p] \in Sandboxes
  /\ \/ /\ sb[rt[p]] = "paused" /\ Goto(p, "recordPaused") /\ UNCHANGED sent
     \/ /\ sb[rt[p]] = "running" /\ Goto(p, "pausing")
        /\ sent' = [sent EXCEPT ![p] = TRUE]
  /\ UNCHANGED <<row, cloud, locks, op, rt, bounds>>

PauseLands(p) ==
  /\ pc[p] = "pausing" /\ sent[p] /\ sb[rt[p]] = "running"
  /\ sb' = [sb EXCEPT ![rt[p]] = "paused"]
  /\ sent' = [sent EXCEPT ![p] = FALSE]
  /\ UNCHANGED <<row, waker, strays, terminals, locks, pc, op, rt, bounds>>

PauseSeen(p) ==
  /\ pc[p] = "pausing" /\ sb[rt[p]] = "paused"
  /\ Goto(p, "recordPaused") /\ sent' = [sent EXCEPT ![p] = FALSE]
  /\ UNCHANGED <<row, cloud, locks, op, rt, bounds>>

\* recordEnvironmentPaused: matched by sandbox_id, whatever else changed.
RecordPaused(p) ==
  /\ pc[p] = "recordPaused" /\ Holds(p)
  /\ IF sandbox = rt[p]
       THEN desired' = "paused" /\ due' = "none" /\ pause' = Reason(op[p])
       ELSE UNCHANGED <<desired, due, pause>>
  /\ CASE op[p] = "restart" -> Goto(p, "resume") /\ UNCHANGED <<locks, local>>
       [] op[p] = "retire"  -> Goto(p, "retired") /\ UNCHANGED <<locks, local>>
       [] OTHER             -> Finish(p)
  /\ UNCHANGED <<status, sandbox, idleOn, supervisor, policy, cloud, bounds>>

SendResume(p) ==
  /\ pc[p] = "resume"
  /\ \/ /\ sb[rt[p]] = "running" /\ Goto(p, "recordAccess") /\ UNCHANGED sent
     \/ /\ sb[rt[p]] = "paused" /\ Goto(p, "resuming")
        /\ sent' = [sent EXCEPT ![p] = TRUE]
  /\ UNCHANGED <<row, cloud, locks, op, rt, bounds>>

ResumeLands(p) ==
  /\ pc[p] = "resuming" /\ sent[p] /\ Wake(rt[p], By(p, "restart"))
  /\ sent' = [sent EXCEPT ![p] = FALSE]
  /\ UNCHANGED <<row, locks, pc, op, rt, bounds>>

ResumeSeen(p) ==
  /\ pc[p] = "resuming" /\ sb[rt[p]] = "running"
  /\ Goto(p, "recordAccess") /\ sent' = [sent EXCEPT ![p] = FALSE]
  /\ UNCHANGED <<row, cloud, locks, op, rt, bounds>>

\* recordEnvironmentRuntimeAccess: a fresh idle window, unless terminated.
RecordAccess(p) ==
  /\ pc[p] = "recordAccess" /\ Holds(p)
  /\ IF desired # "terminated" /\ status # "gone"
       THEN /\ desired' = "running" /\ pause' = "none"
            /\ due' = Window
       ELSE UNCHANGED <<desired, pause, due>>
  /\ Finish(p)
  /\ UNCHANGED <<status, sandbox, idleOn, supervisor, policy, cloud, bounds>>

\* The Sandbox0 call fails or times out.  Rejected, it never happens;
\* ambiguous, it may still land later.
CallFails(p) ==
  /\ pc[p] \in {"pausing", "resuming"} /\ Faulty
  /\ \/ UNCHANGED strays
     \/ /\ sent[p]
        /\ strays' = strays \cup
             {<<IF pc[p] = "pausing" THEN "pause" ELSE "resume", rt[p]>>}
  /\ Goto(p, "failing") /\ sent' = [sent EXCEPT ![p] = FALSE]
  /\ UNCHANGED <<row, sb, waker, terminals, locks, op, rt>>

\* The call has landed and something else has undone it: the wait for the
\* wanted state (confirmAmbiguousLifecycleMutation) ends at its timeout.
WaitTimesOut(p) ==
  /\ ~sent[p]
  /\ \/ pc[p] = "pausing" /\ sb[rt[p]] = "running"
     \/ pc[p] = "resuming" /\ sb[rt[p]] = "paused"
  /\ Goto(p, "failing")
  /\ UNCHANGED <<row, cloud, locks, local, bounds>>

\* The Sandbox is gone: every call about it fails.
SandboxMissing(p) ==
  /\ rt[p] \in Sandboxes /\ sb[rt[p]] = "deleted"
  /\ \/ /\ pc[p] \in {"hook", "pause", "pausing", "resume", "resuming"}
        /\ Goto(p, "failing") /\ sent' = [sent EXCEPT ![p] = FALSE]
        /\ UNCHANGED <<locks, op, rt>>
     \/ pc[p] \in {"operating", "repairing", "portal"} /\ Finish(p)
  /\ UNCHANGED <<row, cloud, bounds>>

RecordFailure(p) ==
  /\ pc[p] = "failing" /\ Holds(p)
  /\ CASE sandbox # rt[p] -> UNCHANGED <<desired, due>>
       [] sandbox = rt[p] /\ op[p] = "idle" ->
            desired' = "paused" /\ due' = "future"
       [] sandbox = rt[p] /\ op[p] = "quota" ->
            /\ desired' = IF pause = "none" THEN "paused" ELSE desired
            /\ UNCHANGED due
       [] sandbox = rt[p] /\ op[p] \in {"manual", "restart"} ->
            /\ desired' = CASE desired = "terminated" -> desired
                            [] desired # "terminated" /\ pause = "none" -> "running"
                            [] OTHER -> "paused"
            /\ UNCHANGED due
       [] OTHER -> UNCHANGED <<desired, due>>
  /\ Finish(p)
  /\ UNCHANGED <<status, sandbox, pause, idleOn, supervisor, policy, cloud, bounds>>
-----------------------------------------------------------------------------
(* The other passes under the exclusive lock: retiring a v1 supervisor,    *)
(* applying the lifecycle policy, and a user's update of the settings.     *)

PrepareRetire(p) ==
  /\ pc[p] = "locked" /\ op[p] = "retire" /\ Holds(p)
  /\ IF sandbox # NoSandbox /\ supervisor /\ desired # "terminated"
       THEN /\ rt' = [rt EXCEPT ![p] = sandbox] /\ UNCHANGED <<op, sent, locks>>
            \* the row copy says whether a pause must be restored
            /\ Goto(p, IF RestoresPause THEN "stopPaused" ELSE "stop")
       ELSE Finish(p)
  /\ UNCHANGED <<row, cloud, bounds>>

\* Stopping the supervisor session may wake the Sandbox that runs it.
StopSupervisor(p) ==
  /\ pc[p] \in {"stop", "stopPaused"}
  /\ Wake(rt[p], By(p, "retire")) \/ UNCHANGED cloud
  /\ Goto(p, IF pc[p] = "stopPaused" THEN "hook" ELSE "retired")
  /\ UNCHANGED <<row, locks, local, bounds>>

StopSupervisorFails(p) ==
  /\ pc[p] \in {"stop", "stopPaused"} /\ Faulty
  /\ Wake(rt[p], By(p, "retire")) \/ UNCHANGED cloud
  /\ Goto(p, "failing")
  /\ UNCHANGED <<row, locks, local>>

RecordRetired(p) ==
  /\ pc[p] = "retired" /\ Holds(p)
  /\ supervisor' = (supervisor /\ sandbox # rt[p])
  /\ Finish(p)
  /\ UNCHANGED <<status, desired, sandbox, pause, due, idleOn, policy,
                 cloud, bounds>>

\* Reading the row and calling Sandbox0 leave the modelled state alone.
ApplyPolicy(p) ==
  /\ pc[p] = "locked" /\ op[p] = "policy" /\ Holds(p)
  /\ IF sandbox # NoSandbox /\ ~policy
       THEN /\ rt' = [rt EXCEPT ![p] = sandbox] /\ UNCHANGED <<op, sent, locks>>
            /\ \/ Goto(p, "policed") /\ UNCHANGED faults
               \/ Goto(p, "failing") /\ Faulty
       ELSE Finish(p) /\ UNCHANGED faults
  /\ UNCHANGED <<row, cloud, requests>>

RecordPolicy(p) ==
  /\ pc[p] = "policed" /\ Holds(p)
  /\ policy' = (policy \/ sandbox = rt[p])
  /\ Finish(p)
  /\ UNCHANGED <<status, desired, sandbox, pause, due, idleOn, supervisor,
                 cloud, bounds>>

\* Only the idle timeout touches the lifecycle; the same timeout, a refused
\* memory size or a failed Sandbox0 edit leaves the row as it is.
Update(p) ==
  /\ pc[p] = "locked" /\ op[p] = "update" /\ Holds(p)
  /\ \/ /\ status # "gone" /\ idleOn' \in BOOLEAN
        /\ due' = IF ~idleOn' THEN "none"
                   ELSE IF desired = "running" THEN "future" ELSE due
     \/ UNCHANGED <<idleOn, due>>
  /\ Finish(p)
  /\ UNCHANGED <<status, desired, sandbox, pause, supervisor, policy,
                 cloud, bounds>>

-----------------------------------------------------------------------------
(* User access under the shared lock, activity touches, and repair.        *)

Accessible == status # "gone" /\ sandbox # NoSandbox /\ desired # "terminated"

Admit(p) ==
  /\ pc[p] = "locked" /\ op[p] \in SharedOps \cup {"repair"} /\ Holds(p)
  /\ \/ /\ Accessible
        /\ rt' = [rt EXCEPT ![p] = sandbox]
        /\ Goto(p, IF op[p] = "repair" THEN "repairing" ELSE "operating")
        /\ UNCHANGED <<locks, op, sent>>
     \/ Finish(p)          \* not accessible, or the quota gate refuses
  /\ UNCHANGED <<row, cloud, bounds>>

\* The operation itself is the health check, and wakes a paused Sandbox.  It
\* may be the one that opens the Agent terminal.
Operate(p) ==
  /\ pc[p] = "operating" /\ rt[p] \in Sandboxes
  /\ sb[rt[p]] \in {"running", "paused"}
  /\ sb' = [sb EXCEPT ![rt[p]] = "running"]
  /\ waker' = IF sb[rt[p]] = "paused" THEN [waker EXCEPT ![rt[p]] = By(p, "access")]
                                      ELSE waker
  /\ terminals' \in {terminals, terminals \cup {rt[p]}}
  /\ Goto(p, "recordAccess")
  /\ UNCHANGED <<row, strays, locks, local, bounds>>

\* It fails for a reason of its own: nothing is recorded.
OperateFails(p) ==
  /\ pc[p] = "operating" /\ Faulty
  /\ Wake(rt[p], By(p, "access")) \/ UNCHANGED cloud
  /\ Finish(p)
  /\ UNCHANGED row

\* A wake-up or a lost portal: admission ends, repair waits for the
\* exclusive lock.  The readmitted operation is not repaired again.
OperateNeedsRepair(p) ==
  /\ pc[p] = "operating" /\ op[p] = "access" /\ Faulty
  /\ Wake(rt[p], By(p, "access")) \/ UNCHANGED cloud
  /\ Release(p) /\ Goto(p, "acquire")
  /\ op' = [op EXCEPT ![p] = "repair"]
  /\ rt' = [rt EXCEPT ![p] = NoSandbox]
  /\ UNCHANGED <<row, sent>>

\* ensureSandboxWorkspaceAccess: one access, or a pause that rebuilds the
\* portal followed by one.
RepairByAccess(p) ==
  /\ pc[p] \in {"repairing", "portal"} /\ Wake(rt[p], By(p, "repair"))
  /\ Release(p) /\ Goto(p, "acquire")
  /\ op' = [op EXCEPT ![p] = "readmit"]
  /\ rt' = [rt EXCEPT ![p] = NoSandbox]
  /\ UNCHANGED <<row, sent, bounds>>

RepairPauses(p) ==
  /\ pc[p] = "repairing" /\ rt[p] \in Sandboxes
  /\ sb[rt[p]] \in {"running", "paused"}
  /\ sb' = [sb EXCEPT ![rt[p]] = "paused"]
  /\ Goto(p, "portal")
  /\ UNCHANGED <<row, waker, strays, terminals, locks, local, bounds>>

\* What made the repair necessary may make it fail, too.
RepairFails(p) ==
  /\ pc[p] \in {"repairing", "portal"} /\ Finish(p)
  /\ UNCHANGED <<row, cloud, bounds>>

\* touchRunningRuntimeActivity: one statement under the shared lock.
Touch ==
  /\ SharedFree /\ terminals # {}
  /\ desired = "running" /\ status # "gone"
  /\ due' = Window
  /\ UNCHANGED <<status, desired, sandbox, pause, idleOn, supervisor, policy,
                 cloud, locks, pc, local, bounds>>
-----------------------------------------------------------------------------
(* Provisioning: claim a Sandbox, journal its identity, publish it ready.  *)

CheckProvision(p) ==
  /\ pc[p] = "locked" /\ op[p] = "provision" /\ Holds(p)
  /\ IF NeedsSandbox
       THEN /\ Goto(p, "claiming") \/ Goto(p, "markFailed")  \* quota refuses
            /\ UNCHANGED <<op, rt, sent, locks>>
       ELSE Finish(p)
  /\ UNCHANGED <<row, cloud, bounds>>

Claim(p, s) ==
  /\ pc[p] = "claiming" /\ sb[s] = "absent"
  /\ sb' = [sb EXCEPT ![s] = "running"]
  /\ rt' = [rt EXCEPT ![p] = s] /\ Goto(p, "publish")
  /\ UNCHANGED <<row, waker, strays, terminals, locks, op, sent, bounds>>

\* Rejected (for free once the identities of this instance are used up), or
\* answered to nobody: the identity is then unknown.
ClaimFails(p) ==
  /\ pc[p] = "claiming"
  /\ \/ (\A s \in Sandboxes : sb[s] # "absent") /\ UNCHANGED <<sb, bounds>>
     \/ Faulty /\ UNCHANGED sb
     \/ Faulty /\ \E s \in Sandboxes :
          sb[s] = "absent" /\ sb' = [sb EXCEPT ![s] = "running"]
  /\ Goto(p, "markFailed")
  /\ UNCHANGED <<row, waker, strays, terminals, locks, local>>

\* recordEnvironmentAllocation never replaces another identity.
Publish(p) ==
  /\ pc[p] = "publish" /\ Holds(p)
  /\ sandbox' = IF sandbox = NoSandbox THEN rt[p] ELSE sandbox
  /\ Goto(p, "await")
  /\ UNCHANGED <<status, desired, pause, due, idleOn, supervisor, policy,
                 cloud, locks, local, bounds>>

Await(p) ==
  /\ pc[p] = "await"
  /\ \/ Goto(p, "markReady") /\ UNCHANGED faults
     \/ Goto(p, "cleanup") /\ Faulty
  /\ UNCHANGED <<row, cloud, locks, local, requests>>

MarkReady(p) ==
  /\ pc[p] = "markReady" /\ Holds(p) /\ status # "gone"
  /\ status' = "ready" /\ desired' = "running" /\ pause' = "none"
  /\ sandbox' = rt[p] /\ policy' = TRUE
  /\ due' = Window
  /\ Finish(p)
  /\ UNCHANGED <<idleOn, supervisor, cloud, bounds>>

\* Best effort: an error of this deletion is swallowed.
Cleanup(p) ==
  /\ pc[p] = "cleanup"
  /\ \/ sb' = [sb EXCEPT ![rt[p]] = "deleted"] /\ UNCHANGED faults
     \/ Faulty /\ UNCHANGED sb
  /\ Goto(p, "clear")
  /\ UNCHANGED <<row, waker, strays, terminals, locks, local, requests>>

ClearAllocation(p) ==
  /\ pc[p] = "clear" /\ Holds(p)
  /\ IF sandbox = rt[p]
       THEN /\ sandbox' = NoSandbox /\ supervisor' = FALSE /\ policy' = FALSE
            /\ due' = "none" /\ pause' = "none"
       ELSE UNCHANGED <<sandbox, supervisor, policy, due, pause>>
  /\ Goto(p, "markFailed")
  /\ UNCHANGED <<status, desired, idleOn, cloud, locks, local, bounds>>

MarkFailed(p) ==
  /\ pc[p] = "markFailed" /\ Holds(p) /\ status # "gone"
  /\ status' = "error" /\ Finish(p)
  /\ UNCHANGED <<desired, sandbox, pause, due, idleOn, supervisor, policy,
                 cloud, bounds>>

\* The user's retry takes no lock.  It has seen a status other than ready;
\* markEnvironmentProvisioning then writes the two rows one after the other.
MarkUpdating(p) ==
  /\ pc[p] = "restatus"
  /\ status' = IF status = "gone" THEN "gone" ELSE "updating"
  /\ Goto(p, "reintend")
  /\ UNCHANGED <<desired, sandbox, pause, due, idleOn, supervisor, policy,
                 cloud, locks, local, bounds>>

MarkProvisioning(p) ==
  /\ pc[p] = "reintend"
  /\ desired' = IF status = "gone" THEN desired ELSE "running"
  /\ Finish(p)
  /\ UNCHANGED <<status, sandbox, pause, due, idleOn, supervisor, policy,
                 cloud, bounds>>

-----------------------------------------------------------------------------
(* Deletion: publish the intent, release the lock for the cleanup hook,    *)
(* take it again, delete the Sandbox and only then the row.                *)

MayDelete == status \notin {"updating", "gone"}

\* prepareEnvironmentDeletion, in either phase: the check and then the intent.
CheckDelete(p) ==
  /\ pc[p] = "locked" /\ op[p] \in {"delete", "remove"} /\ Holds(p) /\ MayDelete
  /\ Goto(p, "intend")
  /\ UNCHANGED <<row, cloud, locks, local, bounds>>

PrepareDelete(p) ==
  /\ pc[p] = "intend" /\ op[p] \in {"delete", "remove"} /\ Holds(p)
  /\ desired' = "terminated" /\ due' = "none"
  /\ IF op[p] = "delete"
       THEN Release(p) /\ Goto(p, "beforeDelete") /\ UNCHANGED rt
       ELSE /\ rt' = [rt EXCEPT ![p] = sandbox] /\ Goto(p, "deleting")
            /\ UNCHANGED locks
  /\ UNCHANGED <<status, sandbox, pause, idleOn, supervisor, policy, cloud,
                 op, sent, bounds>>

RefuseDelete(p) ==
  /\ pc[p] = "locked" /\ op[p] \in {"delete", "remove"} /\ ~MayDelete
  /\ Finish(p)
  /\ UNCHANGED <<row, cloud, bounds>>

BeforeDelete(p) ==
  /\ pc[p] = "beforeDelete"
  /\ Goto(p, "acquire") /\ op' = [op EXCEPT ![p] = "remove"]
  /\ UNCHANGED <<row, cloud, locks, rt, sent, bounds>>

\* recordEnvironmentDeletionFailure, here without the lock.
BeforeDeleteFails(p) ==
  /\ pc[p] = "beforeDelete" /\ Faulty
  /\ desired' = IF status = "gone" THEN desired ELSE "terminated"
  /\ Finish(p)
  /\ UNCHANGED <<status, sandbox, pause, due, idleOn, supervisor, policy, cloud>>

\* A missing Sandbox counts as deleted; the mistake is that any error does.
AnyErrorIsMissing(p) ==
  /\ pc[p] = "deleting" /\ Goto(p, "afterDelete")
  /\ UNCHANGED <<row, cloud, locks, local, bounds>>
DeleteSandbox(p) ==
  /\ pc[p] = "deleting"
  /\ IF rt[p] = NoSandbox THEN UNCHANGED sb
                          ELSE sb' = [sb EXCEPT ![rt[p]] = "deleted"]
  /\ Goto(p, "afterDelete")
  /\ UNCHANGED <<row, waker, strays, terminals, locks, local, bounds>>

DeleteSandboxFails(p) ==
  /\ pc[p] = "deleting" /\ rt[p] # NoSandbox /\ Faulty
  /\ strays' \in {strays, strays \cup {<<"delete", rt[p]>>}}
  /\ Goto(p, "deleteFailed")
  /\ UNCHANGED <<row, sb, waker, terminals, locks, local>>

\* The egress credential sources go next.
AfterDelete(p) ==
  /\ pc[p] = "afterDelete"
  /\ \/ Goto(p, "removeRow") /\ UNCHANGED faults
     \/ Goto(p, "deleteFailed") /\ Faulty
  /\ UNCHANGED <<row, cloud, locks, local, requests>>

DeleteMetadata(p) ==
  /\ pc[p] = "removeRow" /\ Holds(p)
  /\ status' = "gone" /\ sandbox' = NoSandbox /\ pause' = "none" /\ due' = "none"
  /\ Finish(p)
  /\ UNCHANGED <<desired, idleOn, supervisor, policy, cloud, bounds>>

RecordDeleteFailure(p) ==
  /\ pc[p] = "deleteFailed" /\ Holds(p)
  /\ desired' = IF status = "gone" THEN desired ELSE "terminated"
  /\ Finish(p)
  /\ UNCHANGED <<status, sandbox, pause, due, idleOn, supervisor, policy,
                 cloud, bounds>>

-----------------------------------------------------------------------------
(* The environment: time, terminal connections, late calls, failures.      *)

DeadlinePasses ==
  /\ due = "future" /\ due' = "past"
  /\ UNCHANGED <<status, desired, sandbox, pause, idleOn, supervisor, policy,
                 cloud, locks, pc, local, bounds>>

\* Every five seconds, and once more when its stream ends, an open Agent
\* terminal reads the credential file of its Sandbox.  No lock is taken.
SyncCredentials(s) ==
  /\ s \in terminals
  /\ Wake(s, "sync")
  /\ UNCHANGED <<row, locks, pc, local, bounds>>

CloseTerminal(s) ==
  /\ s \in terminals /\ terminals' = terminals \ {s}
  /\ \/ UNCHANGED <<sb, waker>>
     \/ /\ sb[s] = "paused"
        /\ sb' = [sb EXCEPT ![s] = "running"] /\ waker' = [waker EXCEPT ![s] = "sync"]
  /\ UNCHANGED <<row, strays, locks, pc, local, bounds>>

StrayLands(k, s) ==
  /\ <<k, s>> \in strays /\ strays' = strays \ {<<k, s>>}
  /\ sb' = IF sb[s] = "deleted" THEN sb ELSE [sb EXCEPT ![s] =
              CASE k = "delete" -> "deleted" [] k = "pause" -> "paused" [] k = "resume" -> "running"]
  /\ waker' = IF k = "resume" /\ sb[s] = "paused" THEN [waker EXCEPT ![s] = "stray"]
                                                ELSE waker
  /\ UNCHANGED <<row, terminals, locks, pc, local, bounds>>

\* What a process that stops waiting leaves behind at Sandbox0.
Abandoned(p) ==
  CASE pc[p] = "pausing" /\ sent[p]  -> {<<"pause", rt[p]>>}
    [] pc[p] = "resuming" /\ sent[p] -> {<<"resume", rt[p]>>}
    [] pc[p] \in {"hook", "operating", "repairing", "portal", "stop", "stopPaused"}
                                     -> {<<"resume", rt[p]>>}
    [] pc[p] = "deleting" /\ rt[p] # NoSandbox -> {<<"delete", rt[p]>>}
    [] OTHER                         -> {}

\* The replica dies: PostgreSQL releases its lock, its call may still land.
Crash(p) ==
  /\ pc[p] # "free" /\ Faulty
  /\ strays' = strays \cup Abandoned(p)
  /\ Finish(p)
  /\ UNCHANGED <<row, sb, waker, terminals>>

\* Only the connection is lost: the callback runs on without the lock...
LoseConnection(p) ==
  /\ Holds(p) /\ Faulty /\ Release(p)
  /\ UNCHANGED <<row, cloud, pc, local>>

\* ...until it uses its scoped store, which fails and ends it.  Provisioning
\* first deletes the Sandbox it has claimed.
Abort(p) ==
  /\ ~Holds(p)
  /\ \/ /\ pc[p] \in {"locked", "intend", "recordPaused", "recordAccess", "retired", "policed",
                       "failing", "clear", "markFailed", "removeRow", "deleteFailed"}
        /\ Finish(p)
     \/ /\ pc[p] \in {"publish", "markReady"} /\ Goto(p, "cleanup")
        /\ UNCHANGED <<locks, local>>
  /\ UNCHANGED <<row, cloud, bounds>>
-----------------------------------------------------------------------------
\* What a process does by itself while nothing fails.
Work(p) ==
  \/ AcquireX(p) \/ AcquireS(p)
  \/ CheckReady(p) \/ PreparePause(p) \/ SkipPause(p) \/ BeforePause(p) \/ SendPause(p)
  \/ PauseLands(p) \/ PauseSeen(p) \/ RecordPaused(p)
  \/ SendResume(p) \/ ResumeLands(p) \/ ResumeSeen(p) \/ RecordAccess(p)
  \/ WaitTimesOut(p) \/ SandboxMissing(p) \/ RecordFailure(p)
  \/ PrepareRetire(p) \/ StopSupervisor(p) \/ RecordRetired(p)
  \/ ApplyPolicy(p) \/ RecordPolicy(p) \/ Update(p)
  \/ Admit(p) \/ Operate(p) \/ RepairByAccess(p) \/ RepairPauses(p)
  \/ CheckProvision(p) \/ (\E s \in Sandboxes : Claim(p, s)) \/ Publish(p)
  \/ Await(p) \/ MarkReady(p) \/ Cleanup(p) \/ ClearAllocation(p) \/ MarkFailed(p)
  \/ MarkUpdating(p) \/ MarkProvisioning(p)
  \/ CheckDelete(p) \/ PrepareDelete(p) \/ RefuseDelete(p) \/ BeforeDelete(p)
  \/ DeleteSandbox(p)
  \/ AfterDelete(p) \/ DeleteMetadata(p) \/ RecordDeleteFailure(p)
  \/ Abort(p)

Fail(p) ==
  \/ BeforePauseFails(p) \/ CallFails(p) \/ StopSupervisorFails(p)
  \/ OperateFails(p) \/ OperateNeedsRepair(p) \/ RepairFails(p)
  \/ ClaimFails(p) \/ BeforeDeleteFails(p) \/ DeleteSandboxFails(p)
  \/ Crash(p) \/ LoseConnection(p)

Environment ==
  \/ DeadlinePasses \/ Touch
  \/ \E s \in Sandboxes : SyncCredentials(s) \/ CloseTerminal(s)
  \/ \E k \in {"pause", "resume", "delete"}, s \in Sandboxes : StrayLands(k, s)

Next ==
  \/ \E p \in Procs :
       Work(p) \/ Fail(p) \/ GiveUp(p) \/ (\E o \in UserOps \cup Background : Start(p, o))
  \/ Environment

Spec == Init /\ [][Next]_vars

(* Every replica polls (reconcileOnce every five seconds, reconcilePending *)
(* at start-up and after every creation and retry), and a process that can *)
(* move does: Sandbox0 answers or the client's timeout does.               *)
Fairness ==
  /\ \A p \in Procs : WF_vars(Work(p))
  /\ \A o \in Background : WF_vars(\E p \in Procs : Start(p, o))
  /\ WF_vars(DeadlinePasses)

FairSpec == Spec /\ Fairness

-----------------------------------------------------------------------------
(* Properties.                                                             *)

\* Exclusion of the advisory lock: a lifecycle transition excludes every
\* other transition and every admitted access (withEnvironmentLifecycleLock,
\* withEnvironmentRuntimeAccessLock).
LockExclusion == lockX # NoProc => lockS = {}

\* A pause interval never opens on a running Sandbox, unless a read that
\* takes no lock, or a call abandoned by its caller, has since woken it: no
\* admitted access, repair or restart slips in between a pause's commit at
\* Sandbox0 and its record (pauseForQuota, pauseManually, reconcileLifecycle).
PauseRecordedAsCommitted ==
  [][ pause = "none" /\ pause' # "none" =>
        sb[sandbox] # "running" \/ waker[sandbox] \in {"sync", "stray"} ]_vars

\* The row goes only after the Sandbox it names is deleted at Sandbox0, so a
\* failed cleanup can always be retried from the row's coordinates (delete).
RowOutlivesSandbox ==
  [][ status # "gone" /\ status' = "gone" =>
        sandbox = NoSandbox \/ sb[sandbox] = "deleted" ]_vars

\* Two replicas never provision the same Environment twice: a published
\* identity is not replaced by another one (provisionWhileLocked, and the
\* COALESCE of recordEnvironmentAllocation).
IdentityKept ==
  [][ sandbox # NoSandbox /\ sandbox' # NoSandbox => sandbox' = sandbox ]_vars

\* The v1 supervisor's coordinates are given up only once the Sandbox that its
\* stop has woken is paused again, if the row says paused (reconcileLifecycle).
RetiredAsIntended ==
  [][ supervisor /\ ~supervisor' /\ sandbox' # NoSandbox /\ desired = "paused" =>
        sb[sandbox] # "running" \/ waker[sandbox] \in {"sync", "stray"} ]_vars

\* "PostgreSQL stores deadlines so any Sandpi replica can take over after a crash"
\* (lifecycle-service.ts 24): a Sandbox that runs has a deadline to be paused at
\* whenever the lock is free, unless an unlocked read or an abandoned call has
\* woken it.  A crash after the wake-up breaks it.
DeadlineSurvives ==
  /\ status = "ready" /\ idleOn /\ desired # "terminated"
  /\ lockX = NoProc /\ lockS = {} /\ sb[sandbox] = "running"
  => due # "none" \/ waker[sandbox] \in {"sync", "stray"}

\* Without failures, and without a retry by the user that withdraws a deletion, every
\* Sandbox that runs has its deadline.
RunningHasDeadline == faults = 0 => DeadlineSurvives

\* Without failures, no lifecycle transition pauses or deletes a Sandbox under
\* an admitted operation.
AccessUndisturbed ==
  [][ \A p \in Procs : faults' = 0 /\ pc[p] = "operating" /\ sb[rt[p]] = "running" =>
        sb'[rt[p]] = "running" ]_vars

\* Without failures, every Sandbox that exists is named by the row or in the
\* hands of the process that provisions it.
NoOrphan ==
  faults = 0 =>
    \A s \in Sandboxes : sb[s] \in {"running", "paused"} =>
      \/ sandbox = s
      \/ \E p \in Procs : rt[p] = s /\ pc[p] = "publish"

\* Whatever crashes, an Environment with an idle deadline and no open terminal
\* is in the end paused, by whichever replica is left (reconcileLifecycle).
IdlePauseTakenOver ==
  (status = "ready" /\ idleOn /\ due # "none" /\ desired # "terminated")
    ~> (pause # "none" \/ terminals # {} \/ ~idleOn \/ desired = "terminated")

\* What the retirement of a supervisor says it avoids (lifecycle-service.ts
\* 282-286): a Sandbox physically running while its row is marked paused.
PausedRowPausedSandbox ==
  lockX = NoProc /\ lockS = {} /\ pause # "none" => sb[sandbox] # "running"

\* "The allocation journal owns retry/cleanup once a resource id has been
\* published" (sandbox0.ts 460-461): a published allocation does not stay there.
AllocationRetried ==
  (status = "updating" /\ sandbox # NoSandbox) ~> (status # "updating" \/ sandbox = NoSandbox)

\* "Publish the terminal intent before cleanup releases the lifecycle lock"
\* (service.ts 324): no late writer, a pause, a restart or an access that was
\* under way, takes the intent back.  A reconciler that provisions a failed
\* Environment does, and so does a user's retry: they are not in that instance.
TerminalIntentKept ==
  [][ desired = "terminated" => desired' = "terminated" ]_vars

\* The row's history is the one the projection promises to its readers.
Projection == INSTANCE EnvironmentProjection
ImplementsProjection == Projection!SpecP
=============================================================================
