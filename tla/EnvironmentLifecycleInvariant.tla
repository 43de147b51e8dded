-------------------- MODULE EnvironmentLifecycleInvariant --------------------
(***************************************************************************)
(* Why EnvironmentLifecycle is safe: what each process may rely on at each *)
(* of its places.  Model-checked with the other invariants, and proved to  *)
(* be inductive in EnvironmentLifecycleProofs.                             *)
(***************************************************************************)
EXTENDS EnvironmentLifecycle

\* Where a process works from a row copy that named a Sandbox.
TargetPlaces == {"stop", "stopPaused", "hook", "pause", "pausing", "recordPaused",
                 "resume", "resuming", "recordAccess", "retired", "policed",
                 "failing", "operating", "repairing", "portal", "publish",
                 "await", "markReady", "cleanup", "clear"}

\* Such a process has a Sandbox, and so has the row: one that was claimed.
Targeted ==
  /\ \A p \in Procs : pc[p] \in TargetPlaces =>
       rt[p] \in Sandboxes /\ sb[rt[p]] # "absent"
  /\ sandbox \in Sandboxes => sb[sandbox] # "absent"

\* Only an access holds the shared lock, so every other holder is exclusive.
SharedPlaces ==
  \A p \in lockS : /\ pc[p] \in {"locked", "operating", "recordAccess"}
                   /\ op[p] \in SharedOps

\* The exclusive holder's copy is the row: nobody else writes these columns.
Owned ==
  \A p \in Procs : lockX = p =>
    /\ pc[p] \in {"claiming", "publish"} => sandbox = NoSandbox /\ status # "gone"
    /\ pc[p] = "intend" => status # "gone"
    /\ pc[p] \in {"await", "markReady", "cleanup", "clear"} => sandbox = rt[p]
    /\ pc[p] \in {"deleting", "afterDelete", "removeRow"} =>
         sandbox = rt[p] /\ status # "gone" /\ desired # "paused"

\* Past the deletion the Sandbox is deleted, and that is forever.
PastDeletion ==
  \A p \in Procs : pc[p] \in {"afterDelete", "removeRow"} =>
    rt[p] = NoSandbox \/ sb[rt[p]] = "deleted"

GoneIsEmpty == status = "gone" => sandbox = NoSandbox

\* Not running, or woken by a read or an abandoned call that took no lock.
Settled(s) == sb[s] # "running" \/ waker[s] \in {"sync", "stray"}

\* Between the pause and its record nothing under the lock wakes the Sandbox.
PauseSettled ==
  \A p \in Procs : lockX = p =>
    /\ pc[p] = "recordPaused" => Settled(rt[p])
    /\ pc[p] = "stop" => desired # "paused"
    /\ pc[p] = "retired" => desired # "paused" \/ Settled(rt[p])

\* What every process may rely on, wherever the others are: its copy of the
\* row is current under the exclusive lock, a deleted Sandbox stays deleted,
\* and a committed pause is not undone under the lock.
Inductive ==
  /\ TypeOK /\ LockExclusion
  /\ Targeted /\ SharedPlaces /\ Owned
  /\ PastDeletion /\ GoneIsEmpty /\ PauseSettled

-----------------------------------------------------------------------------
(* Without failures.                                                       *)

\* Whoever is in a callback holds the lock its operation asks for.
Outside == {"free", "acquire", "beforeDelete", "restatus", "reintend"}
Attended ==
  \A p \in Procs :
    \/ pc[p] \in Outside
    \/ op[p] \in SharedOps /\ p \in lockS /\ pc[p] \in {"locked", "operating", "recordAccess"}
    \/ op[p] \in ExclusiveOps /\ lockX = p /\ pc[p] # "operating"

\* No call is abandoned, and nothing is repaired or cleaned up.
Unbroken ==
  /\ strays = {}
  /\ \A p \in Procs : /\ op[p] # "repair"
                      /\ pc[p] \notin {"repairing", "portal", "cleanup", "clear", "deleteFailed"}

Calm == faults = 0 => Attended /\ Unbroken

-----------------------------------------------------------------------------
(* Without failures and retries by the user: why a deadline is missed only  *)
(* by a Sandbox that an unlocked read has woken.                           *)

\* Between these places and the next record the Sandbox may be awake.
Waking ==
  \/ \E p \in lockS : pc[p] = "recordAccess"
  \/ \E p \in Procs : lockX = p /\ pc[p] \in {"hook", "pause", "pausing", "resuming", "recordAccess"}

\* A process under a lock works on the Sandbox of the row, and knows its state.
KnownState ==
  \A p \in Procs :
    /\ lockX = p \/ p \in lockS =>
         /\ pc[p] \in {"stop", "stopPaused", "hook", "pause", "pausing", "recordPaused",
                       "resume", "resuming", "operating", "recordAccess", "failing"} =>
              sandbox = rt[p]
         /\ pc[p] = "recordAccess" => sb[rt[p]] # "paused"
    /\ lockX = p =>
         /\ pc[p] = "stop" => desired = "running"
         /\ pc[p] \in {"stopPaused", "hook", "pause", "pausing", "recordPaused", "resume",
                       "resuming"} => desired = "paused"
         /\ pc[p] = "failing" /\ op[p] # "policy" => desired = "paused"
         /\ pc[p] \in {"publish", "await", "markReady"} => sb[rt[p]] # "paused"
         /\ pc[p] = "pausing" /\ ~sent[p] => Settled(rt[p])
         /\ pc[p] = "resuming" /\ ~sent[p] => sb[rt[p]] # "paused"
         /\ pc[p] = "resume" => Settled(rt[p])
         /\ pc[p] = "failing" => sb[rt[p]] # "paused" /\ Settled(rt[p])

\* A ready row names a Sandbox, which runs if it is meant to; it has a deadline, or
\* was settled when it was last paused.
ReadyState ==
  /\ sandbox \in Sandboxes /\ sb[sandbox] = "paused" => desired # "running"
  /\ status = "ready" =>
       /\ sandbox \in Sandboxes
       /\ desired = "paused" => Settled(sandbox) \/ Waking
       /\ desired = "running" /\ idleOn /\ due = "none" => Settled(sandbox) \/ Waking

NoRetry == \A p \in Procs : pc[p] \notin {"restatus", "reintend"}
Timed == NoRetry /\ (faults = 0 => KnownState /\ ReadyState)

-----------------------------------------------------------------------------
(* Without provisioning and retries: why a deletion is never taken back.    *)

\* Nobody is about to reset the intent.
NoReset ==
  \A p \in Procs :
    /\ op[p] \notin {"provision", "reprovision"}
    /\ pc[p] \notin {"claiming", "publish", "await", "markReady", "cleanup", "clear",
                     "markFailed", "restatus", "reintend"}

\* A pause under way has found no such intent, and the cleanup hook runs under it.
IntentKnown ==
  \A p \in Procs :
    /\ lockX = p =>
         /\ pc[p] \in {"stop", "stopPaused", "hook", "pause", "pausing", "recordPaused",
                       "resume", "resuming"} => desired # "terminated"
         /\ pc[p] = "failing" /\ op[p] # "policy" => desired # "terminated"
    /\ pc[p] = "beforeDelete" => desired = "terminated" \/ status = "gone"

Intended == NoReset /\ IntentKnown
=============================================================================
