--------------------------- MODULE EnvironmentFork ---------------------------
(***************************************************************************)
(* The fork of one Environment: a saga over three owners of state.  Sandpi *)
(* journals the operation and the target Environment in PostgreSQL, asks   *)
(* Sandbox0 for a paused child Sandbox under a stable operation identity,  *)
(* and remembers the request of the client under an idempotency key.       *)
(* Requests, and the recovery pass of every replica, resume the same saga; *)
(* the advisory lock of the source Environment elects one of them, while   *)
(* the user may delete the source, prune the snapshot the fork is made     *)
(* from, or delete a target.                                               *)
(*                                                                         *)
(* As in EnvironmentLifecycle a process that loses its connection loses    *)
(* the lock and its row writes but not the call it has in flight, and a    *)
(* call whose caller is gone may land later.                               *)
(*                                                                         *)
(* Simplifications.  One source, one key and one request body: the client  *)
(* only repeats itself, and the key does not expire meanwhile.  Sandbox0's *)
(* record of an operation identity outlives the child, so a repeated fork  *)
(* never makes a second child.  A child is paused or deleted: what its     *)
(* owner does with a published one is left to EnvironmentLifecycle, and so *)
(* are the steps of a deletion that has failed half-way on a target.       *)
(***************************************************************************)
EXTENDS Naturals, FiniteSets

CONSTANTS
  Procs,        \* request handlers and recovery passes, of all replicas
  Targets,      \* fresh Environment ids; one names its operation and child
  Source,       \* the source Environment, as the name of a lock
  NoProc,       \* nobody
  NoTarget,     \* the key has no row
  MaxRequests,  \* bound on requests of the client
  MaxFaults     \* bound on crashes, lost connections and failed calls

Names == Targets \cup {Source}

ASSUME ForkAssumption ==
  /\ NoProc \notin Procs
  /\ NoTarget \notin Names /\ Source \notin Targets
  /\ MaxRequests \in Nat /\ MaxFaults \in Nat

VARIABLES
  named,     \* the request names a snapshot of the source
  key,       \* the idempotency key: its resource, and whether completed
  answers,   \* the targets the client has been told of
  source,    \* the source: its row, and whether its Sandbox still exists
  snapshot,  \* the named snapshot exists
  op,        \* environment_fork_operations
  target,    \* environments and environment_runtime of the targets
  child,     \* the child Sandboxes at Sandbox0
  strays,    \* calls in flight whose caller no longer waits
  held,      \* holder of each advisory lock
  pc, kind,  \* where each process is, and whether a client waits for it
  at, lock,  \* the target it works for, the lock it works under
  requests, faults

rows    == <<op, target>>
cloud   == <<child, strays>>
around  == <<source, snapshot, named>>
client  == <<key, answers>>
local   == <<kind, at, lock>>
bounds  == <<requests, faults>>
vars    == <<rows, cloud, around, client, held, pc, local, bounds>>

Pending == {"prepared", "forking", "native-ready"}
Calls   == {"fork", "restore", "strip"}
\* Places whose next step writes or reads through the scoped store.
Scoped  == {"enter", "create", "resume", "hook", "start", "record", "publish"}
Labels  == Calls \cup Scoped
           \cup {"free", "claim", "acquire", "return", "complete", "giveUp"}

NoOp     == [phase |-> "none", sandbox |-> FALSE, bound |-> FALSE]
NoRow    == [status |-> "none", sandbox |-> FALSE]
NoChild  == [state |-> "none", restored |-> FALSE, stripped |-> FALSE]

\* The second conjunct on op is the CHECK of the table.
TypeOK ==
  /\ named \in BOOLEAN /\ snapshot \in BOOLEAN
  /\ key \in [resource : Targets \cup {NoTarget}, done : BOOLEAN]
  /\ answers \subseteq Targets
  /\ source \in [row : {"ready", "terminated", "removed"}, alive : BOOLEAN]
  /\ op \in [Targets -> [phase : Pending \cup {"none", "completed", "failed"},
                         sandbox : BOOLEAN, bound : BOOLEAN]]
  /\ \A t \in Targets : op[t].phase \in {"native-ready", "completed"} => op[t].sandbox
  /\ target \in [Targets -> [status : {"none", "updating", "ready", "error"},
                             sandbox : BOOLEAN]]
  /\ child \in [Targets -> [state : {"none", "paused", "deleted"},
                            restored : BOOLEAN, stripped : BOOLEAN]]
  /\ strays \subseteq Calls \X Targets
  /\ held \in [Names -> Procs \cup {NoProc}]
  /\ pc \in [Procs -> Labels] /\ kind \in [Procs -> {"none", "request", "recovery"}]
  /\ at \in [Procs -> Targets \cup {NoTarget}] /\ lock \in [Procs -> Names]
  /\ requests \in Nat /\ faults \in Nat

Init ==
  /\ named \in BOOLEAN /\ snapshot = TRUE
  /\ key = [resource |-> NoTarget, done |-> FALSE] /\ answers = {}
  /\ source = [row |-> "ready", alive |-> TRUE]
  /\ op = [t \in Targets |-> NoOp] /\ target = [t \in Targets |-> NoRow]
  /\ child = [t \in Targets |-> NoChild] /\ strays = {}
  /\ held = [n \in Names |-> NoProc]
  /\ pc = [p \in Procs |-> "free"] /\ kind = [p \in Procs |-> "none"]
  /\ at = [p \in Procs |-> NoTarget] /\ lock = [p \in Procs |-> Source]
  /\ requests = 0 /\ faults = 0

-----------------------------------------------------------------------------
Goto(p, l)   == pc' = [pc EXCEPT ![p] = l]
Holds(p)     == held[lock[p]] = p
Unlock(p)    == held' = [n \in Names |-> IF held[n] = p THEN NoProc ELSE held[n]]
Faulty       == faults < MaxFaults /\ faults' = faults + 1 /\ UNCHANGED requests
Forget(p)    ==
  /\ kind' = [kind EXCEPT ![p] = "none"]
  /\ at' = [at EXCEPT ![p] = NoTarget]
  /\ lock' = [lock EXCEPT ![p] = Source]
\* The request is answered, or the recovery of one operation is over.
Finish(p)    == Goto(p, "free") /\ Unlock(p) /\ Forget(p)

\* An error leaves the callback: the lock goes and the key stays as it is.
FailsAnyway(p) ==
  IF kind[p] = "request" /\ at[p] # NoTarget
    THEN Goto(p, "complete") /\ Unlock(p) /\ UNCHANGED local
    ELSE Finish(p)
Fails(p) == Finish(p)

-----------------------------------------------------------------------------
(* The conditions the properties rest on.  Beside each, a mistake that the *)
(* properties must notice when it takes the condition's place.             *)

Fresh(t) == op[t] = NoOp /\ child[t] = NoChild /\ \A p \in Procs : at[p] # t
MayClaim(t) == IF key.resource = NoTarget THEN Fresh(t) ELSE t = key.resource

Untouched(t) == op[t].phase \in {"prepared", "native-ready"}
NeedsRecovery(t) == op[t].phase \in Pending

SourceGone(t) == ~op[t].bound
GivesUp(t) == ~op[t].bound /\ op[t].phase # "native-ready"

RecordedPhase(o) == [o EXCEPT !.phase = "native-ready"]
Recorded(o) == [o EXCEPT !.phase = "native-ready", !.sandbox = TRUE]

\* What is left to do once the journal has the child.
PublishAtOnce(t) == "publish"
AfterRecord(t) == "strip"

AnyStatus(t) == target[t].status # "none"
Deletable(t) == target[t].status \in {"ready", "error"}

-----------------------------------------------------------------------------
(* A request of the client, up to the saga.                                *)

Request(p) ==
  /\ pc[p] = "free" /\ requests < MaxRequests
  /\ source.row # "removed"
  /\ requests' = requests + 1
  /\ Goto(p, "claim") /\ kind' = [kind EXCEPT ![p] = "request"]
  /\ UNCHANGED <<rows, cloud, around, client, held, at, lock, faults>>

Claim(p) ==
  /\ pc[p] = "claim" /\ ~key.done
  /\ \E t \in Targets :
       /\ MayClaim(t)
       /\ key' = [key EXCEPT !.resource = t]
       /\ at' = [at EXCEPT ![p] = t]
  /\ Goto(p, "acquire")
  /\ UNCHANGED <<rows, cloud, around, answers, held, kind, lock, bounds>>

\* A completed key answers with its target, or not at all once that is deleted.
Replay(p) ==
  /\ pc[p] = "claim" /\ key.done
  /\ answers' = IF target[key.resource].status = "none"
                  THEN answers ELSE answers \cup {key.resource}
  /\ Finish(p)
  /\ UNCHANGED <<rows, cloud, around, key, bounds>>

Acquire(p) ==
  /\ pc[p] = "acquire" /\ held[lock[p]] = NoProc
  /\ held' = [held EXCEPT ![lock[p]] = p]
  /\ Goto(p, IF kind[p] = "request" THEN "enter" ELSE "resume")
  /\ UNCHANGED <<rows, cloud, around, client, local, bounds>>

\* The deadline of the wait passes while another process has the lock.
GiveUpWaiting(p) ==
  /\ pc[p] = "acquire" /\ held[lock[p]] # NoProc
  /\ Finish(p)
  /\ UNCHANGED <<rows, cloud, around, client, bounds>>

\* The saga of the key's resource is entered, begun, or bound elsewhere.
Enter(p) ==
  /\ pc[p] = "enter" /\ Holds(p)
  /\ LET o == op[at[p]] IN
       \/ /\ o.phase = "none" /\ Goto(p, "create")
          /\ UNCHANGED <<held, local>>
       \/ /\ o.phase # "none" /\ o.bound /\ Goto(p, "resume")
          /\ UNCHANGED <<held, local>>
       \/ o.phase # "none" /\ ~o.bound /\ Fails(p)
  /\ UNCHANGED <<rows, cloud, around, client, bounds>>

CreateTarget(p) ==
  /\ pc[p] = "create" /\ Holds(p)
  /\ source.row = "ready" /\ (named => snapshot)
  /\ target[at[p]].status = "none"
  /\ op' = [op EXCEPT ![at[p]] = [phase |-> "prepared", sandbox |-> FALSE, bound |-> TRUE]]
  /\ target' = [target EXCEPT ![at[p]] = [status |-> "updating", sandbox |-> FALSE]]
  /\ Goto(p, "resume")
  /\ UNCHANGED <<cloud, around, client, held, local, bounds>>

\* The source is not ready, the snapshot is gone, or the plan allows no more.
CreateRefused(p) ==
  /\ pc[p] = "create" /\ Holds(p)
  /\ Fails(p)
  /\ UNCHANGED <<rows, cloud, around, client, bounds>>

-----------------------------------------------------------------------------
(* The recovery pass: the list is read without a lock.                     *)

\* The copy decides: give up, or resume under the lock of what is left.
Recover(p) ==
  /\ pc[p] = "free"
  /\ \E t \in Targets :
       /\ NeedsRecovery(t)
       /\ at' = [at EXCEPT ![p] = t]
       /\ lock' = [lock EXCEPT ![p] = IF op[t].bound THEN Source ELSE t]
       /\ Goto(p, IF GivesUp(t) THEN "giveUp" ELSE "acquire")
  /\ kind' = [kind EXCEPT ![p] = "recovery"]
  /\ UNCHANGED <<rows, cloud, around, client, held, bounds>>

FailFork(p) ==
  /\ pc[p] = "giveUp"
  /\ op' = [op EXCEPT ![at[p]].phase = IF @ \in {"none", "completed"} THEN @ ELSE "failed"]
  /\ target' = [target EXCEPT ![at[p]].status = IF @ \in {"none", "ready"} THEN @ ELSE "error"]
  /\ Finish(p)
  /\ UNCHANGED <<cloud, around, client, bounds>>

-----------------------------------------------------------------------------
(* resumeOperation, for a request and for a recovery.                      *)

Resume(p) ==
  /\ pc[p] = "resume" /\ Holds(p)
  /\ LET o == op[at[p]] IN
       \/ /\ o.phase = "completed" /\ Goto(p, "return") /\ UNCHANGED <<held, local>>
       \/ /\ o.phase = "native-ready" /\ Goto(p, "strip") /\ UNCHANGED <<held, local>>
       \/ /\ o.phase \in {"prepared", "forking"} /\ o.bound
          /\ Goto(p, "hook") /\ UNCHANGED <<held, local>>
       \/ o.phase \in {"prepared", "forking"} /\ ~o.bound /\ Fails(p)
       \/ o.phase \in {"none", "failed"} /\ Fails(p)
  /\ UNCHANGED <<rows, cloud, around, client, bounds>>

\* The credentials of the source leave its disk before the copy is made.
BeforeFork(p) ==
  /\ pc[p] = "hook" /\ source.alive
  /\ Goto(p, "start")
  /\ UNCHANGED <<rows, cloud, around, client, held, local, bounds>>

BeforeForkRefused(p) ==
  /\ pc[p] = "hook" /\ ~source.alive
  /\ Fails(p)
  /\ UNCHANGED <<rows, cloud, around, client, bounds>>

MarkStarted(p) ==
  /\ pc[p] = "start" /\ Holds(p)
  /\ op' = [op EXCEPT ![at[p]].phase = IF @ = "prepared" THEN "forking" ELSE @]
  /\ Goto(p, "fork")
  /\ UNCHANGED <<target, cloud, around, client, held, local, bounds>>

\* What the calls need of Sandbox0, and what they do.
Accepted(call, t) ==
  CASE call = "fork"    -> source.alive /\ child[t].state # "deleted"
    [] call = "restore" -> snapshot /\ child[t].state = "paused"
    [] call = "strip"   -> child[t].state = "paused"
Effect(call, t) ==
  CASE call = "fork"    -> [child EXCEPT ![t].state = "paused"]
    [] call = "restore" -> [child EXCEPT ![t].restored = TRUE]
    [] call = "strip"   -> [child EXCEPT ![t].stripped = TRUE]
After(call, t) ==
  CASE call = "fork"    -> IF named THEN "restore" ELSE "record"
    [] call = "restore" -> "record"
    [] call = "strip"   -> "publish"

CallLands(p) ==
  /\ pc[p] \in Calls
  /\ Accepted(pc[p], at[p])
  /\ child' = Effect(pc[p], at[p])
  /\ Goto(p, After(pc[p], at[p]))
  /\ UNCHANGED <<rows, strays, around, client, held, local, bounds>>

CallRefused(p) ==
  /\ pc[p] \in Calls
  /\ ~Accepted(pc[p], at[p])
  /\ Fails(p)
  /\ UNCHANGED <<rows, cloud, around, client, bounds>>

\* The child goes to the journal and to the row of the target at once.
Record(p) ==
  /\ pc[p] = "record" /\ Holds(p)
  /\ IF op[at[p]].phase \in Pending
       THEN /\ op' = [op EXCEPT ![at[p]] = Recorded(@)]
            /\ target' = [target EXCEPT ![at[p]].sandbox = TRUE]
            /\ Goto(p, AfterRecord(at[p])) /\ UNCHANGED <<held, local>>
       ELSE Fails(p) /\ UNCHANGED rows
  /\ UNCHANGED <<cloud, around, client, bounds>>

MayPublish(t) ==
  op[t].phase \in {"native-ready", "completed"} /\ op[t].sandbox /\ target[t].sandbox

Publish(p) ==
  /\ pc[p] = "publish" /\ Holds(p) /\ MayPublish(at[p])
  /\ op' = [op EXCEPT ![at[p]].phase = "completed"]
  /\ target' = [target EXCEPT ![at[p]].status = "ready"]
  /\ Goto(p, "return")
  /\ UNCHANGED <<cloud, around, client, held, local, bounds>>

PublishRefused(p) ==
  /\ pc[p] = "publish" /\ Holds(p) /\ ~MayPublish(at[p])
  /\ Fails(p)
  /\ UNCHANGED <<rows, cloud, around, client, bounds>>

\* The callback returns: the lock goes, and a request still has its key.
Return(p) ==
  /\ pc[p] = "return"
  /\ IF kind[p] = "request"
       THEN Goto(p, "complete") /\ Unlock(p) /\ UNCHANGED local
       ELSE Finish(p)
  /\ UNCHANGED <<rows, cloud, around, client, bounds>>

\* Only a processing key is completed; for any other the request fails.
CompleteKey(p) ==
  /\ pc[p] = "complete"
  /\ \/ /\ ~key.done /\ key.resource = at[p]
        /\ key' = [key EXCEPT !.done = TRUE]
        /\ answers' = answers \cup {at[p]}
     \/ (key.done \/ key.resource # at[p]) /\ UNCHANGED client
  /\ Finish(p)
  /\ UNCHANGED <<rows, cloud, around, bounds>>

-----------------------------------------------------------------------------
(* Failures.                                                               *)

\* What p has in flight, once p no longer waits for it.
Abandoned(p) == IF pc[p] \in Calls THEN strays \cup {<<pc[p], at[p]>>} ELSE strays

StrayLands ==
  \E c \in strays :
    /\ strays' = strays \ {c}
    /\ child' = IF Accepted(c[1], c[2]) THEN Effect(c[1], c[2]) ELSE child
    /\ UNCHANGED <<rows, around, client, held, pc, local, bounds>>

\* A call fails, times out, or the hook throws.
CallFails(p) ==
  /\ pc[p] \in Calls \cup {"hook"} /\ Faulty
  /\ strays' = Abandoned(p)
  /\ Fails(p)
  /\ UNCHANGED <<rows, child, around, client>>

Crash(p) ==
  /\ pc[p] # "free" /\ Faulty
  /\ strays' = Abandoned(p)
  /\ Finish(p)
  /\ UNCHANGED <<rows, child, around, client>>

LoseConnection(p) ==
  /\ Holds(p) /\ Faulty
  /\ Unlock(p)
  /\ UNCHANGED <<rows, cloud, around, client, pc, local>>

\* The scoped store of a lost connection throws.
Abort(p) ==
  /\ pc[p] \in Scoped /\ ~Holds(p)
  /\ Fails(p)
  /\ UNCHANGED <<rows, cloud, around, client, bounds>>

-----------------------------------------------------------------------------
(* The rest of the system.  Every operation on the source is made under    *)
(* its lock, which the saga holds from Enter to Return.                    *)

TerminateSource ==
  /\ held[Source] = NoProc /\ source.row = "ready"
  /\ source' = [source EXCEPT !.row = "terminated"]
  /\ UNCHANGED <<rows, cloud, snapshot, named, client, held, pc, local, bounds>>

DeleteSourceSandbox ==
  /\ held[Source] = NoProc /\ source.row = "terminated" /\ source.alive
  /\ source' = [source EXCEPT !.alive = FALSE]
  /\ UNCHANGED <<rows, cloud, snapshot, named, client, held, pc, local, bounds>>

\* ON DELETE SET NULL: the journal forgets which Environment it copied.
RemoveSource ==
  /\ held[Source] = NoProc /\ source.row = "terminated" /\ ~source.alive
  /\ source' = [source EXCEPT !.row = "removed"]
  /\ op' = [t \in Targets |-> [op[t] EXCEPT !.bound = FALSE]]
  /\ UNCHANGED <<target, cloud, snapshot, named, client, held, pc, local, bounds>>

\* Retention deletes the oldest snapshots, whatever forks still need them.
PruneSnapshot ==
  /\ held[Source] = NoProc /\ named /\ snapshot
  /\ snapshot' = FALSE
  /\ UNCHANGED <<rows, cloud, source, named, client, held, pc, local, bounds>>

\* ON DELETE CASCADE: the journal goes with the target.
DeleteTarget(t) ==
  /\ held[t] = NoProc /\ Deletable(t)
  /\ child' = [child EXCEPT ![t].state = IF target[t].sandbox THEN "deleted" ELSE @]
  /\ op' = [op EXCEPT ![t] = NoOp] /\ target' = [target EXCEPT ![t] = NoRow]
  /\ UNCHANGED <<strays, around, client, held, pc, local, bounds>>

\* The retry of a failed Environment: nobody provisions the target of a fork.
RetryTarget(t) ==
  /\ target[t].status = "error"
  /\ target' = [target EXCEPT ![t].status = "updating"]
  /\ UNCHANGED <<op, cloud, around, client, held, pc, local, bounds>>
-----------------------------------------------------------------------------
Progress(p) ==
  \/ Claim(p) \/ Replay(p) \/ Acquire(p) \/ Enter(p) \/ CreateTarget(p)
  \/ CreateRefused(p) \/ Recover(p) \/ FailFork(p) \/ Resume(p) \/ BeforeFork(p)
  \/ BeforeForkRefused(p) \/ MarkStarted(p) \/ CallLands(p) \/ CallRefused(p)
  \/ Record(p) \/ Publish(p) \/ PublishRefused(p)
  \/ Return(p) \/ CompleteKey(p) \/ Abort(p)
Failure(p) == CallFails(p) \/ Crash(p) \/ LoseConnection(p)
Surroundings ==
  \/ TerminateSource \/ DeleteSourceSandbox \/ RemoveSource \/ PruneSnapshot
  \/ \E t \in Targets : DeleteTarget(t) \/ RetryTarget(t)

Next ==
  \/ \E p \in Procs : Request(p) \/ Progress(p) \/ GiveUpWaiting(p) \/ Failure(p)
  \/ StrayLands
  \/ Surroundings

Spec == Init /\ [][Next]_vars
\* The recovery timer of every replica, and what it started, keep running.
FairSpec == Spec /\ \A p \in Procs : WF_vars(Progress(p))

-----------------------------------------------------------------------------
(* However often a client repeats a request, and whichever replica serves  *)
(* it, one target and one child are made, and no other one is answered     *)
(* (claimIdempotentResource, and the operation identity of the fork).      *)
OneForkPerKey ==
  /\ Cardinality({t \in Targets : child[t].state # "none" \/ op[t].phase # "none"}) <= 1
  /\ answers \subseteq {key.resource}

(* A target is ready only once its child has the state it was asked for    *)
(* and none of the credential references of its source, whatever call was  *)
(* lost and whoever finished the saga (resumeOperation).                   *)
PublishedIsClean ==
  \A t \in Targets : target[t].status = "ready" =>
    /\ op[t].phase = "completed" /\ target[t].sandbox
    /\ child[t].state = "paused" /\ child[t].stripped /\ (named => child[t].restored)

(* The key is completed only by a published saga, so that a repeated       *)
(* request is never answered by a target that is pending or failed, unless *)
(* the user has deleted the published one meanwhile (create): a request    *)
(* that waited for the lock then journals the same target again.           *)
DoneIsPublished ==
  key.done => \/ op[key.resource].phase = "completed"
              \/ child[key.resource].state = "deleted"

(* A journalled child is never given up: a recovery that decided on an old *)
(* copy does not fail an operation that has recorded its child, nor does a *)
(* phase go back while the operation exists (reconcilePending).            *)
Rank(phase) == CASE phase = "prepared" -> 1 [] phase = "forking" -> 2
                 [] phase = "native-ready" -> 3 [] phase = "failed" -> 3
                 [] phase = "completed" -> 4 [] OTHER -> 0
PhaseAdvances ==
  [][\A t \in Targets : op'[t] # NoOp =>
       /\ Rank(op'[t].phase) >= Rank(op[t].phase)
       /\ op[t].phase = "native-ready" => op'[t].phase # "failed"
       /\ op[t].phase = "failed" => op'[t].phase = "failed"]_vars

Orphan(t) == child[t].state = "paused" /\ ~target[t].sandbox

(* A child no Environment names yet belongs to a saga that recovery will   *)
(* take up, as long as the source is there (fork-service.ts, the class).   *)
OrphanIsRetried ==
  \A t \in Targets : Orphan(t) /\ source.row # "removed" => op[t].phase \in Pending

(* The same without that condition, as the design states it: "Retry or     *)
(* clean up an orphan child if SandPi crashes between steps."              *)
OrphanRetriedOrCleaned ==
  \A t \in Targets : Orphan(t) => op[t].phase \in Pending

(* Every saga ends, through crashes, lost answers and competing replicas,  *)
(* while what it copies from is left in place (the recovery interval), and *)
(* unless it repeats a fork whose child the user has deleted.              *)
SagaEnds ==
  \A t \in Targets :
    op[t].phase \in Pending
      ~> \/ op[t].phase \notin Pending
         \/ source.row # "ready" \/ ~snapshot \/ child[t].state = "deleted"
=============================================================================
