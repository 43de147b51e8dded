--------------------------- MODULE EgressCredential ---------------------------
(***************************************************************************)
(* The egress credentials of one Environment, in three stores: the rows of *)
(* PostgreSQL, the credential sources of Sandbox0, which alone hold the     *)
(* secrets, and the network policy of the Sandbox, which binds sources to   *)
(* its traffic.  Every operation runs under the lifecycle lock, one after   *)
(* the other; it may die or fail between any two of its steps, and a        *)
(* server that starts repairs what the rows say is unfinished.             *)
(*                                                                         *)
(* Simplifications.  The lock is not lost and no call lands after its       *)
(* caller has given up (EnvironmentLifecycle and EnvironmentFork are about  *)
(* those).  A policy is the set of credentials it binds.  A source has the  *)
(* right name and kind.                                                    *)
(***************************************************************************)
EXTENDS Naturals

CONSTANTS
  Creds, NoCred,
  MaxVersions,   \* bound on the versions of a source
  MaxOps,        \* bound on operations
  MaxFaults      \* bound on crashes and failed calls

VARIABLES
  env,        \* the Environment: ready, terminated or gone
  sandbox,    \* its Sandbox exists
  status, enabled, version,  \* environment_egress_credentials
  source,     \* the version of each source at Sandbox0, 0 if there is none
  bound,      \* the credentials the policy of the Sandbox binds
  op,         \* the operation that holds the lock
  revived,    \* credentials edited after their deletion had begun
  replaced,   \* those whose secret was replaced since the policy was last applied
  ops, faults

row   == <<status, enabled, version>>
past  == <<revived, replaced>>
vars  == <<env, sandbox, row, source, bound, op, past, ops, faults>>

Statuses == {"none", "provisioning", "active", "error", "deleting"}
Jobs     == {"none", "create", "update", "rotate", "delete", "network", "reconcile", "destroy"}
Places   == {"idle", "put", "record", "policy", "settle", "drop", "forget", "failed",
             "inspect", "activate", "sandbox", "metadata"}
NoOp     == [job |-> "none", at |-> "idle", cred |-> NoCred, todo |-> {}, doomed |-> {}]

TypeOK ==
  /\ env \in {"ready", "terminated", "gone"} /\ sandbox \in BOOLEAN
  /\ status \in [Creds -> Statuses] /\ enabled \in [Creds -> BOOLEAN]
  /\ version \in [Creds -> 0 .. MaxVersions] /\ source \in [Creds -> 0 .. MaxVersions]
  /\ {bound, revived, replaced} \subseteq SUBSET Creds
  /\ op \in [job : Jobs, at : Places, cred : Creds \cup {NoCred},
             todo : SUBSET Creds, doomed : SUBSET Creds]
  /\ ops \in Nat /\ faults \in Nat

Init ==
  /\ env = "ready" /\ sandbox = TRUE
  /\ status = [c \in Creds |-> "none"] /\ enabled = [c \in Creds |-> FALSE]
  /\ version = [c \in Creds |-> 0] /\ source = [c \in Creds |-> 0]
  /\ bound = {} /\ op = NoOp /\ revived = {} /\ replaced = {} /\ ops = 0 /\ faults = 0

Rows == {c \in Creds : status[c] # "none"}

-----------------------------------------------------------------------------
(* The conditions the properties rest on.  Beside each, a mistake that the *)
(* properties must notice when it takes the condition's place.             *)

\* toSandbox0NetworkPolicy
ActiveOnly == {c \in Rows : enabled[c] /\ status[c] = "active" /\ version[c] # 0}
Compiled == {c \in Rows : enabled[c] /\ status[c] # "deleting" /\ version[c] # 0}

GoOn(place) == op' = [op EXCEPT !.at = "forget"]
StopAt(place) == op' = [op EXCEPT !.at = place]

-----------------------------------------------------------------------------
At(place) == op.at = place
Go(place) == op' = [op EXCEPT !.at = place]
End == op' = NoOp
Mark(c, s) == status' = [status EXCEPT ![c] = s]
Begin(job, place, c) ==
  /\ op = NoOp /\ ops < MaxOps /\ ops' = ops + 1
  /\ op' = [NoOp EXCEPT !.job = job, !.at = place, !.cred = c]

\* The row is inserted before the source is made.
Create(c) ==
  /\ env = "ready" /\ status[c] = "none" /\ Begin("create", "put", c)
  /\ Mark(c, "provisioning") /\ enabled' \in {[enabled EXCEPT ![c] = b] : b \in BOOLEAN}
  /\ UNCHANGED <<env, sandbox, version, source, bound, past, faults>>

\* Neither an edit nor a replacement of the secret looks at the status.
Revive(c) == revived' = IF status[c] = "deleting" THEN revived \cup {c} ELSE revived

Update(c) ==
  /\ env = "ready" /\ c \in Rows /\ Begin("update", "policy", c)
  /\ Mark(c, "provisioning") /\ Revive(c)
  /\ \E b \in BOOLEAN :
       (b => version[c] # 0) /\ enabled' = [enabled EXCEPT ![c] = b]
  /\ UNCHANGED <<env, sandbox, version, source, bound, replaced, faults>>

Rotate(c) ==
  /\ env = "ready" /\ c \in Rows /\ Begin("rotate", "put", c)
  /\ Mark(c, "provisioning") /\ Revive(c)
  /\ UNCHANGED <<env, sandbox, enabled, version, source, bound, replaced, faults>>

Delete(c) ==
  /\ env = "ready" /\ c \in Rows /\ Begin("delete", "policy", c)
  /\ Mark(c, "deleting")
  /\ UNCHANGED <<env, sandbox, enabled, version, source, bound, past, faults>>

\* EnvironmentService.update: the network settings carry the credentials along.
Network ==
  /\ env = "ready" /\ Begin("network", "policy", NoCred)
  /\ UNCHANGED <<env, sandbox, row, source, bound, past, faults>>

\* A server starts: reconcilePending takes what a row says is unfinished.
Reconcile ==
  /\ env # "gone" /\ \E c \in Creds : status[c] \in {"provisioning", "error", "deleting"}
  /\ op = NoOp /\ ops < MaxOps /\ ops' = ops + 1
  /\ LET doomed == {c \in Rows : env = "terminated" \/ status[c] = "deleting"} IN
     op' = [NoOp EXCEPT !.job = "reconcile", !.doomed = doomed, !.todo = Rows \ doomed,
                        !.at = IF env = "terminated" THEN "drop" ELSE "inspect"]
  /\ UNCHANGED <<env, sandbox, row, source, bound, past, faults>>

\* The Environment is deleted: its Sandbox first, then the known sources.
Destroy ==
  /\ env # "gone" /\ Begin("destroy", "sandbox", NoCred) /\ env' = "terminated"
  /\ UNCHANGED <<sandbox, row, source, bound, past, faults>>

-----------------------------------------------------------------------------
(* The steps of an operation.                                              *)

\* createOrDiscoverSource, updateEnvironmentCredentialSource: the number of the
\* version stands for the secret.
Put ==
  LET c == op.cred IN
  /\ At("put") /\ source[c] < MaxVersions
  /\ source' = [source EXCEPT ![c] = @ + 1]
  /\ op' = [op EXCEPT !.at = "record", !.todo = IF source[c] = 0 THEN {c} ELSE {}]
  /\ UNCHANGED <<env, sandbox, row, bound, past, ops, faults>>

\* Sandbox0 advances the bindings of a source: only a new one needs the policy.
Record ==
  /\ At("record") /\ version' = [version EXCEPT ![op.cred] = source[op.cred]]
  /\ op' = [op EXCEPT !.at = IF op.todo = {} THEN "settle" ELSE "policy", !.todo = {}]
  /\ replaced' = IF op.todo = {} THEN replaced \cup {op.cred} ELSE replaced
  /\ UNCHANGED <<env, sandbox, status, enabled, source, bound, revived, ops, faults>>

AfterPolicy == [create |-> "settle", update |-> "settle", rotate |-> "settle",
                delete |-> "drop", network |-> "idle", reconcile |-> "activate"]
\* applyEnvironmentPolicy: the whole policy, from the rows as they are now.
\* Sandbox0 may refuse one that names a source it does not have.
Policy ==
  /\ At("policy")
  /\ \/ /\ bound' = IF sandbox THEN Compiled ELSE bound
        /\ replaced' = {}
        /\ IF op.job = "network" THEN End
             ELSE op' = [op EXCEPT !.at = AfterPolicy[op.job],
                                   !.doomed = IF op.job = "delete" THEN {op.cred} ELSE @]
     \/ (\E c \in Compiled : source[c] = 0) /\ Go("failed") /\ UNCHANGED <<bound, replaced>>
  /\ UNCHANGED <<env, sandbox, row, source, revived, ops, faults>>

Settle ==
  /\ At("settle") /\ Mark(op.cred, IF version[op.cred] # 0 THEN "active" ELSE "error") /\ End
  /\ UNCHANGED <<env, sandbox, enabled, version, source, bound, past, ops, faults>>

\* Sandbox0 refuses to delete a source that a policy binds.
Refused(c) == sandbox /\ c \in bound
\* The deletion of the Environment marks the rows as it goes.
Drop(c) ==
  /\ At("drop") /\ c \in op.doomed
  /\ IF Refused(c) THEN StopAt("failed") /\ UNCHANGED source
       ELSE source' = [source EXCEPT ![c] = 0] /\ op' = [op EXCEPT !.at = "forget", !.cred = c]
  /\ IF op.job = "destroy" THEN Mark(c, "deleting") ELSE UNCHANGED status
  /\ UNCHANGED <<env, sandbox, enabled, version, bound, past, ops, faults>>

\* It leaves the rows to the end.
Forget ==
  LET c == op.cred  rest == op.doomed \ {op.cred} IN
  /\ At("forget")
  /\ IF op.job = "destroy" THEN UNCHANGED row
       ELSE /\ Mark(c, "none") /\ enabled' = [enabled EXCEPT ![c] = FALSE]
            /\ version' = [version EXCEPT ![c] = 0]
  /\ op' = IF rest # {} THEN [op EXCEPT !.at = "drop", !.doomed = rest]
           ELSE IF op.job = "destroy" THEN [op EXCEPT !.at = "metadata", !.doomed = {}] ELSE NoOp
  /\ revived' = revived \ {c} /\ replaced' = replaced \ {c}
  /\ UNCHANGED <<env, sandbox, source, bound, ops, faults>>

\* Reconciliation reads every source that is not being deleted.
Inspect ==
  /\ At("inspect")
  /\ IF op.todo = {} THEN Go("policy") /\ UNCHANGED <<status, version>>
       ELSE \E c \in op.todo :
              /\ op' = [op EXCEPT !.todo = @ \ {c}]
              /\ version' = [version EXCEPT ![c] = source[c]]
              /\ Mark(c, IF source[c] = 0 THEN "error" ELSE "provisioning")
  /\ UNCHANGED <<env, sandbox, enabled, source, bound, past, ops, faults>>

Activate ==
  LET named == {c \in Rows : status[c] \notin {"active", "deleting"} /\ version[c] # 0} IN
  /\ At("activate")
  /\ IF named # {} THEN (\E c \in named : Mark(c, "active")) /\ UNCHANGED op
     ELSE (IF op.doomed = {} THEN End ELSE Go("drop")) /\ UNCHANGED status
  /\ UNCHANGED <<env, sandbox, enabled, version, source, bound, past, ops, faults>>

DeleteSandbox ==
  /\ At("sandbox") /\ sandbox' = FALSE /\ bound' = {}
  /\ op' = [op EXCEPT !.at = IF Rows = {} THEN "metadata" ELSE "drop", !.doomed = Rows]
  /\ UNCHANGED <<env, row, source, past, ops, faults>>

DeleteMetadata ==
  /\ At("metadata") /\ End /\ env' = "gone"
  /\ status' = [c \in Creds |-> "none"] /\ enabled' = [c \in Creds |-> FALSE]
  /\ version' = [c \in Creds |-> 0] /\ revived' = {} /\ replaced' = {}
  /\ UNCHANGED <<sandbox, source, bound, ops, faults>>

\* The error is recorded on the credential of the operation.
Failed ==
  /\ At("failed") /\ End
  /\ IF op.job \in {"create", "update", "rotate"} THEN Mark(op.cred, "error") ELSE UNCHANGED status
  /\ UNCHANGED <<env, sandbox, enabled, version, source, bound, past, ops, faults>>

\* A call fails, before or after it took effect.
CallFails ==
  /\ faults < MaxFaults /\ faults' = faults + 1 /\ StopAt("failed")
  /\ \/ /\ At("put") /\ UNCHANGED <<status, bound, sandbox>>
        /\ \/ UNCHANGED source
           \/ source[op.cred] < MaxVersions /\ source' = [source EXCEPT ![op.cred] = @ + 1]
     \/ At("policy") /\ bound' \in {bound, IF sandbox THEN Compiled ELSE bound}
        /\ UNCHANGED <<status, source, sandbox>>
     \/ /\ At("drop") /\ UNCHANGED <<bound, sandbox>>
        /\ \E c \in op.doomed :
             /\ ~Refused(c) /\ source' \in {source, [source EXCEPT ![c] = 0]}
             /\ IF op.job = "destroy" THEN Mark(c, "deleting") ELSE UNCHANGED status
     \/ /\ At("sandbox") /\ UNCHANGED <<status, source>>
        /\ UNCHANGED <<sandbox, bound>> \/ (sandbox' = FALSE /\ bound' = {})
  /\ UNCHANGED <<env, enabled, version, past, ops>>

Crash ==
  /\ op # NoOp /\ faults < MaxFaults /\ faults' = faults + 1 /\ End
  /\ UNCHANGED <<env, sandbox, row, source, bound, past, ops>>

Steps ==
  \/ Put \/ Record \/ Policy \/ Settle \/ (\E c \in Creds : Drop(c)) \/ Forget
  \/ Inspect \/ Activate \/ DeleteSandbox \/ DeleteMetadata \/ Failed

Next ==
  \/ \E c \in Creds : Create(c) \/ Update(c) \/ Rotate(c) \/ Delete(c)
  \/ Network \/ Reconcile \/ Destroy \/ Steps \/ CallFails \/ Crash

Spec == Init /\ [][Next]_vars

-----------------------------------------------------------------------------
(* Properties                                                              *)

Enforced(c) == c \in bound <=> enabled[c]

\* A credential that is shown active is what the Sandbox enforces: its source
\* has the version shown or a later one, and it is bound exactly when it is enabled,
\* whatever became of the operations on the other credentials.  The
\* exceptions: one edited after its deletion had begun may name a source that
\* is gone, and the replacement of a secret repairs no policy.
ActiveIsEnforced ==
  env = "ready" =>
    \A c \in Creds : status[c] = "active" =>
      /\ c \notin replaced => Enforced(c)
      /\ c \notin revived => version[c] \in 1 .. source[c]

\* No secret is left at Sandbox0 that no row names, wherever an operation dies:
\* the row comes before the source and goes after it.
SecretsHaveRows == \A c \in Creds : source[c] # 0 => c \in Rows

\* "Only a recreated source needs the policy to restore its binding."
\* (egress-credential-service.ts:255): an active credential is bound when it is
\* enabled, also when its secret was replaced.
ActiveIsBound ==
  env = "ready" => \A c \in Creds : status[c] = "active" => Enforced(c)
=============================================================================
