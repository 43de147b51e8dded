------------------------ MODULE EgressCredentialProofs ------------------------
(***************************************************************************)
(* The safety of EgressCredential for any number of credentials, versions, *)
(* operations and failures.  The invariant says what an operation may rely *)
(* on at its place, and what a crash may leave of it in the three stores.  *)
(***************************************************************************)
EXTENDS EgressCredential, TLAPS

\* Which operation is at which place.
Placed ==
  /\ op.at \in {"put", "record"} => op.job \in {"create", "rotate"}
  /\ op.at = "settle" => op.job \in {"create", "update", "rotate"}
  /\ op.at = "policy" => op.job \in DOMAIN AfterPolicy
  /\ op.at \in {"inspect", "activate"} => op.job = "reconcile"
  /\ op.at \in {"drop", "forget"} => op.job \in {"delete", "reconcile", "destroy"}
  /\ op.at \in {"sandbox", "metadata"} => op.job = "destroy"

\* An operation works on a credential whose row it has marked.
Marked ==
  /\ op.job \in {"create", "update", "rotate"} =>
       op.cred \in Creds /\ status[op.cred] = "provisioning"
  /\ op.job = "delete" /\ op.at = "policy" => op.cred \in Creds /\ status[op.cred] = "deleting"
  /\ op.at = "inspect" => \A c \in op.todo : status[c] \notin {"none", "deleting"}
  /\ env = "ready" => /\ op.job # "destroy"
                      /\ \A c \in op.doomed : status[c] = "deleting"

\* Only the deletion of the Environment takes the Sandbox away.
SandboxThere == env = "ready" => sandbox

\* What remains of a secret while its row is about to go.
Dropped ==
  /\ op.at = "forget" => op.cred \in op.doomed /\ source[op.cred] = 0
  /\ op.job = "destroy" => /\ op.at \in {"drop", "forget"} =>
                                \A c \in Creds : source[c] # 0 => c \in op.doomed
                           /\ op.at = "metadata" => \A c \in Creds : source[c] = 0

\* A version is recorded only of a row, is not ahead of its source unless the source
\* may have been deleted, and is there when the credential is active.
Versioned ==
  \A c \in Creds :
    /\ status[c] = "none" => version[c] = 0
    /\ status[c] = "active" => version[c] # 0
    /\ env = "ready" /\ status[c] # "deleting" /\ c \notin revived => version[c] <= source[c]

\* Past the policy, what is about to be shown active is what the policy says.
Applied ==
  env = "ready" =>
    /\ op.at = "settle" /\ op.cred \notin replaced /\ version[op.cred] # 0 => Enforced(op.cred)
    /\ op.at = "activate" =>
         \A c \in Creds : status[c] # "deleting" /\ version[c] # 0 => Enforced(c)

Inductive ==
  /\ TypeOK /\ Placed /\ Marked /\ SandboxThere /\ Dropped /\ Versioned /\ Applied
  /\ SecretsHaveRows /\ ActiveIsEnforced
-----------------------------------------------------------------------------
(* What an operation does at the policy, and one lemma per conjunct.       *)

\* Where an operation goes from the policy.
LEMMA PolicyNext ==
  /\ DOMAIN AfterPolicy = {"create", "update", "rotate", "delete", "network", "reconcile"}
  /\ AfterPolicy["create"] = "settle" /\ AfterPolicy["update"] = "settle"
  /\ AfterPolicy["rotate"] = "settle" /\ AfterPolicy["delete"] = "drop"
  /\ AfterPolicy["reconcile"] = "activate"
<1>1. DOMAIN AfterPolicy = {"create", "update", "rotate", "delete", "network", "reconcile"}
  BY DEF AfterPolicy
<1>2. AfterPolicy["create"] = "settle" /\ AfterPolicy["update"] = "settle"
  BY DEF AfterPolicy
<1>3. /\ AfterPolicy["rotate"] = "settle" /\ AfterPolicy["delete"] = "drop"
      /\ AfterPolicy["reconcile"] = "activate"
  BY DEF AfterPolicy
<1> QED
  BY <1>1, <1>2, <1>3

\* What the policy makes of an operation.
LEMMA PolicyMoves ==
  ASSUME TypeOK, Placed, Marked, Policy
  PROVE  /\ op' \in [job : Jobs, at : Places, cred : Creds \cup {NoCred},
                     todo : SUBSET Creds, doomed : SUBSET Creds]
         /\ \/ op.job = "network" /\ op' = NoOp
            \/ /\ op'.job = op.job /\ op'.cred = op.cred /\ op'.todo = op.todo
               /\ \/ /\ op'.doomed = op.doomed
                     /\ \/ op'.at = "failed" /\ UNCHANGED <<bound, replaced>>
                        \/ op'.at = "settle" /\ op.job \in {"create", "update", "rotate"}
                        \/ op'.at = "activate" /\ op.job = "reconcile"
                  \/ op'.at = "drop" /\ op.job = "delete" /\ op'.doomed = {op.cred}
<1> DEFINE Moved == [op EXCEPT !.at = AfterPolicy[op.job],
                               !.doomed = IF op.job = "delete" THEN {op.cred} ELSE @]
<1>0. op \in [job : Jobs, at : Places, cred : Creds \cup {NoCred},
              todo : SUBSET Creds, doomed : SUBSET Creds]
  BY DEF TypeOK
<1>1. op.job \in {"create", "update", "rotate", "delete", "network", "reconcile"}
  BY PolicyNext DEF Policy, Placed, At
<1>2. \/ op' = NoOp /\ op.job = "network"
      \/ op' = [op EXCEPT !.at = "failed"] /\ UNCHANGED <<bound, replaced>>
      \/ op' = Moved /\ op.job # "network"
  BY DEF Policy, End, Go
<1>3. CASE op' = NoOp /\ op.job = "network"
  BY <1>3 DEF NoOp, Jobs, Places
<1>4. CASE op' = [op EXCEPT !.at = "failed"] /\ UNCHANGED <<bound, replaced>>
  BY <1>0, <1>4 DEF Places
<1>5. CASE op' = Moved /\ op.job # "network"
  <2>1. /\ op'.job = op.job /\ op'.cred = op.cred /\ op'.todo = op.todo
        /\ op'.at = AfterPolicy[op.job]
        /\ op'.doomed = IF op.job = "delete" THEN {op.cred} ELSE op.doomed
    BY <1>0, <1>5
  <2>2. AfterPolicy[op.job] \in Places /\ (op.job = "delete" => op.cred \in Creds)
    BY <1>1, <1>5, PolicyNext DEF Places, Marked, Policy, At
  <2>3. op' \in [job : Jobs, at : Places, cred : Creds \cup {NoCred},
                 todo : SUBSET Creds, doomed : SUBSET Creds]
    BY <1>0, <1>5, <2>2
  <2>4. CASE op.job \in {"create", "update", "rotate"}
    BY <2>1, <2>3, <2>4, PolicyNext
  <2>5. CASE op.job = "delete"
    BY <2>1, <2>3, <2>5, PolicyNext
  <2>6. CASE op.job = "reconcile"
    BY <2>1, <2>3, <2>6, PolicyNext
  <2> QED
    BY <1>1, <1>5, <2>4, <2>5, <2>6
<1> QED
  BY <1>2, <1>3, <1>4, <1>5

\* And of the rest.
LEMMA PolicyWrites ==
  ASSUME Policy
  PROVE  /\ op.at = "policy" /\ UNCHANGED <<env, sandbox, row, source, revived, ops, faults>>
         /\ \/ op' = [op EXCEPT !.at = "failed"] /\ UNCHANGED <<bound, replaced>>
            \/ bound' = (IF sandbox THEN Compiled ELSE bound) /\ replaced' = {}
BY DEF Policy, At, Go


\* Every step keeps the types.
LEMMA TypeStep ==
  ASSUME MaxVersions \in Nat, TypeOK, Placed, Marked, [Next]_vars
  PROVE  TypeOK'
<1> DEFINE RowTypes == /\ env \in {"ready", "terminated", "gone"} /\ ops \in Nat /\ faults \in Nat
                       /\ status \in [Creds -> Statuses]
                       /\ version \in [Creds -> 0 .. MaxVersions]
                       /\ source \in [Creds -> 0 .. MaxVersions]
<1> DEFINE FlagTypes == sandbox \in BOOLEAN /\ enabled \in [Creds -> BOOLEAN]
<1> DEFINE PastTypes == {bound, revived, replaced} \subseteq SUBSET Creds
<1> DEFINE OpType == op \in [job : Jobs, at : Places, cred : Creds \cup {NoCred},
                             todo : SUBSET Creds, doomed : SUBSET Creds]
<1> USE DEF NoOp, row, past, TypeOK, Statuses, Jobs, Places, Placed, Marked
\* Starting an operation.
<1>1. ASSUME NEW c \in Creds, Create(c) PROVE TypeOK'
  <2>1. RowTypes'
    BY <1>1 DEF Create, Begin, Mark
  <2>2. FlagTypes'
    BY <1>1 DEF Create, Begin, Mark
  <2>3. PastTypes'
    BY <1>1 DEF Create, Begin, Mark
  <2>4. OpType'
    BY <1>1 DEF Create, Begin, Mark
  <2> QED
    BY <2>1, <2>2, <2>3, <2>4
<1>2. ASSUME NEW c \in Creds, Update(c) PROVE TypeOK'
  <2>1. RowTypes'
    BY <1>2 DEF Update, Begin, Mark, Revive, Rows
  <2>2. FlagTypes'
    BY <1>2 DEF Update, Begin, Mark, Revive, Rows
  <2>3. PastTypes'
    BY <1>2 DEF Update, Begin, Mark, Revive, Rows
  <2>4. OpType'
    BY <1>2 DEF Update, Begin, Mark, Revive, Rows
  <2> QED
    BY <2>1, <2>2, <2>3, <2>4
<1>3. ASSUME NEW c \in Creds, Rotate(c) PROVE TypeOK'
  <2>1. RowTypes'
    BY <1>3 DEF Rotate, Begin, Mark, Revive, Rows
  <2>2. FlagTypes'
    BY <1>3 DEF Rotate, Begin, Mark, Revive, Rows
  <2>3. PastTypes'
    BY <1>3 DEF Rotate, Begin, Mark, Revive, Rows
  <2>4. OpType'
    BY <1>3 DEF Rotate, Begin, Mark, Revive, Rows
  <2> QED
    BY <2>1, <2>2, <2>3, <2>4
<1>4. ASSUME NEW c \in Creds, Delete(c) PROVE TypeOK'
  <2>1. RowTypes'
    BY <1>4 DEF Delete, Begin, Mark, Rows
  <2>2. FlagTypes'
    BY <1>4 DEF Delete, Begin, Mark, Rows
  <2>3. PastTypes'
    BY <1>4 DEF Delete, Begin, Mark, Rows
  <2>4. OpType'
    BY <1>4 DEF Delete, Begin, Mark, Rows
  <2> QED
    BY <2>1, <2>2, <2>3, <2>4
<1>5. ASSUME Network PROVE TypeOK'
  <2>1. RowTypes'
    BY <1>5 DEF Network, Begin
  <2>2. FlagTypes'
    BY <1>5 DEF Network, Begin
  <2>3. PastTypes'
    BY <1>5 DEF Network, Begin
  <2>4. OpType'
    BY <1>5 DEF Network, Begin
  <2> QED
    BY <2>1, <2>2, <2>3, <2>4
<1>6. ASSUME Reconcile PROVE TypeOK'
  <2>1. RowTypes'
    BY <1>6 DEF Reconcile, Rows
  <2>2. FlagTypes'
    BY <1>6 DEF Reconcile, Rows
  <2>3. PastTypes'
    BY <1>6 DEF Reconcile, Rows
  <2>4. OpType'
    BY <1>6 DEF Reconcile, Rows
  <2> QED
    BY <2>1, <2>2, <2>3, <2>4
<1>7. ASSUME Destroy PROVE TypeOK'
  <2>1. RowTypes'
    BY <1>7 DEF Destroy, Begin
  <2>2. FlagTypes'
    BY <1>7 DEF Destroy, Begin
  <2>3. PastTypes'
    BY <1>7 DEF Destroy, Begin
  <2>4. OpType'
    BY <1>7 DEF Destroy, Begin
  <2> QED
    BY <2>1, <2>2, <2>3, <2>4
\* Its steps.
<1>8. ASSUME Put PROVE TypeOK'
  <2>1. RowTypes'
    BY <1>8 DEF Put, At
  <2>2. FlagTypes'
    BY <1>8 DEF Put, At
  <2>3. PastTypes'
    BY <1>8 DEF Put, At
  <2>4. OpType'
    BY <1>8 DEF Put, At
  <2> QED
    BY <2>1, <2>2, <2>3, <2>4
<1>9. ASSUME Record PROVE TypeOK'
  <2>1. RowTypes'
    BY <1>9 DEF Record, At
  <2>2. FlagTypes'
    BY <1>9 DEF Record, At
  <2>3. PastTypes'
    BY <1>9 DEF Record, At
  <2>4. OpType'
    BY <1>9 DEF Record, At
  <2> QED
    BY <2>1, <2>2, <2>3, <2>4
<1>10. ASSUME Policy PROVE TypeOK'
  <2>1. RowTypes' /\ FlagTypes'
    BY <1>10, PolicyWrites
  <2>2. PastTypes'
    BY <1>10, PolicyWrites DEF Compiled, Rows
  <2>3. OpType'
    BY <1>10, PolicyMoves
  <2> QED
    BY <2>1, <2>2, <2>3
<1>11. ASSUME Settle PROVE TypeOK'
  BY <1>11 DEF Settle, At, Mark, End
<1>12. ASSUME NEW c \in Creds, Drop(c) PROVE TypeOK'
  <2>1. RowTypes'
    BY <1>12 DEF Drop, At, Refused, StopAt, Mark
  <2>2. FlagTypes'
    BY <1>12 DEF Drop, At, Refused, StopAt, Mark
  <2>3. PastTypes'
    BY <1>12 DEF Drop, At, Refused, StopAt, Mark
  <2>4. OpType'
    BY <1>12 DEF Drop, At, Refused, StopAt, Mark
  <2> QED
    BY <2>1, <2>2, <2>3, <2>4
<1>13. ASSUME Forget PROVE TypeOK'
  <2>1. RowTypes'
    BY <1>13 DEF Forget, At, Mark
  <2>2. FlagTypes'
    BY <1>13 DEF Forget, At, Mark
  <2>3. PastTypes'
    BY <1>13 DEF Forget, At, Mark
  <2>4. OpType'
    BY <1>13 DEF Forget, At, Mark
  <2> QED
    BY <2>1, <2>2, <2>3, <2>4
<1>14. ASSUME Inspect PROVE TypeOK'
  BY <1>14 DEF Inspect, At, Go, Mark
<1>15. ASSUME Activate PROVE TypeOK'
  BY <1>15 DEF Activate, At, Mark, End, Go, Rows
\* The end of the Environment.
<1>16. ASSUME DeleteSandbox PROVE TypeOK'
  BY <1>16 DEF DeleteSandbox, At, Rows
<1>17. ASSUME DeleteMetadata PROVE TypeOK'
  BY <1>17 DEF DeleteMetadata, At, End
\* Failures.
<1>18. ASSUME Failed PROVE TypeOK'
  BY <1>18 DEF Failed, At, End, Mark
<1>19. ASSUME CallFails PROVE TypeOK'
  <2>1. RowTypes'
    BY <1>19 DEF CallFails, At, StopAt, Compiled, Rows, Mark, Refused
  <2>2. FlagTypes'
    BY <1>19 DEF CallFails, At, StopAt, Compiled, Rows, Mark, Refused
  <2>3. PastTypes'
    BY <1>19 DEF CallFails, At, StopAt, Compiled, Rows, Mark, Refused
  <2>4. OpType'
    BY <1>19 DEF CallFails, At, StopAt, Compiled, Rows, Mark, Refused
  <2> QED
    BY <2>1, <2>2, <2>3, <2>4
<1>20. ASSUME Crash PROVE TypeOK'
  BY <1>20 DEF Crash, End
<1>21. ASSUME UNCHANGED vars PROVE TypeOK'
  BY <1>21 DEF vars
<1> QED
  BY <1>1, <1>2, <1>3, <1>4, <1>5, <1>6, <1>7, <1>8, <1>9, <1>10, <1>11, <1>12, <1>13,
       <1>14, <1>15, <1>16, <1>17, <1>18, <1>19, <1>20, <1>21 DEF Next, Steps

\* The places of each operation.
LEMMA PlacedStep == ASSUME TypeOK, Placed, Marked, [Next]_vars PROVE Placed'
<1> USE DEF NoOp, row, past, TypeOK, Statuses, Jobs, Places, Placed
\* Starting an operation.
<1>1. ASSUME NEW c \in Creds, Create(c) PROVE Placed'
  BY <1>1, PolicyNext DEF Create, Begin, Mark
<1>2. ASSUME NEW c \in Creds, Update(c) PROVE Placed'
  BY <1>2, PolicyNext DEF Update, Begin, Mark, Revive, Rows
<1>3. ASSUME NEW c \in Creds, Rotate(c) PROVE Placed'
  BY <1>3, PolicyNext DEF Rotate, Begin, Mark, Revive, Rows
<1>4. ASSUME NEW c \in Creds, Delete(c) PROVE Placed'
  BY <1>4, PolicyNext DEF Delete, Begin, Mark, Rows
<1>5. ASSUME Network PROVE Placed'
  BY <1>5, PolicyNext DEF Network, Begin
<1>6. ASSUME Reconcile PROVE Placed'
  BY <1>6, PolicyNext DEF Reconcile, Rows
<1>7. ASSUME Destroy PROVE Placed'
  BY <1>7, PolicyNext DEF Destroy, Begin
\* Its steps.
<1>8. ASSUME Put PROVE Placed'
  BY <1>8, PolicyNext DEF Put, At
<1>9. ASSUME Record PROVE Placed'
  BY <1>9, PolicyNext DEF Record, At
<1>10. ASSUME Policy PROVE Placed'
  BY <1>10, PolicyNext, PolicyMoves, PolicyWrites
<1>11. ASSUME Settle PROVE Placed'
  BY <1>11, PolicyNext DEF Settle, At, Mark, End
<1>12. ASSUME NEW c \in Creds, Drop(c) PROVE Placed'
  <2>1. CASE Refused(c)
    BY <1>12, <2>1, PolicyNext DEF Drop, At, StopAt, Mark
  <2>2. CASE ~Refused(c)
    <3>1. op' = [op EXCEPT !.at = "forget", !.cred = c] /\ source' = [source EXCEPT ![c] = 0]
      BY <1>12, <2>2 DEF Drop
    <3>2. op'.at = "forget" /\ op'.cred = c /\ op'.job = op.job /\ op'.doomed = op.doomed
      BY <3>1
    <3> QED
      BY <1>12, <2>2, <3>1, <3>2, PolicyNext DEF Drop, At, Mark
  <2> QED
    BY <2>1, <2>2
<1>13. ASSUME Forget PROVE Placed'
  BY <1>13, PolicyNext DEF Forget, At, Mark
<1>14. ASSUME Inspect PROVE Placed'
  BY <1>14, PolicyNext DEF Inspect, At, Go, Mark
<1>15. ASSUME Activate PROVE Placed'
  BY <1>15, PolicyNext DEF Activate, At, Mark, End, Go, Rows
\* The end of the Environment.
<1>16. ASSUME DeleteSandbox PROVE Placed'
  BY <1>16, PolicyNext DEF DeleteSandbox, At, Rows
<1>17. ASSUME DeleteMetadata PROVE Placed'
  BY <1>17, PolicyNext DEF DeleteMetadata, At, End
\* Failures.
<1>18. ASSUME Failed PROVE Placed'
  BY <1>18, PolicyNext DEF Failed, At, End, Mark
<1>19. ASSUME CallFails PROVE Placed'
  BY <1>19, PolicyNext DEF CallFails, At, StopAt, Compiled, Rows, Mark, Refused
<1>20. ASSUME Crash PROVE Placed'
  BY <1>20, PolicyNext DEF Crash, End
<1>21. ASSUME UNCHANGED vars PROVE Placed'
  BY <1>21, PolicyNext DEF vars
<1> QED
  BY <1>1, <1>2, <1>3, <1>4, <1>5, <1>6, <1>7, <1>8, <1>9, <1>10, <1>11, <1>12, <1>13,
       <1>14, <1>15, <1>16, <1>17, <1>18, <1>19, <1>20, <1>21 DEF Next, Steps

\* The row stays marked while its operation lasts: there is no other.
LEMMA MarkedStep == ASSUME TypeOK, Placed, Marked, [Next]_vars PROVE Marked'
<1> USE DEF NoOp, row, past, TypeOK, Statuses, Jobs, Places, Placed, Marked
\* Starting an operation.
<1>1. ASSUME NEW c \in Creds, Create(c) PROVE Marked'
  BY <1>1 DEF Create, Begin, Mark
<1>2. ASSUME NEW c \in Creds, Update(c) PROVE Marked'
  BY <1>2 DEF Update, Begin, Mark, Revive, Rows
<1>3. ASSUME NEW c \in Creds, Rotate(c) PROVE Marked'
  BY <1>3 DEF Rotate, Begin, Mark, Revive, Rows
<1>4. ASSUME NEW c \in Creds, Delete(c) PROVE Marked'
  BY <1>4 DEF Delete, Begin, Mark, Rows
<1>5. ASSUME Network PROVE Marked'
  BY <1>5 DEF Network, Begin
<1>6. ASSUME Reconcile PROVE Marked'
  BY <1>6 DEF Reconcile, Rows
<1>7. ASSUME Destroy PROVE Marked'
  BY <1>7 DEF Destroy, Begin
\* Its steps.
<1>8. ASSUME Put PROVE Marked'
  BY <1>8 DEF Put, At
<1>9. ASSUME Record PROVE Marked'
  BY <1>9 DEF Record, At
<1>10. ASSUME Policy PROVE Marked'
  BY <1>10, PolicyMoves, PolicyWrites
<1>11. ASSUME Settle PROVE Marked'
  BY <1>11 DEF Settle, At, Mark, End
<1>12. ASSUME NEW c \in Creds, Drop(c) PROVE Marked'
  <2>1. CASE Refused(c)
    BY <1>12, <2>1 DEF Drop, At, StopAt, Mark
  <2>2. CASE ~Refused(c)
    <3>1. op' = [op EXCEPT !.at = "forget", !.cred = c] /\ source' = [source EXCEPT ![c] = 0]
      BY <1>12, <2>2 DEF Drop
    <3>2. op'.at = "forget" /\ op'.cred = c /\ op'.job = op.job /\ op'.doomed = op.doomed
      BY <3>1
    <3> QED
      BY <1>12, <2>2, <3>1, <3>2 DEF Drop, At, Mark
  <2> QED
    BY <2>1, <2>2
<1>13. ASSUME Forget PROVE Marked'
  BY <1>13 DEF Forget, At, Mark
<1>14. ASSUME Inspect PROVE Marked'
  BY <1>14 DEF Inspect, At, Go, Mark
<1>15. ASSUME Activate PROVE Marked'
  BY <1>15 DEF Activate, At, Mark, End, Go, Rows
\* The end of the Environment.
<1>16. ASSUME DeleteSandbox PROVE Marked'
  BY <1>16 DEF DeleteSandbox, At, Rows
<1>17. ASSUME DeleteMetadata PROVE Marked'
  BY <1>17 DEF DeleteMetadata, At, End
\* Failures.
<1>18. ASSUME Failed PROVE Marked'
  BY <1>18 DEF Failed, At, End, Mark
<1>19. ASSUME CallFails PROVE Marked'
  BY <1>19 DEF CallFails, At, StopAt, Compiled, Rows, Mark, Refused
<1>20. ASSUME Crash PROVE Marked'
  BY <1>20 DEF Crash, End
<1>21. ASSUME UNCHANGED vars PROVE Marked'
  BY <1>21 DEF vars
<1> QED
  BY <1>1, <1>2, <1>3, <1>4, <1>5, <1>6, <1>7, <1>8, <1>9, <1>10, <1>11, <1>12, <1>13,
       <1>14, <1>15, <1>16, <1>17, <1>18, <1>19, <1>20, <1>21 DEF Next, Steps

\* The Sandbox goes with the Environment.
LEMMA SandboxStep == ASSUME TypeOK, Placed, Marked, SandboxThere, [Next]_vars PROVE SandboxThere'
<1> USE DEF NoOp, row, past, TypeOK, Statuses, Jobs, Places, Placed, Marked,
     SandboxThere
\* Starting an operation.
<1>1. ASSUME NEW c \in Creds, Create(c) PROVE SandboxThere'
  BY <1>1 DEF Create, Begin, Mark
<1>2. ASSUME NEW c \in Creds, Update(c) PROVE SandboxThere'
  BY <1>2 DEF Update, Begin, Mark, Revive, Rows
<1>3. ASSUME NEW c \in Creds, Rotate(c) PROVE SandboxThere'
  BY <1>3 DEF Rotate, Begin, Mark, Revive, Rows
<1>4. ASSUME NEW c \in Creds, Delete(c) PROVE SandboxThere'
  BY <1>4 DEF Delete, Begin, Mark, Rows
<1>5. ASSUME Network PROVE SandboxThere'
  BY <1>5 DEF Network, Begin
<1>6. ASSUME Reconcile PROVE SandboxThere'
  BY <1>6 DEF Reconcile, Rows
<1>7. ASSUME Destroy PROVE SandboxThere'
  BY <1>7 DEF Destroy, Begin
\* Its steps.
<1>8. ASSUME Put PROVE SandboxThere'
  BY <1>8 DEF Put, At
<1>9. ASSUME Record PROVE SandboxThere'
  BY <1>9 DEF Record, At
<1>10. ASSUME Policy PROVE SandboxThere'
  BY <1>10 DEF Policy, At, Compiled, Rows, End, Go
<1>11. ASSUME Settle PROVE SandboxThere'
  BY <1>11 DEF Settle, At, Mark, End
<1>12. ASSUME NEW c \in Creds, Drop(c) PROVE SandboxThere'
  BY <1>12 DEF Drop, At, Refused, StopAt, Mark
<1>13. ASSUME Forget PROVE SandboxThere'
  BY <1>13 DEF Forget, At, Mark
<1>14. ASSUME Inspect PROVE SandboxThere'
  BY <1>14 DEF Inspect, At, Go, Mark
<1>15. ASSUME Activate PROVE SandboxThere'
  BY <1>15 DEF Activate, At, Mark, End, Go, Rows
\* The end of the Environment.
<1>16. ASSUME DeleteSandbox PROVE SandboxThere'
  BY <1>16 DEF DeleteSandbox, At, Rows
<1>17. ASSUME DeleteMetadata PROVE SandboxThere'
  BY <1>17 DEF DeleteMetadata, At, End
\* Failures.
<1>18. ASSUME Failed PROVE SandboxThere'
  BY <1>18 DEF Failed, At, End, Mark
<1>19. ASSUME CallFails PROVE SandboxThere'
  <2>1. CASE op.at = "put"
    BY <1>19, <2>1 DEF CallFails, At, StopAt, Mark
  <2>2. CASE op.at = "policy"
    BY <1>19, <2>2 DEF CallFails, At, StopAt, Compiled, Rows
  <2>3. CASE op.at = "drop"
    BY <1>19, <2>3 DEF CallFails, At, StopAt, Mark, Refused
  <2>4. CASE op.at = "sandbox"
    BY <1>19, <2>4 DEF CallFails, At, StopAt, Mark
  <2> QED
    BY <1>19, <2>1, <2>2, <2>3, <2>4 DEF CallFails, At
<1>20. ASSUME Crash PROVE SandboxThere'
  BY <1>20 DEF Crash, End
<1>21. ASSUME UNCHANGED vars PROVE SandboxThere'
  BY <1>21 DEF vars
<1> QED
  BY <1>1, <1>2, <1>3, <1>4, <1>5, <1>6, <1>7, <1>8, <1>9, <1>10, <1>11, <1>12, <1>13,
       <1>14, <1>15, <1>16, <1>17, <1>18, <1>19, <1>20, <1>21 DEF Next, Steps

\* A source is deleted before its row, and every source of the Environment is.
LEMMA DroppedStep ==
  ASSUME TypeOK, Placed, Marked, Dropped, SecretsHaveRows, [Next]_vars
  PROVE  Dropped'
<1> USE DEF NoOp, row, past, TypeOK, Statuses, Jobs, Places, Placed, Marked, Dropped,
     SecretsHaveRows
\* Starting an operation.
<1>1. ASSUME NEW c \in Creds, Create(c) PROVE Dropped'
  BY <1>1 DEF Create, Begin, Mark
<1>2. ASSUME NEW c \in Creds, Update(c) PROVE Dropped'
  BY <1>2 DEF Update, Begin, Mark, Revive, Rows
<1>3. ASSUME NEW c \in Creds, Rotate(c) PROVE Dropped'
  BY <1>3 DEF Rotate, Begin, Mark, Revive, Rows
<1>4. ASSUME NEW c \in Creds, Delete(c) PROVE Dropped'
  BY <1>4 DEF Delete, Begin, Mark, Rows
<1>5. ASSUME Network PROVE Dropped'
  BY <1>5 DEF Network, Begin
<1>6. ASSUME Reconcile PROVE Dropped'
  BY <1>6 DEF Reconcile, Rows
<1>7. ASSUME Destroy PROVE Dropped'
  BY <1>7 DEF Destroy, Begin
\* Its steps.
<1>8. ASSUME Put PROVE Dropped'
  BY <1>8 DEF Put, At
<1>9. ASSUME Record PROVE Dropped'
  BY <1>9 DEF Record, At
<1>10. ASSUME Policy PROVE Dropped'
  BY <1>10, PolicyMoves, PolicyWrites
<1>11. ASSUME Settle PROVE Dropped'
  BY <1>11 DEF Settle, At, Mark, End
<1>12. ASSUME NEW c \in Creds, Drop(c) PROVE Dropped'
  <2>1. CASE Refused(c)
    BY <1>12, <2>1 DEF Drop, At, StopAt, Mark
  <2>2. CASE ~Refused(c)
    <3>1. op' = [op EXCEPT !.at = "forget", !.cred = c] /\ source' = [source EXCEPT ![c] = 0]
      BY <1>12, <2>2 DEF Drop
    <3>2. op'.at = "forget" /\ op'.cred = c /\ op'.job = op.job /\ op'.doomed = op.doomed
      BY <3>1
    <3> QED
      BY <1>12, <2>2, <3>1, <3>2 DEF Drop, At, Mark
  <2> QED
    BY <2>1, <2>2
<1>13. ASSUME Forget PROVE Dropped'
  BY <1>13 DEF Forget, At, Mark
<1>14. ASSUME Inspect PROVE Dropped'
  BY <1>14 DEF Inspect, At, Go, Mark
<1>15. ASSUME Activate PROVE Dropped'
  BY <1>15 DEF Activate, At, Mark, End, Go, Rows
\* The end of the Environment.
<1>16. ASSUME DeleteSandbox PROVE Dropped'
  BY <1>16 DEF DeleteSandbox, At, Rows
<1>17. ASSUME DeleteMetadata PROVE Dropped'
  BY <1>17 DEF DeleteMetadata, At, End
\* Failures.
<1>18. ASSUME Failed PROVE Dropped'
  BY <1>18 DEF Failed, At, End, Mark
<1>19. ASSUME CallFails PROVE Dropped'
  BY <1>19 DEF CallFails, At, StopAt, Compiled, Rows, Mark, Refused
<1>20. ASSUME Crash PROVE Dropped'
  BY <1>20 DEF Crash, End
<1>21. ASSUME UNCHANGED vars PROVE Dropped'
  BY <1>21 DEF vars
<1> QED
  BY <1>1, <1>2, <1>3, <1>4, <1>5, <1>6, <1>7, <1>8, <1>9, <1>10, <1>11, <1>12, <1>13,
       <1>14, <1>15, <1>16, <1>17, <1>18, <1>19, <1>20, <1>21 DEF Next, Steps

\* A version is recorded of the source there is.
LEMMA VersionedStep ==
  ASSUME TypeOK, Placed, Marked, SecretsHaveRows, Versioned, [Next]_vars
  PROVE  Versioned'
<1> USE DEF NoOp, row, past, TypeOK, Statuses, Jobs, Places, Placed, Marked, Versioned,
     SecretsHaveRows
\* Starting an operation.
<1>1. ASSUME NEW c \in Creds, Create(c) PROVE Versioned'
  BY <1>1 DEF Create, Begin, Mark
<1>2. ASSUME NEW c \in Creds, Update(c) PROVE Versioned'
  BY <1>2 DEF Update, Begin, Mark, Revive, Rows
<1>3. ASSUME NEW c \in Creds, Rotate(c) PROVE Versioned'
  BY <1>3 DEF Rotate, Begin, Mark, Revive, Rows
<1>4. ASSUME NEW c \in Creds, Delete(c) PROVE Versioned'
  BY <1>4 DEF Delete, Begin, Mark, Rows
<1>5. ASSUME Network PROVE Versioned'
  BY <1>5 DEF Network, Begin
<1>6. ASSUME Reconcile PROVE Versioned'
  BY <1>6 DEF Reconcile, Rows
<1>7. ASSUME Destroy PROVE Versioned'
  BY <1>7 DEF Destroy, Begin
\* Its steps.
<1>8. ASSUME Put PROVE Versioned'
  BY <1>8 DEF Put, At
<1>9. ASSUME Record PROVE Versioned'
  BY <1>9 DEF Record, At
<1>10. ASSUME Policy PROVE Versioned'
  BY <1>10 DEF Policy, At, Compiled, Rows, End, Go
<1>11. ASSUME Settle PROVE Versioned'
  BY <1>11 DEF Settle, At, Mark, End
<1>12. ASSUME NEW c \in Creds, Drop(c) PROVE Versioned'
  BY <1>12 DEF Drop, At, Refused, StopAt, Mark
<1>13. ASSUME Forget PROVE Versioned'
  BY <1>13 DEF Forget, At, Mark
<1>14. ASSUME Inspect PROVE Versioned'
  BY <1>14 DEF Inspect, At, Go, Mark
<1>15. ASSUME Activate PROVE Versioned'
  BY <1>15 DEF Activate, At, Mark, End, Go, Rows
\* The end of the Environment.
<1>16. ASSUME DeleteSandbox PROVE Versioned'
  BY <1>16 DEF DeleteSandbox, At, Rows
<1>17. ASSUME DeleteMetadata PROVE Versioned'
  BY <1>17 DEF DeleteMetadata, At, End
\* Failures.
<1>18. ASSUME Failed PROVE Versioned'
  BY <1>18 DEF Failed, At, End, Mark
<1>19. ASSUME CallFails PROVE Versioned'
  BY <1>19 DEF CallFails, At, StopAt, Compiled, Rows, Mark, Refused
<1>20. ASSUME Crash PROVE Versioned'
  BY <1>20 DEF Crash, End
<1>21. ASSUME UNCHANGED vars PROVE Versioned'
  BY <1>21 DEF vars
<1> QED
  BY <1>1, <1>2, <1>3, <1>4, <1>5, <1>6, <1>7, <1>8, <1>9, <1>10, <1>11, <1>12, <1>13,
       <1>14, <1>15, <1>16, <1>17, <1>18, <1>19, <1>20, <1>21 DEF Next, Steps

\* A policy that is applied is that of the rows there are.
LEMMA AppliedStep ==
  ASSUME TypeOK, Placed, Marked, SandboxThere, Versioned, Applied, [Next]_vars
  PROVE  Applied'
<1> USE DEF NoOp, row, past, TypeOK, Statuses, Jobs, Places, Placed, Marked,
     SandboxThere, Versioned, Applied, Enforced
\* Starting an operation.
<1>1. ASSUME NEW c \in Creds, Create(c) PROVE Applied'
  BY <1>1 DEF Create, Begin, Mark
<1>2. ASSUME NEW c \in Creds, Update(c) PROVE Applied'
  BY <1>2 DEF Update, Begin, Mark, Revive, Rows
<1>3. ASSUME NEW c \in Creds, Rotate(c) PROVE Applied'
  BY <1>3 DEF Rotate, Begin, Mark, Revive, Rows
<1>4. ASSUME NEW c \in Creds, Delete(c) PROVE Applied'
  BY <1>4 DEF Delete, Begin, Mark, Rows
<1>5. ASSUME Network PROVE Applied'
  BY <1>5 DEF Network, Begin
<1>6. ASSUME Reconcile PROVE Applied'
  BY <1>6 DEF Reconcile, Rows
<1>7. ASSUME Destroy PROVE Applied'
  BY <1>7 DEF Destroy, Begin
\* Its steps.
<1>8. ASSUME Put PROVE Applied'
  BY <1>8 DEF Put, At
<1>9. ASSUME Record PROVE Applied'
  BY <1>9 DEF Record, At
<1>10. ASSUME Policy PROVE Applied'
  BY <1>10, PolicyMoves, PolicyWrites DEF Compiled, Rows
<1>11. ASSUME Settle PROVE Applied'
  BY <1>11 DEF Settle, At, Mark, End
<1>12. ASSUME NEW c \in Creds, Drop(c) PROVE Applied'
  BY <1>12 DEF Drop, At, Refused, StopAt, Mark
<1>13. ASSUME Forget PROVE Applied'
  BY <1>13 DEF Forget, At, Mark
<1>14. ASSUME Inspect PROVE Applied'
  BY <1>14 DEF Inspect, At, Go, Mark
<1>15. ASSUME Activate PROVE Applied'
  BY <1>15 DEF Activate, At, Mark, End, Go, Rows
\* The end of the Environment.
<1>16. ASSUME DeleteSandbox PROVE Applied'
  BY <1>16 DEF DeleteSandbox, At, Rows
<1>17. ASSUME DeleteMetadata PROVE Applied'
  BY <1>17 DEF DeleteMetadata, At, End
\* Failures.
<1>18. ASSUME Failed PROVE Applied'
  BY <1>18 DEF Failed, At, End, Mark
<1>19. ASSUME CallFails PROVE Applied'
  BY <1>19 DEF CallFails, At, StopAt, Compiled, Rows, Mark, Refused
<1>20. ASSUME Crash PROVE Applied'
  BY <1>20 DEF Crash, End
<1>21. ASSUME UNCHANGED vars PROVE Applied'
  BY <1>21 DEF vars
<1> QED
  BY <1>1, <1>2, <1>3, <1>4, <1>5, <1>6, <1>7, <1>8, <1>9, <1>10, <1>11, <1>12, <1>13,
       <1>14, <1>15, <1>16, <1>17, <1>18, <1>19, <1>20, <1>21 DEF Next, Steps

\* A row comes before its source and goes after it.
LEMMA SecretsStep ==
  ASSUME TypeOK, Placed, Marked, Dropped, SecretsHaveRows, [Next]_vars
  PROVE  SecretsHaveRows'
<1> USE DEF NoOp, row, past, TypeOK, Statuses, Jobs, Places, Placed, Marked, Dropped,
     SecretsHaveRows, Rows
\* Starting an operation.
<1>1. ASSUME NEW c \in Creds, Create(c) PROVE SecretsHaveRows'
  BY <1>1 DEF Create, Begin, Mark
<1>2. ASSUME NEW c \in Creds, Update(c) PROVE SecretsHaveRows'
  BY <1>2 DEF Update, Begin, Mark, Revive, Rows
<1>3. ASSUME NEW c \in Creds, Rotate(c) PROVE SecretsHaveRows'
  BY <1>3 DEF Rotate, Begin, Mark, Revive, Rows
<1>4. ASSUME NEW c \in Creds, Delete(c) PROVE SecretsHaveRows'
  BY <1>4 DEF Delete, Begin, Mark, Rows
<1>5. ASSUME Network PROVE SecretsHaveRows'
  BY <1>5 DEF Network, Begin
<1>6. ASSUME Reconcile PROVE SecretsHaveRows'
  BY <1>6 DEF Reconcile, Rows
<1>7. ASSUME Destroy PROVE SecretsHaveRows'
  BY <1>7 DEF Destroy, Begin
\* Its steps.
<1>8. ASSUME Put PROVE SecretsHaveRows'
  BY <1>8 DEF Put, At
<1>9. ASSUME Record PROVE SecretsHaveRows'
  BY <1>9 DEF Record, At
<1>10. ASSUME Policy PROVE SecretsHaveRows'
  BY <1>10 DEF Policy, At, Compiled, Rows, End, Go
<1>11. ASSUME Settle PROVE SecretsHaveRows'
  BY <1>11 DEF Settle, At, Mark, End
<1>12. ASSUME NEW c \in Creds, Drop(c) PROVE SecretsHaveRows'
  BY <1>12 DEF Drop, At, Refused, StopAt, Mark
<1>13. ASSUME Forget PROVE SecretsHaveRows'
  BY <1>13 DEF Forget, At, Mark
<1>14. ASSUME Inspect PROVE SecretsHaveRows'
  BY <1>14 DEF Inspect, At, Go, Mark
<1>15. ASSUME Activate PROVE SecretsHaveRows'
  BY <1>15 DEF Activate, At, Mark, End, Go, Rows
\* The end of the Environment.
<1>16. ASSUME DeleteSandbox PROVE SecretsHaveRows'
  BY <1>16 DEF DeleteSandbox, At, Rows
<1>17. ASSUME DeleteMetadata PROVE SecretsHaveRows'
  BY <1>17 DEF DeleteMetadata, At, End
\* Failures.
<1>18. ASSUME Failed PROVE SecretsHaveRows'
  BY <1>18 DEF Failed, At, End, Mark
<1>19. ASSUME CallFails PROVE SecretsHaveRows'
  BY <1>19 DEF CallFails, At, StopAt, Compiled, Rows, Mark, Refused
<1>20. ASSUME Crash PROVE SecretsHaveRows'
  BY <1>20 DEF Crash, End
<1>21. ASSUME UNCHANGED vars PROVE SecretsHaveRows'
  BY <1>21 DEF vars
<1> QED
  BY <1>1, <1>2, <1>3, <1>4, <1>5, <1>6, <1>7, <1>8, <1>9, <1>10, <1>11, <1>12, <1>13,
       <1>14, <1>15, <1>16, <1>17, <1>18, <1>19, <1>20, <1>21 DEF Next, Steps

\* What is shown active was applied, and stays as it was applied.
LEMMA ActiveStep ==
  ASSUME TypeOK, Placed, Marked, SandboxThere, Versioned, Applied, ActiveIsEnforced, [Next]_vars
  PROVE  ActiveIsEnforced'
<1> USE DEF NoOp, row, past, TypeOK, Statuses, Jobs, Places, Placed, Marked,
     SandboxThere, Versioned, Applied, ActiveIsEnforced, Enforced
\* Starting an operation.
<1>1. ASSUME NEW c \in Creds, Create(c) PROVE ActiveIsEnforced'
  BY <1>1 DEF Create, Begin, Mark
<1>2. ASSUME NEW c \in Creds, Update(c) PROVE ActiveIsEnforced'
  BY <1>2 DEF Update, Begin, Mark, Revive, Rows
<1>3. ASSUME NEW c \in Creds, Rotate(c) PROVE ActiveIsEnforced'
  BY <1>3 DEF Rotate, Begin, Mark, Revive, Rows
<1>4. ASSUME NEW c \in Creds, Delete(c) PROVE ActiveIsEnforced'
  BY <1>4 DEF Delete, Begin, Mark, Rows
<1>5. ASSUME Network PROVE ActiveIsEnforced'
  BY <1>5 DEF Network, Begin
<1>6. ASSUME Reconcile PROVE ActiveIsEnforced'
  BY <1>6 DEF Reconcile, Rows
<1>7. ASSUME Destroy PROVE ActiveIsEnforced'
  BY <1>7 DEF Destroy, Begin
\* Its steps.
<1>8. ASSUME Put PROVE ActiveIsEnforced'
  BY <1>8 DEF Put, At
<1>9. ASSUME Record PROVE ActiveIsEnforced'
  BY <1>9 DEF Record, At
<1>10. ASSUME Policy PROVE ActiveIsEnforced'
  BY <1>10 DEF Policy, At, Compiled, Rows, End, Go
<1>11. ASSUME Settle PROVE ActiveIsEnforced'
  BY <1>11 DEF Settle, At, Mark, End
<1>12. ASSUME NEW c \in Creds, Drop(c) PROVE ActiveIsEnforced'
  BY <1>12 DEF Drop, At, Refused, StopAt, Mark
<1>13. ASSUME Forget PROVE ActiveIsEnforced'
  BY <1>13 DEF Forget, At, Mark
<1>14. ASSUME Inspect PROVE ActiveIsEnforced'
  BY <1>14 DEF Inspect, At, Go, Mark
<1>15. ASSUME Activate PROVE ActiveIsEnforced'
  BY <1>15 DEF Activate, At, Mark, End, Go, Rows
\* The end of the Environment.
<1>16. ASSUME DeleteSandbox PROVE ActiveIsEnforced'
  BY <1>16 DEF DeleteSandbox, At, Rows
<1>17. ASSUME DeleteMetadata PROVE ActiveIsEnforced'
  BY <1>17 DEF DeleteMetadata, At, End
\* Failures.
<1>18. ASSUME Failed PROVE ActiveIsEnforced'
  BY <1>18 DEF Failed, At, End, Mark
<1>19. ASSUME CallFails PROVE ActiveIsEnforced'
  <2>1. CASE op.at = "put"
    BY <1>19, <2>1 DEF CallFails, At, StopAt, Mark
  <2>2. CASE op.at = "policy"
    BY <1>19, <2>2 DEF CallFails, At, StopAt, Compiled, Rows
  <2>3. CASE op.at = "drop"
    BY <1>19, <2>3 DEF CallFails, At, StopAt, Mark, Refused
  <2>4. CASE op.at = "sandbox"
    BY <1>19, <2>4 DEF CallFails, At, StopAt, Mark
  <2> QED
    BY <1>19, <2>1, <2>2, <2>3, <2>4 DEF CallFails, At
<1>20. ASSUME Crash PROVE ActiveIsEnforced'
  BY <1>20 DEF Crash, End
<1>21. ASSUME UNCHANGED vars PROVE ActiveIsEnforced'
  BY <1>21 DEF vars
<1> QED
  BY <1>1, <1>2, <1>3, <1>4, <1>5, <1>6, <1>7, <1>8, <1>9, <1>10, <1>11, <1>12, <1>13,
       <1>14, <1>15, <1>16, <1>17, <1>18, <1>19, <1>20, <1>21 DEF Next, Steps

-----------------------------------------------------------------------------
(* What follows.                                                           *)

\* THE INVARIANT.  Every reachable state satisfies every conjunct.
THEOREM InductiveHolds == ASSUME MaxVersions \in Nat PROVE Spec => []Inductive
<1>1. Init => Inductive
  <2> SUFFICES ASSUME Init PROVE Inductive
    OBVIOUS
  <2>1. TypeOK
    BY DEF Init, TypeOK, NoOp, Statuses, Jobs, Places
  <2>2. Placed /\ Marked /\ SandboxThere /\ Dropped
    BY DEF Init, NoOp, Placed, Marked, SandboxThere, Dropped
  <2>3. Versioned /\ Applied /\ SecretsHaveRows /\ ActiveIsEnforced
    BY DEF Init, NoOp, Versioned, Applied, SecretsHaveRows, ActiveIsEnforced
  <2> QED
    BY <2>1, <2>2, <2>3 DEF Inductive
<1>2. ASSUME MaxVersions \in Nat, Inductive, [Next]_vars PROVE Inductive'
  <2> USE <1>2 DEF Inductive
  <2>1. TypeOK' /\ Placed' /\ Marked'
    BY TypeStep, PlacedStep, MarkedStep
  <2>2. SandboxThere' /\ Dropped' /\ Versioned' /\ Applied'
    BY SandboxStep, DroppedStep, VersionedStep, AppliedStep
  <2>3. SecretsHaveRows' /\ ActiveIsEnforced'
    BY SecretsStep, ActiveStep
  <2> QED
    BY <2>1, <2>2, <2>3
<1> QED
  BY <1>1, <1>2, PTL DEF Spec

\* The rows, the policy of the Sandbox and the jobs keep their types.
THEOREM TypeCorrect == ASSUME MaxVersions \in Nat PROVE Spec => []TypeOK
<1>1. Inductive => TypeOK
  BY DEF Inductive
<1> QED
  BY InductiveHolds, <1>1, PTL

\* What is shown active is enforced, wherever the operations on it and on the other
\* credentials die, but for the two cases that the property names.
THEOREM ActiveIsEnforcedEver == ASSUME MaxVersions \in Nat PROVE Spec => []ActiveIsEnforced
<1>1. Inductive => ActiveIsEnforced
  BY DEF Inductive
<1> QED
  BY InductiveHolds, <1>1, PTL

\* A secret at Sandbox0 always has a row, through which it can be removed.
THEOREM SecretsEver == ASSUME MaxVersions \in Nat PROVE Spec => []SecretsHaveRows
<1>1. Inductive => SecretsHaveRows
  BY DEF Inductive
<1> QED
  BY InductiveHolds, <1>1, PTL
=============================================================================
