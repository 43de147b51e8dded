------------------------- MODULE CodexLoginInvariant -------------------------
(***************************************************************************)
(* What holds at each place of a device login, for any replicas and logins. *)
(* None of the properties of CodexLogin is inductive alone: each part below  *)
(* is what some step relies on.                                             *)
(***************************************************************************)
EXTENDS CodexLogin

\* The index of active logins: createFlow inserts where there is none.
OneActive == \A f, g \in Flows : IsActive(f) /\ IsActive(g) => f = g

\* A start and a cancellation work on a login that has been created.
Named ==
  /\ \A r \in Replicas : start[r].at # "idle" =>
       start[r].flow \in Flows /\ status[start[r].flow] # "none"
  /\ \A r \in Replicas : cancel[r].at # "idle" =>
       cancel[r].flow \in Flows /\ status[cancel[r].flow] # "none"

\* So does an operation of a worker.
Begun == \A r \in Replicas, f \in Flows : at[r][f] # "idle" => status[f] # "none"

\* One start makes the box of a login, and nothing is attached before it is done.
\* (A row that does not exist yet counts as one without a box.)
OneStarter ==
  \A q, r \in Replicas :
    start[q].at # "idle" /\ start[r].at # "idle" /\ start[q].flow = start[r].flow => q = r
StartUnattached ==
  /\ \A f \in Flows : status[f] = "none" => ~runtime[f]
  /\ \A r \in Replicas : start[r].at \in {"provision", "attach"} =>
       /\ ~runtime[start[r].flow]
       /\ status[start[r].flow] \in Terminal \cup {"provisioning"}

\* A page begins behind the events the row has recorded.
CopyRecorded ==
  \A r \in Replicas, f \in Flows : 1 .. copy[r][f].cursor \subseteq messages[f]

\* The user answers once, and what goes on to store a credential has read it.
AnsweredOnce == \A f \in Flows : answer[f] # "none" => emitted[f] = 2
WorkApproved ==
  \A r \in Replicas, f \in Flows :
    at[r][f] \in {"auth", "complete"} => answer[f] = "approved"

\* A start that gives up deletes the box its row names.
FreshAttached ==
  \A r \in Replicas, f \in Flows :
    /\ f \in fresh[r] \/ at[r][f] \in {"abandon", "fail"} => runtime[f]
    /\ at[r][f] = "fail" => box[f] = "gone"

\* A box is deleted only for a login that has ended.
CleaningIsOver ==
  /\ \A r \in Replicas, f \in Flows : at[r][f] = "cleanup" => status[f] \in Terminal
  /\ \A r \in Replicas : cancel[r].at = "cleanup" => status[cancel[r].flow] \in Terminal

\* Without failures no replica starts again, and a refused box was refused to
\* a login that had ended.
Undisturbed ==
  faults = 0 =>
    \A r \in Replicas :
      /\ up[r] = "up"
      /\ start[r].at = "fail" => status[start[r].flow] \in Terminal

Inductive ==
  /\ TypeOK
  /\ OneActive /\ Named /\ Begun /\ OneStarter /\ StartUnattached
  /\ NothingSkipped /\ CopyRecorded
  /\ AnsweredOnce /\ WorkApproved /\ StoredIsApproved
  /\ FreshAttached /\ CleaningIsOver /\ Undisturbed /\ BoxDeleted
=============================================================================
