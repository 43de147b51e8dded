------------------------ MODULE EnvironmentProjection ------------------------
(***************************************************************************)
(* What the row of one Environment promises to whoever reads it: billing,  *)
(* the workbench, the reconcilers of another replica.  No lock, no process *)
(* and no Sandbox0: only which changes of the projection may ever be seen. *)
(*                                                                         *)
(*  - a Sandbox identity is never replaced by another one;                 *)
(*  - a pause is asked for only on an Environment with a Sandbox whose     *)
(*    deletion has not been published;                                     *)
(*  - an interval keeps its reason until an access or a claim closes it;   *)
(*  - the row never goes while it asks for a pause: its deletion was       *)
(*    published, and only a user's retry, which takes no lock and asks for *)
(*    a running Sandbox, can have overwritten that.                        *)
(***************************************************************************)
CONSTANTS Sandboxes, NoSandbox

VARIABLES status, desired, sandbox, pause, due

proj == <<status, desired, sandbox, pause, due>>

InitP ==
  /\ status \in {"updating", "ready"} /\ desired = "running" /\ pause = "none"
  /\ sandbox \in Sandboxes \cup {NoSandbox} /\ due \in {"none", "future"}
  /\ status = "updating" <=> sandbox = NoSandbox

Live == status # "gone"

\* The deadline: armed by activity, cleared by a pause, passed by time.
Rearm == due' \in {"none", "future"} \/ (due = "future" /\ due' = "past")

RequestPause ==
  /\ sandbox # NoSandbox /\ desired # "terminated"
  /\ desired' = "paused" /\ UNCHANGED <<status, sandbox, pause, due>>

CompletePause ==
  /\ sandbox # NoSandbox
  /\ desired' = "paused" /\ due' = "none"
  /\ pause' \in IF pause = "none" THEN {"idle", "quota", "manual"} ELSE {pause}
  /\ UNCHANGED <<status, sandbox>>

\* A failed pause is retried, or given up for what the row said before.
DeferPause ==
  /\ Live /\ sandbox # NoSandbox
  /\ desired' \in IF pause = "none" THEN {"running", "paused"} ELSE {desired, "paused"}
  /\ due' \in {due, "future"} /\ UNCHANGED <<status, sandbox, pause>>

GrantAccess ==
  /\ Live /\ desired # "terminated"
  /\ desired' = "running" /\ pause' = "none" /\ due' \in {"none", "future"}
  /\ UNCHANGED <<status, sandbox>>

MoveDeadline == Rearm /\ UNCHANGED <<status, desired, sandbox, pause>>

Terminate ==
  /\ Live /\ desired' = "terminated" /\ due' \in {due, "none"}
  /\ UNCHANGED <<status, sandbox, pause>>

Remove ==
  /\ Live /\ desired # "paused"
  /\ status' = "gone" /\ sandbox' = NoSandbox /\ pause' = "none" /\ due' = "none"
  /\ UNCHANGED desired

\* The user's retry: status first, then the intent.
Reset ==
  /\ Live /\ UNCHANGED <<sandbox, pause, due>>
  /\ \/ status' = "updating" /\ UNCHANGED desired
     \/ desired' = "running" /\ UNCHANGED status

Publish ==
  /\ Live /\ sandbox = NoSandbox /\ sandbox' \in Sandboxes
  /\ UNCHANGED <<status, desired, pause, due>>

Commit ==
  /\ Live /\ sandbox # NoSandbox
  /\ status' = "ready" /\ desired' = "running" /\ pause' = "none"
  /\ due' \in {"none", "future"} /\ UNCHANGED sandbox

Withdraw ==
  /\ Live /\ sandbox' = NoSandbox /\ due' = "none" /\ pause' = "none"
  /\ UNCHANGED <<status, desired>>

Fail ==
  /\ Live /\ status' = "error" /\ UNCHANGED <<desired, sandbox, pause, due>>

NextP ==
  \/ RequestPause \/ CompletePause \/ DeferPause \/ GrantAccess \/ MoveDeadline
  \/ Terminate \/ Remove \/ Reset \/ Publish \/ Commit \/ Withdraw \/ Fail

SpecP == InitP /\ [][NextP]_proj
=============================================================================
