------------------------------ MODULE CodexLogin ------------------------------
(***************************************************************************)
(* Device logins of one Environment.  A login is a row; its replica makes a *)
(* Sandbox for it (a box), in which a native Codex asks for a device code,  *)
(* and workers of any replica follow the events of that Codex, hand the     *)
(* code to the user, and store the credential when the user has approved.   *)
(*                                                                         *)
(* The events of a box are numbered: 1 answers the handshake (initialize    *)
(* and account/login/start, taken together), 2 is account/login/completed.  *)
(* `loop' holds the logins a replica has a worker for; the operations of a  *)
(* replica on one login run one after the other, so that a replica is at    *)
(* one place (`at') in each login.  `copy' is the row an operation works on: *)
(* the cursor it read and the page of events that follows it.               *)
(*                                                                         *)
(* A read of the row and the guarded UPDATE that follows it are one step    *)
(* when the UPDATE repeats the condition of the read.                       *)
(***************************************************************************)
EXTENDS Naturals

CONSTANTS
  Replicas, Flows,
  NoFlow,
  MaxFaults     \* bound on crashes and failed calls

ASSUME LoginAssumption == NoFlow \notin Flows /\ MaxFaults \in Nat

VARIABLES
  status,     \* codex_device_auth_flows.status
  runtime,    \* the row names its box
  due,        \* expires_at has passed
  cursor, messages,  \* supervisor_cursor and protocol_messages
  credential, \* the login that produced harness_credentials
  box,        \* the Sandbox of each login
  asked,      \* its Codex was asked for a device code
  emitted,    \* how many events it has emitted
  answer,     \* what the user answered
  overlooked, \* logins that expired between the two queries of a starting replica
  up,         \* what a replica is doing: serving, down, or starting
  start,      \* the login a request is starting, and where it is
  cancel,     \* the login a request is cancelling, and where it is
  loop, at, copy, fresh,
  faults

row    == <<status, runtime, due, cursor, messages, credential>>
codex  == <<asked, emitted, answer, overlooked>>
native == <<box, codex>>
work   == <<loop, at, copy, fresh>>
vars   == <<row, native, up, start, cancel, work, faults>>

Active   == {"provisioning", "starting", "awaiting"}
Terminal == {"completed", "failed", "cancelled", "expired"}
Places   == {"idle", "handshake", "list", "persist", "decide", "auth", "complete",
             "cleanup", "abandon", "fail"}
Nobody   == [flow |-> NoFlow, at |-> "idle"]
NoCopy   == [cursor |-> 0, page |-> 0, asking |-> FALSE]

TypeOK ==
  /\ status \in [Flows -> Active \cup Terminal \cup {"none"}]
  /\ runtime \in [Flows -> BOOLEAN] /\ due \in [Flows -> BOOLEAN]
  /\ cursor \in [Flows -> 0..2] /\ messages \in [Flows -> SUBSET {1, 2}]
  /\ credential \in Flows \cup {NoFlow}
  /\ box \in [Flows -> {"none", "up", "gone"}] /\ asked \in [Flows -> BOOLEAN]
  /\ emitted \in [Flows -> 0..2] /\ answer \in [Flows -> {"none", "approved", "denied"}]
  /\ overlooked \subseteq Flows
  /\ up \in [Replicas -> {"up", "down", "expiring", "failing", "resuming"}]
  /\ start \in [Replicas -> [flow : Flows \cup {NoFlow}, at : {"idle", "provision", "attach", "fail"}]]
  /\ cancel \in [Replicas -> [flow : Flows \cup {NoFlow}, at : {"idle", "mark", "cleanup"}]]
  /\ loop \in [Replicas -> SUBSET Flows] /\ fresh \in [Replicas -> SUBSET Flows]
  /\ at \in [Replicas -> [Flows -> Places]]
  /\ copy \in [Replicas -> [Flows -> [cursor : 0..2, page : 0..2, asking : BOOLEAN]]]
  /\ faults \in Nat

Each(x) == [f \in Flows |-> x]

Init ==
  /\ status = Each("none") /\ runtime = Each(FALSE) /\ due = Each(FALSE)
  /\ cursor = Each(0) /\ messages = Each({}) /\ credential = NoFlow
  /\ box = Each("none") /\ asked = Each(FALSE) /\ emitted = Each(0) /\ answer = Each("none")
  /\ overlooked = {} /\ up = [r \in Replicas |-> "up"]
  /\ start = [r \in Replicas |-> Nobody] /\ cancel = [r \in Replicas |-> Nobody]
  /\ loop = [r \in Replicas |-> {}] /\ fresh = [r \in Replicas |-> {}]
  /\ at = [r \in Replicas |-> Each("idle")]
  /\ copy = [r \in Replicas |-> Each(NoCopy)]
  /\ faults = 0

IsActive(f) == status[f] \in Active

-----------------------------------------------------------------------------
(* The conditions the properties rest on.  Beside each, a mistake that the *)
(* properties must notice when it takes the condition's place.             *)

NoneActive(f) == \A g \in Flows : ~IsActive(g)

NotYetCompleted(f) == status[f] # "completed"
MayComplete(f) == IsActive(f)

FromCursor(c, last) == c .. last
AfterCursor(c, last) == (c + 1) .. last

PageOnly(f, page) == page
Appended(f, page) == messages[f] \cup page

AnyCompletion(f) == 2 \in messages[f]
Approved(f) == 2 \in messages[f] /\ answer[f] = "approved"

AwaitingOnly == {f \in Flows : status[f] = "awaiting" /\ ~due[f]}
Resumable == {f \in Flows : status[f] \in {"starting", "awaiting"} /\ ~due[f]}

\* markTerminal: only an active login changes.
Overwritten(f, s) == status' = [status EXCEPT ![f] = s]
MarkTerminal(f, s) == status' = IF IsActive(f) THEN [status EXCEPT ![f] = s] ELSE status

NotCleaned(f) == UNCHANGED box
Cleaned(f) == box' = IF runtime[f] THEN [box EXCEPT ![f] = "gone"] ELSE box

-----------------------------------------------------------------------------
(* Codex and the user.                                                     *)

Emit(f) ==
  /\ box[f] = "up" /\ asked[f] /\ emitted[f] = 0
  /\ emitted' = [emitted EXCEPT ![f] = 1]
  /\ UNCHANGED <<row, box, asked, answer, overlooked, up, start, cancel, work, faults>>

Answer(f) ==
  /\ box[f] = "up" /\ status[f] = "awaiting" /\ emitted[f] = 1
  /\ emitted' = [emitted EXCEPT ![f] = 2]
  /\ \E a \in {"approved", "denied"} : answer' = [answer EXCEPT ![f] = a]
  /\ UNCHANGED <<row, box, asked, overlooked, up, start, cancel, work, faults>>

TimePasses(f) ==
  /\ IsActive(f) /\ ~due[f] /\ due' = [due EXCEPT ![f] = TRUE]
  /\ UNCHANGED <<status, runtime, cursor, messages, credential, native, up, start,
                 cancel, work, faults>>

\* The hard time to live of a box.
BoxExpires(f) ==
  /\ box[f] = "up" /\ due[f] /\ box' = [box EXCEPT ![f] = "gone"]
  /\ UNCHANGED <<row, codex, up, start, cancel, work, faults>>

-----------------------------------------------------------------------------
(* startDeviceLogin, getDeviceLogin.                                       *)

\* A login that has expired is marked before a new one is created, by a start
\* or by a look at the Environment; its box is deleted in the next step.
ExpireFirst(r, f) ==
  /\ up[r] = "up" /\ IsActive(f) /\ due[f] /\ at[r][f] = "idle"
  /\ MarkTerminal(f, "expired")
  /\ at' = [at EXCEPT ![r][f] = "cleanup"]
  /\ UNCHANGED <<runtime, due, cursor, messages, credential, native, up, start, cancel,
                 loop, copy, fresh, faults>>

Create(r, f) ==
  /\ up[r] = "up" /\ start[r] = Nobody /\ status[f] = "none" /\ NoneActive(f)
  /\ status' = [status EXCEPT ![f] = "provisioning"]
  /\ start' = [start EXCEPT ![r] = [flow |-> f, at |-> "provision"]]
  /\ UNCHANGED <<runtime, due, cursor, messages, credential, native, up, cancel, work, faults>>

\* A start that finds an active login, and every look at one, follow it.
Follow(r, f) ==
  /\ up[r] = "up" /\ IsActive(f) /\ f \notin loop[r]
  /\ loop' = [loop EXCEPT ![r] = @ \cup {f}]
  /\ UNCHANGED <<row, native, up, start, cancel, at, copy, fresh, faults>>

StartAt(r, l) == start[r].at = l
StartGoes(r, l) == start' = [start EXCEPT ![r].at = l]

Provision(r) ==
  /\ StartAt(r, "provision") /\ StartGoes(r, "attach")
  /\ box' = [box EXCEPT ![start[r].flow] = "up"]
  /\ UNCHANGED <<row, codex, up, cancel, work, faults>>

ProvisionFails(r) ==
  /\ StartAt(r, "provision") /\ faults < MaxFaults /\ StartGoes(r, "fail")
  /\ faults' = faults + 1
  /\ UNCHANGED <<row, native, up, cancel, work>>

Attach(r) ==
  LET f == start[r].flow IN
  /\ StartAt(r, "attach") /\ status[f] = "provisioning"
  /\ status' = [status EXCEPT ![f] = "starting"]
  /\ runtime' = [runtime EXCEPT ![f] = TRUE]
  /\ loop' = [loop EXCEPT ![r] = @ \cup {f}] /\ fresh' = [fresh EXCEPT ![r] = @ \cup {f}]
  /\ start' = [start EXCEPT ![r] = Nobody]
  /\ UNCHANGED <<due, cursor, messages, credential, native, up, cancel, at, copy, faults>>

\* The login was ended meanwhile: its box is left to its time to live.
AttachRefused(r) ==
  /\ StartAt(r, "attach") /\ status[start[r].flow] # "provisioning" /\ StartGoes(r, "fail")
  /\ UNCHANGED <<row, native, up, cancel, work, faults>>

StartFails(r) ==
  /\ StartAt(r, "fail") /\ MarkTerminal(start[r].flow, "failed")
  /\ start' = [start EXCEPT ![r] = Nobody]
  /\ UNCHANGED <<runtime, due, cursor, messages, credential, native, up, cancel, work, faults>>

-----------------------------------------------------------------------------
(* advance: one operation of a worker, or the first of a start.            *)

Stand(r, f, l) == at[r][f] = l /\ up[r] = "up"
Go(r, f, l) == at' = [at EXCEPT ![r][f] = l]
Leave(r, f) == loop' = [loop EXCEPT ![r] = @ \ {f}] /\ fresh' = [fresh EXCEPT ![r] = @ \ {f}]
\* The operation is over: a worker waits for its next turn.
Rest(r, f) ==
  /\ Go(r, f, "idle") /\ copy' = [copy EXCEPT ![r][f] = NoCopy]
  /\ fresh' = [fresh EXCEPT ![r] = @ \ {f}]
\* It fails: a worker logs the error and tries again, a start gives up.
Break(r, f) ==
  /\ Go(r, f, IF f \in fresh[r] THEN "abandon" ELSE "idle")
  /\ copy' = [copy EXCEPT ![r][f] = NoCopy] /\ UNCHANGED fresh

Begin(r, f) ==
  /\ Stand(r, f, "idle") /\ f \in loop[r]
  /\ \/ /\ ~IsActive(f) /\ Leave(r, f) /\ UNCHANGED <<status, at, copy>>
     \/ /\ IsActive(f) /\ due[f] /\ MarkTerminal(f, "expired")
        /\ Go(r, f, "cleanup") /\ UNCHANGED <<loop, copy, fresh>>
     \/ /\ IsActive(f) /\ ~due[f] /\ runtime[f]
        /\ Go(r, f, IF status[f] = "starting" THEN "handshake" ELSE "list")
        /\ copy' = [copy EXCEPT ![r][f] = [NoCopy EXCEPT !.cursor = cursor[f]]]
        /\ UNCHANGED <<status, loop, fresh>>
  /\ UNCHANGED <<runtime, due, cursor, messages, credential, native, up, start, cancel, faults>>

\* Both requests carry an input id, so that a second worker repeats nothing.
Handshake(r, f) ==
  /\ Stand(r, f, "handshake")
  /\ \/ /\ box[f] = "up"
        /\ asked' = [asked EXCEPT ![f] = TRUE] /\ Go(r, f, "list")
        /\ copy' = [copy EXCEPT ![r][f].asking = TRUE] /\ UNCHANGED fresh
     \/ box[f] # "up" /\ Break(r, f) /\ UNCHANGED asked
  /\ UNCHANGED <<row, box, emitted, answer, overlooked, up, start, cancel, loop, faults>>

\* ingest: the page of events after the cursor that was read.
List(r, f) ==
  /\ Stand(r, f, "list")
  /\ \/ /\ box[f] = "up"
        /\ copy' = [copy EXCEPT ![r][f].page = emitted[f]]
        /\ Go(r, f, IF emitted[f] > copy[r][f].cursor THEN "persist" ELSE "decide")
        /\ UNCHANGED fresh
     \/ box[f] # "up" /\ Break(r, f)
  /\ UNCHANGED <<row, native, up, start, cancel, loop, faults>>

Persist(r, f) ==
  /\ Stand(r, f, "persist") /\ Go(r, f, "decide")
  /\ cursor' = [cursor EXCEPT ![f] = copy[r][f].page]
  /\ messages' = [messages EXCEPT ![f] =
        Appended(f, AfterCursor(copy[r][f].cursor, copy[r][f].page))]
  /\ copy' = [copy EXCEPT ![r][f].cursor = copy[r][f].page]
  /\ UNCHANGED <<status, runtime, due, credential, native, up, start, cancel, loop, fresh, faults>>

Decide(r, f) ==
  /\ Stand(r, f, "decide")
  /\ \/ copy[r][f].asking /\ 1 \notin messages[f]
        /\ Go(r, f, "list") /\ copy' = [copy EXCEPT ![r][f].cursor = cursor[f]]
        /\ UNCHANGED <<status, fresh>>
     \/ /\ copy[r][f].asking /\ 1 \in messages[f]
        /\ IF status[f] \in {"starting", "awaiting"}
             THEN /\ status' = [status EXCEPT ![f] = "awaiting"] /\ Go(r, f, "list")
                  /\ copy' = [copy EXCEPT ![r][f] = [NoCopy EXCEPT !.cursor = cursor[f]]]
                  /\ UNCHANGED fresh
             ELSE Break(r, f) /\ UNCHANGED status
     \/ /\ ~copy[r][f].asking /\ 2 \notin messages[f] /\ Rest(r, f) /\ UNCHANGED status
     \/ /\ ~copy[r][f].asking /\ 2 \in messages[f]
        /\ IF Approved(f) THEN Go(r, f, "auth") /\ UNCHANGED status
             ELSE MarkTerminal(f, "failed") /\ Go(r, f, "cleanup")
        /\ UNCHANGED <<copy, fresh>>
  /\ UNCHANGED <<runtime, due, cursor, messages, credential, native, up, start, cancel, loop, faults>>

\* The handshake is not answered in twenty seconds.
RpcTimesOut(r, f) ==
  /\ up[r] = "up" /\ at[r][f] \in {"list", "decide"} /\ copy[r][f].asking /\ 1 \notin messages[f]
  /\ Break(r, f)
  /\ UNCHANGED <<row, native, up, start, cancel, loop, faults>>

\* account/read, and the credential file in the box.
ReadAuth(r, f) ==
  /\ Stand(r, f, "auth")
  /\ \/ box[f] = "up" /\ Go(r, f, "complete") /\ UNCHANGED <<copy, fresh>>
     \/ box[f] # "up" /\ Break(r, f)
  /\ UNCHANGED <<row, native, up, start, cancel, loop, faults>>

Complete(r, f) ==
  /\ Stand(r, f, "complete")
  /\ \/ /\ MayComplete(f)
        /\ status' = [status EXCEPT ![f] = "completed"] /\ credential' = f
        /\ Go(r, f, "cleanup") /\ UNCHANGED <<copy, fresh>>
     \/ /\ status[f] = "completed" /\ Go(r, f, "cleanup")
        /\ UNCHANGED <<status, credential, copy, fresh>>
     \/ /\ ~MayComplete(f) /\ status[f] # "completed" /\ Break(r, f)
        /\ UNCHANGED <<status, credential>>
  /\ UNCHANGED <<runtime, due, cursor, messages, native, up, start, cancel, loop, faults>>

Cleanup(r, f) ==
  /\ Stand(r, f, "cleanup") /\ Cleaned(f) /\ Rest(r, f)
  /\ UNCHANGED <<row, codex, up, start, cancel, loop, faults>>

\* A start whose first operation failed deletes the box, then marks the login.
Abandon(r, f) ==
  /\ Stand(r, f, "abandon") /\ Cleaned(f) /\ Go(r, f, "fail")
  /\ UNCHANGED <<row, codex, up, start, cancel, loop, copy, fresh, faults>>

AbandonMarks(r, f) ==
  /\ Stand(r, f, "fail") /\ MarkTerminal(f, "failed") /\ Rest(r, f)
  /\ UNCHANGED <<runtime, due, cursor, messages, credential, native, up, start, cancel,
                 loop, faults>>

\* A call to the box is refused, times out, or answers nonsense; a cleanup
\* that fails is logged.
CallFails(r, f) ==
  /\ up[r] = "up" /\ at[r][f] \in {"handshake", "list", "auth", "cleanup"} /\ faults < MaxFaults
  /\ faults' = faults + 1
  /\ IF at[r][f] = "cleanup" THEN Rest(r, f) ELSE Break(r, f)
  /\ UNCHANGED <<row, native, up, start, cancel, loop>>

Advance(r, f) ==
  \/ Begin(r, f) \/ Handshake(r, f) \/ List(r, f) \/ Persist(r, f) \/ Decide(r, f)
  \/ ReadAuth(r, f) \/ Complete(r, f) \/ Cleanup(r, f) \/ Abandon(r, f) \/ AbandonMarks(r, f)

-----------------------------------------------------------------------------
(* cancelDeviceLogin: the worker of this replica is told to stop, Codex is *)
(* told to cancel (it may answer that the login failed), the row is marked  *)
(* and the box of the row that came back is deleted.  One at a time.       *)

Cancel(r, f) ==
  /\ up[r] = "up" /\ IsActive(f) /\ \A q \in Replicas : cancel[q] = Nobody
  /\ cancel' = [cancel EXCEPT ![r] = [flow |-> f, at |-> "mark"]]
  /\ loop' = [loop EXCEPT ![r] = @ \ {f}]
  /\ \/ UNCHANGED <<emitted, answer>>
     \/ /\ box[f] = "up" /\ emitted[f] = 1 /\ status[f] = "awaiting"
        /\ emitted' = [emitted EXCEPT ![f] = 2] /\ answer' = [answer EXCEPT ![f] = "denied"]
  /\ UNCHANGED <<row, box, asked, overlooked, up, start, at, copy, fresh, faults>>

CancelMarks(r) ==
  /\ cancel[r].at = "mark" /\ MarkTerminal(cancel[r].flow, "cancelled")
  /\ cancel' = [cancel EXCEPT ![r].at = "cleanup"]
  /\ UNCHANGED <<runtime, due, cursor, messages, credential, native, up, start, work, faults>>

CancelCleans(r) ==
  /\ cancel[r].at = "cleanup" /\ Cleaned(cancel[r].flow)
  /\ cancel' = [cancel EXCEPT ![r] = Nobody]
  /\ UNCHANGED <<row, codex, up, start, work, faults>>

-----------------------------------------------------------------------------
(* A replica dies, and starts again (resumePending).                       *)

Crash(r) ==
  /\ up[r] # "down" /\ faults < MaxFaults /\ faults' = faults + 1
  /\ up' = [up EXCEPT ![r] = "down"]
  /\ start' = [start EXCEPT ![r] = Nobody] /\ cancel' = [cancel EXCEPT ![r] = Nobody]
  /\ loop' = [loop EXCEPT ![r] = {}] /\ fresh' = [fresh EXCEPT ![r] = {}]
  /\ at' = [at EXCEPT ![r] = Each("idle")]
  /\ copy' = [copy EXCEPT ![r] = Each(NoCopy)]
  /\ UNCHANGED <<row, native>>

Boot(r) ==
  /\ up[r] = "down" /\ up' = [up EXCEPT ![r] = "expiring"]
  /\ UNCHANGED <<row, native, start, cancel, work, faults>>

ExpireOnBoot(r) ==
  /\ up[r] = "expiring"
  /\ IF \E f \in Flows : IsActive(f) /\ due[f]
       THEN \E f \in Flows :
              /\ IsActive(f) /\ due[f] /\ MarkTerminal(f, "expired") /\ Cleaned(f)
              /\ UNCHANGED up
       ELSE up' = [up EXCEPT ![r] = "failing"] /\ UNCHANGED <<status, box>>
  /\ UNCHANGED <<runtime, due, cursor, messages, credential, codex,
                 start, cancel, work, faults>>

\* failInterruptedProvisioningFlows: of every replica.
FailInterrupted(r) ==
  /\ up[r] = "failing" /\ up' = [up EXCEPT ![r] = "resuming"]
  /\ status' = [f \in Flows |-> IF status[f] = "provisioning" THEN "failed" ELSE status[f]]
  /\ UNCHANGED <<runtime, due, cursor, messages, credential, native, start, cancel, work, faults>>

Resume(r) ==
  /\ up[r] = "resuming" /\ up' = [up EXCEPT ![r] = "up"]
  /\ loop' = [loop EXCEPT ![r] = Resumable]
  /\ overlooked' = overlooked \cup {f \in Flows : IsActive(f) /\ due[f]}
  /\ UNCHANGED <<row, box, asked, emitted, answer, start, cancel, at, copy, fresh, faults>>

Starting(r) == Provision(r) \/ Attach(r) \/ AttachRefused(r) \/ StartFails(r)
Cancelling(r) == CancelMarks(r) \/ CancelCleans(r)
Booting(r) == Boot(r) \/ ExpireOnBoot(r) \/ FailInterrupted(r) \/ Resume(r)

Next ==
  \/ \E f \in Flows : Emit(f) \/ Answer(f) \/ TimePasses(f) \/ BoxExpires(f)
  \/ \E r \in Replicas :
       \/ Starting(r) \/ ProvisionFails(r) \/ Cancelling(r) \/ Crash(r) \/ Booting(r)
       \/ \E f \in Flows :
            Create(r, f) \/ ExpireFirst(r, f) \/ Follow(r, f) \/ Cancel(r, f)
            \/ Advance(r, f) \/ RpcTimesOut(r, f) \/ CallFails(r, f)

Spec == Init /\ [][Next]_vars

\* A replica that dies is started again, what it runs goes on, and a login
\* does not wait longer than its life.
Fairness ==
  /\ \A f \in Flows : WF_vars(TimePasses(f))
  /\ \A r \in Replicas :
       /\ WF_vars(Starting(r)) /\ WF_vars(Cancelling(r)) /\ WF_vars(Booting(r))
       /\ \A f \in Flows : WF_vars(Advance(r, f)) /\ WF_vars(RpcTimesOut(r, f))
FairSpec == Spec /\ Fairness

-----------------------------------------------------------------------------
(* Properties                                                              *)

\* The rows keep the promise of LoginPromise: a login that has ended stays
\* ended, whoever still polls it, and the credential changes with the login.
Promise == INSTANCE LoginPromise WITH
  outcome <- [f \in Flows |->
    IF status[f] = "none" THEN "none"
    ELSE IF IsActive(f) THEN "open"
    ELSE IF status[f] = "completed" THEN "completed" ELSE "ended"]
KeepsPromise == Promise!Spec

\* Two replicas that page through the events of a box, one behind the other,
\* may move the cursor back but never past an event that is not recorded.
NothingSkipped == \A f \in Flows : 1 .. cursor[f] \subseteq messages[f]

\* Only a login its user has approved changes the credential.
StoredIsApproved == credential # NoFlow => answer[credential] = "approved"

\* Every login ends, whatever replica dies, save one that expires while a
\* replica starts, after the query for expired logins and before the one for
\* those to resume: only a later look at the Environment ends that one.
LoginEnds == \A f \in Flows : []<>(~IsActive(f) \/ f \in overlooked)

\* Whoever ends a login whose row names a box goes on to delete that box, also
\* when the box was attached after the row was read: without failures none is
\* left to nobody.
BoxDeleted ==
  \A f \in Flows :
    faults = 0 /\ runtime[f] /\ status[f] \in Terminal /\ box[f] = "up" =>
      \E r \in Replicas : at[r][f] = "cleanup" \/ cancel[r] = [flow |-> f, at |-> "cleanup"]
=============================================================================
