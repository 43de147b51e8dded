--------------------------- MODULE AgentCredential ---------------------------
(***************************************************************************)
(* The account credential of one Agent.  PostgreSQL keeps one unrevoked,   *)
(* encrypted source; the Sandbox keeps the plain file under /dev/shm, which *)
(* the Agent refreshes on its own and which does not survive a pause.      *)
(* Every open terminal of every replica copies the file to the source on a *)
(* timer, a lifecycle operation does before it persists or pauses the      *)
(* root file system, a device login replaces the source, and the opening   *)
(* of a terminal copies the source to the file.                            *)
(*                                                                         *)
(* A credential is the number of its production: a greater one is newer.   *)
(* The identity of the source is only compared: of the one a process has   *)
(* seen, the model keeps whether it is still the current one.  Each process *)
(* stands for a replica with one task at a time; the tasks of one replica   *)
(* differ from those of two only in the memory of what they have prepared,  *)
(* which the model replaces by a free choice.                              *)
(*                                                                         *)
(* The replacement of the source is one transaction, and one step: what it *)
(* has written is seen when it commits.  The marking of a binding is one   *)
(* statement of two steps, for it writes what it read in a snapshot taken  *)
(* before: it may wait for a replacement that has the row of the binding.  *)
(*                                                                         *)
(* Simplifications.  Every other statement of SQL is one step.  A read or  *)
(* a write of a file wakes a paused Sandbox, as in EnvironmentLifecycle.   *)
(* The check of the persistent link never refuses.                         *)
(***************************************************************************)
EXTENDS Naturals, FiniteSets

CONSTANTS
  Procs,      \* the replicas
  NoProc,     \* nobody
  MaxCreds,   \* bound on credentials the Agent, its user and logins produce
  MaxLogins,  \* bound on device logins and imports
  MaxPauses,  \* bound on runtime generations
  MaxTabs,    \* bound on open terminals
  MaxFaults   \* bound on crashes and failed calls

VARIABLES
  made,        \* how many credentials were produced
  source,      \* harness_credentials: content of the unrevoked source, 0 if none
  kept,        \* the contents the source has had
  binding,     \* environment_credential_bindings: status, and whether it
               \* names the current source
  up,          \* the Sandbox runs
  file,        \* the content of the file under /dev/shm, 0 if missing
  tabs,        \* open terminals
  lockX,       \* holder of the exclusive lifecycle lock
  lockS,       \* holders of the shared one
  pc, job,     \* where each process is, and in which task
  look,        \* the content of the file it has read or last put there, and what
               \* existed when it read
  seen,        \* the source it has read, and whether it is still current
  logins, pauses, faults

sandbox == <<up, file>>
rows    == <<source, kept, binding>>
locks   == <<lockX, lockS>>
local   == <<pc, job, look, seen>>
bounds  == <<made, logins, pauses, faults>>
vars    == <<sandbox, rows, tabs, locks, local, bounds>>

Contents == 0 .. MaxCreds
NoLook   == [cred |-> 0, made |-> 0]
NoSource == [cred |-> 0, current |-> FALSE]
Source   == [cred |-> source, current |-> TRUE]
Syncing  == {"read", "compare", "replace", "reinstall", "mark", "bind"}

TypeOK ==
  /\ made \in Contents /\ logins \in Nat /\ pauses \in Nat /\ faults \in Nat
  /\ source \in Contents /\ kept \subseteq Contents
  /\ binding \in [status : {"none", "active", "stale"}, current : BOOLEAN]
  /\ up \in BOOLEAN
  /\ file \in Contents /\ (~up => file = 0)
  /\ tabs \in Nat
  /\ lockX \in Procs \cup {NoProc} /\ lockS \subseteq Procs
  /\ pc \in [Procs -> Syncing \cup {"free", "admit", "install", "publish", "destroy"}]
  /\ job \in [Procs -> {"none", "terminal", "open", "pause", "snapshot"}]
  /\ look \in [Procs -> [cred : Contents, made : Contents]]
  /\ seen \in [Procs -> [cred : Contents, current : BOOLEAN]]

Init ==
  /\ made = 1 /\ source = 0 /\ kept = {}
  /\ binding = [status |-> "none", current |-> FALSE]
  /\ up = TRUE /\ file \in {0, 1} /\ tabs = 0
  /\ lockX = NoProc /\ lockS = {}
  /\ pc = [p \in Procs |-> "free"] /\ job = [p \in Procs |-> "none"]
  /\ look = [p \in Procs |-> NoLook] /\ seen = [p \in Procs |-> NoSource]
  /\ logins = 0 /\ pauses = 0 /\ faults = 0

-----------------------------------------------------------------------------
Goto(p, l) == pc' = [pc EXCEPT ![p] = l]
Finish(p) ==
  /\ Goto(p, "free") /\ job' = [job EXCEPT ![p] = "none"]
  /\ look' = [look EXCEPT ![p] = NoLook] /\ seen' = [seen EXCEPT ![p] = NoSource]
  /\ lockX' = IF lockX = p THEN NoProc ELSE lockX
  /\ lockS' = lockS \ {p}

Boundary(p) == job[p] \in {"pause", "snapshot"}
\* What follows a synchronisation that has nothing more to do.
Synced(p) ==
  IF Boundary(p) THEN Goto(p, "destroy") /\ UNCHANGED <<locks, job, look, seen>>
                 ELSE Finish(p)

-----------------------------------------------------------------------------
(* The conditions the properties rest on.  Beside each, a mistake that the *)
(* properties must notice when it takes the condition's place.             *)

ConnectedIsSame(p) == source # 0
Same(p) == source = look[p].cred

Superseded(p) == source # 0 /\ ~seen[p].current

Bindable(p) == seen[p].current

\* A call on a paused Sandbox resumes it first.
StillPaused == UNCHANGED up
Awake == up' = TRUE

StatusReplaced == IF binding.status = "none" THEN "none" ELSE "stale"

ErrorIgnored(p) == Goto(p, "destroy") /\ UNCHANGED <<locks, job, look, seen>>
Deferred(p) == Finish(p)

-----------------------------------------------------------------------------
(* The world around: the Agent, its user, and logins.                      *)

\* The Agent refreshes its file, or its user logs in in the terminal.
Refresh ==
  /\ up /\ made < MaxCreds
  /\ made' = made + 1 /\ file' = made + 1
  /\ UNCHANGED <<up, rows, tabs, locks, local, logins, pauses, faults>>

\* The source is revoked and another one inserted, in one transaction.
Replace(cred) ==
  /\ source' = cred /\ kept' = kept \cup {cred}
  /\ binding' = [status |-> StatusReplaced, current |-> FALSE]
NoneCurrent == [q \in Procs |-> [seen[q] EXCEPT !.current = FALSE]]

\* A device login completes, or the operator imports a credential.
Login ==
  /\ made < MaxCreds /\ logins < MaxLogins
  /\ made' = made + 1 /\ logins' = logins + 1
  /\ Replace(made + 1) /\ seen' = NoneCurrent
  /\ UNCHANGED <<sandbox, tabs, locks, pc, job, look, pauses, faults>>

-----------------------------------------------------------------------------
(* syncOpenedRuntime, for the timer of a terminal or before a boundary.    *)

Begin(p, j, l) ==
  /\ pc[p] = "free" /\ Goto(p, l) /\ job' = [job EXCEPT ![p] = j]

Tick(p) ==
  /\ tabs > 0 /\ Begin(p, "terminal", "read")
  /\ UNCHANGED <<sandbox, rows, tabs, locks, look, seen, bounds>>

Close(p) ==
  /\ tabs > 0 /\ tabs' = tabs - 1 /\ Begin(p, "terminal", "read")
  /\ UNCHANGED <<sandbox, rows, locks, look, seen, bounds>>

Protect(p) ==
  /\ lockX = NoProc /\ lockS = {} /\ lockX' = p
  /\ pauses < MaxPauses /\ pauses' = pauses + 1
  /\ \E j \in {"pause", "snapshot"} : Begin(p, j, "read")
  /\ UNCHANGED <<sandbox, rows, tabs, lockS, look, seen, made, logins, faults>>

ReadFile(p) ==
  /\ pc[p] = "read" /\ Awake
  /\ \/ /\ file # 0 \/ Boundary(p)
        /\ look' = [look EXCEPT ![p] = [cred |-> file, made |-> made]]
        /\ Goto(p, IF file = 0 THEN "destroy" ELSE "compare")
        /\ UNCHANGED <<locks, job, seen>>
     \/ file = 0 /\ ~Boundary(p) /\ Finish(p)
  /\ UNCHANGED <<file, rows, tabs, bounds>>

Compare(p) ==
  /\ pc[p] = "compare"
  /\ seen' = [seen EXCEPT ![p] = Source]
  /\ Goto(p, IF Same(p) THEN "mark" ELSE "replace")
  /\ UNCHANGED <<sandbox, rows, tabs, locks, job, look, bounds>>

ReplaceSource(p) ==
  /\ pc[p] = "replace" /\ ~Superseded(p)
  /\ Replace(look[p].cred)
  /\ seen' = [NoneCurrent EXCEPT ![p] = [cred |-> look[p].cred, current |-> TRUE]]
  /\ Goto(p, "mark")
  /\ UNCHANGED <<sandbox, tabs, locks, job, look, bounds>>

LoseRace(p) ==
  /\ pc[p] = "replace" /\ Superseded(p)
  /\ seen' = [seen EXCEPT ![p] = Source]
  /\ Goto(p, "reinstall")
  /\ UNCHANGED <<sandbox, rows, tabs, locks, job, look, bounds>>

NotReinstalled(p) ==
  /\ pc[p] = "reinstall" /\ Goto(p, "mark")
  /\ UNCHANGED <<sandbox, rows, tabs, locks, job, look, seen, bounds>>
Reinstall(p) ==
  /\ pc[p] = "reinstall" /\ Awake
  /\ file' = seen[p].cred
  /\ look' = [look EXCEPT ![p].cred = seen[p].cred]
  /\ Goto(p, "mark")
  /\ UNCHANGED <<rows, tabs, locks, job, seen, bounds>>

\* markCredentialMaterialized reads that the source it was given is not revoked...
Mark(p) ==
  /\ pc[p] = "mark"
  /\ IF Bindable(p) THEN Goto(p, "bind") /\ UNCHANGED <<locks, job, look, seen>>
                    ELSE Deferred(p)
  /\ UNCHANGED <<sandbox, rows, tabs, bounds>>

\* ...and writes that source, which a replacement may have revoked since, whether
\* it has waited for it or its own row was not there for it to make stale.
Bind(p) ==
  /\ pc[p] = "bind"
  /\ binding' = [status |-> "active", current |-> seen[p].current]
  /\ Synced(p)
  /\ UNCHANGED <<sandbox, source, kept, tabs, bounds>>

\* The lifecycle operation goes on: the pause empties /dev/shm, a snapshot
\* or a fork leaves the Sandbox as it is.
Destroy(p) ==
  /\ pc[p] = "destroy"
  /\ IF job[p] = "pause" THEN up' = FALSE /\ file' = 0 ELSE UNCHANGED sandbox
  /\ Finish(p)
  /\ UNCHANGED <<rows, tabs, bounds>>

-----------------------------------------------------------------------------
(* The opening of a terminal.                                              *)

\* The credential is read before the shared lock is asked for.
Open(p) ==
  /\ tabs + Cardinality({q \in Procs : job[q] = "open"}) < MaxTabs
  /\ Begin(p, "open", "admit")
  /\ seen' = [seen EXCEPT ![p] = Source]
  /\ UNCHANGED <<sandbox, rows, tabs, locks, look, bounds>>

Admit(p) ==
  /\ pc[p] = "admit" /\ lockX = NoProc
  /\ lockS' = lockS \cup {p} /\ Goto(p, "install")
  /\ UNCHANGED <<sandbox, rows, tabs, lockX, job, look, seen, bounds>>

\* What a replica has prepared within ten seconds it does not prepare again.
Install(p) ==
  /\ pc[p] = "install" /\ Awake
  /\ file' \in {file, IF seen[p].cred = 0 THEN file ELSE seen[p].cred}
  /\ lockS' = lockS \ {p} /\ Goto(p, "publish")
  /\ UNCHANGED <<rows, tabs, lockX, job, look, seen, bounds>>

\* The terminal is open; one that was given a credential synchronises it.
PublishOpen(p) ==
  /\ pc[p] = "publish"
  /\ tabs' = tabs + 1
  /\ IF seen[p].cred = 0 THEN Finish(p)
       ELSE Goto(p, "read") /\ UNCHANGED <<locks, job, look, seen>>
  /\ UNCHANGED <<sandbox, rows, bounds>>

-----------------------------------------------------------------------------
(* A call fails: a terminal swallows the error, a boundary is given up.    *)
Fail(p) ==
  /\ pc[p] \in Syncing \cup {"install"} /\ faults < MaxFaults
  /\ faults' = faults + 1
  /\ IF Boundary(p) THEN Deferred(p) ELSE Finish(p)
  /\ UNCHANGED <<sandbox, rows, tabs, made, logins, pauses>>

\* The replica dies: its tasks and terminals go with it.
Crash(p) ==
  /\ pc[p] # "free" /\ faults < MaxFaults
  /\ faults' = faults + 1
  /\ Finish(p)
  /\ \E n \in 0 .. tabs : tabs' = n
  /\ UNCHANGED <<sandbox, rows, made, logins, pauses>>

Sync(p) == ReadFile(p) \/ Compare(p) \/ ReplaceSource(p) \/ LoseRace(p) \/ Reinstall(p) \/ Mark(p)
           \/ Bind(p)
Opening(p) == Admit(p) \/ Install(p) \/ PublishOpen(p)

Next ==
  \/ Refresh \/ Login
  \/ \E p \in Procs :
       \/ Tick(p) \/ Close(p) \/ Protect(p) \/ Sync(p) \/ Destroy(p)
       \/ Open(p) \/ Opening(p) \/ Fail(p) \/ Crash(p)

Spec == Init /\ [][Next]_vars

\* A timer goes on ticking, and a task goes on while its replica lives.
Task(p) == Sync(p) \/ Destroy(p) \/ Opening(p)
Fairness == \A p \in Procs : WF_vars(Task(p)) /\ WF_vars(Tick(p))
FairSpec == Spec /\ Fairness

-----------------------------------------------------------------------------
(* Properties                                                              *)

\* Whatever source a process binds, its content is what that process has found in
\* the file of the Sandbox, or has put there after it lost a race: no replacement
\* by another replica, before or during the marking, gets a source bound that the
\* Sandbox was never given (syncOpenedRuntime).
BindsWhatWasInstalled ==
  [][ \A p \in Procs : Bind(p) => look[p].cred = seen[p].cred /\ seen[p].cred # 0 ]_vars

\* A pause empties the file only if what it held is, or once was, in the
\* source, or was produced after the pause had looked at the file.
PauseKeepsCredential ==
  [][ \A p \in Procs : Destroy(p) /\ job[p] = "pause" =>
        file \in kept \cup {0} \/ file > look[p].made ]_vars

\* While a terminal stays open the file and the source come to agree, however
\* many replicas copy one to the other; and a binding that a slow marking has left
\* on a revoked source comes to name the current one, if there is a file to read.
FileAndSourceAgree ==
  <>[](tabs > 0) => <>[](/\ file \in {0, source}
                         /\ file # 0 => binding = [status |-> "active", current |-> TRUE])

\* What a binding is for would be that an active one names the current source
\* (replaceCredentialFromRuntime makes it stale in the same transaction).  It does
\* not hold: a marking that has begun before the replacement writes after it.
BindingNamesSource == binding.status = "active" => binding.current

\* "Reinstall the winner instead of rolling it back" (credential-service.ts
\* 122): the source never goes back to an older credential.
NoRollback == [][ source' >= source ]_vars
=============================================================================
