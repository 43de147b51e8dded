------------------------------- MODULE Services -------------------------------
(***************************************************************************)
(* The services around an Environment: the credential of its Agent, its     *)
(* backups, its egress credentials, the subscription and the runtime quota  *)
(* of its owner, and what a browser shows of its terminal.                  *)
(* They have no row in common, and the lock they take is part of each       *)
(* module, so that nothing is lost by checking them side by side: a         *)
(* behaviour is one service's, chosen at the start, while the others stay   *)
(* as they began.  Three of the instances are of the modules with the       *)
(* proofs, whose theorems come with them.                                   *)
(***************************************************************************)
EXTENDS Naturals

CONSTANTS
  Procs, NoProc, Creds, NoCred, Unknown,
  \* The bounds of each service, as its module explains them.
  MaxCreds, MaxLogins, MaxPauses, MaxTabs, AgentFaults,
  MaxSnaps, MaxSessions, MaxRetain, BackupChanges, MaxAsks, BackupFaults,
  SourceVersions, MaxOps, EgressFaults,
  MaxVersions, StripeFaults,
  Limit, MeterTime, MeterChanges, MeterFaults,
  MaxEvents, ReplaySessions, MaxUnparsed, CommandLimit, ReplayChanges

\* What the proofs need to know of them.
ASSUME ServicesAssumption ==
  /\ NoProc \notin Procs
  /\ MaxCreds \in Nat \ {0}
  /\ MaxSnaps \in Nat /\ MaxSessions \in Nat /\ MaxRetain \in Nat \ {0}
  /\ SourceVersions \in Nat
  /\ MaxVersions \in Nat /\ StripeFaults \in Nat
  /\ MeterTime \in Nat /\ MeterChanges \in Nat /\ MeterFaults \in Nat
  /\ ReplaySessions \in Nat

VARIABLES
  scene,
  \* AgentCredential
  made, agentSource, kept, binding, agentUp, file, tabs, lockX, lockS, pc, job,
  look, seen, logins, pauses, agentFaults,
  \* WorkspaceBackup
  ready, desired, up, rootfs, coordinates, snaps, records, every, retain, due,
  retry, lock, task, taken, born, asks, changes, faults, least, unanswered,
  \* EgressCredential
  env, sandbox, egressStatus, enabled, version, source, bound, op, revived,
  replaced, ops, egressFaults,
  \* StripeBilling
  status, event, row, proc, applied, stripeFaults,
  \* UsageMeter
  clock, running, claimed, from, windows, stored, cursor, worker, cache, wakes,
  meterFaults,
  \* TerminalReplay
  journal, current, sessions, cached, link, page, place, memory, screen, turns

Agent == INSTANCE AgentCredentialProofs WITH
  MaxFaults <- AgentFaults, source <- agentSource, up <- agentUp, faults <- agentFaults
Backup == INSTANCE WorkspaceBackupProofs WITH
  MaxChanges <- BackupChanges, MaxFaults <- BackupFaults
Egress == INSTANCE EgressCredentialProofs WITH
  MaxVersions <- SourceVersions, MaxFaults <- EgressFaults,
  status <- egressStatus, faults <- egressFaults
Stripe == INSTANCE StripeBilling WITH MaxFaults <- StripeFaults, faults <- stripeFaults
Meter == INSTANCE UsageMeter WITH
  Replicas <- Procs, MaxTime <- MeterTime, MaxChanges <- MeterChanges,
  MaxFaults <- MeterFaults,
  now <- clock, up <- running, changes <- wakes, faults <- meterFaults
Replay == INSTANCE TerminalReplay WITH
  MaxSessions <- ReplaySessions, MaxChanges <- ReplayChanges,
  made <- sessions, stored <- place, changes <- turns

agentVars == <<made, agentSource, kept, binding, agentUp, file, tabs, lockX, lockS, pc,
               job, look, seen, logins, pauses, agentFaults>>
backupVars == <<ready, desired, up, rootfs, coordinates, snaps, records, every,
                retain, due, retry, lock, task, taken, born, asks, changes, faults,
                least, unanswered>>
egressVars == <<env, sandbox, egressStatus, enabled, version, source, bound, op,
                revived, replaced, ops, egressFaults>>
stripeVars == <<status, event, row, proc, applied, stripeFaults>>
meterVars == <<clock, running, claimed, from, windows, stored, cursor, worker, cache,
               wakes, meterFaults>>
replayVars == <<journal, current, sessions, cached, link, page, place, memory, screen,
                turns>>
vars == <<scene, agentVars, backupVars, egressVars, stripeVars, meterVars, replayVars>>

Init ==
  /\ scene \in {"agent", "backup", "egress", "stripe", "meter", "replay"}
  /\ Agent!Init /\ Backup!Init /\ Egress!Init /\ Stripe!Init /\ Meter!Init
  /\ Replay!Init
  /\ (scene # "agent" => file = 0) /\ (scene # "meter" => claimed = 0)

Next ==
  /\ UNCHANGED scene
  /\ scene # "agent" => UNCHANGED agentVars
  /\ scene # "backup" => UNCHANGED backupVars
  /\ scene # "egress" => UNCHANGED egressVars
  /\ scene # "stripe" => UNCHANGED stripeVars
  /\ scene # "meter" => UNCHANGED meterVars
  /\ scene # "replay" => UNCHANGED replayVars
  /\ \/ scene = "agent" /\ Agent!Next
     \/ scene = "backup" /\ Backup!Next
     \/ scene = "egress" /\ Egress!Next
     \/ scene = "stripe" /\ Stripe!Next
     \/ scene = "meter" /\ Meter!Next
     \/ scene = "replay" /\ Replay!Next

\* The fairness that each module states, for the behaviours that are its own.
Fairness ==
  /\ WF_backupVars(scene = "backup" /\ Backup!RetryComes)
  /\ WF_meterVars(scene = "meter" /\ Meter!Expire)
  /\ \A p \in Procs :
       /\ WF_agentVars(scene = "agent" /\ Agent!Task(p))
       /\ WF_agentVars(scene = "agent" /\ Agent!Tick(p))
       /\ WF_backupVars(scene = "backup" /\ Backup!Work(p))
       /\ WF_backupVars(scene = "backup" /\ Backup!Skip(p))
       /\ WF_stripeVars(scene = "stripe" /\ Stripe!Step(p))
       /\ WF_meterVars(scene = "meter" /\ Meter!Step(p))
  /\ \A v \in Stripe!Versions :
       /\ WF_stripeVars(scene = "stripe" /\ Stripe!LeaseExpires(v) /\ UNCHANGED stripeFaults)
       /\ WF_stripeVars(scene = "stripe" /\ \E p \in Procs : Stripe!Deliver(p, v))

Spec == Init /\ [][Next]_vars /\ Fairness

\* Every variable of the five services that the server keeps keeps its type.
TypeOK == Agent!TypeOK /\ Backup!TypeOK /\ Egress!TypeOK /\ Stripe!TypeOK /\ Meter!TypeOK

-----------------------------------------------------------------------------
(* The properties, as the modules state them.                              *)

\* Whatever source is bound has been in the file, as its process has left it.
BindsWhatWasInstalled == Agent!BindsWhatWasInstalled
\* A pause does not lose a credential that the source was never given.
PauseKeepsCredential == Agent!PauseKeepsCredential
\* While a terminal stays open, the file of the Agent, the source and the binding
\* come to agree.
FileAndSourceAgree == Agent!FileAndSourceAgree
\* Backups that are due are in the end made, and what is over the retention is
\* in the end pruned.
PolicyReached == Backup!PolicyReached
\* The newest backups, as many as the policy keeps, have their snapshot.
RecordedUsable == Backup!RecordedUsable
\* However many replicas see an Environment due, one backup is made of it.
OneBackupPerDue == Backup!OneBackupPerDue
\* The session an Environment would resume exists in its root file system.
CoordinatesRestored == Backup!CoordinatesRestored
\* A credential that is shown active is what the Sandbox enforces, save the two
\* cases that the module names.
ActiveIsEnforced == Egress!ActiveIsEnforced
\* A secret kept at Sandbox0 is named by a row, through which it can be removed.
SecretsHaveRows == Egress!SecretsHaveRows
\* An attempt whose claim has run out does not give away the claim of the next.
OneAttempt == Stripe!OneAttempt
\* The latest state of a subscription is in the end the one projected.
ChangesApplied == Stripe!ChangesApplied
\* No window of usage before the cursor is left out by replicas that import it
\* side by side.
NothingPassedOver == Meter!NothingPassedOver
\* A Sandbox over the quota is stopped in the end, save one without a start.
OverQuotaStops == Meter!OverQuotaStops
\* The screen of a page is one piece of one session, over everything that may
\* come between the page and the journal, save where the cache has a hole.
ScreenContinues == Replay!ScreenContinues
=============================================================================
