# Sandpi: specifications, model checking and proofs

Sandpi (v2) is a web client for native coding-agent TUIs that run in Sandbox0
sandboxes. Any number of stateless server replicas share one PostgreSQL
database and call one external service, Sandbox0, which owns the sandboxes and
the terminal sessions inside them. This directory holds TLA+ modules of the
parts of that server that are hard to get right, the TLC configurations that
check them on small instances, and TLAPS proofs of their safety for instances
of any size. All paths below are relative to the repository.

## 1. The system and its components

| Component | State it keeps | Operations | What makes it correct |
| --- | --- | --- | --- |
| **Environment lifecycle** (`src/server/environments/lifecycle-service.ts`, `store.ts`, `runtime/sandbox0.ts`) | `environments.status`; `environment_runtime`: desired state, Sandbox id, pause reason and interval, idle deadline; a PostgreSQL session advisory lock | idle, quota and manual pause; restart; retirement of a v1 supervisor; lifecycle policy; candidate queries every five seconds | the row says of the Sandbox what is true of it; pauses survive crashes; nobody is disturbed during an access |
| **Provisioning and deletion** (`environments/service.ts`) | the same row | create, provision, retry, update, two-phase delete | one Sandbox per Environment, none lost, the row goes last |
| **Runtime access** (`environments/runtime-access-service.ts`) | the same lock, shared | admission, repair, readmission, activity touch | an admitted operation keeps its Sandbox |
| **Agent terminal** (`server.ts`, `terminal-input-queue.ts`) | published terminal coordinates, controller lease (both PostgreSQL), a copy of the lease per connection | open, publish, acquire, renew, take over, forward input | one writer at a time, of the right session |
| **Terminal output and replay** (`terminal-replay.ts`, `terminal-output-batcher.ts`, `components/use-terminal-session.ts`, `lib/terminal-replay-*.ts`) | the journal of a session at the Supervisor, a copy of the session per replica for five seconds, the cursor of a page in memory and in localStorage, a cache that lasts as long as the page | open, batch, receive, reset, render, bookmark, restore, reload | a screen is continued where it ends, or begun anew |
| **Native session selection** (`agents/session-service.ts`) | selected launch | stop and open | an old session never comes back as the selected one |
| **Environment fork and idempotency keys** (`environments/fork-service.ts`, `store.ts`) | the journal of the fork, its target, an idempotency key | claim, journal, fork at Sandbox0, restore, strip references, publish; recovery every thirty seconds | one target and one child per key, published only when clean, nothing leaked |
| **Workspace backup and restore** (`environments/workspace-backup-service.ts`) | policy, due and retry times, records of snapshots; the snapshots themselves are at Sandbox0 | create (asked for or due), prune, restore, clean up what could not be recorded | a restore never loses the state before it; what is recorded can be restored; retention is kept |
| **Agent credentials** (`agents/credential-service.ts`, `codex-credential-persistence.ts`) | one unrevoked encrypted source, the binding of a Sandbox to it, the plain file under `/dev/shm` | materialise into a Sandbox, read back by a timer and before a pause, replace | the newest refresh wins, a pause loses none |
| **Codex authentication** (`harnesses/codex/auth-service.ts`, `auth-store.ts`) | login flows, their native events, a throw-away sandbox per flow | start, poll, cancel, expire, resume after restart | one outcome per flow |
| **Billing quota and usage** (`billing/usage-service.ts`, `quota-service.ts`, `repository.ts`) | imported usage windows and the cursor, a cached observation of what runs | import, gate an access, pause what is over the quota | no window left out, what is over the quota stops |
| **Stripe billing** (`billing/stripe-service.ts`) | events with a claim, the projected subscription, the quota anchor | claim, retrieve, project, complete, fail | every change projected, one handler at a time |
| **Egress credentials** (`environments/egress-credential-service.ts`) | rows, sources and the network policy at Sandbox0 | create, update, rotate, delete, reconcile | what is shown active is enforced, no secret without a row |
| **v1 remainders** (schedules, webhooks, Codex turns, automations) | retired: routes answer 410 | - | - |
| **The rest of the web client, CLI, authentication, migrations** | little shared state | - | - |

How they interact: every operation that changes a Sandbox's lifecycle runs as
a callback under the Environment's advisory lock (exclusive), every operation
of a user on a Sandbox under the same lock in shared mode. Callbacks read and
write the row through the connection that holds the lock, and call Sandbox0
over HTTP in between. The terminal route opens a session under the shared lock
but publishes it, renews leases and reads credential files without any lock.
The reconcilers of all replicas poll PostgreSQL and skip a busy Environment.

What is hard in it:

* a replica dies, or only loses its lock connection, between the Sandbox0 call
  and the row write; its call may still land, later, on another owner's state;
* every read made before the lock is checked again, or not, under the lock;
* deletion releases the lock between its phases;
* the terminal's readers wake a paused Sandbox without holding the lock;
* a lease is cached per connection and two writers update the copy, in the
  order their answers arrive;
* a page asks to go on from a cursor while the journal is pruned, or replaced,
  and the server may judge it by a copy that is seconds old;
* a credential, a subscription or a page of usage is read at one service and
  written at another without a lock that spans both;
* a row, a source and a policy are three stores, and an operation may end
  between any two of them;
* several replicas follow one device login, one of them in an old copy.

`PROJECT.json` lists each of these hazards at its line, with the properties
that would notice it, and every component with what is modelled of it.

## 2. Modules

| Module | Models |
| --- | --- |
| `EnvironmentProjection` | what the row promises to its readers: the abstract specification, without lock, processes or Sandbox0 |
| `EnvironmentLifecycle` | lifecycle, provisioning, deletion, access and repair of one Environment, by processes of any replica |
| `EnvironmentLifecycleInvariant` | the inductive invariant: what a process may rely on at each of its places |
| `EnvironmentLifecycleProofs` | its proof, and the theorems that follow |
| `MCEnvironmentLifecycle` | the symmetry used by TLC |
| `TerminalControl` | one Environment's Agent terminal: connections, leases, coordinates, selection |
| `TerminalControlInvariant` | its inductive invariant: what ties a connection to its session and to its lease |
| `TerminalControlProofs` | its proof, and the theorems that follow |
| `MCTerminalControl` | its instance for TLC: two tabs |
| `TerminalReplay` | what a browser shows of a terminal: journal, cursor, reset, saved place, page cache |
| `EnvironmentFork` | the fork saga of one source and one idempotency key, by requests and recovery passes of any replica |
| `EnvironmentForkInvariant` | its inductive invariant: what holds at each place of the saga |
| `EnvironmentForkProofs` | its proof, and the theorems that follow |
| `MCEnvironmentFork` | the symmetry used by TLC |
| `LoginPromise` | what a device login promises: one is open at a time, it ends once, the credential changes with the one that completes |
| `CodexLogin` | device logins of one Environment, by the requests and workers of any replica; it implements `LoginPromise` |
| `CodexLoginInvariant` | its inductive invariant |
| `CodexLoginProofs` | its proof, the theorems that follow, and the proof of the refinement |
| `AgentCredential` | the account credential of one Agent in PostgreSQL and in the Sandbox, by the timers, pauses and openings of any replica |
| `AgentCredentialProofs` | its inductive invariant and the theorems |
| `WorkspaceBackup` | backups, restores and retention of one Environment |
| `WorkspaceBackupProofs` | its inductive invariant and the theorems |
| `EgressCredential` | rows, sources and policy of the egress credentials of one Environment |
| `EgressCredentialProofs` | its inductive invariant and the theorems |
| `StripeBilling` | the events of one subscription and their handlers |
| `UsageMeter` | usage windows, gate and enforcement for one user with one Sandbox |
| `Services` | these five services and `TerminalReplay`, each with its own instance, side by side |
| `ServicesProofs` | the inductive invariants of `StripeBilling`, `UsageMeter` and `TerminalReplay`, and the theorems about all six, side by side |

### EnvironmentLifecycle

One Environment. A process (`pc`, `op`, `rt`, `sent`) is a request handler or a
reconciler in some replica; `rt` is the Sandbox id of the row copy it works
from, `pc` the await it stands at. Each transaction on the row, each Sandbox0
call sent, and each call landing is one action. The labels follow the
code: `locked` (the callback has started), `hook` (`beforePause`), `pause` /
`pausing` / `recordPaused` (`pauseEnvironment`, `recordEnvironmentPaused`),
`intend` (the update of `preparePauseEnvironment` or `prepareEnvironmentDeletion`),
`resume` / `resuming` / `recordAccess`, `claiming` / `publish` / `await` /
`markReady` (`provisionWhileLocked`), `deleting` / `afterDelete` /
`removeRow`.

The row is `status`, `desired`, `sandbox`, `pause` (the reason while
`paused_at` is set), `due` (the idle deadline: none, future or past),
`idleOn`, `supervisor` and `policy`. `sb` is what Sandbox0 knows; `waker`
remembers what last made a Sandbox run, so that a property can tell a wake-up
under the lock from a read that takes none. `strays` are the calls whose
caller is gone and which may still land; `terminals` the Sandboxes with an
open Agent terminal, whose credential reads wake them.

The two intents that are announced in advance, a pause and a deletion, are read
and written in two statements, and so in two steps: `CheckReady` and `CheckDelete`
read the status, `PreparePause`, `SkipPause` and `PrepareDelete` act on it, and a
request without a lock may change the row in between. The hook before a pause
(`BeforePause`) wakes the Sandbox only if there is something to read in it, which
is a free choice.

Failures: a call is rejected, or its outcome is unknown; a replica dies
(`Crash`); the connection that holds the lock is lost while the callback runs
on (`LoseConnection`, `Abort`), which is how `onClient` stores behave: their
next write fails, while Sandbox0 calls still go through.

Abstractions: deadlines have no clock; a claim yields a running Sandbox;
quota answers are free choices; `lifecycle_error`, its one-minute backoff and
version counters are left out (a background pass may run at any time); plan
memory, network policy and names are left out; snapshots and restores of the
Workspace are another component.

### EnvironmentProjection

Five variables of the row and the twelve changes a reader may see, for
example that a pause interval keeps its reason until an access or a claim
closes it (billing reads it), that a pause is asked for only where there is a
Sandbox and no published deletion, and that a row never goes while it asks for
a pause. `EnvironmentLifecycle` implements it with the identity mapping
(`ImplementsProjection`).

### TerminalControl

Terminal coordinates (runtime generation, session, attempt) are the position
of the attempt in the sequence of all attempts. A lease counts down; so does
every copy. Each PostgreSQL statement and its answer are two actions, because
the input queue and the one-second timer of a connection both write its
`control` variable in the order in which answers arrive. A connection opens the session it reads in
PostgreSQL (`OpenTerminal`), or one of which its replica still has a copy that is
up to five seconds old (`OpenCached`): any attempt of the launch
and the runtime it was admitted with, ended or not. `granted` is a history variable: how much is left of PostgreSQL's last grant to a client.
`lease_version` and the preparation of Agent state are left out; output and
replay are `TerminalReplay`'s. An answer that PostgreSQL gives in time but that takes longer than a
lease to arrive still lets the one input that asked for it through; the
property says so.

### TerminalReplay

`journal` is what the Supervisor keeps of each session: its events, of which
`output` is joined into batches and anything else is sent alone, and the oldest
it still has. `link` is the connection of the page: `asked` when the server has
read the session (fresh, or from the copy `cached`, which may be any replica's)
and has set its cursor by `reconcileTerminalReplayCursor`, `open` when the page
has handled `ready`; `link.after` is how far the stream has got. An expired
cursor is refused by the Supervisor: after a cached copy the server reads again
and decides anew, otherwise the page fails until the user retries. `page` holds
the refs of `useTerminalSession`: `seen` (`receivedSequenceRef`), `rendered`
(`lastSequenceRef`), `state` (session, last sequence, bookmarks) and `pending`;
`stored` is localStorage, `memory` the page cache, which `append` and `usable`
treat as the code does. The three ways to a new screen are apart: `Remount`
keeps the refs (the Environment was disabled and enabled, or a retry), `Return`
reads localStorage and may restore the cache, `Reload` has neither refs nor
cache. `screen` is what was written to xterm since it was empty, as intervals of
sequence numbers; xterm parses in order and as late as it likes (`Parsed`).

Left out: the sizes of batches, the input outbox, several tabs that share one
localStorage, the page after its process has ended, and how long a copy lives (a
copy is used as long as it names the session).

### EnvironmentFork

`key` is the row of `idempotency_keys`, `op` the journal
(`environment_fork_operations`: phase, whether it names the child, whether
`source_environment_id` is still set), `target` the new Environment, `child`
its Sandbox with what was done to it: the snapshot restored, the credential
references stripped. A process is a request (`create`) or a recovery of one
operation (`reconcilePending`); `at` and `lock` are the target it works for
and the Environment whose lock it takes. `enter` .. `publish` are its places in
the callback: `resume` is where both kinds meet in `resumeOperation`, `fork`,
`restore` and `strip` are calls to Sandbox0. A recovery decides on a copy read
without a lock (`Recover`); the copy survives in `pc` and `lock` while the row
changes. The surroundings are the deletion of the source (terminate, delete
the Sandbox, remove the row, which nulls the reference), retention, and the
deletion (which cascades to the journal) and retry of the target.

Two sagas can run without excluding each other: a recovery that listed the
operation before the source went holds the lock of the source, one that listed
it afterwards the lock of the target. `PublishRefused` is reached only so.

Abstractions: one key, one request body, no expiry; an operation identity
never yields a second child (Sandbox0 is external); quota and the credential
hook may refuse; the user's work in a published child is not followed.

### CodexLogin and LoginPromise

A login is a row of `codex_device_auth_flows` (`status`, `runtime`, `due`,
`cursor`, `messages`) with a sandbox of its own (`box`), in which a native Codex
emits two events: its answer to the handshake, and the completion of the login.
`start` is the request that provisions the box and attaches it, `cancel` the
one that cancels, `loop` the logins a replica has a worker for, `at` the await
an operation (`advance`) stands at: `handshake`, `list`, `persist`, `decide`
(`ingest` and the RPC answers read from the row), `auth`, `complete`,
`cleanup`, `abandon` and `fail` (the `catch` of a start). `copy` is the row it
works on, which another replica's worker may have left behind. `up` is a
replica that starts: it expires, fails and resumes in that order
(`resumePending`), and `overlooked` are the logins that expire between two of
its queries.

`LoginPromise` has two variables, the outcome of each login and the credential
of the Environment. `CodexLogin` implements it with the mapping of `Promise`:
the three active statuses are one open outcome, failure, cancellation and
expiry one end. The mapping is not the identity: nothing of replicas, boxes or
events is left.

### AgentCredential

A credential is the number of its production. `source` is the unrevoked row,
`binding` what the row of the binding says, `file` the file in the Sandbox,
`job` and `pc` the task of a replica: the five-second copy of a terminal, the
copy before a pause (and the destruction that follows), the opening of a
terminal. `look` is what a task has read. A synchronisation reads the file
(`ReadFile`), compares it with the source (`Compare`), and replaces the source
(`ReplaceSource`), or loses the race and puts the winner back into the file
(`LoseRace`, `Reinstall`). `markCredentialMaterialized` is one statement and two
steps: `Mark` reads in its snapshot that the source is not revoked, and `Bind`
writes the binding, for which it may have to wait until a replacement commits the
row it has just made stale. The binding is then active and names a source that
is revoked by now; `FileAndSourceAgree` says that a later copy repairs it, and
`BindsWhatWasInstalled` what a binding may be trusted for all the same.

### WorkspaceBackup

`task` is what a process does (a due backup or a pruning is `automatic`, the
others are `manual` and `restore`), where it stands and what it has read; the protective snapshot of a restore, the
restore at Sandbox0, its record, the deletion of a snapshot that could not be
recorded and the removal of old ones are steps of their own. The root file system is the set of native sessions it
holds, so that a restored Workspace whose row still names a lost session can be
told from a good one. A call that fails may have been carried out, so that
after a failed pause or resume the Sandbox may be up or not. `unanswered`
remembers that a commit took effect without
an answer, which the service takes for a failure.

### EgressCredential

`status`, `enabled`, `version` are the row, `source` the version at Sandbox0
(where alone the secret is) and `bound` what the network policy binds. `op` is
the one operation that holds the lock; it may fail or die after any step, and
`reconcile` runs when a server starts. `revived` and `replaced` name the two
cases in which the code knowingly does not look at the policy again.

### StripeBilling

Versions of a subscription are numbered; an event announces each. A handler
claims an event, retrieves the latest version, reads the stored row, writes,
completes. A call may fail with or without its effect (`AnswerLost`, `CallFails`).
Of the quota anchor the model keeps whether it is set, not its date. A claim that outlasts its five minutes may be taken by another
handler while the first goes on: its completion and its failure name the
attempt.

### UsageMeter

`windows` are listed by Sandbox0 with a delay, `cursor` and `stored` are the
import, `cache` the observation the gate may reuse for five seconds, `claimed`
what Sandbox0 gives as the start of the running Sandbox (which may be missing
or no date). A worker of each replica imports, then enforces, then the pause
asks the gate again under the lock.

### Services

The five services, and the browser's side of the terminal, have no row in common
and the lock they take is part of each module, so `scene` chooses one of them at
the start and leaves the others as they began; the state space is the union, not
the product, of the six. It only instantiates them: no definition of theirs is
replaced. Agent credentials, backups and egress credentials are instantiated by
way of their modules of proofs, so that the theorems come with the instances.

### Mistakes

Beside some conditions stands a second operator that no action uses
(`SharedIgnored` by `ExclusiveFree`, `AnyLaunch` by `MayPublish`, ...): a
mistake that could be made there. Putting one in the condition's place must
break the property that `PROJECT.json` names beside it (`mutants`).

## 3. Runs

Deadlock checking is on in `TerminalLease`. It is off where the system rightly
stops: a deleted Environment with no request left, a fork whose requests are
over, a login that has ended, or services and pages whose bounded changes are
used up.

| Run | Instance | Shows |
| --- | --- | --- |
| `LifecycleSafety` | all operations, 2 processes, 2 Sandboxes, 2 user requests, 1 failure; 1.9 million states | pauses recorded as committed; the row outlives its Sandbox; identities kept; retirement restores the pause; the projection is implemented; in the behaviours without a failure also that no Sandbox is orphaned and no access disturbed |
| `LifecycleTakeover` | fairness; idle, access, restart, delete; 2 requests, 1 failure | an idle pause is in the end completed by some replica; late writers leave a published deletion alone; without a failure a running Sandbox has a deadline |
| `LifecycleStuck` | fairness, 1 failure | *violated*: `AllocationRetried` |
| `TerminalLease` | 2 tabs, lease of 2 ticks, 1 attempt, 1 takeover or lost answer, fairness | no input outlives a lease; control returns |
| `TerminalPublication` | 2 tabs, 2 attempts, 1 selection, 1 replaced runtime; 2.2 million states | the published attempt belongs to the selected session; leases only on published coordinates |
| `ForkSaga` | 2 processes, 2 fresh ids, 2 requests of one key, 2 failures, fairness | one target and child per key; published only restored and stripped; a completed key means a published saga; an unnamed child is still being retried; phases only advance; sagas end |
| `ForkOrphan` | 1 failure | *violated*: `OrphanRetriedOrCleaned` |
| `CodexLogin` | 2 replicas, 1 login, 1 crash or failed call, fairness | what has ended stays ended (`KeepsPromise`); only an approved login stores a credential; no event is passed over; without a failure no box is left to nobody; every login ends |
| `Services` | 2 processes; bounds as given in `Services.cfg`; 1 or 2 failures each; fairness | the properties of the five services, listed in `PROJECT.json`; a screen is one piece of one session (`ScreenContinues`) |
| `EgressUnbound` | 1 credential, 2 versions, 1 failure | *violated*: `ActiveIsBound` |
| `StripeReorder` | 2 handlers, 2 versions, no failure | *violated*: `NewerStateStays` |
| `UsageUnmetered` | 1 replica, no failure, fairness | *violated*: `UnmeteredIsPaused` |

The inductive invariants, the type invariants of the lifecycle, the terminal, the
fork and the logins, and `LockExclusion`, are in no run: the theorems establish them for
every instance. (`CodexLogin` is also the one run with a single login: that two are
never open together is part of `KeepsPromise`, and is proved for any number.)

The properties that hold without failures say so (`faults = 0 => ...`):
`RunningHasDeadline`, `NoOrphan`, `AccessUndisturbed`, `BoxDeleted`,
`CoordinatesRestored`, `OneBackupPerDue`. `RunningHasDeadline` also needs that no
user withdraws a deletion by a retry, which leaves a ready Environment without a
deadline; `LifecycleTakeover` leaves that operation out.

Why the bounds are enough. Two processes are what each hazard needs: the lock
admits one transition, and the other process is the access, the second
reconciler, the late writer or the one that takes over after a crash. Two
Sandboxes let a second identity be claimed after the first; with none left a
claim is refused for free, so fairness cannot depend on identities. One
failure at any step includes a crash at every await; the safety theorems below
do not depend on any of these bounds. In `TerminalControl` a lease of two
ticks is the shortest in which a copy can be older than the lease and still
look fresh; two connections are an old and a new controller. The fork needs a
second fresh id for a second target to be possible at all, a repeated request,
and two failures for a crash during the recovery of a crash. A login needs two
replicas, one of which follows it in an old copy of its row, and one failure.
Of the services, each instance has the fewest contents, versions and times in
which one actor can be behind another: two credentials and a login, two
snapshots and a change of the policy, two versions of a source, two versions
of a subscription, two units of usage over a limit of one. A page needs two
events for a batch, for a cursor inside the window and for one that has fallen
out of it, two sessions for a cursor of the wrong one, and two changes by user,
network or retention for a connection that is lost and a journal that is pruned
or replaced before the next one.

### Fairness

`FairSpec` of the lifecycle assumes that a process that can move by itself
does (Sandbox0 answers, or the client's timeout does), that every replica's
polling loop starts each background operation that has a candidate, and that
deadlines pass. Acquiring the lock is only weakly fair: background passes skip
a busy lock and come again. Nothing is assumed of users, failures, terminals
or late calls. `FairSpec` of the terminal assumes that time passes and that
the timer of an open connection asks and is answered. `FairSpec` of the fork
assumes that every process that can move does, and that recovery is tried again
as long as an operation is pending. `FairSpec` of the logins assumes that what
a replica has begun goes on, that a replica that died starts again, and that
time passes; nothing is assumed of the user or of Codex. `AgentCredential`
assumes that timers tick and tasks go on, `WorkspaceBackup` that passes come
round and find the lock free from time to time, `StripeBilling` that Stripe
delivers again what was not accepted and that leases run out, `UsageMeter` that
workers go on and a remembered observation lasts five seconds. All are what `setInterval`, `AbortSignal.timeout` and PostgreSQL provide.

### What the violated properties say

Each is a sentence of the repository that the code does not keep; `findings`
quotes it.

* `LifecycleStuck`: a crash after an allocation is published and before the
  Environment is ready leaves it `updating`, which neither provisioning nor
  deletion accepts.
* `ForkOrphan`: a replica dies after Sandbox0 made the child; the user deletes
  the source; recovery fails the operation and the child stays, unnamed.
* `EgressUnbound`: a creation dies between its source and the policy; replacing
  the secret then finds the source, skips the policy and shows the credential
  active while nothing binds it.
* `StripeReorder`: a handler that is slow between its retrieval and its write
  overwrites the newer state another event's handler wrote.
* `UsageUnmetered`: enforcement lists a Sandbox without a valid start for a
  pause, but the gate the pause asks first throws for the same Sandbox.

Stated in the modules, refuted by TLC, and kept without a run of their own:
`PausedRowPausedSandbox` (the credential read of an open terminal wakes a Sandbox
just paused, and the row stays paused), `DeadlineSurvives` (`restartManually`
records the access only after the Sandbox runs; a crash in between leaves a
Sandbox that no candidate query selects), `InputRechecked` (input is forwarded
from a cached lease after a takeover, for at most the rest of that lease),
`LatePublicationRejected` (of two attempts of one session, the slower connection
may publish the older one last), `BindingNamesSource` (an active binding names the unrevoked source: a marking
whose snapshot precedes the commit of a replacement waits for it and then writes
the revoked source as active), `NoRollback` (a slow reader may put an older
refresh back over a newer one of another replica; they agree in the end),
`RestoreInvalidates` (a replica that dies between the restore at Sandbox0 and its
record leaves coordinates of a session that the root file system has lost),
`RestoredWhole` (a page cache that was begun by a reset ends at some event; the
user comes back with a bookmark, or with frames that xterm had not parsed; the
replay then has a chunk that overlaps the end of the cache, which `append` leaves
out, and adds what follows it: the next screen restored from the cache lacks
the output in between, although the comment there takes every gap for lifecycle
events; three events in one session show it), `SavedCursorExists` (the first
key of a command is remembered by its place in the session of the time, and a
frame parsed late by its number; when a replaced session was reset in between,
they move the saved cursor of the new one past output it has not had, so that the
next load of the page skips it, where the design says that a cursor of another
agent or attempt cannot: `docs/architecture/native-agent-terminal-authority.md`).

Also seen while modelling, and not listed as runs: a failed cleanup of a failed
provisioning drops the coordinates of a Sandbox that may exist; a reconciler
may provision a failed Environment between the two phases of its deletion; a
session opened but not yet published is not stopped by a selection; a
repeated fork request that waits for the lock fails in
`completeIdempotentResource` although the fork succeeded, and if the user has
deleted the target meanwhile it journals that target again; the retry of a
failed fork target leaves it `updating`, which neither provisioning nor deletion
accepts; a snapshot pruned during a saga makes recovery fail for ever; a login
whose start is refused its box, because it was cancelled meanwhile, leaves the
box to its time to live; the gate with a cached observation counts the window
that has just closed twice for up to five seconds, and one that reads totals and
observation while a window is imported may count it not at all; a window listed
before its Environment is attributed to a user is imported without one.

## 4. Proofs

`EnvironmentLifecycleProofs` proves, for any sets of processes and Sandboxes
and any bounds, that `Inductive` holds in every reachable state
(`InductiveHolds`), under the assumptions `OpsAssumption` (the null values are
not processes or Sandboxes, and the operations explored are known ones). No
safety property here is inductive alone; the conjuncts of `Inductive` are the
argument:

* `Targeted`: a process working from a row copy has a Sandbox, which was
  claimed. `TypeOK` needs it: an abandoned call must name a Sandbox.
* `SharedPlaces`: the shared lock is held only by admitted accesses, so whoever
  holds a lock at a place where the row is written holds the exclusive one.
* `Owned`: therefore the copy of that holder *is* the row, as far as the
  Sandbox id, removal and a requested pause go, whatever requests without a
  lock (retry, the failure record of the deletion hook) write beside it.
* `PastDeletion`: after a deletion the Sandbox is deleted, and no late call
  revives it.
* `GoneIsEmpty`: no publication writes a removed row.
* `PauseSettled`: from the moment a pause is seen at Sandbox0 to its record,
  whoever wakes the Sandbox holds no lock.

From it follow, each by way of the two or three steps that write the columns
concerned: `RowOutlivesItsSandbox`, `PauseIsRecordedAsCommitted`,
`RetirementRestoresPause`, and `ProjectionImplemented` (every step is a step of
the projection or a stutter), of which `IdentityIsKept` is a corollary.

`TerminalControlProofs` proves the same of the terminal, for any connections,
clients, bounds and duration of a lease, under `ControlAssumption` (every
connection has a client, the null values are none, the lease lasts at least
one tick). The conjuncts of its `Inductive`:

* `SessionsNamed`, `TerminalsNamed`, `AdmittedNamed`: an attempt belongs to the
  launch its session is named for, and a connection, whether it reads the session
  or takes a copy of it, keeps an attempt of the launch it was admitted with,
  since attempts are only appended (`AttemptsKept`).
* `RowNamed`: hence what a connection publishes under the compare-and-swap on
  the launch belongs to the selected launch, whenever it was opened.
* `LeaseOfCoordinates`: the controller row follows the published coordinates.
* `QuietBeforeOpen`, `BelievedWithinGrant`: what a connection believes, and
  what is on its way to it, is at most what is left of the last grant to its
  client; so an answer that comes late or out of order cannot extend a lease.
* `SelectionCounted`: needed only because launches are bounded.

`PublishedIsSelected`, `LeaseFollowsCoordinates` and `InputIsGranted` follow.

`EnvironmentForkProofs` proves the same of the fork saga, for any processes,
fresh ids and bounds, under `ForkAssumption` (the null values and the source are
none of the ids). The conjuncts of its `Inductive`:

* `Placed`, `OneResource`: whoever is in the saga, and every call in flight,
  works for the resource of the one key; so `OneForkPerKey`.
* `RowsAgree`: the journal and the row of the target change together, in one
  transaction each; the only exceptions are the failed ones, whose row a user
  may retry.
* `SourceKnown`: the journal names the source as long as there is one. A process
  under another lock than the source's has read that it is gone; one on its way
  to giving up has too, and its operation has recorded no child.
* `UnderLock`: therefore, while the source is there, its lock has one holder, and
  until that holder records the child nobody else records, fails or removes.
* `DoneSoFar`, `JournalledChild`: what has been done to a child stays done, also
  for a process that has lost its lock meanwhile and will be refused; hence
  `PublishedIsClean` and `DoneIsPublished`.
* `LookedAfter`: a child that exists, or a fork still in flight, belongs to a
  pending operation, to a named child, or to a source that is gone; it is
  stronger than `OrphanIsRetried` because an abandoned call may land later.

`PhasesAdvance` follows from the five steps that write a phase. That the failure
of an operation does not undo a recorded child rests on `SourceKnown`.

`CodexLoginProofs` proves the same of device logins, for any replicas, logins
and failures, under `LoginAssumption` (the null login is none). The conjuncts of
its `Inductive`:

* `OneActive`: the partial unique index on active logins; `OneStarter` and
  `StartUnattached`: a login is attached by the one start that created it, so a
  start that is refused its box finds a login that has ended.
* `CopyRecorded`: a worker's page begins behind events the row has recorded,
  however old its copy; so `NothingSkipped`, although the cursor may go back.
* `AnsweredOnce`, `WorkApproved`: the answer of the user is never replaced, so an
  operation that has read an approval may store the credential at any later
  step; so `StoredIsApproved`.
* `FreshAttached`, `CleaningIsOver`, `Undisturbed`: whoever ends a login whose row
  names a box goes on to delete it, except after a failure; so `BoxDeleted`.

`PromiseKept` is the refinement: by `PromiseNext` every step of the rows is a
step of `LoginPromise` or a stutter. It rests on what a step may do to a status
(`StatusStep`: an ended login never changes), on `CompletedStep` (only the step
that stores the credential completes) and on `OneActive` (a restarting replica
that fails all interrupted logins fails at most one).

### What is proved of the services, and of a page

`ServicesProofs` is about `Services`, for any values of its constants that
satisfy `ServicesAssumption`: bounds are numbers (two of them positive), and the
null process is none. By `EachServiceIsItself` a behaviour of the composition is
a behaviour of each service, whose invariant is proved alone:

`WorkspaceBackupProofs` (hypothesis `Bounds`):

* `Held`: the lock is held by the one process that has taken it and has not lost
  it; a process without it goes on to its next statement, which is refused.
* `Unrecorded`: a snapshot on its way to its record exists and is in nobody's
  list of snapshots to remove. One that is discarded was not
  recorded, except after a commit without an answer: `unanswered`.
* `Doomed`, with `Outdated`: what a pass is going to remove is older than the
  newest `least` records, for the smallest retention there has been. The pass
  may have lost its lock and read its list long before; the records only grow at
  the end. So `RecordedStayUsable`.
* `Seen`, `Kept`: with its lock a process finds what it has read. So `OneBackup`
  (a second replica sees that the backup is no longer due) and
  `CoordinatesExist`.

`AgentCredentialProofs` (some credential can be produced): `SourceKept` and
`LookPast` say what a task has read; `FileKnown` that once it has compared and
replaced the source the file is empty, has what the source once had, or has
something newer than the look of that task, whatever terminals of other replicas
write into it meanwhile; until then it may also still hold what was found. Hence
`PauseKeepsIt`. `MarkedKnown`: a task that goes to the marking knows the source it
marks as what it has found in the file or has put there, by way of the comparison,
the replacement or the reinstallation. Hence `BoundWasInstalled`. That the source
is still the current one is neither claimed nor true.

`EgressCredentialProofs`: `Placed` and `Marked` (an operation works on a row it
has marked, and no other touches it), `Dropped` (what remains of a secret while
its row is about to go), `Versioned` (a version is recorded after its source) and
`Applied` (past the policy, what is about to be shown active is enforced). They
hold after an operation that dies at any step, which is why `SecretsEver` and
`ActiveIsEnforcedEver` need no condition on failures.

Of billing, in `ServicesProofs`: for events, `Attempts` and `Apart` (two handlers
never hold one event by the same attempt), so the one whose claim has run out
cannot complete or fail the other's (`AttemptsApart`). For usage, `SeenStored`:
what a replica has read of the cursor is stored and stays stored; so a replica
that imports late may move the cursor back, but never over a window that is
missing (`NothingIsPassedOver`).

Of the page, in `ServicesProofs` too (`ReplayInductive`): a connection is to a
session of the Supervisor; a replay that is asked for begins where the page has
stopped, unless the page is to begin anew; the cache is of one session; the
screen is of the session of the page and ends where the page will go on
(`Drawn`). Hence `ScreenIsOnePiece`.

### What holds only without failures, or without some requests

`NoOrphan`, `AccessUndisturbed` and `RunningHasDeadline` are about behaviours
without a failure. `Calm` says what these have more: a process in a callback
holds its lock, no call is abandoned, nothing is repaired. `NothingOrphaned` and
`AccessIsUndisturbed` follow from it and `Inductive`. `RunningIsTimed` rests on
`Timed`: under the lock a process knows what its Sandbox does, and a ready
row has a deadline unless its Sandbox is settled or somebody is about to write
one. Its hypothesis, that users do not withdraw a deletion (`reprovision`), is
needed: the retry leaves a ready Environment without a deadline.
`TerminalIntentIsKept` (a published intent to delete is never taken back) rests on
`Intended`, and holds with failures; its
hypothesis leaves out the two operations that reset the intent by design
(`provision` of a failed Environment and `reprovision`). Both hypotheses are the
instance of `LifecycleTakeover`. `CoordinatesExist`, `OneBackup` and
`BoxDeletedHolds` are the other theorems of this kind.

### Only model-checked

Every safety invariant and every action property of the runs is a theorem of the
specification that run checks. Liveness stays with TLC: the prover
handles neither fairness nor ENABLED. These are `IdlePauseTakenOver`,
`ControlReturns` (for an attempt that stays published), `SagaEnds`, `LoginEnds`,
`FileAndSourceAgree`, `PolicyReached`, `ChangesApplied` and `OverQuotaStops`. So
do the five refuted properties, each of which has a counterexample.

## 5. Not modelled, and the plan

Done: the Environment lifecycle, its projection and proofs; the Agent terminal
and selection, what a page shows of it, and proofs about them; the fork saga, and
proofs about it; device logins, their promise, and the proof that they keep it;
backups and restores, Agent and egress credentials, subscriptions and usage, with
proofs of their safety. Next, in this order:

1. `ForkPromise`: an abstract specification of the fork (a key names at most one
   target, and its answer never changes) that the saga implements, by a
   refinement that hides journal, lock and child.
2. A promise of the terminal's lease (one writer at a time, who loses it by time
   or takeover only) that `TerminalControl` implements.
3. The composition of `AgentCredential` with the lifecycle: the five-second
   read is in both, as a wake-up in one and as a copy in the other.

Not planned: v1 code whose routes are retired (schedules, webhooks, turns,
automations), identity-provider protocols, the user interface, the CLI and the
migrations, which keep little or no concurrent state of their own.
