------------------------------ MODULE UsageMeter ------------------------------
(***************************************************************************)
(* The runtime quota of a user with one Sandbox.  Sandbox0 closes a window  *)
(* of usage whenever the Sandbox stops or its memory changes, and lists the *)
(* closed windows some time later.  The worker of every replica imports     *)
(* them and then enforces the plan: it adds what is imported to what the    *)
(* running Sandbox shows, and pauses a Sandbox that is over the quota, once *)
(* the gate that every access passes has said so under the lifecycle lock.  *)
(*                                                                         *)
(* Simplifications.  All times lie in one quota period; the Sandbox has one *)
(* unit of memory.  The gate reads totals and observation in one step, but  *)
(* the observation may be a cached one; the caches of the replicas are one, *)
(* as any of them may be of any age up to five seconds.  Access and the     *)
(* recheck of a pause are single steps: the lock that keeps them apart is   *)
(* EnvironmentLifecycle's.  Limits on the number of Environments and the    *)
(* reconciliation of plan memory are left out.                              *)
(***************************************************************************)
EXTENDS Integers, Sequences, FiniteSetsExt

CONSTANTS
  Replicas,
  Limit,        \* the quota
  Unknown,      \* a claimedAt that is missing or no date
  MaxTime,      \* bound on the clock
  MaxChanges,   \* bound on accesses that wake the Sandbox and memory changes
  MaxFaults     \* bound on crashes and failed statements and calls

VARIABLES
  now,
  up, claimed,  \* the Sandbox runs, and since when Sandbox0 says it does
  from,         \* where the window that is still open begins
  windows,      \* the closed windows, in the order they are listed
  stored,       \* sandbox_usage_windows: positions of the imported ones
  cursor,       \* usage_import_cursors
  worker,       \* where the worker of each replica is, and what it has read
  cache,        \* liveObservationCache
  changes, faults

usage == <<up, claimed, from, windows>>
rows  == <<stored, cursor>>
vars  == <<now, usage, rows, worker, cache, changes, faults>>

Times == 0 .. MaxTime
Down  == -1
None  == [last |-> 0, shown |-> -2]
Idle  == [at |-> "idle", seen |-> 0, upto |-> 0, last |-> 0, shown |-> Down]

TypeOK ==
  /\ now \in Times /\ up \in BOOLEAN /\ from \in Times
  /\ claimed \in Times \cup {Unknown}
  /\ \A i \in DOMAIN windows : windows[i].from < windows[i].to
  /\ stored \subseteq DOMAIN windows /\ cursor \in 0 .. Len(windows)
  /\ \A p \in Replicas : worker[p].at = "idle" <=> worker[p] = Idle
  /\ changes \in 0 .. MaxChanges /\ faults \in 0 .. MaxFaults

Init ==
  /\ now = 0 /\ up = TRUE /\ claimed \in {0, Unknown} /\ from = 0 /\ windows = <<>>
  /\ stored = {} /\ cursor = 0
  /\ worker = [p \in Replicas |-> Idle] /\ cache = None
  /\ changes = 0 /\ faults = 0

-----------------------------------------------------------------------------
(* The conditions the properties rest on.  Beside each, a mistake that the *)
(* properties must notice when it takes the condition's place.             *)

\* The windows of a page and the cursor after it are one transaction.
CursorFirst(p) == cursor' = worker[p].upto /\ UNCHANGED stored
RolledBack(p) == UNCHANGED rows

\* A pass that could not import enforces the plan all the same.
NextTime == "idle"
AfterError == "rows"

-----------------------------------------------------------------------------
(* What is counted.                                                        *)

\* The windows are counted in the database, up to the last one imported.
Confirmed == MapThenSumSet(LAMBDA i : windows[i].to - windows[i].from, stored)
LastEnd == Max({windows[i].to : i \in stored} \cup {0})

Shown == IF up THEN claimed ELSE Down
\* liveRuntimeUsage: what is open begins with the allocation, or where the
\* last imported window ends.
Open(shown, last) == IF shown = Down THEN 0 ELSE Max({0, now - Max({shown, last})})
Used == Confirmed + Open(Shown, LastEnd)

-----------------------------------------------------------------------------
(* Sandbox0, and the users of the Sandbox.                                 *)

Tick ==
  /\ now < MaxTime /\ now' = now + 1
  /\ UNCHANGED <<usage, rows, worker, cache, changes, faults>>

Close == windows' = IF from < now THEN Append(windows, [from |-> from, to |-> now]) ELSE windows

Resize ==
  /\ up /\ from < now /\ changes < MaxChanges /\ changes' = changes + 1
  /\ Close /\ from' = now
  /\ UNCHANGED <<now, up, claimed, rows, worker, cache, faults>>

\* A pause for another reason.
Stop ==
  /\ up /\ up' = FALSE /\ Close
  /\ UNCHANGED <<now, claimed, from, rows, worker, cache, changes, faults>>

-----------------------------------------------------------------------------
(* The gate: assertEnvironmentRuntimeAllowed with its cached observation.  *)

Observation == IF cache = None THEN [last |-> LastEnd, shown |-> Shown] ELSE cache
Unmetered == Observation.shown = Unknown
Blocked == Confirmed + Open(Observation.shown, Observation.last) >= Limit
Remember == cache' = Observation

\* An access that the gate admits wakes the Sandbox.
Access ==
  /\ ~up /\ changes < MaxChanges /\ changes' = changes + 1
  /\ ~Unmetered /\ ~Blocked /\ Remember
  /\ up' = TRUE /\ claimed' \in {now, Unknown} /\ from' = now
  /\ UNCHANGED <<now, windows, rows, worker, faults>>

Expire ==
  /\ cache # None /\ cache' = None
  /\ UNCHANGED <<now, usage, rows, worker, changes, faults>>

-----------------------------------------------------------------------------
(* The worker: runOnce.                                                    *)

At(p, l) == worker[p].at = l
Go(p, l) == worker' = [worker EXCEPT ![p].at = l]
Rest(p) == worker' = [worker EXCEPT ![p] = Idle]
Enforce(p, l) == worker' = [worker EXCEPT ![p] = [Idle EXCEPT !.at = l]]

Begin(p) ==
  /\ At(p, "idle") /\ worker' = [worker EXCEPT ![p].at = "list", ![p].seen = cursor]
  /\ UNCHANGED <<now, usage, rows, cache, changes, faults>>

\* A page may end before the last closed window, which is listed later.
List(p) ==
  /\ At(p, "list")
  /\ \E n \in worker[p].seen .. Len(windows) :
       IF n = worker[p].seen THEN Enforce(p, "rows")
         ELSE worker' = [worker EXCEPT ![p].at = "import", ![p].upto = n]
  /\ UNCHANGED <<now, usage, rows, cache, changes, faults>>

\* The usage interface is unavailable, for as long as it likes.
ListFails(p) ==
  /\ At(p, "list")
  /\ IF AfterError = "idle" THEN Rest(p) ELSE Enforce(p, AfterError)
  /\ UNCHANGED <<now, usage, rows, cache, changes, faults>>

Import(p) ==
  /\ At(p, "import")
  /\ stored' = stored \cup (worker[p].seen + 1 .. worker[p].upto)
  /\ cursor' = worker[p].upto
  /\ worker' = [worker EXCEPT ![p].at = "list", ![p].seen = worker[p].upto, ![p].upto = 0]
  /\ UNCHANGED <<now, usage, cache, changes, faults>>

\* environmentPlanEnforcement: rows, then the Sandbox, then the totals.
Rows(p) ==
  /\ At(p, "rows")
  /\ worker' = [worker EXCEPT ![p].at = "observe", ![p].last = LastEnd]
  /\ UNCHANGED <<now, usage, rows, cache, changes, faults>>

Observe(p) ==
  /\ At(p, "observe")
  /\ worker' = [worker EXCEPT ![p].at = "total", ![p].shown = Shown]
  /\ UNCHANGED <<now, usage, rows, cache, changes, faults>>

Total(p) ==
  LET w == worker[p] IN
  /\ At(p, "total")
  /\ IF w.shown = Unknown \/ (w.shown # Down /\ Confirmed + Open(w.shown, w.last) >= Limit)
       THEN Enforce(p, "pause") ELSE Rest(p)
  /\ UNCHANGED <<now, usage, rows, cache, changes, faults>>

\* pauseForQuota: the gate is asked again, and what it throws ends the attempt.
Pause(p) ==
  /\ At(p, "pause") /\ Rest(p) /\ Remember
  /\ IF ~Unmetered /\ Blocked /\ up
       THEN up' = FALSE /\ Close ELSE UNCHANGED <<up, windows>>
  /\ UNCHANGED <<now, claimed, from, rows, changes, faults>>

-----------------------------------------------------------------------------
(* Failures.                                                               *)

Fault == faults < MaxFaults /\ faults' = faults + 1

\* The transaction fails, or its commit takes effect without an answer.
ImportFails(p) ==
  /\ At(p, "import") /\ Fault /\ Enforce(p, AfterError)
  /\ \/ RolledBack(p)
     \/ stored' = stored \cup (worker[p].seen + 1 .. worker[p].upto) /\ cursor' = worker[p].upto
  /\ UNCHANGED <<now, usage, cache, changes>>

\* A call fails: the pass is over.
CallFails(p) ==
  /\ worker[p].at \in {"observe", "total", "pause"} /\ Fault /\ Rest(p)
  /\ UNCHANGED <<now, usage, rows, cache, changes>>

Crash(p) ==
  /\ ~At(p, "idle") /\ Fault /\ Rest(p)
  /\ UNCHANGED <<now, usage, rows, cache, changes>>

Step(p) ==
  Begin(p) \/ List(p) \/ ListFails(p) \/ Import(p) \/ Rows(p) \/ Observe(p) \/ Total(p) \/ Pause(p)

Next ==
  \/ Tick \/ Resize \/ Stop \/ Access \/ Expire
  \/ \E p \in Replicas : Step(p) \/ ImportFails(p) \/ CallFails(p) \/ Crash(p)

Spec == Init /\ [][Next]_vars

\* A worker goes on, and what it remembers of the Sandbox lasts five seconds.
Fairness == WF_vars(Expire) /\ \A p \in Replicas : WF_vars(Step(p))
FairSpec == Spec /\ Fairness

-----------------------------------------------------------------------------
(* Properties                                                              *)

\* Replicas that import side by side may move the cursor back, but no window
\* before it is left out, whatever transaction fails.
NothingPassedOver == 1 .. cursor \subseteq stored

\* A Sandbox over the quota is stopped in the end, however long the windows
\* cannot be listed and whatever its observations and the cached ones were.
\* The exception is a Sandbox that Sandbox0 gives no start of.
OverQuotaStops == []<>(~up \/ claimed = Unknown \/ Used < Limit)

\* "background enforcement pauses active runtime when its allocation start is
\* invalid" (billing/quota-service.test.ts:453).
UnmeteredIsPaused == []<>(~up \/ claimed # Unknown)
=============================================================================
