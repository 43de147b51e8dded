---------------------------- MODULE StripeBilling ----------------------------
(***************************************************************************)
(* The projection of a user's Stripe subscription (billing/stripe-service, *)
(* billing/repository).  Stripe announces every change with an event that   *)
(* it delivers until it is accepted, at any replica, in any order and more  *)
(* than once.  A handler claims the event for five minutes, reads the       *)
(* subscription from Stripe, reads the stored projection, and writes the    *)
(* new one; no lock and no transaction spans these steps.                   *)
(*                                                                         *)
(* Simplifications.  A user has one subscription, so that                   *)
(* preferCurrentSubscription always returns the one it is given, and one    *)
(* received as cancelled is the latest.  The versions of the subscription   *)
(* are numbered; what a version says is its status: the plan, the period    *)
(* and the pending downgrade derived from them are left out, and of the    *)
(* quota anchor is kept whether there is one, not its date.                *)
(***************************************************************************)
EXTENDS Naturals

CONSTANTS
  Procs,         \* handlers of requests, over all replicas
  MaxVersions,   \* bound on the changes of the subscription at Stripe
  MaxFaults      \* bound on failed calls, crashes and claims that outlast their lease

Versions == 1 .. MaxVersions

VARIABLES
  status,   \* what each version of the subscription says; "none" is still to come
  event,    \* stripe_webhook_events: the event of each version
  row,      \* user_subscriptions: the version projected, and whether quota periods run
  proc,     \* what each handler is doing
  applied,  \* the latest version ever projected
  faults

vars == <<status, event, row, proc, applied, faults>>

Idle == [at |-> "idle", event |-> 0, attempt |-> 0, seen |-> 0, anchor |-> FALSE]
Latest == CHOOSE v \in 0 .. MaxVersions : \A w \in Versions : status[w] # "none" <=> w <= v

TypeOK ==
  /\ status \in [Versions -> {"none", "incomplete", "active", "canceled"}]
  /\ event \in [Versions -> [attempts : Nat, claim : {"free", "leased", "expired"},
                             processed : BOOLEAN]]
  /\ row \in [version : 0 .. MaxVersions, anchor : BOOLEAN]
  /\ proc \in [Procs -> [at : {"idle", "retrieve", "read", "write", "complete", "fail"},
                         event : 0 .. MaxVersions, attempt : Nat,
                         seen : 0 .. MaxVersions, anchor : BOOLEAN]]
  /\ applied \in 0 .. MaxVersions /\ faults \in 0 .. MaxFaults

Init ==
  /\ status = [v \in Versions |-> "none"]
  /\ event = [v \in Versions |-> [attempts |-> 0, claim |-> "free", processed |-> FALSE]]
  /\ row = [version |-> 0, anchor |-> FALSE] /\ proc = [p \in Procs |-> Idle]
  /\ applied = 0 /\ faults = 0

-----------------------------------------------------------------------------
(* The conditions the properties rest on.  Beside each, a mistake that the *)
(* properties must notice when it takes the condition's place.             *)

\* recordWebhookEvent claims what nobody has claimed for five minutes.
UnclaimedOnly(v) == event[v].claim = "free"
Claimable(v) == event[v].claim # "leased"

\* completeWebhookEvent and failWebhookEvent match the attempt.
AnyAttempt(p) == TRUE
CurrentAttempt(p) == proc[p].attempt = event[proc[p].event].attempts

\* upsertSubscription keeps the anchor that is stored by now.
AnchorStored(p) == row.anchor \/ proc[p].anchor

-----------------------------------------------------------------------------
Fault == faults < MaxFaults /\ faults' = faults + 1
Pending(v) == status[v] # "none" /\ ~event[v].processed

\* The subscription changes: the user cancels or resumes it in the portal, an
\* invoice is paid or not.  A cancelled one stays cancelled.
Publish(s) ==
  /\ Latest < MaxVersions
  /\ Latest # 0 => status[Latest] # "canceled"
  /\ Latest = 0 => s # "canceled"
  /\ status' = [status EXCEPT ![Latest + 1] = s]
  /\ UNCHANGED <<event, row, applied, faults>>
Change == \E s \in {"incomplete", "active", "canceled"} : Publish(s) /\ UNCHANGED proc

\* The user changes the plan: what Stripe answers is projected at once.
ChangePlan(p) ==
  /\ proc[p] = Idle /\ row.version # 0 /\ Publish("active")
  /\ proc' = [proc EXCEPT ![p] = [Idle EXCEPT !.at = "read", !.seen = Latest + 1]]

\* processWebhook: one that is processed or claimed by another changes nothing.
Deliver(p, v) ==
  /\ proc[p] = Idle /\ Pending(v) /\ Claimable(v)
  /\ event' = [event EXCEPT ![v].attempts = @ + 1, ![v].claim = "leased"]
  /\ proc' = [proc EXCEPT ![p] = [Idle EXCEPT !.at = "retrieve", !.event = v,
                                              !.attempt = event[v].attempts + 1]]
  /\ UNCHANGED <<status, row, applied, faults>>

\* applyWebhook: the subscription as it is, not as the event describes it.
Retrieve(p) ==
  /\ proc[p].at = "retrieve"
  /\ proc' = [proc EXCEPT ![p].at = "read", ![p].seen = Latest]
  /\ UNCHANGED <<status, event, row, applied, faults>>

\* syncSubscription: an active subscription starts the quota periods.
ReadRow(p) ==
  /\ proc[p].at = "read"
  /\ proc' = [proc EXCEPT ![p].at = "write",
                          ![p].anchor = row.anchor \/ status[proc[p].seen] = "active"]
  /\ UNCHANGED <<status, event, row, applied, faults>>

Upsert(p) ==
  /\ proc[p].at = "write"
  /\ row' = [version |-> proc[p].seen, anchor |-> AnchorStored(p)]
  /\ applied' = IF proc[p].seen > applied THEN proc[p].seen ELSE applied
WriteRow(p) ==
  /\ Upsert(p)
  /\ proc' = IF proc[p].event = 0 THEN [proc EXCEPT ![p] = Idle]
             ELSE [proc EXCEPT ![p].at = "complete", ![p].seen = 0, ![p].anchor = FALSE]
  /\ UNCHANGED <<status, event, faults>>

CompleteEvent(p) ==
  LET v == proc[p].event IN
  /\ proc[p].at = "complete"
  /\ event' = IF CurrentAttempt(p)
                THEN [event EXCEPT ![v].processed = TRUE, ![v].claim = "free"] ELSE event
Complete(p) ==
  /\ CompleteEvent(p)
  /\ proc' = [proc EXCEPT ![p] = Idle]
  /\ UNCHANGED <<status, row, applied, faults>>

Fail(p) ==
  LET v == proc[p].event IN
  /\ proc[p].at = "fail"
  /\ event' = IF CurrentAttempt(p) /\ ~event[v].processed
                THEN [event EXCEPT ![v].claim = "free"] ELSE event
  /\ proc' = [proc EXCEPT ![p] = Idle]
  /\ UNCHANGED <<status, row, applied, faults>>

\* A call of a handler that holds an event fails; a handler without one just ends.
CallFails(p) ==
  /\ proc[p].at \in {"retrieve", "read", "write", "complete"} /\ proc[p].event # 0
  /\ Fault /\ proc' = [proc EXCEPT ![p].at = "fail", ![p].seen = 0, ![p].anchor = FALSE]
  /\ UNCHANGED <<status, event, row, applied>>

\* The write or the completion takes effect, but the handler is not told.
AnswerLost(p) ==
  /\ \/ Upsert(p) /\ proc[p].event # 0 /\ UNCHANGED event
     \/ CompleteEvent(p) /\ UNCHANGED <<row, applied>>
  /\ Fault /\ proc' = [proc EXCEPT ![p].at = "fail", ![p].seen = 0, ![p].anchor = FALSE]
  /\ UNCHANGED status

Crash(p) ==
  /\ proc[p] # Idle /\ Fault /\ proc' = [proc EXCEPT ![p] = Idle]
  /\ UNCHANGED <<status, event, row, applied>>

Holds(p, v) == proc[p].event = v /\ proc[p].attempt = event[v].attempts
\* Five minutes pass; for a handler that still works on the event they seldom do.
LeaseExpires(v) ==
  /\ event[v].claim = "leased" /\ event' = [event EXCEPT ![v].claim = "expired"]
  /\ IF \E p \in Procs : Holds(p, v) THEN Fault ELSE UNCHANGED faults
  /\ UNCHANGED <<status, row, proc, applied>>

Step(p) == Retrieve(p) \/ ReadRow(p) \/ WriteRow(p) \/ Complete(p) \/ Fail(p)

Next ==
  \/ Change \/ \E v \in Versions : LeaseExpires(v)
  \/ \E p \in Procs : ChangePlan(p) \/ Step(p) \/ CallFails(p) \/ AnswerLost(p) \/ Crash(p)
                     \/ \E v \in Versions : Deliver(p, v)

Spec == Init /\ [][Next]_vars

\* A handler goes on, time passes, and Stripe delivers an event again until it is
\* accepted.
Fairness ==
  /\ \A p \in Procs : WF_vars(Step(p))
  /\ \A v \in Versions : /\ WF_vars(LeaseExpires(v) /\ UNCHANGED faults)
                         /\ WF_vars(\E p \in Procs : Deliver(p, v))
FairSpec == Spec /\ Fairness

-----------------------------------------------------------------------------
(* Properties                                                              *)

\* A handler whose claim has run out may go on beside the next one, but neither its
\* success nor its failure gives the claim of the next away: nobody else may take
\* the event from the latest handler before its own lease is over.
OneAttempt ==
  \A v \in Versions :
    \A p \in Procs : Holds(p, v) /\ event[v].claim = "free" => event[v].processed

\* Whatever handler dies holding the event of a change, the change is projected in the
\* end, or a later one is.
ChangesApplied == []<>(applied = Latest)

\* "Subscription events are re-retrieved from Stripe before projection so a delayed
\* event cannot overwrite newer state" (docs/architecture/billing-and-usage.md): the
\* projection never goes back to an earlier version.
NewerStateStays == [][row'.version >= row.version]_vars
=============================================================================
