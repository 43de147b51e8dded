---------------------------- MODULE ServicesProofs ----------------------------
(***************************************************************************)
(* The safety of the services side by side, for any bounds.  The           *)
(* credentials of an Agent, the backups and the egress credentials have    *)
(* modules of proofs of their own, whose theorems come with their          *)
(* instances.  The two parts of billing and the page of a terminal are     *)
(* proved about here.  What holds of each service holds of all together,   *)
(* since a step of one is a step of it or leaves it alone.                 *)
(***************************************************************************)
EXTENDS Services, Integers, Sequences, TLAPS

-----------------------------------------------------------------------------
(* StripeBilling: the invariant.                                           *)

\* The versions that there are come first.
Numbered == \E n \in 0 .. MaxVersions : \A w \in Stripe!Versions : status[w] # "none" <=> w <= n

\* A handler has an attempt only with an event, and no later one than the last.
Attempts ==
  \A p \in Procs : /\ proc[p].event = 0 => proc[p].attempt = 0
                   /\ proc[p].at \in {"complete", "fail"} => proc[p].event # 0
                   /\ proc[p].event # 0 => proc[p].attempt <= event[proc[p].event].attempts

\* Two handlers do not hold an event by the same attempt.
Apart ==
  \A v \in Stripe!Versions : \A p, q \in Procs :
    Stripe!Holds(p, v) /\ Stripe!Holds(q, v) => p = q

StripeInductive == Stripe!TypeOK /\ Numbered /\ Attempts /\ Apart /\ Stripe!OneAttempt
-----------------------------------------------------------------------------
(* One lemma per conjunct.                                                 *)

\* The latest version is one, and the next is still to come.
LEMMA LatestIs ==
  ASSUME MaxVersions \in Nat, Numbered
  PROVE  /\ Stripe!Latest \in 0 .. MaxVersions
         /\ \A w \in Stripe!Versions : status[w] # "none" <=> w <= Stripe!Latest
<1> DEFINE Last(v) == \A w \in Stripe!Versions : status[w] # "none" <=> w <= v
<1>1. \E v \in 0 .. MaxVersions : Last(v)
  BY DEF Numbered
<1>2. Stripe!Latest = CHOOSE v \in 0 .. MaxVersions : Last(v)
  BY DEF Stripe!Latest
<1> HIDE DEF Last
<1>3. Stripe!Latest \in 0 .. MaxVersions /\ Last(Stripe!Latest)
  BY <1>1, <1>2
<1> QED
  BY <1>3 DEF Last

\* A version is published after those there are.
LEMMA NumberedStep ==
  ASSUME MaxVersions \in Nat, Stripe!TypeOK, Numbered, [Stripe!Next]_Stripe!vars
  PROVE  Numbered'
<1>1. ASSUME NEW s \in {"incomplete", "active", "canceled"}, Stripe!Publish(s) PROVE Numbered'
  <2>1. Stripe!Latest + 1 \in Stripe!Versions
    BY <1>1, LatestIs DEF Stripe!Publish, Stripe!Versions
  <2>2. \A w \in Stripe!Versions : status'[w] # "none" <=> w <= Stripe!Latest + 1
    BY <1>1, <2>1, LatestIs DEF Stripe!Publish, Stripe!Versions, Stripe!TypeOK
  <2>3. Stripe!Latest + 1 \in 0 .. MaxVersions
    BY <2>1 DEF Stripe!Versions
  <2> QED
    BY <2>2, <2>3 DEF Numbered
<1>2. ASSUME UNCHANGED status PROVE Numbered'
  BY <1>2 DEF Numbered
<1>3. ASSUME NEW p \in Procs, Stripe!ChangePlan(p) PROVE Numbered'
  BY <1>3, <1>1 DEF Stripe!ChangePlan
<1>4. CASE Stripe!Change
  BY <1>4, <1>1 DEF Stripe!Change
<1> HIDE DEF Numbered
<1>5. UNCHANGED status \/ Stripe!Change \/ \E p \in Procs : Stripe!ChangePlan(p)
  BY DEF Stripe!Next, Stripe!vars, Stripe!LeaseExpires, Stripe!Step,
         Stripe!Retrieve, Stripe!ReadRow, Stripe!WriteRow, Stripe!Complete, Stripe!Fail,
         Stripe!CallFails, Stripe!AnswerLost, Stripe!Crash, Stripe!Deliver
<1> QED
  BY <1>2, <1>3, <1>4, <1>5
\* What the upsert and the completion write has its type.
LEMMA UpsertTyped ==
  ASSUME MaxVersions \in Nat, Stripe!TypeOK, NEW p \in Procs, Stripe!Upsert(p)
  PROVE  /\ row' \in [version : 0 .. MaxVersions, anchor : BOOLEAN]
         /\ applied' \in 0 .. MaxVersions
<1> DEFINE Numbers == 0 .. MaxVersions
<1>1. /\ row \in [version : Numbers, anchor : BOOLEAN] /\ applied \in Numbers
      /\ proc[p].seen \in Numbers
  BY DEF Stripe!TypeOK
<1> HIDE DEF Numbers
<1>2. Stripe!AnchorStored(p) \in BOOLEAN
  BY DEF Stripe!AnchorStored
<1>3. row' \in [version : Numbers, anchor : BOOLEAN] /\ applied' \in Numbers
  BY <1>1, <1>2 DEF Stripe!Upsert
<1> QED
  BY <1>3 DEF Numbers

LEMMA CompletionTyped ==
  ASSUME Stripe!TypeOK, NEW p \in Procs, Stripe!CompleteEvent(p)
  PROVE  event' \in [Stripe!Versions -> [attempts : Nat, claim : {"free", "leased", "expired"},
                                         processed : BOOLEAN]]
<1> DEFINE Events == [attempts : Nat, claim : {"free", "leased", "expired"},
                      processed : BOOLEAN]
<1>t. event \in [Stripe!Versions -> Events]
  BY DEF Stripe!TypeOK
<1>1. CASE Stripe!CurrentAttempt(p)
  <2> DEFINE e == [event[proc[p].event] EXCEPT !.processed = TRUE, !.claim = "free"]
  <2>1. event' = [event EXCEPT ![proc[p].event] = e]
    BY <1>1 DEF Stripe!CompleteEvent
  <2>2. proc[p].event \in Stripe!Versions => e \in Events
    <3>1. proc[p].event \in Stripe!Versions => event[proc[p].event] \in Events
      BY <1>t
    <3>2. ASSUME NEW x \in Events
          PROVE  [x EXCEPT !.processed = TRUE, !.claim = "free"] \in Events
      OBVIOUS
    <3> QED
      BY <3>1, <3>2
  <2> HIDE DEF e
  <2> QED
    BY <1>t, <2>1, <2>2
<1>2. CASE ~Stripe!CurrentAttempt(p)
  BY <1>2, <1>t DEF Stripe!CompleteEvent
<1> QED
  BY <1>1, <1>2

\* Every step keeps the types.
LEMMA TypeStep ==
  ASSUME MaxVersions \in Nat, StripeFaults \in Nat,
         Stripe!TypeOK, Numbered, [Stripe!Next]_Stripe!vars
  PROVE  Stripe!TypeOK'
<1> DEFINE RowTypes == /\ status \in [Stripe!Versions ->
                                      {"none", "incomplete", "active", "canceled"}]
                       /\ row \in [version : 0 .. MaxVersions, anchor : BOOLEAN]
                       /\ applied \in 0 .. MaxVersions
                       /\ stripeFaults \in 0 .. StripeFaults
<1> DEFINE Events == [attempts : Nat, claim : {"free", "leased", "expired"},
                      processed : BOOLEAN]
<1> DEFINE EventType == event \in [Stripe!Versions -> Events]
<1> DEFINE Numbers == 0 .. MaxVersions
<1> DEFINE Handlers == [at : {"idle", "retrieve", "read", "write", "complete", "fail"},
                        event : Numbers, attempt : Nat, seen : Numbers, anchor : BOOLEAN]
<1> DEFINE ProcType == proc \in [Procs -> Handlers]
<1>t. RowTypes /\ EventType /\ ProcType
  BY DEF Stripe!TypeOK
<1>p. ASSUME RowTypes', EventType', NEW p \in Procs, NEW r \in Handlers,
             proc' = [proc EXCEPT ![p] = r]
      PROVE  Stripe!TypeOK'
  BY <1>t, <1>p DEF Stripe!TypeOK
<1>i. /\ Stripe!Idle \in Handlers /\ 0 \in Numbers /\ Stripe!Latest \in Numbers
      /\ row.anchor \in BOOLEAN /\ Stripe!Versions \subseteq Numbers
  BY <1>t, LatestIs DEF Stripe!Idle, Stripe!Versions
<1> HIDE DEF Numbers
\* Stripe, and the user.
<1>1. ASSUME Stripe!Change PROVE Stripe!TypeOK'
  <2>1. PICK s \in {"incomplete", "active", "canceled"} : Stripe!Publish(s) /\ UNCHANGED proc
    BY <1>1 DEF Stripe!Change
  <2> QED
    BY <2>1, <1>t DEF Stripe!TypeOK, Stripe!Publish
<1>2. ASSUME NEW p \in Procs, Stripe!ChangePlan(p) PROVE Stripe!TypeOK'
  <2> DEFINE r == [Stripe!Idle EXCEPT !.at = "read", !.seen = Stripe!Latest + 1]
  <2>1. Stripe!Latest + 1 \in 0 .. MaxVersions
    BY <1>2, LatestIs DEF Stripe!ChangePlan, Stripe!Publish
  <2>2. RowTypes'
    BY <1>2, <1>t DEF Stripe!ChangePlan, Stripe!Publish
  <2>3. EventType'
    BY <1>2, <1>t DEF Stripe!ChangePlan, Stripe!Publish
  <2>4. r \in Handlers
    BY <2>1, <1>i DEF Numbers
  <2>5. proc' = [proc EXCEPT ![p] = r]
    BY <1>2 DEF Stripe!ChangePlan
  <2> QED
    BY <2>2, <2>3, <2>4, <2>5, <1>p
<1>3. ASSUME NEW p \in Procs, NEW v \in Stripe!Versions, Stripe!Deliver(p, v)
      PROVE  Stripe!TypeOK'
  <2>1. PICK a \in Nat : a = event[v].attempts + 1
    <3>1. event[v] \in Events
      BY <1>t
    <3>2. event[v].attempts + 1 \in Nat
      BY <3>1
    <3> QED
      BY <3>2
  <2>2. EventType'
    <3>1. event' = [event EXCEPT ![v] = [event[v] EXCEPT !.attempts = a, !.claim = "leased"]]
      BY <1>3, <2>1 DEF Stripe!Deliver
    <3>2. [event[v] EXCEPT !.attempts = a, !.claim = "leased"] \in Events
      <4>1. event[v] \in Events
        BY <1>t
      <4>2. ASSUME NEW x \in Events
            PROVE  [x EXCEPT !.attempts = a, !.claim = "leased"] \in Events
        OBVIOUS
      <4> QED
        BY <4>1, <4>2
    <3> QED
      BY <1>t, <3>1, <3>2
  <2>3. PICK r \in Handlers : proc' = [proc EXCEPT ![p] = r]
    <3> DEFINE r == [Stripe!Idle EXCEPT !.at = "retrieve", !.event = v, !.attempt = a]
    <3>1. r \in Handlers
      BY <1>i
    <3>2. proc' = [proc EXCEPT ![p] = r]
      BY <1>3, <2>1 DEF Stripe!Deliver
    <3> QED
      BY <3>1, <3>2
  <2>4. RowTypes'
    BY <1>3, <1>t DEF Stripe!Deliver
  <2> QED
    BY <2>2, <2>3, <2>4, <1>p
<1>4. ASSUME NEW v \in Stripe!Versions, Stripe!LeaseExpires(v) PROVE Stripe!TypeOK'
  BY <1>4, <1>t DEF Stripe!TypeOK, Stripe!LeaseExpires, Stripe!Fault
\* A handler.
<1>5. ASSUME NEW p \in Procs, Stripe!Retrieve(p) PROVE Stripe!TypeOK'
  <2>1. RowTypes'
    BY <1>5, <1>t, <1>i DEF Stripe!Retrieve
  <2>2. EventType'
    BY <1>5, <1>t DEF Stripe!Retrieve
  <2>3. PICK r \in Handlers : proc' = [proc EXCEPT ![p] = r]
    BY <1>5, <1>t, <1>i DEF Stripe!Retrieve
  <2> QED
    BY <2>1, <2>2, <2>3, <1>p
<1>6. ASSUME NEW p \in Procs, Stripe!ReadRow(p) PROVE Stripe!TypeOK'
  <2>1. RowTypes'
    BY <1>6, <1>t, <1>i DEF Stripe!ReadRow
  <2>2. EventType'
    BY <1>6, <1>t DEF Stripe!ReadRow
  <2>3. PICK r \in Handlers : proc' = [proc EXCEPT ![p] = r]
    BY <1>6, <1>t, <1>i DEF Stripe!ReadRow
  <2> QED
    BY <2>1, <2>2, <2>3, <1>p
<1>7. ASSUME NEW p \in Procs, Stripe!WriteRow(p) PROVE Stripe!TypeOK'
  <2>1. RowTypes'
    BY <1>7, <1>t, UpsertTyped DEF Stripe!WriteRow
  <2>2. EventType'
    BY <1>7, <1>t DEF Stripe!WriteRow
  <2>3. PICK r \in Handlers : proc' = [proc EXCEPT ![p] = r]
    BY <1>7, <1>t, <1>i DEF Stripe!WriteRow
  <2> QED
    BY <2>1, <2>2, <2>3, <1>p
<1>8. ASSUME NEW p \in Procs, Stripe!Complete(p) PROVE Stripe!TypeOK'
  <2>1. RowTypes'
    BY <1>8, <1>t DEF Stripe!Complete
  <2>2. EventType'
    BY <1>8, CompletionTyped DEF Stripe!Complete
  <2>3. PICK r \in Handlers : proc' = [proc EXCEPT ![p] = r]
    BY <1>8, <1>i DEF Stripe!Complete
  <2> QED
    BY <2>1, <2>2, <2>3, <1>p
<1>9. ASSUME NEW p \in Procs, Stripe!Fail(p) PROVE Stripe!TypeOK'
  <2>1. RowTypes'
    BY <1>9, <1>t, <1>i DEF Stripe!Fail
  <2>2. EventType'
    BY <1>9, <1>t DEF Stripe!Fail
  <2>3. PICK r \in Handlers : proc' = [proc EXCEPT ![p] = r]
    BY <1>9, <1>t, <1>i DEF Stripe!Fail
  <2> QED
    BY <2>1, <2>2, <2>3, <1>p
\* Failures.
<1>10. ASSUME NEW p \in Procs, Stripe!CallFails(p) PROVE Stripe!TypeOK'
  <2>1. RowTypes'
    BY <1>10, <1>t, <1>i DEF Stripe!CallFails, Stripe!Fault
  <2>2. EventType'
    BY <1>10, <1>t DEF Stripe!CallFails, Stripe!Fault
  <2>3. PICK r \in Handlers : proc' = [proc EXCEPT ![p] = r]
    BY <1>10, <1>t, <1>i DEF Stripe!CallFails, Stripe!Fault
  <2> QED
    BY <2>1, <2>2, <2>3, <1>p
<1>11. ASSUME NEW p \in Procs, Stripe!Crash(p) PROVE Stripe!TypeOK'
  <2>1. RowTypes'
    BY <1>11, <1>t, <1>i DEF Stripe!Crash, Stripe!Fault
  <2>2. EventType'
    BY <1>11, <1>t DEF Stripe!Crash, Stripe!Fault
  <2>3. PICK r \in Handlers : proc' = [proc EXCEPT ![p] = r]
    BY <1>11, <1>t, <1>i DEF Stripe!Crash, Stripe!Fault
  <2> QED
    BY <2>1, <2>2, <2>3, <1>p
<1>12. ASSUME NEW p \in Procs, Stripe!AnswerLost(p) PROVE Stripe!TypeOK'
  <2>1. /\ status \in [Stripe!Versions -> {"none", "incomplete", "active", "canceled"}]
        /\ UNCHANGED status
        /\ stripeFaults' \in 0 .. StripeFaults
    BY <1>12, <1>t DEF Stripe!AnswerLost, Stripe!Fault
  <2>2. /\ row' \in [version : 0 .. MaxVersions, anchor : BOOLEAN]
        /\ applied' \in 0 .. MaxVersions
    BY <1>12, <1>t, UpsertTyped DEF Stripe!AnswerLost
  <2>3. RowTypes'
    BY <2>1, <2>2
  <2>4. EventType'
    BY <1>12, <1>t, CompletionTyped DEF Stripe!AnswerLost
  <2>5. PICK r \in Handlers : proc' = [proc EXCEPT ![p] = r]
    BY <1>12, <1>t, <1>i DEF Stripe!AnswerLost
  <2> QED
    BY <2>3, <2>4, <2>5, <1>p
<1>13. ASSUME UNCHANGED Stripe!vars PROVE Stripe!TypeOK'
  BY <1>13, <1>t DEF Stripe!TypeOK, Stripe!vars
<1> QED
  BY <1>1, <1>2, <1>3, <1>4, <1>5, <1>6, <1>7, <1>8, <1>9, <1>10, <1>11, <1>12, <1>13
       DEF Stripe!Next, Stripe!Step

\* An attempt is counted before the handler has it, and counts only go up.
LEMMA AttemptsStep ==
  ASSUME MaxVersions \in Nat, Stripe!TypeOK, Attempts, [Stripe!Next]_Stripe!vars
  PROVE  Attempts'
<1> USE DEF Stripe!Idle, Stripe!TypeOK, Attempts, Stripe!Versions
\* Stripe, and the user.
<1>1. ASSUME Stripe!Change PROVE Attempts'
  BY <1>1 DEF Stripe!Change, Stripe!Publish
<1>2. ASSUME NEW p \in Procs, Stripe!ChangePlan(p) PROVE Attempts'
  BY <1>2 DEF Stripe!ChangePlan, Stripe!Publish
<1>3. ASSUME NEW p \in Procs, NEW v \in Stripe!Versions, Stripe!Deliver(p, v) PROVE Attempts'
  BY <1>3 DEF Stripe!Deliver
<1>4. ASSUME NEW v \in Stripe!Versions, Stripe!LeaseExpires(v) PROVE Attempts'
  BY <1>4 DEF Stripe!LeaseExpires, Stripe!Fault
\* A handler.
<1>5. ASSUME NEW p \in Procs, Stripe!Retrieve(p) PROVE Attempts'
  BY <1>5 DEF Stripe!Retrieve
<1>6. ASSUME NEW p \in Procs, Stripe!ReadRow(p) PROVE Attempts'
  BY <1>6 DEF Stripe!ReadRow
<1>7. ASSUME NEW p \in Procs, Stripe!WriteRow(p) PROVE Attempts'
  BY <1>7 DEF Stripe!WriteRow, Stripe!Upsert
<1>8. ASSUME NEW p \in Procs, Stripe!Complete(p) PROVE Attempts'
  BY <1>8 DEF Stripe!Complete, Stripe!CompleteEvent
<1>9. ASSUME NEW p \in Procs, Stripe!Fail(p) PROVE Attempts'
  BY <1>9 DEF Stripe!Fail
\* Failures.
<1>10. ASSUME NEW p \in Procs, Stripe!CallFails(p) PROVE Attempts'
  BY <1>10 DEF Stripe!CallFails, Stripe!Fault
<1>11. ASSUME NEW p \in Procs, Stripe!Crash(p) PROVE Attempts'
  BY <1>11 DEF Stripe!Crash, Stripe!Fault
<1>12. ASSUME NEW p \in Procs, Stripe!AnswerLost(p) PROVE Attempts'
  <2>c. proc[p].at = "complete" \/ proc[p].event # 0
    BY <1>12 DEF Stripe!AnswerLost, Stripe!CompleteEvent
  <2>1. \A w \in Stripe!Versions : event'[w].attempts = event[w].attempts
    <3>1. CASE UNCHANGED event
      BY <3>1
    <3>2. CASE Stripe!CompleteEvent(p)
      BY <1>12, <3>2 DEF Stripe!CompleteEvent
    <3> QED
      BY <1>12, <3>1, <3>2 DEF Stripe!AnswerLost
  <2>2. proc[p].event # 0
    BY <2>c
  <2>3. \A q \in Procs : /\ proc'[q].event = proc[q].event /\ proc'[q].attempt = proc[q].attempt
                         /\ q # p => proc'[q] = proc[q]
    BY <1>12 DEF Stripe!AnswerLost
  <2> SUFFICES ASSUME NEW q \in Procs
               PROVE  /\ proc'[q].event = 0 => proc'[q].attempt = 0
                      /\ proc'[q].at \in {"complete", "fail"} => proc'[q].event # 0
                      /\ proc'[q].event # 0 =>
                           proc'[q].attempt <= event'[proc'[q].event].attempts
    OBVIOUS
  <2>4. proc'[q].event = 0 => proc'[q].attempt = 0
    BY <2>3
  <2>5. proc'[q].at \in {"complete", "fail"} => proc'[q].event # 0
    BY <2>2, <2>3
  <2>6. proc[q].event \in 0 .. MaxVersions
    OBVIOUS
  <2>7. proc'[q].event # 0 => proc'[q].attempt <= event'[proc'[q].event].attempts
    <3> SUFFICES ASSUME proc[q].event # 0
                 PROVE  proc[q].attempt <= event'[proc[q].event].attempts
      BY <2>3
    <3>1. proc[q].event \in Stripe!Versions
      BY <2>6
    <3>2. event'[proc[q].event].attempts = event[proc[q].event].attempts
      BY <2>1, <3>1
    <3> QED
      BY <3>2
  <2> QED
    BY <2>4, <2>5, <2>7
<1>13. ASSUME UNCHANGED Stripe!vars PROVE Attempts'
  BY <1>13 DEF Stripe!vars
<1> QED
  BY <1>1, <1>2, <1>3, <1>4, <1>5, <1>6, <1>7, <1>8, <1>9, <1>10, <1>11, <1>12, <1>13
       DEF Stripe!Next, Stripe!Step

\* Who takes an event up holds it alone.
LEMMA ApartStep ==
  ASSUME MaxVersions \in Nat, Stripe!TypeOK, Attempts, Apart, [Stripe!Next]_Stripe!vars
  PROVE  Apart'
<1>n. /\ \A v \in Stripe!Versions : event[v].attempts \in Nat
      /\ \A p \in Procs : proc[p].attempt \in Nat
  BY DEF Stripe!TypeOK
<1>e. proc = [p \in Procs |-> proc[p]] /\ event = [v \in Stripe!Versions |-> event[v]]
  BY DEF Stripe!TypeOK
<1> DEFINE Less(q) == \/ proc'[q].event = 0
                      \/ proc'[q].event = proc[q].event /\ proc'[q].attempt = proc[q].attempt
<1>a. ASSUME \A v \in Stripe!Versions : event'[v].attempts = event[v].attempts,
             \A q \in Procs : Less(q)
      PROVE  Apart'
  BY <1>a DEF Apart, Stripe!Holds, Stripe!Versions
<1> USE DEF Stripe!Idle, Stripe!TypeOK
\* Stripe, and the user.
<1>1. ASSUME Stripe!Change PROVE Apart'
  <2>1. \A w \in Stripe!Versions : event'[w].attempts = event[w].attempts
    BY <1>1 DEF Stripe!Change, Stripe!Publish
  <2>2. \A q \in Procs : Less(q)
    BY <1>1 DEF Stripe!Change, Stripe!Publish
  <2> QED
    BY <2>1, <2>2, <1>a
<1>2. ASSUME NEW p \in Procs, Stripe!ChangePlan(p) PROVE Apart'
  <2>1. \A w \in Stripe!Versions : event'[w].attempts = event[w].attempts
    BY <1>2 DEF Stripe!ChangePlan, Stripe!Publish
  <2>2. \A q \in Procs : Less(q)
    BY <1>2 DEF Stripe!ChangePlan, Stripe!Publish
  <2> QED
    BY <2>1, <2>2, <1>a
<1>3. ASSUME NEW p \in Procs, NEW v \in Stripe!Versions, Stripe!Deliver(p, v) PROVE Apart'
  <2>1. /\ event'[v].attempts = event[v].attempts + 1
        /\ proc'[p].event = v /\ proc'[p].attempt = event[v].attempts + 1
    BY <1>3 DEF Stripe!Deliver
  <2>2. \A w \in Stripe!Versions : w # v => event'[w].attempts = event[w].attempts
    BY <1>3 DEF Stripe!Deliver
  <2>3. \A q \in Procs : q # p => proc'[q] = proc[q]
    BY <1>3 DEF Stripe!Deliver
  <2>4. \A q \in Procs : q # p => ~Stripe!Holds(q, v)'
    <3> SUFFICES ASSUME NEW q \in Procs, q # p, proc[q].event = v
                 PROVE  proc[q].attempt # event[v].attempts + 1
      BY <2>1, <2>3 DEF Stripe!Holds
    <3>1. proc[q].attempt <= event[v].attempts
      <4>1. v # 0
        BY DEF Stripe!Versions
      <4> QED
        BY <4>1 DEF Attempts
    <3> QED
      BY <3>1, <1>n
  <2> SUFFICES ASSUME NEW w \in Stripe!Versions, NEW q \in Procs, NEW r \in Procs,
                      Stripe!Holds(q, w)', Stripe!Holds(r, w)'
               PROVE  q = r
    BY DEF Apart
  <2>5. CASE w = v
    BY <2>4, <2>5
  <2>6. CASE w # v
    <3>1. q # p /\ r # p
      BY <2>1, <2>6 DEF Stripe!Holds
    <3>2. Stripe!Holds(q, w) /\ Stripe!Holds(r, w)
      BY <2>2, <2>3, <2>6, <3>1 DEF Stripe!Holds
    <3> QED
      BY <3>2 DEF Apart
  <2> QED
    BY <2>5, <2>6
<1>4. ASSUME NEW v \in Stripe!Versions, Stripe!LeaseExpires(v) PROVE Apart'
  <2>1. \A w \in Stripe!Versions : event'[w].attempts = event[w].attempts
    BY <1>4 DEF Stripe!LeaseExpires, Stripe!Fault
  <2>2. \A q \in Procs : Less(q)
    BY <1>4 DEF Stripe!LeaseExpires, Stripe!Fault
  <2> QED
    BY <2>1, <2>2, <1>a
\* A handler.
<1>5. ASSUME NEW p \in Procs, Stripe!Retrieve(p) PROVE Apart'
  <2>1. \A w \in Stripe!Versions : event'[w].attempts = event[w].attempts
    BY <1>5 DEF Stripe!Retrieve
  <2>2. \A q \in Procs : Less(q)
    BY <1>5 DEF Stripe!Retrieve
  <2> QED
    BY <2>1, <2>2, <1>a
<1>6. ASSUME NEW p \in Procs, Stripe!ReadRow(p) PROVE Apart'
  <2>1. \A w \in Stripe!Versions : event'[w].attempts = event[w].attempts
    BY <1>6 DEF Stripe!ReadRow
  <2>2. \A q \in Procs : Less(q)
    BY <1>6 DEF Stripe!ReadRow
  <2> QED
    BY <2>1, <2>2, <1>a
<1>7. ASSUME NEW p \in Procs, Stripe!WriteRow(p) PROVE Apart'
  <2>1. \A w \in Stripe!Versions : event'[w].attempts = event[w].attempts
    BY <1>7 DEF Stripe!WriteRow, Stripe!Upsert
  <2>2. \A q \in Procs : Less(q)
    BY <1>7 DEF Stripe!WriteRow, Stripe!Upsert
  <2> QED
    BY <2>1, <2>2, <1>a
<1>8. ASSUME NEW p \in Procs, Stripe!Complete(p) PROVE Apart'
  <2>1. \A w \in Stripe!Versions : event'[w].attempts = event[w].attempts
    BY <1>8 DEF Stripe!Complete, Stripe!CompleteEvent
  <2>2. \A q \in Procs : Less(q)
    BY <1>8 DEF Stripe!Complete, Stripe!CompleteEvent
  <2> QED
    BY <2>1, <2>2, <1>a
<1>9. ASSUME NEW p \in Procs, Stripe!Fail(p) PROVE Apart'
  <2>1. \A w \in Stripe!Versions : event'[w].attempts = event[w].attempts
    BY <1>9 DEF Stripe!Fail
  <2>2. \A q \in Procs : Less(q)
    BY <1>9 DEF Stripe!Fail
  <2> QED
    BY <2>1, <2>2, <1>a
\* Failures.
<1>10. ASSUME NEW p \in Procs, Stripe!CallFails(p) PROVE Apart'
  <2>1. \A w \in Stripe!Versions : event'[w].attempts = event[w].attempts
    BY <1>10 DEF Stripe!CallFails, Stripe!Fault
  <2>2. \A q \in Procs : Less(q)
    BY <1>10 DEF Stripe!CallFails, Stripe!Fault
  <2> QED
    BY <2>1, <2>2, <1>a
<1>11. ASSUME NEW p \in Procs, Stripe!Crash(p) PROVE Apart'
  <2>1. \A w \in Stripe!Versions : event'[w].attempts = event[w].attempts
    BY <1>11 DEF Stripe!Crash, Stripe!Fault
  <2>2. \A q \in Procs : Less(q)
    BY <1>11 DEF Stripe!Crash, Stripe!Fault
  <2> QED
    BY <2>1, <2>2, <1>a
<1>12. ASSUME NEW p \in Procs, Stripe!AnswerLost(p) PROVE Apart'
  <2>1. \A w \in Stripe!Versions : event'[w].attempts = event[w].attempts
    BY <1>12 DEF Stripe!AnswerLost, Stripe!CompleteEvent
  <2>2. \A q \in Procs : Less(q)
    BY <1>12 DEF Stripe!AnswerLost
  <2> QED
    BY <2>1, <2>2, <1>a
<1>13. ASSUME UNCHANGED Stripe!vars PROVE Apart'
  BY <1>13 DEF Stripe!vars, Apart, Stripe!Holds
<1> QED
  BY <1>1, <1>2, <1>3, <1>4, <1>5, <1>6, <1>7, <1>8, <1>9, <1>10, <1>11, <1>12, <1>13
       DEF Stripe!Next, Stripe!Step

\* A claim ends with the attempt that holds it, or when its time is over.
LEMMA AttemptStep ==
  ASSUME MaxVersions \in Nat, Stripe!TypeOK, Attempts, Apart, Stripe!OneAttempt,
         [Stripe!Next]_Stripe!vars
  PROVE  Stripe!OneAttempt'
<1> USE DEF Stripe!Idle, Stripe!TypeOK, Attempts, Apart, Stripe!Holds, Stripe!OneAttempt,
            Stripe!Versions
\* Stripe, and the user.
<1>1. ASSUME Stripe!Change PROVE Stripe!OneAttempt'
  BY <1>1 DEF Stripe!Change, Stripe!Publish
<1>2. ASSUME NEW p \in Procs, Stripe!ChangePlan(p) PROVE Stripe!OneAttempt'
  BY <1>2 DEF Stripe!ChangePlan, Stripe!Publish
<1>3. ASSUME NEW p \in Procs, NEW v \in Stripe!Versions, Stripe!Deliver(p, v)
      PROVE  Stripe!OneAttempt'
  BY <1>3 DEF Stripe!Deliver
<1>4. ASSUME NEW v \in Stripe!Versions, Stripe!LeaseExpires(v) PROVE Stripe!OneAttempt'
  BY <1>4 DEF Stripe!LeaseExpires, Stripe!Fault
\* A handler.
<1>5. ASSUME NEW p \in Procs, Stripe!Retrieve(p) PROVE Stripe!OneAttempt'
  BY <1>5 DEF Stripe!Retrieve
<1>6. ASSUME NEW p \in Procs, Stripe!ReadRow(p) PROVE Stripe!OneAttempt'
  BY <1>6 DEF Stripe!ReadRow
<1>7. ASSUME NEW p \in Procs, Stripe!WriteRow(p) PROVE Stripe!OneAttempt'
  BY <1>7 DEF Stripe!WriteRow, Stripe!Upsert
<1>8. ASSUME NEW p \in Procs, Stripe!Complete(p) PROVE Stripe!OneAttempt'
  BY <1>8 DEF Stripe!Complete, Stripe!CompleteEvent, Stripe!CurrentAttempt
<1>9. ASSUME NEW p \in Procs, Stripe!Fail(p) PROVE Stripe!OneAttempt'
  BY <1>9 DEF Stripe!Fail, Stripe!CurrentAttempt
\* Failures.
<1>10. ASSUME NEW p \in Procs, Stripe!CallFails(p) PROVE Stripe!OneAttempt'
  BY <1>10 DEF Stripe!CallFails, Stripe!Fault
<1>11. ASSUME NEW p \in Procs, Stripe!Crash(p) PROVE Stripe!OneAttempt'
  BY <1>11 DEF Stripe!Crash, Stripe!Fault
<1>12. ASSUME NEW p \in Procs, Stripe!AnswerLost(p) PROVE Stripe!OneAttempt'
  <2>1. CASE Stripe!Upsert(p) /\ proc[p].event # 0 /\ UNCHANGED event
    BY <1>12, <2>1 DEF Stripe!AnswerLost, Stripe!Upsert
  <2>2. CASE Stripe!CompleteEvent(p)
    <3>1. \A q \in Procs : /\ proc'[q].event = proc[q].event
                           /\ proc'[q].attempt = proc[q].attempt
      BY <1>12 DEF Stripe!AnswerLost
    <3>2. \A w \in Stripe!Versions : event'[w].attempts = event[w].attempts
      BY <1>12, <2>2 DEF Stripe!AnswerLost, Stripe!CompleteEvent
    <3>3. \A w \in Stripe!Versions :
            \/ event'[w].claim = event[w].claim /\ event'[w].processed = event[w].processed
            \/ event'[w].processed = TRUE
      <4>1. CASE Stripe!CurrentAttempt(p)
        <5> DEFINE v == proc[p].event
        <5>1. event' = [event EXCEPT ![v].processed = TRUE, ![v].claim = "free"]
          BY <2>2, <4>1 DEF Stripe!CompleteEvent
        <5>2. \A w \in Stripe!Versions : w # v => event'[w] = event[w]
          BY <5>1
        <5>3. v \in Stripe!Versions => event'[v].processed = TRUE
          BY <5>1
        <5> QED
          BY <5>2, <5>3
      <4>2. CASE ~Stripe!CurrentAttempt(p)
        BY <1>12, <2>2, <4>2 DEF Stripe!AnswerLost, Stripe!CompleteEvent
      <4> QED
        BY <4>1, <4>2
    <3> QED
      BY <3>1, <3>2, <3>3
  <2> QED
    BY <1>12, <2>1, <2>2 DEF Stripe!AnswerLost
<1>13. ASSUME UNCHANGED Stripe!vars PROVE Stripe!OneAttempt'
  BY <1>13 DEF Stripe!vars
<1> QED
  BY <1>1, <1>2, <1>3, <1>4, <1>5, <1>6, <1>7, <1>8, <1>9, <1>10, <1>11, <1>12, <1>13
       DEF Stripe!Next, Stripe!Step

\* THE INVARIANT.  Every reachable state satisfies every conjunct.
THEOREM StripeInductiveHolds ==
  ASSUME MaxVersions \in Nat, StripeFaults \in Nat
  PROVE  Stripe!Spec => []StripeInductive
<1>1. Stripe!Init => StripeInductive
  <2> SUFFICES ASSUME Stripe!Init PROVE StripeInductive
    OBVIOUS
  <2>1. Stripe!TypeOK
    BY DEF Stripe!Init, Stripe!TypeOK, Stripe!Idle
  <2>2. Numbered
    <3>1. 0 \in 0 .. MaxVersions /\ \A w \in Stripe!Versions : status[w] # "none" <=> w <= 0
      BY DEF Stripe!Init, Stripe!Versions
    <3> QED
      BY <3>1 DEF Numbered
  <2>3. Attempts /\ Apart /\ Stripe!OneAttempt
    BY DEF Stripe!Init, Stripe!Idle, Attempts, Apart, Stripe!OneAttempt, Stripe!Holds,
           Stripe!Versions
  <2> QED
    BY <2>1, <2>2, <2>3 DEF StripeInductive
<1>2. ASSUME MaxVersions \in Nat, StripeFaults \in Nat,
             StripeInductive, [Stripe!Next]_Stripe!vars
      PROVE  StripeInductive'
  BY <1>2, TypeStep, NumberedStep, AttemptsStep, ApartStep, AttemptStep DEF StripeInductive
<1> QED
  BY <1>1, <1>2, PTL DEF Stripe!Spec

-----------------------------------------------------------------------------
(* UsageMeter: the invariant.                                              *)

\* Windows are closed one after another, none of them empty or from the future.
Closed ==
  /\ clock \in Nat /\ from \in Nat /\ from <= clock
  /\ windows \in Seq([from : Nat, to : Nat])
  /\ \A i \in DOMAIN windows : windows[i].from < windows[i].to

\* A replica imports what has been closed.
Within ==
  /\ cursor \in 0 .. Len(windows) /\ stored \subseteq DOMAIN windows
  /\ DOMAIN worker = Procs
  /\ \A p \in Procs :
       /\ DOMAIN worker[p] = {"at", "seen", "upto", "last", "shown"}
       /\ worker[p].seen \in 0 .. Len(windows) /\ worker[p].upto \in 0 .. Len(windows)

\* What a replica has read of the cursor was stored by then, and stays so.
SeenStored == \A p \in Procs : 1 .. worker[p].seen \subseteq stored

UsageInductive == Closed /\ Within /\ SeenStored /\ Meter!NothingPassedOver

\* A window is closed, if it is not empty.
LEMMA Closing ==
  ASSUME Closed, Meter!Close, clock' = clock, from' \in Nat, from' <= clock
  PROVE  Closed' /\ Len(windows') \in Nat /\ Len(windows) <= Len(windows')
<1> USE DEF Closed, Meter!Close
<1>1. CASE from < clock
  <2> DEFINE w == [from |-> from, to |-> clock]
  <2>1. w \in [from : Nat, to : Nat] /\ w.from < w.to
    BY <1>1
  <2>2. windows' = Append(windows, w)
    BY <1>1
  <2> HIDE DEF w
  <2>3. windows' \in Seq([from : Nat, to : Nat]) /\ Len(windows') = Len(windows) + 1
    <3> DEFINE W == [from : Nat, to : Nat]
    <3>1. windows \in Seq(W) /\ w \in W
      BY <2>1
    <3> HIDE DEF W
    <3>2. windows' \in Seq(W) /\ Len(windows') = Len(windows) + 1
      BY <2>2, <3>1
    <3> QED
      BY <3>2 DEF W
  <2>4. \A i \in 1 .. Len(windows) : windows'[i] = windows[i]
    BY <2>2
  <2>5. windows'[Len(windows) + 1] = w
    BY <2>2
  <2>6. \A i \in DOMAIN windows' : windows'[i].from < windows'[i].to
    BY <2>1, <2>3, <2>4, <2>5
  <2> QED
    BY <2>3, <2>6
<1>2. CASE ~(from < clock)
  BY <1>2
<1> QED
  BY <1>1, <1>2

\* What a worker turns to keeps what it has read within the windows.
LEMMA Worked ==
  ASSUME Within, NEW p \in Procs, NEW r,
         DOMAIN r = {"at", "seen", "upto", "last", "shown"},
         r.seen \in 0 .. Len(windows), r.upto \in 0 .. Len(windows),
         worker' = [worker EXCEPT ![p] = r], UNCHANGED <<windows, stored, cursor>>
  PROVE  Within'
BY DEF Within

\* So does one that starts anew.
LEMMA Anew ==
  ASSUME Within, Closed, NEW p \in Procs, NEW l, Meter!Rest(p) \/ Meter!Enforce(p, l),
         UNCHANGED <<windows, stored, cursor>>
  PROVE  Within'
<1> DEFINE r == [Meter!Idle EXCEPT !.at = l]
<1>1. /\ DOMAIN Meter!Idle = {"at", "seen", "upto", "last", "shown"}
      /\ Meter!Idle.seen = 0 /\ Meter!Idle.upto = 0
  BY DEF Meter!Idle
<1>2. DOMAIN r = DOMAIN Meter!Idle /\ r.seen = 0 /\ r.upto = 0
  BY <1>1
<1>3. 0 \in 0 .. Len(windows)
  BY DEF Closed
<1>4. \/ worker' = [worker EXCEPT ![p] = Meter!Idle]
      \/ worker' = [worker EXCEPT ![p] = r]
  BY DEF Meter!Rest, Meter!Enforce
<1> HIDE DEF r
<1> QED
  BY <1>1, <1>2, <1>3, <1>4, Worked


\* Only what has lasted is closed.
LEMMA ClosedStep == ASSUME Closed, [Meter!Next]_Meter!vars PROVE Closed'
<1> USE DEF Closed
\* Sandbox0 and the gate.
<1>1. ASSUME Meter!Tick PROVE Closed'
  BY <1>1 DEF Meter!Tick, Meter!rows, Meter!usage
<1>2. ASSUME Meter!Resize PROVE Closed'
  BY <1>2, Closing DEF Meter!Resize
<1>3. ASSUME Meter!Stop PROVE Closed'
  BY <1>3, Closing DEF Meter!Stop
<1>4. ASSUME Meter!Access PROVE Closed'
  BY <1>4 DEF Meter!Access, Meter!rows, Meter!usage, Meter!Remember
<1>5. ASSUME Meter!Expire PROVE Closed'
  BY <1>5 DEF Meter!Expire, Meter!rows, Meter!usage
\* A worker.
<1>6. ASSUME NEW p \in Procs, Meter!Begin(p) PROVE Closed'
  BY <1>6 DEF Meter!Begin, Meter!rows, Meter!usage, Meter!At
<1>7. ASSUME NEW p \in Procs, Meter!List(p) PROVE Closed'
  BY <1>7 DEF Meter!List, Meter!rows, Meter!usage, Meter!At, Meter!Enforce, Meter!Idle
<1>8. ASSUME NEW p \in Procs, Meter!ListFails(p) PROVE Closed'
  BY <1>8 DEF Meter!ListFails, Meter!rows, Meter!usage, Meter!At, Meter!Rest,
       Meter!Enforce, Meter!AfterError, Meter!Idle
<1>9. ASSUME NEW p \in Procs, Meter!Import(p) PROVE Closed'
  BY <1>9 DEF Meter!Import, Meter!rows, Meter!usage, Meter!At
<1>10. ASSUME NEW p \in Procs, Meter!Rows(p) PROVE Closed'
  BY <1>10 DEF Meter!Rows, Meter!rows, Meter!usage, Meter!At
<1>11. ASSUME NEW p \in Procs, Meter!Observe(p) PROVE Closed'
  BY <1>11 DEF Meter!Observe, Meter!rows, Meter!usage, Meter!At
<1>12. ASSUME NEW p \in Procs, Meter!Total(p) PROVE Closed'
  BY <1>12 DEF Meter!Total, Meter!rows, Meter!usage, Meter!At, Meter!Enforce,
       Meter!Rest, Meter!Idle
<1>13. ASSUME NEW p \in Procs, Meter!Pause(p) PROVE Closed'
  <2>1. CASE Meter!Close
    BY <1>13, <2>1, Closing DEF Meter!Pause
  <2>2. CASE UNCHANGED windows
    BY <1>13, <2>2 DEF Meter!Pause
  <2> QED
    BY <1>13, <2>1, <2>2 DEF Meter!Pause
\* Failures.
<1>14. ASSUME NEW p \in Procs, Meter!ImportFails(p) PROVE Closed'
  BY <1>14 DEF Meter!ImportFails, Meter!rows, Meter!usage, Meter!At, Meter!Fault,
       Meter!Enforce, Meter!AfterError, Meter!RolledBack, Meter!Idle
<1>15. ASSUME NEW p \in Procs, Meter!CallFails(p) PROVE Closed'
  BY <1>15 DEF Meter!CallFails, Meter!rows, Meter!usage, Meter!Fault, Meter!Rest,
       Meter!Idle
<1>16. ASSUME NEW p \in Procs, Meter!Crash(p) PROVE Closed'
  BY <1>16 DEF Meter!Crash, Meter!rows, Meter!usage, Meter!Fault, Meter!Rest, Meter!At,
       Meter!Idle
<1>17. ASSUME UNCHANGED Meter!vars PROVE Closed'
  BY <1>17 DEF Meter!vars, Meter!rows, Meter!usage
<1> QED
  BY <1>1, <1>2, <1>3, <1>4, <1>5, <1>6, <1>7, <1>8, <1>9, <1>10, <1>11, <1>12, <1>13,
       <1>14, <1>15, <1>16, <1>17 DEF Meter!Next, Meter!Step

\* A page ends within what there is, and windows are only added.
LEMMA WithinStep == ASSUME Closed, Within, [Meter!Next]_Meter!vars PROVE Within'
<1> USE DEF Closed, Within
\* Sandbox0 and the gate.
<1>1. ASSUME Meter!Tick PROVE Within'
  BY <1>1 DEF Meter!Tick, Meter!rows, Meter!usage
<1>2. ASSUME Meter!Resize PROVE Within'
  <2>1. /\ Len(windows') \in Nat /\ Len(windows) <= Len(windows')
        /\ windows' \in Seq([from : Nat, to : Nat])
    BY <1>2, Closing DEF Meter!Resize
  <2> QED
    BY <1>2, <2>1 DEF Meter!Resize, Meter!rows
<1>3. ASSUME Meter!Stop PROVE Within'
  <2>1. /\ Len(windows') \in Nat /\ Len(windows) <= Len(windows')
        /\ windows' \in Seq([from : Nat, to : Nat])
    BY <1>3, Closing DEF Meter!Stop
  <2> QED
    BY <1>3, <2>1 DEF Meter!Stop, Meter!rows
<1>4. ASSUME Meter!Access PROVE Within'
  BY <1>4 DEF Meter!Access, Meter!rows, Meter!usage, Meter!Remember
<1>5. ASSUME Meter!Expire PROVE Within'
  BY <1>5 DEF Meter!Expire, Meter!rows, Meter!usage
\* A worker.
<1>6. ASSUME NEW p \in Procs, Meter!Begin(p) PROVE Within'
  <2> DEFINE r == [worker[p] EXCEPT !.at = "list", !.seen = cursor]
  <2>1. worker' = [worker EXCEPT ![p] = r]
    BY <1>6 DEF Meter!Begin
  <2>2. /\ DOMAIN r = {"at", "seen", "upto", "last", "shown"}
        /\ r.seen = cursor /\ r.upto = worker[p].upto
    OBVIOUS
  <2> HIDE DEF r
  <2> QED
    BY <1>6, <2>1, <2>2, Worked DEF Meter!Begin, Meter!rows, Meter!usage
<1>7. ASSUME NEW p \in Procs, Meter!List(p) PROVE Within'
  <2>1. PICK n \in worker[p].seen .. Len(windows) :
          IF n = worker[p].seen THEN Meter!Enforce(p, "rows")
            ELSE worker' = [worker EXCEPT ![p].at = "import", ![p].upto = n]
    BY <1>7 DEF Meter!List
  <2>2. UNCHANGED <<windows, stored, cursor>> /\ n \in 0 .. Len(windows)
    BY <1>7 DEF Meter!List, Meter!rows, Meter!usage
  <2>3. CASE n = worker[p].seen
    BY <2>1, <2>2, <2>3, Anew
  <2>4. CASE n # worker[p].seen
    <3> DEFINE r == [worker[p] EXCEPT !.at = "import", !.upto = n]
    <3>1. worker' = [worker EXCEPT ![p] = r]
      BY <2>1, <2>4
    <3>2. /\ DOMAIN r = {"at", "seen", "upto", "last", "shown"}
          /\ r.seen = worker[p].seen /\ r.upto = n
      OBVIOUS
    <3> HIDE DEF r
    <3> QED
      BY <2>2, <3>1, <3>2, Worked
  <2> QED
    BY <2>3, <2>4
<1>8. ASSUME NEW p \in Procs, Meter!ListFails(p) PROVE Within'
  <2>1. Meter!Rest(p) \/ Meter!Enforce(p, Meter!AfterError)
    BY <1>8 DEF Meter!ListFails
  <2> QED
    BY <1>8, <2>1, Anew DEF Meter!ListFails, Meter!rows, Meter!usage
<1>9. ASSUME NEW p \in Procs, Meter!Import(p) PROVE Within'
  <2> DEFINE r == [worker[p] EXCEPT !.at = "list", !.seen = worker[p].upto, !.upto = 0]
  <2>1. worker' = [worker EXCEPT ![p] = r]
    BY <1>9 DEF Meter!Import
  <2>2. /\ DOMAIN r = {"at", "seen", "upto", "last", "shown"}
        /\ r.seen = worker[p].upto /\ r.upto = 0
    OBVIOUS
  <2>3. UNCHANGED windows
    BY <1>9 DEF Meter!Import, Meter!usage
  <2>4. \A q \in Procs : worker'[q] = IF q = p THEN r ELSE worker[q]
    BY <2>1
  <2>5. DOMAIN worker' = Procs
    BY <2>1
  <2>6. cursor' \in 0 .. Len(windows) /\ stored' \subseteq DOMAIN windows
    BY <1>9 DEF Meter!Import
  <2>7. 0 \in 0 .. Len(windows)
    OBVIOUS
  <2> HIDE DEF r
  <2> QED
    BY <2>2, <2>3, <2>4, <2>5, <2>6, <2>7
<1>10. ASSUME NEW p \in Procs, Meter!Rows(p) PROVE Within'
  <2> DEFINE r == [worker[p] EXCEPT !.at = "observe", !.last = Meter!LastEnd]
  <2>1. worker' = [worker EXCEPT ![p] = r]
    BY <1>10 DEF Meter!Rows
  <2>2. /\ DOMAIN r = {"at", "seen", "upto", "last", "shown"}
        /\ r.seen = worker[p].seen /\ r.upto = worker[p].upto
    OBVIOUS
  <2> HIDE DEF r
  <2> QED
    BY <1>10, <2>1, <2>2, Worked DEF Meter!Rows, Meter!rows, Meter!usage
<1>11. ASSUME NEW p \in Procs, Meter!Observe(p) PROVE Within'
  <2> DEFINE r == [worker[p] EXCEPT !.at = "total", !.shown = Meter!Shown]
  <2>1. worker' = [worker EXCEPT ![p] = r]
    BY <1>11 DEF Meter!Observe
  <2>2. /\ DOMAIN r = {"at", "seen", "upto", "last", "shown"}
        /\ r.seen = worker[p].seen /\ r.upto = worker[p].upto
    OBVIOUS
  <2> HIDE DEF r
  <2> QED
    BY <1>11, <2>1, <2>2, Worked DEF Meter!Observe, Meter!rows, Meter!usage
<1>12. ASSUME NEW p \in Procs, Meter!Total(p) PROVE Within'
  <2>1. \/ Meter!Rest(p)
        \/ Meter!Enforce(p, "pause")
    BY <1>12 DEF Meter!Total
  <2> QED
    BY <1>12, <2>1, Anew DEF Meter!Total, Meter!rows, Meter!usage
<1>13. ASSUME NEW p \in Procs, Meter!Pause(p) PROVE Within'
  <2>1. /\ Len(windows') \in Nat /\ Len(windows) <= Len(windows')
        /\ windows' \in Seq([from : Nat, to : Nat])
    <3>1. CASE Meter!Close
      BY <1>13, <3>1, Closing DEF Meter!Pause
    <3>2. CASE UNCHANGED windows
      BY <3>2
    <3> QED
      BY <1>13, <3>1, <3>2 DEF Meter!Pause
  <2> QED
    BY <1>13, <2>1 DEF Meter!Pause, Meter!rows, Meter!Rest, Meter!Idle
\* Failures.
<1>14. ASSUME NEW p \in Procs, Meter!ImportFails(p) PROVE Within'
  BY <1>14 DEF Meter!ImportFails, Meter!rows, Meter!usage, Meter!At, Meter!Fault,
       Meter!Enforce, Meter!AfterError, Meter!RolledBack, Meter!Idle
<1>15. ASSUME NEW p \in Procs, Meter!CallFails(p) PROVE Within'
  BY <1>15 DEF Meter!CallFails, Meter!rows, Meter!usage, Meter!Fault, Meter!Rest,
       Meter!Idle
<1>16. ASSUME NEW p \in Procs, Meter!Crash(p) PROVE Within'
  BY <1>16 DEF Meter!Crash, Meter!rows, Meter!usage, Meter!Fault, Meter!Rest, Meter!At,
       Meter!Idle
<1>17. ASSUME UNCHANGED Meter!vars PROVE Within'
  BY <1>17 DEF Meter!vars, Meter!rows, Meter!usage
<1> QED
  BY <1>1, <1>2, <1>3, <1>4, <1>5, <1>6, <1>7, <1>8, <1>9, <1>10, <1>11, <1>12, <1>13,
       <1>14, <1>15, <1>16, <1>17 DEF Meter!Next, Meter!Step

\* What is stored stays so, and a replica that moves on has stored what it passes.
LEMMA SeenStep ==
  ASSUME Within, SeenStored, Meter!NothingPassedOver, [Meter!Next]_Meter!vars
  PROVE  SeenStored'
<1> USE DEF Within, SeenStored, Meter!NothingPassedOver
\* Sandbox0 and the gate.
<1>1. ASSUME Meter!Tick PROVE SeenStored'
  BY <1>1 DEF Meter!Tick, Meter!rows, Meter!usage
<1>2. ASSUME Meter!Resize PROVE SeenStored'
  BY <1>2 DEF Meter!Resize, Meter!Close, Meter!rows, Meter!usage
<1>3. ASSUME Meter!Stop PROVE SeenStored'
  BY <1>3 DEF Meter!Stop, Meter!Close, Meter!rows, Meter!usage
<1>4. ASSUME Meter!Access PROVE SeenStored'
  BY <1>4 DEF Meter!Access, Meter!rows, Meter!usage, Meter!Remember
<1>5. ASSUME Meter!Expire PROVE SeenStored'
  BY <1>5 DEF Meter!Expire, Meter!rows, Meter!usage
\* A worker.
<1>6. ASSUME NEW p \in Procs, Meter!Begin(p) PROVE SeenStored'
  BY <1>6 DEF Meter!Begin, Meter!rows, Meter!usage, Meter!At
<1>7. ASSUME NEW p \in Procs, Meter!List(p) PROVE SeenStored'
  BY <1>7 DEF Meter!List, Meter!rows, Meter!usage, Meter!At, Meter!Enforce, Meter!Idle
<1>8. ASSUME NEW p \in Procs, Meter!ListFails(p) PROVE SeenStored'
  BY <1>8 DEF Meter!ListFails, Meter!rows, Meter!usage, Meter!At, Meter!Rest,
       Meter!Enforce, Meter!AfterError, Meter!Idle
<1>9. ASSUME NEW p \in Procs, Meter!Import(p) PROVE SeenStored'
  BY <1>9 DEF Meter!Import, Meter!rows, Meter!usage, Meter!At
<1>10. ASSUME NEW p \in Procs, Meter!Rows(p) PROVE SeenStored'
  BY <1>10 DEF Meter!Rows, Meter!rows, Meter!usage, Meter!At
<1>11. ASSUME NEW p \in Procs, Meter!Observe(p) PROVE SeenStored'
  BY <1>11 DEF Meter!Observe, Meter!rows, Meter!usage, Meter!At
<1>12. ASSUME NEW p \in Procs, Meter!Total(p) PROVE SeenStored'
  BY <1>12 DEF Meter!Total, Meter!rows, Meter!usage, Meter!At, Meter!Enforce,
       Meter!Rest, Meter!Idle
<1>13. ASSUME NEW p \in Procs, Meter!Pause(p) PROVE SeenStored'
  BY <1>13 DEF Meter!Pause, Meter!rows, Meter!usage, Meter!At, Meter!Rest, Meter!Close,
       Meter!Idle, Meter!Remember
\* Failures.
<1>14. ASSUME NEW p \in Procs, Meter!ImportFails(p) PROVE SeenStored'
  BY <1>14 DEF Meter!ImportFails, Meter!rows, Meter!usage, Meter!At, Meter!Fault,
       Meter!Enforce, Meter!AfterError, Meter!RolledBack, Meter!Idle
<1>15. ASSUME NEW p \in Procs, Meter!CallFails(p) PROVE SeenStored'
  BY <1>15 DEF Meter!CallFails, Meter!rows, Meter!usage, Meter!Fault, Meter!Rest,
       Meter!Idle
<1>16. ASSUME NEW p \in Procs, Meter!Crash(p) PROVE SeenStored'
  BY <1>16 DEF Meter!Crash, Meter!rows, Meter!usage, Meter!Fault, Meter!Rest, Meter!At,
       Meter!Idle
<1>17. ASSUME UNCHANGED Meter!vars PROVE SeenStored'
  BY <1>17 DEF Meter!vars, Meter!rows, Meter!usage
<1> QED
  BY <1>1, <1>2, <1>3, <1>4, <1>5, <1>6, <1>7, <1>8, <1>9, <1>10, <1>11, <1>12, <1>13,
       <1>14, <1>15, <1>16, <1>17 DEF Meter!Next, Meter!Step

\* The cursor is written with the windows up to it.
LEMMA PassedStep ==
  ASSUME Within, SeenStored, Meter!NothingPassedOver, [Meter!Next]_Meter!vars
  PROVE  Meter!NothingPassedOver'
<1> USE DEF Within, SeenStored, Meter!NothingPassedOver
\* Sandbox0 and the gate.
<1>1. ASSUME Meter!Tick PROVE Meter!NothingPassedOver'
  BY <1>1 DEF Meter!Tick, Meter!rows, Meter!usage
<1>2. ASSUME Meter!Resize PROVE Meter!NothingPassedOver'
  BY <1>2 DEF Meter!Resize, Meter!Close, Meter!rows, Meter!usage
<1>3. ASSUME Meter!Stop PROVE Meter!NothingPassedOver'
  BY <1>3 DEF Meter!Stop, Meter!Close, Meter!rows, Meter!usage
<1>4. ASSUME Meter!Access PROVE Meter!NothingPassedOver'
  BY <1>4 DEF Meter!Access, Meter!rows, Meter!usage, Meter!Remember
<1>5. ASSUME Meter!Expire PROVE Meter!NothingPassedOver'
  BY <1>5 DEF Meter!Expire, Meter!rows, Meter!usage
\* A worker.
<1>6. ASSUME NEW p \in Procs, Meter!Begin(p) PROVE Meter!NothingPassedOver'
  BY <1>6 DEF Meter!Begin, Meter!rows, Meter!usage, Meter!At
<1>7. ASSUME NEW p \in Procs, Meter!List(p) PROVE Meter!NothingPassedOver'
  BY <1>7 DEF Meter!List, Meter!rows, Meter!usage, Meter!At, Meter!Enforce, Meter!Idle
<1>8. ASSUME NEW p \in Procs, Meter!ListFails(p) PROVE Meter!NothingPassedOver'
  BY <1>8 DEF Meter!ListFails, Meter!rows, Meter!usage, Meter!At, Meter!Rest,
       Meter!Enforce, Meter!AfterError, Meter!Idle
<1>9. ASSUME NEW p \in Procs, Meter!Import(p) PROVE Meter!NothingPassedOver'
  BY <1>9 DEF Meter!Import, Meter!rows, Meter!usage, Meter!At
<1>10. ASSUME NEW p \in Procs, Meter!Rows(p) PROVE Meter!NothingPassedOver'
  BY <1>10 DEF Meter!Rows, Meter!rows, Meter!usage, Meter!At
<1>11. ASSUME NEW p \in Procs, Meter!Observe(p) PROVE Meter!NothingPassedOver'
  BY <1>11 DEF Meter!Observe, Meter!rows, Meter!usage, Meter!At
<1>12. ASSUME NEW p \in Procs, Meter!Total(p) PROVE Meter!NothingPassedOver'
  BY <1>12 DEF Meter!Total, Meter!rows, Meter!usage, Meter!At, Meter!Enforce,
       Meter!Rest, Meter!Idle
<1>13. ASSUME NEW p \in Procs, Meter!Pause(p) PROVE Meter!NothingPassedOver'
  BY <1>13 DEF Meter!Pause, Meter!rows, Meter!usage, Meter!At, Meter!Rest, Meter!Close,
       Meter!Idle, Meter!Remember
\* Failures.
<1>14. ASSUME NEW p \in Procs, Meter!ImportFails(p) PROVE Meter!NothingPassedOver'
  BY <1>14 DEF Meter!ImportFails, Meter!rows, Meter!usage, Meter!At, Meter!Fault,
       Meter!Enforce, Meter!AfterError, Meter!RolledBack, Meter!Idle
<1>15. ASSUME NEW p \in Procs, Meter!CallFails(p) PROVE Meter!NothingPassedOver'
  BY <1>15 DEF Meter!CallFails, Meter!rows, Meter!usage, Meter!Fault, Meter!Rest,
       Meter!Idle
<1>16. ASSUME NEW p \in Procs, Meter!Crash(p) PROVE Meter!NothingPassedOver'
  BY <1>16 DEF Meter!Crash, Meter!rows, Meter!usage, Meter!Fault, Meter!Rest, Meter!At,
       Meter!Idle
<1>17. ASSUME UNCHANGED Meter!vars PROVE Meter!NothingPassedOver'
  BY <1>17 DEF Meter!vars, Meter!rows, Meter!usage
<1> QED
  BY <1>1, <1>2, <1>3, <1>4, <1>5, <1>6, <1>7, <1>8, <1>9, <1>10, <1>11, <1>12, <1>13,
       <1>14, <1>15, <1>16, <1>17 DEF Meter!Next, Meter!Step

\* THE INVARIANT.  Every reachable state satisfies every conjunct.
THEOREM UsageInductiveHolds == Meter!Spec => []UsageInductive
<1>1. Meter!Init => UsageInductive
  <2> SUFFICES ASSUME Meter!Init PROVE UsageInductive
    OBVIOUS
  <2> USE DEF Meter!Init, Meter!Idle
  <2>1. Closed
    BY DEF Closed
  <2>2. Within
    BY DEF Within
  <2>3. SeenStored /\ Meter!NothingPassedOver
    BY DEF SeenStored, Meter!NothingPassedOver
  <2> QED
    BY <2>1, <2>2, <2>3 DEF UsageInductive
<1>2. UsageInductive /\ [Meter!Next]_Meter!vars => UsageInductive'
  BY ClosedStep, WithinStep, SeenStep, PassedStep DEF UsageInductive
<1> QED
  BY <1>1, <1>2, PTL DEF Meter!Spec

\* The clock, the Sandbox and the counters, and that a worker between two passes
\* remembers nothing.
Counted ==
  /\ clock \in 0 .. MeterTime /\ running \in BOOLEAN /\ from \in 0 .. MeterTime
  /\ claimed \in (0 .. MeterTime) \cup {Unknown}
  /\ wakes \in 0 .. MeterChanges /\ meterFaults \in 0 .. MeterFaults

Forgotten == \A p \in Procs : worker[p].at = "idle" => worker[p] = Meter!Idle

LEMMA CountedStep ==
  ASSUME MeterTime \in Nat, MeterChanges \in Nat, MeterFaults \in Nat, Counted,
         [Meter!Next]_Meter!vars
  PROVE  Counted'
<1> USE DEF Counted, Meter!usage, Meter!rows
<1>1. ASSUME Meter!Tick PROVE Counted'
  BY <1>1 DEF Meter!Tick
<1>2. ASSUME Meter!Resize PROVE Counted'
  BY <1>2 DEF Meter!Resize
<1>3. ASSUME Meter!Stop PROVE Counted'
  BY <1>3 DEF Meter!Stop
<1>4. ASSUME Meter!Access PROVE Counted'
  BY <1>4 DEF Meter!Access
<1>5. ASSUME Meter!Expire PROVE Counted'
  BY <1>5 DEF Meter!Expire
<1>6. ASSUME NEW p \in Procs, Meter!Step(p) PROVE Counted'
  <2>1. /\ UNCHANGED <<clock, claimed, from, wakes, meterFaults>>
        /\ running' \in {running, FALSE}
    BY <1>6 DEF Meter!Step, Meter!Begin, Meter!List, Meter!ListFails, Meter!Import, Meter!Rows,
                Meter!Observe, Meter!Total, Meter!Pause
  <2> QED
    BY <2>1
<1>7. ASSUME NEW p \in Procs, Meter!ImportFails(p) \/ Meter!CallFails(p) \/ Meter!Crash(p)
      PROVE Counted'
  BY <1>7 DEF Meter!ImportFails, Meter!CallFails, Meter!Crash, Meter!Fault
<1>8. ASSUME UNCHANGED Meter!vars PROVE Counted'
  BY <1>8 DEF Meter!vars
<1> QED
  BY <1>1, <1>2, <1>3, <1>4, <1>5, <1>6, <1>7, <1>8 DEF Meter!Next

LEMMA ForgottenStep == ASSUME Within, Forgotten, [Meter!Next]_Meter!vars PROVE Forgotten'
<1> USE DEF Forgotten
<1>1. ASSUME NEW p \in Procs,
             \/ Meter!Rest(p)
             \/ \E r : r.at # "idle" /\ worker' = [worker EXCEPT ![p] = r]
      PROVE  Forgotten'
  BY <1>1 DEF Within, Meter!Rest
<1>2. ASSUME NEW p \in Procs, Meter!Step(p) PROVE Forgotten'
  <2>1. \/ Meter!Rest(p)
        \/ \E r : r.at # "idle" /\ worker' = [worker EXCEPT ![p] = r]
    <3>1. ASSUME NEW l, l # "idle", Meter!Enforce(p, l)
          PROVE  \E r : r.at # "idle" /\ worker' = [worker EXCEPT ![p] = r]
      <4> DEFINE r == [Meter!Idle EXCEPT !.at = l]
      <4>1. r.at # "idle"
        BY <3>1 DEF Meter!Idle
      <4> QED
        BY <3>1, <4>1 DEF Meter!Enforce
    <3>2. DOMAIN worker[p] = {"at", "seen", "upto", "last", "shown"} /\ p \in DOMAIN worker
      BY DEF Within
    <3>3. ASSUME Meter!Begin(p)
          PROVE  \E r : r.at # "idle" /\ worker' = [worker EXCEPT ![p] = r]
      <4> DEFINE r == [worker[p] EXCEPT !.at = "list", !.seen = cursor]
      <4>1. worker' = [worker EXCEPT ![p] = r] /\ r.at # "idle"
        BY <3>2, <3>3 DEF Meter!Begin
      <4> QED
        BY <4>1
    <3>4. ASSUME NEW n, worker' = [worker EXCEPT ![p].at = "import", ![p].upto = n]
          PROVE  \E r : r.at # "idle" /\ worker' = [worker EXCEPT ![p] = r]
      <4> DEFINE r == [worker[p] EXCEPT !.at = "import", !.upto = n]
      <4>1. worker' = [worker EXCEPT ![p] = r] /\ r.at # "idle"
        BY <3>2, <3>4
      <4> QED
        BY <4>1
    <3>5. ASSUME Meter!Import(p)
          PROVE  \E r : r.at # "idle" /\ worker' = [worker EXCEPT ![p] = r]
      <4> DEFINE r == [worker[p] EXCEPT !.at = "list", !.seen = worker[p].upto, !.upto = 0]
      <4>1. worker' = [worker EXCEPT ![p] = r] /\ r.at # "idle"
        BY <3>2, <3>5 DEF Meter!Import
      <4> QED
        BY <4>1
    <3>6. ASSUME Meter!Rows(p)
          PROVE  \E r : r.at # "idle" /\ worker' = [worker EXCEPT ![p] = r]
      <4> DEFINE r == [worker[p] EXCEPT !.at = "observe", !.last = Meter!LastEnd]
      <4>1. worker' = [worker EXCEPT ![p] = r] /\ r.at # "idle"
        BY <3>2, <3>6 DEF Meter!Rows
      <4> QED
        BY <4>1
    <3>7. ASSUME Meter!Observe(p)
          PROVE  \E r : r.at # "idle" /\ worker' = [worker EXCEPT ![p] = r]
      <4> DEFINE r == [worker[p] EXCEPT !.at = "total", !.shown = Meter!Shown]
      <4>1. worker' = [worker EXCEPT ![p] = r] /\ r.at # "idle"
        BY <3>2, <3>7 DEF Meter!Observe
      <4> QED
        BY <4>1
    <3>8. ASSUME Meter!List(p)
          PROVE  \E r : r.at # "idle" /\ worker' = [worker EXCEPT ![p] = r]
      BY <3>1, <3>4, <3>8 DEF Meter!List
    <3>9. ASSUME Meter!ListFails(p) \/ Meter!Total(p) \/ Meter!Pause(p)
          PROVE  \/ Meter!Rest(p)
                 \/ \E r : r.at # "idle" /\ worker' = [worker EXCEPT ![p] = r]
      BY <3>1, <3>9 DEF Meter!ListFails, Meter!AfterError, Meter!Total, Meter!Pause
    <3> QED
      BY <1>2, <3>3, <3>5, <3>6, <3>7, <3>8, <3>9 DEF Meter!Step
  <2> QED
    BY <1>1, <2>1
<1>3. ASSUME NEW p \in Procs, Meter!ImportFails(p) \/ Meter!CallFails(p) \/ Meter!Crash(p)
      PROVE  Forgotten'
  <2>1. CASE Meter!ImportFails(p)
    <3> DEFINE r == [Meter!Idle EXCEPT !.at = Meter!AfterError]
    <3>1. worker' = [worker EXCEPT ![p] = r] /\ r.at # "idle"
      BY <2>1 DEF Meter!ImportFails, Meter!Enforce, Meter!AfterError, Meter!Idle
    <3> QED
      BY <1>1, <3>1
  <2>2. CASE Meter!CallFails(p) \/ Meter!Crash(p)
    BY <1>1, <2>2 DEF Meter!CallFails, Meter!Crash
  <2> QED
    BY <1>3, <2>1, <2>2
<1>4. ASSUME worker' = worker PROVE Forgotten'
  BY <1>4
<1>5. \/ worker' = worker
      \/ \E p \in Procs : \/ Meter!Step(p)
                            \/ Meter!ImportFails(p) \/ Meter!CallFails(p) \/ Meter!Crash(p)
  BY DEF Meter!Next, Meter!Tick, Meter!Resize, Meter!Stop, Meter!Access, Meter!Expire,
         Meter!vars
<1> QED
  BY <1>2, <1>3, <1>4, <1>5

\* The rows of the windows, the cursor, the workers and the counters keep their
\* types.  Nothing is assumed of the quota, or of how an unusable claimedAt reads.
THEOREM UsageTyped ==
  ASSUME MeterTime \in Nat, MeterChanges \in Nat, MeterFaults \in Nat
  PROVE  Meter!Spec => []Meter!TypeOK
<1>1. Meter!Init => Counted /\ Forgotten
  BY DEF Meter!Init, Counted, Forgotten
<1>2. UsageInductive /\ Counted /\ Forgotten /\ [Meter!Next]_Meter!vars
      => Counted' /\ Forgotten'
  BY CountedStep, ForgottenStep DEF UsageInductive
<1>3. UsageInductive /\ Counted /\ Forgotten => Meter!TypeOK
  BY DEF UsageInductive, Closed, Within, Counted, Forgotten, Meter!TypeOK, Meter!Times,
         Meter!Idle
<1> QED
  BY UsageInductiveHolds, <1>1, <1>2, <1>3, PTL DEF Meter!Spec

-----------------------------------------------------------------------------
(* TerminalReplay: the invariant.                                          *)

Kinds  == {"output", "event"}
Chunks == [session : Nat, from : Int, to : Int, cached : BOOLEAN]
Metas  == [session : Nat, earliest : Int, latest : Int]
Links  == [phase : {"none", "asked", "open"}, meta : Metas, stale : BOOLEAN, after : Int,
           reset : BOOLEAN]

\* The fields of the page and of its place, whatever they hold.
State(s) == s = [session |-> s.session, last |-> s.last, marks |-> s.marks]
Shape(p) ==
  p = [seen |-> p.seen, rendered |-> p.rendered, state |-> p.state, pending |-> p.pending,
       unparsed |-> p.unparsed, failed |-> p.failed]
Paged ==
  /\ Shape(page) /\ State(page.state) /\ State(place)

ReplayTyped ==
  /\ journal \in [Replay!Sessions -> [events : Seq(Kinds), earliest : Int]]
  /\ sessions \in Nat /\ current \in 0 .. ReplaySessions
  /\ cached \in Metas /\ link \in Links
  /\ memory \in [session : Nat, chunks : Seq(Chunks)] /\ screen \in Seq(Chunks)

\* A connection is to a session of the Supervisor; the page knows it once it is
\* open, and the replay begins where the page has stopped, unless it begins anew.
Linked ==
  /\ link.phase # "none" => link.meta.session \in Replay!Sessions
  /\ link.phase = "asked" => current # 0
  /\ link.phase = "asked" /\ ~link.reset => link.after = page.seen
  /\ link.phase = "open" => link.after = page.seen /\ page.state.session = link.meta.session

\* The cache is of one session.
Remembers == \A i \in 1 .. Len(memory.chunks) : memory.chunks[i].session = memory.session

\* The screen is of the session of the page, up to where the page has got.
Drawn ==
  /\ screen # <<>> => /\ screen[1].session = page.state.session /\ page.state.session # 0
                      /\ Replay!Last(screen).to = page.seen
  /\ \A i \in 2 .. Len(screen) : screen[i].cached /\ screen[i].session = screen[1].session

ReplayInductive == ReplayTyped /\ Paged /\ Linked /\ Remembers /\ Drawn

-----------------------------------------------------------------------------
(* What the operators of the page and of the server give.                  *)

\* A replay begins where the page has stopped, or the page begins anew.
LEMMA ReconciledIs ==
  ASSUME NEW meta \in Metas, NEW stale \in BOOLEAN
  PROVE  /\ Replay!Reconciled(meta, stale) \in Links
         /\ Replay!Reconciled(meta, stale).phase = "asked"
         /\ Replay!Reconciled(meta, stale).meta = meta
         /\ ~Replay!Reconciled(meta, stale).reset
               => Replay!Reconciled(meta, stale).after = page.seen
<1> DEFINE forced == page.state.session # 0 /\ page.state.session # meta.session
<1> DEFINE r == Replay!reconcileTerminalReplayCursor(page.seen, meta, forced)
<1>1. r.after \in Int /\ r.reset \in BOOLEAN /\ (~r.reset => r.after = page.seen)
  <2> DEFINE earliestAfter == IF meta.earliest > 0 THEN meta.earliest - 1 ELSE 0
  <2> DEFINE valid == ~forced /\ page.seen \in earliestAfter .. meta.latest
  <2>1. earliestAfter \in Int
    BY DEF Metas
  <2>2. r = [after |-> IF valid THEN page.seen ELSE earliestAfter, reset |-> ~valid]
    BY DEF Replay!reconcileTerminalReplayCursor
  <2>3. valid => page.seen \in Int
    OBVIOUS
  <2> HIDE DEF earliestAfter, valid, r
  <2>4. r.after = (IF valid THEN page.seen ELSE earliestAfter) /\ r.reset = ~valid
    BY <2>2
  <2> QED
    BY <2>1, <2>3, <2>4
<1>2. Replay!Reconciled(meta, stale)
      = [phase |-> "asked", meta |-> meta, stale |-> stale, after |-> r.after, reset |-> r.reset]
  BY DEF Replay!Reconciled
<1> HIDE DEF r
<1> QED
  BY <1>1, <1>2 DEF Links

LEMMA MetaIs ==
  ASSUME ReplayTyped, NEW s \in Replay!Sessions
  PROVE  Replay!Meta(s) \in Metas /\ Replay!Meta(s).session = s
<1>1. /\ journal[s].events \in Seq(Kinds) /\ journal[s].earliest \in Int
  BY DEF ReplayTyped
<1>2. Replay!Latest(s) \in Int /\ s \in Nat
  BY <1>1 DEF Replay!Latest, Replay!Sessions
<1> QED
  BY <1>1, <1>2 DEF Replay!Meta, Metas

\* A chunk makes the last one longer, or is the new last one.
LEMMA ExtendedIs ==
  ASSUME NEW c \in Seq(Chunks), NEW k \in Chunks
  PROVE  /\ Replay!Extended(c, k) \in Seq(Chunks) /\ Replay!Extended(c, k) # <<>>
         /\ Len(Replay!Extended(c, k)) \in Nat
         /\ Replay!Extended(c, k)[Len(Replay!Extended(c, k))].to = k.to
         /\ \/ /\ c # <<>> /\ Replay!Last(c).session = k.session /\ Replay!Last(c).to + 1 = k.from
               /\ Len(Replay!Extended(c, k)) = Len(c)
               /\ \A i \in 1 .. Len(c) : /\ Replay!Extended(c, k)[i].session = c[i].session
                                         /\ Replay!Extended(c, k)[i].cached = c[i].cached
            \/ /\ ~(/\ c # <<>> /\ Replay!Last(c).session = k.session
                 /\ Replay!Last(c).to + 1 = k.from)
               /\ Len(Replay!Extended(c, k)) = Len(c) + 1 /\ Replay!Extended(c, k)[Len(c) + 1] = k
               /\ \A i \in 1 .. Len(c) : Replay!Extended(c, k)[i] = c[i]
<1>1. CASE c # <<>> /\ Replay!Last(c).session = k.session /\ Replay!Last(c).to + 1 = k.from
  <2> DEFINE last == [c[Len(c)] EXCEPT !.to = k.to]
  <2> DEFINE d == [c EXCEPT ![Len(c)] = last]
  <2>1. Replay!Extended(c, k) = d
    BY <1>1 DEF Replay!Extended
  <2>2. Len(c) \in Nat /\ Len(c) \in 1 .. Len(c) /\ c[Len(c)] \in Chunks
    BY <1>1
  <2>3. /\ last \in Chunks /\ last.to = k.to /\ last.session = c[Len(c)].session
        /\ last.cached = c[Len(c)].cached
    BY <2>2 DEF Chunks
  <2> HIDE DEF last
  <2>4. d \in Seq(Chunks) /\ Len(d) = Len(c) /\ d[Len(c)] = last
    BY <2>2, <2>3
  <2>5. \A i \in 1 .. Len(c) : i # Len(c) => d[i] = c[i]
    BY <2>2
  <2> HIDE DEF d
  <2> QED
    BY <1>1, <2>1, <2>2, <2>3, <2>4, <2>5
<1>2. CASE ~(c # <<>> /\ Replay!Last(c).session = k.session /\ Replay!Last(c).to + 1 = k.from)
  <2>1. Replay!Extended(c, k) = Append(c, k)
    BY <1>2, Zenon DEF Replay!Extended
  <2> HIDE DEF Chunks
  <2>2. /\ Append(c, k) \in Seq(Chunks) /\ Len(Append(c, k)) = Len(c) + 1 /\ Len(c) \in Nat
        /\ \A i \in 1 .. Len(c) : Append(c, k)[i] = c[i]
        /\ Append(c, k)[Len(c) + 1] = k
    OBVIOUS
  <2> QED
    BY <1>2, <2>1, <2>2
<1> QED
  BY <1>1, <1>2

\* What a restored screen shows, or that it is empty.
LEMMA UsableIs ==
  ASSUME ReplayTyped, Remembers, NEW session, NEW seq
  PROVE  /\ Replay!usable(session, seq) \in Seq(Chunks)
         /\ Replay!usable(session, seq) # <<>>
              => /\ session # 0 /\ Replay!usable(session, seq)[1].session = session
                 /\ Replay!Last(Replay!usable(session, seq)).to = seq
         /\ \A i \in 2 .. Len(Replay!usable(session, seq)) :
              /\ Replay!usable(session, seq)[i].cached
              /\ Replay!usable(session, seq)[i].session = Replay!usable(session, seq)[1].session
<1>1. CASE session # 0 /\ memory.session = session /\ memory.chunks # <<>>
           /\ Replay!Last(memory.chunks).to = seq
  <2> DEFINE u == [i \in DOMAIN memory.chunks |-> [memory.chunks[i] EXCEPT !.cached = TRUE]]
  <2>1. Replay!usable(session, seq) = u
    BY <1>1 DEF Replay!usable
  <2>2. /\ memory.chunks \in Seq(Chunks) /\ Len(memory.chunks) \in Nat
        /\ DOMAIN memory.chunks = 1 .. Len(memory.chunks)
        /\ Len(memory.chunks) \in 1 .. Len(memory.chunks) /\ 1 \in 1 .. Len(memory.chunks)
    BY <1>1 DEF ReplayTyped
  <2>3. ASSUME NEW i \in 1 .. Len(memory.chunks)
        PROVE  u[i] \in Chunks /\ u[i].cached /\ u[i].session = session
               /\ u[i].to = memory.chunks[i].to
    <3>1. memory.chunks[i] \in Chunks /\ memory.chunks[i].session = session
      BY <1>1, <2>2 DEF Remembers
    <3>2. u[i] = [memory.chunks[i] EXCEPT !.cached = TRUE]
      BY <2>2
    <3> QED
      BY <3>1, <3>2 DEF Chunks
  <2>4. u \in Seq(Chunks) /\ Len(u) = Len(memory.chunks)
    <3>1. DOMAIN u = 1 .. Len(memory.chunks)
      BY <2>2
    <3> HIDE DEF u
    <3>2. u \in [1 .. Len(memory.chunks) -> Chunks]
      <4>1. u = [i \in 1 .. Len(memory.chunks) |-> u[i]]
        BY <2>2 DEF u
      <4> QED
        BY <4>1, <2>3
    <3> QED
      BY <2>2, <3>1, <3>2
  <2> HIDE DEF u
  <2> QED
    BY <1>1, <2>1, <2>2, <2>3, <2>4 DEF Replay!Last
<1>2. CASE ~(session # 0 /\ memory.session = session /\ memory.chunks # <<>>
             /\ Replay!Last(memory.chunks).to = seq)
  <2>1. Replay!usable(session, seq) = <<>>
    BY <1>2 DEF Replay!usable
  <2> QED
    BY <2>1
<1> QED
  BY <1>1, <1>2

\* What is remembered of a chunk is still of one session.
LEMMA RememberedIs ==
  ASSUME ReplayTyped, Remembers, NEW k \in Chunks, NEW m \in Replay!Remembered(k)
  PROVE  /\ m \in [session : Nat, chunks : Seq(Chunks)]
         /\ \A i \in 1 .. Len(m.chunks) : m.chunks[i].session = m.session
<1>1. memory \in [session : Nat, chunks : Seq(Chunks)]
  BY DEF ReplayTyped
<1>2. CASE m = memory
  BY <1>1, <1>2 DEF Remembers
<1>3. CASE m = Replay!NoMemory
  <2>1. m.chunks = <<>> /\ m.session = 0 /\ <<>> \in Seq(Chunks)
    BY <1>3 DEF Replay!NoMemory
  <2> QED
    BY <1>3, <2>1 DEF Replay!NoMemory
<1>4. CASE memory.session = k.session /\ m = [memory EXCEPT !.chunks = Replay!Extended(@, k)]
  <2> DEFINE d == Replay!Extended(memory.chunks, k)
  <2>1. m = [memory EXCEPT !.chunks = d]
    BY <1>4
  <2>2. memory.chunks \in Seq(Chunks) /\ Len(memory.chunks) \in Nat
    BY <1>1
  <2>3. d \in Seq(Chunks)
    BY <2>2, ExtendedIs
  <2>4. \A i \in 1 .. Len(d) : d[i].session = memory.session
    <3>1. \A i \in 1 .. Len(memory.chunks) : memory.chunks[i].session = memory.session
      BY DEF Remembers
    <3>2. CASE /\ Len(d) = Len(memory.chunks)
               /\ \A i \in 1 .. Len(memory.chunks) : d[i].session = memory.chunks[i].session
      BY <3>1, <3>2
    <3>3. CASE /\ Len(d) = Len(memory.chunks) + 1 /\ d[Len(memory.chunks) + 1] = k
               /\ \A i \in 1 .. Len(memory.chunks) : d[i] = memory.chunks[i]
      <4>1. \A i \in 1 .. Len(d) : i \in 1 .. Len(memory.chunks) \/ i = Len(memory.chunks) + 1
        BY <2>2, <3>3
      <4> QED
        BY <1>4, <3>1, <3>3, <4>1
    <3> QED
      BY <2>2, <3>2, <3>3, ExtendedIs
  <2> HIDE DEF d
  <2>5. m.chunks = d /\ m.session = memory.session
    BY <1>1, <2>1
  <2> QED
    BY <1>1, <2>1, <2>3, <2>4, <2>5
<1> QED
  BY <1>2, <1>3, <1>4 DEF Replay!Remembered
-----------------------------------------------------------------------------
(* The steps.                                                              *)

\* Each step of the page, as far as the screen depends on it.
LEMMA PageMoves ==
  ASSUME Paged
  PROVE  /\ Replay!Refused => page'.seen = page.seen /\ page'.state = page.state /\ Shape(page')
         /\ Replay!Type \/ Replay!Abandon
               => page'.seen = page.seen /\ page'.state = page.state /\ Shape(page')
         /\ Replay!Remount => page'.seen = page.seen /\ page'.state = page.state /\ Shape(page')
<1>1. Replay!Refused => page'.seen = page.seen /\ page'.state = page.state /\ Shape(page')
  BY DEF Paged, Shape, Replay!Refused
<1>2. Replay!Type \/ Replay!Abandon
        => page'.seen = page.seen /\ page'.state = page.state /\ Shape(page')
  BY DEF Paged, Shape, Replay!Type, Replay!Abandon
<1>3. Replay!Remount => page'.seen = page.seen /\ page'.state = page.state /\ Shape(page')
  BY DEF Paged, Shape, Replay!Remount
<1> QED
  BY <1>1, <1>2, <1>3

LEMMA WriteMoves ==
  ASSUME Paged, NEW first, NEW to, Replay!writeTerminalOutput(first, to)
  PROVE  page'.seen = to /\ page'.state = page.state /\ Shape(page')
BY DEF Paged, Shape, Replay!writeTerminalOutput

\* A place that is begun anew, or gets a bookmark, is of the same session.
LEMMA RememberIs ==
  ASSUME NEW state, State(state), NEW m
  PROVE  /\ Replay!rememberTerminalCommand(state, m).session = state.session
         /\ State(Replay!rememberTerminalCommand(state, m))
<1>1. PICK l, k : Replay!rememberTerminalCommand(state, m) = [state EXCEPT !.last = l, !.marks = k]
  <2> DEFINE all == Append(state.marks, m)
  <2> DEFINE l == IF m > state.last THEN m ELSE state.last
  <2> DEFINE k == IF Len(all) > CommandLimit THEN Tail(all) ELSE all
  <2>1. Replay!rememberTerminalCommand(state, m) = [state EXCEPT !.last = l, !.marks = k]
    BY Zenon DEF Replay!rememberTerminalCommand
  <2> QED
    BY <2>1, Zenon
<1> QED
  BY <1>1 DEF State

LEMMA SubmitMoves ==
  ASSUME Paged, Replay!Submit
  PROVE  /\ page'.seen = page.seen /\ page'.state.session = page.state.session
         /\ Shape(page') /\ State(page'.state) /\ State(place')
<1> DEFINE s == Replay!rememberTerminalCommand(page.state, page.pending)
<1>1. page' = [page EXCEPT !.pending = Replay!NoMark, !.state = s]
  BY DEF Replay!Submit
<1>2. s.session = page.state.session /\ State(s)
  BY RememberIs DEF Paged
<1> HIDE DEF s
<1>3. page'.seen = page.seen /\ page'.state = s /\ Shape(page')
  BY <1>1 DEF Paged, Shape
<1> QED
  BY <1>2, <1>3 DEF Replay!Submit

LEMMA ResetIs ==
  ASSUME NEW session, NEW seq
  PROVE  /\ Replay!resetTerminalReplay(session, seq).session = session
         /\ State(Replay!resetTerminalReplay(session, seq))
BY DEF Replay!resetTerminalReplay, State

LEMMA ClearMoves ==
  ASSUME Paged, Replay!clearTerminal
  PROVE  /\ page'.seen = page.seen /\ page'.state.session = page.state.session
         /\ Shape(page') /\ State(page'.state) /\ State(place')
<1> DEFINE s == Replay!resetTerminalReplay(page.state.session, page.seen)
<1>1. page' = [page EXCEPT !.state = s]
  BY DEF Replay!clearTerminal
<1>2. s.session = page.state.session /\ State(s)
  BY ResetIs
<1> HIDE DEF s
<1>3. page'.seen = page.seen /\ page'.state = s /\ Shape(page')
  BY <1>1 DEF Paged, Shape
<1> QED
  BY <1>2, <1>3 DEF Replay!clearTerminal

LEMMA ReadyMoves ==
  ASSUME ReplayTyped, Paged, Replay!Ready
  PROVE  /\ page'.seen = link.after /\ page'.state.session = link.meta.session
         /\ Shape(page') /\ State(page'.state) /\ State(place')
         /\ ~Replay!replayReset => page.state.session \in {0, link.meta.session}
<1> DEFINE session == link.meta.session
<1> DEFINE s == IF Replay!replayReset THEN Replay!resetTerminalReplay(session, link.after)
                ELSE [page.state EXCEPT !.session = session]
<1> DEFINE r == IF Replay!replayReset THEN link.after ELSE page.rendered
<1>1. page' = [page EXCEPT !.seen = link.after, !.state = s, !.rendered = r] /\ place' = s
  BY DEF Replay!Ready
<1>2. s.session = session /\ State(s)
  <2>1. CASE Replay!replayReset
    BY <2>1, ResetIs
  <2>2. CASE ~Replay!replayReset
    BY <2>2 DEF Paged, State
  <2> QED
    BY <2>1, <2>2
<1> HIDE DEF s, r
<1>3. page'.seen = link.after /\ page'.state = s /\ Shape(page')
  BY <1>1 DEF Paged, Shape
<1> QED
  BY <1>1, <1>2, <1>3 DEF Replay!replayReset, Replay!terminalChanged

LEMMA ParsedMoves ==
  ASSUME Paged, Replay!Parsed
  PROVE  /\ page'.seen = page.seen /\ page'.state.session = page.state.session
         /\ Shape(page)' /\ State(page.state)'
BY DEF Paged, Shape, Replay!Parsed, State
LEMMA OpenedIs ==
  ASSUME NEW state, State(state), Replay!Opened(state)
  PROVE  page'.state.session = state.session /\ State(page'.state) /\ Shape(page')
BY DEF Shape, State, Replay!Opened, Replay!parseTerminalReplayState

\* A connection is asked for with what is known of its session.
LEMMA AskMoves ==
  ASSUME ReplaySessions \in Nat, ReplayTyped, Linked,
         Replay!AskNew \/ Replay!AskFresh \/ Replay!AskCached \/ Replay!RetryWithoutCache
  PROVE  /\ link' \in Links /\ link'.phase = "asked" /\ link'.meta.session \in Replay!Sessions
         /\ ~link'.reset => link'.after = page.seen
         /\ sessions' \in Nat /\ current' \in Replay!Sessions /\ cached' \in Metas
         /\ UNCHANGED <<journal, page, place, memory, screen>>
<1>t. sessions \in Nat /\ current \in 0 .. ReplaySessions /\ cached \in Metas
  BY DEF ReplayTyped
<1>a. ASSUME NEW meta \in Metas, NEW stale \in BOOLEAN, meta.session \in Replay!Sessions,
             link' = Replay!Reconciled(meta, stale)
      PROVE  /\ link' \in Links /\ link'.phase = "asked" /\ link'.meta.session \in Replay!Sessions
             /\ ~link'.reset => link'.after = page.seen
  BY <1>a, ReconciledIs
<1>n. Replay!NoMeta \in Metas
  BY DEF Replay!NoMeta, Metas
<1>1. CASE Replay!AskNew
  <2>1. sessions + 1 \in Replay!Sessions /\ sessions' \in Nat /\ current' \in Replay!Sessions
    BY <1>1, <1>t DEF Replay!AskNew, Replay!Sessions
  <2> QED
    BY <1>1, <1>t, <1>a, <2>1, MetaIs DEF Replay!AskNew
<1>2. CASE Replay!AskFresh
  <2>1. current \in Replay!Sessions
    BY <1>2, <1>t DEF Replay!AskFresh, Replay!Sessions
  <2> QED
    BY <1>2, <1>t, <1>a, <2>1, MetaIs DEF Replay!AskFresh, Replay!supervisor
<1>3. CASE Replay!AskCached
  <2>1. current \in Replay!Sessions /\ cached.session = current
    BY <1>3, <1>t DEF Replay!AskCached, Replay!Sessions
  <2> QED
    BY <1>3, <1>t, <1>a, <2>1 DEF Replay!AskCached, Replay!supervisor
<1>4. CASE Replay!RetryWithoutCache
  <2>1. current \in Replay!Sessions
    BY <1>4, <1>t DEF Replay!RetryWithoutCache, Replay!Sessions, Linked
  <2> QED
    BY <1>4, <1>t, <1>n, <1>a, <2>1, MetaIs DEF Replay!RetryWithoutCache, Replay!supervisor
<1> QED
  BY <1>1, <1>2, <1>3, <1>4

LEMMA TypeKept ==
  ASSUME ReplaySessions \in Nat, ReplayTyped, journal' = journal, sessions' = sessions,
         current' \in {current, 0}, cached' = cached,
         link' \in {link, Replay!NoLink}, memory' \in {memory, Replay!NoMemory},
         screen' \in {screen, <<>>}
  PROVE  ReplayTyped'
<1>1. Replay!NoLink \in Links
  BY DEF Replay!NoLink, Replay!NoMeta, Links, Metas
<1>2. Replay!NoMemory \in [session : Nat, chunks : Seq(Chunks)] /\ <<>> \in Seq(Chunks)
  <2>1. <<>> \in Seq(Chunks)
    OBVIOUS
  <2> QED
    BY <2>1 DEF Replay!NoMemory
<1>3. /\ journal \in [Replay!Sessions -> [events : Seq(Kinds), earliest : Int]]
      /\ sessions \in Nat /\ current \in 0 .. ReplaySessions /\ cached \in Metas /\ link \in Links
      /\ memory \in [session : Nat, chunks : Seq(Chunks)] /\ screen \in Seq(Chunks)
  BY DEF ReplayTyped
<1>4. current' \in 0 .. ReplaySessions
  BY <1>3
<1> HIDE DEF Links, Metas, Chunks
<1> QED
  BY <1>1, <1>2, <1>3, <1>4 DEF ReplayTyped

\* What may always be dropped: the connection, the screen and the cache.
LEMMA Frame ==
  ASSUME ReplayInductive, ReplayTyped', Paged',
         page'.seen = page.seen, page'.state.session = page.state.session,
         link' = Replay!NoLink \/ UNCHANGED <<link, current>>,
         screen' \in {screen, <<>>}, memory' \in {memory, Replay!NoMemory}
  PROVE  ReplayInductive'
<1>1. Linked /\ Remembers /\ Drawn
  BY DEF ReplayInductive
<1>2. Linked'
  <2>1. Replay!NoLink.phase = "none"
    BY DEF Replay!NoLink
  <2> QED
    BY <1>1, <2>1 DEF Linked
<1>3. Remembers'
  <2>1. Len(Replay!NoMemory.chunks) = 0
    BY DEF Replay!NoMemory
  <2> QED
    BY <1>1, <2>1 DEF Remembers
<1>4. Drawn'
  <2>1. CASE screen' = <<>>
    BY <2>1 DEF Drawn
  <2>2. CASE screen' = screen
    BY <1>1, <2>2 DEF Drawn, Replay!Last
  <2> QED
    BY <2>1, <2>2
<1> QED
  BY <1>2, <1>3, <1>4 DEF ReplayInductive

\* A frame carries on where the screen ends.
LEMMA Written ==
  ASSUME ReplayInductive, link.phase = "open", NEW to \in Int, link' = [link EXCEPT !.after = to],
         Replay!writeTerminalOutput(link.after + 1, to),
         UNCHANGED <<Replay!supervisor, cached, place>>
  PROVE  ReplayInductive'
<1> DEFINE k == [session |-> link.meta.session, from |-> link.after + 1, to |-> to,
                 cached |-> FALSE]
<1>t. ReplayTyped /\ Paged /\ Linked /\ Remembers /\ Drawn
  BY DEF ReplayInductive
<1>1. k \in Chunks /\ k.session = link.meta.session /\ k.from = link.after + 1 /\ k.to = to
  BY <1>t DEF ReplayTyped, Links, Metas, Chunks
<1>2. screen' = Replay!Extended(screen, k) /\ memory' \in Replay!Remembered(k)
  BY DEF Replay!writeTerminalOutput
<1> HIDE DEF k
<1>3. page'.seen = to /\ page'.state = page.state /\ Shape(page')
  BY <1>t, WriteMoves
<1>4. link' \in Links /\ link'.phase = "open" /\ link'.after = to /\ link'.meta = link.meta
  BY <1>t DEF ReplayTyped, Links
<1>5. ReplayTyped'
  BY <1>t, <1>1, <1>2, <1>4, ExtendedIs, RememberedIs DEF ReplayTyped, Replay!supervisor
<1>6. Paged'
  BY <1>t, <1>3 DEF Paged
<1>7. Linked'
  BY <1>t, <1>3, <1>4 DEF Linked, Replay!supervisor
<1>8. Remembers'
  BY <1>t, <1>1, <1>2, RememberedIs DEF Remembers
<1>9. Drawn'
  <2>1. screen \in Seq(Chunks) /\ Len(screen) \in Nat
    BY <1>t DEF ReplayTyped
  <2>2. page.state.session = k.session /\ k.session # 0 /\ page.seen + 1 = k.from
    BY <1>t, <1>1 DEF Linked, Replay!Sessions
  <2>3. CASE screen = <<>>
    <3>1. Len(screen') = 1 /\ screen'[1] = k /\ screen' # <<>>
      <4>1. Len(screen) = 0 /\ Len(screen) + 1 = 1
        BY <2>3
      <4>2. Len(screen') = Len(screen) + 1 /\ screen'[Len(screen) + 1] = k /\ screen' # <<>>
        BY <1>1, <1>2, <2>1, <2>3, ExtendedIs
      <4> QED
        BY <4>1, <4>2
    <3> QED
      BY <1>1, <1>3, <2>2, <3>1 DEF Drawn, Replay!Last
  <2>4. CASE screen # <<>>
    <3>1. Len(screen) \in 1 .. Len(screen) /\ 1 \in 1 .. Len(screen)
      BY <2>1, <2>4
    <3>2. Replay!Last(screen).session = k.session /\ Replay!Last(screen).to + 1 = k.from
      BY <1>t, <2>1, <2>2, <2>4, <3>1 DEF Drawn, Replay!Last
    <3>3. /\ Len(screen') = Len(screen) /\ screen'[Len(screen')].to = k.to
          /\ \A i \in 1 .. Len(screen) : /\ screen'[i].session = screen[i].session
                                         /\ screen'[i].cached = screen[i].cached
      BY <1>1, <1>2, <2>1, <2>4, <3>2, ExtendedIs
    <3> QED
      BY <1>t, <1>1, <1>3, <2>1, <2>4, <3>1, <3>3 DEF Drawn, Replay!Last
  <2> QED
    BY <2>3, <2>4
<1> QED
  BY <1>5, <1>6, <1>7, <1>8, <1>9 DEF ReplayInductive

LEMMA ReplayInit == ASSUME ReplaySessions \in Nat, Replay!Init PROVE ReplayInductive
<1>1. ReplayTyped
  <2>1. journal \in [Replay!Sessions -> [events : Seq(Kinds), earliest : Int]]
    <3>1. <<>> \in Seq(Kinds)
      OBVIOUS
    <3> QED
      BY <3>1 DEF Replay!Init
  <2>2. cached \in Metas /\ link \in Links
    BY DEF Replay!Init, Replay!NoMeta, Replay!NoLink, Metas, Links
  <2>3. memory \in [session : Nat, chunks : Seq(Chunks)] /\ screen \in Seq(Chunks)
    <3>1. <<>> \in Seq(Chunks)
      OBVIOUS
    <3> QED
      BY <3>1 DEF Replay!Init, Replay!NoMemory
  <2> QED
    BY <2>1, <2>2, <2>3 DEF ReplayTyped, Replay!Init
<1>2. Paged
  BY DEF Replay!Init, Paged, Shape, State, Replay!EmptyState
<1>3. Linked
  BY DEF Replay!Init, Linked, Replay!NoLink
<1>4. Remembers
  <2>1. Len(memory.chunks) = 0
    BY DEF Replay!Init, Replay!NoMemory
  <2> QED
    BY <2>1 DEF Remembers
<1>5. Drawn
  BY DEF Replay!Init, Drawn
<1> QED
  BY <1>1, <1>2, <1>3, <1>4, <1>5 DEF ReplayInductive

LEMMA ReplayNext ==
  ASSUME ReplaySessions \in Nat, ReplayInductive, [Replay!Next]_Replay!vars
  PROVE  ReplayInductive'
<1>t. ReplayTyped /\ Paged /\ Linked /\ Remembers /\ Drawn
  BY DEF ReplayInductive
<1>j. /\ journal \in [Replay!Sessions -> [events : Seq(Kinds), earliest : Int]]
      /\ current \in 0 .. ReplaySessions /\ sessions \in Nat
  BY <1>t DEF ReplayTyped
<1>g. ASSUME journal' \in [Replay!Sessions -> [events : Seq(Kinds), earliest : Int]],
             UNCHANGED <<current, sessions, cached, link, page, place, memory, screen>>
      PROVE  ReplayInductive'
  <2>1. ReplayTyped' /\ Paged'
    BY <1>t, <1>g DEF ReplayTyped, Paged
  <2> QED
    BY <1>g, <2>1, Frame
<1>k. ASSUME UNCHANGED <<journal, sessions, cached>>,
             (link' = Replay!NoLink /\ current' \in {current, 0}) \/ UNCHANGED <<link, current>>,
             page'.seen = page.seen, page'.state.session = page.state.session,
             Shape(page'), State(page'.state), State(place'),
             screen' \in {screen, <<>>}, memory' \in {memory, Replay!NoMemory}
      PROVE  ReplayInductive'
  <2>1. ReplayTyped' /\ Paged'
    BY <1>t, <1>k, TypeKept DEF Paged
  <2> QED
    BY <1>k, <2>1, Frame
<1>s. State(page.state) /\ State(place) /\ Shape(page)
  BY <1>t DEF Paged
<1>r. ASSUME UNCHANGED <<journal, current, sessions, cached>>, link' = Replay!NoLink,
             Shape(page'), State(page'.state), State(place'),
             screen' = <<>> \/ screen' = Replay!usable(page'.state.session, page'.seen),
             memory' \in {memory, Replay!NoMemory}
      PROVE  ReplayInductive'
  <2>1. /\ screen' \in Seq(Chunks)
        /\ screen' # <<>> => /\ page'.state.session # 0 /\ screen'[1].session = page'.state.session
                             /\ Replay!Last(screen').to = page'.seen
        /\ \A i \in 2 .. Len(screen') :
             screen'[i].cached /\ screen'[i].session = screen'[1].session
    <3>1. CASE screen' = <<>>
      BY <3>1
    <3>2. CASE screen' = Replay!usable(page'.state.session, page'.seen)
      BY <1>t, <3>2, UsableIs
    <3> QED
      BY <1>r, <3>1, <3>2
  <2>2. Replay!NoLink \in Links /\ Replay!NoLink.phase = "none"
    BY DEF Replay!NoLink, Replay!NoMeta, Links, Metas
  <2>3. memory' \in [session : Nat, chunks : Seq(Chunks)] /\ Remembers'
    <3>1. Replay!NoMemory.chunks = <<>> /\ Replay!NoMemory.session = 0 /\ <<>> \in Seq(Chunks)
      BY DEF Replay!NoMemory
    <3>2. Replay!NoMemory \in [session : Nat, chunks : Seq(Chunks)]
      BY <3>1 DEF Replay!NoMemory
    <3> QED
      BY <1>t, <1>r, <3>1, <3>2 DEF ReplayTyped, Remembers
  <2>4. ReplayTyped'
    BY <1>t, <1>r, <2>1, <2>2, <2>3 DEF ReplayTyped
  <2>5. Paged' /\ Linked' /\ Drawn'
    BY <1>r, <2>1, <2>2 DEF Paged, Linked, Drawn
  <2> QED
    BY <2>3, <2>4, <2>5 DEF ReplayInductive
\* The Supervisor.
<1>1. ASSUME NEW kind \in Kinds, Replay!Happens(kind) PROVE ReplayInductive'
  <2>1. current \in Replay!Sessions
    BY <1>j, <1>1 DEF Replay!Happens, Replay!Sessions
  <2> DEFINE e == Append(journal[current].events, kind)
  <2>2. e \in Seq(Kinds)
    BY <1>j, <2>1
  <2>3. journal' = [journal EXCEPT ![current].events = e]
    BY <1>1 DEF Replay!Happens
  <2> HIDE DEF e
  <2>4. journal' \in [Replay!Sessions -> [events : Seq(Kinds), earliest : Int]]
    BY <1>j, <2>1, <2>2, <2>3
  <2> QED
    BY <1>1, <1>g, <2>4 DEF Replay!Happens
<1>2. ASSUME Replay!Forget PROVE ReplayInductive'
  <2>1. current \in Replay!Sessions
    BY <1>j, <1>2 DEF Replay!Forget, Replay!Sessions
  <2>2. journal' \in [Replay!Sessions -> [events : Seq(Kinds), earliest : Int]]
    BY <1>j, <1>2, <2>1 DEF Replay!Forget
  <2> QED
    BY <1>2, <1>g, <2>2 DEF Replay!Forget
<1>3. ASSUME Replay!Select PROVE ReplayInductive'
  BY <1>3, <1>s, <1>k DEF Replay!Select
\* The server.
<1>4. ASSUME Replay!AskNew \/ Replay!AskFresh \/ Replay!AskCached \/ Replay!RetryWithoutCache
      PROVE ReplayInductive'
  <2>1. /\ link' \in Links /\ link'.phase = "asked" /\ link'.meta.session \in Replay!Sessions
        /\ ~link'.reset => link'.after = page.seen
        /\ sessions' \in Nat /\ current' \in Replay!Sessions /\ cached' \in Metas
        /\ UNCHANGED <<journal, page, place, memory, screen>>
    BY <1>t, <1>4, AskMoves
  <2>2. current' # 0 /\ current' \in 0 .. ReplaySessions
    BY <2>1 DEF Replay!Sessions
  <2>3. ReplayTyped' /\ Paged' /\ Linked' /\ Remembers' /\ Drawn'
    BY <1>t, <2>1, <2>2 DEF ReplayTyped, Paged, Linked, Remembers, Drawn, Replay!Last
  <2> QED
    BY <2>3 DEF ReplayInductive
<1>5. ASSUME Replay!Refused PROVE ReplayInductive'
  BY <1>5, <1>t, <1>s, <1>k, PageMoves DEF Replay!Refused, Replay!supervisor
\* The page.
<1>6. ASSUME Replay!Ready PROVE ReplayInductive'
  <2>1. /\ page'.seen = link.after /\ page'.state.session = link.meta.session
        /\ Shape(page') /\ State(page'.state) /\ State(place')
        /\ ~Replay!replayReset => page.state.session \in {0, link.meta.session}
    BY <1>6, <1>t, ReadyMoves
  <2>2. /\ link' \in Links /\ link'.phase = "open" /\ link'.after = link.after
        /\ link'.meta = link.meta
    BY <1>6, <1>t DEF Replay!Ready, ReplayTyped, Links
  <2>3. /\ link.phase = "asked" /\ cached' \in {cached, link.meta} /\ UNCHANGED Replay!supervisor
        /\ link.meta.session \in Replay!Sessions /\ link.meta \in Metas /\ link.meta.session \in Nat
    BY <1>6, <1>t DEF Replay!Ready, Linked, ReplayTyped, Links, Metas
  <2>4. Linked' /\ Paged'
    BY <1>t, <2>1, <2>2, <2>3 DEF Linked, Paged, Replay!supervisor
  <2>5. CASE Replay!replayReset
    <3>1. screen' = <<>> /\ memory' = [session |-> link.meta.session, chunks |-> <<>>]
      BY <1>6, <2>5 DEF Replay!Ready
    <3>2. Drawn'
      BY <3>1 DEF Drawn
    <3>3. memory'.chunks = <<>> /\ memory'.session = link.meta.session /\ <<>> \in Seq(Chunks)
      BY <3>1
    <3>4. Remembers'
      BY <3>3 DEF Remembers
    <3>5. ReplayTyped'
      BY <1>t, <2>2, <2>3, <3>1, <3>3 DEF ReplayTyped, Replay!supervisor
    <3> QED
      BY <2>4, <3>2, <3>4, <3>5 DEF ReplayInductive
  <2>6. CASE ~Replay!replayReset
    <3>1. UNCHANGED <<screen, memory>> /\ ~link.reset
      BY <1>6, <2>6 DEF Replay!Ready, Replay!replayReset
    <3>2. Drawn'
      BY <1>t, <2>1, <2>3, <2>6, <3>1 DEF Drawn, Linked, Replay!Last
    <3>3. Remembers' /\ ReplayTyped'
      BY <1>t, <2>2, <2>3, <3>1 DEF Remembers, ReplayTyped, Replay!supervisor
    <3> QED
      BY <2>4, <3>2, <3>3 DEF ReplayInductive
  <2> QED
    BY <2>5, <2>6
<1>7. ASSUME Replay!Output PROVE ReplayInductive'
  <2>1. link.phase = "open" /\ link.after = page.seen /\ link.after \in Int
    BY <1>7, <1>t DEF Replay!Output, Linked, ReplayTyped, Links
  <2>2. PICK to \in link.after + 1 .. Replay!Latest(link.meta.session) :
          link' = [link EXCEPT !.after = to] /\ Replay!writeTerminalOutput(link.after + 1, to)
    BY <1>7, <2>1 DEF Replay!Output
  <2>3. to \in Int
    OBVIOUS
  <2> QED
    BY <1>7, <2>1, <2>2, <2>3, Written DEF Replay!Output
<1>8. ASSUME Replay!Event PROVE ReplayInductive'
  <2>1. link.phase = "open" /\ link.after = page.seen /\ link.after \in Int
    BY <1>8, <1>t DEF Replay!Event, Linked, ReplayTyped, Links
  <2>2. /\ link' = [link EXCEPT !.after = link.after + 1]
        /\ Replay!writeTerminalOutput(link.after + 1, link.after + 1)
    BY <1>8, <2>1 DEF Replay!Event
  <2> QED
    BY <1>8, <2>1, <2>2, Written DEF Replay!Event
<1>9. ASSUME Replay!Parsed PROVE ReplayInductive'
  BY <1>9, <1>t, <1>s, <1>k, ParsedMoves DEF Replay!Parsed, Replay!supervisor
<1>10. ASSUME Replay!Persist PROVE ReplayInductive'
  BY <1>10, <1>s, <1>k DEF Replay!Persist, Replay!supervisor
<1>11. ASSUME Replay!Lost PROVE ReplayInductive'
  BY <1>11, <1>s, <1>k DEF Replay!Lost, Replay!supervisor
<1>12. ASSUME Replay!Type \/ Replay!Abandon PROVE ReplayInductive'
  BY <1>12, <1>t, <1>s, <1>k, PageMoves DEF Replay!Type, Replay!Abandon, Replay!supervisor
<1>13. ASSUME Replay!Submit PROVE ReplayInductive'
  BY <1>13, <1>t, <1>k, SubmitMoves DEF Replay!Submit, Replay!supervisor
<1>14. ASSUME Replay!clearTerminal PROVE ReplayInductive'
  BY <1>14, <1>t, <1>k, ClearMoves DEF Replay!clearTerminal, Replay!supervisor
<1>15. ASSUME Replay!Remount PROVE ReplayInductive'
  BY <1>15, <1>t, <1>s, <1>r, PageMoves DEF Replay!Remount, Replay!supervisor
<1>16. ASSUME Replay!Return PROVE ReplayInductive'
  BY <1>16, <1>s, <1>r, OpenedIs DEF Replay!Return, Replay!supervisor
<1>17. ASSUME Replay!Reload PROVE ReplayInductive'
  BY <1>17, <1>s, <1>r, OpenedIs DEF Replay!Reload, Replay!supervisor
<1>18. ASSUME Replay!Evict PROVE ReplayInductive'
  BY <1>18, <1>s, <1>k DEF Replay!Evict, Replay!supervisor
<1>19. ASSUME UNCHANGED Replay!vars PROVE ReplayInductive'
  BY <1>19, <1>s, <1>k DEF Replay!vars, Replay!supervisor
<1> QED
  BY <1>1, <1>2, <1>3, <1>4, <1>5, <1>6, <1>7, <1>8, <1>9, <1>10, <1>11, <1>12, <1>13, <1>14,
     <1>15, <1>16, <1>17, <1>18, <1>19 DEF Replay!Next, Kinds

\* THE INVARIANT.  Through lost, refused and resumed connections, replayed and
\* overtaken frames, edits of the page and reloads, what the browser has cached,
\* stored and drawn stays linked to one session of the journal.
THEOREM ReplayInductiveHolds ==
  ASSUME ReplaySessions \in Nat
  PROVE  Replay!Spec => []ReplayInductive
<1>1. Replay!Init => ReplayInductive
  BY ReplayInit
<1>2. ReplayInductive /\ [Replay!Next]_Replay!vars => ReplayInductive'
  BY ReplayNext
<1> QED
  BY <1>1, <1>2, PTL DEF Replay!Spec

-----------------------------------------------------------------------------
(* The services side by side.                                              *)

\* Every behaviour of the composition is one of each service: the others'
\* steps leave its variables alone.
THEOREM EachServiceIsItself ==
  Spec => Agent!Spec /\ Backup!Spec /\ Egress!Spec /\ Stripe!Spec /\ Meter!Spec /\ Replay!Spec
<1>1. Init => /\ Agent!Init /\ Backup!Init /\ Egress!Init /\ Stripe!Init /\ Meter!Init
              /\ Replay!Init
  BY DEF Init
<1> USE DEF Next, vars
<1>2. [Next]_vars => [Agent!Next]_Agent!vars
  BY DEF agentVars, Agent!vars, Agent!sandbox, Agent!rows, Agent!locks, Agent!local,
         Agent!bounds
<1>3. [Next]_vars => [Backup!Next]_Backup!vars
  BY DEF backupVars, Backup!vars, Backup!sandbox, Backup!policy, Backup!schedule, Backup!bounds
<1>4. [Next]_vars => [Egress!Next]_Egress!vars
  BY DEF egressVars, Egress!vars, Egress!row, Egress!past
<1>5. [Next]_vars => [Stripe!Next]_Stripe!vars
  BY DEF stripeVars, Stripe!vars
<1>6. [Next]_vars => [Meter!Next]_Meter!vars
  BY DEF meterVars, Meter!vars, Meter!usage, Meter!rows
<1>7. [Next]_vars => [Replay!Next]_Replay!vars
  BY DEF replayVars, Replay!vars, Replay!supervisor
<1> QED
  BY <1>1, <1>2, <1>3, <1>4, <1>5, <1>6, <1>7, PTL
  DEF Spec, Agent!Spec, Backup!Spec, Egress!Spec, Stripe!Spec, Meter!Spec, Replay!Spec

\* Every service keeps its types.
THEOREM TypeCorrect == Spec => []TypeOK
<1>1. Agent!Spec => []Agent!TypeOK
  BY ServicesAssumption, Agent!TypeCorrect
<1>2. Backup!Spec => []Backup!TypeOK
  BY ServicesAssumption, Backup!TypeCorrect DEF Backup!Bounds
<1>3. Egress!Spec => []Egress!TypeOK
  BY ServicesAssumption, Egress!TypeCorrect
<1>4. Stripe!Spec => []Stripe!TypeOK
  <2>1. StripeInductive => Stripe!TypeOK
    BY DEF StripeInductive
  <2>2. Stripe!Spec => []StripeInductive
    BY ServicesAssumption, StripeInductiveHolds
  <2> QED
    BY <2>1, <2>2, PTL
<1>5. Meter!Spec => []Meter!TypeOK
  BY ServicesAssumption, UsageTyped
<1>6. /\ Agent!TypeOK /\ Backup!TypeOK /\ Egress!TypeOK /\ Stripe!TypeOK /\ Meter!TypeOK
      => TypeOK
  BY DEF TypeOK
<1> QED
  BY EachServiceIsItself, <1>1, <1>2, <1>3, <1>4, <1>5, <1>6, PTL

\* No marking binds a source that its process has neither found in the file nor put
\* there, whatever is replaced beside it.
THEOREM BoundWasInstalled == Spec => BindsWhatWasInstalled
<1>1. Agent!Spec => Agent!BindsWhatWasInstalled
  BY ServicesAssumption, Agent!BoundWasInstalled
<1>2. Spec => Agent!BindsWhatWasInstalled
  BY EachServiceIsItself, <1>1, PTL
<1> QED
  BY <1>2 DEF BindsWhatWasInstalled

\* No race for the source makes a pause drop a credential that was never stored.
THEOREM PauseKeepsIt == Spec => PauseKeepsCredential
<1>1. Agent!Spec => Agent!PauseKeepsCredential
  BY ServicesAssumption, Agent!PauseKeepsIt
<1>2. Spec => Agent!PauseKeepsCredential
  BY EachServiceIsItself, <1>1, PTL
<1> QED
  BY <1>2 DEF PauseKeepsCredential

\* The newest backups, as many as the smallest retention so far, can be restored.
THEOREM RecordedStayUsable == Spec => []RecordedUsable
<1>1. Backup!Spec => []Backup!RecordedUsable
  BY ServicesAssumption, Backup!RecordedStayUsable DEF Backup!Bounds
<1>2. Backup!RecordedUsable => RecordedUsable
  BY DEF RecordedUsable
<1> QED
  BY EachServiceIsItself, <1>1, <1>2, PTL

\* Without a failure the session that would be resumed is in the root file system.
THEOREM CoordinatesExist == Spec => []CoordinatesRestored
<1>1. Backup!Spec => []Backup!CoordinatesRestored
  BY ServicesAssumption, Backup!CoordinatesExist DEF Backup!Bounds
<1>2. Backup!CoordinatesRestored => CoordinatesRestored
  BY DEF CoordinatesRestored
<1> QED
  BY EachServiceIsItself, <1>1, <1>2, PTL

\* However many replicas see that a backup is due, one is made.
THEOREM OneBackup == Spec => OneBackupPerDue
<1>1. Backup!Spec => Backup!OneBackupPerDue
  BY ServicesAssumption, Backup!OneBackup DEF Backup!Bounds
<1>2. Spec => Backup!OneBackupPerDue
  BY EachServiceIsItself, <1>1, PTL
<1> QED
  BY <1>2 DEF OneBackupPerDue

\* What is shown active is what the Sandbox enforces, wherever an operation dies.
THEOREM ActiveIsEnforcedEver == Spec => []ActiveIsEnforced
<1>1. Egress!Spec => []Egress!ActiveIsEnforced
  BY ServicesAssumption, Egress!ActiveIsEnforcedEver
<1>2. Egress!ActiveIsEnforced => ActiveIsEnforced
  BY DEF ActiveIsEnforced
<1> QED
  BY EachServiceIsItself, <1>1, <1>2, PTL

\* A secret at Sandbox0 has a row through which it can be removed.
THEOREM SecretsEver == Spec => []SecretsHaveRows
<1>1. Egress!Spec => []Egress!SecretsHaveRows
  BY ServicesAssumption, Egress!SecretsEver
<1>2. Egress!SecretsHaveRows => SecretsHaveRows
  BY DEF SecretsHaveRows
<1> QED
  BY EachServiceIsItself, <1>1, <1>2, PTL

\* A handler that goes on after its claim has run out gives nobody else's claim away.
THEOREM AttemptsApart == Spec => []OneAttempt
<1>1. Stripe!Spec => []StripeInductive
  BY ServicesAssumption, StripeInductiveHolds
<1>2. StripeInductive => OneAttempt
  BY DEF StripeInductive, OneAttempt
<1> QED
  BY EachServiceIsItself, <1>1, <1>2, PTL

\* Replicas that import side by side may move the cursor back, but leave no window
\* before it out.
THEOREM NothingIsPassedOver == Spec => []NothingPassedOver
<1>1. UsageInductive => NothingPassedOver
  BY DEF UsageInductive, NothingPassedOver
<1> QED
  BY EachServiceIsItself, UsageInductiveHolds, <1>1, PTL

\* Whatever a page resumes from, its cache, its store or the terminal left in
\* memory, what writeTerminalOutput draws is of one session, the one the
\* connection is to, and ends where the page will ask to go on.
THEOREM ScreenIsOnePiece == Spec => []ScreenContinues
<1>1. Replay!Spec => []ReplayInductive
  BY ServicesAssumption, ReplayInductiveHolds
<1>2. ReplayInductive => ScreenContinues
  BY DEF ReplayInductive, Linked, Drawn, Replay!ScreenContinues, ScreenContinues
<1> QED
  BY EachServiceIsItself, <1>1, <1>2, PTL
=============================================================================
