--------------------------- MODULE CodexLoginProofs ---------------------------
(***************************************************************************)
(* Device logins keep their inductive invariant, whatever the numbers of   *)
(* replicas, logins and failures; their safety properties follow, and with *)
(* them that the rows keep LoginPromise.                                   *)
(***************************************************************************)
EXTENDS CodexLoginInvariant, TLAPS

Copies == [cursor : 0..2, page : 0..2, asking : BOOLEAN]

RowTypes ==
  /\ status \in [Flows -> Active \cup Terminal \cup {"none"}]
  /\ runtime \in [Flows -> BOOLEAN] /\ due \in [Flows -> BOOLEAN]
  /\ cursor \in [Flows -> 0..2] /\ messages \in [Flows -> SUBSET {1, 2}]
  /\ credential \in Flows \cup {NoFlow}
NativeTypes ==
  /\ box \in [Flows -> {"none", "up", "gone"}] /\ asked \in [Flows -> BOOLEAN]
  /\ emitted \in [Flows -> 0..2] /\ answer \in [Flows -> {"none", "approved", "denied"}]
  /\ overlooked \subseteq Flows
SideTypes ==
  /\ up \in [Replicas -> {"up", "down", "expiring", "failing", "resuming"}]
  /\ start \in [Replicas -> [flow : Flows \cup {NoFlow}, at : {"idle", "provision", "attach", "fail"}]]
  /\ cancel \in [Replicas -> [flow : Flows \cup {NoFlow}, at : {"idle", "mark", "cleanup"}]]
  /\ faults \in Nat
WorkTypes ==
  /\ loop \in [Replicas -> SUBSET Flows] /\ fresh \in [Replicas -> SUBSET Flows]
  /\ at \in [Replicas -> [Flows -> Places]] /\ copy \in [Replicas -> [Flows -> Copies]]

LEMMA TypeParts == TypeOK <=> RowTypes /\ NativeTypes /\ SideTypes /\ WorkTypes
BY DEF TypeOK, RowTypes, NativeTypes, SideTypes, WorkTypes, Copies

-----------------------------------------------------------------------------
(* The steps, by what takes them: Codex and the clock, a start, a          *)
(* cancellation, an operation of a worker, the life of a replica.          *)

Outside(f) == Emit(f) \/ Answer(f) \/ TimePasses(f) \/ BoxExpires(f)
StartStep(r) == Starting(r) \/ ProvisionFails(r) \/ \E f \in Flows : Create(r, f)
CancelStep(r) == Cancelling(r) \/ \E f \in Flows : Cancel(r, f)
WorkStep(r, f) ==
  Advance(r, f) \/ ExpireFirst(r, f) \/ Follow(r, f) \/ RpcTimesOut(r, f) \/ CallFails(r, f)
LifeStep(r) == Crash(r) \/ Booting(r)

LEMMA Steps ==
  ASSUME Next
  PROVE  \/ \E f \in Flows : Outside(f)
         \/ \E r \in Replicas : \/ StartStep(r) \/ CancelStep(r) \/ LifeStep(r)
                                \/ \E f \in Flows : WorkStep(r, f)
BY DEF Next, Outside, StartStep, CancelStep, WorkStep, LifeStep

\* markTerminal ends an active login and leaves every other row alone.
LEMMA Marked ==
  ASSUME RowTypes, NEW f \in Flows, NEW s \in Terminal, MarkTerminal(f, s)
  PROVE  /\ status' \in [Flows -> Active \cup Terminal \cup {"none"}]
         /\ \A g \in Flows : status'[g] = IF g = f /\ IsActive(f) THEN s ELSE status[g]
         /\ status'[f] # "none" <=> status[f] # "none"
         /\ status[f] # "none" => status'[f] \in Terminal
BY DEF RowTypes, MarkTerminal, IsActive, Active, Terminal

\* What an operation of a worker does to the operations of the others.
Elsewhere(r, f) ==
  /\ \A q \in Replicas, g \in Flows : q # r \/ g # f =>
       at'[q][g] = at[q][g] /\ copy'[q][g] = copy[q][g]
  /\ \A q \in Replicas : fresh'[q] \subseteq fresh[q]

LEMMA GoStep ==
  ASSUME WorkTypes, NEW r \in Replicas, NEW f \in Flows, NEW l \in Places, Go(r, f, l)
  PROVE  /\ at' \in [Replicas -> [Flows -> Places]]
         /\ at'[r][f] = l
         /\ \A q \in Replicas, g \in Flows : q # r \/ g # f => at'[q][g] = at[q][g]
BY DEF WorkTypes, Go

LEMMA CopyStep ==
  ASSUME WorkTypes, NEW r \in Replicas, NEW f \in Flows, NEW c \in Copies,
         copy' = [copy EXCEPT ![r][f] = c]
  PROVE  /\ copy' \in [Replicas -> [Flows -> Copies]]
         /\ copy'[r][f] = c
         /\ \A q \in Replicas, g \in Flows : q # r \/ g # f => copy'[q][g] = copy[q][g]
BY DEF WorkTypes

LEMMA RestStep ==
  ASSUME WorkTypes, NEW r \in Replicas, NEW f \in Flows, Rest(r, f), UNCHANGED loop
  PROVE  /\ WorkTypes' /\ Elsewhere(r, f)
         /\ at'[r][f] = "idle" /\ copy'[r][f] = NoCopy
<1>1. NoCopy \in Copies /\ "idle" \in Places
  BY DEF NoCopy, Copies, Places
<1>2. /\ at' \in [Replicas -> [Flows -> Places]] /\ at'[r][f] = "idle"
      /\ \A q \in Replicas, g \in Flows : q # r \/ g # f => at'[q][g] = at[q][g]
  BY <1>1, GoStep DEF Rest
<1>3. /\ copy' \in [Replicas -> [Flows -> Copies]] /\ copy'[r][f] = NoCopy
      /\ \A q \in Replicas, g \in Flows : q # r \/ g # f => copy'[q][g] = copy[q][g]
  <2>1. copy' = [copy EXCEPT ![r][f] = NoCopy]
    BY DEF Rest
  <2>2. QED
    BY <1>1, <2>1 DEF WorkTypes
<1>4. fresh' \in [Replicas -> SUBSET Flows] /\ \A q \in Replicas : fresh'[q] \subseteq fresh[q]
  BY DEF Rest, WorkTypes
<1>5. loop' \in [Replicas -> SUBSET Flows] /\ fresh' \in [Replicas -> SUBSET Flows]
  BY <1>4 DEF WorkTypes
<1>6. QED
  BY <1>2, <1>3, <1>4, <1>5 DEF WorkTypes, Elsewhere

LEMMA BreakStep ==
  ASSUME WorkTypes, NEW r \in Replicas, NEW f \in Flows, Break(r, f), UNCHANGED loop
  PROVE  /\ WorkTypes' /\ Elsewhere(r, f)
         /\ at'[r][f] = IF f \in fresh[r] THEN "abandon" ELSE "idle"
         /\ copy'[r][f] = NoCopy
<1>1. NoCopy \in Copies /\ (IF f \in fresh[r] THEN "abandon" ELSE "idle") \in Places
  BY DEF NoCopy, Copies, Places
<1>2. /\ at' \in [Replicas -> [Flows -> Places]]
      /\ at'[r][f] = IF f \in fresh[r] THEN "abandon" ELSE "idle"
      /\ \A q \in Replicas, g \in Flows : q # r \/ g # f => at'[q][g] = at[q][g]
  BY <1>1, GoStep DEF Break
<1>3. /\ copy' \in [Replicas -> [Flows -> Copies]] /\ copy'[r][f] = NoCopy
      /\ \A q \in Replicas, g \in Flows : q # r \/ g # f => copy'[q][g] = copy[q][g]
  <2>1. copy' = [copy EXCEPT ![r][f] = NoCopy]
    BY DEF Break
  <2>2. QED
    BY <1>1, <2>1 DEF WorkTypes
<1>4. fresh' = fresh
  BY DEF Break
<1>5. loop' \in [Replicas -> SUBSET Flows] /\ fresh' \in [Replicas -> SUBSET Flows]
  BY <1>4 DEF WorkTypes
<1>6. QED
  BY <1>2, <1>3, <1>4, <1>5 DEF WorkTypes, Elsewhere

LEMMA WorkLocal ==
  ASSUME TypeOK, NEW r \in Replicas, NEW f \in Flows, WorkStep(r, f)
  PROVE  WorkTypes' /\ Elsewhere(r, f)
<1> USE TypeParts
<1>1. ASSUME NEW c \in 0..2 PROVE [NoCopy EXCEPT !.cursor = c] \in Copies
  <2>1. NoCopy \in Copies
    BY DEF NoCopy, Copies
  <2>2. QED
    BY <2>1 DEF Copies
<1>2. copy[r][f] \in Copies /\ cursor[f] \in 0..2 /\ emitted[f] \in 0..2
  BY DEF WorkTypes, RowTypes, NativeTypes
<1>3. ASSUME NEW l \in Places, Go(r, f, l), UNCHANGED <<loop, copy, fresh>>
      PROVE  WorkTypes' /\ Elsewhere(r, f)
  BY <1>3, GoStep DEF WorkTypes, Elsewhere
<1>4. ASSUME NEW l \in Places, NEW c \in Copies, Go(r, f, l),
             copy' = [copy EXCEPT ![r][f] = c], UNCHANGED <<loop, fresh>>
      PROVE  WorkTypes' /\ Elsewhere(r, f)
  BY <1>4, GoStep, CopyStep DEF WorkTypes, Elsewhere
<1>5. ASSUME UNCHANGED <<at, copy>>, loop' \in [Replicas -> SUBSET Flows],
             fresh' \in [Replicas -> SUBSET Flows], \A q \in Replicas : fresh'[q] \subseteq fresh[q]
      PROVE  WorkTypes' /\ Elsewhere(r, f)
  BY <1>5 DEF WorkTypes, Elsewhere
<1>6. ASSUME Rest(r, f) \/ Break(r, f), UNCHANGED loop
      PROVE  WorkTypes' /\ Elsewhere(r, f)
  BY <1>6, RestStep, BreakStep
<1>7. ASSUME Begin(r, f) PROVE WorkTypes' /\ Elsewhere(r, f)
  <2>1. CASE Leave(r, f) /\ UNCHANGED <<at, copy>>
    BY <1>5, <2>1 DEF Leave, WorkTypes
  <2>2. CASE Go(r, f, "cleanup") /\ UNCHANGED <<loop, copy, fresh>>
    BY <1>3, <2>2 DEF Places
  <2>3. CASE /\ Go(r, f, IF status[f] = "starting" THEN "handshake" ELSE "list")
             /\ copy' = [copy EXCEPT ![r][f] = [NoCopy EXCEPT !.cursor = cursor[f]]]
             /\ UNCHANGED <<loop, fresh>>
    <3>1. (IF status[f] = "starting" THEN "handshake" ELSE "list") \in Places
      BY DEF Places
    <3>2. QED
      BY <1>1, <1>2, <1>4, <2>3, <3>1
  <2>4. QED
    BY <1>7, <2>1, <2>2, <2>3 DEF Begin
<1>8. ASSUME Handshake(r, f) PROVE WorkTypes' /\ Elsewhere(r, f)
  <2>1. [copy[r][f] EXCEPT !.asking = TRUE] \in Copies /\ "list" \in Places
    BY <1>2 DEF Copies, Places
  <2>2. CASE Go(r, f, "list") /\ copy' = [copy EXCEPT ![r][f].asking = TRUE] /\ UNCHANGED fresh
    <3>1. copy' = [copy EXCEPT ![r][f] = [copy[r][f] EXCEPT !.asking = TRUE]]
      BY <2>2 DEF WorkTypes
    <3>2. QED
      BY <1>4, <1>8, <2>1, <2>2, <3>1 DEF Handshake
  <2>3. QED
    BY <1>6, <1>8, <2>2 DEF Handshake
<1>9. ASSUME List(r, f) PROVE WorkTypes' /\ Elsewhere(r, f)
  <2>1. CASE /\ copy' = [copy EXCEPT ![r][f].page = emitted[f]]
             /\ Go(r, f, IF emitted[f] > copy[r][f].cursor THEN "persist" ELSE "decide")
             /\ UNCHANGED fresh
    <3>1. [copy[r][f] EXCEPT !.page = emitted[f]] \in Copies
      BY <1>2 DEF Copies
    <3>2. (IF emitted[f] > copy[r][f].cursor THEN "persist" ELSE "decide") \in Places
      BY DEF Places
    <3>3. copy' = [copy EXCEPT ![r][f] = [copy[r][f] EXCEPT !.page = emitted[f]]]
      BY <2>1 DEF WorkTypes
    <3>4. QED
      BY <1>4, <1>9, <2>1, <3>1, <3>2, <3>3 DEF List
  <2>2. QED
    BY <1>6, <1>9, <2>1 DEF List
<1>10. ASSUME Persist(r, f) PROVE WorkTypes' /\ Elsewhere(r, f)
  <2>1. [copy[r][f] EXCEPT !.cursor = copy[r][f].page] \in Copies /\ "decide" \in Places
    BY <1>2 DEF Copies, Places
  <2>2. copy' = [copy EXCEPT ![r][f] = [copy[r][f] EXCEPT !.cursor = copy[r][f].page]]
    BY <1>10 DEF Persist, WorkTypes
  <2>3. QED
    BY <1>4, <1>10, <2>1, <2>2 DEF Persist
<1>11. ASSUME Decide(r, f) PROVE WorkTypes' /\ Elsewhere(r, f)
  <2>1. CASE Go(r, f, "list") /\ copy' = [copy EXCEPT ![r][f].cursor = cursor[f]] /\ UNCHANGED fresh
    <3>1. [copy[r][f] EXCEPT !.cursor = cursor[f]] \in Copies /\ "list" \in Places
      BY <1>2 DEF Copies, Places
    <3>2. copy' = [copy EXCEPT ![r][f] = [copy[r][f] EXCEPT !.cursor = cursor[f]]]
      BY <2>1 DEF WorkTypes
    <3>3. QED
      BY <1>4, <1>11, <2>1, <3>1, <3>2 DEF Decide
  <2>2. CASE Go(r, f, "list") /\ copy' = [copy EXCEPT ![r][f] = [NoCopy EXCEPT !.cursor = cursor[f]]] /\ UNCHANGED fresh
    BY <1>1, <1>2, <1>4, <1>11, <2>2 DEF Decide, Places
  <2>3. CASE (Go(r, f, "auth") \/ Go(r, f, "cleanup")) /\ UNCHANGED <<copy, fresh>>
    BY <1>3, <1>11, <2>3 DEF Decide, Places
  <2>4. QED
    BY <1>6, <1>11, <2>1, <2>2, <2>3 DEF Decide
<1>12. ASSUME ReadAuth(r, f) \/ Complete(r, f) \/ Abandon(r, f) \/ ExpireFirst(r, f)
       PROVE  WorkTypes' /\ Elsewhere(r, f)
  BY <1>3, <1>6, <1>12 DEF ReadAuth, Complete, Abandon, ExpireFirst, Go, Places
<1>13. ASSUME Cleanup(r, f) \/ AbandonMarks(r, f) \/ CallFails(r, f) \/ RpcTimesOut(r, f)
       PROVE  WorkTypes' /\ Elsewhere(r, f)
  BY <1>6, <1>13 DEF Cleanup, AbandonMarks, CallFails, RpcTimesOut
<1>14. ASSUME Follow(r, f) PROVE WorkTypes' /\ Elsewhere(r, f)
  BY <1>5, <1>14 DEF Follow, WorkTypes
<1>15. QED
  BY <1>7, <1>8, <1>9, <1>10, <1>11, <1>12, <1>13, <1>14 DEF WorkStep, Advance

-----------------------------------------------------------------------------
(* What a step does to the status of a login.                              *)

StatusGoes(f) ==
  \/ status'[f] = status[f]
  \/ /\ status[f] = "none" /\ status'[f] = "provisioning" /\ NoneActive(f)
     /\ \A g \in Flows \ {f} : status'[g] = status[g]
  \/ /\ status[f] = "provisioning" /\ status'[f] = "starting"
     /\ \E r \in Replicas : Attach(r) /\ start[r].flow = f
  \/ status[f] \in {"starting", "awaiting"} /\ status'[f] = "awaiting"
  \/ IsActive(f) /\ status'[f] \in Terminal

LEMMA StatusStep ==
  ASSUME RowTypes, Named, Next
  PROVE  /\ status' \in [Flows -> Active \cup Terminal \cup {"none"}]
         /\ \A f \in Flows : StatusGoes(f)
<1> DEFINE Goes == /\ status' \in [Flows -> Active \cup Terminal \cup {"none"}]
                   /\ \A f \in Flows : StatusGoes(f)
<1>1. ASSUME UNCHANGED status PROVE Goes
  BY <1>1 DEF RowTypes, StatusGoes
<1>2. ASSUME NEW f \in Flows, NEW s \in Terminal, MarkTerminal(f, s) PROVE Goes
  BY <1>2, Marked DEF StatusGoes
<1>3. ASSUME NEW f \in Flows, Outside(f) PROVE Goes
  BY <1>1, <1>3 DEF Outside, Emit, Answer, TimePasses, BoxExpires, row
<1>4. ASSUME NEW r \in Replicas, StartStep(r) PROVE Goes
  <2>1. ASSUME NEW f \in Flows, Create(r, f) PROVE Goes
    BY <2>1 DEF Create, RowTypes, StatusGoes, Active
  <2>2. CASE Attach(r)
    BY <2>2 DEF Attach, RowTypes, StatusGoes, Active, StartAt, Named
  <2>3. CASE StartFails(r)
    BY <1>2, <2>3 DEF StartFails, StartAt, Named, Terminal
  <2>4. QED
    BY <1>1, <1>4, <2>1, <2>2, <2>3
    DEF StartStep, Starting, Provision, AttachRefused, ProvisionFails, row
<1>5. ASSUME NEW r \in Replicas, CancelStep(r) PROVE Goes
  <2>1. CASE CancelMarks(r)
    BY <1>2, <2>1 DEF CancelMarks, Named, Terminal
  <2>2. QED
    BY <1>1, <1>5, <2>1 DEF CancelStep, Cancelling, CancelCleans, Cancel, row
<1>6. ASSUME NEW r \in Replicas, LifeStep(r) PROVE Goes
  <2>1. CASE ExpireOnBoot(r)
    BY <1>1, <1>2, <2>1 DEF ExpireOnBoot, Terminal
  <2>2. CASE FailInterrupted(r)
    BY <2>2 DEF FailInterrupted, RowTypes, StatusGoes, IsActive, Active, Terminal
  <2>3. QED
    BY <1>1, <1>6, <2>1, <2>2 DEF LifeStep, Crash, Booting, Boot, Resume, row
<1>7. ASSUME NEW r \in Replicas, NEW f \in Flows, WorkStep(r, f) PROVE Goes
  <2>1. ASSUME ExpireFirst(r, f) \/ Begin(r, f) \/ AbandonMarks(r, f) PROVE Goes
    BY <1>1, <1>2, <2>1 DEF ExpireFirst, Begin, AbandonMarks, Terminal
  <2>2. CASE Decide(r, f)
    <3>1. ASSUME status[f] \in {"starting", "awaiting"}, status' = [status EXCEPT ![f] = "awaiting"]
          PROVE  Goes
      BY <3>1 DEF RowTypes, StatusGoes, Active
    <3>2. QED
      BY <1>1, <1>2, <2>2, <3>1 DEF Decide, Terminal
  <2>3. CASE Complete(r, f)
    BY <1>1, <2>3 DEF Complete, MayComplete, RowTypes, StatusGoes, Terminal
  <2>4. QED
    BY <1>1, <1>7, <2>1, <2>2, <2>3
    DEF WorkStep, Advance, Follow, Handshake, List, Persist, RpcTimesOut, ReadAuth, Cleanup,
        Abandon, CallFails, row
<1>8. QED
  BY <1>3, <1>4, <1>5, <1>6, <1>7, Steps

-----------------------------------------------------------------------------
(* What a step does to the other rows and to the boxes.                    *)

\* What the steps of each actor leave alone.
LEMMA OutsideKeeps ==
  ASSUME NEW f \in Flows, Outside(f)
  PROVE  /\ UNCHANGED <<status, runtime, cursor, messages, credential, asked, overlooked>>
         /\ UNCHANGED <<up, start, cancel, loop, at, copy, fresh, faults>>
         /\ UNCHANGED due \/ TimePasses(f)
         /\ UNCHANGED <<emitted, answer>> \/ Emit(f) \/ Answer(f)
BY DEF Outside, Emit, Answer, TimePasses, BoxExpires, row, native, codex, work

LEMMA StartKeeps ==
  ASSUME NEW r \in Replicas, StartStep(r)
  PROVE  /\ UNCHANGED <<due, cursor, messages, credential, asked, emitted, answer, overlooked>>
         /\ UNCHANGED <<up, cancel, at, copy>>
         /\ UNCHANGED runtime \/ Attach(r)
         /\ UNCHANGED faults \/ faults' = faults + 1
BY DEF StartStep, Starting, Create, Provision, ProvisionFails, Attach, AttachRefused, StartFails,
   row, native, codex, work

LEMMA CancelKeeps ==
  ASSUME NEW r \in Replicas, CancelStep(r)
  PROVE  /\ UNCHANGED <<runtime, due, cursor, messages, credential, asked, overlooked>>
         /\ UNCHANGED <<up, start, at, copy, fresh, faults>>
         /\ UNCHANGED <<emitted, answer>> \/ \E f \in Flows : Cancel(r, f)
BY DEF CancelStep, Cancelling, Cancel, CancelMarks, CancelCleans, row, native, codex, work

LEMMA LifeKeeps ==
  ASSUME NEW r \in Replicas, LifeStep(r)
  PROVE  /\ UNCHANGED <<runtime, due, cursor, messages, credential, asked, emitted, answer>>
         /\ UNCHANGED overlooked \/ Resume(r)
         /\ UNCHANGED faults \/ faults' = faults + 1
BY DEF LifeStep, Crash, Booting, Boot, ExpireOnBoot, FailInterrupted, Resume,
   row, native, codex, work

LEMMA WorkKeeps ==
  ASSUME NEW r \in Replicas, NEW f \in Flows, WorkStep(r, f)
  PROVE  /\ UNCHANGED <<runtime, due, emitted, answer, overlooked, up, start, cancel>>
         /\ UNCHANGED <<cursor, messages>> \/ Persist(r, f)
         /\ UNCHANGED credential \/ Complete(r, f)
         /\ UNCHANGED asked \/ Handshake(r, f)
         /\ UNCHANGED faults \/ faults' = faults + 1
<1> USE DEF row, native, codex, work
<1>1. CASE Begin(r, f) \/ Handshake(r, f) \/ List(r, f)
  BY <1>1 DEF Begin, Handshake, List
<1>2. CASE Persist(r, f) \/ Decide(r, f) \/ ReadAuth(r, f)
  BY <1>2 DEF Persist, Decide, ReadAuth
<1>3. CASE Complete(r, f) \/ Cleanup(r, f) \/ Abandon(r, f) \/ AbandonMarks(r, f)
  BY <1>3 DEF Complete, Cleanup, Abandon, AbandonMarks
<1>4. CASE ExpireFirst(r, f) \/ Follow(r, f) \/ RpcTimesOut(r, f) \/ CallFails(r, f)
  BY <1>4 DEF ExpireFirst, Follow, RpcTimesOut, CallFails
<1>5. QED
  BY <1>1, <1>2, <1>3, <1>4 DEF WorkStep, Advance

\* Who writes what beside the status.
LEMMA Writers ==
  ASSUME Next
  PROVE  /\ UNCHANGED runtime \/ \E r \in Replicas : Attach(r)
         /\ UNCHANGED due \/ \E f \in Flows : TimePasses(f)
         /\ UNCHANGED asked \/ \E r \in Replicas, f \in Flows : Handshake(r, f)
         /\ UNCHANGED overlooked \/ \E r \in Replicas : Resume(r)
         /\ faults' = faults \/ faults' = faults + 1
BY Steps, OutsideKeeps, StartKeeps, CancelKeeps, LifeKeeps, WorkKeeps

LEMMA RecordStep ==
  ASSUME Next
  PROVE  \/ UNCHANGED <<cursor, messages>>
         \/ \E r \in Replicas, f \in Flows : Persist(r, f)
BY Steps, OutsideKeeps, StartKeeps, CancelKeeps, LifeKeeps, WorkKeeps

LEMMA CredentialStep ==
  ASSUME Next
  PROVE  \/ UNCHANGED credential
         \/ \E r \in Replicas, f \in Flows : Complete(r, f)
BY Steps, OutsideKeeps, StartKeeps, CancelKeeps, LifeKeeps, WorkKeeps

LEMMA AnswerStep ==
  ASSUME Next
  PROVE  \/ UNCHANGED <<emitted, answer>>
         \/ \E f \in Flows : Emit(f) \/ Answer(f)
         \/ \E r \in Replicas, f \in Flows : Cancel(r, f)
BY Steps, OutsideKeeps, StartKeeps, CancelKeeps, LifeKeeps, WorkKeeps

\* A box comes up once, and goes for whoever its row names.
LEMMA BoxStep ==
  ASSUME Next
  PROVE  \/ UNCHANGED box
         \/ \E r \in Replicas : Provision(r)
         \/ \E f \in Flows : box' = [box EXCEPT ![f] = "gone"]
         \/ \E r \in Replicas : cancel[r].at = "cleanup" /\ Cleaned(cancel[r].flow)
<1>1. ASSUME NEW f \in Flows, Cleaned(f)
      PROVE  UNCHANGED box \/ box' = [box EXCEPT ![f] = "gone"]
  BY <1>1 DEF Cleaned
<1>2. ASSUME NEW f \in Flows, Outside(f)
      PROVE  UNCHANGED box \/ box' = [box EXCEPT ![f] = "gone"]
  BY <1>2 DEF Outside, Emit, Answer, TimePasses, BoxExpires, native
<1>3. ASSUME NEW r \in Replicas, StartStep(r) PROVE UNCHANGED box \/ Provision(r)
  BY <1>3 DEF StartStep, Starting, Create, ProvisionFails, Attach, AttachRefused, StartFails, native
<1>4. ASSUME NEW r \in Replicas, CancelStep(r)
      PROVE  UNCHANGED box \/ (cancel[r].at = "cleanup" /\ Cleaned(cancel[r].flow))
  BY <1>4 DEF CancelStep, Cancelling, Cancel, CancelMarks, CancelCleans, native
<1>5. ASSUME NEW r \in Replicas, LifeStep(r)
      PROVE  UNCHANGED box \/ \E f \in Flows : Cleaned(f)
  BY <1>5 DEF LifeStep, Crash, Booting, Boot, ExpireOnBoot, FailInterrupted, Resume, native
<1>6. ASSUME NEW r \in Replicas, NEW f \in Flows, WorkStep(r, f)
      PROVE  UNCHANGED box \/ Cleaned(f)
  BY <1>6 DEF WorkStep, Advance, Begin, Handshake, List, Persist, Decide, ReadAuth, Complete,
     Cleanup, Abandon, AbandonMarks, ExpireFirst, Follow, RpcTimesOut, CallFails, native
<1>7. QED
  BY <1>1, <1>2, <1>3, <1>4, <1>5, <1>6, Steps

-----------------------------------------------------------------------------
(* Types, part by part.                                                    *)

LEMMA RowTypesStep ==
  ASSUME TypeOK, Named, Next
  PROVE  RowTypes'
<1> USE TypeParts
<1>1. status' \in [Flows -> Active \cup Terminal \cup {"none"}]
  BY StatusStep
<1>2. runtime' \in [Flows -> BOOLEAN]
  BY Writers DEF Attach, RowTypes
<1>3. due' \in [Flows -> BOOLEAN]
  BY Writers DEF TimePasses, RowTypes
<1>4. cursor' \in [Flows -> 0..2] /\ messages' \in [Flows -> SUBSET {1, 2}]
  <2>1. CASE UNCHANGED <<cursor, messages>>
    BY <2>1 DEF RowTypes
  <2>2. ASSUME NEW r \in Replicas, NEW f \in Flows, Persist(r, f)
        PROVE  cursor' \in [Flows -> 0..2] /\ messages' \in [Flows -> SUBSET {1, 2}]
    <3>1. copy[r][f].page \in 0..2 /\ copy[r][f].cursor \in 0..2
      BY DEF WorkTypes, Copies
    <3>2. Appended(f, AfterCursor(copy[r][f].cursor, copy[r][f].page)) \in SUBSET {1, 2}
      BY <3>1 DEF Appended, AfterCursor, RowTypes
    <3>3. QED
      BY <2>2, <3>1, <3>2 DEF Persist, RowTypes
  <2>3. QED
    BY <2>1, <2>2, RecordStep
<1>5. credential' \in Flows \cup {NoFlow}
  BY CredentialStep DEF Complete, RowTypes
<1>6. QED
  BY <1>1, <1>2, <1>3, <1>4, <1>5 DEF RowTypes

LEMMA NativeTypesStep ==
  ASSUME TypeOK, Next
  PROVE  NativeTypes'
<1> USE TypeParts
<1>1. box' \in [Flows -> {"none", "up", "gone"}]
  BY BoxStep DEF Provision, Cleaned, NativeTypes
<1>2. emitted' \in [Flows -> 0..2] /\ answer' \in [Flows -> {"none", "approved", "denied"}]
  BY AnswerStep DEF Emit, Answer, Cancel, NativeTypes
<1>3. asked' \in [Flows -> BOOLEAN] /\ overlooked' \subseteq Flows
  BY Writers DEF Resume, Handshake, NativeTypes
<1>4. QED
  BY <1>1, <1>2, <1>3 DEF NativeTypes

\* Who moves a start and a cancellation.
LEMMA SideStep ==
  ASSUME Next
  PROVE  /\ UNCHANGED start \/ \E r \in Replicas : StartStep(r) \/ Crash(r)
         /\ UNCHANGED cancel \/ \E r \in Replicas : CancelStep(r) \/ Crash(r)
<1>1. ASSUME NEW r \in Replicas, LifeStep(r) PROVE UNCHANGED <<start, cancel>> \/ Crash(r)
  BY <1>1 DEF LifeStep, Booting, Boot, ExpireOnBoot, FailInterrupted, Resume
<1>2. QED
  BY <1>1, Steps, OutsideKeeps, StartKeeps, CancelKeeps, WorkKeeps

\* A start or a cancellation of another replica is left alone.
StartPlaces == {"idle", "provision", "attach", "fail"}
StartMoved(r) ==
  \/ start'[r] = Nobody
  \/ /\ start[r].at \in {"provision", "attach"} /\ start'[r].at \in {"attach", "fail"}
     /\ start'[r].flow = start[r].flow
  \/ \E f \in Flows : Create(r, f) /\ start'[r] = [flow |-> f, at |-> "provision"]
StartMove(r) ==
  /\ start' \in [Replicas -> [flow : Flows \cup {NoFlow}, at : StartPlaces]]
  /\ \A q \in Replicas \ {r} : start'[q] = start[q]
  /\ StartMoved(r)

LEMMA StartMoves ==
  ASSUME SideTypes, NEW r \in Replicas, StartStep(r) \/ Crash(r)
  PROVE  StartMove(r)
<1>1. Nobody \in [flow : Flows \cup {NoFlow}, at : StartPlaces]
  BY DEF Nobody, StartPlaces
<1>2. start \in [Replicas -> [flow : Flows \cup {NoFlow}, at : StartPlaces]]
  BY DEF SideTypes, StartPlaces
<1>3. ASSUME NEW l \in {"attach", "fail"}, start[r].at \in {"provision", "attach"}, StartGoes(r, l)
      PROVE  StartMove(r)
  BY <1>2, <1>3 DEF StartGoes, StartMove, StartMoved, StartPlaces
<1>4. ASSUME start' = [start EXCEPT ![r] = Nobody] PROVE StartMove(r)
  BY <1>1, <1>2, <1>4 DEF StartMove, StartMoved
<1>5. ASSUME NEW f \in Flows, Create(r, f) PROVE StartMove(r)
  <2>1. start' = [start EXCEPT ![r] = [flow |-> f, at |-> "provision"]]
    BY <1>5 DEF Create
  <2>2. [flow |-> f, at |-> "provision"] \in [flow : Flows \cup {NoFlow}, at : StartPlaces]
    BY DEF StartPlaces
  <2>3. StartMoved(r)
    BY <1>2, <1>5, <2>1 DEF StartMoved
  <2>4. QED
    BY <1>2, <2>1, <2>2, <2>3 DEF StartMove
<1>6. CASE Provision(r) \/ ProvisionFails(r) \/ AttachRefused(r)
  BY <1>3, <1>6 DEF Provision, ProvisionFails, AttachRefused, StartAt
<1>7. CASE Attach(r) \/ StartFails(r) \/ Crash(r)
  BY <1>4, <1>7 DEF Attach, StartFails, Crash
<1>8. QED
  BY <1>5, <1>6, <1>7 DEF StartStep, Starting

LEMMA CancelMoves ==
  ASSUME SideTypes, NEW r \in Replicas, CancelStep(r) \/ Crash(r)
  PROVE  /\ cancel' \in [Replicas -> [flow : Flows \cup {NoFlow}, at : {"idle", "mark", "cleanup"}]]
         /\ \A q \in Replicas \ {r} : cancel'[q] = cancel[q]
         /\ \/ cancel'[r] = Nobody
            \/ CancelMarks(r) /\ cancel'[r] = [flow |-> cancel[r].flow, at |-> "cleanup"]
            \/ \E f \in Flows : Cancel(r, f) /\ cancel'[r] = [flow |-> f, at |-> "mark"]
<1>1. Nobody \in [flow : Flows \cup {NoFlow}, at : {"idle", "mark", "cleanup"}]
  BY DEF Nobody
<1>2. CASE CancelMarks(r)
  <2>1. cancel[r] \in [flow : Flows \cup {NoFlow}, at : {"idle", "mark", "cleanup"}]
    BY DEF SideTypes
  <2>2. /\ cancel' = [cancel EXCEPT ![r] = [cancel[r] EXCEPT !.at = "cleanup"]]
        /\ [cancel[r] EXCEPT !.at = "cleanup"] = [flow |-> cancel[r].flow, at |-> "cleanup"]
    BY <1>2, <2>1 DEF CancelMarks, SideTypes
  <2>3. QED
    BY <1>2, <2>1, <2>2 DEF SideTypes
<1>3. ASSUME cancel' = [cancel EXCEPT ![r] = Nobody]
      PROVE  /\ cancel' \in [Replicas -> [flow : Flows \cup {NoFlow}, at : {"idle", "mark", "cleanup"}]]
             /\ \A q \in Replicas \ {r} : cancel'[q] = cancel[q]
             /\ cancel'[r] = Nobody
  BY <1>1, <1>3 DEF SideTypes
<1>4. ASSUME NEW f \in Flows, Cancel(r, f)
      PROVE  /\ cancel' \in [Replicas -> [flow : Flows \cup {NoFlow}, at : {"idle", "mark", "cleanup"}]]
             /\ \A q \in Replicas \ {r} : cancel'[q] = cancel[q]
             /\ cancel'[r] = [flow |-> f, at |-> "mark"]
  BY <1>4 DEF Cancel, SideTypes
<1>5. QED
  BY <1>2, <1>3, <1>4 DEF CancelStep, Cancelling, CancelCleans, Crash

LEMMA SideTypesStep ==
  ASSUME TypeOK, Next
  PROVE  SideTypes'
<1> USE TypeParts
<1>1. start' \in [Replicas -> [flow : Flows \cup {NoFlow}, at : {"idle", "provision", "attach", "fail"}]]
  BY SideStep, StartMoves DEF SideTypes, StartMove, StartPlaces
<1>2. cancel' \in [Replicas -> [flow : Flows \cup {NoFlow}, at : {"idle", "mark", "cleanup"}]]
  BY SideStep, CancelMoves DEF SideTypes
<1>3. up' \in [Replicas -> {"up", "down", "expiring", "failing", "resuming"}]
  <2>1. ASSUME NEW r \in Replicas, LifeStep(r)
        PROVE  up' \in [Replicas -> {"up", "down", "expiring", "failing", "resuming"}]
    BY <2>1 DEF LifeStep, Crash, Booting, Boot, ExpireOnBoot, FailInterrupted, Resume, SideTypes
  <2>2. QED
    BY <2>1, Steps, OutsideKeeps, StartKeeps, CancelKeeps, WorkKeeps DEF SideTypes
<1>4. faults' \in Nat
  BY Writers DEF SideTypes
<1>5. QED
  BY <1>1, <1>2, <1>3, <1>4 DEF SideTypes

\* Who else moves the operations: a replica that dies stops all of its own.
LEMMA WorkMoves ==
  ASSUME Next
  PROVE  \/ UNCHANGED <<at, copy, fresh>>
         \/ \E r \in Replicas : Attach(r) /\ UNCHANGED <<at, copy>>
         \/ \E r \in Replicas : Crash(r)
         \/ \E r \in Replicas, f \in Flows : WorkStep(r, f)
<1>1. ASSUME NEW r \in Replicas, StartStep(r)
      PROVE  UNCHANGED <<at, copy, fresh>> \/ (Attach(r) /\ UNCHANGED <<at, copy>>)
  BY <1>1, StartKeeps DEF StartStep, Starting, Create, Provision, ProvisionFails, AttachRefused,
     StartFails, work
<1>2. ASSUME NEW r \in Replicas, LifeStep(r) PROVE UNCHANGED <<at, copy, fresh>> \/ Crash(r)
  BY <1>2 DEF LifeStep, Booting, Boot, ExpireOnBoot, FailInterrupted, Resume, work
<1>3. QED
  BY <1>1, <1>2, Steps, OutsideKeeps, CancelKeeps

LEMMA CrashMoves ==
  ASSUME WorkTypes, NEW r \in Replicas, Crash(r)
  PROVE  /\ WorkTypes'
         /\ \A q \in Replicas \ {r} : at'[q] = at[q] /\ copy'[q] = copy[q] /\ fresh'[q] = fresh[q]
         /\ \A f \in Flows : at'[r][f] = "idle" /\ copy'[r][f] = NoCopy
         /\ fresh'[r] = {}
<1>1. NoCopy \in Copies /\ "idle" \in Places
  BY DEF NoCopy, Copies, Places
<1>2. QED
  BY <1>1 DEF Crash, WorkTypes, Each

LEMMA WorkTypesStep ==
  ASSUME TypeOK, Named, Next
  PROVE  WorkTypes'
<1> USE TypeParts
<1>1. loop' \in [Replicas -> SUBSET Flows]
  <2>1. ASSUME NEW r \in Replicas, NEW f \in Flows, WorkStep(r, f)
        PROVE  loop' \in [Replicas -> SUBSET Flows]
    BY <2>1, WorkLocal DEF WorkTypes
  <2>2. ASSUME NEW r \in Replicas, StartStep(r) PROVE loop' \in [Replicas -> SUBSET Flows]
    BY <2>2 DEF StartStep, Starting, Create, Provision, ProvisionFails, Attach, AttachRefused,
       StartFails, StartAt, Named, work, WorkTypes
  <2>3. ASSUME NEW r \in Replicas, CancelStep(r)
        PROVE  loop' \in [Replicas -> SUBSET Flows]
    BY <2>3 DEF CancelStep, Cancelling, Cancel, CancelMarks, CancelCleans, work, WorkTypes
  <2>4. ASSUME NEW r \in Replicas, LifeStep(r)
        PROVE  loop' \in [Replicas -> SUBSET Flows]
    BY <2>4 DEF LifeStep, Crash, Booting, Boot, ExpireOnBoot, FailInterrupted, Resume, Resumable,
       work, WorkTypes
  <2>5. QED
    BY <2>1, <2>2, <2>3, <2>4, Steps, OutsideKeeps DEF WorkTypes
<1>2. fresh' \in [Replicas -> SUBSET Flows]
  BY WorkMoves, WorkLocal, CrashMoves DEF Attach, StartAt, Named, WorkTypes
<1>3. at' \in [Replicas -> [Flows -> Places]] /\ copy' \in [Replicas -> [Flows -> Copies]]
  BY WorkMoves, WorkLocal, CrashMoves DEF WorkTypes
<1>4. QED
  BY <1>1, <1>2, <1>3 DEF WorkTypes

-----------------------------------------------------------------------------
(* The parts of the invariant that follow from what a step does to a row.  *)

LEMMA OneActiveStep ==
  ASSUME TypeOK, OneActive, Named, Next
  PROVE  OneActive'
<1>1. ASSUME NEW f \in Flows
      PROVE  \/ IsActive(f)' => IsActive(f)
             \/ /\ \A g \in Flows : ~IsActive(g)
                /\ \A g \in Flows \ {f} : status'[g] = status[g]
  BY StatusStep, TypeParts DEF StatusGoes, IsActive, Active, Terminal, NoneActive
<1>2. QED
  BY <1>1 DEF OneActive, IsActive

LEMMA NamedStep ==
  ASSUME TypeOK, Named, Next
  PROVE  Named'
<1>1. \A f \in Flows : status[f] # "none" => status'[f] # "none"
  BY StatusStep, TypeParts DEF StatusGoes, IsActive, Active, Terminal
<1>2. ASSUME NEW q \in Replicas, start'[q].at # "idle"
      PROVE  start'[q].flow \in Flows /\ status'[start'[q].flow] # "none"
  <2>1. CASE start'[q] = start[q]
    BY <1>1, <1>2, <2>1 DEF Named
  <2>2. CASE start'[q] # start[q]
    <3>1. StartMoved(q)
      BY <2>2, SideStep, StartMoves, TypeParts DEF StartMove
    <3>2. CASE start[q].at \in {"provision", "attach"} /\ start'[q].flow = start[q].flow
      BY <1>1, <3>2 DEF Named
    <3>3. ASSUME NEW f \in Flows, Create(q, f), start'[q] = [flow |-> f, at |-> "provision"]
          PROVE  start'[q].flow \in Flows /\ status'[start'[q].flow] # "none"
      BY <3>3, TypeParts DEF Create, RowTypes
    <3>4. start'[q] # Nobody
      BY <1>2 DEF Nobody
    <3>5. QED
      BY <3>1, <3>2, <3>3, <3>4 DEF StartMoved
  <2>3. QED
    BY <2>1, <2>2
<1>3. ASSUME NEW q \in Replicas, cancel'[q].at # "idle"
      PROVE  cancel'[q].flow \in Flows /\ status'[cancel'[q].flow] # "none"
  <2>1. CASE cancel'[q] = cancel[q]
    BY <1>1, <1>3, <2>1 DEF Named
  <2>2. CASE cancel'[q] # cancel[q]
    <3>1. \/ cancel'[q] = Nobody
          \/ CancelMarks(q) /\ cancel'[q] = [flow |-> cancel[q].flow, at |-> "cleanup"]
          \/ \E f \in Flows : Cancel(q, f) /\ cancel'[q] = [flow |-> f, at |-> "mark"]
      BY <2>2, SideStep, CancelMoves, TypeParts
    <3>2. ASSUME NEW f \in Flows, Cancel(q, f) PROVE status[f] # "none"
      BY <3>2 DEF Cancel, IsActive, Active
    <3>3. CASE CancelMarks(q) /\ cancel'[q] = [flow |-> cancel[q].flow, at |-> "cleanup"]
      BY <1>1, <3>3 DEF Named, CancelMarks
    <3>4. ASSUME NEW f \in Flows, Cancel(q, f), cancel'[q] = [flow |-> f, at |-> "mark"]
          PROVE  cancel'[q].flow \in Flows /\ status'[cancel'[q].flow] # "none"
      BY <1>1, <3>2, <3>4
    <3>5. cancel'[q] # Nobody
      BY <1>3 DEF Nobody
    <3>6. QED
      BY <3>1, <3>3, <3>4, <3>5
  <2>3. QED
    BY <2>1, <2>2
<1>4. QED
  BY <1>2, <1>3 DEF Named

LEMMA OneStarterStep ==
  ASSUME TypeOK, Named, OneStarter, Next
  PROVE  OneStarter'
<1>1. CASE UNCHANGED start
  BY <1>1 DEF OneStarter
<1>2. ASSUME NEW r \in Replicas, StartStep(r) \/ Crash(r) PROVE OneStarter'
  <2>1. StartMoved(r) /\ \A q \in Replicas \ {r} : start'[q] = start[q]
    BY <1>2, StartMoves, TypeParts DEF StartMove
  <2>2. CASE start'[r] = Nobody
    BY <2>1, <2>2 DEF OneStarter, Nobody
  <2>3. CASE start[r].at # "idle" /\ start'[r].flow = start[r].flow
    BY <2>1, <2>3 DEF OneStarter
  <2>4. ASSUME NEW f \in Flows, Create(r, f), start'[r] = [flow |-> f, at |-> "provision"]
        PROVE  OneStarter'
    <3>1. \A q \in Replicas : start[q].at # "idle" => start[q].flow # f
      BY <2>4 DEF Create, Named
    <3>2. QED
      BY <2>1, <2>4, <3>1 DEF OneStarter
  <2>5. QED
    BY <2>1, <2>2, <2>3, <2>4 DEF StartMoved
<1>3. QED
  BY <1>1, <1>2, SideStep

LEMMA StartUnattachedStep ==
  ASSUME TypeOK, Named, OneStarter, StartUnattached, Next
  PROVE  StartUnattached'
<1> USE TypeParts
<1>1. \A r \in Replicas : Attach(r) =>
        /\ start[r].flow \in Flows /\ status'[start[r].flow] = "starting"
        /\ start'[r] = Nobody /\ start[r].at = "attach"
        /\ \A f \in Flows : f # start[r].flow => runtime'[f] = runtime[f]
  BY DEF Attach, StartAt, Named, RowTypes, SideTypes
<1>2. ASSUME NEW f \in Flows, status'[f] = "none" PROVE ~runtime'[f]
  <2>1. status[f] = "none"
    BY <1>2, StatusStep DEF StatusGoes, IsActive, Active, Terminal
  <2>2. runtime'[f] = runtime[f]
    BY <1>1, <1>2, Writers
  <2>3. QED
    BY <2>1, <2>2 DEF StartUnattached
<1>3. ASSUME NEW q \in Replicas, start'[q].at \in {"provision", "attach"}
      PROVE  /\ ~runtime'[start'[q].flow]
             /\ status'[start'[q].flow] \in Terminal \cup {"provisioning"}
  <2>1. CASE start[q].at \in {"provision", "attach"} /\ start'[q].flow = start[q].flow
    <3> DEFINE f == start[q].flow
    <3>1. f \in Flows /\ ~runtime[f] /\ status[f] \in Terminal \cup {"provisioning"}
      BY <2>1 DEF Named, StartUnattached
    <3>2. \A r \in Replicas : Attach(r) => start[r].flow # f
      BY <1>1, <1>3, <2>1 DEF OneStarter, Nobody
    <3>3. runtime'[f] = runtime[f]
      BY <1>1, <3>1, <3>2, Writers
    <3>4. status'[f] \in Terminal \cup {"provisioning"}
      BY <3>1, <3>2, StatusStep DEF StatusGoes, IsActive, Active, Terminal
    <3>5. QED
      BY <2>1, <3>1, <3>3, <3>4
  <2>2. ASSUME NEW f \in Flows, Create(q, f), start'[q] = [flow |-> f, at |-> "provision"]
        PROVE  /\ ~runtime'[start'[q].flow]
               /\ status'[start'[q].flow] \in Terminal \cup {"provisioning"}
    <3>1. start'[q].flow = f
      BY <2>2
    <3>2. ~runtime'[f] /\ status'[f] = "provisioning"
      BY <2>2 DEF Create, StartUnattached, RowTypes
    <3>3. QED
      BY <3>1, <3>2
  <2>3. \/ start[q].at \in {"provision", "attach"} /\ start'[q].flow = start[q].flow
        \/ \E f \in Flows : Create(q, f) /\ start'[q] = [flow |-> f, at |-> "provision"]
    <3>1. CASE start'[q] = start[q]
      BY <1>3, <3>1
    <3>2. CASE start'[q] # start[q]
      <4>1. StartMoved(q)
        BY <3>2, SideStep, StartMoves DEF StartMove
      <4>2. start'[q] # Nobody
        BY <1>3 DEF Nobody
      <4>3. QED
        BY <4>1, <4>2 DEF StartMoved
    <3>3. QED
      BY <3>1, <3>2
  <2>4. QED
    BY <2>1, <2>2, <2>3
<1>4. QED
  BY <1>2, <1>3 DEF StartUnattached

-----------------------------------------------------------------------------
(* The events of a box.                                                    *)

LEMMA CopyFrom ==
  ASSUME TypeOK, NEW r \in Replicas, NEW f \in Flows, WorkStep(r, f), ~Persist(r, f)
  PROVE  copy'[r][f].cursor \in {0, cursor[f], copy[r][f].cursor}
<1> USE TypeParts
<1>1. NoCopy.cursor = 0 /\ copy[r][f] \in Copies /\ NoCopy \in Copies
  BY DEF NoCopy, WorkTypes, Copies
<1>2. ASSUME Rest(r, f) \/ Break(r, f) PROVE copy'[r][f].cursor = 0
  BY <1>1, <1>2 DEF Rest, Break, WorkTypes
<1>3. CASE UNCHANGED copy
  BY <1>3
<1>4. CASE Begin(r, f)
  BY <1>1, <1>4 DEF Begin, WorkTypes, Copies
<1>5. CASE Handshake(r, f)
  <2>1. CASE copy' = [copy EXCEPT ![r][f].asking = TRUE]
    BY <1>1, <2>1 DEF WorkTypes, Copies
  <2>2. QED
    BY <1>2, <1>5, <2>1 DEF Handshake
<1>6. CASE List(r, f)
  <2>1. CASE copy' = [copy EXCEPT ![r][f].page = emitted[f]]
    BY <1>1, <2>1 DEF WorkTypes, Copies
  <2>2. QED
    BY <1>2, <1>6, <2>1 DEF List
<1>7. CASE Decide(r, f)
  BY <1>1, <1>2, <1>7 DEF Decide, WorkTypes, Copies
<1>8. QED
  BY <1>2, <1>3, <1>4, <1>5, <1>6, <1>7
  DEF WorkStep, Advance, ReadAuth, Complete, Cleanup, Abandon, AbandonMarks, ExpireFirst, Follow,
      RpcTimesOut, CallFails

LEMMA RecordedStep ==
  ASSUME TypeOK, NothingSkipped, CopyRecorded, Next
  PROVE  NothingSkipped' /\ CopyRecorded'
<1> USE TypeParts
<1>1. ASSUME NEW r \in Replicas, NEW f \in Flows, Persist(r, f)
      PROVE  NothingSkipped' /\ CopyRecorded'
  <2> DEFINE c == copy[r][f].cursor
             p == copy[r][f].page
  <2>1. copy[r][f] \in Copies /\ c \in 0..2 /\ p \in 0..2 /\ 1 .. c \subseteq messages[f]
    BY DEF WorkTypes, Copies, CopyRecorded
  <2>2. /\ cursor'[f] = p /\ messages'[f] = messages[f] \cup ((c + 1) .. p)
        /\ \A g \in Flows \ {f} : cursor'[g] = cursor[g] /\ messages'[g] = messages[g]
    BY <1>1 DEF Persist, Appended, AfterCursor, RowTypes
  <2>3. 1 .. p \subseteq messages'[f]
    BY <2>1, <2>2
  <2>4. copy'[r][f].cursor = p
    BY <1>1, <2>1 DEF Persist, WorkTypes, Copies
  <2>5. Elsewhere(r, f)
    BY <1>1, WorkLocal DEF WorkStep, Advance
  <2>6. ASSUME NEW q \in Replicas, NEW g \in Flows PROVE 1 .. copy'[q][g].cursor \subseteq messages'[g]
    BY <2>2, <2>3, <2>4, <2>5 DEF Elsewhere, CopyRecorded
  <2>7. QED
    BY <2>2, <2>3, <2>6 DEF NothingSkipped, CopyRecorded
<1>2. ASSUME UNCHANGED <<cursor, messages>>,
             \A r \in Replicas, f \in Flows :
               copy'[r][f].cursor \in {0, cursor[f], copy[r][f].cursor}
      PROVE  NothingSkipped' /\ CopyRecorded'
  BY <1>2 DEF NothingSkipped, CopyRecorded
<1>3. ASSUME NEW r \in Replicas, NEW f \in Flows, WorkStep(r, f), ~Persist(r, f)
      PROVE  \A q \in Replicas, g \in Flows : copy'[q][g].cursor \in {0, cursor[g], copy[q][g].cursor}
  BY <1>3, WorkLocal, CopyFrom DEF Elsewhere
<1>4. ASSUME NEW r \in Replicas, Crash(r)
      PROVE  \A q \in Replicas, g \in Flows : copy'[q][g].cursor \in {0, cursor[g], copy[q][g].cursor}
  BY <1>4, CrashMoves DEF NoCopy
<1>5. CASE \E r \in Replicas, f \in Flows : Persist(r, f)
  BY <1>1, <1>5
<1>6. CASE ~ \E r \in Replicas, f \in Flows : Persist(r, f)
  <2>1. UNCHANGED <<cursor, messages>>
    BY <1>6, RecordStep
  <2>2. \A q \in Replicas, g \in Flows : copy'[q][g].cursor \in {0, cursor[g], copy[q][g].cursor}
    BY <1>3, <1>4, <1>6, WorkMoves
  <2>3. QED
    BY <1>2, <2>1, <2>2
<1>7. QED
  BY <1>5, <1>6

-----------------------------------------------------------------------------
(* The answer of the user.                                                 *)

LEMMA AnsweredStep ==
  ASSUME TypeOK, AnsweredOnce, Next
  PROVE  /\ AnsweredOnce'
         /\ \A f \in Flows : answer[f] # "none" => answer'[f] = answer[f]
<1> USE TypeParts
<1>1. CASE UNCHANGED <<emitted, answer>>
  BY <1>1 DEF AnsweredOnce
<1>2. ASSUME NEW f \in Flows, Emit(f) PROVE AnsweredOnce' /\ UNCHANGED answer
  BY <1>2 DEF Emit, AnsweredOnce, NativeTypes
<1>3. ASSUME NEW f \in Flows, emitted[f] = 1, emitted' = [emitted EXCEPT ![f] = 2],
             NEW a \in {"approved", "denied"}, answer' = [answer EXCEPT ![f] = a]
      PROVE  /\ AnsweredOnce'
             /\ \A g \in Flows : answer[g] # "none" => answer'[g] = answer[g]
  BY <1>3 DEF AnsweredOnce, NativeTypes
<1>4. QED
  BY <1>1, <1>2, <1>3, AnswerStep DEF Answer, Cancel

\* Where an operation can have come from.
LEMMA PlaceStep ==
  ASSUME TypeOK, Begun, NEW r \in Replicas, NEW f \in Flows, WorkStep(r, f)
  PROVE  /\ at'[r][f] # "idle" => at[r][f] # "idle" \/ IsActive(f)
         /\ at'[r][f] \in {"auth", "complete"} =>
              at[r][f] \in {"auth", "complete"} \/ answer[f] = "approved"
         /\ at'[r][f] = "abandon" => at[r][f] = "abandon" \/ f \in fresh[r]
         /\ at'[r][f] = "fail" => at[r][f] = "fail" \/ (at[r][f] = "abandon" /\ Cleaned(f))
         /\ at'[r][f] = "cleanup" => at[r][f] = "cleanup" \/ status'[f] \in Terminal
<1> USE TypeParts
<1> DEFINE Goal == /\ at'[r][f] # "idle" => at[r][f] # "idle" \/ IsActive(f)
                   /\ at'[r][f] \in {"auth", "complete"} =>
                        at[r][f] \in {"auth", "complete"} \/ answer[f] = "approved"
                   /\ at'[r][f] = "abandon" => at[r][f] = "abandon" \/ f \in fresh[r]
                   /\ at'[r][f] = "fail" => at[r][f] = "fail" \/ (at[r][f] = "abandon" /\ Cleaned(f))
                   /\ at'[r][f] = "cleanup" => at[r][f] = "cleanup" \/ status'[f] \in Terminal
<1>1. ASSUME NEW l \in Places, Go(r, f, l) PROVE at'[r][f] = l
  BY <1>1, GoStep
<1>2. ASSUME at[r][f] # "idle", Rest(r, f) \/ Break(r, f) PROVE Goal
  BY <1>2 DEF Rest, Break, Go, WorkTypes
<1>3. CASE UNCHANGED at
  BY <1>3
<1>4. ASSUME NEW s \in Terminal, MarkTerminal(f, s), status[f] # "none"
      PROVE  status'[f] \in Terminal
  BY <1>4, Marked
<1>5. CASE ExpireFirst(r, f)
  <2>1. status[f] # "none" /\ at'[r][f] = "cleanup"
    BY <1>5 DEF ExpireFirst, IsActive, Active, WorkTypes, Places
  <2>2. QED
    BY <1>4, <1>5, <2>1 DEF ExpireFirst, Terminal
<1>6. CASE Begin(r, f)
  <2>1. CASE IsActive(f) /\ MarkTerminal(f, "expired") /\ Go(r, f, "cleanup")
    BY <1>1, <1>4, <2>1 DEF IsActive, Active, Terminal, Places
  <2>2. CASE IsActive(f) /\ Go(r, f, IF status[f] = "starting" THEN "handshake" ELSE "list")
    BY <1>1, <2>2 DEF Places
  <2>3. QED
    BY <1>3, <1>6, <2>1, <2>2 DEF Begin
<1>7. CASE Handshake(r, f) \/ List(r, f) \/ Persist(r, f)
  BY <1>1, <1>2, <1>7 DEF Handshake, List, Persist, Stand, Places
<1>8. CASE Decide(r, f)
  <2>1. at[r][f] # "idle" /\ status[f] # "none"
    BY <1>8 DEF Decide, Stand, Begun
  <2>2. CASE Go(r, f, "list")
    BY <1>1, <2>1, <2>2 DEF Places
  <2>3. CASE Approved(f) /\ Go(r, f, "auth")
    BY <1>1, <2>1, <2>3 DEF Approved, Places
  <2>4. CASE MarkTerminal(f, "failed") /\ Go(r, f, "cleanup")
    BY <1>1, <1>4, <2>1, <2>4 DEF Terminal, Places
  <2>5. QED
    BY <1>2, <1>8, <2>1, <2>2, <2>3, <2>4 DEF Decide
<1>9. CASE ReadAuth(r, f) \/ Complete(r, f)
  BY <1>1, <1>2, <1>9 DEF ReadAuth, Complete, Stand, Terminal, Places, RowTypes
<1>10. CASE Abandon(r, f)
  BY <1>1, <1>10 DEF Abandon, Stand, Places
<1>11. CASE Cleanup(r, f) \/ AbandonMarks(r, f) \/ RpcTimesOut(r, f) \/ CallFails(r, f)
  BY <1>2, <1>11 DEF Cleanup, AbandonMarks, RpcTimesOut, CallFails, Stand
<1>12. QED
  BY <1>3, <1>5, <1>6, <1>7, <1>8, <1>9, <1>10, <1>11 DEF WorkStep, Advance, Follow
-----------------------------------------------------------------------------
(* The parts that follow an operation from place to place.                 *)

\* An operation is left alone, ends, or takes a step of its own.
LEMMA AtStep ==
  ASSUME TypeOK, Next, NEW q \in Replicas, NEW f \in Flows
  PROVE  at'[q][f] = at[q][f] \/ at'[q][f] = "idle" \/ WorkStep(q, f)
BY WorkMoves, WorkLocal, CrashMoves, TypeParts DEF Elsewhere

\* A login that exists, or that has ended, stays so.
LEMMA RowsStay ==
  ASSUME TypeOK, Named, Next, NEW f \in Flows
  PROVE  /\ status[f] # "none" => status'[f] # "none"
         /\ status[f] \in Terminal => status'[f] = status[f]
         /\ runtime[f] => runtime'[f]
<1>1. runtime[f] => runtime'[f]
  BY Writers, TypeParts DEF Attach, RowTypes
<1>2. QED
  BY <1>1, StatusStep, TypeParts DEF StatusGoes, IsActive, Active, Terminal

LEMMA BegunStep ==
  ASSUME TypeOK, Named, Begun, Next
  PROVE  Begun'
<1>1. ASSUME NEW q \in Replicas, NEW f \in Flows, at'[q][f] # "idle" PROVE status[f] # "none"
  BY <1>1, AtStep, PlaceStep DEF Begun, IsActive, Active
<1>2. QED
  BY <1>1, RowsStay DEF Begun

LEMMA ApprovedStep ==
  ASSUME TypeOK, Begun, AnsweredOnce, WorkApproved, StoredIsApproved, Next
  PROVE  WorkApproved' /\ StoredIsApproved'
<1>1. ASSUME NEW f \in Flows, answer[f] = "approved" PROVE answer'[f] = "approved"
  BY <1>1, AnsweredStep
<1>2. ASSUME NEW q \in Replicas, NEW f \in Flows, at'[q][f] \in {"auth", "complete"}
      PROVE  answer[f] = "approved"
  BY <1>2, AtStep, PlaceStep DEF WorkApproved
<1>3. ASSUME NEW q \in Replicas, NEW f \in Flows, Complete(q, f)
      PROVE  answer[f] = "approved" /\ credential' \in {f, credential}
  BY <1>3 DEF Complete, Stand, WorkApproved
<1>4. credential \in Flows \cup {NoFlow}
  BY TypeParts DEF RowTypes
<1>5. credential' # NoFlow => credential' \in Flows /\ answer[credential'] = "approved"
  BY <1>3, <1>4, CredentialStep DEF StoredIsApproved
<1>6. QED
  BY <1>1, <1>2, <1>5 DEF WorkApproved, StoredIsApproved

\* The box of a row that names it does not come back.
LEMMA GoneStays ==
  ASSUME TypeOK, Named, StartUnattached, Next, NEW f \in Flows, runtime[f], box[f] = "gone"
  PROVE  box'[f] = "gone"
<1>1. ASSUME NEW r \in Replicas, Provision(r) PROVE box'[f] = "gone"
  BY <1>1, TypeParts DEF Provision, StartAt, StartUnattached, NativeTypes
<1>2. ASSUME NEW g \in Flows, box' = [box EXCEPT ![g] = "gone"] PROVE box'[f] = "gone"
  BY <1>2, TypeParts DEF NativeTypes
<1>3. ASSUME NEW r \in Replicas, cancel[r].at = "cleanup", Cleaned(cancel[r].flow)
      PROVE  box'[f] = "gone"
  BY <1>2, <1>3 DEF Cleaned, Named
<1>4. QED
  BY <1>1, <1>2, <1>3, BoxStep

LEMMA FreshStep ==
  ASSUME TypeOK, Named, Begun, StartUnattached, FreshAttached, Next
  PROVE  FreshAttached'
<1>1. ASSUME NEW q \in Replicas, NEW f \in Flows, f \in fresh'[q] PROVE runtime'[f]
  <2>1. ASSUME NEW r \in Replicas, Attach(r) PROVE f \in fresh[q] \/ runtime'[f]
    BY <1>1, <2>1, TypeParts DEF Attach, StartAt, Named, WorkTypes, RowTypes
  <2>2. f \in fresh[q] \/ runtime'[f]
    BY <1>1, <2>1, WorkMoves, WorkLocal, CrashMoves, TypeParts DEF Elsewhere
  <2>3. QED
    BY <2>2, RowsStay DEF FreshAttached
<1>2. ASSUME NEW q \in Replicas, NEW f \in Flows, at'[q][f] \in {"abandon", "fail"}
      PROVE  runtime[f]
  BY <1>2, AtStep, PlaceStep DEF FreshAttached
<1>3. ASSUME NEW q \in Replicas, NEW f \in Flows, at'[q][f] = "fail" PROVE box'[f] = "gone"
  <2>1. CASE at[q][f] = "fail"
    BY <1>2, <1>3, <2>1, GoneStays DEF FreshAttached
  <2>2. CASE Cleaned(f)
    BY <1>2, <1>3, <2>2, TypeParts DEF Cleaned, NativeTypes
  <2>3. QED
    BY <1>3, <2>1, <2>2, AtStep, PlaceStep
<1>4. QED
  BY <1>1, <1>2, <1>3, RowsStay DEF FreshAttached

LEMMA CleaningStep ==
  ASSUME TypeOK, Named, Begun, CleaningIsOver, Next
  PROVE  CleaningIsOver'
<1>1. ASSUME NEW q \in Replicas, NEW f \in Flows, at'[q][f] = "cleanup"
      PROVE  status'[f] \in Terminal
  BY <1>1, AtStep, PlaceStep, RowsStay DEF CleaningIsOver
<1>2. ASSUME NEW q \in Replicas, cancel'[q].at = "cleanup"
      PROVE  status'[cancel'[q].flow] \in Terminal
  <2>1. CASE cancel'[q] = cancel[q]
    BY <1>2, <2>1, RowsStay DEF CleaningIsOver, Named
  <2>2. CASE CancelMarks(q) /\ cancel'[q] = [flow |-> cancel[q].flow, at |-> "cleanup"]
    <3>1. cancel[q].flow \in Flows /\ status[cancel[q].flow] # "none"
      BY <2>2 DEF CancelMarks, Named
    <3>2. status'[cancel[q].flow] \in Terminal
      BY <2>2, <3>1, Marked, TypeParts DEF CancelMarks, Terminal
    <3>3. QED
      BY <2>2, <3>2
  <2>3. \/ cancel'[q] = cancel[q]
        \/ CancelMarks(q) /\ cancel'[q] = [flow |-> cancel[q].flow, at |-> "cleanup"]
    <3>1. ASSUME cancel'[q] # cancel[q]
          PROVE  \/ cancel'[q] = Nobody
                 \/ CancelMarks(q) /\ cancel'[q] = [flow |-> cancel[q].flow, at |-> "cleanup"]
                 \/ \E f \in Flows : Cancel(q, f) /\ cancel'[q] = [flow |-> f, at |-> "mark"]
      BY <3>1, SideStep, CancelMoves, TypeParts
    <3>2. cancel'[q] # Nobody
      BY <1>2 DEF Nobody
    <3>3. \A f \in Flows : cancel'[q] # [flow |-> f, at |-> "mark"]
      BY <1>2
    <3>4. QED
      BY <3>1, <3>2, <3>3
  <2>4. QED
    BY <2>1, <2>2, <2>3
<1>3. QED
  BY <1>1, <1>2 DEF CleaningIsOver
-----------------------------------------------------------------------------
(* Who ends a login, and what becomes of its box.                          *)

LEMMA NoFaults ==
  ASSUME TypeOK, Next, faults' = 0
  PROVE  faults = 0
BY Writers, TypeParts DEF SideTypes

LEMMA UndisturbedStep ==
  ASSUME TypeOK, Named, StartUnattached, Undisturbed, Next
  PROVE  Undisturbed'
<1> USE TypeParts
<1>1. SUFFICES ASSUME faults' = 0
               PROVE  \A r \in Replicas :
                        /\ up'[r] = "up"
                        /\ start'[r].at = "fail" => status'[start'[r].flow] \in Terminal
  BY DEF Undisturbed
<1>2. faults = 0 /\ faults \in Nat
  BY <1>1, NoFaults DEF SideTypes
<1>3. ASSUME NEW r \in Replicas PROVE ~LifeStep(r)
  BY <1>1, <1>2 DEF LifeStep, Crash, Booting, Boot, ExpireOnBoot, FailInterrupted, Resume,
     Undisturbed
<1>4. UNCHANGED up
  BY <1>3, Steps, OutsideKeeps, StartKeeps, CancelKeeps, WorkKeeps
<1>5. ASSUME NEW q \in Replicas, start'[q].at = "fail"
      PROVE  status'[start'[q].flow] \in Terminal
  <2>1. CASE start'[q] = start[q]
    BY <1>2, <1>5, <2>1, RowsStay DEF Undisturbed, Named
  <2>2. CASE start'[q] # start[q]
    <3>1. StartStep(q) /\ StartMoved(q)
      BY <1>3, <2>2, SideStep, StartMoves DEF StartMove, LifeStep
    <3>2. AttachRefused(q)
      BY <1>1, <1>2, <1>5, <3>1
      DEF StartStep, Starting, Create, Provision, ProvisionFails, Attach, StartFails, StartGoes,
          Nobody, SideTypes
    <3>3. /\ start[q].flow \in Flows /\ status[start[q].flow] \in Terminal
          /\ start'[q].flow = start[q].flow
      BY <3>2 DEF AttachRefused, StartAt, StartGoes, StartUnattached, Named, SideTypes
    <3>4. QED
      BY <3>3, RowsStay
  <2>3. QED
    BY <2>1, <2>2
<1>6. QED
  BY <1>2, <1>4, <1>5 DEF Undisturbed

LEMMA EndStep ==
  ASSUME TypeOK, Named, Begun, Next, NEW f \in Flows, IsActive(f), status'[f] \in Terminal
  PROVE  \E r \in Replicas :
           \/ at'[r][f] = "cleanup"
           \/ cancel'[r] = [flow |-> f, at |-> "cleanup"]
           \/ StartFails(r) /\ start[r].flow = f
           \/ ExpireOnBoot(r) \/ FailInterrupted(r)
           \/ AbandonMarks(r, f)
<1> USE TypeParts
<1>1. status'[f] # status[f]
  BY DEF IsActive, Active, Terminal
<1>2. ASSUME NEW g \in Flows, NEW s \in Terminal, MarkTerminal(g, s) PROVE g = f
  BY <1>1, <1>2, Marked
<1>3. ASSUME NEW r \in Replicas, NEW g \in Flows, Go(r, g, "cleanup"), g = f
      PROVE  at'[r][f] = "cleanup"
  BY <1>3, GoStep DEF Places
<1>4. ASSUME NEW g \in Flows PROVE ~Outside(g)
  BY <1>1, OutsideKeeps
<1>5. ASSUME NEW r \in Replicas, StartStep(r) PROVE StartFails(r) /\ start[r].flow = f
  <2>1. CASE StartFails(r)
    BY <1>2, <2>1 DEF StartFails, StartAt, Named, Terminal
  <2>2. ~Attach(r) /\ \A g \in Flows : ~Create(r, g)
    BY <1>1 DEF Attach, Create, StartAt, Named, RowTypes, Terminal
  <2>3. QED
    BY <1>1, <1>5, <2>1, <2>2 DEF StartStep, Starting, Provision, ProvisionFails, AttachRefused, row
<1>6. ASSUME NEW r \in Replicas, CancelStep(r)
      PROVE  cancel'[r] = [flow |-> f, at |-> "cleanup"]
  <2>1. CancelMarks(r)
    BY <1>1, <1>6 DEF CancelStep, Cancelling, CancelCleans, Cancel, row
  <2>2. cancel[r].flow = f
    BY <1>2, <2>1 DEF CancelMarks, Named, Terminal
  <2>3. \/ cancel'[r] = Nobody
        \/ cancel'[r] = [flow |-> cancel[r].flow, at |-> "cleanup"]
        \/ \E g \in Flows : cancel'[r] = [flow |-> g, at |-> "mark"]
    BY <1>6, CancelMoves
  <2>4. cancel'[r].at = "cleanup"
    BY <2>1 DEF CancelMarks, SideTypes
  <2>5. cancel'[r] # Nobody /\ \A g \in Flows : cancel'[r] # [flow |-> g, at |-> "mark"]
    BY <2>4 DEF Nobody
  <2>6. QED
    BY <2>2, <2>3, <2>5
<1>7. ASSUME NEW r \in Replicas, LifeStep(r) PROVE ExpireOnBoot(r) \/ FailInterrupted(r)
  BY <1>1, <1>7 DEF LifeStep, Crash, Booting, Boot, Resume, row
<1>8. ASSUME NEW r \in Replicas, NEW g \in Flows, WorkStep(r, g)
      PROVE  at'[r][f] = "cleanup" \/ AbandonMarks(r, f)
  <2>1. CASE ExpireFirst(r, g)
    <3>1. g = f
      BY <1>2, <2>1 DEF ExpireFirst, Terminal
    <3>2. QED
      BY <2>1, <3>1 DEF ExpireFirst, WorkTypes
  <2>2. CASE Begin(r, g)
    BY <1>1, <1>2, <1>3, <2>2 DEF Begin, Terminal
  <2>3. CASE Decide(r, g)
    <3>1. status' # [status EXCEPT ![g] = "awaiting"]
      BY DEF RowTypes, IsActive, Active, Terminal
    <3>2. QED
      BY <1>1, <1>2, <1>3, <2>3, <3>1 DEF Decide, Terminal
  <2>4. CASE Complete(r, g)
    <3>1. g = f /\ Go(r, g, "cleanup")
      BY <1>1, <2>4 DEF Complete, RowTypes
    <3>2. QED
      BY <1>3, <3>1
  <2>5. CASE AbandonMarks(r, g)
    BY <1>2, <2>5 DEF AbandonMarks, Terminal
  <2>6. QED
    BY <1>1, <1>8, <2>1, <2>2, <2>3, <2>4, <2>5
    DEF WorkStep, Advance, Handshake, List, Persist, ReadAuth, Cleanup, Abandon, Follow,
        RpcTimesOut, CallFails, row
<1>9. QED
  BY <1>4, <1>5, <1>6, <1>7, <1>8, Steps
\* A deletion that was begun goes on, unless it has deleted the box or has failed.
LEMMA CleaningGoes ==
  ASSUME TypeOK, Named, Next, faults' = faults, NEW r \in Replicas, NEW f \in Flows
  PROVE  /\ at[r][f] = "cleanup" => at'[r][f] = "cleanup" \/ Cleaned(f)
         /\ cancel[r] = [flow |-> f, at |-> "cleanup"] => cancel'[r] = cancel[r] \/ Cleaned(f)
<1> USE TypeParts
<1>1. faults' # faults + 1
  BY DEF SideTypes
<1>2. \A q \in Replicas : ~Crash(q)
  BY <1>1 DEF Crash
<1>3. ASSUME at[r][f] = "cleanup", ~Cleaned(f) PROVE at'[r][f] = "cleanup"
  <2>1. ASSUME WorkStep(r, f) PROVE at'[r][f] = "cleanup"
    <3>1. /\ ~CallFails(r, f) /\ ~Cleanup(r, f) /\ ~ExpireFirst(r, f) /\ ~RpcTimesOut(r, f)
          /\ ~Begin(r, f) /\ ~Handshake(r, f) /\ ~List(r, f) /\ ~Persist(r, f) /\ ~Decide(r, f)
          /\ ~ReadAuth(r, f) /\ ~Complete(r, f) /\ ~Abandon(r, f) /\ ~AbandonMarks(r, f)
      BY <1>1, <1>3 DEF CallFails, Cleanup, ExpireFirst, RpcTimesOut, Begin, Handshake, List, Persist,
         Decide, ReadAuth, Complete, Abandon, AbandonMarks, Stand
    <3>2. Follow(r, f)
      BY <2>1, <3>1 DEF WorkStep, Advance
    <3>3. QED
      BY <1>3, <3>2 DEF Follow
  <2>2. QED
    BY <1>2, <1>3, <2>1, WorkMoves, WorkLocal DEF Elsewhere
<1>4. ASSUME cancel[r] = [flow |-> f, at |-> "cleanup"], ~Cleaned(f) PROVE cancel'[r] = cancel[r]
  <2>1. cancel[r].at = "cleanup" /\ cancel[r].flow = f /\ cancel[r] # Nobody
    BY <1>4 DEF Nobody
  <2>2. ASSUME CancelStep(r) PROVE FALSE
    BY <1>4, <2>1, <2>2 DEF CancelStep, Cancelling, Cancel, CancelMarks, CancelCleans
  <2>3. QED
    BY <1>2, <2>2, SideStep, CancelMoves
<1>5. QED
  BY <1>3, <1>4

LEMMA BoxDeletedStep ==
  ASSUME TypeOK, Named, Begun, OneStarter, StartUnattached, FreshAttached, Undisturbed,
         BoxDeleted, Next
  PROVE  BoxDeleted'
<1> USE TypeParts
<1>1. SUFFICES ASSUME NEW f \in Flows, faults' = 0, runtime'[f], status'[f] \in Terminal,
                      box'[f] = "up"
               PROVE  \E r \in Replicas :
                        at'[r][f] = "cleanup" \/ cancel'[r] = [flow |-> f, at |-> "cleanup"]
  BY DEF BoxDeleted
<1>2. faults = 0 /\ faults' = faults
  BY <1>1, NoFaults
<1>3. CASE status[f] \in Terminal
  <2>1. runtime[f]
    <3>1. ASSUME NEW r \in Replicas, Attach(r) PROVE runtime'[f] = runtime[f]
      BY <1>1, <3>1 DEF Attach, StartAt, Named, RowTypes, Terminal
    <3>2. QED
      BY <1>1, <3>1, Writers
  <2>2. ~Cleaned(f)
    BY <1>1, <2>1 DEF Cleaned, NativeTypes
  <2>3. box[f] = "up"
    <3>1. ASSUME NEW r \in Replicas, Provision(r) PROVE box'[f] = box[f]
      BY <2>1, <3>1 DEF Provision, StartAt, StartUnattached, NativeTypes
    <3>2. ASSUME NEW g \in Flows, box' = [box EXCEPT ![g] = "gone"] PROVE box'[f] = box[f]
      BY <1>1, <3>2 DEF NativeTypes
    <3>3. ASSUME NEW r \in Replicas, cancel[r].at = "cleanup", Cleaned(cancel[r].flow)
          PROVE  box'[f] = box[f]
      BY <3>2, <3>3 DEF Cleaned, Named
    <3>4. QED
      BY <1>1, <3>1, <3>2, <3>3, BoxStep
  <2>4. PICK r \in Replicas :
          at[r][f] = "cleanup" \/ cancel[r] = [flow |-> f, at |-> "cleanup"]
    BY <1>2, <1>3, <2>1, <2>3 DEF BoxDeleted
  <2>5. QED
    BY <1>2, <2>2, <2>4, CleaningGoes
<1>4. CASE status[f] \notin Terminal
  <2>1. IsActive(f)
    BY <1>1, <1>4, StatusStep DEF StatusGoes, IsActive, Active, Terminal
  <2>2. ASSUME NEW r \in Replicas
        PROVE  ~ExpireOnBoot(r) /\ ~FailInterrupted(r)
    BY <1>2 DEF Undisturbed, ExpireOnBoot, FailInterrupted
  <2>3. ASSUME NEW r \in Replicas, start[r].flow = f PROVE ~StartFails(r)
    BY <1>2, <1>4, <2>3 DEF Undisturbed, StartFails, StartAt
  <2>4. ASSUME NEW r \in Replicas PROVE ~AbandonMarks(r, f)
    BY <1>1 DEF AbandonMarks, Stand, FreshAttached, native
  <2>5. QED
    BY <1>1, <2>1, <2>2, <2>3, <2>4, EndStep
<1>5. QED
  BY <1>3, <1>4

-----------------------------------------------------------------------------
(* The invariant is inductive.                                             *)

LEMMA InductiveInit ==
  ASSUME Init
  PROVE  Inductive
<1> USE DEF Init, Each
<1>1. NoCopy \in Copies /\ NoCopy.cursor = 0
  BY DEF NoCopy, Copies
<1>2. /\ Nobody.at = "idle"
      /\ Nobody \in [flow : Flows \cup {NoFlow}, at : {"idle", "provision", "attach", "fail"}]
      /\ Nobody \in [flow : Flows \cup {NoFlow}, at : {"idle", "mark", "cleanup"}]
  BY DEF Nobody
<1>3. RowTypes /\ NativeTypes
  BY DEF RowTypes, NativeTypes
<1>4. SideTypes
  BY <1>2 DEF SideTypes
<1>5. WorkTypes
  BY <1>1 DEF WorkTypes, Places
<1>6. TypeOK
  BY <1>3, <1>4, <1>5, TypeParts
<1>7. OneActive /\ Begun /\ BoxDeleted
  BY DEF OneActive, Begun, BoxDeleted, IsActive, Active, Terminal
<1>8. Named /\ OneStarter /\ StartUnattached
  BY <1>2 DEF Named, OneStarter, StartUnattached
<1>9. NothingSkipped /\ CopyRecorded
  BY <1>1 DEF NothingSkipped, CopyRecorded
<1>10. AnsweredOnce /\ WorkApproved /\ StoredIsApproved /\ FreshAttached
  BY DEF AnsweredOnce, WorkApproved, StoredIsApproved, FreshAttached
<1>11. CleaningIsOver /\ Undisturbed
  BY <1>2 DEF CleaningIsOver, Undisturbed
<1>12. QED
  BY <1>6, <1>7, <1>8, <1>9, <1>10, <1>11 DEF Inductive

LEMMA InductiveNext ==
  ASSUME Inductive, [Next]_vars
  PROVE  Inductive'
<1> USE DEF Inductive
<1>1. CASE Next
  <2>1. RowTypes' /\ NativeTypes' /\ SideTypes' /\ WorkTypes'
    BY <1>1, RowTypesStep, NativeTypesStep, SideTypesStep, WorkTypesStep
  <2>2. TypeOK'
    BY <2>1 DEF TypeOK, RowTypes, NativeTypes, SideTypes, WorkTypes, Copies
  <2>3. OneActive' /\ Named' /\ Begun' /\ OneStarter' /\ StartUnattached'
    BY <1>1, OneActiveStep, NamedStep, BegunStep, OneStarterStep, StartUnattachedStep
  <2>4. NothingSkipped' /\ CopyRecorded' /\ AnsweredOnce' /\ WorkApproved' /\ StoredIsApproved'
    BY <1>1, RecordedStep, AnsweredStep, ApprovedStep
  <2>5. FreshAttached' /\ CleaningIsOver' /\ Undisturbed' /\ BoxDeleted'
    BY <1>1, FreshStep, CleaningStep, UndisturbedStep, BoxDeletedStep
  <2>6. QED
    BY <2>2, <2>3, <2>4, <2>5
<1>2. CASE UNCHANGED vars
  BY <1>2 DEF vars, row, native, codex, work, TypeOK, OneActive, Named, Begun, OneStarter,
     StartUnattached, NothingSkipped, CopyRecorded, AnsweredOnce, WorkApproved,
     StoredIsApproved, FreshAttached, CleaningIsOver, Undisturbed, BoxDeleted, IsActive
<1>3. QED
  BY <1>1, <1>2
-----------------------------------------------------------------------------

(* Every reachable state of device logins satisfies the inductive           *)
(* invariant, whatever starts, workers, cancellations and restarts meet.    *)
THEOREM InductiveHolds == Spec => []Inductive
<1>1. Init => Inductive
  BY InductiveInit
<1>2. Inductive /\ [Next]_vars => Inductive'
  BY InductiveNext
<1>3. QED
  BY <1>1, <1>2, PTL DEF Spec

(* The rows, boxes, starts, cancellations and operations keep their types.  *)
THEOREM TypeCorrect == Spec => []TypeOK
<1>1. Inductive => TypeOK
  BY DEF Inductive
<1>2. QED
  BY <1>1, InductiveHolds, PTL

(* saveProtocolMessages never moves the cursor past an event that is not    *)
(* recorded, also when workers of two replicas page through the same box.   *)
THEOREM NothingSkippedHolds == Spec => []NothingSkipped
<1>1. Inductive => NothingSkipped
  BY DEF Inductive
<1>2. QED
  BY <1>1, InductiveHolds, PTL

(* complete stores a credential only for a login that its user approved.    *)
THEOREM StoredIsApprovedHolds == Spec => []StoredIsApproved
<1>1. Inductive => StoredIsApproved
  BY DEF Inductive
<1>2. QED
  BY <1>1, InductiveHolds, PTL

(* While nothing fails, the box of a login that has ended is deleted, or    *)
(* somebody is about to delete it.                                          *)
THEOREM BoxDeletedHolds == Spec => []BoxDeleted
<1>1. Inductive => BoxDeleted
  BY DEF Inductive
<1>2. QED
  BY <1>1, InductiveHolds, PTL

-----------------------------------------------------------------------------
(* The rows implement LoginPromise.                                        *)

Outcome(s) ==
  IF s = "none" THEN "none"
  ELSE IF s \in Active THEN "open" ELSE IF s = "completed" THEN "completed" ELSE "ended"
Outcomes == [f \in Flows |->
  IF status[f] = "none" THEN "none"
  ELSE IF IsActive(f) THEN "open" ELSE IF status[f] = "completed" THEN "completed" ELSE "ended"]

LEMMA OutcomeOf ==
  /\ \A f \in Flows : Outcomes[f] = Outcome(status[f])
  /\ \A f \in Flows : Outcomes'[f] = Outcome(status'[f])
BY DEF Outcomes, Outcome, IsActive

\* The steps of the promise, row by row.
LEMMA PromiseSteps ==
  ASSUME NEW f \in Flows, \A g \in Flows \ {f} : Outcomes'[g] = Outcomes[g],
         \/ Outcomes'[f] = Outcomes[f] /\ UNCHANGED credential
         \/ /\ Outcomes[f] = "none" /\ Outcomes'[f] = "open" /\ UNCHANGED credential
            /\ \A g \in Flows : Outcomes[g] # "open"
         \/ Outcomes[f] = "open" /\ Outcomes'[f] = "completed" /\ credential' = f
         \/ Outcomes[f] = "open" /\ Outcomes'[f] = "ended" /\ UNCHANGED credential
  PROVE  [Promise!Next]_(Promise!vars)
<1>1. CASE Outcomes'[f] = Outcomes[f] /\ UNCHANGED credential
  <2>1. Outcomes' = Outcomes
    BY <1>1 DEF Outcomes
  <2>2. QED
    BY <1>1, <2>1 DEF Promise!vars, Outcomes
<1>2. ASSUME NEW o, Outcomes'[f] = o PROVE Outcomes' = [Outcomes EXCEPT ![f] = o]
  BY <1>2 DEF Outcomes
<1>3. QED
  BY <1>1, <1>2 DEF Promise!Next, Promise!Open, Promise!Complete, Promise!End, Outcomes
LEMMA PromiseStutter ==
  ASSUME \A f \in Flows : Outcomes'[f] = Outcomes[f], UNCHANGED credential
  PROVE  [Promise!Next]_(Promise!vars)
<1>1. Outcomes' = Outcomes
  BY DEF Outcomes
<1>2. QED
  BY <1>1 DEF Promise!vars, Outcomes

\* A login is completed by the step that stores its credential, and by no other.
LEMMA CompletedStep ==
  ASSUME TypeOK, Named, Next, NEW f \in Flows, status'[f] = "completed", status[f] # "completed"
  PROVE  \E r \in Replicas : Complete(r, f)
<1> USE TypeParts
<1> DEFINE Others == Terminal \ {"completed"}
<1>1. ASSUME NEW g \in Flows, NEW s \in Others PROVE ~MarkTerminal(g, s)
  BY <1>1, Marked
<1>2. {"expired", "failed", "cancelled"} \subseteq Others
  BY DEF Terminal
<1>3. ASSUME NEW g \in Flows PROVE ~Outside(g)
  BY OutsideKeeps
<1>4. ASSUME NEW r \in Replicas PROVE ~StartStep(r)
  <2>1. ~Attach(r) /\ \A g \in Flows : ~Create(r, g)
    BY DEF Attach, Create, StartAt, Named, RowTypes
  <2>2. ~StartFails(r)
    BY <1>1, <1>2 DEF StartFails, StartAt, Named
  <2>3. QED
    BY <2>1, <2>2 DEF StartStep, Starting, Provision, ProvisionFails, AttachRefused, row
<1>5. ASSUME NEW r \in Replicas PROVE ~CancelStep(r)
  BY <1>1, <1>2 DEF CancelStep, Cancelling, CancelMarks, CancelCleans, Cancel, Named, row
<1>6. ASSUME NEW r \in Replicas PROVE ~LifeStep(r)
  <2>1. ~FailInterrupted(r)
    BY DEF FailInterrupted
  <2>2. ~ExpireOnBoot(r)
    BY <1>1, <1>2 DEF ExpireOnBoot
  <2>3. QED
    BY <2>1, <2>2 DEF LifeStep, Crash, Booting, Boot, Resume, row
<1>7. ASSUME NEW r \in Replicas, NEW g \in Flows, WorkStep(r, g) PROVE Complete(r, f)
  <2>1. ~ExpireFirst(r, g) /\ ~Begin(r, g) /\ ~AbandonMarks(r, g)
    BY <1>1, <1>2 DEF ExpireFirst, Begin, AbandonMarks
  <2>2. ~Decide(r, g)
    <3>1. status' # [status EXCEPT ![g] = "awaiting"]
      BY DEF RowTypes
    <3>2. QED
      BY <1>1, <1>2, <3>1 DEF Decide
  <2>3. CASE Complete(r, g)
    BY <2>3 DEF Complete, RowTypes
  <2>4. QED
    BY <1>7, <2>1, <2>2, <2>3
    DEF WorkStep, Advance, Handshake, List, Persist, ReadAuth, Cleanup, Abandon, Follow,
        RpcTimesOut, CallFails, row
<1>8. QED
  BY <1>3, <1>4, <1>5, <1>6, <1>7, Steps

LEMMA PromiseNext ==
  ASSUME Inductive, [Next]_vars
  PROVE  [Promise!Next]_(Promise!vars)
<1> USE TypeParts, OutcomeOf DEF Inductive
<1>1. CASE UNCHANGED vars
  BY <1>1, PromiseStutter DEF vars, row
<1>2. ASSUME NEW r \in Replicas, NEW f \in Flows, Complete(r, f)
      PROVE  [Promise!Next]_(Promise!vars)
  <2>1. CASE UNCHANGED <<status, credential>>
    BY <2>1, PromiseStutter
  <2>2. CASE IsActive(f) /\ status' = [status EXCEPT ![f] = "completed"] /\ credential' = f
    <3>1. Outcomes[f] = "open" /\ Outcomes'[f] = "completed"
      BY <2>2 DEF Outcome, IsActive, Active, RowTypes
    <3>2. \A g \in Flows \ {f} : Outcomes'[g] = Outcomes[g]
      BY <2>2 DEF RowTypes
    <3>3. QED
      BY <2>2, <3>1, <3>2, PromiseSteps
  <2>3. QED
    BY <1>2, <2>1, <2>2 DEF Complete, MayComplete
<1>3. ASSUME Next, \A r \in Replicas, f \in Flows : ~Complete(r, f)
      PROVE  [Promise!Next]_(Promise!vars)
  <2>1. UNCHANGED credential
    BY <1>3, CredentialStep
  <2>2. CASE \A f \in Flows : Outcomes'[f] = Outcomes[f]
    BY <2>1, <2>2, PromiseStutter
  <2>3. ASSUME NEW f \in Flows, Outcomes'[f] # Outcomes[f]
        PROVE  [Promise!Next]_(Promise!vars)
    <3>1. CASE /\ status[f] = "none" /\ status'[f] = "provisioning" /\ NoneActive(f)
               /\ \A g \in Flows \ {f} : status'[g] = status[g]
      <4>1. Outcomes[f] = "none" /\ Outcomes'[f] = "open"
        BY <3>1 DEF Outcome, Active
      <4>2. \A g \in Flows : Outcomes[g] # "open"
        BY <3>1 DEF Outcome, NoneActive, IsActive
      <4>3. QED
        BY <2>1, <3>1, <4>1, <4>2, PromiseSteps
    <3>2. CASE IsActive(f) /\ status'[f] \in Terminal
      <4>1. status'[f] # "completed"
        BY <1>3, <3>2, CompletedStep DEF IsActive, Active
      <4>2. Outcomes[f] = "open" /\ Outcomes'[f] = "ended"
        BY <3>2, <4>1 DEF Outcome, IsActive, Active, Terminal
      <4>3. ASSUME NEW g \in Flows \ {f} PROVE Outcomes'[g] = Outcomes[g]
        <5>1. ~IsActive(g) /\ ~NoneActive(g)
          BY <3>2 DEF OneActive, NoneActive
        <5>2. status'[g] = status[g]
          BY <1>3, <5>1, StatusStep DEF StatusGoes, IsActive, Active
        <5>3. QED
          BY <5>2
      <4>4. QED
        BY <2>1, <4>2, <4>3, PromiseSteps
    <3>3. QED
      BY <1>3, <2>3, <3>1, <3>2, StatusStep DEF StatusGoes, Outcome, Active
  <2>4. QED
    BY <2>2, <2>3
<1>4. QED
  BY <1>1, <1>2, <1>3

LEMMA PromiseInit ==
  ASSUME Init
  PROVE  Promise!Init
BY DEF Init, Each, Promise!Init

(* One login of the Environment is open at a time, it ends once, and the     *)
(* credential is replaced by the step that completes a login, whatever       *)
(* replica still polls it: device logins implement LoginPromise.             *)
THEOREM PromiseKept == Spec => KeepsPromise
<1>1. Init => Promise!Init
  BY PromiseInit
<1>2. Inductive /\ [Next]_vars => [Promise!Next]_(Promise!vars)
  BY PromiseNext
<1>3. QED
  BY <1>1, <1>2, InductiveHolds, PTL DEF Spec, KeepsPromise, Promise!Spec
=============================================================================
