------------------------ MODULE EnvironmentForkProofs ------------------------
(***************************************************************************)
(* The fork saga keeps its inductive invariant, whatever the numbers of    *)
(* processes, requests and failures; its safety properties follow.         *)
(***************************************************************************)
EXTENDS EnvironmentForkInvariant, FiniteSetTheorems, TLAPS

Ops      == [phase : Pending \cup {"none", "completed", "failed"},
             sandbox : BOOLEAN, bound : BOOLEAN]
Rows     == [status : {"none", "updating", "ready", "error"}, sandbox : BOOLEAN]
Children == [state : {"none", "paused", "deleted"}, restored : BOOLEAN, stripped : BOOLEAN]

RowTypes ==
  /\ op \in [Targets -> Ops]
  /\ \A t \in Targets : op[t].phase \in {"native-ready", "completed"} => op[t].sandbox
  /\ target \in [Targets -> Rows]
CloudTypes == child \in [Targets -> Children] /\ strays \subseteq Calls \X Targets
LocalTypes ==
  /\ held \in [Names -> Procs \cup {NoProc}]
  /\ pc \in [Procs -> Labels] /\ kind \in [Procs -> {"none", "request", "recovery"}]
  /\ at \in [Procs -> Targets \cup {NoTarget}] /\ lock \in [Procs -> Names]
RestTypes ==
  /\ named \in BOOLEAN /\ snapshot \in BOOLEAN
  /\ key \in [resource : Targets \cup {NoTarget}, done : BOOLEAN]
  /\ answers \subseteq Targets
  /\ source \in [row : {"ready", "terminated", "removed"}, alive : BOOLEAN]
  /\ requests \in Nat /\ faults \in Nat

LEMMA TypeParts == TypeOK <=> RowTypes /\ CloudTypes /\ LocalTypes /\ RestTypes
BY DEF TypeOK, RowTypes, CloudTypes, LocalTypes, RestTypes, Ops, Rows, Children
-----------------------------------------------------------------------------
(* What the steps of a process do to its own variables.                    *)

LEMMA FinishLocal ==
  ASSUME LocalTypes, NEW p \in Procs, Finish(p)
  PROVE  /\ LocalTypes'
         /\ pc'[p] = "free" /\ at'[p] = NoTarget /\ lock'[p] = Source
         /\ \A q \in Procs \ {p} :
              /\ pc'[q] = pc[q] /\ at'[q] = at[q] /\ lock'[q] = lock[q]
              /\ Holds(q)' <=> Holds(q)
BY ForkAssumption DEF LocalTypes, Finish, Goto, Unlock, Forget, Holds, Names, Labels

LEMMA UnlockLocal ==
  ASSUME LocalTypes, NEW p \in Procs, Unlock(p), UNCHANGED lock
  PROVE  /\ held' \in [Names -> Procs \cup {NoProc}]
         /\ ~Holds(p)'
         /\ \A q \in Procs \ {p} : Holds(q)' <=> Holds(q)
BY ForkAssumption DEF LocalTypes, Unlock, Holds, Names

LEMMA GotoLocal ==
  ASSUME LocalTypes, NEW p \in Procs, NEW l \in Labels, Goto(p, l),
         UNCHANGED <<held, local>>
  PROVE  /\ LocalTypes'
         /\ pc'[p] = l
         /\ \A q \in Procs \ {p} : pc'[q] = pc[q]
BY DEF LocalTypes, Goto, local
-----------------------------------------------------------------------------
(* Types, part by part.                                                    *)

\* Who writes the journal and the rows of the targets.
LEMMA RowsStep ==
  ASSUME Next
  PROVE  \/ UNCHANGED rows
         \/ \E p \in Procs : CreateTarget(p) \/ FailFork(p) \/ MarkStarted(p)
                             \/ Record(p) \/ Publish(p)
         \/ RemoveSource \/ \E t \in Targets : DeleteTarget(t) \/ RetryTarget(t)
<1>1. ASSUME NEW p \in Procs, Progress(p)
      PROVE  \/ UNCHANGED rows
             \/ CreateTarget(p) \/ FailFork(p) \/ MarkStarted(p) \/ Record(p) \/ Publish(p)
  BY <1>1 DEF Progress, Claim, Replay, Acquire, Enter, CreateRefused, Recover, Resume,
     BeforeFork, BeforeForkRefused, CallLands, CallRefused, PublishRefused, Return,
     CompleteKey, Abort
<1>2. ASSUME NEW p \in Procs, Request(p) \/ GiveUpWaiting(p) \/ Failure(p) PROVE UNCHANGED rows
  BY <1>2 DEF Request, GiveUpWaiting, Failure, CallFails, Crash, LoseConnection
<1>3. ASSUME StrayLands PROVE UNCHANGED rows
  BY <1>3 DEF StrayLands
<1>4. ASSUME Surroundings
      PROVE  \/ UNCHANGED rows \/ RemoveSource
             \/ \E t \in Targets : DeleteTarget(t) \/ RetryTarget(t)
  BY <1>4 DEF Surroundings, TerminateSource, DeleteSourceSandbox, PruneSnapshot
<1>5. QED
  BY <1>1, <1>2, <1>3, <1>4 DEF Next

LEMMA RowTypesStep ==
  ASSUME RowTypes, Placed, Next
  PROVE  RowTypes'
<1> USE ForkAssumption
<1>1. CASE UNCHANGED rows
  BY <1>1 DEF RowTypes, rows
<1>2. ASSUME NEW p \in Procs, CreateTarget(p) \/ FailFork(p) \/ MarkStarted(p) \/ Publish(p)
      PROVE  RowTypes'
  <2>1. at[p] \in Targets
    BY <1>2 DEF Placed, CreateTarget, FailFork, MarkStarted, Publish
  <2>2. CASE CreateTarget(p)
    BY <2>1, <2>2 DEF CreateTarget, RowTypes, Ops, Rows, Pending
  <2>3. CASE FailFork(p)
    BY <2>1, <2>3 DEF FailFork, RowTypes, Ops, Rows, Pending
  <2>4. CASE MarkStarted(p)
    BY <2>1, <2>4 DEF MarkStarted, RowTypes, Ops, Pending
  <2>5. CASE Publish(p)
    BY <2>1, <2>5 DEF Publish, MayPublish, RowTypes, Ops, Rows, Pending
  <2>6. QED
    BY <1>2, <2>2, <2>3, <2>4, <2>5
<1>3. ASSUME NEW p \in Procs, Record(p) PROVE RowTypes'
  <2>1. CASE op[at[p]].phase \in Pending
    <3>1. at[p] \in Targets /\ op[at[p]] \in Ops
      BY <1>3 DEF Record, Placed, RowTypes
    <3>2. Recorded(op[at[p]]) \in Ops /\ Recorded(op[at[p]]).sandbox
      BY <3>1 DEF Recorded, Ops, Pending
    <3>3. /\ op' = [op EXCEPT ![at[p]] = Recorded(op[at[p]])]
          /\ target' = [target EXCEPT ![at[p]].sandbox = TRUE]
      BY <1>3, <2>1 DEF Record
    <3>4. op' \in [Targets -> Ops]
      BY <3>1, <3>2, <3>3 DEF RowTypes
    <3>5. \A t \in Targets : op'[t].phase \in {"native-ready", "completed"} => op'[t].sandbox
      BY <3>1, <3>2, <3>3 DEF RowTypes
    <3>6. target' \in [Targets -> Rows]
      BY <3>1, <3>3 DEF RowTypes, Rows
    <3>7. QED
      BY <3>4, <3>5, <3>6 DEF RowTypes
  <2>2. CASE op[at[p]].phase \notin Pending
    BY <1>3, <2>2 DEF Record, RowTypes, rows
  <2>3. QED
    BY <2>1, <2>2
<1>4. CASE RemoveSource
  <2>1. \A t \in Targets : op'[t] = [op[t] EXCEPT !.bound = FALSE] /\ op[t] \in Ops
    BY <1>4 DEF RemoveSource, RowTypes
  <2>2. \A t \in Targets : /\ op'[t] \in Ops /\ op'[t].phase = op[t].phase
                           /\ op'[t].sandbox = op[t].sandbox
    BY <2>1 DEF Ops
  <2>3. op' \in [Targets -> Ops]
    BY <1>4, <2>2 DEF RemoveSource
  <2>4. QED
    BY <1>4, <2>2, <2>3 DEF RemoveSource, RowTypes
<1>5. ASSUME NEW t \in Targets, DeleteTarget(t) \/ RetryTarget(t) PROVE RowTypes'
  <2>1. CASE DeleteTarget(t)
    BY <2>1 DEF DeleteTarget, NoOp, NoRow, RowTypes, Ops, Rows
  <2>2. CASE RetryTarget(t)
    BY <2>2 DEF RetryTarget, RowTypes, Rows
  <2>3. QED
    BY <1>5, <2>1, <2>2
<1>6. QED
  BY <1>1, <1>2, <1>3, <1>4, <1>5, RowsStep

LEMMA CloudTypesStep ==
  ASSUME CloudTypes, Placed, Next
  PROVE  CloudTypes'
<1>1. ASSUME NEW p \in Procs, Progress(p), ~CallLands(p) PROVE UNCHANGED cloud
  BY <1>1 DEF Progress, Claim, Replay, Acquire, Enter, CreateTarget, CreateRefused, Recover,
     FailFork, Resume, BeforeFork, BeforeForkRefused, MarkStarted, CallRefused, Record,
     Publish, PublishRefused, Return, CompleteKey, Abort
<1>2. ASSUME NEW p \in Procs, Request(p) \/ GiveUpWaiting(p) \/ LoseConnection(p)
      PROVE  UNCHANGED cloud
  BY <1>2 DEF Request, GiveUpWaiting, LoseConnection
<1>3. CASE UNCHANGED cloud
  BY <1>3 DEF CloudTypes, cloud
<1>4. ASSUME NEW p \in Procs, CallLands(p) PROVE CloudTypes'
  <2>1. pc[p] \in Calls /\ at[p] \in Targets
    BY <1>4 DEF CallLands, Placed, Calls
  <2>2. QED
    BY <1>4, <2>1 DEF CallLands, Effect, CloudTypes, Children, Calls
<1>5. ASSUME NEW p \in Procs, CallFails(p) \/ Crash(p) PROVE CloudTypes'
  <2>1. pc[p] \in Calls => at[p] \in Targets
    BY DEF Placed, Calls
  <2>2. QED
    BY <1>5, <2>1 DEF CallFails, Crash, Abandoned, CloudTypes
<1>6. CASE StrayLands
  <2>1. PICK c \in strays :
          /\ strays' = strays \ {c}
          /\ child' = IF Accepted(c[1], c[2]) THEN Effect(c[1], c[2]) ELSE child
    BY <1>6 DEF StrayLands
  <2>2. c[1] \in Calls /\ c[2] \in Targets
    BY DEF CloudTypes
  <2>3. QED
    BY <2>1, <2>2 DEF CloudTypes, Effect, Children, Calls
<1>7. ASSUME Surroundings PROVE UNCHANGED cloud \/ \E t \in Targets : DeleteTarget(t)
  BY <1>7 DEF Surroundings, TerminateSource, DeleteSourceSandbox, RemoveSource,
     PruneSnapshot, RetryTarget
<1>8. ASSUME NEW t \in Targets, DeleteTarget(t) PROVE CloudTypes'
  BY <1>8 DEF DeleteTarget, CloudTypes, Children
<1>9. QED
  BY <1>1, <1>2, <1>3, <1>4, <1>5, <1>6, <1>7, <1>8 DEF Next, Failure

LEMMA LocalTypesStep ==
  ASSUME LocalTypes, Next
  PROVE  LocalTypes'
<1> USE ForkAssumption
<1>1. CASE UNCHANGED <<held, pc, local>>
  BY <1>1 DEF LocalTypes, local
<1>2. ASSUME NEW p \in Procs, Finish(p) PROVE LocalTypes'
  BY <1>2, FinishLocal
<1>3. ASSUME NEW p \in Procs, NEW l \in Labels, Goto(p, l), UNCHANGED <<held, local>>
      PROVE  LocalTypes'
  BY <1>3, GotoLocal
<1>4. ASSUME NEW p \in Procs,
             Replay(p) \/ CreateRefused(p) \/ FailFork(p) \/ BeforeForkRefused(p)
             \/ CallRefused(p) \/ PublishRefused(p) \/ CompleteKey(p) \/ Abort(p)
             \/ GiveUpWaiting(p) \/ CallFails(p) \/ Crash(p)
      PROVE  Finish(p)
  BY <1>4 DEF Replay, CreateRefused, FailFork, BeforeForkRefused, CallRefused,
     PublishRefused, CompleteKey, Abort, GiveUpWaiting, CallFails, Crash, Fails
<1>5. ASSUME NEW p \in Procs,
             Enter(p) \/ CreateTarget(p) \/ Resume(p) \/ BeforeFork(p) \/ MarkStarted(p)
             \/ CallLands(p) \/ Record(p) \/ Publish(p)
      PROVE  Finish(p) \/ \E l \in Labels : Goto(p, l) /\ UNCHANGED <<held, local>>
  BY <1>5 DEF Enter, CreateTarget, Resume, BeforeFork, MarkStarted, CallLands, After,
     Record, AfterRecord, Publish, Fails, Labels, Scoped, Calls
<1>6. ASSUME NEW p \in Procs, Request(p) \/ Acquire(p) \/ LoseConnection(p) PROVE LocalTypes'
  BY <1>6 DEF Request, Acquire, LoseConnection, Goto, Unlock, LocalTypes, Names, Labels,
     Scoped, Calls, local
<1>7. ASSUME NEW p \in Procs, Claim(p) \/ Recover(p) PROVE LocalTypes'
  BY <1>7 DEF Claim, Recover, Goto, LocalTypes, Names, Labels, Scoped, Calls
<1>8. ASSUME NEW p \in Procs, Return(p) PROVE LocalTypes'
  BY <1>2, <1>8 DEF Return, Goto, Unlock, LocalTypes, Labels, local
<1>9. ASSUME StrayLands \/ Surroundings PROVE UNCHANGED <<held, pc, local>>
  BY <1>9 DEF StrayLands, Surroundings, TerminateSource, DeleteSourceSandbox, RemoveSource,
     PruneSnapshot, DeleteTarget, RetryTarget
<1>10. QED
  BY <1>1, <1>2, <1>3, <1>4, <1>5, <1>6, <1>7, <1>8, <1>9 DEF Next, Progress, Failure

LEMMA RestTypesStep ==
  ASSUME RestTypes, Placed, key.done => key.resource \in Targets, Next
  PROVE  RestTypes'
<1> USE ForkAssumption
<1>1. ASSUME UNCHANGED <<around, client>>, bounds' = bounds \/ Faulty PROVE RestTypes'
  BY <1>1 DEF RestTypes, around, client, bounds, Faulty
<1>2. ASSUME NEW p \in Procs, Failure(p) PROVE UNCHANGED <<around, client>> /\ Faulty
  BY <1>2 DEF Failure, CallFails, Crash, LoseConnection
<1>3. ASSUME NEW p \in Procs, Request(p) PROVE RestTypes'
  BY <1>3 DEF Request, RestTypes, around, client
<1>4. ASSUME NEW p \in Procs, Claim(p) \/ Replay(p) PROVE RestTypes'
  BY <1>4 DEF Claim, Replay, RestTypes, around, bounds
<1>5. ASSUME NEW p \in Procs, CompleteKey(p) PROVE RestTypes'
  <2>1. at[p] \in Targets
    BY <1>5 DEF CompleteKey, Placed
  <2>2. QED
    BY <1>5, <2>1 DEF CompleteKey, RestTypes, around, client, bounds
<1>6. ASSUME NEW p \in Procs, Progress(p) \/ GiveUpWaiting(p),
             ~Claim(p), ~Replay(p), ~CompleteKey(p)
      PROVE  UNCHANGED <<around, client>> /\ bounds' = bounds
  BY <1>6 DEF Progress, Acquire, Enter, CreateTarget, CreateRefused, Recover, FailFork,
     Resume, BeforeFork, BeforeForkRefused, MarkStarted, CallLands, CallRefused, Record,
     Publish, PublishRefused, Return, Abort, GiveUpWaiting
<1>7. ASSUME StrayLands \/ Surroundings PROVE RestTypes'
  BY <1>7 DEF StrayLands, Surroundings, TerminateSource, DeleteSourceSandbox, RemoveSource,
     PruneSnapshot, DeleteTarget, RetryTarget, RestTypes, around, client, bounds
<1>8. QED
  BY <1>1, <1>2, <1>3, <1>4, <1>5, <1>6, <1>7 DEF Next

LEMMA TypeStep ==
  ASSUME TypeOK, Placed, key.done => key.resource \in Targets, Next
  PROVE  TypeOK'
<1>1. RowTypes /\ CloudTypes /\ LocalTypes /\ RestTypes
  BY TypeParts
<1>2. RowTypes' /\ CloudTypes' /\ LocalTypes' /\ RestTypes'
  BY <1>1, RowTypesStep, CloudTypesStep, LocalTypesStep, RestTypesStep
<1>3. QED
  BY <1>2 DEF TypeOK, RowTypes, CloudTypes, LocalTypes, RestTypes, Ops, Rows, Children
-----------------------------------------------------------------------------
(* Steps that leave the journal, the children and the key alone.           *)

LEMMA QuietStep ==
  ASSUME Inductive, TypeOK', NEW p \in Procs,
         UNCHANGED <<op, target, child, source, named, key>>,
         answers' \subseteq {key.resource},
         \A q \in Procs \ {p} : /\ pc'[q] = pc[q] /\ at'[q] = at[q] /\ lock'[q] = lock[q]
                                /\ Holds(q)' => Holds(q),
         \A c \in strays' : c \in strays \/ (c = <<pc[p], at[p]>> /\ pc[p] \in Calls),
         IF pc'[p] \in {"free", "claim"} THEN at'[p] = NoTarget
           ELSE at'[p] \in Targets /\ at'[p] = key.resource,
         lock'[p] # Source => source.row = "removed",
         pc'[p] = "giveUp" => /\ source.row = "removed"
                              /\ op[at'[p]].phase \notin {"native-ready", "completed"},
         Holds(p)' /\ pc'[p] \in Unrecorded =>
           /\ op[at'[p]].phase \in {"prepared", "forking"} /\ op[at'[p]].bound
           /\ pc'[p] \in {"restore", "record"} => child[at'[p]].state = "paused",
         pc'[p] = "record" /\ named => child[at'[p]].restored,
         pc'[p] = "publish" => child[at'[p]].stripped,
         pc'[p] \in {"return", "complete"} =>
           op[at'[p]].phase = "completed" \/ child[at'[p]].state = "deleted",
         pc'[p] = "fork" => pc[p] = "fork" /\ at'[p] = at[p]
  PROVE  Inductive'
<1>1. Placed'
  BY DEF Inductive, Placed
<1>2. OneResource'
  <2>1. ASSUME NEW c \in strays' PROVE c[2] = key.resource
    BY <2>1 DEF Inductive, OneResource, Placed, Calls
  <2>2. QED
    BY <2>1 DEF Inductive, OneResource
<1>3. RowsAgree' /\ JournalledChild' /\ DoneIsPublished'
  BY DEF Inductive, RowsAgree, JournalledChild, DoneIsPublished
<1>4. SourceKnown'
  BY DEF Inductive, SourceKnown
<1>5. UnderLock'
  BY DEF Inductive, UnderLock
<1>6. DoneSoFar'
  BY DEF Inductive, DoneSoFar
<1>7. LookedAfter'
  <2>1. ASSUME NEW t \in Targets, InFlight(t)' PROVE InFlight(t)
    BY <2>1 DEF InFlight
  <2>2. QED
    BY <2>1 DEF Inductive, LookedAfter
<1>8. QED
  BY <1>1, <1>2, <1>3, <1>4, <1>5, <1>6, <1>7 DEF Inductive

LEMMA FinishStep ==
  ASSUME Inductive, TypeOK', NEW p \in Procs, Finish(p),
         UNCHANGED <<op, target, child, source, named, key>>,
         answers' \subseteq {key.resource},
         \A c \in strays' : c \in strays \/ (c = <<pc[p], at[p]>> /\ pc[p] \in Calls)
  PROVE  Inductive'
<1>1. LocalTypes
  BY TypeParts DEF Inductive
<1>2. QED
  BY <1>1, FinishLocal, QuietStep DEF Unrecorded

LEMMA MoveStep ==
  ASSUME Inductive, TypeOK', NEW p \in Procs, NEW l \in Labels \ {"free", "claim", "giveUp", "fork"},
         Goto(p, l), pc[p] \notin {"free", "claim"},
         UNCHANGED <<held, local, op, target, cloud, source, named, client>>,
         Holds(p) /\ l \in Unrecorded =>
           /\ op[at[p]].phase \in {"prepared", "forking"} /\ op[at[p]].bound
           /\ l \in {"restore", "record"} => child[at[p]].state = "paused",
         l = "record" /\ named => child[at[p]].restored,
         l = "publish" => child[at[p]].stripped,
         l \in {"return", "complete"} =>
           op[at[p]].phase = "completed" \/ child[at[p]].state = "deleted"
  PROVE  Inductive'
<1>1. LocalTypes
  BY TypeParts DEF Inductive
<1>2. /\ pc'[p] = l
      /\ \A q \in Procs \ {p} : pc'[q] = pc[q]
  BY <1>1, GotoLocal
<1>3. /\ UNCHANGED <<held, at, lock, child, strays, answers, key>>
      /\ \A q \in Procs : Holds(q)' <=> Holds(q)
  BY DEF local, cloud, client, Holds
<1>4. /\ at[p] \in Targets /\ at[p] = key.resource
      /\ lock[p] # Source => source.row = "removed"
      /\ answers \subseteq {key.resource}
  BY DEF Inductive, Placed, SourceKnown, OneResource
<1>5. QED
  BY <1>2, <1>3, <1>4, QuietStep

LEMMA QuietActions ==
  ASSUME Inductive, TypeOK', NEW p \in Procs,
         \/ Request(p) \/ Replay(p) \/ Acquire(p) \/ GiveUpWaiting(p) \/ Enter(p)
         \/ CreateRefused(p) \/ Recover(p) \/ Resume(p) \/ BeforeFork(p)
         \/ BeforeForkRefused(p) \/ CallRefused(p) \/ PublishRefused(p)
         \/ Return(p) \/ Abort(p) \/ CallFails(p) \/ Crash(p) \/ LoseConnection(p)
  PROVE  Inductive'
<1> DEFINE Same == UNCHANGED <<op, target, child, source, named, key>>
<1>0. /\ LocalTypes /\ CloudTypes /\ answers \subseteq {key.resource}
      /\ lock[p] # Source => source.row = "removed"
      /\ pc[p] \notin {"free", "claim"} => at[p] \in Targets /\ at[p] = key.resource
      /\ pc[p] = "claim" => at[p] = NoTarget
  BY TypeParts DEF Inductive, OneResource, SourceKnown, Placed

<1>1. ASSUME GiveUpWaiting(p) \/ CreateRefused(p) \/ BeforeForkRefused(p) \/ CallRefused(p) \/ PublishRefused(p) \/ Abort(p) PROVE Inductive'
  <2>1. Finish(p) /\ UNCHANGED <<rows, cloud, around, client>>
    BY <1>1 DEF GiveUpWaiting, CreateRefused, BeforeForkRefused, CallRefused, PublishRefused, Abort, Fails
  <2>2. QED
    BY <1>0, <2>1, FinishStep DEF rows, cloud, around, client
<1>2. ASSUME CallFails(p) \/ Crash(p) PROVE Inductive'
  <2>1. /\ Finish(p) /\ UNCHANGED <<rows, child, around, client>>
        /\ strays' = Abandoned(p)
    BY <1>2 DEF CallFails, Crash, Fails
  <2>2. \A c \in strays' : c \in strays \/ (c = <<pc[p], at[p]>> /\ pc[p] \in Calls)
    BY <2>1 DEF Abandoned
  <2>3. QED
    BY <1>0, <2>1, <2>2, FinishStep DEF rows, around, client
<1>3. ASSUME Replay(p) PROVE Inductive'
  BY <1>0, <1>3, FinishStep DEF Replay, rows, cloud, around
<1>4. ASSUME Request(p) PROVE Inductive'
  <2>1. /\ pc'[p] = "claim" /\ at'[p] = NoTarget /\ lock' = lock /\ held' = held /\ at' = at
        /\ \A q \in Procs \ {p} : pc'[q] = pc[q]
    BY <1>0, <1>4 DEF Request, Goto, LocalTypes, Inductive, Placed
  <2>2. \A q \in Procs : Holds(q)' <=> Holds(q)
    BY <2>1 DEF Holds
  <2>3. QED
    BY <1>0, <1>4, <2>1, <2>2, QuietStep DEF Request, rows, cloud, around, client, Unrecorded
<1>5. ASSUME Acquire(p) PROVE Inductive'
  <2>1. /\ pc'[p] \in {"enter", "resume"} /\ at' = at /\ lock' = lock
        /\ \A q \in Procs \ {p} : pc'[q] = pc[q] /\ (Holds(q)' => Holds(q))
    BY <1>0, <1>5 DEF Acquire, Goto, LocalTypes, Holds, local, Names
  <2>2. QED
    BY <1>0, <1>5, <2>1, QuietStep DEF Acquire, rows, cloud, around, client, Unrecorded
<1>6. ASSUME LoseConnection(p) PROVE Inductive'
  <2>1. pc' = pc /\ at' = at /\ lock' = lock
    BY <1>6 DEF LoseConnection, local
  <2>2. ~Holds(p)' /\ \A q \in Procs \ {p} : Holds(q)' <=> Holds(q)
    BY <1>0, <1>6, <2>1, UnlockLocal DEF LoseConnection
  <2>3. /\ IF pc[p] \in {"free", "claim"} THEN at[p] = NoTarget
             ELSE at[p] \in Targets /\ at[p] = key.resource
        /\ pc[p] = "giveUp" => /\ source.row = "removed"
                               /\ op[at[p]].phase \notin {"native-ready", "completed"}
        /\ pc[p] = "record" /\ named => child[at[p]].restored
        /\ pc[p] = "publish" => child[at[p]].stripped
        /\ pc[p] \in {"return", "complete"} =>
             op[at[p]].phase = "completed" \/ child[at[p]].state = "deleted"
    BY DEF Inductive, Placed, SourceKnown, DoneSoFar
  <2>4. QED
    BY <1>0, <1>6, <2>1, <2>2, <2>3, QuietStep DEF LoseConnection, rows, cloud, around, client
<1>7. ASSUME Enter(p) PROVE Inductive'
  <2>1. /\ pc[p] = "enter" /\ UNCHANGED <<rows, cloud, around, client>>
        /\ \/ Finish(p)
           \/ \E l \in {"create", "resume"} : Goto(p, l) /\ UNCHANGED <<held, local>>
    BY <1>7 DEF Enter, Fails
  <2>2. CASE Finish(p)
    BY <1>0, <2>1, <2>2, FinishStep DEF rows, cloud, around, client
  <2>3. ASSUME NEW l \in {"create", "resume"}, Goto(p, l), UNCHANGED <<held, local>>
        PROVE  Inductive'
    BY <2>1, <2>3, MoveStep DEF rows, around, Unrecorded, Labels, Scoped, Calls
  <2>4. QED
    BY <2>1, <2>2, <2>3
<1>8. ASSUME Recover(p) PROVE Inductive'
  <2>1. PICK t \in Targets :
          /\ op[t].phase \in Pending
          /\ at' = [at EXCEPT ![p] = t]
          /\ lock' = [lock EXCEPT ![p] = IF op[t].bound THEN Source ELSE t]
          /\ Goto(p, IF GivesUp(t) THEN "giveUp" ELSE "acquire")
    BY <1>8 DEF Recover, NeedsRecovery
  <2>2. /\ t = key.resource
        /\ ~op[t].bound => source.row = "removed"
    BY <2>1 DEF Inductive, OneResource, SourceKnown, Pending
  <2>3. /\ at'[p] = t /\ lock'[p] = (IF op[t].bound THEN Source ELSE t)
        /\ pc'[p] = (IF GivesUp(t) THEN "giveUp" ELSE "acquire") /\ held' = held
        /\ \A q \in Procs \ {p} : pc'[q] = pc[q] /\ at'[q] = at[q] /\ lock'[q] = lock[q]
    BY <1>0, <1>8, <2>1 DEF Recover, Goto, LocalTypes
  <2>4. /\ \A q \in Procs \ {p} : Holds(q)' <=> Holds(q)
        /\ pc'[p] = "giveUp" => /\ source.row = "removed"
                                /\ op[t].phase \notin {"native-ready", "completed"}
    BY <2>1, <2>2, <2>3 DEF Holds, GivesUp, Pending
  <2>5. QED
    BY <1>0, <1>8, <2>2, <2>3, <2>4, QuietStep DEF Recover, rows, cloud, around, client, Unrecorded
<1>9. ASSUME Resume(p) PROVE Inductive'
  <2>1. /\ pc[p] = "resume" /\ UNCHANGED <<rows, cloud, around, client>>
        /\ \/ Finish(p)
           \/ \E l \in {"return", "strip", "hook"} :
                /\ Goto(p, l) /\ UNCHANGED <<held, local>>
                /\ l = "return" => op[at[p]].phase = "completed"
                /\ l = "hook" => op[at[p]].phase \in {"prepared", "forking"} /\ op[at[p]].bound
    BY <1>9 DEF Resume, Fails
  <2>2. CASE Finish(p)
    BY <1>0, <2>1, <2>2, FinishStep DEF rows, cloud, around, client
  <2>3. ASSUME NEW l \in {"return", "strip", "hook"}, Goto(p, l), UNCHANGED <<held, local>>,
               l = "return" => op[at[p]].phase = "completed",
               l = "hook" => op[at[p]].phase \in {"prepared", "forking"} /\ op[at[p]].bound
        PROVE  Inductive'
    BY <2>1, <2>3, MoveStep DEF rows, around, Unrecorded, Labels, Scoped, Calls
  <2>4. QED
    BY <2>1, <2>2, <2>3
<1>10. ASSUME BeforeFork(p) PROVE Inductive'
  <2>1. /\ pc[p] = "hook" /\ Goto(p, "start")
        /\ UNCHANGED <<held, local, rows, cloud, around, client>>
    BY <1>10 DEF BeforeFork
  <2>2. Holds(p) => op[at[p]].phase \in {"prepared", "forking"} /\ op[at[p]].bound
    BY <2>1 DEF Inductive, UnderLock, Unrecorded
  <2>3. QED
    BY <2>1, <2>2, MoveStep DEF rows, around, Labels, Scoped, Calls
<1>11. ASSUME Return(p) PROVE Inductive'
  <2>1. /\ pc[p] = "return" /\ UNCHANGED <<rows, cloud, around, client>>
        /\ \/ Finish(p)
           \/ Goto(p, "complete") /\ Unlock(p) /\ UNCHANGED local
    BY <1>11 DEF Return
  <2>2. CASE Finish(p)
    BY <1>0, <2>1, <2>2, FinishStep DEF rows, cloud, around, client
  <2>3. CASE Goto(p, "complete") /\ Unlock(p) /\ UNCHANGED local
    <3>1. /\ pc'[p] = "complete" /\ at' = at /\ lock' = lock
          /\ \A q \in Procs \ {p} : pc'[q] = pc[q]
      BY <1>0, <2>3 DEF Goto, local, LocalTypes
    <3>2. \A q \in Procs \ {p} : Holds(q)' <=> Holds(q)
      BY <1>0, <2>3, <3>1, UnlockLocal
    <3>3. op[at[p]].phase = "completed" \/ child[at[p]].state = "deleted"
      BY <2>1 DEF Inductive, DoneSoFar
    <3>4. QED
      BY <1>0, <2>1, <3>1, <3>2, <3>3, QuietStep DEF rows, cloud, around, client, Unrecorded
  <2>4. QED
    BY <2>1, <2>2, <2>3
<1>12. QED
  BY <1>1, <1>2, <1>3, <1>4, <1>5, <1>6, <1>7, <1>8, <1>9, <1>10, <1>11
-----------------------------------------------------------------------------
(* The other steps, by what they change.                                   *)

LEMMA OneHolder ==
  ASSUME SourceKnown, NEW p \in Procs, NEW q \in Procs, Holds(p), Holds(q),
         source.row # "removed"
  PROVE  p = q
BY DEF SourceKnown, Holds

LEMMA CallEffect ==
  ASSUME CloudTypes, NEW call \in Calls, NEW t \in Targets,
         Accepted(call, t), child' = Effect(call, t)
  PROVE  /\ \A u \in Targets : u # t => child'[u] = child[u]
         /\ child[t].state # "deleted" /\ child'[t].state = "paused"
         /\ call # "fork" => child[t].state = "paused"
         /\ child[t].restored => child'[t].restored
         /\ child[t].stripped => child'[t].stripped
         /\ call = "restore" => child'[t].restored
         /\ call = "strip" => child'[t].stripped
<1>1. CASE call = "fork"
  BY <1>1 DEF Accepted, Effect, CloudTypes, Children
<1>2. CASE call = "restore"
  BY <1>2 DEF Accepted, Effect, CloudTypes, Children
<1>3. CASE call = "strip"
  BY <1>3 DEF Accepted, Effect, CloudTypes, Children
<1>4. QED
  BY <1>1, <1>2, <1>3 DEF Calls

LEMMA CreateTargetStep ==
  ASSUME Inductive, TypeOK', NEW p \in Procs, CreateTarget(p)
  PROVE  Inductive'
<1> USE ForkAssumption
<1>0. /\ RowTypes /\ CloudTypes /\ LocalTypes /\ RestTypes
      /\ Placed /\ OneResource /\ RowsAgree /\ SourceKnown /\ UnderLock
      /\ DoneSoFar /\ JournalledChild /\ LookedAfter /\ DoneIsPublished
  BY TypeParts DEF Inductive
<1>1. /\ pc'[p] = "resume" /\ held' = held /\ at' = at /\ lock' = lock
      /\ \A q \in Procs \ {p} : pc'[q] = pc[q]
      /\ \A q \in Procs : Holds(q)' <=> Holds(q)
  BY <1>0 DEF CreateTarget, Goto, LocalTypes, local, Holds
<1>2. at[p] \in Targets /\ at[p] = key.resource
  BY <1>0 DEF CreateTarget, Placed
<1>3. /\ \A t \in Targets : t # at[p] => op'[t] = op[t] /\ target'[t] = target[t]
      /\ op'[at[p]] = [phase |-> "prepared", sandbox |-> FALSE, bound |-> TRUE]
      /\ target'[at[p]] = [status |-> "updating", sandbox |-> FALSE]
      /\ UNCHANGED <<child, strays, source, named, key, answers>>
  BY <1>0, <1>2 DEF CreateTarget, RowTypes, cloud, around, client
<1>4. /\ op[at[p]].phase = "none" /\ source.row = "ready"
      /\ pc[p] = "create"
  BY <1>0, <1>2 DEF CreateTarget, RowsAgree
<1>5. \A q \in Procs : pc[q] \notin {"free", "claim"} => at[q] = at[p]
  BY <1>0, <1>2 DEF Placed
<1>6. Placed'
  BY <1>0, <1>1, <1>2, <1>3, <1>4, <1>5 DEF Placed
<1>7. OneResource'
  BY <1>0, <1>1, <1>2, <1>3, <1>4, <1>5 DEF OneResource
<1>8. RowsAgree'
  BY <1>0, <1>1, <1>2, <1>3, <1>4, <1>5 DEF RowsAgree, Pending
<1>9. SourceKnown'
  BY <1>0, <1>1, <1>2, <1>3, <1>4, <1>5 DEF SourceKnown
<1>10. UnderLock'
  BY <1>0, <1>1, <1>2, <1>3, <1>4, <1>5 DEF UnderLock, Unrecorded
<1>11. DoneSoFar'
  BY <1>0, <1>1, <1>2, <1>3, <1>4, <1>5 DEF DoneSoFar
<1>12. JournalledChild'
  BY <1>0, <1>1, <1>2, <1>3, <1>4, <1>5 DEF JournalledChild
<1>13. LookedAfter'
  BY <1>0, <1>1, <1>2, <1>3, <1>4, <1>5 DEF LookedAfter, InFlight, Pending
<1>14. DoneIsPublished'
  BY <1>0, <1>1, <1>2, <1>3, <1>4, <1>5 DEF DoneIsPublished
<1>15. QED
  BY <1>6, <1>7, <1>8, <1>9, <1>10, <1>11, <1>12, <1>13, <1>14 DEF Inductive

LEMMA MarkStartedStep ==
  ASSUME Inductive, TypeOK', NEW p \in Procs, MarkStarted(p)
  PROVE  Inductive'
<1> USE ForkAssumption
<1>0. /\ RowTypes /\ CloudTypes /\ LocalTypes /\ RestTypes
      /\ Placed /\ OneResource /\ RowsAgree /\ SourceKnown /\ UnderLock
      /\ DoneSoFar /\ JournalledChild /\ LookedAfter /\ DoneIsPublished
  BY TypeParts DEF Inductive
<1>1. /\ pc'[p] = "fork" /\ held' = held /\ at' = at /\ lock' = lock
      /\ \A q \in Procs \ {p} : pc'[q] = pc[q]
      /\ \A q \in Procs : Holds(q)' <=> Holds(q)
  BY <1>0 DEF MarkStarted, Goto, LocalTypes, local, Holds
<1>2. at[p] \in Targets /\ at[p] = key.resource
  BY <1>0 DEF MarkStarted, Placed
<1>3. /\ op[at[p]].phase \in {"prepared", "forking"} /\ op[at[p]].bound
      /\ pc[p] = "start"
  BY <1>0 DEF MarkStarted, UnderLock, Unrecorded
<1>4. /\ \A t \in Targets : t # at[p] => op'[t] = op[t]
      /\ op'[at[p]].phase = "forking" /\ op'[at[p]].bound
      /\ op'[at[p]].sandbox = op[at[p]].sandbox
      /\ UNCHANGED <<target, child, strays, source, named, key, answers>>
  BY <1>0, <1>2, <1>3 DEF MarkStarted, RowTypes, Ops, cloud, around, client
<1>5. \A q \in Procs : pc[q] \notin {"free", "claim"} => at[q] = at[p]
  BY <1>0, <1>2 DEF Placed
<1>6. Placed'
  BY <1>0, <1>1, <1>2, <1>3, <1>4, <1>5 DEF Placed
<1>7. OneResource'
  BY <1>0, <1>1, <1>2, <1>3, <1>4, <1>5 DEF OneResource
<1>8. RowsAgree'
  BY <1>0, <1>1, <1>2, <1>3, <1>4, <1>5 DEF RowsAgree, Pending
<1>9. SourceKnown'
  BY <1>0, <1>1, <1>2, <1>3, <1>4, <1>5 DEF SourceKnown
<1>10. UnderLock'
  BY <1>0, <1>1, <1>2, <1>3, <1>4, <1>5 DEF UnderLock, Unrecorded
<1>11. DoneSoFar'
  BY <1>0, <1>1, <1>2, <1>3, <1>4, <1>5 DEF DoneSoFar
<1>12. JournalledChild'
  BY <1>0, <1>1, <1>2, <1>3, <1>4, <1>5 DEF JournalledChild
<1>13. LookedAfter'
  BY <1>0, <1>1, <1>2, <1>3, <1>4, <1>5 DEF LookedAfter, InFlight, Pending
<1>14. DoneIsPublished'
  BY <1>0, <1>1, <1>2, <1>3, <1>4, <1>5 DEF DoneIsPublished
<1>15. QED
  BY <1>6, <1>7, <1>8, <1>9, <1>10, <1>11, <1>12, <1>13, <1>14 DEF Inductive

LEMMA CallLandsStep ==
  ASSUME Inductive, TypeOK', NEW p \in Procs, CallLands(p)
  PROVE  Inductive'
<1> USE ForkAssumption
<1>0. /\ RowTypes /\ CloudTypes /\ LocalTypes /\ RestTypes
      /\ Placed /\ OneResource /\ RowsAgree /\ SourceKnown /\ UnderLock
      /\ DoneSoFar /\ JournalledChild /\ LookedAfter /\ DoneIsPublished
  BY TypeParts DEF Inductive
<1>1. /\ pc'[p] = After(pc[p], at[p]) /\ held' = held /\ at' = at /\ lock' = lock
      /\ \A q \in Procs \ {p} : pc'[q] = pc[q]
      /\ \A q \in Procs : Holds(q)' <=> Holds(q)
  BY <1>0 DEF CallLands, Goto, LocalTypes, local, Holds
<1>2. /\ at[p] \in Targets /\ at[p] = key.resource /\ pc[p] \in Calls
  BY <1>0 DEF CallLands, Placed, Calls
<1>3. /\ \A u \in Targets : u # at[p] => child'[u] = child[u]
      /\ child[at[p]].state # "deleted" /\ child'[at[p]].state = "paused"
      /\ pc[p] # "fork" => child[at[p]].state = "paused"
      /\ child[at[p]].restored => child'[at[p]].restored
      /\ child[at[p]].stripped => child'[at[p]].stripped
      /\ pc[p] = "restore" => child'[at[p]].restored
      /\ pc[p] = "strip" => child'[at[p]].stripped
  BY <1>0, <1>2, CallEffect DEF CallLands
<1>4. UNCHANGED <<op, target, strays, source, named, key, answers>>
  BY DEF CallLands, rows, around, client
<1>5. \/ pc[p] = "fork" /\ pc'[p] = IF named THEN "restore" ELSE "record"
      \/ pc[p] = "restore" /\ pc'[p] = "record"
      \/ pc[p] = "strip" /\ pc'[p] = "publish"
  BY <1>1, <1>2 DEF After, Calls
<1>6. \A q \in Procs : pc[q] \notin {"free", "claim"} => at[q] = at[p]
  BY <1>0, <1>2 DEF Placed
<1>7. Placed'
  BY <1>0, <1>1, <1>2, <1>3, <1>4, <1>5, <1>6 DEF Placed
<1>8. OneResource'
  BY <1>0, <1>1, <1>2, <1>3, <1>4, <1>5, <1>6 DEF OneResource
<1>9. RowsAgree'
  BY <1>0, <1>1, <1>2, <1>3, <1>4, <1>5, <1>6 DEF RowsAgree
<1>10. SourceKnown'
  BY <1>0, <1>1, <1>2, <1>3, <1>4, <1>5, <1>6 DEF SourceKnown
<1>11. UnderLock'
  <2>1. ASSUME NEW q \in Procs, Holds(q)', pc'[q] \in Unrecorded
        PROVE  /\ op[at[q]].phase \in {"prepared", "forking"} /\ op[at[q]].bound
               /\ at[q] = at[p]
    <3>1. pc[q] \in Unrecorded /\ Holds(q)
      BY <1>1, <1>2, <1>5, <2>1 DEF Unrecorded
    <3>2. QED
      BY <1>0, <1>6, <3>1 DEF UnderLock, Unrecorded
  <2>2. QED
    BY <1>1, <1>3, <1>4, <2>1 DEF UnderLock
<1>12. DoneSoFar'
  <2>1. ASSUME NEW q \in Procs, q # p
        PROVE  /\ pc[q] = "record" /\ named => child'[at[q]].restored
               /\ pc[q] = "publish" => child'[at[q]].stripped
               /\ pc[q] \in {"return", "complete"} => op[at[q]].phase = "completed"
    <3>1. /\ pc[q] = "record" /\ named => child[at[q]].restored
          /\ pc[q] = "publish" => child[at[q]].stripped
          /\ pc[q] \in {"return", "complete"} =>
               op[at[q]].phase = "completed" \/ child[at[q]].state = "deleted"
      BY <1>0, <2>1 DEF DoneSoFar
    <3>2. pc[q] \in {"record", "publish", "return", "complete"} => at[q] = at[p]
      BY <1>6, <2>1
    <3>3. QED
      BY <1>3, <3>1, <3>2
  <2>2. /\ pc'[p] = "record" /\ named => child'[at[p]].restored
        /\ pc'[p] = "publish" => child'[at[p]].stripped
        /\ pc'[p] \notin {"return", "complete"}
    BY <1>3, <1>5
  <2>3. QED
    BY <1>1, <1>4, <2>1, <2>2 DEF DoneSoFar
<1>13. JournalledChild'
  BY <1>0, <1>1, <1>2, <1>3, <1>4, <1>5, <1>6 DEF JournalledChild
<1>14. LookedAfter'
  BY <1>0, <1>1, <1>2, <1>3, <1>4, <1>5, <1>6 DEF LookedAfter, InFlight
<1>15. DoneIsPublished'
  BY <1>0, <1>1, <1>2, <1>3, <1>4, <1>5, <1>6 DEF DoneIsPublished
<1>16. QED
  BY <1>7, <1>8, <1>9, <1>10, <1>11, <1>12, <1>13, <1>14, <1>15 DEF Inductive

LEMMA StrayLandsStep ==
  ASSUME Inductive, TypeOK', StrayLands
  PROVE  Inductive'
<1> USE ForkAssumption
<1>0. /\ RowTypes /\ CloudTypes /\ LocalTypes /\ RestTypes
      /\ Placed /\ OneResource /\ RowsAgree /\ SourceKnown /\ UnderLock
      /\ DoneSoFar /\ JournalledChild /\ LookedAfter /\ DoneIsPublished
  BY TypeParts DEF Inductive
<1>1. PICK c \in strays : /\ strays' = strays \ {c}
                          /\ child' = IF Accepted(c[1], c[2]) THEN Effect(c[1], c[2]) ELSE child
  BY DEF StrayLands
<1>2. /\ c[1] \in Calls /\ c[2] \in Targets /\ c[2] = key.resource /\ c = <<c[1], c[2]>>
  BY <1>0 DEF CloudTypes, OneResource
<1>3. /\ UNCHANGED <<op, target, source, named, key, answers, pc, at, lock, held>>
      /\ \A q \in Procs : Holds(q)' <=> Holds(q)
  BY DEF StrayLands, rows, around, client, local, Holds
<1>4. /\ \A u \in Targets : u # c[2] => child'[u] = child[u]
      /\ child[c[2]].state = "deleted" => child'[c[2]].state = "deleted"
      /\ child[c[2]].state # "none" => child'[c[2]].state = child[c[2]].state
      /\ child'[c[2]].state # child[c[2]].state =>
           child'[c[2]].state = "paused" /\ InFlight(c[2])
      /\ child[c[2]].restored => child'[c[2]].restored
      /\ child[c[2]].stripped => child'[c[2]].stripped
  <2>1. CASE Accepted(c[1], c[2])
    <3>1. /\ \A u \in Targets : u # c[2] => child'[u] = child[u]
          /\ child[c[2]].state # "deleted" /\ child'[c[2]].state = "paused"
          /\ c[1] # "fork" => child[c[2]].state = "paused"
          /\ child[c[2]].restored => child'[c[2]].restored
          /\ child[c[2]].stripped => child'[c[2]].stripped
      BY <1>0, <1>1, <1>2, <2>1, CallEffect
    <3>2. child[c[2]].state \in {"none", "paused", "deleted"}
      BY <1>0, <1>2 DEF CloudTypes, Children
    <3>3. QED
      BY <1>1, <1>2, <3>1, <3>2 DEF InFlight
  <2>2. CASE ~Accepted(c[1], c[2])
    BY <1>1, <2>2
  <2>3. QED
    BY <2>1, <2>2
<1>5. \A q \in Procs : pc[q] \notin {"free", "claim"} => at[q] = c[2]
  BY <1>0, <1>2 DEF Placed
<1>6. Placed'
  BY <1>0, <1>1, <1>2, <1>3, <1>4, <1>5 DEF Placed
<1>7. OneResource'
  BY <1>0, <1>1, <1>2, <1>3, <1>4, <1>5 DEF OneResource
<1>8. RowsAgree'
  BY <1>0, <1>1, <1>2, <1>3, <1>4, <1>5 DEF RowsAgree
<1>9. SourceKnown'
  BY <1>0, <1>1, <1>2, <1>3, <1>4, <1>5 DEF SourceKnown
<1>10. UnderLock'
  <2>1. ASSUME NEW q \in Procs, Holds(q), pc[q] \in Unrecorded
        PROVE  /\ op[at[q]].phase \in {"prepared", "forking"} /\ op[at[q]].bound
               /\ pc[q] \in {"restore", "record"} => child'[at[q]].state = "paused"
    <3>1. /\ op[at[q]].phase \in {"prepared", "forking"} /\ op[at[q]].bound
          /\ pc[q] \in {"restore", "record"} => child[at[q]].state = "paused"
      BY <1>0, <2>1 DEF UnderLock
    <3>2. at[q] = c[2]
      BY <1>5, <2>1 DEF Unrecorded
    <3>3. QED
      BY <1>4, <3>1, <3>2
  <2>2. QED
    BY <1>3, <2>1 DEF UnderLock
<1>11. DoneSoFar'
  <2>1. ASSUME NEW q \in Procs
        PROVE  /\ pc[q] = "record" /\ named => child'[at[q]].restored
               /\ pc[q] = "publish" => child'[at[q]].stripped
               /\ pc[q] \in {"return", "complete"} =>
                    op[at[q]].phase = "completed" \/ child'[at[q]].state = "deleted"
    <3>1. /\ pc[q] = "record" /\ named => child[at[q]].restored
          /\ pc[q] = "publish" => child[at[q]].stripped
          /\ pc[q] \in {"return", "complete"} =>
               op[at[q]].phase = "completed" \/ child[at[q]].state = "deleted"
      BY <1>0, <2>1 DEF DoneSoFar
    <3>2. pc[q] \in {"record", "publish", "return", "complete"} => at[q] = c[2]
      BY <1>5, <2>1
    <3>3. QED
      BY <1>4, <3>1, <3>2
  <2>2. QED
    BY <1>3, <2>1 DEF DoneSoFar
<1>12. JournalledChild'
  BY <1>0, <1>1, <1>2, <1>3, <1>4, <1>5 DEF JournalledChild
<1>13. LookedAfter'
  BY <1>0, <1>1, <1>2, <1>3, <1>4, <1>5 DEF LookedAfter, InFlight
<1>14. DoneIsPublished'
  BY <1>0, <1>1, <1>2, <1>3, <1>4, <1>5 DEF DoneIsPublished
<1>15. QED
  BY <1>6, <1>7, <1>8, <1>9, <1>10, <1>11, <1>12, <1>13, <1>14 DEF Inductive

LEMMA RecordStep ==
  ASSUME Inductive, TypeOK', NEW p \in Procs, Record(p), op[at[p]].phase \in Pending
  PROVE  Inductive'
<1> USE ForkAssumption
<1>0. /\ RowTypes /\ CloudTypes /\ LocalTypes /\ RestTypes
      /\ Placed /\ OneResource /\ RowsAgree /\ SourceKnown /\ UnderLock
      /\ DoneSoFar /\ JournalledChild /\ LookedAfter /\ DoneIsPublished
  BY TypeParts DEF Inductive
<1>1. /\ pc'[p] = "strip" /\ held' = held /\ at' = at /\ lock' = lock
      /\ \A q \in Procs \ {p} : pc'[q] = pc[q]
      /\ \A q \in Procs : Holds(q)' <=> Holds(q)
  BY <1>0 DEF Record, AfterRecord, Goto, LocalTypes, local, Holds
<1>2. at[p] \in Targets /\ at[p] = key.resource /\ pc[p] = "record" /\ Holds(p)
  BY <1>0 DEF Record, Placed
<1>3. /\ op[at[p]].phase \in {"prepared", "forking"} /\ op[at[p]].bound
      /\ child[at[p]].state = "paused" /\ (named => child[at[p]].restored)
      /\ source.row # "removed"
  BY <1>0, <1>2 DEF UnderLock, DoneSoFar, SourceKnown, Unrecorded
<1>4. /\ op' = [op EXCEPT ![at[p]] = Recorded(op[at[p]])]
      /\ target' = [target EXCEPT ![at[p]].sandbox = TRUE]
      /\ UNCHANGED <<child, strays, source, named, key, answers>>
  BY DEF Record, cloud, around, client
<1>5. /\ \A t \in Targets : t # at[p] => op'[t] = op[t] /\ target'[t] = target[t]
      /\ op'[at[p]].phase = "native-ready" /\ op'[at[p]].sandbox
      /\ op'[at[p]].bound = op[at[p]].bound
      /\ target'[at[p]].status = target[at[p]].status /\ target'[at[p]].sandbox
  BY <1>0, <1>2, <1>4 DEF Recorded, RowTypes, Ops, Rows
<1>6. \A q \in Procs : pc[q] \notin {"free", "claim"} => at[q] = at[p]
  BY <1>0, <1>2 DEF Placed
<1>7. \A q \in Procs : Holds(q) => q = p
  BY <1>0, <1>2, <1>3, OneHolder
<1>8. Placed'
  BY <1>0, <1>1, <1>2, <1>3, <1>4, <1>5, <1>6, <1>7 DEF Placed
<1>9. OneResource'
  BY <1>0, <1>1, <1>2, <1>3, <1>4, <1>5, <1>6, <1>7 DEF OneResource
<1>10. RowsAgree'
  BY <1>0, <1>1, <1>2, <1>3, <1>4, <1>5, <1>6, <1>7 DEF RowsAgree, Pending
<1>11. SourceKnown'
  <2>1. ASSUME NEW t \in Targets
        PROVE  /\ op'[t].bound => source.row # "removed" /\ op'[t].phase # "none"
               /\ op'[t].phase # "none" /\ ~op'[t].bound => source.row = "removed"
               /\ op'[t].phase = "failed" => source.row = "removed"
    BY <1>0, <1>3, <1>5 DEF SourceKnown
  <2>2. ASSUME NEW q \in Procs
        PROVE  (lock[q] # Source => source.row = "removed") /\ pc'[q] # "giveUp"
    BY <1>0, <1>1, <1>3 DEF SourceKnown
  <2>3. QED
    BY <1>1, <1>4, <2>1, <2>2 DEF SourceKnown
<1>12. UnderLock'
  BY <1>0, <1>1, <1>2, <1>3, <1>4, <1>5, <1>6, <1>7 DEF UnderLock, Unrecorded
<1>13. DoneSoFar'
  BY <1>0, <1>1, <1>2, <1>3, <1>4, <1>5, <1>6, <1>7 DEF DoneSoFar
<1>14. JournalledChild'
  BY <1>0, <1>1, <1>2, <1>3, <1>4, <1>5, <1>6, <1>7 DEF JournalledChild
<1>15. LookedAfter'
  BY <1>0, <1>1, <1>2, <1>3, <1>4, <1>5, <1>6, <1>7 DEF LookedAfter, InFlight, Pending
<1>16. DoneIsPublished'
  BY <1>0, <1>1, <1>2, <1>3, <1>4, <1>5, <1>6, <1>7 DEF DoneIsPublished
<1>17. QED
  BY <1>8, <1>9, <1>10, <1>11, <1>12, <1>13, <1>14, <1>15, <1>16 DEF Inductive

LEMMA PublishStep ==
  ASSUME Inductive, TypeOK', NEW p \in Procs, Publish(p)
  PROVE  Inductive'
<1> USE ForkAssumption
<1>0. /\ RowTypes /\ CloudTypes /\ LocalTypes /\ RestTypes
      /\ Placed /\ OneResource /\ RowsAgree /\ SourceKnown /\ UnderLock
      /\ DoneSoFar /\ JournalledChild /\ LookedAfter /\ DoneIsPublished
  BY TypeParts DEF Inductive
<1>1. /\ pc'[p] = "return" /\ held' = held /\ at' = at /\ lock' = lock
      /\ \A q \in Procs \ {p} : pc'[q] = pc[q]
      /\ \A q \in Procs : Holds(q)' <=> Holds(q)
  BY <1>0 DEF Publish, Goto, LocalTypes, local, Holds
<1>2. at[p] \in Targets /\ at[p] = key.resource /\ pc[p] = "publish"
  BY <1>0 DEF Publish, Placed
<1>3. /\ op[at[p]].phase \in {"native-ready", "completed"}
      /\ target[at[p]].sandbox /\ child[at[p]].stripped
  BY <1>0, <1>2 DEF Publish, MayPublish, DoneSoFar
<1>4. /\ op' = [op EXCEPT ![at[p]].phase = "completed"]
      /\ target' = [target EXCEPT ![at[p]].status = "ready"]
      /\ UNCHANGED <<child, strays, source, named, key, answers>>
  BY DEF Publish, cloud, around, client
<1>5. /\ \A t \in Targets : t # at[p] => op'[t] = op[t] /\ target'[t] = target[t]
      /\ op'[at[p]].phase = "completed" /\ op'[at[p]].sandbox = op[at[p]].sandbox
      /\ op'[at[p]].bound = op[at[p]].bound
      /\ target'[at[p]].status = "ready" /\ target'[at[p]].sandbox = target[at[p]].sandbox
  BY <1>0, <1>2, <1>4 DEF RowTypes, Ops, Rows
<1>6. \A q \in Procs : pc[q] \notin {"free", "claim"} => at[q] = at[p]
  BY <1>0, <1>2 DEF Placed
<1>7. Placed'
  BY <1>0, <1>1, <1>2, <1>3, <1>4, <1>5, <1>6 DEF Placed
<1>8. OneResource'
  BY <1>0, <1>1, <1>2, <1>3, <1>4, <1>5, <1>6 DEF OneResource
<1>9. RowsAgree'
  BY <1>0, <1>1, <1>2, <1>3, <1>4, <1>5, <1>6 DEF RowsAgree, Pending
<1>10. SourceKnown'
  BY <1>0, <1>1, <1>2, <1>3, <1>4, <1>5, <1>6 DEF SourceKnown
<1>11. UnderLock'
  BY <1>0, <1>1, <1>2, <1>3, <1>4, <1>5, <1>6 DEF UnderLock, Unrecorded
<1>12. DoneSoFar'
  BY <1>0, <1>1, <1>2, <1>3, <1>4, <1>5, <1>6 DEF DoneSoFar
<1>13. JournalledChild'
  BY <1>0, <1>1, <1>2, <1>3, <1>4, <1>5, <1>6 DEF JournalledChild
<1>14. LookedAfter'
  BY <1>0, <1>1, <1>2, <1>3, <1>4, <1>5, <1>6 DEF LookedAfter, InFlight, Pending
<1>15. DoneIsPublished'
  BY <1>0, <1>1, <1>2, <1>3, <1>4, <1>5, <1>6 DEF DoneIsPublished
<1>16. QED
  BY <1>7, <1>8, <1>9, <1>10, <1>11, <1>12, <1>13, <1>14, <1>15 DEF Inductive

LEMMA FailForkStep ==
  ASSUME Inductive, TypeOK', NEW p \in Procs, FailFork(p)
  PROVE  Inductive'
<1> USE ForkAssumption
<1>0. /\ RowTypes /\ CloudTypes /\ LocalTypes /\ RestTypes
      /\ Placed /\ OneResource /\ RowsAgree /\ SourceKnown /\ UnderLock
      /\ DoneSoFar /\ JournalledChild /\ LookedAfter /\ DoneIsPublished
  BY TypeParts DEF Inductive
<1>1. /\ pc'[p] = "free" /\ at'[p] = NoTarget /\ lock'[p] = Source
      /\ \A q \in Procs \ {p} :
           /\ pc'[q] = pc[q] /\ at'[q] = at[q] /\ lock'[q] = lock[q]
           /\ Holds(q)' <=> Holds(q)
  BY <1>0, FinishLocal DEF FailFork
<1>2. at[p] \in Targets /\ at[p] = key.resource /\ pc[p] = "giveUp"
  BY <1>0 DEF FailFork, Placed
<1>3. /\ source.row = "removed"
      /\ op[at[p]].phase \notin {"native-ready", "completed"}
      /\ \A t \in Targets : ~op[t].bound
  BY <1>0, <1>2 DEF SourceKnown
<1>4. /\ op' = [op EXCEPT ![at[p]].phase = IF @ \in {"none", "completed"} THEN @ ELSE "failed"]
      /\ target' = [target EXCEPT ![at[p]].status = IF @ \in {"none", "ready"} THEN @ ELSE "error"]
      /\ UNCHANGED <<child, strays, source, named, key, answers>>
  BY DEF FailFork, cloud, around, client
<1>5. /\ \A t \in Targets : t # at[p] => op'[t] = op[t] /\ target'[t] = target[t]
      /\ op'[at[p]].phase = IF op[at[p]].phase = "none" THEN "none" ELSE "failed"
      /\ op'[at[p]].sandbox = op[at[p]].sandbox /\ op'[at[p]].bound = op[at[p]].bound
      /\ target'[at[p]].sandbox = target[at[p]].sandbox
  BY <1>0, <1>2, <1>3, <1>4 DEF RowTypes, Ops, Rows
<1>6. target'[at[p]].status = IF target[at[p]].status = "none" THEN "none" ELSE "error"
  BY <1>0, <1>2, <1>3, <1>4 DEF RowTypes, Rows, RowsAgree
<1>7. \A q \in Procs : pc[q] \notin {"free", "claim"} => at[q] = at[p]
  BY <1>0, <1>2 DEF Placed
<1>8. Placed'
  BY <1>0, <1>1, <1>2, <1>3, <1>4, <1>5, <1>6, <1>7 DEF Placed
<1>9. OneResource'
  BY <1>0, <1>1, <1>2, <1>3, <1>4, <1>5, <1>6, <1>7 DEF OneResource
<1>10. RowsAgree'
  BY <1>0, <1>1, <1>2, <1>3, <1>4, <1>5, <1>6, <1>7 DEF RowsAgree, Pending
<1>11. SourceKnown'
  <2>1. \A t \in Targets : ~op'[t].bound
    BY <1>3, <1>5
  <2>2. ASSUME NEW q \in Procs, pc'[q] = "giveUp"
        PROVE  op'[at'[q]].phase \notin {"native-ready", "completed"}
    BY <1>1, <1>3, <1>5, <1>7, <2>2
  <2>3. \A q \in Procs : lock'[q] # Source => source.row = "removed"
    BY <1>1, <1>3
  <2>4. QED
    BY <1>3, <1>4, <2>1, <2>2, <2>3 DEF SourceKnown
<1>12. UnderLock'
  BY <1>0, <1>1, <1>2, <1>3, <1>4, <1>5, <1>6, <1>7 DEF UnderLock, Unrecorded
<1>13. DoneSoFar'
  BY <1>0, <1>1, <1>2, <1>3, <1>4, <1>5, <1>6, <1>7 DEF DoneSoFar
<1>14. JournalledChild'
  BY <1>0, <1>1, <1>2, <1>3, <1>4, <1>5, <1>6, <1>7 DEF JournalledChild
<1>15. LookedAfter'
  BY <1>0, <1>1, <1>2, <1>3, <1>4, <1>5, <1>6, <1>7 DEF LookedAfter, InFlight, Pending
<1>16. DoneIsPublished'
  BY <1>0, <1>1, <1>2, <1>3, <1>4, <1>5, <1>6, <1>7 DEF DoneIsPublished
<1>17. QED
  BY <1>8, <1>9, <1>10, <1>11, <1>12, <1>13, <1>14, <1>15, <1>16 DEF Inductive

LEMMA CompleteKeyStep ==
  ASSUME Inductive, TypeOK', NEW p \in Procs, CompleteKey(p)
  PROVE  Inductive'
<1> USE ForkAssumption
<1>0. /\ RowTypes /\ CloudTypes /\ LocalTypes /\ RestTypes
      /\ Placed /\ OneResource /\ RowsAgree /\ SourceKnown /\ UnderLock
      /\ DoneSoFar /\ JournalledChild /\ LookedAfter /\ DoneIsPublished
  BY TypeParts DEF Inductive
<1>1. /\ pc'[p] = "free" /\ at'[p] = NoTarget /\ lock'[p] = Source
      /\ \A q \in Procs \ {p} :
           /\ pc'[q] = pc[q] /\ at'[q] = at[q] /\ lock'[q] = lock[q]
           /\ Holds(q)' <=> Holds(q)
  BY <1>0, FinishLocal DEF CompleteKey
<1>2. at[p] \in Targets /\ at[p] = key.resource /\ pc[p] = "complete"
  BY <1>0 DEF CompleteKey, Placed
<1>3. /\ UNCHANGED <<op, target, child, strays, source, named>>
      /\ key'.resource = key.resource
      /\ answers' \subseteq answers \cup {at[p]}
  BY <1>0, <1>2 DEF CompleteKey, rows, cloud, around, client, RestTypes
<1>4. key'.done => key.done \/ op[at[p]].phase = "completed" \/ child[at[p]].state = "deleted"
  BY <1>0, <1>2 DEF DoneSoFar
<1>5. Placed'
  BY <1>0, <1>1, <1>2, <1>3, <1>4 DEF Placed
<1>6. OneResource'
  BY <1>0, <1>1, <1>2, <1>3, <1>4 DEF OneResource
<1>7. RowsAgree'
  BY <1>0, <1>1, <1>2, <1>3, <1>4 DEF RowsAgree
<1>8. SourceKnown'
  BY <1>0, <1>1, <1>2, <1>3, <1>4 DEF SourceKnown
<1>9. UnderLock'
  BY <1>0, <1>1, <1>2, <1>3, <1>4 DEF UnderLock, Unrecorded
<1>10. DoneSoFar'
  BY <1>0, <1>1, <1>2, <1>3, <1>4 DEF DoneSoFar
<1>11. JournalledChild'
  BY <1>0, <1>1, <1>2, <1>3, <1>4 DEF JournalledChild
<1>12. LookedAfter'
  BY <1>0, <1>1, <1>2, <1>3, <1>4 DEF LookedAfter, InFlight
<1>13. DoneIsPublished'
  BY <1>0, <1>1, <1>2, <1>3, <1>4 DEF DoneIsPublished
<1>14. QED
  BY <1>5, <1>6, <1>7, <1>8, <1>9, <1>10, <1>11, <1>12, <1>13 DEF Inductive

LEMMA ClaimStep ==
  ASSUME Inductive, TypeOK', NEW p \in Procs, Claim(p)
  PROVE  Inductive'
<1> USE ForkAssumption
<1>0. /\ RowTypes /\ CloudTypes /\ LocalTypes /\ RestTypes
      /\ Placed /\ OneResource /\ RowsAgree /\ SourceKnown /\ UnderLock
      /\ DoneSoFar /\ JournalledChild /\ LookedAfter /\ DoneIsPublished
  BY TypeParts DEF Inductive
<1>1. PICK t \in Targets : /\ MayClaim(t)
                            /\ key' = [key EXCEPT !.resource = t]
                            /\ at' = [at EXCEPT ![p] = t]
  BY DEF Claim
<1>2. /\ pc[p] = "claim" /\ pc'[p] = "acquire" /\ held' = held /\ lock' = lock /\ at'[p] = t
      /\ \A q \in Procs \ {p} : pc'[q] = pc[q] /\ at'[q] = at[q]
      /\ \A q \in Procs : Holds(q)' <=> Holds(q)
  BY <1>0, <1>1 DEF Claim, Goto, LocalTypes, Holds
<1>3. /\ UNCHANGED <<op, target, child, strays, source, named, answers>>
      /\ key'.resource = t /\ ~key'.done
      /\ key.resource # NoTarget => key.resource = t
  BY <1>0, <1>1 DEF Claim, MayClaim, rows, cloud, around, RestTypes
<1>4. \A u \in Targets : key.resource = NoTarget => u # key.resource
  BY DEF Names
<1>5. /\ answers \subseteq Targets
      /\ \A c \in strays : c[2] \in Targets
  BY <1>0 DEF RestTypes, CloudTypes
<1>6. Placed'
  BY <1>0, <1>1, <1>2, <1>3, <1>4, <1>5 DEF Placed
<1>7. OneResource'
  BY <1>0, <1>1, <1>2, <1>3, <1>4, <1>5 DEF OneResource, Names
<1>8. RowsAgree'
  BY <1>0, <1>1, <1>2, <1>3, <1>4, <1>5 DEF RowsAgree
<1>9. SourceKnown'
  BY <1>0, <1>1, <1>2, <1>3, <1>4, <1>5 DEF SourceKnown
<1>10. UnderLock'
  BY <1>0, <1>1, <1>2, <1>3, <1>4, <1>5 DEF UnderLock, Unrecorded
<1>11. DoneSoFar'
  BY <1>0, <1>1, <1>2, <1>3, <1>4, <1>5 DEF DoneSoFar
<1>12. JournalledChild'
  BY <1>0, <1>1, <1>2, <1>3, <1>4, <1>5 DEF JournalledChild
<1>13. LookedAfter'
  BY <1>0, <1>1, <1>2, <1>3, <1>4, <1>5 DEF LookedAfter, InFlight
<1>14. DoneIsPublished'
  BY <1>0, <1>1, <1>2, <1>3, <1>4, <1>5 DEF DoneIsPublished
<1>15. QED
  BY <1>6, <1>7, <1>8, <1>9, <1>10, <1>11, <1>12, <1>13, <1>14 DEF Inductive

LEMMA SourceStep ==
  ASSUME Inductive, TypeOK', TerminateSource \/ DeleteSourceSandbox \/ PruneSnapshot
  PROVE  Inductive'
<1> USE ForkAssumption
<1>0. /\ RowTypes /\ CloudTypes /\ LocalTypes /\ RestTypes
      /\ Placed /\ OneResource /\ RowsAgree /\ SourceKnown /\ UnderLock
      /\ DoneSoFar /\ JournalledChild /\ LookedAfter /\ DoneIsPublished
  BY TypeParts DEF Inductive
<1>1. /\ source'.row = "removed" <=> source.row = "removed"
      /\ UNCHANGED <<op, target, child, strays, named, key, answers, pc, at, lock, held>>
  BY <1>0 DEF TerminateSource, DeleteSourceSandbox, PruneSnapshot, rows, cloud, client, local, RestTypes
<1>2. \A q \in Procs : Holds(q)' <=> Holds(q)
  BY <1>1 DEF Holds
<1>3. Placed'
  BY <1>0, <1>1, <1>2 DEF Placed
<1>4. OneResource'
  BY <1>0, <1>1, <1>2 DEF OneResource
<1>5. RowsAgree'
  BY <1>0, <1>1, <1>2 DEF RowsAgree
<1>6. SourceKnown'
  BY <1>0, <1>1, <1>2 DEF SourceKnown
<1>7. UnderLock'
  BY <1>0, <1>1, <1>2 DEF UnderLock
<1>8. DoneSoFar'
  BY <1>0, <1>1, <1>2 DEF DoneSoFar
<1>9. JournalledChild'
  BY <1>0, <1>1, <1>2 DEF JournalledChild
<1>10. LookedAfter'
  BY <1>0, <1>1, <1>2 DEF LookedAfter, InFlight
<1>11. DoneIsPublished'
  BY <1>0, <1>1, <1>2 DEF DoneIsPublished
<1>12. QED
  BY <1>3, <1>4, <1>5, <1>6, <1>7, <1>8, <1>9, <1>10, <1>11 DEF Inductive

LEMMA RemoveSourceStep ==
  ASSUME Inductive, TypeOK', RemoveSource
  PROVE  Inductive'
<1> USE ForkAssumption
<1>0. /\ RowTypes /\ CloudTypes /\ LocalTypes /\ RestTypes
      /\ Placed /\ OneResource /\ RowsAgree /\ SourceKnown /\ UnderLock
      /\ DoneSoFar /\ JournalledChild /\ LookedAfter /\ DoneIsPublished
  BY TypeParts DEF Inductive
<1>1. /\ source.row = "terminated" /\ source'.row = "removed" /\ held[Source] = NoProc
      /\ UNCHANGED <<target, child, strays, named, key, answers, pc, at, lock, held>>
  BY <1>0 DEF RemoveSource, cloud, client, local, RestTypes
<1>2. \A t \in Targets : /\ op'[t].phase = op[t].phase /\ op'[t].sandbox = op[t].sandbox
                          /\ ~op'[t].bound
  BY <1>0 DEF RemoveSource, RowTypes, Ops
<1>3. \A q \in Procs : ~Holds(q) /\ ~(Holds(q)') 
  BY <1>0, <1>1 DEF Holds, SourceKnown
<1>4. /\ \A q \in Procs : pc[q] \notin {"free", "claim"} => at[q] \in Targets
      /\ key.done => key.resource \in Targets
  BY <1>0 DEF Placed, OneResource
<1>5. Placed'
  BY <1>0, <1>1, <1>2, <1>3, <1>4 DEF Placed
<1>6. OneResource'
  BY <1>0, <1>1, <1>2, <1>3, <1>4 DEF OneResource
<1>7. RowsAgree'
  BY <1>0, <1>1, <1>2, <1>3, <1>4 DEF RowsAgree
<1>8. SourceKnown'
  BY <1>0, <1>1, <1>2, <1>3, <1>4 DEF SourceKnown
<1>9. UnderLock'
  BY <1>0, <1>1, <1>2, <1>3, <1>4 DEF UnderLock
<1>10. DoneSoFar'
  BY <1>0, <1>1, <1>2, <1>3, <1>4 DEF DoneSoFar
<1>11. JournalledChild'
  BY <1>0, <1>1, <1>2, <1>3, <1>4 DEF JournalledChild
<1>12. LookedAfter'
  BY <1>0, <1>1, <1>2, <1>3, <1>4 DEF LookedAfter, InFlight
<1>13. DoneIsPublished'
  BY <1>0, <1>1, <1>2, <1>3, <1>4 DEF DoneIsPublished
<1>14. QED
  BY <1>5, <1>6, <1>7, <1>8, <1>9, <1>10, <1>11, <1>12, <1>13 DEF Inductive

LEMMA DeleteTargetStep ==
  ASSUME Inductive, TypeOK', NEW t \in Targets, DeleteTarget(t)
  PROVE  Inductive'
<1> USE ForkAssumption
<1>0. /\ RowTypes /\ CloudTypes /\ LocalTypes /\ RestTypes
      /\ Placed /\ OneResource /\ RowsAgree /\ SourceKnown /\ UnderLock
      /\ DoneSoFar /\ JournalledChild /\ LookedAfter /\ DoneIsPublished
  BY TypeParts DEF Inductive
<1>1. /\ \A u \in Targets : u # t => op'[u] = op[u] /\ target'[u] = target[u] /\ child'[u] = child[u]
      /\ op'[t] = NoOp /\ target'[t] = NoRow
      /\ child'[t].restored = child[t].restored /\ child'[t].stripped = child[t].stripped
      /\ child'[t].state = IF target[t].sandbox THEN "deleted" ELSE child[t].state
  BY <1>0 DEF DeleteTarget, RowTypes, CloudTypes, Children
<1>2. /\ UNCHANGED <<strays, source, named, key, answers, pc, at, lock, held>>
      /\ \A q \in Procs : Holds(q)' <=> Holds(q)
  BY DEF DeleteTarget, around, client, local, Holds
<1>3. /\ op[t].phase = "completed" \/ op[t].phase = "failed"
      /\ op[t].phase = "completed" => target[t].sandbox
      /\ op[t].phase = "failed" => source.row = "removed"
      /\ op[t].phase # "none"
  BY <1>0 DEF DeleteTarget, Deletable, RowsAgree, RowTypes, Ops, Pending, SourceKnown
<1>4. child[t].state # "none" \/ op[t].phase # "none" => t = key.resource
  BY <1>0 DEF OneResource
<1>5. \A q \in Procs : pc[q] \notin {"free", "claim"} => at[q] = t
  BY <1>0, <1>3, <1>4 DEF Placed
<1>6. Placed'
  BY <1>0, <1>1, <1>2, <1>3, <1>4, <1>5 DEF Placed, NoOp, NoRow, Pending, InFlight, Unrecorded
<1>7. OneResource'
  BY <1>0, <1>1, <1>2, <1>3, <1>4, <1>5 DEF OneResource, NoOp, NoRow, Pending, InFlight, Unrecorded
<1>8. RowsAgree'
  BY <1>0, <1>1, <1>2, <1>3, <1>4, <1>5 DEF RowsAgree, NoOp, NoRow, Pending, InFlight, Unrecorded
<1>9. SourceKnown'
  BY <1>0, <1>1, <1>2, <1>3, <1>4, <1>5 DEF SourceKnown, NoOp, NoRow, Pending, InFlight, Unrecorded
<1>10. UnderLock'
  BY <1>0, <1>1, <1>2, <1>3, <1>4, <1>5 DEF UnderLock, NoOp, NoRow, Pending, InFlight, Unrecorded
<1>11. DoneSoFar'
  BY <1>0, <1>1, <1>2, <1>3, <1>4, <1>5 DEF DoneSoFar, NoOp, NoRow, Pending, InFlight, Unrecorded
<1>12. JournalledChild'
  BY <1>0, <1>1, <1>2, <1>3, <1>4, <1>5 DEF JournalledChild, NoOp, NoRow, Pending, InFlight, Unrecorded
<1>13. LookedAfter'
  BY <1>0, <1>1, <1>2, <1>3, <1>4, <1>5 DEF LookedAfter, NoOp, NoRow, Pending, InFlight, Unrecorded
<1>14. DoneIsPublished'
  BY <1>0, <1>1, <1>2, <1>3, <1>4, <1>5 DEF DoneIsPublished, NoOp, NoRow, Pending, InFlight, Unrecorded
<1>15. QED
  BY <1>6, <1>7, <1>8, <1>9, <1>10, <1>11, <1>12, <1>13, <1>14 DEF Inductive

LEMMA RetryTargetStep ==
  ASSUME Inductive, TypeOK', NEW t \in Targets, RetryTarget(t)
  PROVE  Inductive'
<1> USE ForkAssumption
<1>0. /\ RowTypes /\ CloudTypes /\ LocalTypes /\ RestTypes
      /\ Placed /\ OneResource /\ RowsAgree /\ SourceKnown /\ UnderLock
      /\ DoneSoFar /\ JournalledChild /\ LookedAfter /\ DoneIsPublished
  BY TypeParts DEF Inductive
<1>1. /\ UNCHANGED <<op, child, strays, source, named, key, answers, pc, at, lock, held>>
      /\ \A q \in Procs : Holds(q)' <=> Holds(q)
  BY DEF RetryTarget, cloud, around, client, local, Holds
<1>2. /\ \A u \in Targets : u # t => target'[u] = target[u]
      /\ target[t].status = "error" /\ target'[t].status = "updating"
      /\ target'[t].sandbox = target[t].sandbox
  BY <1>0 DEF RetryTarget, RowTypes, Rows
<1>3. Placed'
  BY <1>0, <1>1, <1>2 DEF Placed
<1>4. OneResource'
  BY <1>0, <1>1, <1>2 DEF OneResource
<1>5. RowsAgree'
  BY <1>0, <1>1, <1>2 DEF RowsAgree
<1>6. SourceKnown'
  BY <1>0, <1>1, <1>2 DEF SourceKnown
<1>7. UnderLock'
  BY <1>0, <1>1, <1>2 DEF UnderLock
<1>8. DoneSoFar'
  BY <1>0, <1>1, <1>2 DEF DoneSoFar
<1>9. JournalledChild'
  BY <1>0, <1>1, <1>2 DEF JournalledChild
<1>10. LookedAfter'
  BY <1>0, <1>1, <1>2 DEF LookedAfter, InFlight
<1>11. DoneIsPublished'
  BY <1>0, <1>1, <1>2 DEF DoneIsPublished
<1>12. QED
  BY <1>3, <1>4, <1>5, <1>6, <1>7, <1>8, <1>9, <1>10, <1>11 DEF Inductive

-----------------------------------------------------------------------------
(* The invariant.                                                          *)

LEMMA InductiveInit == Init => Inductive
<1> SUFFICES ASSUME Init PROVE Inductive
  OBVIOUS
<1>1. TypeOK
  BY ForkAssumption DEF Init, TypeOK, NoOp, NoRow, NoChild, Names, Labels, Scoped, Calls, Pending
<1>2. /\ Placed /\ OneResource /\ UnderLock /\ DoneSoFar
      /\ JournalledChild /\ DoneIsPublished
  BY DEF Init, Placed, OneResource, UnderLock, DoneSoFar, JournalledChild,
         DoneIsPublished, NoOp, NoRow, NoChild, Unrecorded
<1>3. RowsAgree /\ SourceKnown /\ LookedAfter
  BY DEF Init, RowsAgree, SourceKnown, LookedAfter, InFlight, NoOp, NoRow, NoChild, Pending
<1>4. QED
  BY <1>1, <1>2, <1>3 DEF Inductive

LEMMA InductiveNext == Inductive /\ [Next]_vars => Inductive'
<1> SUFFICES ASSUME Inductive, [Next]_vars PROVE Inductive'
  OBVIOUS
<1>1. CASE Next
  <2>1. TypeOK'
    BY <1>1, TypeStep DEF Inductive, OneResource
  <2>2. ASSUME NEW p \in Procs, Record(p) PROVE Inductive'
    <3>1. CASE op[at[p]].phase \in Pending
      BY <2>1, <2>2, <3>1, RecordStep
    <3>2. CASE op[at[p]].phase \notin Pending
      BY <2>1, <2>2, <3>2, FinishStep
      DEF Record, Fails, rows, cloud, around, client, Inductive, OneResource
    <3>3. QED
      BY <3>1, <3>2
  <2>3. ASSUME NEW p \in Procs, Progress(p) PROVE Inductive'
    BY <2>1, <2>2, <2>3, QuietActions, CreateTargetStep, MarkStartedStep, CallLandsStep,
       PublishStep, FailForkStep, CompleteKeyStep, ClaimStep DEF Progress
  <2>4. ASSUME NEW p \in Procs, Request(p) \/ GiveUpWaiting(p) \/ Failure(p)
        PROVE  Inductive'
    BY <2>1, <2>4, QuietActions DEF Failure
  <2>5. ASSUME Surroundings PROVE Inductive'
    BY <2>1, <2>5, SourceStep, RemoveSourceStep, DeleteTargetStep, RetryTargetStep
    DEF Surroundings
  <2>6. QED
    BY <1>1, <2>1, <2>3, <2>4, <2>5, StrayLandsStep DEF Next
<1>2. CASE UNCHANGED vars
  <2>1. UNCHANGED <<op, target, child, strays, source, snapshot, named, key, answers,
                    held, pc, kind, at, lock, requests, faults>>
    BY <1>2 DEF vars, rows, cloud, around, client, local, bounds
  <2>2. TypeOK'
    BY <2>1 DEF Inductive, TypeOK
  <2>3. Placed' /\ OneResource' /\ RowsAgree' /\ SourceKnown' /\ DoneIsPublished'
    BY <2>1 DEF Inductive, Placed, OneResource, RowsAgree, SourceKnown, DoneIsPublished
  <2>4. UnderLock' /\ DoneSoFar' /\ JournalledChild' /\ LookedAfter'
    BY <2>1 DEF Inductive, UnderLock, DoneSoFar, JournalledChild, LookedAfter, InFlight, Holds
  <2>5. QED
    BY <2>2, <2>3, <2>4 DEF Inductive
<1>3. QED
  BY <1>1, <1>2

(* What a process relies on at its place in the saga holds whatever the    *)
(* other processes, the failures and the user have done (resumeOperation). *)
THEOREM InductiveHolds == Spec => []Inductive
BY InductiveInit, InductiveNext, PTL DEF Spec

(* The variables keep their types, the CHECK of the journal included: an   *)
(* operation that has its child names it.                                  *)
THEOREM TypeCorrect == Spec => []TypeOK
<1>1. Inductive => TypeOK
  BY DEF Inductive
<1>2. QED
  BY <1>1, InductiveHolds, PTL

(* However many replicas and requests there are, one key makes one target  *)
(* and one child (claimIdempotentResource).                                *)
THEOREM OneForkEver == Spec => []OneForkPerKey
<1>1. Inductive => OneForkPerKey
  <2> SUFFICES ASSUME Inductive PROVE OneForkPerKey
    OBVIOUS
  <2> DEFINE made == {t \in Targets : child[t].state # "none" \/ op[t].phase # "none"}
  <2>1. made \subseteq {key.resource} /\ answers \subseteq {key.resource}
    BY DEF Inductive, OneResource
  <2>2. IsFiniteSet({key.resource}) /\ Cardinality({key.resource}) = 1
    BY FS_Singleton
  <2>3. Cardinality(made) <= 1
    BY <2>1, <2>2, FS_Subset
  <2>4. QED
    BY <2>1, <2>3 DEF OneForkPerKey
<1>2. QED
  BY <1>1, InductiveHolds, PTL

(* A target that is ready has a child with the state asked for and without *)
(* the credentials of its source, whoever finished the saga (publish).     *)
THEOREM PublishedEver == Spec => []PublishedIsClean
<1>1. Inductive => PublishedIsClean
  BY DEF Inductive, TypeOK, RowsAgree, JournalledChild, PublishedIsClean
<1>2. QED
  BY <1>1, InductiveHolds, PTL

(* A repeated request is answered by a published target, or by one that    *)
(* the user has deleted since (completeIdempotency).                       *)
THEOREM DoneEver == Spec => []DoneIsPublished
<1>1. Inductive => DoneIsPublished
  BY DEF Inductive
<1>2. QED
  BY <1>1, InductiveHolds, PTL

(* While the source is there, a child no Environment names is one that     *)
(* recovery will take up (reconcilePending).                               *)
THEOREM OrphansEver == Spec => []OrphanIsRetried
<1>1. Inductive => OrphanIsRetried
  BY DEF Inductive, LookedAfter, OrphanIsRetried, Orphan
<1>2. QED
  BY <1>1, InductiveHolds, PTL

(* A phase never goes back, and a journalled child is never given up, by   *)
(* whatever copy a recovery has decided (reconcilePending).                *)
THEOREM PhasesAdvance == Spec => PhaseAdvances
<1> DEFINE Onward(a, b) == /\ Rank(b) >= Rank(a)
                           /\ a = "native-ready" => b # "failed"
                           /\ a = "failed" => b = "failed"
           Advance == \A t \in Targets : op'[t] # NoOp => Onward(op[t].phase, op'[t].phase)
<1>1. Inductive /\ [Next]_vars => [Advance]_vars
  <2> SUFFICES ASSUME Inductive, Next PROVE Advance
    OBVIOUS
  <2>1. /\ op \in [Targets -> Ops] /\ Placed /\ RowsAgree /\ SourceKnown
        /\ \A t \in Targets : Onward(op[t].phase, op[t].phase)
    BY TypeParts DEF Inductive, RowTypes, Rank
  <2>2. ASSUME NEW p \in Procs,
               CreateTarget(p) \/ FailFork(p) \/ MarkStarted(p) \/ Record(p) \/ Publish(p)
        PROVE  Advance
    <3>1. at[p] \in Targets /\ op[at[p]] \in Ops
      BY <2>1, <2>2 DEF Placed, CreateTarget, FailFork, MarkStarted, Record, Publish
    <3>2. \A t \in Targets : t # at[p] => op'[t] = op[t]
      BY <2>1, <2>2, <3>1 DEF CreateTarget, FailFork, MarkStarted, Record, Publish, rows
    <3>3. Onward(op[at[p]].phase, op'[at[p]].phase)
      <4>1. CASE CreateTarget(p)
        <5>1. op[at[p]].phase = "none" /\ op'[at[p]].phase = "prepared"
          BY <2>1, <3>1, <4>1 DEF CreateTarget, RowsAgree
        <5>2. QED
          BY <5>1 DEF Rank
      <4>2. CASE FailFork(p)
        <5>1. op[at[p]].phase \in {"none", "prepared", "forking", "failed"}
          BY <2>1, <3>1, <4>2 DEF FailFork, SourceKnown, Ops, Pending
        <5>2. op'[at[p]].phase = IF op[at[p]].phase = "none" THEN "none" ELSE "failed"
          BY <2>1, <3>1, <4>2, <5>1 DEF FailFork, Ops
        <5>3. QED
          BY <5>1, <5>2 DEF Rank
      <4>3. CASE MarkStarted(p)
        <5>1. op'[at[p]].phase = IF op[at[p]].phase = "prepared" THEN "forking" ELSE op[at[p]].phase
          BY <2>1, <3>1, <4>3 DEF MarkStarted, Ops
        <5>2. QED
          BY <2>1, <3>1, <5>1 DEF Rank
      <4>4. CASE Record(p)
        <5>1. CASE op[at[p]].phase \in Pending
          <6>1. op' = [op EXCEPT ![at[p]] = Recorded(op[at[p]])]
            BY <4>4, <5>1 DEF Record
          <6>2. op'[at[p]].phase = "native-ready"
            BY <2>1, <3>1, <6>1 DEF Recorded, Ops
          <6>3. QED
            BY <5>1, <6>2 DEF Rank, Pending
        <5>2. CASE op[at[p]].phase \notin Pending
          BY <2>1, <3>1, <4>4, <5>2 DEF Record, rows
        <5>3. QED
          BY <5>1, <5>2
      <4>5. CASE Publish(p)
        <5>1. /\ op[at[p]].phase \in {"native-ready", "completed"}
              /\ op'[at[p]].phase = "completed"
          BY <2>1, <3>1, <4>5 DEF Publish, MayPublish, Ops
        <5>2. QED
          BY <5>1 DEF Rank
      <4>6. QED
        BY <2>2, <4>1, <4>2, <4>3, <4>4, <4>5
    <3>4. QED
      BY <2>1, <3>2, <3>3
  <2>3. CASE RemoveSource
    <3>1. \A t \in Targets : op'[t].phase = op[t].phase
      BY <2>1, <2>3 DEF RemoveSource, Ops
    <3>2. QED
      BY <2>1, <3>1
  <2>4. ASSUME NEW t \in Targets, DeleteTarget(t) PROVE Advance
    <3>1. \A u \in Targets : IF u = t THEN op'[u] = NoOp ELSE op'[u] = op[u]
      BY <2>1, <2>4 DEF DeleteTarget
    <3>2. QED
      BY <2>1, <3>1
  <2>5. ASSUME UNCHANGED rows \/ \E t \in Targets : RetryTarget(t) PROVE Advance
    BY <2>1, <2>5 DEF RetryTarget, rows
  <2>6. QED
    BY <2>2, <2>3, <2>4, <2>5, RowsStep
<1>2. QED
  BY <1>1, InductiveHolds, PTL DEF Spec, PhaseAdvances
=============================================================================
