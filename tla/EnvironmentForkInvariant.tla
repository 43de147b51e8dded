---------------------- MODULE EnvironmentForkInvariant ----------------------
(***************************************************************************)
(* What holds in every state of the fork saga: the facts each process may  *)
(* rely on at its place, which together are preserved by every step.       *)
(***************************************************************************)
EXTENDS EnvironmentFork

\* From the hook to the record nothing is journalled but the start.
Unrecorded == {"hook", "start", "fork", "restore", "record"}

\* A process has its place in the saga of the key's resource.
Placed ==
  \A p \in Procs :
    IF pc[p] \in {"free", "claim"} THEN at[p] = NoTarget
    ELSE at[p] \in Targets /\ at[p] = key.resource

\* Nothing else is touched, called or answered.
OneResource ==
  /\ \A t \in Targets : op[t].phase # "none" \/ child[t].state # "none" => t = key.resource
  /\ \A c \in strays : c[2] = key.resource
  /\ answers \subseteq {key.resource}
  /\ key.done => key.resource \in Targets

\* The journal and the row of the target go together.
RowsAgree ==
  \A t \in Targets :
    /\ op[t].phase = "none" <=> target[t].status = "none"
    /\ op[t].phase = "completed" <=> target[t].status = "ready"
    /\ op[t].phase \in Pending => target[t].status = "updating"
    /\ op[t].sandbox <=> target[t].sandbox
    /\ op[t].sandbox => op[t].phase \in {"native-ready", "completed"}

\* What is known of the source from the journal, and of the journal from it.
SourceKnown ==
  /\ \A t \in Targets :
       /\ op[t].bound => source.row # "removed" /\ op[t].phase # "none"
       /\ op[t].phase # "none" /\ ~op[t].bound => source.row = "removed"
       /\ op[t].phase = "failed" => source.row = "removed"
  /\ \A p \in Procs :
       /\ lock[p] # Source => source.row = "removed"
       /\ pc[p] = "giveUp" => /\ source.row = "removed"
                              /\ op[at[p]].phase \notin {"native-ready", "completed"}

\* While the lock is held nobody else records, fails or removes.
UnderLock ==
  \A p \in Procs : Holds(p) /\ pc[p] \in Unrecorded =>
    /\ op[at[p]].phase \in {"prepared", "forking"} /\ op[at[p]].bound
    /\ pc[p] \in {"restore", "record"} => child[at[p]].state = "paused"

\* What is done to a child stays done, whoever has lost the lock.
DoneSoFar ==
  \A p \in Procs :
    /\ pc[p] = "record" /\ named => child[at[p]].restored
    /\ pc[p] = "publish" => child[at[p]].stripped
    /\ pc[p] \in {"return", "complete"} =>
         op[at[p]].phase = "completed" \/ child[at[p]].state = "deleted"

JournalledChild ==
  \A t \in Targets : op[t].phase \in {"native-ready", "completed"} =>
    /\ child[t].state = "paused" /\ (named => child[t].restored)
    /\ op[t].phase = "completed" => child[t].stripped

\* A fork is in flight, or has been made, only where somebody looks after it.
InFlight(t) == (\E p \in Procs : pc[p] = "fork" /\ at[p] = t) \/ <<"fork", t>> \in strays
LookedAfter ==
  \A t \in Targets : InFlight(t) \/ child[t].state = "paused" =>
    \/ op[t].phase \in Pending \/ target[t].sandbox
    \/ child[t].state = "deleted" \/ source.row = "removed"

(* The inductive invariant: a crash, a lost connection or a late call      *)
(* takes none of the above from the other processes.                       *)
Inductive ==
  /\ TypeOK /\ Placed /\ OneResource /\ RowsAgree /\ SourceKnown
  /\ UnderLock /\ DoneSoFar /\ JournalledChild /\ LookedAfter /\ DoneIsPublished
=============================================================================
