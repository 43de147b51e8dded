---------------------- MODULE TerminalControlInvariant ----------------------
(***************************************************************************)
(* Why TerminalControl is safe: what ties a connection to the session it   *)
(* has opened and to the lease it believes in.  Model-checked with the     *)
(* other invariants, and proved to be inductive in TerminalControlProofs.  *)
(***************************************************************************)
EXTENDS TerminalControl

\* Attempt x has been started, and it runs the native session of launch l.
RunsLaunch(x, l) == x \in 1..Len(attempts) /\ attempts[x].launch = l

\* procd runs each session under its own name.
SessionsNamed == \A l \in Launches : live[l] # 0 => RunsLaunch(live[l], l)

\* A connection with a terminal has one of the launch it was admitted for.
TerminalsNamed ==
  \A c \in Conns : conn[c].phase \in {"opened", "published", "open"} =>
    RunsLaunch(conn[c].mine, conn[c].launch)

\* So does the attempt that the row it was admitted with has named.
AdmittedNamed ==
  \A c \in Conns : conn[c].phase = "admitted" /\ conn[c].coord # 0 =>
    RunsLaunch(conn[c].coord, conn[c].launch)

\* The published attempt, if any, runs the selected launch.
RowNamed == row.coord # 0 => RunsLaunch(row.coord, row.launch)

\* Nothing is believed, asked or awaited before the socket is served.
QuietBeforeOpen ==
  \A c \in Conns : conn[c].phase # "open" =>
    /\ conn[c].control.left = 0
    /\ conn[c].queue.left = 0
    /\ conn[c].timer.left = 0

\* What a connection believes to be left of a lease, or is about to be told,
\* is never more than what is left of PostgreSQL's grant to its client.
BelievedWithinGrant ==
  \A c \in Conns : LET granted_c == granted[ClientOf[c]][conn[c].mine] IN
    /\ conn[c].control.left <= granted_c
    /\ conn[c].queue.left <= granted_c
    /\ conn[c].timer.left <= granted_c

\* A selection that has begun has a launch left to select (a bound of the model).
SelectionCounted == selecting.phase \in {"stop", "commit"} => row.launch < MaxLaunches

\* The names of sessions and the beliefs of connections are right, whatever
\* selections, exits, replaced runtimes and late answers come in between.
Inductive ==
  /\ TypeOK
  /\ SessionsNamed /\ AdmittedNamed /\ TerminalsNamed /\ RowNamed /\ LeaseOfCoordinates
  /\ QuietBeforeOpen /\ BelievedWithinGrant /\ SelectionCounted
=============================================================================
