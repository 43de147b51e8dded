--------------------------- MODULE TerminalControl ---------------------------
(***************************************************************************)
(* The Agent terminal of one Environment, watched by many connections (on  *)
(* any replica) and written by one at a time: the coordinates published in *)
(* environment_runtime, the controller lease in PostgreSQL, the lease copy *)
(* each connection caches, and the selection of another native session.    *)
(*                                                                         *)
(* Terminal coordinates (runtime generation, procd session, attempt) are a *)
(* number: the position of the attempt in attempts, oldest first.  A procd *)
(* session is named by the launch it was created for, so there is at most  *)
(* one per launch.  Leases count down: left is the time a lease, or the    *)
(* copy of one, still has; the clocks of the replicas agree.               *)
(*                                                                         *)
(* Every statement to PostgreSQL is one action and its answer another one: *)
(* the input queue and the one-second timer of a connection both write its *)
(* control variable, in the order in which their answers happen to arrive. *)
(***************************************************************************)
EXTENDS Naturals, Sequences, FiniteSets

CONSTANTS
  Conns,        \* WebSocket connections
  Clients,      \* client ids: one per browser tab, kept over reconnects
  ClientOf,     \* the client of each connection
  NoClient,
  NoConn,
  Lease,        \* duration of a lease
  MaxAttempts,  \* bound on Agent processes ever started
  MaxLaunches,  \* bound on native session selections
  MaxGenerations, \* bound on replacements of the Sandbox runtime
  MaxEvents,    \* bound on takeovers and on answers that are lost
  Traffic       \* what this instance explores of input, takeover, heartbeat, sync

ASSUME ControlAssumption ==
  /\ ClientOf \in [Conns -> Clients]
  /\ NoClient \notin Clients /\ NoConn \notin Conns
  /\ Lease \in Nat \ {0}
  /\ MaxAttempts \in Nat /\ MaxLaunches \in Nat /\ MaxGenerations \in Nat
  /\ MaxEvents \in Nat
  /\ Traffic \subseteq {"input", "takeover", "heartbeat", "sync"}

VARIABLES
  attempts,   \* procd: the attempts ever started, [gen, launch]
  live,       \* procd: the running attempt of each launch's session, or 0
  generation, \* Sandbox0: the current runtime generation
  row,        \* environment_runtime: [launch, coord, gen], coord 0 is NULL
  ctl,        \* the controller row: [coord, holder, left], or NoLease
  granted,    \* what is left of PostgreSQL's last grant to a client, per attempt
  shared,     \* connections holding the shared advisory lock
  selecting,  \* the native session selection, holder of the exclusive lock
  conn,       \* each connection
  wrote,      \* the connection whose input this step has forwarded
  events

procd == <<attempts, live, generation>>
db    == <<row, ctl, granted>>
vars  == <<procd, db, shared, selecting, conn, wrote, events>>

NoLease == [coord |-> 0, holder |-> NoClient, left |-> 0]
Viewer  == [role |-> "viewer", left |-> 0]
Silent  == [role |-> "none", left |-> 0, input |-> FALSE]
Closed  == [phase |-> "closed", launch |-> 0, coord |-> 0, mine |-> 0,
            control |-> Viewer, queue |-> Silent, timer |-> Silent]

Coords   == 0..MaxAttempts
Launches == 0..MaxLaunches
Control  == [role : {"viewer", "controller"}, left : 0..Lease]
Roles    == {"none", "viewer", "controller", "required", "changed"}
Answer   == [role : Roles, left : 0..Lease, input : BOOLEAN]
Connection == [phase : {"closed", "admitted", "opened", "published", "open"},
               launch : Launches, coord : Coords, mine : Coords,
               control : Control, queue : Answer, timer : Answer]

TypeOK ==
  /\ attempts \in Seq([gen : 0..MaxGenerations, launch : Launches])
  /\ Len(attempts) <= MaxAttempts
  /\ live \in [Launches -> Coords]
  /\ generation \in 0..MaxGenerations
  /\ row \in [launch : Launches, coord : Coords, gen : 0..MaxGenerations]
  /\ ctl \in [coord : Coords, holder : Clients \cup {NoClient}, left : 0..Lease]
  /\ granted \in [Clients -> [Coords -> 0..Lease]]
  /\ shared \subseteq Conns
  /\ selecting \in [phase : {"none", "stop", "commit", "revoke"}, coord : Coords]
  /\ conn \in [Conns -> Connection]
  /\ wrote \in Conns \cup {NoConn} /\ events \in 0..MaxEvents

Init ==
  /\ attempts = <<>> /\ live = [l \in Launches |-> 0] /\ generation = 0
  /\ row = [launch |-> 0, coord |-> 0, gen |-> 0]
  /\ ctl = NoLease /\ granted = [k \in Clients |-> [x \in Coords |-> 0]]
  /\ shared = {} /\ selecting = [phase |-> "none", coord |-> 0]
  /\ conn = [c \in Conns |-> Closed] /\ wrote = NoConn /\ events = 0

Set(c, value) == conn' = [conn EXCEPT ![c] = value]
Quiet == wrote' = NoConn /\ UNCHANGED events
-----------------------------------------------------------------------------
(* Opening a connection.                                                   *)

\* withRuntimeAccess: the row is read under the shared lock.
Admit(c) ==
  /\ conn[c].phase = "closed" /\ selecting.phase = "none"
  /\ shared' = shared \cup {c}
  /\ Set(c, [Closed EXCEPT !.phase = "admitted", !.launch = row.launch,
                           !.coord = row.coord])
  /\ Quiet /\ UNCHANGED <<procd, db, selecting>>

\* openAgentTerminal: the session of the launch that was read, restarted if
\* its process has ended.  The lock is released with the answer.
OpenTerminal(c) ==
  LET running == live[conn[c].launch] IN
  /\ conn[c].phase = "admitted"
  /\ IF running # 0
       THEN UNCHANGED procd
       ELSE /\ Len(attempts) < MaxAttempts
            /\ attempts' = Append(attempts, [gen |-> generation, launch |-> conn[c].launch])
            /\ live' = [live EXCEPT ![conn[c].launch] = Len(attempts')]
            /\ UNCHANGED generation
  /\ LET mine == live'[conn[c].launch] IN
       Set(c, [conn[c] EXCEPT !.mine = mine,
                 !.phase = IF conn[c].coord = mine THEN "published" ELSE "opened"])
  /\ shared' = shared \ {c}
  /\ Quiet /\ UNCHANGED <<db, selecting>>

\* Or of a session the replica has seen up to five seconds ago under the same
\* name and runtime generation: the attempt may have ended since.
OpenCached(c) ==
  /\ conn[c].phase = "admitted" /\ conn[c].coord # 0
  /\ \E x \in 1..Len(attempts) :
       /\ attempts[x] = attempts[conn[c].coord]
       /\ Set(c, [conn[c] EXCEPT !.mine = x,
                    !.phase = IF conn[c].coord = x THEN "published" ELSE "opened"])
  /\ shared' = shared \ {c}
  /\ Quiet /\ UNCHANGED <<procd, db, selecting>>

\* recordEnvironmentAgentSession: a compare-and-swap on the launch and on the
\* runtime generation, without the lock, and the leases it revokes.  (Beside
\* each condition here, a mistake that the properties must notice.)
AnyLaunch(c)     == row.gen <= attempts[conn[c].mine].gen
MayPublish(c)    == row.launch = conn[c].launch /\ row.gen <= attempts[conn[c].mine].gen

EveryLease(c)   == ctl
LeaseOnMine(c)  == IF ctl.coord = conn[c].mine THEN ctl ELSE NoLease

PublishCoordinates(c) ==
  LET mine == conn[c].mine IN
  /\ conn[c].phase = "opened"
  /\ IF MayPublish(c)
       THEN /\ row' = [row EXCEPT !.coord = mine, !.gen = attempts[mine].gen]
            /\ ctl' = LeaseOnMine(c)
            /\ Set(c, [conn[c] EXCEPT !.phase = "published"])
       ELSE UNCHANGED <<row, ctl>> /\ Set(c, Closed)
  /\ Quiet /\ UNCHANGED <<procd, granted, shared, selecting>>

-----------------------------------------------------------------------------
(* The lease.                                                              *)

Mine(c)     == row.coord = conn[c].mine
HeldBy(c)   == ctl.coord = conn[c].mine /\ ctl.holder = ClientOf[c]
NeverExpires(c) == ctl = NoLease \/ ctl.coord # conn[c].mine \/ HeldBy(c)
MayTake(c)  == ctl = NoLease \/ ctl.left = 0 \/ ctl.coord # conn[c].mine \/ HeldBy(c)

Grant(c) ==
  LET k == ClientOf[c] IN
  /\ ctl' = [coord |-> conn[c].mine, holder |-> k, left |-> Lease]
  /\ granted' = [granted EXCEPT ![k][conn[c].mine] = Lease]
  /\ UNCHANGED row

\* acquireEnvironmentTerminalControl, and the role it answers with.
Acquired(c, takeover) ==
  CASE ~Mine(c)                             -> "changed"
    [] Mine(c) /\ (takeover \/ MayTake(c)) -> "controller"
    [] OTHER                                -> "viewer"
\* renewEnvironmentTerminalControl, likewise.
Renewed(c) == IF Mine(c) /\ HeldBy(c) /\ ctl.left > 0 THEN "controller" ELSE "required"

Apply(c, answer) == IF answer = "controller" THEN Grant(c) ELSE UNCHANGED db
Timed(answer)    == IF answer = "controller" THEN Lease ELSE 0
Reply(answer, input) == [role |-> answer, left |-> Timed(answer), input |-> input]
LeaseFromNow(a) == [role |-> a.role, left |-> Timed(a.role)]
Learn(a) == [role |-> a.role, left |-> a.left]

\* The connection acquires what it can get, then serves its socket.
BecomeReady(c) ==
  LET answer == Acquired(c, FALSE) IN
  /\ conn[c].phase = "published" /\ Apply(c, answer)
  /\ Set(c, IF answer = "changed" THEN Closed
            ELSE [conn[c] EXCEPT !.phase = "open", !.control = Learn(Reply(answer, FALSE))])
  /\ Quiet /\ UNCHANGED <<procd, shared, selecting>>

Fresh(c) == conn[c].control.role = "controller" /\ conn[c].control.left > 0

\* Input under a fresh lease copy is forwarded without asking PostgreSQL.
ForwardCached(c) ==
  /\ conn[c].phase = "open" /\ conn[c].queue.role = "none"
  /\ "input" \in Traffic /\ Fresh(c)
  /\ wrote' = c
  /\ UNCHANGED <<procd, db, shared, selecting, conn, events>>

\* Otherwise the queue asks, and waits for the answer before its next message;
\* it also carries takeovers and heartbeats.
QueueAsks(c, kind) ==
  LET answer == IF kind = "takeover" THEN Acquired(c, TRUE) ELSE Renewed(c) IN
  /\ conn[c].phase = "open" /\ conn[c].queue.role = "none"
  /\ kind \in Traffic \ {"sync"} /\ (kind = "input" => ~Fresh(c))
  /\ Apply(c, answer)
  /\ Set(c, [conn[c] EXCEPT !.queue = Reply(answer, kind = "input")])
  /\ kind = "takeover" => events < MaxEvents
  /\ events' = events + (IF kind = "takeover" THEN 1 ELSE 0)
  /\ wrote' = NoConn /\ UNCHANGED <<procd, shared, selecting>>

\* A refusal makes the connection a viewer, granted input is forwarded.
QueueAnswered(c) ==
  LET a == conn[c].queue IN
  /\ conn[c].phase = "open" /\ a.role # "none"
  /\ Set(c, [conn[c] EXCEPT !.queue = Silent,
               !.control = IF a.role \in {"required", "changed"} THEN Viewer ELSE Learn(a)])
  /\ wrote' = IF a.input /\ a.role = "controller" THEN c ELSE NoConn
  /\ UNCHANGED <<procd, db, shared, selecting, events>>

\* Once a second, one synchronization at a time.
TimerAsks(c) ==
  LET answer == IF conn[c].control.role = "controller" THEN Renewed(c)
                                                       ELSE Acquired(c, FALSE) IN
  /\ conn[c].phase = "open" /\ conn[c].timer.role = "none" /\ "sync" \in Traffic
  /\ Apply(c, answer)
  /\ Set(c, [conn[c] EXCEPT !.timer = Reply(answer, FALSE)])
  /\ Quiet /\ UNCHANGED <<procd, shared, selecting>>

\* Only a lost lease makes a viewer of it; any other error changes nothing.
TimerAnswered(c) ==
  LET a == conn[c].timer IN
  /\ conn[c].phase = "open" /\ a.role # "none"
  /\ Set(c, [conn[c] EXCEPT !.timer = Silent,
               !.control = CASE a.role = "changed"  -> @
                             [] a.role = "required" -> Viewer
                             [] OTHER               -> Learn(a)])
  /\ Quiet /\ UNCHANGED <<procd, db, shared, selecting>>

\* The answer is an error of the connection to PostgreSQL, whether or not the
\* statement took effect: the queue steps down, the timer tries again.
AnswerLost(c) ==
  /\ conn[c].phase = "open" /\ events < MaxEvents /\ events' = events + 1
  /\ \/ /\ conn[c].queue.role # "none"
        /\ Set(c, [conn[c] EXCEPT !.queue = Silent, !.control = Viewer])
     \/ conn[c].timer.role # "none" /\ Set(c, [conn[c] EXCEPT !.timer = Silent])
  /\ wrote' = NoConn
  /\ UNCHANGED <<procd, db, shared, selecting>>

\* The socket closes, the stream of its attempt ends, or the replica dies.
Close(c) ==
  /\ conn[c].phase # "closed" /\ Set(c, Closed)
  /\ shared' = shared \ {c}
  /\ Quiet /\ UNCHANGED <<procd, db, selecting>>

-----------------------------------------------------------------------------
(* Selecting a native session ("Stop and open").                           *)

SelectBegins ==
  /\ selecting.phase = "none" /\ shared = {} /\ row.launch < MaxLaunches
  /\ selecting' = [phase |-> "stop", coord |-> row.coord]
  /\ Quiet /\ UNCHANGED <<procd, db, shared, conn>>

\* stopAgentTerminal: only the session the row has named is stopped.
StopAgent ==
  /\ selecting.phase = "stop"
  /\ live' = IF selecting.coord = 0 THEN live ELSE
               [live EXCEPT ![attempts[selecting.coord].launch] = 0]
  /\ selecting' = [selecting EXCEPT !.phase = "commit"]
  /\ Quiet /\ UNCHANGED <<attempts, generation, db, shared, conn>>

\* selectNativeSession: two statements, no transaction.
CommitSelection ==
  /\ selecting.phase = "commit"
  /\ row' = [row EXCEPT !.launch = @ + 1, !.coord = 0]
  /\ selecting' = [selecting EXCEPT !.phase = "revoke"]
  /\ Quiet /\ UNCHANGED <<procd, ctl, granted, shared, conn>>

RevokeLeases ==
  /\ selecting.phase = "revoke"
  /\ ctl' = NoLease /\ selecting' = [phase |-> "none", coord |-> 0]
  /\ Quiet /\ UNCHANGED <<procd, row, granted, shared, conn>>

\* An error, or the end of the replica: the lock goes with its connection.
SelectionFails ==
  /\ selecting.phase # "none" /\ selecting' = [phase |-> "none", coord |-> 0]
  /\ Quiet /\ UNCHANGED <<procd, db, shared, conn>>

-----------------------------------------------------------------------------
(* The environment.                                                        *)

AgentExits(l) ==
  /\ live[l] # 0 /\ live' = [live EXCEPT ![l] = 0]
  /\ Quiet /\ UNCHANGED <<attempts, generation, db, shared, selecting, conn>>

\* A pause, a resume or a crash at Sandbox0 replaces the runtime.
RuntimeReplaced ==
  /\ generation < MaxGenerations /\ generation' = generation + 1
  /\ live' = [l \in Launches |-> 0]
  /\ Quiet /\ UNCHANGED <<attempts, db, shared, selecting, conn>>

LessThanZero(n) == n - 1
Less(n) == IF n > 0 THEN n - 1 ELSE 0
Age(r)  == [r EXCEPT !.left = Less(@)]
Tick ==
  /\ ctl' = Age(ctl) /\ granted' = [k \in Clients |-> [x \in Coords |-> Less(granted[k][x])]]
  /\ conn' = [c \in Conns |-> [conn[c] EXCEPT
       !.control = Age(@), !.queue = Age(@), !.timer = Age(@)]]
  /\ Quiet /\ UNCHANGED <<procd, row, shared, selecting>>

-----------------------------------------------------------------------------
Serve(c) ==
  \/ Admit(c) \/ OpenTerminal(c) \/ OpenCached(c) \/ PublishCoordinates(c)
  \/ BecomeReady(c) \/ ForwardCached(c) \/ QueueAnswered(c) \/ TimerAsks(c) \/ TimerAnswered(c)
  \/ AnswerLost(c) \/ Close(c)
  \/ \E kind \in {"input", "takeover", "heartbeat"} : QueueAsks(c, kind)

Select == SelectBegins \/ StopAgent \/ CommitSelection \/ RevokeLeases \/ SelectionFails

Next ==
  \/ \E c \in Conns : Serve(c)
  \/ Select
  \/ (\E l \in Launches : AgentExits(l)) \/ RuntimeReplaced \/ Tick

Spec == Init /\ [][Next]_vars

(* Time passes, and PostgreSQL answers the timer of an open connection.    *)
Fairness ==
  /\ WF_vars(Tick)
  /\ \A c \in Conns : WF_vars(TimerAsks(c)) /\ WF_vars(TimerAnswered(c))
FairSpec == Spec /\ Fairness

-----------------------------------------------------------------------------
(* Properties.                                                             *)

\* Input is forwarded only by a connection whose client PostgreSQL has granted
\* the lease of exactly that attempt, less than one lease ago or in answer to
\* that very input: neither the cached copy nor answers that arrive late or
\* out of order extend a lease (server.ts, the lease cache of the input queue).
InputWithinLease ==
  [][ wrote' # NoConn =>
        \/ granted[ClientOf[wrote']][conn[wrote'].mine] > 0
        \/ conn[wrote'].queue.role = "controller" ]_vars

\* The published attempt always belongs to the selected native session: a
\* connection opened before a selection publishes nothing after it.
CoordinatesOfLaunch ==
  row.coord # 0 => attempts[row.coord].launch = row.launch

\* No lease survives on coordinates that are not, or not any more, the
\* published ones, except while a selection has cleared them.
LeaseOfCoordinates == ctl # NoLease => row.coord \in {0, ctl.coord}

\* While a connection stays open, the terminal does not stay without a
\* controller: a lease left by a closed tab expires and a viewer's timer gets
\* it, if no tab keeps taking control over (server.ts, the one-second control
\* timer).  It holds for an attempt that stays published.
ControlReturns ==
  \A c \in Conns : conn[c].phase = "open" ~>
    ((\E d \in Conns : conn[d].control.role = "controller") \/ conn[c].phase # "open")

\* "Every input frame rechecks the token and generation; a queued frame from
\* the old controller is rejected after takeover" (native-agent-terminal-
\* authority.md 127-128).
InputRechecked ==
  [][ wrote' # NoConn => HeldBy(wrote') /\ ctl.left > 0 ]_vars

\* "Launch-ID CAS rejects stale devices and late terminal-coordinate
\* publication" (native-agent-terminal-authority.md 246-247).
LatePublicationRejected ==
  [][ row'.coord # 0 => row'.coord >= row.coord ]_row
=============================================================================
