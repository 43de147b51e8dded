----------------------- MODULE TerminalControlProofs ------------------------
(***************************************************************************)
(* Proofs about TerminalControl for every number of connections, clients,  *)
(* attempts, launches and runtime generations, and every duration of a     *)
(* lease: the conjunction Inductive of TerminalControlInvariant holds in   *)
(* every reachable state, and with it the properties of TerminalControl    *)
(* except the one under fairness.                                          *)
(***************************************************************************)
EXTENDS TerminalControlInvariant, TLAPS

-----------------------------------------------------------------------------
(* The names of sessions and of terminals.                                 *)

\* An attempt that runs a launch runs it in every later state: attempts are
\* only appended.
LEMMA AttemptsKept ==
  ASSUME TypeOK, [Next]_vars, NEW x, NEW l, RunsLaunch(x, l)
  PROVE  RunsLaunch(x, l)'
<1>1. attempts \in Seq([gen : 0..MaxGenerations, launch : Launches])
  BY DEF TypeOK
<1>2. attempts' = attempts \/ \E a : attempts' = Append(attempts, a)
  BY DEF Next, Serve, Select, Admit, OpenTerminal, OpenCached, PublishCoordinates, BecomeReady,
         ForwardCached, QueueAsks, QueueAnswered, TimerAsks, TimerAnswered, AnswerLost,
         Close, SelectBegins, StopAgent, CommitSelection, RevokeLeases, SelectionFails,
         AgentExits, RuntimeReplaced, Tick, procd, vars
<1>3. CASE attempts' = attempts
  BY <1>3 DEF RunsLaunch
<1>4. ASSUME NEW a, attempts' = Append(attempts, a) PROVE RunsLaunch(x, l)'
  <2>1. Len(attempts') = Len(attempts) + 1 /\ attempts'[x] = attempts[x]
    BY <1>1, <1>4 DEF RunsLaunch
  <2> QED
    BY <1>1, <2>1 DEF RunsLaunch
<1> QED
  BY <1>2, <1>3, <1>4

\* The attempt that openAgentTerminal answers with has a number within the
\* bound.
LEMMA Opened ==
  ASSUME TypeOK, NEW c \in Conns, OpenTerminal(c) PROVE live'[conn[c].launch] \in Coords
<1>1. /\ conn[c].launch \in Launches /\ live \in [Launches -> Coords]
  BY DEF TypeOK, Connection
<1>2. attempts \in Seq([gen : 0..MaxGenerations, launch : Launches]) /\ Len(attempts) <= MaxAttempts
  BY DEF TypeOK
<1>3. CASE live[conn[c].launch] # 0
  BY <1>1, <1>3 DEF OpenTerminal, procd
<1>4. CASE live[conn[c].launch] = 0
  <2>1. /\ Len(attempts) < MaxAttempts
        /\ attempts' = Append(attempts, [gen |-> generation, launch |-> conn[c].launch])
        /\ live'[conn[c].launch] = Len(attempts')
    BY <1>1, <1>4 DEF OpenTerminal
  <2>2. Len(attempts') = Len(attempts) + 1 /\ Len(attempts) \in Nat
    BY <1>2, <2>1
  <2> QED
    BY <2>1, <2>2, ControlAssumption DEF Coords
<1> QED
  BY <1>3, <1>4

\* openAgentTerminal answers with an attempt of the launch it was asked for,
\* running already or just started.
LEMMA OpenedRuns ==
  ASSUME TypeOK, SessionsNamed, NEW c \in Conns, OpenTerminal(c)
  PROVE  /\ RunsLaunch(conn[c].mine, conn[c].launch)'
         /\ conn'[c].launch = conn[c].launch /\ conn'[c].mine = live'[conn[c].launch]
<1> DEFINE l == conn[c].launch
<1>1. attempts \in Seq([gen : 0..MaxGenerations, launch : Launches])
  BY DEF TypeOK
<1>2. /\ l \in Launches /\ live \in [Launches -> Coords]
      /\ conn[c] \in Connection /\ conn \in [Conns -> Connection]
  BY DEF TypeOK, Connection
<1>3. conn'[c].mine = live'[l] /\ conn'[c].launch = l
  BY <1>2 DEF OpenTerminal, Set, Connection
<1>4. CASE live[l] # 0
  <2>1. live' = live /\ attempts' = attempts
    BY <1>4 DEF OpenTerminal, procd
  <2> QED
    BY <1>2, <1>3, <1>4, <2>1 DEF SessionsNamed, RunsLaunch
<1>5. CASE live[l] = 0
  <2>1. /\ attempts' = Append(attempts, [gen |-> generation, launch |-> l])
        /\ live'[l] = Len(attempts')
    BY <1>2, <1>5 DEF OpenTerminal
  <2>2. Len(attempts') \in 1..Len(attempts') /\ attempts'[Len(attempts')].launch = l
    BY <1>1, <2>1
  <2> QED
    BY <1>3, <2>1, <2>2 DEF RunsLaunch
<1> QED
  BY <1>3, <1>4, <1>5

\* An attempt out of a replica's cache is one that has been started, of the launch
\* that the published one runs.
LEMMA CachedRuns ==
  ASSUME TypeOK, NEW c \in Conns, OpenCached(c)
  PROVE  \E x \in Coords :
           /\ RunsLaunch(conn[c].coord, conn[c].launch) => RunsLaunch(x, conn[c].launch)
           /\ Set(c, [conn[c] EXCEPT !.mine = x,
                        !.phase = IF conn[c].coord = x THEN "published" ELSE "opened"])
<1>1. PICK x \in 1..Len(attempts) :
        /\ attempts[x] = attempts[conn[c].coord]
        /\ Set(c, [conn[c] EXCEPT !.mine = x,
                     !.phase = IF conn[c].coord = x THEN "published" ELSE "opened"])
  BY DEF OpenCached
<1>2. x \in Coords
  <2>1. Len(attempts) \in Nat /\ Len(attempts) <= MaxAttempts /\ MaxAttempts \in Nat
    BY ControlAssumption DEF TypeOK
  <2> QED
    BY <2>1 DEF Coords
<1>3. RunsLaunch(conn[c].coord, conn[c].launch) => RunsLaunch(x, conn[c].launch)
  BY <1>1 DEF RunsLaunch
<1> QED
  BY <1>1, <1>2, <1>3

\* A step keeps procd's sessions under their own names.
LEMMA SessionsStep ==
  ASSUME TypeOK, SessionsNamed, [Next]_vars PROVE SessionsNamed'
<1> SUFFICES ASSUME NEW k \in Launches, live'[k] # 0 PROVE RunsLaunch(live[k], k)'
  BY DEF SessionsNamed
<1> USE DEF procd
<1>1. live \in [Launches -> Coords] /\ conn \in [Conns -> Connection]
  BY DEF TypeOK
<1>2. CASE live'[k] = live[k]
  BY <1>2, AttemptsKept DEF SessionsNamed
<1>3. ASSUME NEW c \in Conns, OpenTerminal(c), live'[k] # live[k] PROVE RunsLaunch(live[k], k)'
  <2>1. k = conn[c].launch
    BY <1>1, <1>3 DEF OpenTerminal
  <2> QED
    BY <1>3, <2>1, OpenedRuns
<1>4. ASSUME live'[k] # live[k] PROVE \E c \in Conns : OpenTerminal(c)
  BY <1>1, <1>4 DEF Next, Serve, Select, Admit, OpenCached, PublishCoordinates, BecomeReady,
         ForwardCached, QueueAsks, QueueAnswered, TimerAsks, TimerAnswered, AnswerLost,
         Close, SelectBegins, StopAgent, CommitSelection, RevokeLeases, SelectionFails,
         AgentExits, RuntimeReplaced, Tick, vars
<1> QED
  BY <1>2, <1>3, <1>4

\* A tick changes the three clocks of a connection and nothing else of it.
LEMMA Aged ==
  ASSUME TypeOK, Tick, NEW c \in Conns
  PROVE  /\ conn'[c].phase = conn[c].phase /\ conn'[c].launch = conn[c].launch
         /\ conn'[c].coord = conn[c].coord /\ conn'[c].mine = conn[c].mine
         /\ conn'[c].control = Age(conn[c].control)
         /\ conn'[c].queue = Age(conn[c].queue)
         /\ conn'[c].timer = Age(conn[c].timer)
<1>1. conn[c] \in Connection
  BY DEF TypeOK
<1>2. conn'[c] = [conn[c] EXCEPT !.control = Age(@), !.queue = Age(@), !.timer = Age(@)]
  BY DEF Tick
<1> QED
  BY <1>1, <1>2 DEF Connection

\* Ageing takes one off what is left, and zero stays zero.
LEMMA AgedLeft ==
  /\ \A r \in Control : Age(r).left = Less(r.left) /\ Age(r) \in Control
  /\ \A r \in Answer :
      /\ Age(r).left = Less(r.left) /\ Age(r).role = r.role
      /\ Age(r).input = r.input /\ Age(r) \in Answer
  /\ \A n \in 0..Lease : Less(n) \in 0..Lease
<1>0. \A n \in 0..Lease : Less(n) \in 0..Lease
  BY ControlAssumption DEF Less
<1>1. \A r \in Control : Age(r).left = Less(r.left) /\ Age(r) \in Control
  BY <1>0 DEF Age, Control
<1>2. \A r \in Answer :
      /\ Age(r).left = Less(r.left) /\ Age(r).role = r.role
      /\ Age(r).input = r.input /\ Age(r) \in Answer
  BY <1>0, Zenon DEF Age, Answer
<1> QED
  BY <1>0, <1>1, <1>2

\* A step keeps every opened connection on an attempt of the launch it was
\* admitted for.
LEMMA TerminalsStep ==
  ASSUME TypeOK, SessionsNamed, AdmittedNamed, TerminalsNamed, [Next]_vars
  PROVE  TerminalsNamed'
<1> DEFINE Served == {"opened", "published", "open"}
<1> SUFFICES ASSUME NEW d \in Conns, conn'[d].phase \in Served
             PROVE  RunsLaunch(conn[d].mine, conn[d].launch)'
  BY DEF TerminalsNamed
<1> DEFINE Kept == /\ conn[d].phase \in Served
                   /\ conn'[d].mine = conn[d].mine /\ conn'[d].launch = conn[d].launch
<1>a. ASSUME Kept PROVE RunsLaunch(conn[d].mine, conn[d].launch)'
  BY <1>a, AttemptsKept DEF TerminalsNamed
<1>b. conn \in [Conns -> Connection] /\ conn[d] \in Connection
  BY DEF TypeOK
<1> USE DEF Set
<1>1. ASSUME NEW c \in Conns, Admit(c) PROVE Kept
  BY <1>1, <1>b DEF Admit, Closed, Connection
<1>2. ASSUME NEW c \in Conns, OpenTerminal(c) PROVE RunsLaunch(conn[d].mine, conn[d].launch)'
  <2>1. CASE d = c
    BY <1>2, <2>1, OpenedRuns
  <2>2. CASE d # c
    BY <1>2, <1>a, <1>b, <2>2 DEF OpenTerminal
  <2> QED
    BY <2>1, <2>2
<1>3. ASSUME NEW c \in Conns, PublishCoordinates(c) PROVE Kept
  <2>1. PICK r \in {[conn[c] EXCEPT !.phase = "published"], Closed} :
          conn' = [conn EXCEPT ![c] = r]
    BY <1>3 DEF PublishCoordinates
  <2>2. conn[c].phase = "opened"
    BY <1>3 DEF PublishCoordinates
  <2>3. CASE d = c /\ r = [conn[c] EXCEPT !.phase = "published"]
    BY <1>b, <2>1, <2>2, <2>3 DEF Connection
  <2>4. CASE d = c /\ r = Closed
    BY <1>b, <2>1, <2>4 DEF Closed
  <2>5. CASE d # c
    BY <1>b, <2>1, <2>5
  <2> QED
    BY <2>1, <2>3, <2>4, <2>5
<1>4. ASSUME NEW c \in Conns, BecomeReady(c) PROVE Kept
  BY <1>4, <1>b DEF BecomeReady, Closed, Connection
<1>5. ASSUME NEW c \in Conns, NEW kind \in {"input", "takeover", "heartbeat"}, QueueAsks(c, kind)
      PROVE Kept
  BY <1>5, <1>b DEF QueueAsks, Closed, Connection
<1>6. ASSUME NEW c \in Conns, QueueAnswered(c) PROVE Kept
  BY <1>6, <1>b DEF QueueAnswered, Closed, Connection
<1>7. ASSUME NEW c \in Conns, TimerAsks(c) PROVE Kept
  BY <1>7, <1>b DEF TimerAsks, Closed, Connection
<1>8. ASSUME NEW c \in Conns, TimerAnswered(c) PROVE Kept
  BY <1>8, <1>b DEF TimerAnswered, Closed, Connection
<1>9. ASSUME NEW c \in Conns, AnswerLost(c) PROVE Kept
  <2>1. PICK r \in {[conn[c] EXCEPT !.queue = Silent, !.control = Viewer],
                    [conn[c] EXCEPT !.timer = Silent]} : conn' = [conn EXCEPT ![c] = r]
    BY <1>9 DEF AnswerLost
  <2>2. r.phase = conn[c].phase /\ r.mine = conn[c].mine /\ r.launch = conn[c].launch
    BY <1>b, <2>1 DEF Connection
  <2> QED
    BY <1>b, <2>1, <2>2
<1>10. ASSUME NEW c \in Conns, Close(c) PROVE Kept
  BY <1>10, <1>b DEF Close, Closed, Connection
<1>11. ASSUME Tick PROVE Kept
  BY <1>11, Aged
<1>12. ASSUME UNCHANGED conn PROVE Kept
  BY <1>12
<1>14. ASSUME NEW c \in Conns, OpenCached(c) PROVE RunsLaunch(conn[d].mine, conn[d].launch)'
  <2>1. conn[c].phase = "admitted" /\ conn[c].coord # 0
    BY <1>14 DEF OpenCached
  <2>2. PICK x \in Coords :
          /\ RunsLaunch(conn[c].coord, conn[c].launch) => RunsLaunch(x, conn[c].launch)
          /\ conn' = [conn EXCEPT ![c] = [conn[c] EXCEPT !.mine = x,
                        !.phase = IF conn[c].coord = x THEN "published" ELSE "opened"]]
    BY <1>14, CachedRuns
  <2>3. RunsLaunch(x, conn[c].launch)
    BY <2>1, <2>2 DEF AdmittedNamed
  <2>4. CASE d = c
    <3>1. conn'[d].mine = x /\ conn'[d].launch = conn[c].launch
      BY <1>b, <2>2, <2>4 DEF Connection
    <3> QED
      BY <2>3, <3>1, AttemptsKept
  <2>5. CASE d # c
    BY <1>a, <1>b, <2>2, <2>5
  <2> QED
    BY <2>4, <2>5
<1>13. \/ UNCHANGED conn \/ Tick
      \/ \E c \in Conns :
           \/ Admit(c) \/ OpenTerminal(c) \/ OpenCached(c) \/ PublishCoordinates(c)
           \/ BecomeReady(c)
           \/ QueueAnswered(c) \/ TimerAsks(c) \/ TimerAnswered(c)
           \/ AnswerLost(c) \/ Close(c)
           \/ \E kind \in {"input", "takeover", "heartbeat"} : QueueAsks(c, kind)
  BY DEF Next, Serve, Select, ForwardCached, SelectBegins, StopAgent, CommitSelection,
         RevokeLeases, SelectionFails, AgentExits, RuntimeReplaced, vars
<1> QED
  BY <1>a, <1>1, <1>2, <1>3, <1>4, <1>5, <1>6, <1>7, <1>8, <1>9, <1>10, <1>11, <1>12,
     <1>13, <1>14

\* An admission reads the published attempt, and a step leaves it alone.
LEMMA AdmittedStep ==
  ASSUME TypeOK, RowNamed, AdmittedNamed, [Next]_vars PROVE AdmittedNamed'
<1> SUFFICES ASSUME NEW d \in Conns, conn'[d].phase = "admitted", conn'[d].coord # 0
             PROVE  RunsLaunch(conn[d].coord, conn[d].launch)'
  BY DEF AdmittedNamed
<1>1. conn \in [Conns -> Connection] /\ conn[d] \in Connection
  BY DEF TypeOK
<1> DEFINE Kept == /\ conn[d].phase = "admitted"
                   /\ conn'[d].coord = conn[d].coord /\ conn'[d].launch = conn[d].launch
<1>2. ASSUME Kept PROVE RunsLaunch(conn[d].coord, conn[d].launch)'
  BY <1>2, AttemptsKept DEF AdmittedNamed
<1>3. ASSUME NEW c \in Conns, Admit(c) PROVE RunsLaunch(conn[d].coord, conn[d].launch)'
  <2>1. CASE d = c
    <3>1. conn'[d].coord = row.coord /\ conn'[d].launch = row.launch
      BY <1>1, <1>3, <2>1 DEF Admit, Set, Closed
    <3> QED
      BY <3>1, AttemptsKept DEF RowNamed
  <2>2. CASE d # c
    BY <1>1, <1>2, <1>3, <2>2 DEF Admit, Set
  <2> QED
    BY <2>1, <2>2
<1> USE DEF Set
<1>4. ASSUME NEW c \in Conns, OpenTerminal(c) PROVE Kept
  <2>1. conn' = [conn EXCEPT ![c] = [conn[c] EXCEPT !.mine = live'[conn[c].launch],
                   !.phase = IF conn[c].coord = live'[conn[c].launch] THEN "published"
                                                                      ELSE "opened"]]
    BY <1>4 DEF OpenTerminal
  <2>2. conn[c] \in Connection
    BY <1>1
  <2> QED
    BY <1>1, <2>1, <2>2 DEF Connection
<1>5. ASSUME NEW c \in Conns, OpenCached(c) PROVE Kept
  <2>1. PICK x \in Coords :
          conn' = [conn EXCEPT ![c] = [conn[c] EXCEPT !.mine = x,
                     !.phase = IF conn[c].coord = x THEN "published" ELSE "opened"]]
    BY <1>5, CachedRuns
  <2>2. conn[c] \in Connection
    BY <1>1
  <2> QED
    BY <1>1, <2>1, <2>2 DEF Connection
<1>6. ASSUME NEW c \in Conns, PublishCoordinates(c) PROVE Kept
  BY <1>1, <1>6 DEF PublishCoordinates, Closed, Connection
<1>7. ASSUME NEW c \in Conns, BecomeReady(c) PROVE Kept
  BY <1>1, <1>7 DEF BecomeReady, Closed, Connection
<1>8. ASSUME NEW c \in Conns, NEW kind \in {"input", "takeover", "heartbeat"}, QueueAsks(c, kind)
      PROVE  Kept
  BY <1>1, <1>8 DEF QueueAsks, Connection
<1>9. ASSUME NEW c \in Conns, QueueAnswered(c) PROVE Kept
  BY <1>1, <1>9 DEF QueueAnswered, Connection
<1>10. ASSUME NEW c \in Conns, TimerAsks(c) PROVE Kept
  BY <1>1, <1>10 DEF TimerAsks, Connection
<1>11. ASSUME NEW c \in Conns, TimerAnswered(c) PROVE Kept
  BY <1>1, <1>11 DEF TimerAnswered, Connection
<1>12. ASSUME NEW c \in Conns, AnswerLost(c) PROVE Kept
  <2>1. PICK r \in {[conn[c] EXCEPT !.queue = Silent, !.control = Viewer],
                    [conn[c] EXCEPT !.timer = Silent]} : conn' = [conn EXCEPT ![c] = r]
    BY <1>12 DEF AnswerLost
  <2>2. r.phase = conn[c].phase /\ r.coord = conn[c].coord /\ r.launch = conn[c].launch
    BY <1>1, <2>1 DEF Connection
  <2> QED
    BY <1>1, <2>1, <2>2
<1>13. ASSUME NEW c \in Conns, Close(c) PROVE Kept
  BY <1>1, <1>13 DEF Close, Closed, Connection
<1>14. ASSUME UNCHANGED conn \/ Tick PROVE Kept
  BY <1>14, Aged
<1>15. \/ UNCHANGED conn \/ Tick
       \/ \E c \in Conns :
            \/ Admit(c) \/ OpenTerminal(c) \/ OpenCached(c) \/ PublishCoordinates(c)
            \/ BecomeReady(c) \/ QueueAnswered(c) \/ TimerAsks(c) \/ TimerAnswered(c)
            \/ AnswerLost(c) \/ Close(c)
            \/ \E kind \in {"input", "takeover", "heartbeat"} : QueueAsks(c, kind)
  BY DEF Next, Serve, Select, ForwardCached, SelectBegins, StopAgent, CommitSelection,
         RevokeLeases, SelectionFails, AgentExits, RuntimeReplaced, vars
<1> QED
  BY <1>2, <1>3, <1>4, <1>5, <1>6, <1>7, <1>8, <1>9, <1>10, <1>11, <1>12, <1>13, <1>14, <1>15

\* A step keeps the published attempt one of the selected launch: the
\* compare-and-swap of recordEnvironmentAgentSession is needed here.
LEMMA RowStep ==
  ASSUME TypeOK, TerminalsNamed, RowNamed, [Next]_vars PROVE RowNamed'
<1> SUFFICES ASSUME row'.coord # 0 PROVE RunsLaunch(row.coord, row.launch)'
  BY DEF RowNamed
<1>1. CASE row' = row
  BY <1>1, AttemptsKept DEF RowNamed
<1>2. ASSUME NEW c \in Conns, PublishCoordinates(c), row' # row
      PROVE  RunsLaunch(row.coord, row.launch)'
  <2>1. /\ conn[c].phase = "opened" /\ row.launch = conn[c].launch
        /\ row'.coord = conn[c].mine /\ row'.launch = row.launch
    BY <1>2 DEF PublishCoordinates, MayPublish, TypeOK
  <2>2. RunsLaunch(conn[c].mine, conn[c].launch)
    BY <2>1 DEF TerminalsNamed
  <2> QED
    BY <2>1, <2>2, AttemptsKept
<1>3. ASSUME CommitSelection PROVE FALSE
  BY <1>3 DEF CommitSelection, TypeOK
<1>4. \/ row' = row \/ CommitSelection
      \/ \E c \in Conns : PublishCoordinates(c) /\ row' # row
  BY DEF Next, Serve, Select, Admit, OpenTerminal, OpenCached, BecomeReady, Apply, Grant,
         ForwardCached, QueueAsks, QueueAnswered, TimerAsks, TimerAnswered, AnswerLost,
         Close, SelectBegins, StopAgent, RevokeLeases, SelectionFails,
         AgentExits, RuntimeReplaced, Tick, db, vars
<1> QED
  BY <1>1, <1>2, <1>3, <1>4

\* A step keeps the controller row on the published coordinates, or the
\* coordinates cleared.
LEMMA LeaseStep ==
  ASSUME TypeOK, LeaseOfCoordinates, [Next]_vars PROVE LeaseOfCoordinates'
<1> USE DEF LeaseOfCoordinates, db
<1>1. row \in [launch : Launches, coord : Coords, gen : 0..MaxGenerations]
      /\ ctl \in [coord : Coords, holder : Clients \cup {NoClient}, left : 0..Lease]
  BY DEF TypeOK
<1>2. ASSUME NEW c \in Conns, PublishCoordinates(c) PROVE LeaseOfCoordinates'
  <2>1. CASE MayPublish(c)
    <3>1. row'.coord = conn[c].mine /\ ctl' = LeaseOnMine(c)
      BY <1>1, <1>2, <2>1 DEF PublishCoordinates
    <3> QED
      BY <3>1 DEF LeaseOnMine
  <2>2. CASE ~MayPublish(c)
    BY <1>2, <2>2 DEF PublishCoordinates
  <2> QED
    BY <2>1, <2>2
<1>3. ASSUME NEW c \in Conns, NEW answer, answer = "controller" => Mine(c), Apply(c, answer)
      PROVE  LeaseOfCoordinates'
  BY <1>3 DEF Apply, Grant, Mine
<1>4. ASSUME NEW c \in Conns, BecomeReady(c) PROVE LeaseOfCoordinates'
  BY <1>3, <1>4 DEF BecomeReady, Acquired
<1>5. ASSUME NEW c \in Conns, NEW kind \in {"input", "takeover", "heartbeat"}, QueueAsks(c, kind)
      PROVE  LeaseOfCoordinates'
  BY <1>3, <1>5 DEF QueueAsks, Acquired, Renewed
<1>6. ASSUME NEW c \in Conns, TimerAsks(c) PROVE LeaseOfCoordinates'
  BY <1>3, <1>6 DEF TimerAsks, Acquired, Renewed
<1>7. ASSUME CommitSelection PROVE LeaseOfCoordinates'
  BY <1>1, <1>7 DEF CommitSelection
<1>8. ASSUME RevokeLeases PROVE LeaseOfCoordinates'
  BY <1>8 DEF RevokeLeases
<1>9. ASSUME Tick PROVE LeaseOfCoordinates'
  <2>1. ctl' = [ctl EXCEPT !.left = Less(@)] /\ row' = row
    BY <1>9 DEF Tick, Age
  <2>2. ctl'.coord = ctl.coord
    BY <1>1, <2>1
  <2>3. ASSUME ctl = NoLease PROVE ctl' = NoLease
    <3>1. Less(0) = 0
      BY DEF Less
    <3> QED
      BY <2>1, <2>3, <3>1 DEF NoLease
  <2> QED
    BY <2>1, <2>2, <2>3
<1>10. ASSUME UNCHANGED <<row, ctl>> PROVE LeaseOfCoordinates'
  BY <1>10
<1>11. \/ UNCHANGED <<row, ctl>> \/ CommitSelection \/ RevokeLeases \/ Tick
       \/ \E c \in Conns : \/ PublishCoordinates(c) \/ BecomeReady(c) \/ TimerAsks(c)
                           \/ \E kind \in {"input", "takeover", "heartbeat"} : QueueAsks(c, kind)
  BY DEF Next, Serve, Select, Admit, OpenTerminal, OpenCached, ForwardCached, QueueAnswered,
         TimerAnswered, AnswerLost, Close, SelectBegins, StopAgent, SelectionFails,
         AgentExits, RuntimeReplaced, vars
<1> QED
  BY <1>2, <1>4, <1>5, <1>6, <1>7, <1>8, <1>9, <1>10, <1>11

-----------------------------------------------------------------------------
(* What a connection believes, and what PostgreSQL has granted.            *)

\* A statement that is answered "controller" grants at least what its answer
\* says, and takes no grant back.
LEMMA Asked ==
  ASSUME TypeOK, NEW c \in Conns, NEW answer, Apply(c, answer)
  PROVE  /\ \A k \in Clients, x \in Coords : granted[k][x] <= granted'[k][x]
         /\ Timed(answer) <= granted'[ClientOf[c]][conn[c].mine]
         /\ granted' \in [Clients -> [Coords -> 0..Lease]]
<1>1. /\ granted \in [Clients -> [Coords -> 0..Lease]]
      /\ conn[c].mine \in Coords /\ ClientOf[c] \in Clients /\ Lease \in Nat
  BY ControlAssumption DEF TypeOK, Connection
<1>2. CASE answer = "controller"
  <2>1. granted' = [granted EXCEPT ![ClientOf[c]][conn[c].mine] = Lease]
    BY <1>2 DEF Apply, Grant
  <2>2. granted' \in [Clients -> [Coords -> 0..Lease]]
    BY <1>1, <2>1
  <2> QED
    BY <1>1, <1>2, <2>1, <2>2 DEF Timed
<1>3. CASE answer # "controller"
  BY <1>1, <1>3 DEF Apply, db, Timed
<1> QED
  BY <1>2, <1>3

\* If one connection changes and believes no more than its client's grant,
\* all still do.
LEMMA Grown ==
  ASSUME TypeOK, BelievedWithinGrant, NEW c \in Conns, NEW v,
         \A k \in Clients, x \in Coords : granted[k][x] <= granted'[k][x],
         granted' \in [Clients -> [Coords -> 0..Lease]],
         Set(c, v),
         v.control.left <= granted'[ClientOf[c]][v.mine],
         v.queue.left <= granted'[ClientOf[c]][v.mine],
         v.timer.left <= granted'[ClientOf[c]][v.mine]
  PROVE  BelievedWithinGrant'
<1> SUFFICES ASSUME NEW d \in Conns
    PROVE  /\ conn'[d].control.left <= granted'[ClientOf[d]][conn'[d].mine]
           /\ conn'[d].queue.left <= granted'[ClientOf[d]][conn'[d].mine]
           /\ conn'[d].timer.left <= granted'[ClientOf[d]][conn'[d].mine]
  BY DEF BelievedWithinGrant
<1>1. conn' = [conn EXCEPT ![c] = v] /\ conn \in [Conns -> Connection]
  BY DEF Set, TypeOK
<1>2. CASE d = c
  BY <1>1, <1>2
<1>3. CASE d # c
  <2> DEFINE old == granted[ClientOf[d]][conn[d].mine]
             new == granted'[ClientOf[d]][conn[d].mine]
  <2>1. conn'[d] = conn[d]
    BY <1>1, <1>3
  <2>2. conn[d].mine \in Coords /\ ClientOf[d] \in Clients /\ Lease \in Nat
    BY ControlAssumption DEF TypeOK, Connection
  <2>3. /\ conn[d].control.left \in 0..Lease /\ conn[d].queue.left \in 0..Lease
        /\ conn[d].timer.left \in 0..Lease
    BY DEF TypeOK, Connection, Control, Answer
  <2>4. old <= new /\ old \in 0..Lease /\ new \in 0..Lease
    <3>1. granted \in [Clients -> [Coords -> 0..Lease]]
      BY DEF TypeOK
    <3> QED
      BY <2>2, <3>1
  <2>5. conn[d].control.left <= old /\ conn[d].queue.left <= old /\ conn[d].timer.left <= old
    BY DEF BelievedWithinGrant
  <2>6. conn[d].control.left <= new /\ conn[d].queue.left <= new /\ conn[d].timer.left <= new
    <3> HIDE DEF old, new
    <3> QED
      BY <2>2, <2>3, <2>4, <2>5
  <2> QED
    BY <2>1, <2>6
<1> QED
  BY <1>2, <1>3

\* A step leaves a connection that has not opened, or has closed, without a
\* belief.
LEMMA QuietStep ==
  ASSUME TypeOK, QuietBeforeOpen, [Next]_vars PROVE QuietBeforeOpen'
<1> USE DEF QuietBeforeOpen, Closed, Viewer, Silent, Connection, Set, Quiet, procd, db
<1>0. conn \in [Conns -> Connection]
  BY DEF TypeOK
<1>1. ASSUME NEW c \in Conns, Admit(c) PROVE QuietBeforeOpen'
  BY <1>0, <1>1 DEF Admit, Closed, Viewer, Silent
<1>2. ASSUME NEW c \in Conns, OpenTerminal(c) PROVE QuietBeforeOpen'
  BY <1>0, <1>2 DEF OpenTerminal
<1>3. ASSUME NEW c \in Conns, PublishCoordinates(c) PROVE QuietBeforeOpen'
  BY <1>0, <1>3 DEF PublishCoordinates, MayPublish, LeaseOnMine
<1>4. ASSUME NEW c \in Conns, BecomeReady(c) PROVE QuietBeforeOpen'
  BY <1>0, <1>4 DEF BecomeReady, Acquired, Apply, Grant, Learn, Reply, Timed
<1>5. ASSUME NEW c \in Conns, NEW kind \in {"input", "takeover", "heartbeat"}, QueueAsks(c, kind)
      PROVE QuietBeforeOpen'
  BY <1>0, <1>5 DEF QueueAsks, Acquired, Renewed, Apply, Grant, Reply, Timed
<1>6. ASSUME NEW c \in Conns, QueueAnswered(c) PROVE QuietBeforeOpen'
  BY <1>0, <1>6 DEF QueueAnswered, Learn
<1>7. ASSUME NEW c \in Conns, TimerAsks(c) PROVE QuietBeforeOpen'
  BY <1>0, <1>7 DEF TimerAsks, Acquired, Renewed, Apply, Grant, Reply, Timed
<1>8. ASSUME NEW c \in Conns, TimerAnswered(c) PROVE QuietBeforeOpen'
  BY <1>0, <1>8 DEF TimerAnswered, Learn
<1>9. ASSUME NEW c \in Conns, AnswerLost(c) PROVE QuietBeforeOpen'
  BY <1>0, <1>9 DEF AnswerLost
<1>10. ASSUME NEW c \in Conns, Close(c) PROVE QuietBeforeOpen'
  BY <1>0, <1>10 DEF Close, Closed, Viewer, Silent
<1>11. ASSUME Tick PROVE QuietBeforeOpen'
  <2> SUFFICES ASSUME NEW d \in Conns, conn'[d].phase # "open"
      PROVE  conn'[d].control.left = 0 /\ conn'[d].queue.left = 0 /\ conn'[d].timer.left = 0
    OBVIOUS
  <2>1. conn[d].control \in Control /\ conn[d].queue \in Answer /\ conn[d].timer \in Answer
    BY <1>0
  <2>2. /\ conn'[d].control.left = Less(conn[d].control.left)
        /\ conn'[d].queue.left = Less(conn[d].queue.left)
        /\ conn'[d].timer.left = Less(conn[d].timer.left) /\ conn'[d].phase = conn[d].phase
    BY <1>11, <2>1, Aged, AgedLeft
  <2> QED
    BY <2>2 DEF Less
<1>12. ASSUME UNCHANGED conn PROVE QuietBeforeOpen'
  BY <1>12
<1>14. ASSUME NEW c \in Conns, OpenCached(c) PROVE QuietBeforeOpen'
  <2>1. conn[c].phase = "admitted"
    BY <1>14 DEF OpenCached
  <2>2. PICK x \in Coords :
          conn' = [conn EXCEPT ![c] = [conn[c] EXCEPT !.mine = x,
                     !.phase = IF conn[c].coord = x THEN "published" ELSE "opened"]]
    BY <1>14, CachedRuns
  <2> QED
    BY <1>0, <2>1, <2>2
<1>13. \/ UNCHANGED conn \/ Tick
      \/ \E c \in Conns :
           \/ Admit(c) \/ OpenTerminal(c) \/ OpenCached(c) \/ PublishCoordinates(c)
           \/ BecomeReady(c)
           \/ QueueAnswered(c) \/ TimerAsks(c) \/ TimerAnswered(c)
           \/ AnswerLost(c) \/ Close(c)
           \/ \E kind \in {"input", "takeover", "heartbeat"} : QueueAsks(c, kind)
  BY DEF Next, Serve, Select, ForwardCached, SelectBegins, StopAgent, CommitSelection,
         RevokeLeases, SelectionFails, AgentExits, RuntimeReplaced, vars
<1> QED
  BY <1>1, <1>2, <1>3, <1>4, <1>5, <1>6, <1>7, <1>8, <1>9, <1>10, <1>11, <1>12, <1>13, <1>14

\* A step keeps every belief within the grant, whichever answer arrives, and
\* in whichever order.
LEMMA BeliefStep ==
  ASSUME TypeOK, QuietBeforeOpen, BelievedWithinGrant, [Next]_vars PROVE BelievedWithinGrant'
<1>1. /\ conn \in [Conns -> Connection] /\ granted \in [Clients -> [Coords -> 0..Lease]]
      /\ Lease \in Nat /\ ClientOf \in [Conns -> Clients]
  BY ControlAssumption DEF TypeOK
<1>2. ASSUME NEW c \in Conns
      PROVE  /\ conn[c] \in Connection
             /\ conn[c].mine \in Coords /\ ClientOf[c] \in Clients
             /\ conn[c].control.left <= granted[ClientOf[c]][conn[c].mine]
             /\ conn[c].queue.left <= granted[ClientOf[c]][conn[c].mine]
             /\ conn[c].timer.left <= granted[ClientOf[c]][conn[c].mine]
             /\ 0 <= granted[ClientOf[c]][conn[c].mine]
             /\ \A x \in Coords : 0 <= granted[ClientOf[c]][x]
  BY <1>1 DEF Connection, BelievedWithinGrant
<1>3. ASSUME granted' = granted
      PROVE  /\ \A k \in Clients, x \in Coords : granted[k][x] <= granted'[k][x]
             /\ granted' \in [Clients -> [Coords -> 0..Lease]]
  BY <1>1, <1>3
\* A connection that has not opened believes nothing.
<1>4. ASSUME NEW c \in Conns, NEW v, Set(c, v), granted' = granted,
             v.mine \in Coords, v.control.left = 0, v.queue.left = 0, v.timer.left = 0
      PROVE  BelievedWithinGrant'
  <2>1. 0 <= granted'[ClientOf[c]][v.mine]
    BY <1>1, <1>4
  <2> QED
    BY <1>3, <1>4, <2>1, Grown
<1>5. Closed.mine \in Coords /\ Closed.control.left = 0 /\ Closed.queue.left = 0
      /\ Closed.timer.left = 0
  BY ControlAssumption DEF Closed, Viewer, Silent, Coords
<1>6. ASSUME NEW c \in Conns, Set(c, Closed), granted' = granted PROVE BelievedWithinGrant'
  BY <1>4, <1>5, <1>6
<1>7. ASSUME NEW c \in Conns, Admit(c) PROVE BelievedWithinGrant'
  <2> DEFINE v == [Closed EXCEPT !.phase = "admitted", !.launch = row.launch,
                                 !.coord = row.coord]
  <2>1. Set(c, v) /\ granted' = granted
    BY <1>7 DEF Admit, db
  <2>2. v.mine \in Coords /\ v.control.left = 0 /\ v.queue.left = 0 /\ v.timer.left = 0
    BY <1>5 DEF Closed
  <2> HIDE DEF v
  <2> QED
    BY <1>4, <2>1, <2>2
<1>8. ASSUME NEW c \in Conns, OpenTerminal(c) PROVE BelievedWithinGrant'
  <2> DEFINE mine == live'[conn[c].launch]
             v == [conn[c] EXCEPT !.mine = mine,
                     !.phase = IF conn[c].coord = mine THEN "published" ELSE "opened"]
  <2>1. Set(c, v) /\ granted' = granted /\ conn[c].phase = "admitted"
    BY <1>8 DEF OpenTerminal, db
  <2>2. v.mine = mine /\ v.control = conn[c].control /\ v.queue = conn[c].queue
        /\ v.timer = conn[c].timer
    BY <1>2 DEF Connection
  <2>3. v.control.left = 0 /\ v.queue.left = 0 /\ v.timer.left = 0
    BY <2>1, <2>2 DEF QuietBeforeOpen
  <2>4. mine \in Coords
    BY <1>8, Opened
  <2> HIDE DEF v
  <2> QED
    BY <1>4, <2>1, <2>2, <2>3, <2>4
<1>9. ASSUME NEW c \in Conns, PublishCoordinates(c) PROVE BelievedWithinGrant'
  <2> DEFINE v == [conn[c] EXCEPT !.phase = "published"]
  <2>1. granted' = granted /\ conn[c].phase = "opened" /\ (Set(c, v) \/ Set(c, Closed))
    BY <1>9 DEF PublishCoordinates
  <2>2. v.mine = conn[c].mine /\ v.control = conn[c].control /\ v.queue = conn[c].queue
        /\ v.timer = conn[c].timer
    BY <1>2 DEF Connection
  <2>3. v.control.left = 0 /\ v.queue.left = 0 /\ v.timer.left = 0
    BY <2>1, <2>2 DEF QuietBeforeOpen
  <2> HIDE DEF v
  <2> QED
    BY <1>2, <1>4, <1>6, <2>1, <2>2, <2>3
<1>10. ASSUME NEW c \in Conns, BecomeReady(c) PROVE BelievedWithinGrant'
  <2> DEFINE answer == Acquired(c, FALSE)
             v == [conn[c] EXCEPT !.phase = "open", !.control = Learn(Reply(answer, FALSE))]
  <2>1. Apply(c, answer) /\ conn[c].phase = "published"
        /\ (Set(c, v) \/ (answer = "changed" /\ Set(c, Closed)))
    BY <1>10 DEF BecomeReady
  <2>2. v.mine = conn[c].mine /\ v.control.left = Timed(answer) /\ v.queue = conn[c].queue
        /\ v.timer = conn[c].timer
    BY <1>2 DEF Connection, Learn, Reply
  <2>3. v.queue.left = 0 /\ v.timer.left = 0
    BY <2>1, <2>2 DEF QuietBeforeOpen
  <2>4. ASSUME answer = "changed", Set(c, Closed) PROVE BelievedWithinGrant'
    BY <1>6, <2>1, <2>4 DEF Apply, db
  <2> HIDE DEF v, answer
  <2>5. ASSUME Set(c, v) PROVE BelievedWithinGrant'
    <3>1. /\ \A k \in Clients, x \in Coords : granted[k][x] <= granted'[k][x]
          /\ granted' \in [Clients -> [Coords -> 0..Lease]]
          /\ Timed(answer) <= granted'[ClientOf[c]][v.mine]
      BY <2>1, <2>2, Asked
    <3>2. 0 <= granted'[ClientOf[c]][v.mine]
      BY <1>1, <1>2, <2>2, <3>1
    <3> QED
      BY <2>2, <2>3, <2>5, <3>1, <3>2, Grown
  <2> QED
    BY <2>1, <2>4, <2>5
\* An answer that is on its way says no more than the grant it answers with.
<1>11. ASSUME NEW c \in Conns, NEW answer, Apply(c, answer), NEW v, Set(c, v),
              v.mine = conn[c].mine, v.control = conn[c].control,
              v.queue.left = Timed(answer) \/ v.queue = conn[c].queue,
              v.timer.left = Timed(answer) \/ v.timer = conn[c].timer
       PROVE  BelievedWithinGrant'
  <2> DEFINE old == granted[ClientOf[c]][conn[c].mine]
             new == granted'[ClientOf[c]][conn[c].mine]
  <2>1. /\ \A k \in Clients, x \in Coords : granted[k][x] <= granted'[k][x]
        /\ granted' \in [Clients -> [Coords -> 0..Lease]]
        /\ Timed(answer) <= new
    BY <1>11, Asked
  <2>2. old <= new /\ old \in 0..Lease /\ new \in 0..Lease
    BY <1>1, <1>2, <2>1
  <2>3. conn[c].control.left \in 0..Lease /\ conn[c].queue.left \in 0..Lease
        /\ conn[c].timer.left \in 0..Lease
    BY <1>2 DEF Connection, Control, Answer
  <2>4. conn[c].control.left <= old /\ conn[c].queue.left <= old /\ conn[c].timer.left <= old
    BY <1>2
  <2>5. conn[c].control.left <= new /\ conn[c].queue.left <= new /\ conn[c].timer.left <= new
    <3> HIDE DEF old, new
    <3> QED
      BY <1>1, <2>2, <2>3, <2>4
  <2>6. v.control.left <= new /\ v.queue.left <= new /\ v.timer.left <= new
    <3> HIDE DEF new
    <3> QED
      BY <1>11, <2>1, <2>5
  <2> QED
    BY <1>11, <2>1, <2>6, Grown
<1>12. ASSUME NEW c \in Conns, NEW kind \in {"input", "takeover", "heartbeat"}, QueueAsks(c, kind)
       PROVE BelievedWithinGrant'
  <2> DEFINE answer == IF kind = "takeover" THEN Acquired(c, TRUE) ELSE Renewed(c)
             v == [conn[c] EXCEPT !.queue = Reply(answer, kind = "input")]
  <2>1. Apply(c, answer) /\ Set(c, v)
    BY <1>12 DEF QueueAsks
  <2>2. v.mine = conn[c].mine /\ v.control = conn[c].control /\ v.queue.left = Timed(answer)
        /\ v.timer = conn[c].timer
    BY <1>2 DEF Connection, Reply
  <2> HIDE DEF v, answer
  <2> QED
    BY <1>11, <2>1, <2>2
<1>13. ASSUME NEW c \in Conns, TimerAsks(c) PROVE BelievedWithinGrant'
  <2> DEFINE answer == IF conn[c].control.role = "controller" THEN Renewed(c)
                                                             ELSE Acquired(c, FALSE)
             v == [conn[c] EXCEPT !.timer = Reply(answer, FALSE)]
  <2>1. Apply(c, answer) /\ Set(c, v)
    BY <1>13 DEF TimerAsks
  <2>2. v.mine = conn[c].mine /\ v.control = conn[c].control /\ v.queue = conn[c].queue
        /\ v.timer.left = Timed(answer)
    BY <1>2 DEF Connection, Reply
  <2> HIDE DEF v, answer
  <2> QED
    BY <1>11, <2>1, <2>2
\* What a connection learns is what it has been told, or nothing.
<1>14. ASSUME NEW c \in Conns, NEW v, Set(c, v), granted' = granted, v.mine = conn[c].mine,
              v.control.left \in {0, conn[c].control.left, conn[c].queue.left,
                                  conn[c].timer.left},
              v.queue.left \in {0, conn[c].queue.left},
              v.timer.left \in {0, conn[c].timer.left}
       PROVE  BelievedWithinGrant'
  <2>1. /\ v.control.left <= granted'[ClientOf[c]][v.mine]
        /\ v.queue.left <= granted'[ClientOf[c]][v.mine]
        /\ v.timer.left <= granted'[ClientOf[c]][v.mine]
    BY <1>2, <1>14
  <2> QED
    BY <1>3, <1>14, <2>1, Grown
<1>15. ASSUME NEW c \in Conns, QueueAnswered(c) PROVE BelievedWithinGrant'
  <2> DEFINE a == conn[c].queue
             v == [conn[c] EXCEPT !.queue = Silent,
                     !.control = IF a.role \in {"required", "changed"} THEN Viewer
                                                                      ELSE Learn(a)]
  <2>1. Set(c, v) /\ granted' = granted
    BY <1>15 DEF QueueAnswered, db
  <2>2. /\ v.mine = conn[c].mine /\ v.control.left \in {0, conn[c].queue.left}
        /\ v.queue.left = 0 /\ v.timer.left = conn[c].timer.left
    BY <1>2 DEF Connection, Learn, Viewer, Silent
  <2> HIDE DEF v
  <2> QED
    BY <1>14, <2>1, <2>2
<1>16. ASSUME NEW c \in Conns, TimerAnswered(c) PROVE BelievedWithinGrant'
  <2> DEFINE a == conn[c].timer
             v == [conn[c] EXCEPT !.timer = Silent,
                     !.control = CASE a.role = "changed"  -> @
                                   [] a.role = "required" -> Viewer
                                   [] OTHER               -> Learn(a)]
  <2>1. Set(c, v) /\ granted' = granted
    BY <1>16 DEF TimerAnswered, db
  <2>2. /\ v.mine = conn[c].mine
        /\ v.control.left \in {0, conn[c].control.left, conn[c].timer.left}
        /\ v.timer.left = 0 /\ v.queue.left = conn[c].queue.left
    BY <1>2 DEF Connection, Learn, Viewer, Silent
  <2> HIDE DEF v
  <2> QED
    BY <1>14, <2>1, <2>2
<1>17. ASSUME NEW c \in Conns, AnswerLost(c) PROVE BelievedWithinGrant'
  <2>1. granted' = granted
    BY <1>17 DEF AnswerLost, db
  <2>2. \/ Set(c, [conn[c] EXCEPT !.queue = Silent, !.control = Viewer])
        \/ Set(c, [conn[c] EXCEPT !.timer = Silent])
    BY <1>17 DEF AnswerLost
  <2> DEFINE v == [conn[c] EXCEPT !.queue = Silent, !.control = Viewer]
             w == [conn[c] EXCEPT !.timer = Silent]
  <2>3. Set(c, v) \/ Set(c, w)
    BY <2>2
  <2>4. /\ v.mine = conn[c].mine /\ v.control.left = 0 /\ v.queue.left = 0
        /\ v.timer.left = conn[c].timer.left
    BY <1>2 DEF Connection, Viewer, Silent
  <2>5. /\ w.mine = conn[c].mine /\ w.control.left = conn[c].control.left
        /\ w.queue.left = conn[c].queue.left /\ w.timer.left = 0
    BY <1>2 DEF Connection, Silent
  <2> HIDE DEF v, w
  <2> QED
    BY <1>14, <2>1, <2>3, <2>4, <2>5
<1>18. ASSUME NEW c \in Conns, Close(c) PROVE BelievedWithinGrant'
  BY <1>6, <1>18 DEF Close, db
<1>19. ASSUME Tick PROVE BelievedWithinGrant'
  <2> SUFFICES ASSUME NEW d \in Conns
      PROVE  /\ conn'[d].control.left <= granted'[ClientOf[d]][conn'[d].mine]
             /\ conn'[d].queue.left <= granted'[ClientOf[d]][conn'[d].mine]
             /\ conn'[d].timer.left <= granted'[ClientOf[d]][conn'[d].mine]
    BY DEF BelievedWithinGrant
  <2>1. granted'[ClientOf[d]][conn[d].mine] = Less(granted[ClientOf[d]][conn[d].mine])
    BY <1>2, <1>19 DEF Tick
  <2>2. conn[d].control \in Control /\ conn[d].queue \in Answer /\ conn[d].timer \in Answer
    BY <1>2 DEF Connection
  <2>3. /\ conn'[d].control.left = Less(conn[d].control.left)
        /\ conn'[d].queue.left = Less(conn[d].queue.left)
        /\ conn'[d].timer.left = Less(conn[d].timer.left) /\ conn'[d].mine = conn[d].mine
    BY <1>19, <2>2, Aged, AgedLeft
  <2>4. \A m, n \in 0..Lease : m <= n => Less(m) <= Less(n)
    BY <1>1 DEF Less
  <2>5. granted[ClientOf[d]][conn[d].mine] \in 0..Lease
    BY <1>1, <1>2
  <2>6. /\ conn[d].control.left \in 0..Lease /\ conn[d].queue.left \in 0..Lease
        /\ conn[d].timer.left \in 0..Lease
    BY <2>2 DEF Control, Answer
  <2> QED
    BY <1>2, <2>1, <2>3, <2>4, <2>5, <2>6
<1>20. ASSUME UNCHANGED <<conn, granted>> PROVE BelievedWithinGrant'
  BY <1>20 DEF BelievedWithinGrant
<1>22. ASSUME NEW c \in Conns, OpenCached(c) PROVE BelievedWithinGrant'
  <2>1. PICK x \in Coords :
          Set(c, [conn[c] EXCEPT !.mine = x,
                    !.phase = IF conn[c].coord = x THEN "published" ELSE "opened"])
    BY <1>22, CachedRuns
  <2> DEFINE v == [conn[c] EXCEPT !.mine = x,
                     !.phase = IF conn[c].coord = x THEN "published" ELSE "opened"]
  <2>2. Set(c, v) /\ granted' = granted /\ conn[c].phase = "admitted"
    BY <1>22, <2>1 DEF OpenCached, db
  <2>3. v.mine = x /\ v.control = conn[c].control /\ v.queue = conn[c].queue
        /\ v.timer = conn[c].timer
    BY <1>2 DEF Connection
  <2>4. v.control.left = 0 /\ v.queue.left = 0 /\ v.timer.left = 0
    BY <2>2, <2>3 DEF QuietBeforeOpen
  <2> HIDE DEF v
  <2> QED
    BY <1>4, <2>2, <2>3, <2>4
<1>21. \/ UNCHANGED <<conn, granted>> \/ Tick
       \/ \E c \in Conns :
            \/ Admit(c) \/ OpenTerminal(c) \/ OpenCached(c) \/ PublishCoordinates(c)
            \/ BecomeReady(c)
            \/ QueueAnswered(c) \/ TimerAsks(c) \/ TimerAnswered(c)
            \/ AnswerLost(c) \/ Close(c)
            \/ \E kind \in {"input", "takeover", "heartbeat"} : QueueAsks(c, kind)
  BY DEF Next, Serve, Select, ForwardCached, SelectBegins, StopAgent, CommitSelection,
         RevokeLeases, SelectionFails, AgentExits, RuntimeReplaced, vars, db
<1> QED
  BY <1>7, <1>8, <1>9, <1>10, <1>12, <1>13, <1>15, <1>16, <1>17, <1>18, <1>19, <1>20, <1>21,
     <1>22

-----------------------------------------------------------------------------
(* Types.                                                                  *)

\* A step keeps the types of procd's and Sandbox0's state.
LEMMA ProcdTyped ==
  ASSUME TypeOK, SessionsNamed, [Next]_vars
  PROVE /\ attempts' \in Seq([gen : 0..MaxGenerations, launch : Launches])
        /\ Len(attempts') <= MaxAttempts
        /\ live' \in [Launches -> Coords] /\ generation' \in 0..MaxGenerations
<1>1. /\ attempts \in Seq([gen : 0..MaxGenerations, launch : Launches])
      /\ Len(attempts) <= MaxAttempts /\ live \in [Launches -> Coords]
      /\ generation \in 0..MaxGenerations /\ MaxAttempts \in Nat /\ MaxGenerations \in Nat
      /\ 0 \in Coords
  BY ControlAssumption DEF TypeOK, Coords
<1>2. ASSUME NEW c \in Conns, OpenTerminal(c), live[conn[c].launch] = 0
      PROVE  /\ attempts' \in Seq([gen : 0..MaxGenerations, launch : Launches])
             /\ Len(attempts') <= MaxAttempts
             /\ live' \in [Launches -> Coords] /\ generation' = generation
  <2>1. conn[c].launch \in Launches
    BY DEF TypeOK, Connection
  <2>2. /\ Len(attempts) < MaxAttempts
        /\ attempts' = Append(attempts, [gen |-> generation, launch |-> conn[c].launch])
        /\ live' = [live EXCEPT ![conn[c].launch] = Len(attempts')]
        /\ generation' = generation
    BY <1>2 DEF OpenTerminal
  <2>3. live'[conn[c].launch] \in Coords
    BY <1>2, Opened
  <2>4. /\ attempts' \in Seq([gen : 0..MaxGenerations, launch : Launches])
        /\ Len(attempts') = Len(attempts) + 1
    BY <1>1, <2>1, <2>2
  <2>5. live' \in [Launches -> Coords]
    BY <1>1, <2>1, <2>2, <2>3
  <2> QED
    BY <1>1, <2>2, <2>4, <2>5
<1>3. ASSUME StopAgent PROVE live' \in [Launches -> Coords]
  BY <1>1, <1>3 DEF StopAgent
<1>4. ASSUME NEW l \in Launches, AgentExits(l) PROVE live' \in [Launches -> Coords]
  BY <1>1, <1>4 DEF AgentExits
<1>5. ASSUME RuntimeReplaced
      PROVE  live' \in [Launches -> Coords] /\ generation' \in 0..MaxGenerations
  BY <1>1, <1>5 DEF RuntimeReplaced
<1>6. \/ UNCHANGED procd
      \/ \E c \in Conns : OpenTerminal(c) /\ live[conn[c].launch] = 0
      \/ UNCHANGED <<attempts, generation>>
         /\ (StopAgent \/ \E l \in Launches : AgentExits(l))
      \/ UNCHANGED attempts /\ RuntimeReplaced
  BY DEF Next, Serve, Select, Admit, OpenTerminal, OpenCached, PublishCoordinates, BecomeReady,
         ForwardCached, QueueAsks, QueueAnswered, TimerAsks, TimerAnswered, AnswerLost,
         Close, SelectBegins, StopAgent, CommitSelection, RevokeLeases, SelectionFails,
         AgentExits, RuntimeReplaced, Tick, vars, procd
<1> QED
  BY <1>1, <1>2, <1>3, <1>4, <1>5, <1>6 DEF procd

\* A step keeps the types of the rows and of the grants.
LEMMA DbTyped ==
  ASSUME TypeOK, TerminalsNamed, SelectionCounted, [Next]_vars
  PROVE /\ row' \in [launch : Launches, coord : Coords, gen : 0..MaxGenerations]
        /\ ctl' \in [coord : Coords, holder : Clients \cup {NoClient}, left : 0..Lease]
        /\ granted' \in [Clients -> [Coords -> 0..Lease]]
<1> DEFINE RowTyped == row' \in [launch : Launches, coord : Coords, gen : 0..MaxGenerations]
           CtlTyped == ctl' \in [coord : Coords, holder : Clients \cup {NoClient},
                                 left : 0..Lease]
           GrantedTyped == granted' \in [Clients -> [Coords -> 0..Lease]]
<1>1. /\ row \in [launch : Launches, coord : Coords, gen : 0..MaxGenerations]
      /\ ctl \in [coord : Coords, holder : Clients \cup {NoClient}, left : 0..Lease]
      /\ granted \in [Clients -> [Coords -> 0..Lease]]
      /\ ClientOf \in [Conns -> Clients] /\ Lease \in Nat
  BY ControlAssumption DEF TypeOK
<1>0. /\ 0 \in Coords /\ 0 \in 0..Lease
      /\ NoLease \in [coord : Coords, holder : Clients \cup {NoClient}, left : 0..Lease]
  <2>1. 0 \in Coords /\ 0 \in 0..Lease
    BY ControlAssumption DEF Coords
  <2> QED
    BY <2>1 DEF NoLease
<1>2. \A c \in Conns : conn[c].mine \in Coords
  BY DEF TypeOK, Connection
<1>3. ASSUME NEW c \in Conns, NEW answer, Apply(c, answer)
      PROVE  RowTyped /\ CtlTyped /\ GrantedTyped
  <2>1. GrantedTyped
    BY <1>3, Asked
  <2>2. RowTyped /\ CtlTyped
    BY <1>1, <1>2, <1>3 DEF Apply, Grant, db
  <2> QED
    BY <2>1, <2>2
<1>4. ASSUME NEW c \in Conns, PublishCoordinates(c)
      PROVE  RowTyped /\ CtlTyped /\ GrantedTyped
  <2>1. GrantedTyped /\ CtlTyped
    BY <1>0, <1>1, <1>4 DEF PublishCoordinates, LeaseOnMine
  <2>2. attempts[conn[c].mine].gen \in 0..MaxGenerations
    <3>1. conn[c].mine \in 1..Len(attempts)
      BY <1>4 DEF PublishCoordinates, TerminalsNamed, RunsLaunch
    <3>2. attempts \in Seq([gen : 0..MaxGenerations, launch : Launches])
      BY DEF TypeOK
    <3>3. attempts[conn[c].mine] \in [gen : 0..MaxGenerations, launch : Launches]
      <4> DEFINE S == [gen : 0..MaxGenerations, launch : Launches]
      <4>1. attempts \in Seq(S)
        BY <3>2
      <4> HIDE DEF S
      <4>2. attempts[conn[c].mine] \in S
        BY <3>1, <4>1
      <4> QED
        BY <4>2 DEF S
    <3> QED
      BY <3>3
  <2>3. RowTyped
    BY <1>1, <1>2, <1>4, <2>2 DEF PublishCoordinates
  <2> QED
    BY <2>1, <2>3
<1>5. ASSUME CommitSelection PROVE RowTyped /\ CtlTyped /\ GrantedTyped
  <2>1. row.launch + 1 \in Launches
    <3>1. row.launch < MaxLaunches
      BY <1>5 DEF CommitSelection, SelectionCounted
    <3>2. row.launch \in 0..MaxLaunches /\ MaxLaunches \in Nat
      BY <1>1, ControlAssumption DEF Launches
    <3> QED
      BY <3>1, <3>2 DEF Launches
  <2> QED
    BY <1>0, <1>1, <1>5, <2>1 DEF CommitSelection
<1>6. ASSUME RevokeLeases PROVE RowTyped /\ CtlTyped /\ GrantedTyped
  BY <1>0, <1>1, <1>6 DEF RevokeLeases
<1>7. ASSUME Tick PROVE RowTyped /\ CtlTyped /\ GrantedTyped
  <2>1. \A n \in 0..Lease : Less(n) \in 0..Lease
    BY <1>1 DEF Less
  <2>2. GrantedTyped
    BY <1>1, <1>7, <2>1 DEF Tick
  <2>3. RowTyped /\ CtlTyped
    BY <1>1, <1>7, <2>1 DEF Tick, Age
  <2> QED
    BY <2>2, <2>3
<1>8. ASSUME UNCHANGED db PROVE RowTyped /\ CtlTyped /\ GrantedTyped
  BY <1>1, <1>8 DEF db
<1>9. \/ UNCHANGED db \/ CommitSelection \/ RevokeLeases \/ Tick
      \/ \E c \in Conns : PublishCoordinates(c) \/ \E answer : Apply(c, answer)
  BY DEF Next, Serve, Select, Admit, OpenTerminal, OpenCached, BecomeReady, ForwardCached,
         QueueAsks,
         QueueAnswered, TimerAsks, TimerAnswered, AnswerLost, Close, SelectBegins,
         StopAgent, SelectionFails, AgentExits, RuntimeReplaced, vars
<1> QED
  BY <1>3, <1>4, <1>5, <1>6, <1>7, <1>8, <1>9

\* What a statement answers is an answer, and the roles it grants are roles
\* of a connection.
LEMMA Answered ==
  ASSUME NEW c \in Conns, NEW answer \in {"viewer", "controller", "required", "changed"},
         NEW input \in BOOLEAN
  PROVE  /\ Reply(answer, input) \in Answer
         /\ answer \in {"viewer", "controller"} => Learn(Reply(answer, input)) \in Control
<1>1. Timed(answer) \in 0..Lease
  BY ControlAssumption DEF Timed
<1>2. Reply(answer, input) \in Answer
  BY <1>1 DEF Reply, Answer, Roles
<1>3. Learn(Reply(answer, input)) = [role |-> answer, left |-> Timed(answer)]
  BY DEF Learn, Reply
<1> QED
  BY <1>1, <1>2, <1>3 DEF Control

\* The roles the two statements answer with.
LEMMA Answers ==
  ASSUME NEW c \in Conns, NEW takeover \in BOOLEAN
  PROVE  /\ Acquired(c, takeover) \in {"viewer", "controller", "changed"}
         /\ Renewed(c) \in {"controller", "required"}
BY DEF Acquired, Renewed

\* A step keeps the type of every connection.
LEMMA ConnTyped ==
  ASSUME TypeOK, [Next]_vars PROVE conn' \in [Conns -> Connection]
<1>1. conn \in [Conns -> Connection]
  BY DEF TypeOK
<1>2. ASSUME NEW c \in Conns, NEW v \in Connection, Set(c, v)
      PROVE  conn' \in [Conns -> Connection]
  BY <1>1, <1>2 DEF Set
<1>3. Closed \in Connection /\ Viewer \in Control /\ Silent \in Answer
  <2>1. 0 \in Coords /\ 0 \in Launches /\ 0 \in 0..Lease
    BY ControlAssumption DEF Coords, Launches
  <2>2. Viewer \in Control /\ Silent \in Answer
    BY <2>1 DEF Viewer, Silent, Control, Answer, Roles
  <2> QED
    BY <2>1, <2>2 DEF Closed, Connection
<1>4. ASSUME NEW c \in Conns
      PROVE  /\ conn[c] \in Connection /\ conn[c].control \in Control
             /\ conn[c].queue \in Answer /\ conn[c].timer \in Answer
  BY <1>1 DEF Connection
<1>5. ASSUME NEW c \in Conns, Set(c, Closed) PROVE conn' \in [Conns -> Connection]
  BY <1>2, <1>3, <1>5
<1>6. ASSUME NEW c \in Conns, Admit(c) PROVE conn' \in [Conns -> Connection]
  <2> DEFINE v == [Closed EXCEPT !.phase = "admitted", !.launch = row.launch,
                                 !.coord = row.coord]
  <2>1. row.launch \in Launches /\ row.coord \in Coords
    BY DEF TypeOK
  <2>2. v \in Connection
    BY <1>3, <2>1 DEF Connection
  <2> QED
    BY <1>2, <1>6, <2>2 DEF Admit
<1>7. ASSUME NEW c \in Conns, OpenTerminal(c) PROVE conn' \in [Conns -> Connection]
  <2> DEFINE mine == live'[conn[c].launch]
             v == [conn[c] EXCEPT !.mine = mine,
                     !.phase = IF conn[c].coord = mine THEN "published" ELSE "opened"]
  <2>1. mine \in Coords /\ Set(c, v)
    BY <1>7, Opened DEF OpenTerminal
  <2>2. v \in Connection
    <3> HIDE DEF mine
    <3> QED
      BY <1>4, <2>1 DEF Connection
  <2> QED
    BY <1>2, <2>1, <2>2
<1>8. ASSUME NEW c \in Conns, PublishCoordinates(c) PROVE conn' \in [Conns -> Connection]
  <2> DEFINE v == [conn[c] EXCEPT !.phase = "published"]
  <2>1. Set(c, v) \/ Set(c, Closed)
    BY <1>8 DEF PublishCoordinates
  <2>2. v \in Connection
    BY <1>4 DEF Connection
  <2> QED
    BY <1>2, <1>5, <2>1, <2>2
<1>9. ASSUME NEW c \in Conns, BecomeReady(c) PROVE conn' \in [Conns -> Connection]
  <2> DEFINE answer == Acquired(c, FALSE)
             known == Learn(Reply(answer, FALSE))
             v == [conn[c] EXCEPT !.phase = "open", !.control = known]
  <2>1. \/ answer = "changed" /\ Set(c, Closed)
        \/ answer # "changed" /\ Set(c, v)
    BY <1>9 DEF BecomeReady
  <2>2. ASSUME answer # "changed" PROVE v \in Connection
    <3>1. known \in Control
      BY <2>2, Answered, Answers
    <3> HIDE DEF known
    <3> QED
      BY <1>4, <3>1 DEF Connection
  <2> QED
    BY <1>2, <1>5, <2>1, <2>2
<1>10. ASSUME NEW c \in Conns, NEW kind \in {"input", "takeover", "heartbeat"}, QueueAsks(c, kind)
       PROVE  conn' \in [Conns -> Connection]
  <2> DEFINE answer == IF kind = "takeover" THEN Acquired(c, TRUE) ELSE Renewed(c)
             reply == Reply(answer, kind = "input")
             v == [conn[c] EXCEPT !.queue = reply]
  <2>1. Set(c, v)
    BY <1>10 DEF QueueAsks
  <2>2. reply \in Answer
    BY Answered, Answers
  <2>3. v \in Connection
    <3> HIDE DEF reply
    <3> QED
      BY <1>4, <2>2 DEF Connection
  <2> QED
    BY <1>2, <2>1, <2>3
<1>11. ASSUME NEW c \in Conns, TimerAsks(c) PROVE conn' \in [Conns -> Connection]
  <2> DEFINE answer == IF conn[c].control.role = "controller" THEN Renewed(c)
                                                             ELSE Acquired(c, FALSE)
             reply == Reply(answer, FALSE)
             v == [conn[c] EXCEPT !.timer = reply]
  <2>1. Set(c, v)
    BY <1>11 DEF TimerAsks
  <2>2. reply \in Answer
    BY Answered, Answers
  <2>3. v \in Connection
    <3> HIDE DEF reply
    <3> QED
      BY <1>4, <2>2 DEF Connection
  <2> QED
    BY <1>2, <2>1, <2>3
<1>12. ASSUME NEW a \in Answer, a.role \in {"viewer", "controller"}
       PROVE  Learn(a) \in Control
  BY <1>12 DEF Learn, Answer, Control
<1>13. ASSUME NEW c \in Conns, QueueAnswered(c) PROVE conn' \in [Conns -> Connection]
  <2> DEFINE a == conn[c].queue
             known == IF a.role \in {"required", "changed"} THEN Viewer ELSE Learn(a)
             v == [conn[c] EXCEPT !.queue = Silent, !.control = known]
  <2>1. Set(c, v) /\ a.role # "none"
    BY <1>13 DEF QueueAnswered
  <2>2. known \in Control
    <3>1. a \in Answer /\ a.role \in Roles /\ a.role # "none"
      BY <1>4, <2>1 DEF Answer
    <3> QED
      BY <1>3, <1>12, <3>1 DEF Roles
  <2>3. v \in Connection
    <3> HIDE DEF known
    <3> QED
      BY <1>3, <1>4, <2>2 DEF Connection
  <2> QED
    BY <1>2, <2>1, <2>3
<1>14. ASSUME NEW c \in Conns, TimerAnswered(c) PROVE conn' \in [Conns -> Connection]
  <2> DEFINE a == conn[c].timer
             known == CASE a.role = "changed"  -> conn[c].control
                        [] a.role = "required" -> Viewer
                        [] OTHER               -> Learn(a)
             v == [conn[c] EXCEPT !.timer = Silent, !.control = known]
  <2>1. Set(c, v) /\ a.role # "none"
    BY <1>14 DEF TimerAnswered
  <2>2. known \in Control
    <3>1. a \in Answer /\ a.role \in Roles /\ a.role # "none"
      BY <1>4, <2>1 DEF Answer
    <3>2. \/ a.role = "changed" \/ a.role = "required"
          \/ a.role \in {"viewer", "controller"}
      BY <3>1 DEF Roles
    <3> QED
      BY <1>3, <1>4, <1>12, <3>1, <3>2
  <2>3. v \in Connection
    <3> HIDE DEF known
    <3> QED
      BY <1>3, <1>4, <2>2 DEF Connection
  <2> QED
    BY <1>2, <2>1, <2>3
<1>15. ASSUME NEW c \in Conns, AnswerLost(c) PROVE conn' \in [Conns -> Connection]
  <2> DEFINE v == [conn[c] EXCEPT !.queue = Silent, !.control = Viewer]
             w == [conn[c] EXCEPT !.timer = Silent]
  <2>1. Set(c, v) \/ Set(c, w)
    BY <1>15 DEF AnswerLost
  <2>2. v \in Connection
    BY <1>3, <1>4 DEF Connection
  <2>3. w \in Connection
    BY <1>3, <1>4 DEF Connection
  <2> QED
    BY <1>2, <2>1, <2>2, <2>3
<1>16. ASSUME Tick PROVE conn' \in [Conns -> Connection]
  <2> DEFINE older(c) == [conn[c] EXCEPT !.control = Age(@), !.queue = Age(@), !.timer = Age(@)]
  <2>1. ASSUME NEW c \in Conns PROVE older(c) \in Connection
    <3>1. Age(conn[c].control) \in Control /\ Age(conn[c].queue) \in Answer
          /\ Age(conn[c].timer) \in Answer
      BY <1>4, AgedLeft
    <3> QED
      BY <1>4, <3>1 DEF Connection
  <2>2. conn' = [c \in Conns |-> older(c)]
    BY <1>16 DEF Tick
  <2> HIDE DEF older
  <2> QED
    BY <2>1, <2>2
<1>18. ASSUME NEW c \in Conns, OpenCached(c) PROVE conn' \in [Conns -> Connection]
  <2>1. PICK x \in Coords :
          Set(c, [conn[c] EXCEPT !.mine = x,
                    !.phase = IF conn[c].coord = x THEN "published" ELSE "opened"])
    BY <1>18, CachedRuns
  <2>2. [conn[c] EXCEPT !.mine = x,
           !.phase = IF conn[c].coord = x THEN "published" ELSE "opened"] \in Connection
    BY <1>4, <2>1 DEF Connection
  <2> QED
    BY <1>2, <2>1, <2>2
<1>17. \/ conn' = conn \/ Tick
       \/ \E c \in Conns :
            \/ Admit(c) \/ OpenTerminal(c) \/ OpenCached(c) \/ PublishCoordinates(c)
            \/ BecomeReady(c)
            \/ QueueAnswered(c) \/ TimerAsks(c) \/ TimerAnswered(c)
            \/ AnswerLost(c) \/ Set(c, Closed)
            \/ \E kind \in {"input", "takeover", "heartbeat"} : QueueAsks(c, kind)
  BY DEF Next, Serve, Select, ForwardCached, SelectBegins, StopAgent, CommitSelection, Close,
         RevokeLeases, SelectionFails, AgentExits, RuntimeReplaced, vars
<1> QED
  BY <1>1, <1>5, <1>6, <1>7, <1>8, <1>9, <1>10, <1>11, <1>13, <1>14, <1>15, <1>16, <1>17, <1>18

\* A step keeps the types of the locks, of the event count and of the input
\* it forwards.
LEMMA RestTyped ==
  ASSUME TypeOK, [Next]_vars
  PROVE  /\ shared' \subseteq Conns
         /\ selecting' \in [phase : {"none", "stop", "commit", "revoke"}, coord : Coords]
         /\ wrote' \in Conns \cup {NoConn} /\ events' \in 0..MaxEvents
<1>1. /\ shared \subseteq Conns /\ wrote \in Conns \cup {NoConn} /\ events \in 0..MaxEvents
      /\ selecting \in [phase : {"none", "stop", "commit", "revoke"}, coord : Coords]
      /\ row.coord \in Coords /\ MaxEvents \in Nat
  BY ControlAssumption DEF TypeOK
<1>2. shared' \subseteq Conns
  BY <1>1 DEF Next, Serve, Select, Admit, OpenTerminal, OpenCached, PublishCoordinates,
         BecomeReady,
         ForwardCached, QueueAsks, QueueAnswered, TimerAsks, TimerAnswered, AnswerLost,
         Close, SelectBegins, StopAgent, CommitSelection, RevokeLeases, SelectionFails,
         AgentExits, RuntimeReplaced, Tick, vars
<1>3. selecting' \in [phase : {"none", "stop", "commit", "revoke"}, coord : Coords]
  <2>1. 0 \in Coords
    BY ControlAssumption DEF Coords
  <2>2. \/ selecting' = selecting \/ SelectBegins
        \/ selecting' = [selecting EXCEPT !.phase = "commit"]
        \/ selecting' = [selecting EXCEPT !.phase = "revoke"]
        \/ selecting' = [phase |-> "none", coord |-> 0]
    BY DEF Next, Serve, Select, Admit, OpenTerminal, OpenCached, PublishCoordinates,
         BecomeReady,
         ForwardCached, QueueAsks, QueueAnswered, TimerAsks, TimerAnswered, AnswerLost,
         Close, SelectBegins, StopAgent, CommitSelection, RevokeLeases, SelectionFails,
         AgentExits, RuntimeReplaced, Tick, vars
  <2> QED
    BY <1>1, <2>1, <2>2 DEF SelectBegins
<1>4. wrote' \in Conns \cup {NoConn}
  BY <1>1 DEF Next, Serve, Select, Admit, OpenTerminal, OpenCached, PublishCoordinates,
         BecomeReady,
         ForwardCached, QueueAsks, QueueAnswered, TimerAsks, TimerAnswered, AnswerLost,
         Close, SelectBegins, StopAgent, CommitSelection, RevokeLeases, SelectionFails,
         AgentExits, RuntimeReplaced, Tick, Quiet, vars
<1>5. events' \in 0..MaxEvents
  <2>1. ASSUME NEW c \in Conns, NEW kind \in {"input", "takeover", "heartbeat"}, QueueAsks(c, kind)
        PROVE  events' = events \/ (events < MaxEvents /\ events' = events + 1)
    BY <1>1, <2>1 DEF QueueAsks
  <2>2. \/ events' = events \/ (events < MaxEvents /\ events' = events + 1)
        \/ \E c \in Conns, kind \in {"input", "takeover", "heartbeat"} : QueueAsks(c, kind)
    BY DEF Next, Serve, Select, Admit, OpenTerminal, OpenCached, PublishCoordinates,
         BecomeReady,
         ForwardCached, QueueAnswered, TimerAsks, TimerAnswered, AnswerLost,
         Close, SelectBegins, StopAgent, CommitSelection, RevokeLeases, SelectionFails,
         AgentExits, RuntimeReplaced, Tick, Quiet, vars
  <2> QED
    BY <1>1, <2>1, <2>2
<1> QED
  BY <1>2, <1>3, <1>4, <1>5

\* A selection that has begun keeps a launch to select.
LEMMA SelectionStep ==
  ASSUME TypeOK, SelectionCounted, [Next]_vars PROVE SelectionCounted'
<1>1. row \in [launch : Launches, coord : Coords, gen : 0..MaxGenerations]
      /\ selecting \in [phase : {"none", "stop", "commit", "revoke"}, coord : Coords]
  BY DEF TypeOK
<1>2. row'.launch = row.launch \/ CommitSelection
  <2>1. ASSUME NEW c \in Conns, PublishCoordinates(c) PROVE row'.launch = row.launch
    BY <1>1, <2>1 DEF PublishCoordinates
  <2>2. \/ row' = row \/ CommitSelection \/ \E c \in Conns : PublishCoordinates(c)
    BY DEF Next, Serve, Select, Admit, OpenTerminal, OpenCached, BecomeReady, Apply, Grant,
         ForwardCached, QueueAsks, QueueAnswered, TimerAsks, TimerAnswered, AnswerLost,
         Close, SelectBegins, StopAgent, RevokeLeases, SelectionFails,
         AgentExits, RuntimeReplaced, Tick, db, vars
  <2> QED
    BY <2>1, <2>2
<1>3. \/ selecting' = selecting \/ SelectBegins \/ StopAgent \/ CommitSelection
      \/ selecting' = [phase |-> "none", coord |-> 0]
  BY DEF Next, Serve, Select, Admit, OpenTerminal, OpenCached, PublishCoordinates, BecomeReady,
         ForwardCached, QueueAsks, QueueAnswered, TimerAsks, TimerAnswered, AnswerLost,
         Close, RevokeLeases, SelectionFails, AgentExits, RuntimeReplaced, Tick, vars
<1>4. CASE SelectBegins
  BY <1>1, <1>4 DEF SelectBegins, SelectionCounted, db
<1>5. CASE StopAgent
  BY <1>1, <1>5 DEF StopAgent, SelectionCounted, db
<1>6. CASE CommitSelection
  BY <1>1, <1>6 DEF CommitSelection, SelectionCounted
<1>7. CASE selecting' = selecting /\ row'.launch = row.launch
  BY <1>7 DEF SelectionCounted
<1>8. CASE selecting' = [phase |-> "none", coord |-> 0]
  BY <1>8 DEF SelectionCounted
<1> QED
  BY <1>2, <1>3, <1>4, <1>5, <1>6, <1>7, <1>8

-----------------------------------------------------------------------------
(* The theorems.                                                           *)

\* Before any connection, nothing is named, held or believed.
LEMMA InitInductive == Init => Inductive
<1> SUFFICES ASSUME Init PROVE Inductive
  OBVIOUS
<1>1. /\ attempts = <<>> /\ live = [l \in Launches |-> 0] /\ generation = 0
      /\ row = [launch |-> 0, coord |-> 0, gen |-> 0] /\ ctl = NoLease
      /\ granted = [k \in Clients |-> [x \in Coords |-> 0]]
      /\ shared = {} /\ selecting = [phase |-> "none", coord |-> 0]
      /\ conn = [c \in Conns |-> Closed] /\ wrote = NoConn /\ events = 0
  BY DEF Init
<1>2. 0 \in Coords /\ 0 \in Launches /\ 0 \in 0..Lease /\ 0 \in 0..MaxGenerations
      /\ 0 \in 0..MaxEvents
  BY ControlAssumption DEF Coords, Launches
<1>3. Closed \in Connection
  <2>1. Viewer \in Control /\ Silent \in Answer
    BY <1>2 DEF Viewer, Silent, Control, Answer, Roles
  <2> QED
    BY <1>2, <2>1 DEF Closed, Connection
<1>4. TypeOK
  <2>1. attempts \in Seq([gen : 0..MaxGenerations, launch : Launches])
        /\ Len(attempts) <= MaxAttempts
    BY <1>1, ControlAssumption
  <2>2. ctl \in [coord : Coords, holder : Clients \cup {NoClient}, left : 0..Lease]
    BY <1>1, <1>2 DEF NoLease
  <2>3. granted \in [Clients -> [Coords -> 0..Lease]] /\ live \in [Launches -> Coords]
        /\ conn \in [Conns -> Connection]
    BY <1>1, <1>2, <1>3
  <2> QED
    BY <1>1, <1>2, <2>1, <2>2, <2>3 DEF TypeOK
<1>5. SessionsNamed /\ RowNamed /\ LeaseOfCoordinates /\ SelectionCounted
  BY <1>1 DEF SessionsNamed, RowNamed, LeaseOfCoordinates, SelectionCounted
<1>6. \A c \in Conns : /\ conn[c].phase = "closed" /\ conn[c].control.left = 0
                       /\ conn[c].queue.left = 0 /\ conn[c].timer.left = 0
                       /\ conn[c].mine = 0
  BY <1>1 DEF Closed, Viewer, Silent
<1>7. AdmittedNamed /\ TerminalsNamed /\ QuietBeforeOpen
  BY <1>6 DEF AdmittedNamed, TerminalsNamed, QuietBeforeOpen
<1>8. \A c \in Conns : granted[ClientOf[c]][0] = 0
  BY <1>1, <1>2, ControlAssumption
<1>9. BelievedWithinGrant
  BY <1>6, <1>8 DEF BelievedWithinGrant
<1> QED
  BY <1>4, <1>5, <1>7, <1>9 DEF Inductive

\* Every step keeps the inductive invariant.
LEMMA StepInductive == Inductive /\ [Next]_vars => Inductive'
<1> SUFFICES ASSUME Inductive, [Next]_vars PROVE Inductive'
  OBVIOUS
<1>1. /\ TypeOK /\ SessionsNamed /\ AdmittedNamed /\ TerminalsNamed /\ RowNamed
      /\ LeaseOfCoordinates
      /\ QuietBeforeOpen /\ BelievedWithinGrant /\ SelectionCounted
  BY DEF Inductive
<1>2. TypeOK'
  <2>1. /\ attempts' \in Seq([gen : 0..MaxGenerations, launch : Launches])
        /\ Len(attempts') <= MaxAttempts
        /\ live' \in [Launches -> Coords] /\ generation' \in 0..MaxGenerations
    BY <1>1, ProcdTyped
  <2>2. /\ row' \in [launch : Launches, coord : Coords, gen : 0..MaxGenerations]
        /\ ctl' \in [coord : Coords, holder : Clients \cup {NoClient}, left : 0..Lease]
        /\ granted' \in [Clients -> [Coords -> 0..Lease]]
    BY <1>1, DbTyped
  <2>3. conn' \in [Conns -> Connection]
    BY <1>1, ConnTyped
  <2>4. /\ shared' \subseteq Conns
        /\ selecting' \in [phase : {"none", "stop", "commit", "revoke"}, coord : Coords]
        /\ wrote' \in Conns \cup {NoConn} /\ events' \in 0..MaxEvents
    BY <1>1, RestTyped
  <2> QED
    BY <2>1, <2>2, <2>3, <2>4 DEF TypeOK
<1>3. SessionsNamed' /\ AdmittedNamed' /\ TerminalsNamed' /\ RowNamed'
  BY <1>1, SessionsStep, AdmittedStep, TerminalsStep, RowStep
<1>4. LeaseOfCoordinates' /\ QuietBeforeOpen' /\ BelievedWithinGrant' /\ SelectionCounted'
  BY <1>1, LeaseStep, QuietStep, BeliefStep, SelectionStep
<1> QED
  BY <1>2, <1>3, <1>4 DEF Inductive

\* The names of sessions and the beliefs of connections are right in every
\* reachable state, whatever selections, exits, replaced runtimes, lost answers
\* and answers out of order come in between (server.ts, store.ts).
THEOREM InductiveHolds == Spec => []Inductive
BY InitInductive, StepInductive, PTL DEF Spec

\* Every variable keeps its type.
THEOREM TypeCorrect == Spec => []TypeOK
<1>1. Inductive => TypeOK
  BY DEF Inductive
<1> QED
  BY <1>1, InductiveHolds, PTL

\* The published attempt always belongs to the selected native session: the
\* compare-and-swap of recordEnvironmentAgentSession turns away a connection
\* that was opened before a selection.
THEOREM PublishedIsSelected == Spec => []CoordinatesOfLaunch
<1>1. Inductive => CoordinatesOfLaunch
  BY DEF Inductive, RowNamed, RunsLaunch, CoordinatesOfLaunch
<1> QED
  BY <1>1, InductiveHolds, PTL

\* No lease survives on coordinates that are not the published ones: every
\* statement that changes the coordinates revokes the lease, and a lease is
\* granted only on the published ones.
THEOREM LeaseFollowsCoordinates == Spec => []LeaseOfCoordinates
<1>1. Inductive => LeaseOfCoordinates
  BY DEF Inductive
<1> QED
  BY <1>1, InductiveHolds, PTL

\* Input is forwarded only under a grant that has not run out, or in answer to
\* that very input: the cached copy of a lease never outlives the lease.
THEOREM InputIsGranted == Spec => InputWithinLease
<1> DEFINE Granted == wrote' # NoConn =>
             \/ granted[ClientOf[wrote']][conn[wrote'].mine] > 0
             \/ conn[wrote'].queue.role = "controller"
<1>1. Inductive /\ [Next]_vars => [Granted]_vars
  <2> SUFFICES ASSUME Inductive, Next, wrote' # NoConn PROVE Granted
    OBVIOUS
  <2>1. ASSUME NEW c \in Conns, ForwardCached(c) PROVE Granted
    <3>1. wrote' = c /\ conn[c].control.left > 0
      BY <2>1 DEF ForwardCached, Fresh
    <3>2. conn[c].control.left <= granted[ClientOf[c]][conn[c].mine]
      BY DEF Inductive, BelievedWithinGrant
    <3>3. /\ conn[c].control.left \in 0..Lease
          /\ granted[ClientOf[c]][conn[c].mine] \in 0..Lease /\ Lease \in Nat
      <4>1. conn[c] \in Connection /\ granted \in [Clients -> [Coords -> 0..Lease]]
        BY DEF Inductive, TypeOK
      <4>2. ClientOf[c] \in Clients /\ Lease \in Nat
        BY ControlAssumption
      <4> QED
        BY <4>1, <4>2 DEF Connection, Control
    <3>4. granted[ClientOf[c]][conn[c].mine] > 0
      BY <3>1, <3>2, <3>3
    <3> QED
      BY <3>1, <3>4
  <2>2. ASSUME NEW c \in Conns, QueueAnswered(c) PROVE Granted
    BY <2>2 DEF QueueAnswered
  <2>3. \E c \in Conns : ForwardCached(c) \/ QueueAnswered(c)
    BY DEF Next, Serve, Select, Admit, OpenTerminal, OpenCached, PublishCoordinates,
         BecomeReady,
           QueueAsks, TimerAsks, TimerAnswered, AnswerLost, Close, SelectBegins, StopAgent,
           CommitSelection, RevokeLeases, SelectionFails, AgentExits, RuntimeReplaced,
           Tick, Quiet
  <2> QED
    BY <2>1, <2>2, <2>3
<1> QED
  BY <1>1, InductiveHolds, PTL DEF Spec, InputWithinLease
=============================================================================
