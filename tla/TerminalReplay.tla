---------------------------- MODULE TerminalReplay ----------------------------
(***************************************************************************)
(* What a browser shows of the terminal of an Environment.  The Supervisor  *)
(* keeps the events of a session in a journal, of which it forgets the      *)
(* oldest.  A page asks for what follows the last event it has received;    *)
(* the server checks that against the window of the journal, which it may   *)
(* know from a copy a few seconds old, and answers with the place where the *)
(* replay begins and whether the page has to begin with an empty screen.    *)
(* The page keeps its place in localStorage, and what it has shown in a     *)
(* cache that lasts as long as the page, from which the screen is restored  *)
(* when the user comes back to it.                                          *)
(*                                                                         *)
(* Simplifications.  One page shows the terminal.  A frame is sent and      *)
(* received in one step: what is under way when a connection ends has left  *)
(* no trace on either side.  xterm is what was written to it; it tells when *)
(* it has parsed a frame, in order, but as late as it likes.  The process,  *)
(* its attempts, the input and the lease are TerminalControl's, and so is   *)
(* the publication of a session, which here comes with its creation; the    *)
(* end of an attempt is an event like any other, after which the page may   *)
(* connect again at once.                                                   *)
(***************************************************************************)
EXTENDS Integers, SequencesExt

CONSTANTS
  MaxEvents,    \* bound on the events of a session
  MaxSessions,  \* bound on the sessions
  MaxUnparsed,  \* bound on the frames that xterm has not parsed
  MaxChanges,   \* bound on what the user, the network and the retention do
  CommandLimit  \* TERMINAL_REPLAY_COMMAND_LIMIT

VARIABLES
  journal,      \* Supervisor: the events of each session, and the oldest it keeps
  current,      \* environment_runtime: the session, 0 is NULL
  made,         \* how many sessions there have been
  cached,       \* a copy of the session that some replica may still use
  link,         \* the connection of the page and what was read to open it
  page,         \* the refs of useTerminalSession
  stored,       \* localStorage
  memory,       \* the entry of TerminalReplayMemoryCache
  screen,       \* what was written to xterm since it was empty, as intervals
  changes

supervisor == <<journal, current, made>>
vars       == <<supervisor, cached, link, page, stored, memory, screen, changes>>

Sessions == 1 .. MaxSessions
Seqs     == 0 .. MaxEvents
NoMark   == -1

Latest(s)  == Len(journal[s].events)
\* What getSession tells of session s.
Meta(s)    == [session |-> s, earliest |-> journal[s].earliest, latest |-> Latest(s)]
NoMeta     == [session |-> 0, earliest |-> 0, latest |-> 0]
NoMemory   == [session |-> 0, chunks |-> <<>>]
NoLink     == [phase |-> "none", meta |-> NoMeta, stale |-> FALSE, after |-> 0,
               reset |-> FALSE]
EmptyState == [session |-> 0, last |-> 0, marks |-> <<>>]

Init ==
  /\ journal = [s \in Sessions |-> [events |-> <<>>, earliest |-> 1]]
  /\ current = 0 /\ made = 0 /\ cached = NoMeta /\ link = NoLink
  /\ page = [seen |-> 0, rendered |-> 0, state |-> EmptyState, pending |-> NoMark,
             unparsed |-> <<>>, failed |-> FALSE]
  /\ stored = EmptyState /\ memory = NoMemory /\ screen = <<>>
  /\ changes = 0

-----------------------------------------------------------------------------
(* The Supervisor.                                                         *)

Change == changes < MaxChanges /\ changes' = changes + 1

\* The process writes output, or something else happens to it.
Happens(kind) ==
  /\ current # 0 /\ Latest(current) < MaxEvents
  /\ journal' = [journal EXCEPT ![current].events = Append(@, kind)]
  /\ UNCHANGED <<current, made, cached, link, page, stored, memory, screen, changes>>

\* The oldest event is forgotten: the retention of a terminal is bounded in
\* bytes and in age.
Forget ==
  /\ Change
  /\ current # 0 /\ journal[current].earliest <= Latest(current)
  /\ journal' = [journal EXCEPT ![current].earliest = @ + 1]
  /\ UNCHANGED <<current, made, cached, link, page, stored, memory, screen>>

\* Another native session is selected: the session of the old one is stopped and
\* deleted, which ends a connection to it, while no connection is being opened.
Select ==
  /\ Change
  /\ current # 0 /\ made < MaxSessions /\ link.phase # "asked"
  /\ current' = 0 /\ link' = NoLink
  /\ UNCHANGED <<journal, made, cached, page, stored, memory, screen>>

-----------------------------------------------------------------------------
(* The server.                                                             *)

reconcileTerminalReplayCursor(requestedAfter, cursor, forceReset) ==
  LET earliestAfter == IF cursor.earliest > 0 THEN cursor.earliest - 1 ELSE 0
      valid == ~forceReset /\ requestedAfter \in earliestAfter .. cursor.latest
  IN  [after |-> IF valid THEN requestedAfter ELSE earliestAfter, reset |-> ~valid]

\* The connection once the session was read: where its replay will begin.
Reconciled(meta, stale) ==
  LET expected == page.state.session
      replay == reconcileTerminalReplayCursor(page.seen, meta,
                  expected # 0 /\ expected # meta.session)
  IN  [phase |-> "asked", meta |-> meta, stale |-> stale, after |-> replay.after,
       reset |-> replay.reset]

\* connect on the page, and openAgentTerminal up to the connection to the
\* Supervisor: the session is created, ...
AskNew ==
  /\ link = NoLink /\ ~page.failed /\ current = 0 /\ made < MaxSessions
  /\ made' = made + 1 /\ current' = made + 1
  /\ link' = Reconciled(Meta(made + 1), FALSE)
  /\ UNCHANGED <<journal, cached, page, stored, memory, screen, changes>>

\* ... read, ...
AskFresh ==
  /\ link = NoLink /\ ~page.failed /\ current # 0
  /\ link' = Reconciled(Meta(current), FALSE)
  /\ UNCHANGED <<supervisor, cached, page, stored, memory, screen, changes>>

\* ... or taken from a copy that has not timed out.
AskCached ==
  /\ link = NoLink /\ ~page.failed /\ current # 0 /\ cached.session = current
  /\ link' = Reconciled(cached, TRUE)
  /\ UNCHANGED <<supervisor, cached, page, stored, memory, screen, changes>>

\* The Supervisor refuses a cursor whose next event it has forgotten.
Expired == link.after + 1 < journal[link.meta.session].earliest

\* The copy was too old: the session is read again.
RetryWithoutCache ==
  /\ link.phase = "asked" /\ Expired /\ link.stale
  /\ cached' = NoMeta /\ link' = Reconciled(Meta(current), FALSE)
  /\ UNCHANGED <<supervisor, page, stored, memory, screen, changes>>

\* Read just now, and forgotten since: the page shows the error and stays with it.
Refused ==
  /\ link.phase = "asked" /\ Expired /\ ~link.stale
  /\ link' = NoLink /\ page' = [page EXCEPT !.failed = TRUE]
  /\ UNCHANGED <<supervisor, cached, stored, memory, screen, changes>>

-----------------------------------------------------------------------------
(* The page.                                                               *)

resetTerminalReplay(session, seq) == [session |-> session, last |-> seq, marks |-> <<>>]
terminalReplayAfter(state) == IF state.marks = <<>> THEN state.last ELSE state.marks[1]
Existing(marks, last) == SelectSeq(marks, LAMBDA m : m <= last)
parseTerminalReplayState(state) == [state EXCEPT !.marks = Existing(@, state.last)]
rememberTerminalCommand(state, start) ==
  LET all == Append(state.marks, start)
  IN  [state EXCEPT !.last = IF start > @ THEN start ELSE @,
                    !.marks = IF Len(all) > CommandLimit THEN Tail(all) ELSE all]

\* What is on the screen of a page whose place is (session, seq) when it is made.
usable(session, seq) ==
  IF session # 0 /\ memory.session = session /\ memory.chunks # <<>>
     /\ Last(memory.chunks).to = seq
  THEN [i \in DOMAIN memory.chunks |-> [memory.chunks[i] EXCEPT !.cached = TRUE]]
  ELSE <<>>

terminalChanged == page.state.session # 0 /\ page.state.session # link.meta.session
\* Mistake: the page compares sessions only, and goes on with a screen that the
\* server will not continue.
ChangedOnly == terminalChanged
replayReset == link.reset \/ terminalChanged

\* The connection is open, and the page handles the "ready" message.  The replica
\* keeps its copy of the session; another one may have kept an older one.
Ready ==
  LET session == link.meta.session
      state   == IF replayReset THEN resetTerminalReplay(session, link.after)
                 ELSE [page.state EXCEPT !.session = session]
  IN
  /\ link.phase = "asked" /\ ~Expired
  /\ link' = [link EXCEPT !.phase = "open", !.stale = FALSE, !.reset = FALSE]
  /\ cached' \in {cached, link.meta}
  /\ page' = [page EXCEPT !.seen = link.after, !.state = state,
                          !.rendered = IF replayReset THEN link.after ELSE @]
  /\ stored' = state
  /\ screen' = IF replayReset THEN <<>> ELSE screen
  /\ memory' = IF replayReset THEN [session |-> session, chunks |-> <<>>] ELSE memory
  /\ UNCHANGED <<supervisor, changes>>

\* Intervals to which the events of a frame are added.
Extended(chunks, chunk) ==
  IF chunks # <<>> /\ Last(chunks).session = chunk.session /\ Last(chunks).to + 1 = chunk.from
  THEN [chunks EXCEPT ![Len(chunks)].to = chunk.to]
  ELSE Append(chunks, chunk)

\* TerminalReplayMemoryCache.append: a chunk that overlaps the last one is left
\* out.  An entry over its size loses its head, and with it the right to be used.
Remembered(chunk) ==
  IF memory.session # chunk.session
     \/ (memory.chunks # <<>> /\ chunk.from <= Last(memory.chunks).to)
  THEN {memory}
  ELSE {[memory EXCEPT !.chunks = Extended(@, chunk)], NoMemory}

writeTerminalOutput(from, to) ==
  LET chunk == [session |-> link.meta.session, from |-> from, to |-> to, cached |-> FALSE]
  IN  /\ page' = [page EXCEPT !.seen = to, !.unparsed = Append(@, to)]
      /\ screen' = Extended(screen, chunk)
      /\ memory' \in Remembered(chunk)

\* The next frame, as long as the journal has it: as much output as the batcher has put together, ...
Output ==
  /\ link.phase = "open" /\ Len(page.unparsed) < MaxUnparsed /\ ~Expired
  /\ \E to \in link.after + 1 .. Latest(link.meta.session) :
       /\ \A n \in link.after + 1 .. to : journal[link.meta.session].events[n] = "output"
       /\ link' = [link EXCEPT !.after = to]
       /\ IF link.after = page.seen THEN writeTerminalOutput(link.after + 1, to)
                                  ELSE UNCHANGED <<page, screen, memory>>
  /\ UNCHANGED <<supervisor, cached, stored, changes>>

\* ... or an event that is none, which is only asked to be new.
Event ==
  /\ link.phase = "open" /\ Len(page.unparsed) < MaxUnparsed /\ ~Expired
  /\ link.after < Latest(link.meta.session)
  /\ journal[link.meta.session].events[link.after + 1] # "output"
  /\ link' = [link EXCEPT !.after = @ + 1]
  /\ IF link.after + 1 > page.seen THEN writeTerminalOutput(link.after + 1, link.after + 1)
                                 ELSE UNCHANGED <<page, screen, memory>>
  /\ UNCHANGED <<supervisor, cached, stored, changes>>

\* xterm has parsed the next frame: commitRenderedOutput.
Parsed ==
  LET to == Head(page.unparsed) IN
  /\ page.unparsed # <<>>
  /\ page' = [page EXCEPT
       !.unparsed = Tail(@),
       !.rendered = IF to > @ THEN to ELSE @,
       !.state.last = IF to > page.rendered /\ to > @ THEN to ELSE @]
  /\ UNCHANGED <<supervisor, cached, link, stored, memory, screen, changes>>

\* The timer of scheduleReplayPersist.
Persist ==
  /\ stored # page.state /\ stored' = page.state
  /\ UNCHANGED <<supervisor, cached, link, page, memory, screen, changes>>

\* The first key of a command line, typed once the replay has been received, ...
Type ==
  /\ Change
  /\ link.phase = "open" /\ page.seen >= link.meta.latest /\ page.pending = NoMark
  /\ page' = [page EXCEPT !.pending = page.seen]
  /\ UNCHANGED <<supervisor, cached, link, stored, memory, screen>>

\* ... and the last one: trackSubmittedCommands sets a bookmark where it began.
Submit ==
  /\ link.phase = "open" /\ page.seen >= link.meta.latest /\ page.pending # NoMark
  /\ page' = [page EXCEPT !.pending = NoMark,
                          !.state = rememberTerminalCommand(@, page.pending)]
  /\ stored' = page'.state
  /\ UNCHANGED <<supervisor, cached, link, memory, screen, changes>>

\* Control-C, or keys for a full-screen program.
Abandon ==
  /\ link.phase = "open" /\ page.seen >= link.meta.latest /\ page.pending # NoMark
  /\ page' = [page EXCEPT !.pending = NoMark]
  /\ UNCHANGED <<supervisor, cached, link, stored, memory, screen, changes>>

\* The user clears the screen; what follows is written below.
clearTerminal ==
  /\ Change
  /\ page' = [page EXCEPT !.state = resetTerminalReplay(@.session, page.seen)]
  /\ stored' = page'.state /\ screen' = <<>>
  /\ UNCHANGED <<supervisor, cached, link, memory>>

\* The connection is lost; the page connects again.
Lost ==
  /\ Change
  /\ link # NoLink /\ link' = NoLink
  /\ UNCHANGED <<supervisor, cached, page, stored, memory, screen>>

\* A new xterm for the same refs: the Environment was stopped and is enabled
\* again, or the user has asked for a retry.
Remount ==
  /\ Change
  /\ link' = NoLink /\ stored' = page.state
  /\ page' = [page EXCEPT !.unparsed = <<>>, !.failed = FALSE]
  /\ screen' = usable(page.state.session, page.seen)
  /\ UNCHANGED <<supervisor, cached, memory>>

\* New refs, from what localStorage keeps.
Opened(state) ==
  LET s == parseTerminalReplayState(state)
      after == terminalReplayAfter(s)
  IN  page' = [seen |-> after, rendered |-> after, state |-> s, pending |-> NoMark,
               unparsed |-> <<>>, failed |-> FALSE]

\* The user leaves the route of the Environment and comes back.
Return ==
  /\ Change
  /\ link' = NoLink /\ stored' = page.state /\ Opened(page.state)
  /\ screen' = usable(page'.state.session, page'.seen)
  /\ UNCHANGED <<supervisor, cached, memory>>

\* The page is loaded again, or the browser was killed.
Reload ==
  /\ Change
  /\ link' = NoLink /\ Opened(stored) /\ memory' = NoMemory /\ screen' = <<>>
  /\ UNCHANGED <<supervisor, cached, stored>>

\* The terminals of four other Environments push the entry out.
Evict ==
  /\ Change
  /\ memory # NoMemory /\ memory' = NoMemory
  /\ UNCHANGED <<supervisor, cached, link, page, stored, screen>>

Next ==
  \/ \E kind \in {"output", "event"} : Happens(kind)
  \/ Forget \/ Select
  \/ AskNew \/ AskFresh \/ AskCached \/ RetryWithoutCache \/ Refused \/ Ready
  \/ Output \/ Event \/ Parsed \/ Persist \/ Lost
  \/ Type \/ Submit \/ Abandon \/ clearTerminal
  \/ Remount \/ Return \/ Reload \/ Evict

Spec == Init /\ [][Next]_vars

-----------------------------------------------------------------------------
(* Properties.                                                             *)

\* The screen is one piece of one session.  Over lost connections, replaced and
\* pruned journals, stale copies of their windows, new pages and restored ones, no
\* event is left out or shown twice, save where the cache has a hole of its own;
\* the connection is to the session that is on the screen, and what the page will
\* ask for next is what follows the end of it.
ScreenContinues ==
  /\ \A i \in 2 .. Len(screen) :
       screen[i].cached /\ screen[i].session = screen[1].session
  /\ screen # <<>> => Last(screen).to = page.seen
  /\ screen # <<>> /\ link.phase = "open" => screen[1].session = link.meta.session

\* Refuted: a restored screen has no hole.  A replay that begins at a bookmark may
\* come in a chunk that overlaps the end of the cache; append leaves it out, and
\* adds what follows it.
RestoredWhole == Len(screen) <= 1

\* Refuted: the saved cursor names an event of its session.  The first key of a
\* command is remembered by its place in the session of the time, and so is a
\* frame that xterm parses late: after a reset they move the cursor of the new
\* session.
SavedCursorExists == stored.session # 0 => stored.last <= Latest(stored.session)
=============================================================================
