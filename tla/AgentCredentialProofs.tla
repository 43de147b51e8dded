------------------------- MODULE AgentCredentialProofs -------------------------
(***************************************************************************)
(* The safety of AgentCredential for any number of replicas, terminals,    *)
(* logins, pauses and failures.  The invariant says where the content of   *)
(* the file can come from while a process synchronises it.                 *)
(***************************************************************************)
EXTENDS AgentCredential, TLAPS

\* The source is one it has had, and so is what a process has read of it; what a
\* process believes to be current is the source.
SourceKept ==
  /\ source \in kept \cup {0}
  /\ \A p \in Procs : /\ seen[p].cred \in kept \cup {0}
                      /\ seen[p].current => seen[p].cred = source
                      /\ pc[p] = "reinstall" => seen[p].cred # 0

\* A process has looked at the file no later than now, and found something in it.
LookPast ==
  \A p \in Procs : /\ look[p].made <= made
                   /\ pc[p] \in {"compare", "replace"} => look[p].cred # 0

\* The file is empty, or has what the source once had, or is newer than the look.
Preserved(p) == file \in kept \cup {0} \/ file > look[p].made

\* Until the source has been compared the file may also still be what was found.
FileKnown ==
  \A p \in Procs :
    /\ pc[p] \in {"compare", "replace", "reinstall"} => Preserved(p) \/ file = look[p].cred
    /\ pc[p] \in {"mark", "bind", "destroy"} => Preserved(p)

\* Who marks a binding has seen the source whose content it found in the file or
\* put there.
MarkedKnown ==
  \A p \in Procs : pc[p] \in {"mark", "bind"} =>
    look[p].cred = seen[p].cred /\ seen[p].cred # 0

Inductive == TypeOK /\ SourceKept /\ LookPast /\ FileKnown /\ MarkedKnown
-----------------------------------------------------------------------------
(* One lemma per conjunct.                                                 *)

\* Every step keeps the types.
LEMMA TypeStep ==
  ASSUME MaxCreds \in Nat \ {0}, TypeOK, [Next]_vars
  PROVE  TypeOK'
<1> DEFINE RowTypes == /\ made \in Contents /\ logins \in Nat /\ pauses \in Nat /\ faults \in Nat
                       /\ source \in Contents /\ kept \subseteq Contents /\ tabs \in Nat
                       /\ file \in Contents
<1> DEFINE UpType == up \in BOOLEAN /\ (~up => file = 0)
<1> DEFINE BindingType == binding \in [status : {"none", "active", "stale"}, current : BOOLEAN]
<1> DEFINE PlaceTypes ==
      /\ lockX \in Procs \cup {NoProc} /\ lockS \subseteq Procs
      /\ pc \in [Procs -> Syncing \cup {"free", "admit", "install", "publish", "destroy"}]
      /\ job \in [Procs -> {"none", "terminal", "open", "pause", "snapshot"}]
<1> DEFINE LookType == look \in [Procs -> [cred : Contents, made : Contents]]
<1> DEFINE SeenType == seen \in [Procs -> [cred : Contents, current : BOOLEAN]]
<1>f. ASSUME NEW p \in Procs, Finish(p) PROVE (PlaceTypes /\ LookType /\ SeenType)'
  BY <1>f DEF TypeOK, Finish, Goto, NoLook, NoSource, Contents, Syncing
<1> USE DEF Goto, Replace, NoneCurrent, StatusReplaced, NoLook, NoSource, sandbox, rows,
     locks, local, bounds, TypeOK, Contents, Syncing
<1>1. ASSUME Refresh PROVE TypeOK'
  BY <1>1 DEF Refresh
<1>2. ASSUME Login PROVE TypeOK'
  <2>1. RowTypes'
    BY <1>2 DEF Login
  <2>2. UpType'
    <3>1. UNCHANGED <<up, file>>
      BY <1>2 DEF Login
    <3> QED
      BY <3>1
  <2>3. (BindingType /\ PlaceTypes /\ LookType)'
    BY <1>2 DEF Login
  <2>4. SeenType'
    BY <1>2, Zenon DEF Login
  <2> QED
    BY <2>1, <2>2, <2>3, <2>4
<1>3. ASSUME NEW p \in Procs, Tick(p) PROVE TypeOK'
  BY <1>3 DEF Tick, Begin
<1>4. ASSUME NEW p \in Procs, Close(p) PROVE TypeOK'
  BY <1>4 DEF Close, Begin
<1>5. ASSUME NEW p \in Procs, Protect(p) PROVE TypeOK'
  BY <1>5 DEF Protect, Begin
<1>6. ASSUME NEW p \in Procs, ReadFile(p) PROVE TypeOK'
  <2>1. RowTypes' /\ UpType'
    BY <1>6 DEF ReadFile, Awake
  <2>2. BindingType'
    BY <1>6 DEF ReadFile
  <2>3. Finish(p) \/ (PlaceTypes' /\ SeenType')
    BY <1>6 DEF ReadFile
  <2>4. Finish(p) \/ LookType'
    BY <1>6 DEF ReadFile
  <2> QED
    BY <2>1, <2>2, <2>3, <2>4, <1>f
<1>7. ASSUME NEW p \in Procs, Compare(p) PROVE TypeOK'
  BY <1>7 DEF Compare, Source, Same
<1>8. ASSUME NEW p \in Procs, ReplaceSource(p) PROVE TypeOK'
  BY <1>8 DEF ReplaceSource, Superseded
<1>9. ASSUME NEW p \in Procs, LoseRace(p) PROVE TypeOK'
  BY <1>9 DEF LoseRace, Superseded, Source
<1>10. ASSUME NEW p \in Procs, Reinstall(p) PROVE TypeOK'
  BY <1>10 DEF Reinstall, Awake
<1>11. ASSUME NEW p \in Procs, Mark(p) PROVE TypeOK'
  <2>1. RowTypes'
    BY <1>11 DEF Mark, Deferred
  <2>2. BindingType'
    BY <1>11 DEF Mark, Deferred
  <2>4. UpType'
    BY <1>11 DEF Mark, Deferred
  <2>3. Finish(p) \/ (PlaceTypes /\ LookType /\ SeenType)'
    BY <1>11 DEF Mark, Deferred
  <2> QED
    BY <2>1, <2>2, <2>3, <2>4, <1>f
<1>12. ASSUME NEW p \in Procs, Bind(p) PROVE TypeOK'
  <2>1. RowTypes'
    BY <1>12 DEF Bind, Synced, Boundary
  <2>2. BindingType'
    BY <1>12 DEF Bind, Synced, Boundary
  <2>4. UpType'
    BY <1>12 DEF Bind, Synced, Boundary
  <2>3. Finish(p) \/ (PlaceTypes /\ LookType /\ SeenType)'
    BY <1>12 DEF Bind, Synced, Boundary
  <2> QED
    BY <2>1, <2>2, <2>3, <2>4, <1>f
<1>13. ASSUME NEW p \in Procs, Destroy(p) PROVE TypeOK'
  <2>1. RowTypes'
    BY <1>13 DEF Destroy, Boundary
  <2>2. BindingType'
    BY <1>13 DEF Destroy, Boundary
  <2>4. UpType'
    BY <1>13 DEF Destroy, Boundary
  <2>3. Finish(p) \/ (PlaceTypes /\ LookType /\ SeenType)'
    BY <1>13 DEF Destroy, Boundary
  <2> QED
    BY <2>1, <2>2, <2>3, <2>4, <1>f
<1>14. ASSUME NEW p \in Procs, Open(p) PROVE TypeOK'
  BY <1>14 DEF Open, Begin, Source
<1>15. ASSUME NEW p \in Procs, Admit(p) PROVE TypeOK'
  BY <1>15 DEF Admit
<1>16. ASSUME NEW p \in Procs, Install(p) PROVE TypeOK'
  BY <1>16 DEF Install, Awake
<1>17. ASSUME NEW p \in Procs, PublishOpen(p) PROVE TypeOK'
  <2>1. RowTypes'
    BY <1>17 DEF PublishOpen
  <2>2. BindingType'
    BY <1>17 DEF PublishOpen
  <2>4. UpType'
    BY <1>17 DEF PublishOpen
  <2>3. Finish(p) \/ (PlaceTypes /\ LookType /\ SeenType)'
    BY <1>17 DEF PublishOpen
  <2> QED
    BY <2>1, <2>2, <2>3, <2>4, <1>f
<1>18. ASSUME NEW p \in Procs, Fail(p) PROVE TypeOK'
  <2>1. RowTypes'
    BY <1>18 DEF Fail, Boundary, Deferred
  <2>2. BindingType'
    BY <1>18 DEF Fail, Boundary, Deferred
  <2>4. UpType'
    BY <1>18 DEF Fail, Boundary, Deferred
  <2>3. Finish(p) \/ (PlaceTypes /\ LookType /\ SeenType)'
    BY <1>18 DEF Fail, Boundary, Deferred
  <2> QED
    BY <2>1, <2>2, <2>3, <2>4, <1>f
<1>19. ASSUME NEW p \in Procs, Crash(p) PROVE TypeOK'
  <2>1. RowTypes'
    BY <1>19 DEF Crash
  <2>2. BindingType'
    BY <1>19 DEF Crash
  <2>4. UpType'
    BY <1>19 DEF Crash
  <2>3. Finish(p) \/ (PlaceTypes /\ LookType /\ SeenType)'
    BY <1>19 DEF Crash
  <2> QED
    BY <2>1, <2>2, <2>3, <2>4, <1>f
<1>20. ASSUME UNCHANGED vars PROVE TypeOK'
  BY <1>20 DEF vars
<1> QED
  BY <1>1, <1>2, <1>3, <1>4, <1>5, <1>6, <1>7, <1>8, <1>9, <1>10, <1>11, <1>12, <1>13,
       <1>14, <1>15, <1>16, <1>17, <1>18, <1>19, <1>20 DEF Next, Sync, Opening

\* A source that is replaced stays among those it has been, and nobody takes it for the current one.
LEMMA KeptStep == ASSUME TypeOK, SourceKept, LookPast, [Next]_vars PROVE SourceKept'
<1> USE DEF Goto, Finish, Replace, NoneCurrent, StatusReplaced, NoLook, NoSource,
     sandbox, rows, locks, local, bounds, TypeOK, SourceKept, LookPast, Contents
<1>1. ASSUME Refresh PROVE SourceKept'
  BY <1>1 DEF Refresh
<1>2. ASSUME Login PROVE SourceKept'
  BY <1>2 DEF Login
<1>3. ASSUME NEW p \in Procs, Tick(p) PROVE SourceKept'
  BY <1>3 DEF Tick, Begin
<1>4. ASSUME NEW p \in Procs, Close(p) PROVE SourceKept'
  BY <1>4 DEF Close, Begin
<1>5. ASSUME NEW p \in Procs, Protect(p) PROVE SourceKept'
  BY <1>5 DEF Protect, Begin
<1>6. ASSUME NEW p \in Procs, ReadFile(p) PROVE SourceKept'
  BY <1>6 DEF ReadFile, Boundary, Awake
<1>7. ASSUME NEW p \in Procs, Compare(p) PROVE SourceKept'
  BY <1>7 DEF Compare, Source, Same
<1>8. ASSUME NEW p \in Procs, ReplaceSource(p) PROVE SourceKept'
  BY <1>8 DEF ReplaceSource, Superseded
<1>9. ASSUME NEW p \in Procs, LoseRace(p) PROVE SourceKept'
  BY <1>9 DEF LoseRace, Superseded, Source
<1>10. ASSUME NEW p \in Procs, Reinstall(p) PROVE SourceKept'
  BY <1>10 DEF Reinstall, Awake
<1>11. ASSUME NEW p \in Procs, Mark(p) PROVE SourceKept'
  <2>1. UNCHANGED <<source, kept>>
    BY <1>11 DEF Mark
  <2>2. CASE Bindable(p)
    <3>1. UNCHANGED seen /\ pc' = [pc EXCEPT ![p] = "bind"]
      BY <1>11, <2>2 DEF Mark
    <3> QED
      BY <2>1, <3>1
  <2>3. CASE ~Bindable(p)
    <3>1. Finish(p)
      BY <1>11, <2>3 DEF Mark, Deferred
    <3> QED
      BY <2>1, <3>1
  <2> QED
    BY <2>2, <2>3
<1>12. ASSUME NEW p \in Procs, Bind(p) PROVE SourceKept'
  <2>1. UNCHANGED <<source, kept>>
    BY <1>12 DEF Bind
  <2>2. seen' = seen \/ seen' = [seen EXCEPT ![p] = NoSource]
    BY <1>12 DEF Bind, Synced
  <2>3. pc' = [pc EXCEPT ![p] = "destroy"] \/ pc' = [pc EXCEPT ![p] = "free"]
    BY <1>12 DEF Bind, Synced
  <2> QED
    BY <2>1, <2>2, <2>3
<1>13. ASSUME NEW p \in Procs, Destroy(p) PROVE SourceKept'
  BY <1>13 DEF Destroy
<1>14. ASSUME NEW p \in Procs, Open(p) PROVE SourceKept'
  BY <1>14 DEF Open, Begin, Source
<1>15. ASSUME NEW p \in Procs, Admit(p) PROVE SourceKept'
  BY <1>15 DEF Admit
<1>16. ASSUME NEW p \in Procs, Install(p) PROVE SourceKept'
  BY <1>16 DEF Install, Awake
<1>17. ASSUME NEW p \in Procs, PublishOpen(p) PROVE SourceKept'
  BY <1>17 DEF PublishOpen
<1>18. ASSUME NEW p \in Procs, Fail(p) PROVE SourceKept'
  BY <1>18 DEF Fail, Boundary, Deferred
<1>19. ASSUME NEW p \in Procs, Crash(p) PROVE SourceKept'
  BY <1>19 DEF Crash
<1>20. ASSUME UNCHANGED vars PROVE SourceKept'
  BY <1>20 DEF vars
<1> QED
  BY <1>1, <1>2, <1>3, <1>4, <1>5, <1>6, <1>7, <1>8, <1>9, <1>10, <1>11, <1>12, <1>13,
       <1>14, <1>15, <1>16, <1>17, <1>18, <1>19, <1>20 DEF Next, Sync, Opening

\* Credentials are only added.
LEMMA LookStep == ASSUME TypeOK, LookPast, [Next]_vars PROVE LookPast'
<1> USE DEF Goto, Finish, Replace, NoneCurrent, StatusReplaced, NoLook, NoSource,
     sandbox, rows, locks, local, bounds, TypeOK, LookPast, Contents
<1>1. ASSUME Refresh PROVE LookPast'
  BY <1>1 DEF Refresh
<1>2. ASSUME Login PROVE LookPast'
  BY <1>2 DEF Login
<1>3. ASSUME NEW p \in Procs, Tick(p) PROVE LookPast'
  BY <1>3 DEF Tick, Begin
<1>4. ASSUME NEW p \in Procs, Close(p) PROVE LookPast'
  BY <1>4 DEF Close, Begin
<1>5. ASSUME NEW p \in Procs, Protect(p) PROVE LookPast'
  BY <1>5 DEF Protect, Begin
<1>6. ASSUME NEW p \in Procs, ReadFile(p) PROVE LookPast'
  BY <1>6 DEF ReadFile, Boundary, Awake
<1>7. ASSUME NEW p \in Procs, Compare(p) PROVE LookPast'
  BY <1>7 DEF Compare, Source, Same
<1>8. ASSUME NEW p \in Procs, ReplaceSource(p) PROVE LookPast'
  BY <1>8 DEF ReplaceSource, Superseded
<1>9. ASSUME NEW p \in Procs, LoseRace(p) PROVE LookPast'
  BY <1>9 DEF LoseRace, Superseded, Source
<1>10. ASSUME NEW p \in Procs, Reinstall(p) PROVE LookPast'
  BY <1>10 DEF Reinstall, Awake
<1>11. ASSUME NEW p \in Procs, Mark(p) PROVE LookPast'
  BY <1>11 DEF Mark, Deferred
<1>12. ASSUME NEW p \in Procs, Bind(p) PROVE LookPast'
  BY <1>12 DEF Bind, Synced, Boundary
<1>13. ASSUME NEW p \in Procs, Destroy(p) PROVE LookPast'
  BY <1>13 DEF Destroy
<1>14. ASSUME NEW p \in Procs, Open(p) PROVE LookPast'
  BY <1>14 DEF Open, Begin, Source
<1>15. ASSUME NEW p \in Procs, Admit(p) PROVE LookPast'
  BY <1>15 DEF Admit
<1>16. ASSUME NEW p \in Procs, Install(p) PROVE LookPast'
  BY <1>16 DEF Install, Awake
<1>17. ASSUME NEW p \in Procs, PublishOpen(p) PROVE LookPast'
  BY <1>17 DEF PublishOpen
<1>18. ASSUME NEW p \in Procs, Fail(p) PROVE LookPast'
  BY <1>18 DEF Fail, Boundary, Deferred
<1>19. ASSUME NEW p \in Procs, Crash(p) PROVE LookPast'
  BY <1>19 DEF Crash
<1>20. ASSUME UNCHANGED vars PROVE LookPast'
  BY <1>20 DEF vars
<1> QED
  BY <1>1, <1>2, <1>3, <1>4, <1>5, <1>6, <1>7, <1>8, <1>9, <1>10, <1>11, <1>12, <1>13,
       <1>14, <1>15, <1>16, <1>17, <1>18, <1>19, <1>20 DEF Next, Sync, Opening

\* A file that a process overwrites gets what the source has, or has had.
LEMMA FileStep ==
  ASSUME TypeOK, SourceKept, LookPast, FileKnown, [Next]_vars
  PROVE  FileKnown'
<1> USE DEF Goto, Finish, Replace, NoneCurrent, StatusReplaced, NoLook, NoSource,
     sandbox, rows, locks, local, bounds, TypeOK, SourceKept, LookPast, FileKnown,
     Preserved, Contents
<1>1. ASSUME Refresh PROVE FileKnown'
  BY <1>1 DEF Refresh
<1>2. ASSUME Login PROVE FileKnown'
  BY <1>2 DEF Login
<1>3. ASSUME NEW p \in Procs, Tick(p) PROVE FileKnown'
  BY <1>3 DEF Tick, Begin
<1>4. ASSUME NEW p \in Procs, Close(p) PROVE FileKnown'
  BY <1>4 DEF Close, Begin
<1>5. ASSUME NEW p \in Procs, Protect(p) PROVE FileKnown'
  BY <1>5 DEF Protect, Begin
<1>6. ASSUME NEW p \in Procs, ReadFile(p) PROVE FileKnown'
  BY <1>6 DEF ReadFile, Boundary, Awake
<1>7. ASSUME NEW p \in Procs, Compare(p) PROVE FileKnown'
  BY <1>7 DEF Compare, Source, Same
<1>8. ASSUME NEW p \in Procs, ReplaceSource(p) PROVE FileKnown'
  BY <1>8 DEF ReplaceSource, Superseded
<1>9. ASSUME NEW p \in Procs, LoseRace(p) PROVE FileKnown'
  BY <1>9 DEF LoseRace, Superseded, Source
<1>10. ASSUME NEW p \in Procs, Reinstall(p) PROVE FileKnown'
  BY <1>10 DEF Reinstall, Awake
<1>11. ASSUME NEW p \in Procs, Mark(p) PROVE FileKnown'
  BY <1>11 DEF Mark, Deferred
<1>12. ASSUME NEW p \in Procs, Bind(p) PROVE FileKnown'
  BY <1>12 DEF Bind, Synced, Boundary
<1>13. ASSUME NEW p \in Procs, Destroy(p) PROVE FileKnown'
  BY <1>13 DEF Destroy
<1>14. ASSUME NEW p \in Procs, Open(p) PROVE FileKnown'
  BY <1>14 DEF Open, Begin, Source
<1>15. ASSUME NEW p \in Procs, Admit(p) PROVE FileKnown'
  BY <1>15 DEF Admit
<1>16. ASSUME NEW p \in Procs, Install(p) PROVE FileKnown'
  BY <1>16 DEF Install, Awake
<1>17. ASSUME NEW p \in Procs, PublishOpen(p) PROVE FileKnown'
  <2>1. UNCHANGED <<file, kept>>
    BY <1>17 DEF PublishOpen
  <2>2. \A q \in Procs : \/ pc'[q] = pc[q] /\ look'[q] = look[q]
                        \/ pc'[q] \in {"free", "read"}
    BY <1>17 DEF PublishOpen
  <2> QED
    BY <2>1, <2>2
<1>18. ASSUME NEW p \in Procs, Fail(p) PROVE FileKnown'
  BY <1>18 DEF Fail, Boundary, Deferred
<1>19. ASSUME NEW p \in Procs, Crash(p) PROVE FileKnown'
  BY <1>19 DEF Crash
<1>20. ASSUME UNCHANGED vars PROVE FileKnown'
  BY <1>20 DEF vars
<1> QED
  BY <1>1, <1>2, <1>3, <1>4, <1>5, <1>6, <1>7, <1>8, <1>9, <1>10, <1>11, <1>12, <1>13,
       <1>14, <1>15, <1>16, <1>17, <1>18, <1>19, <1>20 DEF Next, Sync, Opening

\* Compared, stored or reinstalled: the content of the file is that of the source seen.
LEMMA MarkedStep ==
  ASSUME TypeOK, SourceKept, LookPast, MarkedKnown, [Next]_vars
  PROVE  MarkedKnown'
<1> USE DEF Goto, Finish, Replace, NoneCurrent, StatusReplaced, NoLook, NoSource,
     sandbox, rows, locks, local, bounds, TypeOK, SourceKept, LookPast, MarkedKnown, Contents
<1>1. ASSUME Refresh PROVE MarkedKnown'
  BY <1>1 DEF Refresh
<1>2. ASSUME Login PROVE MarkedKnown'
  BY <1>2 DEF Login
<1>3. ASSUME NEW p \in Procs, Tick(p) PROVE MarkedKnown'
  BY <1>3 DEF Tick, Begin
<1>4. ASSUME NEW p \in Procs, Close(p) PROVE MarkedKnown'
  BY <1>4 DEF Close, Begin
<1>5. ASSUME NEW p \in Procs, Protect(p) PROVE MarkedKnown'
  BY <1>5 DEF Protect, Begin
<1>6. ASSUME NEW p \in Procs, ReadFile(p) PROVE MarkedKnown'
  BY <1>6 DEF ReadFile, Boundary, Awake
<1>7. ASSUME NEW p \in Procs, Compare(p) PROVE MarkedKnown'
  BY <1>7 DEF Compare, Source, Same
<1>8. ASSUME NEW p \in Procs, ReplaceSource(p) PROVE MarkedKnown'
  BY <1>8 DEF ReplaceSource, Superseded
<1>9. ASSUME NEW p \in Procs, LoseRace(p) PROVE MarkedKnown'
  BY <1>9 DEF LoseRace, Superseded, Source
<1>10. ASSUME NEW p \in Procs, Reinstall(p) PROVE MarkedKnown'
  BY <1>10 DEF Reinstall, Awake
<1>11. ASSUME NEW p \in Procs, Mark(p) PROVE MarkedKnown'
  BY <1>11 DEF Mark, Deferred
<1>12. ASSUME NEW p \in Procs, Bind(p) PROVE MarkedKnown'
  BY <1>12 DEF Bind, Synced
<1>13. ASSUME NEW p \in Procs, Destroy(p) PROVE MarkedKnown'
  BY <1>13 DEF Destroy
<1>14. ASSUME NEW p \in Procs, Open(p) PROVE MarkedKnown'
  BY <1>14 DEF Open, Begin, Source
<1>15. ASSUME NEW p \in Procs, Admit(p) PROVE MarkedKnown'
  BY <1>15 DEF Admit
<1>16. ASSUME NEW p \in Procs, Install(p) PROVE MarkedKnown'
  BY <1>16 DEF Install, Awake
<1>17. ASSUME NEW p \in Procs, PublishOpen(p) PROVE MarkedKnown'
  BY <1>17 DEF PublishOpen
<1>18. ASSUME NEW p \in Procs, Fail(p) PROVE MarkedKnown'
  BY <1>18 DEF Fail, Boundary, Deferred
<1>19. ASSUME NEW p \in Procs, Crash(p) PROVE MarkedKnown'
  BY <1>19 DEF Crash
<1>20. ASSUME UNCHANGED vars PROVE MarkedKnown'
  BY <1>20 DEF vars
<1> QED
  BY <1>1, <1>2, <1>3, <1>4, <1>5, <1>6, <1>7, <1>8, <1>9, <1>10, <1>11, <1>12, <1>13,
       <1>14, <1>15, <1>16, <1>17, <1>18, <1>19, <1>20 DEF Next, Sync, Opening

-----------------------------------------------------------------------------
(* What follows.  One credential at least can be produced.                 *)

\* THE INVARIANT.  Every reachable state satisfies every conjunct.
THEOREM InductiveHolds == ASSUME MaxCreds \in Nat \ {0} PROVE Spec => []Inductive
<1>1. Init => Inductive
  <2> SUFFICES ASSUME Init PROVE Inductive
    OBVIOUS
  <2>1. TypeOK
    BY DEF Init, TypeOK, Contents, Syncing, NoLook, NoSource
  <2>2. SourceKept /\ LookPast /\ FileKnown /\ MarkedKnown
    BY DEF Init, SourceKept, LookPast, FileKnown, MarkedKnown, NoLook, NoSource
  <2> QED
    BY <2>1, <2>2 DEF Inductive
<1>2. Inductive /\ [Next]_vars => Inductive'
  BY TypeStep, KeptStep, LookStep, FileStep, MarkedStep DEF Inductive
<1> QED
  BY <1>1, <1>2, PTL DEF Spec

\* The file, the sources, the bindings and the jobs keep their types.
THEOREM TypeCorrect == ASSUME MaxCreds \in Nat \ {0} PROVE Spec => []TypeOK
<1>1. Inductive => TypeOK
  BY DEF Inductive
<1> QED
  BY InductiveHolds, <1>1, PTL

\* Whatever source is bound, the process that binds it has found its content in the
\* file or put it there (MarkedKnown), however many replicas replace sources beside it.
THEOREM BoundWasInstalled ==
  ASSUME MaxCreds \in Nat \ {0} PROVE Spec => BindsWhatWasInstalled
<1>1. Inductive /\ [Next]_vars =>
        [\A p \in Procs : Bind(p) => look[p].cred = seen[p].cred /\ seen[p].cred # 0]_vars
  BY DEF Inductive, MarkedKnown, Bind
<1> QED
  BY InductiveHolds, <1>1, PTL DEF Spec, BindsWhatWasInstalled

\* A pause empties a file whose content the source has had, or that is newer than
\* the look the pause has taken at it (FileKnown): no terminal of another replica,
\* and no lost race for the source, makes it drop anything else.
THEOREM PauseKeepsIt ==
  ASSUME MaxCreds \in Nat \ {0} PROVE Spec => PauseKeepsCredential
<1>1. Inductive /\ [Next]_vars =>
        [\A p \in Procs : Destroy(p) /\ job[p] = "pause" =>
           file \in kept \cup {0} \/ file > look[p].made]_vars
  BY DEF Inductive, FileKnown, Preserved, Destroy
<1> QED
  BY InductiveHolds, <1>1, PTL DEF Spec, PauseKeepsCredential
=============================================================================
