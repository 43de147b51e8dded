--------------------- MODULE EnvironmentLifecycleProofs ---------------------
(***************************************************************************)
(* The safety of EnvironmentLifecycle for any number of processes,         *)
(* Sandboxes, requests and failures.  Inductive is kept by every step, one *)
(* lemma per conjunct; the action properties and the refinement of the     *)
(* projection follow from it, each from the few steps that concern it.     *)
(***************************************************************************)
EXTENDS EnvironmentLifecycleInvariant, TLAPS

\* Every initial row, created or established, satisfies the invariant.
LEMMA InitInductive == Init => Inductive
<1> SUFFICES ASSUME Init PROVE Inductive
  OBVIOUS
<1> USE DEF Init
<1>1. TypeOK
  <2>1. /\ idleOn \in BOOLEAN /\ supervisor \in BOOLEAN /\ policy \in BOOLEAN
        /\ sent \in [Procs -> BOOLEAN]
    BY Zenon
  <2>2. /\ status \in {"updating", "ready", "error", "gone"}
        /\ desired \in {"running", "paused", "terminated"}
        /\ sandbox \in Sandboxes \cup {NoSandbox}
        /\ pause \in {"none", "idle", "quota", "manual"}
        /\ due \in {"none", "future", "past"}
    OBVIOUS
  <2>3. sb \in [Sandboxes -> {"absent", "running", "paused", "deleted"}]
    OBVIOUS
  <2>4. waker \in [Sandboxes -> Wakers] /\ pc \in [Procs -> Labels]
    BY DEF Wakers, Labels
  <2>5. /\ op \in [Procs -> ExclusiveOps \cup SharedOps \cup {"reprovision", "none"}]
        /\ rt \in [Procs -> Sandboxes \cup {NoSandbox}]
    OBVIOUS
  <2> QED
    BY <2>1, <2>2, <2>3, <2>4, <2>5 DEF TypeOK
<1>2. LockExclusion /\ SharedPlaces /\ GoneIsEmpty
  BY DEF LockExclusion, SharedPlaces, GoneIsEmpty
<1>3. Targeted /\ PastDeletion
  BY OpsAssumption DEF Targeted, TargetPlaces, PastDeletion
<1>4. Owned /\ PauseSettled
  BY OpsAssumption DEF Owned, PauseSettled
<1> QED
  BY <1>1, <1>2, <1>3, <1>4 DEF Inductive

-----------------------------------------------------------------------------
(* One lemma per conjunct.  A step of the proof takes the actions that may *)
(* disturb the conjunct one by one, and the others by section.             *)

\* Every step keeps the types; an abandoned call names a claimed Sandbox.
LEMMA TypeStep == ASSUME TypeOK, Targeted, [Next]_vars PROVE TypeOK'
<1> USE OpsAssumption DEF TypeOK, Labels, ExclusiveOps, SharedOps, Goto, Release, Finish,
      Faulty, row, cloud, locks, local, bounds
<1> DEFINE SentType == sent \in [Procs -> BOOLEAN]
<1> DEFINE FlagTypes == /\ idleOn \in BOOLEAN /\ supervisor \in BOOLEAN /\ policy \in BOOLEAN
                        /\ requests \in Nat /\ faults \in Nat
<1> DEFINE RowTypes == /\ status \in {"updating", "ready", "error", "gone"}
                       /\ desired \in {"running", "paused", "terminated"}
                       /\ sandbox \in Sandboxes \cup {NoSandbox}
                       /\ pause \in {"none", "idle", "quota", "manual"}
                       /\ due \in {"none", "future", "past"}
<1> DEFINE CloudTypes == /\ sb \in [Sandboxes -> {"absent", "running", "paused", "deleted"}]
                         /\ waker \in [Sandboxes -> Wakers]
                         /\ strays \subseteq ({"pause", "resume", "delete"} \X Sandboxes)
                         /\ terminals \subseteq Sandboxes
<1> DEFINE PlaceTypes ==
      /\ pc \in [Procs -> Labels]
      /\ op \in [Procs -> ExclusiveOps \cup SharedOps \cup {"reprovision", "none"}]
      /\ rt \in [Procs -> Sandboxes \cup {NoSandbox}]
      /\ lockX \in Procs \cup {NoProc} /\ lockS \subseteq Procs
\* Taking the lock, or not.
<1>1. ASSUME NEW p \in Procs, AcquireX(p) PROVE TypeOK'
  BY <1>1 DEF AcquireX
<1>2. ASSUME NEW p \in Procs, AcquireS(p) PROVE TypeOK'
  BY <1>2 DEF AcquireS
<1>3. ASSUME NEW p \in Procs, GiveUp(p) PROVE TypeOK'
  BY <1>3 DEF GiveUp
<1>4. ASSUME NEW p \in Procs, NEW o \in UserOps \cup Background, Start(p, o) PROVE TypeOK'
  BY <1>4 DEF Start, UserOps, Background
\* Pausing.
<1>5. ASSUME NEW p \in Procs, PreparePause(p) PROVE TypeOK'
  BY <1>5 DEF PreparePause
<1>6. ASSUME NEW p \in Procs, CheckReady(p) \/ SkipPause(p) PROVE TypeOK'
  <2>1. CASE CheckReady(p)
    BY <2>1 DEF CheckReady
  <2>2. CASE SkipPause(p)
    BY <2>2 DEF SkipPause
  <2> QED
    BY <1>6, <2>1, <2>2
<1>7. ASSUME NEW p \in Procs, BeforePause(p) PROVE TypeOK'
  BY <1>7 DEF BeforePause, Wake, By, Wakers
<1>8. ASSUME NEW p \in Procs, BeforePauseFails(p) PROVE TypeOK'
  BY <1>8 DEF BeforePauseFails, Wake, By, Wakers
<1>9. ASSUME NEW p \in Procs, PauseSeen(p) PROVE TypeOK'
  BY <1>9 DEF PauseSeen
<1>10. ASSUME NEW p \in Procs, SendPause(p) PROVE TypeOK'
  <2>1. SentType'
    BY <1>10, Zenon DEF SendPause
  <2>2. FlagTypes'
    BY <1>10 DEF SendPause
  <2>3. RowTypes'
    BY <1>10 DEF SendPause
  <2>4. CloudTypes'
    BY <1>10 DEF SendPause
  <2>5. PlaceTypes'
    BY <1>10 DEF SendPause
  <2> QED
    BY <2>1, <2>2, <2>3, <2>4, <2>5
<1>11. ASSUME NEW p \in Procs, PauseLands(p) PROVE TypeOK'
  <2>1. SentType'
    BY <1>11, Zenon DEF PauseLands
  <2>2. FlagTypes'
    BY <1>11 DEF PauseLands
  <2>3. RowTypes'
    BY <1>11 DEF PauseLands
  <2>4. CloudTypes'
    BY <1>11 DEF PauseLands
  <2>5. PlaceTypes'
    BY <1>11 DEF PauseLands
  <2> QED
    BY <2>1, <2>2, <2>3, <2>4, <2>5
<1>12. ASSUME NEW p \in Procs, RecordPaused(p) PROVE TypeOK'
  <2>1. SentType'
    BY <1>12, Zenon DEF RecordPaused, Reason, LastReason
  <2>2. FlagTypes'
    BY <1>12 DEF RecordPaused, Reason, LastReason
  <2>3. RowTypes'
    BY <1>12 DEF RecordPaused, Reason, LastReason
  <2>4. CloudTypes'
    BY <1>12 DEF RecordPaused, Reason, LastReason
  <2>5. PlaceTypes'
    BY <1>12 DEF RecordPaused, Reason, LastReason
  <2> QED
    BY <2>1, <2>2, <2>3, <2>4, <2>5
\* Resuming.
<1>13. ASSUME NEW p \in Procs, ResumeLands(p) PROVE TypeOK'
  BY <1>13 DEF ResumeLands, Wake, By, Wakers
<1>14. ASSUME NEW p \in Procs, ResumeSeen(p) PROVE TypeOK'
  BY <1>14 DEF ResumeSeen
<1>15. ASSUME NEW p \in Procs, WaitTimesOut(p) PROVE TypeOK'
  BY <1>15 DEF WaitTimesOut
<1>16. ASSUME NEW p \in Procs, RecordFailure(p) PROVE TypeOK'
  BY <1>16 DEF RecordFailure
<1>17. ASSUME NEW p \in Procs, SendResume(p) PROVE TypeOK'
  <2>1. SentType'
    BY <1>17, Zenon DEF SendResume
  <2>2. FlagTypes'
    BY <1>17 DEF SendResume
  <2>3. RowTypes'
    BY <1>17 DEF SendResume
  <2>4. CloudTypes'
    BY <1>17 DEF SendResume
  <2>5. PlaceTypes'
    BY <1>17 DEF SendResume
  <2> QED
    BY <2>1, <2>2, <2>3, <2>4, <2>5
<1>18. ASSUME NEW p \in Procs, RecordAccess(p) PROVE TypeOK'
  BY <1>18 DEF RecordAccess, Window
<1>19. ASSUME NEW p \in Procs, CallFails(p) PROVE TypeOK'
  <2>1. SentType'
    BY <1>19, Zenon DEF CallFails
  <2>2. FlagTypes'
    BY <1>19 DEF CallFails
  <2>3. RowTypes'
    BY <1>19 DEF CallFails
  <2>4. CloudTypes'
    BY <1>19 DEF CallFails, Targeted, TargetPlaces
  <2>5. PlaceTypes'
    BY <1>19 DEF CallFails
  <2> QED
    BY <2>1, <2>2, <2>3, <2>4, <2>5
<1>20. ASSUME NEW p \in Procs, SandboxMissing(p) PROVE TypeOK'
  <2>1. SentType'
    BY <1>20, Zenon DEF SandboxMissing
  <2>2. FlagTypes'
    BY <1>20 DEF SandboxMissing
  <2>3. RowTypes'
    BY <1>20 DEF SandboxMissing
  <2>4. CloudTypes'
    BY <1>20 DEF SandboxMissing
  <2>5. PlaceTypes'
    BY <1>20 DEF SandboxMissing
  <2> QED
    BY <2>1, <2>2, <2>3, <2>4, <2>5
\* Retiring, policy, settings.
<1>21. ASSUME NEW p \in Procs, StopSupervisor(p) PROVE TypeOK'
  BY <1>21 DEF StopSupervisor, Wake, By, Wakers
<1>22. ASSUME NEW p \in Procs, StopSupervisorFails(p) PROVE TypeOK'
  BY <1>22 DEF StopSupervisorFails, Wake, By, Wakers
<1>23. ASSUME NEW p \in Procs, RecordRetired(p) PROVE TypeOK'
  BY <1>23 DEF RecordRetired
<1>24. ASSUME NEW p \in Procs, RecordPolicy(p) PROVE TypeOK'
  BY <1>24 DEF RecordPolicy
<1>25. ASSUME NEW p \in Procs, Update(p) PROVE TypeOK'
  BY <1>25 DEF Update
<1>26. ASSUME NEW p \in Procs, PrepareRetire(p) PROVE TypeOK'
  <2>1. SentType'
    BY <1>26, Zenon DEF PrepareRetire
  <2>2. FlagTypes'
    BY <1>26 DEF PrepareRetire
  <2>3. RowTypes'
    BY <1>26 DEF PrepareRetire
  <2>4. CloudTypes'
    BY <1>26 DEF PrepareRetire
  <2>5. PlaceTypes'
    BY <1>26 DEF PrepareRetire
  <2> QED
    BY <2>1, <2>2, <2>3, <2>4, <2>5
<1>27. ASSUME NEW p \in Procs, ApplyPolicy(p) PROVE TypeOK'
  <2>1. SentType'
    BY <1>27, Zenon DEF ApplyPolicy
  <2>2. FlagTypes'
    BY <1>27 DEF ApplyPolicy
  <2>3. RowTypes'
    BY <1>27 DEF ApplyPolicy
  <2>4. CloudTypes'
    BY <1>27 DEF ApplyPolicy
  <2>5. PlaceTypes'
    BY <1>27 DEF ApplyPolicy
  <2> QED
    BY <2>1, <2>2, <2>3, <2>4, <2>5
\* Access and repair.
<1>28. ASSUME NEW p \in Procs, Operate(p) PROVE TypeOK'
  BY <1>28 DEF Operate, Wake, By, Wakers
<1>29. ASSUME NEW p \in Procs, OperateFails(p) PROVE TypeOK'
  BY <1>29 DEF OperateFails, Wake, By, Wakers
<1>30. ASSUME NEW p \in Procs, OperateNeedsRepair(p) PROVE TypeOK'
  BY <1>30 DEF OperateNeedsRepair, Wake, By, Wakers
<1>31. ASSUME NEW p \in Procs, RepairByAccess(p) PROVE TypeOK'
  BY <1>31 DEF RepairByAccess, Wake, By, Wakers
<1>32. ASSUME NEW p \in Procs, RepairPauses(p) PROVE TypeOK'
  BY <1>32 DEF RepairPauses
<1>33. ASSUME NEW p \in Procs, RepairFails(p) PROVE TypeOK'
  BY <1>33 DEF RepairFails
<1>34. ASSUME NEW p \in Procs, Admit(p) PROVE TypeOK'
  <2>1. SentType'
    BY <1>34, Zenon DEF Admit
  <2>2. FlagTypes'
    BY <1>34 DEF Admit
  <2>3. RowTypes'
    BY <1>34 DEF Admit
  <2>4. CloudTypes'
    BY <1>34 DEF Admit
  <2>5. PlaceTypes'
    BY <1>34 DEF Admit
  <2> QED
    BY <2>1, <2>2, <2>3, <2>4, <2>5
\* Provisioning.
<1>35. ASSUME NEW p \in Procs, ClaimFails(p) PROVE TypeOK'
  BY <1>35 DEF ClaimFails
<1>36. ASSUME NEW p \in Procs, Publish(p) PROVE TypeOK'
  BY <1>36 DEF Publish
<1>37. ASSUME NEW p \in Procs, Await(p) PROVE TypeOK'
  BY <1>37 DEF Await
<1>38. ASSUME NEW p \in Procs, Cleanup(p) PROVE TypeOK'
  BY <1>38 DEF Cleanup
<1>39. ASSUME NEW p \in Procs, MarkFailed(p) PROVE TypeOK'
  BY <1>39 DEF MarkFailed
<1>40. ASSUME NEW p \in Procs, MarkUpdating(p) PROVE TypeOK'
  BY <1>40 DEF MarkUpdating
<1>41. ASSUME NEW p \in Procs, MarkProvisioning(p) PROVE TypeOK'
  BY <1>41 DEF MarkProvisioning
<1>42. ASSUME NEW p \in Procs, CheckProvision(p) PROVE TypeOK'
  <2>1. SentType'
    BY <1>42, Zenon DEF CheckProvision
  <2>2. FlagTypes'
    BY <1>42 DEF CheckProvision
  <2>3. RowTypes'
    BY <1>42 DEF CheckProvision
  <2>4. CloudTypes'
    BY <1>42 DEF CheckProvision
  <2>5. PlaceTypes'
    BY <1>42 DEF CheckProvision
  <2> QED
    BY <2>1, <2>2, <2>3, <2>4, <2>5
<1>43. ASSUME NEW p \in Procs, NEW s \in Sandboxes, Claim(p, s) PROVE TypeOK'
  BY <1>43 DEF Claim
<1>44. ASSUME NEW p \in Procs, MarkReady(p) PROVE TypeOK'
  BY <1>44 DEF MarkReady, Window
<1>45. ASSUME NEW p \in Procs, ClearAllocation(p) PROVE TypeOK'
  <2>1. SentType'
    BY <1>45, Zenon DEF ClearAllocation
  <2>2. FlagTypes'
    BY <1>45 DEF ClearAllocation
  <2>3. RowTypes'
    BY <1>45 DEF ClearAllocation
  <2>4. CloudTypes'
    BY <1>45 DEF ClearAllocation
  <2>5. PlaceTypes'
    BY <1>45 DEF ClearAllocation
  <2> QED
    BY <2>1, <2>2, <2>3, <2>4, <2>5
\* Deleting.
<1>46. ASSUME NEW p \in Procs, PrepareDelete(p) PROVE TypeOK'
  BY <1>46 DEF PrepareDelete
<1>47. ASSUME NEW p \in Procs, CheckDelete(p) \/ RefuseDelete(p) PROVE TypeOK'
  <2>1. CASE CheckDelete(p)
    BY <2>1 DEF CheckDelete
  <2>2. CASE RefuseDelete(p)
    BY <2>2 DEF RefuseDelete
  <2> QED
    BY <1>47, <2>1, <2>2
<1>48. ASSUME NEW p \in Procs, BeforeDelete(p) PROVE TypeOK'
  BY <1>48 DEF BeforeDelete
<1>49. ASSUME NEW p \in Procs, BeforeDeleteFails(p) PROVE TypeOK'
  BY <1>49 DEF BeforeDeleteFails
<1>50. ASSUME NEW p \in Procs, DeleteSandbox(p) PROVE TypeOK'
  BY <1>50 DEF DeleteSandbox
<1>51. ASSUME NEW p \in Procs, DeleteSandboxFails(p) PROVE TypeOK'
  BY <1>51 DEF DeleteSandboxFails
<1>52. ASSUME NEW p \in Procs, AfterDelete(p) PROVE TypeOK'
  BY <1>52 DEF AfterDelete
<1>53. ASSUME NEW p \in Procs, DeleteMetadata(p) PROVE TypeOK'
  BY <1>53 DEF DeleteMetadata
<1>54. ASSUME NEW p \in Procs, RecordDeleteFailure(p) PROVE TypeOK'
  BY <1>54 DEF RecordDeleteFailure
\* Failures of a process.
<1>55. ASSUME NEW p \in Procs, LoseConnection(p) PROVE TypeOK'
  BY <1>55 DEF LoseConnection
<1>56. ASSUME NEW p \in Procs, Crash(p) PROVE TypeOK'
  <2>1. SentType'
    BY <1>56, Zenon DEF Crash, Abandoned
  <2>2. FlagTypes'
    BY <1>56 DEF Crash, Abandoned
  <2>3. RowTypes'
    BY <1>56 DEF Crash, Abandoned
  <2>4. CloudTypes'
    BY <1>56 DEF Crash, Abandoned, Targeted, TargetPlaces
  <2>5. PlaceTypes'
    BY <1>56 DEF Crash, Abandoned
  <2> QED
    BY <2>1, <2>2, <2>3, <2>4, <2>5
<1>57. ASSUME NEW p \in Procs, Abort(p) PROVE TypeOK'
  <2>1. SentType'
    BY <1>57, Zenon DEF Abort
  <2>2. FlagTypes'
    BY <1>57 DEF Abort
  <2>3. RowTypes'
    BY <1>57 DEF Abort
  <2>4. CloudTypes'
    BY <1>57 DEF Abort
  <2>5. PlaceTypes'
    BY <1>57 DEF Abort
  <2> QED
    BY <2>1, <2>2, <2>3, <2>4, <2>5
\* The environment.
<1>58. ASSUME DeadlinePasses PROVE TypeOK'
  BY <1>58 DEF DeadlinePasses
<1>59. ASSUME Touch PROVE TypeOK'
  BY <1>59 DEF Touch, Window
<1>60. ASSUME NEW s \in Sandboxes, SyncCredentials(s) PROVE TypeOK'
  BY <1>60 DEF SyncCredentials, Wake, By, Wakers
<1>61. ASSUME NEW s \in Sandboxes, CloseTerminal(s) PROVE TypeOK'
  BY <1>61 DEF CloseTerminal, Wakers
<1>62. ASSUME NEW k \in {"pause", "resume", "delete"}, NEW s \in Sandboxes, StrayLands(k, s)
       PROVE  TypeOK'
  BY <1>62 DEF StrayLands, Wakers
<1>63. ASSUME UNCHANGED vars PROVE TypeOK'
  BY <1>63 DEF vars
<1> QED
   BY <1>1, <1>2, <1>3, <1>4, <1>5, <1>6, <1>7, <1>8, <1>9, <1>10, <1>11, <1>12, <1>13,
        <1>14, <1>15, <1>16, <1>17, <1>18, <1>19, <1>20, <1>21, <1>22, <1>23, <1>24, <1>25,
        <1>26, <1>27, <1>28, <1>29, <1>30, <1>31, <1>32, <1>33, <1>34, <1>35, <1>36, <1>37,
        <1>38, <1>39, <1>40, <1>41, <1>42, <1>43, <1>44, <1>45, <1>46, <1>47, <1>48, <1>49,
        <1>50, <1>51, <1>52, <1>53, <1>54, <1>55, <1>56, <1>57, <1>58, <1>59, <1>60, <1>61,
        <1>62, <1>63 DEF Next, Work, Fail, Environment

\* A copy that named a Sandbox keeps doing so until its process is done with it.
LEMMA TargetedStep == ASSUME TypeOK, Targeted, [Next]_vars PROVE Targeted'
<1> USE OpsAssumption DEF TypeOK, Targeted, TargetPlaces, Goto, Release, Finish, Faulty,
      row, cloud, locks, local, bounds
\* Taking the lock, or not.
<1>1. ASSUME NEW p \in Procs,
             \/ AcquireX(p) \/ AcquireS(p) \/ GiveUp(p)
      PROVE  Targeted'
  BY <1>1 DEF AcquireX, AcquireS, GiveUp
<1>2. ASSUME NEW p \in Procs, NEW o \in UserOps \cup Background, Start(p, o) PROVE Targeted'
  BY <1>2 DEF Start
\* Pausing.
<1>3. ASSUME NEW p \in Procs,
             \/ CheckReady(p) \/ SkipPause(p) \/ BeforePause(p) \/ BeforePauseFails(p)
             \/ SendPause(p)
             \/ PauseLands(p) \/ PauseSeen(p) \/ RecordPaused(p)
      PROVE  Targeted'
   BY <1>3 DEF CheckReady, SkipPause, BeforePause, Wake, BeforePauseFails, SendPause,
        PauseLands,
        PauseSeen, RecordPaused
<1>4. ASSUME NEW p \in Procs, PreparePause(p) PROVE Targeted'
  BY <1>4 DEF PreparePause, MayPause, WantsIdlePause
\* Resuming.
<1>5. ASSUME NEW p \in Procs,
             \/ SendResume(p) \/ ResumeLands(p) \/ ResumeSeen(p) \/ RecordAccess(p)
             \/ CallFails(p) \/ WaitTimesOut(p) \/ SandboxMissing(p) \/ RecordFailure(p)
      PROVE  Targeted'
   BY <1>5 DEF SendResume, ResumeLands, Wake, ResumeSeen, RecordAccess, CallFails,
        WaitTimesOut, SandboxMissing, RecordFailure
\* Retiring, policy, settings.
<1>6. ASSUME NEW p \in Procs,
             \/ StopSupervisor(p) \/ StopSupervisorFails(p) \/ RecordRetired(p)
             \/ RecordPolicy(p) \/ Update(p)
      PROVE  Targeted'
  BY <1>6 DEF StopSupervisor, Wake, StopSupervisorFails, RecordRetired, RecordPolicy, Update
<1>7. ASSUME NEW p \in Procs, PrepareRetire(p) PROVE Targeted'
  BY <1>7 DEF PrepareRetire
<1>8. ASSUME NEW p \in Procs, ApplyPolicy(p) PROVE Targeted'
  BY <1>8 DEF ApplyPolicy
\* Access and repair.
<1>9. ASSUME NEW p \in Procs,
             \/ Operate(p) \/ OperateFails(p) \/ OperateNeedsRepair(p) \/ RepairByAccess(p)
             \/ RepairPauses(p) \/ RepairFails(p)
      PROVE  Targeted'
   BY <1>9 DEF Operate, Wake, OperateFails, OperateNeedsRepair, RepairByAccess,
        RepairPauses, RepairFails
<1>10. ASSUME NEW p \in Procs, Admit(p) PROVE Targeted'
  BY <1>10 DEF Admit, Accessible
\* Provisioning.
<1>11. ASSUME NEW p \in Procs,
              \/ ClaimFails(p) \/ Await(p) \/ Cleanup(p) \/ ClearAllocation(p)
              \/ MarkFailed(p) \/ MarkUpdating(p) \/ MarkProvisioning(p)
       PROVE  Targeted'
   BY <1>11 DEF ClaimFails, Await, Cleanup, ClearAllocation, MarkFailed, MarkUpdating,
        MarkProvisioning
<1>12. ASSUME NEW p \in Procs, CheckProvision(p) PROVE Targeted'
  BY <1>12 DEF CheckProvision, NeedsSandbox
<1>13. ASSUME NEW p \in Procs, NEW s \in Sandboxes, Claim(p, s) PROVE Targeted'
  BY <1>13 DEF Claim
<1>14. ASSUME NEW p \in Procs, Publish(p) PROVE Targeted'
  BY <1>14 DEF Publish
<1>15. ASSUME NEW p \in Procs, MarkReady(p) PROVE Targeted'
  BY <1>15 DEF MarkReady
\* Deleting.
<1>16. ASSUME NEW p \in Procs,
              \/ PrepareDelete(p) \/ CheckDelete(p) \/ RefuseDelete(p) \/ BeforeDelete(p)
              \/ BeforeDeleteFails(p) \/ DeleteSandbox(p) \/ DeleteSandboxFails(p)
              \/ AfterDelete(p) \/ DeleteMetadata(p)
       PROVE  Targeted'
   BY <1>16 DEF PrepareDelete, CheckDelete, RefuseDelete, BeforeDelete, BeforeDeleteFails,
        DeleteSandbox,
        DeleteSandboxFails, AfterDelete, DeleteMetadata
<1>17. ASSUME NEW p \in Procs, RecordDeleteFailure(p) PROVE Targeted'
  BY <1>17 DEF RecordDeleteFailure
\* Failures of a process.
<1>18. ASSUME NEW p \in Procs,
              \/ LoseConnection(p) \/ Abort(p)
       PROVE  Targeted'
  BY <1>18 DEF LoseConnection, Abort
<1>19. ASSUME NEW p \in Procs, Crash(p) PROVE Targeted'
  BY <1>19 DEF Crash
\* The environment.
<1>20. ASSUME DeadlinePasses PROVE Targeted'
  BY <1>20 DEF DeadlinePasses
<1>21. ASSUME Touch PROVE Targeted'
  BY <1>21 DEF Touch
<1>22. ASSUME NEW s \in Sandboxes, SyncCredentials(s) PROVE Targeted'
  BY <1>22 DEF SyncCredentials, Wake
<1>23. ASSUME NEW s \in Sandboxes, CloseTerminal(s) PROVE Targeted'
  BY <1>23 DEF CloseTerminal
<1>24. ASSUME NEW k \in {"pause", "resume", "delete"}, NEW s \in Sandboxes, StrayLands(k, s)
       PROVE  Targeted'
  BY <1>24 DEF StrayLands
<1>25. ASSUME UNCHANGED vars PROVE Targeted'
  BY <1>25 DEF vars
<1> QED
   BY <1>1, <1>2, <1>3, <1>4, <1>5, <1>6, <1>7, <1>8, <1>9, <1>10, <1>11, <1>12, <1>13,
        <1>14, <1>15, <1>16, <1>17, <1>18, <1>19, <1>20, <1>21, <1>22, <1>23, <1>24, <1>25
        DEF Next, Work, Fail, Environment

\* No step lets a second holder in beside an exclusive one.
LEMMA LockStep == ASSUME LockExclusion, [Next]_vars PROVE LockExclusion'
<1> USE DEF LockExclusion, Goto, Release, Finish, Faulty, row, cloud, locks, local, bounds
\* Taking the lock, or not.
<1>1. ASSUME NEW p \in Procs, GiveUp(p) PROVE LockExclusion'
  BY <1>1 DEF GiveUp
<1>2. ASSUME NEW p \in Procs, AcquireX(p) PROVE LockExclusion'
  BY <1>2 DEF AcquireX, ExclusiveFree
<1>3. ASSUME NEW p \in Procs, AcquireS(p) PROVE LockExclusion'
  BY <1>3 DEF AcquireS, SharedFree
<1>4. ASSUME NEW p \in Procs, NEW o \in UserOps \cup Background, Start(p, o)
      PROVE  LockExclusion'
  BY <1>4 DEF Start
\* Pausing.
<1>5. ASSUME NEW p \in Procs,
             \/ PreparePause(p) \/ CheckReady(p) \/ SkipPause(p) \/ BeforePause(p)
             \/ BeforePauseFails(p)
             \/ SendPause(p) \/ PauseLands(p) \/ PauseSeen(p) \/ RecordPaused(p)
      PROVE  LockExclusion'
   BY <1>5 DEF PreparePause, CheckReady, SkipPause, BeforePause, Wake, BeforePauseFails,
        SendPause,
        PauseLands, PauseSeen, RecordPaused
\* Resuming.
<1>6. ASSUME NEW p \in Procs,
             \/ SendResume(p) \/ ResumeLands(p) \/ ResumeSeen(p) \/ RecordAccess(p)
             \/ CallFails(p) \/ WaitTimesOut(p) \/ SandboxMissing(p) \/ RecordFailure(p)
      PROVE  LockExclusion'
   BY <1>6 DEF SendResume, ResumeLands, Wake, ResumeSeen, RecordAccess, CallFails,
        WaitTimesOut, SandboxMissing, RecordFailure
\* Retiring, policy, settings.
<1>7. ASSUME NEW p \in Procs,
             \/ PrepareRetire(p) \/ StopSupervisor(p) \/ StopSupervisorFails(p)
             \/ RecordRetired(p) \/ ApplyPolicy(p) \/ RecordPolicy(p) \/ Update(p)
      PROVE  LockExclusion'
   BY <1>7 DEF PrepareRetire, StopSupervisor, Wake, StopSupervisorFails, RecordRetired,
        ApplyPolicy, RecordPolicy, Update
\* Access and repair.
<1>8. ASSUME NEW p \in Procs,
             \/ Admit(p) \/ Operate(p) \/ OperateFails(p) \/ OperateNeedsRepair(p)
             \/ RepairByAccess(p) \/ RepairPauses(p) \/ RepairFails(p)
      PROVE  LockExclusion'
   BY <1>8 DEF Admit, Operate, Wake, OperateFails, OperateNeedsRepair, RepairByAccess,
        RepairPauses, RepairFails
\* Provisioning.
<1>9. ASSUME NEW p \in Procs,
             \/ CheckProvision(p) \/ ClaimFails(p) \/ Publish(p) \/ Await(p) \/ MarkReady(p)
             \/ Cleanup(p) \/ ClearAllocation(p) \/ MarkFailed(p)
      PROVE  LockExclusion'
   BY <1>9 DEF CheckProvision, ClaimFails, Publish, Await, MarkReady, Cleanup,
        ClearAllocation, MarkFailed
<1>10. ASSUME NEW p \in Procs,
              \/ MarkUpdating(p) \/ MarkProvisioning(p)
       PROVE  LockExclusion'
  BY <1>10 DEF MarkUpdating, MarkProvisioning
<1>11. ASSUME NEW p \in Procs, NEW s \in Sandboxes, Claim(p, s) PROVE LockExclusion'
  BY <1>11 DEF Claim
\* Deleting.
<1>12. ASSUME NEW p \in Procs,
              \/ PrepareDelete(p) \/ CheckDelete(p) \/ RefuseDelete(p) \/ BeforeDelete(p)
              \/ BeforeDeleteFails(p) \/ DeleteSandbox(p) \/ DeleteSandboxFails(p)
              \/ AfterDelete(p) \/ DeleteMetadata(p)
       PROVE  LockExclusion'
   BY <1>12 DEF PrepareDelete, CheckDelete, RefuseDelete, BeforeDelete, BeforeDeleteFails,
        DeleteSandbox,
        DeleteSandboxFails, AfterDelete, DeleteMetadata
<1>13. ASSUME NEW p \in Procs, RecordDeleteFailure(p) PROVE LockExclusion'
  BY <1>13 DEF RecordDeleteFailure
\* Failures of a process.
<1>14. ASSUME NEW p \in Procs,
              \/ Crash(p) \/ LoseConnection(p) \/ Abort(p)
       PROVE  LockExclusion'
  BY <1>14 DEF Crash, LoseConnection, Abort
\* The environment.
<1>15. ASSUME DeadlinePasses PROVE LockExclusion'
  BY <1>15 DEF DeadlinePasses
<1>16. ASSUME Touch PROVE LockExclusion'
  BY <1>16 DEF Touch
<1>17. ASSUME NEW s \in Sandboxes, SyncCredentials(s) PROVE LockExclusion'
  BY <1>17 DEF SyncCredentials, Wake
<1>18. ASSUME NEW s \in Sandboxes, CloseTerminal(s) PROVE LockExclusion'
  BY <1>18 DEF CloseTerminal
<1>19. ASSUME NEW k \in {"pause", "resume", "delete"}, NEW s \in Sandboxes, StrayLands(k, s)
       PROVE  LockExclusion'
  BY <1>19 DEF StrayLands
<1>20. ASSUME UNCHANGED vars PROVE LockExclusion'
  BY <1>20 DEF vars
<1> QED
   BY <1>1, <1>2, <1>3, <1>4, <1>5, <1>6, <1>7, <1>8, <1>9, <1>10, <1>11, <1>12, <1>13,
        <1>14, <1>15, <1>16, <1>17, <1>18, <1>19, <1>20 DEF Next, Work, Fail, Environment

\* Only admitted accesses are among the shared holders.
LEMMA SharedStep == ASSUME TypeOK, SharedPlaces, [Next]_vars PROVE SharedPlaces'
<1> USE DEF TypeOK, SharedPlaces, SharedOps, ExclusiveOps, UserOps, Background, Holds, Goto,
      Release, Finish, Faulty, row, cloud, locks, local, bounds
\* Taking the lock, or not.
<1>1. ASSUME NEW p \in Procs, GiveUp(p) PROVE SharedPlaces'
  BY <1>1 DEF GiveUp
<1>2. ASSUME NEW p \in Procs, AcquireX(p) PROVE SharedPlaces'
  BY <1>2 DEF AcquireX
<1>3. ASSUME NEW p \in Procs, AcquireS(p) PROVE SharedPlaces'
  BY <1>3 DEF AcquireS
<1>4. ASSUME NEW p \in Procs, NEW o \in UserOps \cup Background, Start(p, o) PROVE SharedPlaces'
  BY <1>4 DEF Start
\* Pausing.
<1>5. ASSUME NEW p \in Procs,
             \/ PreparePause(p) \/ CheckReady(p) \/ SkipPause(p) \/ BeforePause(p)
             \/ BeforePauseFails(p)
             \/ SendPause(p) \/ PauseLands(p) \/ PauseSeen(p) \/ RecordPaused(p)
      PROVE  SharedPlaces'
   BY <1>5 DEF PreparePause, CheckReady, SkipPause, BeforePause, Wake, BeforePauseFails,
        SendPause,
        PauseLands, PauseSeen, RecordPaused
\* Resuming.
<1>6. ASSUME NEW p \in Procs,
             \/ SendResume(p) \/ ResumeLands(p) \/ ResumeSeen(p) \/ RecordAccess(p)
             \/ CallFails(p) \/ WaitTimesOut(p) \/ SandboxMissing(p) \/ RecordFailure(p)
      PROVE  SharedPlaces'
   BY <1>6 DEF SendResume, ResumeLands, Wake, ResumeSeen, RecordAccess, CallFails,
        WaitTimesOut, SandboxMissing, RecordFailure
\* Retiring, policy, settings.
<1>7. ASSUME NEW p \in Procs,
             \/ PrepareRetire(p) \/ StopSupervisor(p) \/ StopSupervisorFails(p)
             \/ RecordRetired(p) \/ ApplyPolicy(p) \/ RecordPolicy(p) \/ Update(p)
      PROVE  SharedPlaces'
   BY <1>7 DEF PrepareRetire, StopSupervisor, Wake, StopSupervisorFails, RecordRetired,
        ApplyPolicy, RecordPolicy, Update
\* Access and repair.
<1>8. ASSUME NEW p \in Procs,
             \/ OperateFails(p) \/ RepairByAccess(p) \/ RepairPauses(p) \/ RepairFails(p)
      PROVE  SharedPlaces'
  BY <1>8 DEF OperateFails, Wake, RepairByAccess, RepairPauses, RepairFails
<1>9. ASSUME NEW p \in Procs, Admit(p) PROVE SharedPlaces'
  BY <1>9 DEF Admit
<1>10. ASSUME NEW p \in Procs, Operate(p) PROVE SharedPlaces'
  BY <1>10 DEF Operate, Wake
<1>11. ASSUME NEW p \in Procs, OperateNeedsRepair(p) PROVE SharedPlaces'
  BY <1>11 DEF OperateNeedsRepair, Wake
\* Provisioning.
<1>12. ASSUME NEW p \in Procs,
              \/ CheckProvision(p) \/ ClaimFails(p) \/ Publish(p) \/ Await(p)
              \/ MarkReady(p)
              \/ Cleanup(p) \/ ClearAllocation(p) \/ MarkFailed(p)
       PROVE  SharedPlaces'
   BY <1>12 DEF CheckProvision, ClaimFails, Publish, Await, MarkReady, Cleanup,
        ClearAllocation, MarkFailed
<1>13. ASSUME NEW p \in Procs,
              \/ MarkUpdating(p) \/ MarkProvisioning(p)
       PROVE  SharedPlaces'
  BY <1>13 DEF MarkUpdating, MarkProvisioning
<1>14. ASSUME NEW p \in Procs, NEW s \in Sandboxes, Claim(p, s) PROVE SharedPlaces'
  BY <1>14 DEF Claim
\* Deleting.
<1>15. ASSUME NEW p \in Procs,
              \/ PrepareDelete(p) \/ CheckDelete(p) \/ RefuseDelete(p) \/ BeforeDelete(p)
              \/ BeforeDeleteFails(p) \/ DeleteSandbox(p) \/ DeleteSandboxFails(p)
              \/ AfterDelete(p) \/ DeleteMetadata(p)
       PROVE  SharedPlaces'
   BY <1>15 DEF PrepareDelete, CheckDelete, RefuseDelete, BeforeDelete, BeforeDeleteFails,
        DeleteSandbox,
        DeleteSandboxFails, AfterDelete, DeleteMetadata
<1>16. ASSUME NEW p \in Procs, RecordDeleteFailure(p) PROVE SharedPlaces'
  BY <1>16 DEF RecordDeleteFailure
\* Failures of a process.
<1>17. ASSUME NEW p \in Procs,
              \/ Crash(p) \/ LoseConnection(p) \/ Abort(p)
       PROVE  SharedPlaces'
  BY <1>17 DEF Crash, LoseConnection, Abort
\* The environment.
<1>18. ASSUME DeadlinePasses PROVE SharedPlaces'
  BY <1>18 DEF DeadlinePasses
<1>19. ASSUME Touch PROVE SharedPlaces'
  BY <1>19 DEF Touch
<1>20. ASSUME NEW s \in Sandboxes, SyncCredentials(s) PROVE SharedPlaces'
  BY <1>20 DEF SyncCredentials, Wake
<1>21. ASSUME NEW s \in Sandboxes, CloseTerminal(s) PROVE SharedPlaces'
  BY <1>21 DEF CloseTerminal
<1>22. ASSUME NEW k \in {"pause", "resume", "delete"}, NEW s \in Sandboxes, StrayLands(k, s)
       PROVE  SharedPlaces'
  BY <1>22 DEF StrayLands
<1>23. ASSUME UNCHANGED vars PROVE SharedPlaces'
  BY <1>23 DEF vars
<1> QED
   BY <1>1, <1>2, <1>3, <1>4, <1>5, <1>6, <1>7, <1>8, <1>9, <1>10, <1>11, <1>12, <1>13,
        <1>14, <1>15, <1>16, <1>17, <1>18, <1>19, <1>20, <1>21, <1>22, <1>23 DEF Next, Work,
        Fail, Environment

\* The holder of the exclusive lock is alone to write sandbox_id, status "gone"
\* and a requested pause, so what it has read stays true.
LEMMA OwnedStep ==
  ASSUME TypeOK, LockExclusion, SharedPlaces, Targeted, Owned, [Next]_vars
  PROVE  Owned'
<1> USE OpsAssumption DEF TypeOK, LockExclusion, SharedPlaces, Owned, Holds, SharedOps,
      ExclusiveOps, Goto, Release, Finish, Faulty, row, cloud, locks, local, bounds
\* Taking the lock, or not.
<1>1. ASSUME NEW p \in Procs,
             \/ AcquireS(p) \/ GiveUp(p)
      PROVE  Owned'
  BY <1>1 DEF AcquireS, GiveUp
<1>2. ASSUME NEW p \in Procs, AcquireX(p) PROVE Owned'
  BY <1>2 DEF AcquireX
<1>3. ASSUME NEW p \in Procs, NEW o \in UserOps \cup Background, Start(p, o) PROVE Owned'
  BY <1>3 DEF Start
\* Pausing.
<1>4. ASSUME NEW p \in Procs,
             \/ CheckReady(p) \/ SkipPause(p) \/ BeforePause(p) \/ BeforePauseFails(p)
             \/ SendPause(p)
      PROVE  Owned'
  BY <1>4 DEF CheckReady, SkipPause, BeforePause, Wake, BeforePauseFails, SendPause
<1>5. ASSUME NEW p \in Procs,
             \/ PauseLands(p) \/ PauseSeen(p)
      PROVE  Owned'
  BY <1>5 DEF PauseLands, PauseSeen
<1>6. ASSUME NEW p \in Procs, PreparePause(p) PROVE Owned'
  BY <1>6 DEF PreparePause
<1>7. ASSUME NEW p \in Procs, RecordPaused(p) PROVE Owned'
  BY <1>7 DEF RecordPaused
\* Resuming.
<1>8. ASSUME NEW p \in Procs,
             \/ SendResume(p) \/ ResumeLands(p) \/ ResumeSeen(p) \/ RecordAccess(p)
      PROVE  Owned'
  BY <1>8 DEF SendResume, ResumeLands, Wake, ResumeSeen, RecordAccess
<1>9. ASSUME NEW p \in Procs,
             \/ CallFails(p) \/ WaitTimesOut(p) \/ SandboxMissing(p)
      PROVE  Owned'
  BY <1>9 DEF CallFails, WaitTimesOut, SandboxMissing
<1>10. ASSUME NEW p \in Procs, RecordFailure(p) PROVE Owned'
  BY <1>10 DEF RecordFailure
\* Retiring, policy, settings.
<1>11. ASSUME NEW p \in Procs,
              \/ PrepareRetire(p) \/ StopSupervisor(p) \/ StopSupervisorFails(p)
              \/ RecordRetired(p)
       PROVE  Owned'
  BY <1>11 DEF PrepareRetire, StopSupervisor, Wake, StopSupervisorFails, RecordRetired
<1>12. ASSUME NEW p \in Procs,
              \/ ApplyPolicy(p) \/ RecordPolicy(p) \/ Update(p)
       PROVE  Owned'
  BY <1>12 DEF ApplyPolicy, RecordPolicy, Update
\* Access and repair.
<1>13. ASSUME NEW p \in Procs,
              \/ Admit(p) \/ Operate(p) \/ OperateFails(p) \/ OperateNeedsRepair(p)
       PROVE  Owned'
  BY <1>13 DEF Admit, Operate, Wake, OperateFails, OperateNeedsRepair
<1>14. ASSUME NEW p \in Procs,
              \/ RepairByAccess(p) \/ RepairPauses(p) \/ RepairFails(p)
       PROVE  Owned'
  BY <1>14 DEF RepairByAccess, Wake, RepairPauses, RepairFails
\* Provisioning.
<1>15. ASSUME NEW p \in Procs,
              \/ ClaimFails(p) \/ Await(p) \/ Cleanup(p) \/ MarkFailed(p)
       PROVE  Owned'
  BY <1>15 DEF ClaimFails, Await, Cleanup, MarkFailed
<1>16. ASSUME NEW p \in Procs,
              \/ MarkUpdating(p) \/ MarkProvisioning(p)
       PROVE  Owned'
  BY <1>16 DEF MarkUpdating, MarkProvisioning
<1>17. ASSUME NEW p \in Procs, CheckProvision(p) PROVE Owned'
  BY <1>17 DEF CheckProvision, NeedsSandbox
<1>18. ASSUME NEW p \in Procs, NEW s \in Sandboxes, Claim(p, s) PROVE Owned'
  BY <1>18 DEF Claim
<1>19. ASSUME NEW p \in Procs, Publish(p) PROVE Owned'
  BY <1>19 DEF Publish
<1>20. ASSUME NEW p \in Procs, MarkReady(p) PROVE Owned'
  BY <1>20 DEF MarkReady
<1>21. ASSUME NEW p \in Procs, ClearAllocation(p) PROVE Owned'
  BY <1>21 DEF ClearAllocation
\* Deleting.
<1>22. ASSUME NEW p \in Procs,
              \/ CheckDelete(p) \/ RefuseDelete(p) \/ BeforeDelete(p)
              \/ BeforeDeleteFails(p)
              \/ DeleteSandbox(p)
       PROVE  Owned'
  <2>1. CASE CheckDelete(p)
    BY <2>1 DEF CheckDelete, MayDelete
  <2>2. CASE RefuseDelete(p) \/ BeforeDelete(p)
    BY <2>2 DEF RefuseDelete, BeforeDelete
  <2>3. CASE BeforeDeleteFails(p) \/ DeleteSandbox(p)
    BY <2>3 DEF BeforeDeleteFails, DeleteSandbox
  <2> QED
    BY <1>22, <2>1, <2>2, <2>3
<1>23. ASSUME NEW p \in Procs,
              \/ DeleteSandboxFails(p) \/ AfterDelete(p) \/ RecordDeleteFailure(p)
       PROVE  Owned'
  BY <1>23 DEF DeleteSandboxFails, AfterDelete, RecordDeleteFailure
<1>24. ASSUME NEW p \in Procs, PrepareDelete(p) PROVE Owned'
  BY <1>24 DEF PrepareDelete
<1>25. ASSUME NEW p \in Procs, DeleteMetadata(p) PROVE Owned'
  BY <1>25 DEF DeleteMetadata
\* Failures of a process.
<1>26. ASSUME NEW p \in Procs,
              \/ Crash(p) \/ LoseConnection(p) \/ Abort(p)
       PROVE  Owned'
  BY <1>26 DEF Crash, LoseConnection, Abort
\* The environment.
<1>27. ASSUME DeadlinePasses PROVE Owned'
  BY <1>27 DEF DeadlinePasses
<1>28. ASSUME Touch PROVE Owned'
  BY <1>28 DEF Touch
<1>29. ASSUME NEW s \in Sandboxes, SyncCredentials(s) PROVE Owned'
  BY <1>29 DEF SyncCredentials, Wake
<1>30. ASSUME NEW s \in Sandboxes, CloseTerminal(s) PROVE Owned'
  BY <1>30 DEF CloseTerminal
<1>31. ASSUME NEW k \in {"pause", "resume", "delete"}, NEW s \in Sandboxes, StrayLands(k, s)
       PROVE  Owned'
  BY <1>31 DEF StrayLands
<1>32. ASSUME UNCHANGED vars PROVE Owned'
  BY <1>32 DEF vars
<1> QED
   BY <1>1, <1>2, <1>3, <1>4, <1>5, <1>6, <1>7, <1>8, <1>9, <1>10, <1>11, <1>12, <1>13,
        <1>14, <1>15, <1>16, <1>17, <1>18, <1>19, <1>20, <1>21, <1>22, <1>23, <1>24, <1>25,
        <1>26, <1>27, <1>28, <1>29, <1>30, <1>31, <1>32 DEF Next, Work, Fail, Environment

\* No call, late or not, brings a deleted Sandbox back.
LEMMA DeletionStep == ASSUME TypeOK, PastDeletion, [Next]_vars PROVE PastDeletion'
<1> USE DEF TypeOK, PastDeletion, Goto, Release, Finish, Faulty, row, cloud, locks, local,
      bounds
\* Taking the lock, or not.
<1>1. ASSUME NEW p \in Procs,
             \/ AcquireX(p) \/ AcquireS(p) \/ GiveUp(p)
      PROVE  PastDeletion'
  BY <1>1 DEF AcquireX, AcquireS, GiveUp
<1>2. ASSUME NEW p \in Procs, NEW o \in UserOps \cup Background, Start(p, o) PROVE PastDeletion'
  BY <1>2 DEF Start
\* Pausing.
<1>3. ASSUME NEW p \in Procs,
             \/ PreparePause(p) \/ CheckReady(p) \/ SkipPause(p) \/ BeforePause(p)
             \/ BeforePauseFails(p)
             \/ SendPause(p) \/ PauseLands(p) \/ PauseSeen(p) \/ RecordPaused(p)
      PROVE  PastDeletion'
   BY <1>3 DEF PreparePause, CheckReady, SkipPause, BeforePause, Wake, BeforePauseFails,
        SendPause,
        PauseLands, PauseSeen, RecordPaused
\* Resuming.
<1>4. ASSUME NEW p \in Procs,
             \/ SendResume(p) \/ ResumeLands(p) \/ ResumeSeen(p) \/ RecordAccess(p)
             \/ CallFails(p) \/ WaitTimesOut(p) \/ SandboxMissing(p) \/ RecordFailure(p)
      PROVE  PastDeletion'
   BY <1>4 DEF SendResume, ResumeLands, Wake, ResumeSeen, RecordAccess, CallFails,
        WaitTimesOut, SandboxMissing, RecordFailure
\* Retiring, policy, settings.
<1>5. ASSUME NEW p \in Procs,
             \/ PrepareRetire(p) \/ StopSupervisor(p) \/ StopSupervisorFails(p)
             \/ RecordRetired(p) \/ ApplyPolicy(p) \/ RecordPolicy(p) \/ Update(p)
      PROVE  PastDeletion'
   BY <1>5 DEF PrepareRetire, StopSupervisor, Wake, StopSupervisorFails, RecordRetired,
        ApplyPolicy, RecordPolicy, Update
\* Access and repair.
<1>6. ASSUME NEW p \in Procs,
             \/ Admit(p) \/ Operate(p) \/ OperateFails(p) \/ OperateNeedsRepair(p)
             \/ RepairByAccess(p) \/ RepairPauses(p) \/ RepairFails(p)
      PROVE  PastDeletion'
   BY <1>6 DEF Admit, Operate, Wake, OperateFails, OperateNeedsRepair, RepairByAccess,
        RepairPauses, RepairFails
\* Provisioning.
<1>7. ASSUME NEW p \in Procs,
             \/ CheckProvision(p) \/ ClaimFails(p) \/ Publish(p) \/ Await(p) \/ MarkReady(p)
             \/ ClearAllocation(p) \/ MarkFailed(p) \/ MarkUpdating(p)
      PROVE  PastDeletion'
   BY <1>7 DEF CheckProvision, ClaimFails, Publish, Await, MarkReady, ClearAllocation,
        MarkFailed, MarkUpdating
<1>8. ASSUME NEW p \in Procs, MarkProvisioning(p) PROVE PastDeletion'
  BY <1>8 DEF MarkProvisioning
<1>9. ASSUME NEW p \in Procs, NEW s \in Sandboxes, Claim(p, s) PROVE PastDeletion'
  BY <1>9 DEF Claim
<1>10. ASSUME NEW p \in Procs, Cleanup(p) PROVE PastDeletion'
  BY <1>10 DEF Cleanup
\* Deleting.
<1>11. ASSUME NEW p \in Procs,
              \/ PrepareDelete(p) \/ CheckDelete(p) \/ RefuseDelete(p) \/ BeforeDelete(p)
              \/ BeforeDeleteFails(p) \/ DeleteSandboxFails(p) \/ AfterDelete(p)
              \/ DeleteMetadata(p) \/ RecordDeleteFailure(p)
       PROVE  PastDeletion'
   BY <1>11 DEF PrepareDelete, CheckDelete, RefuseDelete, BeforeDelete, BeforeDeleteFails,
        DeleteSandboxFails, AfterDelete, DeleteMetadata, RecordDeleteFailure
<1>12. ASSUME NEW p \in Procs, DeleteSandbox(p) PROVE PastDeletion'
  BY <1>12 DEF DeleteSandbox
\* Failures of a process.
<1>13. ASSUME NEW p \in Procs,
              \/ Crash(p) \/ LoseConnection(p) \/ Abort(p)
       PROVE  PastDeletion'
  BY <1>13 DEF Crash, LoseConnection, Abort
\* The environment.
<1>14. ASSUME DeadlinePasses PROVE PastDeletion'
  BY <1>14 DEF DeadlinePasses
<1>15. ASSUME Touch PROVE PastDeletion'
  BY <1>15 DEF Touch
<1>16. ASSUME NEW s \in Sandboxes, SyncCredentials(s) PROVE PastDeletion'
  BY <1>16 DEF SyncCredentials, Wake
<1>17. ASSUME NEW s \in Sandboxes, CloseTerminal(s) PROVE PastDeletion'
  BY <1>17 DEF CloseTerminal
<1>18. ASSUME NEW k \in {"pause", "resume", "delete"}, NEW s \in Sandboxes, StrayLands(k, s)
       PROVE  PastDeletion'
  <2>1. SUFFICES ASSUME NEW q \in Procs, pc'[q] \in {"afterDelete", "removeRow"},
                        ~(rt'[q] = NoSandbox)
                 PROVE  sb'[rt'[q]] = "deleted"
    OBVIOUS
  <2>2. /\ pc[q] = pc'[q] /\ rt[q] = rt'[q] /\ rt[q] \in Sandboxes
        /\ sb[rt[q]] = "deleted"
    BY <1>18, <2>1 DEF StrayLands
  <2>3. CASE sb[s] = "deleted"
    BY <1>18, <2>2, <2>3 DEF StrayLands
  <2>4. CASE ~(sb[s] = "deleted")
    <3>1. ~(s = rt[q])
      BY <2>2, <2>4
    <3>2. \E v : sb' = [sb EXCEPT ![s] = v]
      BY <1>18, <2>4 DEF StrayLands
    <3> QED
      BY <2>2, <3>1, <3>2
  <2> QED
    BY <2>3, <2>4
<1>19. ASSUME UNCHANGED vars PROVE PastDeletion'
  BY <1>19 DEF vars
<1> QED
   BY <1>1, <1>2, <1>3, <1>4, <1>5, <1>6, <1>7, <1>8, <1>9, <1>10, <1>11, <1>12, <1>13,
        <1>14, <1>15, <1>16, <1>17, <1>18, <1>19 DEF Next, Work, Fail, Environment

\* A row that is gone names no Sandbox: no late publication revives it.
LEMMA GoneStep ==
  ASSUME TypeOK, Owned, SharedPlaces, Targeted, GoneIsEmpty, [Next]_vars
  PROVE  GoneIsEmpty'
<1> USE DEF TypeOK, Owned, SharedPlaces, GoneIsEmpty, Holds, Goto, Release, Finish, Faulty,
      row, cloud, locks, local, bounds
\* Taking the lock, or not.
<1>1. ASSUME NEW p \in Procs,
             \/ AcquireX(p) \/ AcquireS(p) \/ GiveUp(p)
      PROVE  GoneIsEmpty'
  BY <1>1 DEF AcquireX, AcquireS, GiveUp
<1>2. ASSUME NEW p \in Procs, NEW o \in UserOps \cup Background, Start(p, o) PROVE GoneIsEmpty'
  BY <1>2 DEF Start
\* Pausing.
<1>3. ASSUME NEW p \in Procs,
             \/ PreparePause(p) \/ CheckReady(p) \/ SkipPause(p) \/ BeforePause(p)
             \/ BeforePauseFails(p)
             \/ SendPause(p) \/ PauseLands(p) \/ PauseSeen(p) \/ RecordPaused(p)
      PROVE  GoneIsEmpty'
   BY <1>3 DEF PreparePause, CheckReady, SkipPause, BeforePause, Wake, BeforePauseFails,
        SendPause,
        PauseLands, PauseSeen, RecordPaused
\* Resuming.
<1>4. ASSUME NEW p \in Procs,
             \/ SendResume(p) \/ ResumeLands(p) \/ ResumeSeen(p) \/ RecordAccess(p)
             \/ CallFails(p) \/ WaitTimesOut(p) \/ SandboxMissing(p) \/ RecordFailure(p)
      PROVE  GoneIsEmpty'
   BY <1>4 DEF SendResume, ResumeLands, Wake, ResumeSeen, RecordAccess, CallFails,
        WaitTimesOut, SandboxMissing, RecordFailure
\* Retiring, policy, settings.
<1>5. ASSUME NEW p \in Procs,
             \/ PrepareRetire(p) \/ StopSupervisor(p) \/ StopSupervisorFails(p)
             \/ RecordRetired(p) \/ ApplyPolicy(p) \/ RecordPolicy(p) \/ Update(p)
      PROVE  GoneIsEmpty'
   BY <1>5 DEF PrepareRetire, StopSupervisor, Wake, StopSupervisorFails, RecordRetired,
        ApplyPolicy, RecordPolicy, Update
\* Access and repair.
<1>6. ASSUME NEW p \in Procs,
             \/ Admit(p) \/ Operate(p) \/ OperateFails(p) \/ OperateNeedsRepair(p)
             \/ RepairByAccess(p) \/ RepairPauses(p) \/ RepairFails(p)
      PROVE  GoneIsEmpty'
   BY <1>6 DEF Admit, Operate, Wake, OperateFails, OperateNeedsRepair, RepairByAccess,
        RepairPauses, RepairFails
\* Provisioning.
<1>7. ASSUME NEW p \in Procs,
             \/ CheckProvision(p) \/ ClaimFails(p) \/ Await(p) \/ Cleanup(p)
             \/ MarkFailed(p)
             \/ MarkProvisioning(p)
      PROVE  GoneIsEmpty'
  BY <1>7 DEF CheckProvision, ClaimFails, Await, Cleanup, MarkFailed, MarkProvisioning
<1>8. ASSUME NEW p \in Procs, NEW s \in Sandboxes, Claim(p, s) PROVE GoneIsEmpty'
  BY <1>8 DEF Claim
<1>9. ASSUME NEW p \in Procs, Publish(p) PROVE GoneIsEmpty'
  BY <1>9 DEF Publish
<1>10. ASSUME NEW p \in Procs, MarkReady(p) PROVE GoneIsEmpty'
  BY <1>10 DEF MarkReady
<1>11. ASSUME NEW p \in Procs, ClearAllocation(p) PROVE GoneIsEmpty'
  BY <1>11 DEF ClearAllocation
<1>12. ASSUME NEW p \in Procs, MarkUpdating(p) PROVE GoneIsEmpty'
  BY <1>12 DEF MarkUpdating
\* Deleting.
<1>13. ASSUME NEW p \in Procs,
              \/ PrepareDelete(p) \/ CheckDelete(p) \/ RefuseDelete(p) \/ BeforeDelete(p)
              \/ BeforeDeleteFails(p) \/ DeleteSandbox(p) \/ DeleteSandboxFails(p)
              \/ AfterDelete(p) \/ RecordDeleteFailure(p)
       PROVE  GoneIsEmpty'
   BY <1>13 DEF PrepareDelete, CheckDelete, RefuseDelete, BeforeDelete, BeforeDeleteFails,
        DeleteSandbox,
        DeleteSandboxFails, AfterDelete, RecordDeleteFailure
<1>14. ASSUME NEW p \in Procs, DeleteMetadata(p) PROVE GoneIsEmpty'
  BY <1>14 DEF DeleteMetadata
\* Failures of a process.
<1>15. ASSUME NEW p \in Procs,
              \/ Crash(p) \/ LoseConnection(p) \/ Abort(p)
       PROVE  GoneIsEmpty'
  BY <1>15 DEF Crash, LoseConnection, Abort
\* The environment.
<1>16. ASSUME DeadlinePasses PROVE GoneIsEmpty'
  BY <1>16 DEF DeadlinePasses
<1>17. ASSUME Touch PROVE GoneIsEmpty'
  BY <1>17 DEF Touch
<1>18. ASSUME NEW s \in Sandboxes, SyncCredentials(s) PROVE GoneIsEmpty'
  BY <1>18 DEF SyncCredentials, Wake
<1>19. ASSUME NEW s \in Sandboxes, CloseTerminal(s) PROVE GoneIsEmpty'
  BY <1>19 DEF CloseTerminal
<1>20. ASSUME NEW k \in {"pause", "resume", "delete"}, NEW s \in Sandboxes, StrayLands(k, s)
       PROVE  GoneIsEmpty'
  BY <1>20 DEF StrayLands
<1>21. ASSUME UNCHANGED vars PROVE GoneIsEmpty'
  BY <1>21 DEF vars
<1> QED
   BY <1>1, <1>2, <1>3, <1>4, <1>5, <1>6, <1>7, <1>8, <1>9, <1>10, <1>11, <1>12, <1>13,
        <1>14, <1>15, <1>16, <1>17, <1>18, <1>19, <1>20, <1>21 DEF Next, Work, Fail,
        Environment

\* Whoever wakes the Sandbox between a pause and its record holds no lock: its
\* wake-up counts as a read or an abandoned call.
LEMMA SettledStep ==
  ASSUME TypeOK, LockExclusion, SharedPlaces, Targeted, PauseSettled, [Next]_vars
  PROVE  PauseSettled'
<1> USE OpsAssumption DEF TypeOK, LockExclusion, SharedPlaces, Targeted, TargetPlaces,
      PauseSettled, Settled, Holds, By, SharedOps, ExclusiveOps, Goto, Release, Finish,
      Faulty, row, cloud, locks, local, bounds
\* Taking the lock, or not.
<1>1. ASSUME NEW p \in Procs,
             \/ AcquireX(p) \/ AcquireS(p) \/ GiveUp(p)
      PROVE  PauseSettled'
  BY <1>1 DEF AcquireX, AcquireS, GiveUp
<1>2. ASSUME NEW p \in Procs, NEW o \in UserOps \cup Background, Start(p, o) PROVE PauseSettled'
  BY <1>2 DEF Start
\* Pausing.
<1>3. ASSUME NEW p \in Procs,
             \/ CheckReady(p) \/ SkipPause(p) \/ PauseLands(p)
      PROVE  PauseSettled'
  BY <1>3 DEF CheckReady, SkipPause, PauseLands
<1>4. ASSUME NEW p \in Procs, PreparePause(p) PROVE PauseSettled'
  BY <1>4 DEF PreparePause, MayPause
<1>5. ASSUME NEW p \in Procs, BeforePause(p) PROVE PauseSettled'
  BY <1>5 DEF BeforePause, Wake
<1>6. ASSUME NEW p \in Procs, BeforePauseFails(p) PROVE PauseSettled'
  BY <1>6 DEF BeforePauseFails, Wake
<1>7. ASSUME NEW p \in Procs, SendPause(p) PROVE PauseSettled'
  BY <1>7 DEF SendPause
<1>8. ASSUME NEW p \in Procs, PauseSeen(p) PROVE PauseSettled'
  BY <1>8 DEF PauseSeen
<1>9. ASSUME NEW p \in Procs, RecordPaused(p) PROVE PauseSettled'
  BY <1>9 DEF RecordPaused
\* Resuming.
<1>10. ASSUME NEW p \in Procs,
              \/ SendResume(p) \/ ResumeSeen(p) \/ RecordAccess(p)
       PROVE  PauseSettled'
  BY <1>10 DEF SendResume, ResumeSeen, RecordAccess
<1>11. ASSUME NEW p \in Procs,
              \/ CallFails(p) \/ WaitTimesOut(p) \/ SandboxMissing(p)
       PROVE  PauseSettled'
  BY <1>11 DEF CallFails, WaitTimesOut, SandboxMissing
<1>12. ASSUME NEW p \in Procs, RecordFailure(p) PROVE PauseSettled'
  BY <1>12 DEF RecordFailure
<1>13. ASSUME NEW p \in Procs, ResumeLands(p) PROVE PauseSettled'
  BY <1>13 DEF ResumeLands, Wake
\* Retiring, policy, settings.
<1>14. ASSUME NEW p \in Procs,
              \/ RecordRetired(p) \/ ApplyPolicy(p) \/ RecordPolicy(p)
       PROVE  PauseSettled'
  BY <1>14 DEF RecordRetired, ApplyPolicy, RecordPolicy
<1>15. ASSUME NEW p \in Procs, Update(p) PROVE PauseSettled'
  BY <1>15 DEF Update
<1>16. ASSUME NEW p \in Procs, PrepareRetire(p) PROVE PauseSettled'
  BY <1>16 DEF PrepareRetire, RestoresPause
<1>17. ASSUME NEW p \in Procs, StopSupervisor(p) PROVE PauseSettled'
  BY <1>17 DEF StopSupervisor, Wake
<1>18. ASSUME NEW p \in Procs, StopSupervisorFails(p) PROVE PauseSettled'
  BY <1>18 DEF StopSupervisorFails, Wake
\* Access and repair.
<1>19. ASSUME NEW p \in Procs,
              \/ Admit(p) \/ RepairPauses(p) \/ RepairFails(p)
       PROVE  PauseSettled'
  BY <1>19 DEF Admit, RepairPauses, RepairFails
<1>20. ASSUME NEW p \in Procs, Operate(p) PROVE PauseSettled'
  BY <1>20 DEF Operate, Wake
<1>21. ASSUME NEW p \in Procs, OperateFails(p) PROVE PauseSettled'
  BY <1>21 DEF OperateFails, Wake
<1>22. ASSUME NEW p \in Procs, OperateNeedsRepair(p) PROVE PauseSettled'
  BY <1>22 DEF OperateNeedsRepair, Wake
<1>23. ASSUME NEW p \in Procs, RepairByAccess(p) PROVE PauseSettled'
  BY <1>23 DEF RepairByAccess, Wake
\* Provisioning.
<1>24. ASSUME NEW p \in Procs,
              \/ CheckProvision(p) \/ ClaimFails(p) \/ Publish(p)
       PROVE  PauseSettled'
  BY <1>24 DEF CheckProvision, ClaimFails, Publish
<1>25. ASSUME NEW p \in Procs,
              \/ Await(p) \/ MarkReady(p) \/ Cleanup(p)
       PROVE  PauseSettled'
  BY <1>25 DEF Await, MarkReady, Cleanup
<1>26. ASSUME NEW p \in Procs,
              \/ ClearAllocation(p) \/ MarkFailed(p) \/ MarkUpdating(p)
       PROVE  PauseSettled'
  BY <1>26 DEF ClearAllocation, MarkFailed, MarkUpdating
<1>27. ASSUME NEW p \in Procs, MarkProvisioning(p) PROVE PauseSettled'
  BY <1>27 DEF MarkProvisioning
<1>28. ASSUME NEW p \in Procs, NEW s \in Sandboxes, Claim(p, s) PROVE PauseSettled'
  BY <1>28 DEF Claim
\* Deleting.
<1>29. ASSUME NEW p \in Procs,
              \/ PrepareDelete(p) \/ CheckDelete(p) \/ RefuseDelete(p) \/ BeforeDelete(p)
       PROVE  PauseSettled'
  BY <1>29 DEF PrepareDelete, CheckDelete, RefuseDelete, BeforeDelete
<1>30. ASSUME NEW p \in Procs,
              \/ BeforeDeleteFails(p) \/ DeleteSandbox(p) \/ DeleteSandboxFails(p)
       PROVE  PauseSettled'
  BY <1>30 DEF BeforeDeleteFails, DeleteSandbox, DeleteSandboxFails
<1>31. ASSUME NEW p \in Procs,
              \/ AfterDelete(p) \/ DeleteMetadata(p) \/ RecordDeleteFailure(p)
       PROVE  PauseSettled'
  BY <1>31 DEF AfterDelete, DeleteMetadata, RecordDeleteFailure
\* Failures of a process.
<1>32. ASSUME NEW p \in Procs,
              \/ Crash(p) \/ LoseConnection(p) \/ Abort(p)
       PROVE  PauseSettled'
  BY <1>32 DEF Crash, LoseConnection, Abort
\* The environment.
<1>33. ASSUME DeadlinePasses PROVE PauseSettled'
  BY <1>33 DEF DeadlinePasses
<1>34. ASSUME Touch PROVE PauseSettled'
  BY <1>34 DEF Touch
<1>35. ASSUME NEW s \in Sandboxes, SyncCredentials(s) PROVE PauseSettled'
  BY <1>35 DEF SyncCredentials, Wake
<1>36. ASSUME NEW s \in Sandboxes, CloseTerminal(s) PROVE PauseSettled'
  BY <1>36 DEF CloseTerminal
<1>37. ASSUME NEW k \in {"pause", "resume", "delete"}, NEW s \in Sandboxes, StrayLands(k, s)
       PROVE  PauseSettled'
  BY <1>37 DEF StrayLands
<1>38. ASSUME UNCHANGED vars PROVE PauseSettled'
  BY <1>38 DEF vars
<1> QED
   BY <1>1, <1>2, <1>3, <1>4, <1>5, <1>6, <1>7, <1>8, <1>9, <1>10, <1>11, <1>12, <1>13,
        <1>14, <1>15, <1>16, <1>17, <1>18, <1>19, <1>20, <1>21, <1>22, <1>23, <1>24, <1>25,
        <1>26, <1>27, <1>28, <1>29, <1>30, <1>31, <1>32, <1>33, <1>34, <1>35, <1>36, <1>37,
        <1>38 DEF Next, Work, Fail, Environment

\* Every step is a step of the projection, or leaves it alone.
LEMMA ProjectionStep ==
  ASSUME TypeOK, LockExclusion, Targeted, SharedPlaces, Owned, GoneIsEmpty, [Next]_vars
  PROVE  [Projection!NextP]_(Projection!proj)
<1> USE OpsAssumption DEF TypeOK, Projection!proj, Projection!NextP, Goto, Release, Finish,
      Faulty, row, cloud, locks, local, bounds
\* Taking the lock, or not.
<1>1. ASSUME NEW p \in Procs,
             \/ AcquireX(p) \/ AcquireS(p) \/ GiveUp(p)
      PROVE  [Projection!NextP]_(Projection!proj)
  BY <1>1 DEF AcquireX, AcquireS, GiveUp
<1>2. ASSUME NEW p \in Procs, NEW o \in UserOps \cup Background, Start(p, o)
      PROVE  [Projection!NextP]_(Projection!proj)
  BY <1>2 DEF Start
\* Pausing.
<1>3. ASSUME NEW p \in Procs,
             \/ CheckReady(p) \/ SkipPause(p) \/ BeforePause(p) \/ BeforePauseFails(p)
             \/ SendPause(p)
             \/ PauseLands(p) \/ PauseSeen(p)
      PROVE  [Projection!NextP]_(Projection!proj)
  BY <1>3 DEF CheckReady, SkipPause, BeforePause, BeforePauseFails, SendPause, PauseLands,
       PauseSeen
<1>4. ASSUME NEW p \in Procs, PreparePause(p) PROVE [Projection!NextP]_(Projection!proj)
  BY <1>4 DEF PreparePause, Projection!RequestPause, MayPause, WantsIdlePause
<1>5. ASSUME NEW p \in Procs, RecordPaused(p) PROVE [Projection!NextP]_(Projection!proj)
  BY <1>5 DEF RecordPaused, Projection!CompletePause, Reason, LastReason, Targeted,
       TargetPlaces
\* Resuming.
<1>6. ASSUME NEW p \in Procs,
             \/ SendResume(p) \/ ResumeLands(p) \/ ResumeSeen(p) \/ CallFails(p)
             \/ WaitTimesOut(p) \/ SandboxMissing(p)
      PROVE  [Projection!NextP]_(Projection!proj)
  BY <1>6 DEF SendResume, ResumeLands, ResumeSeen, CallFails, WaitTimesOut, SandboxMissing
<1>7. ASSUME NEW p \in Procs, RecordAccess(p) PROVE [Projection!NextP]_(Projection!proj)
  BY <1>7 DEF RecordAccess, Projection!GrantAccess, Window, Projection!Live
<1>8. ASSUME NEW p \in Procs, RecordFailure(p) PROVE [Projection!NextP]_(Projection!proj)
   BY <1>8 DEF RecordFailure, Projection!DeferPause, GoneIsEmpty, Projection!Live, Targeted,
        TargetPlaces
\* Retiring, policy, settings.
<1>9. ASSUME NEW p \in Procs,
             \/ PrepareRetire(p) \/ StopSupervisor(p) \/ StopSupervisorFails(p)
             \/ RecordRetired(p) \/ ApplyPolicy(p) \/ RecordPolicy(p)
      PROVE  [Projection!NextP]_(Projection!proj)
   BY <1>9 DEF PrepareRetire, StopSupervisor, StopSupervisorFails, RecordRetired,
        ApplyPolicy, RecordPolicy
<1>10. ASSUME NEW p \in Procs, Update(p) PROVE [Projection!NextP]_(Projection!proj)
  BY <1>10 DEF Update, Projection!MoveDeadline, Projection!Rearm
\* Access and repair.
<1>11. ASSUME NEW p \in Procs,
              \/ Admit(p) \/ Operate(p) \/ OperateFails(p) \/ OperateNeedsRepair(p)
              \/ RepairByAccess(p) \/ RepairPauses(p) \/ RepairFails(p)
       PROVE  [Projection!NextP]_(Projection!proj)
   BY <1>11 DEF Admit, Operate, OperateFails, OperateNeedsRepair, RepairByAccess,
        RepairPauses, RepairFails
\* Provisioning.
<1>12. ASSUME NEW p \in Procs,
              \/ CheckProvision(p) \/ ClaimFails(p) \/ Await(p) \/ Cleanup(p)
       PROVE  [Projection!NextP]_(Projection!proj)
  BY <1>12 DEF CheckProvision, ClaimFails, Await, Cleanup
<1>13. ASSUME NEW p \in Procs, NEW s \in Sandboxes, Claim(p, s)
       PROVE  [Projection!NextP]_(Projection!proj)
  BY <1>13 DEF Claim
<1>14. ASSUME NEW p \in Procs, Publish(p) PROVE [Projection!NextP]_(Projection!proj)
   BY <1>14 DEF Publish, Projection!Publish, Owned, SharedPlaces, Targeted, TargetPlaces,
        Projection!Live, Holds
<1>15. ASSUME NEW p \in Procs, MarkReady(p) PROVE [Projection!NextP]_(Projection!proj)
   BY <1>15 DEF MarkReady, Projection!Commit, Owned, SharedPlaces, Targeted, TargetPlaces,
        Projection!Live, Holds, Window
<1>16. ASSUME NEW p \in Procs, ClearAllocation(p) PROVE [Projection!NextP]_(Projection!proj)
   BY <1>16 DEF ClearAllocation, Projection!Withdraw, GoneIsEmpty, Targeted, TargetPlaces,
        Projection!Live
<1>17. ASSUME NEW p \in Procs, MarkFailed(p) PROVE [Projection!NextP]_(Projection!proj)
  BY <1>17 DEF MarkFailed, Projection!Fail, Projection!Live
<1>18. ASSUME NEW p \in Procs, MarkUpdating(p) PROVE [Projection!NextP]_(Projection!proj)
  BY <1>18 DEF MarkUpdating, Projection!Reset, Projection!Live
<1>19. ASSUME NEW p \in Procs, MarkProvisioning(p) PROVE [Projection!NextP]_(Projection!proj)
  BY <1>19 DEF MarkProvisioning, Projection!Reset, Projection!Live
\* Deleting.
<1>20. ASSUME NEW p \in Procs,
              \/ CheckDelete(p) \/ RefuseDelete(p) \/ BeforeDelete(p) \/ DeleteSandbox(p)
              \/ DeleteSandboxFails(p) \/ AfterDelete(p)
       PROVE  [Projection!NextP]_(Projection!proj)
  BY <1>20 DEF CheckDelete, RefuseDelete, BeforeDelete, DeleteSandbox, DeleteSandboxFails,
       AfterDelete
<1>21. ASSUME NEW p \in Procs, PrepareDelete(p) PROVE [Projection!NextP]_(Projection!proj)
  BY <1>21 DEF PrepareDelete, Owned, SharedPlaces, Holds, Projection!Terminate,
       Projection!Live
<1>22. ASSUME NEW p \in Procs, BeforeDeleteFails(p) PROVE [Projection!NextP]_(Projection!proj)
  BY <1>22 DEF BeforeDeleteFails, Projection!Terminate, Projection!Live
<1>23. ASSUME NEW p \in Procs, DeleteMetadata(p) PROVE [Projection!NextP]_(Projection!proj)
  <2>1. lockX = p
    BY <1>23 DEF DeleteMetadata, SharedPlaces, Holds
  <2> QED
    BY <1>23, <2>1 DEF DeleteMetadata, Projection!Remove, Owned, Projection!Live
<1>24. ASSUME NEW p \in Procs, RecordDeleteFailure(p) PROVE [Projection!NextP]_(Projection!proj)
  BY <1>24 DEF RecordDeleteFailure, Projection!Terminate, Projection!Live
\* Failures of a process.
<1>25. ASSUME NEW p \in Procs,
              \/ Crash(p) \/ LoseConnection(p) \/ Abort(p)
       PROVE  [Projection!NextP]_(Projection!proj)
  BY <1>25 DEF Crash, LoseConnection, Abort
\* The environment.
<1>26. ASSUME DeadlinePasses PROVE [Projection!NextP]_(Projection!proj)
  BY <1>26 DEF DeadlinePasses, Projection!MoveDeadline, Projection!Rearm
<1>27. ASSUME Touch PROVE [Projection!NextP]_(Projection!proj)
  BY <1>27 DEF Touch, Projection!MoveDeadline, Projection!Rearm, Window
<1>28. ASSUME NEW s \in Sandboxes, SyncCredentials(s) PROVE [Projection!NextP]_(Projection!proj)
  BY <1>28 DEF SyncCredentials
<1>29. ASSUME NEW s \in Sandboxes, CloseTerminal(s) PROVE [Projection!NextP]_(Projection!proj)
  BY <1>29 DEF CloseTerminal
<1>30. ASSUME NEW k \in {"pause", "resume", "delete"}, NEW s \in Sandboxes, StrayLands(k, s)
       PROVE  [Projection!NextP]_(Projection!proj)
  BY <1>30 DEF StrayLands
<1>31. ASSUME UNCHANGED vars PROVE [Projection!NextP]_(Projection!proj)
  BY <1>31 DEF vars
<1> QED
   BY <1>1, <1>2, <1>3, <1>4, <1>5, <1>6, <1>7, <1>8, <1>9, <1>10, <1>11, <1>12, <1>13,
        <1>14, <1>15, <1>16, <1>17, <1>18, <1>19, <1>20, <1>21, <1>22, <1>23, <1>24, <1>25,
        <1>26, <1>27, <1>28, <1>29, <1>30, <1>31 DEF Next, Work, Fail, Environment

-----------------------------------------------------------------------------
(* Without failures, and without the operations that reset an intent: what *)
(* keeps Calm, Timed and Intended, and what they keep.                     *)

\* Failures are counted: a state without any has had none.
LEMMA FaultsStep == ASSUME TypeOK, [Next]_vars, faults' = 0 PROVE faults = 0
<1> USE DEF TypeOK, Faulty, bounds
\* Taking the lock, or not.
<1>1. ASSUME NEW p \in Procs,
             \/ AcquireX(p) \/ AcquireS(p) \/ GiveUp(p)
      PROVE  faults = 0
  BY <1>1 DEF AcquireX, AcquireS, GiveUp
<1>2. ASSUME NEW p \in Procs, NEW o \in UserOps \cup Background, Start(p, o)
      PROVE  faults = 0
  BY <1>2 DEF Start
\* Pausing.
<1>3. ASSUME NEW p \in Procs,
             \/ PreparePause(p) \/ CheckReady(p) \/ SkipPause(p) \/ BeforePause(p)
             \/ BeforePauseFails(p)
             \/ SendPause(p) \/ PauseLands(p) \/ PauseSeen(p) \/ RecordPaused(p)
      PROVE  faults = 0
  BY <1>3 DEF PreparePause, CheckReady, SkipPause, BeforePause, Wake, By, BeforePauseFails,
       SendPause, PauseLands, PauseSeen, RecordPaused
\* Resuming.
<1>4. ASSUME NEW p \in Procs,
             \/ SendResume(p) \/ ResumeLands(p) \/ ResumeSeen(p) \/ RecordAccess(p)
             \/ CallFails(p) \/ WaitTimesOut(p) \/ SandboxMissing(p) \/ RecordFailure(p)
      PROVE  faults = 0
  BY <1>4 DEF SendResume, ResumeLands, Wake, By, ResumeSeen, RecordAccess, CallFails,
       WaitTimesOut, SandboxMissing, RecordFailure
\* Retiring, policy, settings.
<1>5. ASSUME NEW p \in Procs,
             \/ PrepareRetire(p) \/ StopSupervisor(p) \/ StopSupervisorFails(p)
             \/ RecordRetired(p) \/ ApplyPolicy(p) \/ RecordPolicy(p) \/ Update(p)
      PROVE  faults = 0
  BY <1>5 DEF PrepareRetire, StopSupervisor, Wake, By, StopSupervisorFails,
       RecordRetired, ApplyPolicy, RecordPolicy, Update
\* Access and repair.
<1>6. ASSUME NEW p \in Procs,
             \/ Admit(p) \/ Operate(p) \/ OperateFails(p) \/ OperateNeedsRepair(p)
             \/ RepairByAccess(p) \/ RepairPauses(p) \/ RepairFails(p)
      PROVE  faults = 0
  BY <1>6 DEF Admit, Operate, By, OperateFails, Wake, OperateNeedsRepair,
       RepairByAccess, RepairPauses, RepairFails
\* Provisioning.
<1>7. ASSUME NEW p \in Procs, CheckProvision(p) PROVE faults = 0
  BY <1>7 DEF CheckProvision
<1>8. ASSUME NEW p \in Procs, NEW s \in Sandboxes, Claim(p, s) PROVE faults = 0
  BY <1>8 DEF Claim
<1>9. ASSUME NEW p \in Procs,
             \/ ClaimFails(p) \/ Publish(p) \/ Await(p) \/ MarkReady(p) \/ Cleanup(p)
             \/ ClearAllocation(p) \/ MarkFailed(p) \/ MarkUpdating(p)
      PROVE  faults = 0
  BY <1>9 DEF ClaimFails, Publish, Await, MarkReady, Cleanup, ClearAllocation,
       MarkFailed, MarkUpdating
<1>10. ASSUME NEW p \in Procs, MarkProvisioning(p) PROVE faults = 0
  BY <1>10 DEF MarkProvisioning
\* Deleting.
<1>11. ASSUME NEW p \in Procs,
              \/ PrepareDelete(p) \/ CheckDelete(p) \/ RefuseDelete(p) \/ BeforeDelete(p)
              \/ BeforeDeleteFails(p) \/ DeleteSandbox(p) \/ DeleteSandboxFails(p)
              \/ AfterDelete(p) \/ DeleteMetadata(p)
       PROVE  faults = 0
  BY <1>11 DEF PrepareDelete, CheckDelete, RefuseDelete, BeforeDelete, BeforeDeleteFails,
       DeleteSandbox, DeleteSandboxFails, AfterDelete, DeleteMetadata
<1>12. ASSUME NEW p \in Procs, RecordDeleteFailure(p) PROVE faults = 0
  BY <1>12 DEF RecordDeleteFailure
\* Failures of a process.
<1>13. ASSUME NEW p \in Procs,
              \/ Crash(p) \/ LoseConnection(p) \/ Abort(p)
       PROVE  faults = 0
  BY <1>13 DEF Crash, LoseConnection, Abort
\* The environment.
<1>14. ASSUME DeadlinePasses PROVE faults = 0
  BY <1>14 DEF DeadlinePasses
<1>15. ASSUME Touch PROVE faults = 0
  BY <1>15 DEF Touch
<1>16. ASSUME NEW s \in Sandboxes, SyncCredentials(s) PROVE faults = 0
  BY <1>16 DEF SyncCredentials, Wake
<1>17. ASSUME NEW s \in Sandboxes, CloseTerminal(s) PROVE faults = 0
  BY <1>17 DEF CloseTerminal
<1>18. ASSUME NEW k \in {"pause", "resume", "delete"}, NEW s \in Sandboxes, StrayLands(k, s)
       PROVE  faults = 0
  BY <1>18 DEF StrayLands
<1>19. ASSUME UNCHANGED vars PROVE faults = 0
  BY <1>19 DEF vars
<1> QED
  BY <1>1, <1>2, <1>3, <1>4, <1>5, <1>6, <1>7, <1>8, <1>9, <1>10, <1>11, <1>12, <1>13,
       <1>14, <1>15, <1>16, <1>17, <1>18, <1>19 DEF Next, Work, Fail, Environment

\* While nothing fails, no process is without the lock its operation asks for, so
\* none is cut off from its store, abandons a call or comes to repair and clean up.
LEMMA CalmStep == ASSUME TypeOK, Calm, [Next]_vars PROVE Calm'
<1> SUFFICES ASSUME faults' = 0, faults = 0, Attended, Unbroken PROVE Attended' /\ Unbroken'
  BY FaultsStep DEF Calm
<1> USE OpsAssumption DEF TypeOK, Attended, Unbroken, Outside, SharedOps, ExclusiveOps,
     Holds, Goto, Release, Finish, Faulty, row, cloud, locks, local, bounds
\* Taking the lock, or not.
<1>1. ASSUME NEW p \in Procs, AcquireX(p) PROVE (Attended /\ Unbroken)'
  BY <1>1 DEF AcquireX, ExclusiveFree
<1>2. ASSUME NEW p \in Procs, AcquireS(p) PROVE (Attended /\ Unbroken)'
  BY <1>2 DEF AcquireS, SharedFree
<1>3. ASSUME NEW p \in Procs, GiveUp(p) PROVE (Attended /\ Unbroken)'
  BY <1>3 DEF GiveUp
<1>4. ASSUME NEW p \in Procs, NEW o \in UserOps \cup Background, Start(p, o)
      PROVE  (Attended /\ Unbroken)'
  BY <1>4 DEF Start, UserOps, Background
\* Pausing.
<1>5. ASSUME NEW p \in Procs, PreparePause(p) PROVE (Attended /\ Unbroken)'
  BY <1>5 DEF PreparePause
<1>6. ASSUME NEW p \in Procs,
             \/ CheckReady(p) \/ SkipPause(p) \/ BeforePause(p) \/ BeforePauseFails(p)
      PROVE  (Attended /\ Unbroken)'
  BY <1>6 DEF CheckReady, SkipPause, BeforePause, Wake, By, BeforePauseFails
<1>7. ASSUME NEW p \in Procs,
             \/ SendPause(p) \/ PauseLands(p) \/ PauseSeen(p)
      PROVE  (Attended /\ Unbroken)'
  BY <1>7 DEF SendPause, PauseLands, PauseSeen
<1>8. ASSUME NEW p \in Procs, RecordPaused(p) PROVE (Attended /\ Unbroken)'
  BY <1>8 DEF RecordPaused
\* Resuming.
<1>9. ASSUME NEW p \in Procs,
             \/ SendResume(p) \/ ResumeLands(p) \/ ResumeSeen(p)
      PROVE  (Attended /\ Unbroken)'
  BY <1>9 DEF SendResume, ResumeLands, Wake, By, ResumeSeen
<1>10. ASSUME NEW p \in Procs,
              \/ RecordAccess(p) \/ CallFails(p) \/ WaitTimesOut(p)
       PROVE  (Attended /\ Unbroken)'
  BY <1>10 DEF RecordAccess, CallFails, WaitTimesOut
<1>11. ASSUME NEW p \in Procs,
              \/ SandboxMissing(p) \/ RecordFailure(p)
       PROVE  (Attended /\ Unbroken)'
  BY <1>11 DEF SandboxMissing, RecordFailure
\* Retiring, policy, settings.
<1>12. ASSUME NEW p \in Procs, PrepareRetire(p) PROVE (Attended /\ Unbroken)'
  BY <1>12 DEF PrepareRetire
<1>13. ASSUME NEW p \in Procs,
              \/ StopSupervisor(p) \/ StopSupervisorFails(p) \/ RecordRetired(p)
       PROVE  (Attended /\ Unbroken)'
  BY <1>13 DEF StopSupervisor, Wake, By, StopSupervisorFails, RecordRetired
<1>14. ASSUME NEW p \in Procs, ApplyPolicy(p) PROVE (Attended /\ Unbroken)'
  BY <1>14 DEF ApplyPolicy
<1>15. ASSUME NEW p \in Procs,
              \/ RecordPolicy(p) \/ Update(p)
       PROVE  (Attended /\ Unbroken)'
  BY <1>15 DEF RecordPolicy, Update
\* Access and repair.
<1>16. ASSUME NEW p \in Procs, Admit(p) PROVE (Attended /\ Unbroken)'
  BY <1>16 DEF Admit
<1>17. ASSUME NEW p \in Procs, Operate(p) PROVE (Attended /\ Unbroken)'
  BY <1>17 DEF Operate, By
<1>18. ASSUME NEW p \in Procs,
              \/ OperateFails(p) \/ OperateNeedsRepair(p) \/ RepairByAccess(p)
       PROVE  (Attended /\ Unbroken)'
  BY <1>18 DEF OperateFails, Wake, By, OperateNeedsRepair, RepairByAccess
<1>19. ASSUME NEW p \in Procs,
              \/ RepairPauses(p) \/ RepairFails(p)
       PROVE  (Attended /\ Unbroken)'
  BY <1>19 DEF RepairPauses, RepairFails
\* Provisioning.
<1>20. ASSUME NEW p \in Procs, CheckProvision(p) PROVE (Attended /\ Unbroken)'
  BY <1>20 DEF CheckProvision
<1>21. ASSUME NEW p \in Procs, NEW s \in Sandboxes, Claim(p, s)
       PROVE  (Attended /\ Unbroken)'
  BY <1>21 DEF Claim
<1>22. ASSUME NEW p \in Procs,
              \/ ClaimFails(p) \/ Publish(p) \/ Await(p)
       PROVE  (Attended /\ Unbroken)'
  BY <1>22 DEF ClaimFails, Publish, Await
<1>23. ASSUME NEW p \in Procs,
              \/ MarkReady(p) \/ Cleanup(p) \/ ClearAllocation(p)
       PROVE  (Attended /\ Unbroken)'
  BY <1>23 DEF MarkReady, Cleanup, ClearAllocation
<1>24. ASSUME NEW p \in Procs,
              \/ MarkFailed(p) \/ MarkUpdating(p) \/ MarkProvisioning(p)
       PROVE  (Attended /\ Unbroken)'
  BY <1>24 DEF MarkFailed, MarkUpdating, MarkProvisioning
\* Deleting.
<1>25. ASSUME NEW p \in Procs, PrepareDelete(p) PROVE (Attended /\ Unbroken)'
  BY <1>25 DEF PrepareDelete
<1>26. ASSUME NEW p \in Procs,
              \/ CheckDelete(p) \/ RefuseDelete(p) \/ BeforeDelete(p)
              \/ BeforeDeleteFails(p)
       PROVE  (Attended /\ Unbroken)'
  BY <1>26 DEF CheckDelete, RefuseDelete, BeforeDelete, BeforeDeleteFails
<1>27. ASSUME NEW p \in Procs,
              \/ DeleteSandbox(p) \/ DeleteSandboxFails(p) \/ AfterDelete(p)
       PROVE  (Attended /\ Unbroken)'
  BY <1>27 DEF DeleteSandbox, DeleteSandboxFails, AfterDelete
<1>28. ASSUME NEW p \in Procs,
              \/ DeleteMetadata(p) \/ RecordDeleteFailure(p)
       PROVE  (Attended /\ Unbroken)'
  BY <1>28 DEF DeleteMetadata, RecordDeleteFailure
\* Failures of a process.
<1>29. ASSUME NEW p \in Procs,
              \/ Crash(p) \/ LoseConnection(p)
       PROVE  (Attended /\ Unbroken)'
  BY <1>29 DEF Crash, LoseConnection
<1>30. ASSUME NEW p \in Procs, Abort(p) PROVE (Attended /\ Unbroken)'
  BY <1>30 DEF Abort
\* The environment.
<1>31. ASSUME DeadlinePasses PROVE (Attended /\ Unbroken)'
  BY <1>31 DEF DeadlinePasses
<1>32. ASSUME Touch PROVE (Attended /\ Unbroken)'
  BY <1>32 DEF Touch
<1>33. ASSUME NEW s \in Sandboxes, SyncCredentials(s) PROVE (Attended /\ Unbroken)'
  BY <1>33 DEF SyncCredentials, Wake
<1>34. ASSUME NEW s \in Sandboxes, CloseTerminal(s) PROVE (Attended /\ Unbroken)'
  BY <1>34 DEF CloseTerminal
<1>35. ASSUME NEW k \in {"pause", "resume", "delete"}, NEW s \in Sandboxes, StrayLands(k, s)
       PROVE  (Attended /\ Unbroken)'
  BY <1>35 DEF StrayLands
<1>36. ASSUME UNCHANGED vars PROVE (Attended /\ Unbroken)'
  BY <1>36 DEF vars
<1> QED
  BY <1>1, <1>2, <1>3, <1>4, <1>5, <1>6, <1>7, <1>8, <1>9, <1>10, <1>11, <1>12, <1>13,
       <1>14, <1>15, <1>16, <1>17, <1>18, <1>19, <1>20, <1>21, <1>22, <1>23, <1>24,
       <1>25, <1>26, <1>27, <1>28, <1>29, <1>30, <1>31, <1>32, <1>33, <1>34, <1>35,
       <1>36 DEF Next, Work, Fail, Environment

\* Without failures a Sandbox that exists is the row's or about to be: the claim is
\* published by its claimer (Owned), the row goes after the deletion (PastDeletion).
LEMMA OrphanStep ==
  ASSUME Inductive, Calm, NoOrphan, [Next]_vars
  PROVE  NoOrphan'
<1> SUFFICES ASSUME faults' = 0, faults = 0, Attended, Unbroken, NoOrphan PROVE NoOrphan'
  BY FaultsStep DEF Calm, NoOrphan, Inductive
<1> USE OpsAssumption DEF NoOrphan, Inductive, TypeOK, Goto, Release, Finish, Faulty,
     row, cloud, locks, local, bounds
\* Taking the lock, or not.
<1>1. ASSUME NEW p \in Procs,
             \/ AcquireX(p) \/ AcquireS(p) \/ GiveUp(p)
      PROVE  NoOrphan'
  BY <1>1 DEF AcquireX, AcquireS, GiveUp
<1>2. ASSUME NEW p \in Procs, NEW o \in UserOps \cup Background, Start(p, o)
      PROVE  NoOrphan'
  BY <1>2 DEF Start
\* Pausing.
<1>3. ASSUME NEW p \in Procs, PreparePause(p) PROVE NoOrphan'
  BY <1>3 DEF PreparePause
<1>4. ASSUME NEW p \in Procs,
             \/ CheckReady(p) \/ SkipPause(p) \/ BeforePause(p) \/ BeforePauseFails(p)
      PROVE  NoOrphan'
  BY <1>4 DEF CheckReady, SkipPause, BeforePause, Wake, By, BeforePauseFails
<1>5. ASSUME NEW p \in Procs,
             \/ SendPause(p) \/ PauseLands(p) \/ PauseSeen(p)
      PROVE  NoOrphan'
  BY <1>5 DEF SendPause, PauseLands, PauseSeen
<1>6. ASSUME NEW p \in Procs, RecordPaused(p) PROVE NoOrphan'
  BY <1>6 DEF RecordPaused
\* Resuming.
<1>7. ASSUME NEW p \in Procs,
             \/ SendResume(p) \/ ResumeLands(p) \/ ResumeSeen(p)
      PROVE  NoOrphan'
  BY <1>7 DEF SendResume, ResumeLands, Wake, By, ResumeSeen
<1>8. ASSUME NEW p \in Procs,
             \/ RecordAccess(p) \/ CallFails(p) \/ WaitTimesOut(p)
      PROVE  NoOrphan'
  BY <1>8 DEF RecordAccess, CallFails, WaitTimesOut
<1>9. ASSUME NEW p \in Procs,
             \/ SandboxMissing(p) \/ RecordFailure(p)
      PROVE  NoOrphan'
  BY <1>9 DEF SandboxMissing, RecordFailure
\* Retiring, policy, settings.
<1>10. ASSUME NEW p \in Procs, PrepareRetire(p) PROVE NoOrphan'
  BY <1>10 DEF PrepareRetire
<1>11. ASSUME NEW p \in Procs,
              \/ StopSupervisor(p) \/ StopSupervisorFails(p) \/ RecordRetired(p)
       PROVE  NoOrphan'
  BY <1>11 DEF StopSupervisor, Wake, By, StopSupervisorFails, RecordRetired
<1>12. ASSUME NEW p \in Procs, ApplyPolicy(p) PROVE NoOrphan'
  BY <1>12 DEF ApplyPolicy
<1>13. ASSUME NEW p \in Procs,
              \/ RecordPolicy(p) \/ Update(p)
       PROVE  NoOrphan'
  BY <1>13 DEF RecordPolicy, Update
\* Access and repair.
<1>14. ASSUME NEW p \in Procs, Admit(p) PROVE NoOrphan'
  BY <1>14 DEF Admit
<1>15. ASSUME NEW p \in Procs, Operate(p) PROVE NoOrphan'
  BY <1>15 DEF Operate, By
<1>16. ASSUME NEW p \in Procs,
              \/ OperateFails(p) \/ OperateNeedsRepair(p) \/ RepairByAccess(p)
       PROVE  NoOrphan'
  BY <1>16 DEF OperateFails, Wake, By, OperateNeedsRepair, RepairByAccess
<1>17. ASSUME NEW p \in Procs,
              \/ RepairPauses(p) \/ RepairFails(p)
       PROVE  NoOrphan'
  BY <1>17 DEF RepairPauses, RepairFails
\* Provisioning.
<1>18. ASSUME NEW p \in Procs, CheckProvision(p) PROVE NoOrphan'
  BY <1>18 DEF CheckProvision
<1>19. ASSUME NEW p \in Procs, NEW s \in Sandboxes, Claim(p, s) PROVE NoOrphan'
  BY <1>19 DEF Claim, Targeted, TargetPlaces
<1>20. ASSUME NEW p \in Procs, ClaimFails(p) PROVE NoOrphan'
  BY <1>20 DEF ClaimFails
<1>21. ASSUME NEW p \in Procs, Publish(p) PROVE NoOrphan'
  BY <1>21 DEF Publish, Owned, Attended, SharedOps, ExclusiveOps, Outside
<1>22. ASSUME NEW p \in Procs, Await(p) PROVE NoOrphan'
  BY <1>22 DEF Await
<1>23. ASSUME NEW p \in Procs, MarkReady(p) PROVE NoOrphan'
  BY <1>23 DEF MarkReady, Owned, Attended, SharedOps, ExclusiveOps, Outside
<1>24. ASSUME NEW p \in Procs, Cleanup(p) PROVE NoOrphan'
  BY <1>24 DEF Cleanup, Unbroken
<1>25. ASSUME NEW p \in Procs, ClearAllocation(p) PROVE NoOrphan'
  BY <1>25 DEF ClearAllocation, Unbroken
<1>26. ASSUME NEW p \in Procs,
              \/ MarkFailed(p) \/ MarkUpdating(p) \/ MarkProvisioning(p)
       PROVE  NoOrphan'
  BY <1>26 DEF MarkFailed, MarkUpdating, MarkProvisioning
\* Deleting.
<1>27. ASSUME NEW p \in Procs, PrepareDelete(p) PROVE NoOrphan'
  BY <1>27 DEF PrepareDelete
<1>28. ASSUME NEW p \in Procs,
              \/ CheckDelete(p) \/ RefuseDelete(p) \/ BeforeDelete(p)
              \/ BeforeDeleteFails(p)
       PROVE  NoOrphan'
  BY <1>28 DEF CheckDelete, RefuseDelete, BeforeDelete, BeforeDeleteFails
<1>29. ASSUME NEW p \in Procs,
              \/ DeleteSandbox(p) \/ DeleteSandboxFails(p) \/ AfterDelete(p)
       PROVE  NoOrphan'
  BY <1>29 DEF DeleteSandbox, DeleteSandboxFails, AfterDelete
<1>30. ASSUME NEW p \in Procs, DeleteMetadata(p) PROVE NoOrphan'
  BY <1>30 DEF DeleteMetadata, Owned, PastDeletion, Attended, Outside, Holds
<1>31. ASSUME NEW p \in Procs, RecordDeleteFailure(p) PROVE NoOrphan'
  BY <1>31 DEF RecordDeleteFailure
\* Failures of a process.
<1>32. ASSUME NEW p \in Procs,
              \/ Crash(p) \/ LoseConnection(p)
       PROVE  NoOrphan'
  BY <1>32 DEF Crash, LoseConnection
<1>33. ASSUME NEW p \in Procs, Abort(p) PROVE NoOrphan'
  BY <1>33 DEF Abort, Attended, Outside, Holds
\* The environment.
<1>34. ASSUME DeadlinePasses PROVE NoOrphan'
  BY <1>34 DEF DeadlinePasses
<1>35. ASSUME Touch PROVE NoOrphan'
  BY <1>35 DEF Touch
<1>36. ASSUME NEW s \in Sandboxes, SyncCredentials(s) PROVE NoOrphan'
  BY <1>36 DEF SyncCredentials, Wake
<1>37. ASSUME NEW s \in Sandboxes, CloseTerminal(s) PROVE NoOrphan'
  BY <1>37 DEF CloseTerminal
<1>38. ASSUME NEW k \in {"pause", "resume", "delete"}, NEW s \in Sandboxes, StrayLands(k, s)
       PROVE  NoOrphan'
  BY <1>38 DEF StrayLands, Unbroken
<1>39. ASSUME UNCHANGED vars PROVE NoOrphan'
  BY <1>39 DEF vars
<1> QED
  BY <1>1, <1>2, <1>3, <1>4, <1>5, <1>6, <1>7, <1>8, <1>9, <1>10, <1>11, <1>12, <1>13,
       <1>14, <1>15, <1>16, <1>17, <1>18, <1>19, <1>20, <1>21, <1>22, <1>23, <1>24,
       <1>25, <1>26, <1>27, <1>28, <1>29, <1>30, <1>31, <1>32, <1>33, <1>34, <1>35,
       <1>36, <1>37, <1>38, <1>39 DEF Next, Work, Fail, Environment

\* Without failures a step that pauses or deletes a Sandbox is its holder's: no access
\* is under way beside it.
LEMMA UndisturbedStep ==
  ASSUME Inductive, Calm, [Next]_vars, faults' = 0,
         NEW q \in Procs, pc[q] = "operating", sb[rt[q]] = "running"
  PROVE  sb'[rt[q]] = "running"
<1>0. faults = 0 /\ Attended /\ Unbroken
  BY FaultsStep DEF Calm, Inductive
<1>q. lockX = NoProc /\ rt[q] \in Sandboxes
  BY <1>0, OpsAssumption DEF Attended, Outside, Inductive, LockExclusion, Targeted,
       TargetPlaces, TypeOK
<1> USE <1>0, <1>q, OpsAssumption DEF Inductive, TypeOK, Goto, Release, Finish, Faulty,
     row, cloud, locks, local, bounds
\* Taking the lock, or not.
<1>1. ASSUME NEW p \in Procs,
             \/ AcquireX(p) \/ AcquireS(p) \/ GiveUp(p)
      PROVE  sb'[rt[q]] = "running"
  BY <1>1 DEF AcquireX, AcquireS, GiveUp
<1>2. ASSUME NEW p \in Procs, NEW o \in UserOps \cup Background, Start(p, o)
      PROVE  sb'[rt[q]] = "running"
  BY <1>2 DEF Start
\* Pausing.
<1>3. ASSUME NEW p \in Procs,
             \/ PreparePause(p) \/ CheckReady(p) \/ SkipPause(p) \/ BeforePause(p)
             \/ BeforePauseFails(p)
      PROVE  sb'[rt[q]] = "running"
  BY <1>3 DEF PreparePause, CheckReady, SkipPause, BeforePause, Wake, By, BeforePauseFails
<1>4. ASSUME NEW p \in Procs, SendPause(p) PROVE sb'[rt[q]] = "running"
  BY <1>4 DEF SendPause
<1>5. ASSUME NEW p \in Procs, PauseLands(p) PROVE sb'[rt[q]] = "running"
  BY <1>5 DEF PauseLands, Attended, Outside
<1>6. ASSUME NEW p \in Procs,
             \/ PauseSeen(p) \/ RecordPaused(p)
      PROVE  sb'[rt[q]] = "running"
  BY <1>6 DEF PauseSeen, RecordPaused
\* Resuming.
<1>7. ASSUME NEW p \in Procs,
             \/ SendResume(p) \/ ResumeLands(p) \/ ResumeSeen(p) \/ RecordAccess(p)
      PROVE  sb'[rt[q]] = "running"
  BY <1>7 DEF SendResume, ResumeLands, Wake, By, ResumeSeen, RecordAccess
<1>8. ASSUME NEW p \in Procs,
             \/ CallFails(p) \/ WaitTimesOut(p) \/ SandboxMissing(p) \/ RecordFailure(p)
      PROVE  sb'[rt[q]] = "running"
  BY <1>8 DEF CallFails, WaitTimesOut, SandboxMissing, RecordFailure
\* Retiring, policy, settings.
<1>9. ASSUME NEW p \in Procs,
             \/ PrepareRetire(p) \/ StopSupervisor(p) \/ StopSupervisorFails(p)
             \/ RecordRetired(p)
      PROVE  sb'[rt[q]] = "running"
  BY <1>9 DEF PrepareRetire, StopSupervisor, Wake, By, StopSupervisorFails,
       RecordRetired
<1>10. ASSUME NEW p \in Procs,
              \/ ApplyPolicy(p) \/ RecordPolicy(p) \/ Update(p)
       PROVE  sb'[rt[q]] = "running"
  BY <1>10 DEF ApplyPolicy, RecordPolicy, Update
\* Access and repair.
<1>11. ASSUME NEW p \in Procs,
              \/ Admit(p) \/ Operate(p) \/ OperateFails(p) \/ OperateNeedsRepair(p)
       PROVE  sb'[rt[q]] = "running"
  BY <1>11 DEF Admit, Operate, By, OperateFails, Wake, OperateNeedsRepair
<1>12. ASSUME NEW p \in Procs, RepairByAccess(p) PROVE sb'[rt[q]] = "running"
  BY <1>12 DEF RepairByAccess, Wake, By
<1>13. ASSUME NEW p \in Procs, RepairPauses(p) PROVE sb'[rt[q]] = "running"
  BY <1>13 DEF RepairPauses, Unbroken
<1>14. ASSUME NEW p \in Procs, RepairFails(p) PROVE sb'[rt[q]] = "running"
  BY <1>14 DEF RepairFails
\* Provisioning.
<1>15. ASSUME NEW p \in Procs, CheckProvision(p) PROVE sb'[rt[q]] = "running"
  BY <1>15 DEF CheckProvision
<1>16. ASSUME NEW p \in Procs, NEW s \in Sandboxes, Claim(p, s)
       PROVE  sb'[rt[q]] = "running"
  BY <1>16 DEF Claim
<1>17. ASSUME NEW p \in Procs,
              \/ ClaimFails(p) \/ Publish(p) \/ Await(p) \/ MarkReady(p)
       PROVE  sb'[rt[q]] = "running"
  BY <1>17 DEF ClaimFails, Publish, Await, MarkReady
<1>18. ASSUME NEW p \in Procs, Cleanup(p) PROVE sb'[rt[q]] = "running"
  BY <1>18 DEF Cleanup, Unbroken
<1>19. ASSUME NEW p \in Procs,
              \/ ClearAllocation(p) \/ MarkFailed(p) \/ MarkUpdating(p)
              \/ MarkProvisioning(p)
       PROVE  sb'[rt[q]] = "running"
  BY <1>19 DEF ClearAllocation, MarkFailed, MarkUpdating, MarkProvisioning
\* Deleting.
<1>20. ASSUME NEW p \in Procs,
              \/ PrepareDelete(p) \/ CheckDelete(p) \/ RefuseDelete(p) \/ BeforeDelete(p)
              \/ BeforeDeleteFails(p)
       PROVE  sb'[rt[q]] = "running"
  BY <1>20 DEF PrepareDelete, CheckDelete, RefuseDelete, BeforeDelete, BeforeDeleteFails
<1>21. ASSUME NEW p \in Procs, DeleteSandbox(p) PROVE sb'[rt[q]] = "running"
  BY <1>21 DEF DeleteSandbox, Attended, Outside
<1>22. ASSUME NEW p \in Procs,
              \/ DeleteSandboxFails(p) \/ AfterDelete(p) \/ DeleteMetadata(p)
              \/ RecordDeleteFailure(p)
       PROVE  sb'[rt[q]] = "running"
  BY <1>22 DEF DeleteSandboxFails, AfterDelete, DeleteMetadata, RecordDeleteFailure
\* Failures of a process.
<1>23. ASSUME NEW p \in Procs,
              \/ Crash(p) \/ LoseConnection(p) \/ Abort(p)
       PROVE  sb'[rt[q]] = "running"
  BY <1>23 DEF Crash, LoseConnection, Abort
\* The environment.
<1>24. ASSUME DeadlinePasses PROVE sb'[rt[q]] = "running"
  BY <1>24 DEF DeadlinePasses
<1>25. ASSUME Touch PROVE sb'[rt[q]] = "running"
  BY <1>25 DEF Touch
<1>26. ASSUME NEW s \in Sandboxes, SyncCredentials(s) PROVE sb'[rt[q]] = "running"
  BY <1>26 DEF SyncCredentials, Wake
<1>27. ASSUME NEW s \in Sandboxes, CloseTerminal(s) PROVE sb'[rt[q]] = "running"
  BY <1>27 DEF CloseTerminal
<1>28. ASSUME NEW k \in {"pause", "resume", "delete"}, NEW s \in Sandboxes, StrayLands(k, s)
       PROVE  sb'[rt[q]] = "running"
  BY <1>28 DEF StrayLands, Unbroken
<1>29. ASSUME UNCHANGED vars PROVE sb'[rt[q]] = "running"
  BY <1>29 DEF vars
<1> QED
  BY <1>1, <1>2, <1>3, <1>4, <1>5, <1>6, <1>7, <1>8, <1>9, <1>10, <1>11, <1>12, <1>13,
       <1>14, <1>15, <1>16, <1>17, <1>18, <1>19, <1>20, <1>21, <1>22, <1>23, <1>24,
       <1>25, <1>26, <1>27, <1>28, <1>29 DEF Next, Work, Fail, Environment

\* Only a retry by the user takes the places that write without the lock.
LEMMA NoRetryStep ==
  ASSUME "reprovision" \notin Ops, TypeOK, NoRetry, [Next]_vars
  PROVE  NoRetry'
<1> USE DEF TypeOK, NoRetry, Goto, Release, Finish, local
\* Taking the lock, or not.
<1>1. ASSUME NEW p \in Procs,
             \/ AcquireX(p) \/ AcquireS(p) \/ GiveUp(p)
      PROVE  NoRetry'
  BY <1>1 DEF AcquireX, AcquireS, GiveUp
<1>2. ASSUME NEW p \in Procs, NEW o \in UserOps \cup Background, Start(p, o)
      PROVE  NoRetry'
  BY <1>2 DEF Start
\* Pausing.
<1>3. ASSUME NEW p \in Procs,
             \/ PreparePause(p) \/ CheckReady(p) \/ SkipPause(p) \/ BeforePause(p)
             \/ BeforePauseFails(p)
      PROVE  NoRetry'
  BY <1>3 DEF PreparePause, CheckReady, SkipPause, BeforePause, Wake, By, BeforePauseFails
<1>4. ASSUME NEW p \in Procs,
             \/ SendPause(p) \/ PauseLands(p) \/ PauseSeen(p) \/ RecordPaused(p)
      PROVE  NoRetry'
  BY <1>4 DEF SendPause, PauseLands, PauseSeen, RecordPaused
\* Resuming.
<1>5. ASSUME NEW p \in Procs,
             \/ SendResume(p) \/ ResumeLands(p) \/ ResumeSeen(p) \/ RecordAccess(p)
      PROVE  NoRetry'
  BY <1>5 DEF SendResume, ResumeLands, Wake, By, ResumeSeen, RecordAccess
<1>6. ASSUME NEW p \in Procs,
             \/ CallFails(p) \/ WaitTimesOut(p) \/ SandboxMissing(p) \/ RecordFailure(p)
      PROVE  NoRetry'
  BY <1>6 DEF CallFails, WaitTimesOut, SandboxMissing, RecordFailure
\* Retiring, policy, settings.
<1>7. ASSUME NEW p \in Procs,
             \/ PrepareRetire(p) \/ StopSupervisor(p) \/ StopSupervisorFails(p)
             \/ RecordRetired(p)
      PROVE  NoRetry'
  BY <1>7 DEF PrepareRetire, StopSupervisor, Wake, By, StopSupervisorFails,
       RecordRetired
<1>8. ASSUME NEW p \in Procs,
             \/ ApplyPolicy(p) \/ RecordPolicy(p) \/ Update(p)
      PROVE  NoRetry'
  BY <1>8 DEF ApplyPolicy, RecordPolicy, Update
\* Access and repair.
<1>9. ASSUME NEW p \in Procs,
             \/ Admit(p) \/ Operate(p) \/ OperateFails(p) \/ OperateNeedsRepair(p)
      PROVE  NoRetry'
  BY <1>9 DEF Admit, Operate, By, OperateFails, Wake, OperateNeedsRepair
<1>10. ASSUME NEW p \in Procs,
              \/ RepairByAccess(p) \/ RepairPauses(p) \/ RepairFails(p)
       PROVE  NoRetry'
  BY <1>10 DEF RepairByAccess, Wake, By, RepairPauses, RepairFails
\* Provisioning.
<1>11. ASSUME NEW p \in Procs, CheckProvision(p) PROVE NoRetry'
  BY <1>11 DEF CheckProvision
<1>12. ASSUME NEW p \in Procs, NEW s \in Sandboxes, Claim(p, s) PROVE NoRetry'
  BY <1>12 DEF Claim
<1>13. ASSUME NEW p \in Procs,
              \/ ClaimFails(p) \/ Publish(p) \/ Await(p) \/ MarkReady(p)
       PROVE  NoRetry'
  BY <1>13 DEF ClaimFails, Publish, Await, MarkReady
<1>14. ASSUME NEW p \in Procs,
              \/ Cleanup(p) \/ ClearAllocation(p) \/ MarkFailed(p) \/ MarkUpdating(p)
       PROVE  NoRetry'
  BY <1>14 DEF Cleanup, ClearAllocation, MarkFailed, MarkUpdating
<1>15. ASSUME NEW p \in Procs, MarkProvisioning(p) PROVE NoRetry'
  BY <1>15 DEF MarkProvisioning
\* Deleting.
<1>16. ASSUME NEW p \in Procs,
              \/ PrepareDelete(p) \/ CheckDelete(p) \/ RefuseDelete(p) \/ BeforeDelete(p)
              \/ BeforeDeleteFails(p)
       PROVE  NoRetry'
  BY <1>16 DEF PrepareDelete, CheckDelete, RefuseDelete, BeforeDelete, BeforeDeleteFails
<1>17. ASSUME NEW p \in Procs,
              \/ DeleteSandbox(p) \/ DeleteSandboxFails(p) \/ AfterDelete(p)
              \/ DeleteMetadata(p)
       PROVE  NoRetry'
  BY <1>17 DEF DeleteSandbox, DeleteSandboxFails, AfterDelete, DeleteMetadata
<1>18. ASSUME NEW p \in Procs, RecordDeleteFailure(p) PROVE NoRetry'
  BY <1>18 DEF RecordDeleteFailure
\* Failures of a process.
<1>19. ASSUME NEW p \in Procs,
              \/ Crash(p) \/ LoseConnection(p) \/ Abort(p)
       PROVE  NoRetry'
  BY <1>19 DEF Crash, LoseConnection, Abort
\* The environment.
<1>20. ASSUME DeadlinePasses PROVE NoRetry'
  BY <1>20 DEF DeadlinePasses
<1>21. ASSUME Touch PROVE NoRetry'
  BY <1>21 DEF Touch
<1>22. ASSUME NEW s \in Sandboxes, SyncCredentials(s) PROVE NoRetry'
  BY <1>22 DEF SyncCredentials, Wake
<1>23. ASSUME NEW s \in Sandboxes, CloseTerminal(s) PROVE NoRetry'
  BY <1>23 DEF CloseTerminal
<1>24. ASSUME NEW k \in {"pause", "resume", "delete"}, NEW s \in Sandboxes, StrayLands(k, s)
       PROVE  NoRetry'
  BY <1>24 DEF StrayLands
<1>25. ASSUME UNCHANGED vars PROVE NoRetry'
  BY <1>25 DEF vars
<1> QED
  BY <1>1, <1>2, <1>3, <1>4, <1>5, <1>6, <1>7, <1>8, <1>9, <1>10, <1>11, <1>12, <1>13,
       <1>14, <1>15, <1>16, <1>17, <1>18, <1>19, <1>20, <1>21, <1>22, <1>23, <1>24,
       <1>25 DEF Next, Work, Fail, Environment

\* The Sandbox a holder of the lock works on is the row's, in the state its place says.
LEMMA KnownStep ==
  ASSUME Inductive, Calm, Timed, [Next]_vars, faults' = 0
  PROVE  KnownState'
<1>0. faults = 0 /\ Attended /\ Unbroken /\ NoRetry /\ KnownState /\ ReadyState
  BY FaultsStep DEF Calm, Inductive, Timed
<1> USE <1>0, OpsAssumption DEF Inductive, TypeOK, LockExclusion, SharedPlaces,
     Targeted, TargetPlaces, Owned, KnownState, Settled, Attended, Outside, Unbroken,
     SharedOps, ExclusiveOps, Goto, Release, Finish, Faulty, row, cloud, locks, local,
     bounds
\* Taking the lock, or not.
<1>1. ASSUME NEW p \in Procs, AcquireX(p) PROVE KnownState'
  BY <1>1 DEF AcquireX, ExclusiveFree
<1>2. ASSUME NEW p \in Procs, AcquireS(p) PROVE KnownState'
  BY <1>2 DEF AcquireS, SharedFree
<1>3. ASSUME NEW p \in Procs, GiveUp(p) PROVE KnownState'
  BY <1>3 DEF GiveUp
<1>4. ASSUME NEW p \in Procs, NEW o \in UserOps \cup Background, Start(p, o)
      PROVE  KnownState'
  BY <1>4 DEF Start, UserOps, Background
\* Pausing.
<1>5. ASSUME NEW p \in Procs, PreparePause(p) PROVE KnownState'
  BY <1>5 DEF PreparePause, MayPause, WantsIdlePause, ReadyState
<1>6. ASSUME NEW p \in Procs, CheckReady(p) \/ SkipPause(p) PROVE KnownState'
  BY <1>6 DEF CheckReady, SkipPause
<1>7. ASSUME NEW p \in Procs, BeforePause(p) PROVE KnownState'
  BY <1>7 DEF BeforePause, Wake, By
<1>8. ASSUME NEW p \in Procs, BeforePauseFails(p) PROVE KnownState'
  BY <1>8 DEF BeforePauseFails, Wake, By
<1>9. ASSUME NEW p \in Procs, SendPause(p) PROVE KnownState'
  BY <1>9 DEF SendPause
<1>10. ASSUME NEW p \in Procs, PauseLands(p) PROVE KnownState'
  BY <1>10 DEF PauseLands
<1>11. ASSUME NEW p \in Procs, PauseSeen(p) PROVE KnownState'
  BY <1>11 DEF PauseSeen
<1>12. ASSUME NEW p \in Procs, RecordPaused(p) PROVE KnownState'
  BY <1>12 DEF RecordPaused, PauseSettled
\* Resuming.
<1>13. ASSUME NEW p \in Procs, SendResume(p) PROVE KnownState'
  BY <1>13 DEF SendResume
<1>14. ASSUME NEW p \in Procs, ResumeLands(p) PROVE KnownState'
  BY <1>14 DEF ResumeLands, Wake, By
<1>15. ASSUME NEW p \in Procs, ResumeSeen(p) PROVE KnownState'
  BY <1>15 DEF ResumeSeen
<1>16. ASSUME NEW p \in Procs, RecordAccess(p) PROVE KnownState'
  BY <1>16 DEF RecordAccess, Holds
<1>17. ASSUME NEW p \in Procs, CallFails(p) PROVE KnownState'
  BY <1>17 DEF CallFails
<1>18. ASSUME NEW p \in Procs, WaitTimesOut(p) PROVE KnownState'
  BY <1>18 DEF WaitTimesOut
<1>19. ASSUME NEW p \in Procs, SandboxMissing(p) PROVE KnownState'
  BY <1>19 DEF SandboxMissing
<1>20. ASSUME NEW p \in Procs, RecordFailure(p) PROVE KnownState'
  BY <1>20 DEF RecordFailure
\* Retiring, policy, settings.
<1>21. ASSUME NEW p \in Procs, PrepareRetire(p) PROVE KnownState'
  BY <1>21 DEF PrepareRetire, RestoresPause, ReadyState
<1>22. ASSUME NEW p \in Procs, StopSupervisor(p) PROVE KnownState'
  BY <1>22 DEF StopSupervisor, Wake, By
<1>23. ASSUME NEW p \in Procs,
              \/ StopSupervisorFails(p) \/ RecordRetired(p)
       PROVE  KnownState'
  BY <1>23 DEF StopSupervisorFails, Wake, By, RecordRetired
<1>24. ASSUME NEW p \in Procs, ApplyPolicy(p) PROVE KnownState'
  BY <1>24 DEF ApplyPolicy
<1>25. ASSUME NEW p \in Procs, RecordPolicy(p) PROVE KnownState'
  BY <1>25 DEF RecordPolicy
<1>26. ASSUME NEW p \in Procs, Update(p) PROVE KnownState'
  BY <1>26 DEF Update, Holds
\* Access and repair.
<1>27. ASSUME NEW p \in Procs, Admit(p) PROVE KnownState'
  BY <1>27 DEF Admit, Accessible
<1>28. ASSUME NEW p \in Procs, Operate(p) PROVE KnownState'
  BY <1>28 DEF Operate, By
<1>29. ASSUME NEW p \in Procs,
              \/ OperateFails(p) \/ OperateNeedsRepair(p)
       PROVE  KnownState'
  BY <1>29 DEF OperateFails, Wake, By, OperateNeedsRepair
<1>30. ASSUME NEW p \in Procs,
              \/ RepairByAccess(p) \/ RepairPauses(p)
       PROVE  KnownState'
  BY <1>30 DEF RepairByAccess, Wake, By, RepairPauses
<1>31. ASSUME NEW p \in Procs, RepairFails(p) PROVE KnownState'
  BY <1>31 DEF RepairFails
\* Provisioning.
<1>32. ASSUME NEW p \in Procs, CheckProvision(p) PROVE KnownState'
  BY <1>32 DEF CheckProvision
<1>33. ASSUME NEW p \in Procs, NEW s \in Sandboxes, Claim(p, s) PROVE KnownState'
  BY <1>33 DEF Claim
<1>34. ASSUME NEW p \in Procs, ClaimFails(p) PROVE KnownState'
  BY <1>34 DEF ClaimFails
<1>35. ASSUME NEW p \in Procs, Publish(p) PROVE KnownState'
  BY <1>35 DEF Publish
<1>36. ASSUME NEW p \in Procs, Await(p) PROVE KnownState'
  BY <1>36 DEF Await
<1>37. ASSUME NEW p \in Procs, MarkReady(p) PROVE KnownState'
  BY <1>37 DEF MarkReady
<1>38. ASSUME NEW p \in Procs,
              \/ Cleanup(p) \/ ClearAllocation(p)
       PROVE  KnownState'
  BY <1>38 DEF Cleanup, ClearAllocation
<1>39. ASSUME NEW p \in Procs,
              \/ MarkFailed(p) \/ MarkUpdating(p)
       PROVE  KnownState'
  BY <1>39 DEF MarkFailed, MarkUpdating, NoRetry
<1>40. ASSUME NEW p \in Procs, MarkProvisioning(p) PROVE KnownState'
  BY <1>40 DEF MarkProvisioning, NoRetry
\* Deleting.
<1>41. ASSUME NEW p \in Procs, PrepareDelete(p) PROVE KnownState'
  BY <1>41 DEF PrepareDelete
<1>42. ASSUME NEW p \in Procs,
              \/ CheckDelete(p) \/ RefuseDelete(p) \/ BeforeDelete(p)
       PROVE  KnownState'
  BY <1>42 DEF CheckDelete, RefuseDelete, BeforeDelete
<1>43. ASSUME NEW p \in Procs, BeforeDeleteFails(p) PROVE KnownState'
  BY <1>43 DEF BeforeDeleteFails
<1>44. ASSUME NEW p \in Procs, DeleteSandbox(p) PROVE KnownState'
  BY <1>44 DEF DeleteSandbox
<1>45. ASSUME NEW p \in Procs,
              \/ DeleteSandboxFails(p) \/ AfterDelete(p)
       PROVE  KnownState'
  BY <1>45 DEF DeleteSandboxFails, AfterDelete
<1>46. ASSUME NEW p \in Procs,
              \/ DeleteMetadata(p) \/ RecordDeleteFailure(p)
       PROVE  KnownState'
  BY <1>46 DEF DeleteMetadata, RecordDeleteFailure
\* Failures of a process.
<1>47. ASSUME NEW p \in Procs,
              \/ Crash(p) \/ LoseConnection(p)
       PROVE  KnownState'
  BY <1>47 DEF Crash, LoseConnection
<1>48. ASSUME NEW p \in Procs, Abort(p) PROVE KnownState'
  BY <1>48 DEF Abort
\* The environment.
<1>49. ASSUME DeadlinePasses PROVE KnownState'
  BY <1>49 DEF DeadlinePasses
<1>50. ASSUME Touch PROVE KnownState'
  BY <1>50 DEF Touch
<1>51. ASSUME NEW s \in Sandboxes, SyncCredentials(s) PROVE KnownState'
  BY <1>51 DEF SyncCredentials, Wake
<1>52. ASSUME NEW s \in Sandboxes, CloseTerminal(s) PROVE KnownState'
  BY <1>52 DEF CloseTerminal
<1>53. ASSUME NEW k \in {"pause", "resume", "delete"}, NEW s \in Sandboxes, StrayLands(k, s)
       PROVE  KnownState'
  BY <1>53 DEF StrayLands
<1>54. ASSUME UNCHANGED vars PROVE KnownState'
  BY <1>54 DEF vars
<1> HIDE DEF KnownState, Inductive, TypeOK, Settled, Attended, SharedPlaces, Targeted,
     Owned, Unbroken, LockExclusion
<1> QED
  BY <1>1, <1>2, <1>3, <1>4, <1>5, <1>6, <1>7, <1>8, <1>9, <1>10, <1>11, <1>12, <1>13,
       <1>14, <1>15, <1>16, <1>17, <1>18, <1>19, <1>20, <1>21, <1>22, <1>23, <1>24,
       <1>25, <1>26, <1>27, <1>28, <1>29, <1>30, <1>31, <1>32, <1>33, <1>34, <1>35,
       <1>36, <1>37, <1>38, <1>39, <1>40, <1>41, <1>42, <1>43, <1>44, <1>45, <1>46,
       <1>47, <1>48, <1>49, <1>50, <1>51, <1>52, <1>53, <1>54 DEF Next, Work, Fail,
       Environment

\* A ready row keeps its deadline, or a Sandbox that is settled or under way to a record.
LEMMA ReadyStep ==
  ASSUME Inductive, Calm, Timed, [Next]_vars, faults' = 0
  PROVE  ReadyState'
<1>0. faults = 0 /\ Attended /\ Unbroken /\ NoRetry /\ KnownState /\ ReadyState
  BY FaultsStep DEF Calm, Inductive, Timed
<1> USE <1>0, OpsAssumption DEF Inductive, TypeOK, LockExclusion, SharedPlaces,
     Targeted, TargetPlaces, Owned, KnownState, ReadyState, Waking, Settled, Attended,
     Outside, Unbroken, SharedOps, ExclusiveOps, Goto, Release, Finish, Faulty, row,
     cloud, locks, local, bounds
\* Taking the lock, or not.
<1>1. ASSUME NEW p \in Procs, AcquireX(p) PROVE ReadyState'
  BY <1>1 DEF AcquireX, ExclusiveFree
<1>2. ASSUME NEW p \in Procs, AcquireS(p) PROVE ReadyState'
  BY <1>2 DEF AcquireS, SharedFree
<1>3. ASSUME NEW p \in Procs, GiveUp(p) PROVE ReadyState'
  BY <1>3 DEF GiveUp
<1>4. ASSUME NEW p \in Procs, NEW o \in UserOps \cup Background, Start(p, o)
      PROVE  ReadyState'
  BY <1>4 DEF Start, UserOps, Background
\* Pausing.
<1>5. ASSUME NEW p \in Procs, PreparePause(p) PROVE ReadyState'
  BY <1>5 DEF PreparePause, MayPause, WantsIdlePause
<1>6. ASSUME NEW p \in Procs, CheckReady(p) \/ SkipPause(p) PROVE ReadyState'
  BY <1>6 DEF CheckReady, SkipPause
<1>7. ASSUME NEW p \in Procs, BeforePause(p) PROVE ReadyState'
  BY <1>7 DEF BeforePause, Wake, By
<1>8. ASSUME NEW p \in Procs, BeforePauseFails(p) PROVE ReadyState'
  BY <1>8 DEF BeforePauseFails, Wake, By
<1>9. ASSUME NEW p \in Procs, SendPause(p) PROVE ReadyState'
  BY <1>9 DEF SendPause
<1>10. ASSUME NEW p \in Procs, PauseLands(p) PROVE ReadyState'
  BY <1>10 DEF PauseLands
<1>11. ASSUME NEW p \in Procs, PauseSeen(p) PROVE ReadyState'
  BY <1>11 DEF PauseSeen
<1>12. ASSUME NEW p \in Procs, RecordPaused(p) PROVE ReadyState'
  BY <1>12 DEF RecordPaused, PauseSettled
\* Resuming.
<1>13. ASSUME NEW p \in Procs, SendResume(p) PROVE ReadyState'
  BY <1>13 DEF SendResume
<1>14. ASSUME NEW p \in Procs, ResumeLands(p) PROVE ReadyState'
  BY <1>14 DEF ResumeLands, Wake, By
<1>15. ASSUME NEW p \in Procs, ResumeSeen(p) PROVE ReadyState'
  BY <1>15 DEF ResumeSeen
<1>16. ASSUME NEW p \in Procs, RecordAccess(p) PROVE ReadyState'
  BY <1>16 DEF RecordAccess, Holds, Window
<1>17. ASSUME NEW p \in Procs, CallFails(p) PROVE ReadyState'
  BY <1>17 DEF CallFails
<1>18. ASSUME NEW p \in Procs, WaitTimesOut(p) PROVE ReadyState'
  BY <1>18 DEF WaitTimesOut
<1>19. ASSUME NEW p \in Procs, SandboxMissing(p) PROVE ReadyState'
  BY <1>19 DEF SandboxMissing
<1>20. ASSUME NEW p \in Procs, RecordFailure(p) PROVE ReadyState'
  BY <1>20 DEF RecordFailure
\* Retiring, policy, settings.
<1>21. ASSUME NEW p \in Procs, PrepareRetire(p) PROVE ReadyState'
  BY <1>21 DEF PrepareRetire, RestoresPause
<1>22. ASSUME NEW p \in Procs, StopSupervisor(p) PROVE ReadyState'
  BY <1>22 DEF StopSupervisor, Wake, By
<1>23. ASSUME NEW p \in Procs,
              \/ StopSupervisorFails(p) \/ RecordRetired(p)
       PROVE  ReadyState'
  BY <1>23 DEF StopSupervisorFails, Wake, By, RecordRetired
<1>24. ASSUME NEW p \in Procs, ApplyPolicy(p) PROVE ReadyState'
  BY <1>24 DEF ApplyPolicy
<1>25. ASSUME NEW p \in Procs, RecordPolicy(p) PROVE ReadyState'
  BY <1>25 DEF RecordPolicy
<1>26. ASSUME NEW p \in Procs, Update(p) PROVE ReadyState'
  BY <1>26 DEF Update, Holds
\* Access and repair.
<1>27. ASSUME NEW p \in Procs, Admit(p) PROVE ReadyState'
  BY <1>27 DEF Admit, Accessible
<1>28. ASSUME NEW p \in Procs, Operate(p) PROVE ReadyState'
  BY <1>28 DEF Operate, By
<1>29. ASSUME NEW p \in Procs,
              \/ OperateFails(p) \/ OperateNeedsRepair(p)
       PROVE  ReadyState'
  BY <1>29 DEF OperateFails, Wake, By, OperateNeedsRepair
<1>30. ASSUME NEW p \in Procs,
              \/ RepairByAccess(p) \/ RepairPauses(p)
       PROVE  ReadyState'
  BY <1>30 DEF RepairByAccess, Wake, By, RepairPauses
<1>31. ASSUME NEW p \in Procs, RepairFails(p) PROVE ReadyState'
  BY <1>31 DEF RepairFails
\* Provisioning.
<1>32. ASSUME NEW p \in Procs, CheckProvision(p) PROVE ReadyState'
  BY <1>32 DEF CheckProvision
<1>33. ASSUME NEW p \in Procs, NEW s \in Sandboxes, Claim(p, s) PROVE ReadyState'
  BY <1>33 DEF Claim
<1>34. ASSUME NEW p \in Procs, ClaimFails(p) PROVE ReadyState'
  BY <1>34 DEF ClaimFails
<1>35. ASSUME NEW p \in Procs, Publish(p) PROVE ReadyState'
  BY <1>35 DEF Publish
<1>36. ASSUME NEW p \in Procs, Await(p) PROVE ReadyState'
  BY <1>36 DEF Await
<1>37. ASSUME NEW p \in Procs, MarkReady(p) PROVE ReadyState'
  BY <1>37 DEF MarkReady, Window
<1>38. ASSUME NEW p \in Procs,
              \/ Cleanup(p) \/ ClearAllocation(p)
       PROVE  ReadyState'
  BY <1>38 DEF Cleanup, ClearAllocation
<1>39. ASSUME NEW p \in Procs,
              \/ MarkFailed(p) \/ MarkUpdating(p)
       PROVE  ReadyState'
  BY <1>39 DEF MarkFailed, MarkUpdating, NoRetry
<1>40. ASSUME NEW p \in Procs, MarkProvisioning(p) PROVE ReadyState'
  BY <1>40 DEF MarkProvisioning, NoRetry
\* Deleting.
<1>41. ASSUME NEW p \in Procs, PrepareDelete(p) PROVE ReadyState'
  BY <1>41 DEF PrepareDelete
<1>42. ASSUME NEW p \in Procs,
              \/ CheckDelete(p) \/ RefuseDelete(p) \/ BeforeDelete(p)
       PROVE  ReadyState'
  BY <1>42 DEF CheckDelete, RefuseDelete, BeforeDelete
<1>43. ASSUME NEW p \in Procs, BeforeDeleteFails(p) PROVE ReadyState'
  BY <1>43 DEF BeforeDeleteFails
<1>44. ASSUME NEW p \in Procs, DeleteSandbox(p) PROVE ReadyState'
  BY <1>44 DEF DeleteSandbox
<1>45. ASSUME NEW p \in Procs,
              \/ DeleteSandboxFails(p) \/ AfterDelete(p)
       PROVE  ReadyState'
  BY <1>45 DEF DeleteSandboxFails, AfterDelete
<1>46. ASSUME NEW p \in Procs,
              \/ DeleteMetadata(p) \/ RecordDeleteFailure(p)
       PROVE  ReadyState'
  BY <1>46 DEF DeleteMetadata, RecordDeleteFailure
\* Failures of a process.
<1>47. ASSUME NEW p \in Procs,
              \/ Crash(p) \/ LoseConnection(p)
       PROVE  ReadyState'
  BY <1>47 DEF Crash, LoseConnection
<1>48. ASSUME NEW p \in Procs, Abort(p) PROVE ReadyState'
  BY <1>48 DEF Abort, Holds
\* The environment.
<1>49. ASSUME DeadlinePasses PROVE ReadyState'
  BY <1>49 DEF DeadlinePasses
<1>50. ASSUME Touch PROVE ReadyState'
  BY <1>50 DEF Touch, Window
<1>51. ASSUME NEW s \in Sandboxes, SyncCredentials(s) PROVE ReadyState'
  BY <1>51 DEF SyncCredentials, Wake
<1>52. ASSUME NEW s \in Sandboxes, CloseTerminal(s) PROVE ReadyState'
  BY <1>52 DEF CloseTerminal
<1>53. ASSUME NEW k \in {"pause", "resume", "delete"}, NEW s \in Sandboxes, StrayLands(k, s)
       PROVE  ReadyState'
  BY <1>53 DEF StrayLands
<1>54. ASSUME UNCHANGED vars PROVE ReadyState'
  BY <1>54 DEF vars
<1> HIDE DEF KnownState, ReadyState, Waking, Inductive, TypeOK, Settled, Attended,
     SharedPlaces, Targeted, Owned, Unbroken, LockExclusion
<1> QED
  BY <1>1, <1>2, <1>3, <1>4, <1>5, <1>6, <1>7, <1>8, <1>9, <1>10, <1>11, <1>12, <1>13,
       <1>14, <1>15, <1>16, <1>17, <1>18, <1>19, <1>20, <1>21, <1>22, <1>23, <1>24,
       <1>25, <1>26, <1>27, <1>28, <1>29, <1>30, <1>31, <1>32, <1>33, <1>34, <1>35,
       <1>36, <1>37, <1>38, <1>39, <1>40, <1>41, <1>42, <1>43, <1>44, <1>45, <1>46,
       <1>47, <1>48, <1>49, <1>50, <1>51, <1>52, <1>53, <1>54 DEF Next, Work, Fail,
       Environment

\* Whoever may write an intent under the lock has read that there is no deletion, and a
\* cleanup hook runs under the intent published before it.
LEMMA IntendedStep ==
  ASSUME Ops \cap {"provision", "reprovision"} = {}, Inductive, Intended, [Next]_vars
  PROVE  Intended'
<1> USE OpsAssumption DEF Inductive, TypeOK, LockExclusion, SharedPlaces, Intended,
     NoReset, IntentKnown, SharedOps, ExclusiveOps, Holds, Goto, Release, Finish,
     Faulty, row, cloud, locks, local, bounds
\* Taking the lock, or not.
<1>1. ASSUME NEW p \in Procs, AcquireX(p) PROVE Intended'
  BY <1>1 DEF AcquireX, ExclusiveFree
<1>2. ASSUME NEW p \in Procs, AcquireS(p) PROVE Intended'
  BY <1>2 DEF AcquireS, SharedFree
<1>3. ASSUME NEW p \in Procs, GiveUp(p) PROVE Intended'
  BY <1>3 DEF GiveUp
<1>4. ASSUME NEW p \in Procs, NEW o \in UserOps \cup Background, Start(p, o)
      PROVE  Intended'
  BY <1>4 DEF Start, UserOps, Background
\* Pausing.
<1>5. ASSUME NEW p \in Procs, PreparePause(p) PROVE Intended'
  BY <1>5 DEF PreparePause, MayPause, WantsIdlePause
<1>6. ASSUME NEW p \in Procs,
             \/ CheckReady(p) \/ SkipPause(p) \/ BeforePause(p) \/ BeforePauseFails(p)
      PROVE  Intended'
  BY <1>6 DEF CheckReady, SkipPause, BeforePause, Wake, By, BeforePauseFails
<1>7. ASSUME NEW p \in Procs,
             \/ SendPause(p) \/ PauseLands(p) \/ PauseSeen(p)
      PROVE  Intended'
  BY <1>7 DEF SendPause, PauseLands, PauseSeen
<1>8. ASSUME NEW p \in Procs, RecordPaused(p) PROVE Intended'
  BY <1>8 DEF RecordPaused
\* Resuming.
<1>9. ASSUME NEW p \in Procs,
             \/ SendResume(p) \/ ResumeLands(p) \/ ResumeSeen(p)
      PROVE  Intended'
  BY <1>9 DEF SendResume, ResumeLands, Wake, By, ResumeSeen
<1>10. ASSUME NEW p \in Procs, RecordAccess(p) PROVE Intended'
  BY <1>10 DEF RecordAccess
<1>11. ASSUME NEW p \in Procs,
              \/ CallFails(p) \/ WaitTimesOut(p) \/ SandboxMissing(p)
       PROVE  Intended'
  BY <1>11 DEF CallFails, WaitTimesOut, SandboxMissing
<1>12. ASSUME NEW p \in Procs, RecordFailure(p) PROVE Intended'
  BY <1>12 DEF RecordFailure
\* Retiring, policy, settings.
<1>13. ASSUME NEW p \in Procs, PrepareRetire(p) PROVE Intended'
  BY <1>13 DEF PrepareRetire, RestoresPause
<1>14. ASSUME NEW p \in Procs,
              \/ StopSupervisor(p) \/ StopSupervisorFails(p) \/ RecordRetired(p)
       PROVE  Intended'
  BY <1>14 DEF StopSupervisor, Wake, By, StopSupervisorFails, RecordRetired
<1>15. ASSUME NEW p \in Procs, ApplyPolicy(p) PROVE Intended'
  BY <1>15 DEF ApplyPolicy
<1>16. ASSUME NEW p \in Procs,
              \/ RecordPolicy(p) \/ Update(p)
       PROVE  Intended'
  BY <1>16 DEF RecordPolicy, Update
\* Access and repair.
<1>17. ASSUME NEW p \in Procs, Admit(p) PROVE Intended'
  BY <1>17 DEF Admit
<1>18. ASSUME NEW p \in Procs,
              \/ Operate(p) \/ OperateFails(p)
       PROVE  Intended'
  BY <1>18 DEF Operate, By, OperateFails, Wake
<1>19. ASSUME NEW p \in Procs, OperateNeedsRepair(p) PROVE Intended'
  BY <1>19 DEF OperateNeedsRepair, Wake, By
<1>20. ASSUME NEW p \in Procs, RepairByAccess(p) PROVE Intended'
  BY <1>20 DEF RepairByAccess, Wake, By
<1>21. ASSUME NEW p \in Procs,
              \/ RepairPauses(p) \/ RepairFails(p)
       PROVE  Intended'
  BY <1>21 DEF RepairPauses, RepairFails
\* Provisioning.
<1>22. ASSUME NEW p \in Procs, CheckProvision(p) PROVE Intended'
  BY <1>22 DEF CheckProvision
<1>23. ASSUME NEW p \in Procs, NEW s \in Sandboxes, Claim(p, s) PROVE Intended'
  BY <1>23 DEF Claim
<1>24. ASSUME NEW p \in Procs,
              \/ ClaimFails(p) \/ Publish(p) \/ Await(p)
       PROVE  Intended'
  BY <1>24 DEF ClaimFails, Publish, Await
<1>25. ASSUME NEW p \in Procs,
              \/ MarkReady(p) \/ Cleanup(p) \/ ClearAllocation(p)
       PROVE  Intended'
  BY <1>25 DEF MarkReady, Cleanup, ClearAllocation
<1>26. ASSUME NEW p \in Procs,
              \/ MarkFailed(p) \/ MarkUpdating(p) \/ MarkProvisioning(p)
       PROVE  Intended'
  BY <1>26 DEF MarkFailed, MarkUpdating, MarkProvisioning
\* Deleting.
<1>27. ASSUME NEW p \in Procs, PrepareDelete(p) PROVE Intended'
  BY <1>27 DEF PrepareDelete
<1>28. ASSUME NEW p \in Procs,
              \/ CheckDelete(p) \/ RefuseDelete(p) \/ BeforeDelete(p)
              \/ BeforeDeleteFails(p)
       PROVE  Intended'
  BY <1>28 DEF CheckDelete, RefuseDelete, BeforeDelete, BeforeDeleteFails
<1>29. ASSUME NEW p \in Procs,
              \/ DeleteSandbox(p) \/ DeleteSandboxFails(p) \/ AfterDelete(p)
       PROVE  Intended'
  BY <1>29 DEF DeleteSandbox, DeleteSandboxFails, AfterDelete
<1>30. ASSUME NEW p \in Procs,
              \/ DeleteMetadata(p) \/ RecordDeleteFailure(p)
       PROVE  Intended'
  BY <1>30 DEF DeleteMetadata, RecordDeleteFailure
\* Failures of a process.
<1>31. ASSUME NEW p \in Procs,
              \/ Crash(p) \/ LoseConnection(p)
       PROVE  Intended'
  BY <1>31 DEF Crash, LoseConnection
<1>32. ASSUME NEW p \in Procs, Abort(p) PROVE Intended'
  BY <1>32 DEF Abort
\* The environment.
<1>33. ASSUME DeadlinePasses PROVE Intended'
  BY <1>33 DEF DeadlinePasses
<1>34. ASSUME Touch PROVE Intended'
  BY <1>34 DEF Touch
<1>35. ASSUME NEW s \in Sandboxes, SyncCredentials(s) PROVE Intended'
  BY <1>35 DEF SyncCredentials, Wake
<1>36. ASSUME NEW s \in Sandboxes, CloseTerminal(s) PROVE Intended'
  BY <1>36 DEF CloseTerminal
<1>37. ASSUME NEW k \in {"pause", "resume", "delete"}, NEW s \in Sandboxes, StrayLands(k, s)
       PROVE  Intended'
  BY <1>37 DEF StrayLands
<1>38. ASSUME UNCHANGED vars PROVE Intended'
  BY <1>38 DEF vars
<1> HIDE DEF Intended, NoReset, IntentKnown, Inductive, TypeOK, SharedPlaces, LockExclusion
<1> QED
  BY <1>1, <1>2, <1>3, <1>4, <1>5, <1>6, <1>7, <1>8, <1>9, <1>10, <1>11, <1>12, <1>13,
       <1>14, <1>15, <1>16, <1>17, <1>18, <1>19, <1>20, <1>21, <1>22, <1>23, <1>24,
       <1>25, <1>26, <1>27, <1>28, <1>29, <1>30, <1>31, <1>32, <1>33, <1>34, <1>35,
       <1>36, <1>37, <1>38 DEF Next, Work, Fail, Environment

\* No step takes a published deletion back.
LEMMA KeptStep ==
  ASSUME Inductive, Intended, [Next]_vars, desired = "terminated"
  PROVE  desired' = "terminated"
<1> USE DEF Inductive, TypeOK, LockExclusion, SharedPlaces, Intended, NoReset,
     IntentKnown, SharedOps, ExclusiveOps, Holds, Goto, Release, Finish, Faulty, row,
     bounds
\* Taking the lock, or not.
<1>1. ASSUME NEW p \in Procs,
             \/ AcquireX(p) \/ AcquireS(p) \/ GiveUp(p)
      PROVE  desired' = "terminated"
  BY <1>1 DEF AcquireX, AcquireS, GiveUp
<1>2. ASSUME NEW p \in Procs, NEW o \in UserOps \cup Background, Start(p, o)
      PROVE  desired' = "terminated"
  BY <1>2 DEF Start
\* Pausing.
<1>3. ASSUME NEW p \in Procs, PreparePause(p) PROVE desired' = "terminated"
  BY <1>3 DEF PreparePause, MayPause, WantsIdlePause
<1>4. ASSUME NEW p \in Procs,
             \/ CheckReady(p) \/ SkipPause(p) \/ BeforePause(p) \/ BeforePauseFails(p)
             \/ SendPause(p)
             \/ PauseLands(p)
      PROVE  desired' = "terminated"
  BY <1>4 DEF CheckReady, SkipPause, BeforePause, Wake, By, BeforePauseFails, SendPause,
       PauseLands
<1>5. ASSUME NEW p \in Procs, PauseSeen(p) PROVE desired' = "terminated"
  BY <1>5 DEF PauseSeen
<1>6. ASSUME NEW p \in Procs, RecordPaused(p) PROVE desired' = "terminated"
  BY <1>6 DEF RecordPaused
\* Resuming.
<1>7. ASSUME NEW p \in Procs,
             \/ SendResume(p) \/ ResumeLands(p) \/ ResumeSeen(p)
      PROVE  desired' = "terminated"
  BY <1>7 DEF SendResume, ResumeLands, Wake, By, ResumeSeen
<1>8. ASSUME NEW p \in Procs, RecordAccess(p) PROVE desired' = "terminated"
  BY <1>8 DEF RecordAccess
<1>9. ASSUME NEW p \in Procs,
             \/ CallFails(p) \/ WaitTimesOut(p) \/ SandboxMissing(p)
      PROVE  desired' = "terminated"
  BY <1>9 DEF CallFails, WaitTimesOut, SandboxMissing
<1>10. ASSUME NEW p \in Procs, RecordFailure(p) PROVE desired' = "terminated"
  BY <1>10 DEF RecordFailure
\* Retiring, policy, settings.
<1>11. ASSUME NEW p \in Procs,
              \/ PrepareRetire(p) \/ StopSupervisor(p) \/ StopSupervisorFails(p)
              \/ RecordRetired(p) \/ ApplyPolicy(p)
       PROVE  desired' = "terminated"
  BY <1>11 DEF PrepareRetire, StopSupervisor, Wake, By, StopSupervisorFails,
       RecordRetired, ApplyPolicy
<1>12. ASSUME NEW p \in Procs,
              \/ RecordPolicy(p) \/ Update(p)
       PROVE  desired' = "terminated"
  BY <1>12 DEF RecordPolicy, Update
\* Access and repair.
<1>13. ASSUME NEW p \in Procs,
              \/ Admit(p) \/ Operate(p) \/ OperateFails(p) \/ OperateNeedsRepair(p)
              \/ RepairByAccess(p)
       PROVE  desired' = "terminated"
  BY <1>13 DEF Admit, Operate, By, OperateFails, Wake, OperateNeedsRepair,
       RepairByAccess
<1>14. ASSUME NEW p \in Procs,
              \/ RepairPauses(p) \/ RepairFails(p)
       PROVE  desired' = "terminated"
  BY <1>14 DEF RepairPauses, RepairFails
\* Provisioning.
<1>15. ASSUME NEW p \in Procs, CheckProvision(p) PROVE desired' = "terminated"
  BY <1>15 DEF CheckProvision
<1>16. ASSUME NEW p \in Procs, NEW s \in Sandboxes, Claim(p, s)
       PROVE  desired' = "terminated"
  BY <1>16 DEF Claim
<1>17. ASSUME NEW p \in Procs,
              \/ ClaimFails(p) \/ Publish(p) \/ Await(p) \/ MarkReady(p) \/ Cleanup(p)
       PROVE  desired' = "terminated"
  BY <1>17 DEF ClaimFails, Publish, Await, MarkReady, Cleanup
<1>18. ASSUME NEW p \in Procs,
              \/ ClearAllocation(p) \/ MarkFailed(p) \/ MarkUpdating(p)
              \/ MarkProvisioning(p)
       PROVE  desired' = "terminated"
  BY <1>18 DEF ClearAllocation, MarkFailed, MarkUpdating, MarkProvisioning
\* Deleting.
<1>19. ASSUME NEW p \in Procs,
              \/ PrepareDelete(p) \/ CheckDelete(p) \/ RefuseDelete(p) \/ BeforeDelete(p)
              \/ BeforeDeleteFails(p) \/ DeleteSandbox(p)
       PROVE  desired' = "terminated"
  BY <1>19 DEF PrepareDelete, CheckDelete, RefuseDelete, BeforeDelete, BeforeDeleteFails,
       DeleteSandbox
<1>20. ASSUME NEW p \in Procs,
              \/ DeleteSandboxFails(p) \/ AfterDelete(p) \/ DeleteMetadata(p)
              \/ RecordDeleteFailure(p)
       PROVE  desired' = "terminated"
  BY <1>20 DEF DeleteSandboxFails, AfterDelete, DeleteMetadata, RecordDeleteFailure
\* Failures of a process.
<1>21. ASSUME NEW p \in Procs,
              \/ Crash(p) \/ LoseConnection(p) \/ Abort(p)
       PROVE  desired' = "terminated"
  BY <1>21 DEF Crash, LoseConnection, Abort
\* The environment.
<1>22. ASSUME DeadlinePasses PROVE desired' = "terminated"
  BY <1>22 DEF DeadlinePasses
<1>23. ASSUME Touch PROVE desired' = "terminated"
  BY <1>23 DEF Touch
<1>24. ASSUME NEW s \in Sandboxes, SyncCredentials(s) PROVE desired' = "terminated"
  BY <1>24 DEF SyncCredentials, Wake
<1>25. ASSUME NEW s \in Sandboxes, CloseTerminal(s) PROVE desired' = "terminated"
  BY <1>25 DEF CloseTerminal
<1>26. ASSUME NEW k \in {"pause", "resume", "delete"}, NEW s \in Sandboxes, StrayLands(k, s)
       PROVE  desired' = "terminated"
  BY <1>26 DEF StrayLands
<1>27. ASSUME UNCHANGED vars PROVE desired' = "terminated"
  BY <1>27 DEF vars
<1> QED
  BY <1>1, <1>2, <1>3, <1>4, <1>5, <1>6, <1>7, <1>8, <1>9, <1>10, <1>11, <1>12, <1>13,
       <1>14, <1>15, <1>16, <1>17, <1>18, <1>19, <1>20, <1>21, <1>22, <1>23, <1>24,
       <1>25, <1>26, <1>27 DEF Next, Work, Fail, Environment

-----------------------------------------------------------------------------
(* What follows.                                                           *)

\* THE INVARIANT.  Every reachable state satisfies every conjunct.
THEOREM InductiveHolds == Spec => []Inductive
<1>1. Inductive /\ [Next]_vars => Inductive'
  <2> SUFFICES ASSUME Inductive, [Next]_vars PROVE Inductive'
    OBVIOUS
  <2> USE DEF Inductive
  <2>1. TypeOK' /\ Targeted'
    BY TypeStep, TargetedStep
  <2>2. LockExclusion' /\ SharedPlaces' /\ Owned'
    BY LockStep, SharedStep, OwnedStep
  <2>3. PastDeletion' /\ GoneIsEmpty' /\ PauseSettled'
    BY DeletionStep, GoneStep, SettledStep
  <2> QED
    BY <2>1, <2>2, <2>3
<1> QED
  BY InitInductive, <1>1, PTL DEF Spec

\* Types: every variable stays in its set, whatever fails.
THEOREM TypeCorrect == Spec => []TypeOK
<1>1. Inductive => TypeOK
  BY DEF Inductive
<1> QED
  BY InductiveHolds, <1>1, PTL

\* The advisory lock excludes: no access is admitted beside a transition, with
\* any number of replicas, lost connections and crashes.
THEOREM LockExcludes == Spec => []LockExclusion
<1>1. Inductive => LockExclusion
  BY DEF Inductive
<1> QED
  BY InductiveHolds, <1>1, PTL

\* The three steps that end the life of a row, open a pause interval or give a
\* supervisor up; all others leave those alone.
LEMMA Writers ==
  ASSUME [Next]_vars,
         \A p \in Procs : ~RecordPaused(p) /\ ~RecordRetired(p) /\ ~DeleteMetadata(p)
  PROVE  /\ status' = "gone" => status = "gone"
         /\ pause' # "none" => pause' = pause
         /\ supervisor' = supervisor \/ sandbox' = NoSandbox
<1> USE DEF row
<1>1. ASSUME NEW p \in Procs, Work(p)
      PROVE  /\ status' = "gone" => status = "gone"
             /\ pause' # "none" => pause' = pause
             /\ supervisor' = supervisor \/ sandbox' = NoSandbox
   BY <1>1, SMTT(60) DEF Work, AcquireX, AcquireS, PreparePause, CheckReady, SkipPause,
        BeforePause,
        SendPause, PauseLands, PauseSeen, RecordPaused, SendResume, ResumeLands, ResumeSeen,
        RecordAccess, WaitTimesOut, SandboxMissing, RecordFailure, PrepareRetire,
        StopSupervisor, RecordRetired, ApplyPolicy, RecordPolicy, Update, Admit, Operate,
        RepairByAccess, RepairPauses, CheckProvision, Claim, Publish, Await, MarkReady,
        Cleanup, ClearAllocation, MarkFailed, MarkUpdating, MarkProvisioning, PrepareDelete,
        CheckDelete, RefuseDelete, BeforeDelete, DeleteSandbox, AfterDelete, DeleteMetadata,
        RecordDeleteFailure, Abort
<1>2. ASSUME NEW p \in Procs, Fail(p) PROVE UNCHANGED <<status, pause, supervisor>>
   BY <1>2, SMTT(60) DEF Fail, BeforePauseFails, CallFails, StopSupervisorFails,
        OperateFails, OperateNeedsRepair, RepairFails, ClaimFails, BeforeDeleteFails,
        DeleteSandboxFails, Crash, LoseConnection
<1>3. ASSUME NEW p \in Procs, GiveUp(p) PROVE UNCHANGED <<status, pause, supervisor>>
  BY <1>3 DEF GiveUp
<1>4. ASSUME NEW p \in Procs, NEW o \in UserOps \cup Background, Start(p, o)
      PROVE  UNCHANGED <<status, pause, supervisor>>
  BY <1>4 DEF Start
<1>5. ASSUME Environment PROVE UNCHANGED <<status, pause, supervisor>>
  BY <1>5 DEF Environment, DeadlinePasses, Touch, SyncCredentials, CloseTerminal, StrayLands
<1> QED
  BY <1>1, <1>2, <1>3, <1>4, <1>5 DEF Next, vars

\* The row goes only after the Sandbox it names is deleted: at the removal the
\* holder's copy is the row (Owned) and its Sandbox is deleted (PastDeletion).
THEOREM RowOutlivesItsSandbox == Spec => RowOutlivesSandbox
<1>1. Inductive /\ [Next]_vars =>
        [status # "gone" /\ status' = "gone" => sandbox = NoSandbox \/ sb[sandbox] = "deleted"]_vars
  <2> SUFFICES ASSUME Inductive, [Next]_vars, status # "gone", status' = "gone"
               PROVE  sandbox = NoSandbox \/ sb[sandbox] = "deleted"
    OBVIOUS
  <2>1. PICK p \in Procs : DeleteMetadata(p)
    <3>1. ASSUME NEW p \in Procs, RecordPaused(p) \/ RecordRetired(p) PROVE FALSE
      BY <3>1 DEF RecordPaused, RecordRetired
    <3> QED
      BY <3>1, Writers
  <2>2. lockX = p
    BY <2>1 DEF DeleteMetadata, Holds, Inductive, SharedPlaces
  <2> QED
    BY <2>1, <2>2 DEF DeleteMetadata, Inductive, Owned, PastDeletion
<1> QED
  BY InductiveHolds, <1>1, PTL DEF Spec, RowOutlivesSandbox

\* A pause interval opens on a settled Sandbox: the record is written by the
\* holder of the lock, about the Sandbox it has seen paused (PauseSettled).
THEOREM PauseIsRecordedAsCommitted == Spec => PauseRecordedAsCommitted
<1>1. Inductive /\ [Next]_vars =>
        [pause = "none" /\ pause' # "none" =>
           sb[sandbox] # "running" \/ waker[sandbox] \in {"sync", "stray"}]_vars
  <2> SUFFICES ASSUME Inductive, [Next]_vars, pause = "none", pause' # "none"
               PROVE  sb[sandbox] # "running" \/ waker[sandbox] \in {"sync", "stray"}
    OBVIOUS
  <2>1. PICK p \in Procs : RecordPaused(p)
    <3>1. ASSUME NEW p \in Procs, DeleteMetadata(p) \/ RecordRetired(p) PROVE FALSE
      BY <3>1 DEF DeleteMetadata, RecordRetired
    <3> QED
      BY <3>1, Writers
  <2>2. lockX = p
    BY <2>1 DEF RecordPaused, Holds, Inductive, SharedPlaces
  <2>3. sandbox = rt[p]
    BY <2>1 DEF RecordPaused
  <2> QED
    BY <2>1, <2>2, <2>3 DEF RecordPaused, Inductive, PauseSettled, Settled
<1> QED
  BY InductiveHolds, <1>1, PTL DEF Spec, PauseRecordedAsCommitted

\* A supervisor retired from a paused row leaves a settled Sandbox behind: the
\* pause that its stop has interrupted was restored first (PauseSettled).
THEOREM RetirementRestoresPause == Spec => RetiredAsIntended
<1>1. Inductive /\ [Next]_vars =>
        [supervisor /\ ~supervisor' /\ sandbox' # NoSandbox /\ desired = "paused" =>
           sb[sandbox] # "running" \/ waker[sandbox] \in {"sync", "stray"}]_vars
  <2> SUFFICES ASSUME Inductive, [Next]_vars, supervisor, ~supervisor',
                      sandbox' # NoSandbox, desired = "paused"
               PROVE  sb[sandbox] # "running" \/ waker[sandbox] \in {"sync", "stray"}
    OBVIOUS
  <2>1. PICK p \in Procs : RecordRetired(p)
    <3>1. ASSUME NEW p \in Procs, DeleteMetadata(p) \/ RecordPaused(p) PROVE FALSE
      BY <3>1, Zenon DEF DeleteMetadata, RecordPaused
    <3> QED
      BY <3>1, Writers, Zenon
  <2>2. lockX = p
    BY <2>1 DEF RecordRetired, Holds, Inductive, SharedPlaces
  <2>3. sandbox = rt[p]
    BY <2>1, Zenon DEF RecordRetired
  <2> QED
    BY <2>1, <2>2, <2>3 DEF RecordRetired, Inductive, PauseSettled, Settled
<1> QED
  BY InductiveHolds, <1>1, PTL DEF Spec, RetiredAsIntended

\* The implementation keeps the promises of the projection: whatever the lock,
\* the replicas and Sandbox0 do, the row's readers see only steps of SpecP.
THEOREM ProjectionImplemented == Spec => ImplementsProjection
<1>1. Init => Projection!InitP
  BY OpsAssumption DEF Init, Projection!InitP
<1>2. Inductive /\ [Next]_vars => [Projection!NextP]_(Projection!proj)
  BY ProjectionStep DEF Inductive
<1> QED
  BY InductiveHolds, <1>1, <1>2, PTL DEF Spec, ImplementsProjection, Projection!SpecP

\* An identity, once published, is never replaced by another one: no step of
\* the projection does it.
THEOREM IdentityIsKept == Spec => IdentityKept
<1>1. Inductive /\ [Next]_vars =>
        [sandbox # NoSandbox /\ sandbox' # NoSandbox => sandbox' = sandbox]_vars
  <2> SUFFICES ASSUME [Projection!NextP]_(Projection!proj)
               PROVE  sandbox # NoSandbox /\ sandbox' # NoSandbox => sandbox' = sandbox
    BY ProjectionStep DEF Inductive
  <2> QED
    BY DEF Projection!NextP, Projection!proj, Projection!RequestPause,
           Projection!CompletePause, Projection!DeferPause, Projection!GrantAccess,
           Projection!MoveDeadline, Projection!Terminate, Projection!Remove,
           Projection!Reset, Projection!Publish, Projection!Commit,
           Projection!Withdraw, Projection!Fail
<1> QED
  BY InductiveHolds, <1>1, PTL DEF Spec, IdentityKept

\* WITHOUT FAILURES every process has the lock its operation asks for.
LEMMA CalmHolds == Spec => [](Inductive /\ Calm)
<1>1. Init => Calm
  BY DEF Init, Calm, Attended, Unbroken, Outside
<1>2. Inductive /\ Calm /\ [Next]_vars => Calm'
  BY CalmStep DEF Inductive
<1> QED
  BY InductiveHolds, <1>1, <1>2, PTL DEF Spec

\* Without failures no Sandbox is lost: each is named by the row or in the hands of
\* the process that has just claimed it, whatever the replicas do at the same time.
THEOREM NothingOrphaned == Spec => []NoOrphan
<1>1. Init => NoOrphan
  BY OpsAssumption DEF Init, NoOrphan
<1>2. Inductive /\ Calm /\ NoOrphan /\ [Next]_vars => NoOrphan'
  BY OrphanStep
<1> QED
  BY CalmHolds, <1>1, <1>2, PTL DEF Spec

\* Without failures no transition pauses or deletes a Sandbox under an admitted access.
THEOREM AccessIsUndisturbed == Spec => AccessUndisturbed
<1>1. Inductive /\ Calm /\ [Next]_vars =>
        [\A p \in Procs : faults' = 0 /\ pc[p] = "operating" /\ sb[rt[p]] = "running" =>
           sb'[rt[p]] = "running"]_vars
  BY UndisturbedStep
<1> QED
  BY CalmHolds, <1>1, PTL DEF Spec, AccessUndisturbed

\* Without failures and without the user's retry, a running Sandbox has a deadline
\* whenever the lock is free: between a wake-up and its record somebody holds the lock.
THEOREM RunningIsTimed ==
  ASSUME "reprovision" \notin Ops
  PROVE  Spec => []RunningHasDeadline
<1>1. Init => Timed
  <2> SUFFICES ASSUME Init PROVE Timed
    OBVIOUS
  <2>1. NoRetry /\ KnownState
    BY OpsAssumption DEF Init, NoRetry, KnownState
  <2>2. ReadyState
    BY OpsAssumption, Zenon DEF Init, ReadyState, Settled, Waking
  <2> QED
    BY <2>1, <2>2 DEF Timed
<1>2. Inductive /\ Calm /\ Timed /\ [Next]_vars => Timed'
  BY NoRetryStep, KnownStep, ReadyStep DEF Timed, Inductive
<1>3. Inductive /\ Timed => RunningHasDeadline
  BY OpsAssumption DEF Inductive, Timed, ReadyState, Settled, Waking, RunningHasDeadline,
       DeadlineSurvives, TypeOK
<1> QED
  BY CalmHolds, <1>1, <1>2, <1>3, PTL DEF Spec

\* Whatever fails, no pause, restart, access or policy pass that was under way takes a
\* published deletion back: only provisioning and the user's retry reset the intent.
THEOREM TerminalIntentIsKept ==
  ASSUME Ops \cap {"provision", "reprovision"} = {}
  PROVE  Spec => TerminalIntentKept
<1>1. Init => Intended
  BY OpsAssumption DEF Init, Intended, NoReset, IntentKnown
<1>2. Inductive /\ Intended /\ [Next]_vars => Intended'
  BY IntendedStep
<1>3. Inductive /\ Intended /\ [Next]_vars =>
        [desired = "terminated" => desired' = "terminated"]_vars
  BY KeptStep
<1> QED
  BY InductiveHolds, <1>1, <1>2, <1>3, PTL DEF Spec, TerminalIntentKept
=============================================================================
