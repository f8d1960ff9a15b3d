---------------------------- MODULE EngineTypes ----------------------------
(***************************************************************************)
(* Every step of the lifecycle keeps TypeOK.  First what the helper        *)
(* operators return, then the actions, group by group; under an action     *)
(* there is one step per part of the state it disturbs, and TypeKept       *)
(* speaks for the parts it leaves alone.                                   *)
(***************************************************************************)
EXTENDS EngineProperties, TLAPS

(* A session that has finished is a well-typed one.                        *)
LEMMA QuietTyped == Quiet \in SessionState
BY DEF Quiet, SessionState, Pc, FreePc, Status, Plan, Loops

(* Putting a session into a well-typed state keeps all of them well typed. *)
LEMMA BecomeTyped ==
  ASSUME SessionsOK, NEW s \in Session, NEW x \in SessionState, Become(s, x)
  PROVE  SessionsOK'
BY DEF Become, SessionsOK

(* So does moving its program counter.                                     *)
LEMMA GotoTyped ==
  ASSUME SessionsOK, NEW s \in Session, NEW pc \in Pc, Goto(s, pc)
  PROVE  SessionsOK'
BY DEF Become, Goto, SessionState, SessionsOK

(* So does ending it.                                                      *)
LEMMA FinishTyped ==
  ASSUME SessionsOK, NEW s \in Session, Finish(s)
  PROVE  SessionsOK'
BY QuietTyped DEF Become, Finish, SessionsOK

(* So does the drift correction, whatever it observed and decided.         *)
LEMMA CorrectTyped ==
  ASSUME SessionsOK, NEW s \in Session, NEW obs \in Observation,
         NEW target \in Status, Correct(s, obs, target)
  PROVE  SessionsOK'
<1>1. [ses[s] EXCEPT !.pc = "drift_write", !.arg = target, !.plan = obs] \in SessionState
  BY DEF SessionsOK, SessionState, Pc, FreePc, Plan
<1> QED BY <1>1, BecomeTyped, FinishTyped DEF Correct

(* The empty volume is a content, and contents are closed under union.     *)
LEMMA Contents ==
  /\ {} \in Content
  /\ \A c, d \in Content : c \cup d \in Content
BY DEF Content

(* create_agent_engine leaves a volume behind.                             *)
LEMMA Provisions == ASSUME KubeOK PROVE Provisioned \in Content
BY Contents DEF KubeOK, Provisioned

(* The newest daily backup is a content or nothing.                        *)
LEMMA NewestTyped == ASSUME StoreOK PROVE Newest(daily) \in Content \cup {None}
BY DEF StoreOK, Newest

(* So is what a deploy restores.                                           *)
LEMMA RestoreTyped ==
  ASSUME TypeOK, NEW s \in Session
  PROVE  RestoreSource(s) \in Content \cup {None}
BY NewestTyped DEF TypeOK, RestoreSource, SessionsOK, SessionState

(* What a step leaves alone stays well typed.                              *)
LEMMA TypeKept ==
  ASSUME TypeOK
  PROVE  /\ UNCHANGED <<idle, fin, dailyDone>> => FlagsOK'
         /\ UNCHANGED <<status, backupAt, archivePath>> => RowOK'
         /\ UNCHANGED <<kdep, pod, old, pvc>> => KubeOK'
         /\ UNCHANGED store => StoreOK'
         /\ UNCHANGED ses => SessionsOK'
         /\ UNCHANGED <<fails, nextWrite>> => CountersOK'
BY DEF TypeOK, FlagsOK, RowOK, KubeOK, StoreOK, SessionsOK, CountersOK, store

(* What a probe can see is one of the observations classify_drift knows.   *)
LEMMA ObservedTyped == ASSUME KubeOK PROVE {Observed, "error"} \subseteq Observation
BY DEF KubeOK, Observed, Observation

(* classify_drift answers with a status.                                   *)
LEMMA ClassifyTyped ==
  ASSUME NEW st \in Status, NEW seen \in Observation, NEW b \in BOOLEAN
  PROVE  ClassifyDrift(st, seen, b) \in Status
BY DEF ClassifyDrift, Status, Observation

(* So does the decision of GET status.                                     *)
LEMMA PollTyped ==
  ASSUME SessionsOK, NEW s \in Session, NEW obs \in Observation
  PROVE  PollTarget(s, obs) \in Status
BY ClassifyTyped DEF PollTarget, Status, SessionsOK, SessionState

(* A deploy body that has created its engine is in a well-typed state.     *)
LEMMA RestoringTyped ==
  ASSUME SessionsOK, NEW s \in Session, NEW plan \in Plan,
         NEW tar \in Content \cup {None}, Restoring(s, plan, tar)
  PROVE  SessionsOK'
<1>1. [ses[s] EXCEPT !.pc = "deploy_wait", !.arg = "PENDING", !.plan = plan, !.tar = tar] \in SessionState
  BY DEF SessionsOK, SessionState, Pc, LockedPc, DeployBody, Status
<1> QED BY <1>1, BecomeTyped DEF Restoring

(* save_daily keeps the object store well typed.                           *)
LEMMA SavedTyped ==
  ASSUME StoreOK, NEW c \in Content, SaveDaily(c) \/ PutDaily(c)
  PROVE  StoreOK'
BY Contents DEF StoreOK, SaveDaily, PutDaily

(* A user write below the bound is one of Writes.                          *)
LEMMA WriteTyped ==
  ASSUME CountersOK, nextWrite <= MaxWrites
  PROVE  nextWrite \in Writes /\ {nextWrite} \in Content /\ nextWrite + 1 \in 1 .. MaxWrites + 1
<1>1. nextWrite \in Writes /\ nextWrite + 1 \in 1 .. MaxWrites + 1
  BY BoundsAssumption DEF CountersOK, Writes
<1> QED BY <1>1 DEF Content

(* So does the decision of the 60 s sweep.                                 *)
LEMMA SweepTyped ==
  ASSUME NEW seen \in Observation, NEW b \in {Newest(daily) # None, FALSE}
  PROVE  ClassifyDrift("RUNNING", seen, b) \in Status
<1>1. b \in BOOLEAN
  BY Zenon
<1> QED BY <1>1, ClassifyTyped DEF Status


-----------------------------------------------------------------------------
(* One lemma per group of actions.                                         *)

(* The first step of a request or of a loop round keeps every variable     *)
(* well typed (lemmas TypeStart to TypeEnv: one per group of actions).     *)
LEMMA TypeStart ==
  ASSUME TypeOK, NEW s \in Session, StartStep(s)
  PROVE  TypeOK'
<1> USE DEF TypeOK
<1>1. CASE DeployRead(s)
  <2>1. SessionsOK'
    BY <1>1, BecomeTyped, QuietTyped DEF DeployRead, Begin, SessionState, Pc,
      WaitPc, FreePc, Loops, RowOK, Status
  <2> QED BY <1>1, <2>1, TypeKept DEF DeployRead, row, kube, store, manager
<1>2. CASE SuspendRead(s)
  <2>1. SessionsOK'
    BY <1>2, BecomeTyped, QuietTyped DEF SuspendRead, Begin, SessionState, Pc,
      WaitPc, FreePc, Loops, RowOK, Status
  <2> QED BY <1>2, <2>1, TypeKept DEF SuspendRead, row, kube, store, manager
<1>3. CASE DestroyRead(s)
  <2>1. SessionsOK'
    BY <1>3, BecomeTyped, QuietTyped DEF DestroyRead, Begin, SessionState, Pc,
      WaitPc, FreePc, Loops, RowOK, Status
  <2> QED BY <1>3, <2>1, TypeKept DEF DestroyRead, row, kube, store, manager
<1>4. CASE ResumeRead(s)
  <2>1. SessionsOK'
    BY <1>4, BecomeTyped, QuietTyped DEF ResumeRead, Begin, SessionState, Pc,
      WaitPc, FreePc, Loops, RowOK, Status
  <2> QED BY <1>4, <2>1, TypeKept DEF ResumeRead, row, kube, store, manager
<1>5. CASE PollRead(s)
  <2>1. SessionsOK'
    BY <1>5, BecomeTyped, QuietTyped DEF PollRead, Begin, SessionState, Pc, WaitPc,
      FreePc, Loops, RowOK, Status
  <2> QED BY <1>5, <2>1, TypeKept DEF PollRead, row, kube, store, manager
<1>6. CASE SweepRead(s)
  <2>1. SessionsOK'
    BY <1>6, BecomeTyped, QuietTyped DEF SweepRead, Begin, SessionState, Pc, WaitPc,
      FreePc, Loops, RowOK, Status
  <2> QED BY <1>6, <2>1, TypeKept DEF SweepRead, row, kube, store, manager
<1>7. CASE DailyTar(s)
  <2>1. FlagsOK'
    BY <1>7, Zenon DEF DailyTar, FlagsOK, row, kube
  <2>2. SessionsOK'
    BY <1>7, BecomeTyped, QuietTyped DEF DailyTar, Begin, SessionsOK, SessionState,
      Pc, WaitPc, FreePc, Loops, RowOK, KubeOK, Status, CanExec
  <2> QED BY <1>7, <2>1, <2>2, TypeKept DEF DailyTar, row, kube, store, manager
<1>8. CASE FinalizerTar(s)
  <2>1. SessionsOK'
    BY <1>8, BecomeTyped, QuietTyped DEF FinalizerTar, Begin, SessionsOK,
      SessionState, Pc, WaitPc, FreePc, Loops, RowOK, KubeOK, Status
  <2> QED BY <1>8, <2>1, TypeKept DEF FinalizerTar, row, kube, store, manager
<1> QED BY <1>1, <1>2, <1>3, <1>4, <1>5, <1>6, <1>7, <1>8 DEF StartStep

(* Taking the advisory lock does.                                          *)
LEMMA TypeLock ==
  ASSUME TypeOK, NEW s \in Session, LockStep(s)
  PROVE  TypeOK'
<1> USE DEF TypeOK
<1>1. CASE DeployLock(s)
  <2>1. SessionsOK'
    BY <1>1, BecomeTyped, FinishTyped DEF DeployLock, SessionsOK, SessionState, Pc,
      LockedPc, DeployBody, RowOK
  <2> QED BY <1>1, <2>1, TypeKept DEF DeployLock, row, kube, store, manager
<1>2. CASE SuspendLock(s)
  <2>1. SessionsOK'
    BY <1>2, GotoTyped DEF SuspendLock, Pc, LockedPc, DeployBody, WaitPc, FreePc
  <2> QED BY <1>2, <2>1, TypeKept DEF SuspendLock, row, kube, store, manager
<1>3. CASE DestroyLock(s)
  <2>1. SessionsOK'
    BY <1>3, GotoTyped DEF DestroyLock, Pc, LockedPc, DeployBody, WaitPc, FreePc
  <2> QED BY <1>3, <2>1, TypeKept DEF DestroyLock, row, kube, store, manager
<1> QED BY <1>1, <1>2, <1>3 DEF LockStep

(* Every step of the background deploy does.                               *)
LEMMA TypeDeploy ==
  ASSUME TypeOK, NEW s \in Session, DeployStep(s)
  PROVE  TypeOK'
<1> USE DEF TypeOK
<1>1. CASE DeployMark(s)
  <2>1. RowOK'
    BY <1>1 DEF DeployMark, RowOK, Status
  <2>2. SessionsOK'
    BY <1>1, GotoTyped DEF DeployMark, Pc, LockedPc, DeployBody, WaitPc, FreePc
  <2> QED BY <1>1, <2>1, <2>2, TypeKept DEF DeployMark, row, kube, store, manager
<1>2. CASE DeployCreate(s)
  <2>1. FlagsOK'
    BY <1>2, Zenon DEF DeployCreate, FlagsOK, row, DeployFromArchive,
      DeployFromSuspended, DeployFresh, CreateEngine
  <2>2. KubeOK'
    BY <1>2, Provisions DEF DeployCreate, KubeOK, DeployFromArchive,
      DeployFromSuspended, DeployFresh, CreateEngine
  <2>3. SessionsOK'
    BY <1>2, RestoringTyped DEF DeployCreate, DeployFromArchive,
      DeployFromSuspended, DeployFresh, RowOK, Plan
  <2> QED BY <1>2, <2>1, <2>2, <2>3, TypeKept DEF DeployCreate, row, kube, store,
    manager
<1>3. CASE DeployCreateFails(s)
  <2>1. RowOK'
    BY <1>3 DEF DeployCreateFails, RowOK, SetStatus, Status
  <2>2. KubeOK'
    BY <1>3, Provisions DEF DeployCreateFails, KubeOK
  <2>3. SessionsOK'
    BY <1>3, FinishTyped DEF DeployCreateFails
  <2> QED BY <1>3, <2>1, <2>2, <2>3, TypeKept DEF DeployCreateFails, row, kube,
    store, manager
<1>4. CASE DeployPodRuns(s)
  <2>1. SessionsOK'
    BY <1>4, GotoTyped DEF DeployPodRuns, Pc, LockedPc, DeployBody, WaitPc, FreePc
  <2> QED BY <1>4, <2>1, TypeKept DEF DeployPodRuns, row, kube, store, manager
<1>5. CASE DeployTimesOut(s)
  <2>1. RowOK'
    BY <1>5 DEF DeployTimesOut, RowOK, SetStatus, Status
  <2>2. SessionsOK'
    BY <1>5, FinishTyped DEF DeployTimesOut
  <2> QED BY <1>5, <2>1, <2>2, TypeKept DEF DeployTimesOut, row, kube, store,
    manager
<1>6. CASE DeployRestore(s)
  <2>1. KubeOK'
    BY <1>6, RestoreTyped DEF DeployRestore, KubeOK, kube
  <2>2. SessionsOK'
    BY <1>6, BecomeTyped DEF DeployRestore, SessionsOK, SessionState, Pc, LockedPc,
      DeployBody, Plan
  <2> QED BY <1>6, <2>1, <2>2, TypeKept DEF DeployRestore, row, kube, store, manager
<1>7. CASE DeployRestoreFails(s)
  <2>1. KubeOK'
    BY <1>7, RestoreTyped DEF DeployRestoreFails, KubeOK, kube
  <2>2. SessionsOK'
    BY <1>7, BecomeTyped DEF DeployRestoreFails, SessionsOK, SessionState, Pc,
      LockedPc, DeployBody, Plan
  <2> QED BY <1>7, <2>1, <2>2, TypeKept DEF DeployRestoreFails, row, kube, store,
    manager
<1>8. CASE DeployAbort(s)
  <2>1. RowOK'
    BY <1>8 DEF DeployAbort, RowOK, SetStatus, Status
  <2>2. KubeOK'
    BY <1>8 DEF DeployAbort, KubeOK, ScaleTo
  <2>3. SessionsOK'
    BY <1>8, FinishTyped DEF DeployAbort
  <2> QED BY <1>8, <2>1, <2>2, <2>3, TypeKept DEF DeployAbort, row, kube, store,
    manager
<1>9. CASE DeployDone(s)
  <2>1. FlagsOK'
    BY <1>9, Zenon DEF DeployDone, FlagsOK, kube
  <2>2. RowOK'
    BY <1>9 DEF DeployDone, RowOK, SetStatus, Status
  <2>3. SessionsOK'
    BY <1>9, FinishTyped DEF DeployDone
  <2> QED BY <1>9, <2>1, <2>2, <2>3, TypeKept DEF DeployDone, row, kube, store,
    manager
<1> QED BY <1>1, <1>2, <1>3, <1>4, <1>5, <1>6, <1>7, <1>8, <1>9 DEF DeployStep

(* Every step of suspend does.                                             *)
LEMMA TypeSuspend ==
  ASSUME TypeOK, NEW s \in Session, SuspendStep(s)
  PROVE  TypeOK'
<1> USE DEF TypeOK
<1>1. CASE SuspendBackup(s)
  <2>1. StoreOK'
    BY <1>1, SavedTyped, TypeKept DEF SuspendBackup, KubeOK, CanExec
  <2>2. SessionsOK'
    BY <1>1, GotoTyped DEF SuspendBackup, Pc, LockedPc, DeployBody, WaitPc, FreePc
  <2>3. CountersOK'
    BY <1>1, BoundsAssumption DEF SuspendBackup, CountersOK
  <2> QED BY <1>1, <2>1, <2>2, <2>3, TypeKept DEF SuspendBackup, row, kube, store,
    manager
<1>2. CASE SuspendBackupFails(s)
  <2>1. RowOK'
    BY <1>2 DEF SuspendBackupFails, RowOK, SetStatus, Status
  <2>2. StoreOK'
    BY <1>2, SavedTyped, TypeKept DEF SuspendBackupFails, KubeOK, CanExec
  <2>3. SessionsOK'
    BY <1>2, FinishTyped DEF SuspendBackupFails
  <2>4. CountersOK'
    BY <1>2, BoundsAssumption DEF SuspendBackupFails, CountersOK, CountFailure
  <2> QED BY <1>2, <2>1, <2>2, <2>3, <2>4, TypeKept DEF SuspendBackupFails, row,
    kube, store, manager
<1>3. CASE SuspendMark(s)
  <2>1. RowOK'
    BY <1>3 DEF SuspendMark, RowOK, SetStatus, Status
  <2>2. SessionsOK'
    BY <1>3, BecomeTyped, QuietTyped DEF SuspendMark, Begin, SessionsOK,
      SessionState, Pc, FreePc, Status
  <2> QED BY <1>3, <2>1, <2>2, TypeKept DEF SuspendMark, row, kube, store, manager
<1>4. CASE SuspendScale(s)
  <2>1. FlagsOK'
    BY <1>4, Zenon DEF SuspendScale, FlagsOK, row
  <2>2. KubeOK'
    BY <1>4 DEF SuspendScale, KubeOK, ScaleTo
  <2>3. SessionsOK'
    BY <1>4, FinishTyped DEF SuspendScale
  <2> QED BY <1>4, <2>1, <2>2, <2>3, TypeKept DEF SuspendScale, row, kube, store,
    manager
<1> QED BY <1>1, <1>2, <1>3, <1>4 DEF SuspendStep

(* Every step of destroy does.                                             *)
LEMMA TypeDestroy ==
  ASSUME TypeOK, NEW s \in Session, DestroyStep(s)
  PROVE  TypeOK'
<1> USE DEF TypeOK
<1>1. CASE DestroyArchive(s)
  <2>1. StoreOK'
    BY <1>1, NewestTyped DEF DestroyArchive, StoreOK, store, CopyNewest
  <2>2. SessionsOK'
    BY <1>1, BecomeTyped, GotoTyped, NewestTyped DEF DestroyArchive, SessionsOK,
      SessionState, Pc, LockedPc
  <2> QED BY <1>1, <2>1, <2>2, TypeKept DEF DestroyArchive, row, kube, store,
    manager
<1>2. CASE DestroyRefused(s)
  <2>1. StoreOK'
    BY <1>2, NewestTyped DEF DestroyRefused, StoreOK, store, CopyNewest
  <2>2. SessionsOK'
    BY <1>2, FinishTyped DEF DestroyRefused
  <2> QED BY <1>2, <2>1, <2>2, TypeKept DEF DestroyRefused, row, kube, store,
    manager
<1>3. CASE DestroyDelete(s)
  <2>1. FlagsOK'
    BY <1>3, Zenon DEF DestroyDelete, FlagsOK, row
  <2>2. KubeOK'
    BY <1>3 DEF DestroyDelete, KubeOK, VolumeAfterDelete
  <2>3. SessionsOK'
    BY <1>3, GotoTyped DEF DestroyDelete, Pc, LockedPc, DeployBody, WaitPc, FreePc
  <2> QED BY <1>3, <2>1, <2>2, <2>3, TypeKept DEF DestroyDelete, row, kube, store,
    manager
<1>4. CASE DestroyDeleteFails(s)
  <2>1. FlagsOK'
    BY <1>4, Zenon DEF DestroyDeleteFails, FlagsOK, row
  <2>2. KubeOK'
    BY <1>4 DEF DestroyDeleteFails, KubeOK
  <2>3. SessionsOK'
    BY <1>4, FinishTyped DEF DestroyDeleteFails
  <2> QED BY <1>4, <2>1, <2>2, <2>3, TypeKept DEF DestroyDeleteFails, row, kube,
    store, manager
<1>5. CASE DestroyMark(s)
  <2>1. RowOK'
    BY <1>5 DEF DestroyMark, RowOK, SetStatus, Status, PathAfterArchive, SessionsOK,
      SessionState
  <2>2. SessionsOK'
    BY <1>5, FinishTyped DEF DestroyMark
  <2> QED BY <1>5, <2>1, <2>2, TypeKept DEF DestroyMark, row, kube, store, manager
<1> QED BY <1>1, <1>2, <1>3, <1>4, <1>5 DEF DestroyStep

(* Every step of resume does.                                              *)
LEMMA TypeResume ==
  ASSUME TypeOK, NEW s \in Session, ResumeStep(s)
  PROVE  TypeOK'
<1> USE DEF TypeOK
<1>1. CASE ResumeScale(s)
  <2>1. KubeOK'
    BY <1>1 DEF ResumeScale, KubeOK
  <2>2. SessionsOK'
    BY <1>1, GotoTyped, FinishTyped DEF ResumeScale, Pc, FreePc
  <2> QED BY <1>1, <2>1, <2>2, TypeKept DEF ResumeScale, row, kube, store, manager
<1>2. CASE ResumeMark(s)
  <2>1. FlagsOK'
    BY <1>2, Zenon DEF ResumeMark, FlagsOK, kube
  <2>2. RowOK'
    BY <1>2 DEF ResumeMark, RowOK, SetStatus, Status
  <2>3. SessionsOK'
    BY <1>2, FinishTyped DEF ResumeMark
  <2> QED BY <1>2, <2>1, <2>2, <2>3, TypeKept DEF ResumeMark, row, kube, store,
    manager
<1> QED BY <1>1, <1>2 DEF ResumeStep

(* Every step of the drift correction does.                                *)
LEMMA TypeDrift ==
  ASSUME TypeOK, NEW s \in Session, DriftStep(s)
  PROVE  TypeOK'
<1> USE DEF TypeOK
<1>1. CASE PollProbe(s)
  <2>1. SessionsOK'
    BY <1>1, CorrectTyped, ObservedTyped, PollTyped DEF PollProbe
  <2> QED BY <1>1, <2>1, TypeKept DEF PollProbe, row, kube, store, manager
<1>2. CASE SweepProbe(s)
  <2>1. FlagsOK'
    BY <1>2, Zenon DEF SweepProbe, FlagsOK, kube
  <2>2. SessionsOK'
    BY <1>2, CorrectTyped, FinishTyped, ObservedTyped, SweepTyped DEF SweepProbe
  <2> QED BY <1>2, <2>1, <2>2, TypeKept DEF SweepProbe, row, kube, store, manager
<1>3. CASE DriftWrite(s)
  <2>1. RowOK'
    BY <1>3 DEF DriftWrite, RowOK, SessionsOK, SessionState
  <2>2. SessionsOK'
    BY <1>3, FinishTyped DEF DriftWrite
  <2> QED BY <1>3, <2>1, <2>2, TypeKept DEF DriftWrite, row, kube, store, manager
<1> QED BY <1>1, <1>2, <1>3 DEF DriftStep

(* Storing an unlocked backup does, its tar having been taken.             *)
LEMMA TypeBackup ==
  ASSUME TypeOK, TarsTaken, NEW s \in Session, BackupStep(s)
  PROVE  TypeOK'
<1> USE DEF TypeOK
<1>1. CASE DailySave(s)
  <2>1. StoreOK'
    BY <1>1, SavedTyped, TypeKept DEF DailySave, TarsTaken, SessionsOK,
      SessionState, At
  <2>2. SessionsOK'
    BY <1>1, FinishTyped DEF DailySave
  <2> QED BY <1>1, <2>1, <2>2, TypeKept DEF DailySave, row, kube, store, manager
<1>2. CASE FinalizerSave(s)
  <2>1. KubeOK'
    BY <1>2 DEF FinalizerSave, KubeOK, Release
  <2>2. StoreOK'
    BY <1>2, SavedTyped, TypeKept DEF FinalizerSave, TarsTaken, SessionsOK,
      SessionState, At
  <2>3. SessionsOK'
    BY <1>2, FinishTyped DEF FinalizerSave
  <2> QED BY <1>2, <2>1, <2>2, <2>3, TypeKept DEF FinalizerSave, row, kube, store,
    manager
<1> QED BY <1>1, <1>2 DEF BackupStep

(* The steps of Kubernetes do.                                             *)
LEMMA TypeKube ==
  ASSUME TypeOK, KubeStep
  PROVE  TypeOK'
<1> USE DEF TypeOK
<1>1. CASE KubeCreatesPod
  <2>1. FlagsOK'
    BY <1>1, Zenon DEF KubeCreatesPod, FlagsOK, row, manager
  <2>2. KubeOK'
    BY <1>1 DEF KubeCreatesPod, KubeOK
  <2> QED BY <1>1, <2>1, <2>2, TypeKept DEF KubeCreatesPod, row, kube, store,
    manager
<1>2. CASE KubePodProgress
  <2>1. KubeOK'
    BY <1>2 DEF KubePodProgress, KubeOK
  <2> QED BY <1>2, <2>1, TypeKept DEF KubePodProgress, row, kube, store, manager
<1>3. CASE KubeScalesDown
  <2>1. FlagsOK'
    BY <1>3, Zenon DEF KubeScalesDown, FlagsOK, row, TerminatePod, manager
  <2>2. KubeOK'
    BY <1>3 DEF KubeScalesDown, KubeOK, TerminatePod
  <2> QED BY <1>3, <2>1, <2>2, TypeKept DEF KubeScalesDown, row, kube, store,
    manager
<1>4. CASE KubeContainerExits
  <2>1. KubeOK'
    BY <1>4 DEF KubeContainerExits, KubeOK
  <2> QED BY <1>4, <2>1, TypeKept DEF KubeContainerExits, row, kube, store, manager
<1> QED BY <1>1, <1>2, <1>3, <1>4 DEF KubeStep

(* The steps of the users, the operators, the unlocked loops and time do.  *)
LEMMA TypeEnv ==
  ASSUME TypeOK, Environment
  PROVE  TypeOK'
<1> USE DEF TypeOK
<1>1. CASE FinalizerGiveUp
  <2>1. KubeOK'
    BY <1>1 DEF FinalizerGiveUp, KubeOK, Release
  <2> QED BY <1>1, <2>1, TypeKept DEF FinalizerGiveUp, row, kube, store, manager
<1>2. CASE DailyCleanup
  <2>1. StoreOK'
    BY <1>2 DEF DailyCleanup, StoreOK
  <2> QED BY <1>2, <2>1, TypeKept DEF DailyCleanup, row, kube, store, manager
<1>3. CASE Evict
  <2>1. FlagsOK'
    BY <1>3, Zenon DEF Evict, FlagsOK, row, TerminatePod, manager
  <2>2. KubeOK'
    BY <1>3 DEF Evict, KubeOK, TerminatePod
  <2> QED BY <1>3, <2>1, <2>2, TypeKept DEF Evict, row, kube, store, manager
<1>4. CASE Restart
  <2>1. FlagsOK'
    BY <1>4, Zenon DEF Restart, FlagsOK, TerminatePod, ReplacePod, manager
  <2>2. RowOK'
    BY <1>4 DEF Restart, RowOK
  <2>3. KubeOK'
    BY <1>4 DEF Restart, KubeOK, TerminatePod, ReplacePod
  <2> QED BY <1>4, <2>1, <2>2, <2>3, TypeKept DEF Restart, row, kube, store, manager
<1>5. CASE DeleteDeployment
  <2>1. KubeOK'
    BY <1>5 DEF DeleteDeployment, KubeOK
  <2> QED BY <1>5, <2>1, TypeKept DEF DeleteDeployment, row, kube, store, manager
<1>6. CASE UserWrite
  <2>1. KubeOK'
    BY <1>6, WriteTyped, Contents DEF UserWrite, KubeOK, kube
  <2>2. CountersOK'
    BY <1>6, WriteTyped DEF UserWrite, CountersOK, manager
  <2> QED BY <1>6, <2>1, <2>2, TypeKept DEF UserWrite, row, kube, store, manager
<1>7. CASE HalfHourPasses
  <2>1. FlagsOK'
    BY <1>7, Zenon DEF HalfHourPasses, FlagsOK, kube, manager
  <2>2. RowOK'
    BY <1>7 DEF HalfHourPasses, RowOK
  <2> QED BY <1>7, <2>1, <2>2, TypeKept DEF HalfHourPasses, row, kube, store,
    manager
<1>8. CASE DayPasses
  <2>1. FlagsOK'
    BY <1>8, Zenon DEF DayPasses, FlagsOK, kube
  <2>2. RowOK'
    BY <1>8 DEF DayPasses, RowOK
  <2>3. StoreOK'
    BY <1>8 DEF DayPasses, StoreOK
  <2> QED BY <1>8, <2>1, <2>2, <2>3, TypeKept DEF DayPasses, row, kube, store,
    manager
<1>9. CASE MonthPasses
  <2>1. FlagsOK'
    BY <1>9, Zenon DEF MonthPasses, FlagsOK, kube
  <2>2. RowOK'
    BY <1>9 DEF MonthPasses, RowOK
  <2>3. StoreOK'
    BY <1>9, NewestTyped DEF MonthPasses, StoreOK
  <2> QED BY <1>9, <2>1, <2>2, <2>3, TypeKept DEF MonthPasses, row, kube, store,
    manager
<1>10. CASE Crash
  <2>1. FlagsOK'
    BY <1>10, Zenon DEF Crash, FlagsOK, row, kube
  <2>2. SessionsOK'
    BY <1>10, QuietTyped DEF Crash, SessionsOK
  <2>3. CountersOK'
    BY <1>10, BoundsAssumption DEF Crash, CountersOK
  <2> QED BY <1>10, <2>1, <2>2, <2>3, TypeKept DEF Crash, row, kube, store, manager
<1> QED BY <1>1, <1>2, <1>3, <1>4, <1>5, <1>6, <1>7, <1>8, <1>9, <1>10 DEF
  Environment

=============================================================================
