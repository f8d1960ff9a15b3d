---------------------------- MODULE EngineProofs ----------------------------
(***************************************************************************)
(* The safety of one engine's lifecycle, for every number of sessions,     *)
(* every bound and every setting.  The inductive invariant is TypeOK and   *)
(* Safe; each step keeps Safe, group of actions by group of actions.  An   *)
(* engine whose handlers do not overlap has a stronger one (NoLostBackup). *)
(***************************************************************************)
EXTENDS EngineTypes

(* A session that begins is well typed and plans nothing yet.              *)
LEMMA BeginTyped ==
  ASSUME NEW pc \in Pc, NEW loop \in Loops \cup {"none"}, NEW st \in Status
  PROVE  /\ Begin(pc, loop, st) \in SessionState
         /\ Begin(pc, loop, st).pc = pc
         /\ Begin(pc, loop, st).plan = "none"
         /\ Begin(pc, loop, st).tar = None
BY QuietTyped DEF Begin, Quiet, SessionState

(* A step that changes no variable Safe speaks of keeps it.                *)
LEMMA Untouched ==
  ASSUME IInv, UNCHANGED <<status, backupAt, archivePath, kdep, pvc, daily, archives, ses>>
  PROVE  Safe'
BY DEF IInv, Safe, LockHeldOnce, DeployKeepsVolume, DeploymentOwned,
       ArchivedHasNoDeployment, ArchiveKnown, ArchivedHasPath, BackupKnown,
       BackupAtMeansBackup, TarsTaken

(* A session that goes on to a place outside the lock keeps Safe if it     *)
(* carries no archive and intends no ARCHIVED.                             *)
LEMMA Rests ==
  ASSUME IInv, NEW s \in Session, NEW x \in SessionState, Become(s, x),
         x.pc \in (FreePc \cup WaitPc) \ {"daily_save", "final_save"},
         x.plan # "archive",
         x.pc = "destroy_lock" => x.tar = None,
         x.pc = "drift_write" => x.arg # "ARCHIVED",
         UNCHANGED <<status, backupAt, archivePath, kdep, pvc, store>>
  PROVE  Safe'
<1> USE DEF IInv, TypeOK, SessionsOK, Safe, Become, store
<1>1. ses'[s] = x /\ \A t \in Session \ {s} : ses'[t] = ses[t]
  OBVIOUS
<1>2. x.pc \notin LockedPc \cup {"daily_save", "final_save", "suspend_mark", "destroy_mark",
                                "destroy_archive", "destroy_delete"}
  BY DEF LockedPc, DeployBody, FreePc, WaitPc
<1>3. LockHeldOnce'
  BY <1>1, <1>2 DEF LockHeldOnce
<1>4. DeployKeepsVolume'
  BY <1>1, <1>2 DEF DeployKeepsVolume, HoldsVolume, LockedPc, DeployBody
<1>5. DeploymentOwned'
  BY <1>1, <1>2 DEF DeploymentOwned, ArchivedHasNoDeployment, LockedPc, DeployBody
<1>6. ArchiveKnown'
  BY <1>1, <1>2 DEF ArchiveKnown, ArchivedHasPath
<1>7. BackupKnown' /\ TarsTaken'
  BY <1>1, <1>2 DEF BackupKnown, BackupAtMeansBackup, TarsTaken
<1> QED BY <1>3, <1>4, <1>5, <1>6, <1>7

(* In particular one that begins there.                                    *)
LEMMA Begins ==
  ASSUME IInv, NEW s \in Session,
         NEW pc \in (FreePc \cup WaitPc) \ {"daily_save", "final_save", "drift_write"},
         NEW loop \in Loops \cup {"none"}, NEW st \in Status,
         Become(s, Begin(pc, loop, st)),
         UNCHANGED <<status, backupAt, archivePath, kdep, pvc, store>>
  PROVE  Safe'
<1>1. pc \in Pc
  BY DEF Pc
<1>2. /\ Begin(pc, loop, st) \in SessionState /\ Begin(pc, loop, st).pc = pc
      /\ Begin(pc, loop, st).plan = "none" /\ Begin(pc, loop, st).tar = None
  BY <1>1, BeginTyped
<1> QED BY <1>2, Rests

(* In particular the drift correction, which never turns a row into        *)
(* ARCHIVED.                                                               *)
LEMMA Corrects ==
  ASSUME IInv, NEW s \in Session, NEW obs \in Observation, NEW target \in Status,
         target \in (Status \ {"ARCHIVED"}) \cup {ses[s].seen},
         Correct(s, obs, target),
         UNCHANGED <<status, backupAt, archivePath, kdep, pvc, store>>
  PROVE  Safe'
<1>1. CASE target = ses[s].seen
  <2>1. Quiet.pc = "idle" /\ Quiet.plan = "none"
    BY DEF Quiet
  <2> QED BY <1>1, <2>1, QuietTyped, Rests DEF Correct, Finish, FreePc
<1>2. CASE target # ses[s].seen
  <2> DEFINE x == [ses[s] EXCEPT !.pc = "drift_write", !.arg = target, !.plan = obs]
  <2>1. x \in SessionState /\ x.pc = "drift_write" /\ x.arg = target /\ x.plan = obs
    BY DEF IInv, TypeOK, SessionsOK, SessionState, Pc, FreePc, Plan
  <2>2. x.pc \in (FreePc \cup WaitPc) \ {"daily_save", "final_save"} /\ obs # "archive"
    BY <2>1 DEF FreePc, Observation
  <2>3. Become(s, x)
    BY <1>2 DEF Correct
  <2> HIDE DEF x
  <2> QED BY <1>2, <2>1, <2>2, <2>3, Rests
<1> QED BY <1>1, <1>2

(* After save_daily the backup of the day is the content saved.            *)
LEMMA SavedToday ==
  ASSUME StoreOK, NEW c \in Content, SaveDaily(c) \/ PutDaily(c)
  PROVE  daily'.today = c /\ UNCHANGED archives
BY DEF StoreOK, SaveDaily, PutDaily

(* The first steps of requests and loop rounds keep Safe.                  *)
LEMMA SafeStart ==
  ASSUME IInv, NEW s \in Session, StartStep(s)
  PROVE  Safe'
<1> USE DEF IInv, TypeOK, Safe, SessionsOK, SessionState, LockHeldOnce, LockedPc,
  DeployBody, DeployKeepsVolume, HoldsVolume, DeploymentOwned,
  ArchivedHasNoDeployment, ArchiveKnown, ArchivedHasPath, BackupKnown,
  BackupAtMeansBackup, TarsTaken, At, Become, Goto, Finish, Quiet, Begin, row, kube,
  store
<1>1. CASE DeployRead(s)
  BY <1>1 DEF DeployRead
<1>2. CASE SuspendRead(s)
  <2>1. PICK loop \in Loops \cup {"none"} : Become(s, Begin("suspend_lock", loop, status))
    BY <1>2 DEF SuspendRead, Loops
  <2>2. UNCHANGED <<status, backupAt, archivePath, kdep, pvc, store>>
    BY <1>2 DEF SuspendRead
  <2>3. "suspend_lock" \in WaitPc /\ status \in Status
    BY DEF WaitPc, RowOK
  <2> HIDE DEF Begin, Become, IInv, TypeOK
  <2> QED BY <2>1, <2>2, <2>3, Begins
<1>3. CASE DestroyRead(s)
  <2>1. PICK loop \in Loops \cup {"none"} : Become(s, Begin("destroy_lock", loop, status))
    BY <1>3 DEF DestroyRead, Loops
  <2>2. UNCHANGED <<status, backupAt, archivePath, kdep, pvc, store>>
    BY <1>3 DEF DestroyRead
  <2>3. "destroy_lock" \in WaitPc /\ status \in Status
    BY DEF WaitPc, RowOK
  <2> HIDE DEF Begin, Become, IInv, TypeOK
  <2> QED BY <2>1, <2>2, <2>3, Begins
<1>4. CASE ResumeRead(s)
  BY <1>4 DEF ResumeRead
<1>5. CASE PollRead(s)
  BY <1>5 DEF PollRead
<1>6. CASE SweepRead(s)
  BY <1>6 DEF SweepRead
<1>7. CASE DailyTar(s)
  <2>1. CASE UNCHANGED ses
    BY <1>7, <2>1, Untouched DEF DailyTar, row, kube, store
  <2>2. CASE status = "RUNNING" /\ CanExec /\ Become(s, [Begin("daily_save", "daily", status) EXCEPT !.tar = pvc])
    BY <1>7, <2>2 DEF DailyTar, CanExec, row, kube, store
  <2> QED BY <1>7, <2>1, <2>2 DEF DailyTar
<1>8. CASE FinalizerTar(s)
  BY <1>8 DEF FinalizerTar
<1> QED BY <1>1, <1>2, <1>3, <1>4, <1>5, <1>6, <1>7, <1>8 DEF StartStep

(* Taking the advisory lock does: nobody else is inside, and a deploy goes *)
(* on only for a row that says DEPLOYING.                                  *)
LEMMA SafeLock ==
  ASSUME IInv, NEW s \in Session, LockStep(s)
  PROVE  Safe'
<1> USE DEF IInv, TypeOK, Safe, SessionsOK, SessionState, LockHeldOnce, LockedPc,
  DeployBody, DeployKeepsVolume, HoldsVolume, DeploymentOwned,
  ArchivedHasNoDeployment, ArchiveKnown, ArchivedHasPath, BackupKnown,
  BackupAtMeansBackup, TarsTaken, At, Become, Goto, Finish, Quiet, LockFree, row,
  kube, store
<1>1. CASE DeployLock(s)
  <2>1. CASE status = "DEPLOYING"
    <3>1. /\ \A t \in Session \ {s} : ses'[t] = ses[t] /\ ses[t].pc \notin LockedPc
          /\ ses'[s].pc = "deploy_create" /\ ses'[s].plan = ses[s].plan /\ ses'[s].tar = ses[s].tar
      <4>1. ses' = [ses EXCEPT ![s] = [ses[s] EXCEPT !.pc = "deploy_create", !.seen = status]]
        BY <1>1, <2>1 DEF DeployLock
      <4>2. ses[s] \in SessionState
        OBVIOUS
      <4>3. /\ ses'[s].pc = "deploy_create" /\ ses'[s].plan = ses[s].plan
            /\ ses'[s].tar = ses[s].tar
        BY <4>1, <4>2
      <4>4. \A t \in Session \ {s} : ses'[t] = ses[t] /\ ses[t].pc \notin LockedPc
        BY <1>1, <4>1 DEF DeployLock
      <4> QED BY <4>3, <4>4
    <3>2. UNCHANGED <<status, backupAt, archivePath, kdep, pvc, daily, archives>>
      BY <1>1 DEF DeployLock
    <3> QED BY <2>1, <3>1, <3>2
  <2>2. CASE status # "DEPLOYING"
    BY <1>1, <2>2 DEF DeployLock
  <2> QED BY <2>1, <2>2
<1>2. CASE SuspendLock(s)
  BY <1>2 DEF SuspendLock
<1>3. CASE DestroyLock(s)
  BY <1>3 DEF DestroyLock
<1> QED BY <1>1, <1>2, <1>3 DEF LockStep

(* The deploy body does: it alone creates Deployments, each with a volume. *)
LEMMA SafeDeploy ==
  ASSUME IInv, NEW s \in Session, DeployStep(s)
  PROVE  Safe'
<1> USE DEF IInv, TypeOK, Safe, SessionsOK, SessionState, LockHeldOnce, LockedPc,
  DeployBody, DeployKeepsVolume, HoldsVolume, DeploymentOwned,
  ArchivedHasNoDeployment, ArchiveKnown, ArchivedHasPath, BackupKnown,
  BackupAtMeansBackup, TarsTaken, At, Become, Goto, Finish, Quiet, SetStatus, row,
  kube, store
<1>1. CASE DeployMark(s)
  BY <1>1 DEF DeployMark
<1>2. CASE DeployCreate(s)
  <2>1. kdep' # "absent" /\ pvc' # None
    BY <1>2, Provisions, NoneAssumption DEF DeployCreate, DeployFromArchive, DeployFromSuspended, DeployFresh, CreateEngine
  <2>2. PICK plan \in Plan, tar \in Content \cup {None} :
          Restoring(s, plan, tar) /\ (plan = "archive" => tar \in archives)
    BY <1>2 DEF DeployCreate, DeployFromArchive, DeployFromSuspended, DeployFresh, Plan, RowOK
  <2>3. LockHeldOnce'
    BY <1>2, <2>2 DEF DeployCreate, Restoring
  <2>4. DeployKeepsVolume'
    BY <2>1 DEF DeployKeepsVolume
  <2>5. DeploymentOwned'
    BY <1>2, <2>1, <2>2 DEF DeployCreate, Restoring
  <2>6. ArchiveKnown'
    BY <1>2, <2>2 DEF DeployCreate, Restoring
  <2>7. BackupKnown' /\ TarsTaken'
    BY <1>2, <2>2 DEF DeployCreate, Restoring
  <2> QED BY <2>3, <2>4, <2>5, <2>6, <2>7
<1>3. CASE DeployCreateFails(s)
  <2>1. UNCHANGED <<pvc, kdep>> \/ pvc' # None
    BY <1>3, Provisions, NoneAssumption DEF DeployCreateFails
  <2>2. LockHeldOnce' /\ DeployKeepsVolume' /\ ArchiveKnown' /\ BackupKnown' /\ TarsTaken'
    BY <1>3, <2>1 DEF DeployCreateFails
  <2>3. DeploymentOwned'
    BY <1>3, <2>1 DEF DeployCreateFails
  <2> QED BY <2>2, <2>3
<1>4. CASE DeployPodRuns(s)
  BY <1>4 DEF DeployPodRuns
<1>5. CASE DeployTimesOut(s)
  BY <1>5 DEF DeployTimesOut, WaitRunsOut
<1>6. CASE DeployRestore(s)
  BY <1>6 DEF DeployRestore, RestoreSource, Newest
<1>7. CASE DeployRestoreFails(s)
  BY <1>7 DEF DeployRestoreFails
<1>8. CASE DeployAbort(s)
  BY <1>8 DEF DeployAbort, ScaleTo
<1>9. CASE DeployDone(s)
  BY <1>9 DEF DeployDone
<1> QED BY <1>1, <1>2, <1>3, <1>4, <1>5, <1>6, <1>7, <1>8, <1>9 DEF DeployStep

(* suspend does: backup_at is set after a backup of the day.               *)
LEMMA SafeSuspend ==
  ASSUME IInv, NEW s \in Session, SuspendStep(s)
  PROVE  Safe'
<1> USE DEF IInv, TypeOK, Safe, SessionsOK, SessionState, LockHeldOnce, LockedPc,
  DeployBody, DeployKeepsVolume, HoldsVolume, DeploymentOwned,
  ArchivedHasNoDeployment, ArchiveKnown, ArchivedHasPath, BackupKnown,
  BackupAtMeansBackup, TarsTaken, At, Become, Goto, Finish, Quiet, SetStatus, Begin,
  row, kube, store
<1>1. CASE SuspendBackup(s)
  <2>1. ~SkipBackup => daily'.today # None
    BY <1>1, SavedToday, NoneAssumption DEF SuspendBackup, CanExec, KubeOK, MaySkip
  <2>2. LockHeldOnce' /\ DeployKeepsVolume' /\ DeploymentOwned' /\ TarsTaken'
    BY <1>1 DEF SuspendBackup
  <2>3. ArchiveKnown'
    BY <1>1 DEF SuspendBackup, SaveDaily
  <2>4. BackupKnown'
    BY <1>1, <2>1 DEF SuspendBackup
  <2> QED BY <2>2, <2>3, <2>4
<1>2. CASE SuspendBackupFails(s)
  <2>1. UNCHANGED archives /\ (UNCHANGED daily \/ daily'.today # None)
    BY <1>2, SavedToday, NoneAssumption DEF SuspendBackupFails, CanExec, KubeOK, store
  <2>2. LockHeldOnce' /\ DeployKeepsVolume' /\ DeploymentOwned' /\ TarsTaken'
    BY <1>2 DEF SuspendBackupFails
  <2>3. ArchiveKnown' /\ BackupKnown'
    BY <1>2, <2>1 DEF SuspendBackupFails
  <2> QED BY <2>2, <2>3
<1>3. CASE SuspendMark(s)
  BY <1>3 DEF SuspendMark
<1>4. CASE SuspendScale(s)
  BY <1>4 DEF SuspendScale, ScaleTo
<1> QED BY <1>1, <1>2, <1>3, <1>4 DEF SuspendStep

(* destroy does: the volume goes, and the row becomes ARCHIVED, under the  *)
(* lock and with an archive.                                               *)
LEMMA SafeDestroy ==
  ASSUME IInv, NEW s \in Session, DestroyStep(s)
  PROVE  Safe'
<1> USE DEF IInv, TypeOK, Safe, SessionsOK, SessionState, LockHeldOnce, LockedPc,
  DeployBody, DeployKeepsVolume, HoldsVolume, DeploymentOwned,
  ArchivedHasNoDeployment, ArchiveKnown, ArchivedHasPath, BackupKnown,
  BackupAtMeansBackup, TarsTaken, At, Become, Goto, Finish, Quiet, SetStatus, row,
  kube, store
<1>1. CASE DestroyArchive(s)
  <2>1. archives \subseteq archives' /\ ses[s].tar = None /\ ses[s].plan # "archive"
    BY <1>1, NoneAssumption DEF DestroyArchive, CopyNewest, StoreOK
  <2>2. /\ \A t \in Session \ {s} : ses'[t] = ses[t]
        /\ ses'[s].pc = "destroy_delete" /\ ses'[s].plan = ses[s].plan
        /\ ses'[s].tar \in archives' \/ (ses'[s].tar = None /\ ~ReclaimPvc)
    <3>1. CASE Goto(s, "destroy_delete") /\ MayGoUnarchived
      BY <1>1, <2>1, <3>1 DEF DestroyArchive, MayGoUnarchived
    <3>2. CASE CopyNewest /\ Become(s, [ses[s] EXCEPT !.pc = "destroy_delete", !.tar = Newest(daily)])
      BY <1>1, <2>1, <3>2 DEF DestroyArchive, CopyNewest
    <3> QED BY <1>1, <3>1, <3>2 DEF DestroyArchive
  <2>3. ses[s].pc = "destroy_archive" /\ UNCHANGED <<status, backupAt, archivePath, kdep, pvc, daily>>
    BY <1>1 DEF DestroyArchive
  <2>4. LockHeldOnce' /\ DeployKeepsVolume' /\ TarsTaken'
    BY <2>2, <2>3
  <2>5. DeploymentOwned' /\ BackupKnown'
    BY <2>2, <2>3
  <2>6. ArchiveKnown'
    BY <2>1, <2>2, <2>3
  <2> QED BY <2>4, <2>5, <2>6
<1>2. CASE DestroyRefused(s)
  BY <1>2 DEF DestroyRefused, CopyNewest
<1>3. CASE DestroyDelete(s)
  <2>1. \A t \in Session \ {s} : ses[t].pc \notin LockedPc
    BY <1>3 DEF DestroyDelete
  <2>2. LockHeldOnce' /\ BackupKnown' /\ TarsTaken'
    BY <1>3 DEF DestroyDelete
  <2>3. DeployKeepsVolume'
    BY <1>3, <2>1 DEF DestroyDelete
  <2>4. DeploymentOwned' /\ ArchiveKnown'
    BY <1>3 DEF DestroyDelete
  <2> QED BY <2>2, <2>3, <2>4
<1>4. CASE DestroyDeleteFails(s)
  BY <1>4 DEF DestroyDeleteFails
<1>5. CASE DestroyMark(s)
  <2>1. \A t \in Session \ {s} : ses[t].pc \notin LockedPc
    BY <1>5 DEF DestroyMark
  <2>2. LockHeldOnce' /\ BackupKnown' /\ TarsTaken' /\ DeployKeepsVolume'
    BY <1>5 DEF DestroyMark
  <2>3. DeploymentOwned'
    BY <1>5, <2>1 DEF DestroyMark
  <2>4. ArchiveKnown'
    BY <1>5, NoneAssumption DEF DestroyMark, PathAfterArchive, StoreOK
  <2> QED BY <2>2, <2>3, <2>4
<1> QED BY <1>1, <1>2, <1>3, <1>4, <1>5 DEF DestroyStep

(* resume does: it scales a Deployment that exists, and never creates one. *)
LEMMA SafeResume ==
  ASSUME IInv, NEW s \in Session, ResumeStep(s)
  PROVE  Safe'
<1> USE DEF IInv, TypeOK, Safe, SessionsOK, SessionState, LockHeldOnce, LockedPc,
  DeployBody, DeployKeepsVolume, HoldsVolume, DeploymentOwned,
  ArchivedHasNoDeployment, ArchiveKnown, ArchivedHasPath, BackupKnown,
  BackupAtMeansBackup, TarsTaken, At, Become, Goto, Finish, Quiet, SetStatus, row,
  kube, store
<1>1. CASE ResumeScale(s)
  BY <1>1 DEF ResumeScale
<1>2. CASE ResumeMark(s)
  BY <1>2 DEF ResumeMark
<1> QED BY <1>1, <1>2 DEF ResumeStep

(* The drift correction does, however old what it saw is.                  *)
LEMMA SafeDrift ==
  ASSUME IInv, NEW s \in Session, DriftStep(s)
  PROVE  Safe'
<1> USE DEF IInv, TypeOK, Safe, SessionsOK, SessionState, LockHeldOnce, LockedPc,
  DeployBody, DeployKeepsVolume, HoldsVolume, DeploymentOwned,
  ArchivedHasNoDeployment, ArchiveKnown, ArchivedHasPath, BackupKnown,
  BackupAtMeansBackup, TarsTaken, At, Become, Goto, Finish, Quiet, row, kube, store
<1>1. CASE PollProbe(s)
  <2>1. PICK obs \in Observation : Correct(s, obs, PollTarget(s, obs))
    BY <1>1, ObservedTyped DEF PollProbe
  <2>2. PollTarget(s, obs) \in (Status \ {"ARCHIVED"}) \cup {ses[s].seen}
    BY <2>1 DEF PollTarget, ClassifyDrift, Status, Observation
  <2> QED BY <1>1, <2>1, <2>2, Corrects DEF PollProbe, row, kube
<1>2. CASE SweepProbe(s)
  <2>1. PICK obs \in Observation, b \in {Newest(daily) # None, FALSE} :
          Correct(s, obs, ClassifyDrift("RUNNING", obs, b)) \/ Finish(s)
    BY <1>2, ObservedTyped DEF SweepProbe
  <2>2. UNCHANGED <<status, backupAt, archivePath, kdep, pvc, store>>
    BY <1>2 DEF SweepProbe, kube
  <2>3. CASE Correct(s, obs, ClassifyDrift("RUNNING", obs, b))
    <3>1. ClassifyDrift("RUNNING", obs, b) \in Status \ {"ARCHIVED"}
      BY DEF ClassifyDrift, Status, Observation
    <3> QED BY <2>2, <2>3, <3>1, Corrects
  <2>4. CASE Finish(s)
    <3>1. Quiet.pc = "idle" /\ Quiet.plan = "none"
      BY DEF Quiet
    <3> QED BY <2>2, <2>4, <3>1, QuietTyped, Rests DEF FreePc
  <2> QED BY <2>1, <2>3, <2>4
<1>3. CASE DriftWrite(s)
  <2>1. status' # "ARCHIVED"
    BY <1>3 DEF DriftWrite
  <2>2. LockHeldOnce' /\ DeployKeepsVolume' /\ BackupKnown' /\ TarsTaken'
    BY <1>3 DEF DriftWrite
  <2>3. DeploymentOwned'
    BY <1>3, <2>1 DEF DriftWrite
  <2>4. ArchiveKnown'
    BY <1>3, <2>1 DEF DriftWrite
  <2> QED BY <2>2, <2>3, <2>4
<1> QED BY <1>1, <1>2, <1>3 DEF DriftStep

(* The unlocked backups do: what they overwrite the backup of the day with *)
(* is never nothing.                                                       *)
LEMMA SafeBackup ==
  ASSUME IInv, NEW s \in Session, BackupStep(s)
  PROVE  Safe'
<1> USE DEF IInv, TypeOK, Safe, SessionsOK, SessionState, LockHeldOnce, LockedPc,
  DeployBody, DeployKeepsVolume, HoldsVolume, DeploymentOwned,
  ArchivedHasNoDeployment, ArchiveKnown, ArchivedHasPath, BackupKnown,
  BackupAtMeansBackup, TarsTaken, At, Become, Goto, Finish, Quiet, row, kube, store
<1>1. CASE DailySave(s)
  <2>1. UNCHANGED archives /\ (UNCHANGED daily \/ daily'.today # None)
    BY <1>1, SavedToday DEF DailySave, store
  <2>2. LockHeldOnce' /\ DeployKeepsVolume' /\ DeploymentOwned' /\ TarsTaken'
    BY <1>1 DEF DailySave
  <2>3. ArchiveKnown' /\ BackupKnown'
    BY <1>1, <2>1 DEF DailySave
  <2> QED BY <2>2, <2>3
<1>2. CASE FinalizerSave(s)
  <2>1. UNCHANGED archives /\ (UNCHANGED daily \/ daily'.today # None)
    BY <1>2, SavedToday DEF FinalizerSave, store
  <2>2. LockHeldOnce' /\ DeployKeepsVolume' /\ DeploymentOwned' /\ TarsTaken'
    BY <1>2 DEF FinalizerSave
  <2>3. ArchiveKnown' /\ BackupKnown'
    BY <1>2, <2>1 DEF FinalizerSave
  <2> QED BY <2>2, <2>3
<1> QED BY <1>1, <1>2 DEF BackupStep

(* The steps of Kubernetes do.                                             *)
LEMMA SafeKube ==
  ASSUME IInv, KubeStep
  PROVE  Safe'
<1> USE DEF IInv, TypeOK, Safe, SessionsOK, SessionState, LockHeldOnce, LockedPc,
  DeployBody, DeployKeepsVolume, HoldsVolume, DeploymentOwned,
  ArchivedHasNoDeployment, ArchiveKnown, ArchivedHasPath, BackupKnown,
  BackupAtMeansBackup, TarsTaken, row, kube, store, manager
<1>1. CASE KubeCreatesPod
  BY <1>1 DEF KubeCreatesPod
<1>2. CASE KubePodProgress
  BY <1>2 DEF KubePodProgress
<1>3. CASE KubeScalesDown
  BY <1>3 DEF KubeScalesDown, TerminatePod
<1>4. CASE KubeContainerExits
  BY <1>4 DEF KubeContainerExits
<1> QED BY <1>1, <1>2, <1>3, <1>4 DEF KubeStep

(* The users, the operators, the unlocked loops and time do: the backup of *)
(* the day ages only together with backup_at.                              *)
LEMMA SafeEnv ==
  ASSUME IInv, Environment
  PROVE  Safe'
<1> USE DEF IInv, TypeOK, Safe, SessionsOK, SessionState, LockHeldOnce, LockedPc,
  DeployBody, DeployKeepsVolume, HoldsVolume, DeploymentOwned,
  ArchivedHasNoDeployment, ArchiveKnown, ArchivedHasPath, BackupKnown,
  BackupAtMeansBackup, TarsTaken, Quiet, row, kube, store, manager
<1>1. CASE FinalizerGiveUp
  BY <1>1 DEF FinalizerGiveUp, Releasable, Release
<1>2. CASE DailyCleanup
  BY <1>2 DEF DailyCleanup
<1>3. CASE Evict
  BY <1>3 DEF Evict, TerminatePod
<1>4. CASE Restart
  BY <1>4 DEF Restart, TerminatePod, ReplacePod
<1>5. CASE DeleteDeployment
  BY <1>5 DEF DeleteDeployment
<1>6. CASE UserWrite
  <2>1. pvc # None /\ pvc' # None
    BY <1>6, WriteTyped, Contents, NoneAssumption DEF UserWrite, KubeOK
  <2>2. LockHeldOnce' /\ ArchiveKnown' /\ BackupKnown' /\ TarsTaken'
    BY <1>6 DEF UserWrite
  <2>3. DeployKeepsVolume' /\ DeploymentOwned'
    BY <1>6, <2>1 DEF UserWrite
  <2> QED BY <2>2, <2>3
<1>7. CASE HalfHourPasses
  BY <1>7 DEF HalfHourPasses
<1>8. CASE DayPasses
  <2>1. LockHeldOnce' /\ DeployKeepsVolume' /\ DeploymentOwned' /\ ArchiveKnown' /\ TarsTaken'
    BY <1>8 DEF DayPasses
  <2>2. backupAt' # "fresh"
    BY <1>8 DEF DayPasses, RowOK
  <2>3. \A t \in Session : ses'[t].pc # "suspend_mark"
    BY <1>8 DEF DayPasses, Resting, At, WaitPc
  <2>4. BackupKnown'
    BY <2>2, <2>3 DEF BackupKnown, BackupAtMeansBackup
  <2> QED BY <2>1, <2>4
<1>9. CASE MonthPasses
  <2>1. LockHeldOnce' /\ DeployKeepsVolume' /\ DeploymentOwned' /\ ArchiveKnown' /\ TarsTaken'
    BY <1>9 DEF MonthPasses
  <2>2. backupAt' # "fresh"
    BY <1>9 DEF MonthPasses, RowOK
  <2>3. \A t \in Session : ses'[t].pc # "suspend_mark"
    BY <1>9 DEF MonthPasses, Resting, At, WaitPc
  <2>4. BackupKnown'
    BY <2>2, <2>3 DEF BackupKnown, BackupAtMeansBackup
  <2> QED BY <2>1, <2>4
<1>10. CASE Crash
  BY <1>10 DEF Crash
<1> QED BY <1>1, <1>2, <1>3, <1>4, <1>5, <1>6, <1>7, <1>8, <1>9, <1>10 DEF
  Environment

-----------------------------------------------------------------------------
(* The initial state has no row, no engine, no backup and no session at    *)
(* work.                                                                   *)
LEMMA InitInvariant == Init => IInv
<1> SUFFICES ASSUME Init PROVE IInv
  OBVIOUS
<1>1. FlagsOK
  BY Zenon DEF Init, FlagsOK
<1>2. RowOK /\ KubeOK
  BY DEF Init, RowOK, Status, KubeOK
<1>3. StoreOK
  BY Contents DEF Init, StoreOK
<1>4. SessionsOK
  BY QuietTyped DEF Init, SessionsOK
<1>5. CountersOK
  BY BoundsAssumption DEF Init, CountersOK
<1>6. \A s \in Session : ses[s].pc = "idle" /\ ses[s].plan = "none"
  BY DEF Init, Quiet
<1>7. LockHeldOnce /\ DeployKeepsVolume /\ TarsTaken
  BY <1>6 DEF LockHeldOnce, LockedPc, DeployBody, DeployKeepsVolume, HoldsVolume, TarsTaken
<1>8. DeploymentOwned
  BY <1>6 DEF Init, DeploymentOwned, DeployBody, ArchivedHasNoDeployment
<1>9. ArchiveKnown /\ BackupKnown
  BY <1>6 DEF Init, ArchiveKnown, ArchivedHasPath, BackupKnown, BackupAtMeansBackup
<1> QED BY <1>1, <1>2, <1>3, <1>4, <1>5, <1>7, <1>8, <1>9 DEF IInv, TypeOK, Safe

(* A step that changes nothing keeps the invariant.                        *)
LEMMA StutterInvariant == ASSUME IInv, UNCHANGED vars PROVE IInv'
<1>1. TypeOK'
  BY TypeKept DEF IInv, TypeOK, vars, row, kube, store, manager
<1>2. Safe'
  BY Untouched DEF vars, row, kube, store, manager
<1> QED BY <1>1, <1>2 DEF IInv

(* Every step of the lifecycle keeps the invariant.                        *)
LEMMA NextInvariant == ASSUME IInv, Next PROVE IInv'
<1>1. TypeOK /\ TarsTaken
  BY DEF IInv, Safe
<1>2. ASSUME NEW s \in Session, StartStep(s) PROVE IInv'
  BY <1>1, <1>2, TypeStart, SafeStart DEF IInv
<1>3. ASSUME NEW s \in Session, LockStep(s) PROVE IInv'
  BY <1>1, <1>3, TypeLock, SafeLock DEF IInv
<1>4. ASSUME NEW s \in Session, WorkStep(s) PROVE IInv'
  <2>1. CASE DeployStep(s)
    BY <1>1, <2>1, TypeDeploy, SafeDeploy DEF IInv
  <2>2. CASE SuspendStep(s)
    BY <1>1, <2>2, TypeSuspend, SafeSuspend DEF IInv
  <2>3. CASE DestroyStep(s)
    BY <1>1, <2>3, TypeDestroy, SafeDestroy DEF IInv
  <2>4. CASE ResumeStep(s)
    BY <1>1, <2>4, TypeResume, SafeResume DEF IInv
  <2>5. CASE DriftStep(s)
    BY <1>1, <2>5, TypeDrift, SafeDrift DEF IInv
  <2>6. CASE BackupStep(s)
    BY <1>1, <2>6, TypeBackup, SafeBackup DEF IInv
  <2> QED BY <1>4, <2>1, <2>2, <2>3, <2>4, <2>5, <2>6 DEF WorkStep
<1>5. CASE KubeStep
  BY <1>1, <1>5, TypeKube, SafeKube DEF IInv
<1>6. CASE Environment
  BY <1>1, <1>6, TypeEnv, SafeEnv DEF IInv
<1> QED BY <1>2, <1>3, <1>4, <1>5, <1>6 DEF Next

-----------------------------------------------------------------------------
(* The inductive invariant holds in every reachable state.                 *)
THEOREM InvariantHolds == Spec => []IInv
<1>1. Init => IInv
  BY InitInvariant
<1>2. IInv /\ [Next]_vars => IInv'
  BY NextInvariant, StutterInvariant
<1> QED BY <1>1, <1>2, PTL DEF Spec

(* Every variable keeps its type, whatever interleaves.                    *)
THEOREM TypeCorrect == Spec => []TypeOK
<1>1. IInv => TypeOK
  BY DEF IInv
<1> QED BY <1>1, InvariantHolds, PTL

(* The volume a deploy body has provisioned is there until the body hands  *)
(* it over: no destroy takes it away in between.                           *)
THEOREM VolumeKeptForDeploy == Spec => []DeployKeepsVolume
<1>1. IInv => DeployKeepsVolume
  BY DEF IInv, Safe
<1> QED BY <1>1, InvariantHolds, PTL

(* When volumes are reclaimed, an ARCHIVED row names an archive.           *)
THEOREM ArchivedIsRecoverable == Spec => []ArchivedHasPath
<1>1. IInv => ArchivedHasPath
  BY DEF IInv, Safe, ArchiveKnown
<1> QED BY <1>1, InvariantHolds, PTL

(* An ARCHIVED row has no Deployment.                                      *)
THEOREM ArchivedIsDown == Spec => []ArchivedHasNoDeployment
<1>1. IInv => ArchivedHasNoDeployment
  BY DEF IInv, Safe, DeploymentOwned
<1> QED BY <1>1, InvariantHolds, PTL

(* A fresh backup_at means a backup of the day.                            *)
THEOREM BackupAtIsHonest == Spec => []BackupAtMeansBackup
<1>1. IInv => BackupAtMeansBackup
  BY DEF IInv, Safe, BackupKnown
<1> QED BY <1>1, InvariantHolds, PTL

(* Only five actions touch the volume; one of them can take it away, and   *)
(* that one has seen the archive.                                          *)
LEMMA VolumeStep ==
  ASSUME IInv, Next, pvc # None, pvc' = None
  PROVE  \E s \in Session : At(s, "destroy_delete") /\ ses[s].tar \in archives
<1>1. ASSUME NEW s \in Session, DeployStep(s) PROVE pvc' # None
  <2>1. ASSUME DeployCreate(s) PROVE pvc' # None
    BY <2>1, Provisions, NoneAssumption DEF IInv, TypeOK, DeployCreate, DeployFromArchive,
       DeployFromSuspended, DeployFresh, CreateEngine
  <2>2. ASSUME DeployCreateFails(s) PROVE pvc' # None
    BY <2>2, Provisions, NoneAssumption DEF IInv, TypeOK, DeployCreateFails
  <2>3. ASSUME DeployRestore(s) \/ DeployRestoreFails(s) PROVE pvc' # None
    BY <2>3 DEF DeployRestore, DeployRestoreFails
  <2> QED BY <1>1, <2>1, <2>2, <2>3
    DEF DeployStep, DeployMark, DeployPodRuns, DeployTimesOut, DeployAbort, DeployDone
<1>2. ASSUME NEW s \in Session, DestroyStep(s)
      PROVE  At(s, "destroy_delete") /\ ses[s].tar \in archives
  <2>1. DestroyDelete(s) /\ ReclaimPvc
    BY <1>2 DEF DestroyStep, DestroyArchive, DestroyRefused, DestroyDelete, VolumeAfterDelete,
        DestroyDeleteFails, DestroyMark
  <2> QED BY <2>1 DEF DestroyDelete, At, IInv, Safe, ArchiveKnown
<1>3. ASSUME NEW s \in Session, WorkStep(s), ~DeployStep(s), ~DestroyStep(s)
      PROVE  UNCHANGED pvc
  BY <1>3 DEF WorkStep, SuspendStep, SuspendBackup, SuspendBackupFails, SuspendMark,
      SuspendScale, ResumeStep, ResumeScale, ResumeMark, DriftStep, PollProbe, SweepProbe,
      DriftWrite, BackupStep, DailySave, FinalizerSave
<1>4. ASSUME NEW s \in Session, StartStep(s) \/ LockStep(s) PROVE UNCHANGED pvc
  BY <1>4 DEF StartStep, LockStep, DeployRead, SuspendRead, DestroyRead, ResumeRead, PollRead,
      SweepRead, DailyTar, FinalizerTar, DeployLock, SuspendLock, DestroyLock
<1>5. ASSUME KubeStep PROVE UNCHANGED pvc
  BY <1>5 DEF KubeStep, KubeCreatesPod, KubePodProgress, KubeScalesDown, KubeContainerExits
<1>6. ASSUME UserWrite PROVE pvc' # None
  <2>1. pvc \in Content /\ nextWrite <= MaxWrites /\ pvc' = pvc \cup {nextWrite}
    BY <1>6 DEF UserWrite, IInv, TypeOK, KubeOK
  <2> QED BY <2>1, WriteTyped, Contents, NoneAssumption DEF IInv, TypeOK
<1>7. ASSUME Environment, ~UserWrite PROVE UNCHANGED pvc
  BY <1>7 DEF Environment, FinalizerGiveUp, DailyCleanup, Evict, Restart, DeleteDeployment,
      HalfHourPasses, DayPasses, MonthPasses, Crash
<1> QED BY <1>1, <1>2, <1>3, <1>4, <1>5, <1>6, <1>7 DEF Next

(* The volume goes only in a destroy that has archived a copy of the       *)
(* newest backup.                                                          *)
THEOREM VolumeIsArchivedFirst == Spec => VolumeGoesOnlyArchived
<1>1. IInv /\ [Next]_vars =>
        [pvc # None /\ pvc' = None =>
           \E s \in Session : At(s, "destroy_delete") /\ ses[s].tar \in archives]_vars
  BY VolumeStep
<1> QED BY <1>1, InvariantHolds, PTL DEF Spec, VolumeGoesOnlyArchived

-----------------------------------------------------------------------------
(* In any mode something leaves the volume only where a deploy untars what *)
(* it restores over it, or a destroy reclaims it: provisioning finds what  *)
(* is there, and no other step touches it.                                 *)
Overwritten(s) == (DeployRestore(s) \/ DeployRestoreFails(s)) /\ pvc' = RestoreSource(s)

LEMMA VolumeShrinks ==
  ASSUME IInv, Next, ~(Held(pvc) \subseteq Held(pvc'))
  PROVE  \E s \in Session : Overwritten(s) \/ (DestroyDelete(s) /\ ReclaimPvc)
<1>1. ASSUME NEW s \in Session, DeployStep(s) PROVE Overwritten(s)
  <2>1. Held(pvc) = Held(Provisioned)
    BY DEF Held, Provisioned
  <2>2. ASSUME DeployCreate(s) \/ DeployCreateFails(s) PROVE UNCHANGED pvc \/ pvc' = Provisioned
    BY <2>2 DEF DeployCreate, DeployFromArchive, DeployFromSuspended, DeployFresh, CreateEngine,
        DeployCreateFails
  <2>3. ASSUME DeployRestore(s) \/ DeployRestoreFails(s) PROVE UNCHANGED pvc \/ Overwritten(s)
    BY <2>3 DEF DeployRestore, DeployRestoreFails, Overwritten
  <2> QED BY <1>1, <2>1, <2>2, <2>3 DEF DeployStep, DeployMark, DeployPodRuns, DeployTimesOut,
               DeployAbort, DeployDone, Held
<1>2. ASSUME NEW s \in Session, DestroyStep(s) PROVE DestroyDelete(s) /\ ReclaimPvc
  BY <1>2 DEF DestroyStep, DestroyArchive, DestroyRefused, DestroyDelete, VolumeAfterDelete,
      DestroyDeleteFails, DestroyMark
<1>3. ASSUME NEW s \in Session, SuspendStep(s) \/ ResumeStep(s) \/ DriftStep(s) \/ BackupStep(s)
      PROVE  UNCHANGED pvc
  BY <1>3 DEF SuspendStep, SuspendBackup, SuspendBackupFails, SuspendMark, SuspendScale,
      ResumeStep, ResumeScale, ResumeMark, DriftStep, PollProbe, SweepProbe, DriftWrite,
      BackupStep, DailySave, FinalizerSave
<1>4. ASSUME NEW s \in Session, StartStep(s) \/ LockStep(s) PROVE UNCHANGED pvc
  BY <1>4 DEF StartStep, LockStep, DeployRead, SuspendRead, DestroyRead, ResumeRead, PollRead,
      SweepRead, DailyTar, FinalizerTar, DeployLock, SuspendLock, DestroyLock
<1>5. ASSUME KubeStep PROVE UNCHANGED pvc
  BY <1>5 DEF KubeStep, KubeCreatesPod, KubePodProgress, KubeScalesDown, KubeContainerExits
<1>6. ASSUME UserWrite PROVE Held(pvc) \subseteq Held(pvc')
  <2>1. pvc \in Content /\ nextWrite <= MaxWrites /\ pvc' = pvc \cup {nextWrite}
    BY <1>6 DEF UserWrite, IInv, TypeOK, KubeOK
  <2>2. pvc' # None
    BY <2>1, WriteTyped, Contents, NoneAssumption DEF IInv, TypeOK
  <2> QED BY <2>1, <2>2 DEF Held
<1>7. ASSUME Environment, ~UserWrite PROVE UNCHANGED pvc
  BY <1>7 DEF Environment, FinalizerGiveUp, DailyCleanup, Evict, Restart, DeleteDeployment,
      HalfHourPasses, DayPasses, MonthPasses, Crash
<1> QED BY <1>1, <1>2, <1>3, <1>4, <1>5, <1>6, <1>7 DEF Next, WorkStep, Held

(* In any mode, with any rivals and failures, a write leaves the volume    *)
(* only where a deploy untars a stored backup or an archive over it, or    *)
(* where a destroy that may reclaim it deletes it after copying the newest *)
(* backup.                                                                 *)
THEOREM GoesTwoWays == Spec => WritesGoTwoWays
<1> DEFINE Way(s) == \/ At(s, "deploy_restore") /\ pvc' \in Backups \cup archives
                     \/ ReclaimPvc /\ At(s, "destroy_delete") /\ ses[s].tar \in archives
<1>1. IInv /\ [Next]_vars =>
        [~(Held(pvc) \subseteq Held(pvc')) => \E s \in Session : Way(s)]_vars
  <2> SUFFICES ASSUME IInv, Next, ~(Held(pvc) \subseteq Held(pvc'))
      PROVE  \E s \in Session : Way(s)
    OBVIOUS
  <2>1. PICK s \in Session : Overwritten(s) \/ (DestroyDelete(s) /\ ReclaimPvc)
    BY VolumeShrinks
  <2>2. CASE Overwritten(s)
    <3>1. At(s, "deploy_restore") /\ (UNCHANGED pvc \/ RestoreSource(s) # None)
      BY <2>2 DEF Overwritten, DeployRestore, DeployRestoreFails
    <3>2. pvc' = RestoreSource(s) /\ RestoreSource(s) # None
      BY <2>2, <3>1 DEF Overwritten
    <3>3. ses[s].plan = "archive" => RestoreSource(s) \in archives
      BY DEF RestoreSource, IInv, Safe, ArchiveKnown
    <3>4. ses[s].plan # "archive" => RestoreSource(s) \in Backups
      BY <3>2 DEF RestoreSource, Newest, Backups
    <3> QED BY <3>1, <3>2, <3>3, <3>4
  <2>3. CASE DestroyDelete(s) /\ ReclaimPvc
    <3>1. At(s, "destroy_delete")
      BY <2>3 DEF DestroyDelete
    <3>2. ses[s].tar \in archives
      BY <2>3, <3>1 DEF At, IInv, Safe, ArchiveKnown
    <3> QED BY <2>3, <3>1, <3>2
  <2> QED BY <2>1, <2>2, <2>3
<1> QED BY <1>1, InvariantHolds, PTL DEF Spec, WritesGoTwoWays

-----------------------------------------------------------------------------
(* Volumes are reclaimed, and one handler or loop round is at work at a    *)
(* time, whatever it is and wherever the manager dies in it.               *)
Alone == ReclaimPvc /\ \A s, t \in Session : s = t

(* What the archives hold, and: every write a save has covered is there.   *)
InArchives == UNION archives

Archived == saved \subseteq InArchives

(* What is saved and not archived is in the volume, and in the newest      *)
(* backup, which is the one a destroy archives and a wake-up restores.     *)
Kept ==
  /\ saved \subseteq InArchives \cup Held(pvc)
  /\ Newest(daily) # None => saved \subseteq InArchives \cup Newest(daily)

(* A session at x has taken a tar and saves it next.                       *)
Copies(x) == x.pc \in {"daily_save", "final_save"}

(* A session at x that is about to drop the volume, or to put an archive   *)
(* in its place, leaves nothing behind; one that carries a tar carries     *)
(* all that is not archived.                                               *)
Sound(x) ==
  /\ x.pc \in {"destroy_delete", "destroy_mark"} => Archived
  /\ x.pc = "destroy_mark" => pvc = None
  /\ x.pc \in {"deploy_mark", "deploy_lock", "deploy_create"} /\ x.arg = "ARCHIVED" => Archived
  /\ x.plan = "archive" => x.pc \in {"deploy_wait", "deploy_restore"} /\ Archived
  /\ Copies(x) => x.tar \subseteq Held(pvc) /\ saved \subseteq InArchives \cup x.tar

Sheltered ==
  /\ Kept
  /\ status = "ARCHIVED" => pvc = None /\ Archived
  /\ \A s \in Session : Sound(ses[s])

(* A session that does none of this is sound.                              *)
LEMMA PlainIsSound ==
  ASSUME NEW x, x.plan # "archive",
         x.pc \notin {"destroy_delete", "destroy_mark", "deploy_mark", "deploy_lock",
                     "deploy_create", "daily_save", "final_save"}
  PROVE  Sound(x)
BY DEF Sound, Copies

(* Nor does one that has ended.                                            *)
LEMMA QuietIsSound == Sound(Quiet)
BY PlainIsSound DEF Quiet

(* The session at work is the only one.                                    *)
LEMMA OnlyOne ==
  ASSUME IInv, Alone, NEW s \in Session, NEW x, Become(s, x)
  PROVE  \A t \in Session : ses'[t] = x
BY DEF Alone, IInv, TypeOK, SessionsOK, Become

(* A session that only goes on, and announces no ARCHIVED, keeps the data. *)
LEMMA OnlyMoves ==
  ASSUME IInv, Sheltered, Alone, NEW s \in Session, NEW x, Become(s, x), Sound(x),
         UNCHANGED status \/ status' # "ARCHIVED",
         UNCHANGED <<pvc, daily, archives, saved>>
  PROVE  Sheltered'
<1>1. \A t \in Session : ses'[t] = x
  BY OnlyOne
<1>2. Sound(x)'
  BY DEF Sound, Archived, Held, InArchives
<1>3. \A t \in Session : Sound(ses[t])'
  BY <1>1, <1>2 DEF Sound
<1>4. Kept' /\ (status = "ARCHIVED" => pvc = None /\ Archived)'
  BY DEF Sheltered, Kept, Held, Archived, InArchives
<1> QED BY <1>3, <1>4 DEF Sheltered

(* A step that leaves the data, the row's status and the sessions alone.   *)
LEMMA DataAlone ==
  ASSUME Sheltered, UNCHANGED <<status, pvc, daily, archives, saved, ses>>
  PROVE  Sheltered'
BY DEF Sheltered, Kept, Held, Archived, InArchives, Sound

(* What is saved now becomes the newest backup, and it is all there is.    *)
LEMMA OnlySaves ==
  ASSUME IInv, Sheltered, Alone, NEW s \in Session, NEW x, Become(s, x), x.plan # "archive",
         x.pc \in {"idle", "suspend_mark"},
         NEW c \in Content, c \subseteq Held(pvc), saved \subseteq InArchives \cup c,
         SaveDaily(c) \/ PutDaily(c), UNCHANGED pvc,
         UNCHANGED status \/ status' # "ARCHIVED"
  PROVE  Sheltered'
<1>1. \A t \in Session : ses'[t] = x
  BY OnlyOne
<1>2. daily'.today = c /\ UNCHANGED archives
  BY SavedToday DEF IInv, TypeOK
<1>3. Newest(daily)' = c
  BY <1>2, NoneAssumption DEF Newest
<1>4. saved' \subseteq saved \cup c
  BY DEF SaveDaily, PutDaily
<1>5. Kept'
  <2>1. saved \subseteq InArchives \cup Held(pvc)
    BY DEF Sheltered, Kept
  <2>2. InArchives' = InArchives
    BY <1>2 DEF InArchives
  <2>3. saved' \subseteq InArchives' \cup Held(pvc')
    <3>1. Held(pvc') = Held(pvc)
      BY DEF Held
    <3> QED BY <1>4, <2>1, <2>2, <3>1
  <2>4. saved' \subseteq InArchives' \cup c
    BY <1>4, <2>2
  <2> QED BY <1>3, <2>3, <2>4 DEF Kept, Held
<1>6. status' = "ARCHIVED" => pvc' = None /\ Archived'
  <2> SUFFICES ASSUME status' = "ARCHIVED" PROVE pvc' = None /\ Archived'
    OBVIOUS
  <2>1. pvc = None /\ Archived
    BY DEF Sheltered
  <2>2. c = {}
    BY <2>1 DEF Held
  <2> QED BY <1>2, <1>4, <2>1, <2>2 DEF Archived, InArchives
<1>7. \A t \in Session : Sound(ses[t])'
  BY <1>1 DEF Sound, Copies
<1> QED BY <1>5, <1>6, <1>7 DEF Sheltered

(* A session that goes to a place that asks for nothing, or goes on with   *)
(* the deploy it has marked, stays sound.                                  *)
LEMMA GoesSound ==
  ASSUME IInv, Sheltered, NEW s \in Session, NEW pc \in Pc,
         pc \notin {"destroy_delete", "destroy_mark", "deploy_mark", "daily_save", "final_save"},
         pc \in {"deploy_lock", "deploy_create"} => ses[s].pc \in {"deploy_mark", "deploy_lock"},
         ses[s].pc \in {"deploy_wait", "deploy_restore"} /\ ses[s].plan = "archive"
           => pc = "deploy_restore"
  PROVE  Sound([ses[s] EXCEPT !.pc = pc])
<1>1. ses[s] \in SessionState /\ Sound(ses[s])
  BY DEF IInv, TypeOK, SessionsOK, Sheltered
<1> DEFINE x == [ses[s] EXCEPT !.pc = pc]
<1>2. x.pc = pc /\ x.arg = ses[s].arg /\ x.plan = ses[s].plan
  BY <1>1 DEF SessionState
<1> HIDE DEF x
<1>3. Sound(x)
  BY <1>1, <1>2 DEF Sound, Copies
<1> QED BY <1>3 DEF x

(* So does one that begins, or carries a tar it has just taken.            *)
LEMMA BeginSound ==
  ASSUME NEW pc, NEW loop, NEW st,
         pc \notin {"destroy_delete", "destroy_mark", "deploy_mark", "deploy_lock",
                   "deploy_create", "daily_save", "final_save"}
  PROVE  Sound(Begin(pc, loop, st))
BY PlainIsSound DEF Begin, Quiet

LEMMA TarSound ==
  ASSUME IInv, Sheltered, pvc # None, NEW st, NEW pc \in {"daily_save", "final_save"}, NEW loop
  PROVE  Sound([Begin(pc, loop, st) EXCEPT !.tar = pvc])
BY DEF Sound, Copies, Begin, Quiet, Held, Sheltered, Kept

(* The first steps of requests and loop rounds keep the data.              *)
LEMMA KeepStart ==
  ASSUME IInv, Sheltered, Alone, NEW s \in Session, StartStep(s)
  PROVE  Sheltered'
<1>1. UNCHANGED <<status, pvc, daily, archives, saved>>
  BY DEF StartStep, DeployRead, SuspendRead, DestroyRead, ResumeRead, PollRead, SweepRead,
     DailyTar, FinalizerTar, row, store
<1>2. CASE DeployRead(s)
  <2> DEFINE x == [Begin("deploy_mark", "none", status) EXCEPT !.arg = status]
  <2>1. Sound(x)
    BY DEF Sound, Copies, Begin, Quiet, Sheltered
  <2>2. Become(s, x)
    BY <1>2 DEF DeployRead
  <2> HIDE DEF x
  <2> QED BY <1>1, <2>1, <2>2, OnlyMoves
<1>3. CASE SuspendRead(s) \/ DestroyRead(s) \/ ResumeRead(s) \/ PollRead(s) \/ SweepRead(s)
  <2>1. PICK pc \in {"suspend_lock", "destroy_lock", "resume_scale", "poll_probe", "sweep_probe"},
             loop \in Loops \cup {"none"} : Become(s, Begin(pc, loop, status))
    BY <1>3 DEF SuspendRead, DestroyRead, ResumeRead, PollRead, SweepRead, Loops
  <2>2. Sound(Begin(pc, loop, status))
    BY BeginSound
  <2> QED BY <1>1, <2>1, <2>2, OnlyMoves
<1>4. CASE DailyTar(s)
  <2>1. CASE UNCHANGED ses
    BY <1>1, <2>1, DataAlone
  <2>2. CASE status = "RUNNING" /\ CanExec /\ Become(s, [Begin("daily_save", "daily", status) EXCEPT !.tar = pvc])
    <3>1. Sound([Begin("daily_save", "daily", status) EXCEPT !.tar = pvc])
      BY <2>2, TarSound DEF CanExec
    <3> QED BY <1>1, <2>2, <3>1, OnlyMoves
  <2> QED BY <1>4, <2>1, <2>2 DEF DailyTar
<1>5. CASE FinalizerTar(s)
  <2>1. Sound([Begin("final_save", "finalizer", "PENDING") EXCEPT !.tar = pvc])
    BY <1>5, TarSound DEF FinalizerTar
  <2>2. Become(s, [Begin("final_save", "finalizer", "PENDING") EXCEPT !.tar = pvc])
    BY <1>5 DEF FinalizerTar
  <2> QED BY <1>1, <2>1, <2>2, OnlyMoves
<1> QED BY <1>2, <1>3, <1>4, <1>5 DEF StartStep

(* Taking the lock does.                                                   *)
LEMMA KeepLock ==
  ASSUME IInv, Sheltered, Alone, NEW s \in Session, LockStep(s)
  PROVE  Sheltered'
<1>1. UNCHANGED <<status, pvc, daily, archives, saved>>
  BY DEF LockStep, DeployLock, SuspendLock, DestroyLock, row, store
<1>2. CASE DeployLock(s)
  <2> DEFINE x == [ses[s] EXCEPT !.pc = "deploy_create", !.seen = status]
  <2>1. Sound(x)
    <3>1. /\ x.pc = "deploy_create" /\ x.arg = ses[s].arg /\ x.plan = ses[s].plan
          /\ ses[s].pc = "deploy_lock" /\ Sound(ses[s])
      BY <1>2 DEF DeployLock, At, IInv, TypeOK, SessionsOK, SessionState, Sheltered
    <3> HIDE DEF x
    <3> QED BY <3>1 DEF Sound, Copies
  <2>2. Become(s, x) \/ Become(s, Quiet)
    BY <1>2 DEF DeployLock, Finish
  <2> HIDE DEF x
  <2> QED BY <1>1, <2>1, <2>2, QuietIsSound, OnlyMoves
<1>3. CASE SuspendLock(s) \/ DestroyLock(s)
  <2>1. PICK pc \in {"suspend_backup", "destroy_archive"} :
          Goto(s, pc) /\ ses[s].pc \in {"suspend_lock", "destroy_lock"}
    BY <1>3 DEF SuspendLock, DestroyLock, At
  <2>2. pc \in Pc
    BY DEF Pc, LockedPc
  <2>3. Sound([ses[s] EXCEPT !.pc = pc])
    BY <2>1, <2>2, GoesSound
  <2> QED BY <1>1, <2>1, <2>3, OnlyMoves DEF Goto
<1> QED BY <1>2, <1>3 DEF LockStep

(* A step that only provisions, and begins a restore, does: an archive is  *)
(* restored for a row that was ARCHIVED, when all that is saved is         *)
(* archived.                                                               *)
LEMMA KeepCreate ==
  ASSUME IInv, Sheltered, Alone, NEW s \in Session, DeployCreate(s) \/ DeployCreateFails(s)
  PROVE  Sheltered'
<1>1. /\ UNCHANGED pvc \/ pvc' = Provisioned
      /\ UNCHANGED <<daily, archives, saved>>
      /\ UNCHANGED status \/ status' # "ARCHIVED"
      /\ ses[s].pc = "deploy_create"
  BY DEF DeployCreate, DeployFromArchive, DeployFromSuspended, DeployFresh, CreateEngine,
     DeployCreateFails, SetStatus, At, row, store
<1>2. Held(pvc') = Held(pvc)
  BY <1>1, NoneAssumption, Provisions DEF Held, Provisioned, IInv, TypeOK
<1>3. status' # "ARCHIVED"
  BY <1>1 DEF IInv, Safe, DeploymentOwned, DeployBody
<1>4. Kept'
  BY <1>1, <1>2 DEF Sheltered, Kept, InArchives, Newest
<1>5. Sound(ses[s]) /\ ses[s] \in SessionState
  BY DEF Sheltered, IInv, TypeOK, SessionsOK
<1>6. CASE DeployCreate(s)
  <2>1. PICK plan, tar : /\ Restoring(s, plan, tar)
                         /\ plan = "archive" => ses[s].arg = "ARCHIVED"
    <3>1. CASE DeployFromArchive(s)
      BY <3>1 DEF DeployFromArchive
    <3>2. CASE DeployFromSuspended(s)
      BY <3>2 DEF DeployFromSuspended
    <3>3. CASE DeployFresh(s)
      BY <3>3 DEF DeployFresh
    <3> QED BY <1>6, <3>1, <3>2, <3>3 DEF DeployCreate
  <2> DEFINE x == [ses[s] EXCEPT !.pc = "deploy_wait", !.arg = "PENDING", !.plan = plan, !.tar = tar]
  <2>2. x.pc = "deploy_wait" /\ x.plan = plan
    BY <1>5 DEF SessionState
  <2>3. Become(s, x)
    BY <2>1 DEF Restoring
  <2> HIDE DEF x
  <2>4. \A t \in Session : ses'[t] = x
    BY <2>3, OnlyOne
  <2>5. plan = "archive" => Archived
    BY <1>1, <1>5, <2>1 DEF Sound
  <2>6. plan = "archive" => Archived'
    BY <1>1, <2>5 DEF Archived, InArchives
  <2>7. \A t \in Session : Sound(ses[t])'
    BY <2>2, <2>4, <2>6 DEF Sound, Copies
  <2> QED BY <1>3, <1>4, <2>7 DEF Sheltered
<1>7. CASE DeployCreateFails(s)
  <2>1. \A t \in Session : ses'[t] = Quiet
    BY <1>7, OnlyOne DEF DeployCreateFails, Finish
  <2>2. \A t \in Session : Sound(ses[t])'
    BY <2>1 DEF Sound, Copies, Quiet
  <2> QED BY <1>3, <1>4, <2>2 DEF Sheltered
<1> QED BY <1>6, <1>7

(* Untarring does: what replaces the volume has all that is not archived.  *)
LEMMA KeepRestore ==
  ASSUME IInv, Sheltered, Alone, NEW s \in Session, DeployRestore(s) \/ DeployRestoreFails(s)
  PROVE  Sheltered'
<1>1. /\ UNCHANGED pvc \/ (RestoreSource(s) # None /\ pvc' = RestoreSource(s))
      /\ UNCHANGED <<status, daily, archives, saved>>
      /\ ses[s].pc = "deploy_restore"
  BY DEF DeployRestore, DeployRestoreFails, At, row, store
<1>2. Sound(ses[s]) /\ ses[s] \in SessionState
  BY DEF Sheltered, IInv, TypeOK, SessionsOK
<1>3. PICK x : Become(s, x) /\ x.pc \in {"deploy_ready", "deploy_abort"} /\ x.plan # "archive"
  <2>1. CASE DeployRestore(s)
    <3> DEFINE x == [ses[s] EXCEPT !.pc = "deploy_ready", !.plan = "none", !.tar = None]
    <3>1. Become(s, x) /\ x.pc = "deploy_ready" /\ x.plan = "none"
      BY <1>2, <2>1 DEF DeployRestore, SessionState
    <3> QED BY <3>1
  <2>2. CASE DeployRestoreFails(s)
    <3> DEFINE x == [ses[s] EXCEPT !.pc = "deploy_abort", !.plan = "fail", !.tar = None]
    <3>1. Become(s, x) /\ x.pc = "deploy_abort" /\ x.plan = "fail"
      BY <1>2, <2>2 DEF DeployRestoreFails, SessionState
    <3> QED BY <3>1
  <2> QED BY <2>1, <2>2
<1>4. status' # "ARCHIVED"
  BY <1>1 DEF IInv, Safe, DeploymentOwned, DeployBody
<1>5. saved \subseteq InArchives \cup Held(pvc')
  <2>1. CASE UNCHANGED pvc
    BY <2>1 DEF Sheltered, Kept, Held
  <2>2. CASE ses[s].plan = "archive"
    BY <1>2, <2>2 DEF Sound, Archived
  <2>3. CASE ses[s].plan # "archive" /\ RestoreSource(s) # None /\ pvc' = RestoreSource(s)
    BY <2>3 DEF RestoreSource, Held, Sheltered, Kept
  <2> QED BY <1>1, <2>1, <2>2, <2>3
<1>6. Kept'
  BY <1>1, <1>5 DEF Sheltered, Kept, InArchives, Newest, Held
<1>7. \A t \in Session : Sound(ses[t])'
  <2>1. \A t \in Session : ses'[t] = x
    BY <1>3, OnlyOne
  <2> QED BY <1>3, <2>1 DEF Sound, Copies
<1> QED BY <1>4, <1>6, <1>7 DEF Sheltered

(* The whole deploy does.                                                  *)
LEMMA KeepDeploy ==
  ASSUME IInv, Sheltered, Alone, NEW s \in Session, DeployStep(s)
  PROVE  Sheltered'
<1>1. CASE DeployMark(s)
  <2>1. Sound([ses[s] EXCEPT !.pc = "deploy_lock"])
    BY <1>1, GoesSound DEF DeployMark, At, Pc, WaitPc
  <2> QED BY <1>1, <2>1, OnlyMoves DEF DeployMark, Goto, store
<1>2. CASE DeployCreate(s) \/ DeployCreateFails(s)
  BY <1>2, KeepCreate
<1>3. CASE DeployRestore(s) \/ DeployRestoreFails(s)
  BY <1>3, KeepRestore
<1>4. CASE DeployPodRuns(s)
  <2>1. PICK pc \in {"deploy_restore", "deploy_abort", "deploy_ready"} :
          Goto(s, pc) /\ (ses[s].plan = "archive" => pc = "deploy_restore")
    BY <1>4 DEF DeployPodRuns
  <2>2. Sound([ses[s] EXCEPT !.pc = pc])
    BY <2>1, GoesSound DEF Pc, LockedPc, DeployBody
  <2> QED BY <1>4, <2>1, <2>2, OnlyMoves DEF DeployPodRuns, Goto, row, store
<1>5. CASE DeployTimesOut(s) \/ DeployAbort(s) \/ DeployDone(s)
  <2>1. UNCHANGED status \/ status' # "ARCHIVED"
    BY <1>5 DEF DeployTimesOut, DeployAbort, DeployDone, SetStatus
  <2>2. Become(s, Quiet) /\ UNCHANGED <<pvc, daily, archives, saved>>
    BY <1>5 DEF DeployTimesOut, DeployAbort, DeployDone, Finish, store
  <2> QED BY <2>1, <2>2, QuietIsSound, OnlyMoves
<1> QED BY <1>1, <1>2, <1>3, <1>4, <1>5 DEF DeployStep

(* suspend does: what it saves is the volume, which has all that is not    *)
(* archived, even when reading the copy back fails.                        *)
LEMMA KeepSuspend ==
  ASSUME IInv, Sheltered, Alone, NEW s \in Session, SuspendStep(s)
  PROVE  Sheltered'
<1>1. ~SkipBackup
  BY SettingsAssumption DEF Alone
<1>2. ses[s] \in SessionState /\ Sound(ses[s])
  BY DEF Sheltered, IInv, TypeOK, SessionsOK
<1>3. ASSUME CanExec
      PROVE  pvc \in Content /\ pvc \subseteq Held(pvc) /\ saved \subseteq InArchives \cup pvc
  BY <1>3 DEF CanExec, IInv, TypeOK, KubeOK, Held, Sheltered, Kept
<1>4. CASE SuspendBackup(s)
  <2> DEFINE x == [ses[s] EXCEPT !.pc = "suspend_mark"]
  <2>1. CanExec /\ SaveDaily(pvc) /\ Become(s, x) /\ UNCHANGED <<pvc, status>>
    BY <1>1, <1>4 DEF SuspendBackup, MaySkip, Goto, row
  <2>2. x.pc = "suspend_mark" /\ x.plan = ses[s].plan
    BY <1>2 DEF SessionState
  <2> HIDE DEF x
  <2>3. ses[s].plan # "archive"
    BY <1>2, <1>4 DEF SuspendBackup, At, Sound
  <2> QED BY <1>3, <2>1, <2>2, <2>3, OnlySaves
<1>5. CASE SuspendBackupFails(s)
  <2>1. /\ Become(s, Quiet) /\ UNCHANGED pvc
        /\ UNCHANGED status \/ status' # "ARCHIVED"
    BY <1>5 DEF SuspendBackupFails, Finish, SetStatus
  <2>2. CASE UNCHANGED store
    BY <2>1, <2>2, QuietIsSound, OnlyMoves DEF store
  <2>3. CASE CanExec /\ PutDaily(pvc)
    <3>1. Quiet.pc = "idle" /\ Quiet.plan = "none"
      BY DEF Quiet
    <3> QED BY <1>3, <2>1, <2>3, <3>1, OnlySaves
  <2> QED BY <1>5, <2>2, <2>3 DEF SuspendBackupFails
<1>6. CASE SuspendMark(s)
  <2>1. Sound(Begin("suspend_scale", ses[s].loop, "PENDING"))
    BY BeginSound
  <2> QED BY <1>6, <2>1, OnlyMoves DEF SuspendMark, SetStatus, store
<1>7. CASE SuspendScale(s)
  BY <1>7, QuietIsSound, OnlyMoves DEF SuspendScale, Finish, row, store
<1> QED BY <1>4, <1>5, <1>6, <1>7 DEF SuspendStep

(* Copying the newest backup into the archives keeps the data, and after   *)
(* it all that is saved is archived.                                       *)
LEMMA CopyArchives ==
  ASSUME Sheltered, CopyNewest, UNCHANGED saved
  PROVE  InArchives \subseteq InArchives' /\ Archived'
<1>1. Newest(daily) # None /\ archives' = archives \cup {Newest(daily)}
  BY DEF CopyNewest
<1>2. InArchives' = InArchives \cup Newest(daily)
  BY <1>1 DEF InArchives
<1>3. saved \subseteq InArchives \cup Newest(daily)
  BY <1>1 DEF Sheltered, Kept
<1> QED BY <1>2, <1>3 DEF Archived

(* destroy does: the volume it drops holds nothing that is not archived.   *)
LEMMA KeepDestroy ==
  ASSUME IInv, Sheltered, Alone, NEW s \in Session, DestroyStep(s)
  PROVE  Sheltered'
<1>1. ses[s] \in SessionState /\ Sound(ses[s])
  BY DEF Sheltered, IInv, TypeOK, SessionsOK
<1>2. CASE DestroyArchive(s) \/ DestroyRefused(s)
  <2>1. UNCHANGED <<status, pvc, daily, saved>> /\ ses[s].pc = "destroy_archive"
    BY <1>2 DEF DestroyArchive, DestroyRefused, At, row
  <2>2. InArchives \subseteq InArchives'
    BY <1>2, <2>1, CopyArchives DEF DestroyArchive, DestroyRefused, InArchives
  <2>3. PICK x : Become(s, x) /\ x.plan # "archive" /\ x.pc \in {"idle", "destroy_delete"}
                 /\ (x.pc = "destroy_delete" => Archived')
    <3>1. CASE DestroyArchive(s)
      <4> DEFINE x == [ses[s] EXCEPT !.pc = "destroy_delete", !.tar = Newest(daily)]
      <4>1. CopyNewest /\ Become(s, x)
        BY <3>1 DEF DestroyArchive, MayGoUnarchived, Alone
      <4>2. x.plan # "archive" /\ x.pc = "destroy_delete"
        BY <1>1, <2>1 DEF SessionState, Sound
      <4>3. Archived'
        BY <2>1, <4>1, CopyArchives
      <4> QED BY <4>1, <4>2, <4>3
    <3>2. CASE DestroyRefused(s)
      BY <3>2 DEF DestroyRefused, Finish, Quiet
    <3> QED BY <1>2, <3>1, <3>2
  <2>4. \A t \in Session : ses'[t] = x
    BY <2>3, OnlyOne
  <2>5. \A t \in Session : Sound(ses[t])'
    BY <2>3, <2>4 DEF Sound, Copies
  <2>6. Kept' /\ (status' = "ARCHIVED" => pvc' = None /\ Archived')
    BY <2>1, <2>2 DEF Sheltered, Kept, Archived, Newest, Held
  <2> QED BY <2>5, <2>6 DEF Sheltered
<1>3. CASE DestroyDelete(s)
  <2> DEFINE x == [ses[s] EXCEPT !.pc = "destroy_mark"]
  <2>1. /\ UNCHANGED <<status, daily, archives, saved>> /\ pvc' = None
        /\ ses[s].pc = "destroy_delete" /\ Become(s, x)
    BY <1>3 DEF DestroyDelete, VolumeAfterDelete, Alone, At, Goto, row, store
  <2>2. x.pc = "destroy_mark" /\ x.plan # "archive"
    BY <1>1, <2>1 DEF SessionState, Sound
  <2> HIDE DEF x
  <2>3. Archived'
    BY <1>1, <2>1 DEF Sound, Archived, InArchives
  <2>4. \A t \in Session : ses'[t] = x
    BY <2>1, OnlyOne
  <2>5. \A t \in Session : Sound(ses[t])'
    BY <2>1, <2>2, <2>3, <2>4 DEF Sound, Copies
  <2>6. Kept'
    BY <2>3 DEF Archived, Kept
  <2> QED BY <2>1, <2>3, <2>5, <2>6 DEF Sheltered
<1>4. CASE DestroyDeleteFails(s)
  BY <1>4, QuietIsSound, OnlyMoves DEF DestroyDeleteFails, Finish, row, store
<1>5. CASE DestroyMark(s)
  <2>1. Become(s, Quiet) /\ UNCHANGED <<pvc, daily, archives, saved>>
    BY <1>5 DEF DestroyMark, Finish, store
  <2>2. pvc = None /\ Archived
    BY <1>1, <1>5 DEF DestroyMark, At, Sound
  <2>3. \A t \in Session : ses'[t] = Quiet
    BY <2>1, OnlyOne
  <2>4. \A t \in Session : Sound(ses[t])'
    BY <2>3 DEF Sound, Copies, Quiet
  <2>5. Kept' /\ pvc' = None /\ Archived'
    BY <2>1, <2>2 DEF Sheltered, Kept, Archived, InArchives, Newest, Held
  <2> QED BY <2>4, <2>5 DEF Sheltered
<1> QED BY <1>2, <1>3, <1>4, <1>5 DEF DestroyStep

(* resume and the drift correction do: neither says ARCHIVED.              *)
LEMMA KeepResume ==
  ASSUME IInv, Sheltered, Alone, NEW s \in Session, ResumeStep(s)
  PROVE  Sheltered'
<1>1. CASE ResumeScale(s)
  <2>1. UNCHANGED <<status, pvc, daily, archives, saved>> /\ ses[s].pc = "resume_scale"
    BY <1>1 DEF ResumeScale, At, row, store
  <2>2. Sound([ses[s] EXCEPT !.pc = "resume_mark"])
    BY <2>1, GoesSound DEF Pc, FreePc
  <2> QED BY <1>1, <2>1, <2>2, QuietIsSound, OnlyMoves DEF ResumeScale, Goto, Finish
<1>2. CASE ResumeMark(s)
  BY <1>2, QuietIsSound, OnlyMoves DEF ResumeMark, Finish, SetStatus, store
<1> QED BY <1>1, <1>2 DEF ResumeStep

LEMMA KeepDrift ==
  ASSUME IInv, Sheltered, Alone, NEW s \in Session, DriftStep(s)
  PROVE  Sheltered'
<1>1. ses[s] \in SessionState /\ Sound(ses[s])
  BY DEF Sheltered, IInv, TypeOK, SessionsOK
<1>2. ASSUME NEW obs \in Observation, NEW target, Correct(s, obs, target),
             UNCHANGED <<status, pvc, daily, archives, saved>>
      PROVE  Sheltered'
  <2> DEFINE x == [ses[s] EXCEPT !.pc = "drift_write", !.arg = target, !.plan = obs]
  <2>1. x.pc = "drift_write" /\ x.plan # "archive"
    BY <1>1 DEF SessionState, Observation
  <2>2. Become(s, x) \/ Become(s, Quiet)
    BY <1>2 DEF Correct, Finish
  <2> HIDE DEF x
  <2>3. Sound(x)
    BY <2>1, PlainIsSound
  <2> QED BY <1>2, <2>2, <2>3, QuietIsSound, OnlyMoves
<1>3. CASE PollProbe(s)
  BY <1>2, <1>3, ObservedTyped DEF PollProbe, IInv, TypeOK, row, store
<1>4. CASE SweepProbe(s)
  <2>1. UNCHANGED <<status, pvc, daily, archives, saved>>
    BY <1>4 DEF SweepProbe, store
  <2>2. PICK obs \in Observation, b \in {Newest(daily) # None, FALSE} :
          Correct(s, obs, ClassifyDrift("RUNNING", obs, b)) \/ Finish(s)
    BY <1>4, ObservedTyped DEF SweepProbe, IInv, TypeOK
  <2>3. CASE Finish(s)
    BY <2>1, <2>3, QuietIsSound, OnlyMoves DEF Finish
  <2> QED BY <1>2, <2>1, <2>2, <2>3
<1>5. CASE DriftWrite(s)
  <2>1. status' # "ARCHIVED"
    BY <1>5 DEF DriftWrite, At, IInv, Safe, ArchiveKnown
  <2> QED BY <1>5, <2>1, QuietIsSound, OnlyMoves DEF DriftWrite, Finish, store
<1> QED BY <1>3, <1>4, <1>5 DEF DriftStep

(* The unlocked backups do: the tar they save is of a volume that has only *)
(* grown since.                                                            *)
LEMMA KeepBackup ==
  ASSUME IInv, Sheltered, Alone, NEW s \in Session, BackupStep(s)
  PROVE  Sheltered'
<1>1. /\ Become(s, Quiet) /\ UNCHANGED <<status, pvc>>
      /\ SaveDaily(ses[s].tar) \/ PutDaily(ses[s].tar) \/ UNCHANGED store
      /\ Copies(ses[s])
  BY DEF BackupStep, DailySave, FinalizerSave, Finish, At, Copies, row
<1>2. CASE UNCHANGED store
  BY <1>1, <1>2, QuietIsSound, OnlyMoves DEF store
<1>3. CASE SaveDaily(ses[s].tar) \/ PutDaily(ses[s].tar)
  <2>1. ses[s].tar \in Content
    BY <1>1 DEF Copies, IInv, TypeOK, SessionsOK, SessionState, Safe, TarsTaken
  <2>2. ses[s].tar \subseteq Held(pvc) /\ saved \subseteq InArchives \cup ses[s].tar
    BY <1>1 DEF Sheltered, Sound
  <2>3. Quiet.pc = "idle" /\ Quiet.plan = "none"
    BY DEF Quiet
  <2> QED BY <1>1, <1>3, <2>1, <2>2, <2>3, OnlySaves
<1> QED BY <1>1, <1>2, <1>3

(* Kubernetes, the operators and the users do: the volume only grows.      *)
LEMMA KeepOutside ==
  ASSUME IInv, Sheltered, KubeStep \/ Environment,
         ~DayPasses, ~MonthPasses, ~DailyCleanup, ~UserWrite, ~Crash
  PROVE  Sheltered'
<1>1. UNCHANGED <<status, pvc, daily, archives, saved, ses>>
  BY DEF KubeStep, KubeCreatesPod, KubePodProgress, KubeScalesDown, KubeContainerExits,
     Environment, FinalizerGiveUp, Evict, Restart, DeleteDeployment, HalfHourPasses,
     row, store, manager
<1> QED BY <1>1, DataAlone

LEMMA KeepWrite ==
  ASSUME IInv, Sheltered, UserWrite
  PROVE  Sheltered'
<1>1. /\ pvc # None /\ pvc \in Content /\ pvc' = pvc \cup {nextWrite} /\ nextWrite <= MaxWrites
      /\ UNCHANGED <<status, daily, archives, saved, ses>>
  BY DEF UserWrite, IInv, TypeOK, KubeOK, row, store, manager
<1>2. pvc' # None
  BY <1>1, WriteTyped, Contents, NoneAssumption DEF IInv, TypeOK
<1>3. Held(pvc) \subseteq Held(pvc')
  BY <1>1, <1>2 DEF Held
<1>4. Kept' /\ status' # "ARCHIVED"
  BY <1>1, <1>3 DEF Sheltered, Kept, InArchives, Newest
<1>5. \A t \in Session : Sound(ses[t])'
  BY <1>1, <1>3 DEF Sheltered, Sound, Copies, Archived, InArchives
<1> QED BY <1>4, <1>5 DEF Sheltered

(* Time does: the newest backup ages, and where it expires, no destroy can *)
(* do without it.                                                          *)
LEMMA KeepTime ==
  ASSUME IInv, Sheltered, DayPasses \/ MonthPasses \/ DailyCleanup
  PROVE  Sheltered'
<1>1. UNCHANGED <<status, pvc, archives, saved, ses>>
  BY DEF DayPasses, MonthPasses, DailyCleanup, row, manager
<1>2. Newest(daily') \in {Newest(daily), None}
  <2>1. daily \in [today : Content \cup {None}, recent : Content \cup {None},
                   expired : Content \cup {None}]
    BY DEF IInv, TypeOK, StoreOK
  <2>2. CASE DayPasses
    <3>1. /\ daily'.today = None /\ daily'.expired = daily.expired
          /\ daily'.recent = IF daily.today # None THEN daily.today ELSE daily.recent
      BY <2>1, <2>2 DEF DayPasses
    <3> QED BY <3>1 DEF Newest
  <2>3. CASE MonthPasses
    BY <2>3 DEF MonthPasses, Newest
  <2>4. CASE DailyCleanup
    <3>1. daily'.today = daily.today /\ daily'.recent = daily.recent /\ daily'.expired = None
      BY <2>1, <2>4 DEF DailyCleanup
    <3> QED BY <3>1 DEF Newest
  <2> QED BY <2>2, <2>3, <2>4
<1>3. Kept'
  BY <1>1, <1>2 DEF Sheltered, Kept, Held, InArchives, Newest
<1> QED BY <1>1, <1>3 DEF Sheltered, Sound, Copies, Held, Archived, InArchives

(* A crash does: whatever was under way is forgotten.                      *)
LEMMA KeepCrash == ASSUME Sheltered, Crash PROVE Sheltered'
<1>1. UNCHANGED <<status, pvc, daily, archives, saved>> /\ \A t \in Session : ses'[t] = Quiet
  BY DEF Crash, row, store
<1>2. \A t \in Session : Sound(ses[t])'
  BY <1>1 DEF Sound, Copies, Quiet
<1> QED BY <1>1, <1>2 DEF Sheltered, Kept, Held, Archived, InArchives

(* So every step does.                                                     *)
LEMMA NextShelters == ASSUME IInv, Sheltered, Alone, Next PROVE Sheltered'
<1>1. ASSUME NEW s \in Session, StartStep(s) \/ LockStep(s) \/ WorkStep(s) PROVE Sheltered'
  BY <1>1, KeepStart, KeepLock, KeepDeploy, KeepSuspend, KeepDestroy, KeepResume, KeepDrift,
     KeepBackup DEF WorkStep
<1>2. ASSUME KubeStep \/ Environment PROVE Sheltered'
  BY <1>2, KeepOutside, KeepWrite, KeepTime, KeepCrash
<1> QED BY <1>1, <1>2 DEF Next

(* Without overlapping handlers nothing a backup has covered is ever lost  *)
(* to the volume, the backups and the archives together: not by a destroy, *)
(* a wake-up or an expiry, nor by a crash, an operator or a failed step.   *)
THEOREM NothingSavedIsLost == ASSUME Alone PROVE Spec => []NoLostBackup
<1> DEFINE KInv == IInv /\ Sheltered
<1>1. Init => KInv
  <2> SUFFICES ASSUME Init PROVE KInv
    OBVIOUS
  <2>1. \A s \in Session : ses[s] = Quiet
    BY DEF Init
  <2>2. Kept /\ status # "ARCHIVED"
    BY DEF Init, Kept
  <2> QED BY <2>1, <2>2, InitInvariant, QuietIsSound DEF Sheltered
<1>2. KInv /\ [Next]_vars => KInv'
  <2>1. ASSUME KInv, Next PROVE KInv'
    BY <2>1, NextInvariant, NextShelters
  <2>2. ASSUME KInv, UNCHANGED vars PROVE KInv'
    BY <2>2, StutterInvariant, DataAlone DEF vars, row, store, manager
  <2> QED BY <2>1, <2>2
<1>3. KInv => NoLostBackup
  BY DEF Sheltered, Kept, NoLostBackup, InArchives
<1> QED BY <1>1, <1>2, <1>3, PTL DEF Spec

=============================================================================
