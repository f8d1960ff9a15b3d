-------------------------- MODULE EngineRefinement --------------------------
(***************************************************************************)
(* What the steps of the lifecycle do to the user's data: every step is a  *)
(* step of EngineVault or leaves the vault alone.                          *)
(***************************************************************************)
EXTENDS EngineProofs

(* Session s moves, and has no tar of a volume in its hands, before or     *)
(* after.                                                                  *)
Aside(s) ==
  /\ \A t \in Session \ {s} : ses'[t] = ses[t]
  /\ ses[s].pc \notin {"daily_save", "final_save"}
  /\ ses'[s].pc \notin {"daily_save", "final_save"}

(* Then the copies under way stay what they are.                           *)
LEMMA AsideCopies ==
  ASSUME NEW s \in Session, Aside(s)
  PROVE  Copying' = Copying
<1>1. \A t \in Session : t \in Copier' <=> t \in Copier
  BY DEF Aside, Copier
<1>2. \A t \in Copier : t \in Session /\ t # s
  BY DEF Aside, Copier
<1>3. Copier' = Copier
  BY <1>1 DEF Copier
<1>4. \A t \in Copier : ses'[t].tar = ses[t].tar
  BY <1>2 DEF Aside
<1> QED BY <1>3, <1>4 DEF Copying

(* A drift correction is no copy.                                          *)
LEMMA CorrectAside ==
  ASSUME SessionsOK, NEW s \in Session, NEW obs, NEW target, Correct(s, obs, target),
         ses[s].pc \in {"poll_probe", "sweep_probe"}
  PROVE  Aside(s)
<1>1. CASE target = ses[s].seen
  BY <1>1 DEF Correct, Finish, Quiet, Become, SessionsOK, Aside
<1>2. CASE target # ses[s].seen
  BY <1>2 DEF Correct, Become, SessionsOK, SessionState, Aside
<1> QED BY <1>1, <1>2

(* A step that touches neither volume nor store nor sessions leaves the    *)
(* vault alone.                                                            *)
LEMMA Stutters ==
  ASSUME UNCHANGED <<pvc, daily, archives, ses>>
  PROVE  UNCHANGED Vault!vars
BY DEF Vault!vars, Backups, Copying, Copier

(* So does a session that keeps its hands off volume and store.            *)
LEMMA AsideStutters ==
  ASSUME NEW s \in Session, Aside(s), UNCHANGED <<pvc, daily, archives>>
  PROVE  [Vault!Next]_Vault!vars
BY AsideCopies DEF Vault!vars, Backups

(* What save_daily stores is found among the backups, and displaces no     *)
(* more than the backup of the day.                                        *)
LEMMA SavedFound ==
  ASSUME StoreOK, NEW c \in Content, SaveDaily(c) \/ PutDaily(c)
  PROVE  c \in Backups' /\ Backups' \subseteq Backups \cup {c} /\ UNCHANGED archives
BY NoneAssumption DEF StoreOK, SaveDaily, PutDaily, Backups

-----------------------------------------------------------------------------
(* The first step of a request does nothing to the vault; a loop that tars *)
(* takes a copy.                                                           *)
LEMMA VaultStart ==
  ASSUME IInv, NEW s \in Session, StartStep(s)
  PROVE  [Vault!Next]_Vault!vars
<1> USE DEF IInv, TypeOK, Safe, SessionsOK, SessionState, Aside, At, Become, Goto,
  Finish, Quiet, Begin
<1>1. CASE DeployRead(s)
  <2>1. Aside(s) /\ UNCHANGED <<pvc, daily, archives>>
    BY <1>1 DEF DeployRead, store, Start, Round
  <2> QED BY <2>1, AsideStutters
<1>2. CASE SuspendRead(s)
  <2>1. Aside(s) /\ UNCHANGED <<pvc, daily, archives>>
    BY <1>2 DEF SuspendRead, store, Start, Round
  <2> QED BY <2>1, AsideStutters
<1>3. CASE DestroyRead(s)
  <2>1. Aside(s) /\ UNCHANGED <<pvc, daily, archives>>
    BY <1>3 DEF DestroyRead, store, Start, Round
  <2> QED BY <2>1, AsideStutters
<1>4. CASE ResumeRead(s)
  <2>1. Aside(s) /\ UNCHANGED <<pvc, daily, archives>>
    BY <1>4 DEF ResumeRead, store, Start, Round
  <2> QED BY <2>1, AsideStutters
<1>5. CASE PollRead(s)
  <2>1. Aside(s) /\ UNCHANGED <<pvc, daily, archives>>
    BY <1>5 DEF PollRead, store, Start, Round
  <2> QED BY <2>1, AsideStutters
<1>6. CASE SweepRead(s)
  <2>1. Aside(s) /\ UNCHANGED <<pvc, daily, archives>>
    BY <1>6 DEF SweepRead, store, Start, Round
  <2> QED BY <2>1, AsideStutters
<1>7. CASE DailyTar(s)
  <2>1. UNCHANGED <<pvc, daily, archives>>
    BY <1>7 DEF DailyTar, store
  <2>2. \/ UNCHANGED ses
        \/ /\ pvc # None /\ ses[s].pc = "idle"
           /\ ses' = [ses EXCEPT ![s] = ses'[s]]
           /\ ses'[s].pc = "daily_save" /\ ses'[s].tar = pvc
    <3>1. CASE UNCHANGED ses
      BY <3>1
    <3>2. CASE CanExec /\ Become(s, [Begin("daily_save", "daily", status) EXCEPT !.tar = pvc])
      BY <1>7, <3>2 DEF DailyTar, Start, Round, CanExec
    <3> QED BY <1>7, <3>1, <3>2 DEF DailyTar
  <2>3. UNCHANGED ses \/ (pvc # None /\ Copying' = Copying \cup {pvc})
    BY <2>2 DEF Copying, Copier
  <2> QED BY <2>1, <2>3 DEF Vault!Next, Vault!Copy, Vault!vars, Backups, Copying, Copier
<1>8. CASE FinalizerTar(s)
  <2>1. UNCHANGED <<pvc, daily, archives>>
    BY <1>8 DEF FinalizerTar, store
  <2>2. \/ UNCHANGED ses
        \/ /\ pvc # None /\ ses[s].pc = "idle"
           /\ ses' = [ses EXCEPT ![s] = ses'[s]]
           /\ ses'[s].pc = "final_save" /\ ses'[s].tar = pvc
    BY <1>8 DEF FinalizerTar, Start, Round
  <2>3. UNCHANGED ses \/ (pvc # None /\ Copying' = Copying \cup {pvc})
    BY <2>2 DEF Copying, Copier
  <2> QED BY <2>1, <2>3 DEF Vault!Next, Vault!Copy, Vault!vars, Backups, Copying, Copier
<1> QED BY <1>1, <1>2, <1>3, <1>4, <1>5, <1>6, <1>7, <1>8 DEF StartStep

(* Taking the lock does nothing to it.                                     *)
LEMMA VaultLock ==
  ASSUME IInv, NEW s \in Session, LockStep(s)
  PROVE  [Vault!Next]_Vault!vars
<1> USE DEF IInv, TypeOK, Safe, SessionsOK, SessionState, Aside, At, Become, Goto,
  Finish, Quiet
<1>1. CASE DeployLock(s)
  <2>1. CASE status = "DEPLOYING"
    <3>1. Become(s, [ses[s] EXCEPT !.pc = "deploy_create", !.seen = status])
      BY <1>1, <2>1 DEF DeployLock
    <3>2. ses[s].pc = "deploy_lock" /\ UNCHANGED <<pvc, daily, archives>>
      BY <1>1 DEF DeployLock, store
    <3>3. Aside(s)
      BY <3>1, <3>2
    <3> QED BY <3>2, <3>3, AsideStutters
  <2>2. CASE status # "DEPLOYING"
    BY <1>1, <2>2, AsideStutters DEF DeployLock, store
  <2> QED BY <2>1, <2>2
<1>2. CASE SuspendLock(s)
  <2>1. Aside(s) /\ UNCHANGED <<pvc, daily, archives>>
    BY <1>2 DEF SuspendLock, store
  <2> QED BY <2>1, AsideStutters
<1>3. CASE DestroyLock(s)
  <2>1. Aside(s) /\ UNCHANGED <<pvc, daily, archives>>
    BY <1>3 DEF DestroyLock, store
  <2> QED BY <2>1, AsideStutters
<1> QED BY <1>1, <1>2, <1>3 DEF LockStep

(* The deploy body provisions the volume and restores into it what was     *)
(* stored.                                                                 *)
LEMMA VaultDeploy ==
  ASSUME IInv, NEW s \in Session, DeployStep(s)
  PROVE  [Vault!Next]_Vault!vars
<1> USE DEF IInv, TypeOK, Safe, SessionsOK, SessionState, Aside, At, Become, Goto,
  Finish, Quiet
<1>1. CASE DeployMark(s)
  <2>1. Aside(s) /\ UNCHANGED <<pvc, daily, archives>>
    BY <1>1 DEF DeployMark, store
  <2> QED BY <2>1, AsideStutters
<1>2. CASE DeployCreate(s)
  <2>1. Aside(s)
    <3>1. PICK plan \in Plan, tar \in Content \cup {None} : Restoring(s, plan, tar)
      BY <1>2 DEF DeployCreate, DeployFromArchive, DeployFromSuspended, DeployFresh, Plan, RowOK
    <3> QED BY <1>2, <3>1 DEF DeployCreate, Restoring
  <2>2. pvc' = pvc \/ (pvc = None /\ pvc' = {})
    BY <1>2 DEF DeployCreate, DeployFromArchive, DeployFromSuspended, DeployFresh,
      CreateEngine, Provisioned
  <2>3. UNCHANGED <<daily, archives>>
    BY <1>2 DEF DeployCreate, store
  <2> QED BY <2>1, <2>2, <2>3, AsideCopies DEF Vault!Next, Vault!Provision, Vault!vars, Backups
<1>3. CASE DeployCreateFails(s)
  <2>1. Aside(s)
    BY <1>3 DEF DeployCreateFails
  <2>2. pvc' = pvc \/ (pvc = None /\ pvc' = {})
    BY <1>3 DEF DeployCreateFails, Provisioned
  <2>3. UNCHANGED <<daily, archives>>
    BY <1>3 DEF DeployCreateFails, store
  <2> QED BY <2>1, <2>2, <2>3, AsideCopies DEF Vault!Next, Vault!Provision, Vault!vars, Backups
<1>4. CASE DeployPodRuns(s)
  <2>1. Aside(s) /\ UNCHANGED <<pvc, daily, archives>>
    BY <1>4 DEF DeployPodRuns, store
  <2> QED BY <2>1, AsideStutters
<1>5. CASE DeployTimesOut(s)
  <2>1. Aside(s) /\ UNCHANGED <<pvc, daily, archives>>
    BY <1>5 DEF DeployTimesOut, store, WaitRunsOut
  <2> QED BY <2>1, AsideStutters
<1>6. CASE DeployRestore(s)
  <2>1. Aside(s) /\ UNCHANGED <<daily, archives>>
    BY <1>6 DEF DeployRestore, store
  <2>2. pvc # None /\ pvc' \in Backups \cup archives
    BY <1>6, NoneAssumption DEF DeployRestore, RestoreSource, CanExec, Newest, Backups,
      ArchiveKnown, StoreOK
  <2> QED BY <2>1, <2>2, AsideCopies DEF Vault!Next, Vault!Restore, Vault!vars, Backups
<1>7. CASE DeployRestoreFails(s)
  <2>1. Aside(s) /\ UNCHANGED <<daily, archives>>
    BY <1>7 DEF DeployRestoreFails, store
  <2>2. UNCHANGED pvc \/ (pvc # None /\ pvc' \in Backups \cup archives)
    BY <1>7, NoneAssumption DEF DeployRestoreFails, RestoreSource, CanExec, Newest, Backups,
      ArchiveKnown, StoreOK
  <2> QED BY <2>1, <2>2, AsideCopies DEF Vault!Next, Vault!Restore, Vault!vars, Backups
<1>8. CASE DeployAbort(s)
  <2>1. Aside(s) /\ UNCHANGED <<pvc, daily, archives>>
    BY <1>8 DEF DeployAbort, store
  <2> QED BY <2>1, AsideStutters
<1>9. CASE DeployDone(s)
  <2>1. Aside(s) /\ UNCHANGED <<pvc, daily, archives>>
    BY <1>9 DEF DeployDone, store
  <2> QED BY <2>1, AsideStutters
<1> QED BY <1>1, <1>2, <1>3, <1>4, <1>5, <1>6, <1>7, <1>8, <1>9 DEF DeployStep

(* suspend stores the volume as the backup of the day.                     *)
LEMMA VaultSuspend ==
  ASSUME IInv, NEW s \in Session, SuspendStep(s)
  PROVE  [Vault!Next]_Vault!vars
<1> USE DEF IInv, TypeOK, Safe, SessionsOK, SessionState, Aside, At, Become, Goto,
  Finish, Quiet, Begin
<1>1. CASE SuspendBackup(s)
  <2>1. Aside(s)
    BY <1>1 DEF SuspendBackup
  <2>2. CASE UNCHANGED store
    BY <1>1, <2>1, <2>2, AsideCopies DEF SuspendBackup, Backups, Vault!vars, store
  <2>3. CASE pvc # None /\ SaveDaily(pvc)
    <3>1. pvc \in Backups' /\ Backups' \subseteq Backups \cup {pvc} /\ UNCHANGED archives
      BY <2>3, SavedFound DEF KubeOK
    <3>2. UNCHANGED pvc
      BY <1>1 DEF SuspendBackup
    <3> QED BY <2>1, <2>3, <3>1, <3>2, AsideCopies DEF Vault!Next, Vault!Store, Vault!vars
  <2> QED BY <1>1, <2>2, <2>3 DEF SuspendBackup, CanExec, store
<1>2. CASE SuspendBackupFails(s)
  <2>1. Aside(s) /\ UNCHANGED pvc
    BY <1>2 DEF SuspendBackupFails
  <2>2. CASE UNCHANGED store
    BY <2>1, <2>2, AsideStutters DEF store
  <2>3. CASE pvc # None /\ PutDaily(pvc)
    <3>1. pvc \in Backups' /\ Backups' \subseteq Backups \cup {pvc} /\ UNCHANGED archives
      BY <2>3, SavedFound DEF KubeOK
    <3> QED BY <2>1, <2>3, <3>1, AsideCopies DEF Vault!Next, Vault!Store, Vault!vars
  <2> QED BY <1>2, <2>2, <2>3 DEF SuspendBackupFails, CanExec
<1>3. CASE SuspendMark(s)
  <2>1. Aside(s) /\ UNCHANGED <<pvc, daily, archives>>
    BY <1>3 DEF SuspendMark, store
  <2> QED BY <2>1, AsideStutters
<1>4. CASE SuspendScale(s)
  <2>1. Aside(s) /\ UNCHANGED <<pvc, daily, archives>>
    BY <1>4 DEF SuspendScale, store
  <2> QED BY <2>1, AsideStutters
<1> QED BY <1>1, <1>2, <1>3, <1>4 DEF SuspendStep

(* destroy archives a backup, then reclaims the volume.                    *)
LEMMA VaultDestroy ==
  ASSUME IInv, NEW s \in Session, DestroyStep(s)
  PROVE  [Vault!Next]_Vault!vars
<1> USE DEF IInv, TypeOK, Safe, SessionsOK, SessionState, Aside, At, Become, Goto,
  Finish, Quiet
<1>1. CASE DestroyArchive(s)
  <2>1. Aside(s) /\ UNCHANGED <<pvc, daily>>
    BY <1>1 DEF DestroyArchive
  <2>2. UNCHANGED archives \/ \E c \in Backups : archives' = archives \cup {c}
    BY <1>1 DEF DestroyArchive, CopyNewest, Newest, Backups
  <2> QED BY <2>1, <2>2, AsideCopies DEF Vault!Next, Vault!Archive, Vault!vars, Backups
<1>2. CASE DestroyRefused(s)
  <2>1. Aside(s) /\ UNCHANGED <<pvc, daily>>
    BY <1>2 DEF DestroyRefused
  <2>2. UNCHANGED archives \/ \E c \in Backups : archives' = archives \cup {c}
    BY <1>2 DEF DestroyRefused, CopyNewest, Newest, Backups
  <2> QED BY <2>1, <2>2, AsideCopies DEF Vault!Next, Vault!Archive, Vault!vars, Backups
<1>3. CASE DestroyDelete(s)
  <2>1. Aside(s) /\ UNCHANGED <<daily, archives>>
    BY <1>3 DEF DestroyDelete, store
  <2>2. pvc' = pvc \/ (pvc' = None /\ archives # {})
    BY <1>3 DEF DestroyDelete, VolumeAfterDelete, ArchiveKnown
  <2> QED BY <2>1, <2>2, AsideCopies DEF Vault!Next, Vault!Reclaim, Vault!vars, Backups
<1>4. CASE DestroyDeleteFails(s)
  <2>1. Aside(s) /\ UNCHANGED <<pvc, daily, archives>>
    BY <1>4 DEF DestroyDeleteFails, store
  <2> QED BY <2>1, AsideStutters
<1>5. CASE DestroyMark(s)
  <2>1. Aside(s) /\ UNCHANGED <<pvc, daily, archives>>
    BY <1>5 DEF DestroyMark, store
  <2> QED BY <2>1, AsideStutters
<1> QED BY <1>1, <1>2, <1>3, <1>4, <1>5 DEF DestroyStep

(* resume does nothing to the vault.                                       *)
LEMMA VaultResume ==
  ASSUME IInv, NEW s \in Session, ResumeStep(s)
  PROVE  [Vault!Next]_Vault!vars
<1> USE DEF IInv, TypeOK, Safe, SessionsOK, SessionState, Aside, At, Become, Goto,
  Finish, Quiet
<1>1. CASE ResumeScale(s)
  <2>1. Aside(s) /\ UNCHANGED <<pvc, daily, archives>>
    BY <1>1 DEF ResumeScale, store
  <2> QED BY <2>1, AsideStutters
<1>2. CASE ResumeMark(s)
  <2>1. Aside(s) /\ UNCHANGED <<pvc, daily, archives>>
    BY <1>2 DEF ResumeMark, store
  <2> QED BY <2>1, AsideStutters
<1> QED BY <1>1, <1>2 DEF ResumeStep

(* Neither does the drift correction.                                      *)
LEMMA VaultDrift ==
  ASSUME IInv, NEW s \in Session, DriftStep(s)
  PROVE  [Vault!Next]_Vault!vars
<1> USE DEF IInv, TypeOK, Safe, SessionsOK, SessionState, Aside, At, Become, Goto,
  Finish, Quiet
<1>1. CASE PollProbe(s)
  <2>1. PICK obs, target : Correct(s, obs, target)
    BY <1>1 DEF PollProbe
  <2>2. Aside(s)
    <3>1. ses[s].pc = "poll_probe"
      BY <1>1 DEF PollProbe
    <3> QED BY <2>1, <3>1, CorrectAside
  <2>3. UNCHANGED <<pvc, daily, archives>>
    BY <1>1 DEF PollProbe, store
  <2> QED BY <2>2, <2>3, AsideStutters
<1>2. CASE SweepProbe(s)
  <2>1. (\E obs, target : Correct(s, obs, target)) \/ Finish(s)
    BY <1>2 DEF SweepProbe
  <2>2. Aside(s)
    <3>1. ses[s].pc = "sweep_probe"
      BY <1>2 DEF SweepProbe
    <3> QED BY <2>1, <3>1, CorrectAside
  <2>3. UNCHANGED <<pvc, daily, archives>>
    BY <1>2 DEF SweepProbe, store
  <2> QED BY <2>2, <2>3, AsideStutters
<1>3. CASE DriftWrite(s)
  <2>1. Aside(s) /\ UNCHANGED <<pvc, daily, archives>>
    BY <1>3 DEF DriftWrite, store
  <2> QED BY <2>1, AsideStutters
<1> QED BY <1>1, <1>2, <1>3 DEF DriftStep

(* The unlocked backups store their copies, or lose them.                  *)
LEMMA VaultBackup ==
  ASSUME IInv, NEW s \in Session, BackupStep(s)
  PROVE  [Vault!Next]_Vault!vars
<1> USE DEF IInv, TypeOK, Safe, SessionsOK, SessionState, Aside, At, Become, Goto,
  Finish, Quiet
<1>1. CASE DailySave(s)
  <2>1. ses[s].tar \in Copying /\ ses[s].tar \in Content
    BY <1>1 DEF DailySave, Copying, Copier, TarsTaken
  <2>2. Copying' \subseteq Copying /\ UNCHANGED pvc
    BY <1>1 DEF DailySave, Copying, Copier
  <2>3. CASE UNCHANGED store
    BY <2>2, <2>3 DEF Vault!Next, Vault!Forget, Backups, store
  <2>4. CASE SaveDaily(ses[s].tar) \/ PutDaily(ses[s].tar)
    <3>1. ses[s].tar \in Backups' /\ Backups' \subseteq Backups \cup {ses[s].tar} /\ UNCHANGED archives
      BY <2>1, <2>4, SavedFound
    <3> QED BY <2>1, <2>2, <3>1 DEF Vault!Next, Vault!Store
  <2> QED BY <1>1, <2>3, <2>4 DEF DailySave, store
<1>2. CASE FinalizerSave(s)
  <2>1. ses[s].tar \in Copying /\ ses[s].tar \in Content
    BY <1>2 DEF FinalizerSave, Copying, Copier, TarsTaken
  <2>2. Copying' \subseteq Copying /\ UNCHANGED pvc
    BY <1>2 DEF FinalizerSave, Copying, Copier
  <2>3. CASE UNCHANGED store
    BY <2>2, <2>3 DEF Vault!Next, Vault!Forget, Backups, store
  <2>4. CASE SaveDaily(ses[s].tar) \/ PutDaily(ses[s].tar)
    <3>1. ses[s].tar \in Backups' /\ Backups' \subseteq Backups \cup {ses[s].tar} /\ UNCHANGED archives
      BY <2>1, <2>4, SavedFound
    <3> QED BY <2>1, <2>2, <3>1 DEF Vault!Next, Vault!Store
  <2> QED BY <1>2, <2>3, <2>4 DEF FinalizerSave, store
<1> QED BY <1>1, <1>2 DEF BackupStep

(* Kubernetes does nothing to the vault.                                   *)
LEMMA VaultKube ==
  ASSUME IInv, KubeStep
  PROVE  [Vault!Next]_Vault!vars
<1> USE DEF IInv, TypeOK, Safe, SessionsOK, SessionState
<1>1. CASE KubeCreatesPod
  BY <1>1, Stutters DEF KubeCreatesPod, store, manager
<1>2. CASE KubePodProgress
  BY <1>2, Stutters DEF KubePodProgress, store, manager
<1>3. CASE KubeScalesDown
  BY <1>3, Stutters DEF KubeScalesDown, store, manager
<1>4. CASE KubeContainerExits
  BY <1>4, Stutters DEF KubeContainerExits, store, manager
<1> QED BY <1>1, <1>2, <1>3, <1>4 DEF KubeStep

(* Users write, time and crashes make it forget.                           *)
LEMMA VaultEnv ==
  ASSUME IInv, Environment
  PROVE  [Vault!Next]_Vault!vars
<1> USE DEF IInv, TypeOK, Safe, SessionsOK, SessionState
<1>1. CASE FinalizerGiveUp
  BY <1>1, Stutters DEF FinalizerGiveUp, store, manager
<1>2. CASE DailyCleanup
  <2>1. UNCHANGED <<pvc, archives, ses>> /\ Backups' \subseteq Backups
    BY <1>2 DEF DailyCleanup, Backups, StoreOK, manager
  <2> QED BY <2>1 DEF Vault!Next, Vault!Forget, Copying, Copier
<1>3. CASE Evict
  BY <1>3, Stutters DEF Evict, store, manager
<1>4. CASE Restart
  BY <1>4, Stutters DEF Restart, store, manager
<1>5. CASE DeleteDeployment
  BY <1>5, Stutters DEF DeleteDeployment, store, manager
<1>6. CASE UserWrite
  <2>1. UNCHANGED <<daily, archives, ses>> /\ pvc # None
    BY <1>6 DEF UserWrite, store, manager
  <2>2. nextWrite \in Writes /\ pvc' = pvc \cup {nextWrite}
    BY <1>6, WriteTyped DEF UserWrite
  <2> QED BY <2>1, <2>2 DEF Vault!Next, Vault!Write, Copying, Copier, Backups
<1>7. CASE HalfHourPasses
  BY <1>7, Stutters DEF HalfHourPasses, store, manager
<1>8. CASE DayPasses
  <2>1. UNCHANGED <<pvc, archives, ses>> /\ Backups' \subseteq Backups
    BY <1>8 DEF DayPasses, Backups, StoreOK
  <2> QED BY <2>1 DEF Vault!Next, Vault!Forget, Copying, Copier
<1>9. CASE MonthPasses
  <2>1. UNCHANGED <<pvc, archives, ses>> /\ Backups' \subseteq Backups
    BY <1>9 DEF MonthPasses, Backups, Newest, StoreOK
  <2> QED BY <2>1 DEF Vault!Next, Vault!Forget, Copying, Copier
<1>10. CASE Crash
  <2>1. UNCHANGED <<pvc, daily, archives>> /\ Copying' = {}
    BY <1>10 DEF Crash, Copying, Copier, Quiet, store
  <2> QED BY <2>1 DEF Vault!Next, Vault!Forget, Backups
<1> QED BY <1>1, <1>2, <1>3, <1>4, <1>5, <1>6, <1>7, <1>8, <1>9, <1>10 DEF
  Environment

-----------------------------------------------------------------------------
(* Every step of the lifecycle is a step of the vault or leaves it alone.  *)
LEMMA NextKeepsVault == ASSUME IInv, Next PROVE [Vault!Next]_Vault!vars
<1>1. ASSUME NEW s \in Session, StartStep(s) PROVE [Vault!Next]_Vault!vars
  BY <1>1, VaultStart
<1>2. ASSUME NEW s \in Session, LockStep(s) PROVE [Vault!Next]_Vault!vars
  BY <1>2, VaultLock
<1>3. ASSUME NEW s \in Session, WorkStep(s) PROVE [Vault!Next]_Vault!vars
  BY <1>3, VaultDeploy, VaultSuspend, VaultDestroy, VaultResume, VaultDrift, VaultBackup
     DEF WorkStep
<1>4. CASE KubeStep
  BY <1>4, VaultKube
<1>5. CASE Environment
  BY <1>5, VaultEnv
<1> QED BY <1>1, <1>2, <1>3, <1>4, <1>5 DEF Next

(* The lifecycle of an engine implements the vault: volumes are never      *)
(* blanked, go only once an archive exists, and get back only what was     *)
(* stored.                                                                 *)
THEOREM ImplementsVault == Spec => KeepsTheVault
<1>1. Init => Vault!Init
  BY DEF Init, Vault!Init, Backups, Copying, Copier, Quiet
<1>2. IInv /\ [Next]_vars => [Vault!Next]_Vault!vars
  <2>1. ASSUME IInv, UNCHANGED vars PROVE UNCHANGED Vault!vars
    BY <2>1, Stutters DEF vars, store, manager
  <2> QED BY <2>1, NextKeepsVault
<1> QED BY <1>1, <1>2, InvariantHolds, PTL DEF Spec, KeepsTheVault, Vault!Spec

=============================================================================
