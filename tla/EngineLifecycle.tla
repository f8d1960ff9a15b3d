-------------------------- MODULE EngineLifecycle --------------------------
(***************************************************************************)
(* The life of ONE engine of the manager's worker: its deployment row, its *)
(* Kubernetes objects, its volume and its backups, driven by the HTTP      *)
(* handlers, the background deploy task and the scheduler loops, which all *)
(* interleave in one asyncio process and meet only at the row's status and *)
(* at the per-agent advisory lock.                                         *)
(*                                                                         *)
(* A session is one such handler, task or loop round.  It keeps the status *)
(* it read (`seen`, SQLAlchemy's identity map: expire_on_commit is FALSE   *)
(* and rows are never refreshed), and everything between two awaits is one *)
(* action.  The tar of a volume is the set of user writes it contains; to  *)
(* untar it puts the volume back to exactly that set.                      *)
(*                                                                         *)
(* X_Fault is X with a plausible slip; no action uses it.  It is there to  *)
(* see that the properties would notice.                                   *)
(***************************************************************************)
EXTENDS Naturals, FiniteSets

CONSTANTS
  Session,          \* handlers, tasks and loop rounds that may be under way
  None,             \* no volume, no object, no archive path
  MaxWrites,        \* bound on the number of user writes
  SuspendMaxFails,  \* _SUSPEND_MAX_FAILS
  ReclaimPvc,       \* settings.pvc_reclaim_on_destroy
  SkipBackup,       \* settings.pvc_skip_backup_on_suspend
  Ops               \* the operations a run lets the environment start

Writes  == 1 .. MaxWrites
Content == SUBSET Writes

ASSUME BoundsAssumption == MaxWrites \in Nat /\ SuspendMaxFails \in Nat \ {0}
ASSUME SettingsAssumption ==
  /\ ReclaimPvc \in BOOLEAN /\ SkipBackup \in BOOLEAN
  /\ ~(SkipBackup /\ ReclaimPvc)       \* the validator of config.py
ASSUME NoneAssumption == \A c \in Content : c # None

VARIABLES
  (* the row of agent_deployments *)
  status,       \* PENDING also stands for "no row yet"
  idle,         \* last_active_at is older than idle_suspend_minutes
  backupAt,     \* age of backup_at: none, fresh, or older than 24 h
  archivePath,  \* content of the object archive_path names, or None
  (* Kubernetes *)
  kdep,         \* the Deployment: absent, or scaled to zero or one
  pod,          \* its non-terminating Pod
  fin,          \* that Pod carries the data-backup finalizer
  old,          \* its Terminating Pod
  pvc,          \* content of the volume, or None
  (* object storage *)
  daily,        \* daily backups by age
  archives,     \* contents of the permanent archives
  (* the manager process *)
  ses,          \* the sessions
  fails,        \* _suspend_fail_count
  dailyDone,    \* _daily_backup_last_run_date is today
  (* history *)
  nextWrite,    \* id of the next user write
  saved         \* every write some successful save_daily has covered

row     == <<status, idle, backupAt, archivePath>>
kube    == <<kdep, pod, fin, old>>
store   == <<daily, archives, saved>>
manager == <<ses, fails, dailyDone>>
vars    == <<row, kube, pvc, store, manager, nextWrite>>

Status == {"PENDING", "DEPLOYING", "RUNNING", "SUSPENDED", "FAILED", "ARCHIVED"}

(* Program counters: what a session does next.                             *)
DeployBody  == {"deploy_create", "deploy_wait", "deploy_restore",
                "deploy_abort", "deploy_ready"}
HoldsVolume == {"deploy_wait", "deploy_restore", "deploy_abort", "deploy_ready"}
LockedPc    == DeployBody \cup {"suspend_backup", "suspend_mark",
                                "destroy_archive", "destroy_delete", "destroy_mark"}
WaitPc      == {"deploy_lock", "suspend_lock", "destroy_lock"}
FreePc      == {"idle", "deploy_mark", "suspend_scale", "resume_scale",
                "resume_mark", "poll_probe", "sweep_probe", "drift_write",
                "daily_save", "final_save"}

Observation == {"running", "NotFound", "terminating", "unhealthy", "error"}
Plan        == {"none", "archive", "daily", "fail"} \cup Observation

Loops == {"idle_suspend", "idle_destroy", "sweep", "daily", "finalizer"}

Pc == LockedPc \cup WaitPc \cup FreePc

SessionState == [pc   : Pc,
                 loop : Loops \cup {"none"},  \* the scheduler loop it belongs to
                 seen : Status,            \* status in the session's memory
                 arg  : Status,            \* prev_status, or the drift target
                 plan : Plan,              \* restore plan, or what a probe saw
                 tar  : Content \cup {None}]

Quiet == [pc |-> "idle", loop |-> "none", seen |-> "PENDING", arg |-> "PENDING",
          plan |-> "none", tar |-> None]

FlagsOK == idle \in BOOLEAN /\ fin \in BOOLEAN /\ dailyDone \in BOOLEAN

RowOK ==
  /\ status \in Status
  /\ backupAt \in {"none", "fresh", "old"}
  /\ archivePath \in Content \cup {None}

KubeOK ==
  /\ kdep \in {"absent", "zero", "one"}
  /\ pod \in {"none", "starting", "running", "ready"}
  /\ old \in {"none", "alive", "leaving", "dead"}
  /\ pvc \in Content \cup {None}

StoreOK ==
  /\ daily \in [today   : Content \cup {None},
                recent  : Content \cup {None},
                expired : Content \cup {None}]
  /\ archives \in SUBSET Content
  /\ saved \in Content

SessionsOK == ses \in [Session -> SessionState]

CountersOK == fails \in 0 .. SuspendMaxFails - 1 /\ nextWrite \in 1 .. MaxWrites + 1

TypeOK == FlagsOK /\ RowOK /\ KubeOK /\ StoreOK /\ SessionsOK /\ CountersOK

Init ==
  /\ status = "PENDING" /\ idle = FALSE /\ backupAt = "none" /\ archivePath = None
  /\ kdep = "absent" /\ pod = "none" /\ fin = FALSE /\ old = "none"
  /\ pvc = None
  /\ daily = [today |-> None, recent |-> None, expired |-> None]
  /\ archives = {}
  /\ ses = [s \in Session |-> Quiet]
  /\ fails = 0 /\ dailyDone = FALSE
  /\ nextWrite = 1 /\ saved = {}

-----------------------------------------------------------------------------
(* Sessions and the advisory lock.                                         *)

At(s, pc) == ses[s].pc = pc

(* A request begins: op is one this run allows.                            *)
Start(s, op) == At(s, "idle") /\ op \in Ops

(* A loop round begins: each loop is one task, its rounds never overlap.   *)
LoopIdle(op)  == \A t \in Session : ses[t].loop # op
Round(s, op)  == Start(s, op) /\ LoopIdle(op)
Begin(pc, loop, st) == [Quiet EXCEPT !.pc = pc, !.loop = loop, !.seen = st]

Become(s, state) == ses' = [ses EXCEPT ![s] = state]
Goto(s, pc)      == Become(s, [ses[s] EXCEPT !.pc = pc])
Finish(s)        == Become(s, Quiet)

(* pg_advisory_xact_lock: held from the acquisition to the commit, the     *)
(* rollback or the end of the session's connection.                        *)
LockFree_Fault == TRUE
LockFree == \A t \in Session : ses[t].pc \notin LockedPc

(* set_status: the ORM emits an UPDATE only when the in-memory value       *)
(* changes, whatever the row holds by now.                                 *)
SetStatus(s, target) == status' = IF ses[s].seen = target THEN status ELSE target

-----------------------------------------------------------------------------
(* What the manager sees of Kubernetes and of the object store.            *)

Newest_Fault(d) == IF d.expired # None THEN d.expired
                   ELSE IF d.recent # None THEN d.recent ELSE d.today
Newest(d) == IF d.today # None THEN d.today
             ELSE IF d.recent # None THEN d.recent ELSE d.expired

(* _get_pod_status_sync: a Running non-terminating Pod first, then any     *)
(* non-terminating one, then whatever is left.  A terminating Pod keeps    *)
(* phase Running while its container lives.                                *)
Observed ==
  CASE pod \in {"running", "ready"}                  -> "running"
    [] pod = "starting"                              -> "unhealthy"
    [] pod = "none" /\ old \in {"alive", "leaving"}  -> "running"
    [] pod = "none" /\ old = "dead"                  -> "terminating"
    [] pod = "none" /\ old = "none"                  -> "NotFound"

(* exec reaches the container of the Pod get_pod_status names.             *)
CanExec == Observed = "running" /\ pvc # None

(* Some Pod of the engine has the Ready condition; nothing clears it on a  *)
(* terminating Pod whose container still runs.                             *)
SomePodReady == pod = "ready" \/ old \in {"alive", "leaving"}

(* create_agent_engine: PVC (409: reuse it), Deployment (409: patch it to  *)
(* one replica), Service.                                                  *)
Provisioned_Fault == {}
Provisioned  == IF pvc = None THEN {} ELSE pvc
CreateEngine == pvc' = Provisioned /\ kdep' = "one" /\ UNCHANGED <<pod, fin, old>>

(* patch_namespaced_deployment_scale, 404 ignored.                         *)
ScaleTo(n) == kdep' = IF kdep = "absent" THEN "absent" ELSE n

(* save_daily overwrites the object of the day.                            *)
SaveDaily_Fault(c) == UNCHANGED <<daily, saved, archives>>
SaveDaily(c) ==
  /\ daily' = [daily EXCEPT !.today = c]
  /\ saved' = saved \cup c
  /\ UNCHANGED archives

(* It was written, but reading it back raises: the caller sees a failure.  *)
PutDaily(c) ==
  /\ daily' = [daily EXCEPT !.today = c]
  /\ UNCHANGED <<saved, archives>>

-----------------------------------------------------------------------------
(* POST deploy: mark the row, then run the background task (bound: the     *)
(* very first deploy, which inserts the row, has no rival: two would       *)
(* insert two rows).                                                       *)

DeployRead(s) ==
  /\ Start(s, "deploy")
  /\ status \notin {"RUNNING", "DEPLOYING"}      \* 200 already, 409 already
  /\ status = "PENDING" => \A t \in Session : ~At(t, "deploy_mark")
  /\ Become(s, [Begin("deploy_mark", "none", status) EXCEPT !.arg = status])
  /\ UNCHANGED <<row, kube, pvc, store, fails, dailyDone, nextWrite>>

DeployMark(s) ==
  /\ At(s, "deploy_mark")
  /\ status' = "DEPLOYING"
  /\ Goto(s, "deploy_lock")
  /\ UNCHANGED <<idle, backupAt, archivePath, kube, pvc, store, fails, dailyDone, nextWrite>>

(* _run_deploy takes the lock; _deploy_body reloads the row and gives up   *)
(* unless it still says DEPLOYING.                                         *)
DeployLock(s) ==
  /\ At(s, "deploy_lock")
  /\ LockFree
  /\ IF status = "DEPLOYING"
       THEN Become(s, [ses[s] EXCEPT !.pc = "deploy_create", !.seen = status])
       ELSE Finish(s)
  /\ UNCHANGED <<row, kube, pvc, store, fails, dailyDone, nextWrite>>

Restoring(s, plan, tar) ==
  Become(s, [ses[s] EXCEPT !.pc = "deploy_wait", !.arg = "PENDING",
                           !.plan = plan, !.tar = tar])

(* Recreate from the archive: the tar is downloaded now, untarred later.   *)
DeployFromArchive(s) ==
  /\ ses[s].arg = "ARCHIVED"
  /\ CreateEngine
  /\ \/ archivePath = None /\ Restoring(s, "none", None)
     \/ archivePath # None /\ Restoring(s, "archive", archivePath)
     \/ archivePath # None /\ Restoring(s, "fail", None)

(* Wake up: scale to one, or recreate a Deployment that has disappeared.   *)
DeployFromSuspended(s) ==
  /\ ses[s].arg = "SUSPENDED"
  /\ \/ /\ kdep # "absent"
        /\ kdep' = "one"
        /\ Restoring(s, IF pvc # None THEN "none" ELSE "daily", None)
        /\ UNCHANGED <<pod, fin, old, pvc>>
     \/ /\ kdep = "absent"
        /\ CreateEngine
        /\ Restoring(s, "daily", None)

(* prev_status is None, PENDING or FAILED: a fresh engine, nothing to      *)
(* restore.                                                                *)
DeployFresh(s) ==
  /\ ses[s].arg \notin {"ARCHIVED", "SUSPENDED"}
  /\ CreateEngine
  /\ Restoring(s, "none", None)

DeployCreate(s) ==
  /\ At(s, "deploy_create")
  /\ DeployFromArchive(s) \/ DeployFromSuspended(s) \/ DeployFresh(s)
  /\ UNCHANGED <<row, store, fails, dailyDone, nextWrite>>

(* An API call raises: before or after the PVC is there, before or after   *)
(* the Deployment is up.                                                   *)
DeployCreateFails(s) ==
  /\ At(s, "deploy_create")
  /\ \/ UNCHANGED <<pvc, kdep>>
     \/ pvc' = Provisioned /\ kdep' \in {kdep, "one"}
  /\ SetStatus(s, "FAILED")
  /\ Finish(s)
  /\ UNCHANGED <<idle, backupAt, archivePath, pod, fin, old, store, fails, dailyDone, nextWrite>>

(* wait_pod_ready only asks for phase Running.                             *)
DeployPodRuns(s) ==
  /\ At(s, "deploy_wait")
  /\ Observed = "running"
  /\ Goto(s, CASE ses[s].plan \in {"archive", "daily"} -> "deploy_restore"
               [] ses[s].plan = "fail"                 -> "deploy_abort"
               [] OTHER                                -> "deploy_ready")
  /\ UNCHANGED <<row, kube, pvc, store, fails, dailyDone, nextWrite>>

WaitRunsOut_Fault(s) == At(s, "deploy_wait") /\ Observed # "running"
WaitRunsOut(s) == \/ At(s, "deploy_wait") /\ Observed # "running"
                  \/ At(s, "deploy_ready") /\ ~SomePodReady

(* Either wait runs out: the exception handler marks the row FAILED.       *)
DeployTimesOut(s) ==
  /\ WaitRunsOut(s)
  /\ SetStatus(s, "FAILED")
  /\ Finish(s)
  /\ UNCHANGED <<idle, backupAt, archivePath, kube, pvc, store, fails, dailyDone, nextWrite>>

RestoreSource(s) == IF ses[s].plan = "archive" THEN ses[s].tar ELSE Newest(daily)

DeployRestore(s) ==
  /\ At(s, "deploy_restore")
  /\ RestoreSource(s) # None
  /\ CanExec
  /\ pvc' = RestoreSource(s)
  /\ Become(s, [ses[s] EXCEPT !.pc = "deploy_ready", !.plan = "none", !.tar = None])
  /\ UNCHANGED <<row, kube, store, fails, dailyDone, nextWrite>>

(* No restorable backup, or the exec raises, at worst at its very end.     *)
DeployRestoreFails(s) ==
  /\ At(s, "deploy_restore")
  /\ \/ UNCHANGED pvc
     \/ RestoreSource(s) # None /\ CanExec /\ pvc' = RestoreSource(s)
  /\ Become(s, [ses[s] EXCEPT !.pc = "deploy_abort", !.plan = "fail", !.tar = None])
  /\ UNCHANGED <<row, kube, store, fails, dailyDone, nextWrite>>

(* _restore_error: scale down (a failure of that is swallowed), FAILED.    *)
DeployAbort(s) ==
  /\ At(s, "deploy_abort")
  /\ ScaleTo("zero") \/ UNCHANGED kdep
  /\ SetStatus(s, "FAILED")
  /\ Finish(s)
  /\ UNCHANGED <<idle, backupAt, archivePath, pod, fin, old, pvc, store, fails, dailyDone, nextWrite>>

DeployDone(s) ==
  /\ At(s, "deploy_ready")
  /\ SomePodReady
  /\ SetStatus(s, "RUNNING")
  /\ idle' = FALSE
  /\ Finish(s)
  /\ UNCHANGED <<backupAt, archivePath, kube, pvc, store, fails, dailyDone, nextWrite>>

-----------------------------------------------------------------------------
(* suspend: the endpoint takes any row; the scheduler selects idle RUNNING *)
(* rows.  Neither looks at the status again under the lock.                *)

SuspendRead(s) ==
  /\ \/ Start(s, "suspend") /\ status # "PENDING"
        /\ Become(s, Begin("suspend_lock", "none", status))
     \/ Round(s, "idle_suspend") /\ status = "RUNNING" /\ idle
        /\ Become(s, Begin("suspend_lock", "idle_suspend", status))
  /\ UNCHANGED <<row, kube, pvc, store, fails, dailyDone, nextWrite>>

SuspendLock(s) ==
  /\ At(s, "suspend_lock")
  /\ LockFree
  /\ Goto(s, "suspend_backup")
  /\ UNCHANGED <<row, kube, pvc, store, fails, dailyDone, nextWrite>>

(* exec tar and save_daily, or nothing in skip mode with a PVC (whose      *)
(* existence an API failure, a "blip", leaves unknown).                    *)
MaySkip  == SkipBackup /\ pvc # None
MustSave == ~MaySkip \/ "blip" \in Ops

SuspendBackup(s) ==
  /\ At(s, "suspend_backup")
  /\ \/ MaySkip /\ UNCHANGED <<store, fails>>
     \/ MustSave /\ CanExec /\ SaveDaily(pvc) /\ fails' = 0
  /\ Goto(s, "suspend_mark")
  /\ UNCHANGED <<row, kube, pvc, dailyDone, nextWrite>>

CountFailure_Fault == fails + 1
CountFailure == IF fails + 1 >= SuspendMaxFails THEN 0 ELSE fails + 1

(* The backup raises: the row is left alone until the third time in a row. *)
SuspendBackupFails(s) ==
  /\ At(s, "suspend_backup")
  /\ MustSave
  /\ UNCHANGED store \/ (CanExec /\ PutDaily(pvc))
  /\ fails' = CountFailure
  /\ IF fails + 1 >= SuspendMaxFails THEN SetStatus(s, "FAILED") ELSE UNCHANGED status
  /\ Finish(s)
  /\ UNCHANGED <<idle, backupAt, archivePath, kube, pvc, dailyDone, nextWrite>>

(* The commit of SUSPENDED ends the transaction, and with it the lock.     *)
SuspendMark(s) ==
  /\ At(s, "suspend_mark")
  /\ backupAt' = "fresh"
  /\ SetStatus(s, "SUSPENDED")
  /\ Become(s, Begin("suspend_scale", ses[s].loop, "PENDING"))
  /\ UNCHANGED <<idle, archivePath, kube, pvc, store, fails, dailyDone, nextWrite>>

(* Finalizers off (best effort), then scale to zero, which may raise.      *)
SuspendScale(s) ==
  /\ At(s, "suspend_scale")
  /\ fin' \in {FALSE, fin}
  /\ ScaleTo("zero") \/ UNCHANGED kdep
  /\ Finish(s)
  /\ UNCHANGED <<row, pod, old, pvc, store, fails, dailyDone, nextWrite>>

-----------------------------------------------------------------------------
(* destroy: the endpoint takes any row; the scheduler selects SUSPENDED    *)
(* rows whose backup is older than 24 h.                                   *)

DestroyRead(s) ==
  /\ \/ Start(s, "destroy") /\ status # "PENDING"
        /\ Become(s, Begin("destroy_lock", "none", status))
     \/ Round(s, "idle_destroy") /\ status = "SUSPENDED" /\ backupAt = "old"
        /\ Become(s, Begin("destroy_lock", "idle_destroy", status))
  /\ UNCHANGED <<row, kube, pvc, store, fails, dailyDone, nextWrite>>

DestroyLock(s) ==
  /\ At(s, "destroy_lock")
  /\ LockFree
  /\ Goto(s, "destroy_archive")
  /\ UNCHANGED <<row, kube, pvc, store, fails, dailyDone, nextWrite>>

MayGoUnarchived_Fault == TRUE
MayGoUnarchived == ~ReclaimPvc

(* archive_backup's server-side copy of the newest backup.                 *)
CopyNewest == Newest(daily) # None /\ archives' = archives \cup {Newest(daily)}

(* Without a copy known to be good the volume may only be kept.            *)
DestroyArchive(s) ==
  /\ At(s, "destroy_archive")
  /\ \/ CopyNewest /\ Become(s, [ses[s] EXCEPT !.pc = "destroy_delete", !.tar = Newest(daily)])
     \/ MayGoUnarchived /\ (CopyNewest \/ UNCHANGED archives) /\ Goto(s, "destroy_delete")
  /\ UNCHANGED <<row, kube, pvc, daily, saved, fails, dailyDone, nextWrite>>

(* Nothing was archived and the volume would go, or the object store       *)
(* raises, perhaps on reading the copy back: row as it is.                 *)
DestroyRefused(s) ==
  /\ At(s, "destroy_archive")
  /\ CopyNewest \/ UNCHANGED archives
  /\ Finish(s)
  /\ UNCHANGED <<row, kube, pvc, daily, saved, fails, dailyDone, nextWrite>>

VolumeAfterDelete_Fault == None
VolumeAfterDelete == IF ReclaimPvc THEN None ELSE pvc

(* Finalizers off (best effort); delete Deployment, Service and, when      *)
(* reclaiming, the PVC.                                                    *)
DestroyDelete(s) ==
  /\ At(s, "destroy_delete")
  /\ fin' \in {FALSE, fin}
  /\ kdep' = "absent"
  /\ pvc' = VolumeAfterDelete
  /\ Goto(s, "destroy_mark")
  /\ UNCHANGED <<row, pod, old, store, fails, dailyDone, nextWrite>>

(* One of the deletes raises: what was deleted stays deleted.              *)
DestroyDeleteFails(s) ==
  /\ At(s, "destroy_delete")
  /\ fin' \in {FALSE, fin}
  /\ kdep' \in {"absent", kdep}
  /\ Finish(s)
  /\ UNCHANGED <<row, pod, old, pvc, store, fails, dailyDone, nextWrite>>

PathAfterArchive_Fault(s) == archivePath
PathAfterArchive(s) == IF ses[s].tar # None THEN ses[s].tar ELSE archivePath

DestroyMark(s) ==
  /\ At(s, "destroy_mark")
  /\ archivePath' = PathAfterArchive(s)
  /\ SetStatus(s, "ARCHIVED")
  /\ Finish(s)
  /\ UNCHANGED <<idle, backupAt, kube, pvc, store, fails, dailyDone, nextWrite>>

-----------------------------------------------------------------------------
(* POST resume: no lock, no look at the status.                            *)

ResumeRead(s) ==
  /\ Start(s, "resume")
  /\ status # "PENDING"
  /\ Become(s, Begin("resume_scale", "none", status))
  /\ UNCHANGED <<row, kube, pvc, store, fails, dailyDone, nextWrite>>

ResumeScale(s) ==
  /\ At(s, "resume_scale")
  /\ \/ kdep # "absent" /\ kdep' = "one" /\ Goto(s, "resume_mark")
     \/ UNCHANGED kdep /\ Finish(s)          \* no Deployment: 409; error: 500
  /\ UNCHANGED <<row, pod, fin, old, pvc, store, fails, dailyDone, nextWrite>>

ResumeMark(s) ==
  /\ At(s, "resume_mark")
  /\ SetStatus(s, "RUNNING")
  /\ idle' = FALSE
  /\ Finish(s)
  /\ UNCHANGED <<backupAt, archivePath, kube, pvc, store, fails, dailyDone, nextWrite>>

-----------------------------------------------------------------------------
(* Drift correction: GET status and the 60 s sweep.                        *)

(* classify_drift; the status itself stands for "no change".               *)
ClassifyDrift(st, seen, hasBackup) ==
  CASE seen = "running"  -> "RUNNING"
    [] seen = "NotFound" -> IF st # "RUNNING" THEN st
                            ELSE IF hasBackup THEN "SUSPENDED" ELSE "FAILED"
    [] seen = "terminating" -> st
    [] OTHER -> IF st \in {"FAILED", "SUSPENDED", "ARCHIVED"} THEN st ELSE "FAILED"

PollRead(s) ==
  /\ Start(s, "poll")
  /\ status # "PENDING"
  /\ Become(s, Begin("poll_probe", "none", status))
  /\ UNCHANGED <<row, kube, pvc, store, fails, dailyDone, nextWrite>>

(* A DEPLOYING row changes only when the Pod is Ready; any other row is    *)
(* classified, with a backup taken for granted.  A failing API call comes  *)
(* back as phase "Error".                                                  *)
PollTarget(s, obs) ==
  IF ses[s].seen = "DEPLOYING"
    THEN IF obs = "running" /\ pod # "running" THEN "RUNNING" ELSE "DEPLOYING"
    ELSE ClassifyDrift(ses[s].seen, obs, TRUE)

Correct(s, obs, target) ==
  IF target = ses[s].seen
    THEN Finish(s)
    ELSE Become(s, [ses[s] EXCEPT !.pc = "drift_write", !.arg = target, !.plan = obs])

PollProbe(s) ==
  /\ At(s, "poll_probe")
  /\ \E obs \in {Observed, "error"} : Correct(s, obs, PollTarget(s, obs))
  /\ UNCHANGED <<row, kube, pvc, store, fails, dailyDone, nextWrite>>

SweepRead(s) ==
  /\ Round(s, "sweep")
  /\ status = "RUNNING"
  /\ Become(s, Begin("sweep_probe", "sweep", status))
  /\ UNCHANGED <<row, kube, pvc, store, fails, dailyDone, nextWrite>>

(* A running Pod counts as activity; where there is none the backups are   *)
(* consulted: a listing that fails means no backup, or ends the round.     *)
SweepProbe(s) ==
  /\ At(s, "sweep_probe")
  /\ \E obs \in {Observed, "error"}, hasBackup \in {Newest(daily) # None, FALSE} :
       /\ idle' = IF obs = "running" THEN FALSE ELSE idle
       /\ \/ Correct(s, obs, ClassifyDrift("RUNNING", obs, hasBackup))
          \/ obs = "NotFound" /\ Finish(s)
  /\ UNCHANGED <<status, backupAt, archivePath, kube, pvc, store, fails, dailyDone, nextWrite>>

(* reconcile_status commits the target over whatever the row holds now.    *)
DriftWrite(s) ==
  /\ At(s, "drift_write")
  /\ status' = ses[s].arg
  /\ Finish(s)
  /\ UNCHANGED <<idle, backupAt, archivePath, kube, pvc, store, fails, dailyDone, nextWrite>>

-----------------------------------------------------------------------------
(* Backups that take no lock: the daily snapshot and the finalizer loop.   *)

(* The date is marked done before the work; a failed tar is not retried.   *)
DailyTar(s) ==
  /\ Round(s, "daily")
  /\ ~dailyDone /\ dailyDone' = TRUE
  /\ \/ /\ status = "RUNNING" /\ CanExec
        /\ Become(s, [Begin("daily_save", "daily", status) EXCEPT !.tar = pvc])
     \/ UNCHANGED ses
  /\ UNCHANGED <<row, kube, pvc, store, fails, nextWrite>>

DailySave(s) ==
  /\ At(s, "daily_save")
  /\ SaveDaily(ses[s].tar) \/ PutDaily(ses[s].tar) \/ UNCHANGED store
  /\ Finish(s)
  /\ UNCHANGED <<row, kube, pvc, fails, dailyDone, nextWrite>>

(* remove_finalizer lets a Pod whose container is dead disappear.          *)
Release == old' = IF old = "alive" THEN "leaving"
                  ELSE IF old = "dead" THEN "none" ELSE old

FinalizerTar(s) ==
  /\ Round(s, "finalizer")
  /\ old = "alive" /\ pvc # None
  /\ Become(s, [Begin("final_save", "finalizer", "PENDING") EXCEPT !.tar = pvc])
  /\ UNCHANGED <<row, kube, pvc, store, fails, dailyDone, nextWrite>>

(* What raises is tried again by the next round.                           *)
FinalizerSave(s) ==
  /\ At(s, "final_save")
  /\ \/ SaveDaily(ses[s].tar) /\ (Release \/ UNCHANGED old)
     \/ (PutDaily(ses[s].tar) \/ UNCHANGED store) /\ UNCHANGED old
  /\ Finish(s)
  /\ UNCHANGED <<row, kdep, pod, fin, pvc, fails, dailyDone, nextWrite>>

Releasable_Fault == old = "alive"
Releasable == old \in {"alive", "dead"}

(* Container gone, or five minutes of failed backups: let the Pod go.      *)
FinalizerGiveUp ==
  /\ "finalizer" \in Ops /\ LoopIdle("finalizer")
  /\ Releasable
  /\ Release
  /\ UNCHANGED <<row, kdep, pod, fin, pvc, store, manager, nextWrite>>

DailyCleanup ==
  /\ "cleanup" \in Ops
  /\ daily.expired # None
  /\ daily' = [daily EXCEPT !.expired = None]
  /\ UNCHANGED <<row, kube, pvc, archives, saved, manager, nextWrite>>

-----------------------------------------------------------------------------
(* Kubernetes, the users, the operators and time.                          *)

KubeCreatesPod ==
  /\ kdep = "one" /\ pod = "none"
  /\ pod' = "starting" /\ fin' = TRUE
  /\ UNCHANGED <<row, kdep, old, pvc, store, manager, nextWrite>>

KubePodProgress ==
  /\ \/ pod = "starting" /\ pvc # None /\ pod' = "running"
     \/ pod = "running" /\ pod' = "ready"
  /\ UNCHANGED <<row, kdep, fin, old, pvc, store, manager, nextWrite>>

(* The Pod is deleted; the finalizer keeps the object (bound: one          *)
(* Terminating Pod at a time).                                             *)
TerminatePod ==
  /\ pod # "none" /\ old = "none"
  /\ pod' = "none" /\ fin' = FALSE
  /\ old' = CASE pod = "starting" /\ fin   -> "dead"
              [] pod = "starting" /\ ~fin  -> "none"
              [] pod # "starting" /\ fin   -> "alive"
              [] pod # "starting" /\ ~fin  -> "leaving"

KubeScalesDown ==
  /\ kdep # "one" /\ TerminatePod
  /\ UNCHANGED <<row, kdep, pvc, store, manager, nextWrite>>

(* Eviction, node drain, kubectl delete pod.                               *)
Evict ==
  /\ "evict" \in Ops /\ TerminatePod
  /\ UNCHANGED <<row, kdep, pvc, store, manager, nextWrite>>

(* A rolling update keeps a Ready Pod until its replacement is Ready.      *)
ReplacePod ==
  /\ pod = "ready" /\ old = "none"
  /\ old' = IF fin THEN "alive" ELSE "leaving"
  /\ fin' = TRUE
  /\ UNCHANGED pod

(* POST restart: roll the Pod out again, then note the activity.           *)
Restart ==
  /\ "restart" \in Ops
  /\ status # "PENDING" /\ kdep # "absent"
  /\ \/ kdep = "one" /\ ReplacePod
     \/ kdep = "one" /\ pod # "ready" /\ TerminatePod
     \/ (kdep = "zero" \/ pod = "none") /\ UNCHANGED <<pod, fin, old>>
  /\ idle' = FALSE
  /\ UNCHANGED <<status, backupAt, archivePath, kdep, pvc, store, manager, nextWrite>>

KubeContainerExits ==
  /\ \/ old = "alive" /\ old' = "dead"
     \/ old = "leaving" /\ old' = "none"
  /\ UNCHANGED <<row, kdep, pod, fin, pvc, store, manager, nextWrite>>

(* An operator deletes the Deployment; the PVC stays.                      *)
DeleteDeployment ==
  /\ "kubectl" \in Ops
  /\ kdep # "absent"
  /\ kdep' = "absent"
  /\ UNCHANGED <<row, pod, fin, old, pvc, store, manager, nextWrite>>

(* A conversation adds to the volume of a serving engine.                  *)
UserWrite ==
  /\ "write" \in Ops
  /\ pod = "ready" /\ pvc # None
  /\ nextWrite <= MaxWrites
  /\ pvc' = pvc \cup {nextWrite}
  /\ nextWrite' = nextWrite + 1
  /\ UNCHANGED <<row, kube, store, manager>>

(* Handlers, tasks and rounds take minutes at most, each await has a       *)
(* timeout: hours pass only while none of them works.                      *)
Resting == \A s \in Session : At(s, "idle") \/ ses[s].pc \in WaitPc

HalfHourPasses ==
  /\ "time" \in Ops /\ Resting
  /\ status = "RUNNING" /\ ~idle
  /\ idle' = TRUE
  /\ UNCHANGED <<status, backupAt, archivePath, kube, pvc, store, manager, nextWrite>>

DayPasses ==
  /\ "time" \in Ops /\ Resting
  /\ daily' = [daily EXCEPT !.today = None,
                 !.recent = IF daily.today # None THEN daily.today ELSE daily.recent]
  /\ backupAt' = IF backupAt = "fresh" THEN "old" ELSE backupAt
  /\ dailyDone' = FALSE
  /\ UNCHANGED <<status, idle, archivePath, kube, pvc, archives, saved, ses, fails, nextWrite>>

MonthPasses ==
  /\ "cleanup" \in Ops /\ Resting
  /\ daily.today # None \/ daily.recent # None
  /\ daily' = [today |-> None, recent |-> None, expired |-> Newest(daily)]
  /\ backupAt' = IF backupAt = "fresh" THEN "old" ELSE backupAt
  /\ dailyDone' = FALSE
  /\ UNCHANGED <<status, idle, archivePath, kube, pvc, archives, saved, ses, fails, nextWrite>>

(* The manager restarts: sessions, locks and module globals are gone.      *)
Crash ==
  /\ "crash" \in Ops
  /\ ses' = [s \in Session |-> Quiet]
  /\ fails' = 0 /\ dailyDone' = FALSE
  /\ UNCHANGED <<row, kube, pvc, store, nextWrite>>

-----------------------------------------------------------------------------
DeployStep(s) ==
  \/ DeployMark(s) \/ DeployCreate(s) \/ DeployCreateFails(s) \/ DeployPodRuns(s)
  \/ DeployTimesOut(s) \/ DeployRestore(s) \/ DeployRestoreFails(s)
  \/ DeployAbort(s) \/ DeployDone(s)

SuspendStep(s) ==
  SuspendBackup(s) \/ SuspendBackupFails(s) \/ SuspendMark(s) \/ SuspendScale(s)

DestroyStep(s) ==
  \/ DestroyArchive(s) \/ DestroyRefused(s) \/ DestroyDelete(s)
  \/ DestroyDeleteFails(s) \/ DestroyMark(s)

ResumeStep(s) == ResumeScale(s) \/ ResumeMark(s)
DriftStep(s)  == PollProbe(s) \/ SweepProbe(s) \/ DriftWrite(s)
BackupStep(s) == DailySave(s) \/ FinalizerSave(s)

LockStep(s)  == DeployLock(s) \/ SuspendLock(s) \/ DestroyLock(s)
WorkStep(s)  == DeployStep(s) \/ SuspendStep(s) \/ DestroyStep(s)
                  \/ ResumeStep(s) \/ DriftStep(s) \/ BackupStep(s)
StartStep(s) == DeployRead(s) \/ SuspendRead(s) \/ DestroyRead(s) \/ ResumeRead(s)
                  \/ PollRead(s) \/ SweepRead(s) \/ DailyTar(s) \/ FinalizerTar(s)

KubeStep == KubeCreatesPod \/ KubePodProgress \/ KubeScalesDown \/ KubeContainerExits

Environment ==
  \/ FinalizerGiveUp \/ DailyCleanup \/ Evict \/ Restart \/ DeleteDeployment \/ UserWrite
  \/ HalfHourPasses \/ DayPasses \/ MonthPasses \/ Crash

Next ==
  \/ \E s \in Session : StartStep(s) \/ LockStep(s) \/ WorkStep(s)
  \/ KubeStep
  \/ Environment

Spec == Init /\ [][Next]_vars

(* Every await returns (each call has a timeout), PostgreSQL grants the    *)
(* lock in turn, the kubelet and the finalizer loop keep going.            *)
Fairness ==
  /\ \A s \in Session : WF_vars(WorkStep(s)) /\ SF_vars(LockStep(s))
  /\ WF_vars(KubeCreatesPod) /\ WF_vars(KubeScalesDown) /\ WF_vars(KubeContainerExits)
  /\ WF_vars(KubePodProgress)
  /\ WF_vars(FinalizerGiveUp)

FairSpec == Spec /\ Fairness

=============================================================================
