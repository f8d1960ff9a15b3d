-------------------------- MODULE EngineProperties --------------------------
(***************************************************************************)
(* What the lifecycle of one engine promises about its volume, its         *)
(* backups and its row, and the inductive invariant behind it.             *)
(***************************************************************************)
EXTENDS EngineLifecycle

Held(v) == IF v = None THEN {} ELSE v

Backups == {daily.today, daily.recent, daily.expired} \ {None}

-----------------------------------------------------------------------------
(* Invariants.                                                             *)

(* While a deploy waits for its Pod, restores into it or hands it over,    *)
(* the volume it provisioned exists: no destroy takes it away in between   *)
(* (the advisory lock of lifecycle.py:262 and lifecycle_service.py:258).   *)
DeployKeepsVolume == \A s \in Session : ses[s].pc \in HoldsVolume => pvc # None

(* When volumes are reclaimed, an ARCHIVED engine has an archive to be     *)
(* deployed from again, whatever stale status a concurrent handler writes  *)
(* (lifecycle_service.py:291-318, README.md:119).                          *)
ArchivedHasPath == ReclaimPvc /\ status = "ARCHIVED" => archivePath # None

(* An ARCHIVED engine has no Deployment left to start a Pod on its volume  *)
(* (README.md:128): neither a deploy that read an older status nor a       *)
(* resume creates one behind the row's back.                               *)
ArchivedHasNoDeployment == status = "ARCHIVED" => kdep = "absent"

(* backup_at, which starts the 24 hours to destruction, is fresh only when *)
(* a backup of the day exists: the silent loss lifecycle_service.py:149-   *)
(* 153 tells of cannot come back.                                          *)
BackupAtMeansBackup == ~SkipBackup /\ backupAt = "fresh" => daily.today # None

(* What a backup once saved can still be found in the volume, in a daily   *)
(* backup or in an archive, as long as handlers and loops do not overlap.  *)
NoLostBackup == saved \subseteq Held(pvc) \cup UNION (Backups \cup archives)

-----------------------------------------------------------------------------
(* Action and temporal properties.                                         *)

(* The volume goes only in a destroy that has put a copy of the newest     *)
(* backup into the archives (lifecycle_service.py:286-296).                *)
VolumeGoesOnlyArchived ==
  [][pvc # None /\ pvc' = None =>
       \E s \in Session : At(s, "destroy_delete") /\ ses[s].tar \in archives]_vars

(* Whatever handlers, loops and failures do, a write leaves the volume in  *)
(* two ways only: a deploy that holds the lock puts a stored backup or an  *)
(* archive in its place, or a destroy that may reclaim the volume has      *)
(* archived a backup first.  Volumes that are kept (config.py:87-88)       *)
(* survive every suspend and destroy.                                      *)
WritesGoTwoWays ==
  [][~(Held(pvc) \subseteq Held(pvc')) =>
       \E s \in Session :
         \/ At(s, "deploy_restore") /\ pvc' \in Backups \cup archives
         \/ ReclaimPvc /\ At(s, "destroy_delete") /\ ses[s].tar \in archives]_vars

(* A deploy that the row announces settles, whoever else is at work: the   *)
(* row does not stay DEPLOYING, which would refuse every further deploy    *)
(* with 409 (lifecycle.py:199-201).                                        *)
DeploySettles == status = "DEPLOYING" ~> status # "DEPLOYING"

(* No Pod stays Terminating for good, whatever becomes of its backup       *)
(* (scheduler.py:78-86).                                                   *)
TerminatingPodGoes == old # "none" ~> old = "none"

Copier  == {s \in Session : ses[s].pc \in {"daily_save", "final_save"}}
Copying == {ses[s].tar : s \in Copier}

(* The lifecycle implements the vault.                                     *)
Vault == INSTANCE EngineVault WITH
  volume <- pvc, backups <- Backups, archive <- archives, copying <- Copying

KeepsTheVault == Vault!Spec

-----------------------------------------------------------------------------
(* The inductive invariant.                                                *)

LockHeldOnce ==
  \A s, t \in Session : ses[s].pc \in LockedPc /\ ses[t].pc \in LockedPc => s = t

(* Only a locked deploy body creates Deployments, each with its volume,    *)
(* and no destroy finishes under it.                                       *)
DeploymentOwned ==
  /\ kdep # "absent" => pvc # None
  /\ \A s \in Session : ses[s].pc \in DeployBody => status # "ARCHIVED"
  /\ \A s \in Session : ses[s].pc = "destroy_mark" => kdep = "absent"
  /\ ArchivedHasNoDeployment

(* What archive paths, restore plans and destroys point to is archived.    *)
ArchiveKnown ==
  /\ archivePath # None => archivePath \in archives
  /\ \A s \in Session :
       /\ ses[s].plan = "archive" => ses[s].tar \in archives
       /\ ses[s].pc \in {"destroy_lock", "destroy_archive"} => ses[s].tar = None
       /\ ses[s].pc \in {"destroy_delete", "destroy_mark"}
            => ses[s].tar \in archives \/ (ses[s].tar = None /\ ~ReclaimPvc)
       /\ ses[s].pc = "drift_write" => ses[s].arg # "ARCHIVED"
  /\ ArchivedHasPath

BackupKnown ==
  /\ \A s \in Session : ~SkipBackup /\ ses[s].pc = "suspend_mark" => daily.today # None
  /\ BackupAtMeansBackup

TarsTaken == \A s \in Session : ses[s].pc \in {"daily_save", "final_save"} => ses[s].tar # None

Safe == /\ LockHeldOnce /\ DeployKeepsVolume /\ DeploymentOwned
        /\ ArchiveKnown /\ BackupKnown /\ TarsTaken

IInv == TypeOK /\ Safe

=============================================================================
