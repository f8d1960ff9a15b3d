---------------------------- MODULE EngineRollout ----------------------------
(***************************************************************************)
(* ONE rollout of a new image to the engines (engine_rollout_service.py).  *)
(* create_rollout records which engines there are, in which status and     *)
(* with which image; a background task then patches the Deployments batch  *)
(* by batch, waits for the new Pods and commits each batch.  Meanwhile the *)
(* engines are suspended, woken up, destroyed and deployed, other rollouts *)
(* patch them, and the manager may die: nothing takes a rollout up again.  *)
(***************************************************************************)
EXTENDS Naturals, FiniteSets

CONSTANTS
  Engines,    \* the engines are numbered in the order of their names
  Image,      \* images
  Current,    \* get_engine_runtime: the image of a new Deployment
  BatchSizes, \* batch sizes an administrator may ask for
  MaxTouched, \* bound: engines that are redeployed or patched by others
  None

ASSUME RolloutAssumption ==
  /\ Engines \in Nat /\ BatchSizes \subseteq Nat \ {0}
  /\ MaxTouched \in Nat /\ Current \in Image /\ None \notin Image

VARIABLES
  row,      \* row[e]: status of the deployment row; RUNNING stands for all active ones
  template, \* template[e]: image in the Deployment of e, or None
  pod,      \* pod[e]: image of the ready Pod of e, or None
  rollout,  \* the row of engine_rollouts with its items
  task,     \* the request, then the background task, in memory
  touched,  \* engines whose Deployment others have changed since the rollout began
  unseen    \* engines called ready although the list of their Pods failed

kube == <<template, pod>>
vars == <<row, kube, rollout, task, touched, unseen>>

Engine == 1 .. Engines
Result == {"READY", "PATCHED", "FAILED", "SKIPPED"}

(* _empty_summary *)
Empty(total) == [k \in Result \cup {"total"} |-> IF k = "total" THEN total ELSE 0]

NoRollout == [status |-> "none", target |-> None, force |-> FALSE, size |-> 1,
              items |-> [e \in Engine |-> "none"],
              prev  |-> [e \in Engine |-> None],
              wait  |-> [e \in Engine |-> FALSE],
              summary |-> Empty(0)]

(* step[e]: what the task does next with the item of e.                    *)
NoTask == [pc |-> "idle", step |-> [e \in Engine |-> "none"],
           mem |-> [e \in Engine |-> "none"]]

Is(pc)      == task.pc = pc
Items       == {e \in Engine : rollout.items[e] # "none"}
Uncommitted == {e \in Items : rollout.items[e] = "PENDING"}
InHand      == {e \in Engine : task.step[e] \notin {"none", "todo"}}

Init ==
  /\ row \in [Engine -> {"RUNNING", "SUSPENDED", "ARCHIVED"}]
  /\ template \in [Engine -> Image \cup {None}]
  /\ \A e \in Engine : (row[e] = "ARCHIVED" => template[e] = None)
                       /\ (row[e] = "SUSPENDED" => template[e] # None)
  /\ pod = [e \in Engine |-> IF row[e] = "RUNNING" THEN template[e] ELSE None]
  /\ rollout = NoRollout /\ task = NoTask /\ touched = {} /\ unseen = {}

(***************************************************************************)
(* create_rollout                                                          *)
(***************************************************************************)
(* list_candidates: the statuses are read, every row but ARCHIVED counts.  *)
CreateRead ==
  /\ Is("idle") /\ rollout.status = "none"
  /\ \E image \in Image, f \in BOOLEAN, n \in BatchSizes :
       rollout' = [rollout EXCEPT !.status = "reading", !.target = image,
                     !.force = f, !.size = n,
                     !.items = [e \in Engine |->
                         IF row[e] = "ARCHIVED" THEN "none" ELSE "PENDING"],
                     !.wait = [e \in Engine |-> row[e] = "RUNNING"]]
  /\ task' = [task EXCEPT !.pc = "create"]
  /\ touched' = {} /\ unseen' = {}
  /\ UNCHANGED <<row, kube>>

(* The images are read from Kubernetes afterwards; a candidate without     *)
(* Deployment gets no item.                                                *)
Present_Fault == Items
Present       == {e \in Items : template[e] # None}

CreateCommit ==
  /\ Is("create")
  /\ rollout' = [rollout EXCEPT !.status = "RUNNING",
                   !.items = [e \in Engine |-> IF e \in Present THEN "PENDING" ELSE "none"],
                   !.prev = [e \in Engine |-> IF e \in Present THEN template[e] ELSE None],
                   !.summary = Empty(Cardinality(Present))]
  /\ task' = [task EXCEPT !.pc = "batch",
                !.step = [e \in Engine |-> IF e \in Present THEN "todo" ELSE "none"]]
  /\ UNCHANGED <<row, kube, touched, unseen>>

(***************************************************************************)
(* _run_rollout, _process_item                                             *)
(***************************************************************************)
Todo == {e \in Engine : task.step[e] = "todo"}

Batch_Fault == Todo
Batch       == {e \in Todo : Cardinality({f \in Todo : f < e}) < rollout.size}

StartBatch ==
  /\ Is("batch") /\ Todo # {}
  /\ task' = [task EXCEPT !.pc = "items",
                !.step = [e \in Engine |-> IF e \in Batch THEN "patch" ELSE @[e]]]
  /\ UNCHANGED <<row, kube, rollout, touched, unseen>>

ItemDone(e, result) ==
  task' = [task EXCEPT !.step[e] = "done", !.mem[e] = result]

(* The image was the target already, when the rollout was created.         *)
UpToDate_Fault(e) == ~ rollout.wait[e] /\ ~ rollout.force
UpToDate(e)       == rollout.prev[e] = rollout.target /\ ~ rollout.force

SkipItem(e) ==
  /\ Is("items") /\ task.step[e] = "patch" /\ UpToDate(e)
  /\ ItemDone(e, "SKIPPED")
  /\ UNCHANGED <<row, kube, rollout, touched, unseen>>

(* _patch_under_lock: no lifecycle operation on e is under way.  That the  *)
(* Deployment is gone is not noticed.                                      *)
PatchItem(e) ==
  /\ Is("items") /\ task.step[e] = "patch" /\ ~ UpToDate(e)
  /\ template' = [template EXCEPT ![e] = IF @ = None THEN None ELSE rollout.target]
  /\ IF rollout.wait[e]
     THEN task' = [task EXCEPT !.step[e] = "wait"]
     ELSE ItemDone(e, "PATCHED")
  /\ UNCHANGED <<row, pod, rollout, touched, unseen>>

PatchFails(e) ==
  /\ Is("items") /\ task.step[e] = "patch" /\ ~ UpToDate(e)
  /\ ItemDone(e, "FAILED")
  /\ UNCHANGED <<row, kube, rollout, touched, unseen>>

(* wait_deployment_ready: a ready Pod runs the target image.  The replica  *)
(* counts it also looks at may be those before the patch.  (That a         *)
(* selector has no match_labels does not occur: create_agent_engine_sync   *)
(* writes them.)                                                           *)
SeesTarget_Fault(e) == pod[e] # None
SeesTarget(e)       == pod[e] = rollout.target

WaitSucceeds(e) ==
  /\ Is("items") /\ task.step[e] = "wait"
  /\ template[e] # None /\ SeesTarget(e)
  /\ ItemDone(e, "READY")
  /\ UNCHANGED <<row, kube, rollout, touched, unseen>>

(* The list of the Pods fails: the replica counts decide alone, and they   *)
(* may be those before the patch, which the old Pod meets.  (Where the new *)
(* Pod is ready the step is WaitSucceeds.)                                 *)
WaitUnseen(e) ==
  /\ Is("items") /\ task.step[e] = "wait"
  /\ template[e] # None /\ ~ SeesTarget(e)
  /\ ItemDone(e, "READY")
  /\ unseen' = unseen \cup {e}
  /\ UNCHANGED <<row, kube, rollout, touched>>

(* The time runs out, the Deployment is gone (404), a call fails.          *)
WaitFails(e) ==
  /\ Is("items") /\ task.step[e] = "wait"
  /\ ItemDone(e, "FAILED")
  /\ UNCHANGED <<row, kube, rollout, touched, unseen>>

(* _tally over the batch, and the commit of its items with the summary.    *)
Counted_Fault(k) == {e \in InHand : task.mem[e] = k /\ rollout.wait[e]}
Counted(k)       == {e \in InHand : task.mem[e] = k}

CommitBatch ==
  /\ Is("items") /\ \A e \in InHand : task.step[e] = "done"
  /\ rollout' = [rollout EXCEPT
       !.items = [e \in Engine |-> IF e \in InHand THEN task.mem[e] ELSE @[e]],
       !.summary = [k \in DOMAIN @ |->
           IF k = "total" THEN @[k] ELSE @[k] + Cardinality(Counted(k))]]
  /\ task' = [task EXCEPT !.pc = "batch",
                !.step = [e \in Engine |-> IF e \in InHand THEN "none" ELSE @[e]],
                !.mem = [e \in Engine |-> "none"]]
  /\ UNCHANGED <<row, kube, touched, unseen>>

Finish ==
  /\ Is("batch") /\ Todo = {}
  /\ rollout' = [rollout EXCEPT !.status =
       IF rollout.summary["FAILED"] = rollout.summary["total"] /\ Items # {}
       THEN "FAILED" ELSE "FINISHED"]
  /\ task' = NoTask
  /\ UNCHANGED <<row, kube, touched, unseen>>

(* run_rollout catches what _run_rollout raises (a commit that fails).     *)
(* That its own commit fails too is a case of ManagerDies.                 *)
CrashedStatus_Fault == "RUNNING"
CrashedStatus       == "FAILED"

TaskRaises ==
  /\ task.pc \in {"batch", "items"} /\ \A e \in InHand : task.step[e] = "done"
  /\ rollout' = [rollout EXCEPT !.status = CrashedStatus]
  /\ task' = NoTask
  /\ UNCHANGED <<row, kube, touched, unseen>>

(* The manager dies.  interrupt_stale_rollouts has no caller.              *)
ManagerDies ==
  /\ ~ Is("idle")
  /\ IF Is("create") THEN rollout' = NoRollout /\ task' = NoTask
     ELSE task' = [NoTask EXCEPT !.pc = "dead"] /\ UNCHANGED rollout
  /\ UNCHANGED <<row, kube, touched, unseen>>

(***************************************************************************)
(* The rest of the manager, and Kubernetes.                                *)
(***************************************************************************)
Suspend(e) ==
  /\ row[e] = "RUNNING"
  /\ row' = [row EXCEPT ![e] = "SUSPENDED"] /\ pod' = [pod EXCEPT ![e] = None]
  /\ UNCHANGED <<template, rollout, task, touched, unseen>>

(* Somebody else changes the Deployment of e.                              *)
Touch(e) ==
  /\ touched' = touched \cup {e} /\ Cardinality(touched') <= MaxTouched
  /\ UNCHANGED <<rollout, task, unseen>>

(* delete_agent_engine *)
Destroy(e) ==
  /\ row[e] # "ARCHIVED"
  /\ row' = [row EXCEPT ![e] = "ARCHIVED"]
  /\ template' = [template EXCEPT ![e] = None] /\ pod' = [pod EXCEPT ![e] = None]
  /\ Touch(e)

(* create_agent_engine: a new Deployment, or (409) the old one patched.    *)
Deploy(e) ==
  /\ row' = [row EXCEPT ![e] = "RUNNING"]
  /\ template' = [template EXCEPT ![e] = Current]
  /\ Touch(e) /\ UNCHANGED pod

RivalPatch(e) ==
  /\ template[e] # None
  /\ \E image \in Image : template' = [template EXCEPT ![e] = image]
  /\ Touch(e) /\ UNCHANGED <<row, pod>>

Resume(e) ==
  /\ row[e] = "SUSPENDED"
  /\ row' = [row EXCEPT ![e] = "RUNNING"]
  /\ UNCHANGED <<kube, rollout, task, touched, unseen>>

(* A Pod of the template becomes ready, in place of an older one.          *)
PodReady(e) ==
  /\ row[e] = "RUNNING" /\ template[e] # None /\ pod[e] # template[e]
  /\ pod' = [pod EXCEPT ![e] = template[e]]
  /\ UNCHANGED <<row, template, rollout, task, touched, unseen>>

PodFails(e) ==
  /\ pod[e] # None /\ pod' = [pod EXCEPT ![e] = None]
  /\ UNCHANGED <<row, template, rollout, task, touched, unseen>>

(***************************************************************************)
(* Specification                                                           *)
(***************************************************************************)
ItemStep(e) == \/ SkipItem(e) \/ PatchItem(e) \/ PatchFails(e)
               \/ WaitSucceeds(e) \/ WaitUnseen(e) \/ WaitFails(e)
TaskStep == StartBatch \/ CommitBatch \/ Finish
LifeStep(e) == Suspend(e) \/ Resume(e) \/ Destroy(e) \/ Deploy(e) \/ RivalPatch(e)
PodStep(e)  == PodReady(e) \/ PodFails(e)

Next ==
  \/ CreateRead \/ CreateCommit \/ TaskStep \/ TaskRaises \/ ManagerDies
  \/ \E e \in Engine : ItemStep(e) \/ LifeStep(e) \/ PodStep(e)

Spec == Init /\ [][Next]_vars

(* The event loop runs the task on; the lock is released by whoever holds  *)
(* it; every wait has a deadline.                                          *)
FairSpec ==
  /\ Spec
  /\ WF_vars(TaskStep)
  /\ \A e \in Engine : WF_vars(ItemStep(e))
=============================================================================
