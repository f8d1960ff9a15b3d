---------------------------- MODULE RolloutProofs ----------------------------
(***************************************************************************)
(* A rollout over any number of engines, images and batch sizes: its       *)
(* types, what its results mean, that its record adds up, and how far the  *)
(* record may be behind.                                                   *)
(***************************************************************************)
EXTENDS RolloutProperties, FiniteSetTheorems, TLAPS

(***************************************************************************)
(* The invariant                                                           *)
(***************************************************************************)
Working == task.pc \in {"batch", "items"}

(* The state of the rollout and the place of its task go together.         *)
InStep ==
  /\ rollout.status = "reading" <=> task.pc = "create"
  /\ Working => rollout.status = "RUNNING"
  /\ rollout.status = "none" => task.pc = "idle"

(* What the record says of an engine, and what the task holds of it.       *)
Recorded(e) ==
  /\ row[e] = "ARCHIVED" => template[e] = None
  /\ rollout.status = "none" => rollout.items[e] = "none"
  /\ rollout.status = "reading" => rollout.items[e] \in {"none", "PENDING"}
  /\ rollout.status = "FINISHED" => rollout.items[e] # "PENDING"
  /\ task.step[e] # "none" => Working /\ rollout.items[e] = "PENDING"
  /\ Working /\ rollout.items[e] = "PENDING" => task.step[e] # "none"
  /\ task.pc = "batch" => task.step[e] \in {"none", "todo"}
  /\ task.step[e] = "done" => task.mem[e] \in Result

(* What holds of the Deployment and the Pod of an engine that nobody else  *)
(* has changed since the rollout began, from its listing to its result.    *)
Reached(e) == template[e] \in {None, rollout.target}
Serves(e)  == pod[e] \in {None, rollout.target}
Ready(e)   == rollout.items[e] = "READY" \/ (task.step[e] = "done" /\ task.mem[e] = "READY")

Followed(e) ==
  /\ rollout.status # "none" /\ rollout.items[e] = "none" => template[e] = None
  /\ task.step[e] \in {"todo", "patch"} => template[e] = rollout.prev[e]
  /\ task.step[e] = "wait" => Reached(e)
  /\ task.step[e] = "done" /\ task.mem[e] # "FAILED" => Reached(e)
  /\ rollout.items[e] \in {"READY", "PATCHED", "SKIPPED"} => Reached(e)
  /\ Ready(e) /\ e \notin unseen => Serves(e)

IInv == /\ TypeOK /\ InStep
        /\ \A e \in Engine : Recorded(e)
        /\ \A e \in Engine \ touched : Followed(e)

(***************************************************************************)
(* Sets of engines                                                         *)
(***************************************************************************)
LEMMA EnginesCount ==
  ASSUME NEW S \in SUBSET Engine
  PROVE  IsFiniteSet(S) /\ Cardinality(S) \in Nat
<1>1. IsFiniteSet(Engine)
  BY FS_Interval, RolloutAssumption DEF Engine
<1>2. IsFiniteSet(S)
  BY <1>1, FS_Subset
<1> QED BY <1>2, FS_CardinalityType

LEMMA EmptySummary ==
  ASSUME NEW n \in Nat PROVE Empty(n) \in [Result \cup {"total"} -> Nat]
BY DEF Empty

(***************************************************************************)
(* Types                                                                   *)
(***************************************************************************)
KubeOK == /\ row \in [Engine -> {"RUNNING", "SUSPENDED", "ARCHIVED"}]
          /\ template \in [Engine -> Image \cup {None}]
          /\ pod \in [Engine -> Image \cup {None}]
          /\ touched \subseteq Engine /\ unseen \subseteq Engine
TaskOK == task \in TaskType
RolloutOK == /\ rollout \in RolloutType
             /\ rollout.status # "reading" => \A e \in Items : rollout.prev[e] # None

LEMMA TypeParts == TypeOK <=> KubeOK /\ TaskOK /\ RolloutOK
BY DEF TypeOK, KubeOK, TaskOK, RolloutOK

LEMMA NothingTyped == NoRollout \in RolloutType /\ NoTask \in TaskType
<1>1. Empty(0) \in [Result \cup {"total"} -> Nat]
  BY EmptySummary
<1> QED BY <1>1 DEF NoRollout, NoTask, RolloutType, TaskType

LEMMA InitHolds == Init => IInv
<1> SUFFICES ASSUME Init PROVE IInv
  OBVIOUS
<1>1. rollout.status = "none" /\ rollout.items = [e \in Engine |-> "none"]
  BY DEF Init, NoRollout
<1>2. task.pc = "idle" /\ task.step = [e \in Engine |-> "none"] /\ Items = {}
  BY <1>1 DEF Init, NoTask, Items
<1>3. TypeOK
  <2>1. KubeOK
    BY DEF Init, KubeOK
  <2>2. TaskOK /\ RolloutOK
    BY NothingTyped, <1>2 DEF Init, TaskOK, RolloutOK
  <2> QED BY <2>1, <2>2, TypeParts
<1>4. InStep
  BY <1>1, <1>2 DEF InStep, Working
<1>5. \A e \in Engine : Recorded(e) /\ Followed(e)
  BY <1>1, <1>2 DEF Init, Recorded, Followed, Ready, Working
<1> QED BY <1>3, <1>4, <1>5 DEF IInv

(***************************************************************************)
(* The request                                                             *)
(***************************************************************************)
LEMMA CreateReadKeeps == ASSUME IInv, CreateRead PROVE IInv'
<1> USE DEF CreateRead, Is
<1>1. PICK image \in Image, f \in BOOLEAN, n \in BatchSizes :
        rollout' = [rollout EXCEPT !.status = "reading", !.target = image,
                      !.force = f, !.size = n,
                      !.items = [e \in Engine |->
                          IF row[e] = "ARCHIVED" THEN "none" ELSE "PENDING"],
                      !.wait = [e \in Engine |-> row[e] = "RUNNING"]]
  OBVIOUS
<1>2. KubeOK /\ TaskOK /\ rollout \in RolloutType /\ n \in Nat \ {0}
  BY RolloutAssumption, TypeParts DEF IInv, RolloutOK
<1>3. rollout' \in RolloutType /\ rollout'.status = "reading"
  BY <1>1, <1>2 DEF RolloutType, KubeOK
<1>4. TypeOK'
  <2>1. KubeOK' /\ TaskOK'
    BY <1>2 DEF KubeOK, TaskOK, TaskType, kube
  <2> QED BY <2>1, <1>3 DEF TypeOK, KubeOK, TaskOK
<1>5. task'.pc = "create" /\ task'.step = task.step /\ task'.mem = task.mem
  BY <1>2 DEF TaskOK, TaskType
<1>6. rollout'.items = [e \in Engine |-> IF row[e] = "ARCHIVED" THEN "none" ELSE "PENDING"]
  BY <1>1, <1>2 DEF RolloutType
<1>7. InStep'
  BY <1>3, <1>5 DEF InStep, Working
<1>8. ASSUME NEW e \in Engine PROVE Recorded(e)' /\ Followed(e)'
  <2>1. Recorded(e) /\ task.step[e] = "none"
    BY DEF IInv, Recorded, Working
  <2> QED BY <2>1, <1>3, <1>5, <1>6 DEF Recorded, Followed, Ready, Working, kube
<1> QED BY <1>4, <1>7, <1>8 DEF IInv

LEMMA CreateCommitKeeps == ASSUME IInv, CreateCommit PROVE IInv'
<1> USE DEF CreateCommit, Is
<1>1. KubeOK /\ TaskOK /\ rollout \in RolloutType
  BY TypeParts DEF IInv, RolloutOK
<1>2. Present \subseteq Items /\ Items \subseteq Engine
  BY DEF Present, Items
<1>3. Empty(Cardinality(Present)) \in [Result \cup {"total"} -> Nat]
  BY <1>2, EnginesCount, EmptySummary
<1>4. /\ rollout'.status = "RUNNING"
      /\ rollout'.items = [e \in Engine |-> IF e \in Present THEN "PENDING" ELSE "none"]
      /\ rollout'.prev = [e \in Engine |-> IF e \in Present THEN template[e] ELSE None]
      /\ rollout'.target = rollout.target
      /\ rollout' \in RolloutType
  BY <1>1, <1>3 DEF RolloutType, KubeOK
<1>5. /\ task'.pc = "batch" /\ task' \in TaskType
      /\ task'.step = [e \in Engine |-> IF e \in Present THEN "todo" ELSE "none"]
  BY <1>1 DEF TaskOK, TaskType
<1>6. TypeOK'
  <2>1. KubeOK' /\ TaskOK'
    BY <1>1, <1>5 DEF KubeOK, TaskOK, kube
  <2>2. RolloutOK'
    BY <1>4, <1>2 DEF RolloutOK, Items, Present
  <2> QED BY <2>1, <2>2 DEF TypeOK, KubeOK, TaskOK, RolloutOK
<1>7. InStep'
  BY <1>4, <1>5 DEF InStep, Working
<1>8. ASSUME NEW e \in Engine PROVE Recorded(e)'
  <2>1. Recorded(e)
    BY DEF IInv
  <2> QED BY <2>1, <1>4, <1>5 DEF Recorded, Working, kube, Result
<1>9. ASSUME NEW e \in Engine \ touched' PROVE Followed(e)'
  <2>1. Followed(e) /\ rollout.status = "reading"
    BY DEF IInv, InStep
  <2>2. CASE e \in Present
    BY <2>2, <1>4, <1>5 DEF Followed, Ready, kube
  <2>3. CASE e \notin Present
    BY <2>1, <2>3, <1>4, <1>5 DEF Followed, Ready, Present, Items, kube
  <2> QED BY <2>2, <2>3
<1> QED BY <1>6, <1>7, <1>8, <1>9 DEF IInv

(***************************************************************************)
(* The items: a step of one engine's item, its Deployment and its result   *)
(***************************************************************************)
ItemMoves(e, step, result) ==
  task' = [task EXCEPT !.step[e] = step, !.mem[e] = result]

LEMMA ItemTyped ==
  ASSUME TaskOK, NEW e \in Engine, NEW step \in {"wait", "done"},
         NEW result \in Result \cup {"none"}, ItemMoves(e, step, result)
  PROVE  /\ TaskOK' /\ task'.pc = task.pc
         /\ task'.step[e] = step /\ task'.mem[e] = result
         /\ \A f \in Engine \ {e} : task'.step[f] = task.step[f] /\ task'.mem[f] = task.mem[f]
BY DEF TaskOK, TaskType, ItemMoves

LEMMA ItemKeeps ==
  ASSUME IInv, NEW e \in Engine, Is("items"), task.step[e] \in {"patch", "wait"},
         NEW step \in {"wait", "done"}, NEW result \in Result \cup {"none"},
         ItemMoves(e, step, result), step = "done" => result \in Result,
         UNCHANGED <<row, pod, rollout, touched>>, unseen' \in {unseen, unseen \cup {e}},
         \/ template' = template
         \/ template' = [template EXCEPT ![e] = IF @ = None THEN None ELSE rollout.target],
         e \notin touched /\ (step = "wait" \/ result # "FAILED") => Reached(e)',
         e \notin touched \cup unseen' /\ step = "done" /\ result = "READY" => Serves(e)
  PROVE  IInv'
<1>1. KubeOK /\ TaskOK /\ RolloutOK /\ Working /\ Recorded(e) /\ InStep
  BY TypeParts DEF IInv, Is, Working
<1>2. TaskOK' /\ task'.pc = task.pc /\ task'.step[e] = step /\ task'.mem[e] = result
  BY <1>1, ItemTyped
<1>3. \A f \in Engine \ {e} : task'.step[f] = task.step[f] /\ task'.mem[f] = task.mem[f]
  BY <1>1, ItemTyped
<1>4. rollout.status = "RUNNING" /\ rollout.target \in Image \cup {None}
  BY <1>1 DEF InStep, RolloutOK, RolloutType
<1>5. TypeOK'
  <2>1. KubeOK'
    BY <1>1, <1>4 DEF KubeOK
  <2> QED BY <2>1, <1>1, <1>2 DEF TypeOK, KubeOK, TaskOK, RolloutOK, Items
<1>6. InStep'
  BY <1>1, <1>2 DEF InStep, Working
<1>7. \A f \in Engine \ {e} : template'[f] = template[f]
  BY <1>1 DEF KubeOK
<1>8. template[e] = None => template'[e] = None
  BY <1>1 DEF KubeOK
<1>9. ASSUME NEW f \in Engine PROVE Recorded(f)'
  <2>1. Recorded(f)
    BY DEF IInv
  <2> QED BY <2>1, <1>1, <1>2, <1>3, <1>7, <1>8, <1>4 DEF Recorded, Working, Is
<1>10. ASSUME NEW f \in Engine \ touched' PROVE Followed(f)'
  <2>1. Followed(f)
    BY DEF IInv
  <2>2. CASE f # e
    BY <2>1, <2>2, <1>2, <1>3, <1>7 DEF Followed, Reached, Serves, Ready
  <2>3. CASE f = e
    <3>1. rollout.items[e] = "PENDING"
      BY <1>1 DEF Recorded
    <3>2. e \notin touched
      BY <2>3
    <3>3. step = "wait" \/ result # "FAILED" => Reached(e)'
      BY <3>2
    <3>4. step = "done" /\ result = "READY" /\ e \notin unseen' => Serves(e)'
      BY <3>2 DEF Serves
    <3> QED BY <2>3, <3>1, <3>3, <3>4, <1>2, <1>4 DEF Followed, Ready
  <2> QED BY <2>2, <2>3
<1> QED BY <1>5, <1>6, <1>9, <1>10 DEF IInv

LEMMA ItemStepKeeps == ASSUME IInv, NEW e \in Engine, ItemStep(e) PROVE IInv'
<1>1. KubeOK /\ TaskOK /\ RolloutOK /\ Recorded(e)
  BY TypeParts DEF IInv
<1>2. e \notin touched => Followed(e)
  BY DEF IInv
<1>3. task.mem[e] \in Result \cup {"none"}
  BY <1>1 DEF TaskOK, TaskType
<1>4. "done" \in {"wait", "done"} /\ "wait" \in {"wait", "done"}
      /\ Result \subseteq Result \cup {"none"}
      /\ {"READY", "PATCHED", "FAILED", "SKIPPED"} \subseteq Result
  BY DEF Result
<1>5. CASE SkipItem(e)
  <2>1. ItemMoves(e, "done", "SKIPPED") /\ Is("items") /\ task.step[e] = "patch"
    BY <1>5 DEF SkipItem, ItemDone, ItemMoves
  <2>2. UNCHANGED <<row, template, pod, rollout, touched, unseen>>
    BY <1>5 DEF SkipItem, kube
  <2>3. e \notin touched => Reached(e)'
    BY <1>2, <1>5, <2>1, <2>2 DEF SkipItem, UpToDate, Followed, Reached
  <2> QED BY <1>4, <2>1, <2>2, <2>3, ItemKeeps
<1>6. CASE PatchItem(e)
  <2>1. /\ Is("items") /\ task.step[e] = "patch" /\ UNCHANGED <<row, pod, rollout, touched, unseen>>
        /\ template' = [template EXCEPT ![e] = IF @ = None THEN None ELSE rollout.target]
    BY <1>6 DEF PatchItem
  <2>2. Reached(e)'
    BY <1>1, <2>1 DEF Reached, KubeOK
  <2>3. CASE rollout.wait[e]
    <3>1. ItemMoves(e, "wait", task.mem[e])
      <4>1. task' = [task EXCEPT !.step[e] = "wait"]
        BY <1>6, <2>3 DEF PatchItem
      <4>2. task.mem = [task.mem EXCEPT ![e] = task.mem[e]]
        BY <1>1 DEF TaskOK, TaskType
      <4>3. task = [pc |-> task.pc, step |-> task.step, mem |-> task.mem]
        BY <1>1 DEF TaskOK, TaskType
      <4> QED BY <4>1, <4>2, <4>3 DEF ItemMoves
    <3> QED BY <1>3, <1>4, <2>1, <2>2, <3>1, ItemKeeps
  <2>4. CASE ~ rollout.wait[e]
    <3>1. ItemMoves(e, "done", "PATCHED")
      BY <1>6, <2>4 DEF PatchItem, ItemDone, ItemMoves
    <3> QED BY <1>4, <2>1, <2>2, <3>1, ItemKeeps
  <2> QED BY <2>3, <2>4
<1>7. CASE PatchFails(e) \/ WaitFails(e)
  <2>1. /\ Is("items") /\ task.step[e] \in {"patch", "wait"}
        /\ UNCHANGED <<row, template, pod, rollout, touched, unseen>>
        /\ ItemMoves(e, "done", "FAILED")
    BY <1>7 DEF PatchFails, WaitFails, ItemDone, ItemMoves, kube
  <2> QED BY <1>4, <2>1, ItemKeeps
<1>8. CASE WaitSucceeds(e)
  <2>1. /\ Is("items") /\ task.step[e] = "wait"
        /\ UNCHANGED <<row, template, pod, rollout, touched, unseen>>
        /\ ItemMoves(e, "done", "READY")
    BY <1>8 DEF WaitSucceeds, ItemDone, ItemMoves, kube
  <2>2. Serves(e)
    BY <1>8 DEF WaitSucceeds, SeesTarget, Serves
  <2>3. e \notin touched => Reached(e)'
    BY <1>2, <2>1 DEF Followed, Reached
  <2> QED BY <1>4, <2>1, <2>2, <2>3, ItemKeeps
<1>9. CASE WaitUnseen(e)
  <2>1. /\ Is("items") /\ task.step[e] = "wait" /\ template' = template
        /\ UNCHANGED <<row, pod, rollout, touched>> /\ unseen' = unseen \cup {e}
        /\ ItemMoves(e, "done", "READY")
    BY <1>9 DEF WaitUnseen, ItemDone, ItemMoves, kube
  <2>2. e \notin touched => Reached(e)'
    BY <1>2, <2>1 DEF Followed, Reached
  <2>3. e \in unseen'
    BY <2>1
  <2> QED BY <1>4, <2>1, <2>2, <2>3, ItemKeeps
<1> QED BY <1>5, <1>6, <1>7, <1>8, <1>9 DEF ItemStep

(***************************************************************************)
(* The batches                                                             *)
(***************************************************************************)
LEMMA StartBatchKeeps == ASSUME IInv, StartBatch PROVE IInv'
<1> USE DEF StartBatch, Is
<1>1. KubeOK /\ TaskOK /\ RolloutOK /\ InStep
  BY TypeParts DEF IInv
<1>2. /\ task' \in TaskType /\ task'.pc = "items" /\ task'.mem = task.mem
      /\ task'.step = [e \in Engine |-> IF e \in Batch THEN "patch" ELSE task.step[e]]
  BY <1>1 DEF TaskOK, TaskType
<1>3. TypeOK'
  BY <1>1, <1>2 DEF TypeOK, KubeOK, RolloutOK, Items, kube
<1>4. InStep'
  BY <1>1, <1>2 DEF InStep, Working
<1>5. \A e \in Batch : e \in Engine /\ task.step[e] = "todo"
  BY DEF Batch, Todo
<1>6. \A e \in Engine : Recorded(e)'
  BY <1>2, <1>5 DEF IInv, Recorded, Working, kube
<1>7. \A e \in Engine \ touched' : Followed(e)'
  BY <1>2, <1>5 DEF IInv, Followed, Reached, Serves, Ready, kube
<1> QED BY <1>3, <1>4, <1>6, <1>7 DEF IInv

LEMMA CommitBatchKeeps == ASSUME IInv, CommitBatch PROVE IInv'
<1> USE DEF CommitBatch, Is
<1>1. KubeOK /\ TaskOK /\ RolloutOK /\ InStep
  BY TypeParts DEF IInv
<1>2. /\ task' \in TaskType /\ task'.pc = "batch"
      /\ task'.step = [e \in Engine |-> IF e \in InHand THEN "none" ELSE task.step[e]]
      /\ task'.mem = [e \in Engine |-> "none"]
  BY <1>1 DEF TaskOK, TaskType
<1>3. \A e \in InHand : /\ e \in Engine /\ task.step[e] = "done"
                        /\ task.mem[e] \in Result /\ rollout.items[e] = "PENDING"
  BY DEF IInv, InHand, Recorded
<1>4. \A k \in Result : Cardinality(Counted(k)) \in Nat
  <2>1. \A k : Counted(k) \subseteq Engine
    BY DEF Counted, InHand
  <2> QED BY <2>1, EnginesCount
<1>5. /\ rollout'.items = [e \in Engine |-> IF e \in InHand THEN task.mem[e]
                                            ELSE rollout.items[e]]
      /\ rollout'.status = rollout.status /\ rollout'.prev = rollout.prev
      /\ rollout'.target = rollout.target
  BY <1>1 DEF RolloutOK, RolloutType
<1>6. rollout' \in RolloutType
  <2>1. DOMAIN rollout.summary = Result \cup {"total"}
    BY <1>1 DEF RolloutOK, RolloutType
  <2>2. [k \in DOMAIN rollout.summary |->
           IF k = "total" THEN rollout.summary[k]
           ELSE rollout.summary[k] + Cardinality(Counted(k))]
          \in [Result \cup {"total"} -> Nat]
    BY <1>1, <1>4, <2>1 DEF RolloutOK, RolloutType
  <2>3. [e \in Engine |-> IF e \in InHand THEN task.mem[e] ELSE rollout.items[e]]
          \in [Engine -> Result \cup {"none", "PENDING"}]
    BY <1>1, <1>3 DEF RolloutOK, RolloutType
  <2> QED BY <1>1, <2>2, <2>3 DEF RolloutOK, RolloutType
<1>7. Items' = Items
  BY <1>3, <1>5 DEF Items, Result
<1>8. TypeOK'
  BY <1>1, <1>2, <1>5, <1>6, <1>7 DEF TypeOK, KubeOK, RolloutOK, kube
<1>9. InStep'
  BY <1>1, <1>2, <1>5 DEF InStep, Working
<1>10. ASSUME NEW e \in Engine PROVE Recorded(e)'
  <2>1. Recorded(e)
    BY DEF IInv
  <2>2. CASE e \in InHand
    BY <1>1, <1>2, <1>3, <1>5, <2>1, <2>2 DEF Recorded, Working, InStep, kube, Result
  <2>3. CASE e \notin InHand
    BY <1>1, <1>2, <1>5, <2>1, <2>3 DEF Recorded, Working, InStep, InHand, kube
  <2> QED BY <2>2, <2>3
<1>11. ASSUME NEW e \in Engine \ touched' PROVE Followed(e)'
  <2>1. Followed(e)
    BY DEF IInv
  <2>2. CASE e \in InHand
    BY <1>2, <1>3, <1>5, <2>1, <2>2 DEF Followed, Reached, Serves, Ready, kube, Result
  <2>3. CASE e \notin InHand
    BY <1>2, <1>5, <2>1, <2>3 DEF Followed, Reached, Serves, Ready, InHand, kube
  <2> QED BY <2>2, <2>3
<1> QED BY <1>8, <1>9, <1>10, <1>11 DEF IInv

(* The task ends, one way or the other, and leaves the items as they are.  *)
LEMMA TaskEnds ==
  ASSUME IInv, NEW status \in {"RUNNING", "FINISHED", "FAILED"}, Working \/ Is("dead"),
         rollout' = [rollout EXCEPT !.status = status],
         task' = NoTask \/ task' = [NoTask EXCEPT !.pc = "dead"],
         status = "FINISHED" => \A e \in Engine : rollout.items[e] # "PENDING",
         rollout.status \notin {"none", "reading"}, UNCHANGED <<row, kube, touched, unseen>>
  PROVE  IInv'
<1>1. KubeOK /\ TaskOK /\ RolloutOK /\ InStep
  BY TypeParts DEF IInv
<1>2. /\ task' \in TaskType /\ task'.pc \in {"idle", "dead"}
      /\ task'.step = [e \in Engine |-> "none"]
  BY NothingTyped DEF NoTask, TaskType
<1>3. /\ rollout' \in RolloutType /\ rollout'.status = status
      /\ rollout'.items = rollout.items /\ rollout'.prev = rollout.prev
      /\ rollout'.target = rollout.target
  BY <1>1 DEF RolloutOK, RolloutType
<1>4. TypeOK'
  BY <1>1, <1>2, <1>3 DEF TypeOK, KubeOK, RolloutOK, Items, kube
<1>5. InStep'
  BY <1>2, <1>3 DEF InStep, Working
<1>6. \A e \in Engine : Recorded(e)'
  BY <1>2, <1>3 DEF IInv, Recorded, Working, kube
<1>7. \A e \in Engine \ touched' : Followed(e)'
  BY <1>2, <1>3 DEF IInv, Followed, Reached, Serves, Ready, kube
<1> QED BY <1>4, <1>5, <1>6, <1>7 DEF IInv

LEMMA TaskEndKeeps == ASSUME IInv, Finish \/ TaskRaises \/ ManagerDies PROVE IInv'
<1>1. TaskOK /\ RolloutOK /\ InStep /\ \A e \in Engine : Recorded(e)
  BY TypeParts DEF IInv
<1>2. Working => rollout.status \notin {"none", "reading"} /\ rollout.status = "RUNNING"
  BY <1>1 DEF InStep
<1>3. CASE Finish
  <2>1. PICK status \in {"FINISHED", "FAILED"} :
          rollout' = [rollout EXCEPT !.status = status]
    BY <1>3 DEF Finish
  <2>2. Working /\ \A e \in Engine : rollout.items[e] # "PENDING"
    BY <1>1, <1>3 DEF Finish, Is, Working, Recorded, Todo
  <2> QED BY <1>2, <1>3, <2>1, <2>2, TaskEnds DEF Finish
<1>4. CASE TaskRaises
  <2>1. Working
    BY <1>4 DEF TaskRaises, Working
  <2> QED BY <1>2, <1>4, <2>1, TaskEnds DEF TaskRaises, CrashedStatus
<1>5. CASE ManagerDies
  <2>1. CASE Is("create")
    <3>1. /\ rollout' = NoRollout /\ task' = NoTask
          /\ UNCHANGED <<row, template, pod, touched, unseen>>
      BY <1>5, <2>1 DEF ManagerDies, kube
    <3>2. /\ rollout'.status = "none" /\ rollout'.items = [e \in Engine |-> "none"]
          /\ task'.pc = "idle" /\ task'.step = [e \in Engine |-> "none"]
      BY <3>1 DEF NoRollout, NoTask
    <3>3. TypeOK'
      BY <3>1, <3>2, NothingTyped DEF IInv, TypeOK, Items
    <3>4. InStep'
      BY <3>2 DEF InStep, Working
    <3>5. \A e \in Engine : Recorded(e)' /\ Followed(e)'
      BY <1>1, <3>1, <3>2 DEF Recorded, Followed, Ready, Working
    <3> QED BY <3>3, <3>4, <3>5 DEF IInv
  <2>2. CASE ~ Is("create")
    <3>1. rollout.status \in {"RUNNING", "FINISHED", "FAILED"}
      BY <1>1, <1>5, <2>2 DEF ManagerDies, Is, InStep, RolloutOK, RolloutType
    <3>2. rollout' = [rollout EXCEPT !.status = rollout.status]
      BY <1>1, <1>5, <2>2 DEF ManagerDies, RolloutOK, RolloutType
    <3>3. Working \/ Is("dead")
      BY <1>1, <1>5, <2>2 DEF ManagerDies, Is, Working, TaskOK, TaskType
    <3>4. rollout.status = "FINISHED" => \A e \in Engine : rollout.items[e] # "PENDING"
      BY <1>1 DEF Recorded
    <3>5. task' = [NoTask EXCEPT !.pc = "dead"] /\ UNCHANGED <<row, kube, touched, unseen>>
      BY <1>5, <2>2 DEF ManagerDies
    <3> QED BY <3>1, <3>2, <3>3, <3>4, <3>5, TaskEnds
  <2> QED BY <2>1, <2>2
<1> QED BY <1>3, <1>4, <1>5

(***************************************************************************)
(* The rest of the manager, and Kubernetes                                 *)
(***************************************************************************)
LEMMA OthersKeep ==
  ASSUME IInv, NEW e \in Engine, LifeStep(e) \/ PodStep(e)
  PROVE  IInv'
<1>1. KubeOK /\ TaskOK /\ RolloutOK /\ InStep /\ Recorded(e)
  BY TypeParts DEF IInv
<1>2. UNCHANGED <<rollout, task, unseen>>
  BY DEF LifeStep, PodStep, Suspend, Resume, Destroy, Deploy, RivalPatch, PodReady,
         PodFails, Touch
<1>3. KubeOK'
  BY <1>1, RolloutAssumption DEF KubeOK, LifeStep, PodStep, Suspend, Resume, Destroy, Deploy,
     RivalPatch, PodReady, PodFails, Touch, kube
<1>4. TypeOK'
  BY <1>1, <1>2, <1>3 DEF TypeOK, KubeOK, TaskOK, RolloutOK, Items
<1>5. InStep'
  BY <1>1, <1>2 DEF InStep, Working
<1>6. \A f \in Engine \ {e} : row'[f] = row[f] /\ template'[f] = template[f] /\ pod'[f] = pod[f]
  BY <1>1 DEF KubeOK, LifeStep, PodStep, Suspend, Resume, Destroy, Deploy, RivalPatch,
     PodReady, PodFails, kube
<1>7. row'[e] = "ARCHIVED" => template'[e] = None
  BY <1>1 DEF KubeOK, Recorded, LifeStep, PodStep, Suspend, Resume, Destroy, Deploy,
     RivalPatch, PodReady, PodFails, kube
<1>8. touched \subseteq touched'
  BY DEF LifeStep, PodStep, Suspend, Resume, Destroy, Deploy, RivalPatch, PodReady,
         PodFails, Touch
<1>9. e \notin touched' => template'[e] = template[e] /\ pod'[e] \in {pod[e], None, template[e]}
  BY <1>1 DEF KubeOK, LifeStep, PodStep, Suspend, Resume, Destroy, Deploy, RivalPatch,
     PodReady, PodFails, Touch, kube
<1>10. ASSUME NEW f \in Engine PROVE Recorded(f)'
  BY <1>2, <1>6, <1>7 DEF IInv, Recorded, Working
<1>11. ASSUME NEW f \in Engine \ touched' PROVE Followed(f)'
  <2>1. Followed(f)
    BY <1>8 DEF IInv
  <2>2. template'[f] = template[f] /\ pod'[f] \in {pod[f], None, template[f]}
    BY <1>6, <1>9
  <2>3. Ready(f) => Reached(f)
    BY <2>1 DEF Followed, Ready
  <2> QED BY <1>2, <2>1, <2>2, <2>3 DEF Followed, Reached, Serves, Ready
<1> QED BY <1>4, <1>5, <1>10, <1>11 DEF IInv

LEMMA NextKeeps == IInv /\ [Next]_vars => IInv'
<1> SUFFICES ASSUME IInv, [Next]_vars PROVE IInv'
  OBVIOUS
<1>1. CASE UNCHANGED vars
  BY <1>1 DEF IInv, TypeOK, InStep, Recorded, Followed, Reached, Serves, Ready, Working, Items,
     vars, kube
<1>2. CASE CreateRead \/ CreateCommit
  BY <1>2, CreateReadKeeps, CreateCommitKeeps
<1>3. CASE TaskStep \/ TaskRaises \/ ManagerDies
  BY <1>3, StartBatchKeeps, CommitBatchKeeps, TaskEndKeeps DEF TaskStep
<1>4. CASE \E e \in Engine : ItemStep(e) \/ LifeStep(e) \/ PodStep(e)
  BY <1>4, ItemStepKeeps, OthersKeep
<1> QED BY <1>1, <1>2, <1>3, <1>4 DEF Next

LEMMA InvariantHolds == Spec => []IInv
BY InitHolds, NextKeeps, PTL DEF Spec

(***************************************************************************)
(* What follows                                                            *)
(***************************************************************************)

(* Every variable of a rollout keeps its type.                             *)
THEOREM TypeCorrect == Spec => []TypeOK
<1>1. IInv => TypeOK
  BY DEF IInv
<1> QED BY <1>1, InvariantHolds, PTL

(* An engine reported READY serves the target image until somebody else    *)
(* changes its Deployment.                                                 *)
THEOREM ReadyIsServed == Spec => []ReadyServesTarget
<1>1. IInv => ReadyServesTarget
  BY DEF IInv, Followed, Ready, Serves, ReadyServesTarget
<1> QED BY <1>1, InvariantHolds, PTL

(* A finished rollout has brought the target image to every engine nobody  *)
(* else has changed, or says that it failed.                               *)
THEOREM NobodyIsLeftBehind == Spec => []NoEngineLeftBehind
<1>1. ASSUME IInv PROVE NoEngineLeftBehind
  <2>1. SUFFICES ASSUME NEW e \in Engine, rollout.status = "FINISHED", e \notin touched,
                        template[e] # None, rollout.items[e] # "FAILED"
                 PROVE  template[e] = rollout.target
    BY DEF NoEngineLeftBehind
  <2>2. Recorded(e) /\ Followed(e)
    BY <1>1, <2>1 DEF IInv
  <2>3. rollout.items[e] \in {"READY", "PATCHED", "SKIPPED"}
    BY <1>1, <2>1, <2>2 DEF IInv, TypeOK, RolloutType, Result, Recorded, Followed
  <2> QED BY <2>1, <2>2, <2>3 DEF Followed, Reached
<1> QED BY <1>1, InvariantHolds, PTL

(***************************************************************************)
(* The summary                                                             *)
(***************************************************************************)
Having(k) == {e \in Engine : rollout.items[e] = k}

LEMMA AddsUpAtFirst == Init => SummaryAddsUp
BY DEF Init, NoRollout, SummaryAddsUp

LEMMA AddsUpAtCommit == ASSUME IInv, CreateCommit PROVE SummaryAddsUp'
<1>1. RolloutOK /\ Present \subseteq Engine
  BY TypeParts DEF IInv, Present, Items
<1>2. rollout'.items = [e \in Engine |-> IF e \in Present THEN "PENDING" ELSE "none"]
      /\ rollout'.summary = Empty(Cardinality(Present))
  BY <1>1 DEF CreateCommit, RolloutOK, RolloutType
<1>3. Items' = Present
  BY <1>1, <1>2 DEF Items
<1>4. \A k \in Result : {e \in Engine : rollout'.items[e] = k} = {}
  BY <1>2 DEF Result
<1>5. rollout'.summary["total"] = Cardinality(Items')
  BY <1>2, <1>3 DEF Empty, Result
<1>6. \A k \in Result : rollout'.summary[k] = 0
  BY <1>2 DEF Empty, Result
<1> QED BY <1>4, <1>5, <1>6, FS_EmptySet DEF SummaryAddsUp

LEMMA AddsUpAtBatch == ASSUME IInv, SummaryAddsUp, CommitBatch PROVE SummaryAddsUp'
<1>1. RolloutOK /\ InStep /\ Working
  BY TypeParts DEF IInv, CommitBatch, Is, Working
<1>2. \A e \in InHand : e \in Engine /\ task.mem[e] \in Result /\ rollout.items[e] = "PENDING"
  BY DEF IInv, InHand, Recorded, CommitBatch
<1>3. /\ rollout'.items = [e \in Engine |-> IF e \in InHand THEN task.mem[e]
                                            ELSE rollout.items[e]]
      /\ rollout'.summary = [k \in Result \cup {"total"} |->
            IF k = "total" THEN rollout.summary[k]
            ELSE rollout.summary[k] + Cardinality(Counted(k))]
  BY <1>1 DEF CommitBatch, RolloutOK, RolloutType
<1>4. rollout.status = "RUNNING"
  BY <1>1 DEF InStep
<1>5. Items' = Items
  BY <1>2, <1>3 DEF Items, Result
<1>6. ASSUME NEW k \in Result PROVE rollout'.summary[k] = Cardinality(Having(k)')
  <2>1. Having(k)' = Having(k) \cup Counted(k) /\ Having(k) \cap Counted(k) = {}
    BY <1>2, <1>3 DEF Having, Counted, InHand, Result
  <2>2. /\ IsFiniteSet(Having(k)) /\ Cardinality(Having(k)) \in Nat
        /\ IsFiniteSet(Counted(k)) /\ Cardinality(Counted(k)) \in Nat
    BY EnginesCount DEF Having, Counted, InHand
  <2>3. Cardinality(Having(k)') = Cardinality(Having(k)) + Cardinality(Counted(k))
    <3>1. Cardinality({}) = 0
      BY FS_EmptySet
    <3>2. Cardinality(Having(k) \cup Counted(k)) =
            Cardinality(Having(k)) + Cardinality(Counted(k)) - Cardinality({})
      BY <2>1, <2>2, FS_Union
    <3> QED BY <2>1, <2>2, <3>1, <3>2
  <2>4. rollout.summary[k] = Cardinality(Having(k))
    BY <1>4 DEF SummaryAddsUp, Having
  <2> QED BY <1>3, <2>3, <2>4 DEF Result
<1>7. rollout'.summary["total"] = Cardinality(Items')
  BY <1>3, <1>4, <1>5 DEF SummaryAddsUp, Result
<1> QED BY <1>6, <1>7 DEF SummaryAddsUp, Having

LEMMA AddsUpNext == IInv /\ SummaryAddsUp /\ [Next]_vars => SummaryAddsUp'
<1> SUFFICES ASSUME IInv, SummaryAddsUp, [Next]_vars PROVE SummaryAddsUp'
  OBVIOUS
<1>1. RolloutOK /\ InStep
  BY TypeParts DEF IInv
<1>2. CASE UNCHANGED rollout
  BY <1>2 DEF SummaryAddsUp, Items
<1>3. CASE CreateRead
  BY <1>1, <1>3 DEF CreateRead, SummaryAddsUp, RolloutOK, RolloutType
<1>4. CASE CreateCommit \/ CommitBatch
  BY <1>4, AddsUpAtCommit, AddsUpAtBatch
<1>5. CASE Finish \/ TaskRaises
  <2>1. rollout'.items = rollout.items /\ rollout'.summary = rollout.summary
    BY <1>1, <1>5 DEF Finish, TaskRaises, RolloutOK, RolloutType
  <2>2. rollout.status = "RUNNING"
    BY <1>1, <1>5 DEF Finish, TaskRaises, Is, InStep, Working
  <2> QED BY <2>1, <2>2 DEF SummaryAddsUp, Items
<1>6. CASE ManagerDies
  BY <1>2, <1>6 DEF ManagerDies, NoRollout, SummaryAddsUp
<1>7. Next \/ UNCHANGED vars => \/ UNCHANGED rollout \/ CreateRead \/ CreateCommit \/ CommitBatch
                               \/ Finish \/ TaskRaises \/ ManagerDies
  BY DEF Next, TaskStep, StartBatch, ItemStep, SkipItem, PatchItem, PatchFails, WaitSucceeds,
         WaitUnseen, WaitFails, LifeStep, PodStep, Suspend, Resume, Destroy, Deploy, RivalPatch, PodReady,
         PodFails, Touch, vars
<1> QED BY <1>2, <1>3, <1>4, <1>5, <1>6, <1>7

(* The summary agrees with the items at every commit of the record.        *)
THEOREM SummaryIsTrue == Spec => []SummaryAddsUp
BY InvariantHolds, AddsUpAtFirst, AddsUpNext, PTL DEF Spec

(***************************************************************************)
(* What the record may not know yet                                        *)
(***************************************************************************)

(* A set of engines that is not empty has a last one.                      *)
LEMMA LastEngine ==
  ASSUME NEW S \in SUBSET Engine, S # {}
  PROVE  \E m \in S : \A e \in S : e <= m
<1> DEFINE From(e) == {f \in S : f >= e}
           T == {From(e) : e \in S}
<1>1. S \subseteq Nat /\ S \in FiniteSubsetsOf(Engine)
  BY EnginesCount, RolloutAssumption DEF Engine, FiniteSubsetsOf
<1>2. T \subseteq FiniteSubsetsOf(Engine) /\ T # {}
  BY EnginesCount DEF FiniteSubsetsOf
<1>3. PICK X \in T : \A Y \in T : <<Y, X>> \notin StrictSubsetOrdering(Engine)
  <2> HIDE DEF T
  <2> QED BY <1>2, FS_StrictSubsetOrderingWellFounded, WFMin
<1>4. PICK m \in S : X = From(m)
  BY <1>3
<1>5. ASSUME NEW e \in S, ~ (e <= m) PROVE FALSE
  <2>1. m \in Nat /\ e \in Nat /\ e > m
    BY <1>1, <1>5
  <2>2. From(e) \subseteq From(m)
    <3>1. \A f \in S : f >= e => f >= m
      BY <1>1, <2>1
    <3> QED BY <3>1
  <2>3. m \in From(m) /\ m \notin From(e)
    BY <2>1
  <2>4. <<From(e), From(m)>> \in StrictSubsetOrdering(Engine)
    BY <2>2, <2>3 DEF StrictSubsetOrdering
  <2> QED BY <1>3, <1>4, <2>4
<1> QED BY <1>5

(* The first n engines of a set: an engine with fewer than n before it.    *)
LEMMA FirstOnes ==
  ASSUME NEW S \in SUBSET Engine, NEW n \in Nat \ {0}
  PROVE  Cardinality({e \in S : Cardinality({f \in S : f < e}) < n}) <= n
<1> DEFINE Before(e) == {f \in S : f < e}
           B == {e \in S : Cardinality(Before(e)) < n}
<1>1. SUFFICES Cardinality(B) <= n
  OBVIOUS
<1>2. S \subseteq Nat
  BY RolloutAssumption DEF Engine
<1>3. B \in SUBSET Engine /\ \A e \in B : e \in S /\ Cardinality(Before(e)) < n
  OBVIOUS
<1>4. \A e : Before(e) \in SUBSET Engine /\ e \notin Before(e)
  <2>1. \A f \in S : ~ (f < f)
    BY <1>2
  <2> QED BY <2>1
<1>5. \A e, f \in S : e <= f => e \in Before(f) \cup {f}
  BY <1>2
<1> HIDE DEF B, Before
<1>6. CASE B = {}
  BY <1>6, FS_EmptySet
<1>7. CASE B # {}
  <2>1. PICK m \in B : \A e \in B : e <= m
    BY <1>3, <1>7, LastEngine
  <2>2. /\ IsFiniteSet(Before(m)) /\ Cardinality(Before(m)) \in Nat
        /\ Cardinality(Before(m)) < n
    BY <1>3, <1>4, EnginesCount
  <2>3. B \subseteq Before(m) \cup {m}
    BY <1>3, <1>5, <2>1
  <2>4. /\ IsFiniteSet(Before(m) \cup {m})
        /\ Cardinality(Before(m) \cup {m}) = Cardinality(Before(m)) + 1
    BY <1>4, <2>2, FS_AddElement
  <2>5. Cardinality(B) <= Cardinality(Before(m) \cup {m}) /\ Cardinality(B) \in Nat
    BY <1>3, <2>3, <2>4, FS_Subset, EnginesCount
  <2> QED BY <2>2, <2>4, <2>5
<1> QED BY <1>6, <1>7

(* Engines that the rollout has patched and whose items are PENDING.       *)
Unrecorded == {e \in Uncommitted \ touched :
                 rollout.prev[e] # rollout.target /\ template[e] = rollout.target}

BInv == /\ Cardinality(InHand) <= rollout.size
        /\ rollout.status = "RUNNING" => Cardinality(Unrecorded) <= rollout.size

LEMMA BatchIsBounded ==
  ASSUME IInv, Cardinality(InHand) <= rollout.size, [Next]_vars
  PROVE  Cardinality(InHand') <= rollout'.size
<1>1. TaskOK /\ RolloutOK /\ InStep /\ \A e \in Engine : Recorded(e)
  BY TypeParts DEF IInv
<1>2. rollout.size \in Nat \ {0} /\ rollout'.size \in Nat \ {0}
  <2>1. IInv'
    BY NextKeeps
  <2> QED BY <2>1 DEF IInv, TypeOK, RolloutType
<1>3. CASE InHand' = {}
  BY <1>2, <1>3, FS_EmptySet
<1>4. CASE InHand' \subseteq InHand /\ rollout'.size = rollout.size
  <2>1. IsFiniteSet(InHand) /\ Cardinality(InHand) \in Nat
    BY EnginesCount DEF InHand
  <2>2. Cardinality(InHand') <= Cardinality(InHand)
    BY <1>4, <2>1, FS_Subset
  <2>3. Cardinality(InHand') \in Nat
    BY EnginesCount DEF InHand
  <2> QED BY <1>2, <1>4, <2>1, <2>2, <2>3
<1>5. CASE StartBatch
  <2>1. \A e \in Engine : task.step[e] \in {"none", "todo"}
    BY <1>1, <1>5 DEF StartBatch, Is, Recorded
  <2>2. task'.step = [e \in Engine |-> IF e \in Batch THEN "patch" ELSE task.step[e]]
    BY <1>1, <1>5 DEF StartBatch, TaskOK, TaskType
  <2>3. InHand' = Batch /\ rollout'.size = rollout.size
    BY <1>5, <2>1, <2>2 DEF InHand, Batch, Todo, StartBatch
  <2>4. Cardinality(Batch) <= rollout.size
    BY <1>2, FirstOnes DEF Batch, Todo
  <2> QED BY <2>3, <2>4
<1>6. CASE CreateRead \/ CreateCommit
  <2>1. \A e \in Engine : task.step[e] = "none"
    BY <1>1, <1>6 DEF CreateRead, CreateCommit, Is, Recorded, Working
  <2>2. \/ task'.step = task.step
        \/ task'.step = [e \in Engine |-> IF e \in Present THEN "todo" ELSE "none"]
    BY <1>1, <1>6 DEF CreateRead, CreateCommit, TaskOK, TaskType
  <2> QED BY <1>3, <2>1, <2>2 DEF InHand
<1>7. CASE CommitBatch
  <2>1. task'.step = [e \in Engine |-> IF e \in InHand THEN "none" ELSE task.step[e]]
    BY <1>1, <1>7 DEF CommitBatch, TaskOK, TaskType
  <2> QED BY <1>3, <2>1 DEF InHand
<1>8. CASE Finish \/ TaskRaises \/ ManagerDies
  <2>1. task'.step = [e \in Engine |-> "none"]
    BY <1>8 DEF Finish, TaskRaises, ManagerDies, NoTask
  <2> QED BY <1>3, <2>1 DEF InHand
<1>9. CASE \E e \in Engine : ItemStep(e)
  <2>1. PICK e \in Engine : ItemStep(e)
    BY <1>9
  <2>2. /\ task.step[e] \in {"patch", "wait"} /\ rollout' = rollout
        /\ task'.step = [task.step EXCEPT ![e] = "wait"]
           \/ task'.step = [task.step EXCEPT ![e] = "done"]
    BY <1>1, <2>1 DEF ItemStep, SkipItem, PatchItem, PatchFails, WaitSucceeds, WaitUnseen, WaitFails,
       ItemDone, TaskOK, TaskType
  <2>3. InHand' = InHand
    BY <1>1, <2>2 DEF InHand, TaskOK, TaskType
  <2> QED BY <1>4, <2>2, <2>3
<1>10. CASE UNCHANGED <<rollout, task>>
  BY <1>4, <1>10 DEF InHand
<1>11. (\E e \in Engine : LifeStep(e) \/ PodStep(e)) => UNCHANGED <<rollout, task>>
  BY DEF LifeStep, PodStep, Suspend, Resume, Destroy, Deploy, RivalPatch, PodReady, PodFails,
     Touch
<1> QED BY <1>5, <1>6, <1>7, <1>8, <1>9, <1>10, <1>11 DEF Next, TaskStep, vars

(* Once the task is gone nothing more is patched: others may only take     *)
(* engines out of the set.                                                 *)
LEMMA UnrecordedShrinks ==
  ASSUME IInv, BInv, UNCHANGED rollout, rollout.status = "RUNNING",
         touched \subseteq touched',
         \A e \in Engine \ touched' : template'[e] = template[e]
  PROVE  Cardinality(Unrecorded') <= rollout.size
<1>1. Unrecorded' \subseteq Unrecorded
  BY DEF Unrecorded, Uncommitted, Items
<1>2. /\ IsFiniteSet(Unrecorded) /\ Cardinality(Unrecorded) \in Nat
      /\ Cardinality(Unrecorded') \in Nat
  <2>1. Unrecorded \in SUBSET Engine
    BY DEF Unrecorded, Uncommitted, Items
  <2>2. Unrecorded' \in SUBSET Engine
    BY <1>1, <2>1
  <2> QED BY <2>1, <2>2, EnginesCount
<1>3. Cardinality(Unrecorded') <= Cardinality(Unrecorded)
  BY <1>1, <1>2, FS_Subset
<1>4. rollout.size \in Nat /\ Cardinality(Unrecorded) <= rollout.size
  BY DEF BInv, IInv, TypeOK, RolloutType
<1> QED BY <1>2, <1>3, <1>4

LEMMA BoundKept == IInv /\ BInv /\ [Next]_vars => BInv'
<1> SUFFICES ASSUME IInv, BInv, [Next]_vars PROVE BInv'
  OBVIOUS
<1>1. IInv' /\ Cardinality(InHand') <= rollout'.size
  BY NextKeeps, BatchIsBounded DEF BInv
<1>2. TaskOK /\ RolloutOK /\ InStep /\ KubeOK
  BY TypeParts DEF IInv
<1>3. ASSUME rollout'.status = "RUNNING"
      PROVE  Cardinality(Unrecorded') <= rollout'.size
  <2>1. CASE Working'
    (* Of the items not in hand those PENDING are not patched.             *)
    <3>1. Unrecorded' \subseteq InHand'
      BY <1>1, <2>1
         DEF IInv, Recorded, Followed, Unrecorded, Uncommitted, Items, InHand
    <3>2. /\ IsFiniteSet(InHand') /\ Cardinality(InHand') \in Nat
          /\ Cardinality(Unrecorded') \in Nat /\ rollout'.size \in Nat
      <4>1. InHand' \in SUBSET Engine
        BY DEF InHand
      <4>2. Unrecorded' \in SUBSET Engine
        BY <3>1, <4>1
      <4> QED BY <1>1, <4>1, <4>2, EnginesCount DEF IInv, TypeOK, RolloutType
    <3>3. Cardinality(Unrecorded') <= Cardinality(InHand')
      BY <3>1, <3>2, FS_Subset
    <3> QED BY <1>1, <3>2, <3>3
  <2>2. CASE ~ Working'
    <3>1. /\ UNCHANGED rollout /\ touched \subseteq touched'
          /\ \A e \in Engine \ touched' : template'[e] = template[e]
      <4>1. CASE TaskRaises \/ ManagerDies
        BY <1>2, <1>3, <4>1 DEF TaskRaises, ManagerDies, CrashedStatus, RolloutOK,
           RolloutType, NoRollout, kube
      <4>2. CASE \E e \in Engine : LifeStep(e) \/ PodStep(e)
        <5>1. PICK e \in Engine : LifeStep(e) \/ PodStep(e)
          BY <4>2
        <5>2. UNCHANGED rollout /\ touched \subseteq touched'
          BY <5>1 DEF LifeStep, PodStep, Suspend, Resume, Destroy, Deploy, RivalPatch,
             PodReady, PodFails, Touch
        <5>3. \A f \in Engine \ touched' : template'[f] = template[f]
          BY <1>2, <5>1 DEF LifeStep, PodStep, Suspend, Resume, Destroy, Deploy, RivalPatch,
             PodReady, PodFails, Touch, KubeOK, kube
        <5> QED BY <5>2, <5>3
      <4>3. CASE UNCHANGED vars
        BY <4>3 DEF vars, kube
      <4>4. ~ (CreateRead \/ CreateCommit \/ TaskStep \/ \E e \in Engine : ItemStep(e))
        <5>1. ~ (CreateRead \/ Finish)
          BY <1>2, <1>3 DEF CreateRead, Finish, RolloutOK, RolloutType
        <5>2. CreateCommit \/ StartBatch \/ CommitBatch => Working'
          BY <1>2 DEF CreateCommit, StartBatch, CommitBatch, Working, TaskOK, TaskType
        <5>3. (\E e \in Engine : ItemStep(e)) => Working'
          BY <1>2 DEF ItemStep, SkipItem, PatchItem, PatchFails, WaitSucceeds, WaitUnseen, WaitFails,
             ItemDone, Working, Is, TaskOK, TaskType
        <5> QED BY <2>2, <5>1, <5>2, <5>3 DEF TaskStep
      <4> QED BY <4>1, <4>2, <4>3, <4>4 DEF Next
    <3> QED BY <1>3, <3>1, UnrecordedShrinks
  <2> QED BY <2>1, <2>2
<1> QED BY <1>1, <1>3 DEF BInv

(* However many engines there are, a manager that dies leaves at most one  *)
(* batch of engines patched of which the record says PENDING.              *)
THEOREM OneBatchIsUnrecorded == Spec => []OneBatchUnrecorded
<1>1. Init => BInv
  <2>1. ASSUME Init PROVE BInv
    <3>1. InHand = {} /\ rollout.status = "none" /\ rollout.size = 1
      BY <2>1 DEF Init, NoRollout, NoTask, InHand
    <3> QED BY <3>1, FS_EmptySet DEF BInv
  <2> QED BY <2>1
<1>2. BInv => OneBatchUnrecorded
  BY DEF BInv, OneBatchUnrecorded, Unrecorded
<1> QED BY <1>1, <1>2, InvariantHolds, BoundKept, PTL DEF Spec
=============================================================================
