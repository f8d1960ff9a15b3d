-------------------------- MODULE RolloutProperties --------------------------
(***************************************************************************)
(* What a rollout promises about the engines and about its own record.     *)
(***************************************************************************)
EXTENDS EngineRollout

RolloutType ==
  [status : {"none", "reading", "RUNNING", "FINISHED", "FAILED"},
   target : Image \cup {None}, force : BOOLEAN, size : Nat \ {0},
   items : [Engine -> Result \cup {"none", "PENDING"}],
   prev : [Engine -> Image \cup {None}], wait : [Engine -> BOOLEAN],
   summary : [Result \cup {"total"} -> Nat]]

TaskType ==
  [pc : {"idle", "create", "batch", "items", "dead"},
   step : [Engine -> {"none", "todo", "patch", "wait", "done"}],
   mem : [Engine -> Result \cup {"none"}]]

(* Every variable has its type; an item names the image its engine had.    *)
TypeOK ==
  /\ row \in [Engine -> {"RUNNING", "SUSPENDED", "ARCHIVED"}]
  /\ template \in [Engine -> Image \cup {None}]
  /\ pod \in [Engine -> Image \cup {None}]
  /\ rollout.status # "reading" => \A e \in Items : rollout.prev[e] # None
  /\ rollout \in RolloutType /\ task \in TaskType
  /\ touched \subseteq Engine /\ unseen \subseteq Engine

(* A finished rollout leaves no engine behind: an engine nobody else has   *)
(* redeployed or patched since it began has the target image in its        *)
(* Deployment, or an item that says FAILED; suspended ones included, and   *)
(* whatever status they had when their turn came.                          *)
NoEngineLeftBehind ==
  \A e \in Engine :
    rollout.status = "FINISHED" /\ e \notin touched /\ template[e] # None =>
      \/ template[e] = rollout.target
      \/ rollout.items[e] = "FAILED"

(* An engine reported READY serves the target image from then on, until    *)
(* somebody else changes its Deployment: the Pod before the patch is not   *)
(* taken for the new one, except where the list of the Pods failed         *)
(* (k8s_manager.py:2056-2057 trusts the replica counts then).              *)
ReadyServesTarget ==
  \A e \in Engine :
    rollout.items[e] = "READY" /\ e \notin touched \cup unseen /\ pod[e] # None =>
      pod[e] = rollout.target

(* The summary a client polls agrees with the items at every commit, also  *)
(* of a rollout that crashed or was cut short.                             *)
SummaryAddsUp ==
  rollout.status \notin {"none", "reading"} =>
    /\ rollout.summary["total"] = Cardinality(Items)
    /\ \A k \in Result :
         rollout.summary[k] = Cardinality({e \in Engine : rollout.items[e] = k})

(* When the manager dies at most one batch of engines has been patched     *)
(* that the record still calls PENDING.                                    *)
OneBatchUnrecorded ==
  rollout.status = "RUNNING" =>
    Cardinality({e \in Uncommitted \ touched :
                   rollout.prev[e] # rollout.target
                   /\ template[e] = rollout.target}) <= rollout.size

(* A rollout ends, unless the manager dies under it.                       *)
RolloutEnds ==
  rollout.status = "RUNNING" ~> (rollout.status # "RUNNING" \/ Is("dead"))
=============================================================================
