---------------------------- MODULE EngineClaims ----------------------------
(***************************************************************************)
(* What a comment of the lifecycle says of the program and its code does   *)
(* not do.                                                                 *)
(***************************************************************************)
EXTENDS EngineProperties

(* lifecycle_service.py:258: the lock keeps destroy from deleting the Pod  *)
(* and the PVC of an engine that has just been brought up again.  The      *)
(* scheduler's destroy does not look at the status again once it holds it. *)
DestroySparesRunning ==
  [][pvc # None /\ pvc' = None => status # "RUNNING"]_vars
=============================================================================
