------------------------------ MODULE MCRollout ------------------------------
(***************************************************************************)
(* Rollouts, instantiated for TLC.                                         *)
(***************************************************************************)
EXTENDS RolloutProperties
=============================================================================
