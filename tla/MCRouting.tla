------------------------------ MODULE MCRouting ------------------------------
(***************************************************************************)
(* The routing to profiles, instantiated for TLC.                          *)
(***************************************************************************)
EXTENDS RoutingProperties, TLC

Interchangeable == Permutations(Session) \cup Permutations(Profile)
=============================================================================
