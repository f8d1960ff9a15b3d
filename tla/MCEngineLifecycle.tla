------------------------- MODULE MCEngineLifecycle -------------------------
(***************************************************************************)
(* The lifecycle of one engine, instantiated for TLC.                      *)
(***************************************************************************)
EXTENDS EngineClaims, TLC

(* Sessions differ by name only.                                           *)
Interchangeable == Permutations(Session)

=============================================================================
