----------------------------- MODULE MCOntology -----------------------------
(***************************************************************************)
(* Bounds for TLC.                                                         *)
(***************************************************************************)
EXTENDS OntologyProperties, TLC

Interchangeable == Permutations(Session)
=============================================================================
