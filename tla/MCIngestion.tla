---------------------------- MODULE MCIngestion ----------------------------
(* Ingestion instantiated for TLC. *)
EXTENDS Ingestion, TLC

Symmetry == Permutations(Workers) \cup Permutations(Publishers)
=============================================================================
