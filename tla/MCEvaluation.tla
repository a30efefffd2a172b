---------------------------- MODULE MCEvaluation ----------------------------
(* Evaluation instantiated for TLC. *)
EXTENDS Evaluation, TLC

Symmetry == Permutations(Workers) \cup Permutations(Runs)
=============================================================================
