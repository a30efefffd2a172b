---------------------------- MODULE MCAnswering ----------------------------
(* Answering instantiated for TLC. *)
EXTENDS Answering, TLC

Symmetry == Permutations(Questions) \cup Permutations(Documents)
=============================================================================
