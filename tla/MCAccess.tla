------------------------------ MODULE MCAccess ------------------------------
(* Access instantiated for TLC. *)
EXTENDS Access, TLC

Symmetry == Permutations(Users) \cup Permutations(Orgs) \cup Permutations(Groups)
            \cup Permutations(Sessions)
=============================================================================
