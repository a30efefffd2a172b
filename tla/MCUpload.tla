------------------------------ MODULE MCUpload ------------------------------
(* Upload, with its outbox publisher, instantiated for TLC. *)
EXTENDS Upload
=============================================================================
