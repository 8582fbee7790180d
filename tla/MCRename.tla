------------------------------ MODULE MCRename ------------------------------
(* TLC instances of Rename. *)
EXTENDS Rename
=============================================================================
