--------------------------- MODULE MCIntegration ---------------------------
(* Small instances of Integration for TLC. *)
EXTENDS Integration, TLC

RunSymmetry == Permutations(Runs)

=============================================================================
