---------------------------- MODULE MCSessions ----------------------------
(* TLC instances of Sessions. *)
EXTENDS Sessions, TLC

Symmetric == Permutations(Procs) \cup Permutations(Sids) \cup Permutations(Topics)
=============================================================================
