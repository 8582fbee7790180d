--------------------------- MODULE MCMemorySpool ---------------------------
(* TLC instance of MemorySpool: three appends to one session's spool, two  *)
(* of them a merge observed twice (merged_event_id derives from the pull   *)
(* request) and the third unparsable; the cap fits one line and drains may *)
(* die.                                                                    *)
EXTENDS MemorySpool, TLC

CONSTANTS h1, h2, h3, k1, e1, e3, d1, d2

MCKeyOf   == [h \in Hooks |-> k1]
MCEventOf == (h1 :> e1) @@ (h2 :> e1) @@ (h3 :> e3)

Symmetry == Permutations(Drainers)
=============================================================================
