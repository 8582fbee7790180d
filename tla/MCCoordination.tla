--------------------------- MODULE MCCoordination ---------------------------
(* TLC instance of Coordination: two sessions of one feature, a server     *)
(* outside any session, and the ivar command.                              *)
EXTENDS Coordination
CONSTANTS s1, s2, out, cli, k1, k2, ko, kc, claude, omp, f

MCCallers  == {s1, s2, out, cli}
MCOwner    == [p \in MCCallers |->
                 IF p = s1 THEN k1 ELSE IF p = s2 THEN k2 ELSE IF p = out THEN ko ELSE kc]
MCSession  == [p \in MCCallers |-> IF p \in {s1, s2} THEN MCOwner[p] ELSE Unset]
MCProvider == [p \in MCCallers |-> IF p \in {s1, out} THEN claude ELSE IF p = s2 THEN omp ELSE cli]
MCFeature  == [p \in MCCallers |-> IF p \in {s1, s2} THEN f ELSE Unset]
MCOffers   ==
  {[table |-> "handoffs", queue |-> f,    kind |-> "",         to |-> Unset],
   [table |-> "messages", queue |-> Hall, kind |-> "provider", to |-> claude],
   [table |-> "messages", queue |-> Hall, kind |-> "session",  to |-> k2]}
=============================================================================
