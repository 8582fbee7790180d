--------------------------- MODULE MCSessionPages ---------------------------
(* TLC instances of SessionPages. *)
EXTENDS SessionPages

MCDates == {Absent, 1, 3}
=============================================================================
