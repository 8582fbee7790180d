---------------------------- MODULE MCGraphWatch ----------------------------
(* TLC instance of GraphWatch: two servers over one repo and one feature.  *)
EXTENDS GraphWatch
=============================================================================
