------------------------------- MODULE MCLand -------------------------------
(* TLC instances of Land: two landers over two repos. *)
EXTENDS Land, TLC

LanderSymmetry == Permutations(Landers)
=============================================================================
