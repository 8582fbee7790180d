---------------------------- MODULE MCRunReceipt ----------------------------
(* TLC instances of RunReceipt. *)
EXTENDS RunReceipt, TLC

CONSTANTS p1, p2

(* One command at a time: every command, in any order. *)
OneAtATime == (p1 :> Commands) @@ (p2 :> {})

(* Two terminals that only start, resume and restart runs. *)
TwoStarters == [p \in {p1, p2} |-> Plain]

Locked == {OneAtATime, TwoStarters}

(* Two terminals of the same feature, each running any command. *)
TwoTerminals == {[p \in {p1, p2} |-> Commands]}
=============================================================================
