---------------------------- MODULE MCFeatureTree ----------------------------
(* TLC instances of FeatureTree. *)
EXTENDS FeatureTree, TLC

CONSTANTS p1, p2

(* One command at a time: every command, in any order. *)
OneAtATime == (p1 :> Commands) @@ (p2 :> {})

(* Two terminals that tear down. *)
TwoDeleters == [p \in {p1, p2} |-> {"delete", "prune", "cleanup"}]

TearDowns == {OneAtATime, (p2 :> Commands) @@ (p1 :> {}), TwoDeleters}

Symmetric == Permutations({p1, p2})

(* A parent with a subfeature that has one itself and one with two, all    *)
(* delivered or all but one; and two features next to a free name, one     *)
(* delivered with its session still live.                                  *)
Hall(parent, condition) == [parent |-> parent, condition |-> condition]

SmallHalls == {
  Hall(<<0, 1, 2>>, <<"landed", "landed", "landed">>),
  Hall(<<0, 1, 2>>, <<"landed", "landed", "busy">>),
  Hall(<<0, 1, 1>>, <<"landed", "busy", "ready">>),
  Hall(<<0, 0, None>>, <<"attended", "new", "new">>)}
=============================================================================
