-------------------------------- MODULE Land --------------------------------
(***************************************************************************)
(* `ivar feature deliver --land`: a feature's branches fast-forward the    *)
(* default branches of its repos, all of them or none, and are pushed      *)
(* (src/action/feature/deliver).                                           *)
(*                                                                         *)
(* A lander is one command: a preview a person approves, then the apply,   *)
(* which recomputes the preview, plans, runs the repos' checks, validates  *)
(* the remotes, fast-forwards one default worktree after another, undoing  *)
(* the earlier ones when one fails, and pushes.  It takes no lock: other   *)
(* landers, pulls, sessions and people work in the same clones meanwhile,  *)
(* and the process may die between any two git commands.                   *)
(*                                                                         *)
(* A branch is the sequence of the commits it has beyond the common base,  *)
(* so ancestry is IsPrefix.  A commit may repeat the changes of others (a  *)
(* squash, a cherry-pick): patch[c] is what c changes, named by the        *)
(* commits that first made it.  Repos are taken in name order, 1 first.    *)
(***************************************************************************)
EXTENDS Integers, FiniteSets, SequencesExt

CONSTANTS
  Landers,    \* the land commands, each run once
  RepoCount,  \* the promoted repos
  MaxCommits, \* bound: commits made by others
  MaxDeaths   \* bound: landers killed midway

ASSUME LandAssumption ==
  /\ RepoCount \in Nat \ {0}
  /\ MaxCommits \in Nat
  /\ MaxDeaths \in Nat

VARIABLES
  feature,  \* the feature's branch in each repo
  default,  \* the local default branch, checked out in the default worktree
  remote,   \* the remote's default branch
  dirty,    \* the default worktree has uncommitted changes
  patch,    \* the changes of each commit
  resolving,  \* what a `repo pull --resolve` has looked at, by repo
  land,     \* the state of each lander
  made,     \* the commits made so far
  deaths

others == <<patch, resolving>>
vars == <<feature, default, remote, dirty, patch, resolving, land, made, deaths>>

Repos   == 1 .. RepoCount
Commits == 0 .. MaxCommits
Branch  == UNION {[1 .. n -> Commits] : n \in 0 .. MaxCommits + 1}
NoLook  == [head |-> <<>>, tip |-> <<>>]  \* no pull is resolving the repo

Verdicts == {"none", "refused", "skipped", "landed", "partial", "died"}
Pcs == {"idle", "previewed", "preflight", "checks", "validate", "lift",
        "merge", "ff", "rollback", "push", "done"}

NoPlan == [r \in Repos |-> [tip |-> <<>>, original |-> <<>>, remote |-> <<>>]]

NewLand ==
  [pc         |-> "idle",
   repo       |-> 1,                          \* the repo being worked on
   back       |-> 1,                          \* the repo being rolled back
   approved   |-> [r \in Repos |-> [pending |-> 0, remote |-> <<>>]],
   reviewed   |-> [r \in Repos |-> <<>>],     \* the tips the preview was of
   plan       |-> NoPlan,
   checked    |-> [r \in Repos |-> <<>>],     \* the tips the checks ran on
   seen       |-> [r \in Repos |-> <<>>],     \* the remote tips validated
   moved      |-> FALSE,                      \* some remote default moved
   unrestored |-> {},                         \* repos a rollback failed for
   pushed     |-> {},
   verdict    |-> "none"]

Init ==
  /\ feature = [r \in Repos |-> <<0>>]
  /\ default = [r \in Repos |-> <<>>]
  /\ remote = [r \in Repos |-> <<>>]
  /\ dirty = [r \in Repos |-> FALSE]
  /\ patch = [c \in Commits |-> {c}]
  /\ resolving = [r \in Repos |-> NoLook]
  /\ land = [p \in Landers |-> NewLand]
  /\ made = 0
  /\ deaths = 0

-----------------------------------------------------------------------------
(* The preview and the plan.                                               *)

(* What the fingerprint covers of a repo's branches: how many commits are  *)
(* pending, not which (the feature's branch is not on the remote yet).     *)
Fingerprint(r) ==
  [pending |-> Cardinality(ToSet(feature[r]) \ ToSet(default[r])),
   remote  |-> remote[r]]

Ends(p, verdict) == land' = [land EXCEPT ![p].pc = "done", ![p].verdict = verdict]

Preview(p) ==
  /\ land[p].pc = "idle"
  /\ land' = [land EXCEPT ![p].pc = "previewed",
                          ![p].approved = [r \in Repos |-> Fingerprint(r)],
                          ![p].reviewed = feature]
  /\ UNCHANGED <<feature, default, remote, dirty, others, made, deaths>>

(* Apply recomputes the preview and compares fingerprints; the remote tips *)
(* of the plan are the recomputed ones.  It also refuses for what is not   *)
(* modelled: descendants, the plan gate, the memory review.                *)
Apply(p) ==
  /\ land[p].pc = "previewed"
  /\ \/ /\ \A r \in Repos : Fingerprint(r) = land[p].approved[r]
        /\ land' = [land EXCEPT ![p].pc = "preflight"]
     \/ Ends(p, "refused")
  /\ UNCHANGED <<feature, default, remote, dirty, others, made, deaths>>

Blocked(r) == dirty[r] \/ ~ IsPrefix(default[r], feature[r])

Preflight(p) ==
  /\ land[p].pc = "preflight"
  /\ \/ /\ \A r \in Repos : ~ Blocked(r)
        /\ land' = [land EXCEPT
             ![p].pc = "checks",
             ![p].plan = [r \in Repos |-> [tip      |-> feature[r],
                                           original |-> default[r],
                                           remote   |-> land[p].approved[r].remote]]]
     \/ Ends(p, "refused")  \* blocked, or git failed
  /\ UNCHANGED <<feature, default, remote, dirty, others, made, deaths>>

-----------------------------------------------------------------------------
(* The lander l after its loop is through with one repo: the next repo, or *)
(* the loop's end.                                                         *)

NextRepo(l, pc) ==
  IF l.repo < RepoCount THEN [l EXCEPT !.repo = @ + 1]
                        ELSE [l EXCEPT !.repo = 1, !.pc = pc]

(* The repo's checks run in the feature's worktree, on what it holds now.  *)
RunChecks(p) ==
  LET r == land[p].repo IN
  /\ land[p].pc = "checks"
  /\ \/ land' = [land EXCEPT ![p] = NextRepo([@ EXCEPT !.checked[r] = feature[r]],
                                             "validate")]
     \/ Ends(p, "refused")
  /\ UNCHANGED <<feature, default, remote, dirty, others, made, deaths>>

LastMoved(l, r, ok) ==  \* mutant: only the last repo's answer counts
  NextRepo([l EXCEPT !.seen[r] = remote[r], !.moved = ~ ok], "lift")

(* Phase 1, one repo: the remote's tip now, against the plan's.            *)
Validated(l, r, ok) ==
  NextRepo([l EXCEPT !.seen[r] = remote[r], !.moved = @ \/ ~ ok], "lift")

(* A remote that cannot be asked counts as one that moved.                 *)
Validate(p) ==
  LET r == land[p].repo IN
  /\ land[p].pc = "validate"
  /\ \E answers \in BOOLEAN :
       land' = [land EXCEPT ![p] =
                  Validated(@, r, answers /\ remote[r] = land[p].plan[r].remote)]
  /\ UNCHANGED <<feature, default, remote, dirty, others, made, deaths>>

(* One moved remote skips the batch; else the write bits of every default  *)
(* worktree are lifted, which may fail.                                    *)
Lift(p) ==
  /\ land[p].pc = "lift"
  /\ IF land[p].moved
       THEN Ends(p, "skipped")
       ELSE \/ land' = [land EXCEPT ![p].pc = "merge"]
            \/ Ends(p, "refused")
  /\ UNCHANGED <<feature, default, remote, dirty, others, made, deaths>>

-----------------------------------------------------------------------------
(* Phase 2, one repo: the checks of ff_merge_one, then git merge --ff-only.*)

FromSecond(l) ==  \* mutant: the first merged repo is not rolled back
  [l EXCEPT !.pc = "rollback", !.back = 2]

StartRollback(l) == [l EXCEPT !.pc = "rollback", !.back = 1]

Recheck(p) ==
  LET r == land[p].repo IN
  /\ land[p].pc = "merge"
  /\ \/ /\ IsPrefix(default[r], land[p].plan[r].tip)
        /\ ~ dirty[r]
        /\ default[r] = land[p].plan[r].original
        /\ land' = [land EXCEPT ![p].pc = "ff"]
     \/ land' = [land EXCEPT ![p] = StartRollback(@)]  \* refused, or git failed
  /\ UNCHANGED <<feature, default, remote, dirty, others, made, deaths>>

(* git merge --ff-only: what the branch is afterwards. *)
FastForwarded(branch, tip) == IF IsPrefix(tip, branch) THEN branch ELSE tip

ResetHard(p) ==  \* mutant: git reset --hard instead of git merge --ff-only
  /\ land[p].pc = "ff"
  /\ default' = [default EXCEPT ![land[p].repo] = land[p].plan[land[p].repo].tip]
  /\ land' = [land EXCEPT ![p] = NextRepo([@ EXCEPT !.pc = "merge"], "push")]
  /\ UNCHANGED <<feature, remote, dirty, others, made, deaths>>

FastForward(p) ==
  LET r == land[p].repo
      tip == land[p].plan[r].tip
  IN
  /\ land[p].pc = "ff"
  /\ \/ /\ IsPrefix(default[r], tip) \/ IsPrefix(tip, default[r])
        /\ default' = [default EXCEPT ![r] = FastForwarded(@, tip)]
        /\ land' = [land EXCEPT ![p] = NextRepo([@ EXCEPT !.pc = "merge"], "push")]
     \/ /\ UNCHANGED default
        /\ land' = [land EXCEPT ![p] = StartRollback(@)]
  /\ UNCHANGED <<feature, remote, dirty, others, made, deaths>>

(* rollback_merged: git reset --hard the repos before the failed one, and  *)
(* go on past one that cannot be reset.                                    *)
Rollback(p) ==
  LET b == land[p].back IN
  /\ land[p].pc = "rollback"
  /\ b < land[p].repo
  /\ \/ /\ default' = [default EXCEPT ![b] = land[p].plan[b].original]
        /\ dirty' = [dirty EXCEPT ![b] = FALSE]
        /\ land' = [land EXCEPT ![p].back = b + 1]
     \/ /\ land' = [land EXCEPT ![p].back = b + 1, ![p].unrestored = @ \cup {b}]
        /\ UNCHANGED <<default, dirty>>
  /\ UNCHANGED <<feature, remote, others, made, deaths>>

RolledBack(p) ==
  /\ land[p].pc = "rollback"
  /\ land[p].back >= land[p].repo
  /\ Ends(p, IF land[p].unrestored = {} THEN "refused" ELSE "partial")
  /\ UNCHANGED <<feature, default, remote, dirty, others, made, deaths>>

(* Phase 3, one repo: push the default branch, whatever it is by now; a    *)
(* rejected or failed push is a warning.                                   *)
Push(p) ==
  LET r == land[p].repo
      Pushed(l) == [l EXCEPT !.pushed = @ \cup {r}]
      Then(l) == [NextRepo(l, "done") EXCEPT
                    !.verdict = IF l.repo = RepoCount THEN "landed" ELSE "none"]
  IN
  /\ land[p].pc = "push"
  /\ \/ /\ IsPrefix(remote[r], default[r])
        /\ remote' = [remote EXCEPT ![r] = default[r]]
        /\ land' = [land EXCEPT ![p] = Then(Pushed(@))]
     \/ /\ UNCHANGED remote
        /\ land' = [land EXCEPT ![p] = Then(@)]
  /\ UNCHANGED <<feature, default, dirty, others, made, deaths>>

(* Killed; before the first merge that is no different from a refusal.     *)
Dies(p) ==
  /\ land[p].pc \in {"merge", "ff", "rollback", "push"}
  /\ deaths < MaxDeaths
  /\ deaths' = deaths + 1
  /\ Ends(p, "died")
  /\ UNCHANGED <<feature, default, remote, dirty, others, made>>

-----------------------------------------------------------------------------
(* Everybody else.                                                         *)

NewCommit == made + 1

Changes(commits) == UNION {patch[c] : c \in commits}

Works ==
  /\ made < MaxCommits
  /\ made' = made + 1
  /\ UNCHANGED <<resolving, land, deaths>>

FeatureCommits(r) ==
  /\ Works
  /\ feature' = [feature EXCEPT ![r] = Append(@, NewCommit)]
  /\ UNCHANGED <<default, remote, dirty, patch>>

(* git commit --amend, or a rebase, in the feature's worktree. *)
FeatureAmends(r) ==
  /\ Works
  /\ feature' = [feature EXCEPT ![r] = Append(Front(@), NewCommit)]
  /\ UNCHANGED <<default, remote, dirty, patch>>

(* Somebody else's push: new work, or local commits landed once more, as a *)
(* squash or cherry-picked.                                                *)
RemoteMoves(r) ==
  /\ Works
  /\ remote' = [remote EXCEPT ![r] = Append(@, NewCommit)]
  /\ \E relanded \in SUBSET (ToSet(feature[r]) \cup ToSet(default[r])) :
       patch' = IF relanded = {} THEN patch ELSE [patch EXCEPT ![NewCommit] = Changes(relanded)]
  /\ UNCHANGED <<feature, default, dirty>>

(* A commit made in the default worktree with git commit --no-verify. *)
CommitsOnDefault(r) ==
  /\ Works
  /\ default' = [default EXCEPT ![r] = Append(@, NewCommit)]
  /\ UNCHANGED <<feature, remote, dirty, patch>>

(* ivar repo pull, or the Smart Fetch of a session start. *)
Pull(r) ==
  /\ IsStrictPrefix(default[r], remote[r])
  /\ default' = [default EXCEPT ![r] = remote[r]]
  /\ UNCHANGED <<feature, remote, dirty, others, land, made, deaths>>

(* `repo pull --resolve`, when the fast-forward fails: a look ...          *)
(* Every commit the default branch b alone has is on the remote's m by     *)
(* content, all of them as one squash or one for one.                      *)
Relanded(b, m) ==
  LET local == ToSet(b) \ ToSet(m)
      new == ToSet(m) \ ToSet(b)
  IN /\ local # {}
     /\ \/ \E c \in new : patch[c] = Changes(local)
        \/ \A d \in local : \E c \in new : patch[c] = patch[d]

ResolveLooks(r) ==
  /\ resolving[r] = NoLook
  /\ ~ dirty[r] /\ Relanded(default[r], remote[r])
  /\ resolving' = [resolving EXCEPT ![r] = [head |-> default[r], tip |-> remote[r]]]
  /\ UNCHANGED <<feature, default, remote, dirty, patch, land, made, deaths>>

(* ... and then git reset --hard origin/<default>, which may fail; another *)
(* fetch may have moved that ref on since the look.                        *)
ResolveResets(r) ==
  /\ resolving[r] # NoLook
  /\ resolving' = [resolving EXCEPT ![r] = NoLook]
  /\ \/ \E tip \in {resolving[r].tip, remote[r]} :
          default' = [default EXCEPT ![r] = tip] /\ dirty' = [dirty EXCEPT ![r] = FALSE]
     \/ UNCHANGED <<default, dirty>>
  /\ UNCHANGED <<feature, remote, patch, land, made, deaths>>

EditsDefault(r) ==
  /\ dirty' = [dirty EXCEPT ![r] = ~ @]
  /\ UNCHANGED <<feature, default, remote, others, land, made, deaths>>

ApplyStep(p) ==
  \/ Preflight(p) \/ RunChecks(p) \/ Validate(p) \/ Lift(p) \/ Recheck(p)
  \/ FastForward(p) \/ Rollback(p) \/ RolledBack(p) \/ Push(p)

Next ==
  \/ \E p \in Landers : Preview(p) \/ Apply(p) \/ ApplyStep(p) \/ Dies(p)
  \/ \E r \in Repos : \/ FeatureCommits(r) \/ FeatureAmends(r) \/ RemoteMoves(r)
                      \/ CommitsOnDefault(r) \/ Pull(r) \/ EditsDefault(r)
                      \/ ResolveLooks(r) \/ ResolveResets(r)

Spec == Init /\ [][Next]_vars

-----------------------------------------------------------------------------
(* Properties.                                                             *)

Lands ==
  [pc         : Pcs,
   repo       : Repos,
   back       : 1 .. RepoCount + 1,
   approved   : [Repos -> [pending : 0 .. MaxCommits + 1, remote : Branch]],
   reviewed   : [Repos -> Branch],
   plan       : [Repos -> [tip : Branch, original : Branch, remote : Branch]],
   checked    : [Repos -> Branch],
   seen       : [Repos -> Branch],
   moved      : BOOLEAN,
   unrestored : SUBSET Repos,
   pushed     : SUBSET Repos,
   verdict    : Verdicts]

TypeOK ==
  /\ feature \in [Repos -> Branch]
  /\ default \in [Repos -> Branch]
  /\ remote \in [Repos -> Branch]
  /\ dirty \in [Repos -> BOOLEAN]
  /\ patch \in [Commits -> SUBSET Commits]
  /\ resolving \in [Repos -> [head : Branch, tip : Branch]]
  /\ land \in [Landers -> Lands]
  /\ made \in 0 .. MaxCommits
  /\ deaths \in 0 .. MaxDeaths

Carries(p, r) == IsPrefix(land[p].plan[r].tip, default[r])

(* A repo whose default already was at the feature's tip has nothing to land. *)
ToLand(p) == {r \in Repos : land[p].plan[r].tip # land[p].plan[r].original}

(* No other land has come past its preflight: it has read no head it could *)
(* roll back to, and merges nothing.                                       *)
Alone(p) == \A q \in Landers \ {p} : land[q].plan = NoPlan

LandedAll(p) == land[p].verdict = "landed" => \A r \in Repos : Carries(p, r)

Contents(b) == Changes(ToSet(b))

(* A land that reports its repos merged has merged every one of them, when *)
(* it was alone (limitations-delivery.md: "merges every promoted repo      *)
(* locally or none"): each default branch has what its plan changes, in    *)
(* the commits landed or, after a pull that resolved, in the ones upstream.*)
LandedAlone ==
  \A p \in Landers : Alone(p) /\ land[p].verdict = "landed" =>
    \A r \in Repos : Contents(land[p].plan[r].tip) \subseteq Contents(default[r])

(* A land that refused or was skipped leaves its feature on no default     *)
(* branch: the only partial land is the one reported as                    *)
(* deliver.land_rollback_failed, or one killed midway.                     *)
NeverSilentlyPartial ==
  \A p \in Landers : Alone(p) /\ land[p].verdict \in {"refused", "skipped"} =>
    \A r \in ToLand(p) : ~ Carries(p, r)

(* mod.rs: a land merges every repo or none: what it reports is the state  *)
(* of all of them, when it was alone and was not killed.                   *)
AllOrNone == LandedAlone /\ NeverSilentlyPartial

(* A land whose validation found any remote default elsewhere than at the  *)
(* approved preview writes no worktree and pushes nothing.                 *)
MovedRemoteStopsAll ==
  \A p \in Landers :
    land[p].pc \in {"merge", "ff", "rollback", "push"} \/ land[p].verdict = "landed"
      => \A r \in Repos : land[p].seen[r] = land[p].approved[r].remote

(* The invariant of lands that overlap: well formed, and none past its     *)
(* validation has met a remote that moved.                                 *)
LandInv == TypeOK /\ MovedRemoteStopsAll

(* A default branch never loses a commit but to the rollback of a land,    *)
(* which takes it back to the head that land had found, and to a pull that *)
(* resolves: that one loses no change, unless the branch has moved since   *)
(* the pull looked at it.                                                  *)
DefaultOnlyMovesForward ==
  [][\A r \in Repos :
       \/ IsPrefix(default[r], default'[r])
       \/ \E p \in Landers : /\ land[p].pc = "rollback"
                             /\ default'[r] = land[p].plan[r].original
       \/ /\ resolving[r] # NoLook /\ resolving'[r] = NoLook
          /\ default[r] = resolving[r].head => Contents(default[r]) \subseteq Contents(default'[r])]_vars

-----------------------------------------------------------------------------
(* The inductive invariant behind LandInv and AllOrNone.                   *)

(* A branch of the first n commits made. *)
BranchOf(n) == {b \in Seq(0 .. n) : Len(b) <= n + 1}

BranchesMade ==
  /\ \A r \in Repos : /\ {feature[r], default[r], remote[r]} \subseteq BranchOf(made)
                       /\ feature[r] # <<>>
  /\ \A p \in Landers, r \in Repos :
       {land[p].plan[r].tip, land[p].plan[r].original} \subseteq BranchOf(made)

Early == {"idle", "previewed", "preflight"}
Late  == {"merge", "ff", "rollback", "push"}

(* A lander l has a plan from its preflight on, of the remotes approved,   *)
(* and one that left a repo unrestored says so.                            *)
InOrder(l) ==
  /\ l.pc \in Early => l.plan = NoPlan
  /\ l.pc \in {"checks", "validate", "lift"} \cup Late \/ l.verdict = "landed" => l.plan # NoPlan
  /\ l.pc = "lift" => l.repo = 1
  /\ l.plan # NoPlan => \A r \in Repos : /\ l.plan[r].tip # <<>>
                                         /\ l.plan[r].remote = l.approved[r].remote
  /\ l.verdict # "none" <=> l.pc = "done"
  /\ l.unrestored # {} => l.pc = "rollback" \/ l.verdict \in {"partial", "died"}

(* A remote found where the plan has it is noted as seen there.            *)
SeenAsPlanned(l) ==
  \A r \in Repos :
    \/ /\ ~ l.moved
       /\ l.pc = "lift" \/ (l.pc = "validate" /\ r < l.repo)
    \/ l.pc \in Late \/ l.verdict = "landed"
    => l.seen[r] = l.plan[r].remote

(* Two branches that have anything in common have their first commit.      *)
Shares(a, b) == a # <<>> /\ b # <<>> /\ a[1] = b[1]

(* The feature's commits are nowhere else before some land has a plan.     *)
NothingLanded ==
  (\A p \in Landers : land[p].plan = NoPlan) =>
    \A r \in Repos : ~ Shares(feature[r], default[r]) /\ ~ Shares(feature[r], remote[r])

(* The repos a lander has merged and not rolled back, as it runs ...       *)
Merged(l, r) ==
  \/ l.pc \in {"merge", "ff"} /\ r < l.repo
  \/ l.pc = "push" \/ l.verdict = "landed"

(* ... or may have.                                                        *)
MayBeMerged(l, r) ==
  \/ Merged(l, r)
  \/ l.pc = "rollback" /\ l.back <= r /\ r < l.repo
  \/ r \in l.unrestored
  \/ l.verdict \in {"partial", "died"}

(* What l has not merged is on neither branch of the repo r: the local     *)
(* default d and the remote one m.                                         *)
TipIsOwn(l, r, d, m) ==
  /\ l.plan[r].original = <<>>
  /\ ~ MayBeMerged(l, r) => ~ Shares(l.plan[r].tip, d)
  /\ l.pc # "push" /\ l.verdict \notin {"landed", "died"} => ~ Shares(l.plan[r].tip, m)

TipsAreOwn ==
  \A p \in Landers : Alone(p) /\ land[p].plan # NoPlan =>
    \A r \in Repos : TipIsOwn(land[p], r, default[r], remote[r])

(* A pull that resolves has found on the remote all that the branch it     *)
(* looked at changes, and that branch is not empty again but by a rollback.*)
Looked(r) ==
  resolving[r] # NoLook =>
    /\ {resolving[r].head, resolving[r].tip} \subseteq BranchOf(made)
    /\ resolving[r].tip # <<>> /\ IsPrefix(resolving[r].tip, remote[r])
    /\ Contents(resolving[r].head) \subseteq Contents(resolving[r].tip)
    /\ \/ default[r] # <<>>
       \/ \E p \in Landers : land[p].plan # NoPlan /\ land[p].pc \in {"rollback", "done"}

(* What a land that is alone has merged is there by content, and will be   *)
(* after the pull under way.                                               *)
MergesKept ==
  \A p \in Landers : Alone(p) /\ land[p].plan # NoPlan =>
    \A r \in Repos : Merged(land[p], r) =>
      /\ Contents(land[p].plan[r].tip) \subseteq Contents(default[r])
      /\ resolving[r] # NoLook =>
           Contents(land[p].plan[r].tip) \subseteq Contents(resolving[r].tip)

IInv ==
  /\ TypeOK /\ BranchesMade
  /\ \A p \in Landers : InOrder(land[p]) /\ SeenAsPlanned(land[p])
  /\ NothingLanded /\ TipsAreOwn
  /\ \A r \in Repos : Looked(r)
  /\ MergesKept

-----------------------------------------------------------------------------
(* What the documentation says and the code does not do.                   *)

(* limitations-delivery.md: apply --land "merges every promoted repo        *)
(* locally or none".                                                       *)
LandedEverywhere == \A p \in Landers : LandedAll(p)

(* ADR-0004: what the guarantee does not cover "degrades to a named,       *)
(* reported partial state, never to silence": a rollback discards nothing  *)
(* but the commits of the land it undoes.                                  *)
RollbackDropsOnlyItsMerge ==
  [][\A r \in Repos, p \in Landers :
       land[p].pc = "rollback" /\ land'[p].back = land[p].back + 1 /\ default'[r] # default[r]
         => default[r] = land[p].plan[r].tip]_vars

(* ADR-0004: a repo whose checks fail refuses the batch, land "verifies at *)
(* least as strictly as push": what lands is what the checks ran on.       *)
LandsWhatWasChecked ==
  \A p \in Landers : land[p].verdict = "landed" =>
    \A r \in Repos : land[p].plan[r].tip = land[p].checked[r]

(* day-to-day.md: "if anything drifted since you looked, it refuses rather *)
(* than pushing something you did not review".                             *)
LandsWhatWasReviewed ==
  \A p \in Landers : land[p].verdict = "landed" =>
    \A r \in Repos : land[p].plan[r].tip = land[p].reviewed[r]

(* limitations-delivery.md: after a failed push "the local default is      *)
(* ahead of its remote until pushed".                                      *)
UnpushedIsAhead ==
  \A p \in Landers : land[p].verdict = "landed" =>
    \A r \in Repos \ land[p].pushed : IsPrefix(land[p].seen[r], default[r])
=============================================================================
