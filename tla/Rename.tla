------------------------------- MODULE Rename -------------------------------
(***************************************************************************)
(* `ivar feature rename`: a feature's name, its branch, or both change     *)
(* (src/action/feature/rename).                                            *)
(*                                                                         *)
(* A rename is a transition of numbered steps recorded in a marker file,   *)
(* `.renaming`, in the feature's directory, which itself moves.  Every     *)
(* run of the command first looks for a marker and resumes it; a failed    *)
(* forward step turns the transition back and ends the run, and the next   *)
(* run undoes the steps one by one.  The command takes no lock: other      *)
(* commands create features and colleagues push to the remotes meanwhile,  *)
(* and a run may die between any two of its file or git operations.        *)
(*                                                                         *)
(* "old" and "new" name the two identities: of the feature's directory, of *)
(* its branch, and of what its children and sessions refer to.  A branch   *)
(* of a remote is the set of its commits, empty when there is none; commit *)
(* 0 is the one this clone holds.                                          *)
(***************************************************************************)
EXTENDS Integers, FiniteSets, FiniteSetsExt

CONSTANTS
  Runs,         \* `ivar feature rename` processes, each run again and again
  RepoCount,    \* promoted repos, in name order
  KidCount,     \* subfeatures of the feature
  SessionCount, \* its live sessions
  Foreign,      \* where the new names may be taken: subset of {"dir", "branch", "remote"}
  MaxPushes,    \* bound: pushes by colleagues
  MaxCrashes,   \* bound: runs killed
  MaxFaults,    \* bound: commands that fail
  Nothing       \* no marker, no directory

ASSUME RenameAssumption ==
  /\ {RepoCount, KidCount, SessionCount, MaxPushes, MaxCrashes, MaxFaults} \subseteq Nat
  /\ Foreign \subseteq {"dir", "branch", "remote"}

VARIABLES
  want,    \* which of name and branch this rename changes
  at,      \* what is at each of the two directory paths
  record,  \* the identity in feature.json
  local,   \* whose the local branches are, per repo
  tree,    \* the path of the worktree, per repo
  remote,  \* the remote's branches, per repo
  kids,    \* the parent each subfeature names
  views,   \* the identity each session's state and view refer to
  layers,  \* the name the graph index keeps the feature's layers under
  marker,  \* the transition in each directory's .renaming
  run,     \* the progress of each run
  spent    \* pushes, crashes and faults so far

renameVars == <<want, at, record, local, tree, remote, kids, views, layers, marker, run, spent>>

disk == <<at, record, local, tree, remote, kids, views, layers>>

Names    == {"old", "new"}
Repos    == 1 .. RepoCount
Kids     == 1 .. KidCount
Sessions == 1 .. SessionCount
Commits  == 0 .. MaxPushes + 1

(* The steps, numbered as in the code.                                     *)
Initialize          == 0
RenameBranches      == 1
MoveWorktrees       == 2
RemoteOps           == 3
MoveFeatureDir      == 4
UpdateChildren      == 5
UpdateFeatureLayers == 6
MoveSessions        == 7
Finish              == 8

Transitions == [direction : {"forward", "back"}, step : Initialize .. Finish,
                tips : [Repos -> SUBSET Commits]]

(* Nothing is neither a transition nor a directory.                        *)
ASSUME NothingAssumption ==
  Nothing \notin Transitions /\ Nothing \notin {"feature", "old", "new"}

(* The identity after the rename.                                          *)
NewName   == IF want.name THEN "new" ELSE "old"
NewBranch == IF want.branch THEN "new" ELSE "old"

Identity(id) == IF id = "old" THEN [name |-> "old", branch |-> "old"]
                ELSE [name |-> NewName, branch |-> NewBranch]

(* The directory a path leads to: the feature's, or one that is something  *)
(* else, named by its path.                                                *)
Real(path)  == IF at[path] = "link" THEN "new" ELSE path
Dir(path)   == CASE at[Real(path)] = "feature" -> "feature"
                 [] at[Real(path)] = "other"   -> Real(path)
                 [] OTHER                      -> Nothing
IsDir(path) == Dir(path) # Nothing

MarkerPath == IF want.name /\ IsDir("new") THEN "new" ELSE "old"

(* The operations a step consists of, numbered in their order.             *)
Work(step) ==
  1 .. CASE step \in {RenameBranches, MoveWorktrees} -> RepoCount
         [] step = RemoteOps           -> 3 * RepoCount
         [] step = MoveFeatureDir      -> 3
         [] step = UpdateChildren      -> KidCount
         [] step = UpdateFeatureLayers -> 1
         [] step = MoveSessions        -> SessionCount
         [] OTHER                      -> 0

NoTips == [r \in Repos |-> {}]
NoRun  == [pc |-> "idle", anchor |-> "old", todo |-> {},
           t |-> [direction |-> "forward", step |-> Initialize, tips |-> NoTips]]

RenameInit ==
  /\ want \in {w \in [name : BOOLEAN, branch : BOOLEAN] : w.name \/ w.branch}
  /\ at = [old |-> "feature", new |-> "absent"]
  /\ record = Identity("old")
  /\ \E taken \in SUBSET (Foreign \cap {"branch"}) :
       local = [r \in Repos |-> [old |-> "ours",
                                 new |-> IF r = RepoCount /\ taken # {} THEN "theirs" ELSE "none"]]
  /\ tree = [r \in Repos |-> "old"]
  /\ \E published \in SUBSET Repos, taken \in SUBSET (Foreign \cap {"remote"}) :
       remote = [r \in Repos |-> [old |-> IF r \in published THEN {0} ELSE {},
                                  new |-> IF r = RepoCount /\ taken # {} THEN {MaxPushes + 1} ELSE {}]]
  /\ kids = [k \in Kids |-> "old"]
  /\ views = [s \in Sessions |-> "old"]
  /\ layers = "old"
  /\ marker = [d \in {"feature", "old", "new"} |-> Nothing]
  /\ run = [p \in Runs |-> NoRun]
  /\ spent = [pushes |-> 0, crashes |-> 0, faults |-> 0]

-----------------------------------------------------------------------------
(* The marker.                                                             *)

(* write_canonical makes the directory it writes into.                     *)
WriteMarker(path, t) ==
  IF IsDir(path)
  THEN marker' = [marker EXCEPT ![Dir(path)] = t] /\ UNCHANGED at
  ELSE marker' = [marker EXCEPT ![path] = t] /\ at' = [at EXCEPT ![path] = "other"]

Marked(path) == IsDir(path) /\ marker[Dir(path)] # Nothing

(* The transition of a run goes on at its step.                            *)
GoOn(p, path, t) ==
  run' = [run EXCEPT ![p] = [pc |-> "work", anchor |-> path, todo |-> Work(t.step), t |-> t]]

Ends(p) == run' = [run EXCEPT ![p] = NoRun]

(* A run that finds a marker resumes it; either path may sort first.       *)
Resume(p) ==
  /\ run[p].pc = "idle"
  /\ \E path \in Names : Marked(path) /\ GoOn(p, path, marker[Dir(path)])
  /\ UNCHANGED <<want, disk, marker, spent>>

(* Without a marker: the preflight, and the plan with the remote tips.     *)
Preflight(p) ==
  /\ run[p].pc = "idle"
  /\ \A path \in Names : ~ Marked(path)
  /\ Dir("old") = "feature" /\ record = Identity("old")
  /\ want.name => ~ IsDir("new")
  /\ \A r \in Repos : tree[r] = "old"
  /\ run' = [run EXCEPT ![p].pc = "planned",
                        ![p].t.tips = [r \in Repos |-> remote[r].old]]
  /\ UNCHANGED <<want, disk, marker, spent>>

Start(p) ==
  /\ run[p].pc = "planned"
  /\ WriteMarker("old", run[p].t)
  /\ GoOn(p, "old", run[p].t)
  /\ UNCHANGED <<want, record, local, tree, remote, kids, views, layers, spent>>

-----------------------------------------------------------------------------
(* One operation of a step, and how it ends.                               *)

Op(p) == Min(run[p].todo)

At(p, direction, step) ==
  /\ run[p].pc = "work" /\ run[p].todo # {}
  /\ run[p].t.direction = direction /\ run[p].t.step = step

Skips(p, ops) == run' = [run EXCEPT ![p].todo = @ \ ops] /\ UNCHANGED marker
Done(p) == Skips(p, {Op(p)})

(* A failed step turns the transition back, in the marker, and ends the    *)
(* run; a failed undo only ends the run.                                   *)
Fails(p) ==
  /\ IF run[p].t.direction = "forward"
     THEN WriteMarker(run[p].anchor, [run[p].t EXCEPT !.direction = "back"])
     ELSE UNCHANGED <<marker, at>>
  /\ Ends(p)
  /\ UNCHANGED <<record, local, tree, remote, kids, views, layers>>

(* Mutant: the branch is moved without looking whether it still is there.  *)
MoveBlindly(p, r, from, to) ==
  IF ~ want.branch THEN Done(p) /\ UNCHANGED disk
  ELSE IF local[r][from] = "none" \/ local[r][to] # "none" THEN Fails(p)
  ELSE /\ local' = [local EXCEPT ![r] = [@ EXCEPT ![from] = "none", ![to] = local[r][from]]]
       /\ Done(p)
       /\ UNCHANGED <<at, record, tree, remote, kids, views, layers>>

(* `git branch -m`, when the branch to move exists and the names differ.   *)
MoveBranch(p, r, from, to) ==
  IF ~ want.branch \/ local[r][from] = "none"
  THEN Done(p) /\ UNCHANGED disk
  ELSE IF local[r][to] # "none"
  THEN Fails(p)
  ELSE /\ local' = [local EXCEPT ![r] = [@ EXCEPT ![from] = "none", ![to] = local[r][from]]]
       /\ Done(p)
       /\ UNCHANGED <<at, record, tree, remote, kids, views, layers>>

MoveWorktree(p, r, from, to) ==
  /\ tree' = IF want.branch /\ tree[r] = from THEN [tree EXCEPT ![r] = to] ELSE tree
  /\ Done(p)
  /\ UNCHANGED <<at, record, local, remote, kids, views, layers>>

Branches(p) ==
  \/ At(p, "forward", RenameBranches) /\ MoveBranch(p, Op(p), "old", "new")
  \/ At(p, "back", RenameBranches) /\ MoveBranch(p, Op(p), "new", "old")
  \/ At(p, "forward", MoveWorktrees) /\ MoveWorktree(p, Op(p), "old", "new")
  \/ At(p, "back", MoveWorktrees) /\ MoveWorktree(p, Op(p), "new", "old")

(* The remote, three operations a repo: look, push, delete.                *)
RepoOf(p)  == ((Op(p) - 1) \div 3) + 1
PartOf(p)  == ((Op(p) - 1) % 3) + 1
RestOf(p)  == {i \in run[p].todo : i <= 3 * RepoOf(p)}
Tip(p)     == run[p].t.tips[RepoOf(p)]

SetRemote(r, branch, commits) ==
  /\ remote' = [remote EXCEPT ![r] = [@ EXCEPT ![branch] = commits]]
  /\ UNCHANGED <<at, record, local, tree, kids, views, layers>>

(* A plain push: of commits this clone holds, and only forward.            *)
CanPush(r, branch, tip) == tip \subseteq {0} /\ remote[r][branch] \subseteq tip

LookRemote(p) ==
  LET r == RepoOf(p) IN
  IF ~ want.branch \/ (remote[r].old = {} /\ remote[r].new # {})
  THEN Skips(p, RestOf(p)) /\ UNCHANGED disk
  ELSE IF remote[r].new # {}
  THEN Fails(p)                                       \* rename.remote_race
  ELSE IF Tip(p) = {}
  THEN Skips(p, RestOf(p)) /\ UNCHANGED disk
  ELSE Done(p) /\ UNCHANGED disk

PushNew(p) ==
  IF CanPush(RepoOf(p), "new", Tip(p))
  THEN SetRemote(RepoOf(p), "new", Tip(p)) /\ Done(p)
  ELSE Fails(p)

(* The delete holds a lease on the tip of the plan.                        *)
DeleteOld(p) ==
  IF remote[RepoOf(p)].old = Tip(p)
  THEN SetRemote(RepoOf(p), "old", {}) /\ Done(p)
  ELSE Fails(p)

RemoteForward(p) ==
  /\ At(p, "forward", RemoteOps)
  /\ CASE PartOf(p) = 1 -> LookRemote(p)
       [] PartOf(p) = 2 -> PushNew(p)
       [] PartOf(p) = 3 -> DeleteOld(p)

(* Mutant: the old branch is not pushed again.                             *)
LeaveUnpublished(p) ==
  (IF ~ want.branch \/ Tip(p) = {} THEN Skips(p, RestOf(p)) ELSE Done(p)) /\ UNCHANGED disk

(* Undoing: the old branch is pushed again when it is gone, and the new    *)
(* one is deleted with a lease on the tip it has at this moment.           *)
RepublishOld(p) ==
  LET r == RepoOf(p) IN
  IF ~ want.branch \/ Tip(p) = {}
  THEN Skips(p, RestOf(p)) /\ UNCHANGED disk
  ELSE IF remote[r].old # {}
  THEN Done(p) /\ UNCHANGED disk
  ELSE IF CanPush(r, "old", Tip(p))
  THEN SetRemote(r, "old", Tip(p)) /\ Done(p)
  ELSE Fails(p)

DeleteNew(p) == SetRemote(RepoOf(p), "new", {}) /\ Done(p)

RemoteBack(p) ==
  /\ At(p, "back", RemoteOps)
  /\ CASE PartOf(p) = 1 -> RepublishOld(p)
       [] PartOf(p) = 2 -> Done(p) /\ UNCHANGED disk
       [] PartOf(p) = 3 -> DeleteNew(p)

(* The directory, three operations: the directory itself, the link its old *)
(* path keeps until the end, and the identity in feature.json.  is_dir     *)
(* follows a link, and a rename never replaces a directory that holds      *)
(* files.                                                                  *)
MovedTo(path) == [id \in Names |-> IF id = path THEN "feature" ELSE "absent"]

SetIdentity(p, id) ==
  IF Dir(Identity(id).name) = "feature"
  THEN /\ record' = Identity(id)
       /\ Done(p)
       /\ UNCHANGED <<at, local, tree, remote, kids, views, layers>>
  ELSE Fails(p)

SetAt(p, paths) == at' = paths /\ Done(p) /\ UNCHANGED <<record, local, tree, remote, kids, views, layers>>

DirForward(p) ==
  /\ At(p, "forward", MoveFeatureDir)
  /\ CASE Op(p) = 1 ->
            IF ~ want.name \/ ~ IsDir("old") THEN Done(p) /\ UNCHANGED disk
            ELSE IF at = MovedTo("old") THEN SetAt(p, MovedTo("new"))
            ELSE Fails(p)
       [] Op(p) = 2 ->
            IF want.name /\ at.old = "absent" THEN SetAt(p, [at EXCEPT !.old = "link"])
            ELSE Done(p) /\ UNCHANGED disk
       [] Op(p) = 3 -> SetIdentity(p, "new")

DirBack(p) ==
  /\ At(p, "back", MoveFeatureDir)
  /\ CASE Op(p) = 1 ->
            IF want.name /\ at.old = "link" THEN SetAt(p, [at EXCEPT !.old = "absent"])
            ELSE Done(p) /\ UNCHANGED disk
       [] Op(p) = 2 ->
            IF ~ want.name \/ ~ IsDir("new") THEN Done(p) /\ UNCHANGED disk
            ELSE IF at = MovedTo("new") THEN SetAt(p, MovedTo("old"))
            ELSE Fails(p)
       [] Op(p) = 3 -> SetIdentity(p, "old")

(* What refers to the name: one record per subfeature, the index, one      *)
(* state and view per session.  An index that cannot be written is left.   *)
RepointKid(p, from, to) ==
  /\ kids' = IF want.name /\ kids[Op(p)] = from THEN [kids EXCEPT ![Op(p)] = to] ELSE kids
  /\ Done(p)
  /\ UNCHANGED <<at, record, local, tree, remote, views, layers>>

RenameLayers(p, from, to) ==
  /\ layers' \in IF want.name /\ layers = from THEN {from, to} ELSE {layers}
  /\ Done(p)
  /\ UNCHANGED <<at, record, local, tree, remote, kids, views>>

RefreshView(p, to) ==
  /\ views' = [views EXCEPT ![Op(p)] = to]
  /\ Done(p)
  /\ UNCHANGED <<at, record, local, tree, remote, kids, layers>>

Referrers(p) ==
  \/ At(p, "forward", UpdateChildren) /\ RepointKid(p, "old", "new")
  \/ At(p, "back", UpdateChildren) /\ RepointKid(p, "new", "old")
  \/ At(p, "forward", UpdateFeatureLayers) /\ RenameLayers(p, "old", "new")
  \/ At(p, "back", UpdateFeatureLayers) /\ RenameLayers(p, "new", "old")
  \/ At(p, "forward", MoveSessions) /\ RefreshView(p, "new")
  \/ At(p, "back", MoveSessions) /\ RefreshView(p, "old")

Operate(p) ==
  /\ Branches(p) \/ RemoteForward(p) \/ RemoteBack(p) \/ DirForward(p) \/ DirBack(p) \/ Referrers(p)
  /\ UNCHANGED <<want, spent>>

-----------------------------------------------------------------------------
(* Between two steps.                                                      *)

Through(p) == run[p].pc = "work" /\ run[p].todo = {}
NextStep(t) == IF t.direction = "forward" THEN t.step + 1 ELSE t.step - 1

Unmark(path) == marker' = IF IsDir(path) THEN [marker EXCEPT ![Dir(path)] = Nothing] ELSE marker

(* Mutant: the branches are not moved back.                                *)
UndoneButBranches(t) == t.direction = "back" /\ t.step <= MoveWorktrees

Undone(t) == t.direction = "back" /\ t.step = Initialize

(* The step is over: the marker says which comes next.                     *)
Advance(p) ==
  LET t == [run[p].t EXCEPT !.step = NextStep(run[p].t)] IN
  /\ Through(p) /\ run[p].t.step # Finish /\ ~ Undone(run[p].t)
  /\ WriteMarker(MarkerPath, t)
  /\ GoOn(p, MarkerPath, t)
  /\ UNCHANGED <<want, record, local, tree, remote, kids, views, layers, spent>>

(* Undone to the start: rename.rolled_back.                                *)
RolledBack(p) ==
  /\ Through(p) /\ Undone(run[p].t)
  /\ Unmark(run[p].anchor)
  /\ Ends(p)
  /\ UNCHANGED <<want, disk, spent>>

(* The finish: the link goes, then the marker.                             *)
Unlink(p) ==
  /\ Through(p) /\ run[p].t.step = Finish
  /\ at' = IF want.name /\ at.old = "link" THEN [at EXCEPT !.old = "absent"] ELSE at
  /\ run' = [run EXCEPT ![p].pc = "unlinked"]
  /\ UNCHANGED <<want, record, local, tree, remote, kids, views, layers, marker, spent>>

Renamed(p) ==
  /\ run[p].pc = "unlinked"
  /\ Unmark(MarkerPath)
  /\ Ends(p)
  /\ UNCHANGED <<want, disk, spent>>

-----------------------------------------------------------------------------
(* What else happens: failing commands, kills, colleagues.                 *)

(* Moving the directory, its link and the index aside, whose failures are  *)
(* those of a full or broken disk, any operation may fail.  A failed       *)
(* delete of the new branch is not looked at when undoing.                 *)
MayFail(p) ==
  /\ run[p].t.step # UpdateFeatureLayers
  /\ run[p].t.step = MoveFeatureDir => Op(p) = 3
  /\ run[p].t.step \in {RenameBranches, RemoteOps} => want.branch

Fault(p) ==
  /\ run[p].pc = "work" /\ run[p].todo # {} /\ MayFail(p)
  /\ spent.faults < MaxFaults
  /\ spent' = [spent EXCEPT !.faults = @ + 1]
  /\ IF run[p].t.step = RemoteOps /\ run[p].t.direction = "back" /\ PartOf(p) = 3
     THEN Done(p) /\ UNCHANGED disk
     ELSE Fails(p)
  /\ UNCHANGED want

Crash(p) ==
  /\ run[p].pc # "idle"
  /\ spent.crashes < MaxCrashes
  /\ spent' = [spent EXCEPT !.crashes = @ + 1]
  /\ Ends(p)
  /\ UNCHANGED <<want, disk, marker>>

(* `ivar feature create` with one of the two names.                        *)
CreateFeature(path) ==
  /\ "dir" \in Foreign /\ at[path] = "absent"
  /\ at' = [at EXCEPT ![path] = "other"]
  /\ UNCHANGED <<want, record, local, tree, remote, kids, views, layers, marker, run, spent>>

ColleaguePushes(r, branch) ==
  /\ spent.pushes < MaxPushes
  /\ remote[r][branch] # {} \/ ("remote" \in Foreign /\ branch = "new")
  /\ spent' = [spent EXCEPT !.pushes = @ + 1]
  /\ SetRemote(r, branch, remote[r][branch] \cup {spent.pushes + 1})
  /\ UNCHANGED <<want, marker, run>>

RunStep(p) == \/ Start(p) \/ Operate(p) \/ Advance(p) \/ RolledBack(p) \/ Unlink(p) \/ Renamed(p)

RenameNext ==
  \/ \E p \in Runs : Resume(p) \/ Preflight(p) \/ RunStep(p) \/ Fault(p) \/ Crash(p)
  \/ \E path \in Names : CreateFeature(path)
  \/ \E r \in Repos, branch \in Names : ColleaguePushes(r, branch)

RenameSpec == RenameInit /\ [][RenameNext]_renameVars

(* A run goes on when the system schedules it, and a person who is told    *)
(* that a rename failed runs it again.                                     *)
RenameFairSpec == RenameSpec /\ \A p \in Runs : WF_renameVars(RunStep(p)) /\ WF_renameVars(Resume(p))

-----------------------------------------------------------------------------
(* Properties.                                                             *)

RunStates == [pc : {"idle", "planned", "work", "unlinked"}, anchor : Names,
              todo : UNION {SUBSET Work(step) : step \in Initialize .. Finish},
              t : Transitions]

RenameTypeOK ==
  /\ want \in [name : BOOLEAN, branch : BOOLEAN]
  /\ at \in [Names -> {"feature", "link", "other", "absent"}]
  /\ record \in {Identity("old"), Identity("new")}
  /\ local \in [Repos -> [Names -> {"ours", "theirs", "none"}]]
  /\ tree \in [Repos -> Names]
  /\ remote \in [Repos -> [Names -> SUBSET Commits]]
  /\ kids \in [Kids -> Names]
  /\ views \in [Sessions -> Names]
  /\ layers \in Names
  /\ marker \in [{"feature", "old", "new"} -> Transitions \cup {Nothing}]
  /\ run \in [Runs -> RunStates]
  /\ spent \in [pushes : 0 .. MaxPushes, crashes : 0 .. MaxCrashes, faults : 0 .. MaxFaults]

Unmarked == \A d \in DOMAIN marker : marker[d] = Nothing
AtRest   == Unmarked /\ \A p \in Runs : run[p].pc \in {"idle", "planned"}

(* Everything that carries the identity in this hall carries `id`; the     *)
(* index is left out, its failures are ignored.                            *)
Wholly(id) ==
  LET name   == Identity(id).name
      branch == Identity(id).branch IN
  /\ at[name] = "feature" /\ \A path \in Names \ {name} : at[path] \in {"absent", "other"}
  /\ record = Identity(id)
  /\ \A r \in Repos : local[r][branch] = "ours" /\ tree[r] = branch
  /\ \A k \in Kids : kids[k] = name
  /\ \A s \in Sessions : views[s] = id

(* mod.rs: every consequence of a rename "moves together, or none of it    *)
(* does": whatever crashes, failures and reruns it took, without a marker  *)
(* this hall has the old identity everywhere or the new one everywhere.    *)
MovesTogether == AtRest => Wholly("old") \/ Wholly("new")

(* The invariant of a rename: well formed, and together whenever it rests. *)
RenameInv == RenameTypeOK /\ MovesTogether

(* No other feature has been created under one of the two names.           *)
Undisturbed == \A path \in Names : at[path] # "other"

(* A published branch is never unpublished: a rename that succeeds leaves  *)
(* its commits under the new name, one rolled back under the old name.     *)
NothingUnpublished ==
  [][\A p \in Runs, r \in Repos : want.branch /\ Undisturbed =>
       /\ Renamed(p) => run[p].t.tips[r] \subseteq remote[r].new
       /\ RolledBack(p) => run[p].t.tips[r] \subseteq remote[r].old]_renameVars

(* Rerunning gets rid of the marker, forward or back, unless a name was    *)
(* taken under the rename.                                                 *)
MarkerGoes ==
  []Undisturbed /\ (\A r \in Repos : local[r].new # "theirs")
    => (~ Unmarked ~> Unmarked)

-----------------------------------------------------------------------------
(* Why RenameInv and NothingUnpublished hold, for one run at a time: the   *)
(* hall is at rest, or one marker says how far it has moved, or another    *)
(* feature took a name and its directory keeps a second marker for good.   *)

OneRun == \A p, q \in Runs : p = q

(* What the rename does not change is as it was; the directory is at one   *)
(* of the two paths, a repo's branch under one of the two names.           *)
HallSound ==
  /\ want.name \/ want.branch
  /\ \/ at.old = "feature" /\ at.new \in {"absent", "other"}
     \/ want.name /\ at.new = "feature" /\ at.old \in {"absent", "link", "other"}
  /\ \A r \in Repos :
       \/ local[r].old = "ours" /\ local[r].new \in {"none", "theirs"}
       \/ want.branch /\ local[r].old = "none" /\ local[r].new = "ours"
  /\ ~ want.name => \A k \in Kids : kids[k] = "old"
  /\ ~ want.branch => \A r \in Repos : tree[r] = "old"

RunSound(p) ==
  /\ run[p].todo \subseteq Work(run[p].t.step)
  /\ run[p].pc \in {"idle", "planned"} =>
       run[p].t.direction = "forward" /\ run[p].t.step = Initialize

DirCarries(i, id) ==
  /\ i = 1 /\ id = "new" => at[NewName] = "feature"
  /\ i = 1 /\ id = "old" => at.old # "link"
  /\ i = 2 => at[Identity(id).name] = "feature"
  /\ i = 3 => record = Identity(id)

(* What operation i of a step moves carries the identity `id`.             *)
Carries(step, i, id) ==
  CASE step = RenameBranches -> local[i][Identity(id).branch] = "ours"
    [] step = MoveWorktrees  -> tree[i] = Identity(id).branch
    [] step = MoveFeatureDir -> DirCarries(i, id)
    [] step = UpdateChildren -> kids[i] = Identity(id).name
    [] step = MoveSessions   -> views[i] = id
    [] OTHER                 -> TRUE

Toward(t) == IF t.direction = "forward" THEN "new" ELSE "old"

(* The steps before the marker's are done, those after it are not.         *)
Placed(t) ==
  \A step \in Initialize .. Finish : \A i \in Work(step) :
    /\ step < t.step => Carries(step, i, "new")
    /\ step > t.step => Carries(step, i, "old")

(* The commits the plan found published are published.                     *)
StillPublished(t) ==
  want.branch => \A r \in Repos :
    /\ remote[r].old # {} => t.tips[r] \subseteq remote[r].old
    /\ t.direction = "forward" => t.tips[r] \subseteq remote[r].old \cup remote[r].new
    /\ t.step < RemoteOps => t.tips[r] \subseteq remote[r].old
    /\ t.step > RemoteOps => t.tips[r] \subseteq remote[r].new

(* A run at work has done the operations it has no more to do.             *)
DoneByRun(p) ==
  LET t == run[p].t
      did(i) == i \in Work(t.step) \ run[p].todo IN
  /\ \A i \in Work(t.step) : did(i) => Carries(t.step, i, Toward(t))
  /\ t.step = RemoteOps /\ want.branch => \A r \in Repos :
       /\ t.direction = "forward" /\ did(3 * r - 1) => t.tips[r] \subseteq remote[r].new
       /\ t.direction = "back" /\ did(3 * r - 2) => t.tips[r] \subseteq remote[r].old

(* The path the run goes by still leads to the feature's directory when it *)
(* has to write that it failed, or to remove the marker.                   *)
Anchored(p) ==
  LET t == run[p].t IN
  /\ t.direction = "forward" /\ run[p].anchor = "old" /\ at.old = "absent" =>
       t.step = MoveFeatureDir /\ 1 \notin run[p].todo /\ 2 \in run[p].todo
  /\ t.direction = "forward" /\ run[p].anchor = "new" => want.name /\ at.new = "feature"
  /\ t.step = MoveFeatureDir /\ 1 \in run[p].todo => 2 \in run[p].todo
  /\ Undone(t) => run[p].anchor = "old"

Rests ==
  /\ AtRest
  /\ \/ Wholly("old")
     \/ Wholly("new") /\ \A p \in Runs : run[p].pc = "idle"
  /\ \A p \in Runs, r \in Repos : run[p].pc = "planned" => run[p].t.tips[r] \subseteq remote[r].old

Moving ==
  LET t == marker["feature"] IN
  /\ t # Nothing /\ marker["old"] = Nothing /\ marker["new"] = Nothing
  /\ Placed(t) /\ StillPublished(t)
  /\ t.step = Finish => t.direction = "forward"
  /\ want.name /\ at.old = "feature" /\ at.new = "other" => Undone(t)
  /\ \A p \in Runs :
       /\ run[p].pc # "planned"
       /\ run[p].pc = "work" => run[p].t = t /\ DoneByRun(p) /\ Anchored(p)
       /\ run[p].pc = "unlinked" =>
            run[p].t = t /\ t.direction = "forward" /\ t.step = Finish /\ at.old # "link"

(* The old path's directory keeps a marker nothing can undo.               *)
Stuck ==
  LET t == marker[Dir("old")] IN
  /\ want.name /\ \A path \in Names : at[path] \in {"feature", "other"}
  /\ t # Nothing /\ ~ Undone(t)
  /\ \A p \in Runs :
       /\ run[p].pc # "planned"
       /\ run[p].pc = "work" /\ run[p].anchor = "old" => run[p].t = t

RenameIInv ==
  /\ RenameTypeOK /\ HallSound /\ \A p \in Runs : RunSound(p)
  /\ Rests \/ Moving \/ Stuck

-----------------------------------------------------------------------------
(* What the documentation says and the code does not do.                   *)

(* git/mod.rs on publish_remote_branch, "what keeps a rename from          *)
(* clobbering a branch someone else published": no commit disappears from  *)
(* a remote.                                                               *)
RemoteWorkSurvives ==
  [][\A r \in Repos : UNION {remote[r][b] : b \in Names} \subseteq UNION {remote'[r][b] : b \in Names}]_renameVars

(* mod.rs: "a crash at any point is safe to retry", every step does only   *)
(* the missing work: crashes alone never turn a rename back.               *)
CrashesOnlyDelay ==
  spent.faults = 0 /\ spent.pushes = 0 => \A d \in DOMAIN marker :
    marker[d] # Nothing => marker[d].direction = "forward"

(* mod.rs: the marker goes once the source state "is fully restored": a    *)
(* rename rolled back leaves nothing under the new name on a remote.       *)
RollbackIsComplete ==
  [][\A p \in Runs, r \in Repos : RolledBack(p) => 0 \notin remote[r].new]_renameVars
=============================================================================
