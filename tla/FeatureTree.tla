---------------------------- MODULE FeatureTree ----------------------------
(***************************************************************************)
(* The features of a hall and the tree their records form: the commands    *)
(* `ivar feature create`, `reparent`, `promote`, `delete`, `prune` and     *)
(* `cleanup` (src/action/feature).                                         *)
(*                                                                         *)
(* Nothing stores the tree.  A feature.json names its parent, and every    *)
(* command that needs the tree reads all the records and refuses when a    *)
(* parent is missing or a chain of parents is a cycle.  A tear-down first  *)
(* looks at the whole subtree and then removes it one feature at a time,   *)
(* each in several file and git operations.  No lock covers a command, and *)
(* a command may fail or be killed between any two operations, while       *)
(* agents and people go on editing, committing and opening sessions.       *)
(*                                                                         *)
(* There is one repo.  A feature's branch has the feature's name.          *)
(***************************************************************************)
EXTENDS Integers, FiniteSets

CONSTANTS
  FeatureCount, \* the feature names, in name order
  Procs,        \* the processes that run commands
  Workloads,    \* the commands each of them may run: the choices of Init
  Halls,        \* the features there are at first: the choices of Init
  MaxBegins,    \* bound: commands begun
  MaxTouches,   \* bound: things people and agents do
  MaxMishaps,   \* bound: commands killed, file and git operations that fail
  None

Features == 1 .. FeatureCount
Root     == 0  \* the parent of a feature that has none
(* A feature as create leaves it, one an agent works in, one whose work is *)
(* committed, one delivered, one delivered with a session still live.      *)
Conditions == {"new", "busy", "ready", "landed", "attended"}

Commands == {"create", "reparent", "promote", "delete", "force", "prune", "cleanup"}

ASSUME FeatureTreeAssumption ==
  /\ FeatureCount \in Nat
  /\ Workloads \subseteq [Procs -> SUBSET Commands]
  /\ \A h \in Halls : /\ h.parent \in [Features -> Features \cup {Root, None}]
                      /\ h.condition \in [Features -> Conditions]
  /\ {MaxBegins, MaxTouches, MaxMishaps} \subseteq Nat
  /\ None \notin Features \cup {Root}

VARIABLES
  ops,      \* the commands each process may run in this behaviour
  feature,  \* feature.json of each name
  rest,     \* what else its directory holds: documents, the close record
  sessions, \* the features with a live session
  work,     \* the worktree of each feature
  branch,   \* the branch of each feature
  approval, \* the cleanup record a person approved last
  proc,
  spent     \* what the bounds count

vars == <<ops, feature, rest, sessions, work, branch, approval, proc, spent>>
hall == <<feature, rest, sessions, work, branch>>

Records  == [parent : Features \cup {Root}, promoted : BOOLEAN]
Branches == [tip : 0 .. MaxTouches + 1, landed : BOOLEAN]  \* tip 0: no commit of its own

ASSUME NoRecordAssumption == None \notin Records \cup Branches

Idle == [pc |-> "idle", op |-> None, node |-> None, parent |-> None, copy |-> None,
         own |-> None, tree |-> <<>>, todo |-> {}, list |-> {}, touched |-> {}]

Init ==
  /\ ops \in Workloads
  /\ \E h \in Halls : LET c == h.condition IN
       /\ feature = [f \in Features |-> IF h.parent[f] = None THEN None
                                        ELSE [parent |-> h.parent[f], promoted |-> c[f] # "new"]]
       /\ sessions = {f \in Features : c[f] \in {"busy", "attended"}}
       /\ work = [f \in Features |-> CASE c[f] = "new" -> "none" [] c[f] = "busy" -> "dirty"
                                       [] OTHER -> "clean"]
       /\ branch = [f \in Features |-> CASE c[f] = "new" -> None
                                         [] c[f] = "busy" -> [tip |-> 0, landed |-> FALSE]
                                         [] OTHER -> [tip |-> 1, landed |-> c[f] \in {"landed", "attended"}]]
  /\ rest = [f \in Features |-> {}]
  /\ approval = None
  /\ proc = [p \in Procs |-> Idle]
  /\ spent = [begins |-> 0, touches |-> 0, mishaps |-> 0]

-----------------------------------------------------------------------------
(* The tree of the records: the parent each feature there is names.        *)

Tree == [f \in {g \in Features : feature[g] # None} |-> feature[f].parent]

(* The n-th ancestor of f; Root above a root and above a missing parent.   *)
Ancestor(tree, f) ==
  LET up[n \in 0 .. FeatureCount] ==
        IF n = 0 THEN f
        ELSE IF up[n - 1] \in DOMAIN tree THEN tree[up[n - 1]] ELSE Root
  IN up

Ancestors(tree, f)   == {Ancestor(tree, f)[n] : n \in 1 .. FeatureCount} \ {Root}
Descendants(tree, f) == {g \in DOMAIN tree : f \in Ancestors(tree, g)}
Depth(tree, f)       == Cardinality(Ancestors(tree, f))

(* validate_tree *)
Sound(tree) ==
  \A f \in DOMAIN tree : tree[f] \in DOMAIN tree \cup {Root} /\ f \notin Ancestors(tree, f)

(* A hall is the work of earlier commands. *)
ASSUME HallsSound ==
  \A h \in Halls : Sound([f \in {g \in Features : h.parent[g] # None} |-> h.parent[f]])

HasDir(f) == feature[f] # None \/ rest[f] # {} \/ f \in sessions

(* One more command; a command that refuses has done nothing.              *)
Begins(p, op, state) ==
  /\ proc[p].pc = "idle" /\ op \in ops[p] /\ spent.begins < MaxBegins
  /\ spent' = [spent EXCEPT !.begins = @ + 1]
  /\ proc' = [proc EXCEPT ![p] = state]
  /\ UNCHANGED <<ops, hall, approval>>

Goes(p, state) == proc' = [proc EXCEPT ![p] = state] /\ UNCHANGED <<ops, approval, spent>>
Ends(p) == Goes(p, Idle)

-----------------------------------------------------------------------------
(* create and reparent: everything is checked before the one write.        *)

BeginCreate(p) ==
  /\ proc[p].pc = "idle" /\ Sound(Tree)
  /\ \E f \in Features \ DOMAIN Tree, parent \in DOMAIN Tree \cup {Root} :
       Begins(p, "create", [Idle EXCEPT !.pc = "write", !.op = "create", !.node = f,
                                        !.copy = [parent |-> parent, promoted |-> FALSE]])

(* work_started *)
Pristine(f) ==
  /\ ~ feature[f].promoted
  /\ Descendants(Tree, f) = {}
  /\ rest[f] = {} /\ f \notin sessions

BeginReparent(p) ==
  /\ proc[p].pc = "idle" /\ Sound(Tree)
  /\ \E f, parent \in DOMAIN Tree :
    /\ parent # f /\ parent # Tree[f]
    /\ parent \notin Descendants(Tree, f)
    /\ Pristine(f)
    /\ Begins(p, "reparent", [Idle EXCEPT !.pc = "update", !.op = "reparent",
                                          !.node = f, !.parent = parent])

(* Feature::update reads the record again, under its lock.                 *)
Update(p) ==
  LET f == proc[p].node IN
  /\ proc[p].pc = "update"
  /\ IF feature[f] = None THEN Ends(p)
     ELSE Goes(p, [proc[p] EXCEPT !.pc = "write",
                     !.copy = IF proc[p].op = "reparent"
                              THEN [feature[f] EXCEPT !.parent = proc[p].parent]
                              ELSE [feature[f] EXCEPT !.promoted = TRUE]])
  /\ UNCHANGED hall

Write(p) ==
  /\ proc[p].pc = "write"
  /\ feature' = [feature EXCEPT ![proc[p].node] = proc[p].copy]
  /\ Ends(p)
  /\ UNCHANGED <<rest, sessions, work, branch>>

-----------------------------------------------------------------------------
(* promote: a branch, old or new, a worktree, and then the record.         *)

BeginPromote(p) ==
  \E f \in DOMAIN Tree :
    /\ ~ (feature[f].promoted /\ work[f] # "none")
    /\ Begins(p, "promote", [Idle EXCEPT !.pc = "materialise", !.op = "promote", !.node = f])

Materialise(p) ==
  LET f == proc[p].node IN
  /\ proc[p].pc = "materialise"
  /\ work' = IF work[f] = "none" THEN [work EXCEPT ![f] = "clean"] ELSE work
  /\ branch' = IF branch[f] = None THEN [branch EXCEPT ![f] = [tip |-> 0, landed |-> FALSE]]
               ELSE branch
  /\ Goes(p, [proc[p] EXCEPT !.pc = "update"])
  /\ UNCHANGED <<feature, rest, sessions>>

-----------------------------------------------------------------------------
(* delete.  The subtree is read, then looked at, then torn down.           *)

WorkAtRisk(f, record) == f \in sessions \/ (record.promoted /\ work[f] = "dirty")

AnyRisk(tree) == \E f \in DOMAIN tree : WorkAtRisk(f, tree[f])

(* What the command has read of the features it will remove.               *)
Reading(nodes) == [f \in nodes |-> feature[f]]

Subtree(f) == Descendants(Tree, f) \cup {f}

BeginDelete(p) ==
  /\ proc[p].pc = "idle" /\ Sound(Tree)
  /\ \E f \in DOMAIN Tree, op \in {"delete", "force"}, consent \in BOOLEAN :
    /\ consent \/ Subtree(f) = {f}
    /\ Begins(p, op, [Idle EXCEPT !.pc = "check", !.op = op,
                        !.tree = Reading(Subtree(f)), !.todo = Subtree(f)])

(* A tear-down that refuses or stops ends the command; a prune goes on.    *)
Stops(p) ==
  IF proc[p].op = "prune"
  THEN Goes(p, [proc[p] EXCEPT !.pc = "prune", !.node = None, !.todo = {}])
  ELSE Ends(p)

Check(p) ==
  /\ proc[p].pc = "check"
  /\ IF proc[p].op # "force" /\ AnyRisk(proc[p].tree) THEN Stops(p)
     ELSE Goes(p, [proc[p] EXCEPT !.pc = "worktree"])
  /\ UNCHANGED hall

-----------------------------------------------------------------------------
(* prune: the list is read once, deepest first; each feature is judged and *)
(* deleted on its own.                                                     *)

(* A branch that carries commits, all of them in its base.                 *)
Delivered(f) == branch[f] # None /\ branch[f].tip # 0 /\ branch[f].landed

Prunable(f, record) == record.promoted /\ f \notin sessions /\ Delivered(f)

BeginPrune(p) ==
  LET listed == {f \in Features : feature[f] # None} IN
  Begins(p, "prune", [Idle EXCEPT !.pc = "prune", !.op = "prune",
                        !.copy = Reading(listed), !.list = listed])

ListTree(p) == [f \in DOMAIN proc[p].copy |-> proc[p].copy[f].parent]

AnyOf(p) == proc[p].list  \* mutant: in no order

Deepest(p) == {f \in proc[p].list : \A g \in proc[p].list :
                 Depth(ListTree(p), g) <= Depth(ListTree(p), f)}

Judge(p) ==
  /\ proc[p].pc = "prune" /\ proc[p].list # {}
  /\ \E f \in Deepest(p) :
       LET shorter == [proc[p] EXCEPT !.list = @ \ {f}] IN
       IF Prunable(f, proc[p].copy[f])
       THEN Goes(p, [shorter EXCEPT !.pc = "judged", !.node = f])
       ELSE Goes(p, shorter)
  /\ UNCHANGED hall

DeleteJudged(p) ==
  LET f == proc[p].node IN
  /\ proc[p].pc = "judged"
  /\ IF feature[f] # None /\ Sound(Tree) /\ Subtree(f) = {f}
     THEN Goes(p, [proc[p] EXCEPT !.pc = "check", !.tree = Reading({f}), !.todo = {f}])
     ELSE Stops(p)
  /\ UNCHANGED hall

Pruned(p) ==
  /\ proc[p].pc = "prune" /\ proc[p].list = {}
  /\ Ends(p)
  /\ UNCHANGED hall

-----------------------------------------------------------------------------
(* cleanup.  A person approves a preview of the subtree; applying it makes *)
(* the preview again, which must be the same and free of blockers.         *)

(* It may be run from a session of a feature it removes, its own, which is *)
(* no blocker and goes with the feature.                                   *)
OwnSessions(f) == {None} \cup (sessions \cap Subtree(f))

LiveSession(f, own) == f \in sessions \ {own}

Abandoned(f) == "closed" \in rest[f]  \* its close record says abandoned

RootBlocked(f, own) ==
  \/ ~ feature[f].promoted \/ LiveSession(f, own)
  \/ work[f] # "clean" \/ branch[f] = None \/ ~ branch[f].landed

DescendantBlocked(f, own) ==
  \/ ~ ((feature[f].promoted /\ Delivered(f)) \/ Abandoned(f))
  \/ LiveSession(f, own)
  \/ feature[f].promoted /\ (work[f] = "dirty" \/ branch[f] = None)

Blocked(f, own) ==
  RootBlocked(f, own) \/ \E d \in Descendants(Tree, f) : DescendantBlocked(d, own)

Fingerprint(f) ==
  [d \in Subtree(f) |-> [record |-> feature[d], work |-> work[d], branch |-> branch[d]]]

(* Mutant: the record's fingerprint is not compared.                       *)
AnyApproval(f) == approval # None /\ approval.feature = f

Approved(f) == approval # None /\ approval.feature = f /\ approval.seen = Fingerprint(f)

Approve(f) ==
  /\ \E p \in Procs : "cleanup" \in ops[p]
  /\ feature[f] # None /\ Sound(Tree) /\ ~ Approved(f)
  /\ \E own \in OwnSessions(f) : ~ Blocked(f, own)
  /\ approval' = [feature |-> f, seen |-> Fingerprint(f)]
  /\ UNCHANGED <<ops, hall, proc, spent>>

BeginCleanup(p) ==
  /\ proc[p].pc = "idle" /\ Sound(Tree)
  /\ \E f \in DOMAIN Tree : \E own \in OwnSessions(f) :
    /\ Approved(f) /\ ~ Blocked(f, own)
    /\ Begins(p, "cleanup", [Idle EXCEPT !.pc = "worktree", !.op = "cleanup", !.own = own,
                               !.copy = approval.seen, !.tree = Reading(Subtree(f)), !.todo = Subtree(f)])

-----------------------------------------------------------------------------
(* The tear-down of one feature: its worktree, for a cleanup its branch,   *)
(* then its directory, whose files go one by one.                          *)

AnyNode(p) == proc[p].todo  \* mutant: the root may go first

Leaves(p) == {f \in proc[p].todo : \A g \in proc[p].todo : proc[p].tree[g].parent # f}

(* `git worktree remove --force`, for the repos the command has read.      *)
RemoveWorktree(p) ==
  /\ proc[p].pc = "worktree"
  /\ \E f \in Leaves(p) :
       /\ work' = IF proc[p].tree[f].promoted THEN [work EXCEPT ![f] = "none"] ELSE work
       /\ Goes(p, [proc[p] EXCEPT !.node = f, !.pc = IF proc[p].op = "cleanup" THEN "branch" ELSE "dir"])
  /\ UNCHANGED <<feature, rest, sessions, branch>>

(* `git branch -D` refuses a branch that is checked out.                   *)
RemoveBranch(p) ==
  LET f == proc[p].node IN
  /\ proc[p].pc = "branch"
  /\ IF proc[p].tree[f].promoted /\ branch[f] # None /\ work[f] # "none"
     THEN Stops(p) /\ UNCHANGED branch
     ELSE /\ branch' = IF proc[p].tree[f].promoted THEN [branch EXCEPT ![f] = None] ELSE branch
          /\ Goes(p, [proc[p] EXCEPT !.pc = "dir"])
  /\ UNCHANGED <<feature, rest, sessions, work>>

(* One feature less; after the last one the tear-down is over.             *)
NodeDone(p) ==
  IF proc[p].todo = {proc[p].node} THEN Stops(p)
  ELSE Goes(p, [proc[p] EXCEPT !.pc = "worktree", !.todo = @ \ {proc[p].node}])

RemoveFile(p) ==
  /\ proc[p].pc = "dir"
  /\ \E f \in {proc[p].node} :
       /\ \/ /\ feature[f] # None \/ ~ HasDir(f)
             /\ feature' = [feature EXCEPT ![f] = None]
             /\ UNCHANGED <<rest, sessions>>
          \/ /\ rest[f] # {} \/ f \in sessions
             /\ rest' = [rest EXCEPT ![f] = {}]
             /\ sessions' = sessions \ {f}
             /\ UNCHANGED feature
       /\ IF HasDir(f)' THEN UNCHANGED <<ops, approval, proc, spent>> ELSE NodeDone(p)
  /\ UNCHANGED <<work, branch>>

(* Mutant: a worktree that cannot be removed is passed over.               *)
PassedOver(p) ==
  /\ proc[p].pc = "worktree" /\ spent.mishaps < MaxMishaps
  /\ spent' = [spent EXCEPT !.mishaps = @ + 1]
  /\ \E f \in Leaves(p) : proc' = [proc EXCEPT ![p].pc = "dir", ![p].node = f]
  /\ UNCHANGED <<ops, hall, approval>>

(* An operation fails.  A worktree or a branch that stays stops the        *)
(* tear-down, a directory that stays the whole command.                    *)
Fault(p) ==
  /\ proc[p].pc \in {"worktree", "branch", "dir"}
  /\ spent.mishaps < MaxMishaps
  /\ proc[p].pc # "dir" => \E f \in proc[p].todo : proc[p].tree[f].promoted
  /\ spent' = [spent EXCEPT !.mishaps = @ + 1]
  /\ proc' = [proc EXCEPT ![p] =
                IF proc[p].pc # "dir" /\ proc[p].op = "prune"
                THEN [@ EXCEPT !.pc = "prune", !.node = None, !.todo = {}] ELSE Idle]
  /\ UNCHANGED <<ops, hall, approval>>

Dies(p) ==
  /\ proc[p].pc # "idle" /\ spent.mishaps < MaxMishaps
  /\ spent' = [spent EXCEPT !.mishaps = @ + 1]
  /\ proc' = [proc EXCEPT ![p] = Idle]
  /\ UNCHANGED <<ops, hall, approval>>

-----------------------------------------------------------------------------
(* What people and agents do meanwhile.                                    *)

Touches(f) ==
  /\ spent.touches < MaxTouches
  /\ spent' = [spent EXCEPT !.touches = @ + 1]
  /\ proc' = [p \in Procs |-> IF proc[p].pc = "idle" THEN proc[p]
                              ELSE [proc[p] EXCEPT !.touched = @ \cup {f}]]
  /\ UNCHANGED <<ops, feature, approval>>

Edits(f) ==
  /\ work[f] = "clean" /\ Touches(f)
  /\ work' = [work EXCEPT ![f] = "dirty"]
  /\ UNCHANGED <<rest, sessions, branch>>

Commits(f) ==
  /\ work[f] = "dirty" /\ Touches(f)
  /\ work' = [work EXCEPT ![f] = "clean"]
  /\ branch' = [branch EXCEPT ![f] = [tip |-> spent.touches + 2, landed |-> FALSE]]
  /\ UNCHANGED <<rest, sessions>>

Lands(f) ==
  /\ branch[f] # None /\ branch[f].tip # 0 /\ ~ branch[f].landed /\ Touches(f)
  /\ branch' = [branch EXCEPT ![f].landed = TRUE]
  /\ UNCHANGED <<rest, sessions, work>>

OpensSession(f) ==
  /\ feature[f] # None /\ f \notin sessions /\ Touches(f)
  /\ sessions' = sessions \cup {f}
  /\ UNCHANGED <<rest, work, branch>>

ClosesSession(f) ==
  /\ f \in sessions /\ Touches(f)
  /\ sessions' = sessions \ {f}
  /\ UNCHANGED <<rest, work, branch>>

WritesOrCloses(f) ==
  /\ feature[f] # None /\ Touches(f)
  /\ \E file \in {"docs", "closed"} \ rest[f] : rest' = [rest EXCEPT ![f] = @ \cup {file}]
  /\ UNCHANGED <<sessions, work, branch>>

Begin(p) ==
  \/ BeginCreate(p) \/ BeginReparent(p) \/ BeginPromote(p)
  \/ BeginDelete(p) \/ BeginPrune(p) \/ BeginCleanup(p)

Step(p) ==
  \/ Write(p) \/ Update(p) \/ Materialise(p)
  \/ Check(p) \/ Judge(p) \/ DeleteJudged(p) \/ Pruned(p)
  \/ RemoveWorktree(p) \/ RemoveBranch(p) \/ RemoveFile(p)

Touch(f) ==
  \/ Edits(f) \/ Commits(f) \/ Lands(f) \/ OpensSession(f) \/ ClosesSession(f) \/ WritesOrCloses(f)

Next ==
  \/ \E p \in Procs : Begin(p) \/ Step(p) \/ Fault(p) \/ Dies(p)
  \/ \E f \in Features : Touch(f) \/ Approve(f)

Spec == Init /\ [][Next]_vars

-----------------------------------------------------------------------------
(* Properties.                                                             *)

ProcTypeOK(state) ==
  /\ DOMAIN state = DOMAIN Idle
  /\ state.pc \in {"idle", "write", "update", "materialise", "check", "prune", "judged",
                   "worktree", "branch", "dir"}
  /\ state.op \in Commands \cup {None}
  /\ {state.node, state.parent, state.own} \subseteq Features \cup {None}
  /\ state.todo \subseteq Features /\ state.list \subseteq Features /\ state.touched \subseteq Features
  /\ DOMAIN state.tree \subseteq Features
  /\ \A f \in DOMAIN state.tree : state.tree[f] \in Records
  /\ state.pc \in {"check", "worktree", "branch", "dir"} => state.todo \subseteq DOMAIN state.tree
  /\ state.pc \in {"branch", "dir"} => state.node \in state.todo
  /\ state.pc \in {"write", "update", "materialise", "judged"} => state.node \in Features
  /\ state.pc \in {"materialise", "update"} /\ state.op = "reparent" => state.parent \in Features
  /\ state.pc = "write" => state.copy \in Records

(* A worktree always has its branch.                                       *)
TypeOK ==
  /\ ops \in [Procs -> SUBSET Commands]
  /\ feature \in [Features -> Records \cup {None}]
  /\ rest \in [Features -> SUBSET {"docs", "closed"}]
  /\ sessions \subseteq Features
  /\ work \in [Features -> {"none", "clean", "dirty"}]
  /\ branch \in [Features -> Branches \cup {None}]
  /\ \A f \in Features : work[f] # "none" => branch[f] # None
  /\ DOMAIN proc = Procs /\ \A p \in Procs : ProcTypeOK(proc[p])
  /\ spent \in [begins : 0 .. MaxBegins, touches : 0 .. MaxTouches,
                mishaps : 0 .. MaxMishaps]

(* The tree stays sound, or every command that reads it refuses: one       *)
(* command at a time, and between tear-downs that run at the same time,    *)
(* whatever fails or is killed halfway.                                    *)
TreeSound == Sound(Tree)

(* The invariant of the tree: well formed, without orphan or cycle.        *)
FeatureTreeInv == TypeOK /\ TreeSound

(* A record, the only trace of what was promoted, goes after the worktrees *)
(* it names: "the feature record is preserved in that case so the command  *)
(* can be retried" (delete.rs).                                            *)
WorktreeFirst ==
  [][\A f \in Features : feature[f] # None /\ feature'[f] = None /\ feature[f].promoted
       => work[f] = "none"]_vars

(* Without --force no tear-down destroys uncommitted work or a live        *)
(* session, in any feature of the subtree, unless it appeared while the    *)
(* command was already running; but for the session that runs a cleanup    *)
(* itself, which goes with its feature.                                    *)
KnownWorkSurvives ==
  [][\A p \in Procs, f \in Features :
       proc[p].op # "force" /\ (RemoveWorktree(p) \/ RemoveFile(p)) =>
         /\ work[f] = "dirty" /\ work'[f] = "none" => f \in proc[p].touched
         /\ f \in sessions \ sessions' => f \in proc[p].touched \cup {proc[p].own}]_vars

(* A cleanup removes a feature and its branch only as the person who       *)
(* approved it saw them, unless they moved while it was already running.   *)
CleanupAsApproved ==
  [][\A p \in Procs, f \in Features :
       /\ proc[p].op = "cleanup"
       /\ \/ feature[f] # None /\ feature'[f] = None /\ RemoveFile(p)
          \/ branch[f] # None /\ branch'[f] = None /\ RemoveBranch(p)
       => /\ f \in DOMAIN proc[p].copy
          /\ f \in proc[p].touched
             \/ IF branch[f] # branch'[f] THEN branch[f] = proc[p].copy[f].branch
                ELSE feature[f] = proc[p].copy[f].record]_vars

(* What a tear-down destroys is what the person who asked for it had been  *)
(* shown or had forced: nothing unsaved, nothing newer than an approval.   *)
OnlyWhatWasSeenGoes == KnownWorkSurvives /\ CleanupAsApproved

(* A prune takes a delivered subtree as a whole: none is left because a    *)
(* descendant, itself pruned, was still there when it was judged; as long  *)
(* as nothing fails and no other command runs.                             *)
PruneComplete ==
  [][\A p \in Procs : Pruned(p) /\ spent.mishaps = 0 /\ (\A q \in Procs \ {p} : ops[q] = {}) =>
       \A f \in Features :
         feature[f] # None /\ (\A d \in Subtree(f) : Prunable(d, feature[d]) /\ work[d] # "dirty")
         => Subtree(f) \cap proc[p].touched # {}]_vars

-----------------------------------------------------------------------------
(* The inductive invariant.  What a command knows of the tree is still so  *)
(* when it writes if no other command writes meanwhile.                    *)

TearDownCommands == {"delete", "force", "prune", "cleanup"}

(* One process runs commands, or all of them only tear down. *)
Orderly ==
  \A w \in Workloads :
    \/ \E p \in Procs : \A q \in Procs \ {p} : w[q] = {}
    \/ \A p \in Procs : w[p] \subseteq TearDownCommands

Tearing == {"check", "worktree", "branch", "dir"}

OpsAt(pc) ==
  CASE pc = "write"             -> {"create", "reparent", "promote"}
    [] pc = "update"            -> {"reparent", "promote"}
    [] pc = "materialise"       -> {"promote"}
    [] pc \in {"prune", "judged"} -> {"prune"}
    [] pc = "check"             -> {"delete", "force", "prune"}
    [] pc = "branch"            -> {"cleanup"}
    [] pc \in {"worktree", "dir"} -> TearDownCommands
    [] OTHER                    -> {}

(* Each process is at a step of a command it may run. *)
CommandsOK ==
  /\ ops \in Workloads
  /\ \A p \in Procs : proc[p].pc # "idle" => proc[p].op \in ops[p] \cap OpsAt(proc[p].pc)

Childless(f) == \A g \in DOMAIN Tree : Tree[g] # f

(* What create and reparent write is a leaf under a feature there is; what *)
(* promote writes keeps its parent.                                        *)
WritesLeaf ==
  \A p \in Procs :
    /\ proc[p].pc = "update" /\ proc[p].op = "reparent" =>
         /\ proc[p].parent \in DOMAIN Tree \ {proc[p].node}
         /\ Childless(proc[p].node)
    /\ proc[p].pc = "write" =>
         IF proc[p].op = "promote"
         THEN proc[p].node \in DOMAIN Tree /\ proc[p].copy.parent = Tree[proc[p].node]
         ELSE /\ proc[p].copy.parent \in (DOMAIN Tree \cup {Root}) \ {proc[p].node}
              /\ Childless(proc[p].node)

(* What a tear-down still has to remove is closed under subfeatures, its   *)
(* records are as it read them, and the one it is at has none.             *)
TearsLeaves ==
  \A p \in Procs : proc[p].pc \in Tearing =>
    /\ \A g \in DOMAIN Tree : Tree[g] \in proc[p].todo => g \in proc[p].todo
    /\ \A g \in DOMAIN Tree \cap proc[p].todo : feature[g] = proc[p].tree[g]
    /\ proc[p].pc \in {"branch", "dir"} =>
         /\ proc[p].node \in Leaves(p)
         /\ proc[p].tree[proc[p].node].promoted => work[proc[p].node] = "none"

(* Past its check a tear-down without --force has nothing unsaved before   *)
(* it but what appeared since.                                             *)
RiskSeen ==
  \A p \in Procs : proc[p].pc \in Tearing \ {"check"} /\ proc[p].op # "force" =>
    \A g \in proc[p].todo \ proc[p].touched :
      /\ ~ LiveSession(g, proc[p].own)
      /\ ~ (proc[p].tree[g].promoted /\ work[g] = "dirty")

(* A cleanup has before it what its approval saw. *)
ApprovalKnown ==
  \A p \in Procs : proc[p].pc \in Tearing /\ proc[p].op = "cleanup" =>
    \A g \in proc[p].todo :
      /\ g \in DOMAIN proc[p].copy /\ proc[p].copy[g].record = proc[p].tree[g]
      /\ g \in proc[p].touched \/ branch[g] \in {None, proc[p].copy[g].branch}

KnowsRisk == TypeOK /\ CommandsOK /\ RiskSeen

IInv == KnowsRisk /\ TreeSound /\ WritesLeaf /\ TearsLeaves /\ ApprovalKnown
=============================================================================
