---------------------------- MODULE Integration ----------------------------
(***************************************************************************)
(* Local integration of one child feature into its parent                  *)
(* (src/action/feature/integrate, close.rs, demote.rs, promote.rs).        *)
(*                                                                         *)
(* Each `ivar feature integrate` is one process.  It takes the parent's    *)
(* integrate.lock, reads the child's feature.json once, and then, repo by  *)
(* repo, stages a candidate, checks it, moves the parent branch, and       *)
(* records a receipt: first as failed evidence, then with the parent's     *)
(* checks.  Nothing else takes that lock: commits, rebases, sessions,      *)
(* `close`, `demote` and `promote` run between any two of its steps, and   *)
(* the process may stop at any of them.                                    *)
(*                                                                         *)
(* A branch of the parent is the sequence of its commits, and a commit is  *)
(* named by the sequence that ends in it, so "is an ancestor of" is        *)
(* IsPrefix.  The child's branch in a repo is a version number, and a      *)
(* parent commit says which version it brought, 0 for none.                *)
(***************************************************************************)
EXTENDS Integers, Sequences, FiniteSets, SequencesExt

CONSTANTS
  Runs,       \* `ivar feature integrate` processes
  Closers,    \* `ivar feature close` processes
  Promoters,  \* `ivar feature promote` processes
  Repos,      \* repositories, numbered in name order
  Strategy,   \* "squash", "merge" or "rebase"
  MaxVersion, \* bound: versions of the child's branch in a repo
  MaxMoves,   \* bound: changes to a parent branch made outside integration
  MaxChecks,  \* bound: versions of the manifest's checks
  None        \* no receipt, no lock holder, no repository

ASSUME IntegrationAssumption ==
  /\ Repos \subseteq Nat
  /\ IsFiniteSet(Repos)
  /\ Strategy \in {"squash", "merge", "rebase"}
  /\ MaxVersion \in Nat \ {0}
  /\ MaxMoves \in Nat
  /\ MaxChecks \in Nat \ {0}
  /\ None \notin Runs
  /\ None \notin Nat

VARIABLES
  child,    \* the version at the tip of the child's branch, per repo
  parent,   \* the parent's branch, per repo
  serial,   \* commits made on the parent's branch so far, per repo
  moves,    \* outside changes to the parent's branches so far
  checks,   \* the version of the manifest's checks
  record,   \* the child's feature.json: promoted repos and their receipts
  outcome,  \* the outcome on the child's plan.md, "open" while there is none
  session,  \* whether an unrestricted session of the child is live
  lock,     \* the holder of the parent's integrate.lock
  run,      \* each integrate's progress
  closer,   \* each close: "new", the outcome it is about to write, or "ended"
  promoter, \* each promote: None, or the repo it is about to record
  judged    \* history: the promotions that the last close let through as
            \* integrated asked the receipts of

vars == <<child, parent, serial, moves, checks, record, outcome, session, lock,
          run, closer, promoter, judged>>

git   == <<child, parent, serial, moves, checks>>
other == <<closer, promoter, judged>>

Outcomes == {"delivered", "integrated", "abandoned"}
Commits  == [id : Nat, ver : Nat]
Branches == Seq(Commits)
Receipts == [source : Nat, result : Branches, passed : BOOLEAN, checks : Nat]

(* A repo without a receipt cannot be taken for one with.                  *)
ASSUME NoReceiptAssumption == None \notin Receipts

(* A receipt lives in its repo's promotion.                                *)
Features ==
  {f \in [promoted : SUBSET Repos, receipt : [Repos -> Receipts \cup {None}]] :
     \A r \in Repos \ f.promoted : f.receipt[r] = None}

RunPcs   == {"new", "waiting", "preflight", "choose", "checkChild", "stage",
             "checkCandidate", "confirm", "apply", "readResult", "record",
             "checkParent", "reverify", "close", "writeClose", "ended"}
RunStates == [pc : RunPcs, child : Features, checks : Nat, todo : SUBSET Repos,
              broken : BOOLEAN, repo : Repos \cup {None}, source : Nat,
              base : Branches, staged : Branches, result : Branches]

NoFeature == [promoted |-> {}, receipt |-> [r \in Repos |-> None]]

Quiet(pc) == [pc |-> pc, child |-> NoFeature, checks |-> 0, todo |-> {},
              broken |-> FALSE, repo |-> None, source |-> 0,
              base |-> <<>>, staged |-> <<>>, result |-> <<>>]

TypeOK ==
  /\ child \in [Repos -> Nat]
  /\ parent \in [Repos -> Branches]
  /\ serial \in [Repos -> Nat]
  /\ moves \in Nat
  /\ checks \in Nat
  /\ record \in Features
  /\ outcome \in Outcomes \cup {"open"}
  /\ session \in BOOLEAN
  /\ lock \in Runs \cup {None}
  /\ run \in [Runs -> RunStates]
  /\ closer \in [Closers -> Outcomes \cup {"new", "ended"}]
  /\ promoter \in [Promoters -> Repos \cup {None}]
  /\ judged \in SUBSET Repos

Init ==
  /\ child = [r \in Repos |-> 1]
  /\ parent = [r \in Repos |-> <<[id |-> 0, ver |-> 0]>>]
  /\ serial = [r \in Repos |-> 0]
  /\ moves = 0
  /\ checks = 1
  /\ record = [NoFeature EXCEPT !.promoted = Repos]
  /\ outcome = "open"
  /\ session = FALSE
  /\ lock = None
  /\ run = [p \in Runs |-> Quiet("new")]
  /\ closer = [c \in Closers |-> "new"]
  /\ promoter = [m \in Promoters |-> None]
  /\ judged = {}

-----------------------------------------------------------------------------
(* Git, and what the records say.                                          *)

Carries(branch, v) == \E i \in DOMAIN branch : branch[i].ver >= v

(* A version the branch already carries adds nothing.                      *)
Merged(branch, v, id) ==
  IF Carries(branch, v) THEN branch ELSE Append(branch, [id |-> id, ver |-> v])

(* `merge --squash` stages nothing in that case and its commit is refused; *)
(* `merge --no-ff` and a rebase succeed without a commit.                  *)
MergeRefused(branch, v) == Strategy = "squash" /\ Carries(branch, v)

HasReceipt(feature, r) == feature.receipt[r] # None

Passed(feature, r) == HasReceipt(feature, r) /\ feature.receipt[r].passed

HasAnyReceipt(feature) == \E r \in Repos : HasReceipt(feature, r)

AllPassed(feature) ==
  feature.promoted # {} /\ \A r \in feature.promoted : Passed(feature, r)

(* ensure_failed_receipt_still_current                                     *)
SourceUnmoved(receipt, r) == child[r] = receipt.source  \* mutant: the result may be gone

StillCurrent(receipt, r) ==
  child[r] = receipt.source /\ IsPrefix(receipt.result, parent[r])

(* receipt_freshness, against the manifest the process read.               *)
Fresh(receipt, r, manifest) ==
  receipt.passed /\ receipt.checks = manifest /\ StillCurrent(receipt, r)

-----------------------------------------------------------------------------
(* One integrate: before its repos.                                        *)

Become(p, pc) == run' = [run EXCEPT ![p].pc = pc]

End(p) == run' = [run EXCEPT ![p] = Quiet("ended")]

Release(p) == lock' = IF lock = p THEN None ELSE lock

GoOrEnd(p, go, pc) == IF go THEN Become(p, pc) /\ UNCHANGED lock
                            ELSE End(p) /\ Release(p)

(* The manifest is read before the lock, the child again under it.         *)
Begin(p) ==
  /\ run[p].pc = "new"
  /\ run' = [run EXCEPT ![p].pc = "waiting", ![p].checks = checks]
  /\ UNCHANGED <<git, record, outcome, session, lock, other>>

TakeLock(p) ==
  /\ run[p].pc = "waiting"
  /\ lock = None
  /\ lock' = p
  /\ run' = [run EXCEPT ![p].pc = "preflight", ![p].child = record,
                        ![p].todo = record.promoted]
  /\ UNCHANGED <<git, record, outcome, session, other>>

SessionConflict(feature) == session /\ ~HasAnyReceipt(feature)

(* Every receipt must be usable before any repo is touched.                *)
PreflightRepo(feature, r, manifest) ==
  HasReceipt(feature, r) =>
    IF Passed(feature, r) THEN Fresh(feature.receipt[r], r, manifest)
                          ELSE StillCurrent(feature.receipt[r], r)

Accepted(p) ==
  /\ ~SessionConflict(run[p].child)
  /\ \A r \in run[p].todo : PreflightRepo(run[p].child, r, run[p].checks)

Preflight(p) ==
  /\ run[p].pc = "preflight"
  /\ GoOrEnd(p, Accepted(p), "choose")
  /\ UNCHANGED <<git, record, outcome, session, other>>

-----------------------------------------------------------------------------
(* One integrate: one repo.                                                *)

NextRepo(p) == CHOOSE r \in run[p].todo : \A q \in run[p].todo : r <= q

RepoStays(p, broke) ==  \* mutant: the repo is never taken off the list
  run' = [run EXCEPT ![p] =
    [Quiet("choose") EXCEPT !.child = record', !.checks = run[p].checks,
                            !.todo = run[p].todo, !.broken = run[p].broken \/ broke]]

(* The repo is done; the child's record is read again for the next one.    *)
RepoDone(p, broke) ==
  run' = [run EXCEPT ![p] =
    [Quiet("choose") EXCEPT !.child = record', !.checks = run[p].checks,
                            !.todo = run[p].todo \ {NextRepo(p)},
                            !.broken = run[p].broken \/ broke]]

(* integrate_repo reads the tip of the child's branch and turns on the     *)
(* receipt in the record it holds.                                         *)
Take(p, pc) ==
  run' = [run EXCEPT ![p].pc = pc, ![p].repo = NextRepo(p), ![p].source = child[NextRepo(p)]]

ReuseReceipt(p) ==
  /\ run[p].pc = "choose"
  /\ run[p].todo # {}
  /\ Passed(run[p].child, NextRepo(p))
  /\ Fresh(run[p].child.receipt[NextRepo(p)], NextRepo(p), run[p].checks)
  /\ UNCHANGED <<git, record, outcome, session, lock, other>>
  /\ RepoDone(p, FALSE)

TakeFailed(p) ==
  /\ run[p].pc = "choose"
  /\ run[p].todo # {}
  /\ HasReceipt(run[p].child, NextRepo(p))
  /\ ~Passed(run[p].child, NextRepo(p))
  /\ StillCurrent(run[p].child.receipt[NextRepo(p)], NextRepo(p))
  /\ Take(p, "reverify")
  /\ UNCHANGED <<git, record, outcome, session, lock, other>>

TakeUnreceipted(p) ==
  /\ run[p].pc = "choose"
  /\ run[p].todo # {}
  /\ ~HasReceipt(run[p].child, NextRepo(p))
  /\ Take(p, "checkChild")
  /\ UNCHANGED <<git, record, outcome, session, lock, other>>

(* Failing checks of the child or of the candidate leave the repo as it is. *)
RunChecks(p, at, next) ==
  /\ run[p].pc = at
  /\ UNCHANGED <<git, record, outcome, session, lock, other>>
  /\ Become(p, next) \/ RepoDone(p, FALSE)

CheckChild(p) == RunChecks(p, "checkChild", "stage")

(* The candidate is built on the parent's tip from the child's branch by   *)
(* name; a rebase alone starts from the commit read as the source.         *)
Brought(p) == IF Strategy = "rebase" THEN run[p].source ELSE child[run[p].repo]

Stage(p) ==
  LET r == run[p].repo IN
  /\ run[p].pc = "stage"
  /\ ~MergeRefused(parent[r], Brought(p))
  /\ run' = [run EXCEPT ![p].pc = "checkCandidate", ![p].base = parent[r],
                        ![p].staged = Merged(parent[r], Brought(p), serial[r] + 1)]
  /\ UNCHANGED <<git, record, outcome, session, lock, other>>

CheckCandidate(p) == RunChecks(p, "checkCandidate", "confirm")

ConfirmParent(p) ==
  /\ run[p].pc = "confirm"
  /\ parent[run[p].repo] = run[p].base
  /\ Become(p, "apply")
  /\ UNCHANGED <<git, record, outcome, session, lock, other>>

MergesByName(p, branch) ==  \* mutant: every strategy merges the branch as it is now
  Merged(branch, child[run[p].repo], serial[run[p].repo] + 1)

(* git merge --ff-only refuses a branch that diverged, and leaves one that *)
(* is ahead of the revision where it is.                                   *)
FastForwards(branch, revision) == IsPrefix(branch, revision) \/ IsPrefix(revision, branch)

(* A rebase fast-forwards the parent to the staged branch; the others      *)
(* merge the child's branch again, as it is now.                           *)
Applied(p, branch) ==
  IF Strategy = "rebase"
    THEN IF IsPrefix(run[p].staged, branch) THEN branch ELSE run[p].staged
    ELSE Merged(branch, Brought(p), serial[run[p].repo] + 1)

Apply(p) ==
  LET r == run[p].repo IN
  /\ run[p].pc = "apply"
  /\ ~MergeRefused(parent[r], Brought(p))
  /\ Strategy = "rebase" => FastForwards(parent[r], run[p].staged)
  /\ parent' = [parent EXCEPT ![r] = Applied(p, @)]
  /\ serial' = [serial EXCEPT ![r] = @ + 1]
  /\ Become(p, "readResult")
  /\ UNCHANGED <<child, moves, checks, record, outcome, session, lock, other>>

ReadResult(p) ==
  /\ run[p].pc = "readResult"
  /\ run' = [run EXCEPT ![p].pc = "record", ![p].result = parent[run[p].repo]]
  /\ UNCHANGED <<git, record, outcome, session, lock, other>>

(* persist_receipt: a repo demoted meanwhile takes no receipt.             *)
PersistReceipt(r, receipt) ==
  record' = IF r \in record.promoted THEN [record EXCEPT !.receipt[r] = receipt]
                                     ELSE record

ReceiptOf(p, passed) ==
  [source |-> run[p].source, result |-> run[p].result, passed |-> passed,
   checks |-> run[p].checks]

RecordPassed(p) ==  \* mutant: the provisional receipt reads as passing
  /\ run[p].pc = "record"
  /\ PersistReceipt(run[p].repo, ReceiptOf(p, TRUE))
  /\ Become(p, "checkParent")
  /\ UNCHANGED <<git, outcome, session, lock, other>>

RecordPending(p) ==
  /\ run[p].pc = "record"
  /\ PersistReceipt(run[p].repo, ReceiptOf(p, FALSE))
  /\ Become(p, "checkParent")
  /\ UNCHANGED <<git, outcome, session, lock, other>>

CheckParent(p) ==
  /\ run[p].pc = "checkParent"
  /\ \E passed \in BOOLEAN : PersistReceipt(run[p].repo, ReceiptOf(p, passed))
  /\ RepoDone(p, FALSE)
  /\ UNCHANGED <<git, outcome, session, lock, other>>

Reverified(p, receipt, passed) ==
  [receipt EXCEPT !.passed = passed, !.checks = run[p].checks]

Reverify(p) ==
  LET receipt == run[p].child.receipt[run[p].repo] IN
  /\ run[p].pc = "reverify"
  /\ \E passed \in BOOLEAN :
       PersistReceipt(run[p].repo, Reverified(p, receipt, passed))
  /\ RepoDone(p, FALSE)
  /\ UNCHANGED <<git, outcome, session, lock, other>>

(* A stale receipt, a conflict, a parent that moved, or any git or file    *)
(* error: this repo stops here, the batch goes on and fails at the end.    *)
RepoBreaks(p) ==
  /\ \/ run[p].pc \in {"checkChild", "stage", "checkCandidate", "confirm", "apply",
                       "readResult", "record", "checkParent", "reverify"}
     \/ run[p].pc = "choose" /\ run[p].todo # {}
  /\ UNCHANGED <<git, record, outcome, session, lock, other>>
  /\ RepoDone(p, TRUE)

-----------------------------------------------------------------------------
(* One integrate: after its repos.                                         *)

AllFresh(p) ==
  /\ record.promoted # {}
  /\ \A r \in record.promoted :
       HasReceipt(record, r) /\ Fresh(record.receipt[r], r, run[p].checks)

Finished(p) == run[p].pc = "choose" /\ run[p].todo = {}

ToClose(p) == ~run[p].broken /\ outcome = "open" /\ AllFresh(p)

FinalState(p) ==
  /\ Finished(p)
  /\ GoOrEnd(p, ToClose(p), "close")
  /\ UNCHANGED <<git, record, outcome, session, other>>

CloseUnevidenced(o) == outcome = "open"  \* mutant: a direct close needs no receipts

(* close_in's gates, read again from disk.                                 *)
MayClose(o) == outcome = "open" /\ (o = "integrated" => AllPassed(record))

CheckClose(p) ==
  /\ run[p].pc = "close"
  /\ GoOrEnd(p, MayClose("integrated"), "writeClose")
  /\ judged' = IF MayClose("integrated") THEN record.promoted ELSE judged
  /\ UNCHANGED <<git, record, outcome, session, closer, promoter>>

WriteClose(p) ==
  /\ run[p].pc = "writeClose"
  /\ outcome' = "integrated"
  /\ session' = FALSE
  /\ End(p)
  /\ Release(p)
  /\ UNCHANGED <<git, record, other>>

(* Killed, or refused for a reason outside this model (plan gate, blocking *)
(* descendants, a dirty worktree): the lock goes with the process.         *)
Stop(p) ==
  /\ run[p].pc \notin {"new", "ended"}
  /\ End(p)
  /\ Release(p)
  /\ UNCHANGED <<git, record, outcome, session, other>>

RunStep(p) ==
  \/ Begin(p) \/ TakeLock(p) \/ Preflight(p)
  \/ ReuseReceipt(p) \/ TakeFailed(p) \/ TakeUnreceipted(p)
  \/ CheckChild(p) \/ Stage(p) \/ CheckCandidate(p) \/ ConfirmParent(p)
  \/ Apply(p) \/ ReadResult(p) \/ RecordPending(p) \/ CheckParent(p)
  \/ Reverify(p) \/ RepoBreaks(p)
  \/ FinalState(p) \/ CheckClose(p) \/ WriteClose(p)

-----------------------------------------------------------------------------
(* The other commands, which take no integration lock.                     *)

CloseChecks(c, o) ==
  /\ closer[c] = "new"
  /\ MayClose(o)
  /\ closer' = [closer EXCEPT ![c] = o]
  /\ judged' = IF o = "integrated" THEN record.promoted ELSE judged
  /\ UNCHANGED <<git, record, outcome, session, lock, run, promoter>>

CloseWrites(c) ==
  /\ closer[c] \in Outcomes
  /\ outcome' = closer[c]
  /\ session' = FALSE
  /\ closer' = [closer EXCEPT ![c] = "ended"]
  /\ UNCHANGED <<git, record, lock, run, promoter, judged>>

(* ensure_promotion_mutable, inside Feature::update.                       *)
Demote(r) ==
  /\ r \in record.promoted
  /\ outcome # "integrated"
  /\ ~Passed(record, r)
  /\ record' = [promoted |-> record.promoted \ {r},
                receipt |-> [record.receipt EXCEPT ![r] = None]]
  /\ UNCHANGED <<git, outcome, session, lock, run, other>>

(* ensure_structure_mutable is asked first, on a record read outside the   *)
(* feature's lock; cloning and the worktree come in between.               *)
PromoteChecks(m, r) ==
  /\ promoter[m] = None
  /\ r \notin record.promoted
  /\ outcome # "integrated"
  /\ ~HasAnyReceipt(record)
  /\ promoter' = [promoter EXCEPT ![m] = r]
  /\ UNCHANGED <<git, record, outcome, session, lock, run, closer, judged>>

PromoteRecords(m) ==
  /\ promoter[m] # None
  /\ record' = [record EXCEPT !.promoted = @ \cup {promoter[m]}]
  /\ promoter' = [promoter EXCEPT ![m] = None]
  /\ UNCHANGED <<git, outcome, session, lock, run, closer, judged>>

(* ensure_unrestricted_session_allowed                                     *)
StartSession ==
  /\ ~session
  /\ outcome # "integrated"
  /\ \A r \in record.promoted : ~Passed(record, r)
  /\ session' = TRUE
  /\ UNCHANGED <<git, record, outcome, lock, run, other>>

StopSession ==
  /\ session
  /\ session' = FALSE
  /\ UNCHANGED <<git, record, outcome, lock, run, other>>

-----------------------------------------------------------------------------
(* Git outside integration.                                                *)

Unmoved == UNCHANGED <<record, outcome, session, lock, run, other>>

ChildCommits(r) ==
  /\ child[r] < MaxVersion
  /\ child' = [child EXCEPT ![r] = @ + 1]
  /\ UNCHANGED <<parent, serial, moves, checks>>
  /\ Unmoved

MoveParent(r, branch) ==
  /\ moves < MaxMoves
  /\ moves' = moves + 1
  /\ parent' = [parent EXCEPT ![r] = branch]
  /\ serial' = [serial EXCEPT ![r] = @ + 1]
  /\ UNCHANGED <<child, checks>>
  /\ Unmoved

(* A commit of the parent's own, or of a sibling's integration.            *)
ParentCommits(r) ==
  MoveParent(r, Append(parent[r], [id |-> serial[r] + 1, ver |-> 0]))

(* `ivar feature rebase` of the parent: every commit is made anew.         *)
ParentRebases(r) ==
  MoveParent(r, [i \in DOMAIN parent[r] |-> [parent[r][i] EXCEPT !.id = serial[r] + 1]])

(* A reset drops commits; not in the instant between the merge and the     *)
(* rev-parse that reads its result.                                        *)
ParentResets(r) ==
  /\ Len(parent[r]) > 1
  /\ \A p \in Runs : ~(run[p].pc = "readResult" /\ run[p].repo = r)
  /\ MoveParent(r, SubSeq(parent[r], 1, Len(parent[r]) - 1))

EditChecks ==
  /\ checks < MaxChecks
  /\ checks' = checks + 1
  /\ UNCHANGED <<child, parent, serial, moves>>
  /\ Unmoved

Outside ==
  \/ \E c \in Closers : CloseWrites(c) \/ \E o \in Outcomes : CloseChecks(c, o)
  \/ \E m \in Promoters : PromoteRecords(m) \/ \E r \in Repos : PromoteChecks(m, r)
  \/ \E r \in Repos : \/ Demote(r) \/ ChildCommits(r)
                      \/ ParentCommits(r) \/ ParentRebases(r) \/ ParentResets(r)
  \/ StartSession \/ StopSession \/ EditChecks

Next == (\E p \in Runs : RunStep(p) \/ Stop(p)) \/ Outside

Spec == Init /\ [][Next]_vars

(* The operating system schedules every process, and a lock whose holder   *)
(* is gone is handed on.                                                   *)
FairSpec == Spec /\ \A p \in Runs : WF_vars(RunStep(p))

-----------------------------------------------------------------------------
(* Properties.                                                             *)

(* A receipt that still counts as fresh is never a lie about the parent:   *)
(* the parent's branch carries the child's current tip.                    *)
FreshMeansCarried ==
  \A r \in Repos :
    HasReceipt(record, r) /\ Fresh(record.receipt[r], r, checks)
      => Carries(parent[r], child[r])

(* The invariant of an integration: the records are well formed, and a     *)
(* receipt that counts as fresh is never a lie about the parent.           *)
IntegrationInv == TypeOK /\ FreshMeansCarried

(* Passing evidence is final: once a promotion holds a passing receipt, no *)
(* command rewrites or drops it, however many integrates, demotes and      *)
(* promotes were already under way.                                        *)
PassingReceiptIsFinal ==
  [][\A r \in Repos : Passed(record, r) =>
       HasReceipt(record', r) /\ record'.receipt[r] = record.receipt[r]]_vars

(* What lands on the parent is what was checked: an integrate moves the    *)
(* parent's branch to the content of its passing candidate, or leaves it   *)
(* alone where it has gone on beyond that candidate.                       *)
Content(branch) == [i \in DOMAIN branch |-> branch[i].ver]

OnlyTheCheckedCandidateLands ==
  [][\A p \in Runs : run[p].pc = "apply" /\ run'[p].pc = "readResult" =>
       LET before == parent[run[p].repo]
           after  == parent'[run[p].repo]
       IN \/ Content(after) = Content(run[p].staged)
          \/ after = before /\ IsPrefix(run[p].staged, before)]_vars

(* A child closed as integrated holds a passing receipt on every promotion *)
(* its close judged, however closes, integrates, demotes and promotes      *)
(* interleave (close.rs, "The `integrated` outcome").  A repo may have     *)
(* joined since, by a promote that asked before the first receipt: see     *)
(* MembershipFrozen.                                                       *)
Evidenced == judged # {} /\ \A r \in judged : r \in record.promoted /\ Passed(record, r)

IntegratedIsReceipted == outcome = "integrated" => Evidenced

(* The recorded outcome is never overwritten (close.rs, "Idempotency").    *)
OutcomeIsFinal == [][outcome # "open" => outcome' = outcome]_vars

(* Every integrate that starts ends, whatever happens around it.           *)
EveryRunEnds == \A p \in Runs : run[p].pc = "waiting" ~> run[p].pc = "ended"

(* A direct close as "integrated" is let through only over fresh passing   *)
(* receipts (close.rs, "The `integrated` outcome").                        *)
ClosesOnlyFresh ==
  [][\A c \in Closers : closer[c] = "new" /\ closer'[c] = "integrated" =>
       \A r \in record.promoted :
         HasReceipt(record, r) /\ Fresh(record.receipt[r], r, checks)]_vars

(* No integrate that could record the child's first passing receipt gets   *)
(* past its preflight while an unrestricted session is live                *)
(* (integrate/preflight.rs).                                               *)
NoSessionBeforeFirstPass ==
  [][\A p \in Runs : run[p].pc = "preflight" /\ run'[p].pc = "choose" =>
       ~session \/ \E r \in Repos : Passed(run[p].child, r)]_vars

(* The first receipt freezes membership: no repo joins afterwards          *)
(* (promote.rs).                                                           *)
MembershipFrozen == [][HasAnyReceipt(record) => record'.promoted \subseteq record.promoted]_vars

(* Once no integrate is at work, a repo whose parent branch carries the    *)
(* child's merge holds the receipt a rerun resumes from (receipts.rs).     *)
MovedIsReceipted ==
  lock = None => \A r \in record.promoted : Carries(parent[r], 1) => HasReceipt(record, r)

(* The receipts as a reader of feature.json sees them implement the ledger. *)
Entry(r) ==
  IF r \notin record.promoted THEN [source |-> 0, state |-> "out"]
  ELSE IF record.receipt[r] = None THEN [source |-> 0, state |-> "open"]
  ELSE [source |-> record.receipt[r].source,
        state  |-> IF record.receipt[r].passed THEN "passed" ELSE "failed"]

Ledger == INSTANCE ReceiptLedger WITH
  Sources <- 1..MaxVersion,
  entry   <- [r \in Repos |-> Entry(r)],
  closed  <- outcome = "integrated"

ImplementsLedger == Ledger!Spec

-----------------------------------------------------------------------------
(* The inductive invariant behind IntegrationInv, the finality of passing  *)
(* evidence, and ImplementsLedger.                                         *)

Working(p) == run[p].pc \notin {"new", "waiting", "ended"}

Unreceipted(p) ==
  run[p].pc \in {"checkChild", "stage", "checkCandidate", "confirm", "apply", "readResult",
                 "record", "checkParent"}

InTurn(p) == Unreceipted(p) \/ run[p].pc = "reverify"

LockHeld == \A p \in Runs : Working(p) => lock = p

(* A run turns to a repo that it holds no receipt of, or a failed one.     *)
TurnsToRepo ==
  \A p \in Runs :
    /\ run[p].repo # None <=> InTurn(p)
    /\ Unreceipted(p) => ~HasReceipt(run[p].child, run[p].repo)
    /\ run[p].pc = "reverify" => /\ HasReceipt(run[p].child, run[p].repo)
                                 /\ ~Passed(run[p].child, run[p].repo)

Versions == 1 .. MaxVersion

(* Evidence names a version, and a result that carries it.                 *)
RealEvidence(feature) ==
  \A r \in Repos : HasReceipt(feature, r) =>
    /\ feature.receipt[r].source \in Versions
    /\ Carries(feature.receipt[r].result, feature.receipt[r].source)

EvidenceIsReal == RealEvidence(record) /\ \A p \in Runs : RealEvidence(run[p].child)

(* The source is on its way to the parent: the branch that is merged by    *)
(* name is never behind it, a rebase brings it, and what is read back      *)
(* carries it.                                                             *)
SourceLands ==
  /\ \A r \in Repos : child[r] \in Versions
  /\ \A p \in Runs :
       /\ run[p].repo # None =>
            run[p].source \in Versions /\ run[p].source <= child[run[p].repo]
       /\ Strategy = "rebase" /\ run[p].pc \in {"checkCandidate", "confirm", "apply"} =>
            Carries(run[p].staged, run[p].source)
       /\ run[p].pc = "readResult" => Carries(parent[run[p].repo], run[p].source)
       /\ run[p].pc \in {"record", "checkParent"} => Carries(run[p].result, run[p].source)

(* What a run at work knows of the receipts is what the record says, but   *)
(* for repos demoted since, and for no repo that is promoted while none    *)
(* joins.                                                                  *)
Known(p, r) ==
  IF run[p].pc = "checkParent" /\ r = run[p].repo THEN ReceiptOf(p, FALSE)
                                                  ELSE run[p].child.receipt[r]

RecordIsKnown ==
  \A p \in Runs : Working(p) =>
    \A r \in Repos :
      /\ record.receipt[r] \in {None, Known(p, r)}
      /\ Promoters = {} /\ r \in record.promoted => record.receipt[r] = Known(p, r)

IInv == TypeOK /\ LockHeld /\ TurnsToRepo /\ EvidenceIsReal /\ SourceLands /\ RecordIsKnown

(* A close is on its way only over passing receipts, nobody else's         *)
(* overtakes one of a run, and nobody joins in between but by a promote.   *)
Closing(p) == run[p].pc = "writeClose"

ClosesOnEvidence ==
  /\ outcome = "integrated" \/ (\E p \in Runs : Closing(p)) \/ (\E c \in Closers : closer[c] = "integrated")
       => Evidenced /\ (Promoters = {} => record.promoted \subseteq judged)
  /\ Closers = {} => \A p \in Runs : Closing(p) => outcome = "open"

=============================================================================
