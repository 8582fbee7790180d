---------------------------- MODULE PullRequests ----------------------------
(***************************************************************************)
(* Integration of a child feature through pull requests                    *)
(* (src/action/feature/integrate/pr.rs, src/action/feature/pull_requests). *)
(*                                                                         *)
(* Each `ivar feature integrate` is one process under the parent's         *)
(* integrate.lock.  Per repo it pushes the child's branch, takes whatever  *)
(* pull request has that branch as its head, or opens one, asks the host   *)
(* to merge it, watches it, brings the parent's worktree up to the remote, *)
(* and records the receipt.  The host and the people who use it change the *)
(* same branches and pull requests between any two of its steps, an answer *)
(* of the host may be lost, and the process may be killed anywhere.        *)
(*                                                                         *)
(* The child's branch is a version number.  A branch of the parent is the  *)
(* sequence of its commits and a commit is named by the sequence that ends *)
(* in it: "is an ancestor of" is IsPrefix.  What the record's readers      *)
(* and the integration's lock, checks and closing do is in Integration;    *)
(* here the preflight is one step and closing is left out.                 *)
(***************************************************************************)
EXTENDS Integers, Sequences, FiniteSets, SequencesExt

CONSTANTS
  Runs,       \* `ivar feature integrate` processes
  Repos,      \* repositories, numbered in name order
  MaxVersion, \* bound: versions of the child's branch in a repo
  MaxPulls,   \* bound: pull requests of a repo's branch when a person opens one
  MaxDeeds,   \* bound: what people and other commands do meanwhile
  None        \* no receipt, no lock holder, no repository

ASSUME PullRequestsAssumption ==
  /\ Repos \subseteq Nat
  /\ IsFiniteSet(Repos)
  /\ MaxVersion \in Nat \ {0}
  /\ MaxPulls \in Nat \ {0}
  /\ MaxDeeds \in Nat
  /\ None \notin Runs
  /\ None \notin Nat

VARIABLES
  child,   \* the version at the tip of the child's local branch, per repo
  parent,  \* the parent's local branch, per repo
  remote,  \* the remote's two branches, per repo; version 0 is no branch
  pulls,   \* the pull requests of the child's branch, oldest first, per repo
  record,  \* the child's feature.json: promoted repos and their receipts
  lock,    \* the holder of the parent's integrate.lock
  run,     \* each integrate's progress
  deeds    \* what people and other commands have done so far

vars == <<child, parent, remote, pulls, record, lock, run, deeds>>

hosted == <<remote, pulls>>
local  == <<child, parent>>

(* A merge of the child is numbered 0, a person's commit by its deed.      *)
Commits  == [ver : Nat, by : Nat]
Branches == Seq(Commits)
Pulls    == [state : {"open", "merged", "closed"}, head : Nat,
             onParent : BOOLEAN, result : Branches]
Receipts == [source : Nat, result : Branches, passed : BOOLEAN]

(* A receipt lives in its repo's promotion.                                *)
Features ==
  {f \in [promoted : SUBSET Repos, receipt : [Repos -> Receipts \cup {None}]] :
     \A r \in Repos \ f.promoted : f.receipt[r] = None}

RunPcs == {"new", "choose", "checkChild", "push", "find", "create", "writeUrl",
           "gate", "requestMerge", "observe", "advance", "record",
           "checkParent", "reverify", "ended"}
RunStates == [pc : RunPcs, child : Features, todo : SUBSET Repos,
              repo : Repos \cup {None}, source : Nat, pull : Nat, head : Nat,
              result : Branches]

NoFeature == [promoted |-> {}, receipt |-> [r \in Repos |-> None]]

Quiet(pc) == [pc |-> pc, child |-> NoFeature, todo |-> {}, repo |-> None,
              source |-> 0, pull |-> 0, head |-> 0, result |-> <<>>]

TypeOK ==
  /\ child \in [Repos -> Nat]
  /\ parent \in [Repos -> Branches]
  /\ remote \in [Repos -> [child : Nat, parent : Branches]]
  /\ pulls \in [Repos -> Seq(Pulls)]
  /\ record \in Features
  /\ lock \in Runs \cup {None}
  /\ run \in [Runs -> RunStates]
  /\ deeds \in Nat

Base == <<[ver |-> 0, by |-> 0]>>

Init ==
  /\ child = [r \in Repos |-> 1]
  /\ parent = [r \in Repos |-> Base]
  /\ remote = [r \in Repos |-> [child |-> 0, parent |-> Base]]
  /\ pulls = [r \in Repos |-> <<>>]
  /\ record = [NoFeature EXCEPT !.promoted = Repos]
  /\ lock = None
  /\ run = [p \in Runs |-> Quiet("new")]
  /\ deeds = 0

-----------------------------------------------------------------------------
(* The host.                                                               *)

Carries(branch, v) == \E i \in DOMAIN branch : branch[i].ver >= v

Merged(branch, v) ==
  IF Carries(branch, v) THEN branch ELSE Append(branch, [ver |-> v, by |-> 0])

(* The head of an open pull request is the branch as it is on the remote.  *)
HeadOf(r, i) ==
  IF pulls[r][i].state = "open" THEN remote[r].child ELSE pulls[r][i].head

(* Merged into another base, the child never reaches the parent's branch.  *)
MergePull(r, i) ==
  LET result == IF pulls[r][i].onParent THEN Merged(remote[r].parent, remote[r].child)
                                        ELSE Merged(<<>>, remote[r].child)
  IN
  /\ pulls' = [pulls EXCEPT ![r][i].state = "merged", ![r][i].head = remote[r].child,
                            ![r][i].result = result]
  /\ remote' = IF pulls[r][i].onParent THEN [remote EXCEPT ![r].parent = result]
                                       ELSE remote

NoneOpen(r) == \A i \in DOMAIN pulls[r] : pulls[r][i].state # "open"

OpenPull(r, onParent) ==
  pulls' = [pulls EXCEPT ![r] = Append(@, [state |-> "open", head |-> 0,
                                           onParent |-> onParent, result |-> <<>>])]

-----------------------------------------------------------------------------
(* What the records say.                                                   *)

HasReceipt(feature, r) == feature.receipt[r] # None

Passed(feature, r) == HasReceipt(feature, r) /\ feature.receipt[r].passed

SourceUnmoved(receipt, r) == child[r] = receipt.source  \* mutant: the result may be elsewhere

(* ensure_failed_receipt_still_current; receipt_freshness of a passing one. *)
StillCurrent(receipt, r) ==
  child[r] = receipt.source /\ IsPrefix(receipt.result, parent[r])

-----------------------------------------------------------------------------
(* One integrate: up to the pull request.                                  *)

Become(p, pc) == run' = [run EXCEPT ![p].pc = pc]

NextRepo(p) == CHOOSE r \in run[p].todo : \A q \in run[p].todo : r <= q

KeepsOldRecord(p) ==  \* mutant: the child is not read again between two repos
  run' = [run EXCEPT ![p] = [Quiet("choose") EXCEPT
            !.child = run[p].child, !.todo = run[p].todo \ {NextRepo(p)}]]

(* The repo's turn is over, well or badly; the child is read again.        *)
RepoDone(p) ==
  run' = [run EXCEPT ![p] = [Quiet("choose") EXCEPT
            !.child = record', !.todo = run[p].todo \ {NextRepo(p)}]]

(* The lock, the child's record and the preflight of every receipt.        *)
Enter(p) ==
  /\ run[p].pc = "new"
  /\ lock = None
  /\ IF \A r \in record.promoted :
          HasReceipt(record, r) => StillCurrent(record.receipt[r], r)
     THEN /\ lock' = p
          /\ run' = [run EXCEPT ![p].pc = "choose", ![p].child = record,
                                ![p].todo = record.promoted]
     ELSE Become(p, "ended") /\ UNCHANGED lock
  /\ UNCHANGED <<local, hosted, record, deeds>>

Begins(p, pc) ==
  run' = [run EXCEPT ![p].pc = pc, ![p].repo = NextRepo(p), ![p].source = child[NextRepo(p)]]

(* integrate_repo reads the child's tip and turns on the receipt in the    *)
(* record it holds: none, failed evidence, or one to reuse.                *)
Choose(p) ==
  /\ run[p].pc = "choose"
  /\ run[p].todo # {}
  /\ UNCHANGED <<local, hosted, record, lock, deeds>>
  /\ LET r == NextRepo(p) IN
     IF ~HasReceipt(run[p].child, r) THEN Begins(p, "checkChild")
     ELSE IF ~Passed(run[p].child, r) /\ StillCurrent(run[p].child.receipt[r], r)
     THEN Begins(p, "reverify")
     ELSE RepoDone(p)

CheckChild(p) ==
  /\ run[p].pc = "checkChild"
  /\ UNCHANGED <<local, hosted, record, lock, deeds>>
  /\ Become(p, "push") \/ RepoDone(p)

(* The branch is pushed by name, as it is now; git refuses to go back.     *)
Push(p) ==
  LET r == run[p].repo IN
  /\ run[p].pc = "push"
  /\ UNCHANGED <<local, pulls, record, lock, deeds>>
  /\ IF child[r] >= remote[r].child
     THEN Become(p, "find") /\ remote' = [remote EXCEPT ![r].child = child[r]]
     ELSE RepoDone(p) /\ UNCHANGED remote

(* The newest pull request in any state, whatever its base.                *)
Find(p) ==
  LET r == run[p].repo
      i == Len(pulls[r]) IN
  /\ run[p].pc = "find"
  /\ run' = IF i = 0 THEN [run EXCEPT ![p].pc = "create"]
            ELSE [run EXCEPT ![p].pc = "writeUrl", ![p].pull = i, ![p].head = HeadOf(r, i)]
  /\ UNCHANGED <<local, hosted, record, lock, deeds>>

(* gh reports no head for the pull request it opens.  The answer may be    *)
(* lost when it is open already; a second open one is refused.             *)
Create(p) ==
  LET r == run[p].repo IN
  /\ run[p].pc = "create"
  /\ UNCHANGED <<local, remote, record, lock, deeds>>
  /\ IF NoneOpen(r)
     THEN /\ OpenPull(r, TRUE)
          /\ \/ run' = [run EXCEPT ![p].pc = "writeUrl", ![p].pull = Len(pulls[r]) + 1]
             \/ RepoDone(p)
     ELSE RepoDone(p) /\ UNCHANGED pulls

(* The URL is written with the whole record as it was read at the repo's   *)
(* turn, over whatever feature.json has become.                            *)
WriteUrl(p) ==
  /\ run[p].pc = "writeUrl"
  /\ record' = run[p].child
  /\ Become(p, "gate")
  /\ UNCHANGED <<local, hosted, lock, deeds>>

AnyHead(p) ==  \* mutant: the head is not compared with the source
  /\ run[p].pc = "gate"
  /\ UNCHANGED <<local, hosted, record, lock, deeds>>
  /\ Become(p, "requestMerge") \/ RepoDone(p)

(* A head that is not the source stops the repo, and so does a required    *)
(* check that failed or is pending.                                        *)
Gate(p) ==
  /\ run[p].pc = "gate"
  /\ UNCHANGED <<local, hosted, record, lock, deeds>>
  /\ \/ run[p].head \in {0, run[p].source} /\ Become(p, "requestMerge")
     \/ RepoDone(p)

-----------------------------------------------------------------------------
(* One integrate: the merge and its evidence.                              *)

(* gh merges an open pull request at once if its head is the source, or    *)
(* leaves it to a queue; the answer may be lost.  One that is merged       *)
(* already is no error; a closed one is.                                   *)
RequestMerge(p) ==
  LET r == run[p].repo
      i == run[p].pull IN
  /\ run[p].pc = "requestMerge"
  /\ UNCHANGED <<local, record, lock, deeds>>
  /\ \/ /\ pulls[r][i].state = "open"
        /\ HeadOf(r, i) = run[p].source
        /\ MergePull(r, i)
        /\ Become(p, "observe") \/ RepoDone(p)
     \/ /\ pulls[r][i].state = "merged" \/ HeadOf(r, i) = run[p].source
        /\ pulls[r][i].state # "closed"
        /\ Become(p, "observe")
        /\ UNCHANGED hosted
     \/ /\ pulls[r][i].state = "closed" \/ HeadOf(r, i) # run[p].source
        /\ RepoDone(p)
        /\ UNCHANGED hosted

PollsForEver(p) ==  \* mutant: the observation has no deadline
  LET pull == pulls[run[p].repo][run[p].pull] IN
  /\ run[p].pc = "observe"
  /\ pull.state = "merged"
  /\ run' = [run EXCEPT ![p].pc = "advance", ![p].result = pull.result]
  /\ UNCHANGED <<local, hosted, record, lock, deeds>>

(* The polls that found it open are not steps.  A closed pull request      *)
(* fails; one still open at the deadline is pending.                       *)
Observe(p) ==
  LET pull == pulls[run[p].repo][run[p].pull] IN
  /\ run[p].pc = "observe"
  /\ UNCHANGED <<local, hosted, record, lock, deeds>>
  /\ IF pull.state = "merged"
     THEN run' = [run EXCEPT ![p].pc = "advance", ![p].result = pull.result]
     ELSE RepoDone(p)

(* Fetch the parent's branch and fast-forward its worktree; a local branch *)
(* that is ahead stays, one that diverged is refused.                      *)
Advance(p) ==
  LET r == run[p].repo IN
  /\ run[p].pc = "advance"
  /\ UNCHANGED <<child, hosted, record, lock, deeds>>
  /\ IF IsPrefix(parent[r], remote[r].parent)
     THEN parent' = [parent EXCEPT ![r] = remote[r].parent] /\ Become(p, "record")
     ELSE /\ UNCHANGED parent
          /\ IF IsPrefix(remote[r].parent, parent[r]) THEN Become(p, "record")
                                                      ELSE RepoDone(p)

(* persist_receipt: a repo demoted meanwhile takes no receipt.             *)
PersistReceipt(r, receipt) ==
  record' = IF r \in record.promoted THEN [record EXCEPT !.receipt[r] = receipt]
                                     ELSE record

ReceiptOf(p, passed) ==
  [source |-> run[p].source, result |-> run[p].result, passed |-> passed]

RecordPending(p) ==
  /\ run[p].pc = "record"
  /\ PersistReceipt(run[p].repo, ReceiptOf(p, FALSE))
  /\ Become(p, "checkParent")
  /\ UNCHANGED <<local, hosted, lock, deeds>>

CheckParent(p) ==
  /\ run[p].pc = "checkParent"
  /\ \E passed \in BOOLEAN : PersistReceipt(run[p].repo, ReceiptOf(p, passed))
  /\ RepoDone(p)
  /\ UNCHANGED <<local, hosted, lock, deeds>>

Reverify(p) ==
  /\ run[p].pc = "reverify"
  /\ \E passed \in BOOLEAN :
       PersistReceipt(run[p].repo,
                      [run[p].child.receipt[run[p].repo] EXCEPT !.passed = passed])
  /\ RepoDone(p)
  /\ UNCHANGED <<local, hosted, lock, deeds>>

Ends(p) ==
  /\ run' = [run EXCEPT ![p] = Quiet("ended")]
  /\ lock' = None
  /\ UNCHANGED <<local, hosted, record, deeds>>

(* Closing the child when all is fresh is in Integration.                  *)
Finish(p) == run[p].pc = "choose" /\ run[p].todo = {} /\ Ends(p)

(* Any git, gh or file error stops the repo's turn.                        *)
RepoBreaks(p) ==
  /\ run[p].repo # None
  /\ UNCHANGED <<local, hosted, record, lock, deeds>>
  /\ RepoDone(p)

Killed(p) == run[p].pc \notin {"new", "ended"} /\ Ends(p)

RunStep(p) ==
  \/ Enter(p) \/ Choose(p) \/ CheckChild(p) \/ Push(p) \/ Find(p) \/ Create(p)
  \/ WriteUrl(p) \/ Gate(p) \/ RequestMerge(p) \/ Observe(p) \/ Advance(p)
  \/ RecordPending(p) \/ CheckParent(p) \/ Reverify(p) \/ Finish(p)

-----------------------------------------------------------------------------
(* Everybody else.                                                         *)

Deed == deeds < MaxDeeds /\ deeds' = deeds + 1 /\ UNCHANGED <<lock, run>>

Own == [ver |-> 0, by |-> deeds + 1]

(* Commits on the child's branch, here or by a colleague on the remote.    *)
ChildCommits(r) ==
  /\ remote[r].child <= child[r] /\ child[r] < MaxVersion
  /\ child' = [child EXCEPT ![r] = @ + 1]
  /\ UNCHANGED <<parent, hosted, record>>

ColleaguePushes(r) ==
  /\ child[r] <= remote[r].child /\ remote[r].child < MaxVersion
  /\ remote' = [remote EXCEPT ![r].child = @ + 1]
  /\ UNCHANGED <<local, pulls, record>>

ChildPulls(r) ==
  /\ child[r] < remote[r].child
  /\ child' = [child EXCEPT ![r] = remote[r].child]
  /\ UNCHANGED <<parent, hosted, record>>

(* Pull requests opened, merged, closed and reopened by people, or merged  *)
(* by the queue.                                                           *)
PersonOpens(r) ==
  /\ remote[r].child > 0 /\ NoneOpen(r) /\ Len(pulls[r]) < MaxPulls
  /\ \E onParent \in BOOLEAN : OpenPull(r, onParent)
  /\ UNCHANGED <<local, remote, record>>

HostMerges(r) ==
  /\ \E i \in DOMAIN pulls[r] : pulls[r][i].state = "open" /\ MergePull(r, i)
  /\ UNCHANGED <<local, record>>

PersonCloses(r) ==
  /\ \E i \in DOMAIN pulls[r] :
       /\ pulls[r][i].state = "open"
       /\ pulls' = [pulls EXCEPT ![r][i].state = "closed", ![r][i].head = remote[r].child]
  /\ UNCHANGED <<local, remote, record>>

PersonReopens(r) ==
  /\ NoneOpen(r)
  /\ \E i \in DOMAIN pulls[r] :
       /\ pulls[r][i].state = "closed"
       /\ pulls' = [pulls EXCEPT ![r][i].state = "open", ![r][i].head = 0]
  /\ UNCHANGED <<local, remote, record>>

(* A sibling's pull request, or a push, on the parent's remote branch.     *)
RemoteMoves(r) ==
  /\ remote' = [remote EXCEPT ![r].parent = Append(@, Own)]
  /\ UNCHANGED <<local, pulls, record>>

ParentCommits(r) ==
  /\ parent' = [parent EXCEPT ![r] = Append(@, Own)]
  /\ UNCHANGED <<child, hosted, record>>

(* `ivar feature deliver` of the parent, a root: a push that is never      *)
(* forced.                                                                 *)
ParentPushes(r) ==
  /\ remote[r].parent # parent[r] /\ IsPrefix(remote[r].parent, parent[r])
  /\ remote' = [remote EXCEPT ![r].parent = parent[r]]
  /\ UNCHANGED <<local, pulls, record>>

(* git pull --rebase: what is past the merge base is made anew on top.     *)
ParentPulls(r) ==
  LET mine(n) == SubSeq(parent[r], n + 1, Len(parent[r])) IN
  /\ ~IsPrefix(remote[r].parent, parent[r])
  /\ \E n \in 0 .. Len(parent[r]) :
       /\ IsPrefix(SubSeq(parent[r], 1, n), remote[r].parent)
       /\ n < Len(parent[r]) => ~IsPrefix(SubSeq(parent[r], 1, n + 1), remote[r].parent)
       /\ parent' = [parent EXCEPT ![r] = remote[r].parent \o mine(n)]
  /\ UNCHANGED <<child, hosted, record>>

(* `ivar feature demote`, and the record of a promote that asked earlier   *)
(* whether it may (Integration).                                           *)
Demote(r) ==
  /\ r \in record.promoted /\ ~Passed(record, r)
  /\ record' = [promoted |-> record.promoted \ {r},
                receipt |-> [record.receipt EXCEPT ![r] = None]]
  /\ UNCHANGED <<local, hosted>>

Promote(r) ==
  /\ r \notin record.promoted
  /\ record' = [record EXCEPT !.promoted = @ \cup {r}]
  /\ UNCHANGED <<local, hosted>>

Others ==
  \E r \in Repos :
    /\ Deed
    /\ \/ ChildCommits(r) \/ ColleaguePushes(r) \/ ChildPulls(r)
       \/ PersonOpens(r) \/ HostMerges(r) \/ PersonCloses(r) \/ PersonReopens(r)
       \/ RemoteMoves(r) \/ ParentCommits(r) \/ ParentPushes(r) \/ ParentPulls(r)
       \/ Demote(r) \/ Promote(r)

Next == Others \/ \E p \in Runs : RunStep(p) \/ RepoBreaks(p) \/ Killed(p)

Spec == Init /\ [][Next]_vars

(* The operating system runs every process, the lock of one that ended is  *)
(* handed on, and the observation has a deadline; nothing is asked of the  *)
(* host.                                                                   *)
FairSpec == Spec /\ \A p \in Runs : WF_vars(RunStep(p))

-----------------------------------------------------------------------------
(* Properties.                                                             *)

(* A receipt names a merge that holds its source, whatever pull request    *)
(* was found under the child's branch: an old merged one of an earlier     *)
(* head, one merged by a person or by a queue, one reopened                *)
(* (integrate/pr.rs, wait_for_pr_checks and merge_pr_and_advance_parent).  *)
EvidenceIsReal ==
  \A r \in Repos : HasReceipt(record, r) =>
    Carries(record.receipt[r].result, record.receipt[r].source)

(* The invariant of a batch over the host: well formed, with real evidence.*)
PullRequestsInv == TypeOK /\ EvidenceIsReal

(* A receipt that counts as fresh is never a lie: the parent's local       *)
(* branch carries the child's tip, even when the pull request that merged  *)
(* had another base (relations.rs, receipt_freshness).                     *)
FreshMeansCarried ==
  \A r \in Repos :
    Passed(record, r) /\ StillCurrent(record.receipt[r], r)
      => Carries(parent[r], child[r])

(* Passing evidence is final, although every repo's turn writes a record   *)
(* it read earlier over feature.json (repos.rs, "never clobbering it").    *)
PassingReceiptIsFinal ==
  [][\A r \in Repos : Passed(record, r) =>
       HasReceipt(record', r) /\ record'.receipt[r] = record.receipt[r]]_vars

(* Every integrate ends, whatever the host does or never does.             *)
EveryRunEnds == \A p \in Runs : run[p].pc = "choose" ~> run[p].pc = "ended"

-----------------------------------------------------------------------------
(* The inductive invariant behind PullRequestsInv and PassingReceiptIsFinal.*)

Working(p) == run[p].pc \notin {"new", "ended"}

AtPull(p) == run[p].pc \in {"writeUrl", "gate", "requestMerge", "observe"}

LockHeld == \A p \in Runs : Working(p) => lock = p

(* A run turns to a repo, and then to one of its pull requests.            *)
TurnsToRepo ==
  \A p \in Runs :
    /\ (run[p].repo = None) <=> run[p].pc \in {"new", "choose", "ended"}
    /\ AtPull(p) => run[p].pull \in DOMAIN pulls[run[p].repo]
    /\ run[p].pc = "reverify" => HasReceipt(run[p].child, run[p].repo)

RealEvidence(feature) ==
  \A r \in Repos : HasReceipt(feature, r) =>
    Carries(feature.receipt[r].result, feature.receipt[r].source)

(* Every version is a branch, and what was merged holds its head.          *)
MergesAreReal ==
  \A r \in Repos :
    /\ child[r] >= 1
    /\ pulls[r] # <<>> => remote[r].child >= 1
    /\ \A i \in DOMAIN pulls[r] : pulls[r][i].state = "merged" =>
         pulls[r][i].head >= 1 /\ Carries(pulls[r][i].result, pulls[r][i].head)

(* The head the gate let through is the source, or there was none to see;  *)
(* the branch that was pushed is never behind it again.                    *)
GateHolds(p) ==
  \/ run[p].pc \in {"requestMerge", "observe"}
  \/ run[p].pc \in {"writeUrl", "gate"} /\ run[p].head \in {0, run[p].source}

SourceMerged ==
  \A p \in Runs :
    /\ run[p].repo # None => run[p].source >= 1 /\ child[run[p].repo] >= run[p].source
    /\ run[p].pc \in {"find", "create"} \/ AtPull(p) =>
         remote[run[p].repo].child >= run[p].source
    /\ GateHolds(p) /\ pulls[run[p].repo][run[p].pull].state = "merged" =>
         pulls[run[p].repo][run[p].pull].head >= run[p].source
    /\ run[p].pc \in {"advance", "record", "checkParent"} =>
         Carries(run[p].result, run[p].source)
    /\ RealEvidence(run[p].child)

(* A run at work holds the passing receipts of the record, and is not at   *)
(* the turn of a repo that has one.                                        *)
PassingAreHeld ==
  \A p \in Runs : Working(p) =>
    /\ \A r \in Repos : Passed(record, r) => run[p].child.receipt[r] = record.receipt[r]
    /\ run[p].repo # None => ~Passed(run[p].child, run[p].repo)

IInv ==
  /\ TypeOK /\ LockHeld /\ TurnsToRepo /\ MergesAreReal
  /\ SourceMerged /\ EvidenceIsReal /\ PassingAreHeld

-----------------------------------------------------------------------------
(* What the documentation says and the code does not do.                   *)

(* A repo that was demoted stays out unless it is promoted again.          *)
DemotedStaysOut ==
  [][\A p \in Runs : run[p].pc = "writeUrl" /\ run'[p].pc = "gate" =>
       record'.promoted \subseteq record.promoted]_vars

(* What reaches the parent through a recorded pull request is what the     *)
(* child's checks saw, and no more.                                        *)
OnlyTheSourceLands ==
  \A r \in Repos : HasReceipt(record, r) =>
    ~Carries(record.receipt[r].result, record.receipt[r].source + 1)

=============================================================================
