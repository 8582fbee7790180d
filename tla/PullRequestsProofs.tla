------------------------- MODULE PullRequestsProofs -------------------------
(***************************************************************************)
(* Proofs about PullRequests for any runs, repositories and bounds: the    *)
(* type, and through the inductive invariant IInv that every receipt names *)
(* a merge that holds its source, that a receipt which counts as fresh is  *)
(* no lie about the parent, and that passing evidence is final.            *)
(***************************************************************************)
EXTENDS PullRequests, WellFoundedInduction, SequenceTheorems, TLAPS

-----------------------------------------------------------------------------
(* Branches.                                                               *)

(* IsPrefix, index by index.                                               *)
LEMMA PrefixAt ==
  ASSUME NEW s \in Branches, NEW t \in Branches
  PROVE  IsPrefix(s, t) <=> Len(s) <= Len(t) /\ \A i \in 1 .. Len(s) : s[i] = t[i]
BY DEF IsPrefix, Branches

(* A branch carries what any earlier state of it carried.                  *)
LEMMA PrefixCarries ==
  ASSUME NEW s \in Branches, NEW t \in Branches, IsPrefix(s, t), NEW v \in Nat, Carries(s, v)
  PROVE  Carries(t, v)
BY PrefixAt DEF Carries, Branches

(* A merged pull request is on the branch it was merged into.              *)
LEMMA MergedCarries ==
  ASSUME NEW b \in Branches, NEW v \in Nat
  PROVE  Merged(b, v) \in Branches /\ Carries(Merged(b, v), v)
<1> DEFINE c == [ver |-> v, by |-> 0]
<1>1. c \in Commits /\ c.ver >= v
  BY DEF Commits
<1>2. /\ Append(b, c) \in Branches /\ Append(b, c)[Len(b) + 1] = c
      /\ Len(b) + 1 \in DOMAIN Append(b, c)
  BY <1>1 DEF Branches
<1>3. Carries(Append(b, c), v)
  BY <1>1, <1>2 DEF Carries
<1> QED
  BY <1>2, <1>3 DEF Merged

(* A branch that carries a version carries every earlier one.              *)
LEMMA LowerIsCarried ==
  ASSUME NEW b \in Branches, NEW v \in Nat, NEW w \in Nat, w <= v, Carries(b, v)
  PROVE  Carries(b, w)
<1>1. PICK i \in DOMAIN b : b[i].ver >= v
  BY DEF Carries
<1>2. b[i] \in Commits
  BY DEF Branches
<1>3. b[i].ver >= w
  BY <1>1, <1>2 DEF Commits
<1> QED
  BY <1>3 DEF Carries

-----------------------------------------------------------------------------
(* Repositories and runs.                                                  *)

(* A set of numbers has a smallest one.                                    *)
LEMMA Smallest ==
  ASSUME NEW S \in SUBSET Nat, S # {}
  PROVE  \E n \in S : \A m \in S : n <= m
<1> DEFINE R == OpToRel(<, Nat)
<1>1. IsWellFoundedOn(R, Nat)
  BY NatLessThanWellFounded
<1>2. \A x, y \in Nat : x < y => <<x, y>> \in R
  BY DEF OpToRel
<1> HIDE DEF R
<1>3. PICK n \in S : \A m \in S : <<m, n>> \notin R
  BY <1>1, WFMin
<1>4. ASSUME NEW m \in S PROVE n <= m
  <2>1. ~ (m < n)
    BY <1>2, <1>3
  <2> QED
    BY <2>1
<1> QED
  BY <1>4

(* The repo a run takes next is one it has to do.                          *)
LEMMA NextRepoIsToDo ==
  ASSUME TypeOK, NEW p \in Runs, run[p].todo # {}
  PROVE  NextRepo(p) \in run[p].todo /\ NextRepo(p) \in Repos
<1>1. run[p].todo \subseteq Repos
  BY DEF TypeOK, RunStates
<1>2. run[p].todo \subseteq Nat
  BY <1>1, PullRequestsAssumption
<1>3. \E r \in run[p].todo : \A q \in run[p].todo : r <= q
  BY <1>2, Smallest
<1> QED
  BY <1>1, <1>3 DEF NextRepo

(* The copy of the record that no run has made yet.                        *)
LEMMA NoFeatureType == NoFeature \in Features
BY DEF NoFeature, Features

(* A run that is at no repo is well formed.                                *)
LEMMA QuietType ==
  ASSUME NEW pc \in RunPcs
  PROVE  Quiet(pc) \in RunStates
<1>1. <<>> \in Branches
  BY DEF Branches
<1> QED
  BY <1>1, NoFeatureType DEF Quiet, RunStates

(* The repo's turn is over: the run holds the record as it is now.         *)
LEMMA RepoDoneRun ==
  ASSUME TypeOK, record' \in Features, NEW p \in Runs, RepoDone(p)
  PROVE  /\ run' \in [Runs -> RunStates]
         /\ \A q \in Runs \ {p} : run'[q] = run[q]
         /\ run'[p].pc = "choose" /\ run'[p].repo = None /\ run'[p].child = record'
<1> DEFINE s == [Quiet("choose") EXCEPT !.child = record', !.todo = run[p].todo \ {NextRepo(p)}]
<1>1. Quiet("choose") \in RunStates /\ Quiet("choose").pc = "choose" /\ Quiet("choose").repo = None
  BY QuietType DEF Quiet, RunPcs
<1>2. run[p].todo \ {NextRepo(p)} \in SUBSET Repos
  BY DEF TypeOK, RunStates
<1>3. s \in RunStates /\ s.pc = "choose" /\ s.repo = None /\ s.child = record'
  BY <1>1, <1>2 DEF RunStates
<1>4. run' = [run EXCEPT ![p] = s]
  BY DEF RepoDone
<1> HIDE DEF s
<1> QED
  BY <1>3, <1>4 DEF TypeOK

(* A run that only goes on to its next step.                               *)
LEMMA BecomeRun ==
  ASSUME TypeOK, NEW p \in Runs, NEW pc \in RunPcs, Become(p, pc)
  PROVE  /\ run' \in [Runs -> RunStates]
         /\ \A q \in Runs \ {p} : run'[q] = run[q]
         /\ run'[p] = [run[p] EXCEPT !.pc = pc]
<1>1. run[p] \in RunStates
  BY DEF TypeOK
<1>2. [run[p] EXCEPT !.pc = pc] \in RunStates
  BY <1>1 DEF RunStates
<1> QED
  BY <1>2 DEF Become, TypeOK

(* A run that ends.                                                        *)
LEMMA EndsRun ==
  ASSUME TypeOK, NEW p \in Runs, Ends(p)
  PROVE  /\ run' \in [Runs -> RunStates]
         /\ \A q \in Runs \ {p} : run'[q] = run[q]
         /\ run'[p] = Quiet("ended")
BY QuietType DEF Ends, TypeOK, RunPcs

(* Persisting a receipt writes the entry of one repo.                      *)
LEMMA PersistType ==
  ASSUME TypeOK, NEW r \in Repos, NEW receipt \in Receipts, PersistReceipt(r, receipt)
  PROVE  /\ record' \in Features
         /\ \A q \in Repos \ {r} : record'.receipt[q] = record.receipt[q]
         /\ record'.receipt[r] \in {receipt, record.receipt[r]}
<1>1. /\ record.promoted \subseteq Repos /\ record.receipt \in [Repos -> Receipts \cup {None}]
      /\ \A q \in Repos \ record.promoted : record.receipt[q] = None
      /\ record = [promoted |-> record.promoted, receipt |-> record.receipt]
  BY DEF TypeOK, Features
<1>2. CASE r \in record.promoted
  <2>1. record' = [record EXCEPT !.receipt[r] = receipt]
    BY <1>2 DEF PersistReceipt
  <2>2. record' = [promoted |-> record.promoted, receipt |-> [record.receipt EXCEPT ![r] = receipt]]
    BY <1>1, <2>1
  <2> QED
    BY <1>1, <1>2, <2>2 DEF Features
<1>3. CASE r \notin record.promoted
  BY <1>3 DEF PersistReceipt, TypeOK
<1> QED
  BY <1>2, <1>3

(* A merge gives a pull request its evidence and the parent a commit.      *)
LEMMA MergePullType ==
  ASSUME TypeOK, NEW r \in Repos, NEW i \in DOMAIN pulls[r], MergePull(r, i)
  PROVE  /\ pulls' \in [Repos -> Seq(Pulls)]
         /\ remote' \in [Repos -> [child : Nat, parent : Branches]]
         /\ \A q \in Repos : remote'[q].child = remote[q].child
         /\ \A q \in Repos \ {r} : pulls'[q] = pulls[q]
         /\ DOMAIN pulls'[r] = DOMAIN pulls[r]
         /\ \A j \in DOMAIN pulls[r] \ {i} : pulls'[r][j] = pulls[r][j]
         /\ pulls'[r][i].head = remote[r].child
         /\ Carries(pulls'[r][i].result, remote[r].child)
<1> DEFINE result == IF pulls[r][i].onParent THEN Merged(remote[r].parent, remote[r].child)
                                             ELSE Merged(<<>>, remote[r].child)
           pull == [pulls[r][i] EXCEPT !.state = "merged", !.head = remote[r].child,
                                       !.result = result]
<1>1. remote[r].child \in Nat /\ remote[r].parent \in Branches /\ <<>> \in Branches
  BY DEF TypeOK, Branches
<1>2. result \in Branches /\ Carries(result, remote[r].child)
  BY <1>1, MergedCarries
<1>3. pulls[r] \in Seq(Pulls) /\ pulls[r][i] \in Pulls
  BY DEF TypeOK
<1>4. pulls' = [pulls EXCEPT ![r] = [pulls[r] EXCEPT ![i] = pull]]
  BY DEF MergePull
<1>5. remote' = [remote EXCEPT ![r].parent = result] \/ remote' = remote
  BY DEF MergePull
<1> HIDE DEF result
<1>6. pull \in Pulls /\ pull.head = remote[r].child /\ pull.result = result
  BY <1>1, <1>2, <1>3 DEF Pulls
<1> HIDE DEF pull
<1>7. /\ [pulls[r] EXCEPT ![i] = pull] \in Seq(Pulls)
      /\ DOMAIN [pulls[r] EXCEPT ![i] = pull] = DOMAIN pulls[r]
  BY <1>3, <1>6
<1>8. /\ pulls' \in [Repos -> Seq(Pulls)]
      /\ pulls'[r] = [pulls[r] EXCEPT ![i] = pull]
      /\ \A q \in Repos \ {r} : pulls'[q] = pulls[q]
  BY <1>4, <1>7 DEF TypeOK
<1>9. /\ remote' \in [Repos -> [child : Nat, parent : Branches]]
      /\ \A q \in Repos : remote'[q].child = remote[q].child
  <2>1. CASE remote' = remote
    BY <2>1 DEF TypeOK
  <2>2. CASE remote' = [remote EXCEPT ![r].parent = result]
    BY <1>2, <2>2 DEF TypeOK
  <2> QED
    BY <1>5, <2>1, <2>2
<1>10. pulls'[r][i] = pull /\ \A j \in DOMAIN pulls[r] \ {i} : pulls'[r][j] = pulls[r][j]
  BY <1>3, <1>8
<1> QED
  BY <1>2, <1>6, <1>7, <1>8, <1>9, <1>10

(* A pull request opened is appended, and is open.                         *)
LEMMA OpenPullType ==
  ASSUME TypeOK, NEW r \in Repos, NEW onParent \in BOOLEAN, OpenPull(r, onParent)
  PROVE  /\ pulls' \in [Repos -> Seq(Pulls)]
         /\ \A q \in Repos \ {r} : pulls'[q] = pulls[q]
         /\ Len(pulls'[r]) = Len(pulls[r]) + 1
         /\ \A j \in DOMAIN pulls[r] : pulls'[r][j] = pulls[r][j]
         /\ pulls'[r][Len(pulls[r]) + 1].state = "open"
<1> DEFINE pull == [state |-> "open", head |-> 0, onParent |-> onParent, result |-> <<>>]
<1>1. pull \in Pulls /\ pull.state = "open"
  BY DEF Pulls, Branches
<1>2. pulls' = [pulls EXCEPT ![r] = Append(pulls[r], pull)]
  BY DEF OpenPull
<1> HIDE DEF pull
<1>3. pulls[r] \in Seq(Pulls)
  BY DEF TypeOK
<1>4. /\ Append(pulls[r], pull) \in Seq(Pulls)
      /\ Len(Append(pulls[r], pull)) = Len(pulls[r]) + 1
      /\ \A j \in DOMAIN pulls[r] : Append(pulls[r], pull)[j] = pulls[r][j]
      /\ Append(pulls[r], pull)[Len(pulls[r]) + 1] = pull
  BY <1>1, <1>3
<1>5. pulls'[r] = Append(pulls[r], pull) /\ \A q \in Repos \ {r} : pulls'[q] = pulls[q]
  BY <1>2 DEF TypeOK
<1> QED
  BY <1>1, <1>2, <1>4, <1>5 DEF TypeOK

-----------------------------------------------------------------------------
(* The type.                                                               *)

(* What a run or anybody else does to the host and to the branches leaves  *)
(* them well formed, and takes nothing away: a branch pushed is never      *)
(* behind, a pull request is never forgotten, and one becomes merged with  *)
(* the branch as it is on the remote.                                      *)
BranchesType ==
  /\ child' \in [Repos -> Nat] /\ parent' \in [Repos -> Branches]
  /\ remote' \in [Repos -> [child : Nat, parent : Branches]]
  /\ pulls' \in [Repos -> Seq(Pulls)]

OnlyForward(r) ==
  /\ child'[r] >= child[r] /\ remote'[r].child >= remote[r].child
  /\ DOMAIN pulls[r] \subseteq DOMAIN pulls'[r]
  /\ pulls'[r] # pulls[r] => pulls[r] # <<>> \/ remote[r].child >= 1
  /\ \A i \in DOMAIN pulls'[r] : pulls'[r][i].state = "merged" =>
       \/ i \in DOMAIN pulls[r] /\ pulls'[r][i] = pulls[r][i]
       \/ /\ i \in DOMAIN pulls[r] /\ pulls[r][i].state = "open"
          /\ pulls'[r][i].head = remote[r].child
          /\ Carries(pulls'[r][i].result, remote[r].child)

HostStep == BranchesType /\ \A r \in Repos : OnlyForward(r)

(* A step that leaves every branch and pull request alone.                 *)
LEMMA SameHost ==
  ASSUME TypeOK, UNCHANGED <<child, parent, remote, pulls>>
  PROVE  HostStep
<1>1. \A r \in Repos : child[r] \in Nat /\ remote[r].child \in Nat
  BY DEF TypeOK
<1> QED
  BY <1>1 DEF HostStep, BranchesType, OnlyForward, TypeOK

(* The host merges one pull request.                                       *)
LEMMA HostMergesOne ==
  ASSUME TypeOK, UNCHANGED <<child, parent>>, NEW r \in Repos, NEW i \in DOMAIN pulls[r],
         pulls[r][i].state = "open", MergePull(r, i)
  PROVE  HostStep
<1>1. \A q \in Repos : child[q] \in Nat /\ remote[q].child \in Nat
  BY DEF TypeOK
<1>2. OnlyForward(r)
  BY <1>1, MergePullType DEF OnlyForward
<1>3. \A q \in Repos \ {r} : OnlyForward(q)
  BY <1>1, MergePullType DEF OnlyForward
<1> QED
  BY <1>2, <1>3, MergePullType DEF HostStep, BranchesType, TypeOK

(* A pull request is opened of a pushed child.                             *)
LEMMA HostOpensOne ==
  ASSUME TypeOK, UNCHANGED <<child, parent, remote>>, NEW r \in Repos, remote[r].child >= 1,
         NEW onParent \in BOOLEAN, OpenPull(r, onParent)
  PROVE  HostStep
<1>1. \A q \in Repos : child[q] \in Nat /\ remote[q].child \in Nat /\ pulls[q] \in Seq(Pulls)
  BY DEF TypeOK
<1>2. pulls' \in [Repos -> Seq(Pulls)]
  BY OpenPullType
<1>3. OnlyForward(r)
  <2>1. DOMAIN pulls'[r] = DOMAIN pulls[r] \cup {Len(pulls[r]) + 1}
    BY <1>1, <1>2, OpenPullType
  <2> QED
    BY <1>1, <2>1, OpenPullType DEF OnlyForward
<1>4. \A q \in Repos \ {r} : OnlyForward(q)
  BY <1>1, OpenPullType DEF OnlyForward
<1> QED
  BY <1>2, <1>3, <1>4 DEF HostStep, BranchesType, TypeOK

(* A pull request that people close or reopen is not merged.               *)
LEMMA PersonTouchesOne ==
  ASSUME TypeOK, UNCHANGED <<child, parent, remote>>, NEW r \in Repos,
         NEW i \in DOMAIN pulls[r], NEW state \in {"open", "closed"}, NEW head \in Nat,
         pulls' = [pulls EXCEPT ![r][i].state = state, ![r][i].head = head]
  PROVE  HostStep
<1> DEFINE pull == [pulls[r][i] EXCEPT !.state = state, !.head = head]
<1>1. \A q \in Repos : child[q] \in Nat /\ remote[q].child \in Nat /\ pulls[q] \in Seq(Pulls)
  BY DEF TypeOK
<1>2. pulls' = [pulls EXCEPT ![r] = [pulls[r] EXCEPT ![i] = pull]]
  OBVIOUS
<1>3. pull \in Pulls /\ pull.state # "merged"
  <2>1. pulls[r][i] \in Pulls
    BY <1>1
  <2> QED
    BY <2>1 DEF Pulls
<1> HIDE DEF pull
<1>4. [pulls[r] EXCEPT ![i] = pull] \in Seq(Pulls)
  BY <1>1, <1>3
<1>5. /\ pulls' \in [Repos -> Seq(Pulls)] /\ DOMAIN pulls'[r] = DOMAIN pulls[r]
      /\ pulls'[r][i] = pull /\ \A j \in DOMAIN pulls[r] \ {i} : pulls'[r][j] = pulls[r][j]
      /\ \A q \in Repos \ {r} : pulls'[q] = pulls[q]
  <2>1. /\ pulls' \in [Repos -> Seq(Pulls)] /\ pulls'[r] = [pulls[r] EXCEPT ![i] = pull]
        /\ \A q \in Repos \ {r} : pulls'[q] = pulls[q]
    <3> DEFINE mine == [pulls[r] EXCEPT ![i] = pull]
    <3>1. pulls \in [Repos -> Seq(Pulls)] /\ mine \in Seq(Pulls) /\ pulls' = [pulls EXCEPT ![r] = mine]
      BY <1>2, <1>4 DEF TypeOK
    <3> HIDE DEF mine
    <3> DEFINE T == Seq(Pulls)
    <3>t. pulls \in [Repos -> T] /\ mine \in T
      BY <3>1
    <3> HIDE DEF T
    <3>2. pulls' \in [Repos -> T] /\ pulls'[r] = mine /\ \A q \in Repos \ {r} : pulls'[q] = pulls[q]
      BY <3>1, <3>t
    <3> QED
      BY <3>2 DEF mine, T
  <2> QED
    BY <1>1, <2>1
<1>6. pulls[r] # <<>>
  BY <1>1
<1>7. OnlyForward(r)
  BY <1>1, <1>3, <1>5, <1>6 DEF OnlyForward
<1>8. \A q \in Repos \ {r} : OnlyForward(q)
  BY <1>1, <1>5 DEF OnlyForward
<1> QED
  BY <1>5, <1>7, <1>8 DEF HostStep, BranchesType, TypeOK

(* The other changes: to a branch.                                         *)
LEMMA BranchesMove ==
  ASSUME TypeOK, UNCHANGED pulls, BranchesType,
         \A r \in Repos : child'[r] >= child[r] /\ remote'[r].child >= remote[r].child
  PROVE  HostStep
<1>1. \A r \in Repos : pulls'[r] = pulls[r]
  OBVIOUS
<1>2. ASSUME NEW r \in Repos PROVE OnlyForward(r)
  BY <1>1, <1>2 DEF OnlyForward
<1> QED
  BY <1>2 DEF HostStep

(* Nobody else writes or drops passing evidence.                           *)
RecordKept ==
  /\ record' \in Features
  /\ \A r \in Repos : /\ record'.receipt[r] \in {record.receipt[r], None}
                      /\ Passed(record, r) => record'.receipt[r] = record.receipt[r]

(* A step that leaves the record alone keeps what it holds.                *)
LEMMA SameRecordKept ==
  ASSUME TypeOK, record' = record
  PROVE  RecordKept
BY DEF RecordKept, TypeOK

(* A record is its two fields, and a repo it does not promote has no       *)
(* receipt.                                                                *)
LEMMA FeatureFields ==
  ASSUME NEW f \in Features
  PROVE  /\ f.promoted \subseteq Repos /\ f.receipt \in [Repos -> Receipts \cup {None}]
         /\ \A r \in Repos : r \notin f.promoted => f.receipt[r] = None
         /\ f = [promoted |-> f.promoted, receipt |-> f.receipt]
BY DEF Features

(* A demoted repo has no receipt: the evidence of the others stays.        *)
LEMMA DemoteKeeps ==
  ASSUME TypeOK, NEW r \in Repos, Demote(r)
  PROVE  RecordKept
<1>1. record \in Features
  BY DEF TypeOK
<1>2. record' = [promoted |-> record.promoted \ {r}, receipt |-> [record.receipt EXCEPT ![r] = None]]
  BY DEF Demote
<1>3. record' \in Features
  BY <1>1, <1>2, FeatureFields DEF Features
<1>4. \A q \in Repos : record'.receipt[q] = IF q = r THEN None ELSE record.receipt[q]
  BY <1>1, <1>2, FeatureFields
<1>5. ~ Passed(record, r)
  BY DEF Demote
<1> QED
  BY <1>3, <1>4, <1>5 DEF RecordKept

(* A promoted repo has no receipt yet: the evidence of the others stays.   *)
LEMMA PromoteKeeps ==
  ASSUME TypeOK, NEW r \in Repos, Promote(r)
  PROVE  RecordKept
<1>1. record \in Features
  BY DEF TypeOK
<1>2. record' = [promoted |-> record.promoted \cup {r}, receipt |-> record.receipt]
  BY <1>1 DEF Promote, Features
<1>3. record' \in Features
  BY <1>1, <1>2, FeatureFields DEF Features
<1> QED
  BY <1>2, <1>3 DEF RecordKept

(* A branch rebuilt on another.                                            *)
LEMMA PullsAnew ==
  ASSUME NEW s \in Branches, NEW t \in Branches, NEW n \in 0 .. Len(s)
  PROVE  t \o SubSeq(s, n + 1, Len(s)) \in Branches
<1>1. SubSeq(s, n + 1, Len(s)) \in Seq(Commits)
  BY DEF Branches
<1> QED
  BY <1>1 DEF Branches

(* A commit of the parent is one more on its branch.                       *)
LEMMA AppendOwn ==
  ASSUME TypeOK, NEW b \in Branches
  PROVE  Append(b, Own) \in Branches
<1>1. Own \in Commits
  BY DEF Own, Commits, TypeOK
<1> QED
  BY <1>1 DEF Branches

(* Everybody else's deeds.                                                 *)
LEMMA OthersKeep ==
  ASSUME TypeOK, Others
  PROVE  HostStep /\ RecordKept /\ run' = run /\ lock' = lock /\ deeds' \in Nat
<1> DEFINE Goal == HostStep /\ RecordKept
<1>0. PICK r \in Repos :
        /\ Deed
        /\ \/ ChildCommits(r) \/ ColleaguePushes(r) \/ ChildPulls(r)
           \/ PersonOpens(r) \/ HostMerges(r) \/ PersonCloses(r) \/ PersonReopens(r)
           \/ RemoteMoves(r) \/ ParentCommits(r) \/ ParentPushes(r) \/ ParentPulls(r)
           \/ Demote(r) \/ Promote(r)
  BY DEF Others
<1>t. /\ child \in [Repos -> Nat] /\ parent \in [Repos -> Branches]
      /\ remote \in [Repos -> [child : Nat, parent : Branches]]
      /\ pulls \in [Repos -> Seq(Pulls)]
      /\ \A q \in Repos : remote[q].child \in Nat /\ remote[q].parent \in Branches
  BY DEF TypeOK
<1>1. ASSUME ChildCommits(r) PROVE Goal
  <2>1. child' \in [Repos -> Nat] /\ \A q \in Repos : child'[q] >= child[q]
    BY <1>1, <1>t DEF ChildCommits
  <2> QED
    BY <1>1, <1>t, <2>1, BranchesMove, SameRecordKept DEF ChildCommits, BranchesType, hosted
<1>2. ASSUME ColleaguePushes(r) PROVE Goal
  <2>1. /\ remote' \in [Repos -> [child : Nat, parent : Branches]]
        /\ \A q \in Repos : remote'[q].child >= remote[q].child
    BY <1>2, <1>t DEF ColleaguePushes
  <2> QED
    BY <1>2, <1>t, <2>1, BranchesMove, SameRecordKept DEF ColleaguePushes, BranchesType, local
<1>3. ASSUME ChildPulls(r) PROVE Goal
  <2>1. child' \in [Repos -> Nat] /\ \A q \in Repos : child'[q] >= child[q]
    BY <1>3, <1>t DEF ChildPulls
  <2> QED
    BY <1>3, <1>t, <2>1, BranchesMove, SameRecordKept DEF ChildPulls, BranchesType, hosted
<1>4. ASSUME PersonOpens(r) PROVE Goal
  <2>1. remote[r].child >= 1
    BY <1>4, <1>t DEF PersonOpens
  <2> QED
    BY <1>4, <2>1, HostOpensOne, SameRecordKept DEF PersonOpens, local
<1>5. ASSUME HostMerges(r) PROVE Goal
  BY <1>5, HostMergesOne, SameRecordKept DEF HostMerges, local
<1>6. ASSUME PersonCloses(r) PROVE Goal
  BY <1>6, <1>t, PersonTouchesOne, SameRecordKept DEF PersonCloses, local
<1>7. ASSUME PersonReopens(r) PROVE Goal
  BY <1>7, PersonTouchesOne, SameRecordKept DEF PersonReopens, local
<1>8. ASSUME RemoteMoves(r) PROVE Goal
  <2>1. /\ remote' \in [Repos -> [child : Nat, parent : Branches]]
        /\ \A q \in Repos : remote'[q].child = remote[q].child
    BY <1>8, <1>t, AppendOwn DEF RemoteMoves
  <2> QED
    BY <1>8, <1>t, <2>1, BranchesMove, SameRecordKept DEF RemoteMoves, BranchesType, local
<1>9. ASSUME ParentCommits(r) PROVE Goal
  <2>1. parent' \in [Repos -> Branches]
    BY <1>9, <1>t, AppendOwn DEF ParentCommits
  <2> QED
    BY <1>9, <1>t, <2>1, BranchesMove, SameRecordKept DEF ParentCommits, BranchesType, hosted
<1>10. ASSUME ParentPushes(r) PROVE Goal
  <2>1. /\ remote' \in [Repos -> [child : Nat, parent : Branches]]
        /\ \A q \in Repos : remote'[q].child = remote[q].child
    BY <1>10, <1>t DEF ParentPushes
  <2> QED
    BY <1>10, <1>t, <2>1, BranchesMove, SameRecordKept DEF ParentPushes, BranchesType, local
<1>11. ASSUME ParentPulls(r) PROVE Goal
  <2>1. PICK n \in 0 .. Len(parent[r]) :
          parent' = [parent EXCEPT ![r] =
                       remote[r].parent \o SubSeq(parent[r], n + 1, Len(parent[r]))]
    BY <1>11 DEF ParentPulls
  <2>2. parent' \in [Repos -> Branches]
    BY <1>t, <2>1, PullsAnew
  <2> QED
    BY <1>11, <1>t, <2>2, BranchesMove, SameRecordKept DEF ParentPulls, BranchesType, hosted
<1>12. ASSUME Demote(r) PROVE Goal
  BY <1>12, SameHost, DemoteKeeps DEF Demote, local, hosted
<1>13. ASSUME Promote(r) PROVE Goal
  BY <1>13, SameHost, PromoteKeeps DEF Promote, local, hosted
<1>14. run' = run /\ lock' = lock /\ deeds' \in Nat
  BY <1>0 DEF Deed, TypeOK
<1> HIDE DEF Goal
<1>15. Goal
  BY <1>0, <1>1, <1>2, <1>3, <1>4, <1>5, <1>6, <1>7, <1>8, <1>9, <1>10, <1>11, <1>12, <1>13
<1> QED
  BY <1>14, <1>15 DEF Goal

(* What a step of a run leaves of everything but the run: the lock goes to *)
(* it or from it, and of the record it writes its own repo's receipt, or   *)
(* all of it.                                                              *)
Writes(p) ==
  \/ record' = record
  \/ run[p].pc = "writeUrl" /\ record' = run[p].child
  \/ /\ run[p].pc \in {"record", "checkParent", "reverify"}
     /\ \E receipt \in Receipts :
          /\ PersistReceipt(run[p].repo, receipt)
          /\ \/ /\ run[p].pc # "reverify"
                /\ receipt.source = run[p].source /\ receipt.result = run[p].result
             \/ /\ run[p].pc = "reverify"
                /\ receipt.source = run[p].child.receipt[run[p].repo].source
                /\ receipt.result = run[p].child.receipt[run[p].repo].result

(* A step of a run p: only p's progress changes, and ...                   *)
Mine(p) ==
  /\ HostStep /\ Writes(p) /\ record' \in Features /\ deeds' = deeds
  /\ run' \in [Runs -> RunStates] /\ \A q \in Runs \ {p} : run'[q] = run[q]

(* The receipt of the repo a run is at is written well formed.             *)
LEMMA PersistsOwn ==
  ASSUME TypeOK, TurnsToRepo, NEW p \in Runs, NEW receipt \in Receipts,
         PersistReceipt(run[p].repo, receipt), run[p].repo # None
  PROVE  record' \in Features
<1>1. run[p].repo \in Repos
  BY DEF TypeOK, RunStates
<1> QED
  BY <1>1, PersistType

(* A run at work on a repo has one.                                        *)
LEMMA RunRepo ==
  ASSUME TypeOK, TurnsToRepo, NEW p \in Runs, run[p].pc \notin {"new", "choose", "ended"}
  PROVE  /\ run[p].repo \in Repos /\ run[p].repo # None
         /\ AtPull(p) => /\ run[p].pull \in DOMAIN pulls[run[p].repo]
                         /\ pulls[run[p].repo][run[p].pull] \in Pulls
<1>1. run[p].repo # None /\ run[p].repo \in Repos
  BY DEF TurnsToRepo, TypeOK, RunStates
<1>2. pulls[run[p].repo] \in Seq(Pulls)
  BY <1>1 DEF TypeOK
<1> QED
  BY <1>1, <1>2 DEF TurnsToRepo

(* The receipt a run writes is of the source and the result it holds.      *)
LEMMA ReceiptType ==
  ASSUME TypeOK, NEW p \in Runs, NEW passed \in BOOLEAN
  PROVE  /\ ReceiptOf(p, passed) \in Receipts
         /\ ReceiptOf(p, passed).source = run[p].source
         /\ ReceiptOf(p, passed).result = run[p].result
         /\ ReceiptOf(p, passed).passed = passed
BY DEF TypeOK, RunStates, ReceiptOf, Receipts

-----------------------------------------------------------------------------
(* The inductive invariant, run by run.                                    *)

TurnOf(p) ==
  /\ (run[p].repo = None) <=> run[p].pc \in {"new", "choose", "ended"}
  /\ AtPull(p) => run[p].pull \in DOMAIN pulls[run[p].repo]
  /\ run[p].pc = "reverify" => HasReceipt(run[p].child, run[p].repo)

SourceOf(p) ==
  /\ run[p].repo # None => run[p].source >= 1 /\ child[run[p].repo] >= run[p].source
  /\ run[p].pc \in {"find", "create"} \/ AtPull(p) =>
       remote[run[p].repo].child >= run[p].source
  /\ GateHolds(p) /\ pulls[run[p].repo][run[p].pull].state = "merged" =>
       pulls[run[p].repo][run[p].pull].head >= run[p].source
  /\ run[p].pc \in {"advance", "record", "checkParent"} =>
       Carries(run[p].result, run[p].source)
  /\ RealEvidence(run[p].child)

HeldBy(p) == Working(p) =>
  /\ \A r \in Repos : Passed(record, r) => run[p].child.receipt[r] = record.receipt[r]
  /\ run[p].repo # None => ~Passed(run[p].child, run[p].repo)

RunInv(p) == TurnOf(p) /\ SourceOf(p) /\ HeldBy(p)

(* The invariant, run by run: a step of one run is judged on that run.     *)
LEMMA InvByRun ==
  /\ IInv <=> /\ TypeOK /\ LockHeld /\ MergesAreReal /\ EvidenceIsReal
              /\ \A p \in Runs : RunInv(p)
  /\ IInv' <=> /\ TypeOK' /\ LockHeld' /\ MergesAreReal' /\ EvidenceIsReal'
               /\ \A p \in Runs : RunInv(p)'
<1>1. (TurnsToRepo <=> \A p \in Runs : TurnOf(p)) /\ (TurnsToRepo' <=> \A p \in Runs : TurnOf(p)')
  BY DEF TurnsToRepo, TurnOf, AtPull, HasReceipt
<1>2. (SourceMerged <=> \A p \in Runs : SourceOf(p)) /\ (SourceMerged' <=> \A p \in Runs : SourceOf(p)')
  BY DEF SourceMerged, SourceOf, AtPull, GateHolds, RealEvidence, HasReceipt, Carries
<1>3. (PassingAreHeld <=> \A p \in Runs : HeldBy(p)) /\ (PassingAreHeld' <=> \A p \in Runs : HeldBy(p)')
  BY DEF PassingAreHeld, HeldBy, Working, Passed, HasReceipt
<1> QED
  BY <1>1, <1>2, <1>3 DEF IInv, RunInv

(* What is written is real: a merge this run saw, or evidence it holds.    *)
LEMMA EvidenceStep ==
  ASSUME IInv, NEW p \in Runs, Writes(p), record' \in Features
  PROVE  EvidenceIsReal'
<1> SUFFICES ASSUME NEW r \in Repos, record'.receipt[r] # None
             PROVE  Carries(record'.receipt[r].result, record'.receipt[r].source)
  BY DEF EvidenceIsReal, HasReceipt, Carries
<1>1. record.receipt[r] # None => Carries(record.receipt[r].result, record.receipt[r].source)
  BY DEF IInv, EvidenceIsReal, HasReceipt
<1>2. run[p].child.receipt[r] # None
        => Carries(run[p].child.receipt[r].result, run[p].child.receipt[r].source)
  BY DEF IInv, SourceMerged, RealEvidence, HasReceipt
<1>3. CASE record' = record \/ record' = run[p].child
  BY <1>1, <1>2, <1>3
<1>4. ASSUME run[p].pc \in {"record", "checkParent", "reverify"},
             NEW receipt \in Receipts, PersistReceipt(run[p].repo, receipt),
             \/ run[p].pc # "reverify" /\ receipt.source = run[p].source
                /\ receipt.result = run[p].result
             \/ /\ run[p].pc = "reverify"
                /\ receipt.source = run[p].child.receipt[run[p].repo].source
                /\ receipt.result = run[p].child.receipt[run[p].repo].result
      PROVE  Carries(record'.receipt[r].result, record'.receipt[r].source)
  <2>1. TypeOK /\ TurnsToRepo
    BY DEF IInv
  <2>2. run[p].repo \in Repos
    BY <1>4, <2>1, RunRepo
  <2>3. record'.receipt[r] \in {receipt, record.receipt[r]}
    BY <1>4, <2>1, <2>2, PersistType
  <2>4. Carries(receipt.result, receipt.source)
    <3>1. CASE run[p].pc # "reverify"
      BY <1>4, <3>1 DEF IInv, SourceMerged
    <3>2. CASE run[p].pc = "reverify"
      BY <1>4, <2>1, <2>2, <3>2 DEF IInv, SourceMerged, TurnsToRepo, RealEvidence
    <3> QED
      BY <3>1, <3>2
  <2> QED
    BY <1>1, <2>3, <2>4
<1> QED
  BY <1>3, <1>4 DEF Writes

(* A run writes over no passing evidence.                                  *)
LEMMA PassingStep ==
  ASSUME IInv, NEW p \in Runs, Writes(p), NEW r \in Repos, Passed(record, r)
  PROVE  record'.receipt[r] = record.receipt[r]
<1>1. CASE record' = record
  BY <1>1
<1>2. CASE run[p].pc = "writeUrl" /\ record' = run[p].child
  BY <1>2 DEF IInv, PassingAreHeld, Working
<1>3. ASSUME run[p].pc \in {"record", "checkParent", "reverify"},
             NEW receipt \in Receipts, PersistReceipt(run[p].repo, receipt)
      PROVE  record'.receipt[r] = record.receipt[r]
  <2>1. TypeOK /\ TurnsToRepo
    BY DEF IInv
  <2>2. run[p].repo \in Repos /\ run[p].repo # None /\ Working(p)
    BY <1>3, <2>1, RunRepo DEF Working
  <2>3. ~ Passed(run[p].child, run[p].repo) /\ run[p].child.receipt[r] = record.receipt[r]
    BY <2>2 DEF IInv, PassingAreHeld
  <2>4. run[p].repo # r
    BY <2>3 DEF Passed, HasReceipt
  <2> QED
    BY <1>3, <2>1, <2>2, <2>4, PersistType
<1> QED
  BY <1>1, <1>2, <1>3 DEF Writes

(* The host's merges stay real, whoever changes the host.                  *)
LEMMA MergesStep ==
  ASSUME TypeOK, MergesAreReal, HostStep
  PROVE  MergesAreReal'
<1> SUFFICES ASSUME NEW r \in Repos
             PROVE  /\ child'[r] >= 1
                    /\ pulls'[r] # <<>> => remote'[r].child >= 1
                    /\ \A i \in DOMAIN pulls'[r] : pulls'[r][i].state = "merged" =>
                         pulls'[r][i].head >= 1 /\ Carries(pulls'[r][i].result, pulls'[r][i].head)
  BY DEF MergesAreReal, Carries
<1>1. /\ child[r] >= 1 /\ (pulls[r] # <<>> => remote[r].child >= 1)
      /\ \A i \in DOMAIN pulls[r] : pulls[r][i].state = "merged" =>
           pulls[r][i].head >= 1 /\ Carries(pulls[r][i].result, pulls[r][i].head)
  BY DEF MergesAreReal
<1>2. OnlyForward(r) /\ child[r] \in Nat /\ child'[r] \in Nat
      /\ remote[r].child \in Nat /\ remote'[r].child \in Nat /\ pulls[r] \in Seq(Pulls)
  BY DEF HostStep, BranchesType, TypeOK
<1>3. child'[r] >= 1 /\ (remote[r].child >= 1 => remote'[r].child >= 1)
  BY <1>1, <1>2 DEF OnlyForward
<1>4. pulls'[r] # <<>> => remote[r].child >= 1
  BY <1>1, <1>2 DEF OnlyForward
<1>5. ASSUME NEW i \in DOMAIN pulls'[r], pulls'[r][i].state = "merged"
      PROVE  pulls'[r][i].head >= 1 /\ Carries(pulls'[r][i].result, pulls'[r][i].head)
  <2>1. \/ i \in DOMAIN pulls[r] /\ pulls'[r][i] = pulls[r][i]
        \/ /\ i \in DOMAIN pulls[r]
           /\ pulls'[r][i].head = remote[r].child
           /\ Carries(pulls'[r][i].result, remote[r].child)
    BY <1>2, <1>5 DEF OnlyForward
  <2>2. CASE i \in DOMAIN pulls[r] /\ pulls'[r][i] = pulls[r][i]
    BY <1>1, <1>5, <2>2
  <2>3. CASE /\ i \in DOMAIN pulls[r]
             /\ pulls'[r][i].head = remote[r].child
             /\ Carries(pulls'[r][i].result, remote[r].child)
    <3>1. remote[r].child >= 1
      BY <1>1, <1>2, <2>3
    <3> QED
      BY <2>3, <3>1
  <2> QED
    BY <2>1, <2>2, <2>3
<1> QED
  BY <1>3, <1>4, <1>5

(* What a run at a pull request knows of it stays true, whoever changes    *)
(* the host: one that becomes merged has the head that was pushed.         *)
LEMMA HostKeepsSource ==
  ASSUME TypeOK, HostStep, NEW r \in Repos, NEW i \in DOMAIN pulls[r], NEW v \in Nat,
         remote[r].child >= v,
         pulls[r][i].state = "merged" => pulls[r][i].head >= v
  PROVE  /\ i \in DOMAIN pulls'[r] /\ remote'[r].child >= v
         /\ pulls'[r][i].state = "merged" => pulls'[r][i].head >= v
<1>1. OnlyForward(r) /\ remote[r].child \in Nat /\ remote'[r].child \in Nat
  BY DEF HostStep, BranchesType, TypeOK
<1> QED
  BY <1>1 DEF OnlyForward

(* The child branch only grows.                                            *)
LEMMA NeverBehind ==
  ASSUME TypeOK, HostStep, NEW r \in Repos, NEW v \in Nat
  PROVE  /\ child[r] >= v => child'[r] >= v
         /\ remote[r].child >= v => remote'[r].child >= v
<1>1. /\ child[r] \in Nat /\ child'[r] \in Nat
      /\ remote[r].child \in Nat /\ remote'[r].child \in Nat
  BY DEF HostStep, BranchesType, TypeOK
<1>2. child'[r] >= child[r] /\ remote'[r].child >= remote[r].child
  BY DEF HostStep, OnlyForward
<1> QED
  BY <1>1, <1>2

(* The step of one run leaves another in order.                            *)
LEMMA OtherRunStays ==
  ASSUME IInv, HostStep, NEW q \in Runs, run'[q] = run[q], ~ Working(q) \/ RecordKept
  PROVE  RunInv(q)'
<1>1. TypeOK /\ RunInv(q) /\ run[q] \in RunStates
  BY InvByRun DEF TypeOK
<1>2. TurnOf(q)'
  <2>1. ASSUME AtPull(q) PROVE run[q].pull \in DOMAIN pulls'[run[q].repo]
    <3>1. run[q].repo \in Repos /\ run[q].pull \in DOMAIN pulls[run[q].repo]
      BY <1>1, <2>1 DEF RunInv, TurnOf, AtPull, RunStates
    <3> QED
      BY <3>1 DEF HostStep, OnlyForward
  <2> QED
    BY <1>1, <2>1 DEF RunInv, TurnOf, AtPull, HasReceipt
<1>3. SourceOf(q)'
  <2>1. ASSUME run[q].pc \in {"find", "create"} \/ AtPull(q)
        PROVE  remote'[run[q].repo].child >= run[q].source
    <3>1. run[q].repo \in Repos /\ remote[run[q].repo].child >= run[q].source
      BY <1>1, <2>1 DEF RunInv, TurnOf, SourceOf, AtPull, RunStates
    <3>2. run[q].source \in Nat
      BY <1>1 DEF RunStates
    <3> QED
      BY <1>1, <3>1, <3>2, NeverBehind
  <2>2. ASSUME GateHolds(q), pulls'[run[q].repo][run[q].pull].state = "merged"
        PROVE  pulls'[run[q].repo][run[q].pull].head >= run[q].source
    <3>1. AtPull(q)
      BY <2>2 DEF GateHolds, AtPull
    <3>2. /\ run[q].repo \in Repos /\ run[q].pull \in DOMAIN pulls[run[q].repo]
          /\ run[q].source \in Nat /\ remote[run[q].repo].child >= run[q].source
      BY <1>1, <3>1 DEF RunInv, TurnOf, SourceOf, AtPull, RunStates
    <3>3. pulls[run[q].repo][run[q].pull].state = "merged"
            => pulls[run[q].repo][run[q].pull].head >= run[q].source
      BY <1>1, <2>2 DEF RunInv, SourceOf
    <3> QED
      BY <1>1, <2>2, <3>2, <3>3, HostKeepsSource
  <2>4. ASSUME run[q].repo # None
        PROVE  run[q].source >= 1 /\ child'[run[q].repo] >= run[q].source
    <3>1. run[q].repo \in Repos /\ run[q].source >= 1 /\ child[run[q].repo] >= run[q].source
      BY <1>1, <2>4 DEF RunInv, SourceOf, RunStates
    <3>2. run[q].source \in Nat
      BY <1>1 DEF RunStates
    <3> QED
      BY <1>1, <3>1, <3>2, NeverBehind
  <2>3. /\ run[q].pc \in {"advance", "record", "checkParent"} => Carries(run[q].result, run[q].source)
        /\ RealEvidence(run[q].child)
    BY <1>1 DEF RunInv, SourceOf
  <2> QED
    BY <2>1, <2>2, <2>3, <2>4 DEF SourceOf, AtPull, GateHolds, RealEvidence, HasReceipt, Carries
<1>4. HeldBy(q)'
  BY <1>1 DEF RunInv, HeldBy, RecordKept, Working, Passed, HasReceipt
<1> QED
  BY <1>2, <1>3, <1>4 DEF RunInv

(* A run between two turns holds what the record says.                     *)
LEMMA RunAtRest ==
  ASSUME IInv, EvidenceIsReal', NEW p \in Runs, run'[p].repo = None,
         \/ run'[p].pc = "choose" /\ run'[p].child = record'
         \/ run'[p].pc = "ended" /\ run'[p].child \in {NoFeature, run[p].child}
  PROVE  RunInv(p)'
<1>1. TurnOf(p)'
  BY DEF TurnOf, AtPull
<1>2. RealEvidence(run[p].child) /\ RealEvidence(NoFeature) /\ RealEvidence(record')
  BY DEF IInv, SourceMerged, RealEvidence, NoFeature, HasReceipt, EvidenceIsReal, Carries
<1>3. RealEvidence(run[p].child)'
  BY <1>2 DEF RealEvidence, HasReceipt, Carries
<1>4. SourceOf(p)'
  BY <1>3 DEF SourceOf, AtPull, GateHolds
<1>5. HeldBy(p)'
  BY DEF HeldBy, Working
<1> QED
  BY <1>1, <1>4, <1>5 DEF RunInv

(* A run that goes on with its turn.                                       *)
LEMMA RunInTurn ==
  ASSUME IInv, NEW p \in Runs, HostStep, Writes(p), run[p].repo # None,
         record' = run[p].child \/ \A r \in Repos : Passed(record', r) => Passed(record, r),
         run'[p].repo = run[p].repo, run'[p].source = run[p].source,
         run'[p].child = run[p].child, run'[p].pc \notin {"new", "choose", "ended", "reverify"},
         AtPull(p)' => run'[p].pull \in DOMAIN pulls'[run[p].repo],
         run'[p].pc \in {"find", "create"} \/ AtPull(p)' =>
           remote'[run[p].repo].child >= run[p].source,
         GateHolds(p)' /\ pulls'[run[p].repo][run'[p].pull].state = "merged" =>
           pulls'[run[p].repo][run'[p].pull].head >= run[p].source,
         run'[p].pc \in {"advance", "record", "checkParent"} =>
           Carries(run'[p].result, run[p].source)
  PROVE  RunInv(p)'
<1>1. TypeOK /\ RunInv(p)
  BY InvByRun
<1>2. TurnOf(p)'
  BY <1>1 DEF TurnOf, AtPull
<1>3. RealEvidence(run[p].child)'
  BY <1>1 DEF RunInv, SourceOf, RealEvidence, HasReceipt, Carries
<1>s. child'[run[p].repo] >= run[p].source
  <2>1. run[p].repo \in Repos /\ child[run[p].repo] >= run[p].source
    BY <1>1 DEF RunInv, SourceOf, TypeOK, RunStates
  <2>2. run[p].source \in Nat
    BY <1>1 DEF TypeOK, RunStates
  <2> QED
    BY <1>1, <2>1, <2>2, NeverBehind
<1>4. SourceOf(p)'
  BY <1>1, <1>3, <1>s DEF RunInv, SourceOf, AtPull, GateHolds, Carries
<1>5. Working(p)
  BY <1>1 DEF RunInv, TurnOf, Working
<1>6. HeldBy(p)'
  <2>1. ASSUME NEW r \in Repos, Passed(record', r) PROVE run[p].child.receipt[r] = record'.receipt[r]
    <3>1. CASE Passed(record, r)
      BY <1>1, <1>5, <3>1, PassingStep DEF RunInv, HeldBy
    <3>2. CASE record' = run[p].child
      BY <3>2
    <3> QED
      BY <2>1, <3>1, <3>2
  <2> QED
    BY <1>1, <1>5, <2>1 DEF RunInv, HeldBy, Passed, HasReceipt, Working
<1> QED
  BY <1>2, <1>4, <1>6 DEF RunInv

(* A step of a run: only its own progress changes, and the lock is its own.*)
LocksAs(p) ==
  \/ lock' = lock /\ (Working(p)' => Working(p))
  \/ lock = None /\ lock' = p
  \/ lock' = None /\ ~ Working(p)' /\ Working(p)

Done(p) == Mine(p) /\ RunInv(p)' /\ LocksAs(p)

(* The repo's turn ends here.                                              *)
LEMMA TurnEnds ==
  ASSUME IInv, NEW p \in Runs, Working(p), HostStep, Writes(p), record' \in Features,
         UNCHANGED <<lock, deeds>>, RepoDone(p)
  PROVE  Done(p)
<1>1. TypeOK
  BY DEF IInv
<1>2. /\ run' \in [Runs -> RunStates] /\ \A q \in Runs \ {p} : run'[q] = run[q]
      /\ run'[p].pc = "choose" /\ run'[p].repo = None /\ run'[p].child = record'
  BY <1>1, RepoDoneRun
<1>3. RunInv(p)'
  BY <1>2, EvidenceStep, RunAtRest
<1> QED
  BY <1>2, <1>3 DEF Done, Mine, LocksAs

(* The turn goes on to pc, with nothing to show for it yet.                *)
LEMMA TurnGoesOn ==
  ASSUME IInv, NEW p \in Runs, HostStep, Writes(p), record' \in Features,
         UNCHANGED <<lock, deeds>>,
         run[p].repo # None, NEW pc \in RunPcs \ {"new", "choose", "ended", "reverify"}, Become(p, pc),
         record' = run[p].child \/ \A r \in Repos : Passed(record', r) => Passed(record, r),
         pc \in {"writeUrl", "gate", "requestMerge", "observe"} =>
           run[p].pull \in DOMAIN pulls'[run[p].repo],
         pc \in {"find", "create", "writeUrl", "gate", "requestMerge", "observe"} =>
           remote'[run[p].repo].child >= run[p].source,
         (/\ \/ pc \in {"requestMerge", "observe"}
             \/ pc \in {"writeUrl", "gate"} /\ run[p].head \in {0, run[p].source}
          /\ pulls'[run[p].repo][run[p].pull].state = "merged")
           => pulls'[run[p].repo][run[p].pull].head >= run[p].source,
         pc \in {"advance", "record", "checkParent"} => Carries(run[p].result, run[p].source)
  PROVE  Done(p)
<1>1. TypeOK /\ TurnsToRepo
  BY DEF IInv
<1>2. /\ run' \in [Runs -> RunStates] /\ \A q \in Runs \ {p} : run'[q] = run[q]
      /\ run'[p] = [run[p] EXCEPT !.pc = pc]
  BY <1>1, BecomeRun
<1>3. run[p] \in RunStates
  BY <1>1 DEF TypeOK
<1>4. /\ run'[p].pc = pc /\ run'[p].repo = run[p].repo /\ run'[p].source = run[p].source
      /\ run'[p].child = run[p].child /\ run'[p].pull = run[p].pull
      /\ run'[p].head = run[p].head /\ run'[p].result = run[p].result
  BY <1>2, <1>3 DEF RunStates
<1>5. RunInv(p)'
  <2>1. AtPull(p)' <=> pc \in {"writeUrl", "gate", "requestMerge", "observe"}
    BY <1>4 DEF AtPull
  <2>2. GateHolds(p)' <=> \/ pc \in {"requestMerge", "observe"}
                          \/ pc \in {"writeUrl", "gate"} /\ run[p].head \in {0, run[p].source}
    BY <1>4 DEF GateHolds
  <2>3. run'[p].pc \notin {"new", "choose", "ended", "reverify"}
    BY <1>4
  <2> HIDE DEF AtPull, GateHolds
  <2> QED
    BY <1>4, <2>1, <2>2, <2>3, RunInTurn
<1>6. Working(p)
  BY <1>1 DEF TurnsToRepo, Working
<1> QED
  BY <1>2, <1>5, <1>6 DEF Done, Mine, LocksAs

-----------------------------------------------------------------------------
(* The steps of a run, up to the pull request.                             *)

(* A step that writes neither git nor the record.                          *)
LEMMA NothingWritten ==
  ASSUME IInv, NEW p \in Runs, UNCHANGED <<local, hosted, record>>
  PROVE  HostStep /\ Writes(p) /\ record' \in Features
BY SameHost DEF IInv, TypeOK, Writes, local, hosted

(* A run that takes the lock and reads the record.                         *)
LEMMA EnterDone ==
  ASSUME IInv, NEW p \in Runs, Enter(p)
  PROVE  Done(p)
<1>1. TypeOK /\ run[p].pc = "new" /\ run[p].repo = None /\ run[p] \in RunStates
  BY DEF IInv, TypeOK, TurnsToRepo, Enter
<1>2. HostStep /\ Writes(p) /\ record' \in Features /\ record' = record /\ deeds' = deeds
  BY NothingWritten DEF Enter
<1>3. CASE /\ lock' = p
           /\ run' = [run EXCEPT ![p].pc = "choose", ![p].child = record,
                                 ![p].todo = record.promoted]
  <2> DEFINE s == [run[p] EXCEPT !.pc = "choose", !.child = record, !.todo = record.promoted]
  <2>1. record \in Features /\ record.promoted \in SUBSET Repos
    BY <1>1, FeatureFields DEF TypeOK
  <2>2. s \in RunStates /\ s.pc = "choose" /\ s.repo = None /\ s.child = record
    BY <1>1, <2>1 DEF RunStates, RunPcs
  <2>3. run' = [run EXCEPT ![p] = s]
    BY <1>3
  <2> HIDE DEF s
  <2>4. /\ run' \in [Runs -> RunStates] /\ \A q \in Runs \ {p} : run'[q] = run[q]
        /\ run'[p] = s
    BY <1>1, <2>2, <2>3 DEF TypeOK
  <2>5. RunInv(p)'
    BY <1>2, <2>2, <2>4, EvidenceStep, RunAtRest
  <2>6. lock = None
    BY DEF Enter
  <2> QED
    BY <1>2, <1>3, <2>4, <2>5, <2>6 DEF Done, Mine, LocksAs
<1>4. CASE Become(p, "ended") /\ UNCHANGED lock
  <2>1. /\ run' \in [Runs -> RunStates] /\ \A q \in Runs \ {p} : run'[q] = run[q]
        /\ run'[p] = [run[p] EXCEPT !.pc = "ended"]
    BY <1>1, <1>4, BecomeRun DEF RunPcs
  <2>2. run'[p].pc = "ended" /\ run'[p].repo = None /\ run'[p].child = run[p].child
    BY <1>1, <2>1 DEF RunStates
  <2>3. RunInv(p)'
    BY <1>2, <2>2, EvidenceStep, RunAtRest
  <2> QED
    BY <1>2, <1>4, <2>1, <2>2, <2>3 DEF Done, Mine, LocksAs, Working
<1> QED
  BY <1>3, <1>4 DEF Enter

(* A run that takes up its next repo, or closes.                           *)
LEMMA ChooseDone ==
  ASSUME IInv, NEW p \in Runs, Choose(p)
  PROVE  Done(p)
<1> DEFINE r == NextRepo(p)
<1>1. TypeOK /\ RunInv(p) /\ run[p] \in RunStates /\ run[p].pc = "choose" /\ Working(p)
  BY InvByRun DEF TypeOK, Choose, Working
<1>2. /\ HostStep /\ Writes(p) /\ record' \in Features /\ record' = record
      /\ UNCHANGED <<lock, deeds>>
  BY NothingWritten DEF Choose
<1>3. r \in Repos
  BY <1>1, NextRepoIsToDo DEF Choose
<1>4. r # None
  BY <1>3, PullRequestsAssumption
<1>5. child[r] \in Nat /\ child[r] >= 1
  BY <1>3 DEF IInv, TypeOK, MergesAreReal
<1>6. \/ Begins(p, "checkChild") /\ ~HasReceipt(run[p].child, r)
      \/ Begins(p, "reverify") /\ HasReceipt(run[p].child, r) /\ ~Passed(run[p].child, r)
      \/ RepoDone(p)
  BY DEF Choose
<1> HIDE DEF r
<1>7. ASSUME NEW pc \in {"checkChild", "reverify"}, Begins(p, pc), ~Passed(run[p].child, r),
             pc = "reverify" => HasReceipt(run[p].child, r)
      PROVE  Done(p)
  <2> DEFINE s == [run[p] EXCEPT !.pc = pc, !.repo = r, !.source = child[r]]
  <2>1. /\ s \in RunStates /\ s.pc = pc /\ s.repo = r /\ s.source = child[r]
        /\ s.child = run[p].child
    BY <1>1, <1>3, <1>5 DEF RunStates, RunPcs
  <2>2. run' = [run EXCEPT ![p] = s]
    BY <1>7 DEF Begins, r
  <2> HIDE DEF s
  <2>3. /\ run' \in [Runs -> RunStates] /\ \A q \in Runs \ {p} : run'[q] = run[q]
        /\ run'[p] = s
    BY <1>1, <2>1, <2>2 DEF TypeOK
  <2>4. TurnOf(p)'
    BY <1>4, <1>7, <2>1, <2>3 DEF TurnOf, AtPull, HasReceipt
  <2>5. RealEvidence(run[p].child)'
    BY <1>1, <2>1, <2>3 DEF RunInv, SourceOf, RealEvidence, HasReceipt, Carries
  <2>6. SourceOf(p)'
    <3>1. child' = child
      BY DEF Choose, local
    <3> QED
      BY <1>5, <2>1, <2>3, <2>5, <3>1 DEF SourceOf, AtPull, GateHolds
  <2>7. HeldBy(p)'
    BY <1>1, <1>2, <1>7, <2>1, <2>3 DEF RunInv, HeldBy, Passed, HasReceipt
  <2> QED
    BY <1>1, <1>2, <2>3, <2>4, <2>6, <2>7 DEF Done, Mine, LocksAs, RunInv
<1>8. ASSUME RepoDone(p) PROVE Done(p)
  BY <1>1, <1>2, <1>8, TurnEnds
<1> QED
  BY <1>6, <1>7, <1>8 DEF Passed

(* A repo's turn that breaks, and checks that fail, end it.                *)
LEMMA BreaksDone ==
  ASSUME IInv, NEW p \in Runs, run[p].pc \notin {"new", "ended"}, RepoDone(p),
         UNCHANGED <<local, hosted, record, lock, deeds>>
  PROVE  Done(p)
<1>1. Working(p)
  BY DEF Working
<1> QED
  BY <1>1, NothingWritten, TurnEnds

(* The checks of the child branch.                                         *)
LEMMA CheckChildDone ==
  ASSUME IInv, NEW p \in Runs, CheckChild(p)
  PROVE  Done(p)
<1>1. TypeOK /\ run[p].pc = "checkChild" /\ run[p].repo # None
  BY DEF IInv, TurnsToRepo, CheckChild
<1>2. UNCHANGED <<local, hosted, record, lock, deeds>>
  BY DEF CheckChild
<1>3. CASE Become(p, "push")
  BY <1>1, <1>2, <1>3, NothingWritten, TurnGoesOn DEF RunPcs
<1>4. CASE RepoDone(p)
  BY <1>1, <1>2, <1>4, BreaksDone
<1> QED
  BY <1>3, <1>4 DEF CheckChild

(* After the push the remote's branch is at the source, or past it.        *)
LEMMA PushDone ==
  ASSUME IInv, NEW p \in Runs, Push(p)
  PROVE  Done(p)
<1> DEFINE r == run[p].repo
<1>1. /\ TypeOK /\ run[p].pc = "push" /\ r # None /\ r \in Repos /\ run[p] \in RunStates
  BY RunRepo DEF IInv, TypeOK, Push
<1>2. /\ child[r] \in Nat /\ remote[r].child \in Nat /\ run[p].source \in Nat
      /\ remote \in [Repos -> [child : Nat, parent : Branches]]
  BY <1>1 DEF TypeOK, RunStates
<1>3. record' = record /\ UNCHANGED <<child, parent, pulls, lock, deeds>>
  BY DEF Push, local
<1>4. CASE RepoDone(p) /\ UNCHANGED remote
  <2>1. UNCHANGED <<local, hosted, record, lock, deeds>>
    BY <1>3, <1>4 DEF local, hosted
  <2> QED
    BY <1>1, <1>4, <2>1, BreaksDone
<1>5. CASE child[r] >= remote[r].child /\ Become(p, "find")
             /\ remote' = [remote EXCEPT ![r].child = child[r]]
  <2>1. /\ remote' \in [Repos -> [child : Nat, parent : Branches]]
        /\ remote'[r].child = child[r]
        /\ \A q \in Repos : remote'[q].child >= remote[q].child
    <3>1. /\ remote' \in [Repos -> [child : Nat, parent : Branches]]
          /\ remote'[r].child = child[r] /\ \A q \in Repos \ {r} : remote'[q] = remote[q]
      BY <1>1, <1>2, <1>5
    <3>2. \A q \in Repos : remote[q].child \in Nat
      BY <1>2
    <3> QED
      BY <1>5, <3>1, <3>2
  <2>2. child' \in [Repos -> Nat] /\ \A q \in Repos : child'[q] >= child[q]
    BY <1>1, <1>3 DEF TypeOK
  <2>3. HostStep
    BY <1>1, <1>3, <2>1, <2>2, BranchesMove DEF BranchesType, TypeOK
  <2>4. Writes(p) /\ record' \in Features
    BY <1>1, <1>3 DEF Writes, TypeOK
  <2>5. child[r] >= run[p].source
    BY <1>1 DEF IInv, SourceMerged
  <2> QED
    BY <1>1, <1>3, <1>5, <2>1, <2>3, <2>4, <2>5, TurnGoesOn DEF RunPcs
<1> QED
  BY <1>3, <1>4, <1>5 DEF Push

(* The pull request that is open already, if any.                          *)
LEMMA FindDone ==
  ASSUME IInv, NEW p \in Runs, Find(p)
  PROVE  Done(p)
<1> DEFINE r == run[p].repo
           i == Len(pulls[r])
<1>1. /\ TypeOK /\ run[p].pc = "find" /\ r # None /\ r \in Repos /\ run[p] \in RunStates
      /\ Working(p)
  BY RunRepo DEF IInv, TypeOK, Find, Working
<1>2. /\ HostStep /\ Writes(p) /\ record' \in Features /\ record' = record
      /\ UNCHANGED <<lock, deeds>> /\ UNCHANGED <<local, hosted>>
  BY NothingWritten DEF Find
<1>3. /\ pulls[r] \in Seq(Pulls) /\ remote[r].child \in Nat /\ run[p].source \in Nat
      /\ pulls' = pulls /\ remote' = remote
  BY <1>1, <1>2 DEF TypeOK, RunStates, hosted
<1>4. run[p].source >= 1 /\ remote[r].child >= run[p].source
  BY <1>1 DEF IInv, SourceMerged
<1>5. CASE i = 0 /\ Become(p, "create")
  BY <1>1, <1>2, <1>3, <1>4, <1>5, TurnGoesOn DEF RunPcs
<1>6. CASE i # 0 /\ run' = [run EXCEPT ![p].pc = "writeUrl", ![p].pull = i,
                                        ![p].head = HeadOf(r, i)]
  <2> DEFINE s == [run[p] EXCEPT !.pc = "writeUrl", !.pull = i, !.head = HeadOf(r, i)]
  <2>1. i \in DOMAIN pulls[r] /\ i \in Nat /\ pulls[r][i] \in Pulls
    BY <1>3, <1>6
  <2>2. HeadOf(r, i) \in Nat
    BY <1>3, <2>1 DEF HeadOf, Pulls
  <2>3. /\ s \in RunStates /\ s.pc = "writeUrl" /\ s.repo = r /\ s.source = run[p].source
        /\ s.child = run[p].child /\ s.pull = i /\ s.head = HeadOf(r, i)
    BY <1>1, <2>1, <2>2 DEF RunStates, RunPcs
  <2>4. run' = [run EXCEPT ![p] = s]
    BY <1>6
  <2> HIDE DEF s
  <2>5. /\ run' \in [Runs -> RunStates] /\ \A q \in Runs \ {p} : run'[q] = run[q]
        /\ run'[p] = s
    BY <1>1, <2>3, <2>4 DEF TypeOK
  <2>6. ASSUME pulls[r][i].state = "merged", HeadOf(r, i) \in {0, run[p].source}
        PROVE  pulls[r][i].head >= run[p].source
    <3>1. pulls[r][i].head = HeadOf(r, i) /\ pulls[r][i].head >= 1
      BY <1>1, <2>1, <2>6 DEF HeadOf, IInv, MergesAreReal
    <3> QED
      BY <1>3, <2>6, <3>1
  <2>7. RunInv(p)'
    <3>1. AtPull(p)' => run'[p].pull \in DOMAIN pulls'[r]
      BY <1>3, <2>1, <2>3, <2>5
    <3>2. GateHolds(p)' /\ pulls'[r][run'[p].pull].state = "merged" =>
            pulls'[r][run'[p].pull].head >= run[p].source
      BY <1>3, <2>3, <2>5, <2>6 DEF GateHolds
    <3>3. /\ run'[p].repo = r /\ run'[p].source = run[p].source /\ run'[p].child = run[p].child
          /\ run'[p].pc = "writeUrl"
      BY <2>3, <2>5
    <3>4. remote'[r].child >= run[p].source
      BY <1>3, <1>4
    <3> QED
      BY <1>1, <1>2, <3>1, <3>2, <3>3, <3>4, RunInTurn
  <2> QED
    BY <1>1, <1>2, <2>5, <2>7 DEF Done, Mine, LocksAs
<1> QED
  BY <1>5, <1>6 DEF Find, Become

(* A pull request is created.                                              *)
LEMMA CreateDone ==
  ASSUME IInv, NEW p \in Runs, Create(p)
  PROVE  Done(p)
<1> DEFINE r == run[p].repo
           i == Len(pulls[r]) + 1
<1>1. /\ TypeOK /\ run[p].pc = "create" /\ r # None /\ r \in Repos /\ run[p] \in RunStates
      /\ Working(p)
  BY RunRepo DEF IInv, TypeOK, Create, Working
<1>2. UNCHANGED <<child, parent, remote, record, lock, deeds>>
  BY DEF Create, local
<1>3. /\ pulls[r] \in Seq(Pulls) /\ remote[r].child \in Nat /\ run[p].source \in Nat
  BY <1>1 DEF TypeOK, RunStates
<1>4. run[p].source >= 1 /\ remote[r].child >= run[p].source /\ remote[r].child >= 1
  BY <1>1, <1>3 DEF IInv, SourceMerged
<1>5. Writes(p) /\ record' \in Features
  BY <1>1, <1>2 DEF Writes, TypeOK
<1>6. CASE UNCHANGED pulls /\ RepoDone(p)
  <2>1. UNCHANGED <<local, hosted, record, lock, deeds>>
    BY <1>2, <1>6 DEF local, hosted
  <2> QED
    BY <1>1, <1>6, <2>1, BreaksDone
<1>7. CASE OpenPull(r, TRUE)
  <2>1. HostStep
    BY <1>1, <1>2, <1>4, <1>7, HostOpensOne
  <2>2. CASE RepoDone(p)
    BY <1>1, <1>2, <1>5, <2>1, <2>2, TurnEnds
  <2>3. CASE run' = [run EXCEPT ![p].pc = "writeUrl", ![p].pull = i]
    <3> DEFINE s == [run[p] EXCEPT !.pc = "writeUrl", !.pull = i]
    <3>1. i \in DOMAIN pulls'[r] /\ i \in Nat /\ pulls'[r][i].state = "open"
      <4>1. pulls'[r] \in Seq(Pulls) /\ Len(pulls'[r]) = i /\ pulls'[r][i].state = "open"
        BY <1>1, <1>7, OpenPullType
      <4> QED
        BY <1>3, <4>1
    <3>2. /\ s \in RunStates /\ s.pc = "writeUrl" /\ s.repo = r /\ s.source = run[p].source
          /\ s.child = run[p].child /\ s.pull = i
      BY <1>1, <3>1 DEF RunStates, RunPcs
    <3>3. run' = [run EXCEPT ![p] = s]
      BY <2>3
    <3> HIDE DEF s
    <3>4. /\ run' \in [Runs -> RunStates] /\ \A q \in Runs \ {p} : run'[q] = run[q]
          /\ run'[p] = s
      BY <1>1, <3>2, <3>3 DEF TypeOK
    <3>5. RunInv(p)'
      <4>1. /\ run'[p].repo = r /\ run'[p].source = run[p].source /\ run'[p].child = run[p].child
            /\ run'[p].pc = "writeUrl" /\ run'[p].pull = i
        BY <3>2, <3>4
      <4>2. remote'[r].child >= run[p].source
        BY <1>2, <1>4
      <4>3. \A q \in Repos : Passed(record', q) => Passed(record, q)
        BY <1>2
      <4> HIDE DEF i
      <4> QED
        BY <1>1, <1>5, <2>1, <3>1, <4>1, <4>2, <4>3, RunInTurn
    <3> QED
      BY <1>1, <1>2, <1>5, <2>1, <3>4, <3>5 DEF Done, Mine, LocksAs
  <2> QED
    BY <1>6, <2>2, <2>3 DEF Create
<1> QED
  BY <1>6, <1>7 DEF Create

(* The record as it was read is real, and holds every passing receipt.     *)
LEMMA WriteUrlDone ==
  ASSUME IInv, NEW p \in Runs, WriteUrl(p)
  PROVE  Done(p)
<1> DEFINE r == run[p].repo
<1>1. /\ TypeOK /\ run[p].pc = "writeUrl" /\ r # None /\ r \in Repos /\ run[p] \in RunStates
      /\ AtPull(p) /\ RunInv(p)
  BY RunRepo, InvByRun DEF IInv, TypeOK, WriteUrl, AtPull
<1>2. UNCHANGED <<child, parent, remote, pulls, lock, deeds>> /\ record' = run[p].child
  BY DEF WriteUrl, local, hosted
<1>3. HostStep /\ Writes(p) /\ record' \in Features
  BY <1>1, <1>2, SameHost DEF Writes, RunStates
<1>4. /\ run[p].pull \in DOMAIN pulls'[r] /\ remote'[r].child >= run[p].source
      /\ run[p].head \in {0, run[p].source} /\ pulls'[r][run[p].pull].state = "merged"
            => pulls'[r][run[p].pull].head >= run[p].source
  BY <1>1, <1>2 DEF RunInv, TurnOf, SourceOf, GateHolds
<1>5. Become(p, "gate")
  BY DEF WriteUrl
<1> QED
  BY <1>1, <1>2, <1>3, <1>4, <1>5, TurnGoesOn DEF RunPcs

(* A head that is not the source goes no further.                          *)
LEMMA GateDone ==
  ASSUME IInv, NEW p \in Runs, Gate(p)
  PROVE  Done(p)
<1> DEFINE r == run[p].repo
<1>1. /\ TypeOK /\ run[p].pc = "gate" /\ r # None /\ r \in Repos /\ run[p] \in RunStates
      /\ AtPull(p) /\ RunInv(p)
  BY RunRepo, InvByRun DEF IInv, TypeOK, Gate, AtPull
<1>2. UNCHANGED <<local, hosted, record, lock, deeds>> /\ pulls' = pulls /\ remote' = remote
  BY DEF Gate, hosted
<1>3. CASE RepoDone(p)
  BY <1>1, <1>2, <1>3, BreaksDone
<1>4. CASE run[p].head \in {0, run[p].source} /\ Become(p, "requestMerge")
  <2>1. /\ run[p].pull \in DOMAIN pulls'[r] /\ remote'[r].child >= run[p].source
        /\ pulls'[r][run[p].pull].state = "merged"
              => pulls'[r][run[p].pull].head >= run[p].source
    BY <1>1, <1>2, <1>4 DEF RunInv, TurnOf, SourceOf, GateHolds
  <2> QED
    BY <1>1, <1>2, <1>4, <2>1, NothingWritten, TurnGoesOn DEF RunPcs
<1> QED
  BY <1>3, <1>4 DEF Gate

-----------------------------------------------------------------------------
(* The steps of a run: the merge and its evidence.                         *)

(* The merge is requested.                                                 *)
LEMMA RequestMergeDone ==
  ASSUME IInv, NEW p \in Runs, RequestMerge(p)
  PROVE  Done(p)
<1> DEFINE r == run[p].repo
           i == run[p].pull
<1>1. /\ TypeOK /\ run[p].pc = "requestMerge" /\ r # None /\ r \in Repos
      /\ run[p] \in RunStates /\ AtPull(p) /\ RunInv(p) /\ Working(p)
      /\ i \in DOMAIN pulls[r]
  BY RunRepo, InvByRun DEF IInv, TypeOK, RequestMerge, AtPull, Working
<1>2. UNCHANGED <<child, parent, record, lock, deeds>>
  BY DEF RequestMerge, local
<1>3. Writes(p) /\ record' \in Features /\ \A q \in Repos : Passed(record', q) => Passed(record, q)
  BY <1>1, <1>2 DEF Writes, TypeOK
<1>4. /\ remote[r].child >= run[p].source
      /\ pulls[r][i].state = "merged" => pulls[r][i].head >= run[p].source
      /\ run[p].source \in Nat
  BY <1>1 DEF RunInv, SourceOf, GateHolds, RunStates
<1>5. ASSUME HostStep, Become(p, "observe") PROVE Done(p)
  <2>1. /\ i \in DOMAIN pulls'[r] /\ remote'[r].child >= run[p].source
        /\ pulls'[r][i].state = "merged" => pulls'[r][i].head >= run[p].source
    BY <1>1, <1>4, <1>5, HostKeepsSource
  <2> HIDE DEF r, i
  <2> QED
    BY <1>1, <1>2, <1>3, <1>5, <2>1, TurnGoesOn DEF RunPcs, r, i
<1>6. ASSUME HostStep, RepoDone(p) PROVE Done(p)
  BY <1>1, <1>2, <1>3, <1>6, TurnEnds
<1>7. CASE pulls[r][i].state = "open" /\ MergePull(r, i)
  <2>1. HostStep
    BY <1>1, <1>2, <1>7, HostMergesOne
  <2>2. Become(p, "observe") \/ RepoDone(p)
    BY <1>7 DEF RequestMerge
  <2> QED
    BY <1>5, <1>6, <2>1, <2>2
<1>8. CASE UNCHANGED hosted
  <2>1. HostStep
    BY <1>1, <1>2, <1>8, SameHost DEF hosted
  <2>2. Become(p, "observe") \/ RepoDone(p)
    BY DEF RequestMerge
  <2> QED
    BY <1>5, <1>6, <2>1, <2>2
<1> QED
  BY <1>7, <1>8 DEF RequestMerge

(* What the host says was merged carries the source.                       *)
LEMMA ObserveDone ==
  ASSUME IInv, NEW p \in Runs, Observe(p)
  PROVE  Done(p)
<1> DEFINE r == run[p].repo
           pull == pulls[r][run[p].pull]
<1>1. /\ TypeOK /\ run[p].pc = "observe" /\ r # None /\ r \in Repos
      /\ run[p] \in RunStates /\ AtPull(p) /\ RunInv(p) /\ Working(p)
      /\ run[p].pull \in DOMAIN pulls[r] /\ pull \in Pulls
  BY RunRepo, InvByRun DEF IInv, TypeOK, Observe, AtPull, Working
<1>2. UNCHANGED <<local, hosted, record, lock, deeds>>
  BY DEF Observe
<1>3. CASE RepoDone(p)
  BY <1>1, <1>2, <1>3, BreaksDone
<1>4. CASE /\ pull.state = "merged"
           /\ run' = [run EXCEPT ![p].pc = "advance", ![p].result = pull.result]
  <2>1. pull.head >= run[p].source
    BY <1>1, <1>4 DEF RunInv, SourceOf, GateHolds
  <2>2. Carries(pull.result, pull.head)
    BY <1>1, <1>4 DEF IInv, MergesAreReal
  <2>3. pull.result \in Branches /\ pull.head \in Nat /\ run[p].source \in Nat
    BY <1>1 DEF Pulls, RunStates
  <2> DEFINE result == pull.result
  <2>4. Carries(result, run[p].source)
    BY <2>1, <2>2, <2>3, LowerIsCarried
  <2> DEFINE s == [run[p] EXCEPT !.pc = "advance", !.result = result]
  <2>5. result \in Branches /\ run' = [run EXCEPT ![p] = s]
    BY <1>4, <2>3
  <2> HIDE DEF pull, result
  <2>6. /\ s \in RunStates /\ s.pc = "advance" /\ s.repo = r /\ s.source = run[p].source
        /\ s.child = run[p].child /\ s.result = result
    BY <1>1, <2>5 DEF RunStates, RunPcs
  <2> HIDE DEF s
  <2>7. /\ run' \in [Runs -> RunStates] /\ \A q \in Runs \ {p} : run'[q] = run[q]
        /\ run'[p] = s
    BY <1>1, <2>5, <2>6 DEF TypeOK
  <2>8. HostStep /\ Writes(p) /\ record' \in Features
    BY <1>2, NothingWritten
  <2>9. RunInv(p)'
    <3>1. \A q \in Repos : Passed(record', q) => Passed(record, q)
      BY <1>2
    <3>2. /\ run'[p].repo = r /\ run'[p].source = run[p].source /\ run'[p].child = run[p].child
          /\ run'[p].pc = "advance" /\ Carries(run'[p].result, run[p].source)
      BY <2>4, <2>6, <2>7
    <3>3. ~ AtPull(p)' /\ ~ GateHolds(p)'
      BY <3>2 DEF AtPull, GateHolds
    <3> QED
      BY <1>1, <2>8, <3>1, <3>2, <3>3, RunInTurn
  <2> QED
    BY <1>1, <1>2, <2>7, <2>8, <2>9 DEF Done, Mine, LocksAs
<1> QED
  BY <1>3, <1>4 DEF Observe

(* The local parent is advanced to the merged one.                         *)
LEMMA AdvanceDone ==
  ASSUME IInv, NEW p \in Runs, Advance(p)
  PROVE  Done(p)
<1> DEFINE r == run[p].repo
<1>1. /\ TypeOK /\ run[p].pc = "advance" /\ r # None /\ r \in Repos
      /\ run[p] \in RunStates /\ RunInv(p) /\ Working(p)
  BY RunRepo, InvByRun DEF IInv, TypeOK, Advance, Working
<1>2. UNCHANGED <<child, remote, pulls, record, lock, deeds>>
  BY DEF Advance, hosted
<1>3. Writes(p) /\ record' \in Features /\ \A q \in Repos : Passed(record', q) => Passed(record, q)
  BY <1>1, <1>2 DEF Writes, TypeOK
<1>4. Carries(run[p].result, run[p].source)
  BY <1>1 DEF RunInv, SourceOf
<1>5. HostStep
  <2>1. parent' = parent \/ parent' = [parent EXCEPT ![r] = remote[r].parent]
    BY DEF Advance
  <2>2. parent' \in [Repos -> Branches]
    BY <1>1, <2>1 DEF TypeOK
  <2>3. \A q \in Repos : child'[q] >= child[q] /\ remote'[q].child >= remote[q].child
    BY <1>1, <1>2 DEF TypeOK
  <2> QED
    BY <1>1, <1>2, <2>2, <2>3, BranchesMove DEF BranchesType, TypeOK
<1>6. CASE Become(p, "record")
  BY <1>1, <1>2, <1>3, <1>4, <1>5, <1>6, TurnGoesOn DEF RunPcs
<1>7. CASE RepoDone(p)
  BY <1>1, <1>2, <1>3, <1>5, <1>7, TurnEnds
<1> QED
  BY <1>6, <1>7 DEF Advance

(* A receipt is first failed evidence, and then what the checks say.       *)
LEMMA RecordPendingDone ==
  ASSUME IInv, NEW p \in Runs, RecordPending(p)
  PROVE  Done(p)
<1> DEFINE r == run[p].repo
           receipt == ReceiptOf(p, FALSE)
<1>1. /\ TypeOK /\ run[p].pc = "record" /\ r # None /\ r \in Repos
      /\ run[p] \in RunStates /\ RunInv(p) /\ TurnsToRepo
  BY RunRepo, InvByRun DEF IInv, TypeOK, RecordPending
<1>2. UNCHANGED <<child, parent, remote, pulls, lock, deeds>> /\ PersistReceipt(r, receipt)
  BY DEF RecordPending, local, hosted
<1>3. /\ receipt \in Receipts /\ receipt.source = run[p].source
      /\ receipt.result = run[p].result /\ receipt.passed = FALSE
  BY <1>1, ReceiptType
<1> HIDE DEF receipt
<1>4. HostStep /\ Writes(p) /\ record' \in Features
  BY <1>1, <1>2, <1>3, SameHost, PersistType DEF Writes
<1>5. \A q \in Repos : Passed(record', q) => Passed(record, q)
  <2>1. /\ \A q \in Repos \ {r} : record'.receipt[q] = record.receipt[q]
        /\ record'.receipt[r] \in {receipt, record.receipt[r]}
    BY <1>1, <1>2, <1>3, PersistType
  <2> QED
    BY <1>3, <2>1 DEF Passed, HasReceipt
<1>6. Carries(run[p].result, run[p].source) /\ Become(p, "checkParent")
  BY <1>1 DEF RunInv, SourceOf, RecordPending
<1> QED
  BY <1>1, <1>2, <1>4, <1>5, <1>6, TurnGoesOn DEF RunPcs

(* The checks of the parent.                                               *)
LEMMA CheckParentDone ==
  ASSUME IInv, NEW p \in Runs, CheckParent(p)
  PROVE  Done(p)
<1> DEFINE r == run[p].repo
<1>1. /\ TypeOK /\ run[p].pc = "checkParent" /\ r \in Repos /\ Working(p)
  BY RunRepo DEF IInv, CheckParent, Working
<1>2. /\ UNCHANGED <<child, parent, remote, pulls, lock, deeds>> /\ RepoDone(p)
      /\ \E passed \in BOOLEAN : PersistReceipt(r, ReceiptOf(p, passed))
  BY DEF CheckParent, local, hosted
<1>3. PICK passed \in BOOLEAN : PersistReceipt(r, ReceiptOf(p, passed))
  BY <1>2
<1>4. HostStep /\ Writes(p) /\ record' \in Features
  BY <1>1, <1>2, <1>3, SameHost, ReceiptType, PersistType DEF Writes
<1> QED
  BY <1>1, <1>2, <1>4, TurnEnds

(* The checks of a failed receipt once more.                               *)
LEMMA ReverifyDone ==
  ASSUME IInv, NEW p \in Runs, Reverify(p)
  PROVE  Done(p)
<1> DEFINE r == run[p].repo
           held == run[p].child.receipt[r]
<1>1. /\ TypeOK /\ run[p].pc = "reverify" /\ r \in Repos /\ Working(p)
      /\ run[p].child \in Features /\ held # None
  BY RunRepo DEF IInv, TypeOK, RunStates, Reverify, Working, TurnsToRepo, HasReceipt
<1>2. held \in Receipts
  BY <1>1, FeatureFields
<1>3. /\ UNCHANGED <<child, parent, remote, pulls, lock, deeds>> /\ RepoDone(p)
      /\ \E passed \in BOOLEAN : PersistReceipt(r, [held EXCEPT !.passed = passed])
  BY DEF Reverify, local, hosted
<1>4. PICK passed \in BOOLEAN : PersistReceipt(r, [held EXCEPT !.passed = passed])
  BY <1>3
<1> DEFINE receipt == [held EXCEPT !.passed = passed]
<1>5. receipt \in Receipts /\ receipt.source = held.source /\ receipt.result = held.result
  BY <1>2 DEF Receipts
<1>6. HostStep
  BY <1>1, <1>3, SameHost
<1>7. Writes(p) /\ record' \in Features
  <2> HIDE DEF receipt
  <2>1. PersistReceipt(r, receipt)
    BY <1>4 DEF receipt
  <2> QED
    BY <1>1, <1>5, <2>1, PersistType DEF Writes
<1> QED
  BY <1>1, <1>3, <1>6, <1>7, TurnEnds

(* A run that ends releases the lock.                                      *)
LEMMA EndsDone ==
  ASSUME IInv, NEW p \in Runs, Working(p), Ends(p)
  PROVE  Done(p)
<1>1. TypeOK
  BY DEF IInv
<1>2. HostStep /\ Writes(p) /\ record' \in Features /\ lock' = None /\ deeds' = deeds
  BY NothingWritten DEF Ends
<1>3. /\ run' \in [Runs -> RunStates] /\ \A q \in Runs \ {p} : run'[q] = run[q]
      /\ run'[p] = Quiet("ended")
  BY <1>1, EndsRun
<1>4. run'[p].pc = "ended" /\ run'[p].repo = None /\ run'[p].child = NoFeature
  BY <1>3 DEF Quiet
<1>5. RunInv(p)'
  BY <1>2, <1>4, EvidenceStep, RunAtRest
<1> QED
  BY <1>2, <1>3, <1>4, <1>5 DEF Done, Mine, LocksAs, Working

-----------------------------------------------------------------------------
(* The inductive invariant.                                                *)

(* Every step of a run, and a run that breaks off.                         *)
LEMMA RunStepDone ==
  ASSUME IInv, NEW p \in Runs, RunStep(p) \/ RepoBreaks(p) \/ Killed(p)
  PROVE  Done(p)
<1>1. ASSUME Finish(p) \/ Killed(p) PROVE Done(p)
  BY <1>1, EndsDone DEF Finish, Killed, Working
<1>2. ASSUME RepoBreaks(p) PROVE Done(p)
  BY <1>2, BreaksDone DEF RepoBreaks, IInv, TurnsToRepo
<1> QED
  BY <1>1, <1>2, EnterDone, ChooseDone, CheckChildDone, PushDone, FindDone, CreateDone,
     WriteUrlDone, GateDone, RequestMergeDone, ObserveDone, AdvanceDone, RecordPendingDone,
     CheckParentDone, ReverifyDone
     DEF RunStep

(* One run is at work at a time: the lock is taken when it is free and     *)
(* kept until the run ends.                                                *)
LEMMA OneAtWork ==
  ASSUME IInv, NEW p \in Runs, Done(p)
  PROVE  LockHeld' /\ lock' \in Runs \cup {None}
<1>1. LockHeld /\ lock \in Runs \cup {None}
  BY DEF IInv, TypeOK
<1>2. ASSUME NEW q \in Runs, q # p PROVE Working(q)' <=> Working(q)
  BY <1>2 DEF Done, Mine, Working
<1>3. LocksAs(p) /\ None \notin Runs
  BY PullRequestsAssumption DEF Done
<1> QED
  BY <1>1, <1>2, <1>3 DEF LockHeld, LocksAs, Working

(* A run that did its step rightly keeps the invariant for all the others. *)
LEMMA DoneKeeps ==
  ASSUME IInv, NEW p \in Runs, Done(p)
  PROVE  IInv'
<1>1. TypeOK /\ LockHeld /\ MergesAreReal
  BY DEF IInv
<1>2. HostStep /\ Writes(p) /\ record' \in Features
  BY DEF Done, Mine
<1>3. LockHeld' /\ lock' \in Runs \cup {None}
  BY OneAtWork
<1>4. TypeOK'
  BY <1>1, <1>2, <1>3 DEF TypeOK, Done, Mine, HostStep, BranchesType
<1>5. ASSUME NEW q \in Runs PROVE RunInv(q)'
  <2>1. CASE q = p
    BY <2>1 DEF Done
  <2>2. CASE q # p
    <3>1. run'[q] = run[q]
      BY <2>2 DEF Done, Mine
    <3>2. ASSUME Working(q) PROVE RecordKept
      <4>1. ~ Working(p)
        BY <1>1, <2>2, <3>2 DEF LockHeld
      <4>2. record' = record
        BY <1>2, <4>1 DEF Writes, Working
      <4> QED
        BY <1>1, <4>2, SameRecordKept
    <3> QED
      BY <1>2, <3>1, <3>2, OtherRunStays
  <2> QED
    BY <2>1, <2>2
<1>6. MergesAreReal' /\ EvidenceIsReal'
  BY <1>1, <1>2, MergesStep, EvidenceStep
<1> QED
  BY <1>3, <1>4, <1>5, <1>6, InvByRun

(* What others do on the host and in the clones keeps the invariant.       *)
LEMMA OthersDone ==
  ASSUME IInv, Others
  PROVE  IInv'
<1>1. TypeOK /\ LockHeld /\ MergesAreReal /\ EvidenceIsReal
  BY DEF IInv
<1>2. HostStep /\ RecordKept /\ run' = run /\ lock' = lock /\ deeds' \in Nat
  BY <1>1, OthersKeep
<1>3. TypeOK'
  BY <1>1, <1>2 DEF TypeOK, HostStep, BranchesType, RecordKept
<1>4. LockHeld'
  BY <1>1, <1>2 DEF LockHeld, Working
<1>5. EvidenceIsReal'
  BY <1>1, <1>2 DEF EvidenceIsReal, RecordKept, HasReceipt, Carries
<1>6. MergesAreReal'
  BY <1>1, <1>2, MergesStep
<1>7. \A q \in Runs : RunInv(q)'
  BY <1>2, OtherRunStays
<1> QED
  BY <1>3, <1>4, <1>5, <1>6, <1>7, InvByRun

(* So does a step of something the model leaves out.                       *)
LEMMA StutterKeeps ==
  ASSUME IInv, UNCHANGED vars
  PROVE  IInv'
<1>1. TypeOK'
  BY DEF vars, IInv, TypeOK
<1>2. \A q \in Runs : RunInv(q)'
  <2>1. TypeOK /\ UNCHANGED <<child, parent, remote, pulls, record>> /\ run' = run
    BY DEF IInv, vars
  <2> QED
    BY <2>1, SameHost, SameRecordKept, OtherRunStays
<1>3. LockHeld' /\ MergesAreReal' /\ EvidenceIsReal'
  BY DEF vars, IInv, LockHeld, Working, MergesAreReal, EvidenceIsReal, HasReceipt, Carries
<1> QED
  BY <1>1, <1>2, <1>3, InvByRun

(* The invariant holds at first ...                                        *)
LEMMA InitIInv ==
  ASSUME Init
  PROVE  IInv
<1>1. <<>> \in Seq(Pulls) /\ Base \in Branches
  BY DEF Base, Branches, Commits
<1>2. [NoFeature EXCEPT !.promoted = Repos] \in Features /\ NoFeature \in Features
  BY NoFeatureType DEF NoFeature, Features
<1>3. Quiet("new") \in RunStates
  BY QuietType DEF RunPcs
<1>4. TypeOK
  BY <1>1, <1>2, <1>3 DEF Init, TypeOK
<1>5. \A p \in Runs : run[p].pc = "new" /\ run[p].repo = None /\ run[p].child = NoFeature
  BY DEF Init, Quiet
<1>6. \A r \in Repos : record.receipt[r] = None /\ NoFeature.receipt[r] = None
  BY DEF Init, NoFeature
<1>7. LockHeld /\ TurnsToRepo /\ PassingAreHeld
  BY <1>5 DEF LockHeld, TurnsToRepo, PassingAreHeld, Working, AtPull
<1>8. MergesAreReal
  BY DEF Init, MergesAreReal
<1>9. SourceMerged /\ EvidenceIsReal
  BY <1>5, <1>6 DEF SourceMerged, EvidenceIsReal, RealEvidence, HasReceipt, AtPull, GateHolds
<1> QED
  BY <1>4, <1>7, <1>8, <1>9 DEF IInv

(* ... and every step keeps it.                                            *)
LEMMA NextKeeps ==
  ASSUME IInv, [Next]_vars
  PROVE  IInv'
BY RunStepDone, DoneKeeps, OthersDone, StutterKeeps DEF Next

(* Every step of a run, of the host and of the people who use it keeps it. *)
THEOREM Inductive == Spec => []IInv
<1>1. IInv /\ [Next]_vars => IInv'
  BY NextKeeps
<1> QED
  BY InitIInv, <1>1, PTL DEF Spec

-----------------------------------------------------------------------------
(* What follows from it.                                                   *)

(* integrate/pr.rs: whichever pull request was found under the child's     *)
(* branch, a receipt names a merge that holds its source.                  *)
THEOREM InvariantHolds == Spec => []PullRequestsInv
<1>1. IInv => PullRequestsInv
  BY DEF IInv, PullRequestsInv
<1> QED
  BY Inductive, <1>1, PTL

(* relations.rs, receipt_freshness: a passing receipt whose source is the  *)
(* child's tip and whose result is in the parent's local branch means that *)
(* this branch carries the tip, whatever base the pull request had.        *)
THEOREM FreshIsCarried == Spec => []FreshMeansCarried
<1>1. ASSUME IInv PROVE FreshMeansCarried
  <2> SUFFICES ASSUME NEW r \in Repos, Passed(record, r), StillCurrent(record.receipt[r], r)
               PROVE  Carries(parent[r], child[r])
    BY DEF FreshMeansCarried
  <2>1. TypeOK /\ EvidenceIsReal
    BY <1>1 DEF IInv
  <2>2. record.receipt[r] \in Receipts
    <3>1. record \in Features /\ record.receipt[r] # None
      BY <2>1 DEF TypeOK, Passed, HasReceipt
    <3> QED
      BY <3>1, FeatureFields
  <2>3. /\ record.receipt[r].result \in Branches /\ parent[r] \in Branches /\ child[r] \in Nat
    BY <2>1, <2>2 DEF TypeOK, Receipts
  <2>4. Carries(record.receipt[r].result, child[r]) /\ IsPrefix(record.receipt[r].result, parent[r])
    BY <2>1 DEF EvidenceIsReal, Passed, StillCurrent
  <2> QED
    BY <2>3, <2>4, PrefixCarries
<1>2. IInv => FreshMeansCarried
  BY <1>1
<1> QED
  BY Inductive, <1>2, PTL

(* repos.rs, "never clobbering it": a run writes the whole record it read  *)
(* at its repo's turn over feature.json, and no passing receipt changes.   *)
THEOREM PassingIsFinal == Spec => PassingReceiptIsFinal
<1> DEFINE Final == \A r \in Repos : Passed(record, r) =>
                      HasReceipt(record', r) /\ record'.receipt[r] = record.receipt[r]
<1>1. ASSUME IInv, [Next]_vars, NEW r \in Repos, Passed(record, r)
      PROVE  record'.receipt[r] = record.receipt[r]
  <2>1. ASSUME Others PROVE record'.receipt[r] = record.receipt[r]
    <3>1. RecordKept
      BY <1>1, <2>1, OthersKeep DEF IInv
    <3> QED
      BY <1>1, <3>1 DEF RecordKept
  <2>2. ASSUME NEW p \in Runs, RunStep(p) \/ RepoBreaks(p) \/ Killed(p)
        PROVE  record'.receipt[r] = record.receipt[r]
    <3>1. Writes(p)
      BY <1>1, <2>2, RunStepDone DEF Done, Mine
    <3> QED
      BY <1>1, <3>1, PassingStep
  <2>3. ASSUME UNCHANGED vars PROVE record'.receipt[r] = record.receipt[r]
    BY <2>3 DEF vars
  <2> QED
    BY <1>1, <2>1, <2>2, <2>3 DEF Next
<1>2. IInv /\ [Next]_vars => [Final]_vars
  BY <1>1 DEF Passed, HasReceipt
<1> QED
  BY Inductive, <1>2, PTL DEF Spec, PassingReceiptIsFinal
=============================================================================
