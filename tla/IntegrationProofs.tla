------------------------- MODULE IntegrationProofs -------------------------
(***************************************************************************)
(* Proofs about Integration for any runs, repositories, strategy and       *)
(* bounds: through the inductive invariant IInv, that a receipt which      *)
(* counts as fresh is no lie about the parent, that passing evidence is    *)
(* final, that a rebase lands what was checked, and that a closed child    *)
(* is receipted; and, where no other close and no promote is at work, that *)
(* the receipts implement the ledger.                                      *)
(***************************************************************************)
EXTENDS Integration, WellFoundedInduction, SequenceTheorems, TLAPS

-----------------------------------------------------------------------------
(* Branches.                                                               *)

(* IsPrefix, index by index.                                               *)
LEMMA PrefixAt ==
  ASSUME NEW s \in Branches, NEW t \in Branches
  PROVE  IsPrefix(s, t) <=> Len(s) <= Len(t) /\ \A i \in 1 .. Len(s) : s[i] = t[i]
BY DEF IsPrefix, Branches

(* A branch carries what any earlier state of it carried.                  *)
LEMMA PrefixCarries ==
  ASSUME NEW s \in Branches, NEW t \in Branches, IsPrefix(s, t), NEW v \in Nat, Carries(s, v)
  PROVE  Carries(t, v)
BY PrefixAt DEF Carries, Branches

(* A commit takes nothing from a branch that carries a version.            *)
LEMMA AppendCarries ==
  ASSUME NEW b \in Branches, NEW c \in Commits
  PROVE  /\ Append(b, c) \in Branches
         /\ \A v \in Nat : Carries(b, v) \/ c.ver >= v => Carries(Append(b, c), v)
<1>1. /\ Append(b, c) \in Branches /\ Append(b, c)[Len(b) + 1] = c
      /\ Len(b) + 1 \in DOMAIN Append(b, c)
      /\ \A i \in DOMAIN b : i \in DOMAIN Append(b, c) /\ Append(b, c)[i] = b[i]
  BY DEF Branches
<1> QED
  BY <1>1 DEF Carries

(* A merge brings its version and loses nothing.                           *)
LEMMA MergedCarries ==
  ASSUME NEW b \in Branches, NEW v \in Nat, NEW id \in Nat
  PROVE  /\ Merged(b, v, id) \in Branches /\ Carries(Merged(b, v, id), v)
         /\ \A w \in Nat : Carries(b, w) => Carries(Merged(b, v, id), w)
<1> DEFINE c == [id |-> id, ver |-> v]
<1>1. c \in Commits /\ c.ver >= v
  BY DEF Commits
<1>2. Append(b, c) \in Branches /\ \A w \in Nat : Carries(b, w) \/ c.ver >= w => Carries(Append(b, c), w)
  BY <1>1, AppendCarries
<1> QED
  BY <1>1, <1>2 DEF Merged

(* A branch that carries a version carries every earlier one.              *)
LEMMA LowerIsCarried ==
  ASSUME NEW b \in Branches, NEW v \in Nat, NEW w \in Nat, w <= v, Carries(b, v)
  PROVE  Carries(b, w)
<1>1. PICK i \in DOMAIN b : b[i].ver >= v
  BY DEF Carries
<1>2. b[i] \in Commits
  BY DEF Branches
<1>3. b[i].ver >= w
  BY <1>1, <1>2 DEF Commits
<1> QED
  BY <1>3 DEF Carries

(* A rebase makes every commit anew and keeps what they brought.           *)
LEMMA RebasedCarries ==
  ASSUME NEW b \in Branches, NEW id \in Nat
  PROVE  LET t == [i \in DOMAIN b |-> [b[i] EXCEPT !.id = id]] IN
         t \in Branches /\ \A v \in Nat : Carries(b, v) => Carries(t, v)
<1> DEFINE t == [i \in DOMAIN b |-> [b[i] EXCEPT !.id = id]]
<1>1. \A i \in DOMAIN b : b[i] \in Commits
  BY DEF Branches
<1>2. \A i \in DOMAIN b : [b[i] EXCEPT !.id = id] \in Commits /\ [b[i] EXCEPT !.id = id].ver = b[i].ver
  BY <1>1 DEF Commits
<1>3. Len(b) \in Nat /\ DOMAIN b = 1 .. Len(b)
  BY DEF Branches
<1>4. t \in [1 .. Len(b) -> Commits] /\ \A i \in DOMAIN b : t[i].ver = b[i].ver
  BY <1>2, <1>3
<1>5. t \in Seq(Commits)
  BY <1>3, <1>4, SeqDef
<1> QED
  BY <1>4, <1>5 DEF Carries, Branches

(* A branch without its last commit is a branch.                           *)
LEMMA ShortenedType ==
  ASSUME NEW b \in Branches, Len(b) > 1
  PROVE  SubSeq(b, 1, Len(b) - 1) \in Branches
BY DEF Branches

-----------------------------------------------------------------------------
(* Repositories and runs.                                                  *)

(* A set of numbers has a smallest one.                                    *)
LEMMA Smallest ==
  ASSUME NEW S \in SUBSET Nat, S # {}
  PROVE  \E n \in S : \A m \in S : n <= m
<1> DEFINE R == OpToRel(<, Nat)
<1>1. IsWellFoundedOn(R, Nat)
  BY NatLessThanWellFounded
<1>2. \A x, y \in Nat : x < y => <<x, y>> \in R
  BY DEF OpToRel
<1> HIDE DEF R
<1>3. PICK n \in S : \A m \in S : <<m, n>> \notin R
  BY <1>1, WFMin
<1>4. ASSUME NEW m \in S PROVE n <= m
  <2>1. ~ (m < n)
    BY <1>2, <1>3
  <2> QED
    BY <2>1
<1> QED
  BY <1>4

(* The repo a run takes next is one it has to do.                          *)
LEMMA NextRepoIsToDo ==
  ASSUME TypeOK, NEW p \in Runs, run[p].todo # {}
  PROVE  NextRepo(p) \in run[p].todo /\ NextRepo(p) \in Repos
<1>1. run[p].todo \subseteq Repos
  BY DEF TypeOK, RunStates
<1>2. run[p].todo \subseteq Nat
  BY <1>1, IntegrationAssumption
<1>3. \E r \in run[p].todo : \A q \in run[p].todo : r <= q
  BY <1>2, Smallest
<1> QED
  BY <1>1, <1>3 DEF NextRepo

(* The copy of the record that no run has made yet.                        *)
LEMMA NoFeatureType == NoFeature \in Features
BY DEF NoFeature, Features

(* A run that is at no repo is well formed.                                *)
LEMMA QuietType ==
  ASSUME NEW pc \in RunPcs
  PROVE  Quiet(pc) \in RunStates
<1>1. <<>> \in Branches
  BY DEF Branches
<1> QED
  BY <1>1, NoFeatureType DEF Quiet, RunStates

(* A record is its two fields, and a repo it does not promote has no       *)
(* receipt.                                                                *)
LEMMA FeatureFields ==
  ASSUME NEW f \in Features
  PROVE  /\ f.promoted \subseteq Repos /\ f.receipt \in [Repos -> Receipts \cup {None}]
         /\ \A r \in Repos : r \notin f.promoted => f.receipt[r] = None
         /\ f = [promoted |-> f.promoted, receipt |-> f.receipt]
BY DEF Features

(* A run's turn at a repo is over: it holds the record as it is now.       *)
LEMMA RepoDoneRun ==
  ASSUME TypeOK, record' \in Features, NEW p \in Runs, NEW broke \in BOOLEAN, RepoDone(p, broke)
  PROVE  /\ run' \in [Runs -> RunStates]
         /\ \A q \in Runs \ {p} : run'[q] = run[q]
         /\ run'[p].pc = "choose" /\ run'[p].repo = None /\ run'[p].child = record'
<1> DEFINE s == [Quiet("choose") EXCEPT !.child = record', !.checks = run[p].checks,
                                        !.todo = run[p].todo \ {NextRepo(p)},
                                        !.broken = run[p].broken \/ broke]
<1>1. Quiet("choose") \in RunStates /\ Quiet("choose").pc = "choose" /\ Quiet("choose").repo = None
  BY QuietType DEF Quiet, RunPcs
<1>2. /\ run[p].todo \ {NextRepo(p)} \in SUBSET Repos /\ run[p].checks \in Nat
      /\ (run[p].broken \/ broke) \in BOOLEAN
  BY DEF TypeOK, RunStates
<1>3. s \in RunStates /\ s.pc = "choose" /\ s.repo = None /\ s.child = record'
  BY <1>1, <1>2 DEF RunStates
<1>4. run' = [run EXCEPT ![p] = s]
  BY DEF RepoDone
<1> HIDE DEF s
<1> QED
  BY <1>3, <1>4 DEF TypeOK

(* A run that only goes on to its next step.                               *)
LEMMA BecomeRun ==
  ASSUME TypeOK, NEW p \in Runs, NEW pc \in RunPcs, Become(p, pc)
  PROVE  /\ run' \in [Runs -> RunStates]
         /\ \A q \in Runs \ {p} : run'[q] = run[q]
         /\ run'[p] = [run[p] EXCEPT !.pc = pc]
<1>1. run[p] \in RunStates
  BY DEF TypeOK
<1>2. [run[p] EXCEPT !.pc = pc] \in RunStates
  BY <1>1 DEF RunStates
<1> QED
  BY <1>2 DEF Become, TypeOK

(* A run that ends.                                                        *)
LEMMA EndRun ==
  ASSUME TypeOK, NEW p \in Runs, End(p)
  PROVE  /\ run' \in [Runs -> RunStates]
         /\ \A q \in Runs \ {p} : run'[q] = run[q]
         /\ run'[p] = Quiet("ended")
BY QuietType DEF End, TypeOK, RunPcs

(* Persisting a receipt writes the entry of one repo, if it is still       *)
(* promoted.                                                               *)
LEMMA PersistType ==
  ASSUME TypeOK, NEW r \in Repos, NEW receipt \in Receipts, PersistReceipt(r, receipt)
  PROVE  /\ record' \in Features /\ record'.promoted = record.promoted
         /\ \A q \in Repos \ {r} : record'.receipt[q] = record.receipt[q]
         /\ record'.receipt[r] = IF r \in record.promoted THEN receipt ELSE record.receipt[r]
<1>1. record \in Features
  BY DEF TypeOK
<1>2. CASE r \in record.promoted
  <2>1. record' = [promoted |-> record.promoted, receipt |-> [record.receipt EXCEPT ![r] = receipt]]
    BY <1>1, <1>2, FeatureFields DEF PersistReceipt
  <2> QED
    BY <1>1, <1>2, <2>1, FeatureFields DEF Features
<1>3. CASE r \notin record.promoted
  BY <1>1, <1>3 DEF PersistReceipt
<1> QED
  BY <1>2, <1>3

(* The receipt a run writes is of the source and the result it holds.      *)
LEMMA ReceiptType ==
  ASSUME TypeOK, NEW p \in Runs, NEW passed \in BOOLEAN
  PROVE  /\ ReceiptOf(p, passed) \in Receipts
         /\ ReceiptOf(p, passed).source = run[p].source
         /\ ReceiptOf(p, passed).result = run[p].result
         /\ ReceiptOf(p, passed).passed = passed
BY DEF TypeOK, RunStates, ReceiptOf, Receipts

-----------------------------------------------------------------------------
(* What the commands without the lock may do.                              *)

(* The branches stay well formed, the child's only grows, and a parent     *)
(* that a run is about to read loses nothing that was merged into it.      *)
BranchesKept ==
  /\ child' \in [Repos -> Nat] /\ parent' \in [Repos -> Branches] /\ serial' \in [Repos -> Nat]
  /\ moves' \in Nat /\ checks' \in Nat
  /\ \A r \in Repos : child'[r] \in Versions /\ child'[r] >= child[r]
  /\ \A p \in Runs : run[p].pc = "readResult" =>
       \A v \in Nat : Carries(parent[run[p].repo], v) => Carries(parent'[run[p].repo], v)

(* A receipt is dropped with its promotion, if it does not pass, and       *)
(* never written.                                                          *)
RecordKept ==
  /\ record' \in Features
  /\ \A r \in Repos : /\ record'.receipt[r] \in {record.receipt[r], None}
                      /\ Passed(record, r) => record'.receipt[r] = record.receipt[r]
  /\ Promoters = {} => \A r \in record'.promoted :
       r \in record.promoted /\ record'.receipt[r] = record.receipt[r]

(* A step that leaves git alone.                                           *)
LEMMA SameBranches ==
  ASSUME TypeOK, SourceLands, UNCHANGED git
  PROVE  BranchesKept
<1>1. \A r \in Repos : child[r] \in Nat /\ child[r] \in Versions
  BY DEF TypeOK, SourceLands
<1> QED
  BY <1>1 DEF BranchesKept, TypeOK, git, Carries

(* A step that leaves the record alone keeps what it holds.                *)
LEMMA SameRecordKept ==
  ASSUME TypeOK, record' = record
  PROVE  RecordKept
<1>1. record \in Features
  BY DEF TypeOK
<1> QED
  BY <1>1 DEF RecordKept

(* A demoted repo has no receipt: the evidence of the others stays.        *)
LEMMA DemoteKeeps ==
  ASSUME TypeOK, NEW r \in Repos, Demote(r)
  PROVE  RecordKept
<1>1. record \in Features
  BY DEF TypeOK
<1>2. record' = [promoted |-> record.promoted \ {r}, receipt |-> [record.receipt EXCEPT ![r] = None]]
  BY DEF Demote
<1>3. record' \in Features
  BY <1>1, <1>2, FeatureFields DEF Features
<1>4. \A q \in Repos : record'.receipt[q] = IF q = r THEN None ELSE record.receipt[q]
  BY <1>1, <1>2, FeatureFields
<1>5. ~ Passed(record, r)
  BY DEF Demote
<1>6. record'.promoted \subseteq record.promoted \ {r} /\ record.promoted \subseteq Repos
  BY <1>1, <1>2, FeatureFields
<1> QED
  BY <1>3, <1>4, <1>5, <1>6 DEF RecordKept

(* A promoted repo has no receipt yet: the evidence of the others stays.   *)
LEMMA PromoteKeeps ==
  ASSUME TypeOK, NEW m \in Promoters, PromoteRecords(m)
  PROVE  RecordKept
<1>1. record \in Features /\ promoter[m] \in Repos
  BY DEF TypeOK, PromoteRecords
<1>2. record' = [promoted |-> record.promoted \cup {promoter[m]}, receipt |-> record.receipt]
  <2>1. record' = [record EXCEPT !.promoted = record.promoted \cup {promoter[m]}]
    BY DEF PromoteRecords
  <2> QED
    BY <1>1, <2>1, FeatureFields
<1>3. record' \in Features
  BY <1>1, <1>2, FeatureFields DEF Features
<1> QED
  BY <1>2, <1>3 DEF RecordKept

(* A parent moved forward, or while no run is about to read it, still      *)
(* carries what landed.                                                    *)
LEMMA ParentMoves ==
  ASSUME TypeOK, TurnsToRepo, SourceLands, NEW r \in Repos, NEW branch \in Branches, MoveParent(r, branch),
         \/ \A v \in Nat : Carries(parent[r], v) => Carries(branch, v)
         \/ \A p \in Runs : ~(run[p].pc = "readResult" /\ run[p].repo = r)
  PROVE  BranchesKept
<1>1. \A q \in Repos : child[q] \in Nat /\ child[q] \in Versions
  BY DEF TypeOK, SourceLands
<1>2. /\ parent \in [Repos -> Branches] /\ serial \in [Repos -> Nat] /\ moves \in Nat
      /\ parent' = [parent EXCEPT ![r] = branch] /\ serial' = [serial EXCEPT ![r] = @ + 1]
      /\ moves' = moves + 1 /\ UNCHANGED <<child, checks>>
  BY DEF TypeOK, MoveParent
<1>3. parent' \in [Repos -> Branches] /\ serial' \in [Repos -> Nat] /\ moves' \in Nat
  BY <1>2
<1>4. ASSUME NEW p \in Runs, run[p].pc = "readResult", NEW v \in Nat, Carries(parent[run[p].repo], v)
      PROVE  Carries(parent'[run[p].repo], v)
  <2>1. CASE run[p].repo = r
    BY <1>2, <1>4, <2>1
  <2>2. CASE run[p].repo # r
    <3>1. run[p].repo \in Repos
      BY <1>4 DEF TypeOK, RunStates, TurnsToRepo, InTurn, Unreceipted
    <3>2. parent'[run[p].repo] = parent[run[p].repo]
      BY <1>2, <2>2, <3>1
    <3> QED
      BY <1>4, <3>2
  <2> QED
    BY <2>1, <2>2
<1> QED
  BY <1>1, <1>2, <1>3, <1>4 DEF BranchesKept, TypeOK

(* Whoever takes no lock: commits, closes, demotes, promotes and sessions. *)
LEMMA OutsideKeeps ==
  ASSUME IInv, Outside
  PROVE  /\ BranchesKept /\ RecordKept /\ run' = run /\ lock' = lock
         /\ outcome' \in Outcomes \cup {"open"} /\ session' \in BOOLEAN
         /\ closer' \in [Closers -> Outcomes \cup {"new", "ended"}]
         /\ promoter' \in [Promoters -> Repos \cup {None}]
         /\ judged' \in SUBSET Repos
<1> DEFINE Goal == BranchesKept /\ RecordKept
           Rest == /\ outcome' \in Outcomes \cup {"open"} /\ session' \in BOOLEAN
                   /\ closer' \in [Closers -> Outcomes \cup {"new", "ended"}]
                   /\ promoter' \in [Promoters -> Repos \cup {None}]
                   /\ judged' \in SUBSET Repos
<1>1. TypeOK /\ TurnsToRepo /\ SourceLands
  BY DEF IInv
<1>2. /\ UNCHANGED git => BranchesKept
      /\ record' = record => RecordKept
      /\ UNCHANGED <<outcome, session, other>> => Rest
  BY <1>1, SameBranches, SameRecordKept DEF TypeOK, other
<1>3. ASSUME NEW c \in Closers, CloseWrites(c) PROVE Goal /\ Rest
  <2>1. BranchesKept /\ RecordKept
    BY <1>2, <1>3 DEF CloseWrites
  <2>2. Rest
    BY <1>1, <1>3 DEF CloseWrites, TypeOK
  <2> QED
    BY <2>1, <2>2
<1>4. ASSUME NEW c \in Closers, NEW o \in Outcomes, CloseChecks(c, o) PROVE Goal /\ Rest
  <2>1. BranchesKept /\ RecordKept
    BY <1>2, <1>4 DEF CloseChecks
  <2>2. record.promoted \in SUBSET Repos
    BY <1>1, FeatureFields DEF TypeOK
  <2>3. Rest
    BY <1>1, <1>4, <2>2 DEF CloseChecks, TypeOK
  <2> QED
    BY <2>1, <2>3
<1>5. ASSUME NEW m \in Promoters, PromoteRecords(m) PROVE Goal /\ Rest
  <2>1. BranchesKept /\ RecordKept
    BY <1>1, <1>2, <1>5, PromoteKeeps DEF PromoteRecords
  <2>2. Rest
    BY <1>1, <1>5 DEF PromoteRecords, TypeOK
  <2> QED
    BY <2>1, <2>2
<1>6. ASSUME NEW m \in Promoters, NEW r \in Repos, PromoteChecks(m, r) PROVE Goal /\ Rest
  <2>1. BranchesKept /\ RecordKept
    BY <1>2, <1>6 DEF PromoteChecks
  <2>2. Rest
    BY <1>1, <1>6 DEF PromoteChecks, TypeOK
  <2> QED
    BY <2>1, <2>2
<1>7. ASSUME NEW r \in Repos, Demote(r) PROVE Goal /\ Rest
  <2>1. UNCHANGED git /\ UNCHANGED <<outcome, session, other>>
    BY <1>7 DEF Demote
  <2> QED
    BY <1>1, <1>2, <1>7, <2>1, DemoteKeeps
<1>8. ASSUME NEW r \in Repos, ChildCommits(r) PROVE Goal /\ Rest
  <2>1. /\ child' = [child EXCEPT ![r] = child[r] + 1] /\ child[r] < MaxVersion
        /\ UNCHANGED <<parent, serial, moves, checks>>
        /\ record' = record /\ UNCHANGED <<outcome, session, other>>
    BY <1>8 DEF ChildCommits, Unmoved
  <2>2. \A q \in Repos : child[q] \in Versions
    BY <1>1 DEF SourceLands
  <2>3. MaxVersion \in Nat /\ child \in [Repos -> Nat]
    BY <1>1, IntegrationAssumption DEF TypeOK
  <2>4. \A q \in Repos : child'[q] \in Versions /\ child'[q] >= child[q]
    BY <2>1, <2>2, <2>3 DEF Versions
  <2>5. child' \in [Repos -> Nat]
    BY <2>1, <2>3
  <2>6. BranchesKept
    BY <1>1, <2>1, <2>4, <2>5 DEF BranchesKept, TypeOK, Carries
  <2> QED
    BY <1>2, <2>1, <2>6
<1>9. ASSUME NEW r \in Repos, ParentCommits(r) \/ ParentRebases(r) \/ ParentResets(r)
      PROVE  Goal /\ Rest
  <2>1. parent[r] \in Branches /\ serial[r] + 1 \in Nat
    BY <1>1 DEF TypeOK
  <2>2. CASE ParentCommits(r)
    <3> DEFINE c == [id |-> serial[r] + 1, ver |-> 0]
    <3>1. c \in Commits
      BY <2>1 DEF Commits
    <3>2. MoveParent(r, Append(parent[r], c))
      BY <2>2 DEF ParentCommits
    <3> HIDE DEF c
    <3>3. BranchesKept
      BY <1>1, <2>1, <3>1, <3>2, AppendCarries, ParentMoves
    <3> QED
      BY <1>2, <3>2, <3>3 DEF MoveParent, Unmoved
  <2>3. CASE ParentRebases(r)
    <3> DEFINE t == [i \in DOMAIN parent[r] |-> [parent[r][i] EXCEPT !.id = serial[r] + 1]]
    <3>1. t \in Branches /\ \A v \in Nat : Carries(parent[r], v) => Carries(t, v)
      BY <2>1, RebasedCarries
    <3>2. MoveParent(r, t)
      BY <2>3 DEF ParentRebases
    <3> HIDE DEF t
    <3>3. BranchesKept
      BY <1>1, <3>1, <3>2, ParentMoves
    <3> QED
      BY <1>2, <3>2, <3>3 DEF MoveParent, Unmoved
  <2>4. CASE ParentResets(r)
    <3>1. MoveParent(r, SubSeq(parent[r], 1, Len(parent[r]) - 1)) /\ Len(parent[r]) > 1
      BY <2>4 DEF ParentResets
    <3>2. SubSeq(parent[r], 1, Len(parent[r]) - 1) \in Branches
      BY <2>1, <3>1, ShortenedType
    <3>3. \A p \in Runs : ~(run[p].pc = "readResult" /\ run[p].repo = r)
      BY <2>4 DEF ParentResets
    <3>4. BranchesKept
      BY <1>1, <3>1, <3>2, <3>3, ParentMoves
    <3> QED
      BY <1>2, <3>1, <3>4 DEF MoveParent, Unmoved
  <2> QED
    BY <1>9, <2>2, <2>3, <2>4
<1>10. ASSUME StartSession \/ StopSession PROVE Goal /\ Rest
  <2>1. UNCHANGED git /\ record' = record /\ UNCHANGED <<outcome, other>> /\ session' \in BOOLEAN
    BY <1>10 DEF StartSession, StopSession
  <2> QED
    BY <1>1, <1>2, <2>1 DEF TypeOK, other
<1>11. ASSUME EditChecks PROVE Goal /\ Rest
  <2>1. \A q \in Repos : child[q] \in Nat /\ child[q] \in Versions
    BY <1>1 DEF TypeOK, SourceLands
  <2>2. BranchesKept
    BY <1>1, <1>11, <2>1 DEF EditChecks, BranchesKept, TypeOK, Carries
  <2> QED
    BY <1>2, <1>11, <2>2 DEF EditChecks, Unmoved
<1>12. run' = run /\ lock' = lock
  BY DEF Outside, CloseWrites, CloseChecks, PromoteRecords, PromoteChecks, Demote, ChildCommits,
         ParentCommits, ParentRebases, ParentResets, MoveParent, StartSession, StopSession,
         EditChecks, Unmoved
<1> HIDE DEF Goal, Rest
<1>13. Goal /\ Rest
  BY <1>3, <1>4, <1>5, <1>6, <1>7, <1>8, <1>9, <1>10, <1>11 DEF Outside
<1> QED
  BY <1>12, <1>13 DEF Goal, Rest

-----------------------------------------------------------------------------
(* The inductive invariant, run by run.                                    *)

TurnOf(p) ==
  /\ run[p].repo # None <=> InTurn(p)
  /\ Unreceipted(p) => ~HasReceipt(run[p].child, run[p].repo)
  /\ run[p].pc = "reverify" => /\ HasReceipt(run[p].child, run[p].repo)
                               /\ ~Passed(run[p].child, run[p].repo)

SourceOf(p) ==
  /\ run[p].repo # None =>
       run[p].source \in Versions /\ run[p].source <= child[run[p].repo]
  /\ Strategy = "rebase" /\ run[p].pc \in {"checkCandidate", "confirm", "apply"} =>
       Carries(run[p].staged, run[p].source)
  /\ run[p].pc = "readResult" => Carries(parent[run[p].repo], run[p].source)
  /\ run[p].pc \in {"record", "checkParent"} => Carries(run[p].result, run[p].source)
  /\ RealEvidence(run[p].child)

KnownBy(p) == Working(p) =>
  \A r \in Repos :
    /\ record.receipt[r] \in {None, Known(p, r)}
    /\ Promoters = {} /\ r \in record.promoted => record.receipt[r] = Known(p, r)

RunInv(p) == TurnOf(p) /\ SourceOf(p) /\ KnownBy(p)

ChildInRange == \A r \in Repos : child[r] \in Versions

(* The invariant, run by run: a step of one run is judged on that run.     *)
LEMMA InvByRun ==
  /\ IInv <=> /\ TypeOK /\ LockHeld /\ RealEvidence(record) /\ ChildInRange
              /\ \A p \in Runs : RunInv(p)
  /\ IInv' <=> /\ TypeOK' /\ LockHeld' /\ RealEvidence(record)' /\ ChildInRange'
               /\ \A p \in Runs : RunInv(p)'
<1>1. (TurnsToRepo <=> \A p \in Runs : TurnOf(p)) /\ (TurnsToRepo' <=> \A p \in Runs : TurnOf(p)')
  BY DEF TurnsToRepo, TurnOf, InTurn, Unreceipted, HasReceipt, Passed
<1>2. SourceLands /\ EvidenceIsReal
        <=> RealEvidence(record) /\ ChildInRange /\ \A p \in Runs : SourceOf(p)
  BY DEF SourceLands, EvidenceIsReal, SourceOf, ChildInRange
<1>3. SourceLands' /\ EvidenceIsReal'
        <=> RealEvidence(record)' /\ ChildInRange' /\ \A p \in Runs : SourceOf(p)'
  BY DEF SourceLands, EvidenceIsReal, SourceOf, ChildInRange
<1>4. (RecordIsKnown <=> \A p \in Runs : KnownBy(p)) /\ (RecordIsKnown' <=> \A p \in Runs : KnownBy(p)')
  BY DEF RecordIsKnown, KnownBy
<1> QED
  BY <1>1, <1>2, <1>3, <1>4 DEF IInv, RunInv

(* What a run holds is well formed.                                        *)
LEMMA RunTyped ==
  ASSUME TypeOK, NEW p \in Runs
  PROVE  /\ run[p] \in RunStates /\ run[p].source \in Nat /\ run[p].child \in Features
         /\ run[p].repo \in Repos \cup {None} /\ run[p].checks \in Nat
         /\ run[p].result \in Branches /\ run[p].staged \in Branches
BY DEF TypeOK, RunStates

(* The evidence a run has read does not change under it.                   *)
LEMMA SameEvidence ==
  ASSUME NEW p \in Runs, RealEvidence(run[p].child), run'[p].child = run[p].child
  PROVE  RealEvidence(run[p].child)'
BY DEF RealEvidence, HasReceipt, Carries

(* What a run holds is not touched by what others do to the branches, and  *)
(* what it knows of the record is not touched by what they drop from it.   *)
LEMMA OtherRunStays ==
  ASSUME IInv, BranchesKept, NEW q \in Runs, run'[q] = run[q], ~ Working(q) \/ RecordKept
  PROVE  RunInv(q)'
<1>1. TypeOK /\ RunInv(q) /\ run[q] \in RunStates
  BY InvByRun, RunTyped
<1>2. TurnOf(q)'
  BY <1>1 DEF RunInv, TurnOf, InTurn, Unreceipted, HasReceipt, Passed
<1>3. SourceOf(q)'
  <2>1. ASSUME run[q].repo # None PROVE run[q].source \in Versions /\ run[q].source <= child'[run[q].repo]
    <3>1. run[q].repo \in Repos /\ run[q].source \in Versions /\ run[q].source <= child[run[q].repo]
      BY <1>1, <2>1, RunTyped DEF RunInv, SourceOf
    <3>2. /\ child[run[q].repo] \in Nat /\ child'[run[q].repo] \in Nat /\ run[q].source \in Nat
          /\ child'[run[q].repo] >= child[run[q].repo]
      BY <1>1, <3>1, RunTyped DEF BranchesKept, TypeOK
    <3> QED
      BY <3>1, <3>2
  <2>2. ASSUME run[q].pc = "readResult" PROVE Carries(parent'[run[q].repo], run[q].source)
    <3>1. Carries(parent[run[q].repo], run[q].source) /\ run[q].source \in Nat
      BY <1>1, <2>2, RunTyped DEF RunInv, SourceOf
    <3> QED
      BY <2>2, <3>1 DEF BranchesKept
  <2>3. /\ Strategy = "rebase" /\ run[q].pc \in {"checkCandidate", "confirm", "apply"} =>
             Carries(run[q].staged, run[q].source)
        /\ run[q].pc \in {"record", "checkParent"} => Carries(run[q].result, run[q].source)
        /\ RealEvidence(run[q].child)
    BY <1>1 DEF RunInv, SourceOf
  <2> QED
    BY <2>1, <2>2, <2>3 DEF SourceOf, RealEvidence, HasReceipt, Carries
<1>4. KnownBy(q)'
  <2> SUFFICES ASSUME Working(q), NEW r \in Repos
               PROVE  /\ record'.receipt[r] \in {None, Known(q, r)}
                      /\ Promoters = {} /\ r \in record'.promoted => record'.receipt[r] = Known(q, r)
    BY DEF KnownBy, Working, Known, ReceiptOf
  <2>1. /\ record.receipt[r] \in {None, Known(q, r)}
        /\ Promoters = {} /\ r \in record.promoted => record.receipt[r] = Known(q, r)
    BY <1>1 DEF RunInv, KnownBy
  <2> QED
    BY <2>1 DEF RecordKept
<1> QED
  BY <1>2, <1>3, <1>4 DEF RunInv

-----------------------------------------------------------------------------
(* A step of a run.                                                        *)

(* Of the record a run writes the receipt of the repo it is at: of the     *)
(* merge it made, or the one it holds with the checks run again.           *)
Writes(p) ==
  \/ record' = record
  \/ run[p].pc = "record" /\ PersistReceipt(run[p].repo, ReceiptOf(p, FALSE))
  \/ /\ run[p].pc = "checkParent"
     /\ \E passed \in BOOLEAN : PersistReceipt(run[p].repo, ReceiptOf(p, passed))
  \/ /\ run[p].pc = "reverify"
     /\ \E passed \in BOOLEAN :
          PersistReceipt(run[p].repo,
                         Reverified(p, run[p].child.receipt[run[p].repo], passed))

(* A run at work on a repo has one.                                        *)
LEMMA RunRepo ==
  ASSUME IInv, NEW p \in Runs, InTurn(p)
  PROVE  run[p].repo \in Repos /\ run[p].repo # None /\ Working(p) /\ TypeOK
<1>1. run[p].repo # None /\ TypeOK
  BY DEF IInv, TurnsToRepo
<1> QED
  BY <1>1, RunTyped DEF InTurn, Unreceipted, Working

(* The failed receipt a run verifies again, and what it writes in its      *)
(* place.                                                                  *)
LEMMA HeldReceipt ==
  ASSUME IInv, NEW p \in Runs, run[p].pc = "reverify", NEW passed \in BOOLEAN
  PROVE  LET held == run[p].child.receipt[run[p].repo] IN
         /\ held \in Receipts /\ held.passed = FALSE
         /\ Carries(held.result, held.source) /\ held.source \in Versions
         /\ Reverified(p, held, passed) \in Receipts
         /\ Reverified(p, held, passed).source = held.source
         /\ Reverified(p, held, passed).result = held.result
         /\ Reverified(p, held, passed).passed = passed
<1> DEFINE held == run[p].child.receipt[run[p].repo]
<1>1. TypeOK /\ run[p].repo \in Repos /\ run[p].child \in Features /\ run[p].checks \in Nat
  BY RunRepo, RunTyped DEF InTurn
<1>2. HasReceipt(run[p].child, run[p].repo) /\ ~Passed(run[p].child, run[p].repo)
  BY DEF IInv, TurnsToRepo
<1>3. Carries(held.result, held.source) /\ held.source \in Versions
  BY <1>1, <1>2 DEF IInv, EvidenceIsReal, RealEvidence
<1>4. held \in Receipts /\ ~ held.passed
  BY <1>1, <1>2, FeatureFields DEF HasReceipt, Passed
<1> HIDE DEF held
<1>5. /\ held.passed = FALSE /\ Reverified(p, held, passed) \in Receipts
      /\ Reverified(p, held, passed).source = held.source
      /\ Reverified(p, held, passed).result = held.result
      /\ Reverified(p, held, passed).passed = passed
  BY <1>1, <1>4 DEF Reverified, Receipts
<1> QED
  BY <1>3, <1>4, <1>5 DEF held

(* A run at a repo knows of no passing receipt there.                      *)
LEMMA NoneKnownToPass ==
  ASSUME IInv, NEW p \in Runs, InTurn(p)
  PROVE  ~ Passed(record, run[p].repo)
<1> DEFINE r == run[p].repo
<1>1. r \in Repos /\ Working(p) /\ TypeOK /\ RunInv(p)
  BY RunRepo, InvByRun
<1>2. record.receipt[r] \in {None, Known(p, r)}
  BY <1>1 DEF RunInv, KnownBy
<1>3. CASE run[p].pc = "checkParent"
  BY <1>1, <1>2, <1>3, ReceiptType DEF Known, Passed, HasReceipt
<1>4. CASE run[p].pc = "reverify"
  BY <1>1, <1>2, <1>4 DEF RunInv, TurnOf, Known, Passed, HasReceipt
<1>5. CASE Unreceipted(p) /\ run[p].pc # "checkParent"
  BY <1>1, <1>2, <1>5 DEF RunInv, TurnOf, Known, Passed, HasReceipt
<1> QED
  BY <1>3, <1>4, <1>5 DEF InTurn, Unreceipted

(* What is written is real evidence, and never over passing evidence.      *)
LEMMA WrittenIsReal ==
  ASSUME IInv, NEW p \in Runs, Writes(p)
  PROVE  /\ record' \in Features /\ record'.promoted = record.promoted
         /\ RealEvidence(record)'
         /\ \A r \in Repos : \/ record'.receipt[r] = record.receipt[r]
                             \/ Working(p) /\ r = run[p].repo /\ ~Passed(record, r)
<1>1. TypeOK /\ RealEvidence(record) /\ RunInv(p) /\ record \in Features
  BY InvByRun DEF TypeOK
<1> DEFINE r == run[p].repo
           held == run[p].child.receipt[r]
           Goal == /\ record' \in Features /\ record'.promoted = record.promoted
                   /\ RealEvidence(record)'
                   /\ \A q \in Repos : \/ record'.receipt[q] = record.receipt[q]
                                       \/ Working(p) /\ q = r /\ ~Passed(record, q)
<1>2. ASSUME record' = record PROVE Goal
  BY <1>1, <1>2 DEF RealEvidence, HasReceipt, Carries
<1>3. ASSUME InTurn(p), NEW receipt \in Receipts, PersistReceipt(r, receipt),
             receipt.source \in Versions, Carries(receipt.result, receipt.source)
      PROVE  Goal
  <2>1. r \in Repos /\ Working(p) /\ ~Passed(record, r)
    BY <1>3, RunRepo, NoneKnownToPass
  <2>2. /\ record' \in Features /\ record'.promoted = record.promoted
        /\ \A q \in Repos \ {r} : record'.receipt[q] = record.receipt[q]
        /\ record'.receipt[r] \in {receipt, record.receipt[r]}
    BY <1>1, <1>3, <2>1, PersistType
  <2>3. RealEvidence(record)'
    BY <1>1, <1>3, <2>2 DEF RealEvidence, HasReceipt, Carries
  <2> QED
    BY <2>1, <2>2, <2>3
<1>4. ASSUME run[p].pc \in {"record", "checkParent"}, NEW passed \in BOOLEAN,
             PersistReceipt(r, ReceiptOf(p, passed))
      PROVE  Goal
  <2>1. InTurn(p) /\ r # None
    BY <1>1, <1>4 DEF RunInv, TurnOf, InTurn, Unreceipted
  <2>2. run[p].source \in Versions /\ Carries(run[p].result, run[p].source)
    BY <1>1, <1>4, <2>1 DEF RunInv, SourceOf
  <2> HIDE DEF Goal
  <2> QED
    BY <1>1, <1>3, <1>4, <2>1, <2>2, ReceiptType
<1>5. ASSUME run[p].pc = "reverify", NEW passed \in BOOLEAN,
             PersistReceipt(r, Reverified(p, held, passed))
      PROVE  Goal
  <2>1. InTurn(p)
    BY <1>5 DEF InTurn
  <2> HIDE DEF Goal
  <2> QED
    BY <1>3, <1>5, <2>1, HeldReceipt
<1> HIDE DEF Goal
<1>6. Goal
  BY <1>2, <1>4, <1>5 DEF Writes
<1> QED
  BY <1>6 DEF Goal

(* A step of a run p: p is what it should be, the lock is its own, and     *)
(* nothing else of anybody's changes.                                      *)
LocksAs(p) ==
  \/ lock' = lock /\ (Working(p)' => Working(p))
  \/ lock = None /\ lock' = p
  \/ lock' = (IF lock = p THEN None ELSE lock) /\ ~ Working(p)'

OthersKept == UNCHANGED <<closer, promoter>> /\ judged' \in SUBSET Repos

Mine(p) ==
  /\ BranchesKept /\ Writes(p)
  /\ run' \in [Runs -> RunStates] /\ \A q \in Runs \ {p} : run'[q] = run[q]
  /\ outcome' \in Outcomes \cup {"open"} /\ session' \in BOOLEAN /\ OthersKept

Done(p) == Mine(p) /\ LocksAs(p) /\ RunInv(p)'

(* A run that is at no repo: it holds the record, or what it held.         *)
LEMMA RunAtRest ==
  ASSUME IInv, NEW p \in Runs, Writes(p), run'[p].repo = None, ~ InTurn(p)',
         \/ Working(p)' /\ run'[p].child = record'
         \/ Working(p)' /\ Working(p) /\ ~ InTurn(p) /\ record' = record
            /\ run'[p].child = run[p].child
         \/ ~ Working(p)' /\ run'[p].child \in {NoFeature, run[p].child}
  PROVE  RunInv(p)'
<1>1. RunInv(p)
  BY InvByRun
<1>2. TurnOf(p)'
  BY DEF TurnOf, InTurn, Unreceipted
<1>3. RealEvidence(run[p].child)'
  <2>1. RealEvidence(run[p].child) /\ RealEvidence(NoFeature) /\ RealEvidence(record')
    BY <1>1, WrittenIsReal DEF RunInv, SourceOf, RealEvidence, NoFeature, HasReceipt, Carries
  <2> QED
    BY <2>1 DEF RealEvidence, HasReceipt, Carries
<1>4. SourceOf(p)'
  BY <1>3 DEF SourceOf, InTurn, Unreceipted
<1>5. KnownBy(p)'
  <2>1. CASE ~ Working(p)'
    BY <2>1 DEF KnownBy
  <2>2. CASE run'[p].child = record'
    BY <2>2 DEF KnownBy, Known, InTurn, Unreceipted
  <2>3. CASE Working(p) /\ ~ InTurn(p) /\ record' = record /\ run'[p].child = run[p].child
    BY <1>1, <2>3 DEF RunInv, KnownBy, Known, InTurn, Unreceipted
  <2> QED
    BY <2>1, <2>2, <2>3
<1> QED
  BY <1>2, <1>4, <1>5 DEF RunInv

(* A step that has nothing to do with the other commands.                  *)
LEMMA SameOthers ==
  ASSUME TypeOK, UNCHANGED other
  PROVE  OthersKept
BY DEF OthersKept, other, TypeOK

(* A step that writes neither git nor the record.                          *)
LEMMA NothingWritten ==
  ASSUME IInv, NEW p \in Runs, UNCHANGED <<git, record>>
  PROVE  BranchesKept /\ Writes(p) /\ record' \in Features /\ TypeOK
BY SameBranches DEF IInv, TypeOK, Writes

(* The turn at a repo ends here.                                           *)
LEMMA TurnEnds ==
  ASSUME IInv, NEW p \in Runs, Working(p), BranchesKept, Writes(p),
         UNCHANGED <<outcome, session, lock, other>>, NEW broke \in BOOLEAN, RepoDone(p, broke)
  PROVE  Done(p)
<1>1. TypeOK /\ record' \in Features
  BY WrittenIsReal DEF IInv
<1>2. /\ run' \in [Runs -> RunStates] /\ \A q \in Runs \ {p} : run'[q] = run[q]
      /\ run'[p].pc = "choose" /\ run'[p].repo = None /\ run'[p].child = record'
  BY <1>1, RepoDoneRun
<1>3. Working(p)' /\ ~ InTurn(p)'
  BY <1>2 DEF Working, InTurn, Unreceipted
<1>4. RunInv(p)'
  BY <1>2, <1>3, RunAtRest
<1>5. outcome' \in Outcomes \cup {"open"} /\ session' \in BOOLEAN
  BY <1>1 DEF TypeOK
<1> QED
  BY <1>1, <1>2, <1>4, <1>5, SameOthers DEF Done, Mine, LocksAs

(* A run in its turn at a repo, whose new state s is still in it.          *)
LEMMA TurnGoesOn ==
  ASSUME IInv, NEW p \in Runs, Unreceipted(p), run[p].pc # "checkParent", BranchesKept,
         UNCHANGED <<record, outcome, session, lock, other>>,
         NEW s \in RunStates, run' = [run EXCEPT ![p] = s],
         s.pc \in {"stage", "checkCandidate", "confirm", "apply", "readResult", "record"},
         s.child = run[p].child, s.repo = run[p].repo, s.source = run[p].source,
         Strategy = "rebase" /\ s.pc \in {"checkCandidate", "confirm", "apply"} =>
           Carries(s.staged, s.source),
         s.pc = "readResult" => Carries(parent'[s.repo], s.source),
         s.pc = "record" => Carries(s.result, s.source)
  PROVE  Done(p)
<1>1. TypeOK /\ RunInv(p) /\ Working(p) /\ InTurn(p) /\ run[p].repo \in Repos
  BY InvByRun, RunRepo DEF InTurn
<1>2. /\ run' \in [Runs -> RunStates] /\ \A q \in Runs \ {p} : run'[q] = run[q]
      /\ run'[p] = s
  BY <1>1 DEF TypeOK
<1>3. Unreceipted(p)' /\ InTurn(p)' /\ Working(p)' /\ s.pc \notin {"checkParent", "reverify"}
  BY <1>2 DEF Unreceipted, InTurn, Working
<1>4. TurnOf(p)'
  BY <1>1, <1>2, <1>3 DEF RunInv, TurnOf, HasReceipt
<1>5. SourceOf(p)'
  <2>1. s.source \in Versions /\ s.source <= child'[s.repo]
    <3>1. run[p].source \in Versions /\ run[p].source <= child[run[p].repo]
      BY <1>1 DEF RunInv, SourceOf, TurnOf
    <3>2. /\ child[run[p].repo] \in Nat /\ child'[run[p].repo] \in Nat /\ run[p].source \in Nat
          /\ child'[run[p].repo] >= child[run[p].repo]
      BY <1>1, RunTyped DEF BranchesKept, TypeOK
    <3> QED
      BY <3>1, <3>2
  <2>2. RealEvidence(run[p].child)'
    BY <1>1, <1>2, SameEvidence DEF RunInv, SourceOf
  <2> QED
    BY <1>2, <1>3, <2>1, <2>2 DEF SourceOf, Carries
<1>6. KnownBy(p)'
  BY <1>1, <1>2, <1>3 DEF RunInv, KnownBy, Known
<1>7. Writes(p) /\ outcome' \in Outcomes \cup {"open"} /\ session' \in BOOLEAN
  BY <1>1 DEF Writes, TypeOK
<1> QED
  BY <1>1, <1>2, <1>4, <1>5, <1>6, <1>7, SameOthers DEF Done, Mine, LocksAs, RunInv

(* The same where only the pc moves.                                       *)
LEMMA TurnMovesTo ==
  ASSUME IInv, NEW p \in Runs, Unreceipted(p), run[p].pc # "checkParent", BranchesKept,
         UNCHANGED <<record, outcome, session, lock, other>>,
         NEW pc \in {"stage", "confirm", "apply", "readResult"}, Become(p, pc),
         Strategy = "rebase" /\ pc \in {"confirm", "apply"} => Carries(run[p].staged, run[p].source),
         pc = "readResult" => Carries(parent'[run[p].repo], run[p].source)
  PROVE  Done(p)
<1> DEFINE s == [run[p] EXCEPT !.pc = pc]
<1>1. run[p] \in RunStates
  BY RunTyped DEF IInv
<1>2. /\ s \in RunStates /\ s.pc = pc /\ s.child = run[p].child /\ s.repo = run[p].repo
      /\ s.source = run[p].source /\ s.staged = run[p].staged
  BY <1>1 DEF RunStates, RunPcs
<1>3. run' = [run EXCEPT ![p] = s]
  BY DEF Become
<1> HIDE DEF s
<1> QED
  BY <1>2, <1>3, TurnGoesOn

-----------------------------------------------------------------------------
(* The steps of a run before and after its repos.                          *)

(* A run that reads the record.                                            *)
LEMMA BeginDone ==
  ASSUME IInv, NEW p \in Runs, Begin(p)
  PROVE  Done(p)
<1> DEFINE s == [run[p] EXCEPT !.pc = "waiting", !.checks = checks]
<1>1. BranchesKept /\ Writes(p) /\ TypeOK /\ run[p] \in RunStates /\ run[p].pc = "new"
  BY NothingWritten, RunTyped DEF Begin
<1>2. run[p].repo = None /\ checks \in Nat
  BY <1>1 DEF IInv, TypeOK, TurnsToRepo, InTurn, Unreceipted
<1>3. s \in RunStates /\ s.pc = "waiting" /\ s.repo = None /\ s.child = run[p].child
  BY <1>1, <1>2 DEF RunStates, RunPcs
<1>4. run' = [run EXCEPT ![p] = s]
  BY DEF Begin
<1> HIDE DEF s
<1>5. run' \in [Runs -> RunStates] /\ run'[p] = s /\ \A q \in Runs \ {p} : run'[q] = run[q]
  BY <1>1, <1>3, <1>4 DEF TypeOK
<1>6. ~ Working(p)' /\ ~ InTurn(p)'
  BY <1>3, <1>5 DEF Working, InTurn, Unreceipted
<1>7. RunInv(p)'
  BY <1>1, <1>3, <1>5, <1>6, RunAtRest
<1> QED
  BY <1>1, <1>5, <1>6, <1>7, SameOthers DEF Done, Mine, LocksAs, TypeOK, Begin

(* A run that takes the lock.                                              *)
LEMMA TakeLockDone ==
  ASSUME IInv, NEW p \in Runs, TakeLock(p)
  PROVE  Done(p)
<1> DEFINE s == [run[p] EXCEPT !.pc = "preflight", !.child = record, !.todo = record.promoted]
<1>1. BranchesKept /\ Writes(p) /\ TypeOK /\ run[p] \in RunStates /\ run[p].pc = "waiting"
  BY NothingWritten, RunTyped DEF TakeLock
<1>2. run[p].repo = None /\ record \in Features /\ record.promoted \in SUBSET Repos
  BY <1>1, FeatureFields DEF IInv, TypeOK, TurnsToRepo, InTurn, Unreceipted
<1>3. s \in RunStates /\ s.pc = "preflight" /\ s.repo = None /\ s.child = record
  BY <1>1, <1>2 DEF RunStates, RunPcs
<1>4. run' = [run EXCEPT ![p] = s] /\ record' = record
  BY DEF TakeLock
<1> HIDE DEF s
<1>5. run' \in [Runs -> RunStates] /\ run'[p] = s /\ \A q \in Runs \ {p} : run'[q] = run[q]
  BY <1>1, <1>3, <1>4 DEF TypeOK
<1>6. Working(p)' /\ ~ InTurn(p)'
  BY <1>3, <1>5 DEF Working, InTurn, Unreceipted
<1>7. RunInv(p)'
  BY <1>1, <1>3, <1>4, <1>5, <1>6, RunAtRest
<1> QED
  BY <1>1, <1>5, <1>7, SameOthers DEF Done, Mine, LocksAs, TypeOK, TakeLock

(* A run that stops lets go of the lock.                                   *)
LEMMA EndDone ==
  ASSUME IInv, NEW p \in Runs, UNCHANGED <<git, record>>, OthersKept,
         outcome' \in Outcomes \cup {"open"}, session' \in BOOLEAN, End(p), Release(p)
  PROVE  Done(p)
<1>1. BranchesKept /\ Writes(p) /\ TypeOK
  BY NothingWritten
<1>2. /\ run' \in [Runs -> RunStates] /\ run'[p] = Quiet("ended")
      /\ \A q \in Runs \ {p} : run'[q] = run[q]
  BY <1>1, EndRun
<1>3. run'[p].pc = "ended" /\ run'[p].repo = None /\ run'[p].child = NoFeature
  BY <1>2 DEF Quiet
<1>4. ~ Working(p)' /\ ~ InTurn(p)'
  BY <1>3 DEF Working, InTurn, Unreceipted
<1>5. RunInv(p)'
  BY <1>1, <1>3, <1>4, RunAtRest
<1> QED
  BY <1>1, <1>2, <1>4, <1>5 DEF Done, Mine, LocksAs, Release

(* A run that goes on, or gives up and releases the lock.                  *)
LEMMA GoOrEndDone ==
  ASSUME IInv, NEW p \in Runs, Working(p), ~ InTurn(p), UNCHANGED <<git, record, outcome, session>>,
         OthersKept,
         NEW go \in BOOLEAN, NEW pc \in {"choose", "close", "writeClose"}, GoOrEnd(p, go, pc)
  PROVE  Done(p)
<1>1. BranchesKept /\ Writes(p) /\ TypeOK /\ run[p] \in RunStates
  BY NothingWritten, RunTyped
<1>2. CASE Become(p, pc) /\ UNCHANGED lock
  <2>1. /\ run' \in [Runs -> RunStates] /\ \A q \in Runs \ {p} : run'[q] = run[q]
        /\ run'[p] = [run[p] EXCEPT !.pc = pc]
    <3>1. pc \in RunPcs
      BY DEF RunPcs
    <3> QED
      BY <1>1, <1>2, <3>1, BecomeRun
  <2>2. run'[p].pc = pc /\ run'[p].repo = run[p].repo /\ run'[p].child = run[p].child
    BY <1>1, <2>1 DEF RunStates
  <2>3. run[p].repo = None
    BY DEF IInv, TurnsToRepo
  <2>4. Working(p)' /\ ~ InTurn(p)'
    BY <2>2 DEF Working, InTurn, Unreceipted
  <2>5. RunInv(p)'
    BY <1>1, <2>2, <2>3, <2>4, RunAtRest
  <2> QED
    BY <1>1, <1>2, <2>1, <2>5 DEF Done, Mine, LocksAs, TypeOK
<1>3. CASE End(p) /\ Release(p)
  BY <1>1, <1>3, EndDone DEF TypeOK
<1> QED
  BY <1>2, <1>3 DEF GoOrEnd

-----------------------------------------------------------------------------
(* The steps of a run at a repo.                                           *)

(* A repo that breaks, and one whose receipt still holds.                  *)
LEMMA LeaveRepoDone ==
  ASSUME IInv, NEW p \in Runs, Working(p), UNCHANGED <<git, record, outcome, session, lock, other>>,
         NEW broke \in BOOLEAN, RepoDone(p, broke)
  PROVE  Done(p)
BY NothingWritten, TurnEnds

(* A run that takes up its next repo.                                      *)
LEMMA TakeDone ==
  ASSUME IInv, NEW p \in Runs, run[p].pc = "choose", run[p].todo # {},
         UNCHANGED <<git, record, outcome, session, lock, other>>,
         NEW pc \in {"checkChild", "reverify"}, Take(p, pc),
         pc = "checkChild" => ~HasReceipt(run[p].child, NextRepo(p)),
         pc = "reverify" => /\ HasReceipt(run[p].child, NextRepo(p))
                            /\ ~Passed(run[p].child, NextRepo(p))
  PROVE  Done(p)
<1> DEFINE r == NextRepo(p)
           s == [run[p] EXCEPT !.pc = pc, !.repo = r, !.source = child[r]]
<1>1. /\ BranchesKept /\ Writes(p) /\ TypeOK /\ run[p] \in RunStates /\ RunInv(p)
      /\ outcome' \in Outcomes \cup {"open"} /\ session' \in BOOLEAN
  BY NothingWritten, RunTyped, InvByRun DEF TypeOK
<1>2. r \in Repos /\ r # None
  BY <1>1, NextRepoIsToDo, IntegrationAssumption
<1>3. child[r] \in Nat /\ child[r] \in Versions /\ child' = child /\ record' = record
  BY <1>1, <1>2 DEF IInv, SourceLands, TypeOK, git
<1>4. run' = [run EXCEPT ![p] = s]
  BY DEF Take
<1> HIDE DEF r
<1>5. s \in RunStates /\ s.pc = pc /\ s.repo = r /\ s.source = child[r] /\ s.child = run[p].child
  BY <1>1, <1>2, <1>3 DEF RunStates, RunPcs
<1> HIDE DEF s
<1>6. run' \in [Runs -> RunStates] /\ run'[p] = s /\ \A q \in Runs \ {p} : run'[q] = run[q]
  BY <1>1, <1>4, <1>5 DEF TypeOK
<1>7. TurnOf(p)'
  BY <1>2, <1>5, <1>6 DEF TurnOf, InTurn, Unreceipted, HasReceipt, Passed, r
<1>8. SourceOf(p)'
  <2>1. RealEvidence(run[p].child)'
    BY <1>1, <1>5, <1>6, SameEvidence DEF RunInv, SourceOf
  <2> QED
    BY <1>3, <1>5, <1>6, <2>1 DEF SourceOf
<1>9. KnownBy(p)'
  BY <1>1, <1>3, <1>5, <1>6 DEF RunInv, KnownBy, Known, Working
<1>10. Working(p)
  BY DEF Working
<1> QED
  BY <1>1, <1>6, <1>7, <1>8, <1>9, <1>10, SameOthers DEF Done, Mine, LocksAs, RunInv

(* The checks of the child, and of the staged candidate.                   *)
LEMMA RunChecksDone ==
  ASSUME IInv, NEW p \in Runs, CheckChild(p) \/ CheckCandidate(p)
  PROVE  Done(p)
<1>1. /\ Unreceipted(p) /\ run[p].pc \in {"checkChild", "checkCandidate"} /\ Working(p)
      /\ UNCHANGED <<git, record, outcome, session, lock, other>>
  BY DEF CheckChild, CheckCandidate, RunChecks, Unreceipted, Working
<1>2. CASE RepoDone(p, FALSE)
  BY <1>1, <1>2, LeaveRepoDone
<1>3. CASE Become(p, "stage")
  BY <1>1, <1>3, NothingWritten, TurnMovesTo
<1>4. CASE run[p].pc = "checkCandidate" /\ Become(p, "confirm")
  <2>1. Strategy = "rebase" => Carries(run[p].staged, run[p].source)
    BY <1>4 DEF IInv, SourceLands
  <2> QED
    BY <1>1, <1>4, <2>1, NothingWritten, TurnMovesTo
<1> QED
  BY <1>2, <1>3, <1>4 DEF CheckChild, CheckCandidate, RunChecks

(* A candidate is staged on what the parent is then.                       *)
LEMMA StageDone ==
  ASSUME IInv, NEW p \in Runs, Stage(p)
  PROVE  Done(p)
<1> DEFINE r == run[p].repo
           staged == Merged(parent[r], Brought(p), serial[r] + 1)
           s == [run[p] EXCEPT !.pc = "checkCandidate", !.base = parent[r], !.staged = staged]
<1>1. /\ run[p].pc = "stage" /\ Unreceipted(p) /\ InTurn(p)
      /\ UNCHANGED <<git, record, outcome, session, lock, other>> /\ run' = [run EXCEPT ![p] = s]
  BY DEF Stage, Unreceipted, InTurn
<1>2. r \in Repos /\ TypeOK /\ BranchesKept /\ run[p] \in RunStates /\ run[p].source \in Nat
  BY <1>1, RunRepo, RunTyped, NothingWritten
<1>3. parent[r] \in Branches /\ serial[r] + 1 \in Nat /\ Brought(p) \in Nat
  BY <1>2 DEF TypeOK, Brought
<1>4. staged \in Branches /\ Carries(staged, Brought(p))
  BY <1>3, MergedCarries
<1>5. Strategy = "rebase" => Carries(staged, run[p].source)
  BY <1>4 DEF Brought
<1> HIDE DEF staged
<1>6. /\ s \in RunStates /\ s.pc = "checkCandidate" /\ s.child = run[p].child /\ s.repo = run[p].repo
      /\ s.source = run[p].source /\ s.staged = staged
  BY <1>2, <1>3, <1>4 DEF RunStates, RunPcs
<1> HIDE DEF s
<1> QED
  BY <1>1, <1>2, <1>5, <1>6, TurnGoesOn

(* The parent is where the candidate was staged, and is moved to it.       *)
LEMMA ConfirmParentDone ==
  ASSUME IInv, NEW p \in Runs, ConfirmParent(p)
  PROVE  Done(p)
<1>1. /\ Unreceipted(p) /\ run[p].pc = "confirm" /\ Become(p, "apply")
      /\ UNCHANGED <<git, record, outcome, session, lock, other>>
  BY DEF ConfirmParent, Unreceipted
<1>2. Strategy = "rebase" => Carries(run[p].staged, run[p].source)
  BY <1>1 DEF IInv, SourceLands
<1> QED
  BY <1>1, <1>2, NothingWritten, TurnMovesTo

(* Whatever the strategy, the parent then carries the source: a merge by   *)
(* name brings a version that is not behind it.                            *)
LEMMA ApplyDone ==
  ASSUME IInv, NEW p \in Runs, Apply(p)
  PROVE  Done(p)
<1> DEFINE r == run[p].repo
           landed == Applied(p, parent[r])
<1>1. /\ run[p].pc = "apply" /\ Unreceipted(p) /\ InTurn(p) /\ Become(p, "readResult")
      /\ parent' = [parent EXCEPT ![r] = landed] /\ serial' = [serial EXCEPT ![r] = serial[r] + 1]
      /\ UNCHANGED <<child, moves, checks, record, outcome, session, lock, other>>
  BY DEF Apply, Unreceipted, InTurn, other
<1>2. /\ r \in Repos /\ r # None /\ TypeOK /\ Working(p) /\ run[p].source \in Nat
      /\ run[p].staged \in Branches
  BY <1>1, RunRepo, RunTyped
<1>3. /\ parent[r] \in Branches /\ serial[r] + 1 \in Nat /\ child[r] \in Nat
      /\ run[p].source <= child[r]
  BY <1>2 DEF TypeOK, IInv, SourceLands
<1>4. landed \in Branches /\ Carries(landed, run[p].source)
  <2>1. CASE Strategy = "rebase"
    <3>1. Carries(run[p].staged, run[p].source)
      BY <1>1, <2>1 DEF IInv, SourceLands
    <3>2. CASE IsPrefix(run[p].staged, parent[r])
      <4>1. landed = parent[r]
        BY <2>1, <3>2 DEF Applied
      <4> QED
        BY <1>2, <1>3, <3>1, <3>2, <4>1, PrefixCarries
    <3>3. CASE ~ IsPrefix(run[p].staged, parent[r])
      <4>1. landed = run[p].staged
        BY <2>1, <3>3 DEF Applied
      <4> QED
        BY <1>2, <3>1, <4>1
    <3> QED
      BY <3>2, <3>3
  <2>2. CASE Strategy # "rebase"
    <3> DEFINE merged == Merged(parent[r], child[r], serial[r] + 1)
    <3>1. landed = merged
      BY <2>2 DEF Applied, Brought
    <3>2. merged \in Branches /\ Carries(merged, child[r])
      BY <1>3, MergedCarries
    <3> HIDE DEF merged
    <3>3. Carries(merged, run[p].source)
      BY <1>2, <1>3, <3>2, LowerIsCarried
    <3> QED
      BY <3>1, <3>2, <3>3
  <2> QED
    BY <2>1, <2>2
<1> HIDE DEF landed
<1>5. /\ parent' \in [Repos -> Branches] /\ parent'[r] = landed /\ serial' \in [Repos -> Nat]
  BY <1>1, <1>2, <1>3, <1>4 DEF TypeOK
<1>6. \A q \in Runs : run[q].pc # "readResult"
  BY <1>1, <1>2 DEF IInv, LockHeld, Working
<1>7. \A q \in Repos : child[q] \in Nat /\ child[q] \in Versions
  BY <1>2 DEF IInv, SourceLands, TypeOK
<1>8. BranchesKept
  BY <1>1, <1>2, <1>5, <1>6, <1>7 DEF BranchesKept, TypeOK
<1> QED
  BY <1>1, <1>4, <1>5, <1>8, TurnMovesTo

(* The result is read back from the parent.                                *)
LEMMA ReadResultDone ==
  ASSUME IInv, NEW p \in Runs, ReadResult(p)
  PROVE  Done(p)
<1> DEFINE r == run[p].repo
           s == [run[p] EXCEPT !.pc = "record", !.result = parent[r]]
<1>1. /\ run[p].pc = "readResult" /\ Unreceipted(p) /\ InTurn(p)
      /\ UNCHANGED <<git, record, outcome, session, lock, other>> /\ run' = [run EXCEPT ![p] = s]
  BY DEF ReadResult, Unreceipted, InTurn
<1>2. r \in Repos /\ TypeOK /\ BranchesKept /\ run[p] \in RunStates
  BY <1>1, RunRepo, RunTyped, NothingWritten
<1>3. parent[r] \in Branches /\ Carries(parent[r], run[p].source)
  BY <1>1, <1>2 DEF TypeOK, IInv, SourceLands
<1>4. /\ s \in RunStates /\ s.pc = "record" /\ s.child = run[p].child /\ s.repo = run[p].repo
      /\ s.source = run[p].source /\ s.result = parent[r]
  BY <1>2, <1>3 DEF RunStates, RunPcs
<1> HIDE DEF s
<1> QED
  BY <1>1, <1>2, <1>3, <1>4, TurnGoesOn

(* The first receipt is failed evidence of the merge; from now on that is  *)
(* what the run knows of the repo.                                         *)
LEMMA RecordPendingDone ==
  ASSUME IInv, NEW p \in Runs, RecordPending(p)
  PROVE  Done(p)
<1> DEFINE r == run[p].repo
           receipt == ReceiptOf(p, FALSE)
<1>1. /\ run[p].pc = "record" /\ Unreceipted(p) /\ InTurn(p) /\ PersistReceipt(r, receipt)
      /\ UNCHANGED <<git, outcome, session, lock, other>> /\ Become(p, "checkParent")
  BY DEF RecordPending, Unreceipted, InTurn
<1>2. /\ r \in Repos /\ r # None /\ TypeOK /\ Working(p) /\ run[p] \in RunStates /\ RunInv(p)
      /\ BranchesKept /\ outcome' \in Outcomes \cup {"open"} /\ session' \in BOOLEAN
  BY <1>1, RunRepo, RunTyped, InvByRun, SameBranches DEF IInv, TypeOK
<1>3. Writes(p)
  BY <1>1 DEF Writes
<1>4. /\ run' \in [Runs -> RunStates] /\ \A q \in Runs \ {p} : run'[q] = run[q]
      /\ run'[p] = [run[p] EXCEPT !.pc = "checkParent"]
  BY <1>1, <1>2, BecomeRun DEF RunPcs
<1>5. /\ run'[p].pc = "checkParent" /\ run'[p].repo = r /\ run'[p].source = run[p].source
      /\ run'[p].child = run[p].child /\ run'[p].result = run[p].result
      /\ run'[p].checks = run[p].checks
  BY <1>2, <1>4 DEF RunStates
<1>6. TurnOf(p)'
  BY <1>1, <1>2, <1>5 DEF RunInv, TurnOf, InTurn, Unreceipted, HasReceipt
<1>7. SourceOf(p)'
  <2>1. RealEvidence(run[p].child)'
    BY <1>2, <1>5, SameEvidence DEF RunInv, SourceOf
  <2>2. child' = child /\ Carries(run[p].result, run[p].source)
    BY <1>1, <1>2 DEF RunInv, SourceOf, git
  <2> QED
    BY <1>2, <1>5, <2>1, <2>2 DEF RunInv, SourceOf, Carries
<1>8. ASSUME NEW q \in Repos
      PROVE  /\ record'.receipt[q] \in {None, Known(p, q)'}
             /\ Promoters = {} /\ q \in record'.promoted => record'.receipt[q] = Known(p, q)'
  <2>1. receipt \in Receipts
    BY <1>2, ReceiptType
  <2>2. /\ record.receipt[q] \in {None, Known(p, q)}
        /\ Promoters = {} /\ q \in record.promoted => record.receipt[q] = Known(p, q)
    BY <1>2 DEF RunInv, KnownBy
  <2>3. Known(p, q) = run[p].child.receipt[q]
    BY <1>1 DEF Known
  <2>4. Known(p, q)' = IF q = r THEN receipt ELSE run[p].child.receipt[q]
    BY <1>5 DEF Known, ReceiptOf
  <2>5. run[p].child.receipt[r] = None
    BY <1>1, <1>2 DEF RunInv, TurnOf, HasReceipt
  <2> HIDE DEF receipt
  <2>6. /\ record'.promoted = record.promoted
        /\ \A x \in Repos \ {r} : record'.receipt[x] = record.receipt[x]
        /\ record'.receipt[r] = IF r \in record.promoted THEN receipt ELSE record.receipt[r]
    BY <1>1, <1>2, <2>1, PersistType
  <2> QED
    BY <1>2, <2>2, <2>3, <2>4, <2>5, <2>6
<1>9. KnownBy(p)'
  BY <1>8 DEF KnownBy
<1> QED
  BY <1>1, <1>2, <1>3, <1>4, <1>6, <1>7, <1>9, SameOthers DEF Done, Mine, LocksAs, RunInv

(* The checks of the parent, and of a failed receipt once more.            *)
LEMMA VerifyDone ==
  ASSUME IInv, NEW p \in Runs, CheckParent(p) \/ Reverify(p)
  PROVE  Done(p)
<1>1. /\ InTurn(p) /\ RepoDone(p, FALSE) /\ UNCHANGED <<git, outcome, session, lock, other>>
  BY DEF CheckParent, Reverify, InTurn, Unreceipted
<1>2. Working(p) /\ BranchesKept
  BY <1>1, RunRepo, SameBranches DEF IInv
<1>3. Writes(p)
  BY DEF CheckParent, Reverify, Writes
<1> QED
  BY <1>1, <1>2, <1>3, TurnEnds

-----------------------------------------------------------------------------
(* The inductive invariant.                                                *)

(* Every step of a run, and a run that breaks off.                         *)
LEMMA RunStepDone ==
  ASSUME IInv, NEW p \in Runs, RunStep(p) \/ Stop(p)
  PROVE  Done(p)
<1>t. TypeOK
  BY DEF IInv
<1>1. ASSUME Preflight(p) PROVE Done(p)
  <2>1. Working(p) /\ ~ InTurn(p) /\ Accepted(p) \in BOOLEAN
    BY <1>1 DEF Preflight, Working, InTurn, Unreceipted, Accepted
  <2> QED
    BY <1>1, <1>t, <2>1, GoOrEndDone, SameOthers DEF Preflight
<1>2. ASSUME FinalState(p) PROVE Done(p)
  <2>1. Working(p) /\ ~ InTurn(p) /\ ToClose(p) \in BOOLEAN
    BY <1>2 DEF FinalState, Finished, Working, InTurn, Unreceipted, ToClose
  <2> QED
    BY <1>2, <1>t, <2>1, GoOrEndDone, SameOthers DEF FinalState
<1>3. ASSUME CheckClose(p) PROVE Done(p)
  <2>1. Working(p) /\ ~ InTurn(p) /\ MayClose("integrated") \in BOOLEAN
    BY <1>3 DEF CheckClose, Working, InTurn, Unreceipted, MayClose
  <2>2. record.promoted \in SUBSET Repos
    BY <1>t, FeatureFields DEF TypeOK
  <2>3. OthersKept
    BY <1>3, <1>t, <2>2 DEF CheckClose, OthersKept, TypeOK
  <2> QED
    BY <1>3, <2>1, <2>3, GoOrEndDone DEF CheckClose
<1>4. ASSUME WriteClose(p) PROVE Done(p)
  BY <1>4, <1>t, EndDone, SameOthers DEF WriteClose, Outcomes
<1>5. ASSUME Stop(p) PROVE Done(p)
  BY <1>5, <1>t, EndDone, SameOthers DEF Stop, TypeOK
<1>6. ASSUME ReuseReceipt(p) PROVE Done(p)
  BY <1>6, LeaveRepoDone DEF ReuseReceipt, Working
<1>7. ASSUME RepoBreaks(p) PROVE Done(p)
  BY <1>7, LeaveRepoDone DEF RepoBreaks, Working
<1>8. ASSUME TakeFailed(p) PROVE Done(p)
  BY <1>8, TakeDone DEF TakeFailed
<1>9. ASSUME TakeUnreceipted(p) PROVE Done(p)
  BY <1>9, TakeDone DEF TakeUnreceipted
<1> QED
  BY <1>1, <1>2, <1>3, <1>4, <1>5, <1>6, <1>7, <1>8, <1>9, BeginDone, TakeLockDone,
     RunChecksDone, StageDone, ConfirmParentDone, ApplyDone, ReadResultDone, RecordPendingDone,
     VerifyDone
     DEF RunStep

(* One run is at work at a time.                                           *)
LEMMA OneAtWork ==
  ASSUME IInv, NEW p \in Runs, Done(p)
  PROVE  LockHeld' /\ lock' \in Runs \cup {None}
<1>1. LockHeld /\ lock \in Runs \cup {None}
  BY DEF IInv, TypeOK
<1>2. ASSUME NEW q \in Runs, q # p PROVE Working(q)' <=> Working(q)
  BY <1>2 DEF Done, Mine, Working
<1>3. LocksAs(p) /\ None \notin Runs
  BY IntegrationAssumption DEF Done
<1> QED
  BY <1>1, <1>2, <1>3 DEF LockHeld, LocksAs, Working

(* A run that did its step rightly keeps the invariant for all the others. *)
LEMMA DoneKeeps ==
  ASSUME IInv, NEW p \in Runs, Done(p)
  PROVE  IInv'
<1>1. TypeOK /\ LockHeld
  BY DEF IInv
<1>2. BranchesKept /\ Writes(p) /\ record' \in Features /\ RealEvidence(record)'
  BY WrittenIsReal DEF Done, Mine
<1>3. LockHeld' /\ lock' \in Runs \cup {None}
  BY OneAtWork
<1>4. TypeOK'
  BY <1>1, <1>2, <1>3 DEF TypeOK, Done, Mine, BranchesKept, OthersKept
<1>5. ASSUME NEW q \in Runs PROVE RunInv(q)'
  <2>1. CASE q = p
    BY <2>1 DEF Done
  <2>2. CASE q # p
    <3>1. run'[q] = run[q]
      BY <2>2 DEF Done, Mine
    <3>2. ASSUME Working(q) PROVE RecordKept
      <4>1. ~ Working(p)
        BY <1>1, <2>2, <3>2 DEF LockHeld
      <4>2. record' = record
        BY <1>2, <4>1 DEF Writes, Working
      <4> QED
        BY <1>1, <4>2, SameRecordKept
    <3> QED
      BY <1>2, <3>1, <3>2, OtherRunStays
  <2> QED
    BY <2>1, <2>2
<1>6. ChildInRange'
  BY <1>2 DEF BranchesKept, ChildInRange
<1> QED
  BY <1>2, <1>3, <1>4, <1>5, <1>6, InvByRun

(* What happens outside of the runs keeps the invariant.                   *)
LEMMA OutsideDone ==
  ASSUME IInv, Outside
  PROVE  IInv'
<1>1. TypeOK /\ LockHeld /\ RealEvidence(record)
  BY DEF IInv, EvidenceIsReal
<1>2. BranchesKept /\ RecordKept /\ run' = run /\ lock' = lock
  BY OutsideKeeps
<1>3. TypeOK'
  BY <1>1, <1>2, OutsideKeeps DEF TypeOK, BranchesKept, RecordKept
<1>4. LockHeld' /\ ChildInRange'
  BY <1>1, <1>2 DEF LockHeld, Working, ChildInRange, BranchesKept
<1>5. RealEvidence(record)'
  BY <1>1, <1>2 DEF RealEvidence, RecordKept, HasReceipt, Carries
<1>6. \A q \in Runs : RunInv(q)'
  BY <1>2, OtherRunStays
<1> QED
  BY <1>3, <1>4, <1>5, <1>6, InvByRun

(* So does a step of something the model leaves out.                       *)
LEMMA StutterKeeps ==
  ASSUME IInv, UNCHANGED vars
  PROVE  IInv'
<1>1. /\ TypeOK /\ LockHeld /\ RealEvidence(record) /\ SourceLands
      /\ UNCHANGED <<git, record, run, lock>>
  BY DEF IInv, EvidenceIsReal, vars, git
<1>2. BranchesKept /\ RecordKept
  BY <1>1, SameBranches, SameRecordKept
<1>3. TypeOK'
  BY DEF vars, IInv, TypeOK
<1>4. LockHeld' /\ ChildInRange' /\ RealEvidence(record)'
  BY <1>1, <1>2 DEF LockHeld, Working, ChildInRange, BranchesKept, RealEvidence, HasReceipt, Carries
<1>5. \A q \in Runs : RunInv(q)'
  BY <1>1, <1>2, OtherRunStays
<1> QED
  BY <1>3, <1>4, <1>5, InvByRun

(* The invariant holds at first ...                                        *)
LEMMA InitIInv ==
  ASSUME Init
  PROVE  IInv
<1>1. <<[id |-> 0, ver |-> 0]>> \in Branches
  BY DEF Branches, Commits
<1>2. [NoFeature EXCEPT !.promoted = Repos] \in Features /\ NoFeature \in Features
  BY NoFeatureType DEF NoFeature, Features
<1>3. Quiet("new") \in RunStates
  BY QuietType DEF RunPcs
<1>4. TypeOK
  BY <1>1, <1>2, <1>3 DEF Init, TypeOK
<1>5. \A p \in Runs : run[p].pc = "new" /\ run[p].repo = None /\ run[p].child = NoFeature
  BY DEF Init, Quiet
<1>6. \A r \in Repos : record.receipt[r] = None /\ NoFeature.receipt[r] = None
  BY DEF Init, NoFeature
<1>7. LockHeld /\ TurnsToRepo /\ RecordIsKnown
  BY <1>5 DEF LockHeld, TurnsToRepo, RecordIsKnown, Working, InTurn, Unreceipted
<1>8. EvidenceIsReal
  BY <1>5, <1>6 DEF EvidenceIsReal, RealEvidence, HasReceipt
<1>9. SourceLands
  <2>1. \A r \in Repos : child[r] = 1 /\ 1 \in Versions
    BY IntegrationAssumption DEF Init, Versions
  <2> QED
    BY <1>5, <2>1 DEF SourceLands
<1> QED
  BY <1>4, <1>7, <1>8, <1>9 DEF IInv

(* ... and every step keeps it.                                            *)
LEMMA NextKeeps ==
  ASSUME IInv, [Next]_vars
  PROVE  IInv'
BY RunStepDone, DoneKeeps, OutsideDone, StutterKeeps DEF Next

(* Every step of a run and of the commands around it keeps it.             *)
THEOREM Inductive == Spec => []IInv
<1>1. IInv /\ [Next]_vars => IInv'
  BY NextKeeps
<1> QED
  BY InitIInv, <1>1, PTL DEF Spec

-----------------------------------------------------------------------------
(* What follows from it.                                                   *)

(* relations.rs, receipt_freshness: a passing receipt whose source is the  *)
(* child's tip and whose result is in the parent's branch means that this  *)
(* branch carries the tip, whatever was committed, rebased or reset.       *)
THEOREM InvariantHolds == Spec => []IntegrationInv
<1>1. ASSUME IInv PROVE FreshMeansCarried
  <2> SUFFICES ASSUME NEW r \in Repos, HasReceipt(record, r), Fresh(record.receipt[r], r, checks)
               PROVE  Carries(parent[r], child[r])
    BY DEF FreshMeansCarried
  <2> DEFINE receipt == record.receipt[r]
  <2>1. TypeOK /\ RealEvidence(record)
    BY <1>1 DEF IInv, EvidenceIsReal
  <2>2. receipt \in Receipts
    <3>1. record \in Features /\ record.receipt[r] # None
      BY <2>1 DEF TypeOK, HasReceipt
    <3> QED
      BY <3>1, FeatureFields
  <2>3. receipt.result \in Branches /\ parent[r] \in Branches /\ child[r] \in Nat
    BY <2>1, <2>2 DEF TypeOK, Receipts
  <2>4. Carries(receipt.result, child[r]) /\ IsPrefix(receipt.result, parent[r])
    BY <2>1 DEF RealEvidence, Fresh, StillCurrent
  <2> HIDE DEF receipt
  <2> QED
    BY <2>3, <2>4, PrefixCarries
<1>2. IInv => IntegrationInv
  BY <1>1 DEF IInv, IntegrationInv
<1> QED
  BY Inductive, <1>2, PTL

(* Whoever takes a step, passing evidence stays.                           *)
LEMMA PassingStays ==
  ASSUME IInv, [Next]_vars, NEW r \in Repos, Passed(record, r)
  PROVE  record'.receipt[r] = record.receipt[r]
<1>1. ASSUME Outside PROVE record'.receipt[r] = record.receipt[r]
  BY <1>1, OutsideKeeps DEF RecordKept
<1>2. ASSUME NEW p \in Runs, RunStep(p) \/ Stop(p) PROVE record'.receipt[r] = record.receipt[r]
  <2>1. Writes(p)
    BY <1>2, RunStepDone DEF Done, Mine
  <2> QED
    BY <2>1, WrittenIsReal
<1>3. ASSUME UNCHANGED vars PROVE record'.receipt[r] = record.receipt[r]
  BY <1>3 DEF vars
<1> QED
  BY <1>1, <1>2, <1>3 DEF Next

(* receipts.rs, demote.rs: no integrate, demote or promote under way       *)
(* rewrites or drops a passing receipt.                                    *)
THEOREM PassingIsFinal == Spec => PassingReceiptIsFinal
<1> DEFINE Final == \A r \in Repos : Passed(record, r) =>
                      HasReceipt(record', r) /\ record'.receipt[r] = record.receipt[r]
<1>1. IInv /\ [Next]_vars => [Final]_vars
  BY PassingStays DEF Passed, HasReceipt
<1> QED
  BY Inductive, <1>1, PTL DEF Spec, PassingReceiptIsFinal

(* strategy.rs: a rebase fast-forwards the parent to the candidate whose   *)
(* checks passed, and to nothing else, or leaves it alone where it is      *)
(* ahead of it.  (The other strategies merge the child's branch again, by  *)
(* name.)                                                                  *)
THEOREM CheckedCandidateLands ==
  ASSUME Strategy = "rebase"
  PROVE  Spec => OnlyTheCheckedCandidateLands
<1> DEFINE Checked(p) ==
             LET before == parent[run[p].repo]
                 after  == parent'[run[p].repo]
             IN \/ Content(after) = Content(run[p].staged)
                \/ after = before /\ IsPrefix(run[p].staged, before)
           Lands == \A p \in Runs : run[p].pc = "apply" /\ run'[p].pc = "readResult" => Checked(p)
<1>1. ASSUME IInv, [Next]_vars, NEW p \in Runs, run[p].pc = "apply",
             run'[p].pc = "readResult"
      PROVE  Checked(p)
  <2>1. TypeOK /\ run[p].repo \in Repos
    BY <1>1, RunRepo DEF InTurn, Unreceipted
  <2>2. Apply(p)
    <3>1. ASSUME NEW q \in Runs, RunStep(q) \/ Stop(q) PROVE q = p
      <4>1. \A x \in Runs \ {q} : run'[x] = run[x]
        BY <1>1, <3>1, RunStepDone DEF Done, Mine
      <4> QED
        BY <1>1, <4>1
    <3>2. ~ Outside /\ ~ UNCHANGED vars
      BY <1>1, OutsideKeeps DEF vars
    <3>3. RunStep(p) \/ Stop(p)
      BY <1>1, <3>1, <3>2 DEF Next
    <3>4. ~ End(p)
      BY <1>1, <2>1, EndRun DEF Quiet
    <3>5. ~ RepoDone(p, TRUE) \/ ~ RepoBreaks(p)
      <4>1. ASSUME RepoBreaks(p) PROVE record' \in Features
        BY <2>1, <4>1 DEF RepoBreaks, TypeOK
      <4> QED
        BY <1>1, <2>1, <4>1, RepoDoneRun
    <3>6. ~ Stop(p) /\ ~ RepoBreaks(p)
      BY <3>4, <3>5 DEF Stop, RepoBreaks
    <3> QED
      BY <1>1, <3>3, <3>6
         DEF RunStep, Begin, TakeLock, Preflight, ReuseReceipt, TakeFailed, TakeUnreceipted,
             CheckChild, Stage, CheckCandidate, RunChecks, ConfirmParent, ReadResult,
             RecordPending, CheckParent, Reverify, FinalState, Finished, CheckClose, WriteClose
  <2>3. parent'[run[p].repo] = Applied(p, parent[run[p].repo])
    BY <2>1, <2>2 DEF Apply, TypeOK
  <2>4. CASE IsPrefix(run[p].staged, parent[run[p].repo])
    <3>1. parent'[run[p].repo] = parent[run[p].repo]
      BY <2>3, <2>4 DEF Applied
    <3> QED
      BY <2>4, <3>1
  <2>5. CASE ~ IsPrefix(run[p].staged, parent[run[p].repo])
    <3>1. parent'[run[p].repo] = run[p].staged
      BY <2>3, <2>5 DEF Applied
    <3> QED
      BY <3>1
  <2> QED
    BY <2>4, <2>5
<1>2. IInv /\ [Next]_vars => [Lands]_vars
  BY <1>1
<1> QED
  BY Inductive, <1>2, PTL DEF Spec, OnlyTheCheckedCandidateLands

-----------------------------------------------------------------------------
(* The close.  What it judged stays promoted and passed, and where no      *)
(* promote is at work no repo joins.                                       *)

(* Evidence a close has judged is still there after any step.              *)
LEMMA EvidenceStays ==
  ASSUME IInv, [Next]_vars
  PROVE  /\ \A r \in Repos : r \in record.promoted /\ Passed(record, r) =>
                             r \in record'.promoted /\ Passed(record', r)
         /\ Promoters = {} => record'.promoted \subseteq record.promoted
<1>1. TypeOK /\ record \in Features /\ record.promoted \subseteq Repos
  BY FeatureFields DEF IInv, TypeOK
<1>2. ASSUME NEW r \in Repos, Passed(record, r) PROVE Passed(record', r)
  BY <1>2, PassingStays DEF Passed, HasReceipt
<1>3. ASSUME Outside
      PROVE  /\ \A r \in Repos : r \in record.promoted /\ Passed(record, r) => r \in record'.promoted
             /\ Promoters = {} => record'.promoted \subseteq record.promoted
  <2>1. ASSUME NEW q \in Repos, Demote(q)
        PROVE  record'.promoted = record.promoted \ {q} /\ ~ Passed(record, q)
    BY <2>1 DEF Demote
  <2>2. ASSUME NEW m \in Promoters, PromoteRecords(m)
        PROVE  record'.promoted = record.promoted \cup {promoter[m]}
    BY <1>1, <2>2, FeatureFields DEF PromoteRecords
  <2>3. \/ record'.promoted = record.promoted
        \/ \E q \in Repos : Demote(q)
        \/ \E m \in Promoters : PromoteRecords(m)
    BY <1>3 DEF Outside, CloseWrites, CloseChecks, PromoteChecks, ChildCommits, ParentCommits,
                ParentRebases, ParentResets, MoveParent, StartSession, StopSession, EditChecks,
                Unmoved
  <2> QED
    BY <2>1, <2>2, <2>3
<1>4. ASSUME NEW p \in Runs, RunStep(p) \/ Stop(p) PROVE record'.promoted = record.promoted
  <2>1. Writes(p)
    BY <1>4, RunStepDone DEF Done, Mine
  <2> QED
    BY <2>1, WrittenIsReal
<1>5. /\ \A r \in Repos : r \in record.promoted /\ Passed(record, r) => r \in record'.promoted
      /\ Promoters = {} => record'.promoted \subseteq record.promoted
  BY <1>3, <1>4 DEF Next, vars
<1> QED
  BY <1>2, <1>5

(* Only the gates of close_in send a run to write the outcome.             *)
LEMMA ClosingFrom ==
  ASSUME IInv, NEW p \in Runs, RunStep(p) \/ Stop(p), Closing(p)'
  PROVE  CheckClose(p)
<1>1. TypeOK /\ run[p] \in RunStates /\ record' \in Features
  BY RunTyped, RunStepDone, WrittenIsReal DEF IInv, Done, Mine
<1>2. run'[p].pc = "writeClose"
  BY DEF Closing
<1>3. ~ End(p)
  BY <1>1, <1>2, EndRun DEF Quiet
<1>4. ~ RepoDone(p, FALSE) /\ ~ RepoDone(p, TRUE)
  BY <1>1, <1>2, RepoDoneRun
<1>5. ASSUME NEW pc \in RunPcs, pc # "writeClose" PROVE ~ Become(p, pc)
  <2>1. [run[p] EXCEPT !.pc = pc].pc = pc
    BY <1>1 DEF RunStates
  <2> QED
    BY <1>1, <1>2, <1>5, <2>1, BecomeRun
<1>p. ASSUME NEW s, run' = [run EXCEPT ![p] = s] PROVE s.pc = "writeClose"
  BY <1>1, <1>2, <1>p DEF TypeOK
<1>6. ~ TakeFailed(p) /\ ~ TakeUnreceipted(p)
  <2>1. ASSUME NEW pc, Take(p, pc) PROVE pc = "writeClose"
    <3> DEFINE s == [run[p] EXCEPT !.pc = pc, !.repo = NextRepo(p), !.source = child[NextRepo(p)]]
    <3>1. s.pc = pc
      BY <1>1 DEF RunStates
    <3>2. run' = [run EXCEPT ![p] = s]
      BY <2>1 DEF Take
    <3> HIDE DEF s
    <3> QED
      BY <1>p, <3>1, <3>2
  <2> QED
    BY <2>1 DEF TakeFailed, TakeUnreceipted
<1>7. ~ Begin(p) /\ ~ TakeLock(p) /\ ~ Stage(p) /\ ~ ReadResult(p)
  <2> DEFINE r == run[p].repo
             s1 == [run[p] EXCEPT !.pc = "waiting", !.checks = checks]
             s2 == [run[p] EXCEPT !.pc = "preflight", !.child = record, !.todo = record.promoted]
             s3 == [run[p] EXCEPT !.pc = "checkCandidate", !.base = parent[r],
                                  !.staged = Merged(parent[r], Brought(p), serial[r] + 1)]
             s4 == [run[p] EXCEPT !.pc = "record", !.result = parent[r]]
  <2>1. /\ s1.pc = "waiting" /\ s2.pc = "preflight" /\ s3.pc = "checkCandidate" /\ s4.pc = "record"
    BY <1>1 DEF RunStates
  <2>2. /\ Begin(p) => run' = [run EXCEPT ![p] = s1]
        /\ TakeLock(p) => run' = [run EXCEPT ![p] = s2]
        /\ Stage(p) => run' = [run EXCEPT ![p] = s3]
        /\ ReadResult(p) => run' = [run EXCEPT ![p] = s4]
    BY DEF Begin, TakeLock, Stage, ReadResult
  <2> HIDE DEF s1, s2, s3, s4
  <2> QED
    BY <1>p, <2>1, <2>2
<1>8. ~ Preflight(p) /\ ~ FinalState(p) /\ ~ WriteClose(p) /\ ~ Stop(p)
  BY <1>3, <1>5 DEF Preflight, FinalState, GoOrEnd, WriteClose, Stop, RunPcs
<1>9. ~ ReuseReceipt(p) /\ ~ CheckParent(p) /\ ~ Reverify(p) /\ ~ RepoBreaks(p)
  BY <1>4 DEF ReuseReceipt, CheckParent, Reverify, RepoBreaks
<1>10. ~ CheckChild(p) /\ ~ CheckCandidate(p) /\ ~ ConfirmParent(p) /\ ~ Apply(p)
       /\ ~ RecordPending(p)
  BY <1>4, <1>5 DEF CheckChild, CheckCandidate, RunChecks, ConfirmParent, Apply, RecordPending,
                    RunPcs
<1> QED
  BY <1>6, <1>7, <1>8, <1>9, <1>10 DEF RunStep

(* A run closes the feature with its last write alone, and judges the      *)
(* receipts with the gates of close_in alone.                              *)
LEMMA OutcomeFrom ==
  ASSUME NEW p \in Runs, RunStep(p) \/ Stop(p)
  PROVE  /\ (outcome' = outcome \/ WriteClose(p)) /\ closer' = closer
         /\ (judged' = judged \/ (CheckClose(p) /\ MayClose("integrated")))
BY DEF RunStep, Stop, Begin, TakeLock, Preflight, ReuseReceipt, TakeFailed, TakeUnreceipted,
       CheckChild, Stage, CheckCandidate, RunChecks, ConfirmParent, Apply, ReadResult,
       RecordPending, CheckParent, Reverify, RepoBreaks, FinalState, CheckClose, WriteClose, other

(* Every promotion a close judged is backed; and no others are there while *)
(* no promote is at work.                                                  *)
Backed == Evidenced /\ (Promoters = {} => record.promoted \subseteq judged)

(* A close has the evidence it judged ...                                  *)
LEMMA EvidencedClose ==
  ASSUME IInv, ClosesOnEvidence, [Next]_vars
  PROVE  ClosesOnEvidence'
<1>1. TypeOK /\ LockHeld
  BY DEF IInv
<1>2. ASSUME Backed, judged' = judged PROVE Backed'
  <2>1. judged \subseteq Repos
    BY <1>1 DEF TypeOK
  <2>2. \A r \in judged : r \in record'.promoted /\ Passed(record', r)
    BY <1>2, <2>1, EvidenceStays DEF Backed, Evidenced
  <2>3. Promoters = {} => record'.promoted \subseteq judged
    BY <1>2, EvidenceStays DEF Backed
  <2> QED
    BY <1>2, <2>2, <2>3 DEF Backed, Evidenced, Passed, HasReceipt
<1>3. ASSUME AllPassed(record), judged' = record.promoted, record' = record PROVE Backed'
  BY <1>3 DEF Backed, Evidenced, AllPassed, Passed, HasReceipt
<1> DEFINE Bound == \/ outcome = "integrated" \/ (\E p \in Runs : Closing(p))
                    \/ (\E c \in Closers : closer[c] = "integrated")
           Free  == Closers = {} => \A p \in Runs : Closing(p) => outcome = "open"
<1>4. (Bound => Backed) /\ Free
  BY DEF ClosesOnEvidence, Backed
<1>5. ASSUME NEW p \in Runs, RunStep(p) \/ Stop(p)
      PROVE  (Bound' => Backed') /\ Free'
  <2>1. ASSUME NEW q \in Runs, Closing(q)' PROVE (Closing(q) /\ p # q) \/ (CheckClose(p) /\ p = q)
    <3>1. CASE q = p
      BY <1>5, <2>1, <3>1, ClosingFrom
    <3>2. CASE q # p
      <4>1. run'[q] = run[q]
        BY <1>5, <3>2, RunStepDone DEF Done, Mine
      <4> QED
        BY <2>1, <3>2, <4>1 DEF Closing
    <3> QED
      BY <3>1, <3>2
  <2>2. /\ (outcome' = outcome \/ WriteClose(p)) /\ closer' = closer
        /\ (judged' = judged \/ (CheckClose(p) /\ MayClose("integrated")))
    BY <1>5, OutcomeFrom
  <2>3. WriteClose(p) => Closing(p)
    BY DEF WriteClose, Closing
  <2>4. ASSUME CheckClose(p), Closing(p)' PROVE MayClose("integrated") /\ outcome' = outcome
    <3>1. ~ End(p)
      BY <1>1, <2>4, EndRun DEF Quiet, Closing
    <3> QED
      BY <2>4, <3>1 DEF CheckClose, GoOrEnd
  <2>5. CheckClose(p) /\ MayClose("integrated") => Backed'
    BY <1>3 DEF CheckClose, MayClose
  <2>6. ASSUME Bound', ~ (CheckClose(p) /\ MayClose("integrated")) PROVE Backed'
    <3>1. Bound
      BY <2>1, <2>2, <2>3, <2>4, <2>6
    <3> QED
      BY <1>2, <1>4, <2>2, <2>6, <3>1
  <2>7. ASSUME Closers = {}, NEW q \in Runs, Closing(q)' PROVE outcome' = "open"
    <3>1. CASE CheckClose(p) /\ p = q
      BY <2>4, <2>7, <3>1 DEF MayClose
    <3>2. CASE Closing(q) /\ p # q
      <4>1. lock = q /\ outcome = "open"
        BY <1>1, <1>4, <2>7, <3>2 DEF LockHeld, Closing, Working
      <4>2. ~ WriteClose(p)
        BY <1>1, <3>2, <4>1 DEF WriteClose, LockHeld, Working
      <4> QED
        BY <2>2, <4>1, <4>2
    <3> QED
      BY <2>1, <2>7, <3>1, <3>2
  <2> QED
    BY <2>5, <2>6, <2>7
<1>6. ASSUME Outside
      PROVE  (Bound' => Backed') /\ Free'
  <2>1. run' = run
    BY <1>6, OutsideKeeps
  <2>2. \/ outcome' = outcome /\ closer' = closer /\ judged' = judged
        \/ \E c \in Closers : CloseWrites(c) \/ \E o \in Outcomes : CloseChecks(c, o)
    BY <1>6 DEF Outside, PromoteRecords, PromoteChecks, Demote, ChildCommits, ParentCommits,
                ParentRebases, ParentResets, MoveParent, StartSession, StopSession, EditChecks,
                Unmoved, other
  <2>3. ASSUME outcome' = outcome, closer' = closer, judged' = judged
        PROVE  (Bound' => Backed') /\ Free'
    <3>1. (Bound' => Bound) /\ Free'
      BY <1>4, <2>1, <2>3 DEF Closing
    <3> QED
      BY <1>2, <1>4, <2>3, <3>1
  <2>4. ASSUME NEW c \in Closers, CloseWrites(c) PROVE Bound' => Backed'
    <3>1. closer' = [closer EXCEPT ![c] = "ended"] /\ outcome' = closer[c] /\ judged' = judged
      BY <2>4 DEF CloseWrites
    <3>2. \A d \in Closers : closer'[d] = "integrated" => closer[d] = "integrated"
      BY <1>1, <3>1 DEF TypeOK
    <3>3. Bound' => Bound
      BY <2>1, <3>1, <3>2 DEF Closing
    <3> QED
      BY <1>2, <1>4, <3>1, <3>3
  <2>5. ASSUME NEW c \in Closers, NEW o \in Outcomes, CloseChecks(c, o)
        PROVE  Bound' => Backed'
    <3>1. CASE o = "integrated"
      BY <1>3, <2>5, <3>1 DEF CloseChecks, MayClose
    <3>2. CASE o # "integrated"
      <4>1. closer' = [closer EXCEPT ![c] = o] /\ outcome' = outcome /\ judged' = judged
        BY <2>5, <3>2 DEF CloseChecks
      <4>2. \A d \in Closers : closer'[d] = "integrated" => closer[d] = "integrated"
        BY <1>1, <3>2, <4>1 DEF TypeOK
      <4>3. Bound' => Bound
        BY <2>1, <4>1, <4>2 DEF Closing
      <4> QED
        BY <1>2, <1>4, <4>1, <4>3
    <3> QED
      BY <3>1, <3>2
  <2> QED
    BY <2>2, <2>3, <2>4, <2>5
<1>7. ASSUME UNCHANGED vars PROVE (Bound' => Backed') /\ Free'
  <2>1. (Bound' => Bound) /\ Free' /\ judged' = judged
    BY <1>4, <1>7 DEF vars, Closing
  <2> QED
    BY <1>2, <1>4, <2>1
<1>8. (Bound' => Backed') /\ Free'
  BY <1>5, <1>6, <1>7 DEF Next
<1> QED
  BY <1>8 DEF ClosesOnEvidence, Backed

(* ... so every close does.                                                *)
LEMMA ClosesInductively == Spec => []ClosesOnEvidence
<1>1. Init => ClosesOnEvidence
  BY DEF Init, ClosesOnEvidence, Closing, Quiet
<1>2. IInv /\ ClosesOnEvidence /\ [Next]_vars => ClosesOnEvidence'
  BY EvidencedClose
<1> QED
  BY Inductive, <1>1, <1>2, PTL DEF Spec

(* close.rs, "The `integrated` outcome": a child closed as integrated      *)
(* holds a passing receipt on every promotion its close judged, whoever    *)
(* closed it and whatever joined since.                                    *)
THEOREM ClosedIsReceipted == Spec => []IntegratedIsReceipted
<1>1. ClosesOnEvidence => IntegratedIsReceipted
  BY DEF ClosesOnEvidence, IntegratedIsReceipted
<1> QED
  BY ClosesInductively, <1>1, PTL

-----------------------------------------------------------------------------
(* The ledger: what is written of a repo's receipt is one of its steps.    *)

Entries == [r \in Repos |-> Entry(r)]
Closed  == outcome = "integrated"

(* The entry of the ledger that a repo of the record stands for.           *)
LEMMA EntryOf ==
  ASSUME TypeOK, NEW r \in Repos
  PROVE  /\ Entry(r).state \in {"out", "open", "failed", "passed"}
         /\ Entry(r).state = "out" <=> r \notin record.promoted
         /\ Entry(r).state = "passed" <=> r \in record.promoted /\ Passed(record, r)
         /\ HasReceipt(record, r) =>
              Entry(r) = Ledger!Receipt(record.receipt[r].source, record.receipt[r].passed)
         /\ r \in record.promoted /\ ~HasReceipt(record, r) => Entry(r) = Ledger!Unreceipted
<1>1. /\ record \in Features /\ record.receipt[r] \in Receipts \cup {None}
      /\ r \notin record.promoted => record.receipt[r] = None
  BY FeatureFields DEF TypeOK
<1>2. record.receipt[r] # None => record.receipt[r].passed \in BOOLEAN
  BY <1>1 DEF Receipts
<1> QED
  BY <1>1, <1>2 DEF Entry, Passed, HasReceipt, Ledger!Receipt, Ledger!Unreceipted

(* One repo's receipt or promotion changes: one entry does.                *)
LEMMA OneEntry ==
  ASSUME NEW r \in Repos, NEW e, Entry(r)' = e, outcome' = outcome,
         \A q \in Repos \ {r} : /\ record'.receipt[q] = record.receipt[q]
                                /\ q \in record'.promoted <=> q \in record.promoted
  PROVE  Ledger!Set(r, e)
<1>1. \A q \in Repos \ {r} : Entry(q)' = Entry(q)
  BY DEF Entry
<1>2. Entries' = [Entries EXCEPT ![r] = e]
  BY <1>1 DEF Entries
<1> QED
  BY <1>2 DEF Ledger!Set, Entries

(* A receipt persisted is one entry set.                                   *)
LEMMA ReceiptEntry ==
  ASSUME NEW r \in Repos, NEW receipt \in Receipts, outcome' = outcome, r \in record.promoted,
         record'.promoted = record.promoted, record'.receipt[r] = receipt,
         \A q \in Repos \ {r} : record'.receipt[q] = record.receipt[q]
  PROVE  Ledger!Set(r, Ledger!Receipt(receipt.source, receipt.passed))
<1>1. receipt # None /\ receipt.passed \in BOOLEAN
  BY NoReceiptAssumption DEF Receipts
<1>2. Entry(r)' = Ledger!Receipt(receipt.source, receipt.passed)
  BY <1>1 DEF Entry, Ledger!Receipt
<1> QED
  BY <1>2, OneEntry

(* The same record is the same ledger.                                     *)
LEMMA SameEntries ==
  ASSUME record' = record, outcome' = outcome
  PROVE  UNCHANGED Ledger!vars
BY DEF Ledger!vars, Entry

(* What a run writes is a step of the ledger, or nothing.                  *)
LEMMA WrittenIsLedgerStep ==
  ASSUME Promoters = {}, IInv, NEW p \in Runs, Writes(p), outcome' = outcome
  PROVE  Ledger!Next \/ UNCHANGED Ledger!vars
<1> DEFINE r == run[p].repo
           held == run[p].child.receipt[r]
<1>1. CASE record' = record
  BY <1>1, SameEntries
<1>2. ASSUME InTurn(p), NEW receipt \in Receipts, PersistReceipt(r, receipt),
             r \in record.promoted,
             \/ Known(p, r) = None /\ receipt.source \in Versions /\ receipt.passed = FALSE
             \/ /\ Known(p, r) \in Receipts /\ Known(p, r).passed = FALSE
                /\ receipt.source = Known(p, r).source
      PROVE  Ledger!Next
  <2>1. r \in Repos /\ Working(p) /\ TypeOK /\ RunInv(p)
    BY <1>2, RunRepo, InvByRun
  <2>2. record.receipt[r] = Known(p, r)
    BY <1>2, <2>1 DEF RunInv, KnownBy
  <2>3. /\ record'.promoted = record.promoted /\ record'.receipt[r] = receipt
        /\ \A q \in Repos \ {r} : record'.receipt[q] = record.receipt[q]
    BY <1>2, <2>1, PersistType
  <2>4. receipt.passed \in BOOLEAN
    BY <1>2 DEF Receipts
  <2>6. Ledger!Set(r, Ledger!Receipt(receipt.source, receipt.passed))
    <3> HIDE DEF r
    <3> QED
      BY <1>2, <2>1, <2>3, ReceiptEntry
  <2>7. Entries[r] = Entry(r)
    BY <2>1 DEF Entries
  <2>8. CASE Known(p, r) = None /\ receipt.source \in Versions /\ receipt.passed = FALSE
    <3>1. Entry(r) = Ledger!Unreceipted
      BY <1>2, <2>1, <2>2, <2>8, EntryOf DEF HasReceipt
    <3>2. Ledger!Record(r)
      BY <2>6, <2>7, <2>8, <3>1 DEF Ledger!Record, Entries, Versions
    <3> QED
      BY <2>1, <3>2 DEF Ledger!Next
  <2>9. CASE /\ Known(p, r) \in Receipts /\ Known(p, r).passed = FALSE
             /\ receipt.source = Known(p, r).source
    <3>1. Entry(r) = Ledger!Receipt(receipt.source, FALSE)
      BY <2>1, <2>2, <2>9, EntryOf, NoReceiptAssumption DEF HasReceipt
    <3>2. Entry(r).state = "failed" /\ Entry(r).source = receipt.source
      BY <3>1 DEF Ledger!Receipt
    <3>3. Ledger!Verify(r)
      BY <2>4, <2>6, <2>7, <3>2 DEF Ledger!Verify, Entries
    <3> QED
      BY <2>1, <3>3 DEF Ledger!Next
  <2> QED
    BY <1>2, <2>8, <2>9
<1>3. ASSUME NEW receipt, PersistReceipt(r, receipt), r \notin record.promoted
      PROVE  record' = record
  BY <1>3 DEF PersistReceipt
<1>4. TypeOK /\ RunInv(p)
  BY InvByRun DEF IInv
<1>5. CASE run[p].pc = "record" /\ PersistReceipt(r, ReceiptOf(p, FALSE))
  <2>1. InTurn(p) /\ Known(p, r) = None
    BY <1>4, <1>5 DEF RunInv, TurnOf, InTurn, Unreceipted, Known, HasReceipt
  <2>2. run[p].source \in Versions
    BY <1>4, <2>1 DEF RunInv, TurnOf, SourceOf
  <2> QED
    BY <1>1, <1>2, <1>3, <1>4, <1>5, <2>1, <2>2, ReceiptType
<1>6. ASSUME run[p].pc = "checkParent", NEW passed \in BOOLEAN, PersistReceipt(r, ReceiptOf(p, passed))
      PROVE  Ledger!Next \/ UNCHANGED Ledger!vars
  <2>1. InTurn(p) /\ Known(p, r) = ReceiptOf(p, FALSE)
    BY <1>6 DEF InTurn, Unreceipted, Known
  <2> QED
    BY <1>1, <1>2, <1>3, <1>4, <1>6, <2>1, ReceiptType
<1>7. ASSUME run[p].pc = "reverify", NEW passed \in BOOLEAN,
             PersistReceipt(r, Reverified(p, held, passed))
      PROVE  Ledger!Next \/ UNCHANGED Ledger!vars
  <2>1. InTurn(p) /\ Known(p, r) = held
    BY <1>7 DEF InTurn, Known
  <2> QED
    BY <1>1, <1>2, <1>3, <1>7, <2>1, HeldReceipt
<1> QED
  BY <1>1, <1>5, <1>6, <1>7 DEF Writes

(* A demotion leaves the ledger, and a close is made over passing entries. *)
LEMMA OutsideIsLedgerStep ==
  ASSUME Closers = {}, Promoters = {}, IInv, Outside
  PROVE  Ledger!Next \/ UNCHANGED Ledger!vars
<1>1. ASSUME NEW r \in Repos, Demote(r) PROVE Ledger!Leave(r)
  <2>1. TypeOK /\ record \in Features
    BY DEF IInv, TypeOK
  <2>2. /\ record' = [promoted |-> record.promoted \ {r},
                      receipt |-> [record.receipt EXCEPT ![r] = None]]
        /\ r \in record.promoted /\ outcome # "integrated" /\ ~Passed(record, r)
        /\ outcome' = outcome
    BY <1>1 DEF Demote
  <2>3. Entry(r).state \in {"open", "failed"}
    BY <2>1, <2>2, EntryOf
  <2>4. Entry(r)' = Ledger!NotPromoted
    BY <2>2 DEF Entry, Ledger!NotPromoted
  <2>5. \A q \in Repos \ {r} : /\ record'.receipt[q] = record.receipt[q]
                               /\ q \in record'.promoted <=> q \in record.promoted
    BY <2>1, <2>2, FeatureFields
  <2>6. Ledger!Set(r, Ledger!NotPromoted)
    BY <2>2, <2>4, <2>5, OneEntry
  <2> QED
    BY <2>2, <2>3, <2>6 DEF Ledger!Leave
<1>2. ASSUME \A r \in Repos : ~ Demote(r) PROVE record' = record /\ outcome' = outcome
  BY <1>2 DEF Outside, ChildCommits, ParentCommits, ParentRebases, ParentResets, MoveParent,
              StartSession, StopSession, EditChecks, Unmoved
<1> QED
  BY <1>1, <1>2, SameEntries DEF Ledger!Next

(* The last write of a run is the close of the ledger.                     *)
LEMMA WriteCloseIsClose ==
  ASSUME Closers = {}, Promoters = {}, IInv, ClosesOnEvidence, NEW p \in Runs, WriteClose(p)
  PROVE  Ledger!Close
<1>1. outcome = "open" /\ AllPassed(record) /\ outcome' = "integrated" /\ record' = record
  <2>1. outcome = "open" /\ Evidenced /\ record.promoted \subseteq judged
    BY DEF WriteClose, ClosesOnEvidence, Closing
  <2> QED
    BY <2>1 DEF WriteClose, Evidenced, AllPassed
<1>2. TypeOK /\ record.promoted \subseteq Repos
  BY FeatureFields DEF IInv, TypeOK
<1>3. \A r \in Repos : Entry(r).state \in {"out", "passed"}
  BY <1>1, <1>2, EntryOf DEF AllPassed
<1>4. \E r \in Repos : Entry(r).state # "out"
  BY <1>1, <1>2, EntryOf DEF AllPassed
<1>5. \A r \in Repos : Entries[r] = Entry(r)
  BY DEF Entries
<1>6. \E r \in Repos : Entry(r) # Ledger!NotPromoted
  BY <1>4 DEF Ledger!NotPromoted
<1>7. Entries' = Entries
  BY <1>1 DEF Entries, Entry
<1> QED
  BY <1>1, <1>3, <1>5, <1>6, <1>7 DEF Ledger!Close, Entries

(* The first record is the first ledger ...                                *)
LEMMA InitIsLedgerInit ==
  ASSUME Init
  PROVE  Ledger!Init
<1>1. /\ record.promoted = Repos /\ \A r \in Repos : record.receipt[r] = None
      /\ outcome = "open"
  BY DEF Init, NoFeature
<1>2. \A r \in Repos : Entry(r) = Ledger!Unreceipted
  BY <1>1 DEF Entry, Ledger!Unreceipted
<1> QED
  BY <1>1, <1>2 DEF Ledger!Init

(* ... and every step is a step of the ledger, or a stutter.               *)
LEMMA StepIsLedgerStep ==
  ASSUME Closers = {}, Promoters = {}, IInv, ClosesOnEvidence, [Next]_vars
  PROVE  [Ledger!Next]_(Ledger!vars)
<1>1. ASSUME NEW p \in Runs, RunStep(p) \/ Stop(p) PROVE Ledger!Next \/ UNCHANGED Ledger!vars
  <2>1. CASE WriteClose(p)
    BY <2>1, WriteCloseIsClose DEF Ledger!Next
  <2>2. CASE ~ WriteClose(p)
    <3>1. Writes(p) /\ outcome' = outcome
      BY <1>1, <2>2, RunStepDone, OutcomeFrom DEF Done, Mine
    <3> QED
      BY <3>1, WrittenIsLedgerStep
  <2> QED
    BY <2>1, <2>2
<1>2. ASSUME UNCHANGED vars PROVE UNCHANGED Ledger!vars
  BY <1>2, SameEntries DEF vars
<1> QED
  BY <1>1, <1>2, OutsideIsLedgerStep DEF Next

(* integration.rs: where no close but that of the last integrate and no    *)
(* promote is at work, a reader of feature.json sees the ledger: a first   *)
(* receipt never passes, a receipt keeps its source, a passing one is      *)
(* final, and the child closes once and over passing receipts.             *)
THEOREM Refinement ==
  ASSUME Closers = {}, Promoters = {}
  PROVE  Spec => ImplementsLedger
<1>1. IInv /\ ClosesOnEvidence /\ [Next]_vars => [Ledger!Next]_(Ledger!vars)
  BY StepIsLedgerStep
<1>2. Spec => []ClosesOnEvidence
  BY ClosesInductively
<1> QED
  BY Inductive, InitIsLedgerInit, <1>1, <1>2, PTL DEF Spec, ImplementsLedger, Ledger!Spec

=============================================================================
