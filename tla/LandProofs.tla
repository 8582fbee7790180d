----------------------------- MODULE LandProofs -----------------------------
(***************************************************************************)
(* Proofs about Land: what holds of every land, whatever the number of     *)
(* landers, of repos and of commits others make meanwhile.                 *)
(*                                                                         *)
(* The argument follows a repo's branches: a commit is made once, so two   *)
(* branches share a commit only when they share their first one, and the   *)
(* feature's commits reach a default branch by a land alone.  So a land    *)
(* that is alone finds its tips nowhere at its preflight, and knows at     *)
(* every later step which repos carry them.                                *)
(***************************************************************************)
EXTENDS Land, FiniteSetTheorems, SequenceTheorems, TLAPS

-----------------------------------------------------------------------------
(* Branches.                                                               *)

(* IsPrefix, index by index.                                               *)
LEMMA PrefixAt ==
  ASSUME NEW s \in Seq(Nat), NEW t \in Seq(Nat)
  PROVE  IsPrefix(s, t) <=> Len(s) <= Len(t) /\ \A i \in 1 .. Len(s) : s[i] = t[i]
BY DEF IsPrefix

(* A branch has itself ...                                                 *)
LEMMA PrefixOfItself ==
  ASSUME NEW s \in Seq(Nat)
  PROVE  IsPrefix(s, s)
BY PrefixAt

(* ... what a prefix of it has ...                                         *)
LEMMA PrefixOfLonger ==
  ASSUME NEW s \in Seq(Nat), NEW t \in Seq(Nat), NEW u \in Seq(Nat), IsPrefix(s, t), IsPrefix(t, u)
  PROVE  IsPrefix(s, u)
<1>1. Len(s) <= Len(t) /\ \A i \in 1 .. Len(s) : s[i] = t[i]
  BY PrefixAt
<1>2. Len(t) <= Len(u) /\ \A i \in 1 .. Len(t) : t[i] = u[i]
  BY PrefixAt
<1>3. Len(s) \in Nat /\ Len(t) \in Nat /\ Len(u) \in Nat
  OBVIOUS
<1>4. Len(s) <= Len(u) /\ \A i \in 1 .. Len(s) : s[i] = u[i]
  BY <1>1, <1>2, <1>3
<1> QED
  BY <1>4, PrefixAt

(* ... and what it had before a commit.                                    *)
LEMMA PrefixOfAppended ==
  ASSUME NEW s \in Seq(Nat), NEW c \in Nat
  PROVE  Append(s, c) \in Seq(Nat) /\ IsPrefix(s, Append(s, c))
<1>0. Append(s, c) \in Seq(Nat)
  OBVIOUS
<1>1. PICK t \in Seq(Nat) : t = Append(s, c)
  BY <1>0
<1>2. Len(t) = Len(s) + 1 /\ Len(s) \in Nat /\ \A i \in 1 .. Len(s) : s[i] = t[i]
  BY <1>1
<1>3. IsPrefix(s, t)
  BY <1>2, PrefixAt
<1> QED
  BY <1>1, <1>3

(* A branch that has anything and its prefix have it in common.            *)
LEMMA PrefixShares ==
  ASSUME NEW s \in Seq(Nat), NEW t \in Seq(Nat), s # <<>>, IsPrefix(s, t)
  PROVE  Shares(s, t)
<1>1. Len(s) \in Nat \ {0} /\ Len(t) \in Nat
  BY EmptySeq
<1>2. Len(s) <= Len(t) /\ s[1] = t[1]
  BY <1>1, PrefixAt
<1> QED
  BY <1>1, <1>2 DEF Shares

(* Nothing comes to be shared by a new commit.                             *)
LEMMA AppendShares ==
  ASSUME NEW s \in Seq(Nat), NEW t \in Seq(Nat), NEW c \in Nat,
         s # <<>> => s[1] # c, ~ Shares(s, t)
  PROVE  ~ Shares(s, Append(t, c))
<1>1. CASE t = <<>>
  <2>1. Append(t, c)[1] = c
    BY <1>1
  <2> QED
    BY <2>1 DEF Shares
<1>2. CASE t # <<>>
  <2>1. Append(t, c)[1] = t[1]
    BY <1>2, EmptySeq
  <2> QED
    BY <1>2, <2>1 DEF Shares
<1> QED
  BY <1>1, <1>2

(* The bounds are numbers, and there is a repo.                            *)
LEMMA Bounds == MaxCommits \in Nat /\ MaxDeaths \in Nat /\ RepoCount \in Nat \ {0} /\ 1 \in Repos
<1>1. MaxCommits \in Nat /\ MaxDeaths \in Nat /\ RepoCount \in Nat \ {0}
  BY ONLY LandAssumption DEF LandAssumption
<1> QED
  BY <1>1 DEF Repos

(* The branches there are, as commits are made.                            *)
LEMMA MadeIsBranch ==
  ASSUME NEW n \in 0 .. MaxCommits, NEW b \in BranchOf(n)
  PROVE  /\ b \in Seq(Nat) /\ b \in Branch /\ Len(b) \in Nat
         /\ b # <<>> => b[1] \in 0 .. n
<1>1. b \in Seq(0 .. n) /\ Len(b) <= n + 1 /\ n \in Nat
  BY Bounds DEF BranchOf
<1>2. /\ Len(b) \in 0 .. MaxCommits + 1 /\ DOMAIN b = 1 .. Len(b)
      /\ \A i \in 1 .. Len(b) : b[i] \in 0 .. n
  BY <1>1, Bounds
<1>3. b \in [1 .. Len(b) -> 0 .. n]
  BY <1>1, <1>2
<1>4. 0 .. n \subseteq Commits /\ 0 .. n \subseteq Nat
  BY <1>1, Bounds DEF Commits
<1>5. b \in [1 .. Len(b) -> Commits]
  BY <1>3, <1>4
<1>6. b \in Branch
  BY <1>2, <1>5 DEF Branch
<1>7. b # <<>> => b[1] \in 0 .. n
  BY <1>1, <1>2, EmptySeq
<1> QED
  BY <1>1, <1>2, <1>4, <1>6, <1>7

LEMMA EmptyIsBranch == <<>> \in Branch
<1>1. <<>> \in BranchOf(0) /\ 0 \in 0 .. MaxCommits
  BY Bounds DEF BranchOf
<1> QED
  BY <1>1, MadeIsBranch

(* Its commits are among those made, and what they change among all that   *)
(* a longer branch changes.                                                *)
LEMMA MadeCommits ==
  ASSUME NEW n \in 0 .. MaxCommits, NEW b \in BranchOf(n)
  PROVE  ToSet(b) \subseteq 0 .. n
<1>1. b \in Seq(0 .. n)
  BY DEF BranchOf
<1> QED
  BY <1>1 DEF ToSet

LEMMA PrefixCommits ==
  ASSUME NEW s \in Seq(Nat), NEW t \in Seq(Nat), IsPrefix(s, t)
  PROVE  ToSet(s) \subseteq ToSet(t)
<1>1. Len(s) <= Len(t) /\ \A i \in 1 .. Len(s) : s[i] = t[i]
  BY PrefixAt
<1>2. Len(s) \in Nat /\ Len(t) \in Nat
  OBVIOUS
<1>3. ToSet(s) = {s[i] : i \in 1 .. Len(s)} /\ ToSet(t) = {t[i] : i \in 1 .. Len(t)}
  BY DEF ToSet
<1> QED
  BY <1>1, <1>2, <1>3

LEMMA PrefixContents ==
  ASSUME NEW s \in Seq(Nat), NEW t \in Seq(Nat), IsPrefix(s, t)
  PROVE  Contents(s) \subseteq Contents(t)
BY PrefixCommits DEF Contents, Changes

(* A branch stays one as more commits are made.                            *)
LEMMA MadeStays ==
  ASSUME NEW n \in Nat, NEW m \in Nat, m >= n, NEW b \in BranchOf(n)
  PROVE  b \in BranchOf(m)
<1>1. 0 .. n \subseteq 0 .. m
  OBVIOUS
<1>2. b \in Seq(0 .. m)
  BY <1>1 DEF BranchOf
<1>3. Len(b) <= n + 1 /\ Len(b) \in Nat
  BY DEF BranchOf
<1>4. Len(b) <= m + 1
  BY <1>3
<1> QED
  BY <1>2, <1>4 DEF BranchOf

(* A new commit lengthens a branch, or takes the place of its last one.    *)
LEMMA AppendMade ==
  ASSUME NEW n \in Nat, NEW b \in BranchOf(n)
  PROVE  /\ Append(b, n + 1) \in BranchOf(n + 1) /\ Append(b, n + 1) # <<>>
         /\ b # <<>> => Append(b, n + 1)[1] = b[1]
         /\ b = <<>> => Append(b, n + 1)[1] = n + 1
<1>1. b \in Seq(0 .. n) /\ Len(b) <= n + 1 /\ Len(b) \in Nat
  BY DEF BranchOf
<1>2. n + 1 \in 0 .. n + 1 /\ 0 .. n \subseteq 0 .. n + 1
  OBVIOUS
<1>3. b \in Seq(0 .. n + 1)
  BY <1>1, <1>2
<1>4. Append(b, n + 1) \in Seq(0 .. n + 1) /\ Len(Append(b, n + 1)) = Len(b) + 1
  BY <1>2, <1>3
<1>5. Len(b) + 1 <= n + 1 + 1
  BY <1>1
<1>6. Append(b, n + 1) \in BranchOf(n + 1)
  BY <1>4, <1>5 DEF BranchOf
<1>7. Append(b, n + 1) # <<>>
  BY <1>1, <1>4, EmptySeq
<1>8. b # <<>> => Append(b, n + 1)[1] = b[1]
  BY <1>2, <1>3, EmptySeq
<1>9. b = <<>> => Append(b, n + 1)[1] = n + 1
  OBVIOUS
<1> QED
  BY <1>6, <1>7, <1>8, <1>9

(* An amended branch keeps its first commit, if that was not its last one. *)
LEMMA FrontMade ==
  ASSUME NEW m \in Nat, NEW b \in BranchOf(m), b # <<>>
  PROVE  Front(b) \in BranchOf(m) /\ (Front(b) # <<>> => Front(b)[1] = b[1])
<1>1. b \in Seq(0 .. m) /\ Len(b) <= m + 1 /\ Len(b) \in Nat /\ Len(b) # 0
  BY EmptySeq DEF BranchOf
<1>2. /\ Front(b) \in Seq(0 .. m) /\ Len(Front(b)) = Len(b) - 1
      /\ \A i \in 1 .. Len(b) - 1 : Front(b)[i] = b[i]
  <2>1. PICK n \in Nat : n = Len(b) - 1
    BY <1>1
  <2>2. \A i \in 1 .. n : b[i] \in 0 .. m
    BY <1>1, <2>1
  <2>3. /\ SubSeq(b, 1, n) \in Seq(0 .. m)
        /\ Len(SubSeq(b, 1, n)) = IF 1 <= n THEN n - 1 + 1 ELSE 0
        /\ \A i \in 1 .. n - 1 + 1 : SubSeq(b, 1, n)[i] = b[1 + i - 1]
    BY <2>2, SubSeqProperties
  <2> QED
    BY <2>1, <2>3 DEF Front
<1>3. Front(b) \in BranchOf(m)
  BY <1>1, <1>2 DEF BranchOf
<1>4. Front(b) # <<>> => Front(b)[1] = b[1]
  BY <1>1, <1>2, EmptySeq
<1> QED
  BY <1>3, <1>4

(* No more commits can be pending than were made.                          *)
LEMMA PendingBounded ==
  ASSUME TypeOK, BranchesMade, NEW r \in Repos
  PROVE  Fingerprint(r) \in [pending : 0 .. MaxCommits + 1, remote : Branch]
<1> DEFINE S == ToSet(feature[r]) \ ToSet(default[r])
<1>1. made \in 0 .. MaxCommits /\ made \in Nat /\ feature[r] \in Seq(0 .. made) /\ remote[r] \in Branch
  BY Bounds DEF TypeOK, BranchesMade, BranchOf
<1>2. S \subseteq 0 .. made
  BY <1>1 DEF ToSet
<1>3. IsFiniteSet(0 .. made) /\ Cardinality(0 .. made) = made + 1
  BY <1>1, FS_Interval
<1>4. Cardinality(S) \in Nat /\ Cardinality(S) <= made + 1
  BY <1>2, <1>3, FS_Subset, FS_CardinalityType
<1>5. Cardinality(S) \in 0 .. MaxCommits + 1
  BY <1>1, <1>4, Bounds
<1> QED
  BY <1>1, <1>5 DEF Fingerprint

-----------------------------------------------------------------------------
(* Everybody else.                                                         *)

(* What IInv says of the branches.                                         *)
LEMMA BranchFacts ==
  ASSUME IInv, NEW r \in Repos
  PROVE  /\ made \in 0 .. MaxCommits /\ made \in Nat
         /\ feature[r] \in BranchOf(made) /\ default[r] \in BranchOf(made) /\ remote[r] \in BranchOf(made)
         /\ feature[r] # <<>>
         /\ feature[r] \in Seq(Nat) /\ default[r] \in Seq(Nat) /\ remote[r] \in Seq(Nat)
<1>1. made \in 0 .. MaxCommits /\ made \in Nat
  BY Bounds DEF IInv, TypeOK
<1>2. feature[r] \in BranchOf(made) /\ default[r] \in BranchOf(made) /\ remote[r] \in BranchOf(made)
      /\ feature[r] # <<>>
  BY DEF IInv, BranchesMade
<1> QED
  BY <1>1, <1>2, MadeIsBranch

(* The default branch of r has what the branch t changes, and will have it *)
(* after the pull under way.                                               *)
Kept(t, r) ==
  /\ Contents(t) \subseteq Contents(default[r])
  /\ resolving[r] # NoLook => Contents(t) \subseteq Contents(resolving[r].tip)

(* A step of somebody else: nothing a land relies on comes from it but     *)
(* what was on the remote already.                                         *)
LEMMA WorldStep ==
  ASSUME IInv, UNCHANGED <<land, deaths>>, made' \in 0 .. MaxCommits, made' >= made,
         feature' \in [Repos -> BranchOf(made')], default' \in [Repos -> BranchOf(made')],
         remote' \in [Repos -> BranchOf(made')], dirty' \in [Repos -> BOOLEAN],
         patch' \in [Commits -> SUBSET Commits],
         resolving' \in [Repos -> [head : Branch, tip : Branch]],
         \A r \in Repos :
           /\ feature'[r] # <<>>
           /\ \A t \in BranchOf(made) :
                /\ ~ Shares(t, default[r]) /\ ~ Shares(t, remote[r]) => ~ Shares(t, default'[r])
                /\ ~ Shares(t, remote[r]) => ~ Shares(t, remote'[r])
           /\ ~ Shares(feature[r], default[r]) /\ ~ Shares(feature[r], remote[r])
                => ~ Shares(feature'[r], default'[r]) /\ ~ Shares(feature'[r], remote'[r])
           /\ Looked(r)'
           /\ \A t \in BranchOf(made) : Kept(t, r) => Kept(t, r)'
  PROVE  IInv'
<1>1. made \in Nat /\ made' \in Nat /\ made \in 0 .. MaxCommits
  BY Bounds DEF IInv, TypeOK
<1>2. \A b \in BranchOf(made') : b \in Branch /\ b \in Seq(Nat)
  BY MadeIsBranch
<1>3. \A b \in BranchOf(made) : b \in BranchOf(made') /\ b \in Seq(Nat)
  BY <1>1, MadeStays, MadeIsBranch
<1>4. TypeOK'
  BY <1>2 DEF IInv, TypeOK, Lands
<1>5. BranchesMade'
  BY <1>3 DEF IInv, BranchesMade
<1>6. NothingLanded'
  BY DEF IInv, NothingLanded
<1>7. TipsAreOwn'
  <2> SUFFICES ASSUME NEW p \in Landers, Alone(p), land[p].plan # NoPlan, NEW r \in Repos
               PROVE  TipIsOwn(land[p], r, default'[r], remote'[r])
    BY DEF TipsAreOwn, Alone
  <2> DEFINE l == land[p]  tip == l.plan[r].tip
  <2>1. TipIsOwn(l, r, default[r], remote[r])
    BY DEF IInv, TipsAreOwn
  <2>2. tip \in BranchOf(made) /\ tip \in Seq(Nat)
    BY <1>3 DEF IInv, BranchesMade
  <2>4. l.pc = "push" \/ l.verdict \in {"landed", "died"} => MayBeMerged(l, r)
    BY DEF MayBeMerged, Merged
  <2>5. /\ ~ Shares(tip, default[r]) /\ ~ Shares(tip, remote[r]) => ~ Shares(tip, default'[r])
        /\ ~ Shares(tip, remote[r]) => ~ Shares(tip, remote'[r])
    BY <2>2
  <2>6. /\ l.plan[r].original = <<>>
        /\ ~ MayBeMerged(l, r) => ~ Shares(tip, default[r])
        /\ l.pc # "push" /\ l.verdict \notin {"landed", "died"} => ~ Shares(tip, remote[r])
    BY <2>1 DEF TipIsOwn
  <2> HIDE DEF l, tip
  <2>7. /\ l.plan[r].original = <<>>
        /\ ~ MayBeMerged(l, r) => ~ Shares(tip, default'[r])
        /\ l.pc # "push" /\ l.verdict \notin {"landed", "died"} => ~ Shares(tip, remote'[r])
    BY <2>4, <2>5, <2>6
  <2> QED
    BY <2>7 DEF TipIsOwn, tip, l
<1>8. MergesKept'
  <2> SUFFICES ASSUME NEW p \in Landers, Alone(p), land[p].plan # NoPlan, NEW r \in Repos,
                      Merged(land[p], r)
               PROVE  Kept(land[p].plan[r].tip, r)'
    BY DEF MergesKept, Alone, Kept
  <2>1. PICK t \in BranchOf(made) : t = land[p].plan[r].tip
    BY DEF IInv, BranchesMade
  <2>2. Kept(t, r)
    BY <2>1 DEF IInv, MergesKept, Kept
  <2>3. Kept(t, r)'
    BY <2>2
  <2> QED
    BY <2>1, <2>3
<1> QED
  BY <1>4, <1>5, <1>6, <1>7, <1>8 DEF IInv

(* Most such steps leave what a commit changes, and what a pull has looked *)
(* at, and take the branches forward.                                      *)
LEMMA WorldGoesOn ==
  ASSUME IInv, UNCHANGED <<land, resolving>>, made' \in 0 .. MaxCommits, made' >= made,
         \A c \in 0 .. made : patch'[c] = patch[c],
         NEW r \in Repos, default'[r] \in Seq(Nat), remote'[r] \in Seq(Nat),
         IsPrefix(default[r], default'[r]), IsPrefix(remote[r], remote'[r])
  PROVE  /\ Looked(r)'
         /\ \A t \in BranchOf(made) : Kept(t, r) => Kept(t, r)'
<1>0. made \in Nat /\ made' \in Nat /\ made \in 0 .. MaxCommits
  BY Bounds DEF IInv, TypeOK
<1>1. \A b \in BranchOf(made) : Contents(b)' = Contents(b)
  <2> SUFFICES ASSUME NEW b \in BranchOf(made) PROVE Contents(b)' = Contents(b)
    OBVIOUS
  <2>1. ToSet(b) \subseteq 0 .. made
    BY <1>0, MadeCommits
  <2>2. \A c \in ToSet(b) : patch'[c] = patch[c]
    BY <2>1
  <2>3. UNION {patch'[c] : c \in ToSet(b)} = UNION {patch[c] : c \in ToSet(b)}
    BY <2>2
  <2> QED
    BY <2>3 DEF Contents, Changes
<1>2. default[r] \in BranchOf(made) /\ default[r] \in Seq(Nat) /\ remote[r] \in Seq(Nat)
  BY BranchFacts
<1>3. Contents(default[r]) \subseteq Contents(default[r])'
  <2>1. PICK b \in BranchOf(made) : b = default[r]
    BY <1>2
  <2>2. PICK c \in Seq(Nat) : c = default'[r]
    OBVIOUS
  <2>3. IsPrefix(b, c)
    BY <2>1, <2>2
  <2>4. Contents(b)' = Contents(b)
    BY <1>1
  <2>5. ToSet(b) \subseteq ToSet(c)
    BY <1>2, <2>1, <2>2, <2>3, PrefixCommits
  <2>6. UNION {patch'[d] : d \in ToSet(b)} \subseteq UNION {patch'[d] : d \in ToSet(c)}
    BY <2>5
  <2> QED
    BY <2>1, <2>2, <2>4, <2>6 DEF Contents, Changes
<1>4. CASE resolving[r] = NoLook
  <2>1. Looked(r)'
    BY <1>4 DEF Looked
  <2>2. ASSUME NEW t \in BranchOf(made), Kept(t, r) PROVE Kept(t, r)'
    BY <1>1, <1>3, <1>4, <2>2 DEF Kept
  <2> QED
    BY <2>1, <2>2
<1>5. CASE resolving[r] # NoLook
  <2>1. /\ resolving[r].head \in BranchOf(made) /\ resolving[r].tip \in BranchOf(made)
        /\ resolving[r].tip # <<>> /\ IsPrefix(resolving[r].tip, remote[r])
        /\ Contents(resolving[r].head) \subseteq Contents(resolving[r].tip)
        /\ \/ default[r] # <<>>
           \/ \E p \in Landers : land[p].plan # NoPlan /\ land[p].pc \in {"rollback", "done"}
    BY <1>5 DEF IInv, Looked
  <2>2. PICK h \in BranchOf(made), m \in BranchOf(made) : h = resolving[r].head /\ m = resolving[r].tip
    BY <2>1
  <2>3. Contents(h)' = Contents(h) /\ Contents(m)' = Contents(m)
    BY <1>1
  <2>4. h \in BranchOf(made') /\ m \in BranchOf(made') /\ m \in Seq(Nat)
    BY <1>0, MadeStays, MadeIsBranch
  <2>5. IsPrefix(m, remote'[r])
    BY <1>2, <2>1, <2>2, <2>4, PrefixOfLonger
  <2>6. default[r] # <<>> => default'[r] # <<>>
    BY <1>2, PrefixShares DEF Shares
  <2>7. Looked(r)'
    BY <2>1, <2>2, <2>3, <2>4, <2>5, <2>6 DEF Looked
  <2>8. ASSUME NEW t \in BranchOf(made), Kept(t, r) PROVE Kept(t, r)'
    BY <1>1, <1>3, <2>2, <2>3, <2>8 DEF Kept
  <2> QED
    BY <2>7, <2>8
<1> QED
  BY <1>4, <1>5

(* A new commit on one branch of a repo.                                   *)
LEMMA Commit ==
  ASSUME IInv, Works
  PROVE  /\ made' = made + 1 /\ made \in Nat /\ made' \in 0 .. MaxCommits /\ NewCommit = made + 1
         /\ UNCHANGED <<land, deaths>>
  BY Bounds DEF IInv, TypeOK, Works, NewCommit

(* A commit in the worktree of the feature, or an amended one.             *)
LEMMA FeatureCommitsInv ==
  ASSUME IInv, NEW r \in Repos, FeatureCommits(r) \/ FeatureAmends(r)
  PROVE  IInv'
<1>1. PICK b \in {feature[r], Front(feature[r])} :
        /\ feature' = [feature EXCEPT ![r] = Append(b, made + 1)]
        /\ Works /\ UNCHANGED <<default, remote, dirty, patch>>
  BY DEF FeatureCommits, FeatureAmends, NewCommit
<1>2. /\ made' = made + 1 /\ made \in Nat /\ made' \in 0 .. MaxCommits
      /\ UNCHANGED <<land, deaths>>
  BY <1>1, Commit
<1>3. b \in BranchOf(made) /\ (b # <<>> => b[1] = feature[r][1])
  BY <1>1, <1>2, BranchFacts, FrontMade
<1>4. PICK c \in BranchOf(made') : /\ c = Append(b, made + 1) /\ c # <<>>
                                  /\ c[1] \in {feature[r][1], made + 1}
  <2>1. /\ Append(b, made + 1) \in BranchOf(made + 1) /\ Append(b, made + 1) # <<>>
        /\ Append(b, made + 1)[1] \in {b[1], made + 1} /\ (b = <<>> => Append(b, made + 1)[1] = made + 1)
    BY <1>2, <1>3, AppendMade
  <2> QED
    BY <1>2, <1>3, <2>1
<1>5. /\ \A q \in Repos : feature'[q] = IF q = r THEN c ELSE feature[q]
      /\ DOMAIN feature' = Repos
  BY <1>1, <1>4 DEF IInv, TypeOK
<1>6. \A q \in Repos : /\ feature[q] \in BranchOf(made') /\ default[q] \in BranchOf(made')
                        /\ remote[q] \in BranchOf(made') /\ feature[q] # <<>>
                        /\ default[q] \in Seq(Nat)
  BY <1>2, BranchFacts, MadeStays
<1>7. /\ feature' \in [Repos -> BranchOf(made')] /\ default' \in [Repos -> BranchOf(made')]
      /\ remote' \in [Repos -> BranchOf(made')] /\ dirty' \in [Repos -> BOOLEAN]
  BY <1>1, <1>5, <1>6 DEF IInv, TypeOK
<1>8. ASSUME NEW q \in Repos, ~ Shares(feature[q], default[q]), ~ Shares(feature[q], remote[q])
      PROVE  ~ Shares(feature'[q], default[q]) /\ ~ Shares(feature'[q], remote[q])
  <2>1. /\ default[q] # <<>> => default[q][1] \in 0 .. made
        /\ remote[q] # <<>> => remote[q][1] \in 0 .. made
    BY BranchFacts, MadeIsBranch
  <2>2. /\ default[q] # <<>> => default[q][1] # made + 1
        /\ remote[q] # <<>> => remote[q][1] # made + 1
    BY <1>2, <2>1
  <2> QED
    BY <1>4, <1>5, <1>6, <1>8, <2>2 DEF Shares
<1>9. /\ patch' \in [Commits -> SUBSET Commits]
      /\ resolving' \in [Repos -> [head : Branch, tip : Branch]]
  BY <1>1 DEF IInv, TypeOK, Works
<1>10. ASSUME NEW q \in Repos
       PROVE  /\ Looked(q)'
              /\ \A t \in BranchOf(made) : Kept(t, q) => Kept(t, q)'
  <2>1. /\ UNCHANGED <<land, resolving, default, remote, patch>> /\ made' \in 0 .. MaxCommits
        /\ made' >= made /\ default[q] \in Seq(Nat) /\ remote[q] \in Seq(Nat)
    BY <1>1, <1>2, BranchFacts DEF Works
  <2>2. IsPrefix(default[q], default'[q]) /\ IsPrefix(remote[q], remote'[q])
    BY <2>1, PrefixOfItself
  <2> QED
    BY <2>1, <2>2, WorldGoesOn
<1> QED
  BY <1>1, <1>2, <1>4, <1>5, <1>6, <1>7, <1>8, <1>9, <1>10, WorldStep

(* Somebody else's push has changes of its own, or ones made before.       *)
LEMMA RelandedChanges ==
  ASSUME IInv, NEW r \in Repos, RemoteMoves(r)
  PROVE  /\ patch' \in [Commits -> SUBSET Commits]
         /\ \A c \in 0 .. made : patch'[c] = patch[c]
<1>1. PICK relanded \in SUBSET (ToSet(feature[r]) \cup ToSet(default[r])) :
        patch' = IF relanded = {} THEN patch ELSE [patch EXCEPT ![made + 1] = Changes(relanded)]
  BY DEF RemoteMoves, NewCommit
<1>2. made \in Nat /\ made \in 0 .. MaxCommits /\ patch \in [Commits -> SUBSET Commits]
  BY Bounds DEF IInv, TypeOK
<1>3. relanded \subseteq Commits
  <2>1. ToSet(feature[r]) \subseteq 0 .. made /\ ToSet(default[r]) \subseteq 0 .. made
    BY BranchFacts, MadeCommits
  <2> QED
    BY <1>2, <2>1, Bounds DEF Commits
<1>4. Changes(relanded) \subseteq Commits
  BY <1>2, <1>3 DEF Changes
<1>5. patch' \in [Commits -> SUBSET Commits]
  BY <1>1, <1>2, <1>4
<1>6. \A c \in 0 .. made : c \in Commits /\ c # made + 1
  BY <1>2, Bounds DEF Commits
<1> QED
  BY <1>1, <1>2, <1>5, <1>6

(* A new commit on the remote's branch, or on the local one.               *)
LEMMA RemoteMovesInv ==
  ASSUME IInv, NEW r \in Repos, RemoteMoves(r) \/ CommitsOnDefault(r)
  PROVE  IInv'
<1>1. /\ Works /\ UNCHANGED <<feature, dirty>>
      /\ \/ remote' = [remote EXCEPT ![r] = Append(@, made + 1)] /\ UNCHANGED default
         \/ default' = [default EXCEPT ![r] = Append(@, made + 1)] /\ UNCHANGED remote
  BY DEF RemoteMoves, CommitsOnDefault, NewCommit
<1>2. /\ made' = made + 1 /\ made \in Nat /\ made' \in 0 .. MaxCommits
      /\ UNCHANGED <<land, deaths>>
  BY <1>1, Commit
<1>3. \A q \in Repos : /\ default'[q] \in {default[q], Append(default[q], made + 1)}
                        /\ remote'[q] \in {remote[q], Append(remote[q], made + 1)}
  BY <1>1 DEF IInv, TypeOK
<1>4. DOMAIN default' = Repos /\ DOMAIN remote' = Repos
  BY <1>1 DEF IInv, TypeOK
<1>5. ASSUME NEW q \in Repos
      PROVE  /\ feature[q] \in BranchOf(made') /\ default'[q] \in BranchOf(made')
             /\ remote'[q] \in BranchOf(made') /\ feature[q] # <<>> /\ feature[q] \in BranchOf(made)
  <2>1. /\ feature[q] \in BranchOf(made + 1) /\ default[q] \in BranchOf(made + 1)
        /\ remote[q] \in BranchOf(made + 1) /\ feature[q] # <<>> /\ feature[q] \in BranchOf(made)
    <3>1. PICK n \in Nat : n = made + 1 /\ n >= made
      BY <1>2
    <3>2. /\ feature[q] \in BranchOf(made) /\ default[q] \in BranchOf(made)
          /\ remote[q] \in BranchOf(made) /\ feature[q] # <<>>
      BY BranchFacts
    <3>3. /\ feature[q] \in BranchOf(n) /\ default[q] \in BranchOf(n) /\ remote[q] \in BranchOf(n)
      BY <1>2, <3>1, <3>2, MadeStays
    <3> QED
      BY <3>1, <3>2, <3>3
  <2>2. Append(default[q], made + 1) \in BranchOf(made + 1)
        /\ Append(remote[q], made + 1) \in BranchOf(made + 1)
    BY <1>2, BranchFacts, AppendMade
  <2> QED
    BY <1>2, <1>3, <2>1, <2>2
<1>6. /\ feature' \in [Repos -> BranchOf(made')] /\ default' \in [Repos -> BranchOf(made')]
      /\ remote' \in [Repos -> BranchOf(made')] /\ dirty' \in [Repos -> BOOLEAN]
  BY <1>1, <1>4, <1>5 DEF IInv, TypeOK
<1>7. ASSUME NEW q \in Repos, NEW t \in BranchOf(made)
      PROVE  /\ ~ Shares(t, default[q]) => ~ Shares(t, default'[q])
             /\ ~ Shares(t, remote[q]) => ~ Shares(t, remote'[q])
  <2>1. t \in Seq(Nat) /\ (t # <<>> => t[1] # made + 1)
    BY <1>2, MadeIsBranch, BranchFacts
  <2>2. default[q] \in Seq(Nat) /\ remote[q] \in Seq(Nat) /\ made + 1 \in Nat
    BY <1>2, BranchFacts
  <2>3. /\ ~ Shares(t, default[q]) => ~ Shares(t, Append(default[q], made + 1))
        /\ ~ Shares(t, remote[q]) => ~ Shares(t, Append(remote[q], made + 1))
    BY <2>1, <2>2, AppendShares
  <2> QED
    BY <1>3, <2>3
<1>8. /\ patch' \in [Commits -> SUBSET Commits]
      /\ resolving' \in [Repos -> [head : Branch, tip : Branch]]
  <2>1. CASE UNCHANGED patch
    BY <1>1, <2>1 DEF IInv, TypeOK, Works
  <2>2. CASE RemoteMoves(r)
    BY <1>1, <2>2, RelandedChanges DEF IInv, TypeOK, Works
  <2> QED
    BY <2>1, <2>2 DEF CommitsOnDefault
<1>9. ASSUME NEW q \in Repos
      PROVE  /\ Looked(q)'
             /\ \A t \in BranchOf(made) : Kept(t, q) => Kept(t, q)'
  <2>1. /\ UNCHANGED <<land, resolving>> /\ made' \in 0 .. MaxCommits /\ made' >= made
        /\ default[q] \in Seq(Nat) /\ remote[q] \in Seq(Nat) /\ made + 1 \in Nat
    BY <1>1, <1>2, BranchFacts DEF Works
  <2>2. IsPrefix(default[q], default'[q]) /\ IsPrefix(remote[q], remote'[q])
    <3>1. /\ IsPrefix(default[q], Append(default[q], made + 1)) /\ IsPrefix(default[q], default[q])
          /\ IsPrefix(remote[q], Append(remote[q], made + 1)) /\ IsPrefix(remote[q], remote[q])
      BY <2>1, PrefixOfAppended, PrefixOfItself
    <3> QED
      BY <1>3, <3>1
  <2>3. default'[q] \in Seq(Nat) /\ remote'[q] \in Seq(Nat)
    BY <1>2, <1>5, MadeIsBranch
  <2>4. \A c \in 0 .. made : patch'[c] = patch[c]
    BY RelandedChanges DEF CommitsOnDefault
  <2> QED
    BY <2>1, <2>2, <2>3, <2>4, WorldGoesOn
<1> QED
  BY <1>1, <1>2, <1>5, <1>6, <1>7, <1>8, <1>9, WorldStep

(* repo pull fast-forwards the local branch to the remote's.               *)
LEMMA PullInv ==
  ASSUME IInv, NEW r \in Repos, Pull(r)
  PROVE  IInv'
<1>1. /\ IsPrefix(default[r], remote[r]) /\ default' = [default EXCEPT ![r] = remote[r]]
      /\ UNCHANGED <<feature, remote, dirty, others, land, made, deaths>>
  BY DEF Pull, IsStrictPrefix
<1>2. \A q \in Repos : default'[q] = IF q = r THEN remote[q] ELSE default[q]
  BY <1>1 DEF IInv, TypeOK
<1>3. /\ feature' \in [Repos -> BranchOf(made')] /\ default' \in [Repos -> BranchOf(made')]
      /\ remote' \in [Repos -> BranchOf(made')] /\ dirty' \in [Repos -> BOOLEAN]
  BY <1>1, BranchFacts DEF IInv, TypeOK
<1>4. made' \in 0 .. MaxCommits /\ made' >= made
  BY <1>1 DEF IInv, TypeOK
<1>5. /\ \A q \in Repos : feature[q] # <<>>
      /\ patch' \in [Commits -> SUBSET Commits]
      /\ resolving' \in [Repos -> [head : Branch, tip : Branch]]
  BY <1>1, BranchFacts DEF IInv, TypeOK, others
<1>6. ASSUME NEW q \in Repos
      PROVE  /\ Looked(q)'
             /\ \A t \in BranchOf(made) : Kept(t, q) => Kept(t, q)'
  <2>1. /\ UNCHANGED <<land, resolving, patch>> /\ default[q] \in Seq(Nat) /\ remote[q] \in Seq(Nat)
    BY <1>1, BranchFacts DEF others
  <2>2. IsPrefix(default[q], default'[q]) /\ IsPrefix(remote[q], remote'[q]) /\ default'[q] \in Seq(Nat)
    BY <1>1, <1>2, <2>1, PrefixOfItself
  <2> QED
    BY <1>1, <1>4, <2>1, <2>2, WorldGoesOn
<1> QED
  BY <1>1, <1>2, <1>3, <1>4, <1>5, <1>6, WorldStep

(* An edit of the default worktree touches no branch.                      *)
LEMMA EditsDefaultInv ==
  ASSUME IInv, NEW r \in Repos, EditsDefault(r)
  PROVE  IInv'
<1>1. /\ dirty' = [dirty EXCEPT ![r] = ~ @]
      /\ UNCHANGED <<feature, default, remote, others, land, made, deaths>>
  BY DEF EditsDefault
<1>2. dirty' \in [Repos -> BOOLEAN]
  BY <1>1 DEF IInv, TypeOK
<1>3. /\ feature' \in [Repos -> BranchOf(made')] /\ default' \in [Repos -> BranchOf(made')]
      /\ remote' \in [Repos -> BranchOf(made')]
  BY <1>1, BranchFacts DEF IInv, TypeOK
<1>4. made' \in 0 .. MaxCommits /\ made' >= made
  BY <1>1 DEF IInv, TypeOK
<1>5. /\ \A q \in Repos : feature[q] # <<>>
      /\ patch' \in [Commits -> SUBSET Commits]
      /\ resolving' \in [Repos -> [head : Branch, tip : Branch]]
  BY <1>1, BranchFacts DEF IInv, TypeOK, others
<1>6. ASSUME NEW q \in Repos
      PROVE  /\ Looked(q)'
             /\ \A t \in BranchOf(made) : Kept(t, q) => Kept(t, q)'
  <2>1. /\ UNCHANGED <<land, resolving, patch>> /\ default[q] \in Seq(Nat) /\ remote[q] \in Seq(Nat)
    BY <1>1, BranchFacts DEF others
  <2>2. IsPrefix(default[q], default'[q]) /\ IsPrefix(remote[q], remote'[q])
    BY <1>1, <2>1, PrefixOfItself
  <2> QED
    BY <1>1, <1>4, <2>1, <2>2, WorldGoesOn
<1> QED
  BY <1>1, <1>2, <1>3, <1>4, <1>5, <1>6, WorldStep

(* repo pull --resolve has found on the remote all that the branch changes *)
LEMMA RelandedIsThere ==
  ASSUME NEW b \in Seq(Nat), NEW m \in Seq(Nat), Relanded(b, m)
  PROVE  b # <<>> /\ m # <<>> /\ Contents(b) \subseteq Contents(m)
<1> DEFINE local == ToSet(b) \ ToSet(m)  new == ToSet(m) \ ToSet(b)
<1>1. /\ local # {}
      /\ \/ \E c \in new : patch[c] = Changes(local)
         \/ \A d \in local : \E c \in new : patch[c] = patch[d]
  BY DEF Relanded
<1>2. \E c \in new : TRUE
  BY <1>1
<1>3. b # <<>> /\ m # <<>>
  BY <1>1, <1>2 DEF ToSet
<1>4. ToSet(b) \subseteq local \cup ToSet(m) /\ new \subseteq ToSet(m)
  OBVIOUS
<1> HIDE DEF local, new
<1>5. Changes(local) \subseteq Changes(ToSet(m))
  BY <1>1, <1>4 DEF Changes
<1>6. Changes(ToSet(b)) \subseteq Changes(local) \cup Changes(ToSet(m))
  BY <1>4 DEF Changes
<1> QED
  BY <1>3, <1>5, <1>6 DEF Contents

(* ... and notes the two as it finds them,                                 *)
LEMMA ResolveLooksInv ==
  ASSUME IInv, NEW r \in Repos, ResolveLooks(r)
  PROVE  IInv'
<1>1. /\ Relanded(default[r], remote[r])
      /\ resolving' = [resolving EXCEPT ![r] = [head |-> default[r], tip |-> remote[r]]]
      /\ UNCHANGED <<feature, default, remote, dirty, patch, land, made, deaths>>
  BY DEF ResolveLooks
<1>2. /\ default[r] # <<>> /\ remote[r] # <<>>
      /\ Contents(default[r]) \subseteq Contents(remote[r])
  BY <1>1, BranchFacts, RelandedIsThere
<1>3. \A q \in Repos : resolving'[q] = IF q = r THEN [head |-> default[r], tip |-> remote[r]] ELSE resolving[q]
  BY <1>1 DEF IInv, TypeOK
<1>4. /\ feature' \in [Repos -> BranchOf(made')] /\ default' \in [Repos -> BranchOf(made')]
      /\ remote' \in [Repos -> BranchOf(made')] /\ dirty' \in [Repos -> BOOLEAN]
      /\ patch' \in [Commits -> SUBSET Commits]
  BY <1>1, BranchFacts DEF IInv, TypeOK
<1>5. resolving' \in [Repos -> [head : Branch, tip : Branch]]
  <2>1. default[r] \in Branch /\ remote[r] \in Branch /\ resolving \in [Repos -> [head : Branch, tip : Branch]]
    BY DEF IInv, TypeOK
  <2> QED
    BY <1>1, <2>1
<1>6. made' \in 0 .. MaxCommits /\ made' >= made /\ \A q \in Repos : feature'[q] # <<>>
  BY <1>1, BranchFacts DEF IInv, TypeOK
<1>7. ASSUME NEW q \in Repos PROVE Looked(q)'
  <2>1. CASE q = r
    <3>1. /\ {default[r], remote[r]} \subseteq BranchOf(made) /\ IsPrefix(remote[r], remote[r])
      BY BranchFacts, PrefixOfItself
    <3>2. resolving'[q].head = default[r] /\ resolving'[q].tip = remote[r]
      BY <1>3, <2>1
    <3> QED
      BY <1>1, <1>2, <2>1, <3>1, <3>2 DEF Looked, Contents, Changes
  <2>2. CASE q # r
    <3>1. resolving'[q] = resolving[q] /\ Looked(q)
      BY <1>3, <2>2 DEF IInv
    <3> QED
      BY <1>1, <3>1 DEF Looked, Contents, Changes
  <2> QED
    BY <2>1, <2>2
<1>8. ASSUME NEW q \in Repos, NEW t \in BranchOf(made), Kept(t, q) PROVE Kept(t, q)'
  <2>1. CASE q = r
    <3>1. resolving'[q].tip = remote[r]
      BY <1>3, <2>1
    <3> QED
      BY <1>1, <1>2, <1>8, <2>1, <3>1 DEF Kept, Contents, Changes
  <2>2. CASE q # r
    <3>1. resolving'[q] = resolving[q]
      BY <1>3, <2>2
    <3> QED
      BY <1>1, <1>8, <3>1 DEF Kept, Contents, Changes
  <2> QED
    BY <2>1, <2>2
<1> QED
  BY <1>1, <1>4, <1>5, <1>6, <1>7, <1>8, WorldStep

(* ... so the reset loses no change of what it has looked at.              *)
LEMMA ResolveResetsInv ==
  ASSUME IInv, NEW r \in Repos, ResolveResets(r)
  PROVE  IInv'
<1>1. /\ resolving[r] # NoLook /\ resolving' = [resolving EXCEPT ![r] = NoLook]
      /\ UNCHANGED <<feature, remote, patch, land, made, deaths>>
      /\ \/ \E m \in {resolving[r].tip, remote[r]} :
              default' = [default EXCEPT ![r] = m] /\ dirty' = [dirty EXCEPT ![r] = FALSE]
         \/ UNCHANGED <<default, dirty>>
  BY DEF ResolveResets
<1>2. /\ resolving[r].tip \in BranchOf(made) /\ resolving[r].tip # <<>>
      /\ IsPrefix(resolving[r].tip, remote[r])
  BY <1>1 DEF IInv, Looked
<1>3. PICK m \in BranchOf(made) :
        /\ m \in {resolving[r].tip, remote[r]}
        /\ \/ default' = [default EXCEPT ![r] = m] /\ dirty' = [dirty EXCEPT ![r] = FALSE]
           \/ UNCHANGED <<default, dirty>>
  <2>1. CASE \E m \in {resolving[r].tip, remote[r]} :
               default' = [default EXCEPT ![r] = m] /\ dirty' = [dirty EXCEPT ![r] = FALSE]
    BY <1>2, <2>1, BranchFacts
  <2>2. CASE UNCHANGED <<default, dirty>>
    BY <2>2, BranchFacts
  <2> QED
    BY <1>1, <2>1, <2>2
<1>4. /\ resolving[r].tip \in Seq(Nat) /\ remote[r] \in Seq(Nat) /\ m \in Seq(Nat)
      /\ made \in 0 .. MaxCommits
  BY <1>2, BranchFacts, MadeIsBranch
<1>5. IsPrefix(resolving[r].tip, m) /\ IsPrefix(m, remote[r])
  BY <1>2, <1>3, <1>4, PrefixOfItself
<1>6. m # <<>> /\ m[1] = remote[r][1] /\ remote[r] # <<>>
  <2>1. Shares(resolving[r].tip, m) /\ Shares(resolving[r].tip, remote[r])
    BY <1>2, <1>4, <1>5, PrefixShares
  <2> QED
    BY <2>1 DEF Shares
<1>7. /\ \A q \in Repos : q # r => resolving'[q] = resolving[q] /\ default'[q] = default[q]
      /\ resolving'[r] = NoLook
      /\ default'[r] \in {default[r], m}
  <2>1. DOMAIN default = Repos /\ DOMAIN resolving = Repos
    BY DEF IInv, TypeOK
  <2>2. /\ \A q \in Repos : q # r => resolving'[q] = resolving[q]
        /\ resolving'[r] = NoLook
    BY <1>1, <2>1
  <2>3. /\ \A q \in Repos : q # r => default'[q] = default[q]
        /\ default'[r] \in {default[r], m}
    BY <1>3, <2>1
  <2> QED
    BY <2>2, <2>3
<1>8. /\ feature' \in [Repos -> BranchOf(made')] /\ default' \in [Repos -> BranchOf(made')]
      /\ remote' \in [Repos -> BranchOf(made')] /\ dirty' \in [Repos -> BOOLEAN]
      /\ patch' \in [Commits -> SUBSET Commits]
  BY <1>1, <1>3, BranchFacts DEF IInv, TypeOK
<1>9. resolving' \in [Repos -> [head : Branch, tip : Branch]]
  <2>1. <<>> \in Branch /\ resolving \in [Repos -> [head : Branch, tip : Branch]]
    BY <1>4, EmptyIsBranch DEF IInv, TypeOK
  <2> QED
    BY <1>1, <2>1 DEF NoLook
<1>10. made' \in 0 .. MaxCommits /\ made' >= made /\ \A q \in Repos : feature'[q] # <<>>
  BY <1>1, BranchFacts DEF IInv, TypeOK
<1>11. ASSUME NEW q \in Repos, NEW t, ~ Shares(t, default[q]), ~ Shares(t, remote[q])
       PROVE  ~ Shares(t, default'[q])
  <2>1. ~ Shares(t, remote[r]) => ~ Shares(t, m)
    BY <1>6 DEF Shares
  <2> QED
    BY <1>7, <1>11, <2>1
<1>12. ASSUME NEW q \in Repos PROVE Looked(q)'
  <2>1. CASE q = r
    BY <1>7, <2>1 DEF Looked
  <2>2. CASE q # r
    <3>1. resolving'[q] = resolving[q] /\ Looked(q) /\ default'[q] = default[q]
      BY <1>7, <2>2 DEF IInv
    <3> QED
      BY <1>1, <3>1 DEF Looked, Contents, Changes
  <2> QED
    BY <2>1, <2>2
<1>13. ASSUME NEW q \in Repos, NEW t \in BranchOf(made), Kept(t, q) PROVE Kept(t, q)'
  <2>1. CASE q = r
    <3>1. Contents(resolving[r].tip) \subseteq Contents(m)
      BY <1>4, <1>5, PrefixContents
    <3>2. Contents(t) \subseteq Contents(default[r]) /\ Contents(t) \subseteq Contents(m)
      BY <1>1, <1>13, <2>1, <3>1 DEF Kept
    <3>3. default'[r] = default[r] \/ default'[r] = m
      BY <1>7
    <3> QED
      BY <1>1, <1>7, <2>1, <3>2, <3>3 DEF Kept, Contents, Changes
  <2>2. CASE q # r
    <3>1. resolving'[q] = resolving[q] /\ default'[q] = default[q]
      BY <1>7, <2>2
    <3> QED
      BY <1>1, <1>13, <3>1 DEF Kept, Contents, Changes
  <2> QED
    BY <2>1, <2>2
<1> QED
  BY <1>1, <1>8, <1>9, <1>10, <1>11, <1>12, <1>13, WorldStep

-----------------------------------------------------------------------------
(* What the steps of a lander have in common.                              *)

(* A lander's step.                                                        *)
LEMMA LanderStep ==
  ASSUME IInv, NEW p \in Landers, NEW new \in Lands, land' = [land EXCEPT ![p] = new],
         UNCHANGED <<feature, others, made>>, deaths' \in 0 .. MaxDeaths, dirty' \in [Repos -> BOOLEAN],
         default' \in [Repos -> BranchOf(made)], remote' \in [Repos -> BranchOf(made)],
         InOrder(new), SeenAsPlanned(new),
         \A r \in Repos : {new.plan[r].tip, new.plan[r].original} \subseteq BranchOf(made),
         IF land[p].plan = NoPlan THEN UNCHANGED <<default, remote>> ELSE new.plan # NoPlan,
         Alone(p) /\ new.plan # NoPlan
           => \A r \in Repos : /\ TipIsOwn(new, r, default'[r], remote'[r])
                               /\ Merged(new, r) => Kept(new.plan[r].tip, r)',
         land[p].pc \in {"rollback", "done"} /\ land[p].plan # NoPlan =>
           new.pc \in {"rollback", "done"} /\ new.plan # NoPlan,
         \A r \in Repos :
           /\ IsPrefix(remote[r], remote'[r])
           /\ default[r] # <<>> /\ default'[r] = <<>> =>
                new.pc \in {"rollback", "done"} /\ new.plan # NoPlan
  PROVE  IInv'
<1>1. made \in 0 .. MaxCommits /\ \A b \in BranchOf(made) : b \in Branch
  BY MadeIsBranch DEF IInv, TypeOK
<1>2. /\ land' \in [Landers -> Lands] /\ land'[p] = new
      /\ \A q \in Landers \ {p} : land'[q] = land[q]
  BY DEF IInv, TypeOK
<1>3. TypeOK'
  <2>1. [Repos -> BranchOf(made)] \subseteq [Repos -> Branch]
    BY <1>1
  <2> QED
    BY <1>2, <2>1 DEF IInv, TypeOK, Lands, others
<1>4. BranchesMade'
  BY <1>2 DEF IInv, BranchesMade
<1>5. \A q \in Landers : InOrder(land'[q]) /\ SeenAsPlanned(land'[q])
  BY <1>2 DEF IInv
<1>6. NothingLanded'
  BY <1>2 DEF IInv, NothingLanded
<1>7. TipsAreOwn'
  <2> SUFFICES ASSUME NEW q \in Landers, Alone(q)', land'[q].plan # NoPlan, NEW r \in Repos
               PROVE  TipIsOwn(land'[q], r, default'[r], remote'[r])
    BY DEF TipsAreOwn
  <2>1. CASE q = p
    <3>1. Alone(p)
      BY <1>2, <2>1 DEF Alone
    <3> QED
      BY <1>2, <2>1, <3>1
  <2>2. CASE q # p
    <3>1. new.plan = NoPlan
      BY <1>2, <2>2 DEF Alone
    <3>2. land[p].plan = NoPlan /\ UNCHANGED <<default, remote>>
      BY <3>1
    <3>3. Alone(q) /\ land[q].plan # NoPlan /\ land'[q] = land[q]
      BY <1>2, <2>2, <3>2 DEF Alone
    <3> QED
      BY <3>2, <3>3 DEF IInv, TipsAreOwn
  <2> QED
    BY <2>1, <2>2
<1>8. ASSUME NEW r \in Repos PROVE Looked(r)'
  <2>1. UNCHANGED <<patch, resolving, made>>
    BY DEF others
  <2>2. CASE resolving[r] = NoLook
    BY <2>1, <2>2 DEF Looked
  <2>3. CASE resolving[r] # NoLook
    <3>1. /\ {resolving[r].head, resolving[r].tip} \subseteq BranchOf(made)
          /\ resolving[r].tip # <<>> /\ IsPrefix(resolving[r].tip, remote[r])
          /\ Contents(resolving[r].head) \subseteq Contents(resolving[r].tip)
          /\ \/ default[r] # <<>>
             \/ \E q \in Landers : land[q].plan # NoPlan /\ land[q].pc \in {"rollback", "done"}
      BY <2>3 DEF IInv, Looked
    <3>2. IsPrefix(resolving[r].tip, remote'[r])
      <4>1. resolving[r].tip \in Seq(Nat) /\ remote[r] \in Seq(Nat) /\ remote'[r] \in Seq(Nat)
        BY <1>1, <3>1, BranchFacts, MadeIsBranch
      <4> QED
        BY <3>1, <4>1, PrefixOfLonger
    <3>3. \/ default'[r] # <<>>
          \/ \E q \in Landers : land'[q].plan # NoPlan /\ land'[q].pc \in {"rollback", "done"}
      BY <1>2, <3>1
    <3> QED
      BY <2>1, <3>1, <3>2, <3>3 DEF Looked, Contents, Changes
  <2> QED
    BY <2>2, <2>3
<1>9. MergesKept'
  <2> SUFFICES ASSUME NEW q \in Landers, Alone(q)', land'[q].plan # NoPlan, NEW r \in Repos,
                      Merged(land'[q], r)
               PROVE  Kept(land[q].plan[r].tip, r)'
    BY DEF MergesKept, Kept
  <2>1. CASE q = p
    <3>1. Alone(p)
      BY <1>2, <2>1 DEF Alone
    <3> QED
      BY <1>2, <2>1, <3>1
  <2>2. CASE q # p
    <3>1. new.plan = NoPlan
      BY <1>2, <2>2 DEF Alone
    <3>2. land[p].plan = NoPlan /\ UNCHANGED <<default, patch, resolving>>
      BY <3>1 DEF others
    <3>3. Alone(q) /\ land[q].plan # NoPlan /\ land'[q] = land[q]
      BY <1>2, <2>2, <3>2 DEF Alone
    <3>4. Kept(land[q].plan[r].tip, r)
      BY <3>3 DEF IInv, MergesKept, Kept
    <3> QED
      BY <3>2, <3>3, <3>4 DEF Kept, Contents, Changes
  <2> QED
    BY <2>1, <2>2
<1> QED
  BY <1>3, <1>4, <1>5, <1>6, <1>7, <1>8, <1>9 DEF IInv

(* A lander's step that touches no branch.                                 *)
LEMMA QuietLander ==
  ASSUME IInv, NEW p \in Landers, NEW new \in Lands, land' = [land EXCEPT ![p] = new],
         UNCHANGED <<feature, default, remote, dirty, others, made>>, deaths' \in 0 .. MaxDeaths,
         InOrder(new), SeenAsPlanned(new), new.plan = land[p].plan,
         \A r \in Repos : /\ Merged(new, r) => Merged(land[p], r)
                          /\ MayBeMerged(land[p], r) => MayBeMerged(new, r),
         land[p].pc = "push" \/ land[p].verdict \in {"landed", "died"}
           => new.pc = "push" \/ new.verdict \in {"landed", "died"},
         land[p].pc \notin {"rollback", "done"} \/ new.pc \in {"rollback", "done"}
  PROVE  IInv'
<1>1. /\ default' \in [Repos -> BranchOf(made)] /\ remote' \in [Repos -> BranchOf(made)]
      /\ dirty' \in [Repos -> BOOLEAN]
  BY BranchFacts DEF IInv, TypeOK
<1>2. \A r \in Repos : {new.plan[r].tip, new.plan[r].original} \subseteq BranchOf(made)
  BY DEF IInv, BranchesMade
<1>3. ASSUME Alone(p), new.plan # NoPlan, NEW r \in Repos
      PROVE  TipIsOwn(new, r, default'[r], remote'[r])
  <2>1. TipIsOwn(land[p], r, default[r], remote[r])
    BY <1>3 DEF IInv, TipsAreOwn
  <2> QED
    BY <2>1 DEF TipIsOwn
<1>4. ASSUME Alone(p), new.plan # NoPlan, NEW r \in Repos, Merged(new, r)
      PROVE  Kept(new.plan[r].tip, r)'
  <2>1. Kept(new.plan[r].tip, r)
    BY <1>4 DEF IInv, MergesKept, Kept
  <2> QED
    BY <2>1 DEF Kept, Contents, Changes, others
<1>5. \A r \in Repos : IsPrefix(remote[r], remote'[r]) /\ default'[r] = default[r]
  BY BranchFacts, PrefixOfItself
<1> QED
  BY <1>1, <1>2, <1>3, <1>4, <1>5, LanderStep

(* The lander after one step of a loop.                                    *)
LEMMA NextRepoIs ==
  ASSUME NEW l \in Lands, NEW pc \in Pcs
  PROVE  LET n == NextRepo(l, pc) IN
         /\ n \in Lands
         /\ n.approved = l.approved /\ n.plan = l.plan /\ n.seen = l.seen /\ n.moved = l.moved
         /\ n.back = l.back /\ n.unrestored = l.unrestored /\ n.verdict = l.verdict
         /\ n.pushed = l.pushed /\ n.reviewed = l.reviewed /\ n.checked = l.checked
         /\ \/ l.repo < RepoCount /\ n.repo = l.repo + 1 /\ n.pc = l.pc
            \/ l.repo = RepoCount /\ n.repo = 1 /\ n.pc = pc
<1>1. l.repo \in 1 .. RepoCount /\ RepoCount \in Nat
  BY Bounds DEF Lands, Repos
<1>2. CASE l.repo < RepoCount
  <2>1. l.repo + 1 \in Repos
    BY <1>1, <1>2 DEF Repos
  <2>2. NextRepo(l, pc) = [l EXCEPT !.repo = l.repo + 1]
    BY <1>2 DEF NextRepo
  <2> QED
    BY <1>2, <2>1, <2>2 DEF Lands
<1>3. CASE ~ l.repo < RepoCount
  <2>1. NextRepo(l, pc) = [l EXCEPT !.repo = 1, !.pc = pc]
    BY <1>3 DEF NextRepo
  <2>2. l.repo = RepoCount /\ 1 \in Repos
    BY <1>1, <1>3, Bounds
  <2> QED
    BY <2>1, <2>2 DEF Lands
<1> QED
  BY <1>2, <1>3

(* A lander that ends.                                                     *)
LEMMA EndsAs ==
  ASSUME IInv, NEW p \in Landers, NEW v \in Verdicts, Ends(p, v)
  PROVE  \E n \in Lands :
         /\ land' = [land EXCEPT ![p] = n] /\ n.pc = "done" /\ n.verdict = v
         /\ n.approved = land[p].approved /\ n.plan = land[p].plan /\ n.seen = land[p].seen
         /\ n.unrestored = land[p].unrestored
<1> DEFINE n == [land[p] EXCEPT !.pc = "done", !.verdict = v]
<1>1. land[p] \in Lands /\ "done" \in Pcs /\ land' = [land EXCEPT ![p] = n]
  BY DEF IInv, TypeOK, Ends, Pcs
<1>2. /\ n \in Lands /\ n.pc = "done" /\ n.verdict = v
      /\ n.approved = land[p].approved /\ n.plan = land[p].plan /\ n.seen = land[p].seen
      /\ n.unrestored = land[p].unrestored
  BY <1>1 DEF Lands
<1> HIDE DEF n
<1> QED
  BY <1>1, <1>2

(* A lander that refuses, skips or dies.                                   *)
LEMMA EndsInv ==
  ASSUME IInv, NEW p \in Landers, NEW v \in {"refused", "skipped", "partial", "died"}, Ends(p, v),
         land[p].pc # "done", v # "died" => land[p].pc # "push",
         v \in {"refused", "skipped"} =>
           /\ land[p].unrestored = {}
           /\ \A r \in Repos : ~ MayBeMerged(land[p], r),
         UNCHANGED <<feature, default, remote, dirty, others, made>>, deaths' \in 0 .. MaxDeaths
  PROVE  IInv'
<1>1. v \in Verdicts
  BY DEF Verdicts
<1>2. PICK n \in Lands :
         /\ land' = [land EXCEPT ![p] = n] /\ n.pc = "done" /\ n.verdict = v
         /\ n.approved = land[p].approved /\ n.plan = land[p].plan /\ n.seen = land[p].seen
         /\ n.unrestored = land[p].unrestored
  BY <1>1, EndsAs
<1>3. InOrder(land[p])
  BY DEF IInv
<1>4. InOrder(n)
  BY <1>2, <1>3 DEF InOrder, Early, Late
<1>5. SeenAsPlanned(n)
  BY <1>2 DEF SeenAsPlanned, Late
<1>6. \A r \in Repos : /\ ~ Merged(n, r)
                       /\ MayBeMerged(land[p], r) => MayBeMerged(n, r)
  BY <1>2 DEF Merged, MayBeMerged
<1>7. land[p].verdict = "none"
  BY <1>3 DEF InOrder
<1> QED
  BY <1>2, <1>4, <1>5, <1>6, <1>7, QuietLander

-----------------------------------------------------------------------------
(* The first phase of a land.                                              *)

(* A lander that only goes on to another phase.                            *)
LEMMA GoesTo ==
  ASSUME IInv, NEW p \in Landers, NEW pc \in Pcs, land' = [land EXCEPT ![p].pc = pc]
  PROVE  \E n \in Lands :
         /\ land' = [land EXCEPT ![p] = n] /\ n.pc = pc /\ n.repo = land[p].repo
         /\ n.back = land[p].back /\ n.verdict = land[p].verdict
         /\ n.approved = land[p].approved /\ n.plan = land[p].plan /\ n.seen = land[p].seen
         /\ n.moved = land[p].moved /\ n.unrestored = land[p].unrestored
<1> DEFINE n == [land[p] EXCEPT !.pc = pc]
<1>1. land[p] \in Lands /\ land' = [land EXCEPT ![p] = n]
  BY DEF IInv, TypeOK
<1>2. /\ n \in Lands /\ n.pc = pc /\ n.repo = land[p].repo
      /\ n.back = land[p].back /\ n.verdict = land[p].verdict
      /\ n.approved = land[p].approved /\ n.plan = land[p].plan /\ n.seen = land[p].seen
      /\ n.moved = land[p].moved /\ n.unrestored = land[p].unrestored
  BY <1>1 DEF Lands
<1> HIDE DEF n
<1> QED
  BY <1>1, <1>2

(* Before its first merge a lander has merged nothing.                     *)
LEMMA NotMerged ==
  ASSUME IInv, NEW p \in Landers, land[p].pc \in Early \cup {"checks", "validate", "lift"}
  PROVE  /\ land[p].verdict = "none" /\ land[p].unrestored = {}
         /\ \A r \in Repos : ~ MayBeMerged(land[p], r) /\ ~ Merged(land[p], r)
<1>1. InOrder(land[p])
  BY DEF IInv
<1>2. land[p].verdict = "none" /\ land[p].unrestored = {}
  BY <1>1 DEF InOrder, Early
<1> QED
  BY <1>2 DEF MayBeMerged, Merged, Early

(* The landers killed are bounded.                                         *)
LEMMA DeathsBounded == IInv => deaths \in 0 .. MaxDeaths
  BY DEF IInv, TypeOK

(* A lander that gives up before its first merge.                          *)
LEMMA Refuses ==
  ASSUME IInv, NEW p \in Landers, NEW v \in {"refused", "skipped"}, Ends(p, v),
         land[p].pc \in Early \cup {"checks", "validate", "lift"},
         UNCHANGED <<feature, default, remote, dirty, others, made, deaths>>
  PROVE  IInv'
<1>1. land[p].pc # "done" /\ land[p].pc # "push" /\ deaths' \in 0 .. MaxDeaths
  BY DeathsBounded DEF Early
<1> QED
  BY <1>1, NotMerged, EndsInv

(* The preview a person approves.                                          *)
LEMMA PreviewInv ==
  ASSUME IInv, NEW p \in Landers, Preview(p)
  PROVE  IInv'
<1> DEFINE n == [land[p] EXCEPT !.pc = "previewed",
                                !.approved = [r \in Repos |-> Fingerprint(r)],
                                !.reviewed = feature]
<1>1. /\ land[p] \in Lands /\ land[p].pc = "idle" /\ land' = [land EXCEPT ![p] = n]
      /\ UNCHANGED <<feature, default, remote, dirty, others, made, deaths>>
  BY DEF IInv, TypeOK, Preview
<1>2. [r \in Repos |-> Fingerprint(r)] \in [Repos -> [pending : 0 .. MaxCommits + 1, remote : Branch]]
  BY PendingBounded DEF IInv
<1>3. feature \in [Repos -> Branch] /\ "previewed" \in Pcs
  BY DEF IInv, TypeOK, Pcs
<1>4. /\ n \in Lands /\ n.pc = "previewed" /\ n.verdict = land[p].verdict
      /\ n.plan = land[p].plan /\ n.unrestored = land[p].unrestored
  <2> DEFINE f == [r \in Repos |-> Fingerprint(r)]
  <2> HIDE DEF f
  <2> QED
    BY <1>1, <1>2, <1>3 DEF Lands, f
<1> HIDE DEF n
<1>5. /\ land[p].verdict = "none" /\ land[p].unrestored = {} /\ land[p].plan = NoPlan
      /\ \A r \in Repos : ~ MayBeMerged(land[p], r)
  <2>1. land[p].pc \in Early
    BY <1>1 DEF Early
  <2> QED
    BY <2>1, NotMerged DEF IInv, InOrder
<1>6. InOrder(n) /\ SeenAsPlanned(n)
  BY <1>4, <1>5 DEF InOrder, SeenAsPlanned, Early, Late
<1>7. \A r \in Repos : ~ Merged(n, r)
  BY <1>4, <1>5 DEF Merged
<1>8. land[p].pc # "push" /\ deaths' \in 0 .. MaxDeaths
  BY <1>1, DeathsBounded
<1> QED
  BY <1>1, <1>4, <1>5, <1>6, <1>7, <1>8, QuietLander

(* The apply compares fingerprints.                                        *)
LEMMA ApplyInv ==
  ASSUME IInv, NEW p \in Landers, Apply(p)
  PROVE  IInv'
<1>1. /\ land[p].pc = "previewed" /\ UNCHANGED <<feature, default, remote, dirty, others, made, deaths>>
      /\ land' = [land EXCEPT ![p].pc = "preflight"] \/ Ends(p, "refused")
  BY DEF Apply
<1>2. CASE Ends(p, "refused")
  BY <1>1, <1>2, Refuses DEF Early
<1>3. CASE land' = [land EXCEPT ![p].pc = "preflight"]
  <2>1. "preflight" \in Pcs /\ land[p].pc \in Early
    BY <1>1 DEF Pcs, Early
  <2>2. PICK n \in Lands :
         /\ land' = [land EXCEPT ![p] = n] /\ n.pc = "preflight" /\ n.repo = land[p].repo
         /\ n.back = land[p].back /\ n.verdict = land[p].verdict
         /\ n.approved = land[p].approved /\ n.plan = land[p].plan /\ n.seen = land[p].seen
         /\ n.moved = land[p].moved /\ n.unrestored = land[p].unrestored
    BY <1>3, <2>1, GoesTo
  <2>3. /\ land[p].verdict = "none" /\ land[p].unrestored = {} /\ land[p].plan = NoPlan
        /\ \A r \in Repos : ~ MayBeMerged(land[p], r)
    BY <2>1, NotMerged DEF IInv, InOrder
  <2>4. InOrder(n) /\ SeenAsPlanned(n) /\ \A r \in Repos : ~ Merged(n, r)
    BY <2>2, <2>3 DEF InOrder, SeenAsPlanned, Merged, Early, Late
  <2>5. land[p].pc # "push" /\ deaths' \in 0 .. MaxDeaths
    BY <1>1, DeathsBounded
  <2> QED
    BY <1>1, <2>2, <2>3, <2>4, <2>5, QuietLander
<1> QED
  BY <1>1, <1>2, <1>3

(* The plan: nothing of the feature's is on a default branch yet, if this  *)
(* land is the first to have one.                                          *)
LEMMA PreflightInv ==
  ASSUME IInv, NEW p \in Landers, Preflight(p)
  PROVE  IInv'
<1> DEFINE l == land[p]
           plan == [r \in Repos |-> [tip |-> feature[r], original |-> default[r],
                                     remote |-> l.approved[r].remote]]
<1>1. /\ l.pc = "preflight" /\ UNCHANGED <<feature, default, remote, dirty, others, made, deaths>>
      /\ \/ /\ \A r \in Repos : ~ Blocked(r)
            /\ land' = [land EXCEPT ![p].pc = "checks", ![p].plan = plan]
         \/ Ends(p, "refused")
  BY DEF Preflight
<1>2. CASE Ends(p, "refused")
  BY <1>1, <1>2, Refuses DEF Early
<1>3. CASE /\ \A r \in Repos : ~ Blocked(r)
           /\ land' = [land EXCEPT ![p].pc = "checks", ![p].plan = plan]
  <2> DEFINE n == [l EXCEPT !.pc = "checks", !.plan = plan]
  <2>1. l \in Lands /\ land' = [land EXCEPT ![p] = n] /\ "checks" \in Pcs /\ l.pc \in Early
    BY <1>1, <1>3 DEF IInv, TypeOK, Pcs, Early
  <2>2. /\ plan \in [Repos -> [tip : Branch, original : Branch, remote : Branch]]
        /\ \A r \in Repos : /\ plan[r].tip = feature[r] /\ plan[r].original = default[r]
                            /\ plan[r].remote = l.approved[r].remote
    <3>1. \A r \in Repos : /\ feature[r] \in Branch /\ default[r] \in Branch
                           /\ l.approved[r].remote \in Branch
      BY <2>1 DEF IInv, TypeOK, Lands
    <3> QED
      BY <3>1
  <2> HIDE DEF plan
  <2>3. /\ n \in Lands /\ n.pc = "checks" /\ n.plan = plan /\ n.verdict = l.verdict
        /\ n.approved = l.approved /\ n.unrestored = l.unrestored
    BY <2>1, <2>2 DEF Lands
  <2> HIDE DEF n
  <2>4. l.verdict = "none" /\ l.unrestored = {} /\ l.plan = NoPlan
    BY <2>1, NotMerged DEF IInv, InOrder
  <2>5. \A r \in Repos : n.plan[r].tip = feature[r] /\ feature[r] # <<>>
    BY <2>2, <2>3, BranchFacts
  <2>6. n.plan # NoPlan
    BY <2>5, Bounds DEF NoPlan
  <2>7. InOrder(n) /\ SeenAsPlanned(n)
    BY <2>2, <2>3, <2>4, <2>5, <2>6 DEF InOrder, SeenAsPlanned, Early, Late
  <2>8. \A r \in Repos : {n.plan[r].tip, n.plan[r].original} \subseteq BranchOf(made)
    BY <2>2, <2>3, BranchFacts
  <2>9. ASSUME Alone(p), NEW r \in Repos
        PROVE  TipIsOwn(n, r, default[r], remote[r])
    <3>1. \A q \in Landers : land[q].plan = NoPlan
      BY <2>4, <2>9 DEF Alone
    <3>2. ~ Shares(feature[r], default[r]) /\ ~ Shares(feature[r], remote[r])
      BY <3>1 DEF IInv, NothingLanded
    <3>3. IsPrefix(default[r], feature[r])
      BY <1>3 DEF Blocked
    <3>4. default[r] = <<>>
      <4>1. default[r] # <<>> => Shares(default[r], feature[r])
        BY <3>3, BranchFacts, PrefixShares
      <4> QED
        BY <3>2, <4>1 DEF Shares
    <3>5. ~ Merged(n, r)
      BY <2>3, <2>4 DEF Merged
    <3> QED
      BY <2>2, <2>3, <3>2, <3>4, <3>5 DEF TipIsOwn
  <2>11. \A r \in Repos : ~ Merged(n, r) /\ IsPrefix(remote[r], remote[r])
    BY <2>3, <2>4, BranchFacts, PrefixOfItself DEF Merged
  <2>12. ~ (land[p].pc \in {"rollback", "done"})
    BY <1>1
  <2>10. /\ deaths' \in 0 .. MaxDeaths /\ dirty' \in [Repos -> BOOLEAN]
         /\ default' \in [Repos -> BranchOf(made)] /\ remote' \in [Repos -> BranchOf(made)]
    BY <1>1, DeathsBounded, BranchFacts DEF IInv, TypeOK
  <2> QED
    BY <1>1, <2>1, <2>3, <2>4, <2>6, <2>7, <2>8, <2>9, <2>10, <2>11, <2>12, LanderStep
<1> QED
  BY <1>1, <1>2, <1>3

(* The checks of one repo.                                                 *)
LEMMA RunChecksInv ==
  ASSUME IInv, NEW p \in Landers, RunChecks(p)
  PROVE  IInv'
<1>0. PICK r \in Repos : r = land[p].repo
  BY DEF IInv, TypeOK, Lands
<1> DEFINE c == [land[p] EXCEPT !.checked[r] = feature[r]]
<1>1. /\ land[p].pc = "checks" /\ UNCHANGED <<feature, default, remote, dirty, others, made, deaths>>
      /\ land' = [land EXCEPT ![p] = NextRepo(c, "validate")] \/ Ends(p, "refused")
  BY <1>0 DEF RunChecks
<1>2. CASE Ends(p, "refused")
  BY <1>1, <1>2, Refuses
<1>3. CASE land' = [land EXCEPT ![p] = NextRepo(c, "validate")]
  <2>1. land[p] \in Lands /\ feature[r] \in Branch /\ "validate" \in Pcs
    BY <1>0 DEF IInv, TypeOK, Pcs
  <2>2. /\ c \in Lands /\ c.pc = "checks" /\ c.plan = land[p].plan /\ c.approved = land[p].approved
        /\ c.verdict = land[p].verdict /\ c.unrestored = land[p].unrestored
    BY <1>1, <2>1 DEF Lands
  <2> HIDE DEF c
  <2>3. PICK n \in Lands : /\ n = NextRepo(c, "validate") /\ n.plan = c.plan /\ n.approved = c.approved
                           /\ n.verdict = c.verdict /\ n.unrestored = c.unrestored
                           /\ \/ n.pc = "checks"
                              \/ n.pc = "validate" /\ n.repo = 1
    BY <2>1, <2>2, NextRepoIs
  <2>4. /\ land[p].verdict = "none" /\ land[p].unrestored = {} /\ InOrder(land[p])
        /\ \A q \in Repos : ~ MayBeMerged(land[p], q)
    BY <1>1, NotMerged DEF IInv
  <2>5. InOrder(n)
    BY <1>1, <2>2, <2>3, <2>4 DEF InOrder, Early, Late
  <2>6. \A q \in Repos : ~ q < 1
    BY Bounds DEF Repos
  <2>7. SeenAsPlanned(n)
    BY <2>2, <2>3, <2>4, <2>6 DEF SeenAsPlanned, Late
  <2>8. \A q \in Repos : ~ Merged(n, q)
    BY <2>2, <2>3, <2>4 DEF Merged
  <2>9. land[p].pc # "push" /\ deaths' \in 0 .. MaxDeaths
    BY <1>1, DeathsBounded
  <2> QED
    BY <1>1, <1>3, <2>2, <2>3, <2>4, <2>5, <2>7, <2>8, <2>9, QuietLander
<1> QED
  BY <1>1, <1>2, <1>3

(* Phase 1, one repo.                                                      *)
LEMMA ValidateInv ==
  ASSUME IInv, NEW p \in Landers, Validate(p)
  PROVE  IInv'
<1>0. PICK r \in Repos : r = land[p].repo
  BY DEF IInv, TypeOK, Lands
<1>1. PICK ok \in BOOLEAN :
        /\ land[p].pc = "validate" /\ UNCHANGED <<feature, default, remote, dirty, others, made, deaths>>
        /\ land' = [land EXCEPT ![p] = Validated(land[p], r, ok)]
        /\ ok => remote[r] = land[p].plan[r].remote
  BY <1>0 DEF Validate
<1> DEFINE c == [land[p] EXCEPT !.seen[r] = remote[r], !.moved = @ \/ ~ ok]
<1>2. land[p] \in Lands /\ remote[r] \in Branch /\ "lift" \in Pcs
  BY DEF IInv, TypeOK, Pcs
<1>3. /\ c \in Lands /\ c.pc = "validate" /\ c.plan = land[p].plan /\ c.approved = land[p].approved
      /\ c.verdict = land[p].verdict /\ c.unrestored = land[p].unrestored /\ c.repo = r
      /\ \A q \in Repos : c.seen[q] = IF q = r THEN remote[r] ELSE land[p].seen[q]
      /\ ~ c.moved => ~ land[p].moved /\ ok
  <2>1. land[p].moved \in BOOLEAN
    BY <1>2 DEF Lands
  <2> QED
    BY <1>0, <1>1, <1>2, <2>1 DEF Lands
<1>4. NextRepo(c, "lift") = Validated(land[p], r, ok)
  BY DEF Validated
<1> HIDE DEF c
<1>5. PICK n \in Lands : /\ n = NextRepo(c, "lift") /\ n.plan = c.plan /\ n.approved = c.approved
                         /\ n.verdict = c.verdict /\ n.unrestored = c.unrestored
                         /\ n.seen = c.seen /\ n.moved = c.moved
                         /\ \/ n.pc = "validate" /\ n.repo = r + 1
                            \/ n.pc = "lift" /\ n.repo = 1 /\ r = RepoCount
  BY <1>2, <1>3, NextRepoIs
<1>6. /\ land[p].verdict = "none" /\ land[p].unrestored = {} /\ InOrder(land[p])
      /\ SeenAsPlanned(land[p])
      /\ \A q \in Repos : ~ MayBeMerged(land[p], q)
  BY <1>1, NotMerged DEF IInv
<1>7. InOrder(n)
  BY <1>1, <1>3, <1>5, <1>6 DEF InOrder, Early, Late
<1>8. SeenAsPlanned(n)
  <2> SUFFICES ASSUME NEW q \in Repos, ~ n.moved, n.pc = "lift" \/ q < n.repo
               PROVE  n.seen[q] = n.plan[q].remote
    BY <1>3, <1>5, <1>6 DEF SeenAsPlanned, Late
  <2>1. q = r \/ q < r
    BY <1>5, Bounds DEF Repos
  <2>2. q < r => land[p].seen[q] = land[p].plan[q].remote
    BY <1>0, <1>1, <1>3, <1>5 , <1>6 DEF SeenAsPlanned
  <2> QED
    BY <1>1, <1>3, <1>5, <2>1, <2>2
<1>9. \A q \in Repos : ~ Merged(n, q)
  BY <1>3, <1>5, <1>6 DEF Merged
<1>10. land[p].pc # "push" /\ deaths' \in 0 .. MaxDeaths
  BY <1>1, DeathsBounded
<1> QED
  BY <1>1, <1>3, <1>4, <1>5, <1>6, <1>7, <1>8, <1>9, <1>10, QuietLander

-----------------------------------------------------------------------------
(* The second phase: the checks before a merge.                            *)

(* The decision over the whole batch.                                      *)
LEMMA LiftInv ==
  ASSUME IInv, NEW p \in Landers, Lift(p)
  PROVE  IInv'
<1>1. /\ land[p].pc = "lift" /\ UNCHANGED <<feature, default, remote, dirty, others, made, deaths>>
      /\ \/ \E v \in {"refused", "skipped"} : Ends(p, v)
         \/ ~ land[p].moved /\ land' = [land EXCEPT ![p].pc = "merge"]
  BY DEF Lift
<1>2. CASE \E v \in {"refused", "skipped"} : Ends(p, v)
  BY <1>1, <1>2, Refuses
<1>3. CASE ~ land[p].moved /\ land' = [land EXCEPT ![p].pc = "merge"]
  <2>1. "merge" \in Pcs
    BY DEF Pcs
  <2>2. PICK n \in Lands :
         /\ land' = [land EXCEPT ![p] = n] /\ n.pc = "merge" /\ n.repo = land[p].repo
         /\ n.back = land[p].back /\ n.verdict = land[p].verdict
         /\ n.approved = land[p].approved /\ n.plan = land[p].plan /\ n.seen = land[p].seen
         /\ n.moved = land[p].moved /\ n.unrestored = land[p].unrestored
    BY <1>3, <2>1, GoesTo
  <2>3. /\ land[p].verdict = "none" /\ land[p].unrestored = {}
        /\ InOrder(land[p]) /\ SeenAsPlanned(land[p])
        /\ \A r \in Repos : ~ MayBeMerged(land[p], r)
    BY <1>1, NotMerged DEF IInv
  <2>4. InOrder(n)
    BY <1>1, <2>2, <2>3 DEF InOrder, Early, Late
  <2>5. SeenAsPlanned(n)
    BY <1>1, <1>3, <2>2, <2>3 DEF SeenAsPlanned
  <2>6. n.repo = 1 /\ \A r \in Repos : ~ r < 1
    BY <1>1, <2>2, <2>3 DEF InOrder, Repos
  <2>7. \A r \in Repos : ~ Merged(n, r)
    BY <2>2, <2>3, <2>6 DEF Merged
  <2>8. land[p].pc # "push" /\ deaths' \in 0 .. MaxDeaths
    BY <1>1, DeathsBounded
  <2> QED
    BY <1>1, <2>2, <2>3, <2>4, <2>5, <2>7, <2>8, QuietLander
<1> QED
  BY <1>1, <1>2, <1>3

(* What a lander in its second or third phase is known to be.              *)
LEMMA LateLander ==
  ASSUME IInv, NEW p \in Landers, land[p].pc \in Late
  PROVE  /\ land[p] \in Lands /\ land[p].plan # NoPlan /\ land[p].verdict = "none"
         /\ land[p].unrestored # {} => land[p].pc = "rollback"
         /\ \A r \in Repos : /\ land[p].seen[r] = land[p].plan[r].remote
                             /\ land[p].plan[r].remote = land[p].approved[r].remote
                             /\ land[p].plan[r].tip # <<>>
                             /\ land[p].plan[r].tip \in BranchOf(made)
                             /\ land[p].plan[r].original \in BranchOf(made)
<1>1. InOrder(land[p]) /\ SeenAsPlanned(land[p]) /\ land[p] \in Lands
  BY DEF IInv, TypeOK
<1>2. land[p].plan # NoPlan /\ land[p].verdict = "none"
  BY <1>1 DEF InOrder, Late
<1>3. land[p].unrestored # {} => land[p].pc = "rollback"
  BY <1>1, <1>2 DEF InOrder
<1>4. \A r \in Repos : /\ land[p].seen[r] = land[p].plan[r].remote
                       /\ land[p].plan[r].remote = land[p].approved[r].remote
                       /\ land[p].plan[r].tip # <<>>
  BY <1>1, <1>2 DEF InOrder, SeenAsPlanned
<1>5. \A r \in Repos : land[p].plan[r].tip \in BranchOf(made) /\ land[p].plan[r].original \in BranchOf(made)
  BY DEF IInv, BranchesMade
<1> QED
  BY <1>1, <1>2, <1>3, <1>4, <1>5

(* It stays in order as it goes on.                                        *)
LEMMA StaysInOrder ==
  ASSUME IInv, NEW p \in Landers, land[p].pc \in Late, NEW n \in Lands,
         \/ n.pc \in Late /\ n.verdict = "none"
         \/ n.pc = "done" /\ n.verdict = "landed",
         n.plan = land[p].plan /\ n.approved = land[p].approved /\ n.seen = land[p].seen,
         n.unrestored = {} \/ n.pc = "rollback"
  PROVE  InOrder(n) /\ SeenAsPlanned(n)
<1>1. /\ land[p].plan # NoPlan
      /\ \A r \in Repos : /\ land[p].seen[r] = land[p].plan[r].remote
                          /\ land[p].plan[r].remote = land[p].approved[r].remote
                          /\ land[p].plan[r].tip # <<>>
  BY LateLander
<1>2. InOrder(n)
  BY <1>1 DEF InOrder, Early, Late
<1>3. SeenAsPlanned(n)
  BY <1>1 DEF SeenAsPlanned
<1> QED
  BY <1>2, <1>3

(* The rollback that a failed merge starts: the repos before the failed    *)
(* one are merged until it has come to them.                               *)
LEMMA StartsRollback ==
  ASSUME IInv, NEW p \in Landers, land[p].pc \in {"merge", "ff"},
         land' = [land EXCEPT ![p] = StartRollback(land[p])],
         UNCHANGED <<feature, default, remote, dirty, others, made, deaths>>
  PROVE  IInv'
<1>1. land[p].pc \in Late /\ land[p].pc # "push" /\ deaths' \in 0 .. MaxDeaths
  BY DeathsBounded DEF Late
<1>2. PICK n \in Lands :
        /\ n = StartRollback(land[p]) /\ n.pc = "rollback" /\ n.back = 1 /\ n.repo = land[p].repo
        /\ n.verdict = land[p].verdict /\ n.approved = land[p].approved /\ n.plan = land[p].plan
        /\ n.seen = land[p].seen /\ n.unrestored = land[p].unrestored
  <2> DEFINE n == StartRollback(land[p])
  <2>1. land[p] \in Lands /\ 1 \in 1 .. RepoCount + 1 /\ "rollback" \in Pcs
    BY Bounds DEF IInv, TypeOK, Pcs
  <2>2. /\ n \in Lands /\ n.pc = "rollback" /\ n.back = 1 /\ n.repo = land[p].repo
        /\ n.verdict = land[p].verdict /\ n.approved = land[p].approved /\ n.plan = land[p].plan
        /\ n.seen = land[p].seen /\ n.unrestored = land[p].unrestored
    BY <2>1 DEF Lands, StartRollback
  <2> HIDE DEF n
  <2> QED
    BY <2>2 DEF n
<1>3. land[p].verdict = "none" /\ land[p].unrestored = {}
  BY <1>1, LateLander
<1>4. InOrder(n) /\ SeenAsPlanned(n)
  <2>1. n.pc \in Late /\ n.verdict = "none" /\ n.unrestored = {}
    BY <1>2, <1>3 DEF Late
  <2>2. n.plan = land[p].plan /\ n.approved = land[p].approved /\ n.seen = land[p].seen
    BY <1>2
  <2> QED
    BY ONLY IInv, <1>1, <2>1, <2>2, StaysInOrder
<1>5. \A r \in Repos : 1 <= r
  BY DEF Repos
<1>6. \A r \in Repos : /\ ~ Merged(n, r)
                       /\ MayBeMerged(land[p], r) => MayBeMerged(n, r)
  BY <1>2, <1>3, <1>5 DEF Merged, MayBeMerged
<1> QED
  BY <1>1, <1>2, <1>3, <1>4, <1>6, QuietLander

(* The checks before a merge.                                              *)
LEMMA RecheckInv ==
  ASSUME IInv, NEW p \in Landers, Recheck(p)
  PROVE  IInv'
<1>1. /\ land[p].pc = "merge" /\ UNCHANGED <<feature, default, remote, dirty, others, made, deaths>>
      /\ \/ land' = [land EXCEPT ![p].pc = "ff"]
         \/ land' = [land EXCEPT ![p] = StartRollback(land[p])]
  BY DEF Recheck
<1>2. CASE land' = [land EXCEPT ![p].pc = "ff"]
  <2>1. "ff" \in Pcs /\ land[p].pc \in Late
    BY <1>1 DEF Pcs, Late
  <2>2. PICK n \in Lands :
         /\ land' = [land EXCEPT ![p] = n] /\ n.pc = "ff" /\ n.repo = land[p].repo
         /\ n.back = land[p].back /\ n.verdict = land[p].verdict
         /\ n.approved = land[p].approved /\ n.plan = land[p].plan /\ n.seen = land[p].seen
         /\ n.moved = land[p].moved /\ n.unrestored = land[p].unrestored
    BY <1>2, <2>1, GoesTo
  <2>3. land[p].verdict = "none" /\ land[p].unrestored = {}
    BY <1>1, <2>1, LateLander
  <2>4. InOrder(n) /\ SeenAsPlanned(n)
    <3>1. n.pc \in Late /\ n.verdict = "none" /\ n.unrestored = {}
      BY <2>2, <2>3 DEF Late
    <3>2. n.plan = land[p].plan /\ n.approved = land[p].approved /\ n.seen = land[p].seen
      BY <2>2
    <3> QED
      BY ONLY IInv, <2>1, <3>1, <3>2, StaysInOrder
  <2>5. \A r \in Repos : /\ Merged(n, r) => Merged(land[p], r)
                         /\ MayBeMerged(land[p], r) => MayBeMerged(n, r)
    BY <1>1, <2>2, <2>3 DEF Merged, MayBeMerged
  <2>6. land[p].pc # "push" /\ deaths' \in 0 .. MaxDeaths
    BY <1>1, DeathsBounded
  <2> QED
    BY <1>1, <2>2, <2>3, <2>4, <2>5, <2>6, QuietLander
<1>3. CASE land' = [land EXCEPT ![p] = StartRollback(land[p])]
  BY <1>1, <1>3, StartsRollback
<1> QED
  BY <1>1, <1>2, <1>3

-----------------------------------------------------------------------------
(* A merge, and its rollback.                                              *)

(* What git merge --ff-only leaves has the tip, and the branch it was.     *)
LEMMA FastForwardedIs ==
  ASSUME NEW b \in Seq(Nat), NEW t \in Seq(Nat), IsPrefix(b, t) \/ IsPrefix(t, b)
  PROVE  /\ FastForwarded(b, t) \in {b, t}
         /\ IsPrefix(t, FastForwarded(b, t)) /\ IsPrefix(b, FastForwarded(b, t))
<1>1. CASE IsPrefix(t, b)
  BY <1>1, PrefixOfItself DEF FastForwarded
<1>2. CASE ~ IsPrefix(t, b)
  BY <1>2, PrefixOfItself DEF FastForwarded
<1> QED
  BY <1>1, <1>2

(* What a repo's second phase leaves of the lander.                        *)
LEMMA FastForwardInv ==
  ASSUME IInv, NEW p \in Landers, FastForward(p)
  PROVE  IInv'
<1>0. PICK r \in Repos : r = land[p].repo
  BY DEF IInv, TypeOK, Lands
<1> DEFINE tip == land[p].plan[r].tip
           c == [land[p] EXCEPT !.pc = "merge"]
<1>1. land[p].pc = "ff" /\ UNCHANGED <<feature, remote, dirty, others, made, deaths>> /\ land[p] \in Lands
  BY DEF FastForward, IInv, TypeOK
<1>2. \/ /\ IsPrefix(default[r], tip) \/ IsPrefix(tip, default[r])
         /\ default' = [default EXCEPT ![r] = FastForwarded(default[r], tip)]
         /\ land' = [land EXCEPT ![p] = NextRepo(c, "push")]
      \/ UNCHANGED default /\ land' = [land EXCEPT ![p] = StartRollback(land[p])]
  <2>1. \/ /\ IsPrefix(default[r], tip) \/ IsPrefix(tip, default[r])
           /\ default' = [default EXCEPT ![r] = FastForwarded(@, tip)]
           /\ land' = [land EXCEPT ![p] = NextRepo([@ EXCEPT !.pc = "merge"], "push")]
        \/ UNCHANGED default /\ land' = [land EXCEPT ![p] = StartRollback(@)]
    BY <1>0 DEF FastForward
  <2>2. DOMAIN land = Landers /\ DOMAIN default = Repos
    BY DEF IInv, TypeOK
  <2>3. [land EXCEPT ![p] = NextRepo([@ EXCEPT !.pc = "merge"], "push")]
          = [land EXCEPT ![p] = NextRepo(c, "push")]
    BY <2>2
  <2>4. [default EXCEPT ![r] = FastForwarded(@, tip)] = [default EXCEPT ![r] = FastForwarded(default[r], tip)]
    BY <2>2
  <2>5. [land EXCEPT ![p] = StartRollback(@)] = [land EXCEPT ![p] = StartRollback(land[p])]
    BY <2>2
  <2> HIDE DEF tip, c
  <2> QED
    BY <2>1, <2>3, <2>4, <2>5
<1>3. land[p].pc \in Late /\ land[p].verdict = "none" /\ land[p].unrestored = {}
  <2>1. land[p].pc \in Late
    BY <1>1 DEF Late
  <2> QED
    BY <1>1, <2>1, LateLander
<1>4. CASE UNCHANGED default /\ land' = [land EXCEPT ![p] = StartRollback(land[p])]
  BY <1>1, <1>4, StartsRollback
<1>5. CASE /\ IsPrefix(default[r], tip) \/ IsPrefix(tip, default[r])
           /\ default' = [default EXCEPT ![r] = FastForwarded(default[r], tip)]
           /\ land' = [land EXCEPT ![p] = NextRepo(c, "push")]
  <2>1. "merge" \in Pcs /\ "push" \in Pcs
    BY DEF Pcs
  <2>2. /\ c \in Lands /\ c.pc = "merge" /\ c.plan = land[p].plan /\ c.approved = land[p].approved
        /\ c.seen = land[p].seen /\ c.verdict = "none" /\ c.unrestored = {} /\ c.repo = r
    BY <1>0, <1>1, <1>3, <2>1 DEF Lands
  <2> HIDE DEF c
  <2>3. PICK n \in Lands : /\ n = NextRepo(c, "push") /\ n.plan = c.plan /\ n.approved = c.approved
                           /\ n.seen = c.seen /\ n.verdict = c.verdict
                           /\ n.unrestored = c.unrestored
                           /\ \/ n.pc = "merge" /\ n.repo = r + 1
                              \/ n.pc = "push" /\ r = RepoCount
    BY <2>1, <2>2, NextRepoIs
  <2>4. n.plan = land[p].plan /\ n.approved = land[p].approved /\ n.seen = land[p].seen
    BY <2>2, <2>3
  <2>5. n.pc \in Late /\ n.verdict = "none" /\ n.unrestored = {}
    BY <2>2, <2>3 DEF Late
  <2>6. InOrder(n) /\ SeenAsPlanned(n)
    BY ONLY IInv, <1>3, <2>4, <2>5, StaysInOrder
  <2>7. PICK f \in BranchOf(made) : /\ f = FastForwarded(default[r], tip)
                                    /\ IsPrefix(tip, f) /\ IsPrefix(default[r], f)
    <3>1. tip \in BranchOf(made) /\ default[r] \in BranchOf(made) /\ made \in 0 .. MaxCommits
      BY <1>3, LateLander, BranchFacts
    <3>2. tip \in Seq(Nat) /\ default[r] \in Seq(Nat)
      BY <3>1, MadeIsBranch
    <3>3. /\ FastForwarded(default[r], tip) \in {default[r], tip}
          /\ IsPrefix(tip, FastForwarded(default[r], tip))
          /\ IsPrefix(default[r], FastForwarded(default[r], tip))
      BY <1>5, <3>2, FastForwardedIs
    <3> QED
      BY <3>1, <3>3
  <2>8. \A q \in Repos : default'[q] = IF q = r THEN f ELSE default[q]
    BY <1>5, <2>7 DEF IInv, TypeOK
  <2>9. default' \in [Repos -> BranchOf(made)]
    BY <1>5, <2>7, <2>8, BranchFacts DEF IInv, TypeOK
  <2>10. ASSUME Alone(p), NEW q \in Repos
         PROVE  TipIsOwn(n, q, default'[q], remote[q])
    <3>1. TipIsOwn(land[p], q, default[q], remote[q])
      BY <1>3, <2>10, LateLander DEF IInv, TipsAreOwn
    <3>2. /\ Merged(n, q) => q = r \/ Merged(land[p], q)
          /\ Merged(n, r)
          /\ MayBeMerged(land[p], q) => MayBeMerged(n, q)
      <4>1. q \in Nat /\ r \in Nat /\ q <= RepoCount
        BY Bounds DEF Repos
      <4>2. /\ q < r + 1 => q = r \/ q < r
            /\ q < r => q < r + 1
            /\ r < r + 1
            /\ r = RepoCount => q = r \/ q < r
        BY <4>1, Bounds
      <4> QED
        BY <1>0, <1>1, <1>3, <2>3, <2>5, <4>2 DEF Merged, MayBeMerged
    <3>3. land[p].pc # "push" /\ land[p].verdict \notin {"landed", "died"}
      BY <1>1, <1>3
    <3>4. CASE q = r
      <4>1. MayBeMerged(n, q)
        BY <3>2, <3>4 DEF MayBeMerged
      <4> QED
        BY <2>4, <3>1, <3>3, <4>1 DEF TipIsOwn
    <3>5. CASE q # r
      BY <2>4, <2>8, <3>1, <3>2, <3>3, <3>5 DEF TipIsOwn
    <3> QED
      BY <3>4, <3>5
  <2>14. ASSUME Alone(p), NEW q \in Repos, Merged(n, q)
         PROVE  Kept(n.plan[q].tip, q)'
    <3>0. UNCHANGED <<patch, resolving>>
      BY <1>1 DEF others
    <3>1. CASE q # r
      <4>1. Merged(land[p], q)
        <5>1. q \in Nat /\ r \in Nat /\ q <= RepoCount
          BY Bounds DEF Repos
        <5> QED
          BY <1>0, <1>1, <1>3, <2>3, <2>5, <2>14, <3>1, <5>1 DEF Merged
      <4>2. Kept(n.plan[q].tip, q)
        BY <1>3, <2>4, <2>14, <4>1, LateLander DEF IInv, MergesKept, Kept
      <4> QED
        BY <2>8, <3>0, <3>1, <4>2 DEF Kept, Contents, Changes
    <3>2. CASE q = r
      <4>1. tip \in Seq(Nat) /\ f \in Seq(Nat) /\ default[r] \in Seq(Nat) /\ tip # <<>>
        BY <1>3, LateLander, BranchFacts, MadeIsBranch
      <4>2. Contents(tip) \subseteq Contents(f)
        BY <2>7, <4>1, PrefixContents
      <4>3. ~ Shares(tip, default[r])
        <5>1. TipIsOwn(land[p], r, default[r], remote[r])
          BY <1>3, <2>14, LateLander DEF IInv, TipsAreOwn
        <5>2. ~ MayBeMerged(land[p], r)
          BY <1>0, <1>1, <1>3, Bounds DEF MayBeMerged, Merged, Repos
        <5> QED
          BY <5>1, <5>2 DEF TipIsOwn
      <4>4. default[r] = <<>>
        <5>1. default[r] # <<>> => Shares(default[r], f)
          BY <2>7, <4>1, PrefixShares
        <5>2. Shares(tip, f)
          BY <2>7, <4>1, PrefixShares
        <5> QED
          BY <4>3, <5>1, <5>2 DEF Shares
      <4>5. resolving[r] = NoLook
        <5>1. land[p].pc \notin {"rollback", "done"} /\ \A l \in Landers \ {p} : land[l].plan = NoPlan
          BY <1>1, <2>14 DEF Alone
        <5> QED
          BY <4>4, <5>1 DEF IInv, Looked
      <4>6. Contents(n.plan[q].tip) \subseteq Contents(default'[q])
        BY <2>4, <2>8, <3>2, <4>2
      <4> QED
        BY <2>4, <3>0, <3>2, <4>5, <4>6 DEF Kept, Contents, Changes
    <3> QED
      BY <3>1, <3>2
  <2>15. \A q \in Repos : /\ IsPrefix(remote[q], remote'[q])
                          /\ default[q] # <<>> => default'[q] # <<>>
    <3>1. f \in Seq(Nat) /\ default[r] \in Seq(Nat)
      BY BranchFacts, MadeIsBranch
    <3>2. default[r] # <<>> => f # <<>>
      BY <2>7, <3>1, PrefixShares DEF Shares
    <3> QED
      BY <1>1, <2>8, <3>2, BranchFacts, PrefixOfItself
  <2>16. ~ (land[p].pc \in {"rollback", "done"})
    BY <1>1
  <2>11. /\ deaths' \in 0 .. MaxDeaths /\ dirty' \in [Repos -> BOOLEAN]
         /\ remote' \in [Repos -> BranchOf(made)]
    BY <1>1, DeathsBounded, BranchFacts DEF IInv, TypeOK
  <2>12. \A q \in Repos : {n.plan[q].tip, n.plan[q].original} \subseteq BranchOf(made)
    BY <1>3, <2>4, LateLander
  <2>13. land[p].plan # NoPlan /\ n.plan # NoPlan /\ land' = [land EXCEPT ![p] = n]
    BY <1>3, <1>5, <2>3, <2>4, LateLander
  <2> HIDE DEF tip
  <2> QED
    BY <1>1, <2>6, <2>9, <2>10, <2>11, <2>12, <2>13, <2>14, <2>15, <2>16, LanderStep
<1> QED
  BY <1>2, <1>4, <1>5

(* rollback_merged, one repo.                                              *)
LEMMA RollbackInv ==
  ASSUME IInv, NEW p \in Landers, Rollback(p)
  PROVE  IInv'
<1>0. PICK b \in Repos : b = land[p].back /\ b < land[p].repo
  <2>1. /\ land[p].back \in 1 .. RepoCount + 1 /\ land[p].repo \in 1 .. RepoCount
        /\ land[p].back < land[p].repo
    BY DEF IInv, TypeOK, Lands, Repos, Rollback
  <2> QED
    BY <2>1, Bounds DEF Repos
<1>1. land[p].pc = "rollback" /\ UNCHANGED <<feature, remote, others, made, deaths>> /\ land[p] \in Lands
  BY DEF Rollback, IInv, TypeOK
<1>2. \E u \in {land[p].unrestored, land[p].unrestored \cup {b}} :
        /\ land' = [land EXCEPT ![p] = [land[p] EXCEPT !.back = b + 1, !.unrestored = u]]
        /\ \/ /\ default' = [default EXCEPT ![b] = land[p].plan[b].original]
              /\ dirty' = [dirty EXCEPT ![b] = FALSE]
           \/ UNCHANGED <<default, dirty>> /\ b \in u
  <2>1. \/ /\ default' = [default EXCEPT ![b] = land[p].plan[b].original]
           /\ dirty' = [dirty EXCEPT ![b] = FALSE]
           /\ land' = [land EXCEPT ![p].back = b + 1]
        \/ /\ land' = [land EXCEPT ![p].back = b + 1, ![p].unrestored = @ \cup {b}]
           /\ UNCHANGED <<default, dirty>>
    BY <1>0 DEF Rollback
  <2>2. [land[p] EXCEPT !.back = b + 1, !.unrestored = land[p].unrestored] = [land[p] EXCEPT !.back = b + 1]
    BY <1>1 DEF Lands
  <2>3. CASE land' = [land EXCEPT ![p].back = b + 1]
    <3>1. land' = [land EXCEPT ![p] = [land[p] EXCEPT !.back = b + 1]]
      BY <2>3
    <3> QED
      BY <2>1, <2>2, <2>3, <3>1
  <2>4. CASE land' = [land EXCEPT ![p].back = b + 1, ![p].unrestored = @ \cup {b}]
    BY <2>1, <2>4 DEF IInv, TypeOK
  <2> QED
    BY <2>1, <2>3, <2>4
<1>3. PICK u \in {land[p].unrestored, land[p].unrestored \cup {b}} :
        /\ land' = [land EXCEPT ![p] = [land[p] EXCEPT !.back = b + 1, !.unrestored = u]]
        /\ \/ /\ default' = [default EXCEPT ![b] = land[p].plan[b].original]
              /\ dirty' = [dirty EXCEPT ![b] = FALSE]
           \/ UNCHANGED <<default, dirty>> /\ b \in u
  BY <1>2
<1> DEFINE n == [land[p] EXCEPT !.back = b + 1, !.unrestored = u]
<1>4. /\ n \in Lands /\ n.pc = "rollback" /\ n.back = b + 1 /\ n.repo = land[p].repo
      /\ n.unrestored = u /\ n.verdict = land[p].verdict
      /\ n.plan = land[p].plan /\ n.approved = land[p].approved /\ n.seen = land[p].seen
  <2>1. b + 1 \in 1 .. RepoCount + 1 /\ u \in SUBSET Repos
    BY <1>1, Bounds DEF Lands, Repos
  <2> QED
    BY <1>1, <2>1 DEF Lands
<1>5. land' = [land EXCEPT ![p] = n]
  BY <1>3
<1> HIDE DEF n
<1>6. /\ land[p].pc \in Late /\ n.pc \in Late /\ n.verdict = "none" /\ land[p].verdict = "none"
  <2>1. land[p].pc \in Late
    BY <1>1 DEF Late
  <2> QED
    BY <1>1, <1>4, <2>1, LateLander
<1>7. InOrder(n) /\ SeenAsPlanned(n)
  <2>1. n.plan = land[p].plan /\ n.approved = land[p].approved /\ n.seen = land[p].seen
    BY <1>4
  <2> QED
    BY ONLY IInv, <1>4, <1>6, <2>1, StaysInOrder
<1>8. /\ \A q \in Repos : {n.plan[q].tip, n.plan[q].original} \subseteq BranchOf(made)
      /\ land[p].plan # NoPlan /\ n.plan # NoPlan
  BY <1>4, <1>6, LateLander
<1>9. \A q \in Repos : \/ default'[q] = default[q] /\ (q # b \/ b \in u)
                       \/ q = b /\ default'[q] = n.plan[q].original
  BY <1>3, <1>4 DEF IInv, TypeOK
<1>10. default' \in [Repos -> BranchOf(made)] /\ dirty' \in [Repos -> BOOLEAN]
  <2>1. \A q \in Repos : default'[q] \in BranchOf(made)
    BY <1>8, <1>9, BranchFacts
  <2> QED
    BY <1>3, <2>1 DEF IInv, TypeOK
<1>11. ASSUME Alone(p), NEW q \in Repos
       PROVE  TipIsOwn(n, q, default'[q], remote[q])
  <2>1. TipIsOwn(land[p], q, default[q], remote[q])
    BY <1>8, <1>11 DEF IInv, TipsAreOwn
  <2>2. ~ Merged(n, q) /\ n.plan[q].original = <<>>
    BY <1>4, <1>6, <2>1 DEF Merged, TipIsOwn
  <2>3. MayBeMerged(land[p], q) => MayBeMerged(n, q) \/ (q = b /\ b \notin u)
    <3>1. b <= q => q = b \/ b + 1 <= q
      BY DEF Repos
    <3>2. land[p].unrestored \subseteq u
      BY <1>3
    <3>4. MayBeMerged(land[p], q) => (b <= q /\ q < land[p].repo) \/ q \in u
      BY <1>0, <1>1, <1>6, <3>2 DEF MayBeMerged, Merged
    <3>5. (b + 1 <= q /\ q < land[p].repo) \/ q \in u => MayBeMerged(n, q)
      BY <1>4 DEF MayBeMerged
    <3> QED
      BY <3>1, <3>4, <3>5
  <2>4. ~ MayBeMerged(n, q) => ~ Shares(n.plan[q].tip, default'[q])
    <3>1. ~ MayBeMerged(land[p], q) => ~ Shares(n.plan[q].tip, default[q])
      BY <1>4, <2>1 DEF TipIsOwn
    <3>2. ~ Shares(n.plan[q].tip, <<>>)
      BY DEF Shares
    <3>3. b \in u => MayBeMerged(n, b)
      BY <1>4 DEF MayBeMerged
    <3> QED
      BY <1>9, <2>2, <2>3, <3>1, <3>2, <3>3
  <2>5. ~ Shares(n.plan[q].tip, remote[q])
    BY <1>1, <1>4, <1>6, <2>1 DEF TipIsOwn
  <2> QED
    BY <2>2, <2>4, <2>5 DEF TipIsOwn
<1>12. deaths' \in 0 .. MaxDeaths /\ remote' \in [Repos -> BranchOf(made)]
  BY <1>1, DeathsBounded, BranchFacts DEF IInv, TypeOK
<1>13. \A q \in Repos : ~ Merged(n, q) /\ IsPrefix(remote[q], remote'[q])
  BY <1>1, <1>4, <1>6, BranchFacts, PrefixOfItself DEF Merged
<1> QED
  BY <1>1, <1>4, <1>5, <1>7, <1>8, <1>10, <1>11, <1>12, <1>13, LanderStep

-----------------------------------------------------------------------------
(* The end of a land.                                                      *)

(* The end of a rollback: what is left merged is reported.                 *)
LEMMA RolledBackInv ==
  ASSUME IInv, NEW p \in Landers, RolledBack(p)
  PROVE  IInv'
<1>1. /\ land[p].pc = "rollback" /\ land[p].back >= land[p].repo
      /\ UNCHANGED <<feature, default, remote, dirty, others, made, deaths>>
      /\ land[p].pc \in Late
  BY DEF RolledBack, Late
<1>2. PICK v \in {"refused", "partial"} :
        Ends(p, v) /\ (v = "refused" => land[p].unrestored = {})
  <2>1. Ends(p, IF land[p].unrestored = {} THEN "refused" ELSE "partial")
    BY DEF RolledBack
  <2>2. CASE land[p].unrestored = {}
    BY <2>1, <2>2
  <2>3. CASE land[p].unrestored # {}
    BY <2>1, <2>3
  <2> QED
    BY <2>2, <2>3
<1>3. land[p].verdict = "none" /\ land[p] \in Lands
  BY <1>1, LateLander
<1>4. \A r \in Repos : ~ (land[p].back <= r /\ r < land[p].repo)
  BY <1>1, <1>3, Bounds DEF Lands, Repos
<1>5. v = "refused" => \A r \in Repos : ~ MayBeMerged(land[p], r)
  BY <1>1, <1>2, <1>3, <1>4 DEF MayBeMerged, Merged
<1>6. v \in {"refused", "skipped", "partial", "died"} /\ deaths' \in 0 .. MaxDeaths
  BY <1>1, DeathsBounded
<1> QED
  BY <1>1, <1>2, <1>5, <1>6, EndsInv

(* A lander that is killed: the report says nothing of its merges.         *)
LEMMA DiesInv ==
  ASSUME IInv, NEW p \in Landers, Dies(p)
  PROVE  IInv'
<1>1. /\ land[p].pc \in {"merge", "ff", "rollback", "push"} /\ Ends(p, "died")
      /\ deaths < MaxDeaths /\ deaths' = deaths + 1
      /\ UNCHANGED <<feature, default, remote, dirty, others, made>>
  BY DEF Dies
<1>2. deaths' \in 0 .. MaxDeaths
  BY <1>1, DeathsBounded, Bounds
<1> QED
  BY <1>1, <1>2, EndsInv

(* The lander after one push, or one that failed.                          *)
LEMMA PushedIs ==
  ASSUME NEW l \in Lands, l.pc = "push"
  PROVE  \E n \in Lands :
         /\ n = [NextRepo(l, "done") EXCEPT !.verdict = IF l.repo = RepoCount THEN "landed" ELSE "none"]
         /\ n.plan = l.plan /\ n.approved = l.approved /\ n.seen = l.seen
         /\ n.unrestored = l.unrestored
         /\ (n.pc = "push" /\ n.verdict = "none") \/ (n.pc = "done" /\ n.verdict = "landed")
<1>1. "done" \in Pcs /\ {"landed", "none"} \subseteq Verdicts
  BY DEF Pcs, Verdicts
<1>2. PICK m \in Lands : /\ m = NextRepo(l, "done") /\ m.plan = l.plan /\ m.approved = l.approved
                         /\ m.seen = l.seen /\ m.unrestored = l.unrestored
                         /\ \/ l.repo < RepoCount /\ m.pc = "push"
                            \/ l.repo = RepoCount /\ m.pc = "done"
  BY <1>1, NextRepoIs
<1>3. l.repo < RepoCount => l.repo # RepoCount
  BY Bounds DEF Lands, Repos
<1>4. PICK v \in Verdicts : v = IF l.repo = RepoCount THEN "landed" ELSE "none"
  BY <1>1
<1> DEFINE n == [m EXCEPT !.verdict = v]
<1>5. /\ n \in Lands /\ n.plan = m.plan /\ n.approved = m.approved /\ n.seen = m.seen
      /\ n.unrestored = m.unrestored /\ n.pc = m.pc /\ n.verdict = v
  BY DEF Lands
<1>6. n = [NextRepo(l, "done") EXCEPT !.verdict = IF l.repo = RepoCount THEN "landed" ELSE "none"]
  BY <1>2, <1>4
<1> HIDE DEF n
<1> QED
  BY <1>2, <1>3, <1>4, <1>5, <1>6

(* Phase 3, one repo: everything is merged already.                        *)
LEMMA PushInv ==
  ASSUME IInv, NEW p \in Landers, Push(p)
  PROVE  IInv'
<1>0. PICK r \in Repos : r = land[p].repo
  BY DEF IInv, TypeOK, Lands
<1>1. land[p].pc = "push" /\ UNCHANGED <<feature, default, dirty, others, made, deaths>> /\ land[p] \in Lands
  BY DEF Push, IInv, TypeOK
<1>2. PICK l \in Lands :
        /\ l.pc = "push" /\ l.plan = land[p].plan /\ l.approved = land[p].approved
        /\ l.seen = land[p].seen /\ l.unrestored = land[p].unrestored
        /\ land' = [land EXCEPT ![p] = [NextRepo(l, "done") EXCEPT
                      !.verdict = IF l.repo = RepoCount THEN "landed" ELSE "none"]]
        /\ \/ IsPrefix(remote[r], default[r]) /\ remote' = [remote EXCEPT ![r] = default[r]]
           \/ UNCHANGED remote
  <2> DEFINE Then(l) == [NextRepo(l, "done") EXCEPT
                           !.verdict = IF l.repo = RepoCount THEN "landed" ELSE "none"]
             Pushed(l) == [l EXCEPT !.pushed = @ \cup {r}]
             c == Pushed(land[p])
  <2>1. \/ /\ IsPrefix(remote[r], default[r]) /\ remote' = [remote EXCEPT ![r] = default[r]]
           /\ land' = [land EXCEPT ![p] = Then(c)]
        \/ UNCHANGED remote /\ land' = [land EXCEPT ![p] = Then(land[p])]
    <3>1. \/ /\ IsPrefix(remote[r], default[r]) /\ remote' = [remote EXCEPT ![r] = default[r]]
             /\ land' = [land EXCEPT ![p] = Then(Pushed(@))]
          \/ UNCHANGED remote /\ land' = [land EXCEPT ![p] = Then(@)]
      BY <1>0 DEF Push
    <3>2. DOMAIN land = Landers
      BY DEF IInv, TypeOK
    <3> HIDE DEF Then, Pushed
    <3>3. [land EXCEPT ![p] = Then(Pushed(@))] = [land EXCEPT ![p] = Then(c)]
      BY <3>2
    <3>4. [land EXCEPT ![p] = Then(@)] = [land EXCEPT ![p] = Then(land[p])]
      BY <3>2
    <3> HIDE DEF c
    <3> QED
      BY <3>1, <3>3, <3>4
  <2>2. /\ c \in Lands /\ c.pc = "push" /\ c.plan = land[p].plan /\ c.approved = land[p].approved
        /\ c.seen = land[p].seen /\ c.unrestored = land[p].unrestored
    BY <1>1 DEF Lands
  <2> HIDE DEF c
  <2>3. CASE /\ IsPrefix(remote[r], default[r]) /\ remote' = [remote EXCEPT ![r] = default[r]]
             /\ land' = [land EXCEPT ![p] = Then(c)]
    BY <2>2, <2>3
  <2>4. CASE UNCHANGED remote /\ land' = [land EXCEPT ![p] = Then(land[p])]
    BY <1>1, <2>4
  <2> HIDE DEF Then, Pushed
  <2> QED
    BY <2>1, <2>3, <2>4
<1>3. PICK n \in Lands :
        /\ land' = [land EXCEPT ![p] = n]
        /\ n.plan = l.plan /\ n.approved = l.approved /\ n.seen = l.seen
        /\ n.unrestored = l.unrestored
        /\ (n.pc = "push" /\ n.verdict = "none") \/ (n.pc = "done" /\ n.verdict = "landed")
  <2>1. PICK n \in Lands :
         /\ n = [NextRepo(l, "done") EXCEPT !.verdict = IF l.repo = RepoCount THEN "landed" ELSE "none"]
         /\ n.plan = l.plan /\ n.approved = l.approved /\ n.seen = l.seen
         /\ n.unrestored = l.unrestored
         /\ (n.pc = "push" /\ n.verdict = "none") \/ (n.pc = "done" /\ n.verdict = "landed")
    BY <1>2, PushedIs
  <2>2. land' = [land EXCEPT ![p] = n]
    BY <1>2, <2>1
  <2> QED
    BY <2>1, <2>2
<1>4. land[p].pc \in Late /\ land[p].plan # NoPlan /\ land[p].unrestored = {}
  <2>1. land[p].pc \in Late
    BY <1>1 DEF Late
  <2> QED
    BY <1>1, <2>1, LateLander
<1>5. n.plan = land[p].plan /\ n.approved = land[p].approved /\ n.seen = land[p].seen
  BY <1>2, <1>3
<1>6. /\ \/ n.pc \in Late /\ n.verdict = "none"
         \/ n.pc = "done" /\ n.verdict = "landed"
      /\ n.unrestored = {}
  BY <1>2, <1>3, <1>4 DEF Late
<1>7. InOrder(n) /\ SeenAsPlanned(n)
  BY ONLY IInv, <1>4, <1>5, <1>6, StaysInOrder
<1>8. ASSUME Alone(p), NEW q \in Repos
      PROVE  TipIsOwn(n, q, default[q], remote'[q])
  <2>1. TipIsOwn(land[p], q, default[q], remote[q])
    BY <1>4, <1>8 DEF IInv, TipsAreOwn
  <2>2. Merged(land[p], q) /\ MayBeMerged(n, q) /\ (n.pc = "push" \/ n.verdict = "landed")
    BY <1>1, <1>3 DEF Merged, MayBeMerged
  <2> QED
    BY <1>5, <2>1, <2>2 DEF TipIsOwn
<1>11. ASSUME Alone(p), NEW q \in Repos
       PROVE  Kept(n.plan[q].tip, q)'
  <2>1. Merged(land[p], q)
    BY <1>1 DEF Merged
  <2>2. Kept(n.plan[q].tip, q)
    BY <1>4, <1>5, <1>11, <2>1 DEF IInv, MergesKept, Kept
  <2> QED
    BY <1>1, <2>2 DEF Kept, Contents, Changes, others
<1>12. \A q \in Repos : IsPrefix(remote[q], remote'[q])
  <2>1. \A q \in Repos : remote'[q] = remote[q] \/ (remote'[q] = default[q] /\ IsPrefix(remote[q], default[q]))
    BY <1>2 DEF IInv, TypeOK
  <2> QED
    BY <2>1, BranchFacts, PrefixOfItself
<1>9. \A q \in Repos : {n.plan[q].tip, n.plan[q].original} \subseteq BranchOf(made)
  BY <1>4, <1>5, LateLander
<1>10. /\ deaths' \in 0 .. MaxDeaths /\ dirty' \in [Repos -> BOOLEAN]
       /\ default' \in [Repos -> BranchOf(made)] /\ remote' \in [Repos -> BranchOf(made)]
  <2>1. \A q \in Repos : remote'[q] \in {remote[q], default[q]}
    BY <1>2 DEF IInv, TypeOK
  <2>2. DOMAIN remote' = Repos /\ remote' = [q \in Repos |-> remote'[q]]
    BY <1>2 DEF IInv, TypeOK
  <2> QED
    BY <1>1, <2>1, <2>2, DeathsBounded, BranchFacts DEF IInv, TypeOK
<1> QED
  BY <1>1, <1>3, <1>4, <1>5, <1>7, <1>8, <1>9, <1>10, <1>11, <1>12, LanderStep

-----------------------------------------------------------------------------
(* The theorems of the invariant.                                          *)

(* Nothing is landed at first ...                                          *)
LEMMA InitIInv == Init => IInv
<1> SUFFICES ASSUME Init PROVE IInv
  OBVIOUS
<1>1. /\ feature = [r \in Repos |-> <<0>>] /\ default = [r \in Repos |-> <<>>]
      /\ remote = [r \in Repos |-> <<>>] /\ dirty = [r \in Repos |-> FALSE]
      /\ land = [p \in Landers |-> NewLand] /\ made = 0 /\ deaths = 0
      /\ patch = [c \in Commits |-> {c}] /\ resolving = [r \in Repos |-> NoLook]
  BY DEF Init
<1>2. <<0>> \in BranchOf(0) /\ <<>> \in BranchOf(0) /\ <<0>> # <<>>
  <2>1. <<0>> \in Seq(0 .. 0) /\ Len(<<0>>) = 1 /\ <<>> \in Seq(0 .. 0) /\ Len(<<>>) = 0
    OBVIOUS
  <2> QED
    BY <2>1 DEF BranchOf
<1>3. 0 \in 0 .. MaxCommits /\ 0 \in 0 .. MaxDeaths
  BY Bounds
<1>4. <<0>> \in Branch /\ <<>> \in Branch
  BY <1>2, <1>3, MadeIsBranch
<1>5. /\ NewLand \in Lands /\ NewLand.plan = NoPlan /\ NewLand.pc = "idle"
      /\ NewLand.verdict = "none" /\ NewLand.unrestored = {} /\ NewLand.moved = FALSE
  <2>1. /\ "idle" \in Pcs /\ "none" \in Verdicts /\ 1 \in Repos /\ 1 \in 1 .. RepoCount + 1
        /\ 0 \in 0 .. MaxCommits + 1
    BY Bounds DEF Pcs, Verdicts
  <2>2. NoPlan \in [Repos -> [tip : Branch, original : Branch, remote : Branch]]
    BY <1>4 DEF NoPlan
  <2> QED
    BY <1>4, <2>1, <2>2 DEF NewLand, Lands
<1>6. TypeOK
  <2>1. NoLook \in [head : Branch, tip : Branch]
    BY <1>4 DEF NoLook
  <2>2. /\ patch \in [Commits -> SUBSET Commits]
        /\ resolving \in [Repos -> [head : Branch, tip : Branch]]
    BY <1>1, <2>1
  <2> QED
    BY <1>1, <1>3, <1>4, <1>5, <2>2 DEF TypeOK
<1>7. BranchesMade
  <2>1. \A r \in Repos : NoPlan[r].tip = <<>> /\ NoPlan[r].original = <<>>
    BY DEF NoPlan
  <2> QED
    BY <1>1, <1>2, <1>5, <2>1 DEF BranchesMade
<1>8. \A p \in Landers : InOrder(land[p]) /\ SeenAsPlanned(land[p])
  <2>1. InOrder(NewLand) /\ SeenAsPlanned(NewLand)
    BY <1>5 DEF InOrder, SeenAsPlanned, Early, Late
  <2> QED
    BY <1>1, <2>1
<1>9. NothingLanded
  BY <1>1 DEF NothingLanded, Shares
<1>10. TipsAreOwn
  BY <1>1, <1>5 DEF TipsAreOwn
<1>11. (\A r \in Repos : Looked(r)) /\ MergesKept
  BY <1>1, <1>5 DEF Looked, MergesKept
<1> QED
  BY <1>6, <1>7, <1>8, <1>9, <1>10, <1>11 DEF IInv

(* ... a step of another program changes nothing ...                       *)
LEMMA StutterIInv == IInv /\ UNCHANGED vars => IInv'
<1> SUFFICES ASSUME IInv, UNCHANGED vars PROVE IInv'
  OBVIOUS
<1>1. TypeOK' /\ BranchesMade'
  BY DEF IInv, TypeOK, BranchesMade, vars
<1>2. (\A p \in Landers : InOrder(land[p]) /\ SeenAsPlanned(land[p]))' /\ NothingLanded'
  BY DEF IInv, NothingLanded, vars
<1>3. TipsAreOwn'
  BY DEF IInv, TipsAreOwn, Alone, vars
<1>4. (\A r \in Repos : Looked(r))' /\ MergesKept'
  BY DEF IInv, Looked, MergesKept, Alone, Contents, Changes, vars, others
<1> QED
  BY <1>1, <1>2, <1>3, <1>4 DEF IInv

(* ... and every step keeps the invariant.                                 *)
LEMMA NextIInv == IInv /\ [Next]_vars => IInv'
<1> SUFFICES ASSUME IInv, [Next]_vars PROVE IInv'
  OBVIOUS
<1>1. ASSUME NEW p \in Landers, Preview(p) \/ Apply(p) PROVE IInv'
  BY <1>1, PreviewInv, ApplyInv
<1>2. ASSUME NEW p \in Landers, ApplyStep(p) PROVE IInv'
  <2>1. Preflight(p) \/ RunChecks(p) \/ Validate(p) => IInv'
    BY PreflightInv, RunChecksInv, ValidateInv
  <2>2. Lift(p) \/ Recheck(p) \/ FastForward(p) => IInv'
    BY LiftInv, RecheckInv, FastForwardInv
  <2>3. Rollback(p) \/ RolledBack(p) \/ Push(p) => IInv'
    BY RollbackInv, RolledBackInv, PushInv
  <2> QED
    BY <1>2, <2>1, <2>2, <2>3 DEF ApplyStep
<1>3. ASSUME NEW p \in Landers, Dies(p) PROVE IInv'
  BY <1>3, DiesInv
<1>4. ASSUME NEW r \in Repos, FeatureCommits(r) \/ FeatureAmends(r) PROVE IInv'
  BY <1>4, FeatureCommitsInv
<1>5. ASSUME NEW r \in Repos, RemoteMoves(r) \/ CommitsOnDefault(r) PROVE IInv'
  BY <1>5, RemoteMovesInv
<1>6. ASSUME NEW r \in Repos, Pull(r) \/ EditsDefault(r) PROVE IInv'
  BY <1>6, PullInv, EditsDefaultInv
<1>7. ASSUME NEW r \in Repos, ResolveLooks(r) \/ ResolveResets(r) PROVE IInv'
  BY <1>7, ResolveLooksInv, ResolveResetsInv
<1>8. CASE UNCHANGED vars
  BY <1>8, StutterIInv
<1> QED
  BY <1>1, <1>2, <1>3, <1>4, <1>5, <1>6, <1>7, <1>8 DEF Next

(* The inductive invariant holds.                                          *)
THEOREM Inductive == Spec => []IInv
BY InitIInv, NextIInv, PTL DEF Spec

(* What is seen, planned and approved is one remote tip.                   *)
LEMMA IInvGivesLandInv == IInv => LandInv
<1> SUFFICES ASSUME IInv PROVE LandInv
  OBVIOUS
<1>1. ASSUME NEW p \in Landers,
             land[p].pc \in {"merge", "ff", "rollback", "push"} \/ land[p].verdict = "landed",
             NEW r \in Repos
      PROVE  land[p].seen[r] = land[p].approved[r].remote
  <2>1. InOrder(land[p]) /\ SeenAsPlanned(land[p])
    BY DEF IInv
  <2>2. land[p].pc \in Late \/ land[p].verdict = "landed"
    BY <1>1 DEF Late
  <2>3. land[p].seen[r] = land[p].plan[r].remote
    BY <2>1, <2>2 DEF SeenAsPlanned
  <2>4. land[p].plan[r].remote = land[p].approved[r].remote
    BY <2>1, <2>2 DEF InOrder
  <2> QED
    BY <2>3, <2>4
<1>2. MovedRemoteStopsAll
  BY <1>1 DEF MovedRemoteStopsAll
<1> QED
  BY <1>2 DEF IInv, LandInv

(* No land writes a worktree or pushes that has met a remote default       *)
(* elsewhere than at the approved preview, even when lands overlap.        *)
THEOREM InvariantHolds == Spec => []LandInv
BY Inductive, IInvGivesLandInv, PTL

(* The tip of a land is on a branch just when it is merged there.          *)
LEMMA IInvGivesAllOrNone == IInv => AllOrNone
<1> SUFFICES ASSUME IInv, NEW p \in Landers, Alone(p), NEW r \in Repos
             PROVE  /\ land[p].verdict = "landed" =>
                         Contents(land[p].plan[r].tip) \subseteq Contents(default[r])
                    /\ land[p].verdict \in {"refused", "skipped"} /\ r \in ToLand(p)
                         => ~ Carries(p, r)
  BY DEF AllOrNone, LandedAlone, NeverSilentlyPartial, ToLand
<1> DEFINE tip == land[p].plan[r].tip
<1>1. InOrder(land[p])
  BY DEF IInv
<1>2. CASE land[p].verdict = "landed"
  <2>1. land[p].plan # NoPlan
    BY <1>1, <1>2 DEF InOrder
  <2>2. Merged(land[p], r)
    BY <1>2 DEF Merged
  <2> QED
    BY <1>2, <2>1, <2>2 DEF IInv, MergesKept
<1>3. CASE land[p].verdict \in {"refused", "skipped"} /\ r \in ToLand(p)
  <2>1. land[p].plan # NoPlan
    BY <1>3 DEF ToLand, NoPlan
  <2>2. TipIsOwn(land[p], r, default[r], remote[r])
    BY <2>1 DEF IInv, TipsAreOwn
  <2>3. land[p].pc = "done" /\ land[p].unrestored = {}
    BY <1>1, <1>3 DEF InOrder
  <2>4. ~ Shares(tip, default[r])
    BY <1>3, <2>2, <2>3 DEF TipIsOwn, MayBeMerged, Merged
  <2>5. tip # <<>> /\ tip \in Seq(Nat) /\ default[r] \in Seq(Nat)
    <3>1. tip # <<>>
      BY <1>1, <2>1 DEF InOrder
    <3>2. tip \in BranchOf(made)
      BY DEF IInv, BranchesMade
    <3> QED
      BY <3>1, <3>2, BranchFacts, MadeIsBranch
  <2>6. ~ IsPrefix(tip, default[r])
    BY <2>4, <2>5, PrefixShares
  <2> QED
    BY <1>3, <2>6 DEF Carries
<1> QED
  BY <1>2, <1>3

(* A land that is alone and not killed merges every repo or none, and what *)
(* it reports is the state of all of them, whatever others commit, pull or *)
(* push meanwhile.                                                         *)
THEOREM LandsAllOrNone == Spec => []AllOrNone
BY Inductive, IInvGivesAllOrNone, PTL

-----------------------------------------------------------------------------
(* The default branch moves forward.                                       *)

(* What one step may do to the default branch of the repo r.               *)
Forward(r) ==
  \/ IsPrefix(default[r], default'[r])
  \/ \E p \in Landers : land[p].pc = "rollback" /\ default'[r] = land[p].plan[r].original
  \/ /\ resolving[r] # NoLook /\ resolving'[r] = NoLook
     /\ default[r] = resolving[r].head => Contents(default[r]) \subseteq Contents(default'[r])

(* A step that leaves the branch alone.                                    *)
LEMMA NotTouched ==
  ASSUME IInv, NEW r \in Repos, default'[r] = default[r]
  PROVE  Forward(r)
BY BranchFacts, PrefixOfItself DEF Forward

(* The steps of a lander ...                                               *)
LEMMA LandersMoveForward ==
  ASSUME IInv, NEW p \in Landers, Preview(p) \/ Apply(p) \/ ApplyStep(p) \/ Dies(p), NEW r \in Repos
  PROVE  Forward(r)
<1>1. CASE UNCHANGED default
  BY <1>1, NotTouched
<1>2. CASE FastForward(p)
  <2>0. PICK b \in Repos : b = land[p].repo
    BY DEF IInv, TypeOK, Lands
  <2>1. PICK t \in Seq(Nat) : t = land[p].plan[b].tip
    <3>1. land[p].plan[b].tip \in BranchOf(made) /\ made \in 0 .. MaxCommits
      BY DEF IInv, BranchesMade, TypeOK
    <3> QED
      BY <3>1, MadeIsBranch
  <2>2. \/ UNCHANGED default
        \/ /\ IsPrefix(default[b], t) \/ IsPrefix(t, default[b])
           /\ default' = [default EXCEPT ![b] = FastForwarded(default[b], t)]
    BY <1>2, <2>0, <2>1 DEF FastForward, IInv, TypeOK
  <2>3. CASE UNCHANGED default
    BY <2>3, NotTouched
  <2>4. CASE /\ IsPrefix(default[b], t) \/ IsPrefix(t, default[b])
             /\ default' = [default EXCEPT ![b] = FastForwarded(default[b], t)]
    <3>1. IsPrefix(default[b], FastForwarded(default[b], t))
      BY <2>4, BranchFacts, FastForwardedIs
    <3>2. default'[r] = IF r = b THEN FastForwarded(default[b], t) ELSE default[r]
      BY <2>4 DEF IInv, TypeOK
    <3>3. CASE r = b
      BY <3>1, <3>2, <3>3 DEF Forward
    <3>4. CASE r # b
      BY <3>2, <3>4, NotTouched
    <3> QED
      BY <3>3, <3>4
  <2> QED
    BY <2>2, <2>3, <2>4
<1>3. CASE Rollback(p)
  <2>1. land[p].pc = "rollback" /\ default'[r] \in {default[r], land[p].plan[r].original}
    BY <1>3 DEF Rollback, IInv, TypeOK
  <2> QED
    BY <2>1, NotTouched DEF Forward
<1>4. Preview(p) \/ Apply(p) \/ Preflight(p) \/ RunChecks(p) \/ Dies(p) => UNCHANGED default
  BY DEF Preview, Apply, Preflight, RunChecks, Dies
<1>5. Validate(p) \/ Lift(p) \/ Recheck(p) \/ RolledBack(p) \/ Push(p) => UNCHANGED default
  BY DEF Validate, Lift, Recheck, RolledBack, Push
<1> QED
  BY <1>1, <1>2, <1>3, <1>4, <1>5 DEF ApplyStep

(* ... and those of everybody else.                                        *)
LEMMA OthersMoveForward ==
  ASSUME IInv, NEW q \in Repos, NEW r \in Repos,
         \/ FeatureCommits(q) \/ FeatureAmends(q) \/ RemoteMoves(q)
         \/ CommitsOnDefault(q) \/ Pull(q) \/ EditsDefault(q)
  PROVE  Forward(r)
<1>1. CASE UNCHANGED default
  BY <1>1, NotTouched
<1>2. CASE CommitsOnDefault(q)
  <2>1. default' = [default EXCEPT ![q] = Append(default[q], made + 1)]
    BY <1>2 DEF CommitsOnDefault, NewCommit
  <2>2. default'[r] \in {default[r], Append(default[r], made + 1)}
    BY <2>1 DEF IInv, TypeOK
  <2>3. default[r] \in Seq(Nat) /\ made + 1 \in Nat
    BY BranchFacts
  <2>4. IsPrefix(default[r], Append(default[r], made + 1))
    BY <2>3, PrefixOfAppended
  <2> QED
    BY <2>2, <2>4, NotTouched DEF Forward
<1>3. CASE Pull(q)
  <2>1. IsPrefix(default[q], remote[q]) /\ default' = [default EXCEPT ![q] = remote[q]]
    BY <1>3 DEF Pull, IsStrictPrefix
  <2>2. default'[r] = IF r = q THEN remote[q] ELSE default[r]
    BY <2>1 DEF IInv, TypeOK
  <2>3. CASE r = q
    BY <2>1, <2>2, <2>3 DEF Forward
  <2>4. CASE r # q
    BY <2>2, <2>4, NotTouched
  <2> QED
    BY <2>3, <2>4
<1>4. FeatureCommits(q) \/ FeatureAmends(q) \/ RemoteMoves(q) \/ EditsDefault(q) => UNCHANGED default
  BY DEF FeatureCommits, FeatureAmends, RemoteMoves, EditsDefault
<1> QED
  BY <1>1, <1>2, <1>3, <1>4

(* A pull that resolves drops what it has found upstream.                  *)
LEMMA ResolvesMoveForward ==
  ASSUME IInv, NEW q \in Repos, NEW r \in Repos, ResolveLooks(q) \/ ResolveResets(q)
  PROVE  Forward(r)
<1>1. CASE default'[r] = default[r]
  BY <1>1, NotTouched
<1>2. CASE default'[r] # default[r]
  <2>1. ResolveResets(q)
    BY <1>2 DEF ResolveLooks
  <2>2. PICK m \in {resolving[q].tip, remote[q]} : default' = [default EXCEPT ![q] = m]
    BY <1>2, <2>1 DEF ResolveResets
  <2>3. q = r /\ default'[r] = m /\ resolving[r] # NoLook /\ resolving'[r] = NoLook
    BY <1>2, <2>1, <2>2 DEF ResolveResets, IInv, TypeOK
  <2>4. /\ resolving[r].tip \in BranchOf(made) /\ IsPrefix(resolving[r].tip, remote[r])
        /\ Contents(resolving[r].head) \subseteq Contents(resolving[r].tip)
    BY <2>3 DEF IInv, Looked
  <2>5. Contents(resolving[r].tip) \subseteq Contents(remote[r])
    BY <2>4, BranchFacts, MadeIsBranch, PrefixContents
  <2>6. Contents(resolving[r].head) \subseteq Contents(m)
    BY <2>2, <2>3, <2>4, <2>5
  <2> QED
    BY <2>3, <2>6 DEF Forward
<1> QED
  BY <1>1, <1>2

(* A default branch never loses a commit but to the rollback of a land,    *)
(* which takes it back to the head that land had found, and to a pull that *)
(* resolves: that one loses no change, unless the branch has moved since   *)
(* the pull looked at it.                                                  *)
THEOREM MovesForward == Spec => DefaultOnlyMovesForward
<1> DEFINE Moves == \A r \in Repos :
             \/ IsPrefix(default[r], default'[r])
             \/ \E p \in Landers : /\ land[p].pc = "rollback"
                                   /\ default'[r] = land[p].plan[r].original
             \/ /\ resolving[r] # NoLook /\ resolving'[r] = NoLook
                /\ default[r] = resolving[r].head => Contents(default[r]) \subseteq Contents(default'[r])
<1>1. IInv /\ [Next]_vars => [Moves]_vars
  <2> SUFFICES ASSUME IInv, Next PROVE Moves
    OBVIOUS
  <2>1. ASSUME NEW p \in Landers, Preview(p) \/ Apply(p) \/ ApplyStep(p) \/ Dies(p)
        PROVE  Moves
    BY <2>1, LandersMoveForward DEF Forward
  <2>2. ASSUME NEW q \in Repos,
               \/ FeatureCommits(q) \/ FeatureAmends(q) \/ RemoteMoves(q)
               \/ CommitsOnDefault(q) \/ Pull(q) \/ EditsDefault(q)
        PROVE  Moves
    BY <2>2, OthersMoveForward DEF Forward
  <2>3. ASSUME NEW q \in Repos, ResolveLooks(q) \/ ResolveResets(q)
        PROVE  Moves
    BY <2>3, ResolvesMoveForward DEF Forward
  <2> HIDE DEF Moves
  <2> QED
    BY <2>1, <2>2, <2>3 DEF Next
<1>2. DefaultOnlyMovesForward <=> [][Moves]_vars
  BY DEF DefaultOnlyMovesForward
<1> HIDE DEF Moves
<1> QED
  BY <1>1, <1>2, Inductive, PTL DEF Spec
=============================================================================
