------------------------- MODULE FeatureTreeProofs -------------------------
(***************************************************************************)
(* Proofs about FeatureTree for any number of features and of processes,   *)
(* any hall, any bounds, and a command or a file operation that fails or   *)
(* is killed anywhere:                                                     *)
(*                                                                         *)
(*   - for any commands, a tear-down without --force destroys no unsaved   *)
(*     work but what appeared while it ran (KnowsRisk);                    *)
(*   - for an Orderly workload, where one process runs commands or all of  *)
(*     them only tear down, the tree stays sound, a record goes after its  *)
(*     worktree, a cleanup removes what its approval saw and a prune takes *)
(*     a delivered subtree as a whole (IInv).                              *)
(*                                                                         *)
(* Every command changes a leaf of the tree, and a tree of which a leaf is *)
(* removed, added or moved stays sound.  A tear-down removes leaves because*)
(* what it has still to remove is closed under subfeatures.  A prune sees  *)
(* its list deepest first, so that what lies below a feature was judged    *)
(* before it: it is gone, or there is a reason why it stays that keeps the *)
(* feature as well.                                                        *)
(*                                                                         *)
(* The ancestors of a feature are a recursive function.  What holds of all *)
(* of them is shown for the least number for which it would fail.          *)
(***************************************************************************)
EXTENDS FeatureTree, FiniteSetTheorems, TLAPS

(* The bounds, and None is no feature, record or branch.                   *)
LEMMA Constants ==
  /\ FeatureCount \in Nat /\ Root \notin Features /\ None \notin Features \cup {Root}
  /\ None \notin Records \cup Branches
BY FeatureTreeAssumption, NoRecordAssumption DEF Features, Root

-----------------------------------------------------------------------------
(* Ancestors.                                                              *)

(* A set of numbers that is not empty has a least one.                     *)
LEMMA Least ==
  ASSUME NEW S \in SUBSET Nat, S # {}
  PROVE  \E n \in S : \A m \in S : ~ (m < n)
<1>1. PICK n \in S : \A m \in S : <<m, n>> \notin OpToRel(<, Nat)
  BY NatLessThanWellFounded, WFMin
<1>2. \A m \in S : m < n => <<m, n>> \in OpToRel(<, Nat)
  BY DEF OpToRel
<1> QED BY <1>1, <1>2

Parent(tree, g) == IF g \in DOMAIN tree THEN tree[g] ELSE Root

Chain(tree, f, k, g) == g = [n \in 0 .. k |-> IF n = 0 THEN f ELSE Parent(tree, g[n - 1])]

(* A chain of parents of any length up to the number of features exists.   *)
LEMMA ChainExists ==
  ASSUME NEW tree, NEW f, NEW k \in 0 .. FeatureCount
  PROVE  \E g : Chain(tree, f, k, g)
<1> DEFINE Bad == {j \in 0 .. FeatureCount : ~ \E g : Chain(tree, f, j, g)}
<1>0. FeatureCount \in Nat
  BY Constants
<1>1. SUFFICES ASSUME Bad # {} PROVE FALSE
  OBVIOUS
<1>a. Bad \in SUBSET Nat
  BY <1>0
<1>b. \A j \in Bad : j \in 0 .. FeatureCount /\ ~ \E g : Chain(tree, f, j, g)
  OBVIOUS
<1>c. \A j \in 0 .. FeatureCount : j \notin Bad => \E g : Chain(tree, f, j, g)
  OBVIOUS
<1> HIDE DEF Bad
<1>2. PICK j \in Bad : \A m \in Bad : ~ (m < j)
  BY <1>1, <1>a, Least
<1>3. j # 0
  <2>1. Chain(tree, f, 0, [n \in 0 .. 0 |-> f])
    BY DEF Chain
  <2> QED BY <2>1, <1>2, <1>b
<1>4. PICK g : Chain(tree, f, j - 1, g)
  <2>1. j - 1 \in 0 .. FeatureCount /\ j - 1 < j
    BY <1>0, <1>2, <1>3, <1>b
  <2> QED BY <2>1, <1>2, <1>c
<1> DEFINE h == [n \in 0 .. j |-> IF n = j THEN Parent(tree, g[j - 1]) ELSE g[n]]
<1>5. \A n \in 0 .. j : h[n] = IF n = 0 THEN f ELSE Parent(tree, h[n - 1])
  <2> TAKE n \in 0 .. j
  <2>1. CASE n = j
    BY <2>1, <1>0, <1>2, <1>3, <1>b
  <2>2. CASE n # j
    <3>1. n \in 0 .. j - 1 /\ h[n] = g[n] /\ (n # 0 => h[n - 1] = g[n - 1])
      BY <2>2, <1>0, <1>2, <1>b
    <3>2. g[n] = IF n = 0 THEN f ELSE Parent(tree, g[n - 1])
      BY <3>1, <1>4 DEF Chain
    <3> QED BY <3>1, <3>2
  <2> QED BY <2>1, <2>2
<1>6. Chain(tree, f, j, h)
  <2> HIDE DEF Parent
  <2>1. h = [n \in 0 .. j |-> h[n]]
    OBVIOUS
  <2> QED BY <2>1, <1>5 DEF Chain
<1> QED BY <1>2, <1>6, <1>b

(* What Ancestor is, step by step.                                         *)
LEMMA AncestorDef ==
  ASSUME NEW tree, NEW f
  PROVE  /\ Ancestor(tree, f)[0] = f
         /\ \A n \in 1 .. FeatureCount :
              Ancestor(tree, f)[n] = Parent(tree, Ancestor(tree, f)[n - 1])
<1>0. FeatureCount \in Nat
  BY Constants
<1>a. FeatureCount \in 0 .. FeatureCount
  BY <1>0
<1>1. \E g : Chain(tree, f, FeatureCount, g)
  BY <1>a, ChainExists
<1>2. Ancestor(tree, f) = CHOOSE g : Chain(tree, f, FeatureCount, g)
  BY DEF Ancestor, Parent, Chain
<1>3. Chain(tree, f, FeatureCount, Ancestor(tree, f))
  BY <1>1, <1>2
<1>4. Ancestor(tree, f) = [n \in 0 .. FeatureCount |->
                             IF n = 0 THEN f ELSE Parent(tree, Ancestor(tree, f)[n - 1])]
  BY <1>3 DEF Chain
<1> QED BY <1>0, <1>4

(* Every ancestor of a feature of a well-formed tree is a feature of it.   *)
WellFormed(tree) ==
  DOMAIN tree \subseteq Features /\ \A g \in DOMAIN tree : tree[g] \in DOMAIN tree \cup {Root}

LEMMA AncestorType ==
  ASSUME NEW tree, WellFormed(tree), NEW f \in DOMAIN tree, NEW k \in 0 .. FeatureCount
  PROVE  Ancestor(tree, f)[k] \in DOMAIN tree \cup {Root}
<1> DEFINE Bad == {n \in 0 .. FeatureCount : Ancestor(tree, f)[n] \notin DOMAIN tree \cup {Root}}
<1>0. FeatureCount \in Nat /\ Bad \in SUBSET Nat
  BY Constants
<1>1. SUFFICES ASSUME Bad # {} PROVE FALSE
  OBVIOUS
<1>2. \A n \in 0 .. FeatureCount : n \in Bad <=> Ancestor(tree, f)[n] \notin DOMAIN tree \cup {Root}
  OBVIOUS
<1>3. Bad \subseteq 0 .. FeatureCount
  OBVIOUS
<1> HIDE DEF Bad
<1>4. PICK n \in Bad : \A m \in Bad : ~ (m < n)
  BY <1>0, <1>1, Least
<1>5. n \in 1 .. FeatureCount
  BY <1>0, <1>2, <1>3, <1>4, AncestorDef
<1>6. Ancestor(tree, f)[n - 1] \in DOMAIN tree \cup {Root}
  <2>1. n - 1 \in 0 .. FeatureCount /\ n - 1 < n
    BY <1>0, <1>5
  <2> QED BY <2>1, <1>2, <1>4
<1>7. Ancestor(tree, f)[n] \in DOMAIN tree \cup {Root}
  BY <1>5, <1>6, AncestorDef DEF Parent, WellFormed
<1> QED BY <1>7, <1>2, <1>3, <1>4

(* The ancestors of an ancestor come next.                                 *)
LEMMA AncestorShift ==
  ASSUME NEW tree, NEW f, NEW i \in 0 .. FeatureCount, NEW k \in 0 .. FeatureCount,
         i + k <= FeatureCount
  PROVE  Ancestor(tree, Ancestor(tree, f)[i])[k] = Ancestor(tree, f)[i + k]
<1> DEFINE e   == Ancestor(tree, f)[i]
           Bad == {n \in 0 .. k : Ancestor(tree, e)[n] # Ancestor(tree, f)[i + n]}
<1>0. FeatureCount \in Nat /\ Bad \in SUBSET Nat
  BY Constants
<1>1. SUFFICES ASSUME Bad # {} PROVE FALSE
  BY <1>0
<1>2. \A n \in 0 .. k : n \in Bad <=> Ancestor(tree, e)[n] # Ancestor(tree, f)[i + n]
  OBVIOUS
<1>3. Bad \subseteq 0 .. k
  OBVIOUS
<1> HIDE DEF Bad
<1>4. PICK n \in Bad : \A m \in Bad : ~ (m < n)
  BY <1>0, <1>1, Least
<1>5. Ancestor(tree, e)[0] = Ancestor(tree, f)[i + 0]
  <2>1. Ancestor(tree, e)[0] = e
    BY AncestorDef
  <2>2. i + 0 = i
    BY <1>0
  <2> QED BY <2>1, <2>2
<1> HIDE DEF e
<1>6. n \in 1 .. k /\ n \in 1 .. FeatureCount /\ i + n \in 1 .. FeatureCount /\ n - 1 \in 0 .. k
      /\ n - 1 < n
  BY <1>0, <1>2, <1>3, <1>4, <1>5
<1>7. Ancestor(tree, e)[n - 1] = Ancestor(tree, f)[i + (n - 1)]
  BY <1>2, <1>4, <1>6
<1>8. Ancestor(tree, e)[n] = Ancestor(tree, f)[i + n]
  <2>1. (i + n) - 1 = i + (n - 1)
    BY <1>6
  <2>2. Ancestor(tree, e)[n] = Parent(tree, Ancestor(tree, e)[n - 1])
    BY <1>6, AncestorDef
  <2>3. Ancestor(tree, f)[i + n] = Parent(tree, Ancestor(tree, f)[(i + n) - 1])
    BY <1>6, AncestorDef
  <2> QED BY <2>1, <2>2, <2>3, <1>7
<1> QED BY <1>8, <1>2, <1>3, <1>4

(* A chain that reached the top stays there.                               *)
LEMMA TopStays ==
  ASSUME NEW tree, WellFormed(tree), NEW f, NEW i \in 0 .. FeatureCount, NEW j \in 0 .. FeatureCount,
         i < j, Ancestor(tree, f)[i] \notin DOMAIN tree
  PROVE  Ancestor(tree, f)[j] = Root
<1> DEFINE Bad == {n \in i + 1 .. j : Ancestor(tree, f)[n] # Root}
<1>0. FeatureCount \in Nat /\ Bad \in SUBSET Nat
  BY Constants
<1>1. SUFFICES ASSUME Bad # {} PROVE FALSE
  BY <1>0
<1>2. \A n \in i + 1 .. j : n \in Bad <=> Ancestor(tree, f)[n] # Root
  OBVIOUS
<1>3. Bad \subseteq i + 1 .. j
  OBVIOUS
<1> HIDE DEF Bad
<1>4. PICK n \in Bad : \A m \in Bad : ~ (m < n)
  BY <1>0, <1>1, Least
<1>5. n \in 1 .. FeatureCount /\ n - 1 < n
  BY <1>0, <1>3, <1>4
<1>6. Ancestor(tree, f)[n - 1] \notin DOMAIN tree
  <2>1. CASE n - 1 = i
    BY <2>1
  <2>2. CASE n - 1 # i
    <3>1. n - 1 \in i + 1 .. j
      BY <2>2, <1>0, <1>3, <1>4
    <3>2. Ancestor(tree, f)[n - 1] = Root
      BY <3>1, <1>2, <1>4, <1>5
    <3> QED BY <3>2, Constants DEF WellFormed
  <2> QED BY <2>1, <2>2
<1>7. Ancestor(tree, f)[n] = Root
  BY <1>5, <1>6, AncestorDef DEF Parent
<1> QED BY <1>7, <1>2, <1>3, <1>4

-----------------------------------------------------------------------------
(* In a sound tree a subfeature of a feature that is torn down is torn     *)
(* down too: no chain of ancestors is longer than there are features.      *)

LEMMA AncestorsDef ==
  ASSUME NEW tree, NEW f, NEW g
  PROVE  f \in Ancestors(tree, g) <=> f # Root /\ \E n \in 1 .. FeatureCount : f = Ancestor(tree, g)[n]
BY DEF Ancestors

LEMMA SoundIsWellFormed ==
  ASSUME NEW tree, DOMAIN tree \subseteq Features, Sound(tree)
  PROVE  WellFormed(tree)
BY DEF WellFormed, Sound

LEMMA ChainsAreShort ==
  ASSUME NEW tree, DOMAIN tree \subseteq Features, Sound(tree), NEW g \in DOMAIN tree
  PROVE  Ancestor(tree, g)[FeatureCount] = Root
<1> DEFINE up == Ancestor(tree, g)
<1>1. SUFFICES ASSUME up[FeatureCount] # Root PROVE FALSE
  OBVIOUS
<1>0. /\ FeatureCount \in Nat /\ Root \notin Features /\ FeatureCount \in 0 .. FeatureCount
      /\ WellFormed(tree)
  BY Constants, SoundIsWellFormed
<1> HIDE DEF up
<1>2. \A i \in 0 .. FeatureCount : up[i] \in DOMAIN tree
  <2> TAKE i \in 0 .. FeatureCount
  <2>1. up[i] \in DOMAIN tree \cup {Root}
    BY <1>0, AncestorType DEF up
  <2>2. CASE i = FeatureCount
    BY <2>1, <2>2, <1>1
  <2>3. CASE i < FeatureCount
    BY <2>3, <1>0, <1>1, TopStays DEF up
  <2> QED BY <2>2, <2>3, <1>0
<1>3. \E i, j \in 0 .. FeatureCount : i # j /\ up[i] = up[j]
  <2>1. IsFiniteSet(0 .. FeatureCount) /\ Cardinality(0 .. FeatureCount) = FeatureCount + 1
    BY <1>0, FS_Interval
  <2>2. IsFiniteSet(Features) /\ Cardinality(Features) = FeatureCount
    BY <1>0, FS_Interval DEF Features
  <2> DEFINE to == [i \in 0 .. FeatureCount |-> up[i]]
  <2>3. to \in [0 .. FeatureCount -> Features]
    BY <1>2
  <2>4. Cardinality(Features) < Cardinality(0 .. FeatureCount)
    BY <2>1, <2>2, <1>0
  <2> DEFINE steps == 0 .. FeatureCount
  <2> HIDE DEF to, steps
  <2>5. \E i, j \in steps : i # j /\ to[i] = to[j]
    <3>1. IsFiniteSet(steps) /\ IsFiniteSet(Features) /\ Cardinality(Features) < Cardinality(steps)
          /\ to \in [steps -> Features]
      BY <2>1, <2>2, <2>3, <2>4 DEF steps
    <3> QED BY <3>1, FS_PigeonHole
  <2> QED BY <2>5 DEF to, steps
<1>4. PICK i \in 0 .. FeatureCount, j \in 0 .. FeatureCount : i < j /\ up[i] = up[j]
  <2>1. PICK a \in 0 .. FeatureCount, b \in 0 .. FeatureCount : a # b /\ up[a] = up[b]
    BY <1>3
  <2>2. a < b \/ b < a
    BY <2>1
  <2> QED BY <2>1, <2>2
<1>5. Ancestor(tree, up[i])[j - i] = up[j] /\ j - i \in 1 .. FeatureCount
  <2>1. j - i \in 1 .. FeatureCount /\ i + (j - i) = j /\ j - i \in 0 .. FeatureCount
    BY <1>0, <1>4
  <2> QED BY <2>1, <1>0, AncestorShift DEF up
<1>6. up[i] \in Ancestors(tree, up[i])
  <2>1. up[i] # Root
    BY <1>0, <1>2
  <2> QED BY <2>1, <1>4, <1>5, AncestorsDef
<1> QED BY <1>2, <1>6 DEF Sound

LEMMA DescendantsDef ==
  ASSUME NEW tree, NEW f
  PROVE  \A g : g \in Descendants(tree, f) <=> g \in DOMAIN tree /\ f \in Ancestors(tree, g)
BY DEF Descendants

LEMMA ChildrenAreDescendants ==
  ASSUME NEW tree, DOMAIN tree \subseteq Features, NEW f \in Features, NEW g \in DOMAIN tree,
         tree[g] = f
  PROVE  g \in Descendants(tree, f)
<1>1. 1 \in 1 .. FeatureCount /\ f # Root
  BY Constants DEF Features
<1>2. Ancestor(tree, g)[1] = f
  BY <1>1, AncestorDef DEF Parent
<1> QED BY <1>1, <1>2, AncestorsDef, DescendantsDef

LEMMA DescendantsClosed ==
  ASSUME NEW tree, DOMAIN tree \subseteq Features, Sound(tree), NEW f \in Features,
         NEW g \in DOMAIN tree, tree[g] \in Descendants(tree, f) \cup {f}
  PROVE  g \in Descendants(tree, f)
<1>0. FeatureCount \in Nat /\ f # Root
  BY Constants
<1>1. CASE tree[g] = f
  BY <1>1, ChildrenAreDescendants
<1>2. CASE tree[g] \in Descendants(tree, f)
  <2> DEFINE h == tree[g]
  <2>1. h \in DOMAIN tree /\ f \in Ancestors(tree, h)
    BY <1>2, DescendantsDef
  <2>2. PICK n \in 1 .. FeatureCount : f = Ancestor(tree, h)[n]
    BY <2>1, AncestorsDef
  <2>3. n # FeatureCount
    BY <2>1, <2>2, <1>0, ChainsAreShort
  <2>4. /\ n + 1 \in 1 .. FeatureCount /\ 1 + n = n + 1 /\ 1 \in 0 .. FeatureCount
        /\ n \in 0 .. FeatureCount
        /\ 1 + n <= FeatureCount /\ 1 \in 1 .. FeatureCount
    BY <2>2, <2>3, <1>0
  <2>5. Ancestor(tree, g)[1] = h
    BY <2>4, AncestorDef DEF Parent
  <2>6. Ancestor(tree, g)[1 + n] = f
    BY <2>2, <2>4, <2>5, AncestorShift
  <2> QED BY <2>4, <2>6, <1>0, AncestorsDef, DescendantsDef
<1> QED BY <1>1, <1>2

-----------------------------------------------------------------------------
(* A tree of which one feature without subfeatures is removed, added under *)
(* another or moved under another is sound still.                          *)

LEMMA LeafKept ==
  ASSUME NEW tree, DOMAIN tree \subseteq Features, Sound(tree), NEW x \in Features,
         \A g \in DOMAIN tree : tree[g] # x,
         NEW new, DOMAIN new \subseteq Features,
         \A g \in Features \ {x} : g \in DOMAIN new <=> g \in DOMAIN tree,
         \A g \in DOMAIN new \ {x} : new[g] = tree[g],
         x \in DOMAIN new => new[x] \in (DOMAIN new \cup {Root}) \ {x}
  PROVE  Sound(new)
<1>0. FeatureCount \in Nat /\ Root \notin Features /\ WellFormed(tree)
  BY Constants, SoundIsWellFormed
<1>1. WellFormed(new)
  BY <1>0 DEF WellFormed
<1>2. \A g \in DOMAIN new : new[g] # x
  <2> TAKE g \in DOMAIN new
  <2>1. CASE g = x
    BY <2>1
  <2>2. CASE g # x
    BY <2>2
  <2> QED BY <2>1, <2>2
<1>3. \A g \in DOMAIN new : x \notin Ancestors(new, g)
  <2> SUFFICES ASSUME NEW g \in DOMAIN new, x \in Ancestors(new, g) PROVE FALSE
    OBVIOUS
  <2>1. PICK n \in 1 .. FeatureCount : x = Ancestor(new, g)[n]
    BY AncestorsDef
  <2>2. n - 1 \in 0 .. FeatureCount
    BY <2>1, <1>0
  <2>3. Ancestor(new, g)[n - 1] \in DOMAIN new \cup {Root}
    BY <2>2, <1>1, AncestorType
  <2>4. x = Parent(new, Ancestor(new, g)[n - 1])
    BY <2>1, AncestorDef
  <2> QED BY <2>3, <2>4, <1>0, <1>2 DEF Parent
<1>4. ASSUME NEW g \in DOMAIN new \ {x}, NEW k \in 0 .. FeatureCount
      PROVE  Ancestor(new, g)[k] = Ancestor(tree, g)[k]
  <2> DEFINE Bad == {n \in 0 .. FeatureCount : Ancestor(new, g)[n] # Ancestor(tree, g)[n]}
  <2>0. Bad \in SUBSET Nat
    BY <1>0
  <2>1. SUFFICES ASSUME Bad # {} PROVE FALSE
    OBVIOUS
  <2>2. \A n \in 0 .. FeatureCount : n \in Bad <=> Ancestor(new, g)[n] # Ancestor(tree, g)[n]
    OBVIOUS
  <2>3. Bad \subseteq 0 .. FeatureCount
    OBVIOUS
  <2> HIDE DEF Bad
  <2>4. PICK n \in Bad : \A m \in Bad : ~ (m < n)
    BY <2>0, <2>1, Least
  <2>5. n \in 1 .. FeatureCount
    BY <1>0, <2>2, <2>3, <2>4, AncestorDef
  <2>6. n - 1 \in 0 .. FeatureCount /\ n - 1 < n
    BY <1>0, <2>5
  <2>7. Ancestor(new, g)[n - 1] = Ancestor(tree, g)[n - 1]
    BY <2>2, <2>4, <2>6
  <2>8. Ancestor(new, g)[n - 1] # x
    <3>1. CASE n - 1 = 0
      BY <3>1, AncestorDef
    <3>2. CASE n - 1 # 0
      <4>1. n - 1 \in 1 .. FeatureCount
        BY <3>2, <2>5, <2>6, <1>0
      <4> QED BY <4>1, <1>0, <1>3, AncestorsDef
    <3> QED BY <3>1, <3>2
  <2>9. Ancestor(new, g)[n - 1] \in DOMAIN new \cup {Root}
    BY <2>6, <1>1, AncestorType
  <2>10. Parent(new, Ancestor(new, g)[n - 1]) = Parent(tree, Ancestor(tree, g)[n - 1])
    BY <2>7, <2>8, <2>9, <1>0 DEF Parent, WellFormed
  <2>11. Ancestor(new, g)[n] = Ancestor(tree, g)[n]
    BY <2>5, <2>10, AncestorDef
  <2> QED BY <2>11, <2>2, <2>3, <2>4
<1>5. \A g \in DOMAIN new : g \notin Ancestors(new, g)
  <2> TAKE g \in DOMAIN new
  <2>1. CASE g = x
    BY <2>1, <1>3
  <2>2. CASE g # x
    <3>1. g \in DOMAIN tree /\ g \notin Ancestors(tree, g) /\ g # Root
      BY <2>2, <1>0 DEF Sound
    <3>2. \A n \in 1 .. FeatureCount : n \in 0 .. FeatureCount
      BY <1>0
    <3> QED BY <2>2, <3>1, <3>2, <1>4, AncestorsDef
  <2> QED BY <2>1, <2>2
<1> QED BY <1>1, <1>5 DEF Sound, WellFormed

-----------------------------------------------------------------------------
(* Types.                                                                  *)

HallTypeOK ==
  /\ ops \in [Procs -> SUBSET Commands]
  /\ feature \in [Features -> Records \cup {None}]
  /\ rest \in [Features -> SUBSET {"docs", "closed"}]
  /\ sessions \subseteq Features
  /\ work \in [Features -> {"none", "clean", "dirty"}]
  /\ branch \in [Features -> Branches \cup {None}]
  /\ \A f \in Features : work[f] # "none" => branch[f] # None
  /\ spent \in [begins : 0 .. MaxBegins, touches : 0 .. MaxTouches, mishaps : 0 .. MaxMishaps]

ProcsTypeOK == DOMAIN proc = Procs /\ \A p \in Procs : ProcTypeOK(proc[p])

(* A step of one process.                                                  *)
Acts(p) == Begin(p) \/ Step(p) \/ Fault(p) \/ Dies(p)

(* TypeOK, in two parts.                                                   *)
LEMMA TypeParts == TypeOK <=> HallTypeOK /\ ProcsTypeOK
BY DEF TypeOK, HallTypeOK, ProcsTypeOK

(* The tree of the records.                                                *)
LEMMA TreeDef ==
  /\ DOMAIN Tree = {f \in Features : feature[f] # None}
  /\ \A f \in Features : feature[f] # None => Tree[f] = feature[f].parent
BY DEF Tree

(* Steps of the type.                                                      *)
LEMMA IdleOK == ProcTypeOK(Idle)
BY DEF ProcTypeOK, Idle

(* The next step, by action.                                               *)
LEMMA NextCases ==
  ASSUME [Next]_vars
  PROVE  \/ UNCHANGED vars
         \/ \E p \in Procs : BeginCreate(p)
         \/ \E p \in Procs : BeginReparent(p)
         \/ \E p \in Procs : BeginPromote(p)
         \/ \E p \in Procs : BeginDelete(p)
         \/ \E p \in Procs : BeginPrune(p)
         \/ \E p \in Procs : BeginCleanup(p)
         \/ \E p \in Procs : Write(p)
         \/ \E p \in Procs : Update(p)
         \/ \E p \in Procs : Materialise(p)
         \/ \E p \in Procs : Check(p)
         \/ \E p \in Procs : Judge(p)
         \/ \E p \in Procs : DeleteJudged(p)
         \/ \E p \in Procs : Pruned(p)
         \/ \E p \in Procs : RemoveWorktree(p)
         \/ \E p \in Procs : RemoveBranch(p)
         \/ \E p \in Procs : RemoveFile(p)
         \/ \E p \in Procs : Fault(p)
         \/ \E p \in Procs : Dies(p)
         \/ \E f \in Features : Edits(f)
         \/ \E f \in Features : Commits(f)
         \/ \E f \in Features : Lands(f)
         \/ \E f \in Features : OpensSession(f)
         \/ \E f \in Features : ClosesSession(f)
         \/ \E f \in Features : WritesOrCloses(f)
         \/ \E f \in Features : Approve(f)
BY DEF Next, Begin, Step, Touch

(* Every action keeps the hall, the bounds and the commands well formed.   *)
LEMMA HallTypeStep ==
  ASSUME HallTypeOK, ProcsTypeOK, [Next]_vars
  PROVE  HallTypeOK'
<1>1. ASSUME NEW p \in Procs, BeginCreate(p) PROVE HallTypeOK'
  BY <1>1, FeatureTreeAssumption DEF BeginCreate, Begins, hall, HallTypeOK
<1>2. ASSUME NEW p \in Procs, BeginReparent(p) PROVE HallTypeOK'
  BY <1>2, FeatureTreeAssumption DEF BeginReparent, Begins, hall, HallTypeOK
<1>3. ASSUME NEW p \in Procs, BeginPromote(p) PROVE HallTypeOK'
  BY <1>3, FeatureTreeAssumption DEF BeginPromote, Begins, hall, HallTypeOK
<1>4. ASSUME NEW p \in Procs, BeginDelete(p) PROVE HallTypeOK'
  BY <1>4, FeatureTreeAssumption DEF BeginDelete, Begins, hall, HallTypeOK
<1>5. ASSUME NEW p \in Procs, BeginPrune(p) PROVE HallTypeOK'
  BY <1>5, FeatureTreeAssumption DEF BeginPrune, Begins, hall, HallTypeOK
<1>6. ASSUME NEW p \in Procs, BeginCleanup(p) PROVE HallTypeOK'
  BY <1>6, FeatureTreeAssumption DEF BeginCleanup, Begins, hall, HallTypeOK
<1>7. ASSUME NEW p \in Procs, Write(p) PROVE HallTypeOK'
  BY <1>7 DEF Write, Ends, Goes, HallTypeOK, ProcTypeOK, ProcsTypeOK
<1>8. ASSUME NEW p \in Procs, Update(p) PROVE HallTypeOK'
  BY <1>8 DEF Update, Goes, Ends, hall, HallTypeOK
<1>9. ASSUME NEW p \in Procs, Materialise(p) PROVE HallTypeOK'
  <2>1. proc[p].node \in Features
    BY <1>9 DEF Materialise, ProcsTypeOK, ProcTypeOK
  <2>2. [tip |-> 0, landed |-> FALSE] \in Branches
    BY FeatureTreeAssumption DEF Branches
  <2>3. /\ work' \in [Features -> {"none", "clean", "dirty"}]
        /\ branch' \in [Features -> Branches \cup {None}]
    BY <1>9, <2>1, <2>2 DEF Materialise, HallTypeOK
  <2>4. \A f \in Features : work'[f] # "none" => branch'[f] # None
    BY <1>9, <2>1, <2>2, Constants DEF Materialise, HallTypeOK
  <2> QED BY <1>9, <2>3, <2>4 DEF Materialise, Goes, HallTypeOK
<1>10. ASSUME NEW p \in Procs, Check(p) PROVE HallTypeOK'
  BY <1>10 DEF Check, Goes, Stops, hall, Ends, HallTypeOK
<1>11. ASSUME NEW p \in Procs, Judge(p) PROVE HallTypeOK'
  BY <1>11 DEF Judge, Goes, hall, HallTypeOK
<1>12. ASSUME NEW p \in Procs, DeleteJudged(p) PROVE HallTypeOK'
  BY <1>12 DEF DeleteJudged, Goes, Stops, hall, Ends, HallTypeOK
<1>13. ASSUME NEW p \in Procs, Pruned(p) PROVE HallTypeOK'
  BY <1>13 DEF Pruned, Ends, hall, Goes, HallTypeOK
<1>14. ASSUME NEW p \in Procs, RemoveWorktree(p) PROVE HallTypeOK'
  <2>1. PICK f \in Leaves(p) : work' = IF proc[p].tree[f].promoted
                            THEN [work EXCEPT ![f] = "none"] ELSE work
    BY <1>14 DEF RemoveWorktree
  <2>2. /\ work' \in [Features -> {"none", "clean", "dirty"}]
        /\ \A g \in Features : work'[g] # "none" => work[g] # "none"
    BY <2>1 DEF HallTypeOK
  <2> QED BY <1>14, <2>2 DEF RemoveWorktree, Goes, HallTypeOK
<1>15. ASSUME NEW p \in Procs, RemoveBranch(p) PROVE HallTypeOK'
  BY <1>15, Constants DEF RemoveBranch, Goes, Stops, Ends, HallTypeOK
<1>16. ASSUME NEW p \in Procs, RemoveFile(p) PROVE HallTypeOK'
  <2>1. UNCHANGED <<ops, work, branch, spent>>
    BY <1>16 DEF RemoveFile, NodeDone, Stops, Ends, Goes
  <2>2. feature' \in [Features -> Records \cup {None}] /\ sessions' \subseteq Features
        /\ rest' \in [Features -> SUBSET {"docs", "closed"}]
    BY <1>16 DEF RemoveFile, HallTypeOK
  <2> QED BY <2>1, <2>2 DEF HallTypeOK
<1>17. ASSUME NEW p \in Procs, Fault(p) PROVE HallTypeOK'
  BY <1>17, FeatureTreeAssumption DEF Fault, hall, HallTypeOK
<1>18. ASSUME NEW p \in Procs, Dies(p) PROVE HallTypeOK'
  BY <1>18, FeatureTreeAssumption DEF Dies, hall, HallTypeOK
<1>19. ASSUME NEW f \in Features, Edits(f) PROVE HallTypeOK'
  BY <1>19, FeatureTreeAssumption, Constants DEF Edits, Touches, HallTypeOK
<1>20. ASSUME NEW f \in Features, Commits(f) PROVE HallTypeOK'
  <2>1. [tip |-> spent.touches + 2, landed |-> FALSE] \in Branches
    BY <1>20, FeatureTreeAssumption DEF Commits, Touches, HallTypeOK, Branches
  <2>2. /\ work' \in [Features -> {"none", "clean", "dirty"}]
        /\ branch' \in [Features -> Branches \cup {None}]
    BY <1>20, <2>1 DEF Commits, HallTypeOK
  <2>a. branch'[f] # None /\ \A g \in Features \ {f} : branch'[g] = branch[g] /\ work'[g] = work[g]
    <3> DEFINE r == [tip |-> spent.touches + 2, landed |-> FALSE]
    <3>1. r # None /\ branch' = [branch EXCEPT ![f] = r] /\ work' = [work EXCEPT ![f] = "clean"]
      BY <1>20, <2>1, Constants DEF Commits
    <3> HIDE DEF r
    <3> QED BY <3>1 DEF HallTypeOK
  <2>3. \A g \in Features : work'[g] # "none" => branch'[g] # None
    BY <2>a DEF HallTypeOK
  <2>4. spent' \in [begins : 0 .. MaxBegins, touches : 0 .. MaxTouches, mishaps : 0 .. MaxMishaps]
    BY <1>20, FeatureTreeAssumption DEF Commits, Touches, HallTypeOK
  <2> QED BY <1>20, <2>2, <2>3, <2>4 DEF Commits, Touches, HallTypeOK
<1>21. ASSUME NEW f \in Features, Lands(f) PROVE HallTypeOK'
  <2>1. [branch[f] EXCEPT !.landed = TRUE] \in Branches
    BY <1>21 DEF Lands, HallTypeOK, Branches
  <2>2. branch' \in [Features -> Branches \cup {None}]
    BY <1>21, <2>1 DEF Lands, HallTypeOK
  <2>a. branch'[f] # None /\ work' = work /\ \A g \in Features \ {f} : branch'[g] = branch[g]
    <3> DEFINE r == [branch[f] EXCEPT !.landed = TRUE]
    <3>1. r # None /\ branch' = [branch EXCEPT ![f] = r] /\ work' = work
      BY <1>21, <2>1, Constants DEF Lands
    <3> HIDE DEF r
    <3> QED BY <3>1 DEF HallTypeOK
  <2>3. \A g \in Features : work'[g] # "none" => branch'[g] # None
    BY <2>a DEF HallTypeOK
  <2>4. spent' \in [begins : 0 .. MaxBegins, touches : 0 .. MaxTouches, mishaps : 0 .. MaxMishaps]
    BY <1>21, FeatureTreeAssumption DEF Lands, Touches, HallTypeOK
  <2> QED BY <1>21, <2>2, <2>3, <2>4 DEF Lands, Touches, HallTypeOK
<1>22. ASSUME NEW f \in Features, OpensSession(f) PROVE HallTypeOK'
  BY <1>22, FeatureTreeAssumption DEF OpensSession, Touches, HallTypeOK
<1>23. ASSUME NEW f \in Features, ClosesSession(f) PROVE HallTypeOK'
  BY <1>23, FeatureTreeAssumption DEF ClosesSession, Touches, HallTypeOK
<1>24. ASSUME NEW f \in Features, WritesOrCloses(f) PROVE HallTypeOK'
  BY <1>24, FeatureTreeAssumption DEF WritesOrCloses, Touches, HallTypeOK
<1>25. ASSUME NEW f \in Features, Approve(f) PROVE HallTypeOK'
  BY <1>25 DEF Approve, hall, HallTypeOK
<1>26. ASSUME UNCHANGED vars PROVE HallTypeOK'
  BY <1>26 DEF HallTypeOK, vars
<1> QED BY <1>1, <1>2, <1>3, <1>4, <1>5, <1>6, <1>7, <1>8, <1>9, <1>10, <1>11, <1>12, <1>13,
       <1>14, <1>15, <1>16, <1>17, <1>18, <1>19, <1>20, <1>21, <1>22, <1>23, <1>24, <1>25,
       <1>26, NextCases

(* Who takes a step.                                                       *)
LEMMA Actors ==
  ASSUME [Next]_vars
  PROVE  \/ UNCHANGED vars
         \/ \E p \in Procs : Acts(p)
         \/ \E f \in Features : Touch(f) \/ Approve(f)
BY DEF Next, Acts

(* A command moves its own process only.                                   *)
LEMMA OthersStay ==
  ASSUME ProcsTypeOK, NEW p \in Procs, Acts(p)
  PROVE  /\ DOMAIN proc' = Procs
         /\ \A q \in Procs \ {p} : proc'[q] = proc[q]
<1>1. CASE Begin(p)
  BY <1>1 DEF ProcsTypeOK, Begin, Begins, BeginCreate, BeginReparent, BeginPromote, BeginDelete,
              BeginPrune, BeginCleanup
<1>2. CASE Step(p)
  BY <1>2 DEF ProcsTypeOK, Step, Write, Update, Materialise, Check, Judge, DeleteJudged, Pruned,
              RemoveWorktree, RemoveBranch, RemoveFile, Goes, Ends, Stops, NodeDone
<1>3. CASE Fault(p) \/ Dies(p)
  BY <1>3 DEF ProcsTypeOK, Fault, Dies
<1> QED BY <1>1, <1>2, <1>3 DEF Acts

(* A tear-down that stops: a prune takes the next of its list, another     *)
(* command is over.                                                        *)
LEMMA StopsAt ==
  ASSUME ProcsTypeOK, NEW p \in Procs, Stops(p)
  PROVE  \/ proc[p].op = "prune" /\ proc'[p] = [proc[p] EXCEPT !.pc = "prune",
                                                               !.node = None, !.todo = {}]
         \/ proc'[p] = Idle
BY DEF Stops, Goes, Ends, ProcsTypeOK

(* A prune goes on with its list.                                          *)
LEMMA PruneOK ==
  ASSUME NEW s, ProcTypeOK(s), s.op = "prune"
  PROVE  ProcTypeOK([s EXCEPT !.pc = "prune", !.node = None, !.todo = {}])
BY DEF ProcTypeOK, Idle

LEMMA StopsOK ==
  ASSUME ProcsTypeOK, NEW p \in Procs, Stops(p)
  PROVE  ProcTypeOK(proc'[p])
BY StopsAt, IdleOK, PruneOK DEF ProcsTypeOK

(* The state a command begins in, goes on in and ends in.                  *)
LEMMA ProcTypeBegin ==
  ASSUME HallTypeOK, ProcsTypeOK, NEW p \in Procs, Begin(p)
  PROVE  ProcTypeOK(proc'[p])
<1>1. CASE BeginCreate(p)
  <2>1. PICK f \in Features \ DOMAIN Tree, parent \in DOMAIN Tree \cup {Root} :
          Begins(p, "create", [Idle EXCEPT !.pc = "write", !.op = "create", !.node = f,
                                           !.copy = [parent |-> parent, promoted |-> FALSE]])
    BY <1>1 DEF BeginCreate
  <2>2. proc'[p] = [Idle EXCEPT !.pc = "write", !.op = "create", !.node = f,
                                !.copy = [parent |-> parent, promoted |-> FALSE]]
    BY <2>1 DEF Begins, ProcsTypeOK
  <2>3. [parent |-> parent, promoted |-> FALSE] \in Records
    BY TreeDef DEF Records
  <2> QED BY <2>2, <2>3 DEF ProcTypeOK, Idle, Commands
<1>2. CASE BeginReparent(p)
  <2>1. PICK f \in DOMAIN Tree, parent \in DOMAIN Tree :
          Begins(p, "reparent", [Idle EXCEPT !.pc = "update", !.op = "reparent",
                                                !.node = f, !.parent = parent])
    BY <1>2 DEF BeginReparent
  <2>2. proc'[p] = [Idle EXCEPT !.pc = "update", !.op = "reparent", !.node = f, !.parent = parent]
    BY <2>1 DEF Begins, ProcsTypeOK
  <2> QED BY <2>2, TreeDef DEF ProcTypeOK, Idle, Commands
<1>3. CASE BeginPromote(p)
  <2>1. PICK f \in DOMAIN Tree :
          Begins(p, "promote", [Idle EXCEPT !.pc = "materialise", !.op = "promote", !.node = f])
    BY <1>3 DEF BeginPromote
  <2>2. proc'[p] = [Idle EXCEPT !.pc = "materialise", !.op = "promote", !.node = f]
    BY <2>1 DEF Begins, ProcsTypeOK
  <2> QED BY <2>2, TreeDef DEF ProcTypeOK, Idle, Commands
<1>4. CASE BeginDelete(p)
  <2>1. PICK f \in DOMAIN Tree, op \in {"delete", "force"} :
          Begins(p, op, [Idle EXCEPT !.pc = "check", !.op = op,
                           !.tree = Reading(Subtree(f)), !.todo = Subtree(f)])
    BY <1>4 DEF BeginDelete
  <2>2. proc'[p] = [Idle EXCEPT !.pc = "check", !.op = op, !.tree = Reading(Subtree(f)),
                                !.todo = Subtree(f)]
    BY <2>1 DEF Begins, ProcsTypeOK
  <2>3. Subtree(f) \subseteq DOMAIN Tree
    BY DEF Subtree, Descendants
  <2>4. /\ DOMAIN Reading(Subtree(f)) = Subtree(f)
        /\ \A g \in Subtree(f) : Reading(Subtree(f))[g] \in Records
    BY <2>3, TreeDef DEF Reading, HallTypeOK
  <2> QED BY <2>2, <2>3, <2>4, TreeDef DEF ProcTypeOK, Idle, Commands
<1>5. CASE BeginPrune(p)
  <2> DEFINE listed == {f \in Features : feature[f] # None}
  <2>1. proc'[p] = [Idle EXCEPT !.pc = "prune", !.op = "prune", !.copy = Reading(listed),
                                !.list = listed]
    BY <1>5 DEF BeginPrune, Begins, ProcsTypeOK
  <2> QED BY <2>1 DEF ProcTypeOK, Idle, Commands
<1>6. CASE BeginCleanup(p)
  <2>1. PICK f \in DOMAIN Tree : \E own \in OwnSessions(f) :
          Begins(p, "cleanup", [Idle EXCEPT !.pc = "worktree", !.op = "cleanup", !.own = own,
                                  !.copy = approval.seen, !.tree = Reading(Subtree(f)), !.todo = Subtree(f)])
    BY <1>6 DEF BeginCleanup
  <2>5. PICK own \in OwnSessions(f) :
          Begins(p, "cleanup", [Idle EXCEPT !.pc = "worktree", !.op = "cleanup", !.own = own,
                                  !.copy = approval.seen, !.tree = Reading(Subtree(f)), !.todo = Subtree(f)])
    BY <2>1
  <2>2. proc'[p] = [Idle EXCEPT !.pc = "worktree", !.op = "cleanup", !.own = own, !.copy = approval.seen,
                                !.tree = Reading(Subtree(f)), !.todo = Subtree(f)]
    BY <2>5 DEF Begins, ProcsTypeOK
  <2>6. own \in Features \cup {None}
    BY <2>5 DEF OwnSessions, HallTypeOK
  <2>3. Subtree(f) \subseteq DOMAIN Tree
    BY DEF Subtree, Descendants
  <2>4. /\ DOMAIN Reading(Subtree(f)) = Subtree(f)
        /\ \A g \in Subtree(f) : Reading(Subtree(f))[g] \in Records
    BY <2>3, TreeDef DEF Reading, HallTypeOK
  <2> QED BY <2>2, <2>3, <2>4, <2>6, TreeDef DEF ProcTypeOK, Idle, Commands
<1> QED BY <1>1, <1>2, <1>3, <1>4, <1>5, <1>6 DEF Begin

LEMMA ProcTypeStep ==
  ASSUME HallTypeOK, ProcsTypeOK, NEW p \in Procs, Step(p) \/ Fault(p) \/ Dies(p)
  PROVE  ProcTypeOK(proc'[p])
<1>0. ProcTypeOK(proc[p]) /\ p \in DOMAIN proc
  BY DEF ProcsTypeOK
<1>1. CASE Write(p) \/ Pruned(p) \/ Dies(p)
  <2>1. proc'[p] = Idle
    BY <1>0, <1>1 DEF Write, Pruned, Dies, Ends, Goes
  <2> QED BY <2>1, IdleOK
<1>2. CASE Update(p)
  <2> DEFINE f == proc[p].node
  <2>1. CASE feature[f] = None
    <3>1. proc'[p] = Idle
      BY <1>0, <1>2, <2>1 DEF Update, Ends, Goes
    <3> QED BY <3>1, IdleOK
  <2>2. CASE feature[f] # None
    <3>1. PICK c : /\ proc'[p] = [proc[p] EXCEPT !.pc = "write", !.copy = c]
                   /\ c = IF proc[p].op = "reparent" THEN [feature[f] EXCEPT !.parent = proc[p].parent]
                          ELSE [feature[f] EXCEPT !.promoted = TRUE]
      BY <1>0, <1>2, <2>2 DEF Update, Goes
    <3>2. feature[f] \in Records /\ proc[p].op = "reparent" => proc[p].parent \in Features
      BY <1>0, <1>2, <2>2 DEF Update, HallTypeOK, ProcTypeOK
    <3>3. f \in Features /\ feature[f] \in Records
      BY <1>0, <1>2, <2>2 DEF Update, HallTypeOK, ProcTypeOK
    <3>4. c \in Records
      BY <3>1, <3>2, <3>3 DEF Records
    <3> QED BY <3>1, <3>3, <3>4, <1>0 DEF ProcTypeOK
  <2> QED BY <2>1, <2>2
<1>3. CASE Materialise(p)
  <2>1. proc'[p] = [proc[p] EXCEPT !.pc = "update"] /\ proc[p].pc = "materialise"
    BY <1>0, <1>3 DEF Materialise, Goes
  <2> QED BY <2>1, <1>0 DEF ProcTypeOK, Idle
<1>4. CASE Check(p)
  <2>1. CASE Stops(p)
    BY <2>1, StopsOK
  <2>2. CASE proc'[p] = [proc[p] EXCEPT !.pc = "worktree"]
    BY <2>2, <1>0, <1>4 DEF Check, ProcTypeOK
  <2> QED BY <1>0, <1>4, <2>1, <2>2 DEF Check, Goes
<1>5. CASE Judge(p)
  <2>1. PICK f \in Deepest(p) :
          \/ proc'[p] = [proc[p] EXCEPT !.list = @ \ {f}]
          \/ proc'[p] = [proc[p] EXCEPT !.list = @ \ {f}, !.pc = "judged", !.node = f]
    BY <1>0, <1>5 DEF Judge, Goes, ProcTypeOK, Idle
  <2>2. f \in Features
    BY <1>0 DEF Deepest, ProcTypeOK
  <2>3. CASE proc'[p] = [proc[p] EXCEPT !.list = @ \ {f}]
    BY <2>3, <1>0, <1>5 DEF Judge, ProcTypeOK, Idle
  <2>4. CASE proc'[p] = [proc[p] EXCEPT !.list = @ \ {f}, !.pc = "judged", !.node = f]
    BY <2>2, <2>4, <1>0 DEF ProcTypeOK, Idle
  <2> QED BY <2>1, <2>3, <2>4
<1>6. CASE DeleteJudged(p)
  <2> DEFINE f == proc[p].node
  <2>1. CASE Stops(p)
    BY <2>1, StopsOK
  <2>2. CASE feature[f] # None /\ proc'[p] = [proc[p] EXCEPT !.pc = "check", !.tree = Reading({f}),
                                                             !.todo = {f}]
    <3>1. f \in Features /\ feature[f] \in Records
      BY <2>2, <1>0, <1>6 DEF DeleteJudged, ProcTypeOK, HallTypeOK
    <3>2. DOMAIN Reading({f}) = {f} /\ Reading({f})[f] \in Records
      BY <3>1 DEF Reading
    <3> QED BY <2>2, <3>1, <3>2, <1>0 DEF ProcTypeOK
  <2> QED BY <1>0, <1>6, <2>1, <2>2 DEF DeleteJudged, Goes
<1>7. CASE RemoveWorktree(p)
  <2>1. PICK f \in Leaves(p) :
          proc'[p] = [proc[p] EXCEPT !.node = f,
                                     !.pc = IF proc[p].op = "cleanup" THEN "branch" ELSE "dir"]
    BY <1>0, <1>7 DEF RemoveWorktree, Goes
  <2>2. f \in proc[p].todo /\ proc[p].pc = "worktree"
    BY <1>7 DEF RemoveWorktree, Leaves
  <2> QED BY <2>1, <2>2, <1>0 DEF ProcTypeOK
<1>8. CASE RemoveBranch(p)
  <2>1. CASE Stops(p)
    BY <2>1, StopsOK
  <2>2. CASE proc'[p] = [proc[p] EXCEPT !.pc = "dir"]
    BY <2>2, <1>0, <1>8 DEF RemoveBranch, ProcTypeOK
  <2> QED BY <1>0, <1>8, <2>1, <2>2 DEF RemoveBranch, Goes
<1>9. CASE RemoveFile(p)
  <2>1. CASE Stops(p)
    BY <2>1, StopsOK
  <2>2. CASE proc'[p] = [proc[p] EXCEPT !.pc = "worktree", !.todo = @ \ {proc[p].node}]
    BY <2>2, <1>0, <1>9 DEF RemoveFile, ProcTypeOK
  <2>3. CASE proc' = proc
    BY <2>3, <1>0
  <2> QED BY <1>0, <1>9, <2>1, <2>2, <2>3 DEF RemoveFile, NodeDone, Goes
<1>10. CASE Fault(p)
  <2>1. \/ proc'[p] = Idle
        \/ /\ proc[p].op = "prune"
           /\ proc'[p] = [proc[p] EXCEPT !.pc = "prune", !.node = None, !.todo = {}]
    BY <1>0, <1>10 DEF Fault
  <2> QED BY <2>1, <1>0, IdleOK, PruneOK
<1> QED BY <1>1, <1>2, <1>3, <1>4, <1>5, <1>6, <1>7, <1>8, <1>9, <1>10 DEF Step

(* What a person or an agent does, each running command may come upon.     *)
TouchedAt(p, f) ==
  IF proc[p].pc = "idle" THEN proc'[p] = proc[p]
  ELSE proc'[p] = [proc[p] EXCEPT !.touched = @ \cup {f}]

LEMMA TouchLeaves ==
  ASSUME NEW f, Touch(f)
  PROVE  /\ DOMAIN proc' = Procs /\ \A p \in Procs : TouchedAt(p, f)
         /\ UNCHANGED <<ops, feature, approval>>
BY DEF Touch, Edits, Commits, Lands, OpensSession, ClosesSession, WritesOrCloses, Touches, TouchedAt

LEMMA TouchedOK ==
  ASSUME NEW s, ProcTypeOK(s), NEW f \in Features
  PROVE  ProcTypeOK([s EXCEPT !.touched = @ \cup {f}])
BY DEF ProcTypeOK, Idle

LEMMA ProcsTypeStep ==
  ASSUME HallTypeOK, ProcsTypeOK, [Next]_vars
  PROVE  ProcsTypeOK'
<1>1. ASSUME NEW p \in Procs, Acts(p) PROVE ProcsTypeOK'
  <2>1. ProcTypeOK(proc'[p])
    BY <1>1, ProcTypeBegin, ProcTypeStep DEF Acts
  <2>2. \A q \in Procs : ProcTypeOK(proc'[q])
    BY <1>1, <2>1, OthersStay DEF ProcsTypeOK
  <2> QED BY <1>1, <2>2, OthersStay DEF ProcsTypeOK
<1>2. ASSUME NEW f \in Features, Touch(f) PROVE ProcsTypeOK'
  <2>1. DOMAIN proc' = Procs /\ \A p \in Procs : TouchedAt(p, f)
    BY <1>2, TouchLeaves
  <2>2. ASSUME NEW p \in Procs PROVE ProcTypeOK(proc'[p])
    BY <2>1, TouchedOK DEF TouchedAt, ProcsTypeOK
  <2> QED BY <2>1, <2>2 DEF ProcsTypeOK
<1>3. ASSUME NEW f \in Features, Approve(f) PROVE ProcsTypeOK'
  BY <1>3 DEF Approve, ProcsTypeOK
<1>4. ASSUME UNCHANGED vars PROVE ProcsTypeOK'
  BY <1>4 DEF vars, ProcsTypeOK
<1> QED BY <1>1, <1>2, <1>3, <1>4, Actors

-----------------------------------------------------------------------------
(* What a command knows is at risk.                                        *)

CommandOK(p) == proc[p].pc # "idle" => proc[p].op \in ops[p] \cap OpsAt(proc[p].pc)

(* What would go unseen with feature g, whose record is r: a live session   *)
(* other than the command's own, or an edit.                                *)
Risky(g, r, own) == LiveSession(g, own) \/ (r.promoted /\ work[g] = "dirty")

RiskKnown(p) ==
  proc[p].pc \in Tearing \ {"check"} /\ proc[p].op # "force" =>
    \A g \in proc[p].todo \ proc[p].touched : ~ Risky(g, proc[p].tree[g], proc[p].own)

Knows == ops \in Workloads /\ \A p \in Procs : CommandOK(p) /\ RiskKnown(p)

(* KnowsRisk, by process.                                                  *)
LEMMA KnowsParts == KnowsRisk <=> HallTypeOK /\ ProcsTypeOK /\ Knows
BY TypeParts DEF KnowsRisk, CommandsOK, RiskSeen, Knows, CommandOK, RiskKnown, Risky

(* Which command is at which step.                                         *)
LEMMA OpsAtDef ==
  /\ OpsAt("write") = {"create", "reparent", "promote"}
  /\ OpsAt("update") = {"reparent", "promote"}
  /\ OpsAt("materialise") = {"promote"}
  /\ OpsAt("prune") = {"prune"} /\ OpsAt("judged") = {"prune"}
  /\ OpsAt("check") = {"delete", "force", "prune"}
  /\ OpsAt("branch") = {"cleanup"}
  /\ OpsAt("worktree") = TearDownCommands /\ OpsAt("dir") = TearDownCommands
  /\ TearDownCommands = {"delete", "force", "prune", "cleanup"}
BY DEF OpsAt, TearDownCommands

(* Commands never put work at risk; and none changes what commands run.    *)
LEMMA CommandsRiskNothing ==
  ASSUME HallTypeOK, ProcsTypeOK, NEW p \in Procs, Acts(p)
  PROVE  /\ UNCHANGED ops
         /\ \A r, o : \A g \in Features : Risky(g, r, o)' => Risky(g, r, o)
<1>1. CASE Begin(p)
  BY <1>1 DEF Begin, Begins, BeginCreate, BeginReparent, BeginPromote, BeginDelete,
              BeginPrune, BeginCleanup, hall, Risky, LiveSession
<1>2. CASE Fault(p) \/ Dies(p)
  BY <1>2 DEF Fault, Dies, hall, Risky, LiveSession
<1>3. CASE Write(p) \/ Update(p) \/ Check(p) \/ Judge(p) \/ DeleteJudged(p) \/ Pruned(p)
            \/ RemoveBranch(p)
  BY <1>3 DEF Write, Update, Check, Judge, DeleteJudged, Pruned, RemoveBranch, Goes, Ends, Stops,
              hall, Risky, LiveSession
<1>4. CASE Materialise(p)
  BY <1>4 DEF Materialise, Goes, Risky, LiveSession, HallTypeOK
<1>5. CASE RemoveWorktree(p)
  BY <1>5 DEF RemoveWorktree, Goes, Risky, LiveSession, HallTypeOK
<1>6. CASE RemoveFile(p)
  BY <1>6 DEF RemoveFile, NodeDone, Goes, Ends, Stops, Risky, LiveSession
<1> QED BY <1>1, <1>2, <1>3, <1>4, <1>5, <1>6 DEF Acts, Step

(* Who touches work makes it known to every running command.               *)
LEMMA TouchesOneFeature ==
  ASSUME HallTypeOK, NEW f \in Features, Touch(f)
  PROVE  /\ \A r, o : \A g \in Features \ {f} : Risky(g, r, o)' => Risky(g, r, o)
         /\ \A g \in Features \ {f} : branch'[g] = branch[g]
         /\ \A g \in Features : work'[g] = "none" <=> work[g] = "none"
<1>1. CASE Edits(f)
  BY <1>1 DEF Edits, Risky, LiveSession, HallTypeOK
<1>2. CASE Commits(f)
  BY <1>2 DEF Commits, Risky, LiveSession, HallTypeOK
<1>3. CASE Lands(f)
  BY <1>3 DEF Lands, Risky, LiveSession, HallTypeOK
<1>4. CASE OpensSession(f) \/ ClosesSession(f) \/ WritesOrCloses(f)
  BY <1>4 DEF OpensSession, ClosesSession, WritesOrCloses, Risky, LiveSession
<1> QED BY <1>1, <1>2, <1>3, <1>4 DEF Touch

(* A command that begins has looked at nothing yet, or is forced.          *)
LEMMA BeginKnows ==
  ASSUME HallTypeOK, ProcsTypeOK, NEW p \in Procs, Begin(p)
  PROVE  CommandOK(p)' /\ RiskKnown(p)'
<1>0. UNCHANGED <<ops, hall>>
  BY DEF Begin, Begins, BeginCreate, BeginReparent, BeginPromote, BeginDelete, BeginPrune,
     BeginCleanup
<1>1. CASE BeginCreate(p) \/ BeginReparent(p) \/ BeginPromote(p)
  <2>1. ASSUME BeginCreate(p)
        PROVE  "create" \in ops[p] /\ proc'[p].op = "create" /\ proc'[p].pc = "write"
    BY <2>1 DEF BeginCreate, Begins, Idle, ProcsTypeOK
  <2>2. ASSUME BeginReparent(p)
        PROVE  "reparent" \in ops[p] /\ proc'[p].op = "reparent" /\ proc'[p].pc = "update"
    BY <2>2 DEF BeginReparent, Begins, Idle, ProcsTypeOK
  <2>3. ASSUME BeginPromote(p)
        PROVE  "promote" \in ops[p] /\ proc'[p].op = "promote" /\ proc'[p].pc = "materialise"
    BY <2>3 DEF BeginPromote, Begins, Idle, ProcsTypeOK
  <2> QED BY <1>1, <2>1, <2>2, <2>3, <1>0, OpsAtDef DEF CommandOK, RiskKnown, Tearing
<1>2. CASE BeginDelete(p)
  <2>1. PICK op \in {"delete", "force"} : op \in ops[p] /\ proc'[p].op = op /\ proc'[p].pc = "check"
    BY <1>2 DEF BeginDelete, Begins, Idle, ProcsTypeOK
  <2> QED BY <2>1, <1>0, OpsAtDef DEF CommandOK, RiskKnown, Tearing
<1>3. CASE BeginPrune(p)
  <2>1. "prune" \in ops[p] /\ proc'[p].op = "prune" /\ proc'[p].pc = "prune"
    BY <1>3 DEF BeginPrune, Begins, Idle, ProcsTypeOK
  <2> QED BY <2>1, <1>0, OpsAtDef DEF CommandOK, RiskKnown, Tearing
<1>4. CASE BeginCleanup(p)
  <2>1. PICK f \in DOMAIN Tree : \E own \in OwnSessions(f) :
          /\ ~ Blocked(f, own)
          /\ Begins(p, "cleanup", [Idle EXCEPT !.pc = "worktree", !.op = "cleanup", !.own = own,
                                     !.copy = approval.seen, !.tree = Reading(Subtree(f)), !.todo = Subtree(f)])
    BY <1>4 DEF BeginCleanup
  <2>6. PICK own \in OwnSessions(f) :
          /\ ~ Blocked(f, own)
          /\ Begins(p, "cleanup", [Idle EXCEPT !.pc = "worktree", !.op = "cleanup", !.own = own,
                                     !.copy = approval.seen, !.tree = Reading(Subtree(f)), !.todo = Subtree(f)])
    BY <2>1
  <2>2. /\ "cleanup" \in ops[p] /\ proc'[p].op = "cleanup" /\ proc'[p].pc = "worktree"
        /\ proc'[p].tree = Reading(Subtree(f)) /\ proc'[p].todo = Subtree(f)
        /\ proc'[p].own = own
    BY <2>6 DEF Begins, Idle, ProcsTypeOK
  <2>3. \A g \in Subtree(f) : ~ Risky(g, feature[g], own)
    BY <2>6 DEF Blocked, RootBlocked, DescendantBlocked, Risky, Subtree
  <2>4. \A g \in proc'[p].todo : ~ Risky(g, proc'[p].tree[g], proc'[p].own)
    BY <2>2, <2>3 DEF Reading
  <2>5. \A g \in proc'[p].todo : ~ Risky(g, proc[p].tree[g], proc[p].own)'
    BY <2>4, <1>0 DEF Risky, LiveSession, hall
  <2> QED BY <2>2, <2>5, <1>0, OpsAtDef DEF CommandOK, RiskKnown, Tearing
<1> QED BY <1>1, <1>2, <1>3, <1>4 DEF Begin

(* A tear-down that goes on knows no less.                                 *)
LEMMA GoesOn ==
  ASSUME HallTypeOK, ProcsTypeOK, NEW p \in Procs, Acts(p), RiskKnown(p),
         proc[p].pc \in Tearing \ {"check"}, proc'[p].op = proc[p].op, proc'[p].tree = proc[p].tree,
         proc'[p].own = proc[p].own,
         proc'[p].todo \subseteq proc[p].todo, proc'[p].touched = proc[p].touched
  PROVE  RiskKnown(p)'
<1>1. proc[p].todo \subseteq Features
  BY DEF ProcsTypeOK, ProcTypeOK
<1>2. \A r, o : \A g \in Features : Risky(g, r, o)' => Risky(g, r, o)
  BY CommandsRiskNothing
<1>3. \A g \in proc'[p].todo : Risky(g, proc[p].tree[g], proc[p].own)' => Risky(g, proc[p].tree[g], proc[p].own)
  BY <1>1, <1>2 DEF Risky, LiveSession
<1> QED BY <1>3 DEF RiskKnown

LEMMA StopsKnows ==
  ASSUME ProcsTypeOK, NEW p \in Procs, CommandOK(p), UNCHANGED ops, Stops(p), proc[p].pc # "idle"
  PROVE  CommandOK(p)' /\ RiskKnown(p)'
<1>1. \/ proc'[p].pc = "idle"
      \/ proc'[p].pc = "prune" /\ proc'[p].op = "prune" /\ proc[p].op = "prune"
  <2>1. ProcTypeOK(proc[p])
    BY DEF ProcsTypeOK
  <2>2. CASE proc'[p] = Idle
    BY <2>2 DEF Idle
  <2>3. CASE proc[p].op = "prune" /\ proc'[p] = [proc[p] EXCEPT !.pc = "prune",
                                                                !.node = None, !.todo = {}]
    BY <2>1, <2>3 DEF ProcTypeOK, Idle
  <2> QED BY <2>2, <2>3, StopsAt
<1> QED BY <1>1, OpsAtDef DEF CommandOK, RiskKnown, Tearing

(* A check reads the worktrees of the whole subtree (delete.rs), and       *)
(* what appears after it is touched.                                       *)
LEMMA StepKnows ==
  ASSUME HallTypeOK, ProcsTypeOK, NEW p \in Procs, CommandOK(p), RiskKnown(p),
         Step(p) \/ Fault(p) \/ Dies(p)
  PROVE  CommandOK(p)' /\ RiskKnown(p)'
<1>0. UNCHANGED ops /\ ProcTypeOK(proc[p]) /\ p \in DOMAIN proc /\ Acts(p)
  BY CommandsRiskNothing DEF Acts, ProcsTypeOK
<1>1. CASE proc'[p] = Idle
  BY <1>1 DEF CommandOK, RiskKnown, Idle, Tearing
<1>2. CASE Write(p) \/ Pruned(p) \/ Dies(p)
  BY <1>0, <1>1, <1>2 DEF Write, Pruned, Dies, Ends, Goes
<1>3. CASE Update(p) \/ Materialise(p)
  <2>1. \/ proc'[p] = Idle
        \/ proc'[p].op = proc[p].op
             /\ <<proc[p].pc, proc'[p].pc>> \in {<<"update", "write">>, <<"materialise", "update">>}
    <3>1. CASE Materialise(p)
      BY <1>0, <3>1 DEF Materialise, Goes, ProcTypeOK, Idle
    <3>2. CASE Update(p) /\ feature[proc[p].node] = None
      BY <1>0, <3>2 DEF Update, Ends, Goes
    <3>3. CASE Update(p) /\ feature[proc[p].node] # None
      <4>1. PICK c : proc'[p] = [proc[p] EXCEPT !.pc = "write", !.copy = c] /\ proc[p].pc = "update"
        BY <1>0, <3>3 DEF Update, Goes
      <4> QED BY <4>1, <1>0 DEF ProcTypeOK, Idle
    <3> QED BY <1>3, <3>1, <3>2, <3>3
  <2> QED BY <2>1, <1>0, <1>1, OpsAtDef DEF CommandOK, RiskKnown, Tearing
<1>4. CASE Check(p)
  <2>1. CASE Stops(p)
    BY <2>1, <1>0, <1>4, StopsKnows DEF Check
  <2>2. CASE ~ Stops(p)
    <3>1. /\ proc[p].pc = "check" /\ (proc[p].op = "force" \/ ~ AnyRisk(proc[p].tree))
          /\ proc'[p].pc = "worktree" /\ proc'[p].op = proc[p].op /\ proc'[p].tree = proc[p].tree
          /\ proc'[p].todo = proc[p].todo /\ proc'[p].own = proc[p].own /\ UNCHANGED hall
      BY <1>0, <1>4, <2>2 DEF Check, Goes, ProcTypeOK, Idle
    <3>2. proc[p].op # "force" => \A g \in proc[p].todo : ~ Risky(g, proc[p].tree[g], proc[p].own)
      <4>1. \A g \in proc[p].todo : g \in DOMAIN proc[p].tree /\ g \in Features /\ g # None
        BY <3>1, <1>0, Constants DEF ProcTypeOK
      <4> QED BY <3>1, <4>1 DEF AnyRisk, WorkAtRisk, Risky, LiveSession
    <3>3. proc'[p].op # "force" => \A g \in proc'[p].todo : ~ Risky(g, proc[p].tree[g], proc[p].own)'
      BY <3>1, <3>2 DEF Risky, LiveSession, hall
    <3> QED BY <3>1, <3>3, <1>0, OpsAtDef DEF CommandOK, RiskKnown
  <2> QED BY <2>1, <2>2
<1>5. CASE Judge(p)
  <2>1. proc[p].pc = "prune" /\ proc'[p].op = proc[p].op /\ proc'[p].pc \in {"prune", "judged"}
    <3>1. PICK f \in Deepest(p) :
            \/ proc'[p] = [proc[p] EXCEPT !.list = @ \ {f}]
            \/ proc'[p] = [proc[p] EXCEPT !.list = @ \ {f}, !.pc = "judged", !.node = f]
      BY <1>0, <1>5 DEF Judge, Goes, ProcTypeOK, Idle
    <3>2. CASE proc'[p] = [proc[p] EXCEPT !.list = @ \ {f}]
      BY <3>2, <1>0, <1>5 DEF Judge, ProcTypeOK, Idle
    <3>3. CASE proc'[p] = [proc[p] EXCEPT !.list = @ \ {f}, !.pc = "judged", !.node = f]
      BY <3>3, <1>0, <1>5 DEF Judge, ProcTypeOK, Idle
    <3> QED BY <3>1, <3>2, <3>3
  <2> QED BY <2>1, <1>0, OpsAtDef DEF CommandOK, RiskKnown, Tearing
<1>6. CASE DeleteJudged(p)
  <2>1. CASE Stops(p)
    BY <2>1, <1>0, <1>6, StopsKnows DEF DeleteJudged
  <2>2. CASE ~ Stops(p)
    <3>1. proc[p].pc = "judged" /\ proc'[p].op = proc[p].op /\ proc'[p].pc = "check"
      <4>1. /\ proc[p].pc = "judged"
            /\ proc'[p] = [proc[p] EXCEPT !.pc = "check", !.tree = Reading({proc[p].node}),
                                                              !.todo = {proc[p].node}]
        BY <1>0, <1>6, <2>2 DEF DeleteJudged, Goes
      <4> QED BY <4>1, <1>0 DEF ProcTypeOK, Idle
    <3> QED BY <3>1, <1>0, OpsAtDef DEF CommandOK, RiskKnown, Tearing
  <2> QED BY <2>1, <2>2
<1>7. CASE RemoveWorktree(p) \/ RemoveBranch(p) \/ RemoveFile(p)
  <2>1. CASE Stops(p)
    BY <2>1, <1>0, <1>7, StopsKnows DEF RemoveWorktree, RemoveBranch, RemoveFile
  <2>2. CASE ~ Stops(p)
    <3>1. /\ proc[p].pc \in Tearing \ {"check"} /\ proc'[p].op = proc[p].op
          /\ proc'[p].tree = proc[p].tree /\ proc'[p].own = proc[p].own
          /\ proc'[p].todo \subseteq proc[p].todo /\ proc'[p].touched = proc[p].touched
          /\ \/ proc'[p].pc = proc[p].pc
             \/ proc'[p].pc = "branch" /\ proc[p].op = "cleanup"
             \/ proc'[p].pc \in {"worktree", "dir"}
      <4>1. CASE RemoveWorktree(p)
        <5>1. PICK f : proc'[p] = [proc[p] EXCEPT !.node = f,
                                                  !.pc = IF proc[p].op = "cleanup" THEN "branch" ELSE "dir"]
          BY <1>0, <4>1 DEF RemoveWorktree, Goes
        <5> QED BY <5>1, <1>0, <4>1 DEF RemoveWorktree, ProcTypeOK, Idle, Tearing
      <4>2. CASE RemoveBranch(p)
        <5>1. proc'[p] = [proc[p] EXCEPT !.pc = "dir"] /\ proc[p].pc = "branch"
          BY <1>0, <4>2, <2>2 DEF RemoveBranch, Goes
        <5> QED BY <5>1, <1>0 DEF ProcTypeOK, Idle, Tearing
      <4>3. CASE RemoveFile(p)
        <5>1. /\ proc[p].pc = "dir"
              /\ \/ proc'[p] = [proc[p] EXCEPT !.pc = "worktree", !.todo = @ \ {proc[p].node}]
                 \/ proc'[p] = proc[p]
          BY <1>0, <4>3, <2>2 DEF RemoveFile, NodeDone, Goes
        <5>2. CASE proc'[p] = proc[p]
          BY <5>1, <5>2 DEF Tearing
        <5>3. CASE proc'[p] = [proc[p] EXCEPT !.pc = "worktree", !.todo = @ \ {proc[p].node}]
          BY <5>1, <5>3, <1>0 DEF ProcTypeOK, Idle, Tearing
        <5> QED BY <5>1, <5>2, <5>3
      <4> QED BY <1>7, <4>1, <4>2, <4>3
    <3>2. RiskKnown(p)'
      BY <3>1, <1>0, GoesOn
    <3>3. proc[p].op \in ops[p] /\ proc[p].op \in TearDownCommands
      BY <3>1, OpsAtDef DEF CommandOK, Tearing
    <3>4. CommandOK(p)'
      BY <3>1, <3>3, <1>0, OpsAtDef DEF CommandOK, Tearing
    <3> QED BY <3>2, <3>4
  <2> QED BY <2>1, <2>2
<1>8. CASE Fault(p)
  <2>1. \/ proc'[p] = Idle
        \/ proc[p].op = "prune" /\ proc'[p].op = "prune" /\ proc'[p].pc = "prune" /\ proc[p].pc # "idle"
    BY <1>0, <1>8 DEF Fault, ProcTypeOK, Idle
  <2> QED BY <2>1, <1>0, <1>1, OpsAtDef DEF CommandOK, RiskKnown, Tearing
<1> QED BY <1>2, <1>3, <1>4, <1>5, <1>6, <1>7, <1>8 DEF Step

LEMMA KnowsStep ==
  ASSUME HallTypeOK, ProcsTypeOK, Knows, [Next]_vars
  PROVE  Knows'
<1>1. ASSUME NEW p \in Procs, Acts(p) PROVE Knows'
  <2>1. CommandOK(p)' /\ RiskKnown(p)'
    BY <1>1, BeginKnows, StepKnows DEF Acts, Knows
  <2>2. ASSUME NEW q \in Procs \ {p} PROVE CommandOK(q)' /\ RiskKnown(q)'
    <3>1. proc'[q] = proc[q] /\ UNCHANGED ops /\ proc[q].todo \subseteq Features
          /\ \A r, o : \A g \in Features : Risky(g, r, o)' => Risky(g, r, o)
      BY <1>1, OthersStay, CommandsRiskNothing DEF ProcsTypeOK, ProcTypeOK
    <3>2. \A g \in proc[q].todo : Risky(g, proc[q].tree[g], proc[q].own)' => Risky(g, proc[q].tree[g], proc[q].own)
      BY <3>1 DEF Risky, LiveSession
    <3> QED BY <3>1, <3>2 DEF Knows, CommandOK, RiskKnown
  <2> QED BY <1>1, <2>1, <2>2, CommandsRiskNothing DEF Knows
<1>2. ASSUME NEW f \in Features, Touch(f) PROVE Knows'
  <2>1. ASSUME NEW p \in Procs PROVE CommandOK(p)' /\ RiskKnown(p)'
    <3>1. UNCHANGED ops /\ TouchedAt(p, f) /\ ProcTypeOK(proc[p]) /\ CommandOK(p) /\ RiskKnown(p)
      BY <1>2, TouchLeaves DEF ProcsTypeOK, Knows
    <3>2. CASE proc[p].pc = "idle"
      BY <3>1, <3>2 DEF TouchedAt, CommandOK, RiskKnown, Tearing
    <3>3. CASE proc[p].pc # "idle"
      <4>1. /\ proc'[p].pc = proc[p].pc /\ proc'[p].op = proc[p].op /\ proc'[p].tree = proc[p].tree
            /\ proc'[p].todo = proc[p].todo /\ proc'[p].touched = proc[p].touched \cup {f}
            /\ proc'[p].own = proc[p].own
        BY <3>1, <3>3 DEF TouchedAt, ProcTypeOK, Idle
      <4>2. \A g \in proc[p].todo \ {f} :
              Risky(g, proc[p].tree[g], proc[p].own)' => Risky(g, proc[p].tree[g], proc[p].own)
        <5>1. proc[p].todo \subseteq Features
          BY <3>1 DEF ProcTypeOK
        <5>2. \A r, o : \A g \in Features \ {f} : Risky(g, r, o)' => Risky(g, r, o)
          BY <1>2, TouchesOneFeature
        <5> QED BY <4>1, <5>1, <5>2 DEF Risky, LiveSession
      <4> QED BY <3>1, <4>1, <4>2 DEF CommandOK, RiskKnown
    <3> QED BY <3>2, <3>3
  <2> QED BY <1>2, <2>1, TouchLeaves DEF Knows
<1>3. ASSUME NEW f \in Features, Approve(f) PROVE Knows'
  BY <1>3 DEF Approve, hall, Knows, CommandOK, RiskKnown, Risky, LiveSession
<1>4. ASSUME UNCHANGED vars PROVE Knows'
  BY <1>4 DEF vars, Knows, CommandOK, RiskKnown, Risky, LiveSession
<1> QED BY <1>1, <1>2, <1>3, <1>4, Actors

-----------------------------------------------------------------------------

LEMMA KnowsInit ==
  ASSUME Init
  PROVE  HallTypeOK /\ ProcsTypeOK /\ Knows
<1>1. PICK h \in Halls :
        LET c == h.condition IN
        /\ feature = [f \in Features |-> IF h.parent[f] = None THEN None
                                         ELSE [parent |-> h.parent[f], promoted |-> c[f] # "new"]]
        /\ sessions = {f \in Features : c[f] \in {"busy", "attended"}}
        /\ work = [f \in Features |-> CASE c[f] = "new" -> "none" [] c[f] = "busy" -> "dirty"
                                        [] OTHER -> "clean"]
        /\ branch = [f \in Features |-> CASE c[f] = "new" -> None
                                          [] c[f] = "busy" -> [tip |-> 0, landed |-> FALSE]
                                          [] OTHER -> [tip |-> 1, landed |-> c[f] \in {"landed", "attended"}]]
  BY DEF Init
<1>2. h.parent \in [Features -> Features \cup {Root, None}]
  BY FeatureTreeAssumption
<1>3. MaxTouches \in Nat /\ MaxBegins \in Nat /\ MaxMishaps \in Nat
  BY FeatureTreeAssumption
<1>4. feature \in [Features -> Records \cup {None}]
  BY <1>1, <1>2 DEF Records
<1>5. /\ sessions \subseteq Features /\ work \in [Features -> {"none", "clean", "dirty"}]
      /\ \A f \in Features : work[f] # "none" => h.condition[f] # "new"
  BY <1>1
<1>6. /\ branch \in [Features -> Branches \cup {None}]
      /\ \A f \in Features : h.condition[f] # "new" => branch[f] \in Branches
  <2>1. [tip |-> 0, landed |-> FALSE] \in Branches
    BY <1>3 DEF Branches
  <2>2. ASSUME NEW l \in BOOLEAN PROVE [tip |-> 1, landed |-> l] \in Branches
    BY <1>3 DEF Branches
  <2>3. \A f \in Features :
          branch[f] = CASE h.condition[f] = "new" -> None
                        [] h.condition[f] = "busy" -> [tip |-> 0, landed |-> FALSE]
                        [] OTHER -> [tip |-> 1, landed |-> h.condition[f] \in {"landed", "attended"}]
    BY <1>1
  <2>4. ASSUME NEW f \in Features
        PROVE  /\ h.condition[f] # "new" => branch[f] \in Branches
               /\ branch[f] \in Branches \cup {None}
    <3>1. (h.condition[f] \in {"landed", "attended"}) \in BOOLEAN
      OBVIOUS
    <3> QED BY <2>1, <2>2, <2>3, <3>1
  <2> QED BY <1>1, <2>4
<1>7. HallTypeOK
  <2>1. ops \in [Procs -> SUBSET Commands]
    BY FeatureTreeAssumption DEF Init
  <2>2. spent \in [begins : 0 .. MaxBegins, touches : 0 .. MaxTouches, mishaps : 0 .. MaxMishaps]
    BY <1>3 DEF Init
  <2>3. rest \in [Features -> SUBSET {"docs", "closed"}]
    BY DEF Init
  <2>4. \A f \in Features : work[f] # "none" => branch[f] # None
    BY <1>5, <1>6, Constants
  <2> QED BY <2>1, <2>2, <2>3, <2>4, <1>4, <1>5, <1>6 DEF HallTypeOK
<1>8. ProcsTypeOK
  BY IdleOK DEF Init, ProcsTypeOK
<1>9. Knows
  BY DEF Init, Knows, CommandOK, RiskKnown, Idle, Tearing
<1> QED BY <1>7, <1>8, <1>9

(* Whatever the commands, each knows what it may destroy.                  *)
THEOREM KnowsRiskHolds == Spec => []KnowsRisk
<1>1. Init => KnowsRisk
  BY KnowsInit, KnowsParts
<1>2. KnowsRisk /\ [Next]_vars => KnowsRisk'
  <2>1. SUFFICES ASSUME KnowsRisk, [Next]_vars PROVE KnowsRisk'
    OBVIOUS
  <2>2. HallTypeOK' /\ ProcsTypeOK' /\ Knows'
    BY <2>1, KnowsParts, HallTypeStep, ProcsTypeStep, KnowsStep
  <2>3. TypeOK'
    BY <2>2 DEF TypeOK, HallTypeOK, ProcsTypeOK
  <2> QED BY <2>2, <2>3 DEF KnowsRisk, CommandsOK, RiskSeen, Knows, CommandOK, RiskKnown, Risky
<1> QED BY <1>1, <1>2, PTL DEF Spec

(* Without --force no tear-down destroys uncommitted work or a live        *)
(* session, unless it appeared while the command was already running or is *)
(* the one a cleanup runs in: for any number of processes and any          *)
(* commands, whatever fails.                                               *)
THEOREM WorkSurvives == Spec => KnownWorkSurvives
<1>1. ASSUME HallTypeOK, ProcsTypeOK, Knows, [Next]_vars, NEW p \in Procs, NEW f \in Features,
             proc[p].op # "force", RemoveWorktree(p) \/ RemoveFile(p)
      PROVE  /\ work[f] = "dirty" /\ work'[f] = "none" => f \in proc[p].touched
             /\ f \in sessions \ sessions' => f \in proc[p].touched \cup {proc[p].own}
  <2>0. ProcTypeOK(proc[p]) /\ RiskKnown(p)
    BY <1>1 DEF ProcsTypeOK, Knows
  <2>1. CASE RemoveWorktree(p)
    <3>1. PICK g \in Leaves(p) : work' = IF proc[p].tree[g].promoted
                                        THEN [work EXCEPT ![g] = "none"] ELSE work
      BY <2>1 DEF RemoveWorktree
    <3>2. UNCHANGED sessions
      BY <2>1 DEF RemoveWorktree
    <3>3. ASSUME work[f] = "dirty", work'[f] = "none" PROVE f \in proc[p].touched
      <4>1. f = g /\ proc[p].tree[f].promoted
        BY <3>1, <3>3, <1>1 DEF HallTypeOK
      <4>2. f \in proc[p].todo /\ Risky(f, proc[p].tree[f], proc[p].own)
        BY <3>1, <3>3, <4>1 DEF Leaves, Risky
      <4> QED BY <4>2, <2>0, <2>1, <1>1 DEF RemoveWorktree, RiskKnown, Tearing
    <3> QED BY <3>2, <3>3
  <2>2. CASE RemoveFile(p)
    <3>1. UNCHANGED work
      BY <2>2 DEF RemoveFile
    <3>2. ASSUME f \in sessions \ sessions', f # proc[p].own PROVE f \in proc[p].touched
      <4>1. f = proc[p].node
        BY <2>2, <3>2, <1>1 DEF RemoveFile
      <4>2. f \in proc[p].todo /\ Risky(f, proc[p].tree[f], proc[p].own)
        BY <3>2, <4>1, <2>0, <2>2 DEF RemoveFile, ProcTypeOK, Risky, LiveSession
      <4> QED BY <4>2, <2>0, <2>2, <1>1 DEF RemoveFile, RiskKnown, Tearing
    <3> QED BY <3>1, <3>2
  <2> QED BY <2>1, <2>2, <1>1
<1>2. KnowsRisk /\ [Next]_vars =>
        [\A p \in Procs, f \in Features :
           proc[p].op # "force" /\ (RemoveWorktree(p) \/ RemoveFile(p)) =>
             /\ work[f] = "dirty" /\ work'[f] = "none" => f \in proc[p].touched
             /\ f \in sessions \ sessions' => f \in proc[p].touched \cup {proc[p].own}]_vars
  BY <1>1, KnowsParts
<1> QED BY <1>2, KnowsRiskHolds, PTL DEF Spec, KnownWorkSurvives

-----------------------------------------------------------------------------
(* What a command knows of the tree, when the workload is orderly.         *)

Writing == {"write", "update", "materialise"}

WritesLeafAt(p) ==
  /\ proc[p].pc = "update" /\ proc[p].op = "reparent" =>
       /\ proc[p].parent \in DOMAIN Tree \ {proc[p].node}
       /\ Childless(proc[p].node)
  /\ proc[p].pc = "write" =>
       IF proc[p].op = "promote"
       THEN proc[p].node \in DOMAIN Tree /\ proc[p].copy.parent = Tree[proc[p].node]
       ELSE /\ proc[p].copy.parent \in (DOMAIN Tree \cup {Root}) \ {proc[p].node}
            /\ Childless(proc[p].node)

WholeSubtree(p) ==
  proc[p].pc \in Tearing =>
    /\ \A g \in DOMAIN Tree : Tree[g] \in proc[p].todo => g \in proc[p].todo
    /\ \A g \in DOMAIN Tree \cap proc[p].todo : feature[g] = proc[p].tree[g]

AtLeaf(p) ==
  proc[p].pc \in {"branch", "dir"} =>
    /\ proc[p].node \in Leaves(p)
    /\ proc[p].tree[proc[p].node].promoted => work[proc[p].node] = "none"

AsApproved(p) ==
  proc[p].pc \in Tearing /\ proc[p].op = "cleanup" =>
    \A g \in proc[p].todo :
      /\ g \in DOMAIN proc[p].copy /\ proc[p].copy[g].record = proc[p].tree[g]
      /\ g \in proc[p].touched \/ branch[g] \in {None, proc[p].copy[g].branch}

KnowsTree(p) == WritesLeafAt(p) /\ WholeSubtree(p) /\ AtLeaf(p) /\ AsApproved(p)

TreeKnown == \A p \in Procs : KnowsTree(p)

(* IInv, by process.                                                       *)
LEMMA IInvParts == IInv <=> HallTypeOK /\ ProcsTypeOK /\ Knows /\ TreeSound /\ TreeKnown
<1>1. WritesLeaf <=> \A p \in Procs : WritesLeafAt(p)
  BY DEF WritesLeaf, WritesLeafAt
<1>2. TearsLeaves <=> \A p \in Procs : WholeSubtree(p) /\ AtLeaf(p)
  BY DEF TearsLeaves, WholeSubtree, AtLeaf, Tearing
<1>3. ApprovalKnown <=> \A p \in Procs : AsApproved(p)
  BY DEF ApprovalKnown, AsApproved
<1> QED BY <1>1, <1>2, <1>3, KnowsParts DEF IInv, TreeKnown, KnowsTree

(* While a command is about to write a record, no other runs.              *)
LEMMA WritesAlone ==
  ASSUME Orderly, Knows, NEW p \in Procs, proc[p].pc \in Writing
  PROVE  \A q \in Procs \ {p} : proc[q].pc = "idle" /\ ops[q] = {}
<1>1. proc[p].op \in ops[p] /\ proc[p].op \notin TearDownCommands
  BY OpsAtDef DEF Knows, CommandOK, Writing
<1>2. \A q \in Procs \ {p} : ops[q] = {}
  BY <1>1 DEF Orderly, Knows
<1> QED BY <1>2 DEF Knows, CommandOK

(* A process that acts runs a command, or may begin one.                   *)
LEMMA ActsNeeds ==
  ASSUME NEW q, Acts(q)
  PROVE  proc[q].pc # "idle" \/ ops[q] # {}
<1>1. CASE Begin(q)
  BY <1>1 DEF Begin, Begins, BeginCreate, BeginReparent, BeginPromote, BeginDelete, BeginPrune,
     BeginCleanup
<1>2. CASE Step(q)
  BY <1>2 DEF Step, Write, Update, Materialise, Check, Judge, DeleteJudged, Pruned,
              RemoveWorktree, RemoveBranch, RemoveFile
<1>3. CASE Fault(q) \/ Dies(q)
  BY <1>3 DEF Fault, Dies
<1> QED BY <1>1, <1>2, <1>3 DEF Acts

LEMMA OnlyTheWriterActs ==
  ASSUME Orderly, Knows, NEW p \in Procs, NEW q \in Procs, Acts(q), proc[p].pc \in Writing
  PROVE  q = p
BY ActsNeeds, WritesAlone

(* Nothing is added to the hall.                                           *)
Shrinks ==
  /\ \A g \in Features : /\ feature'[g] \in {feature[g], None}
                         /\ work'[g] \in {work[g], "none"}
                         /\ branch'[g] \in {branch[g], None}
  /\ UNCHANGED ops

(* Only create, reparent and promote add to the hall.                      *)
LEMMA OthersShrink ==
  ASSUME HallTypeOK, NEW p \in Procs, Acts(p), ~ Write(p), ~ Materialise(p)
  PROVE  Shrinks
<1>1. CASE Begin(p)
  BY <1>1 DEF Begin, Begins, BeginCreate, BeginReparent, BeginPromote, BeginDelete,
              BeginPrune, BeginCleanup, hall, Shrinks
<1>2. CASE Fault(p) \/ Dies(p)
  BY <1>2 DEF Fault, Dies, hall, Shrinks
<1>3. CASE Update(p) \/ Check(p) \/ Judge(p) \/ DeleteJudged(p) \/ Pruned(p)
  BY <1>3 DEF Update, Check, Judge, DeleteJudged, Pruned, Goes, Ends, Stops, hall, Shrinks
<1>4. CASE RemoveWorktree(p)
  BY <1>4 DEF RemoveWorktree, Goes, HallTypeOK, Shrinks
<1>5. CASE RemoveBranch(p)
  BY <1>5 DEF RemoveBranch, Goes, Stops, Ends, HallTypeOK, Shrinks
<1>6. CASE RemoveFile(p)
  BY <1>6 DEF RemoveFile, NodeDone, Goes, Ends, Stops, HallTypeOK, Shrinks
<1> QED BY <1>1, <1>2, <1>3, <1>4, <1>5, <1>6 DEF Acts, Step

LEMMA TreeShrinks ==
  ASSUME Shrinks
  PROVE  /\ DOMAIN Tree' \subseteq DOMAIN Tree
         /\ \A g \in DOMAIN Tree' : Tree'[g] = Tree[g] /\ feature'[g] = feature[g]
BY DEF Shrinks, Tree

(* What a tear-down knows stays true when the hall shrinks.                *)
LEMMA SubtreeKept ==
  ASSUME Shrinks, NEW p \in Procs, WholeSubtree(p), proc[p].pc \in Tearing,
         proc'[p].todo = proc[p].todo, proc'[p].tree = proc[p].tree
  PROVE  WholeSubtree(p)'
BY TreeShrinks DEF WholeSubtree

LEMMA ApprovalKept ==
  ASSUME Shrinks, NEW p \in Procs, AsApproved(p), proc[p].pc \in Tearing, ProcTypeOK(proc[p]),
         proc'[p].todo \subseteq proc[p].todo, proc'[p].tree = proc[p].tree, proc'[p].op = proc[p].op,
         proc'[p].copy = proc[p].copy, proc'[p].touched = proc[p].touched
  PROVE  AsApproved(p)'
BY DEF AsApproved, Shrinks, ProcTypeOK

LEMMA AtLeafKept ==
  ASSUME Shrinks, NEW p \in Procs, AtLeaf(p), proc[p].pc \in {"branch", "dir"}, ProcTypeOK(proc[p]),
         proc'[p].todo = proc[p].todo, proc'[p].tree = proc[p].tree, proc'[p].node = proc[p].node
  PROVE  AtLeaf(p)'
<1>1. proc[p].node \in Features /\ Leaves(p)' = Leaves(p)
  BY DEF ProcTypeOK, Leaves
<1> QED BY <1>1 DEF AtLeaf, Shrinks

(* What a command knows survives the steps of the others: they only tear   *)
(* down, or there are none.                                                *)
LEMMA OthersKnowTree ==
  ASSUME Orderly, HallTypeOK, ProcsTypeOK, Knows, TreeKnown, NEW p \in Procs, Acts(p),
         NEW q \in Procs \ {p}
  PROVE  KnowsTree(q)'
<1>0. proc'[q] = proc[q] /\ ProcTypeOK(proc[q]) /\ KnowsTree(q)
  BY OthersStay DEF ProcsTypeOK, TreeKnown
<1>1. CASE Write(p) \/ Materialise(p)
  <2>1. proc[q].pc = "idle"
    BY <1>1, WritesAlone DEF Write, Materialise, Writing
  <2> QED BY <2>1, <1>0 DEF KnowsTree, WritesLeafAt, WholeSubtree, AtLeaf, AsApproved, Tearing
<1>2. CASE ~ Write(p) /\ ~ Materialise(p)
  <2>1. proc[q].pc \notin Writing
    BY OnlyTheWriterActs
  <2>2. Shrinks
    BY <1>2, OthersShrink
  <2>3. WritesLeafAt(q)'
    BY <2>1, <1>0 DEF WritesLeafAt, Writing
  <2>4. WholeSubtree(q)' /\ AsApproved(q)'
    <3>1. CASE proc[q].pc \in Tearing
      BY <3>1, <2>2, <1>0, SubtreeKept, ApprovalKept DEF KnowsTree
    <3>2. CASE proc[q].pc \notin Tearing
      BY <3>2, <1>0 DEF WholeSubtree, AsApproved
    <3> QED BY <3>1, <3>2
  <2>5. AtLeaf(q)'
    <3>1. CASE proc[q].pc \in {"branch", "dir"}
      BY <3>1, <2>2, <1>0, AtLeafKept DEF KnowsTree
    <3>2. CASE proc[q].pc \notin {"branch", "dir"}
      BY <3>2, <1>0 DEF AtLeaf
    <3> QED BY <3>1, <3>2
  <2> QED BY <2>3, <2>4, <2>5 DEF KnowsTree
<1> QED BY <1>1, <1>2

-----------------------------------------------------------------------------
(* What a command that begins has read.                                    *)

LEMMA NoChildren ==
  ASSUME NEW f \in Features, Descendants(Tree, f) = {}
  PROVE  Childless(f)
BY TreeDef, ChildrenAreDescendants DEF Childless

(* The subtree that delete and cleanup read is closed under subfeatures.   *)
LEMMA SubtreeRead ==
  ASSUME HallTypeOK, Sound(Tree), NEW f \in DOMAIN Tree
  PROVE  /\ \A g \in DOMAIN Tree : Tree[g] \in Subtree(f) => g \in Subtree(f)
         /\ Subtree(f) \subseteq DOMAIN Tree
         /\ \A g \in Subtree(f) : Reading(Subtree(f))[g] = feature[g]
<1>1. f \in Features /\ DOMAIN Tree \subseteq Features
  BY TreeDef
<1>2. \A g \in DOMAIN Tree : Tree[g] \in Subtree(f) => g \in Subtree(f)
  BY <1>1, DescendantsClosed DEF Subtree
<1>3. Subtree(f) \subseteq DOMAIN Tree
  BY DescendantsDef DEF Subtree
<1> QED BY <1>2, <1>3 DEF Reading

LEMMA BeginKnowsTree ==
  ASSUME HallTypeOK, ProcsTypeOK, NEW p \in Procs, Begin(p)
  PROVE  KnowsTree(p)'
<1>0. UNCHANGED hall /\ p \in DOMAIN proc
  BY DEF Begin, Begins, BeginCreate, BeginReparent, BeginPromote, BeginDelete, BeginPrune,
     BeginCleanup,
         ProcsTypeOK
<1>a. Tree' = Tree /\ feature' = feature /\ work' = work /\ branch' = branch
  BY <1>0 DEF hall, Tree
<1>1. CASE BeginCreate(p)
  <2>1. PICK f \in Features \ DOMAIN Tree, parent \in DOMAIN Tree \cup {Root} :
          Begins(p, "create", [Idle EXCEPT !.pc = "write", !.op = "create", !.node = f,
                                           !.copy = [parent |-> parent, promoted |-> FALSE]])
    BY <1>1 DEF BeginCreate
  <2>2. /\ proc'[p].pc = "write" /\ proc'[p].op = "create" /\ proc'[p].node = f
        /\ proc'[p].copy.parent = parent
    BY <2>1, <1>0 DEF Begins, Idle
  <2>3. f # Root /\ parent # f
    BY <2>1, Constants
  <2>4. Childless(f)
    BY <2>3, <1>1 DEF BeginCreate, Childless, Sound
  <2>5. WritesLeafAt(p)'
    <3>1. proc'[p].copy.parent \in (DOMAIN Tree' \cup {Root}) \ {proc'[p].node}
      BY <2>2, <2>3, <1>a
    <3>2. Childless(proc[p].node)'
      BY <2>2, <2>4, <1>a DEF Childless
    <3> QED BY <2>2, <3>1, <3>2 DEF WritesLeafAt
  <2> QED BY <2>2, <2>5 DEF KnowsTree, WholeSubtree, AtLeaf, AsApproved, Tearing
<1>2. CASE BeginReparent(p)
  <2>1. PICK f \in DOMAIN Tree, parent \in DOMAIN Tree :
          /\ parent # f /\ Pristine(f)
          /\ Begins(p, "reparent", [Idle EXCEPT !.pc = "update", !.op = "reparent",
                                                !.node = f, !.parent = parent])
    BY <1>2 DEF BeginReparent
  <2>2. /\ proc'[p].pc = "update" /\ proc'[p].op = "reparent" /\ proc'[p].node = f
        /\ proc'[p].parent = parent
    BY <2>1, <1>0 DEF Begins, Idle
  <2>3. Childless(f)
    BY <2>1, TreeDef, NoChildren DEF Pristine
  <2>4. WritesLeafAt(p)'
    <3>1. proc'[p].parent \in DOMAIN Tree' \ {proc'[p].node}
      BY <2>1, <2>2, <1>a
    <3>2. Childless(proc[p].node)'
      BY <2>2, <2>3, <1>a DEF Childless
    <3> QED BY <2>2, <3>1, <3>2 DEF WritesLeafAt
  <2> QED BY <2>2, <2>4 DEF KnowsTree, WholeSubtree, AtLeaf, AsApproved, Tearing
<1>3. CASE BeginPromote(p)
  <2>1. proc'[p].pc = "materialise"
    BY <1>0, <1>3 DEF BeginPromote, Begins, Idle
  <2> QED BY <2>1 DEF KnowsTree, WritesLeafAt, WholeSubtree, AtLeaf, AsApproved, Tearing
<1>4. CASE BeginPrune(p)
  <2>1. proc'[p].pc = "prune"
    BY <1>0, <1>4 DEF BeginPrune, Begins, Idle
  <2> QED BY <2>1 DEF KnowsTree, WritesLeafAt, WholeSubtree, AtLeaf, AsApproved, Tearing
<1>5. CASE BeginDelete(p)
  <2>1. PICK f \in DOMAIN Tree, op \in {"delete", "force"} :
          Begins(p, op, [Idle EXCEPT !.pc = "check", !.op = op,
                           !.tree = Reading(Subtree(f)), !.todo = Subtree(f)])
    BY <1>5 DEF BeginDelete
  <2>2. /\ proc'[p].pc = "check" /\ proc'[p].op = op
        /\ proc'[p].tree = Reading(Subtree(f)) /\ proc'[p].todo = Subtree(f)
    BY <2>1, <1>0 DEF Begins, Idle
  <2>3. Sound(Tree)
    BY <1>5 DEF BeginDelete
  <2>4. WholeSubtree(p)'
    BY <2>2, <2>3, <1>a, SubtreeRead DEF WholeSubtree
  <2> QED BY <2>2, <2>4 DEF KnowsTree, WritesLeafAt, AtLeaf, AsApproved, Tearing
<1>6. CASE BeginCleanup(p)
  <2>1. PICK f \in DOMAIN Tree : \E own \in OwnSessions(f) :
          /\ Approved(f)
          /\ Begins(p, "cleanup", [Idle EXCEPT !.pc = "worktree", !.op = "cleanup", !.own = own,
                                     !.copy = approval.seen, !.tree = Reading(Subtree(f)), !.todo = Subtree(f)])
    BY <1>6 DEF BeginCleanup
  <2>2. /\ proc'[p].pc = "worktree" /\ proc'[p].copy = Fingerprint(f)
        /\ proc'[p].tree = Reading(Subtree(f)) /\ proc'[p].todo = Subtree(f)
    BY <2>1, <1>0 DEF Begins, Idle, Approved
  <2>3. Sound(Tree)
    BY <1>6 DEF BeginCleanup
  <2>4. WholeSubtree(p)'
    BY <2>2, <2>3, <1>a, SubtreeRead DEF WholeSubtree
  <2>5. AsApproved(p)'
    <3>1. \A g \in Subtree(f) : /\ g \in DOMAIN Fingerprint(f) /\ Fingerprint(f)[g].record = feature[g]
                                /\ Fingerprint(f)[g].branch = branch[g]
                                /\ Reading(Subtree(f))[g] = feature[g]
      BY DEF Fingerprint, Reading
    <3> QED BY <3>1, <2>2, <1>a DEF AsApproved
  <2> QED BY <2>2, <2>4, <2>5 DEF KnowsTree, WritesLeafAt, AtLeaf, Tearing
<1> QED BY <1>1, <1>2, <1>3, <1>4, <1>5, <1>6 DEF Begin

(* A command between its steps in the tree knows nothing it could lose.    *)
LEMMA NothingKnown ==
  ASSUME NEW p, proc'[p].pc \notin Tearing \cup {"update", "write"}
  PROVE  KnowsTree(p)'
BY DEF KnowsTree, WritesLeafAt, WholeSubtree, AtLeaf, AsApproved, Tearing

LEMMA StopsKnowsTree ==
  ASSUME ProcsTypeOK, NEW p \in Procs, Stops(p)
  PROVE  KnowsTree(p)'
<1>1. CASE proc'[p] = Idle
  BY <1>1, NothingKnown DEF Idle, Tearing
<1>2. CASE proc'[p] = [proc[p] EXCEPT !.pc = "prune", !.node = None, !.todo = {}]
  <2>1. proc'[p].pc = "prune"
    BY <1>2 DEF ProcsTypeOK, ProcTypeOK, Idle
  <2> QED BY <2>1, NothingKnown DEF Tearing
<1> QED BY <1>1, <1>2, StopsAt

(* Feature::update reads the record again before it is written.            *)
LEMMA UpdateKnowsTree ==
  ASSUME HallTypeOK, ProcsTypeOK, NEW p \in Procs, CommandOK(p), KnowsTree(p), Update(p)
  PROVE  KnowsTree(p)'
<1> DEFINE f == proc[p].node
<1>0. /\ ProcTypeOK(proc[p]) /\ p \in DOMAIN proc /\ proc[p].pc = "update" /\ f \in Features
      /\ UNCHANGED hall
  BY DEF ProcsTypeOK, ProcTypeOK, Update
<1>a. Tree' = Tree
  BY <1>0 DEF hall, Tree
<1>1. CASE feature[f] = None
  <2>1. proc'[p] = Idle
    BY <1>0, <1>1 DEF Update, Ends, Goes
  <2> QED BY <2>1, NothingKnown DEF Idle, Tearing
<1>2. CASE feature[f] # None
  <2>1. PICK c : /\ proc'[p] = [proc[p] EXCEPT !.pc = "write", !.copy = c]
                 /\ c = IF proc[p].op = "reparent" THEN [feature[f] EXCEPT !.parent = proc[p].parent]
                        ELSE [feature[f] EXCEPT !.promoted = TRUE]
    BY <1>0, <1>2 DEF Update, Goes
  <2>2. /\ proc'[p].pc = "write" /\ proc'[p].op = proc[p].op /\ proc'[p].node = f /\ proc'[p].copy = c
    BY <2>1, <1>0 DEF ProcTypeOK, Idle
  <2>3. feature[f] \in Records /\ f \in DOMAIN Tree /\ Tree[f] = feature[f].parent
    BY <1>0, <1>2, TreeDef DEF HallTypeOK
  <2>4. CASE proc[p].op = "reparent"
    <3>1. c.parent = proc[p].parent
      BY <2>1, <2>3, <2>4 DEF Records
    <3>2. c.parent \in DOMAIN Tree \ {f} /\ Childless(f)
      BY <3>1, <2>4, <1>0 DEF KnowsTree, WritesLeafAt
    <3>3. Childless(proc[p].node)'
      BY <3>2, <2>2, <1>a DEF Childless
    <3>4. WritesLeafAt(p)'
      BY <3>2, <3>3, <2>2, <2>4, <1>a DEF WritesLeafAt
    <3> QED BY <3>4, <2>2 DEF KnowsTree, WholeSubtree, AtLeaf, AsApproved, Tearing
  <2>5. CASE proc[p].op = "promote"
    <3>1. c.parent = Tree[f]
      BY <2>1, <2>3, <2>5 DEF Records
    <3>2. WritesLeafAt(p)'
      BY <3>1, <2>2, <2>3, <2>5, <1>a DEF WritesLeafAt
    <3> QED BY <3>2, <2>2 DEF KnowsTree, WholeSubtree, AtLeaf, AsApproved, Tearing
  <2> QED BY <2>4, <2>5, <1>0, OpsAtDef DEF CommandOK
<1> QED BY <1>1, <1>2

(* What a tear-down knows when it goes on.                                 *)
LEMMA TearsOn ==
  ASSUME HallTypeOK, ProcsTypeOK, NEW p \in Procs, KnowsTree(p), Shrinks, proc[p].pc \in Tearing,
         proc'[p].pc \in Tearing, proc'[p].op = proc[p].op, proc'[p].tree = proc[p].tree,
         proc'[p].todo = proc[p].todo, proc'[p].copy = proc[p].copy, proc'[p].touched = proc[p].touched
  PROVE  WritesLeafAt(p)' /\ WholeSubtree(p)' /\ AsApproved(p)'
<1>1. WritesLeafAt(p)'
  BY DEF WritesLeafAt, Tearing
<1> QED BY <1>1, SubtreeKept, ApprovalKept DEF KnowsTree, ProcsTypeOK

LEMMA StepKnowsTree ==
  ASSUME HallTypeOK, ProcsTypeOK, NEW p \in Procs, CommandOK(p), KnowsTree(p),
         Step(p) \/ Fault(p) \/ Dies(p)
  PROVE  KnowsTree(p)'
<1>0. ProcTypeOK(proc[p]) /\ p \in DOMAIN proc /\ Acts(p)
  BY DEF Acts, ProcsTypeOK
<1>1. CASE proc'[p] = Idle
  BY <1>1, NothingKnown DEF Idle, Tearing
<1>2. CASE Stops(p)
  BY <1>2, StopsKnowsTree
<1>3. CASE Write(p) \/ Pruned(p) \/ Dies(p)
  BY <1>0, <1>1, <1>3 DEF Write, Pruned, Dies, Ends, Goes
<1>4. CASE Update(p)
  BY <1>4, UpdateKnowsTree
<1>5. CASE Materialise(p)
  <2>1. proc'[p] = [proc[p] EXCEPT !.pc = "update"] /\ proc[p].pc = "materialise"
    BY <1>0, <1>5 DEF Materialise, Goes
  <2>2. proc'[p].pc = "update" /\ proc'[p].op = "promote"
    BY <2>1, <1>0, OpsAtDef DEF CommandOK, ProcTypeOK, Idle
  <2> QED BY <2>2 DEF KnowsTree, WritesLeafAt, WholeSubtree, AtLeaf, AsApproved, Tearing
<1>6. CASE Check(p) /\ ~ Stops(p)
  <2>1. proc'[p] = [proc[p] EXCEPT !.pc = "worktree"] /\ proc[p].pc = "check"
    BY <1>0, <1>6 DEF Check, Goes
  <2>2. /\ proc'[p].pc = "worktree" /\ proc'[p].op = proc[p].op /\ proc'[p].tree = proc[p].tree
        /\ proc'[p].todo = proc[p].todo /\ proc'[p].copy = proc[p].copy
        /\ proc'[p].touched = proc[p].touched
    BY <2>1, <1>0 DEF ProcTypeOK, Idle
  <2>3. Shrinks
    BY <1>0, <1>6, OthersShrink DEF Check, Write, Materialise
  <2>4. WritesLeafAt(p)' /\ WholeSubtree(p)' /\ AsApproved(p)'
    BY <2>1, <2>2, <2>3, TearsOn DEF Tearing
  <2> QED BY <2>2, <2>4 DEF KnowsTree, AtLeaf
<1>7. CASE Judge(p)
  <2>1. PICK f \in Deepest(p) :
          \/ proc'[p] = [proc[p] EXCEPT !.list = @ \ {f}]
          \/ proc'[p] = [proc[p] EXCEPT !.list = @ \ {f}, !.pc = "judged", !.node = f]
    BY <1>0, <1>7 DEF Judge, Goes, ProcTypeOK, Idle
  <2>2. CASE proc'[p] = [proc[p] EXCEPT !.list = @ \ {f}]
    BY <2>2, <1>0, <1>7, NothingKnown DEF Judge, ProcTypeOK, Idle, Tearing
  <2>3. CASE proc'[p] = [proc[p] EXCEPT !.list = @ \ {f}, !.pc = "judged", !.node = f]
    BY <2>3, <1>0, <1>7, NothingKnown DEF Judge, ProcTypeOK, Idle, Tearing
  <2> QED BY <2>1, <2>2, <2>3
<1>8. CASE DeleteJudged(p) /\ ~ Stops(p)
  <2> DEFINE f == proc[p].node
  <2>1. /\ proc[p].pc = "judged" /\ feature[f] # None /\ Subtree(f) = {f} /\ UNCHANGED hall
        /\ proc'[p] = [proc[p] EXCEPT !.pc = "check", !.tree = Reading({f}), !.todo = {f}]
    BY <1>0, <1>8 DEF DeleteJudged, Goes
  <2>2. /\ proc'[p].pc = "check" /\ proc'[p].op = "prune" /\ proc'[p].tree = Reading({f})
        /\ proc'[p].todo = {f}
    BY <2>1, <1>0, OpsAtDef DEF CommandOK, ProcTypeOK, Idle
  <2>3. f \in Features /\ f \in DOMAIN Tree
    BY <2>1, <1>0, TreeDef DEF ProcTypeOK
  <2>4. Childless(f)
    <3>1. f \notin Descendants(Tree, f)
      BY <1>8, <2>1, <2>3, DescendantsDef DEF DeleteJudged, Sound, Stops
    <3> QED BY <3>1, <2>1, <2>3, NoChildren DEF Subtree
  <2>5. Tree' = Tree /\ feature' = feature
    BY <2>1 DEF hall, Tree
  <2>6. WholeSubtree(p)'
    BY <2>2, <2>3, <2>4, <2>5 DEF WholeSubtree, Childless, Reading
  <2> QED BY <2>2, <2>6 DEF KnowsTree, WritesLeafAt, AtLeaf, AsApproved, Tearing
<1>9. CASE RemoveWorktree(p)
  <2>1. PICK f \in Leaves(p) :
          /\ work' = IF proc[p].tree[f].promoted THEN [work EXCEPT ![f] = "none"] ELSE work
          /\ proc'[p] = [proc[p] EXCEPT !.node = f,
                                        !.pc = IF proc[p].op = "cleanup" THEN "branch" ELSE "dir"]
    BY <1>0, <1>9 DEF RemoveWorktree, Goes
  <2>2. /\ proc'[p].pc \in {"branch", "dir"} /\ proc'[p].op = proc[p].op /\ proc'[p].tree = proc[p].tree
        /\ proc'[p].todo = proc[p].todo /\ proc'[p].copy = proc[p].copy
        /\ proc'[p].touched = proc[p].touched
        /\ proc'[p].node = f /\ proc[p].pc = "worktree"
    BY <2>1, <1>0, <1>9 DEF RemoveWorktree, ProcTypeOK, Idle
  <2>3. Shrinks
    BY <1>0, <1>9, OthersShrink DEF RemoveWorktree, Write, Materialise
  <2>4. WritesLeafAt(p)' /\ WholeSubtree(p)' /\ AsApproved(p)'
    BY <2>2, <2>3, TearsOn DEF Tearing
  <2>5. AtLeaf(p)'
    <3>1. Leaves(p)' = Leaves(p)
      BY <2>2 DEF Leaves
    <3>2. f \in Features
      BY <1>0 DEF Leaves, ProcTypeOK
    <3> QED BY <2>1, <2>2, <3>1, <3>2 DEF AtLeaf, HallTypeOK
  <2> QED BY <2>4, <2>5 DEF KnowsTree
<1>10. CASE RemoveBranch(p) /\ ~ Stops(p)
  <2>1. proc'[p] = [proc[p] EXCEPT !.pc = "dir"] /\ proc[p].pc = "branch"
    BY <1>0, <1>10 DEF RemoveBranch, Goes
  <2>2. /\ proc'[p].pc = "dir" /\ proc'[p].op = proc[p].op /\ proc'[p].tree = proc[p].tree
        /\ proc'[p].todo = proc[p].todo /\ proc'[p].copy = proc[p].copy
        /\ proc'[p].touched = proc[p].touched
        /\ proc'[p].node = proc[p].node
    BY <2>1, <1>0 DEF ProcTypeOK, Idle
  <2>3. Shrinks
    BY <1>0, <1>10, OthersShrink DEF RemoveBranch, Write, Materialise
  <2>4. WritesLeafAt(p)' /\ WholeSubtree(p)' /\ AsApproved(p)'
    BY <2>1, <2>2, <2>3, TearsOn DEF Tearing
  <2>5. AtLeaf(p)'
    BY <2>1, <2>2, <2>3, <1>0, AtLeafKept DEF KnowsTree
  <2> QED BY <2>4, <2>5 DEF KnowsTree
<1>11. CASE RemoveFile(p) /\ ~ Stops(p)
  <2>0. proc[p].pc = "dir" /\ Shrinks
    BY <1>0, <1>11, OthersShrink DEF RemoveFile, Write, Materialise
  <2>1. CASE proc' = proc
    <3>1. WritesLeafAt(p)' /\ WholeSubtree(p)' /\ AsApproved(p)'
      BY <2>0, <2>1, TearsOn DEF Tearing
    <3>2. AtLeaf(p)'
      BY <2>0, <2>1, <1>0, AtLeafKept DEF KnowsTree
    <3> QED BY <3>1, <3>2 DEF KnowsTree
  <2>2. CASE proc' # proc
    <3>0. PICK f : /\ f = proc[p].node
                   /\ IF HasDir(f)' THEN UNCHANGED <<ops, approval, proc, spent>> ELSE NodeDone(p)
      BY <1>11 DEF RemoveFile
    <3>1. proc'[p] = [proc[p] EXCEPT !.pc = "worktree", !.todo = @ \ {f}] /\ ~ HasDir(f)'
      BY <1>0, <1>11, <2>2, <3>0 DEF NodeDone, Goes
    <3>2. /\ proc'[p].pc = "worktree" /\ proc'[p].op = proc[p].op /\ proc'[p].tree = proc[p].tree
          /\ proc'[p].todo = proc[p].todo \ {f} /\ proc'[p].copy = proc[p].copy
          /\ proc'[p].touched = proc[p].touched
      BY <3>1, <1>0 DEF ProcTypeOK, Idle
    <3>3. f \notin DOMAIN Tree'
      BY <3>1 DEF HasDir, Tree
    <3>4. WholeSubtree(p)'
      BY <2>0, <3>2, <3>3, TreeShrinks DEF KnowsTree, WholeSubtree, Tearing
    <3>5. AsApproved(p)'
      BY <2>0, <3>2, <1>0, ApprovalKept DEF KnowsTree, Tearing
    <3> QED BY <3>2, <3>4, <3>5 DEF KnowsTree, WritesLeafAt, AtLeaf
  <2> QED BY <2>1, <2>2
<1>12. CASE Fault(p)
  <2>1. \/ proc'[p] = Idle
        \/ proc'[p] = [proc[p] EXCEPT !.pc = "prune", !.node = None, !.todo = {}]
    BY <1>0, <1>12 DEF Fault
  <2>2. proc'[p].pc \in {"idle", "prune"}
    <3>1. CASE proc'[p] = Idle
      BY <3>1 DEF Idle
    <3>2. CASE proc'[p] = [proc[p] EXCEPT !.pc = "prune", !.node = None, !.todo = {}]
      BY <3>2, <1>0 DEF ProcTypeOK, Idle
    <3> QED BY <2>1, <3>1, <3>2
  <2> QED BY <2>2, NothingKnown DEF Tearing
<1> QED BY <1>2, <1>3, <1>4, <1>5, <1>6, <1>7, <1>8, <1>9, <1>10, <1>11, <1>12 DEF Step

LEMMA TreeKnownStep ==
  ASSUME Orderly, HallTypeOK, ProcsTypeOK, Knows, TreeKnown, [Next]_vars
  PROVE  TreeKnown'
<1>1. ASSUME NEW p \in Procs, Acts(p) PROVE TreeKnown'
  <2>1. KnowsTree(p)'
    BY <1>1, BeginKnowsTree, StepKnowsTree DEF Acts, Knows, TreeKnown
  <2> QED BY <1>1, <2>1, OthersKnowTree DEF TreeKnown
<1>2. ASSUME NEW f \in Features, Touch(f) PROVE TreeKnown'
  <2> SUFFICES ASSUME NEW p \in Procs PROVE KnowsTree(p)'
    BY DEF TreeKnown
  <2>1. TouchedAt(p, f) /\ ProcTypeOK(proc[p]) /\ KnowsTree(p) /\ UNCHANGED feature
    BY <1>2, TouchLeaves DEF ProcsTypeOK, TreeKnown
  <2>2. Tree' = Tree
    BY <2>1 DEF Tree
  <2>3. CASE proc[p].pc = "idle"
    BY <2>1, <2>3, NothingKnown DEF TouchedAt, Tearing
  <2>4. CASE proc[p].pc # "idle"
    <3>1. /\ proc'[p].pc = proc[p].pc /\ proc'[p].op = proc[p].op /\ proc'[p].tree = proc[p].tree
          /\ proc'[p].todo = proc[p].todo /\ proc'[p].touched = proc[p].touched \cup {f}
          /\ proc'[p].node = proc[p].node /\ proc'[p].parent = proc[p].parent
          /\ proc'[p].copy = proc[p].copy
      BY <2>1, <2>4 DEF TouchedAt, ProcTypeOK, Idle
    <3>2. WritesLeafAt(p)' /\ WholeSubtree(p)'
      BY <2>1, <2>2, <3>1 DEF KnowsTree, WritesLeafAt, WholeSubtree, Childless
    <3>3. AtLeaf(p)'
      <4>1. Leaves(p)' = Leaves(p)
        BY <3>1 DEF Leaves
      <4>2. \A g \in Features : work'[g] = "none" <=> work[g] = "none"
        BY <1>2, TouchesOneFeature
      <4> QED BY <2>1, <3>1, <4>1, <4>2 DEF KnowsTree, AtLeaf, ProcTypeOK
    <3>4. AsApproved(p)'
      <4>1. \A g \in Features \ {f} : branch'[g] = branch[g]
        BY <1>2, TouchesOneFeature
      <4> QED BY <2>1, <3>1, <4>1 DEF KnowsTree, AsApproved, ProcTypeOK
    <3> QED BY <3>2, <3>3, <3>4 DEF KnowsTree
  <2> QED BY <2>3, <2>4
<1>3. ASSUME UNCHANGED <<feature, work, branch, proc>> PROVE TreeKnown'
  <2>1. ASSUME NEW p \in Procs
        PROVE  /\ WritesLeafAt(p)' <=> WritesLeafAt(p)
               /\ WholeSubtree(p)' <=> WholeSubtree(p)
    BY <1>3 DEF WritesLeafAt, WholeSubtree, Tree, Childless
  <2>2. ASSUME NEW p \in Procs
        PROVE  /\ AtLeaf(p)' <=> AtLeaf(p)
               /\ AsApproved(p)' <=> AsApproved(p)
    BY <1>3 DEF AtLeaf, AsApproved, Leaves
  <2> QED BY <2>1, <2>2 DEF TreeKnown, KnowsTree
<1>4. ASSUME NEW f \in Features, Approve(f) PROVE TreeKnown'
  BY <1>3, <1>4 DEF Approve, hall
<1>5. ASSUME UNCHANGED vars PROVE TreeKnown'
  BY <1>3, <1>5 DEF vars
<1> QED BY <1>1, <1>2, <1>4, <1>5, Actors

(* Every command that changes the tree changes a leaf of it.               *)
LEMMA TreeSoundStep ==
  ASSUME HallTypeOK, ProcsTypeOK, TreeKnown, TreeSound, [Next]_vars
  PROVE  TreeSound'
<1>0. DOMAIN Tree \subseteq Features /\ DOMAIN Tree' \subseteq Features
  BY DEF Tree
<1>1. ASSUME Tree' = Tree PROVE TreeSound'
  BY <1>1 DEF TreeSound
<1>2. ASSUME feature' = feature PROVE TreeSound'
  BY <1>1, <1>2 DEF Tree
<1>3. ASSUME NEW p \in Procs, Write(p) PROVE TreeSound'
  <2> DEFINE x == proc[p].node
             c == proc[p].copy
  <2>1. ProcTypeOK(proc[p]) /\ KnowsTree(p) /\ proc[p].pc = "write"
    BY <1>3 DEF ProcsTypeOK, TreeKnown, Write
  <2>2. x \in Features /\ c \in Records /\ c # None
    BY <2>1, Constants DEF ProcTypeOK
  <2>3. \A g \in Features : feature'[g] = IF g = x THEN c ELSE feature[g]
    BY <1>3, <2>2 DEF Write, HallTypeOK
  <2>4. /\ \A g \in Features \ {x} : g \in DOMAIN Tree' <=> g \in DOMAIN Tree
        /\ \A g \in DOMAIN Tree' \ {x} : Tree'[g] = Tree[g]
        /\ x \in DOMAIN Tree' /\ Tree'[x] = c.parent
    BY <2>2, <2>3 DEF Tree
  <2>5. CASE proc[p].op = "promote"
    <3>1. x \in DOMAIN Tree /\ Tree[x] = c.parent
      BY <2>1, <2>5 DEF KnowsTree, WritesLeafAt
    <3>2. Tree' = Tree
      <4>1. DOMAIN Tree' = DOMAIN Tree /\ \A g \in DOMAIN Tree : Tree'[g] = Tree[g]
        BY <2>4, <3>1, <1>0
      <4>2. Tree = [g \in DOMAIN Tree |-> Tree[g]] /\ Tree' = [g \in DOMAIN Tree' |-> Tree'[g]]
        BY DEF Tree
      <4> QED BY <4>1, <4>2
    <3> QED BY <3>2, <1>1
  <2>6. CASE proc[p].op # "promote"
    <3>1. c.parent \in (DOMAIN Tree \cup {Root}) \ {x} /\ Childless(x)
      BY <2>1, <2>6 DEF KnowsTree, WritesLeafAt
    <3>2. Tree'[x] \in (DOMAIN Tree' \cup {Root}) \ {x}
      BY <3>1, <2>4, <1>0
    <3>3. \A g \in DOMAIN Tree : Tree[g] # x
      BY <3>1 DEF Childless
    <3>4. Sound(Tree')
      <4> HIDE DEF x
      <4> QED BY <1>0, <2>2, <2>4, <3>2, <3>3, LeafKept DEF TreeSound
    <3> QED BY <3>4 DEF TreeSound, Sound, Ancestors, Ancestor
  <2> QED BY <2>5, <2>6
<1>4. ASSUME NEW p \in Procs, RemoveFile(p) PROVE TreeSound'
  <2> DEFINE x == proc[p].node
  <2>1. CASE feature' = [feature EXCEPT ![x] = None]
    <3>1. ProcTypeOK(proc[p]) /\ KnowsTree(p) /\ proc[p].pc = "dir"
      BY <1>4 DEF ProcsTypeOK, TreeKnown, RemoveFile
    <3>2. x \in Features /\ x \in proc[p].todo /\ x \in Leaves(p)
      BY <3>1 DEF ProcTypeOK, KnowsTree, AtLeaf
    <3>3. \A g \in Features : feature'[g] = IF g = x THEN None ELSE feature[g]
      BY <2>1, <3>2 DEF HallTypeOK
    <3>4. /\ \A g \in Features \ {x} : g \in DOMAIN Tree' <=> g \in DOMAIN Tree
          /\ \A g \in DOMAIN Tree' \ {x} : Tree'[g] = Tree[g]
          /\ x \notin DOMAIN Tree'
      BY <3>2, <3>3 DEF Tree
    <3>5. \A g \in DOMAIN Tree : Tree[g] # x
      <4> SUFFICES ASSUME NEW g \in DOMAIN Tree, Tree[g] = x PROVE FALSE
        OBVIOUS
      <4>1. g \in proc[p].todo /\ feature[g] = proc[p].tree[g] /\ Tree[g] = feature[g].parent
        BY <3>1, <3>2 DEF KnowsTree, WholeSubtree, Tearing, Tree
      <4> QED BY <4>1, <3>2 DEF Leaves
    <3>6. Sound(Tree')
      <4> HIDE DEF x
      <4> QED BY <1>0, <3>2, <3>4, <3>5, LeafKept DEF TreeSound
    <3> QED BY <3>6 DEF TreeSound, Sound, Ancestors, Ancestor
  <2>2. CASE feature' = feature
    BY <2>2, <1>2
  <2> QED BY <2>1, <2>2, <1>4 DEF RemoveFile
<1>5. ASSUME NEW p \in Procs, Begin(p) \/ Fault(p) \/ Dies(p) PROVE TreeSound'
  BY <1>2, <1>5 DEF Begin, Begins, BeginCreate, BeginReparent, BeginPromote, BeginDelete,
                    BeginPrune, BeginCleanup, Fault, Dies, hall
<1>6. ASSUME NEW p \in Procs, Step(p), ~ Write(p), ~ RemoveFile(p) PROVE TreeSound'
  BY <1>2, <1>6 DEF Step, Update, Materialise, Check, Judge, DeleteJudged, Pruned,
                    RemoveWorktree, RemoveBranch, hall
<1>7. ASSUME NEW f \in Features, Touch(f) \/ Approve(f) PROVE TreeSound'
  BY <1>2, <1>7, TouchLeaves DEF Approve, hall
<1>8. ASSUME UNCHANGED vars PROVE TreeSound'
  BY <1>2, <1>8 DEF vars
<1> QED BY <1>3, <1>4, <1>5, <1>6, <1>7, <1>8, Actors DEF Acts

-----------------------------------------------------------------------------

(* At first.                                                               *)
LEMMA TreeInit ==
  ASSUME Init
  PROVE  TreeSound /\ TreeKnown
<1>1. PICK h \in Halls :
        feature = [f \in Features |-> IF h.parent[f] = None THEN None
                                      ELSE [parent |-> h.parent[f], promoted |-> h.condition[f] # "new"]]
  BY DEF Init
<1>2. \A f \in Features : /\ feature[f] # None <=> h.parent[f] # None
                          /\ feature[f] # None => feature[f].parent = h.parent[f]
  <2> TAKE f \in Features
  <2>1. CASE h.parent[f] = None
    BY <1>1, <2>1
  <2>2. CASE h.parent[f] # None
    <3> DEFINE r == [parent |-> h.parent[f], promoted |-> h.condition[f] # "new"]
    <3>1. feature[f] = r
      BY <1>1, <2>2
    <3>2. r \in Records
      BY <1>1, <2>2, FeatureTreeAssumption DEF Records
    <3> QED BY <3>1, <3>2, <2>2, Constants
  <2> QED BY <2>1, <2>2
<1>3. Tree = [f \in {g \in Features : h.parent[g] # None} |-> h.parent[f]]
  BY <1>2 DEF Tree
<1>4. TreeSound
  BY <1>1, <1>3, HallsSound DEF TreeSound
<1>5. TreeKnown
  BY DEF Init, TreeKnown, KnowsTree, WritesLeafAt, WholeSubtree, AtLeaf, AsApproved, Idle, Tearing
<1> QED BY <1>4, <1>5

(* IInv holds of every orderly workload.                                   *)
THEOREM Inductive == ASSUME Orderly PROVE Spec => []IInv
<1>1. Init => IInv
  BY KnowsInit, TreeInit, IInvParts
<1>2. IInv /\ [Next]_vars => IInv'
  <2>1. SUFFICES ASSUME IInv, [Next]_vars PROVE IInv'
    OBVIOUS
  <2>2. HallTypeOK /\ ProcsTypeOK /\ Knows /\ TreeSound /\ TreeKnown
    BY <2>1, IInvParts
  <2>3. HallTypeOK' /\ ProcsTypeOK' /\ Knows'
    BY <2>1, <2>2, HallTypeStep, ProcsTypeStep, KnowsStep
  <2>4. TreeSound' /\ TreeKnown'
    BY <2>1, <2>2, TreeSoundStep, TreeKnownStep
  <2>5. TypeOK'
    BY <2>3 DEF TypeOK, HallTypeOK, ProcsTypeOK
  <2>6. CommandsOK' /\ RiskSeen'
    BY <2>3 DEF CommandsOK, RiskSeen, Knows, CommandOK, RiskKnown, Risky
  <2>7. WritesLeaf' /\ TearsLeaves' /\ ApprovalKnown'
    BY <2>4 DEF TreeKnown, KnowsTree, WritesLeafAt, WholeSubtree, AtLeaf, AsApproved,
                WritesLeaf, TearsLeaves, ApprovalKnown, Tearing
  <2> QED BY <2>4, <2>5, <2>6, <2>7 DEF IInv, KnowsRisk
<1> QED BY <1>1, <1>2, PTL DEF Spec

(* The tree of the records stays free of orphans and cycles, for any       *)
(* number of features and of processes, whatever fails or is killed.       *)
THEOREM InvariantHolds == ASSUME Orderly PROVE Spec => []FeatureTreeInv
<1>1. IInv => FeatureTreeInv
  BY DEF IInv, KnowsRisk, FeatureTreeInv
<1> QED BY <1>1, Inductive, PTL

(* The record of a promoted feature goes after its worktree.               *)
THEOREM WorktreeGoesFirst == ASSUME Orderly PROVE Spec => WorktreeFirst
<1>1. ASSUME IInv, [Next]_vars, NEW f \in Features,
             feature[f] # None, feature'[f] = None, feature[f].promoted
      PROVE  work[f] = "none"
  <2>0. HallTypeOK /\ ProcsTypeOK /\ TreeKnown
    BY <1>1, IInvParts
  <2>1. PICK p \in Procs : Write(p) \/ RemoveFile(p)
    <3>1. feature' # feature
      BY <1>1
    <3>2. ASSUME NEW p \in Procs, Acts(p) PROVE Write(p) \/ RemoveFile(p)
      BY <3>1, <3>2 DEF Acts, Begin, Begins, BeginCreate, BeginReparent, BeginPromote, BeginDelete,
                        BeginPrune, BeginCleanup, Fault, Dies, hall, Step, Update, Materialise, Check,
                        Judge, DeleteJudged, Pruned, RemoveWorktree, RemoveBranch
    <3>3. ~ UNCHANGED vars /\ ~ \E g \in Features : Touch(g) \/ Approve(g)
      BY <3>1, TouchLeaves DEF vars, Approve, hall
    <3> QED BY <1>1, <3>2, <3>3, Actors
  <2>2. ProcTypeOK(proc[p]) /\ KnowsTree(p)
    BY <2>0 DEF ProcsTypeOK, TreeKnown
  <2>3. ~ Write(p)
    <3> SUFFICES ASSUME Write(p) PROVE FALSE
      OBVIOUS
    <3>1. proc[p].node \in Features /\ proc[p].copy # None
      BY <2>2, Constants DEF Write, ProcTypeOK
    <3> QED BY <3>1, <2>0, <1>1 DEF Write, HallTypeOK
  <2>4. RemoveFile(p)
    BY <2>1, <2>3
  <2>5. f = proc[p].node /\ proc[p].pc = "dir"
    BY <2>4, <2>0, <1>1 DEF RemoveFile, HallTypeOK
  <2>6. f \in DOMAIN Tree /\ f \in proc[p].todo
    BY <1>1, <2>2, <2>5 DEF Tree, ProcTypeOK
  <2> QED BY <1>1, <2>2, <2>5, <2>6 DEF KnowsTree, WholeSubtree, AtLeaf, Tearing
<1>2. IInv /\ [Next]_vars =>
        [\A f \in Features : feature[f] # None /\ feature'[f] = None /\ feature[f].promoted
           => work[f] = "none"]_vars
  BY <1>1
<1> QED BY <1>2, Inductive, PTL DEF Spec, WorktreeFirst

(* A cleanup removes what its approval showed.                             *)
THEOREM CleanupIsApproved == ASSUME Orderly PROVE Spec => CleanupAsApproved
<1>1. ASSUME IInv, NEW p \in Procs, NEW f \in Features, proc[p].op = "cleanup",
             \/ feature[f] # None /\ feature'[f] = None /\ RemoveFile(p)
             \/ branch[f] # None /\ branch'[f] = None /\ RemoveBranch(p)
      PROVE  /\ f \in DOMAIN proc[p].copy
             /\ f \in proc[p].touched
                \/ IF branch[f] # branch'[f] THEN branch[f] = proc[p].copy[f].branch
                   ELSE feature[f] = proc[p].copy[f].record
  <2>0. HallTypeOK /\ ProcTypeOK(proc[p]) /\ KnowsTree(p)
    BY <1>1, IInvParts DEF ProcsTypeOK, TreeKnown
  <2>1. CASE feature[f] # None /\ feature'[f] = None /\ RemoveFile(p)
    <3>1. f = proc[p].node /\ proc[p].pc = "dir" /\ branch' = branch
      BY <2>0, <2>1 DEF RemoveFile, HallTypeOK
    <3>2. f \in DOMAIN Tree /\ f \in proc[p].todo
      BY <2>0, <2>1, <3>1 DEF Tree, ProcTypeOK
    <3> QED BY <1>1, <2>0, <3>1, <3>2 DEF KnowsTree, WholeSubtree, AsApproved, Tearing
  <2>2. CASE branch[f] # None /\ branch'[f] = None /\ RemoveBranch(p)
    <3>1. f = proc[p].node /\ proc[p].pc = "branch"
      BY <2>0, <2>2 DEF RemoveBranch, HallTypeOK
    <3>2. f \in proc[p].todo
      BY <2>0, <3>1 DEF ProcTypeOK
    <3> QED BY <1>1, <2>0, <2>2, <3>1, <3>2 DEF KnowsTree, AsApproved, Tearing
  <2> QED BY <1>1, <2>1, <2>2
<1>2. IInv /\ [Next]_vars =>
        [\A p \in Procs, f \in Features :
           /\ proc[p].op = "cleanup"
           /\ \/ feature[f] # None /\ feature'[f] = None /\ RemoveFile(p)
              \/ branch[f] # None /\ branch'[f] = None /\ RemoveBranch(p)
           => /\ f \in DOMAIN proc[p].copy
              /\ f \in proc[p].touched
                 \/ IF branch[f] # branch'[f] THEN branch[f] = proc[p].copy[f].branch
                    ELSE feature[f] = proc[p].copy[f].record]_vars
  BY <1>1
<1> QED BY <1>2, Inductive, PTL DEF Spec, CleanupAsApproved

(* What a tear-down destroys is what the person who asked for it was shown *)
(* or forced.                                                              *)
THEOREM SeenGoes == ASSUME Orderly PROVE Spec => OnlyWhatWasSeenGoes
BY WorkSurvives, CleanupIsApproved, PTL DEF OnlyWhatWasSeenGoes

-----------------------------------------------------------------------------
(* Depth.                                                                  *)

(* An ancestor of an ancestor is an ancestor.                              *)
LEMMA AncestorsTransitive ==
  ASSUME NEW tree, DOMAIN tree \subseteq Features, Sound(tree), NEW g \in DOMAIN tree,
         NEW d \in Ancestors(tree, g), NEW f \in Ancestors(tree, d)
  PROVE  f \in Ancestors(tree, g)
<1>0. FeatureCount \in Nat /\ WellFormed(tree) /\ f # Root /\ d # Root /\ Root \notin Features
  BY Constants, SoundIsWellFormed, AncestorsDef
<1>1. PICK i \in 1 .. FeatureCount : d = Ancestor(tree, g)[i]
  BY AncestorsDef
<1>2. PICK j \in 1 .. FeatureCount : f = Ancestor(tree, d)[j]
  BY AncestorsDef
<1>3. i + j <= FeatureCount
  <2> SUFFICES ASSUME FeatureCount < i + j PROVE FALSE
    BY <1>0, <1>1, <1>2
  <2> DEFINE k == FeatureCount - i
  <2>1. k \in 0 .. FeatureCount /\ i \in 0 .. FeatureCount /\ j \in 0 .. FeatureCount
        /\ i + k = FeatureCount /\ k < j /\ i + k <= FeatureCount
    BY <1>0, <1>1, <1>2
  <2> HIDE DEF k
  <2>2. Ancestor(tree, d)[k] = Ancestor(tree, g)[i + k]
    BY <2>1, <1>1, AncestorShift
  <2>3. Ancestor(tree, d)[k] = Root
    BY <2>1, <2>2, ChainsAreShort
  <2>4. Ancestor(tree, d)[j] = Root
    BY <2>1, <2>3, <1>0, TopStays
  <2> QED BY <2>4, <1>0, <1>2
<1>4. i + j \in 1 .. FeatureCount /\ i \in 0 .. FeatureCount /\ j \in 0 .. FeatureCount
  BY <1>0, <1>1, <1>2, <1>3
<1>5. f = Ancestor(tree, g)[i + j]
  BY <1>1, <1>2, <1>3, <1>4, AncestorShift
<1> QED BY <1>0, <1>4, <1>5, AncestorsDef

LEMMA AncestorsType ==
  ASSUME NEW tree, DOMAIN tree \subseteq Features, Sound(tree), NEW g \in DOMAIN tree
  PROVE  Ancestors(tree, g) \subseteq DOMAIN tree
<1>1. WellFormed(tree) /\ FeatureCount \in Nat
  BY SoundIsWellFormed, Constants
<1>2. \A n \in 1 .. FeatureCount : Ancestor(tree, g)[n] \in DOMAIN tree \cup {Root}
  BY <1>1, AncestorType
<1> QED BY <1>2, AncestorsDef

(* A subfeature lies deeper than the features above it.                    *)
LEMMA Deeper ==
  ASSUME NEW tree, DOMAIN tree \subseteq Features, Sound(tree), NEW d \in DOMAIN tree,
         NEW f \in Ancestors(tree, d)
  PROVE  ~ (Depth(tree, d) <= Depth(tree, f))
<1>1. f \in DOMAIN tree /\ Ancestors(tree, d) \subseteq Features
  BY AncestorsType
<1>2. Ancestors(tree, f) \subseteq Ancestors(tree, d) /\ f \notin Ancestors(tree, f)
  BY <1>1, AncestorsTransitive DEF Sound
<1>3. IsFiniteSet(Ancestors(tree, d))
  <2>1. IsFiniteSet(Features)
    BY Constants, FS_Interval DEF Features
  <2> QED BY <2>1, <1>1, FS_Subset
<1>4. /\ IsFiniteSet(Ancestors(tree, f))
      /\ Cardinality(Ancestors(tree, f)) <= Cardinality(Ancestors(tree, d))
      /\ Cardinality(Ancestors(tree, d)) # Cardinality(Ancestors(tree, f))
  BY <1>2, <1>3, FS_Subset
<1>5. Cardinality(Ancestors(tree, f)) \in Nat /\ Cardinality(Ancestors(tree, d)) \in Nat
  BY <1>3, <1>4, FS_CardinalityType
<1> QED BY <1>4, <1>5 DEF Depth

(* In a tree that has lost features since it was listed, those left have   *)
(* the ancestors they had.                                                 *)
LEMMA AncestorsAsListed ==
  ASSUME NEW list, DOMAIN list \subseteq Features, NEW tree, DOMAIN tree \subseteq DOMAIN list,
         Sound(tree),
         \A g \in DOMAIN tree : tree[g] = list[g], NEW f \in DOMAIN tree
  PROVE  Ancestors(tree, f) = Ancestors(list, f)
<1> DEFINE Bad == {n \in 0 .. FeatureCount : Ancestor(tree, f)[n] # Ancestor(list, f)[n]}
<1>0. FeatureCount \in Nat /\ Bad \in SUBSET Nat /\ Root \notin DOMAIN list /\ WellFormed(tree)
  BY Constants, SoundIsWellFormed
<1>1. \A n \in 0 .. FeatureCount : n \in Bad <=> Ancestor(tree, f)[n] # Ancestor(list, f)[n]
  OBVIOUS
<1>2. Bad \subseteq 0 .. FeatureCount
  OBVIOUS
<1> HIDE DEF Bad
<1>3. Bad = {}
  <2> SUFFICES ASSUME Bad # {} PROVE FALSE
    OBVIOUS
  <2>1. PICK n \in Bad : \A m \in Bad : ~ (m < n)
    BY <1>0, Least
  <2>2. n \in 1 .. FeatureCount
    BY <1>0, <1>1, <1>2, <2>1, AncestorDef
  <2>3. n - 1 \in 0 .. FeatureCount /\ n - 1 < n
    BY <1>0, <2>2
  <2>4. Ancestor(tree, f)[n - 1] = Ancestor(list, f)[n - 1]
    BY <1>1, <2>1, <2>3
  <2>5. Ancestor(tree, f)[n - 1] \in DOMAIN tree \cup {Root}
    BY <1>0, <2>3, AncestorType
  <2>6. Ancestor(tree, f)[n] = Ancestor(list, f)[n]
    BY <1>0, <2>2, <2>4, <2>5, AncestorDef DEF Parent
  <2> QED BY <2>6, <1>1, <1>2, <2>1
<1>4. \A n \in 1 .. FeatureCount : Ancestor(tree, f)[n] = Ancestor(list, f)[n]
  BY <1>0, <1>1, <1>3
<1>5. \A x : x \in Ancestors(tree, f) <=> x \in Ancestors(list, f)
  BY <1>4, AncestorsDef
<1> QED BY <1>5

-----------------------------------------------------------------------------
(* What a prune knows while it is alone and nothing has failed.            *)

Undisturbed(p) == spent.mishaps = 0 /\ \A q \in Procs \ {p} : ops[q] = {}

(* The hall is what the list says, less what was removed.                  *)
AsListed(p) ==
  /\ DOMAIN proc[p].copy \subseteq Features /\ proc[p].list \subseteq DOMAIN proc[p].copy
  /\ Sound(ListTree(p))
  /\ \A g \in DOMAIN Tree : g \in DOMAIN proc[p].copy /\ feature[g] = proc[p].copy[g]

Pending(p) == proc[p].list \cup (IF proc[p].pc = "prune" THEN {} ELSE {proc[p].node})

DeepestFirst(p) ==
  /\ \A f \in DOMAIN proc[p].copy \ proc[p].list, g \in proc[p].list :
       Depth(ListTree(p), g) <= Depth(ListTree(p), f)
  /\ proc[p].pc # "prune" =>
       /\ proc[p].node \in DOMAIN proc[p].copy \ proc[p].list
       /\ \A f \in DOMAIN proc[p].copy \ Pending(p) :
            Depth(ListTree(p), proc[p].node) <= Depth(ListTree(p), f)

AloneAtNode(p) ==
  proc[p].pc \in {"check", "worktree", "dir"} =>
    /\ proc[p].todo = {proc[p].node} /\ DOMAIN proc[p].tree = {proc[p].node}
    /\ Childless(proc[p].node)

Keeps(p, d) == d \in proc[p].touched \/ ~ Prunable(d, feature[d]) \/ work[d] = "dirty"

(* A feature is left because of one in its subtree.                        *)
Spared(p, f) == \E d \in Subtree(f) : Keeps(p, d)

LeftForAReason(p) == \A f \in DOMAIN Tree \ Pending(p) : Spared(p, f)

PruneKnows(p) ==
  proc[p].pc # "idle" /\ proc[p].op = "prune" /\ Undisturbed(p) =>
    AsListed(p) /\ DeepestFirst(p) /\ AloneAtNode(p) /\ LeftForAReason(p)

LEMMA ListTreeDef ==
  ASSUME NEW p
  PROVE  /\ DOMAIN ListTree(p) = DOMAIN proc[p].copy
         /\ \A g \in DOMAIN proc[p].copy : ListTree(p)[g] = proc[p].copy[g].parent
BY DEF ListTree

(* The subtrees of the hall, by the list.                                  *)
LEMMA SubtreeAsListed ==
  ASSUME TreeSound, NEW p, AsListed(p), NEW f
  PROVE  \A d : d \in Subtree(f) <=> d = f \/ (d \in DOMAIN Tree /\ f \in Ancestors(ListTree(p), d))
<1>1. \A g \in DOMAIN Tree : Tree[g] = ListTree(p)[g]
  BY ListTreeDef DEF AsListed, Tree
<1>2. DOMAIN Tree \subseteq DOMAIN ListTree(p) /\ DOMAIN ListTree(p) \subseteq Features
  BY ListTreeDef DEF AsListed
<1>3. \A d \in DOMAIN Tree : Ancestors(Tree, d) = Ancestors(ListTree(p), d)
  BY <1>1, <1>2, AncestorsAsListed DEF TreeSound
<1> QED BY <1>3, DescendantsDef DEF Subtree

(* What lies below a feature was judged before it.                         *)
LEMMA BelowIsSettled ==
  ASSUME TreeSound, NEW p, AsListed(p), DeepestFirst(p), NEW f \in DOMAIN Tree,
         NEW d \in Subtree(f) \ {f}
  PROVE  /\ f \notin proc[p].list => d \notin proc[p].list
         /\ proc[p].pc # "prune" /\ f \notin Pending(p) => d \notin Pending(p)
<1>1. d \in DOMAIN Tree /\ f \in Ancestors(ListTree(p), d)
  BY SubtreeAsListed
<1>2. ~ (Depth(ListTree(p), d) <= Depth(ListTree(p), f))
  BY <1>1, Deeper, ListTreeDef DEF AsListed
<1>3. f \in DOMAIN proc[p].copy
  BY DEF AsListed
<1> QED BY <1>2, <1>3 DEF DeepestFirst, Pending

(* ... and what spares it spares the feature.                              *)
LEMMA SparedAbove ==
  ASSUME TreeSound, NEW p, NEW f \in DOMAIN Tree, NEW d \in Subtree(f), Spared(p, d)
  PROVE  Spared(p, f)
<1>0. DOMAIN Tree \subseteq Features /\ Sound(Tree)
  BY DEF Tree, TreeSound
<1>1. PICK e \in Subtree(d) : Keeps(p, e)
  BY DEF Spared
<1>2. e \in Subtree(f)
  <2>1. CASE d = f
    BY <1>1, <2>1
  <2>2. CASE d # f
    <3>1. d \in DOMAIN Tree /\ f \in Ancestors(Tree, d)
      BY <2>2, DescendantsDef DEF Subtree
    <3>2. CASE e = d
      BY <3>2
    <3>3. CASE e # d
      <4>1. e \in DOMAIN Tree /\ d \in Ancestors(Tree, e)
        BY <3>3, <1>1, DescendantsDef DEF Subtree
      <4>2. f \in Ancestors(Tree, e)
        BY <4>1, <3>1, <1>0, AncestorsTransitive
      <4> QED BY <4>1, <4>2, DescendantsDef DEF Subtree
    <3> QED BY <3>2, <3>3
  <2> QED BY <2>1, <2>2
<1> QED BY <1>1, <1>2 DEF Spared

(* What nothing disturbed so far was not disturbed before.                 *)
LEMMA UndisturbedBefore ==
  ASSUME HallTypeOK, ProcsTypeOK, [Next]_vars, NEW p, Undisturbed(p)'
  PROVE  Undisturbed(p)
<1>0. spent.mishaps \in Nat /\ spent = [spent EXCEPT !.begins = spent.begins]
  BY FeatureTreeAssumption DEF HallTypeOK
<1>1. ASSUME NEW q \in Procs, Acts(q) PROVE ops' = ops /\ (spent'.mishaps = 0 => spent.mishaps = 0)
  <2>1. CASE Begin(q)
    BY <1>0, <2>1 DEF Begin, Begins, BeginCreate, BeginReparent, BeginPromote, BeginDelete,
                      BeginPrune, BeginCleanup, HallTypeOK
  <2>2. CASE Step(q)
    BY <2>2 DEF Step, Write, Update, Materialise, Check, Judge, DeleteJudged, Pruned,
                RemoveWorktree, RemoveBranch, RemoveFile, Goes, Ends, Stops, NodeDone
  <2>3. CASE Fault(q) \/ Dies(q)
    BY <1>0, <2>3 DEF Fault, Dies, HallTypeOK
  <2> QED BY <1>1, <2>1, <2>2, <2>3 DEF Acts
<1>2. ASSUME NEW f \in Features, Touch(f) \/ Approve(f)
      PROVE  ops' = ops /\ (spent'.mishaps = 0 => spent.mishaps = 0)
  BY <1>0, <1>2 DEF Touch, Edits, Commits, Lands, OpensSession, ClosesSession, WritesOrCloses,
     Touches,
                    Approve, HallTypeOK
<1>3. ops' = ops /\ (spent'.mishaps = 0 => spent.mishaps = 0)
  BY <1>1, <1>2, Actors DEF vars
<1> QED BY <1>3 DEF Undisturbed

LEMMA MishapEndsIt ==
  ASSUME HallTypeOK, NEW p, Fault(p) \/ Dies(p)
  PROVE  ~ Undisturbed(p)'
BY FeatureTreeAssumption DEF HallTypeOK, Fault, Dies, Undisturbed

(* A command of one's own that is not a prune, or none.                    *)
LEMMA NoPrune ==
  ASSUME NEW p, proc'[p].pc = "idle" \/ proc'[p].op # "prune"
  PROVE  PruneKnows(p)'
BY DEF PruneKnows

(* The list a prune reads is the tree.                                     *)
LEMMA BeginPruneKnows ==
  ASSUME HallTypeOK, ProcsTypeOK, TreeSound, NEW p \in Procs, Begin(p)
  PROVE  PruneKnows(p)'
<1>0. p \in DOMAIN proc
  BY DEF ProcsTypeOK
<1>1. CASE BeginPrune(p)
  <2> DEFINE listed == {f \in Features : feature[f] # None}
  <2>1. /\ proc'[p] = [Idle EXCEPT !.pc = "prune", !.op = "prune", !.copy = Reading(listed),
                                   !.list = listed]
        /\ UNCHANGED hall
    BY <1>0, <1>1 DEF BeginPrune, Begins
  <2>2. /\ proc'[p].pc = "prune" /\ proc'[p].copy = Reading(listed) /\ proc'[p].list = listed
        /\ feature' = feature
    BY <2>1 DEF Idle, hall
  <2>3. DOMAIN Reading(listed) = listed /\ \A g \in listed : Reading(listed)[g] = feature[g]
    BY DEF Reading
  <2>4. Tree' = Tree /\ DOMAIN Tree = listed
    BY <2>2 DEF Tree
  <2>5. ListTree(p)' = Tree
    BY <2>2, <2>3 DEF ListTree, Tree
  <2>6. AsListed(p)'
    <3>1. Sound(ListTree(p))'
      BY <2>5 DEF TreeSound, Sound, Ancestors, Ancestor
    <3> QED BY <2>2, <2>3, <2>4, <3>1 DEF AsListed
  <2>7. DeepestFirst(p)' /\ AloneAtNode(p)' /\ LeftForAReason(p)'
    BY <2>2, <2>3, <2>4 DEF DeepestFirst, AloneAtNode, LeftForAReason, Pending
  <2> QED BY <2>6, <2>7 DEF PruneKnows
<1>2. CASE BeginCreate(p) \/ BeginReparent(p) \/ BeginPromote(p)
  <2>1. ASSUME BeginCreate(p) PROVE proc'[p].op # "prune"
    BY <1>0, <2>1 DEF BeginCreate, Begins, Idle
  <2>2. ASSUME BeginReparent(p) PROVE proc'[p].op # "prune"
    BY <1>0, <2>2 DEF BeginReparent, Begins, Idle
  <2>3. ASSUME BeginPromote(p) PROVE proc'[p].op # "prune"
    BY <1>0, <2>3 DEF BeginPromote, Begins, Idle
  <2> QED BY <1>2, <2>1, <2>2, <2>3, NoPrune
<1>3. CASE BeginDelete(p) \/ BeginCleanup(p)
  <2>1. ASSUME BeginDelete(p) PROVE proc'[p].op # "prune"
    BY <1>0, <2>1 DEF BeginDelete, Begins, Idle
  <2>2. ASSUME BeginCleanup(p) PROVE proc'[p].op # "prune"
    BY <1>0, <2>2 DEF BeginCleanup, Begins, Idle
  <2> QED BY <1>3, <2>1, <2>2, NoPrune
<1> QED BY <1>1, <1>2, <1>3 DEF Begin

(* The list a prune holds is read by all its steps and written by none.    *)
LEMMA ListTreeKept ==
  ASSUME NEW p, proc'[p].copy = proc[p].copy
  PROVE  ListTree(p)' = ListTree(p)
BY DEF ListTree

LEMMA SoundKept ==
  ASSUME NEW p, proc'[p].copy = proc[p].copy
  PROVE  Sound(ListTree(p))' <=> Sound(ListTree(p))
BY ListTreeKept

LEMMA DepthKept ==
  ASSUME NEW p, proc'[p].copy = proc[p].copy, NEW f
  PROVE  Depth(ListTree(p), f)' = Depth(ListTree(p), f)
BY ListTreeKept

(* A step that leaves the hall as it is leaves what it spares.             *)
LEMMA SparedKept ==
  ASSUME UNCHANGED hall, NEW p, proc'[p].touched = proc[p].touched, NEW f
  PROVE  Spared(p, f)' <=> Spared(p, f)
<1>1. Tree' = Tree /\ feature' = feature /\ work' = work /\ branch' = branch /\ sessions' = sessions
  BY DEF hall, Tree
<1>2. Subtree(f)' = Subtree(f)
  BY <1>1 DEF Subtree, Descendants, Ancestors, Ancestor
<1> QED BY <1>1, <1>2 DEF Spared, Keeps, Prunable, Delivered

LEMMA AsListedKept ==
  ASSUME NEW p, AsListed(p), Shrinks, proc'[p].copy = proc[p].copy, proc'[p].list \subseteq proc[p].list
  PROVE  AsListed(p)'
BY SoundKept, TreeShrinks DEF AsListed

(* The steps of a prune.                                                   *)

Quiet(p) == UNCHANGED hall /\ proc'[p].touched = proc[p].touched /\ proc'[p].copy = proc[p].copy
            /\ proc'[p].op = proc[p].op

(* The feature at hand is done with: it is gone, or left for a reason.     *)
LEMMA NextOfList ==
  ASSUME NEW p, AsListed(p), DeepestFirst(p), LeftForAReason(p), proc[p].pc # "prune",
         Quiet(p), proc'[p].list = proc[p].list, proc'[p].pc = "prune",
         proc[p].node \in DOMAIN Tree => Spared(p, proc[p].node)
  PROVE  PruneKnows(p)'
<1>2. Tree' = Tree /\ feature' = feature
  BY DEF Quiet, hall, Tree
<1>3. AsListed(p)'
  BY <1>2, SoundKept DEF AsListed, Quiet
<1>4. DeepestFirst(p)'
  BY DepthKept DEF DeepestFirst, Quiet
<1>5. AloneAtNode(p)'
  BY DEF AloneAtNode
<1>6. LeftForAReason(p)'
  <2>1. \A f \in DOMAIN Tree \ proc[p].list : Spared(p, f)
    BY DEF LeftForAReason, Pending
  <2>2. \A f \in DOMAIN Tree \ proc[p].list : Spared(p, f)'
    BY <2>1, SparedKept DEF Quiet
  <2> QED BY <1>2, <2>2 DEF LeftForAReason, Pending
<1> QED BY <1>3, <1>4, <1>5, <1>6 DEF PruneKnows

(* A prune that stops at a feature goes on with its list.                  *)
LEMMA StopsPrune ==
  ASSUME ProcsTypeOK, NEW p \in Procs, Stops(p), UNCHANGED hall, AsListed(p), DeepestFirst(p),
         LeftForAReason(p), proc[p].op = "prune", proc[p].pc # "prune",
         proc[p].node \in DOMAIN Tree => Spared(p, proc[p].node)
  PROVE  PruneKnows(p)'
<1>1. CASE proc'[p] = Idle
  BY <1>1, NoPrune DEF Idle
<1>2. CASE proc'[p] = [proc[p] EXCEPT !.pc = "prune", !.node = None, !.todo = {}]
  <2>1. /\ proc'[p].pc = "prune" /\ proc'[p].list = proc[p].list
        /\ proc'[p].touched = proc[p].touched /\ proc'[p].copy = proc[p].copy
        /\ proc'[p].op = proc[p].op
    BY <1>2 DEF ProcsTypeOK, ProcTypeOK, Idle
  <2> QED BY <2>1, NextOfList DEF Quiet
<1> QED BY <1>1, <1>2, StopsAt

(* A prune that goes on with the feature at hand.                          *)
LEMMA SamePlace ==
  ASSUME NEW p, AsListed(p), DeepestFirst(p), LeftForAReason(p), Quiet(p),
         proc[p].pc # "prune", proc'[p].pc # "prune", proc'[p].list = proc[p].list,
         proc'[p].node = proc[p].node, AloneAtNode(p)'
  PROVE  PruneKnows(p)'
<1>1. Tree' = Tree /\ feature' = feature
  BY DEF Quiet, hall, Tree
<1>2. AsListed(p)'
  BY <1>1, SoundKept DEF AsListed, Quiet
<1>3. DeepestFirst(p)'
  BY DepthKept DEF DeepestFirst, Quiet, Pending
<1>4. LeftForAReason(p)'
  <2>1. \A f \in DOMAIN Tree \ Pending(p) : Spared(p, f)'
    BY SparedKept DEF LeftForAReason, Quiet
  <2> QED BY <1>1, <2>1 DEF LeftForAReason, Pending
<1> QED BY <1>2, <1>3, <1>4 DEF PruneKnows

(* Check, judge, delete, worktree and record: what a prune knows at each.  *)
LEMMA CheckPrunes ==
  ASSUME HallTypeOK, ProcsTypeOK, NEW p \in Procs, Check(p), proc[p].op = "prune",
         AsListed(p), DeepestFirst(p), AloneAtNode(p), LeftForAReason(p)
  PROVE  PruneKnows(p)'
<1> DEFINE x == proc[p].node
<1>0. proc[p].pc = "check" /\ UNCHANGED hall /\ ProcTypeOK(proc[p]) /\ p \in DOMAIN proc
  BY DEF Check, ProcsTypeOK
<1>1. CASE AnyRisk(proc[p].tree)
  <2>1. WorkAtRisk(x, proc[p].tree[x])
    BY <1>0, <1>1 DEF AnyRisk, AloneAtNode
  <2>2. Keeps(p, x)
    BY <2>1 DEF WorkAtRisk, Keeps, Prunable
  <2>3. Spared(p, x)
    BY <2>2 DEF Spared, Subtree
  <2> QED BY <1>0, <1>1, <2>3, StopsPrune DEF Check
<1>2. CASE ~ AnyRisk(proc[p].tree)
  <2>1. proc'[p] = [proc[p] EXCEPT !.pc = "worktree"]
    BY <1>0, <1>2 DEF Check, Goes
  <2>2. /\ proc'[p].pc = "worktree" /\ proc'[p].list = proc[p].list /\ proc'[p].node = proc[p].node
        /\ proc'[p].todo = proc[p].todo /\ proc'[p].tree = proc[p].tree
        /\ Quiet(p)
    BY <1>0, <2>1 DEF ProcTypeOK, Idle, Quiet
  <2>3. AloneAtNode(p)'
    <3>1. Childless(proc[p].node)'
      BY <1>0, <2>2 DEF AloneAtNode, Childless, hall, Tree
    <3> QED BY <1>0, <2>2, <3>1 DEF AloneAtNode
  <2> QED BY <1>0, <2>2, <2>3, SamePlace
<1> QED BY <1>1, <1>2

LEMMA JudgePrunes ==
  ASSUME HallTypeOK, ProcsTypeOK, NEW p \in Procs, Judge(p), proc[p].op = "prune",
         AsListed(p), DeepestFirst(p), LeftForAReason(p)
  PROVE  PruneKnows(p)'
<1>0. proc[p].pc = "prune" /\ UNCHANGED hall /\ ProcTypeOK(proc[p]) /\ p \in DOMAIN proc
  BY DEF Judge, ProcsTypeOK
<1>1. PICK f \in Deepest(p) :
        LET shorter == [proc[p] EXCEPT !.list = @ \ {f}] IN
        IF Prunable(f, proc[p].copy[f])
        THEN proc'[p] = [shorter EXCEPT !.pc = "judged", !.node = f]
        ELSE proc'[p] = shorter
  BY <1>0 DEF Judge, Goes
<1>2. f \in proc[p].list /\ \A g \in proc[p].list : Depth(ListTree(p), g) <= Depth(ListTree(p), f)
  BY DEF Deepest
<1>3. Quiet(p) /\ proc'[p].list = proc[p].list \ {f}
  BY <1>0, <1>1 DEF ProcTypeOK, Idle, Quiet
<1>4. Tree' = Tree /\ feature' = feature
  BY <1>0 DEF hall, Tree
<1>5. AsListed(p)'
  BY <1>3, <1>4, SoundKept DEF AsListed, Quiet
<1>6. CASE Prunable(f, proc[p].copy[f])
  <2>1. proc'[p].pc = "judged" /\ proc'[p].node = f
    BY <1>0, <1>1, <1>6 DEF ProcTypeOK, Idle
  <2>2. Pending(p)' = Pending(p)
    BY <1>0, <1>2, <1>3, <2>1 DEF Pending
  <2>3. DeepestFirst(p)'
    <3>1. \A g \in DOMAIN proc[p].copy \ (proc[p].list \ {f}), h \in proc[p].list \ {f} :
            Depth(ListTree(p), h) <= Depth(ListTree(p), g)
      BY <1>2 DEF DeepestFirst
    <3>2. f \in DOMAIN proc[p].copy \ (proc[p].list \ {f})
      BY <1>2 DEF AsListed
    <3>3. \A g \in DOMAIN proc[p].copy \ Pending(p) : Depth(ListTree(p), f) <= Depth(ListTree(p), g)
      BY <1>0, <1>2 DEF DeepestFirst, Pending
    <3> QED BY <1>3, <2>1, <2>2, <3>1, <3>2, <3>3, DepthKept DEF DeepestFirst, Quiet
  <2>4. LeftForAReason(p)'
    BY <1>3, <1>4, <2>2, SparedKept DEF LeftForAReason, Quiet
  <2> QED BY <1>5, <2>1, <2>3, <2>4 DEF PruneKnows, AloneAtNode
<1>7. CASE ~ Prunable(f, proc[p].copy[f])
  <2>1. proc'[p].pc = "prune"
    BY <1>0, <1>1, <1>7 DEF ProcTypeOK, Idle
  <2>2. DeepestFirst(p)'
    <3>1. \A g \in DOMAIN proc[p].copy \ (proc[p].list \ {f}), h \in proc[p].list \ {f} :
            Depth(ListTree(p), h) <= Depth(ListTree(p), g)
      BY <1>2 DEF DeepestFirst
    <3> QED BY <1>3, <2>1, <3>1, DepthKept DEF DeepestFirst, Quiet
  <2>3. f \in DOMAIN Tree => Spared(p, f)
    BY <1>7 DEF AsListed, Spared, Keeps, Subtree
  <2>4. \A g \in DOMAIN Tree \ (proc[p].list \ {f}) : Spared(p, g)
    BY <1>0, <2>3 DEF LeftForAReason, Pending
  <2>5. LeftForAReason(p)'
    BY <1>3, <1>4, <2>1, <2>4, SparedKept DEF LeftForAReason, Pending, Quiet
  <2> QED BY <1>5, <2>1, <2>2, <2>5 DEF PruneKnows, AloneAtNode
<1> QED BY <1>6, <1>7

LEMMA DeleteJudgedPrunes ==
  ASSUME HallTypeOK, ProcsTypeOK, TreeSound, NEW p \in Procs, DeleteJudged(p), proc[p].op = "prune",
         AsListed(p), DeepestFirst(p), LeftForAReason(p)
  PROVE  PruneKnows(p)'
<1> DEFINE f == proc[p].node
<1>0. /\ proc[p].pc = "judged" /\ UNCHANGED hall /\ ProcTypeOK(proc[p]) /\ p \in DOMAIN proc
      /\ f \in Features
  BY DEF DeleteJudged, ProcsTypeOK, ProcTypeOK
<1>1. CASE Subtree(f) = {f} /\ feature[f] # None
  <2>1. proc'[p] = [proc[p] EXCEPT !.pc = "check", !.tree = Reading({f}), !.todo = {f}]
    BY <1>0, <1>1 DEF DeleteJudged, Goes, TreeSound
  <2>2. /\ proc'[p].pc = "check" /\ proc'[p].list = proc[p].list /\ proc'[p].node = f
        /\ proc'[p].todo = {f} /\ proc'[p].tree = Reading({f}) /\ Quiet(p)
    BY <1>0, <2>1 DEF ProcTypeOK, Idle, Quiet
  <2>3. f \in DOMAIN Tree
    BY <1>0, <1>1, TreeDef
  <2>4. Childless(f)
    <3>1. f \notin Descendants(Tree, f)
      BY <2>3, DescendantsDef DEF TreeSound, Sound
    <3> QED BY <1>0, <1>1, <3>1, NoChildren DEF Subtree
  <2>5. AloneAtNode(p)'
    <3>1. Childless(proc[p].node)'
      BY <1>0, <2>2, <2>4 DEF Childless, hall, Tree
    <3>2. DOMAIN Reading({f}) = {f}
      BY DEF Reading
    <3> QED BY <2>2, <3>1, <3>2 DEF AloneAtNode
  <2> QED BY <1>0, <2>2, <2>5, SamePlace
<1>2. CASE ~ (Subtree(f) = {f} /\ feature[f] # None)
  <2>1. Stops(p)
    BY <1>2 DEF DeleteJudged
  <2>2. f \in DOMAIN Tree => Spared(p, f)
    <3> SUFFICES ASSUME f \in DOMAIN Tree PROVE Spared(p, f)
      OBVIOUS
    <3>1. feature[f] # None
      BY DEF Tree
    <3>2. PICK d \in Subtree(f) : d # f
      BY <1>2, <3>1 DEF Subtree
    <3>3. d \in DOMAIN Tree
      BY <3>2, DescendantsDef DEF Subtree
    <3>4. d \notin proc[p].list
      BY <1>0, <3>2, BelowIsSettled DEF DeepestFirst
    <3>5. Spared(p, d)
      BY <1>0, <3>2, <3>3, <3>4 DEF LeftForAReason, Pending
    <3> QED BY <3>5, SparedAbove
  <2> QED BY <1>0, <2>1, <2>2, StopsPrune
<1> QED BY <1>1, <1>2

(* Removing the feature at hand takes nothing from what spares another.    *)
LEMMA SparedElsewhere ==
  ASSUME HallTypeOK, TreeSound, TreeSound', NEW p, AsListed(p), AsListed(p)', DeepestFirst(p),
         proc[p].pc # "prune", proc'[p].copy = proc[p].copy, proc'[p].touched = proc[p].touched,
         NEW f \in DOMAIN Tree \ Pending(p), f \in DOMAIN Tree', Spared(p, f),
         \A g \in DOMAIN Tree \ {proc[p].node} :
           /\ g \in DOMAIN Tree' /\ feature'[g] = feature[g] /\ work'[g] = work[g]
           /\ branch'[g] = branch[g]
           /\ g \in sessions' => g \in sessions
           /\ g \in sessions => g \in sessions'
  PROVE  Spared(p, f)'
<1>1. PICK d \in Subtree(f) : Keeps(p, d)
  BY DEF Spared
<1>2. d \in DOMAIN Tree /\ d # proc[p].node
  <2>1. CASE d = f
    BY <2>1 DEF Pending
  <2>2. CASE d # f
    <3>1. d \notin Pending(p)
      BY <2>2, BelowIsSettled
    <3> QED BY <3>1, <2>2, DescendantsDef DEF Subtree, Pending
  <2> QED BY <2>1, <2>2
<1>3. d \in Subtree(f)'
  <2>1. d = f \/ f \in Ancestors(ListTree(p), d)
    BY <1>1, SubtreeAsListed
  <2>2. d = f \/ f \in Ancestors(ListTree(p)', d)
    BY <2>1, ListTreeKept
  <2>3. \A e : e \in Subtree(f)' <=> e = f \/ (e \in DOMAIN Tree' /\ f \in Ancestors(ListTree(p)', e))
    <3>1. \A g \in DOMAIN Tree' : Tree'[g] = ListTree(p)'[g]
      BY DEF AsListed, Tree, ListTree
    <3>2. DOMAIN Tree' \subseteq DOMAIN ListTree(p)' /\ DOMAIN ListTree(p)' \subseteq Features
      BY DEF AsListed, ListTree
    <3>3. \A e \in DOMAIN Tree' : Ancestors(Tree', e) = Ancestors(ListTree(p)', e)
      BY <3>1, <3>2, AncestorsAsListed DEF TreeSound
    <3> QED BY <3>3, DescendantsDef DEF Subtree
  <2> QED BY <1>2, <2>2, <2>3
<1>4. Keeps(p, d)'
  BY <1>1, <1>2 DEF Keeps, Prunable, Delivered
<1> QED BY <1>3, <1>4 DEF Spared

LEMMA RemoveWorktreePrunes ==
  ASSUME HallTypeOK, ProcsTypeOK, TreeSound, TreeSound', NEW p \in Procs, RemoveWorktree(p),
         proc[p].op = "prune",
         AsListed(p), DeepestFirst(p), AloneAtNode(p), LeftForAReason(p)
  PROVE  PruneKnows(p)'
<1> DEFINE x == proc[p].node
<1>0. /\ proc[p].pc = "worktree" /\ ProcTypeOK(proc[p]) /\ p \in DOMAIN proc
      /\ UNCHANGED <<feature, sessions, branch>> /\ proc[p].todo = {x}
  BY DEF RemoveWorktree, ProcsTypeOK, AloneAtNode
<1>1. PICK f \in Leaves(p) :
        /\ work' = IF proc[p].tree[f].promoted THEN [work EXCEPT ![f] = "none"] ELSE work
        /\ proc'[p] = [proc[p] EXCEPT !.node = f,
                                      !.pc = IF proc[p].op = "cleanup" THEN "branch" ELSE "dir"]
  BY <1>0 DEF RemoveWorktree, Goes
<1>2. f = x
  BY <1>0 DEF Leaves
<1>3. /\ proc'[p].pc = "dir" /\ proc'[p].list = proc[p].list /\ proc'[p].node = x
      /\ proc'[p].todo = proc[p].todo /\ proc'[p].tree = proc[p].tree
      /\ proc'[p].copy = proc[p].copy /\ proc'[p].touched = proc[p].touched
  BY <1>0, <1>1, <1>2 DEF ProcTypeOK, Idle
<1>4. Tree' = Tree
  BY <1>0 DEF Tree
<1>5. AsListed(p)'
  BY <1>0, <1>3, <1>4, SoundKept DEF AsListed
<1>6. DeepestFirst(p)'
  BY <1>0, <1>3, DepthKept DEF DeepestFirst, Pending
<1>7. AloneAtNode(p)'
  BY <1>0, <1>3, <1>4 DEF AloneAtNode, Childless
<1>8. LeftForAReason(p)'
  <2>1. \A g \in Features \ {x} : work'[g] = work[g]
    BY <1>1, <1>2 DEF HallTypeOK
  <2>2. DOMAIN Tree \subseteq Features
    BY DEF Tree
  <2>3. \A g \in DOMAIN Tree \ Pending(p) : Spared(p, g)'
    BY <1>0, <1>3, <1>4, <1>5, <2>1, <2>2, SparedElsewhere DEF LeftForAReason
  <2> QED BY <1>0, <1>3, <1>4, <2>3 DEF LeftForAReason, Pending
<1> QED BY <1>5, <1>6, <1>7, <1>8 DEF PruneKnows

LEMMA RemoveFilePrunes ==
  ASSUME HallTypeOK, ProcsTypeOK, TreeSound, TreeSound', NEW p \in Procs, RemoveFile(p),
         proc[p].op = "prune",
         AsListed(p), DeepestFirst(p), AloneAtNode(p), LeftForAReason(p)
  PROVE  PruneKnows(p)'
<1> DEFINE x == proc[p].node
<1>0. /\ proc[p].pc = "dir" /\ ProcTypeOK(proc[p]) /\ p \in DOMAIN proc /\ proc[p].todo = {x}
      /\ x \in Features
      /\ UNCHANGED <<work, branch>>
  BY DEF RemoveFile, ProcsTypeOK, ProcTypeOK, AloneAtNode
<1>1. /\ \A g \in Features \ {x} : feature'[g] = feature[g] /\ (g \in sessions' <=> g \in sessions)
      /\ feature'[x] \in {feature[x], None}
  BY <1>0 DEF RemoveFile, HallTypeOK
<1>2. /\ DOMAIN Tree' \subseteq DOMAIN Tree /\ \A g \in DOMAIN Tree \ {x} : g \in DOMAIN Tree'
      /\ \A g \in DOMAIN Tree' : Tree'[g] = Tree[g] /\ feature'[g] = feature[g]
      /\ DOMAIN Tree \subseteq Features
  BY <1>1 DEF Tree
<1>3. \/ proc' = proc
      \/ Stops(p) /\ feature'[x] = None
  <2>1. PICK f : f = x /\ (IF HasDir(f)' THEN UNCHANGED <<ops, approval, proc, spent>> ELSE NodeDone(p))
    BY DEF RemoveFile
  <2> QED BY <1>0, <2>1 DEF NodeDone, HasDir
<1>4. \/ proc'[p] = proc[p]
      \/ /\ proc'[p] = [proc[p] EXCEPT !.pc = "prune", !.node = None, !.todo = {}]
         /\ x \notin DOMAIN Tree'
      \/ proc'[p] = Idle
  BY <1>3, StopsAt DEF Tree
<1>5. ASSUME proc'[p].copy = proc[p].copy, proc'[p].touched = proc[p].touched,
             proc'[p].list = proc[p].list
      PROVE  AsListed(p)' /\ \A g \in DOMAIN Tree' \ Pending(p) : Spared(p, g)'
  <2>1. AsListed(p)'
    BY <1>2, <1>5, SoundKept DEF AsListed
  <2> QED BY <1>0, <1>1, <1>2, <1>5, <2>1, SparedElsewhere DEF LeftForAReason
<1>6. CASE proc'[p] = proc[p]
  <2>1. DeepestFirst(p)'
    BY <1>6, DepthKept DEF DeepestFirst, Pending
  <2>2. AloneAtNode(p)'
    BY <1>0, <1>2, <1>6 DEF AloneAtNode, Childless
  <2>3. LeftForAReason(p)'
    BY <1>5, <1>6 DEF LeftForAReason, Pending
  <2> QED BY <1>5, <1>6, <2>1, <2>2, <2>3 DEF PruneKnows
<1>7. CASE /\ proc'[p] = [proc[p] EXCEPT !.pc = "prune", !.node = None, !.todo = {}]
           /\ x \notin DOMAIN Tree'
  <2>1. /\ proc'[p].pc = "prune" /\ proc'[p].list = proc[p].list
        /\ proc'[p].touched = proc[p].touched /\ proc'[p].copy = proc[p].copy
    BY <1>0, <1>7 DEF ProcTypeOK, Idle
  <2>2. DeepestFirst(p)'
    BY <2>1, DepthKept DEF DeepestFirst
  <2>3. LeftForAReason(p)'
    BY <1>0, <1>5, <1>7, <2>1 DEF LeftForAReason, Pending
  <2> QED BY <1>5, <2>1, <2>2, <2>3 DEF PruneKnows, AloneAtNode
<1>8. CASE proc'[p] = Idle
  BY <1>8, NoPrune DEF Idle
<1> QED BY <1>4, <1>6, <1>7, <1>8

(* The steps of a process that runs a prune alone.                         *)
LEMMA StepPruneKnows ==
  ASSUME HallTypeOK, ProcsTypeOK, TreeSound, TreeSound', NEW p \in Procs, CommandOK(p), PruneKnows(p),
         Step(p), Undisturbed(p)
  PROVE  PruneKnows(p)'
<1>0. ProcTypeOK(proc[p]) /\ p \in DOMAIN proc
  BY DEF ProcsTypeOK
<1>1. CASE Write(p) \/ Pruned(p)
  <2>1. proc'[p] = Idle
    BY <1>0, <1>1 DEF Write, Pruned, Ends, Goes
  <2> QED BY <2>1, NoPrune DEF Idle
<1>2. CASE proc[p].op # "prune" /\ ~ Write(p) /\ ~ Pruned(p)
  <2>1. proc'[p].op = proc[p].op \/ proc'[p].pc = "idle"
    <3>1. CASE Update(p)
      <4>1. \/ proc'[p] = Idle
            \/ \E c : proc'[p] = [proc[p] EXCEPT !.pc = "write", !.copy = c]
        BY <1>0, <3>1 DEF Update, Ends, Goes
      <4>2. CASE proc'[p] = Idle
        BY <4>2 DEF Idle
      <4>3. ASSUME NEW c, proc'[p] = [proc[p] EXCEPT !.pc = "write", !.copy = c]
            PROVE  proc'[p].op = proc[p].op
        BY <4>3, <1>0 DEF ProcTypeOK, Idle
      <4> QED BY <4>1, <4>2, <4>3
    <3>2. CASE Materialise(p)
      BY <1>0, <3>2 DEF Materialise, Goes, ProcTypeOK, Idle
    <3>3. CASE Stops(p)
      <4>1. proc'[p] = Idle
        BY <1>2, <3>3, StopsAt
      <4> QED BY <4>1 DEF Idle
    <3>4. CASE Check(p) /\ ~ Stops(p)
      BY <1>0, <3>4 DEF Check, Goes, ProcTypeOK, Idle
    <3>5. CASE Judge(p) \/ DeleteJudged(p)
      BY <1>2, <3>5, OpsAtDef DEF Judge, DeleteJudged, CommandOK
    <3>6. CASE RemoveWorktree(p)
      <4>1. PICK f : proc'[p] = [proc[p] EXCEPT !.node = f,
                                                !.pc = IF proc[p].op = "cleanup" THEN "branch" ELSE "dir"]
        BY <1>0, <3>6 DEF RemoveWorktree, Goes
      <4> QED BY <4>1, <1>0 DEF ProcTypeOK, Idle
    <3>7. CASE RemoveBranch(p) /\ ~ Stops(p)
      BY <1>0, <3>7 DEF RemoveBranch, Goes, ProcTypeOK, Idle
    <3>8. CASE RemoveFile(p) /\ ~ Stops(p)
      <4>1. \/ proc' = proc
            \/ proc'[p] = [proc[p] EXCEPT !.pc = "worktree", !.todo = @ \ {proc[p].node}]
        BY <1>0, <3>8 DEF RemoveFile, NodeDone, Goes
      <4>2. CASE proc' = proc
        BY <4>2
      <4>3. CASE proc'[p] = [proc[p] EXCEPT !.pc = "worktree", !.todo = @ \ {proc[p].node}]
        BY <4>3, <1>0 DEF ProcTypeOK, Idle
      <4> QED BY <4>1, <4>2, <4>3
    <3> QED BY <1>2, <3>1, <3>2, <3>3, <3>4, <3>5, <3>6, <3>7, <3>8 DEF Step
  <2> QED BY <2>1, <1>2, NoPrune
<1>3. CASE proc[p].op = "prune" /\ ~ Write(p) /\ ~ Pruned(p)
  <2>1. Check(p) \/ Judge(p) \/ DeleteJudged(p) \/ RemoveWorktree(p) \/ RemoveFile(p)
    BY <1>3, OpsAtDef DEF Step, Update, Materialise, RemoveBranch, CommandOK
  <2>2. AsListed(p) /\ DeepestFirst(p) /\ AloneAtNode(p) /\ LeftForAReason(p)
    BY <1>3, <2>1 DEF PruneKnows, Check, Judge, DeleteJudged, RemoveWorktree, RemoveFile
  <2> QED BY <1>3, <2>1, <2>2, CheckPrunes, JudgePrunes, DeleteJudgedPrunes,
         RemoveWorktreePrunes, RemoveFilePrunes
<1> QED BY <1>1, <1>2, <1>3

(* What others do meanwhile, the prune comes upon.                         *)
LEMMA TouchPruneKnows ==
  ASSUME HallTypeOK, ProcsTypeOK, NEW p \in Procs, PruneKnows(p), NEW f \in Features, Touch(f),
         Undisturbed(p)
  PROVE  PruneKnows(p)'
<1>0. TouchedAt(p, f) /\ ProcTypeOK(proc[p]) /\ UNCHANGED feature
  BY TouchLeaves DEF ProcsTypeOK
<1>1. CASE proc[p].pc = "idle" \/ proc[p].op # "prune"
  <2>1. CASE proc[p].pc = "idle"
    BY <1>0, <2>1, NoPrune DEF TouchedAt
  <2>2. CASE proc[p].pc # "idle" /\ proc[p].op # "prune"
    BY <1>0, <2>2, NoPrune DEF TouchedAt, ProcTypeOK, Idle
  <2> QED BY <1>1, <2>1, <2>2
<1>2. CASE proc[p].pc # "idle" /\ proc[p].op = "prune"
  <2>1. /\ proc'[p].pc = proc[p].pc /\ proc'[p].tree = proc[p].tree /\ proc'[p].list = proc[p].list
        /\ proc'[p].todo = proc[p].todo /\ proc'[p].touched = proc[p].touched \cup {f}
        /\ proc'[p].node = proc[p].node /\ proc'[p].copy = proc[p].copy
    BY <1>0, <1>2 DEF TouchedAt, ProcTypeOK, Idle
  <2>2. AsListed(p) /\ DeepestFirst(p) /\ AloneAtNode(p) /\ LeftForAReason(p)
    BY <1>2 DEF PruneKnows
  <2>3. Tree' = Tree /\ \A g : Subtree(g)' = Subtree(g)
    <3>1. Tree' = Tree
      BY <1>0 DEF Tree
    <3> QED BY <3>1 DEF Subtree, Descendants, Ancestors
  <2>4. AsListed(p)'
    BY <1>0, <2>1, <2>2, <2>3, SoundKept DEF AsListed
  <2>5. DeepestFirst(p)'
    BY <2>1, <2>2, DepthKept DEF DeepestFirst, Pending
  <2>6. AloneAtNode(p)'
    BY <2>1, <2>2, <2>3 DEF AloneAtNode, Childless
  <2>7. \A g \in Features \ {f} : /\ work'[g] = work[g] /\ branch'[g] = branch[g]
                                   /\ (g \in sessions' <=> g \in sessions)
    BY DEF Touch, Edits, Commits, Lands, OpensSession, ClosesSession, WritesOrCloses, HallTypeOK
  <2>8. \A d \in Features : Keeps(p, d) => Keeps(p, d)'
    BY <1>0, <2>1, <2>7 DEF Keeps, Prunable, Delivered
  <2>9. LeftForAReason(p)'
    <3>1. \A g \in DOMAIN Tree : Subtree(g) \subseteq Features
      BY DEF Subtree, Descendants, Tree
    <3>2. \A g \in DOMAIN Tree \ Pending(p) : Spared(p, g)'
      BY <2>2, <2>3, <2>8, <3>1 DEF LeftForAReason, Spared
    <3> QED BY <2>1, <2>3, <3>2 DEF LeftForAReason, Pending
  <2> QED BY <2>4, <2>5, <2>6, <2>9 DEF PruneKnows
<1> QED BY <1>1, <1>2

LEMMA PruneKnowsStep ==
  ASSUME HallTypeOK, ProcsTypeOK, Knows, TreeSound, TreeSound', [Next]_vars,
         NEW p \in Procs, PruneKnows(p)
  PROVE  PruneKnows(p)'
<1>1. CASE ~ Undisturbed(p)'
  BY <1>1 DEF PruneKnows
<1>2. CASE Undisturbed(p)'
  <2>0. Undisturbed(p) /\ CommandOK(p)
    BY <1>2, UndisturbedBefore DEF Knows
  <2>1. ASSUME NEW q \in Procs, Acts(q) PROVE PruneKnows(p)'
    <3>1. CASE q = p
      <4>1. Begin(p) \/ Step(p)
        BY <1>2, <2>1, <3>1, MishapEndsIt DEF Acts
      <4> QED BY <2>0, <4>1, BeginPruneKnows, StepPruneKnows
    <3>2. CASE q # p
      BY <2>0, <2>1, <3>2, ActsNeeds DEF Undisturbed, Knows, CommandOK
    <3> QED BY <3>1, <3>2
  <2>2. ASSUME NEW f \in Features, Touch(f) PROVE PruneKnows(p)'
    BY <2>0, <2>2, TouchPruneKnows
  <2>3. ASSUME UNCHANGED <<ops, hall, proc, spent>> PROVE PruneKnows(p)'
    <3>1. proc'[p] = proc[p] /\ Tree' = Tree /\ feature' = feature
      BY <2>3 DEF hall, Tree
    <3>2. AsListed(p)' <=> AsListed(p)
      BY <3>1, SoundKept DEF AsListed
    <3>3. DeepestFirst(p)' <=> DeepestFirst(p)
      BY <3>1, DepthKept DEF DeepestFirst, Pending
    <3>4. AloneAtNode(p)' <=> AloneAtNode(p)
      BY <3>1 DEF AloneAtNode, Childless
    <3>5. LeftForAReason(p)' <=> LeftForAReason(p)
      BY <2>3, <3>1, SparedKept DEF LeftForAReason, Pending
    <3> QED BY <2>0, <3>1, <3>2, <3>3, <3>4, <3>5 DEF PruneKnows
  <2>4. ASSUME NEW f \in Features, Approve(f) PROVE PruneKnows(p)'
    BY <2>3, <2>4 DEF Approve
  <2> QED BY <2>1, <2>2, <2>3, <2>4, Actors DEF vars, hall
<1> QED BY <1>1, <1>2

(* A prune that is alone and that nothing interrupts leaves no delivered   *)
(* subtree behind.                                                         *)
THEOREM PruneTakesAll == ASSUME Orderly PROVE Spec => PruneComplete
<1> DEFINE Inv == \A p \in Procs : PruneKnows(p)
<1>1. Init => Inv
  BY DEF Init, PruneKnows, Idle
<1>2. IInv /\ IInv' /\ Inv /\ [Next]_vars => Inv'
  <2>1. SUFFICES ASSUME IInv, IInv', Inv, [Next]_vars, NEW p \in Procs PROVE PruneKnows(p)'
    OBVIOUS
  <2>2. TreeSound /\ TreeSound'
    BY <2>1 DEF IInv
  <2> QED BY <2>1, <2>2, IInvParts, PruneKnowsStep
<1>3. ASSUME IInv, Inv, NEW p \in Procs, Pruned(p), spent.mishaps = 0,
             \A q \in Procs \ {p} : ops[q] = {},
             NEW f \in Features, feature[f] # None,
             \A d \in Subtree(f) : Prunable(d, feature[d]) /\ work[d] # "dirty"
      PROVE  Subtree(f) \cap proc[p].touched # {}
  <2>1. proc[p].pc = "prune" /\ proc[p].list = {} /\ proc[p].op = "prune"
    BY <1>3, IInvParts, OpsAtDef DEF Pruned, Knows, CommandOK
  <2>2. f \in DOMAIN Tree \ Pending(p)
    BY <1>3, <2>1 DEF Tree, Pending
  <2>3. Spared(p, f)
    BY <1>3, <2>1, <2>2 DEF PruneKnows, LeftForAReason, Undisturbed
  <2> QED BY <1>3, <2>3 DEF Spared, Keeps
<1>4. IInv /\ Inv /\ [Next]_vars =>
        [\A p \in Procs : Pruned(p) /\ spent.mishaps = 0 /\ (\A q \in Procs \ {p} : ops[q] = {}) =>
           \A f \in Features :
             feature[f] # None /\ (\A d \in Subtree(f) : Prunable(d, feature[d]) /\ work[d] # "dirty")
             => Subtree(f) \cap proc[p].touched # {}]_vars
  BY <1>3
<1> HIDE DEF Inv
<1> QED BY <1>1, <1>2, <1>4, Inductive, PTL DEF Spec, PruneComplete
=============================================================================
