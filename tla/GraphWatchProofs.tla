--------------------------- MODULE GraphWatchProofs -------------------------
(***************************************************************************)
(* Proofs about GraphWatch: the inductive invariant IInv, and with it that *)
(* what a listening leader calls settled is what the files hold.           *)
(*                                                                         *)
(* First, what each action does to the one thread it moves; then the four  *)
(* parts of IInv, each with the ones before it: types, orderly threads,    *)
(* the lease, the claims of the base index.  The last, LeaderKnows, is     *)
(* proved from the leader's side: a step of anybody else leaves what it    *)
(* knows standing (LeaderStands), a step of its own thread is looked at    *)
(* action by action (LeaderSteps), and rows are written by nobody else     *)
(* unless a slip says so (RowsAreTheLeaders).                              *)
(***************************************************************************)
EXTENDS GraphWatch, TLAPS

-----------------------------------------------------------------------------
(* What each action does to the worker threads.                             *)

(* Only p's thread moves.                                                   *)
Alone(p) ==
  /\ worker' \in [Servers -> Worker]
  /\ \A q \in Servers \ {p} : worker'[q] = worker[q]

(* A thread that becomes another state.                                     *)
LEMMA Becomes ==
  ASSUME TypeOK, NEW p \in Servers, NEW n \in Worker, worker' = [worker EXCEPT ![p] = n]
  PROVE  Alone(p) /\ worker'[p] = n
  BY DEF TypeOK, Alone

(* The two kinds of scopes.                                                 *)
LEMMA TwoScopes ==
  /\ Scopes = {Base, Layer} /\ Base # Layer
  /\ \A s : FirstOf(s) \in Scopes
  /\ \A s \in SUBSET Scopes : s # {} => FirstOf(s) \in s
  /\ \A s : Base \in s => FirstOf(s) = Base
  /\ \A s \in SUBSET Scopes : Base \notin s => FirstOf(s) = Layer
  /\ Targets \subseteq Scopes /\ Base \in Targets
  BY DEF Scopes, Base, Layer, FirstOf, Targets

(* A scope is left behind: the thread rests.                                *)
Rested(w, n, todo, burst) ==
  /\ n.at \in IF todo # {} THEN {"pick"} ELSE {"forget", "idle"}
  /\ n.registering <=> w.registering /\ todo # {}
  /\ n.targets = w.targets /\ n.watched = w.watched /\ n.chan = w.chan
  /\ n.burst = burst /\ n.todo = todo

(* A thread that is done with a scope.                                      *)
LEMMA RestIs ==
  ASSUME NEW w \in Worker
  PROVE  LET n == Rest(w) IN
         /\ n \in Worker /\ Rested(w, n, w.todo, w.burst)
         /\ n.deaf = w.deaf /\ n.unsure = w.unsure
<1> DEFINE n == Rest(w)
<1>1. /\ w.at \in {"none", "start", "pick", "reindex", "extract", "layer",
                    "done", "forget", "idle", "dead"}
      /\ w.fresh \in BOOLEAN /\ w.registering \in BOOLEAN /\ w.todo \in SUBSET Scopes
      /\ Base \in Scopes /\ Absent \in Commits \cup {Absent}
      /\ 0 \in Nat \cup {Absent}
  BY DEF Worker, Scopes
<1>2. (w.registering /\ w.todo # {}) \in BOOLEAN
  OBVIOUS
<1>3. n.at = IF w.todo # {} THEN "pick" ELSE IF w.fresh THEN "forget" ELSE "idle"
  BY DEF Rest, Worker
<1>4. n.registering <=> w.registering /\ w.todo # {}
  BY Zenon DEF Rest, Worker
<1>5. /\ n.targets = w.targets /\ n.watched = w.watched /\ n.chan = w.chan
      /\ n.burst = w.burst /\ n.todo = w.todo
      /\ n.deaf = w.deaf /\ n.unsure = w.unsure
  BY DEF Rest, Worker
<1>6. n \in Worker
  <2> DEFINE at == IF w.todo # {} THEN "pick" ELSE IF w.fresh THEN "forget" ELSE "idle"
             registering == w.registering /\ w.todo # {}
  <2>1. at \in {"pick", "forget", "idle"} /\ registering \in BOOLEAN
    BY <1>2
  <2>2. n = [w EXCEPT !.at = at, !.scope = Base, !.seq = 0, !.clear = FALSE,
                      !.before = Absent, !.registering = registering]
    BY Zenon DEF Rest
  <2> HIDE DEF at, registering, n
  <2> QED
    BY <1>1, <2>1, <2>2, Zenon DEF Worker
<1> QED
  BY <1>3, <1>4, <1>5, <1>6 DEF Rested

(* A thread that rests after some of its fields have changed.               *)
LEMMA BecomesRest ==
  ASSUME TypeOK, NEW p \in Servers, NEW v \in Worker,
         worker' = [worker EXCEPT ![p] = Rest(v)],
         v.registering = worker[p].registering, v.targets = worker[p].targets,
         v.watched = worker[p].watched, v.chan = worker[p].chan
  PROVE  /\ Alone(p) /\ Rested(worker[p], worker'[p], v.todo, v.burst)
         /\ worker'[p].deaf = v.deaf /\ worker'[p].unsure = v.unsure
<1>1. /\ Rest(v) \in Worker /\ Rested(v, Rest(v), v.todo, v.burst)
      /\ Rest(v).deaf = v.deaf /\ Rest(v).unsure = v.unsure
  BY RestIs
<1>2. Alone(p) /\ worker'[p] = Rest(v)
  BY <1>1, Becomes
<1> QED
  BY <1>1, <1>2 DEF Rested

(* A subset of a subset.                                                    *)
LEMMA Subsets ==
  ASSUME NEW w \in Worker
  PROVE  /\ \A S \in SUBSET Scopes : /\ w.todo \ S \in SUBSET Scopes
                                     /\ w.burst \cup S \in SUBSET Scopes
                                     /\ w.burst \ S \in SUBSET Scopes
                                     /\ w.watched \cup S \in SUBSET Scopes
                                     /\ w.deaf \cup S \in SUBSET (Scopes \cup {"control"})
                                     /\ w.unsure \cup S \in SUBSET Scopes
                                     /\ w.unsure \ S \in SUBSET Scopes
                                     /\ w.stuck \cup S \in SUBSET Scopes
                                     /\ w.stuck \ S \in SUBSET Scopes
         /\ w.scope \in Scopes /\ w.todo \in SUBSET Scopes /\ w.targets \in SUBSET Scopes
         /\ w.burst \in SUBSET Scopes /\ w.watched \in SUBSET Scopes
  BY DEF Worker

(* The thread discovers its targets.                                        *)
LEMMA DiscoverIs ==
  ASSUME TypeOK, NEW p \in Servers, Discover(p)
  PROVE  /\ Alone(p) /\ worker[p].at = "start"
         /\ LET w == worker[p]
                n == worker'[p] IN
            /\ n.at = "pick" /\ n.targets = Targets /\ n.todo = Targets
            /\ n.watched = w.watched /\ n.chan = w.chan /\ n.burst = w.burst
            /\ n.registering = w.registering /\ n.unsure = w.unsure
            /\ n.deaf \in {{}, {"control"}}
<1> DEFINE w == worker[p]
<1>1. w \in Worker /\ Targets \in SUBSET Scopes
  BY TwoScopes DEF TypeOK
<1>2. PICK deaf \in {{}, {"control"}} :
        worker' = [worker EXCEPT ![p].at = "pick", ![p].targets = Targets,
                                 ![p].todo = Targets, ![p].deaf = deaf]
  BY DEF Discover
<1> DEFINE n == [w EXCEPT !.at = "pick", !.targets = Targets, !.todo = Targets,
                          !.deaf = deaf]
<1>3. n \in Worker
  <2>1. deaf \in SUBSET (Scopes \cup {"control"})
    OBVIOUS
  <2> QED
    BY <1>1, <2>1, Zenon DEF Worker
<1>4. worker' = [worker EXCEPT ![p] = n]
  BY <1>1, <1>2 DEF TypeOK
<1>5. Alone(p) /\ worker'[p] = n
  BY <1>3, <1>4, Becomes
<1>6. /\ n.at = "pick" /\ n.targets = Targets /\ n.todo = Targets
      /\ n.watched = w.watched /\ n.chan = w.chan /\ n.burst = w.burst
      /\ n.registering = w.registering /\ n.unsure = w.unsure /\ n.deaf = deaf
  BY <1>1 DEF Worker
<1> QED
  BY <1>5, <1>6 DEF Discover

(* The next scope of the batch is taken up; its count is read, or not,      *)
Taken(w, n, s) ==
  /\ s \in w.todo /\ s = FirstOf(w.todo)
  /\ n.at = "reindex" /\ n.scope = s /\ n.todo = w.todo \ {s}
  /\ n.seq \in {rows[s].observed, Absent} /\ n.before = base.commit
  /\ n.targets = w.targets /\ n.chan = w.chan /\ n.burst = w.burst
  /\ n.unsure = w.unsure

(* to be registered first,                                                  *)
LEMMA RegisterIs ==
  ASSUME TypeOK, WorkersOrderly, NEW p \in Servers, Register(p)
  PROVE  LET w == worker[p]
             n == worker'[p] IN
         /\ Alone(p) /\ w.at = "pick" /\ w.registering /\ n.registering
         /\ n.scope \in Scopes /\ Taken(w, n, n.scope) /\ n.watched = w.watched \cup {n.scope}
         /\ n.deaf \in {w.deaf, w.deaf \cup {n.scope}}
<1> DEFINE w == worker[p]
           s == FirstOf(w.todo)
<1>1. /\ w \in Worker /\ w.todo \in SUBSET Scopes /\ w.watched \in SUBSET Scopes
      /\ s \in Scopes /\ rows[s].observed \in Nat /\ base.commit \in Commits \cup {Absent}
  BY TwoScopes DEF TypeOK, Worker, Row
<1>2. PICK deaf \in {w.deaf, w.deaf \cup {s}}, seq \in {rows[s].observed, Absent} :
        worker' = [worker EXCEPT ![p] =
                     [w EXCEPT !.at = "reindex", !.todo = w.todo \ {s}, !.scope = s,
                               !.watched = w.watched \cup {s}, !.deaf = deaf, !.seq = seq,
                               !.clear = TRUE, !.before = base.commit]]
  BY DEF Register
<1> DEFINE n == [w EXCEPT !.at = "reindex", !.todo = w.todo \ {s}, !.scope = s,
                          !.watched = w.watched \cup {s}, !.deaf = deaf, !.seq = seq,
                          !.clear = TRUE, !.before = base.commit]
<1>3. n \in Worker
  <2>1. /\ w.todo \ {s} \in SUBSET Scopes /\ w.watched \cup {s} \in SUBSET Scopes
        /\ deaf \in SUBSET (Scopes \cup {"control"}) /\ seq \in Nat \cup {Absent}
    BY <1>1 DEF Worker
  <2> HIDE DEF s
  <2> QED
    BY <1>1, <2>1, Zenon DEF Worker
<1>4. Alone(p) /\ worker'[p] = n
  BY <1>2, <1>3, Becomes
<1>5. /\ n.at = "reindex" /\ n.scope = s /\ n.todo = w.todo \ {s}
      /\ n.seq = seq /\ n.before = base.commit
      /\ n.targets = w.targets /\ n.chan = w.chan /\ n.burst = w.burst
      /\ n.watched = w.watched \cup {s} /\ n.registering = w.registering
      /\ n.unsure = w.unsure /\ n.deaf = deaf
  BY <1>1 DEF Worker
<1>6. w.at = "pick" /\ w.registering /\ s \in w.todo
  BY <1>1, TwoScopes DEF Register, WorkersOrderly, Orderly
<1> QED
  BY <1>1, <1>4, <1>5, <1>6 DEF Taken

(* or is given up, because it cannot be registered,                         *)
LEMMA RefusedIs ==
  ASSUME TypeOK, WorkersOrderly, NEW p \in Servers, Refused(p)
  PROVE  LET w == worker[p]
             s == FirstOf(w.todo)
             n == worker'[p] IN
         /\ Alone(p) /\ w.at = "pick" /\ w.registering /\ s \in w.todo
         /\ Rested(w, n, w.todo \ {s}, w.burst)
         /\ n.deaf = w.deaf \cup {s} /\ n.unsure = w.unsure
<1> DEFINE w == worker[p]
           s == FirstOf(w.todo)
           v == [w EXCEPT !.todo = w.todo \ {s}, !.deaf = w.deaf \cup {s}]
<1>1. w \in Worker /\ s \in Scopes
  BY TwoScopes DEF TypeOK
<1>2. w.at = "pick" /\ w.registering /\ s \in w.todo
  BY <1>1, TwoScopes DEF Refused, WorkersOrderly, Orderly, Worker
<1>3. v \in Worker
  <2>1. w.todo \ {s} \in SUBSET Scopes /\ w.deaf \cup {s} \in SUBSET (Scopes \cup {"control"})
    BY <1>1, Subsets
  <2> HIDE DEF s
  <2> QED
    BY <1>1, <2>1, Zenon DEF Worker
<1>4. worker' = [worker EXCEPT ![p] = Rest(v)]
  BY Zenon DEF Refused
<1>5. /\ v.registering = w.registering /\ v.targets = w.targets /\ v.watched = w.watched
      /\ v.chan = w.chan /\ v.todo = w.todo \ {s} /\ v.burst = w.burst
      /\ v.deaf = w.deaf \cup {s} /\ v.unsure = w.unsure
  BY <1>1 DEF Worker
<1>6. /\ Alone(p) /\ Rested(w, worker'[p], w.todo \ {s}, w.burst)
      /\ worker'[p].deaf = w.deaf \cup {s} /\ worker'[p].unsure = w.unsure
  <2> HIDE DEF v
  <2> QED
    BY <1>3, <1>4, <1>5, BecomesRest
<1> QED
  BY <1>2, <1>6

(* or, when it is due, without.                                             *)
LEMMA PickDueIs ==
  ASSUME TypeOK, WorkersOrderly, NEW p \in Servers, PickDue(p)
  PROVE  LET w == worker[p]
             n == worker'[p] IN
         /\ Alone(p) /\ w.at = "pick" /\ ~w.registering /\ n.deaf = w.deaf
         /\ \/ /\ n.scope \in Scopes \cap w.targets /\ Taken(w, n, n.scope)
               /\ n.watched = w.watched /\ ~n.registering
            \/ \E s \in w.todo : /\ s \notin w.targets /\ n.unsure = w.unsure
                                 /\ Rested(w, n, w.todo \ {s}, w.burst)
<1> DEFINE w == worker[p]
           s == FirstOf(w.todo)
           left == [w EXCEPT !.todo = w.todo \ {s}]
<1>1. /\ w \in Worker /\ w.todo \in SUBSET Scopes
      /\ s \in Scopes /\ rows[s].observed \in Nat /\ rows[s].catchup \in BOOLEAN
      /\ base.commit \in Commits \cup {Absent}
  BY TwoScopes DEF TypeOK, Worker, Row
<1>2. w.at = "pick" /\ ~w.registering /\ s \in w.todo
  BY <1>1, TwoScopes DEF PickDue, WorkersOrderly, Orderly
<1>3. left \in Worker
  <2>1. w.todo \ {s} \in SUBSET Scopes
    BY <1>1
  <2> HIDE DEF s
  <2> QED
    BY <1>1, <2>1, Zenon DEF Worker
<1>4. PICK read \in BOOLEAN :
        worker' = [worker EXCEPT ![p] =
                     IF s \in w.targets
                     THEN [left EXCEPT !.at = "reindex", !.scope = s,
                              !.seq = IF read THEN rows[s].observed ELSE Absent,
                              !.clear = read /\ rows[s].catchup, !.before = base.commit]
                     ELSE Rest(left)]
  BY Zenon DEF PickDue
<1>5. CASE s \in w.targets
  <2> DEFINE seq == IF read THEN rows[s].observed ELSE Absent
             clear == read /\ rows[s].catchup
             n == [left EXCEPT !.at = "reindex", !.scope = s, !.seq = seq,
                               !.clear = clear, !.before = base.commit]
  <2>1. seq \in Nat \cup {Absent} /\ clear \in BOOLEAN /\ seq \in {rows[s].observed, Absent}
    BY <1>1
  <2>2. worker' = [worker EXCEPT ![p] = n]
    BY <1>4, <1>5
  <2> HIDE DEF seq, clear
  <2>3. n \in Worker
    <3> HIDE DEF left, s
    <3> QED
      BY <1>1, <1>3, <2>1, Zenon DEF Worker
  <2>4. Alone(p) /\ worker'[p] = n
    BY <2>2, <2>3, Becomes
  <2>5. /\ n.at = "reindex" /\ n.scope = s /\ n.todo = w.todo \ {s}
        /\ n.seq = seq /\ n.before = base.commit
        /\ n.targets = w.targets /\ n.chan = w.chan /\ n.burst = w.burst
        /\ n.watched = w.watched /\ n.registering = w.registering
        /\ n.deaf = w.deaf /\ n.unsure = w.unsure
    BY <1>1 DEF Worker
  <2> QED
    BY <1>1, <1>2, <1>5, <2>1, <2>4, <2>5 DEF Taken
<1>6. CASE s \notin w.targets
  <2>1. worker' = [worker EXCEPT ![p] = Rest(left)]
    BY <1>4, <1>6
  <2>2. /\ left.registering = w.registering /\ left.targets = w.targets
        /\ left.watched = w.watched /\ left.chan = w.chan /\ left.todo = w.todo \ {s}
        /\ left.burst = w.burst /\ left.deaf = w.deaf /\ left.unsure = w.unsure
    BY <1>1 DEF Worker
  <2> HIDE DEF left
  <2> QED
    BY <1>2, <1>3, <1>6, <2>1, <2>2, BecomesRest
<1> QED
  BY <1>5, <1>6

(* What the thread goes by stays, but for what it is doing.                 *)
Keeps(w, n) ==
  /\ n.registering = w.registering /\ n.targets = w.targets /\ n.watched = w.watched
  /\ n.chan = w.chan /\ n.burst = w.burst /\ n.todo = w.todo
  /\ n.deaf = w.deaf /\ n.unsure = w.unsure

(* The rows without a target are dropped, or stay: the thread rests.        *)
LEMMA ForgetIs ==
  ASSUME TypeOK, NEW p \in Servers, Forget(p) \/ ForgetFails(p)
  PROVE  LET w == worker[p]
             n == worker'[p] IN
         /\ Alone(p) /\ w.at = "forget" /\ Rested(w, n, w.todo, w.burst) /\ n.deaf = w.deaf
         /\ n.unsure = w.unsure \cup (IF Forget(p) THEN {} ELSE Scopes \ w.targets)
<1> DEFINE w == worker[p]
           more == IF Forget(p) THEN {} ELSE Scopes \ w.targets
           v == [w EXCEPT !.fresh = FALSE, !.unsure = w.unsure \cup more]
<1>1. w \in Worker
  BY DEF TypeOK
<1>2. v \in Worker
  <2>1. w.unsure \cup more \in SUBSET Scopes
    BY <1>1, Subsets
  <2> HIDE DEF more
  <2> QED
    BY <1>1, <2>1, Zenon DEF Worker
<1>3. worker' = [worker EXCEPT ![p] = Rest(v)]
  <2>1. CASE Forget(p)
    <3>1. w.unsure \cup more = w.unsure
      BY <2>1
    <3>2. v = [w EXCEPT !.fresh = FALSE]
      BY <1>1, <3>1 DEF Worker
    <3>3. worker' = [worker EXCEPT ![p] = Rest([worker[p] EXCEPT !.fresh = FALSE])]
      BY <2>1, Zenon DEF Forget
    <3> QED
      BY <3>2, <3>3
  <2>2. CASE ForgetFails(p) /\ ~Forget(p)
    BY <2>2 DEF ForgetFails
  <2> QED
    BY <2>1, <2>2
<1>4. /\ v.registering = w.registering /\ v.targets = w.targets /\ v.watched = w.watched
      /\ v.chan = w.chan /\ v.todo = w.todo /\ v.burst = w.burst
      /\ v.deaf = w.deaf /\ v.unsure = w.unsure \cup more
  BY <1>1 DEF Worker
<1>5. w.at = "forget"
  BY DEF Forget, ForgetFails
<1> HIDE DEF v
<1> QED
  BY <1>2, <1>3, <1>4, <1>5, BecomesRest

(* The thread goes on with its scope: to the claim of the base,             *)
LEMMA StartIndexIs ==
  ASSUME TypeOK, NEW p \in Servers, StartIndex(p)
  PROVE  LET w == worker[p]
             n == worker'[p] IN
         /\ Alone(p) /\ w.at = "reindex" /\ w.scope = Base
         /\ n.at = (IF UpToDate THEN "done" ELSE "extract") /\ n.scope = w.scope
         /\ Keeps(w, n) /\ n.seq = w.seq /\ n.before = w.before
<1> DEFINE w == worker[p]
           at == IF UpToDate THEN "done" ELSE "extract"
           n == [w EXCEPT !.at = at]
<1>1. w \in Worker /\ n \in Worker
  <2>1. w \in Worker
    BY DEF TypeOK
  <2> QED
    BY <2>1, Zenon DEF Worker
<1>2. worker' = [worker EXCEPT ![p] = n]
  BY <1>1 DEF StartIndex, TypeOK
<1>3. Alone(p) /\ worker'[p] = n
  BY <1>1, <1>2, Becomes
<1>4. n.at = at /\ n.scope = w.scope /\ Keeps(w, n) /\ n.seq = w.seq /\ n.before = w.before
  BY <1>1 DEF Worker, Keeps
<1> QED
  BY <1>3, <1>4 DEF StartIndex

(* from the claim of the base to its rows,                                  *)
LEMMA ExtractIs ==
  ASSUME TypeOK, NEW p \in Servers, Extract(p)
  PROVE  LET w == worker[p]
             n == worker'[p] IN
         /\ Alone(p) /\ w.at = "extract" /\ n.at = "done" /\ n.scope = w.scope
         /\ Keeps(w, n) /\ n.seq = w.seq /\ n.before = w.before
<1> DEFINE w == worker[p]
           n == [w EXCEPT !.at = "done"]
<1>1. w \in Worker /\ n \in Worker
  <2>1. w \in Worker
    BY DEF TypeOK
  <2> QED
    BY <2>1, Zenon DEF Worker
<1>2. worker' = [worker EXCEPT ![p] = n]
  BY <1>1 DEF Extract, TypeOK
<1>3. Alone(p) /\ worker'[p] = n
  BY <1>1, <1>2, Becomes
<1>4. n.at = "done" /\ n.scope = w.scope /\ Keeps(w, n) /\ n.seq = w.seq /\ n.before = w.before
  BY <1>1 DEF Worker, Keeps
<1> QED
  BY <1>3, <1>4 DEF Extract

(* The commit a layer is compared with is one.                              *)
LEMMA BaseCommitIs ==
  ASSUME TypeOK
  PROVE  BaseCommit \in Commits
<1>1. base.commit \in Commits \cup {Absent}
  BY DEF TypeOK
<1>2. 0 \in Commits
  BY GraphWatchAssumption DEF GraphWatchAssumption, Commits
<1> QED
  BY <1>1, <1>2, Zenon DEF BaseCommit

(* from the choice of the layer to the commit it is compared with,          *)
LEMMA StartLayerIs ==
  ASSUME TypeOK, NEW p \in Servers, StartLayer(p)
  PROVE  LET w == worker[p]
             n == worker'[p] IN
         /\ Alone(p) /\ w.at = "reindex" /\ w.scope = Layer
         /\ n.at = "layer" /\ n.scope = w.scope
         /\ Keeps(w, n) /\ n.seq = w.seq /\ n.before = BaseCommit
<1> DEFINE w == worker[p]
           n == [w EXCEPT !.at = "layer", !.before = BaseCommit]
<1>1. w \in Worker /\ BaseCommit \in Commits
  BY BaseCommitIs DEF TypeOK
<1>2. n \in Worker
  BY <1>1 DEF Worker
<1>3. worker' = [worker EXCEPT ![p] = n]
  BY <1>1 DEF StartLayer, TypeOK
<1>4. Alone(p) /\ worker'[p] = n
  BY <1>2, <1>3, Becomes
<1>5. n.at = "layer" /\ n.scope = w.scope /\ Keeps(w, n) /\ n.seq = w.seq /\ n.before = BaseCommit
  BY <1>1 DEF Worker, Keeps
<1> QED
  BY <1>4, <1>5 DEF StartLayer

(* and on to the layer itself.                                              *)
LEMMA IndexLayerIs ==
  ASSUME TypeOK, NEW p \in Servers, IndexLayer(p)
  PROVE  LET w == worker[p]
             n == worker'[p] IN
         /\ Alone(p) /\ w.at = "layer" /\ n.at = "done" /\ n.scope = w.scope
         /\ Keeps(w, n) /\ n.seq = w.seq
<1> DEFINE w == worker[p]
           n == [w EXCEPT !.at = "done"]
<1>1. w \in Worker /\ n \in Worker
  <2>1. w \in Worker
    BY DEF TypeOK
  <2> QED
    BY <2>1, Zenon DEF Worker
<1>2. worker' = [worker EXCEPT ![p] = n]
  BY <1>1 DEF IndexLayer, TypeOK
<1>3. Alone(p) /\ worker'[p] = n
  BY <1>1, <1>2, Becomes
<1>4. n.at = "done" /\ n.scope = w.scope /\ Keeps(w, n) /\ n.seq = w.seq
  BY <1>1 DEF Worker, Keeps
<1> QED
  BY <1>3, <1>4 DEF IndexLayer

(* The scope is indexed; its row and those of the layers that are due again *)
(* are written, or not.                                                     *)
LEMMA FinishIs ==
  ASSUME TypeOK, NEW p \in Servers, Finish(p)
  PROVE  LET w == worker[p]
             n == worker'[p]
             s == w.scope
             due == Invalidated(w) IN
         /\ Alone(p) /\ w.at = "done" /\ n.deaf = w.deaf
         /\ Rested(w, n, w.todo, w.burst \cup due)
         /\ \E saved, counted \in BOOLEAN :
               /\ n.unsure = (w.unsure \ {s}) \cup (IF counted THEN {} ELSE due)
               /\ rows' = [x \in Scopes |->
                     IF x = s /\ saved
                     THEN IF rows[s].there THEN Finished(rows[s], w.seq, w.clear)
                                           ELSE rows[s]
                     ELSE IF x \in due /\ counted THEN Bumped(rows[x]) ELSE rows[x]]
<1> DEFINE w == worker[p]
           s == w.scope
           due == Invalidated(w)
<1>1. w \in Worker /\ due \in SUBSET Scopes /\ s \in Scopes
  BY DEF TypeOK, Worker, Invalidated, Scopes
<1> DEFINE Unsure(counted) == (w.unsure \ {s}) \cup (IF counted THEN {} ELSE due)
           Stuck(saved) == (IF saved /\ w.seq # Absent THEN w.stuck \ {s}
                            ELSE w.stuck \cup {s}) \ due
<1>2. PICK saved \in BOOLEAN, counted \in BOOLEAN :
        /\ rows' = [x \in Scopes |->
                     IF x = s /\ saved
                     THEN IF rows[s].there THEN Finished(rows[s], w.seq, w.clear)
                                           ELSE rows[s]
                     ELSE IF x \in due /\ counted THEN Bumped(rows[x]) ELSE rows[x]]
        /\ worker' = [worker EXCEPT ![p] =
                        Rest([w EXCEPT !.burst = w.burst \cup due,
                                       !.unsure = Unsure(counted), !.stuck = Stuck(saved)])]
  <2> HIDE DEF Invalidated
  <2> QED
    BY Zenon DEF Finish
<1> DEFINE v == [w EXCEPT !.burst = w.burst \cup due, !.unsure = Unsure(counted),
                          !.stuck = Stuck(saved)]
<1>3. v \in Worker
  <2>1. /\ w.burst \cup due \in SUBSET Scopes /\ Unsure(counted) \in SUBSET Scopes
        /\ Stuck(saved) \in SUBSET Scopes
    <3> HIDE DEF due, s
    <3> QED
      BY <1>1 DEF Worker
  <2> HIDE DEF due, s, Unsure, Stuck
  <2> QED
    BY <1>1, <2>1, Zenon DEF Worker
<1>4. /\ v.registering = w.registering /\ v.targets = w.targets /\ v.watched = w.watched
      /\ v.chan = w.chan /\ v.todo = w.todo /\ v.burst = w.burst \cup due
      /\ v.deaf = w.deaf /\ v.unsure = Unsure(counted)
  BY <1>1 DEF Worker
<1>5. w.at = "done"
  BY DEF Finish
<1>6. worker' = [worker EXCEPT ![p] = Rest(v)]
  BY <1>2
<1>7. /\ Alone(p) /\ Rested(w, worker'[p], w.todo, w.burst \cup due)
      /\ worker'[p].deaf = w.deaf /\ worker'[p].unsure = Unsure(counted)
  <2> HIDE DEF v, due, Unsure, Stuck
  <2> QED
    BY <1>3, <1>4, <1>6, BecomesRest
<1> QED
  BY <1>2, <1>5, <1>7

(* A reindex that fails makes its scope due again, whether or not its row   *)
(* can be told.                                                             *)
LEMMA FailIs ==
  ASSUME TypeOK, NEW p \in Servers, Fail(p)
  PROVE  LET w == worker[p]
             n == worker'[p] IN
         /\ Alone(p) /\ w.at \in Working /\ n.deaf = w.deaf
         /\ Rested(w, n, w.todo, w.burst \cup {w.scope})
         /\ \/ /\ n.unsure = w.unsure
               /\ rows' = [rows EXCEPT ![w.scope] =
                     IF rows[w.scope].there
                     THEN [rows[w.scope] EXCEPT !.error = TRUE, !.catchup = TRUE]
                     ELSE rows[w.scope]]
            \/ n.unsure = w.unsure \cup {w.scope} /\ rows' = rows
<1> DEFINE w == worker[p]
<1>1. w \in Worker /\ w.scope \in Scopes /\ {w.scope} \in SUBSET Scopes
  BY DEF TypeOK, Worker
<1>2. PICK unsure \in {w.unsure, w.unsure \cup {w.scope}} :
        /\ worker' = [worker EXCEPT ![p] =
              Rest([[w EXCEPT !.unsure = unsure] EXCEPT !.burst = w.burst \cup {w.scope},
                                             !.stuck = w.stuck \ {w.scope}])]
        /\ \/ /\ unsure = w.unsure
              /\ rows' = [rows EXCEPT ![w.scope] =
                    IF rows[w.scope].there
                    THEN [rows[w.scope] EXCEPT !.error = TRUE, !.catchup = TRUE]
                    ELSE rows[w.scope]]
           \/ unsure = w.unsure \cup {w.scope} /\ rows' = rows
  <2>1. [w EXCEPT !.unsure = w.unsure] = w
    BY <1>1 DEF Worker
  <2>2. [w EXCEPT !.unsure = w.unsure \cup {w.scope}] \in Worker
    <3>1. w.unsure \cup {w.scope} \in SUBSET Scopes
      BY <1>1, Subsets
    <3> QED
      BY <1>1, <3>1, Zenon DEF Worker
  <2>3. /\ [w EXCEPT !.unsure = w.unsure \cup {w.scope}].burst = w.burst
        /\ [w EXCEPT !.unsure = w.unsure \cup {w.scope}].stuck = w.stuck
        /\ [w EXCEPT !.unsure = w.unsure \cup {w.scope}].scope = w.scope
    BY <1>1 DEF Worker
  <2>4. CASE /\ worker' = [worker EXCEPT ![p] = Retry(w)]
             /\ rows' = [rows EXCEPT ![w.scope] =
                    IF rows[w.scope].there
                    THEN [rows[w.scope] EXCEPT !.error = TRUE, !.catchup = TRUE]
                    ELSE rows[w.scope]]
    BY <2>1, <2>4 DEF Retry
  <2>5. CASE /\ worker' = [worker EXCEPT ![p] =
                              Retry([w EXCEPT !.unsure = w.unsure \cup {w.scope}])]
             /\ rows' = rows
    BY <2>3, <2>5 DEF Retry
  <2> QED
    BY <2>4, <2>5, Zenon DEF Fail
<1> DEFINE u == [w EXCEPT !.unsure = unsure]
           v == [u EXCEPT !.burst = w.burst \cup {w.scope}, !.stuck = w.stuck \ {w.scope}]
<1>3. v \in Worker
  <2>1. /\ w.burst \cup {w.scope} \in SUBSET Scopes /\ w.stuck \ {w.scope} \in SUBSET Scopes
        /\ unsure \in SUBSET Scopes
    <3>1. w.unsure \in SUBSET Scopes
      BY <1>1 DEF Worker
    <3> QED
      BY <1>1, <3>1, Subsets
  <2>2. u \in Worker
    BY <1>1, <2>1, Zenon DEF Worker
  <2> HIDE DEF u
  <2> QED
    BY <2>1, <2>2, Zenon DEF Worker
<1>4. /\ v.registering = w.registering /\ v.targets = w.targets /\ v.watched = w.watched
      /\ v.chan = w.chan /\ v.todo = w.todo /\ v.burst = w.burst \cup {w.scope}
      /\ v.deaf = w.deaf /\ v.unsure = unsure
  BY <1>1 DEF Worker
<1>5. w.at \in Working
  BY DEF Fail, Working
<1>6. /\ Alone(p) /\ Rested(w, worker'[p], w.todo, w.burst \cup {w.scope})
      /\ worker'[p].deaf = w.deaf /\ worker'[p].unsure = unsure
  <2>1. worker' = [worker EXCEPT ![p] = Rest(v)]
    BY <1>2
  <2> HIDE DEF v
  <2> QED
    BY <1>3, <1>4, <2>1, BecomesRest
<1> QED
  BY <1>2, <1>5, <1>6


(* The thread hears an event; the first of a burst is counted, or not.      *)
LEMMA HearScopeIs ==
  ASSUME TypeOK, NEW p \in Servers, NEW s \in Scopes, HearScope(p, s)
  PROVE  LET w == worker[p]
             n == worker'[p] IN
         /\ Alone(p) /\ w.at = "idle" /\ n.at = "idle" /\ n.todo = w.todo
         /\ n.registering = w.registering /\ n.targets = w.targets /\ n.watched = w.watched
         /\ n.chan = w.chan \ {s} /\ n.deaf = w.deaf
         /\ n.burst = IF s \in w.watched THEN w.burst \cup {s} ELSE w.burst
         /\ \/ /\ rows' = rows
               /\ n.unsure = IF s \in w.watched /\ Settled(s) THEN w.unsure \cup {s} ELSE w.unsure
            \/ rows' = [rows EXCEPT ![s] = Bumped(rows[s])] /\ n.unsure = w.unsure
<1> DEFINE w == worker[p]
           chan == w.chan \ {s}
           burst == IF s \in w.watched THEN w.burst \cup {s} ELSE w.burst
<1>1. w \in Worker
  BY DEF TypeOK
<1>2. /\ chan \in SUBSET (Scopes \cup {"control", "rescan"}) /\ burst \in SUBSET Scopes
      /\ w.stuck \in SUBSET Scopes /\ w.unsure \in SUBSET Scopes
      /\ w.stuck \ {s} \in SUBSET Scopes /\ w.unsure \cup {s} \in SUBSET Scopes
  BY <1>1 DEF Worker
<1>3. PICK stuck \in {w.stuck, w.stuck \ {s}}, unsure \in {w.unsure, w.unsure \cup {s}} :
        /\ worker' = [worker EXCEPT ![p] =
              [w EXCEPT !.chan = chan, !.burst = burst, !.stuck = stuck, !.unsure = unsure]]
        /\ \/ /\ rows' = rows
              /\ unsure = IF s \in w.watched /\ Settled(s) THEN w.unsure \cup {s} ELSE w.unsure
           \/ rows' = [rows EXCEPT ![s] = Bumped(rows[s])] /\ unsure = w.unsure
  <2>1. CASE s \in w.watched
    <3> HIDE DEF Settled
    <3>1. PICK counted \in (IF s \notin w.burst THEN BOOLEAN ELSE {FALSE}) :
            /\ rows' = IF counted THEN [rows EXCEPT ![s] = Bumped(rows[s])] ELSE rows
            /\ worker' = [worker EXCEPT ![p] =
                 [w EXCEPT !.chan = w.chan \ {s}, !.burst = w.burst \cup {s},
                           !.stuck = w.stuck \ {s},
                           !.unsure = IF ~counted /\ Settled(s) THEN w.unsure \cup {s}
                                      ELSE w.unsure]]
      BY <2>1, Zenon DEF HearScope
    <3> QED
      BY <2>1, <3>1
  <2>2. CASE s \notin w.watched
    <3>1. worker' = [worker EXCEPT ![p] = [w EXCEPT !.chan = chan]] /\ rows' = rows
      BY <2>2, <1>1 DEF HearScope, TypeOK
    <3>2. [w EXCEPT !.chan = chan] =
            [w EXCEPT !.chan = chan, !.burst = burst, !.stuck = w.stuck, !.unsure = w.unsure]
      BY <2>2, <1>1 DEF Worker
    <3> QED
      BY <2>2, <3>1, <3>2
  <2> QED
    BY <2>1, <2>2
<1> DEFINE n == [w EXCEPT !.chan = chan, !.burst = burst, !.stuck = stuck, !.unsure = unsure]
<1>4. n \in Worker
  <2>1. stuck \in SUBSET Scopes /\ unsure \in SUBSET Scopes
    BY <1>2
  <2> HIDE DEF chan, burst
  <2> QED
    BY <1>1, <1>2, <2>1, Zenon DEF Worker
<1>5. Alone(p) /\ worker'[p] = n
  BY <1>3, <1>4, Becomes
<1>6. w.at = "idle"
  BY Zenon DEF HearScope
<1>7. /\ n.at = w.at /\ n.todo = w.todo /\ n.registering = w.registering
      /\ n.targets = w.targets /\ n.watched = w.watched /\ n.chan = chan /\ n.burst = burst
      /\ n.deaf = w.deaf /\ n.unsure = unsure
  BY <1>1 DEF Worker
<1> HIDE DEF n
<1> QED
  BY <1>3, <1>5, <1>6, <1>7

(* That events were lost makes every target due; their rows are flagged, or *)
(* some of them are not.                                                    *)
LEMMA HearRescanIs ==
  ASSUME TypeOK, NEW p \in Servers, HearRescan(p)
  PROVE  LET w == worker[p]
             n == worker'[p] IN
         /\ Alone(p) /\ w.at = "idle" /\ n.at = "idle" /\ n.todo = w.todo
         /\ n.registering = w.registering /\ n.targets = w.targets /\ n.watched = w.watched
         /\ n.chan = w.chan \ {"rescan"} /\ n.burst = w.burst \cup w.targets
         /\ n.deaf = w.deaf
         /\ \E flagged \in SUBSET w.targets :
               /\ n.unsure = w.unsure \cup (w.targets \ flagged)
               /\ rows' = [x \in Scopes |->
                     IF x \in flagged /\ rows[x].there
                     THEN [rows[x] EXCEPT !.catchup = TRUE] ELSE rows[x]]
<1> DEFINE w == worker[p]
<1>1. w \in Worker
  BY DEF TypeOK
<1>2. PICK flagged \in SUBSET w.targets :
        /\ worker' = [worker EXCEPT ![p] =
              [w EXCEPT !.chan = w.chan \ {"rescan"}, !.burst = w.burst \cup w.targets,
                        !.stuck = w.stuck \ w.targets,
                        !.unsure = w.unsure \cup (w.targets \ flagged)]]
        /\ rows' = [x \in Scopes |->
              IF x \in flagged /\ rows[x].there
              THEN [rows[x] EXCEPT !.catchup = TRUE] ELSE rows[x]]
  BY Zenon DEF HearRescan
<1> DEFINE n == [w EXCEPT !.chan = w.chan \ {"rescan"}, !.burst = w.burst \cup w.targets,
                          !.stuck = w.stuck \ w.targets,
                          !.unsure = w.unsure \cup (w.targets \ flagged)]
<1>3. n \in Worker
  <2>1. /\ w.chan \ {"rescan"} \in SUBSET (Scopes \cup {"control", "rescan"})
        /\ w.burst \cup w.targets \in SUBSET Scopes
        /\ w.stuck \ w.targets \in SUBSET Scopes
        /\ w.unsure \cup (w.targets \ flagged) \in SUBSET Scopes
    BY <1>1 DEF Worker
  <2> QED
    BY <1>1, <2>1, Zenon DEF Worker
<1>4. Alone(p) /\ worker'[p] = n
  BY <1>2, <1>3, Becomes
<1>5. w.at = "idle"
  BY DEF HearRescan
<1>6. /\ n.at = w.at /\ n.todo = w.todo /\ n.registering = w.registering
      /\ n.targets = w.targets /\ n.watched = w.watched /\ n.deaf = w.deaf
      /\ n.chan = w.chan \ {"rescan"} /\ n.burst = w.burst \cup w.targets
      /\ n.unsure = w.unsure \cup (w.targets \ flagged)
  BY <1>1 DEF Worker
<1> HIDE DEF n
<1> QED
  BY <1>2, <1>4, <1>5, <1>6

(* That a session came or went changes the targets.                         *)
LEMMA RediscoverIs ==
  ASSUME TypeOK, NEW p \in Servers, Rediscover(p)
  PROVE  LET w == worker[p]
             n == worker'[p] IN
         /\ Alone(p) /\ w.at = "idle" /\ n.at = "forget" /\ n.registering
         /\ n.targets = Targets /\ n.watched = w.watched \cap Targets
         /\ n.todo = Targets \ w.targets
         /\ n.chan = w.chan \ {"control"} /\ n.burst = w.burst
         /\ n.unsure = w.unsure /\ n.deaf \cap Scopes = w.deaf \cap Targets
<1> DEFINE w == worker[p]
<1>1. w \in Worker
  BY DEF TypeOK
<1>2. PICK more \in {{}, {"control"}} :
        worker' = [worker EXCEPT ![p] =
            [w EXCEPT !.chan = w.chan \ {"control"}, !.at = "forget",
                      !.registering = TRUE, !.targets = Targets,
                      !.watched = w.watched \cap Targets,
                      !.deaf = (w.deaf \cap Targets) \cup more,
                      !.todo = Targets \ w.targets]]
  BY DEF Rediscover
<1> DEFINE deaf == (w.deaf \cap Targets) \cup more
           n == [w EXCEPT !.chan = w.chan \ {"control"}, !.at = "forget",
                          !.registering = TRUE, !.targets = Targets,
                          !.watched = w.watched \cap Targets,
                          !.deaf = deaf, !.todo = Targets \ w.targets]
<1>3. n \in Worker
  <2>1. /\ w.chan \ {"control"} \in SUBSET (Scopes \cup {"control", "rescan"})
        /\ w.watched \cap Targets \in SUBSET Scopes
        /\ deaf \in SUBSET (Scopes \cup {"control"})
        /\ Targets \ w.targets \in SUBSET Scopes /\ Targets \in SUBSET Scopes
    BY <1>1, TwoScopes DEF Worker
  <2> HIDE DEF deaf
  <2> QED
    BY <1>1, <2>1, Zenon DEF Worker
<1>4. Alone(p) /\ worker'[p] = n
  BY <1>2, <1>3, Becomes
<1>5. w.at = "idle"
  BY DEF Rediscover
<1>6. /\ n.at = "forget" /\ n.registering
      /\ n.targets = Targets /\ n.watched = w.watched \cap Targets
      /\ n.todo = Targets \ w.targets
      /\ n.chan = w.chan \ {"control"} /\ n.burst = w.burst
      /\ n.unsure = w.unsure /\ n.deaf = deaf
  BY <1>1 DEF Worker
<1>7. deaf \cap Scopes = w.deaf \cap Targets
  <2>1. "control" \notin Scopes /\ Targets \subseteq Scopes
    BY TwoScopes DEF Base, Layer
  <2> QED
    BY <2>1
<1> QED
  BY <1>4, <1>5, <1>6, <1>7

(* The due scopes of the bursts become a batch.                             *)
LEMMA TakeDueIs ==
  ASSUME TypeOK, NEW p \in Servers, TakeDue(p)
  PROVE  LET w == worker[p]
             n == worker'[p] IN
         /\ Alone(p) /\ w.at = "idle" /\ n.at = "pick" /\ ~n.registering
         /\ n.targets = w.targets /\ n.watched = w.watched /\ n.chan = w.chan
         /\ n.todo # {} /\ n.burst = w.burst \ n.todo
         /\ n.deaf = w.deaf /\ n.unsure = w.unsure
<1> DEFINE w == worker[p]
<1>1. PICK D \in SUBSET w.burst : D # {} /\ worker' = [worker EXCEPT ![p] =
                  [w EXCEPT !.burst = w.burst \ D, !.todo = D,
                            !.registering = FALSE, !.at = "pick"]]
  BY DEF TakeDue
<1> DEFINE n == [w EXCEPT !.burst = w.burst \ D, !.todo = D,
                          !.registering = FALSE, !.at = "pick"]
<1>2. w \in Worker
  BY DEF TypeOK
<1>3. w.burst \ D \in SUBSET Scopes /\ D \in SUBSET Scopes
  BY <1>2 DEF Worker
<1>4. n \in Worker
  BY <1>2, <1>3, Zenon DEF Worker
<1>5. Alone(p) /\ worker'[p] = n
  BY <1>1, <1>4, Becomes
<1>6. w.at = "idle"
  BY DEF TakeDue
<1>7. /\ n.at = "pick" /\ ~n.registering
      /\ n.targets = w.targets /\ n.watched = w.watched /\ n.chan = w.chan
      /\ n.todo = D /\ n.burst = w.burst \ D
      /\ n.deaf = w.deaf /\ n.unsure = w.unsure
  BY <1>2 DEF Worker
<1> QED
  BY <1>1, <1>5, <1>6, <1>7

(* All but the events on their way stays as it is.                          *)
Waits(w, n) ==
  /\ n.at = w.at /\ n.scope = w.scope /\ n.seq = w.seq /\ n.before = w.before
  /\ n.registering = w.registering /\ n.targets = w.targets /\ n.watched = w.watched
  /\ n.burst = w.burst /\ n.todo = w.todo
  /\ n.deaf = w.deaf /\ n.unsure = w.unsure

(* A queue that overflows holds one event that stands for all.              *)
LEMMA EventsLostIs ==
  ASSUME TypeOK, NEW p \in Servers, EventsLost(p)
  PROVE  Alone(p) /\ Waits(worker[p], worker'[p]) /\ worker'[p].chan = {"rescan"}
<1> DEFINE w == worker[p]
           n == [w EXCEPT !.chan = {"rescan"}]
<1>1. w \in Worker
  BY DEF TypeOK
<1>2. n \in Worker
  <2>1. {"rescan"} \in SUBSET (Scopes \cup {"control", "rescan"})
    OBVIOUS
  <2> QED
    BY <1>1, <2>1, Zenon DEF Worker
<1>3. worker' = [worker EXCEPT ![p] = n]
  BY DEF EventsLost, TypeOK
<1>4. Alone(p) /\ worker'[p] = n
  BY <1>2, <1>3, Becomes
<1>5. Waits(w, n) /\ n.chan = {"rescan"}
  BY <1>1 DEF Worker, Waits
<1> QED
  BY <1>4, <1>5

(* An event is queued for the threads that watch its place.                 *)
LEMMA QueueIs ==
  ASSUME TypeOK, NEW e \in Scopes \cup {"control", "rescan"}, NEW H, Queue(e, H)
  PROVE  /\ worker' \in [Servers -> Worker]
         /\ \A q \in Servers : /\ Waits(worker[q], worker'[q])
                               /\ worker'[q].chan = IF q \in H THEN worker[q].chan \cup {e}
                                                    ELSE worker[q].chan
<1> DEFINE W(q) == IF q \in H THEN [worker[q] EXCEPT !.chan = worker[q].chan \cup {e}]
                   ELSE worker[q]
<1>1. worker' = [q \in Servers |-> W(q)]
  BY DEF Queue
<1>2. ASSUME NEW q \in Servers
      PROVE  /\ W(q) \in Worker /\ Waits(worker[q], W(q))
             /\ W(q).chan = IF q \in H THEN worker[q].chan \cup {e} ELSE worker[q].chan
  <2>1. worker[q] \in Worker
    BY DEF TypeOK
  <2>2. worker[q].chan \cup {e} \in SUBSET (Scopes \cup {"control", "rescan"})
    BY <2>1 DEF Worker
  <2>3. [worker[q] EXCEPT !.chan = worker[q].chan \cup {e}] \in Worker
    BY <2>1, <2>2, Zenon DEF Worker
  <2>4. W(q) \in Worker
    BY <2>1, <2>3
  <2>5. /\ Waits(worker[q], W(q))
        /\ W(q).chan = IF q \in H THEN worker[q].chan \cup {e} ELSE worker[q].chan
    BY <2>1 DEF Worker, Waits
  <2> QED
    BY <2>4, <2>5
<1> HIDE DEF W
<1> QED
  BY <1>1, <1>2


(* A thread that has just been spawned, one that has died, or none.         *)
Blank(n, at) ==
  /\ n.at = at /\ n.registering /\ n.targets = {} /\ n.watched = {} /\ n.chan = {}
  /\ n.burst = {} /\ n.todo = {} /\ n.deaf = {}

(* Such a thread is a thread.                                               *)
LEMMA BlankIs ==
  ASSUME NEW at \in {"none", "start", "dead"}
  PROVE  [NoWorker EXCEPT !.at = at] \in Worker /\ Blank([NoWorker EXCEPT !.at = at], at)
<1>1. [NoWorker EXCEPT !.at = at] \in Worker
  BY DEF NoWorker, Worker, Scopes
<1>2. Blank([NoWorker EXCEPT !.at = at], at)
  BY DEF NoWorker, Blank
<1> QED
  BY <1>1, <1>2

(* A server without a thread.                                               *)
LEMMA NoWorkerIs == NoWorker \in Worker /\ Blank(NoWorker, "none")
<1>1. NoWorker \in Worker
  BY DEF NoWorker, Worker, Scopes
<1>2. Blank(NoWorker, "none")
  BY DEF NoWorker, Blank
<1> QED
  BY <1>1, <1>2

(* A new leader spawns a thread.                                            *)
LEMMA MarkIs ==
  ASSUME TypeOK, NEW p \in Servers, Mark(p)
  PROVE  Alone(p) /\ Blank(worker'[p], "start")
<1>1. worker' = [worker EXCEPT ![p] = [NoWorker EXCEPT !.at = "start"]]
  BY DEF Mark
<1> QED
  BY <1>1, BlankIs, Becomes

(* A thread that panics dies.                                               *)
LEMMA PanicIs ==
  ASSUME TypeOK, NEW p \in Servers, Panic(p)
  PROVE  Alone(p) /\ Blank(worker'[p], "dead")
<1>1. worker' = [worker EXCEPT ![p] = [NoWorker EXCEPT !.at = "dead"]]
  BY DEF Panic
<1> QED
  BY <1>1, BlankIs, Becomes

(* Nothing is left of a thread whose server ends, or gives up its lease.    *)
LEMMA GoneIs ==
  ASSUME TypeOK, NEW p \in Servers, CallWithoutWorker(p) \/ Joined(p) \/ Kill(p)
  PROVE  Alone(p) /\ Blank(worker'[p], "none")
<1>1. worker' = [worker EXCEPT ![p] = NoWorker]
  BY DEF CallWithoutWorker, Joined, Kill
<1> QED
  BY <1>1, NoWorkerIs, Becomes

(* A thread that is told to stop first ends its batch.                      *)
LEMMA ExitIs ==
  ASSUME TypeOK, NEW p \in Servers, Exit(p)
  PROVE  Alone(p) /\ Waits(worker[p], worker'[p]) /\ worker'[p].chan = worker[p].chan
<1> DEFINE w == worker[p]
           n == [w EXCEPT !.stopping = Alive(p)]
<1>1. w \in Worker
  BY DEF TypeOK
<1>2. Alive(p) \in BOOLEAN
  BY DEF Alive
<1>3. n \in Worker
  <2> HIDE DEF Alive
  <2> QED
    BY <1>1, <1>2, Zenon DEF Worker
<1>4. worker' = [worker EXCEPT ![p] = n]
  BY Zenon DEF Exit, TypeOK
<1>5. Alone(p) /\ worker'[p] = n
  BY <1>3, <1>4, Becomes
<1>6. Waits(w, n) /\ n.chan = w.chan
  BY <1>1 DEF Worker, Waits
<1> QED
  BY <1>5, <1>6

-----------------------------------------------------------------------------
(* Type correctness.                                                        *)

(* What the bounds count.                                                   *)
LEMMA SpentType ==
  ASSUME TypeOK, Mishap \/ Change
  PROVE  spent' \in [changes : 0 .. MaxChanges, mishaps : 0 .. MaxMishaps]
<1>1. /\ spent \in [changes : 0 .. MaxChanges, mishaps : 0 .. MaxMishaps]
      /\ MaxChanges \in Nat /\ MaxMishaps \in Nat
  BY GraphWatchAssumption DEF TypeOK, GraphWatchAssumption
<1> QED
  BY <1>1 DEF Mishap, Change

(* The commit of the base worktree and the contents of the feature's.       *)
LEMMA DiskType ==
  ASSUME TypeOK
  PROVE  /\ head \in Nat /\ head \in Versions /\ Commits \subseteq Versions
         /\ Commits \subseteq Nat /\ Versions \subseteq Nat /\ Absent \notin Versions
         /\ \A c \in Commits : Delta(c) \in Versions \cup {Absent}
<1>1. MaxCommits \in Nat /\ MaxChanges \in Nat
  BY GraphWatchAssumption DEF GraphWatchAssumption
<1>2. head \in Commits /\ wt \in Versions
  BY DEF TypeOK
<1>3. Commits \subseteq Versions /\ Commits \subseteq Nat /\ Versions \subseteq Nat /\ Absent \notin Versions
  BY <1>1 DEF Commits, Versions, Absent
<1>4. \A c \in Commits : Delta(c) \in Versions \cup {Absent}
  BY <1>2 DEF Delta
<1> QED
  BY <1>2, <1>3, <1>4

(* The rows that are written.                                               *)
LEMMA RowType ==
  ASSUME NEW r \in Row
  PROVE  /\ NoRow \in Row /\ Bumped(r) \in Row
         /\ [r EXCEPT !.catchup = TRUE] \in Row
         /\ [r EXCEPT !.there = TRUE, !.catchup = TRUE] \in Row
         /\ [r EXCEPT !.error = TRUE, !.catchup = TRUE] \in Row
<1>1. NoRow \in Row
  BY DEF NoRow, Row
<1>2. Bumped(r) \in Row
  <2>1. r.observed + 1 \in Nat
    BY DEF Row
  <2> QED
    BY <2>1, Zenon DEF Row, Bumped
<1>3. /\ [r EXCEPT !.catchup = TRUE] \in Row
      /\ [r EXCEPT !.there = TRUE, !.catchup = TRUE] \in Row
      /\ [r EXCEPT !.error = TRUE, !.catchup = TRUE] \in Row
  BY Zenon DEF Row
<1> QED
  BY <1>1, <1>2, <1>3

(* The row of a scope that is finished, with a count or without.            *)
LEMMA FinishedType ==
  ASSUME NEW r \in Row, NEW seq \in Nat \cup {Absent}, NEW clear \in BOOLEAN
  PROVE  Finished(r, seq, clear) \in Row
<1>1. Larger(r.indexed, seq) \in Nat /\ (r.catchup /\ ~clear) \in BOOLEAN
  BY DEF Row, Larger, Absent
<1> QED
  BY <1>1, Zenon DEF Row, Finished

(* Some ways out of the protocol more.                                      *)
LEMMA SlipsType ==
  ASSUME TypeOK
  PROVE  /\ slips \cup {"late"} \subseteq {"late", "torn", "aside", "outdated"}
         /\ \A S \in SUBSET {"late", "torn", "aside", "outdated"} :
              slips \cup S \subseteq {"late", "torn", "aside", "outdated"}
  BY DEF TypeOK

(* What the files, Cli and the calls do keeps the types.                    *)
LEMMA OutsideType ==
  ASSUME TypeOK,
         BaseMoves \/ Edit \/ SessionComesOrGoes \/ CliClaims \/ CliExtracts \/ CliKilled
  PROVE  TypeOK'
<1>1. CASE BaseMoves
  <2>1. head' \in Commits
    BY <1>1, GraphWatchAssumption DEF BaseMoves, TypeOK, Commits, GraphWatchAssumption
  <2>2. worker' \in [Servers -> Worker]
    BY <1>1, QueueIs, TwoScopes DEF BaseMoves
  <2>3. spent' \in [changes : 0 .. MaxChanges, mishaps : 0 .. MaxMishaps]
    BY <1>1, SpentType DEF BaseMoves
  <2> QED
    BY <1>1, <2>1, <2>2, <2>3 DEF BaseMoves, TypeOK, index, calls
<1>2. CASE Edit
  <2>1. spent' \in [changes : 0 .. MaxChanges, mishaps : 0 .. MaxMishaps]
    BY <1>2, SpentType DEF Edit
  <2>2. wt' \in Versions
    BY <1>2, <2>1, DiskType, GraphWatchAssumption DEF Edit, Versions, GraphWatchAssumption
  <2>3. worker' \in [Servers -> Worker]
    BY <1>2, QueueIs, TwoScopes DEF Edit
  <2> QED
    BY <1>2, <2>1, <2>2, <2>3 DEF Edit, TypeOK, index, calls
<1>3. CASE SessionComesOrGoes
  <2>1. spent' \in [changes : 0 .. MaxChanges, mishaps : 0 .. MaxMishaps]
    BY <1>3, SpentType DEF SessionComesOrGoes
  <2>2. worker' \in [Servers -> Worker]
    BY <1>3, QueueIs DEF SessionComesOrGoes
  <2>3. session' \in BOOLEAN
    BY <1>3 DEF SessionComesOrGoes
  <2> QED
    BY <1>3, <2>1, <2>2, <2>3 DEF SessionComesOrGoes, TypeOK, index, calls
<1>4. CASE CliClaims
  <2>1. spent' \in [changes : 0 .. MaxChanges, mishaps : 0 .. MaxMishaps]
    BY <1>4, SpentType DEF CliClaims
  <2>2. base' \in [commit : Commits \cup {Absent}, row : Commits \cup {Absent}]
    BY <1>4 DEF CliClaims, Claim, TypeOK
  <2>3. slips' \subseteq {"late", "torn", "aside", "outdated"}
    BY <1>4 DEF CliClaims, TypeOK
  <2> QED
    BY <1>4, <2>1, <2>2, <2>3 DEF CliClaims, TypeOK, disk, calls
<1>5. CASE CliExtracts
  <2>1. base' \in [commit : Commits \cup {Absent}, row : Commits \cup {Absent}]
    BY <1>5 DEF CliExtracts, ExtractRows, TypeOK
  <2> QED
    BY <1>5, <2>1 DEF CliExtracts, TypeOK, disk, calls
<1>6. CASE CliKilled
  <2>1. slips' \subseteq {"late", "torn", "aside", "outdated"}
    BY <1>6 DEF CliKilled, TypeOK
  <2> QED
    BY <1>6, <2>1 DEF CliKilled, TypeOK, disk, index, calls
<1> QED
  BY <1>1, <1>2, <1>3, <1>4, <1>5, <1>6

(* The tool calls of a server keep the types.                               *)
LEMMA CallType ==
  ASSUME TypeOK, NEW p \in Servers, CallStep(p)
  PROVE  TypeOK'
<1>1. CASE TakeLease(p)
  BY <1>1 DEF TakeLease, TypeOK, disk, index
<1>2. CASE StartServer(p)
  BY <1>2 DEF StartServer, TypeOK, disk, index
<1>3. CASE Mark(p)
  <2>1. worker' \in [Servers -> Worker]
    BY <1>3, MarkIs DEF Alone
  <2>2. rows' \in [Scopes -> Row]
    BY <1>3, RowType DEF Mark, MarkAll, TypeOK
  <2> QED
    BY <1>3, <2>1, <2>2 DEF Mark, TypeOK, disk, index
<1>4. CASE GiveUp(p)
  <2>1. asked' \in [Servers -> Commits]
    BY <1>4, BaseCommitIs DEF GiveUp, StartRefresh, TypeOK
  <2> QED
    BY <1>4, <2>1 DEF GiveUp, StartRefresh, TypeOK, disk, index
<1>5. CASE CallWithoutWorker(p)
  <2>1. asked' \in [Servers -> Commits]
    BY <1>5, BaseCommitIs DEF CallWithoutWorker, StartRefresh, TypeOK
  <2>2. worker' \in [Servers -> Worker]
    BY <1>5, GoneIs DEF Alone
  <2> QED
    BY <1>5, <2>1, <2>2 DEF CallWithoutWorker, StartRefresh, TypeOK, disk, index
<1>6. CASE Refresh(p)
  <2>1. asked[p] \in Commits /\ 0 \in Commits
    BY GraphWatchAssumption DEF TypeOK, Commits, GraphWatchAssumption
  <2>2. layer' \in [base : Commits \cup {Absent}, row : Versions \cup {Absent}]
    BY <1>6, <2>1, DiskType DEF Refresh
  <2>3. slips' \subseteq {"late", "torn", "aside", "outdated"}
    BY <1>6 DEF Refresh, TypeOK
  <2> QED
    BY <1>6, <2>1, <2>2, <2>3 DEF Refresh, TypeOK, disk
<1> QED
  BY <1>1, <1>2, <1>3, <1>4, <1>5, <1>6 DEF CallStep

(* So does what ends a server or its thread, or fails it.                   *)
LEMMA MishapType ==
  ASSUME TypeOK, WorkersOrderly, NEW p \in Servers,
         \/ EventsLost(p) \/ MarkFails(p) \/ Refused(p) \/ ForgetFails(p)
         \/ Fail(p) \/ Exit(p) \/ Kill(p) \/ Panic(p)
  PROVE  TypeOK'
<1>1. spent' \in [changes : 0 .. MaxChanges, mishaps : 0 .. MaxMishaps]
  BY SpentType, Zenon DEF EventsLost, MarkFails, Refused, ForgetFails, Fail, Exit, Kill, Panic
<1>2. worker' \in [Servers -> Worker]
  <2>1. CASE MarkFails(p)
    BY <2>1 DEF MarkFails, TypeOK
  <2>2. CASE ~MarkFails(p)
    <3>1. Alone(p)
      BY <2>2, EventsLostIs, RefusedIs, ForgetIs, FailIs, ExitIs, GoneIs, PanicIs, Zenon
    <3> QED
      BY <3>1 DEF Alone
  <2> QED
    BY <2>1, <2>2
<1>3. CASE EventsLost(p)
  BY <1>1, <1>2, <1>3 DEF EventsLost, TypeOK, disk, index, calls
<1>4. CASE Fail(p)
  <2>1. rows' \in [Scopes -> Row]
    <3>1. worker[p].scope \in Scopes
      BY DEF TypeOK, Worker
    <3>2. \/ rows' = [rows EXCEPT ![worker[p].scope] =
                IF rows[worker[p].scope].there
                THEN [rows[worker[p].scope] EXCEPT !.error = TRUE, !.catchup = TRUE]
                ELSE rows[worker[p].scope]]
          \/ rows' = rows
      BY <1>4, FailIs, Zenon
    <3> DEFINE r == rows[worker[p].scope]
    <3>6. r \in Row
      BY <3>1 DEF TypeOK
    <3> HIDE DEF r
    <3>3. r \in Row /\ [r EXCEPT !.error = TRUE, !.catchup = TRUE] \in Row
      BY <3>6, RowType, Zenon
    <3> USE DEF r
    <3> DEFINE t == IF r.there THEN [r EXCEPT !.error = TRUE, !.catchup = TRUE] ELSE r
    <3>4. t \in Row
      BY <3>3, Zenon
    <3>5. rows' = [rows EXCEPT ![worker[p].scope] = t] \/ rows' = rows
      BY <3>2, Zenon
    <3> HIDE DEF t
    <3> QED
      BY <3>1, <3>4, <3>5 DEF TypeOK
  <2>2. slips' \subseteq {"late", "torn", "aside", "outdated"}
    <3>1. slips' = slips \cup (IF worker[p].at = "extract" THEN {"torn"} ELSE {})
                        \cup (IF lease = p THEN {} ELSE {"late"})
      BY <1>4, Zenon DEF Fail
    <3> QED
      BY <3>1 DEF TypeOK
  <2>3. lock' \in Servers \cup {Cli, NoOne}
    <3>1. lock' = IF lock = p THEN NoOne ELSE lock
      BY <1>4, Zenon DEF Fail
    <3> QED
      BY <3>1 DEF TypeOK
  <2>4. UNCHANGED <<disk, index, lease, calls, cli>>
    BY <1>4, Zenon DEF Fail
  <2> QED
    BY <1>1, <1>2, <2>1, <2>2, <2>3, <2>4 DEF TypeOK, disk, index, calls
<1>5. CASE Exit(p)
  BY <1>1, <1>2, <1>5 DEF Exit, TypeOK, disk, index
<1>6. CASE Kill(p)
  <2>1. asked' \in [Servers -> Commits]
    BY <1>6, GraphWatchAssumption DEF Kill, TypeOK, Commits, GraphWatchAssumption
  <2>2. slips' \subseteq {"late", "torn", "aside", "outdated"}
    BY <1>6 DEF Kill, Torn, TypeOK
  <2>3. /\ lease' \in Servers \cup {NoOne} /\ lock' \in Servers \cup {Cli, NoOne}
        /\ call' \in [Servers -> {"off", "idle", "marking", "layering", "closing"}]
        /\ UNCHANGED <<disk, index, rows, cli>>
    BY <1>6 DEF Kill, TypeOK
  <2> QED
    BY <1>1, <1>2, <2>1, <2>2, <2>3 DEF TypeOK, disk, index
<1>7. CASE Panic(p)
  <2>1. slips' \subseteq {"late", "torn", "aside", "outdated"}
    BY <1>7 DEF Panic, Torn, TypeOK
  <2>2. lock' \in Servers \cup {Cli, NoOne} /\ UNCHANGED <<disk, index, rows, lease, calls, cli>>
    BY <1>7 DEF Panic, TypeOK
  <2> QED
    BY <1>1, <1>2, <2>1, <2>2 DEF TypeOK, disk, index, calls
<1>8. CASE MarkFails(p)
  <2>1. asked' \in [Servers -> Commits]
    BY <1>8, BaseCommitIs DEF MarkFails, TypeOK
  <2>2. rows' \in [Scopes -> Row]
    <3>1. rows \in [Scopes -> Row]
      BY DEF TypeOK
    <3>2. ASSUME NEW s \in Scopes
          PROVE  (IF rows[s].there THEN [rows[s] EXCEPT !.catchup = TRUE] ELSE rows[s]) \in Row
      <4> DEFINE r == rows[s]
      <4>1. r \in Row
        BY <3>1
      <4> HIDE DEF r
      <4>2. [r EXCEPT !.catchup = TRUE] \in Row
        BY <4>1, RowType, Zenon
      <4> USE DEF r
      <4> QED
        BY <4>1, <4>2, Zenon
    <3>3. MarkAll \in [Scopes -> Row]
      BY <3>2, Zenon DEF MarkAll
    <3> QED
      BY <1>8, <3>1, <3>3, Zenon DEF MarkFails
  <2>3. /\ lease' \in Servers \cup {NoOne}
        /\ call' \in [Servers -> {"off", "idle", "marking", "layering", "closing"}]
        /\ UNCHANGED <<disk, index, lock, worker, cli, slips>>
    BY <1>8 DEF MarkFails, TypeOK
  <2> QED
    BY <1>1, <1>2, <2>1, <2>2, <2>3 DEF TypeOK, disk, index
<1>9. CASE Refused(p) \/ ForgetFails(p)
  <2>1. UNCHANGED <<disk, index, rows, lease, lock, calls, cli, slips>>
    BY <1>9, Zenon DEF Refused, ForgetFails
  <2> QED
    BY <1>1, <1>2, <2>1 DEF TypeOK, disk, index, calls
<1> QED
  BY <1>3, <1>4, <1>5, <1>6, <1>7, <1>8, <1>9


(* A step that may or may not cost a mishap keeps the count of them.        *)
LEMMA StepSpent ==
  ASSUME TypeOK, NEW p \in Servers, WorkerStep(p)
  PROVE  spent' \in [changes : 0 .. MaxChanges, mishaps : 0 .. MaxMishaps]
<1>1. Mishap \/ UNCHANGED spent
  <2>1. CASE Discover(p) \/ Register(p) \/ PickDue(p)
    BY <2>1, Zenon DEF Discover, Register, PickDue, WithoutMishap
  <2>2. CASE Forget(p) \/ StartIndex(p) \/ Extract(p) \/ StartLayer(p) \/ IndexLayer(p)
             \/ TakeDue(p) \/ Joined(p)
    BY <2>2, Zenon DEF Forget, StartIndex, Extract, StartLayer, IndexLayer, TakeDue, Joined
  <2>3. CASE Finish(p)
    BY <2>3, Zenon DEF Finish, WithoutMishap
  <2>4. CASE HearRescan(p) \/ Rediscover(p)
    BY <2>4, Zenon DEF HearRescan, Rediscover, WithoutMishap
  <2>5. ASSUME NEW s \in Scopes, HearScope(p, s)
        PROVE  Mishap \/ UNCHANGED spent
    BY <2>5, Zenon DEF HearScope, WithoutMishap
  <2> QED
    BY <2>1, <2>2, <2>3, <2>4, <2>5 DEF WorkerStep
<1> QED
  BY <1>1, SpentType DEF TypeOK

(* So does the worker thread.                                               *)
LEMMA WorkerType ==
  ASSUME TypeOK, WorkersOrderly, NEW p \in Servers, WorkerStep(p)
  PROVE  TypeOK'
<1> DEFINE w == worker[p]
           Slips == {"late", "torn", "aside", "outdated"}
<1>1. /\ w \in Worker /\ w.scope \in Scopes /\ w.seq \in Nat \cup {Absent} /\ w.clear \in BOOLEAN
      /\ w.todo \in SUBSET Scopes /\ w.targets \in SUBSET Scopes
  BY DEF TypeOK, Worker
<1>2. \A s \in Scopes : rows[s] \in Row
  BY DEF TypeOK
<1>3. spent' \in [changes : 0 .. MaxChanges, mishaps : 0 .. MaxMishaps]
  BY StepSpent
<1>4. CASE Register(p)
  <2>1. worker' \in [Servers -> Worker]
    BY <1>4, RegisterIs DEF Alone
  <2> DEFINE s == FirstOf(w.todo)
  <2>2. s \in Scopes
    BY TwoScopes
  <2>3. rows' = [rows EXCEPT ![s] = [rows[s] EXCEPT !.there = TRUE, !.catchup = TRUE]]
    <3>1. rows' = [rows EXCEPT ![s].there = TRUE, ![s].catchup = TRUE]
      BY <1>4 DEF Register
    <3> HIDE DEF s
    <3> QED
      BY <3>1, <2>2, <1>2 DEF TypeOK
  <2>4. rows' \in [Scopes -> Row]
    <3> HIDE DEF s
    <3> QED
      BY <2>2, <2>3, <1>2, RowType DEF TypeOK
  <2>5. slips' \subseteq Slips
    BY <1>4 DEF Register, Writes, TypeOK
  <2>6. UNCHANGED <<disk, index, lease, lock, calls, cli>>
    BY <1>4 DEF Register
  <2> QED
    BY <1>3, <2>1, <2>4, <2>5, <2>6 DEF TypeOK, disk, index, calls
<1>5. CASE Forget(p)
  <2>1. worker' \in [Servers -> Worker]
    BY <1>5, ForgetIs DEF Alone
  <2>2. rows' \in [Scopes -> Row]
    BY <1>5, RowType, <1>2 DEF Forget, Kept, TypeOK, NoRow, Row
  <2>3. slips' \subseteq Slips
    BY <1>5 DEF Forget, Writes, TypeOK
  <2>4. UNCHANGED <<disk, index, lease, lock, calls, cli>>
    BY <1>5 DEF Forget
  <2> QED
    BY <1>3, <2>1, <2>2, <2>3, <2>4 DEF TypeOK, disk, index, calls
<1>6. CASE StartIndex(p)
  <2>1. worker' \in [Servers -> Worker]
    BY <1>6, StartIndexIs DEF Alone
  <2>2. base' \in [commit : Commits \cup {Absent}, row : Commits \cup {Absent}]
    BY <1>6 DEF StartIndex, Claim, TypeOK
  <2>3. slips' \subseteq Slips /\ lock' \in Servers \cup {Cli, NoOne}
    BY <1>6 DEF StartIndex, TypeOK
  <2> QED
    BY <1>6, <2>1, <2>2, <2>3 DEF StartIndex, TypeOK, disk, calls
<1>7. CASE Extract(p)
  <2>1. worker' \in [Servers -> Worker]
    BY <1>7, ExtractIs DEF Alone
  <2>2. base' \in [commit : Commits \cup {Absent}, row : Commits \cup {Absent}]
    BY <1>7 DEF Extract, ExtractRows, TypeOK
  <2> QED
    BY <1>7, <2>1, <2>2 DEF Extract, TypeOK, disk, calls
<1>8. CASE Discover(p) \/ PickDue(p) \/ StartLayer(p) \/ Rediscover(p) \/ TakeDue(p)
  <2>1. worker' \in [Servers -> Worker]
    BY <1>8, DiscoverIs, PickDueIs, StartLayerIs, RediscoverIs, TakeDueIs DEF Alone
  <2>2. UNCHANGED <<disk, index, rows, lease, lock, calls, cli, slips>>
    BY <1>8, Zenon DEF Discover, PickDue, StartLayer, Rediscover, TakeDue
  <2> QED
    BY <1>3, <2>1, <2>2 DEF TypeOK, disk, index, calls
<1>9. CASE IndexLayer(p)
  <2>1. worker' \in [Servers -> Worker]
    BY <1>9, IndexLayerIs DEF Alone
  <2>2. w.before \in Commits
    BY <1>9 DEF IndexLayer, WorkersOrderly, Orderly
  <2>3. layer' \in [base : Commits \cup {Absent}, row : Versions \cup {Absent}]
    BY <1>9, <2>2, DiskType DEF IndexLayer
  <2>4. slips' \subseteq Slips
    BY <1>9 DEF IndexLayer, TypeOK
  <2> QED
    BY <1>9, <2>1, <2>3, <2>4 DEF IndexLayer, TypeOK, disk, calls
<1>10. CASE Finish(p)
  <2>1. worker' \in [Servers -> Worker]
    BY <1>10, FinishIs DEF Alone
  <2>2. ASSUME NEW s \in Scopes
        PROVE  Bumped(rows[s]) \in Row /\ Finished(rows[s], w.seq, w.clear) \in Row
    BY <1>1, <1>2, <2>2, RowType, FinishedType
  <2>3. rows' \in [Scopes -> Row]
    <3>1. PICK saved \in BOOLEAN, counted \in BOOLEAN :
            rows' = [x \in Scopes |->
                     IF x = w.scope /\ saved
                     THEN IF rows[w.scope].there THEN Finished(rows[w.scope], w.seq, w.clear)
                                                 ELSE rows[w.scope]
                     ELSE IF x \in Invalidated(w) /\ counted THEN Bumped(rows[x]) ELSE rows[x]]
      BY <1>10, FinishIs, Zenon
    <3> QED
      BY <1>1, <1>2, <2>2, <3>1
  <2>4. slips' \subseteq Slips /\ UNCHANGED <<disk, index, lease, lock, calls, cli>>
    <3>1. Writes(p) /\ UNCHANGED <<disk, index, lease, lock, calls, cli>>
      BY <1>10, Zenon DEF Finish
    <3> QED
      BY <3>1 DEF Writes, TypeOK
  <2> QED
    BY <1>3, <2>1, <2>3, <2>4 DEF TypeOK, disk, index, calls
<1>11. CASE HearRescan(p)
  <2>1. worker' \in [Servers -> Worker]
    BY <1>11, HearRescanIs DEF Alone
  <2>2. rows' \in [Scopes -> Row]
    <3>1. PICK flagged \in SUBSET w.targets :
            rows' = [x \in Scopes |-> IF x \in flagged /\ rows[x].there
                                     THEN [rows[x] EXCEPT !.catchup = TRUE] ELSE rows[x]]
      BY <1>11, HearRescanIs
    <3> QED
      BY <3>1, <1>2, RowType
  <2>3. slips' \subseteq Slips /\ UNCHANGED <<disk, index, lease, lock, calls, cli>>
    <3>1. Writes(p) /\ UNCHANGED <<disk, index, lease, lock, calls, cli>>
      BY <1>11, Zenon DEF HearRescan
    <3> QED
      BY <3>1 DEF Writes, TypeOK
  <2> QED
    BY <1>3, <2>1, <2>2, <2>3 DEF TypeOK, disk, index, calls
<1>12. CASE Joined(p)
  <2>1. worker' \in [Servers -> Worker]
    BY <1>12, GoneIs DEF Alone
  <2> QED
    BY <1>12, <2>1 DEF Joined, TypeOK, disk, index
<1>13. ASSUME NEW s \in Scopes, HearScope(p, s)
       PROVE  TypeOK'
  <2>1. worker' \in [Servers -> Worker]
    BY <1>13, HearScopeIs DEF Alone
  <2>2. rows' \in [Scopes -> Row]
    <3>1. rows' = rows \/ rows' = [rows EXCEPT ![s] = Bumped(rows[s])]
      BY <1>13, HearScopeIs
    <3>2. Bumped(rows[s]) \in Row
      BY <1>2, RowType
    <3> QED
      BY <3>1, <3>2 DEF TypeOK
  <2>3. slips' \subseteq Slips /\ UNCHANGED <<disk, index, lease, lock, calls, cli>>
    <3>1. (Writes(p) \/ slips' = slips) /\ UNCHANGED <<disk, index, lease, lock, calls, cli>>
      BY <1>13, Zenon DEF HearScope
    <3> QED
      BY <3>1 DEF Writes, TypeOK
  <2> QED
    BY <1>3, <2>1, <2>2, <2>3 DEF TypeOK, disk, index, calls
<1> QED
  BY <1>4, <1>5, <1>6, <1>7, <1>8, <1>9, <1>10, <1>11, <1>12, <1>13 DEF WorkerStep

(* Every step keeps the types.                                              *)
LEMMA NextType ==
  ASSUME TypeOK, WorkersOrderly, [Next]_vars
  PROVE  TypeOK'
<1>1. CASE UNCHANGED vars
  BY <1>1 DEF vars, TypeOK
<1>2. CASE BaseMoves \/ Edit \/ SessionComesOrGoes \/ CliClaims \/ CliExtracts \/ CliKilled
  BY <1>2, OutsideType
<1>3. ASSUME NEW p \in Servers,
             \/ WorkerStep(p) \/ CallStep(p)
             \/ EventsLost(p) \/ MarkFails(p) \/ Refused(p) \/ ForgetFails(p)
             \/ Fail(p) \/ Exit(p) \/ Kill(p) \/ Panic(p)
      PROVE  TypeOK'
  BY <1>3, WorkerType, CallType, MishapType
<1> QED
  BY <1>1, <1>2, <1>3 DEF Next


-----------------------------------------------------------------------------
(* The worker threads stay orderly.                                         *)

(* A thread that waits,                                                     *)
LEMMA WaitsOrderly ==
  ASSUME NEW w, NEW n, Orderly(w), Waits(w, n)
  PROVE  Orderly(n)
  BY DEF Orderly, Handled, Waits

(* one that is gone, dead or new,                                           *)
LEMMA BlankOrderly ==
  ASSUME NEW n, NEW at \in {"none", "start", "dead"}, Blank(n, at)
  PROVE  Orderly(n)
  BY DEF Orderly, Handled, Blank, Working

(* one that takes a scope up,                                               *)
LEMMA TakenOrderly ==
  ASSUME NEW w \in Worker, NEW n \in Worker, NEW s \in Scopes, Orderly(w), w.at = "pick", Taken(w, n, s),
         \/ w.registering /\ n.registering /\ Handled(n) = Handled(w) \cup {s}
         \/ ~w.registering /\ ~n.registering /\ Handled(n) = Handled(w) /\ s \in w.targets
  PROVE  Orderly(n)
<1>1. w.todo \in SUBSET Scopes /\ n.scope = s /\ s \in w.todo
  BY DEF Worker, Taken
<1>2. Base \in w.todo => s = Base
  BY TwoScopes DEF Taken
<1>3. /\ Base \in w.targets /\ Handled(w) \subseteq w.targets
      /\ w.targets \ Handled(w) \subseteq w.todo
      /\ w.targets # Handled(w) => w.registering
      /\ w.registering => /\ w.todo \subseteq w.targets \ Handled(w)
                          /\ Base \in w.todo => Handled(w) = {}
      /\ Base \in w.burst => Base \in Handled(w) \ w.todo
  BY DEF Orderly
<1>4. n.at = "reindex" /\ n.todo = w.todo \ {s} /\ n.targets = w.targets /\ n.burst = w.burst
  BY DEF Taken
<1>5. CASE w.registering
  <2>1. /\ n.registering /\ Handled(n) = Handled(w) \cup {s}
        /\ w.todo \subseteq w.targets \ Handled(w)
    BY <1>3, <1>5
  <2> QED
    BY <1>1, <1>2, <1>3, <1>4, <2>1 DEF Orderly, Working
<1>6. CASE ~w.registering
  <2>1. ~n.registering /\ Handled(n) = Handled(w) /\ w.targets = Handled(w) /\ s \in w.targets
    BY <1>3, <1>6
  <2> QED
    BY <1>1, <1>2, <1>3, <1>4, <2>1 DEF Orderly, Working
<1> QED
  BY <1>5, <1>6


(* one that rests,                                                          *)
LEMMA RestedOrderly ==
  ASSUME NEW w, NEW n, NEW todo, NEW burst, Rested(w, n, todo, burst),
         Base \in w.targets, Handled(n) \subseteq w.targets,
         w.targets \ Handled(n) \subseteq todo, w.targets # Handled(n) => w.registering,
         w.registering => /\ todo \subseteq w.targets \ Handled(n)
                          /\ Base \in todo => Handled(n) = {},
         Base \in burst => Base \in Handled(n) \ todo
  PROVE  Orderly(n)
<1>1. /\ n.at \in {"pick", "forget", "idle"}
      /\ n.at = "pick" => n.todo # {}
      /\ n.at = "idle" => n.todo = {}
      /\ n.registering => w.registering
      /\ w.registering /\ n.todo # {} => n.registering
      /\ n.targets = w.targets /\ n.todo = todo /\ n.burst = burst
  BY DEF Rested
<1>2. n.at \notin Working
  BY <1>1 DEF Working
<1> QED
  BY <1>1, <1>2 DEF Orderly

(* and one that goes on with its scope.                                     *)
LEMMA PhaseOrderly ==
  ASSUME NEW w, NEW n, Orderly(w), w.at \in Working, n.at \in Working,
         Keeps(w, n), n.scope = w.scope,
         n.at = "extract" => n.scope = Base,
         n.at = "layer" => n.scope = Layer /\ n.before \in Commits
  PROVE  Orderly(n)
<1>1. n.at \notin {"none", "dead", "start", "pick", "idle"} /\ w.at \notin {"none", "dead", "start"}
  BY DEF Working
<1>2. Handled(n) = Handled(w)
  BY DEF Handled, Keeps
<1> QED
  BY <1>1, <1>2 DEF Orderly, Keeps

(* The thread that discovers, registers, picks or indexes stays orderly,    *)
LEMMA WorkerOrderly ==
  ASSUME TypeOK, WorkersOrderly, NEW p \in Servers,
         \/ Discover(p) \/ Register(p) \/ Refused(p) \/ PickDue(p)
         \/ Forget(p) \/ ForgetFails(p)
         \/ StartIndex(p) \/ Extract(p) \/ StartLayer(p) \/ IndexLayer(p)
  PROVE  Alone(p) /\ Orderly(worker'[p])
<1> DEFINE w == worker[p]
           n == worker'[p]
<1>1. w \in Worker /\ Orderly(w) /\ w.todo \in SUBSET Scopes
  BY DEF TypeOK, WorkersOrderly, Worker
<1>2. CASE Discover(p)
  <2>1. Alone(p) /\ w.watched = {} /\ w.burst = {} /\ w.registering
    BY <1>1, <1>2, DiscoverIs DEF Orderly, Handled
  <2>2. /\ n.at = "pick" /\ n.targets = Targets /\ n.todo = Targets
        /\ n.watched = {} /\ n.burst = {} /\ n.registering /\ n.deaf \in {{}, {"control"}}
    BY <1>2, <2>1, DiscoverIs
  <2>3. Handled(n) = {}
    BY <2>2 DEF Handled, Scopes, Base, Layer
  <2> QED
    BY <2>1, <2>2, <2>3, TwoScopes DEF Orderly, Working
<1>3. CASE Register(p)
  <2>1. /\ Alone(p) /\ w.at = "pick" /\ w.registering /\ n.registering
        /\ n.scope \in Scopes /\ Taken(w, n, n.scope) /\ n.watched = w.watched \cup {n.scope}
        /\ n.deaf \in {w.deaf, w.deaf \cup {n.scope}}
    BY <1>3, RegisterIs
  <2>2. n \in Worker
    BY <2>1 DEF Alone
  <2>3. Handled(n) = Handled(w) \cup {n.scope}
    BY <2>1 DEF Handled
  <2> QED
    BY <1>1, <2>1, <2>2, <2>3, TakenOrderly
<1>10. CASE Refused(p)
  <2> DEFINE s == FirstOf(w.todo)
  <2>1. /\ Alone(p) /\ w.at = "pick" /\ w.registering /\ s \in w.todo
        /\ Rested(w, n, w.todo \ {s}, w.burst) /\ n.deaf = w.deaf \cup {s}
    BY <1>10, RefusedIs
  <2>2. n.watched = w.watched
    BY <2>1 DEF Rested
  <2>3. s \in Scopes /\ (Base \in w.todo => s = Base)
    BY TwoScopes
  <2>4. Handled(n) = Handled(w) \cup {s}
    BY <2>1, <2>2, <2>3 DEF Handled
  <2>5. /\ Base \in w.targets /\ Handled(w) \subseteq w.targets
        /\ w.targets \ Handled(w) \subseteq w.todo
        /\ w.todo \subseteq w.targets \ Handled(w)
        /\ Base \in w.burst => Base \in Handled(w) \ w.todo
    BY <1>1, <2>1 DEF Orderly
  <2> HIDE DEF s
  <2> QED
    BY <2>1, <2>3, <2>4, <2>5, RestedOrderly
<1>4. CASE PickDue(p)
  <2>1. /\ Alone(p) /\ w.at = "pick" /\ ~w.registering /\ n.deaf = w.deaf
        /\ \/ /\ n.scope \in Scopes \cap w.targets /\ Taken(w, n, n.scope)
              /\ n.watched = w.watched /\ ~n.registering
           \/ \E s \in w.todo : s \notin w.targets /\ Rested(w, n, w.todo \ {s}, w.burst)
    BY <1>4, PickDueIs
  <2>2. CASE /\ n.scope \in Scopes \cap w.targets /\ Taken(w, n, n.scope)
             /\ n.watched = w.watched /\ ~n.registering
    <3>1. n \in Worker
      BY <2>1 DEF Alone
    <3>2. Handled(n) = Handled(w)
      BY <2>1, <2>2 DEF Handled
    <3> QED
      BY <1>1, <2>1, <2>2, <3>1, <3>2, TakenOrderly
  <2>3. ASSUME NEW s \in w.todo, s \notin w.targets, Rested(w, n, w.todo \ {s}, w.burst)
        PROVE  Orderly(n)
    <3>1. Handled(n) = Handled(w)
      BY <2>1, <2>3 DEF Handled, Rested
    <3>2. /\ Base \in w.targets /\ w.targets = Handled(w)
          /\ Base \in w.burst => Base \in Handled(w) \ w.todo
      BY <1>1, <2>1 DEF Orderly
    <3> QED
      BY <2>1, <2>3, <3>1, <3>2, RestedOrderly
  <2> QED
    BY <2>1, <2>2, <2>3
<1>5. CASE Forget(p) \/ ForgetFails(p)
  <2>1. Alone(p) /\ w.at = "forget" /\ Rested(w, n, w.todo, w.burst) /\ n.deaf = w.deaf
    BY <1>5, ForgetIs
  <2>2. Handled(n) = Handled(w)
    BY <2>1 DEF Handled, Rested
  <2>3. /\ Base \in w.targets /\ Handled(w) \subseteq w.targets
        /\ w.targets \ Handled(w) \subseteq w.todo /\ (w.targets # Handled(w) => w.registering)
        /\ w.registering => /\ w.todo \subseteq w.targets \ Handled(w)
                            /\ Base \in w.todo => Handled(w) = {}
        /\ Base \in w.burst => Base \in Handled(w) \ w.todo
    BY <1>1, <2>1 DEF Orderly
  <2> QED
    BY <2>1, <2>2, <2>3, RestedOrderly
<1>6. CASE StartIndex(p)
  <2>1. /\ Alone(p) /\ w.at \in Working /\ n.at \in {"done", "extract"}
        /\ w.scope = Base /\ n.scope = w.scope /\ Keeps(w, n)
    BY <1>6, StartIndexIs DEF Working
  <2>2. n.at \in Working /\ n.at # "layer"
    BY <2>1 DEF Working
  <2> QED
    BY <1>1, <2>1, <2>2, PhaseOrderly
<1>7. CASE Extract(p)
  <2>1. /\ Alone(p) /\ w.at \in Working /\ n.at = "done" /\ n.scope = w.scope /\ Keeps(w, n)
    BY <1>7, ExtractIs DEF Working
  <2>2. n.at \in Working
    BY <2>1 DEF Working
  <2> QED
    BY <1>1, <2>1, <2>2, PhaseOrderly
<1>8. CASE StartLayer(p)
  <2>1. /\ Alone(p) /\ w.at \in Working /\ n.at = "layer" /\ w.scope = Layer /\ n.scope = w.scope
        /\ Keeps(w, n) /\ n.before = BaseCommit
    BY <1>8, StartLayerIs DEF Working
  <2>2. n.at \in Working /\ BaseCommit \in Commits
    BY <2>1, BaseCommitIs DEF Working
  <2> QED
    BY <1>1, <2>1, <2>2, PhaseOrderly
<1>9. CASE IndexLayer(p)
  <2>1. /\ Alone(p) /\ w.at \in Working /\ n.at = "done" /\ n.scope = w.scope /\ Keeps(w, n)
    BY <1>9, IndexLayerIs DEF Working
  <2>2. n.at \in Working
    BY <2>1 DEF Working
  <2> QED
    BY <1>1, <2>1, <2>2, PhaseOrderly
<1> QED
  BY <1>2, <1>3, <1>10, <1>4, <1>5, <1>6, <1>7, <1>8, <1>9


(* and so does one that ends with a scope or hears an event.                *)
LEMMA WorkerOrderlyToo ==
  ASSUME TypeOK, WorkersOrderly, NEW p \in Servers,
         \/ Finish(p) \/ Fail(p) \/ HearRescan(p) \/ Rediscover(p) \/ TakeDue(p)
         \/ \E s \in Scopes : HearScope(p, s)
  PROVE  Alone(p) /\ Orderly(worker'[p])
<1> DEFINE w == worker[p]
           n == worker'[p]
<1>1. /\ w \in Worker /\ Orderly(w) /\ w.todo \in SUBSET Scopes /\ w.scope \in Scopes
      /\ w.burst \in SUBSET Scopes /\ w.targets \in SUBSET Scopes
  BY DEF TypeOK, WorkersOrderly, Worker
<1>2. ASSUME NEW due \in SUBSET Scopes, w.at \in Working,
             Base \in due => w.scope = Base,
             Rested(w, n, w.todo, w.burst \cup due), n.deaf = w.deaf
      PROVE  Orderly(n)
  <2>1. Handled(n) = Handled(w)
    BY <1>2 DEF Handled, Rested
  <2>2. w.at \notin {"none", "dead", "start"}
    BY <1>2 DEF Working
  <2>3. /\ Base \in w.targets /\ Handled(w) \subseteq w.targets
        /\ w.targets \ Handled(w) \subseteq w.todo /\ (w.targets # Handled(w) => w.registering)
        /\ w.registering => /\ w.todo \subseteq w.targets \ Handled(w)
                            /\ Base \in w.todo => Handled(w) = {}
        /\ Base \in w.burst => Base \in Handled(w) \ w.todo
        /\ w.scope \in Handled(w) \ w.todo
    BY <1>1, <1>2, <2>2 DEF Orderly
  <2> QED
    BY <1>2, <2>1, <2>3, RestedOrderly
<1>3. CASE Finish(p)
  <2>1. /\ Alone(p) /\ w.at \in Working /\ n.deaf = w.deaf
        /\ Rested(w, n, w.todo, w.burst \cup Invalidated(w))
    BY <1>3, FinishIs DEF Working
  <2>2. Invalidated(w) \in SUBSET Scopes /\ Base \notin Invalidated(w)
    BY TwoScopes DEF Invalidated
  <2> QED
    BY <2>1, <2>2, <1>2
<1>4. CASE Fail(p)
  <2>1. /\ Alone(p) /\ w.at \in Working /\ n.deaf = w.deaf
        /\ Rested(w, n, w.todo, w.burst \cup {w.scope})
    BY <1>4, FailIs, Zenon
  <2>2. {w.scope} \in SUBSET Scopes
    BY <1>1
  <2> QED
    BY <2>1, <2>2, <1>2
<1>5. ASSUME w.at = "idle"
      PROVE  /\ w.todo = {} /\ w.targets = Handled(w) /\ Base \in w.targets
             /\ w.registering => w.todo \subseteq w.targets \ Handled(w)
  BY <1>1, <1>5 DEF Orderly
<1>6. CASE HearRescan(p)
  <2>1. /\ Alone(p) /\ w.at = "idle" /\ n.at = "idle" /\ n.todo = w.todo
        /\ n.registering = w.registering /\ n.targets = w.targets /\ n.watched = w.watched
        /\ n.deaf = w.deaf
    BY <1>6, HearRescanIs
  <2>2. Handled(n) = Handled(w)
    BY <2>1 DEF Handled
  <2> QED
    BY <1>5, <2>1, <2>2 DEF Orderly, Working
<1>7. ASSUME NEW s \in Scopes, HearScope(p, s)
      PROVE  Alone(p) /\ Orderly(n)
  <2>1. /\ Alone(p) /\ w.at = "idle" /\ n.at = "idle" /\ n.todo = w.todo
        /\ n.registering = w.registering /\ n.targets = w.targets /\ n.watched = w.watched
        /\ n.deaf = w.deaf
    BY <1>7, HearScopeIs
  <2>2. Handled(n) = Handled(w)
    BY <2>1 DEF Handled
  <2> QED
    BY <1>5, <2>1, <2>2 DEF Orderly, Working
<1>8. CASE Rediscover(p)
  <2>1. /\ Alone(p) /\ w.at = "idle" /\ n.at = "forget" /\ n.registering
        /\ n.targets = Targets /\ n.watched = w.watched \cap Targets
        /\ n.todo = Targets \ w.targets /\ n.burst = w.burst
        /\ n.deaf \cap Scopes = w.deaf \cap Targets
    BY <1>8, RediscoverIs
  <2>2. Base \in Targets /\ Targets \subseteq Scopes
    BY TwoScopes
  <2>3. Handled(n) = Handled(w) \cap Targets
    BY <2>1, <2>2 DEF Handled
  <2> QED
    BY <1>5, <2>1, <2>2, <2>3 DEF Orderly, Working
<1>9. CASE TakeDue(p)
  <2>1. /\ Alone(p) /\ w.at = "idle" /\ n.at = "pick" /\ ~n.registering
        /\ n.targets = w.targets /\ n.watched = w.watched /\ n.deaf = w.deaf
        /\ n.todo # {} /\ n.burst = w.burst \ n.todo
    BY <1>9, TakeDueIs
  <2>2. Handled(n) = Handled(w)
    BY <2>1 DEF Handled
  <2> QED
    BY <1>5, <2>1, <2>2 DEF Orderly, Working
<1> QED
  BY <1>3, <1>4, <1>6, <1>7, <1>8, <1>9

(* Every step keeps the threads orderly.                                    *)
LEMMA NextOrderly ==
  ASSUME TypeOK, WorkersOrderly, [Next]_vars
  PROVE  WorkersOrderly'
<1>1. ASSUME worker' = worker
      PROVE  WorkersOrderly'
  BY <1>1 DEF WorkersOrderly
<1>2. ASSUME NEW e \in Scopes \cup {"control", "rescan"}, NEW H, Queue(e, H)
      PROVE  WorkersOrderly'
  <2> SUFFICES ASSUME NEW q \in Servers PROVE Orderly(worker'[q])
    BY DEF WorkersOrderly
  <2>1. Orderly(worker[q]) /\ Waits(worker[q], worker'[q])
    BY <1>2, QueueIs DEF WorkersOrderly
  <2> QED
    BY <2>1, WaitsOrderly
<1>3. ASSUME NEW p \in Servers, Alone(p), Orderly(worker'[p])
      PROVE  WorkersOrderly'
  <2> SUFFICES ASSUME NEW q \in Servers PROVE Orderly(worker'[q])
    BY DEF WorkersOrderly
  <2> QED
    BY <1>3 DEF Alone, WorkersOrderly
<1>4. CASE UNCHANGED vars
  BY <1>1, <1>4 DEF vars
<1>5. CASE BaseMoves \/ Edit \/ SessionComesOrGoes
  BY <1>2, <1>5, TwoScopes DEF BaseMoves, Edit, SessionComesOrGoes
<1>6. CASE CliClaims \/ CliExtracts \/ CliKilled
  BY <1>1, <1>6 DEF CliClaims, CliExtracts, CliKilled
<1>7. ASSUME NEW p \in Servers, CallStep(p)
      PROVE  WorkersOrderly'
  <2>1. CASE Mark(p)
    BY <2>1, <1>3, MarkIs, BlankOrderly
  <2>2. CASE CallWithoutWorker(p)
    BY <2>2, <1>3, GoneIs, BlankOrderly
  <2>3. CASE TakeLease(p) \/ StartServer(p) \/ GiveUp(p) \/ Refresh(p)
    BY <2>3, <1>1 DEF TakeLease, StartServer, GiveUp, Refresh
  <2> QED
    BY <1>7, <2>1, <2>2, <2>3 DEF CallStep
<1>12. ASSUME NEW p \in Servers, MarkFails(p)
       PROVE  WorkersOrderly'
  BY <1>1, <1>12 DEF MarkFails
<1>8. ASSUME NEW p \in Servers, EventsLost(p) \/ Exit(p)
      PROVE  WorkersOrderly'
  <2>1. Alone(p) /\ Waits(worker[p], worker'[p]) /\ Orderly(worker[p])
    BY <1>8, EventsLostIs, ExitIs DEF WorkersOrderly
  <2> QED
    BY <2>1, <1>3, WaitsOrderly
<1>9. ASSUME NEW p \in Servers, Kill(p) \/ Joined(p)
      PROVE  WorkersOrderly'
  BY <1>3, <1>9, GoneIs, BlankOrderly
<1>10. ASSUME NEW p \in Servers, Panic(p)
       PROVE  WorkersOrderly'
  BY <1>3, <1>10, PanicIs, BlankOrderly
<1>11. ASSUME NEW p \in Servers, WorkerStep(p) \/ Refused(p) \/ ForgetFails(p) \/ Fail(p)
       PROVE  WorkersOrderly'
  BY <1>3, <1>9, <1>11, WorkerOrderly, WorkerOrderlyToo DEF WorkerStep
<1> QED
  BY <1>4, <1>5, <1>6, <1>7, <1>8, <1>9, <1>10, <1>11, <1>12 DEF Next


-----------------------------------------------------------------------------
(* The lease and the index lock.                                            *)

(* What the thread of a server does itself, mishaps included.               *)
OwnStep(p) ==
  \/ WorkerStep(p) /\ ~Joined(p)
  \/ Refused(p) \/ ForgetFails(p) \/ Fail(p)

(* A thread's own step needs a thread.                                      *)
LEMMA ThreadMoves ==
  ASSUME TypeOK, WorkersOrderly, NEW p \in Servers, OwnStep(p) \/ Panic(p)
  PROVE  Alone(p) /\ worker[p].at # "none" /\ UNCHANGED <<call, lease>>
<1>1. CASE Fail(p)
  <2>1. Alone(p) /\ worker[p].at \in Working
    BY <1>1, FailIs, Zenon
  <2>2. UNCHANGED <<call, lease>>
    BY <1>1, Zenon DEF Fail, calls
  <2> QED
    BY <2>1, <2>2 DEF Working
<1>2. CASE Panic(p)
  <2>1. Alone(p)
    BY <1>2, PanicIs, Zenon
  <2> QED
    BY <1>2, <2>1 DEF Panic, Alive, calls
<1>4. CASE Refused(p) \/ ForgetFails(p)
  <2>1. Alone(p) /\ worker[p].at \in {"pick", "forget"}
    <3>1. CASE Refused(p)
      BY <3>1, RefusedIs, Zenon
    <3>2. CASE ForgetFails(p)
      BY <3>2, ForgetIs, Zenon
    <3> QED
      BY <1>4, <3>1, <3>2
  <2>2. UNCHANGED <<call, lease>>
    BY <1>4, Zenon DEF Refused, ForgetFails, calls
  <2> QED
    BY <2>1, <2>2
<1>3. CASE WorkerStep(p) /\ ~Joined(p)
  <2>1. Alone(p)
    BY <1>3, WorkerOrderly, WorkerOrderlyToo DEF WorkerStep
  <2>2. worker[p].at \in {"start", "pick", "forget", "reindex", "extract", "layer",
                          "done", "idle"}
    <3>1. CASE Discover(p) \/ Register(p) \/ PickDue(p) \/ Forget(p) \/ StartIndex(p)
               \/ Extract(p) \/ StartLayer(p) \/ IndexLayer(p)
      BY <3>1, Zenon DEF Discover, Register, PickDue, Forget, StartIndex, Extract, StartLayer,
         IndexLayer
    <3>2. CASE Finish(p) \/ HearRescan(p) \/ Rediscover(p) \/ TakeDue(p)
      BY <3>2, Zenon DEF Finish, HearRescan, Rediscover, TakeDue
    <3>3. ASSUME NEW s \in Scopes, HearScope(p, s)
          PROVE  worker[p].at = "idle"
      BY <3>3, Zenon DEF HearScope
    <3> QED
      BY <1>3, <3>1, <3>2, <3>3, Zenon DEF WorkerStep
  <2>3. UNCHANGED <<calls, lease>>
    <3>1. CASE Discover(p) \/ Register(p) \/ PickDue(p) \/ Forget(p) \/ StartIndex(p)
               \/ Extract(p) \/ StartLayer(p) \/ IndexLayer(p)
      BY <3>1, Zenon DEF Discover, Register, PickDue, Forget, StartIndex, Extract, StartLayer,
         IndexLayer
    <3>2. CASE Finish(p) \/ HearRescan(p) \/ Rediscover(p) \/ TakeDue(p)
      BY <3>2, Zenon DEF Finish, HearRescan, Rediscover, TakeDue
    <3>3. ASSUME NEW s \in Scopes, HearScope(p, s)
          PROVE  UNCHANGED <<calls, lease>>
      BY <3>3, Zenon DEF HearScope
    <3> QED
      BY <1>3, <3>1, <3>2, <3>3 DEF WorkerStep
  <2> QED
    BY <2>1, <2>2, <2>3 DEF calls
<1> QED
  BY <1>1, <1>2, <1>3, <1>4 DEF OwnStep

(* Every step keeps the lease with the one that has a thread.               *)
LEMMA NextLease ==
  ASSUME TypeOK, WorkersOrderly, LeaseHeld, [Next]_vars
  PROVE  LeaseHeld'
<1> NoOne \notin Servers
  BY GraphWatchAssumption DEF GraphWatchAssumption
<1>1. ASSUME UNCHANGED <<call, lease>>, \A p \in Servers : worker'[p].at = worker[p].at
      PROVE  LeaseHeld'
  BY <1>1 DEF LeaseHeld
<1>2. CASE UNCHANGED vars
  BY <1>1, <1>2 DEF vars, calls
<1>3. CASE BaseMoves \/ Edit \/ SessionComesOrGoes
  <2>1. PICK e \in Scopes \cup {"control", "rescan"}, H \in SUBSET Servers : Queue(e, H)
    BY <1>3, TwoScopes DEF BaseMoves, Edit, SessionComesOrGoes, Hearers
  <2>2. \A q \in Servers : worker'[q].at = worker[q].at
    BY <2>1, QueueIs DEF Waits
  <2> QED
    BY <1>1, <1>3, <2>2 DEF BaseMoves, Edit, SessionComesOrGoes, calls
<1>4. CASE CliClaims \/ CliExtracts \/ CliKilled
  BY <1>1, <1>4 DEF CliClaims, CliExtracts, CliKilled, calls
<1>5. ASSUME NEW p \in Servers, CallStep(p)
      PROVE  LeaseHeld'
  <2>1. CASE TakeLease(p)
    BY <2>1 DEF TakeLease, LeaseHeld, TypeOK
  <2>2. CASE StartServer(p)
    BY <2>2 DEF StartServer, LeaseHeld, TypeOK
  <2>3. CASE Mark(p)
    <3>1. Alone(p) /\ worker'[p].at = "start"
      BY <2>3, MarkIs DEF Blank
    <3> QED
      BY <2>3, <3>1 DEF Mark, LeaseHeld, Alone, TypeOK
  <2>4. CASE GiveUp(p)
    BY <2>4 DEF GiveUp, StartRefresh, LeaseHeld, TypeOK
  <2>5. CASE CallWithoutWorker(p)
    <3>1. Alone(p) /\ worker'[p].at = "none"
      BY <2>5, GoneIs DEF Blank
    <3> QED
      BY <2>5, <3>1 DEF CallWithoutWorker, StartRefresh, LeaseHeld, Alone, TypeOK
  <2>6. CASE Refresh(p)
    BY <2>6 DEF Refresh, LeaseHeld, TypeOK
  <2> QED
    BY <1>5, <2>1, <2>2, <2>3, <2>4, <2>5, <2>6 DEF CallStep
<1>6. ASSUME NEW p \in Servers, EventsLost(p)
      PROVE  LeaseHeld'
  <2>1. \A q \in Servers : worker'[q].at = worker[q].at
    BY <1>6, EventsLostIs DEF Alone, Waits
  <2> QED
    BY <1>1, <1>6, <2>1 DEF EventsLost, calls
<1>7. ASSUME NEW p \in Servers, Exit(p)
      PROVE  LeaseHeld'
  <2>1. Alone(p) /\ worker'[p].at = worker[p].at
    BY <1>7, ExitIs DEF Waits
  <2> QED
    BY <1>7, <2>1 DEF Exit, LeaseHeld, Alone, TypeOK
<1>8. ASSUME NEW p \in Servers, Kill(p)
      PROVE  LeaseHeld'
  <2>1. Alone(p) /\ worker'[p].at = "none"
    BY <1>8, GoneIs DEF Blank
  <2> QED
    BY <1>8, <2>1 DEF Kill, LeaseHeld, Alone, TypeOK
<1>9. ASSUME NEW p \in Servers, Joined(p)
      PROVE  LeaseHeld'
  <2>1. Alone(p) /\ worker'[p].at = "none"
    BY <1>9, GoneIs DEF Blank
  <2> QED
    BY <1>9, <2>1 DEF Joined, LeaseHeld, Alone, TypeOK
<1>11. ASSUME NEW p \in Servers, MarkFails(p)
       PROVE  LeaseHeld'
  BY <1>11 DEF MarkFails, LeaseHeld, TypeOK
<1>10. ASSUME NEW p \in Servers, OwnStep(p) \/ Panic(p)
       PROVE  LeaseHeld'
  <2>1. Alone(p) /\ worker[p].at # "none" /\ UNCHANGED <<call, lease>>
    BY <1>10, ThreadMoves
  <2> QED
    BY <2>1 DEF LeaseHeld, Alone
<1> QED
  BY <1>2, <1>3, <1>4, <1>5, <1>6, <1>7, <1>8, <1>9, <1>10, <1>11 DEF Next, OwnStep


(* A way out of the protocol is not forgotten.                              *)
LEMMA SlipsGrow ==
  ASSUME [Next]_vars
  PROVE  slips \subseteq slips'
<1>1. CASE UNCHANGED vars
  BY <1>1 DEF vars
<1>2. CASE BaseMoves \/ Edit \/ SessionComesOrGoes \/ CliClaims \/ CliExtracts \/ CliKilled
  BY <1>2 DEF BaseMoves, Edit, SessionComesOrGoes, CliClaims, CliExtracts, CliKilled
<1>3. ASSUME NEW p \in Servers, CallStep(p)
      PROVE  slips \subseteq slips'
  BY <1>3 DEF CallStep, TakeLease, StartServer, Mark, GiveUp, CallWithoutWorker, StartRefresh, Refresh
<1>4. ASSUME NEW p \in Servers, \/ EventsLost(p) \/ MarkFails(p) \/ Refused(p) \/ ForgetFails(p)
                                \/ Fail(p) \/ Exit(p) \/ Kill(p) \/ Panic(p)
      PROVE  slips \subseteq slips'
  <2>1. CASE EventsLost(p) \/ MarkFails(p) \/ Refused(p) \/ ForgetFails(p) \/ Exit(p)
    <3>1. UNCHANGED slips
      BY <2>1, Zenon DEF EventsLost, MarkFails, Refused, ForgetFails, Exit
    <3> QED
      BY <3>1
  <2>2. CASE Fail(p)
    <3>1. slips' = slips \cup (IF worker[p].at = "extract" THEN {"torn"} ELSE {})
                        \cup (IF lease = p THEN {} ELSE {"late"})
      BY <2>2, Zenon DEF Fail
    <3> QED
      BY <3>1
  <2>3. CASE Kill(p) \/ Panic(p)
    BY <2>3 DEF Kill, Panic, Torn
  <2> QED
    BY <1>4, <2>1, <2>2, <2>3
<1>5. ASSUME NEW p \in Servers, WorkerStep(p)
      PROVE  slips \subseteq slips'
  <2>1. CASE Discover(p) \/ PickDue(p) \/ Extract(p) \/ StartLayer(p) \/ Rediscover(p)
             \/ TakeDue(p) \/ Joined(p)
    <3>1. UNCHANGED slips
      BY <2>1, Zenon DEF Discover, PickDue, Extract, StartLayer, Rediscover, TakeDue, Joined
    <3> QED
      BY <3>1
  <2>2. CASE Register(p) \/ Forget(p) \/ Finish(p) \/ HearRescan(p)
    <3>1. Writes(p)
      BY <2>2, Zenon DEF Register, Forget, Finish, HearRescan
    <3> QED
      BY <3>1 DEF Writes
  <2>3. CASE StartIndex(p) \/ IndexLayer(p)
    BY <2>3 DEF StartIndex, IndexLayer
  <2>4. ASSUME NEW s \in Scopes, HearScope(p, s)
        PROVE  slips \subseteq slips'
    <3>1. Writes(p) \/ UNCHANGED slips
      BY <2>4, Zenon DEF HearScope
    <3> QED
      BY <3>1 DEF Writes
  <2> QED
    BY <1>5, <2>1, <2>2, <2>3, <2>4 DEF WorkerStep
<1> QED
  BY <1>1, <1>2, <1>3, <1>4, <1>5 DEF Next

(* A step that touches neither the base index nor a lock, of threads that   *)
(* are not extracting.                                                      *)
LEMMA ClaimsStay ==
  ASSUME ClaimsAreKept, [Next]_vars, UNCHANGED <<head, base, lock, cli>>,
         \A q \in Servers : worker'[q].at = "extract" <=> worker[q].at = "extract"
  PROVE  ClaimsAreKept'
<1>1. "torn" \in slips => "torn" \in slips'
  BY SlipsGrow
<1> QED
  BY <1>1 DEF ClaimsAreKept

(* Every step keeps the claims of the base index.                           *)
LEMMA NextClaims ==
  ASSUME TypeOK, WorkersOrderly, LeaseHeld, ClaimsAreKept, [Next]_vars
  PROVE  ClaimsAreKept'
<1> /\ NoOne \notin Servers /\ Cli \notin Servers /\ NoOne # Cli
  BY GraphWatchAssumption DEF GraphWatchAssumption
<1>1. /\ head \in Nat /\ base.commit \in Int /\ base.row \in Int
      /\ base \in [commit : Commits \cup {Absent}, row : Commits \cup {Absent}]
  <2>1. head \in Nat /\ \A c \in Commits \cup {Absent} : c \in Int
    BY DiskType DEF Absent
  <2>2. base \in [commit : Commits \cup {Absent}, row : Commits \cup {Absent}]
    BY DEF TypeOK
  <2>3. base.commit \in Commits \cup {Absent} /\ base.row \in Commits \cup {Absent}
    BY <2>2
  <2> QED
    BY <2>1, <2>2, <2>3
<1>2. "torn" \in slips => "torn" \in slips'
  BY SlipsGrow
<1>3. CASE UNCHANGED vars
  BY <1>3, ClaimsStay DEF vars
<1>4. CASE BaseMoves
  <2>1. \A q \in Servers : worker'[q].at = worker[q].at
    BY <1>4, QueueIs, TwoScopes DEF BaseMoves, Waits
  <2> QED
    BY <1>1, <1>2, <1>4, <2>1 DEF BaseMoves, ClaimsAreKept, index
<1>5. CASE Edit \/ SessionComesOrGoes
  <2>1. PICK e \in Scopes \cup {"control", "rescan"}, H \in SUBSET Servers : Queue(e, H)
    BY <1>5, TwoScopes DEF Edit, SessionComesOrGoes, Hearers
  <2>2. \A q \in Servers : worker'[q].at = worker[q].at
    BY <2>1, QueueIs DEF Waits
  <2> QED
    BY <1>5, <2>2, ClaimsStay DEF Edit, SessionComesOrGoes, index
<1>6. CASE CliClaims
  <2>1. base'.commit = head
    BY <1>1, <1>6 DEF CliClaims, Claim
  <2> QED
    BY <1>1, <1>6, <2>1 DEF CliClaims, ClaimsAreKept, disk
<1>7. CASE CliExtracts
  <2>1. base'.commit = base.commit /\ base'.row = head
    BY <1>1, <1>7 DEF CliExtracts, ExtractRows
  <2> QED
    BY <1>1, <1>2, <1>7, <2>1 DEF CliExtracts, ClaimsAreKept, disk
<1>8. CASE CliKilled
  BY <1>8 DEF CliKilled, ClaimsAreKept, disk, index
<1>9. ASSUME NEW p \in Servers, CallStep(p)
      PROVE  ClaimsAreKept'
  <2>1. CASE Mark(p)
    <3>1. Alone(p) /\ worker'[p].at = "start" /\ UNCHANGED <<head, base, lock, cli>>
      BY <2>1, MarkIs DEF Mark, disk, index, Blank
    <3>2. worker[p].at # "extract"
      BY <2>1 DEF Mark, LeaseHeld
    <3> QED
      BY <3>1, <3>2, ClaimsStay DEF Alone
  <2>2. CASE CallWithoutWorker(p)
    <3>1. Alone(p) /\ worker'[p].at = "none" /\ UNCHANGED <<head, base, lock, cli>>
      BY <2>2, GoneIs DEF CallWithoutWorker, StartRefresh, disk, index, Blank
    <3>2. worker[p].at # "extract"
      BY <2>2 DEF CallWithoutWorker, Alive
    <3> QED
      BY <3>1, <3>2, ClaimsStay DEF Alone
  <2>3. CASE TakeLease(p) \/ StartServer(p) \/ GiveUp(p) \/ Refresh(p)
    <3>1. UNCHANGED <<head, base, lock, cli, worker>>
      BY <2>3 DEF TakeLease, StartServer, GiveUp, StartRefresh, Refresh, disk, index
    <3> QED
      BY <3>1, ClaimsStay
  <2> QED
    BY <1>9, <2>1, <2>2, <2>3 DEF CallStep

<1>10. ASSUME NEW p \in Servers, EventsLost(p) \/ Exit(p)
       PROVE  ClaimsAreKept'
  <2>1. \A q \in Servers : worker'[q].at = worker[q].at
    BY <1>10, EventsLostIs, ExitIs DEF Alone, Waits
  <2>2. UNCHANGED <<head, base, lock, cli>>
    BY <1>10 DEF EventsLost, Exit, disk, index
  <2> QED
    BY <2>1, <2>2, ClaimsStay
<1>11. ASSUME NEW p \in Servers, Kill(p) \/ Panic(p)
       PROVE  ClaimsAreKept'
  <2>1. /\ Alone(p) /\ worker'[p].at # "extract" /\ UNCHANGED <<head, base, cli>>
        /\ lock' = IF lock = p THEN NoOne ELSE lock
        /\ worker[p].at = "extract" => "torn" \in slips'
    BY <1>11, GoneIs, PanicIs DEF Kill, Panic, Torn, disk, index, Blank
  <2> QED
    BY <1>2, <2>1 DEF ClaimsAreKept, Alone
<1>16. ASSUME NEW p \in Servers, MarkFails(p) \/ Refused(p) \/ ForgetFails(p)
       PROVE  ClaimsAreKept'
  <2>1. UNCHANGED <<head, base, lock, cli>>
    BY <1>16, Zenon DEF MarkFails, Refused, ForgetFails, disk, index
  <2>2. \A q \in Servers : worker'[q].at = "extract" <=> worker[q].at = "extract"
    <3>1. CASE MarkFails(p)
      BY <3>1 DEF MarkFails
    <3>2. CASE Refused(p) \/ ForgetFails(p)
      <4>1. /\ Alone(p) /\ worker[p].at \in {"pick", "forget"}
            /\ \E todo, burst : Rested(worker[p], worker'[p], todo, burst)
        <5>1. CASE Refused(p)
          BY <5>1, RefusedIs, Zenon
        <5>2. CASE ForgetFails(p)
          BY <5>2, ForgetIs, Zenon
        <5> QED
          BY <3>2, <5>1, <5>2
      <4> QED
        BY <4>1 DEF Alone, Rested
    <3> QED
      BY <1>16, <3>1, <3>2
  <2> QED
    BY <2>1, <2>2, ClaimsStay
<1>12. ASSUME NEW p \in Servers, Fail(p)
       PROVE  ClaimsAreKept'
  <2>1. /\ Alone(p) /\ worker'[p].at # "extract" /\ UNCHANGED <<head, base, cli>>
        /\ lock' = IF lock = p THEN NoOne ELSE lock
        /\ worker[p].at = "extract" => "torn" \in slips'
    <3>1. Alone(p) /\ Rested(worker[p], worker'[p], worker[p].todo, worker[p].burst \cup {worker[p].scope})
      BY <1>12, FailIs, Zenon
    <3>2. /\ UNCHANGED <<disk, index, cli>> /\ lock' = IF lock = p THEN NoOne ELSE lock
          /\ slips' = slips \cup (IF worker[p].at = "extract" THEN {"torn"} ELSE {})
                            \cup (IF lease = p THEN {} ELSE {"late"})
      BY <1>12, Zenon DEF Fail
    <3> QED
      BY <3>1, <3>2 DEF disk, index, Rested
  <2> QED
    BY <1>2, <2>1 DEF ClaimsAreKept, Alone
<1>13. ASSUME NEW p \in Servers, StartIndex(p)
       PROVE  ClaimsAreKept'
  <2>1. /\ Alone(p) /\ worker[p].at = "reindex"
        /\ worker'[p].at = IF UpToDate THEN "done" ELSE "extract"
    BY <1>13, StartIndexIs
  <2>2. CASE UpToDate
    BY <1>13, <2>1, <2>2, ClaimsStay DEF StartIndex, Alone, disk
  <2>3. CASE ~UpToDate
    <3>1. base'.commit = head /\ lock' = p /\ lock = NoOne /\ UNCHANGED <<head, cli>>
      BY <1>1, <1>13, <2>3 DEF StartIndex, Claim, disk
    <3> QED
      BY <1>1, <2>1, <2>3, <3>1 DEF ClaimsAreKept, Alone
  <2> QED
    BY <2>2, <2>3
<1>14. ASSUME NEW p \in Servers, Extract(p)
       PROVE  ClaimsAreKept'
  <2>1. Alone(p) /\ worker[p].at = "extract" /\ worker'[p].at = "done"
    BY <1>14, ExtractIs
  <2>2. base'.commit = base.commit /\ base'.row = head /\ lock' = NoOne /\ UNCHANGED <<head, cli>>
    BY <1>1, <1>14 DEF Extract, ExtractRows, disk
  <2>3. lock = p
    BY <2>1 DEF ClaimsAreKept
  <2> QED
    BY <1>1, <2>1, <2>2, <2>3 DEF ClaimsAreKept, Alone
<1>15. ASSUME NEW p \in Servers,
              \/ Discover(p) \/ Register(p) \/ PickDue(p) \/ Forget(p) \/ StartLayer(p)
              \/ IndexLayer(p) \/ Finish(p) \/ HearRescan(p) \/ Rediscover(p) \/ TakeDue(p)
              \/ Joined(p) \/ \E s \in Scopes : HearScope(p, s)
       PROVE  ClaimsAreKept'
  <2>1. Alone(p) /\ worker'[p].at # "extract"
    <3>1. CASE Discover(p) \/ Register(p) \/ StartLayer(p) \/ IndexLayer(p)
      BY <3>1, DiscoverIs, RegisterIs, StartLayerIs, IndexLayerIs DEF Taken
    <3>2. CASE PickDue(p)
      BY <3>2, PickDueIs DEF Taken, Rested
    <3>3. CASE Forget(p) \/ Finish(p)
      <4>1. Alone(p) /\ \E todo, burst : Rested(worker[p], worker'[p], todo, burst)
        <5>1. CASE Forget(p)
          BY <5>1, ForgetIs, Zenon
        <5>2. CASE Finish(p)
          BY <5>2, FinishIs, Zenon
        <5> QED
          BY <3>3, <5>1, <5>2
      <4> QED
        BY <4>1 DEF Rested
    <3>4. CASE HearRescan(p) \/ Rediscover(p) \/ TakeDue(p) \/ \E s \in Scopes : HearScope(p, s)
      BY <3>4, HearRescanIs, RediscoverIs, TakeDueIs, HearScopeIs
    <3>5. CASE Joined(p)
      BY <3>5, GoneIs DEF Blank
    <3> QED
      BY <1>15, <3>1, <3>2, <3>3, <3>4, <3>5
  <2>2. worker[p].at # "extract"
    <3>1. CASE Joined(p)
      BY <3>1 DEF Joined
    <3>2. CASE ~Joined(p)
      <4>1. worker[p].at \in {"start", "pick", "forget", "reindex", "layer", "done", "idle"}
        BY <1>15, <3>2, Zenon DEF Discover, Register, PickDue, Forget, StartLayer, IndexLayer,
           Finish, HearRescan, Rediscover, TakeDue, HearScope
      <4> QED
        BY <4>1
    <3> QED
      BY <3>1, <3>2
  <2>3. UNCHANGED <<head, base, lock, cli>>
    BY <1>15, Zenon DEF Discover, Register, PickDue, Forget, StartLayer, IndexLayer, Finish,
       HearRescan, Rediscover, TakeDue, Joined, HearScope, disk, index
  <2> QED
    BY <2>1, <2>2, <2>3, ClaimsStay DEF Alone
<1> QED
  BY <1>3, <1>4, <1>5, <1>6, <1>7, <1>8, <1>9, <1>10, <1>11, <1>12, <1>13, <1>14, <1>15, <1>16
     DEF Next, WorkerStep


-----------------------------------------------------------------------------
(* What the leader goes by.                                                 *)

(* What LeaderKnows says of a leader p.                                     *)
Knows(p) ==
  /\ worker[p].at \in Working => worker[p].seq <= rows[worker[p].scope].observed
  /\ KnowsBase(worker[p]) /\ KnowsLayer(worker[p]) /\ KnowsView(worker[p])

SettledRow(r) == r.there /\ r.indexed >= r.observed /\ ~r.catchup /\ ~r.error

(* A scope is settled when its row is.                                      *)
LEMMA SettledIs == \A s : Settled(s) <=> SettledRow(rows[s])
  BY DEF Settled, SettledRow

InOrder(r) == r.indexed <= r.observed

(* A row that is bumped, distrusted or dropped is not settled, and keeps    *)
(* its counts in order.                                                     *)
LEMMA RowIs ==
  ASSUME NEW r \in Row
  PROVE  /\ InOrder(r) => ~SettledRow(Bumped(r)) /\ InOrder(Bumped(r))
         /\ Bumped(r).observed >= r.observed /\ Bumped(r).there = r.there
         /\ ~SettledRow([r EXCEPT !.there = TRUE, !.catchup = TRUE])
         /\ [r EXCEPT !.there = TRUE, !.catchup = TRUE].observed = r.observed
         /\ InOrder(r) => InOrder([r EXCEPT !.there = TRUE, !.catchup = TRUE])
         /\ ~SettledRow([r EXCEPT !.catchup = TRUE])
         /\ InOrder(r) => InOrder([r EXCEPT !.catchup = TRUE])
         /\ ~SettledRow([r EXCEPT !.error = TRUE, !.catchup = TRUE])
         /\ InOrder(r) => InOrder([r EXCEPT !.error = TRUE, !.catchup = TRUE])
         /\ ~SettledRow(NoRow) /\ InOrder(NoRow)
<1>1. r.observed \in Nat /\ r.indexed \in Nat
  BY DEF Row
<1>2. /\ InOrder(r) => ~SettledRow(Bumped(r)) /\ InOrder(Bumped(r))
      /\ Bumped(r).observed >= r.observed /\ Bumped(r).there = r.there
  <2>1. CASE r.there
    <3>1. Bumped(r).observed = r.observed + 1 /\ Bumped(r).indexed = r.indexed /\ Bumped(r).there = r.there
      BY <2>1 DEF Bumped, Row
    <3> QED
      BY <1>1, <3>1 DEF SettledRow, InOrder
  <2>2. CASE ~r.there
    BY <1>1, <2>2 DEF Bumped, SettledRow, InOrder
  <2> QED
    BY <2>1, <2>2
<1>3. /\ ~SettledRow([r EXCEPT !.there = TRUE, !.catchup = TRUE])
      /\ [r EXCEPT !.there = TRUE, !.catchup = TRUE].observed = r.observed
      /\ InOrder(r) => InOrder([r EXCEPT !.there = TRUE, !.catchup = TRUE])
      /\ ~SettledRow([r EXCEPT !.catchup = TRUE])
      /\ InOrder(r) => InOrder([r EXCEPT !.catchup = TRUE])
      /\ ~SettledRow([r EXCEPT !.error = TRUE, !.catchup = TRUE])
      /\ InOrder(r) => InOrder([r EXCEPT !.error = TRUE, !.catchup = TRUE])
  BY DEF Row, SettledRow, InOrder
<1>4. ~SettledRow(NoRow) /\ InOrder(NoRow)
  BY DEF SettledRow, NoRow, InOrder
<1> QED
  BY <1>2, <1>3, <1>4

(* One that is finished with the count that was read, or with none, keeps   *)
(* its counts in order.                                                     *)
LEMMA FinishedIs ==
  ASSUME NEW r \in Row, NEW seq \in Nat \cup {Absent}, NEW clear \in BOOLEAN,
         InOrder(r), seq <= r.observed
  PROVE  InOrder(Finished(r, seq, clear))
<1>1. r.observed \in Nat /\ r.indexed \in Nat
  BY DEF Row
<1>2. /\ Finished(r, seq, clear).indexed = Larger(r.indexed, seq)
      /\ Finished(r, seq, clear).observed = r.observed
  BY DEF Finished, Row
<1> QED
  BY <1>1, <1>2 DEF InOrder, Larger, Absent


(* An event on its way to p stays on its way, or is replaced by one that    *)
(* stands for all.                                                          *)
StillTold(p) == \A s \in Scopes : Told(worker[p], s) => Told(worker'[p], s)

(* While the thread waits and no row becomes settled, what it knows of the  *)
(* base stands, if the base worktree stays and nobody but the holder of the *)
(* index lock writes the base index, or if it hears of the move;            *)
LEMMA BaseStands ==
  ASSUME NEW p \in Servers, TypeOK, WorkersOrderly, ClaimsAreKept, KnowsBase(worker[p]),
         Waits(worker[p], worker'[p]), Told(worker[p], Base) => Told(worker'[p], Base),
         Settled(Base)' => Settled(Base), "torn" \in slips => "torn" \in slips',
         \/ UNCHANGED <<head, base>>
         \/ UNCHANGED head /\ ~UpToDate /\ lock = NoOne
         \/ UNCHANGED head /\ ExtractRows /\ lock # p
         \/ Base \in worker[p].watched \ worker[p].deaf => Told(worker'[p], Base)
  PROVE  KnowsBase(worker[p])'
<1> DEFINE w == worker[p]
           n == worker'[p]
<1>1. /\ n.at = w.at /\ n.scope = w.scope /\ n.watched = w.watched /\ n.burst = w.burst
      /\ n.deaf = w.deaf /\ n.unsure = w.unsure /\ Doubted(n) = Doubted(w)
      /\ Base \in Doubted(w) <=> Base \in w.deaf \/ Base \in w.unsure
  BY DEF Waits, Doubted
<1>2. /\ w.at = "extract" <=> lock = p
      /\ NoOne # p
  BY GraphWatchAssumption DEF ClaimsAreKept, GraphWatchAssumption
<1>3. w.at \in {"extract", "done"} /\ w.scope = Base => Base \in w.watched \cup w.deaf
  BY DEF WorkersOrderly, Orderly, Working, Handled
<1>4. w.at = "extract" => w.scope = Base
  BY DEF WorkersOrderly, Orderly
<1>5. /\ Base \notin w.watched \cup Doubted(w) => ~Settled(Base)
      /\ Base \in w.burst /\ Base \notin w.unsure => ~Settled(Base)
      /\ "torn" \notin slips /\ Base \notin w.deaf =>
            /\ Settled(Base) /\ Base \notin w.unsure => BaseHolds \/ Told(w, Base)
            /\ w.at = "done" /\ w.scope = Base => BaseHolds \/ Told(w, Base)
            /\ w.at = "extract" => base.commit = head \/ Told(w, Base)
  BY DEF KnowsBase
<1> DEFINE Goal == /\ Base \notin n.watched \cup Doubted(n) => ~Settled(Base)'
                   /\ Base \in n.burst /\ Base \notin n.unsure => ~Settled(Base)'
                   /\ "torn" \notin slips' /\ Base \notin n.deaf =>
                        /\ Settled(Base)' /\ Base \notin n.unsure => BaseHolds' \/ Told(n, Base)
                        /\ n.at = "done" /\ n.scope = Base => BaseHolds' \/ Told(n, Base)
                        /\ n.at = "extract" => base'.commit = head' \/ Told(n, Base)
<1>6. Goal
  <2> HIDE DEF Settled, Told
  <2>1. CASE UNCHANGED <<head, base>>
    <3>1. BaseHolds' <=> BaseHolds
      BY <2>1 DEF BaseHolds
    <3> QED
      BY <1>1, <1>5, <2>1, <3>1
  <2>2. CASE UNCHANGED head /\ ~UpToDate /\ lock = NoOne
    <3>1. ~BaseHolds
      BY <2>2 DEF BaseHolds, UpToDate
    <3> QED
      BY <1>1, <1>2, <1>5, <2>2, <3>1
  <2>3. CASE UNCHANGED head /\ ExtractRows /\ lock # p
    <3>1. BaseHolds => BaseHolds'
      BY <2>3 DEF BaseHolds, ExtractRows
    <3> QED
      BY <1>1, <1>2, <1>5, <2>3, <3>1
  <2>4. CASE Base \in w.watched \ w.deaf => Told(n, Base)
    BY <1>1, <1>3, <1>4, <1>5, <2>4
  <2> QED
    BY <2>1, <2>2, <2>3, <2>4
<1> QED
  BY <1>6 DEF KnowsBase

(* of the layer, if the feature's worktree and the layer stay, the layer is *)
(* indexed anew, or it hears of the edit;                                   *)
LEMMA LayerStands ==
  ASSUME NEW p \in Servers, WorkersOrderly, KnowsLayer(worker[p]),
         Waits(worker[p], worker'[p]), Told(worker[p], Layer) => Told(worker'[p], Layer),
         Settled(Layer)' => Settled(Layer),
         \/ UNCHANGED <<wt, layer>>
         \/ LayerHolds'
         \/ Layer \in worker[p].watched \ worker[p].deaf => Told(worker'[p], Layer)
  PROVE  KnowsLayer(worker[p])'
<1> DEFINE w == worker[p]
           n == worker'[p]
<1>1. /\ n.at = w.at /\ n.scope = w.scope /\ n.watched = w.watched /\ n.targets = w.targets
      /\ n.deaf = w.deaf /\ Doubted(n) = Doubted(w) /\ w.deaf \subseteq Doubted(w)
  BY DEF Waits, Doubted
<1>2. w.at = "done" /\ w.scope = Layer => Layer \in w.watched \cup w.deaf
  BY DEF WorkersOrderly, Orderly, Working, Handled
<1>3. /\ (/\ Layer \notin w.watched \cup Doubted(w)
          /\ w.at = "forget" => Layer \in w.targets) => ~Settled(Layer)
      /\ Settled(Layer) /\ Layer \in w.watched \ Doubted(w) => LayerHolds \/ Told(w, Layer)
      /\ w.at = "done" /\ w.scope = Layer /\ Layer \notin w.deaf => LayerHolds \/ Told(w, Layer)
  BY DEF KnowsLayer
<1>4. UNCHANGED <<wt, layer>> => (LayerHolds' <=> LayerHolds)
  BY DEF LayerHolds, Delta
<1> DEFINE Goal ==
      /\ (/\ Layer \notin n.watched \cup Doubted(n)
          /\ n.at = "forget" => Layer \in n.targets) => ~Settled(Layer)'
      /\ Settled(Layer)' /\ Layer \in n.watched \ Doubted(n) => LayerHolds' \/ Told(n, Layer)
      /\ n.at = "done" /\ n.scope = Layer /\ Layer \notin n.deaf => LayerHolds' \/ Told(n, Layer)
<1>5. Goal
  <2> HIDE DEF Settled, Told, LayerHolds
  <2> QED
    BY <1>1, <1>2, <1>3, <1>4
<1> QED
  BY <1>5 DEF KnowsLayer

(* of the view, if the base's commit stays and a layer that is indexed anew *)
(* is compared with it, or somebody leaves the protocol.                    *)
LEMMA ViewStands ==
  ASSUME NEW p \in Servers, KnowsView(worker[p]),
         Waits(worker[p], worker'[p]), Settled(Layer)' => Settled(Layer),
         slips' = {} =>
           /\ slips = {}
           /\ base'.commit = base.commit
           /\ layer' = layer \/ layer'.base = BaseCommit
  PROVE  KnowsView(worker[p])'
<1> DEFINE w == worker[p]
           n == worker'[p]
<1>1. /\ n.at = w.at /\ n.scope = w.scope /\ n.watched = w.watched /\ n.before = w.before
      /\ Doubted(n) = Doubted(w)
  BY DEF Waits, Doubted
<1>2. base'.commit = base.commit => BaseCommit' = BaseCommit
  BY DEF BaseCommit
<1>3. slips = {} =>
        /\ w.at = "reindex" /\ w.scope = Base => w.before = base.commit
        /\ w.at = "done" /\ w.scope = Layer => layer.base = BaseCommit
        /\ Settled(Layer) /\ Layer \in w.watched \ Doubted(w) =>
              \/ layer.base = BaseCommit
              \/ /\ w.at \in {"extract", "done"} /\ w.scope = Base
                 /\ w.before # base.commit
  BY DEF KnowsView
<1> DEFINE Goal == slips' = {} =>
        /\ n.at = "reindex" /\ n.scope = Base => n.before = base'.commit
        /\ n.at = "done" /\ n.scope = Layer => layer'.base = BaseCommit'
        /\ Settled(Layer)' /\ Layer \in n.watched \ Doubted(n) =>
              \/ layer'.base = BaseCommit'
              \/ /\ n.at \in {"extract", "done"} /\ n.scope = Base
                 /\ n.before # base'.commit
<1>4. Goal
  <2> HIDE DEF Settled, BaseCommit
  <2> QED
    BY <1>1, <1>2, <1>3
<1> QED
  BY <1>4 DEF KnowsView


(* Together: a step that leaves the leader's thread and the rows alone.     *)
LEMMA LeaderStands ==
  ASSUME NEW p \in Servers, TypeOK, WorkersOrderly, ClaimsAreKept, Knows(p),
         Waits(worker[p], worker'[p]), StillTold(p), rows' = rows, slips \subseteq slips',
         \/ UNCHANGED <<head, base>>
         \/ UNCHANGED head /\ ~UpToDate /\ lock = NoOne
         \/ UNCHANGED head /\ ExtractRows /\ lock # p
         \/ Base \in worker[p].watched \ worker[p].deaf => Told(worker'[p], Base),
         \/ UNCHANGED <<wt, layer>>
         \/ LayerHolds'
         \/ Layer \in worker[p].watched \ worker[p].deaf => Told(worker'[p], Layer),
         slips' = {} =>
           /\ base'.commit = base.commit
           /\ layer' = layer \/ layer'.base = BaseCommit
  PROVE  Knows(p)'
<1>1. \A s : Settled(s)' <=> Settled(s)
  BY DEF Settled
<1>2. KnowsBase(worker[p]) /\ KnowsLayer(worker[p]) /\ KnowsView(worker[p])
  BY DEF Knows
<1>3. /\ Told(worker[p], Base) => Told(worker'[p], Base)
      /\ Told(worker[p], Layer) => Told(worker'[p], Layer)
  BY TwoScopes DEF StillTold
<1>4. KnowsBase(worker[p])'
  BY <1>1, <1>2, <1>3, BaseStands
<1>5. KnowsLayer(worker[p])'
  BY <1>1, <1>2, <1>3, LayerStands
<1>6. slips' = {} => slips = {}
  OBVIOUS
<1>7. KnowsView(worker[p])'
  BY <1>1, <1>2, <1>6, ViewStands
<1>8. worker'[p].at \in Working => worker'[p].seq <= rows'[worker'[p].scope].observed
  BY DEF Knows, Waits
<1> QED
  BY <1>4, <1>5, <1>7, <1>8 DEF Knows

(* The extraction leaves the commit that is claimed.                        *)
LEMMA ExtractKeepsCommit ==
  ASSUME TypeOK, ExtractRows
  PROVE  base'.commit = base.commit
  BY DEF TypeOK, ExtractRows

(* A layer that is indexed holds its difference.                            *)
LEMMA IndexedHolds ==
  ASSUME TypeOK, NEW c \in Commits, layer' = [base |-> c, row |-> Delta(c)], wt' = wt
  PROVE  LayerHolds' /\ layer'.base = c
<1>1. c # Absent
  BY DiskType
<1> QED
  BY <1>1 DEF LayerHolds, Delta

(* The files move, and whoever watches them is told.                        *)
LEMMA FilesStand ==
  ASSUME NEW p \in Servers, TypeOK, WorkersOrderly, ClaimsAreKept, Knows(p), Alive(p),
         BaseMoves \/ Edit \/ SessionComesOrGoes
  PROVE  Knows(p)'
<1>1. CASE BaseMoves
  <2> DEFINE H == Hearers(Base)
  <2>1. /\ Waits(worker[p], worker'[p])
        /\ worker'[p].chan = IF p \in H THEN worker[p].chan \cup {Base} ELSE worker[p].chan
    <3>1. Queue(Base, H) /\ Base \in Scopes \cup {"control", "rescan"}
      BY <1>1, TwoScopes DEF BaseMoves
    <3> HIDE DEF H
    <3> QED
      BY <3>1, QueueIs
  <2>2. StillTold(p) /\ (Base \in worker[p].watched \ worker[p].deaf => Told(worker'[p], Base))
    BY <2>1 DEF StillTold, Told, Hearers
  <2> QED
    BY <1>1, <2>1, <2>2, LeaderStands DEF BaseMoves, index
<1>2. CASE Edit
  <2> DEFINE H == Hearers(Layer)
  <2>1. /\ Waits(worker[p], worker'[p])
        /\ worker'[p].chan = IF p \in H THEN worker[p].chan \cup {Layer} ELSE worker[p].chan
    <3>1. Queue(Layer, H) /\ Layer \in Scopes \cup {"control", "rescan"}
      BY <1>2, TwoScopes DEF Edit
    <3> HIDE DEF H
    <3> QED
      BY <3>1, QueueIs
  <2>2. StillTold(p) /\ (Layer \in worker[p].watched \ worker[p].deaf => Told(worker'[p], Layer))
    BY <2>1 DEF StillTold, Told, Hearers
  <2> QED
    BY <1>2, <2>1, <2>2, LeaderStands DEF Edit, index
<1>3. CASE SessionComesOrGoes
  <2> DEFINE H == {q \in Servers : /\ Alive(q) /\ worker[q].at # "start"
                                   /\ "control" \notin worker[q].deaf}
  <2>1. /\ Waits(worker[p], worker'[p])
        /\ worker'[p].chan = IF p \in H THEN worker[p].chan \cup {"control"} ELSE worker[p].chan
    <3>1. Queue("control", H) /\ "control" \in Scopes \cup {"control", "rescan"}
      BY <1>3 DEF SessionComesOrGoes
    <3> HIDE DEF H
    <3> QED
      BY <3>1, QueueIs
  <2>2. StillTold(p)
    BY <2>1 DEF StillTold, Told
  <2> QED
    BY <1>3, <2>1, <2>2, LeaderStands DEF SessionComesOrGoes, index
<1> QED
  BY <1>1, <1>2, <1>3

(* Cli, the tool calls and the threads of other servers do what they do.    *)
LEMMA OthersStand ==
  ASSUME NEW p \in Servers, TypeOK, WorkersOrderly, LeaseHeld, ClaimsAreKept, Knows(p),
         lease = p, Alive(p), lease' = p, "late" \notin slips', NEW q \in Servers,
         \/ CliClaims \/ CliExtracts \/ CliKilled \/ CallStep(q) \/ EventsLost(q)
         \/ MarkFails(q) \/ UNCHANGED vars
         \/ q # p /\ (OwnStep(q) \/ Joined(q) \/ Exit(q) \/ Kill(q) \/ Panic(q))
  PROVE  Knows(p)' /\ rows' = rows
<1> Cli \notin Servers /\ NoOne \notin Servers
  BY GraphWatchAssumption DEF GraphWatchAssumption
<1>1. ASSUME worker'[p] = worker[p]
      PROVE  Waits(worker[p], worker'[p]) /\ StillTold(p)
  BY <1>1 DEF Waits, StillTold
<1>2. ASSUME q # p, Alone(q)
      PROVE  worker'[p] = worker[p]
  BY <1>2 DEF Alone
<1>3. CASE UNCHANGED vars
  BY <1>1, <1>3, LeaderStands DEF vars
<1>4. CASE CliClaims
  BY <1>1, <1>4, LeaderStands DEF CliClaims, disk
<1>5. CASE CliExtracts
  <2>1. lock = Cli
    BY <1>5 DEF CliExtracts, ClaimsAreKept
  <2> QED
    BY <1>1, <1>5, <2>1, LeaderStands, ExtractKeepsCommit DEF CliExtracts, disk
<1>6. CASE CliKilled
  BY <1>1, <1>6, LeaderStands DEF CliKilled, disk, index
<1>7. CASE CallStep(q)
  <2>1. CASE TakeLease(q)
    BY <2>1 DEF TakeLease
  <2>2. CASE Mark(q)
    BY <2>2 DEF Mark, LeaseHeld, Alive
  <2>3. CASE CallWithoutWorker(q)
    BY <2>3 DEF CallWithoutWorker
  <2>4. CASE StartServer(q) \/ GiveUp(q)
    BY <1>1, <2>4, LeaderStands DEF StartServer, GiveUp, StartRefresh, disk, index
  <2>5. CASE Refresh(q)
    <3>1. asked[q] \in Commits /\ wt' = wt
      BY <2>5 DEF Refresh, TypeOK, disk
    <3>2. LayerHolds' /\ layer'.base = asked[q]
      BY <2>5, <3>1, IndexedHolds DEF Refresh
    <3>3. slips' = {} => asked[q] = BaseCommit
      BY <2>5 DEF Refresh
    <3> QED
      BY <1>1, <2>5, <3>2, <3>3, LeaderStands DEF Refresh, disk
  <2> QED
    BY <1>7, <2>1, <2>2, <2>3, <2>4, <2>5 DEF CallStep
<1>8. CASE EventsLost(q)
  <2>1. Waits(worker[p], worker'[p]) /\ StillTold(p)
    <3>1. CASE q = p
      BY <1>8, <3>1, EventsLostIs DEF StillTold, Told
    <3>2. CASE q # p
      BY <1>1, <1>2, <1>8, <3>2, EventsLostIs
    <3> QED
      BY <3>1, <3>2
  <2> QED
    BY <1>8, <2>1, LeaderStands DEF EventsLost, disk, index
<1>9. CASE q # p /\ (Exit(q) \/ Kill(q) \/ Panic(q))
  <2>1. worker'[p] = worker[p]
    BY <1>2, <1>9, ExitIs, GoneIs, PanicIs
  <2> QED
    BY <1>1, <1>9, <2>1, LeaderStands DEF Exit, Kill, Panic, Torn, disk, index
<1>10. CASE q # p /\ Fail(q)
  <2>1. slips' = slips \cup (IF worker[q].at = "extract" THEN {"torn"} ELSE {})
                      \cup (IF lease = q THEN {} ELSE {"late"})
    BY <1>10, Zenon DEF Fail
  <2> QED
    BY <1>10, <2>1
<1>12. CASE MarkFails(q)
  BY <1>12 DEF MarkFails
<1>13. CASE q # p /\ (Refused(q) \/ ForgetFails(q))
  <2>1. Alone(q)
    <3>1. CASE Refused(q)
      BY <3>1, RefusedIs, Zenon
    <3>2. CASE ForgetFails(q)
      BY <3>2, ForgetIs, Zenon
    <3> QED
      BY <1>13, <3>1, <3>2
  <2>2. UNCHANGED <<disk, index, rows, slips>>
    BY <1>13, Zenon DEF Refused, ForgetFails
  <2>3. worker'[p] = worker[p]
    BY <1>2, <1>13, <2>1
  <2> QED
    BY <1>1, <2>2, <2>3, LeaderStands DEF disk, index
<1>11. CASE q # p /\ WorkerStep(q)
  <2>1. worker'[p] = worker[p]
    BY <1>2, <1>11, GoneIs, WorkerOrderly, WorkerOrderlyToo DEF WorkerStep
  <2>2. CASE Register(q) \/ Forget(q) \/ Finish(q) \/ HearRescan(q)
    <3>1. Writes(q)
      BY <2>2, Zenon DEF Register, Forget, Finish, HearRescan
    <3> QED
      BY <1>11, <3>1 DEF Writes
  <2>3. CASE Discover(q) \/ PickDue(q) \/ StartLayer(q) \/ Rediscover(q) \/ TakeDue(q) \/ Joined(q)
    <3>1. UNCHANGED <<disk, index, rows, slips>>
      BY <2>3, Zenon DEF Discover, PickDue, StartLayer, Rediscover, TakeDue, Joined
    <3> QED
      BY <1>1, <2>1, <3>1, LeaderStands DEF disk, index
  <2>4. CASE StartIndex(q)
    <3>1. CASE UpToDate
      BY <1>1, <2>1, <2>4, <3>1, LeaderStands DEF StartIndex, disk
    <3>2. CASE ~UpToDate
      <4>1. /\ UNCHANGED <<head, wt, layer, rows>> /\ lock = NoOne
            /\ slips' = slips \cup {"aside"}
        BY <1>11, <2>4, <3>2 DEF StartIndex, disk
      <4> QED
        BY <1>1, <2>1, <3>2, <4>1, LeaderStands
    <3> QED
      BY <3>1, <3>2
  <2>5. CASE Extract(q)
    <3>1. lock # p
      BY <1>11, <2>5 DEF Extract, ClaimsAreKept
    <3> QED
      BY <1>1, <2>1, <2>5, <3>1, LeaderStands, ExtractKeepsCommit DEF Extract, disk
  <2>6. CASE IndexLayer(q)
    <3>1. worker[q].before \in Commits /\ wt' = wt
      BY <2>6 DEF IndexLayer, WorkersOrderly, Orderly, disk
    <3>2. LayerHolds' /\ layer'.base = worker[q].before
      BY <2>6, <3>1, IndexedHolds DEF IndexLayer
    <3>3. slips' = {} => worker[q].before = BaseCommit
      BY <2>6 DEF IndexLayer
    <3> QED
      BY <1>1, <2>1, <2>6, <3>2, <3>3, LeaderStands DEF IndexLayer, disk
  <2>7. ASSUME NEW s \in Scopes, HearScope(q, s)
        PROVE  Knows(p)' /\ rows' = rows
    <3>1. Writes(q) \/ (rows' = rows /\ slips' = slips)
      BY <2>7, Zenon DEF HearScope
    <3>2. rows' = rows /\ slips' = slips
      BY <1>11, <3>1 DEF Writes
    <3>3. UNCHANGED <<disk, index>>
      BY <2>7, Zenon DEF HearScope
    <3> QED
      BY <1>1, <2>1, <3>2, <3>3, LeaderStands DEF disk, index
  <2> QED
    BY <1>11, <2>2, <2>3, <2>4, <2>5, <2>6, <2>7 DEF WorkerStep
<1>14. CASE q # p /\ Joined(q)
  BY <1>11, <1>14 DEF WorkerStep
<1> QED
  BY <1>3, <1>4, <1>5, <1>6, <1>7, <1>8, <1>9, <1>10, <1>11, <1>12, <1>13, <1>14, Zenon
     DEF OwnStep


-----------------------------------------------------------------------------
(* What the leader knows after a step of its own thread.                    *)

(* Nothing becomes settled, no index is written, no event is taken out of   *)
(* the channel while the scope it is for stays settled;                     *)
LEMMA StillKnows ==
  ASSUME NEW p \in Servers, Knows(p), UNCHANGED <<head, wt, base, layer>>,
         slips \subseteq slips',
         worker[p].at \in {"extract", "done"} => "torn" \in slips',
         worker'[p].at \notin {"extract", "done"},
         worker'[p].at = "reindex" /\ worker'[p].scope = Base => worker'[p].before = base.commit,
         worker'[p].at \in Working => worker'[p].seq <= rows'[worker'[p].scope].observed,
         Settled(Base)' /\ Base \notin Doubted(worker'[p]) =>
           /\ Settled(Base) /\ Base \notin Doubted(worker[p])
           /\ Told(worker[p], Base) => Told(worker'[p], Base),
         Settled(Layer)' /\ Layer \in worker'[p].watched \ Doubted(worker'[p]) =>
           /\ Settled(Layer) /\ Layer \in worker[p].watched \ Doubted(worker[p])
           /\ Told(worker[p], Layer) => Told(worker'[p], Layer),
         Base \notin worker'[p].watched \cup Doubted(worker'[p]) => ~Settled(Base)',
         Base \in worker'[p].burst /\ Base \notin worker'[p].unsure => ~Settled(Base)',
         (/\ Layer \notin worker'[p].watched \cup Doubted(worker'[p])
          /\ worker'[p].at = "forget" => Layer \in worker'[p].targets) => ~Settled(Layer)'
  PROVE  Knows(p)'
<1> DEFINE w == worker[p]
           n == worker'[p]
<1>1. /\ BaseHolds' <=> BaseHolds
      /\ LayerHolds' <=> LayerHolds
      /\ BaseCommit' = BaseCommit
  BY DEF BaseHolds, LayerHolds, Delta, BaseCommit
<1>2. /\ "torn" \notin slips /\ Settled(Base) /\ Base \notin Doubted(w) => BaseHolds \/ Told(w, Base)
      /\ Settled(Layer) /\ Layer \in w.watched \ Doubted(w) => LayerHolds \/ Told(w, Layer)
      /\ slips = {} /\ Settled(Layer) /\ Layer \in w.watched \ Doubted(w) =>
              layer.base = BaseCommit \/ w.at \in {"extract", "done"}
  <2>1. KnowsBase(w) /\ KnowsLayer(w) /\ KnowsView(w)
    BY DEF Knows
  <2>2. Base \notin Doubted(w) => Base \notin w.deaf /\ Base \notin w.unsure
    BY DEF Doubted
  <2> HIDE DEF w, Settled, Told
  <2> QED
    BY <2>1, <2>2 DEF KnowsBase, KnowsLayer, KnowsView
<1>6. Base \notin n.deaf /\ Base \notin n.unsure => Base \notin Doubted(n)
  BY DEF Doubted
<1> DEFINE B == /\ Base \notin n.watched \cup Doubted(n) => ~Settled(Base)'
                /\ Base \in n.burst /\ Base \notin n.unsure => ~Settled(Base)'
                /\ "torn" \notin slips' /\ Base \notin n.deaf =>
                      /\ Settled(Base)' /\ Base \notin n.unsure => BaseHolds' \/ Told(n, Base)
                      /\ n.at = "done" /\ n.scope = Base => BaseHolds' \/ Told(n, Base)
                      /\ n.at = "extract" => base'.commit = head' \/ Told(n, Base)
           L == /\ (/\ Layer \notin n.watched \cup Doubted(n)
                    /\ n.at = "forget" => Layer \in n.targets) => ~Settled(Layer)'
                /\ Settled(Layer)' /\ Layer \in n.watched \ Doubted(n) => LayerHolds' \/ Told(n, Layer)
                /\ n.at = "done" /\ n.scope = Layer /\ Layer \notin n.deaf => LayerHolds' \/ Told(n, Layer)
           V == slips' = {} =>
                  /\ n.at = "reindex" /\ n.scope = Base => n.before = base'.commit
                  /\ n.at = "done" /\ n.scope = Layer => layer'.base = BaseCommit'
                  /\ Settled(Layer)' /\ Layer \in n.watched \ Doubted(n) =>
                        \/ layer'.base = BaseCommit'
                        \/ /\ n.at \in {"extract", "done"} /\ n.scope = Base
                           /\ n.before # base'.commit
<1>3. B
  BY <1>1, <1>2, <1>6
<1>4. L
  BY <1>1, <1>2
<1>5. V
  <2>1. slips' = {} => slips = {} /\ "torn" \notin slips'
    OBVIOUS
  <2> QED
    BY <1>1, <1>2, <2>1
<1> QED
  BY <1>3, <1>4, <1>5 DEF Knows, KnowsBase, KnowsLayer, KnowsView

(* or it is between two scopes, and what is settled is what the disk holds. *)
LEMMA RestsKnowing ==
  ASSUME NEW p \in Servers, worker'[p].at \notin Working,
         Base \notin worker'[p].watched \cup Doubted(worker'[p]) => ~Settled(Base)',
         Base \in worker'[p].burst /\ Base \notin worker'[p].unsure => ~Settled(Base)',
         "torn" \notin slips' /\ Settled(Base)' /\ Base \notin Doubted(worker'[p])
            => BaseHolds' \/ Told(worker'[p], Base),
         Layer \notin worker'[p].watched \cup Doubted(worker'[p]) => ~Settled(Layer)',
         Settled(Layer)' /\ Layer \in worker'[p].watched \ Doubted(worker'[p])
            => LayerHolds' \/ Told(worker'[p], Layer),
         slips' = {} /\ Settled(Layer)' /\ Layer \in worker'[p].watched \ Doubted(worker'[p])
            => layer'.base = BaseCommit'
  PROVE  Knows(p)'
<1> DEFINE n == worker'[p]
<1>1. Base \notin n.deaf /\ Base \notin n.unsure => Base \notin Doubted(n)
  BY DEF Doubted
<1> QED
  BY <1>1 DEF Knows, KnowsBase, KnowsLayer, KnowsView, Working

(* The rows of the scopes, in order.                                        *)
LEMMA RowsInOrder ==
  ASSUME TypeOK
  PROVE  /\ \A s \in Scopes : rows[s] \in Row
         /\ CountsInOrder <=> \A s \in Scopes : InOrder(rows[s])
  BY DEF TypeOK, CountsInOrder, InOrder


(* It discovers its targets, takes a due scope or a batch, or starts on the *)
(* layer: the rows stay.                                                    *)
LEMMA LeaderPlans ==
  ASSUME NEW p \in Servers, TypeOK, WorkersOrderly, Knows(p),
         \/ Discover(p) \/ PickDue(p) \/ Refused(p) \/ StartLayer(p) \/ Rediscover(p)
         \/ TakeDue(p) \/ ForgetFails(p)
  PROVE  Knows(p)' /\ rows' = rows
<1> DEFINE w == worker[p]
           n == worker'[p]
<1>1. w \in Worker /\ Orderly(w)
  BY DEF TypeOK, WorkersOrderly
<1>2. /\ rows' = rows /\ UNCHANGED <<head, wt, base, layer, slips>>
      /\ Settled(Base)' <=> Settled(Base)
      /\ Settled(Layer)' <=> Settled(Layer)
  <2>1. UNCHANGED <<rows, disk, index, slips>>
    BY Zenon DEF Discover, PickDue, Refused, StartLayer, Rediscover, TakeDue, ForgetFails
  <2> QED
    BY <2>1 DEF disk, index, Settled
<1>3. /\ w.at \in Working => w.seq <= rows[w.scope].observed
      /\ Base \notin w.watched \cup Doubted(w) => ~Settled(Base)
      /\ Base \in w.burst /\ Base \notin w.unsure => ~Settled(Base)
      /\ (/\ Layer \notin w.watched \cup Doubted(w)
          /\ w.at = "forget" => Layer \in w.targets) => ~Settled(Layer)
  BY DEF Knows, KnowsBase, KnowsLayer
<1>4. CASE Discover(p)
  <2>1. /\ w.at = "start" /\ n.at = "pick" /\ n.watched = w.watched /\ n.burst = w.burst
        /\ n.chan = w.chan /\ n.unsure = w.unsure /\ n.deaf \in {{}, {"control"}}
    BY <1>4, DiscoverIs
  <2>2. n.at \notin Working /\ (\A s : Told(n, s) <=> Told(w, s))
    BY <2>1 DEF Working, Told
  <2>3. \A s \in Scopes : s \in Doubted(n) <=> s \in Doubted(w)
    BY <1>1, <2>1, TwoScopes DEF Orderly, Handled, Doubted, Base, Layer
  <2> HIDE DEF w, n
  <2> QED
    BY <1>2, <1>3, <2>1, <2>2, <2>3, TwoScopes, StillKnows DEF w, n
<1>5. CASE PickDue(p)
  <2> DEFINE Picked == /\ n.scope \in Scopes /\ Taken(w, n, n.scope) /\ n.watched = w.watched
             Passed == /\ n.unsure = w.unsure
                       /\ \E s \in w.todo : Rested(w, n, w.todo \ {s}, w.burst)
  <2>1. w.at = "pick" /\ n.deaf = w.deaf /\ (Picked \/ Passed)
    BY <1>5, PickDueIs
  <2>2. /\ n.watched = w.watched /\ n.burst = w.burst /\ n.chan = w.chan /\ n.unsure = w.unsure
        /\ n.at \notin {"extract", "done"}
        /\ n.at \in Working => /\ n.at = "reindex" /\ n.scope \in Scopes
                               /\ n.seq \in {rows[n.scope].observed, Absent}
                               /\ n.before = base.commit
    <3>1. CASE Picked
      BY <3>1 DEF Taken
    <3>2. CASE Passed
      BY <3>2 DEF Rested, Working
    <3> QED
      BY <2>1, <3>1, <3>2
  <2>4. (\A s : Told(n, s) <=> Told(w, s)) /\ Doubted(n) = Doubted(w)
    BY <2>1, <2>2 DEF Told, Doubted
  <2>5. n.at \in Working => n.seq <= rows[n.scope].observed
    <3>1. n.scope \in Scopes => rows[n.scope].observed \in Nat
      BY DEF TypeOK, Row
    <3> QED
      BY <2>2, <3>1 DEF Absent
  <2>6. Layer \notin n.watched \cup Doubted(n) => ~Settled(Layer)
    BY <1>3, <2>1, <2>2, <2>4
  <2> HIDE DEF w, n, Picked, Passed
  <2> QED
    BY <1>2, <1>3, <2>1, <2>2, <2>4, <2>5, <2>6, StillKnows DEF w, n, Working
<1>9. CASE Refused(p)
  <2> DEFINE s == FirstOf(w.todo)
  <2>1. /\ w.at = "pick" /\ n.at \notin Working /\ n.watched = w.watched /\ n.chan = w.chan
        /\ n.burst = w.burst /\ n.deaf = w.deaf \cup {s} /\ n.unsure = w.unsure
    BY <1>9, RefusedIs DEF Rested, Working
  <2>2. (\A x : Told(n, x) <=> Told(w, x)) /\ Doubted(w) \subseteq Doubted(n)
    BY <2>1 DEF Told, Doubted
  <2> HIDE DEF w, n, s
  <2> QED
    BY <1>2, <1>3, <2>1, <2>2, StillKnows DEF w, n, Working
<1>6. CASE StartLayer(p)
  <2>1. /\ w.at = "reindex" /\ n.at = "layer" /\ n.scope = w.scope /\ n.seq = w.seq /\ Keeps(w, n)
    BY <1>6, StartLayerIs
  <2>2. (\A s : Told(n, s) <=> Told(w, s)) /\ Doubted(n) = Doubted(w)
    BY <2>1 DEF Told, Keeps, Doubted
  <2>3. w.at \in Working /\ n.seq <= rows'[n.scope].observed
    BY <1>2, <1>3, <2>1 DEF Working
  <2> HIDE DEF w, n
  <2> QED
    BY <1>2, <1>3, <2>1, <2>2, <2>3, StillKnows DEF w, n, Keeps
<1>7. CASE Rediscover(p)
  <2>1. /\ w.at = "idle" /\ n.at = "forget" /\ n.targets = Targets /\ n.watched = w.watched \cap Targets
        /\ n.chan = w.chan \ {"control"} /\ n.burst = w.burst
        /\ n.unsure = w.unsure /\ n.deaf \cap Scopes = w.deaf \cap Targets
    BY <1>7, RediscoverIs
  <2>2. \A s \in Scopes : Told(n, s) <=> Told(w, s)
    BY <2>1, TwoScopes DEF Told, Base, Layer
  <2>3. n.at \notin Working /\ Base \in Targets /\ Base \in Scopes /\ Layer \in Scopes
    BY <2>1, TwoScopes DEF Working
  <2>4. \A s \in Targets : s \in Doubted(n) <=> s \in Doubted(w)
    BY <2>1, TwoScopes DEF Doubted
  <2> HIDE DEF w, n
  <2> QED
    BY <1>2, <1>3, <2>1, <2>2, <2>3, <2>4, StillKnows DEF w, n
<1>8. CASE TakeDue(p)
  <2>1. /\ w.at = "idle" /\ n.at = "pick" /\ n.watched = w.watched
        /\ n.chan = w.chan /\ n.burst = w.burst \ n.todo
        /\ n.deaf = w.deaf /\ n.unsure = w.unsure
    BY <1>8, TakeDueIs
  <2>2. /\ n.at \notin Working /\ Doubted(n) = Doubted(w)
        /\ \A s : Told(n, s) <=> Told(w, s)
    BY <2>1 DEF Working, Told, Doubted
  <2> HIDE DEF w, n
  <2> QED
    BY <1>2, <1>3, <2>1, <2>2, StillKnows DEF w, n
<1>10. CASE ForgetFails(p)
  <2>1. /\ w.at = "forget" /\ Rested(w, n, w.todo, w.burst) /\ n.deaf = w.deaf
        /\ n.unsure = w.unsure \cup (IF Forget(p) THEN {} ELSE Scopes \ w.targets)
    BY <1>10, ForgetIs, Zenon
  <2>2. ~Forget(p)
    <3>1. Mishap
      BY <1>10, Zenon DEF ForgetFails
    <3> QED
      BY <3>1 DEF Mishap, Forget, TypeOK
  <2>3. /\ n.at \notin Working /\ n.watched = w.watched /\ n.chan = w.chan /\ n.burst = w.burst
        /\ n.targets = w.targets /\ n.unsure = w.unsure \cup (Scopes \ w.targets)
    BY <2>1, <2>2 DEF Rested, Working
  <2>4. /\ \A s : Told(n, s) <=> Told(w, s)
        /\ Doubted(n) = Doubted(w) \cup (Scopes \ w.targets)
    BY <2>1, <2>3 DEF Told, Doubted
  <2>5. Layer \notin n.watched \cup Doubted(n) => ~Settled(Layer)
    BY <1>3, <2>1, <2>3, <2>4, TwoScopes
  <2> HIDE DEF w, n
  <2> QED
    BY <1>2, <1>3, <2>1, <2>3, <2>4, <2>5, StillKnows DEF w, n, Working
<1> QED
  BY <1>2, <1>4, <1>5, <1>6, <1>7, <1>8, <1>9, <1>10

(* It indexes the base: what the worktree holds is claimed, then held.      *)
LEMMA LeaderIndexes ==
  ASSUME NEW p \in Servers, TypeOK, WorkersOrderly, ClaimsAreKept, Knows(p), lease = p,
         StartIndex(p) \/ Extract(p)
  PROVE  Knows(p)' /\ rows' = rows
<1> DEFINE w == worker[p]
           n == worker'[p]
<1>1. w \in Worker /\ Orderly(w)
  BY DEF TypeOK, WorkersOrderly
<1>2. /\ rows' = rows /\ UNCHANGED <<head, wt, layer, slips>>
      /\ Settled(Base)' <=> Settled(Base)
      /\ Settled(Layer)' <=> Settled(Layer)
  BY DEF StartIndex, Extract, disk, Settled
<1>3. /\ w.at \in {"reindex", "extract"} /\ w.scope = Base
      /\ n.at \in {"extract", "done"} /\ n.scope = Base /\ n.seq = w.seq /\ n.before = w.before
      /\ Keeps(w, n)
  BY <1>1, StartIndexIs, ExtractIs DEF Orderly
<1>4. /\ w.seq <= rows[w.scope].observed
      /\ Base \notin w.watched \cup Doubted(w) => ~Settled(Base)
      /\ Base \in w.burst /\ Base \notin w.unsure => ~Settled(Base)
      /\ "torn" \notin slips /\ Base \notin w.deaf =>
            /\ Settled(Base) /\ Base \notin w.unsure => BaseHolds \/ Told(w, Base)
            /\ w.at = "extract" => base.commit = head \/ Told(w, Base)
      /\ Layer \notin w.watched \cup Doubted(w) => ~Settled(Layer)
      /\ Settled(Layer) /\ Layer \in w.watched \ Doubted(w) => LayerHolds \/ Told(w, Layer)
      /\ slips = {} =>
            /\ w.at = "reindex" => w.before = base.commit
            /\ Settled(Layer) /\ Layer \in w.watched \ Doubted(w) =>
                  layer.base = BaseCommit \/ (w.at = "extract" /\ w.before # base.commit)
  <2>1. w.seq <= rows[w.scope].observed /\ KnowsBase(w) /\ KnowsLayer(w) /\ KnowsView(w)
    BY <1>3 DEF Knows, Working
  <2> HIDE DEF w, Settled, Told
  <2>2. /\ Base \notin w.watched \cup Doubted(w) => ~Settled(Base)
        /\ Base \in w.burst /\ Base \notin w.unsure => ~Settled(Base)
        /\ "torn" \notin slips /\ Base \notin w.deaf =>
              /\ Settled(Base) /\ Base \notin w.unsure => BaseHolds \/ Told(w, Base)
              /\ w.at = "extract" => base.commit = head \/ Told(w, Base)
    BY <2>1 DEF KnowsBase
  <2>3. /\ Layer \notin w.watched \cup Doubted(w) => ~Settled(Layer)
        /\ Settled(Layer) /\ Layer \in w.watched \ Doubted(w) => LayerHolds \/ Told(w, Layer)
    BY <1>3, <2>1 DEF KnowsLayer
  <2>4. slips = {} =>
            /\ w.at = "reindex" => w.before = base.commit
            /\ Settled(Layer) /\ Layer \in w.watched \ Doubted(w) =>
                  layer.base = BaseCommit \/ (w.at = "extract" /\ w.before # base.commit)
    <3>1. slips = {} =>
            /\ w.at = "reindex" /\ w.scope = Base => w.before = base.commit
            /\ Settled(Layer) /\ Layer \in w.watched \ Doubted(w) =>
                  \/ layer.base = BaseCommit
                  \/ w.at \in {"extract", "done"} /\ w.before # base.commit
      BY <2>1 DEF KnowsView
    <3>2. w.at \in {"extract", "done"} <=> w.at = "extract"
      BY <1>3
    <3> QED
      BY <1>3, <3>1, <3>2
  <2> QED
    BY <2>1, <2>2, <2>3, <2>4
<1>5. /\ \A s : Told(n, s) <=> Told(w, s)
      /\ n.watched = w.watched /\ n.burst = w.burst
      /\ n.deaf = w.deaf /\ n.unsure = w.unsure /\ Doubted(n) = Doubted(w)
      /\ LayerHolds' <=> LayerHolds
      /\ base'.commit = base.commit => BaseCommit' = BaseCommit
  BY <1>2, <1>3 DEF Told, Keeps, Doubted, LayerHolds, Delta, BaseCommit
<1>6. /\ "torn" \notin slips /\ Base \notin w.deaf =>
            /\ n.at = "done" => BaseHolds' \/ Told(w, Base)
            /\ n.at = "extract" => base'.commit = head
            /\ Settled(Base) /\ Base \notin w.unsure => BaseHolds' \/ Told(w, Base)
      /\ \/ base'.commit = base.commit /\ (n.at = w.at \/ w.at = "reindex" \/ n.at = "done")
         \/ w.at = "reindex" /\ n.at = "extract" /\ base'.commit # base.commit
  <2>1. base = [commit |-> base.commit, row |-> base.row]
    BY DEF TypeOK
  <2>2. CASE Extract(p)
    <3>1. base' = [commit |-> base.commit, row |-> head] /\ w.at = "extract" /\ n.at = "done"
      BY <2>1, <2>2, ExtractIs DEF Extract, ExtractRows, TypeOK
    <3> QED
      BY <1>2, <1>4, <3>1 DEF BaseHolds
  <2>3. CASE StartIndex(p) /\ UpToDate
    <3>1. base' = base /\ w.at = "reindex" /\ n.at = "done" /\ lock = NoOne /\ base.commit = head
      BY <2>3, StartIndexIs DEF StartIndex, UpToDate
    <3>2. "torn" \notin slips => BaseHolds
      BY <2>1, <3>1 DEF BaseHolds, ClaimsAreKept
    <3>3. BaseHolds' <=> BaseHolds
      BY <1>2, <3>1 DEF BaseHolds
    <3> QED
      BY <3>1, <3>2, <3>3
  <2>4. CASE StartIndex(p) /\ ~UpToDate
    <3>1. base'.commit = head /\ w.at = "reindex" /\ n.at = "extract" /\ base.commit # head
      BY <2>4, StartIndexIs DEF StartIndex, UpToDate, Claim, TypeOK
    <3>2. ~BaseHolds
      BY <3>1 DEF BaseHolds
    <3> QED
      BY <1>4, <3>1, <3>2
  <2> QED
    BY <2>2, <2>3, <2>4
<1> DEFINE B == /\ Base \notin n.watched \cup Doubted(n) => ~Settled(Base)'
                /\ Base \in n.burst /\ Base \notin n.unsure => ~Settled(Base)'
                /\ "torn" \notin slips' /\ Base \notin n.deaf =>
                      /\ Settled(Base)' /\ Base \notin n.unsure => BaseHolds' \/ Told(n, Base)
                      /\ n.at = "done" /\ n.scope = Base => BaseHolds' \/ Told(n, Base)
                      /\ n.at = "extract" => base'.commit = head' \/ Told(n, Base)
           L == /\ (/\ Layer \notin n.watched \cup Doubted(n)
                    /\ n.at = "forget" => Layer \in n.targets) => ~Settled(Layer)'
                /\ Settled(Layer)' /\ Layer \in n.watched \ Doubted(n) => LayerHolds' \/ Told(n, Layer)
                /\ n.at = "done" /\ n.scope = Layer /\ Layer \notin n.deaf => LayerHolds' \/ Told(n, Layer)
           V == slips' = {} =>
                  /\ n.at = "reindex" /\ n.scope = Base => n.before = base'.commit
                  /\ n.at = "done" /\ n.scope = Layer => layer'.base = BaseCommit'
                  /\ Settled(Layer)' /\ Layer \in n.watched \ Doubted(n) =>
                        \/ layer'.base = BaseCommit'
                        \/ /\ n.at \in {"extract", "done"} /\ n.scope = Base
                           /\ n.before # base'.commit
<1>7. B
  BY <1>2, <1>3, <1>4, <1>5, <1>6
<1>8. L
  BY <1>2, <1>3, <1>4, <1>5, TwoScopes
<1>9. V
  BY <1>2, <1>3, <1>4, <1>5, <1>6, TwoScopes
<1>10. n.seq <= rows'[n.scope].observed
  BY <1>2, <1>3, <1>4
<1> QED
  BY <1>2, <1>7, <1>8, <1>9, <1>10 DEF Knows, KnowsBase, KnowsLayer, KnowsView

(* It indexes the layer.                                                    *)
LEMMA LeaderIndexesLayer ==
  ASSUME NEW p \in Servers, TypeOK, WorkersOrderly, Knows(p), IndexLayer(p)
  PROVE  Knows(p)' /\ rows' = rows
<1> DEFINE w == worker[p]
           n == worker'[p]
<1>1. w \in Worker /\ Orderly(w)
  BY DEF TypeOK, WorkersOrderly
<1>2. /\ rows' = rows /\ UNCHANGED <<head, wt, base>>
      /\ Settled(Base)' <=> Settled(Base)
      /\ Settled(Layer)' <=> Settled(Layer)
      /\ slips \subseteq slips'
  BY DEF IndexLayer, disk, Settled
<1>3. /\ w.at = "layer" /\ w.scope = Layer /\ w.before \in Commits /\ Layer \in Handled(w)
      /\ n.at = "done" /\ n.scope = Layer /\ n.seq = w.seq /\ Keeps(w, n)
  BY <1>1, IndexLayerIs DEF Orderly, Working
<1>4. LayerHolds' /\ layer'.base = w.before
  BY <1>2, <1>3, IndexedHolds DEF IndexLayer
<1>5. slips' = {} => layer'.base = BaseCommit'
  <2>1. slips' = {} => w.before = BaseCommit
    BY DEF IndexLayer
  <2>2. BaseCommit' = BaseCommit
    BY <1>2 DEF BaseCommit
  <2> QED
    BY <1>4, <2>1, <2>2
<1>6. /\ \A s : Told(n, s) <=> Told(w, s)
      /\ n.watched = w.watched /\ n.burst = w.burst
      /\ n.deaf = w.deaf /\ n.unsure = w.unsure /\ Doubted(n) = Doubted(w)
      /\ BaseHolds' <=> BaseHolds
  BY <1>2, <1>3 DEF Told, Keeps, Doubted, BaseHolds
<1>7. /\ w.seq <= rows[w.scope].observed
      /\ Base \notin w.watched \cup Doubted(w) => ~Settled(Base)
      /\ Base \in w.burst /\ Base \notin w.unsure => ~Settled(Base)
      /\ "torn" \notin slips /\ Base \notin w.deaf /\ Settled(Base) /\ Base \notin w.unsure
            => BaseHolds \/ Told(w, Base)
  BY <1>3 DEF Knows, KnowsBase, Working
<1>8. KnowsBase(worker[p])'
  BY <1>2, <1>3, <1>6, <1>7, TwoScopes DEF KnowsBase
<1>9. KnowsLayer(worker[p])'
  <2>1. Layer \in w.watched \cup Doubted(w)
    BY <1>3 DEF Handled, Doubted
  <2> QED
    BY <1>3, <1>4, <1>6, <2>1 DEF KnowsLayer
<1>10. KnowsView(worker[p])'
  BY <1>3, <1>5, TwoScopes DEF KnowsView
<1>11. n.seq <= rows'[n.scope].observed
  BY <1>2, <1>3, <1>7
<1> QED
  BY <1>2, <1>8, <1>9, <1>10, <1>11 DEF Knows


(* It registers a scope, or drops the rows without a target.                *)
LEMMA LeaderRegisters ==
  ASSUME NEW p \in Servers, TypeOK, WorkersOrderly, CountsInOrder, Knows(p), lease = p,
         Register(p)
  PROVE  Knows(p)' /\ CountsInOrder'
<1> DEFINE w == worker[p]
           n == worker'[p]
<1> PICK s \in Scopes : s = worker'[p].scope
  BY RegisterIs
<1>1. /\ w.at = "pick" /\ n.at = "reindex" /\ s \in Scopes /\ n.watched = w.watched \cup {s}
      /\ n.seq \in {rows[s].observed, Absent} /\ n.before = base.commit
      /\ n.chan = w.chan /\ n.burst = w.burst /\ n.unsure = w.unsure
      /\ n.deaf \in {w.deaf, w.deaf \cup {s}}
      /\ s = FirstOf(w.todo)
  BY RegisterIs DEF Taken
<1>2. /\ \A x \in Scopes : rows'[x] = IF x = s THEN [rows[s] EXCEPT !.there = TRUE, !.catchup = TRUE]
                                      ELSE rows[x]
      /\ UNCHANGED <<head, wt, base, layer, slips>>
  <2>1. /\ rows' = [rows EXCEPT ![s].there = TRUE, ![s].catchup = TRUE]
        /\ Writes(p) /\ UNCHANGED <<disk, index>>
    BY <1>1, Zenon DEF Register
  <2>2. rows \in [Scopes -> Row]
    BY DEF TypeOK
  <2>3. \A x \in Scopes : rows'[x] = IF x = s THEN [rows[s] EXCEPT !.there = TRUE, !.catchup = TRUE]
                                      ELSE rows[x]
    BY <2>1, <2>2
  <2>4. UNCHANGED <<head, wt, base, layer, slips>>
    BY <2>1 DEF Writes, disk, index
  <2> QED
    BY <2>3, <2>4
<1>3. /\ \A x \in Scopes : rows[x] \in Row
      /\ CountsInOrder <=> \A x \in Scopes : InOrder(rows[x])
  BY RowsInOrder
<1>4. /\ ~SettledRow(rows'[s]) /\ InOrder(rows'[s]) /\ rows'[s].observed = rows[s].observed
  <2> DEFINE r == rows[s]
  <2>1. r \in Row /\ InOrder(r)
    BY <1>3
  <2>2. rows'[s] = [r EXCEPT !.there = TRUE, !.catchup = TRUE]
    BY <1>2
  <2> HIDE DEF r
  <2> DEFINE d == [r EXCEPT !.there = TRUE, !.catchup = TRUE]
  <2>4. ~SettledRow(d) /\ InOrder(d) /\ d.observed = r.observed
    BY <2>1, RowIs, Zenon
  <2> HIDE DEF d
  <2>3. /\ ~SettledRow(rows'[s]) /\ InOrder(rows'[s]) /\ rows'[s].observed = r.observed
    BY <2>2, <2>4 DEF d
  <2> USE DEF r
  <2> QED
    BY <2>3
<1>5. CountsInOrder'
  BY <1>2, <1>3, <1>4 DEF CountsInOrder, InOrder
<1>6. /\ ~Settled(s)'
      /\ \A x \in Scopes \ {s} : Settled(x)' <=> Settled(x)
  BY <1>2, <1>4 DEF Settled, SettledRow
<1>7. /\ Base \notin w.watched \cup Doubted(w) => ~Settled(Base)
      /\ Base \in w.burst /\ Base \notin w.unsure => ~Settled(Base)
      /\ Layer \notin w.watched \cup Doubted(w) => ~Settled(Layer)
  BY <1>1 DEF Knows, KnowsBase, KnowsLayer
<1>8. /\ Settled(Base)' => Settled(Base) /\ s # Base
      /\ Settled(Layer)' => Settled(Layer) /\ s # Layer
  BY <1>6, TwoScopes
<1>9. \A x : Told(n, x) <=> Told(w, x)
  BY <1>1 DEF Told
<1>10. n.seq <= rows'[n.scope].observed
  BY <1>1, <1>3, <1>4 DEF Row, Absent
<1>12. \A x : x # s => /\ x \in n.watched <=> x \in w.watched
                       /\ x \in Doubted(n) <=> x \in Doubted(w)
  BY <1>1 DEF Doubted
<1>11. Knows(p)'
  <2> HIDE DEF w, n
  <2> QED
    BY <1>1, <1>2, <1>6, <1>7, <1>8, <1>9, <1>10, <1>12, TwoScopes, StillKnows DEF w, n
<1> QED
  BY <1>5, <1>11

(* It drops the rows without a target: no row of a target changes.          *)
LEMMA LeaderForgets ==
  ASSUME NEW p \in Servers, TypeOK, WorkersOrderly, CountsInOrder, Knows(p), lease = p,
         Forget(p)
  PROVE  Knows(p)' /\ CountsInOrder'
<1> DEFINE w == worker[p]
           n == worker'[p]
<1>1. /\ w.at = "forget" /\ n.at \in {"pick", "forget", "idle"} /\ n.watched = w.watched
      /\ n.chan = w.chan /\ n.burst = w.burst /\ n.targets = w.targets
      /\ Doubted(n) = Doubted(w) /\ n.unsure = w.unsure
  <2>1. /\ w.at = "forget" /\ Rested(w, n, w.todo, w.burst) /\ n.deaf = w.deaf
        /\ n.unsure = w.unsure \cup (IF Forget(p) THEN {} ELSE Scopes \ w.targets)
    BY ForgetIs, Zenon
  <2>2. n.unsure = w.unsure
    BY <2>1
  <2> QED
    BY <2>1, <2>2 DEF Rested, Doubted
<1>2. /\ \A x \in Scopes : rows'[x] = IF x \in w.targets THEN rows[x] ELSE NoRow
      /\ UNCHANGED <<head, wt, base, layer, slips>>
  BY DEF Forget, Kept, Writes, disk, index
<1>3. CountsInOrder'
  <2>1. InOrder(NoRow) /\ (\A x \in Scopes : InOrder(rows[x]))
    BY RowsInOrder DEF NoRow, InOrder
  <2> QED
    BY <1>2, <2>1 DEF CountsInOrder, InOrder
<1>4. Base \in w.targets /\ Base \in Scopes /\ Layer \in Scopes
  BY <1>1, TwoScopes DEF WorkersOrderly, Orderly
<1>5. /\ \A x \in Scopes : x \in w.targets => (Settled(x)' <=> Settled(x))
      /\ \A x \in Scopes : x \notin w.targets => ~Settled(x)'
  BY <1>2 DEF Settled, NoRow
<1>6. /\ Base \notin w.watched \cup Doubted(w) => ~Settled(Base)
      /\ Base \in w.burst /\ Base \notin w.unsure => ~Settled(Base)
      /\ Layer \notin w.watched \cup Doubted(w) /\ Layer \in w.targets => ~Settled(Layer)
  BY DEF Knows, KnowsBase, KnowsLayer
<1>7. \A x : Told(n, x) <=> Told(w, x)
  BY <1>1 DEF Told
<1>8. n.at \notin Working
  BY <1>1 DEF Working
<1>9. Knows(p)'
  <2> HIDE DEF w, n
  <2> QED
    BY <1>1, <1>2, <1>4, <1>5, <1>6, <1>7, <1>8, StillKnows DEF w, n
<1> QED
  BY <1>3, <1>9

(* It hears that a scope has changed.                                       *)
LEMMA LeaderHears ==
  ASSUME NEW p \in Servers, TypeOK, WorkersOrderly, CountsInOrder, Knows(p), lease = p,
         NEW s \in Scopes, HearScope(p, s)
  PROVE  Knows(p)' /\ CountsInOrder'
<1> DEFINE w == worker[p]
           n == worker'[p]
<1>1. /\ w.at = "idle" /\ n.at = "idle" /\ n.watched = w.watched
      /\ n.chan = w.chan \ {s} /\ n.deaf = w.deaf
      /\ n.burst = IF s \in w.watched THEN w.burst \cup {s} ELSE w.burst
      /\ \/ /\ rows' = rows
            /\ n.unsure = IF s \in w.watched /\ Settled(s) THEN w.unsure \cup {s} ELSE w.unsure
         \/ rows' = [rows EXCEPT ![s] = Bumped(rows[s])] /\ n.unsure = w.unsure
  BY HearScopeIs
<1>2. UNCHANGED <<head, wt, base, layer>> /\ slips \subseteq slips'
  <2>1. UNCHANGED <<disk, index>> /\ (Writes(p) \/ UNCHANGED slips)
    BY Zenon DEF HearScope
  <2> QED
    BY <2>1 DEF Writes, disk, index
<1>3. /\ \A x \in Scopes : rows[x] \in Row
      /\ \A x \in Scopes : InOrder(rows[x])
  BY RowsInOrder
<1>4. ~SettledRow(Bumped(rows[s])) /\ InOrder(Bumped(rows[s]))
  <2> DEFINE r == rows[s]
  <2>1. r \in Row /\ InOrder(r)
    BY <1>3
  <2> HIDE DEF r
  <2>2. ~SettledRow(Bumped(r)) /\ InOrder(Bumped(r))
    BY <2>1, RowIs, Zenon
  <2> USE DEF r
  <2> QED
    BY <2>2
<1>12. /\ \A x \in Scopes : x # s => rows'[x] = rows[x]
       /\ rows'[s] = rows[s] \/ rows'[s] = Bumped(rows[s])
  BY <1>1 DEF TypeOK
<1>5. CountsInOrder'
  BY <1>3, <1>4, <1>12 DEF CountsInOrder, InOrder
<1>6. \A x \in Scopes : x # s => (Settled(x)' <=> Settled(x))
  BY <1>12 DEF Settled
<1>7. /\ Base \notin w.watched \cup Doubted(w) => ~Settled(Base)
      /\ Base \in w.burst /\ Base \notin w.unsure => ~Settled(Base)
      /\ Layer \notin w.watched \cup Doubted(w) => ~Settled(Layer)
  BY <1>1 DEF Knows, KnowsBase, KnowsLayer
<1>15. \A x : x # s => (x \in n.unsure <=> x \in w.unsure)
  BY <1>1
<1>16. \A x : x # s => (x \in n.burst <=> x \in w.burst)
  BY <1>1
<1>17. \A x : x # s => (x \in Doubted(n) <=> x \in Doubted(w))
  BY <1>1, <1>15 DEF Doubted
<1>18. \A x \in Scopes : x # s => (Told(n, x) <=> Told(w, x))
  <2>1. s # "rescan"
    BY TwoScopes DEF Base, Layer
  <2> QED
    BY <1>1, <2>1 DEF Told
<1>9. n.at \notin Working
  BY <1>1 DEF Working
<1>13. Settled(s)' => Settled(s) /\ (s \in w.watched => s \in n.unsure) /\ n.unsure \subseteq Doubted(n)
  <2>1. CASE rows' = rows /\ n.unsure = IF s \in w.watched /\ Settled(s) THEN w.unsure \cup {s}
                                        ELSE w.unsure
    BY <2>1 DEF Settled, Doubted
  <2>2. CASE rows' = [rows EXCEPT ![s] = Bumped(rows[s])]
    <3>1. ~SettledRow(rows'[s])
      BY <1>4, <2>2 DEF TypeOK
    <3> QED
      BY <3>1 DEF Settled, SettledRow
  <2> QED
    BY <1>1, <2>1, <2>2
<1>14. Doubted(w) \subseteq Doubted(n) /\ w.unsure \subseteq n.unsure
  BY <1>1 DEF Doubted
<1>10. CASE s = Base
  <2>1. /\ Base \notin Doubted(n) => ~Settled(Base)'
        /\ Base \in n.burst /\ Base \notin n.unsure => ~Settled(Base)'
        /\ Settled(Layer)' <=> Settled(Layer)
        /\ Told(n, Layer) <=> Told(w, Layer)
        /\ Layer \in Doubted(n) <=> Layer \in Doubted(w)
    <3>1. Layer # s /\ Layer \in Scopes
      BY <1>10, TwoScopes
    <3>2. Base \notin Doubted(n) => ~Settled(Base)'
      BY <1>7, <1>10, <1>13, <1>14
    <3>3. Base \in n.burst /\ Base \notin n.unsure => ~Settled(Base)'
      BY <1>1, <1>7, <1>10, <1>13, <1>14
    <3> HIDE DEF w, n
    <3> QED
      BY <1>6, <1>15, <1>16, <1>17, <1>18, <3>1, <3>2, <3>3
  <2> HIDE DEF w, n
  <2>2. Knows(p)'
    BY <1>1, <1>2, <1>7, <1>9, <2>1, StillKnows DEF w, n
  <2> QED
    BY <1>5, <2>2
<1>11. CASE s = Layer
  <2>1. /\ Settled(Base)' <=> Settled(Base)
        /\ Told(n, Base) <=> Told(w, Base)
        /\ Base \in Doubted(n) <=> Base \in Doubted(w)
        /\ Base \in n.unsure <=> Base \in w.unsure
        /\ Base \in n.burst <=> Base \in w.burst
        /\ Layer \notin Doubted(n) => ~Settled(Layer)'
    <3>1. Base # s /\ Base \in Scopes
      BY <1>11, TwoScopes
    <3>2. Layer \notin Doubted(n) => ~Settled(Layer)'
      BY <1>7, <1>11, <1>13, <1>14
    <3> HIDE DEF w, n
    <3> QED
      BY <1>6, <1>15, <1>16, <1>17, <1>18, <3>1, <3>2
  <2> HIDE DEF w, n
  <2>2. Knows(p)'
    BY <1>1, <1>2, <1>7, <1>9, <2>1, StillKnows DEF w, n
  <2> QED
    BY <1>5, <2>2
<1> QED
  BY <1>10, <1>11, TwoScopes

(* It hears that events were lost: nothing is settled any more.             *)
LEMMA LeaderRescans ==
  ASSUME NEW p \in Servers, TypeOK, WorkersOrderly, CountsInOrder, Knows(p), lease = p,
         HearRescan(p)
  PROVE  Knows(p)' /\ CountsInOrder'
<1> DEFINE w == worker[p]
           n == worker'[p]
<1>1. /\ w.at = "idle" /\ n.at = "idle" /\ n.watched = w.watched /\ n.deaf = w.deaf
  BY HearRescanIs
<1> PICK flagged \in SUBSET w.targets :
      /\ n.unsure = w.unsure \cup (w.targets \ flagged)
      /\ rows' = [x \in Scopes |-> IF x \in flagged /\ rows[x].there
                                  THEN [rows[x] EXCEPT !.catchup = TRUE] ELSE rows[x]]
  BY HearRescanIs
<1>2. \A x \in Scopes : rows'[x] = IF x \in flagged /\ rows[x].there
                                   THEN [rows[x] EXCEPT !.catchup = TRUE] ELSE rows[x]
  OBVIOUS
<1>3. /\ \A x \in Scopes : rows[x] \in Row
      /\ \A x \in Scopes : InOrder(rows[x])
  BY RowsInOrder
<1>4. \A x \in Scopes : /\ ~SettledRow([rows[x] EXCEPT !.catchup = TRUE])
                        /\ InOrder([rows[x] EXCEPT !.catchup = TRUE])
  <2> SUFFICES ASSUME NEW x \in Scopes
               PROVE  /\ ~SettledRow([rows[x] EXCEPT !.catchup = TRUE])
                      /\ InOrder([rows[x] EXCEPT !.catchup = TRUE])
    OBVIOUS
  <2> DEFINE r == rows[x]
  <2>1. r \in Row /\ InOrder(r)
    BY <1>3
  <2> HIDE DEF r
  <2>2. ~SettledRow([r EXCEPT !.catchup = TRUE]) /\ InOrder([r EXCEPT !.catchup = TRUE])
    BY <2>1, RowIs, Zenon
  <2> USE DEF r
  <2> QED
    BY <2>2
<1>5. CountsInOrder'
  BY <1>2, <1>3, <1>4 DEF CountsInOrder, InOrder
<1>6. Base \in w.targets /\ w.deaf \subseteq Doubted(w) /\ Handled(w) \subseteq w.targets
  BY <1>1 DEF WorkersOrderly, Orderly, Doubted
<1>7. Layer \notin w.watched \cup Doubted(w) => ~Settled(Layer)
  BY <1>1 DEF Knows, KnowsLayer
<1>10. \A x \in w.targets \cap Scopes : x \in n.unsure \/ ~Settled(x)'
  <2>1. ASSUME NEW x \in flagged, x \in Scopes
        PROVE  ~Settled(x)'
    BY <1>2, <1>4, <2>1 DEF Settled, SettledRow
  <2> QED
    BY <2>1
<1>11. Doubted(n) = Doubted(w) \cup (w.targets \ flagged) /\ n.unsure \subseteq Doubted(n)
  BY <1>1 DEF Doubted
<1>8. (Base \in n.unsure \/ ~Settled(Base)') /\ (Layer \in Doubted(n) \/ ~Settled(Layer)')
  <2>1. CASE Layer \in w.targets
    BY <1>6, <1>10, <1>11, <2>1, TwoScopes
  <2>2. CASE Layer \notin w.targets
    <3>1. Layer \notin w.watched /\ Layer \notin w.deaf
      BY <1>6, <2>2, TwoScopes DEF Handled
    <3>2. Settled(Layer)' <=> Settled(Layer)
      BY <1>2, <2>2, TwoScopes DEF Settled
    <3> QED
      BY <1>6, <1>7, <1>10, <1>11, <3>1, <3>2, TwoScopes
  <2> QED
    BY <2>1, <2>2
<1>9. n.at \notin Working
  BY <1>1 DEF Working
<1> QED
  BY <1>5, <1>8, <1>9, <1>11, RestsKnowing


(* It fails: the scope is in error and due again.                           *)
LEMMA LeaderFails ==
  ASSUME NEW p \in Servers, TypeOK, WorkersOrderly, CountsInOrder, Knows(p), lease = p,
         Fail(p)
  PROVE  Knows(p)' /\ CountsInOrder'
<1> DEFINE w == worker[p]
           n == worker'[p]
<1>1. w.at \in {"reindex", "extract", "layer"} /\ w.scope \in Scopes
  <2>1. w.at \in {"reindex", "extract", "layer"}
    BY Zenon DEF Fail
  <2> QED
    BY <2>1 DEF TypeOK, Worker
<1> PICK s \in Scopes : s = worker[p].scope
  BY <1>1
<1> DEFINE r == rows[s]
           Told1 == [r EXCEPT !.error = TRUE, !.catchup = TRUE]
<1>2. /\ n.at \in {"pick", "forget", "idle"} /\ n.watched = w.watched /\ n.deaf = w.deaf
      /\ n.chan = w.chan /\ n.burst = w.burst \cup {s}
      /\ \/ /\ n.unsure = w.unsure
            /\ rows' = [rows EXCEPT ![s] = IF rows[s].there THEN Told1 ELSE rows[s]]
         \/ n.unsure = w.unsure \cup {s} /\ rows' = rows
  <2>2. /\ Rested(w, n, w.todo, w.burst \cup {w.scope}) /\ n.deaf = w.deaf
        /\ \/ /\ n.unsure = w.unsure
              /\ rows' = [rows EXCEPT ![w.scope] =
                    IF rows[w.scope].there
                    THEN [rows[w.scope] EXCEPT !.error = TRUE, !.catchup = TRUE]
                    ELSE rows[w.scope]]
           \/ n.unsure = w.unsure \cup {w.scope} /\ rows' = rows
    BY FailIs, Zenon
  <2>1. /\ Rested(w, n, w.todo, w.burst \cup {s}) /\ n.deaf = w.deaf
        /\ \/ /\ n.unsure = w.unsure
              /\ rows' = [rows EXCEPT ![s] = IF rows[s].there THEN Told1 ELSE rows[s]]
           \/ n.unsure = w.unsure \cup {s} /\ rows' = rows
    BY <2>2, Zenon
  <2> HIDE DEF Told1
  <2> QED
    BY <2>1 DEF Rested
<1>3. /\ UNCHANGED <<head, wt, base, layer>> /\ slips \subseteq slips'
      /\ w.at = "extract" => "torn" \in slips'
  <2>1. /\ UNCHANGED <<disk, index>>
        /\ slips' = slips \cup (IF w.at = "extract" THEN {"torn"} ELSE {})
                         \cup (IF lease = p THEN {} ELSE {"late"})
    BY Zenon DEF Fail
  <2> QED
    BY <2>1 DEF disk, index
<1>4. /\ \A x \in Scopes : rows[x] \in Row
      /\ \A x \in Scopes : InOrder(rows[x])
  BY RowsInOrder
<1>5. ~SettledRow(Told1) /\ InOrder(Told1)
  <2>1. r \in Row /\ InOrder(r)
    BY <1>4
  <2> HIDE DEF r
  <2>2. /\ ~SettledRow([r EXCEPT !.error = TRUE, !.catchup = TRUE])
        /\ InOrder([r EXCEPT !.error = TRUE, !.catchup = TRUE])
    BY <2>1, RowIs, Zenon
  <2> QED
    BY <2>2, Zenon
<1>13. /\ \A x \in Scopes : x # s => rows'[x] = rows[x]
       /\ \/ n.unsure = w.unsure /\ rows'[s] = Told1
          \/ n.unsure = w.unsure /\ rows'[s] = rows[s] /\ ~rows[s].there
          \/ n.unsure = w.unsure \cup {s} /\ rows'[s] = rows[s]
  <2> HIDE DEF Told1
  <2>1. rows \in [Scopes -> Row]
    BY DEF TypeOK
  <2> QED
    BY <1>2, <2>1
<1>6. CountsInOrder'
  <2>1. InOrder(rows[s])
    BY <1>1, <1>4
  <2> HIDE DEF Told1
  <2>2. \A x \in Scopes : InOrder(rows'[x])
    BY <1>4, <1>5, <1>13, <2>1
  <2> QED
    BY <2>2 DEF CountsInOrder, InOrder
<1>7. /\ \A x \in Scopes : x # s => (Settled(x)' <=> Settled(x))
      /\ s \in n.unsure \/ ~Settled(s)'
      /\ Settled(s)' => Settled(s)
  <2>1. /\ \A x : Settled(x) <=> SettledRow(rows[x])
        /\ \A x : Settled(x)' <=> SettledRow(rows'[x])
    BY DEF Settled, SettledRow
  <2>2. ~rows[s].there => ~SettledRow(rows[s])
    BY DEF SettledRow
  <2> HIDE DEF Told1, Settled, n, w
  <2>3. \A x \in Scopes : x # s => (Settled(x)' <=> Settled(x))
    BY <1>13, <2>1
  <2>4. rows'[s] = rows[s] => (Settled(s)' <=> Settled(s))
    BY <2>1
  <2>5. rows'[s] = Told1 => ~Settled(s)'
    BY <1>5, <2>1
  <2>6. ~rows[s].there => ~Settled(s)
    BY <2>1, <2>2
  <2> QED
    BY <1>13, <2>3, <2>4, <2>5, <2>6
<1>8. /\ Base \notin w.watched \cup Doubted(w) => ~Settled(Base)
      /\ Base \in w.burst /\ Base \notin w.unsure => ~Settled(Base)
      /\ Layer \notin w.watched \cup Doubted(w) => ~Settled(Layer)
  BY <1>1 DEF Knows, KnowsBase, KnowsLayer
<1>9. \A x : Told(n, x) <=> Told(w, x)
  BY <1>2 DEF Told
<1>10. n.at \notin Working
  BY <1>2 DEF Working
<1>14. /\ \A x : x # s => (x \in Doubted(n) <=> x \in Doubted(w))
       /\ \A x : x # s => (x \in n.unsure <=> x \in w.unsure)
       /\ Doubted(w) \subseteq Doubted(n) /\ n.unsure \subseteq Doubted(n)
       /\ w.unsure \subseteq n.unsure
  BY <1>2, <1>13 DEF Doubted
<1>11. /\ Settled(Base)' /\ Base \notin Doubted(n) => Settled(Base) /\ Base \notin Doubted(w)
       /\ Settled(Layer)' /\ Layer \notin Doubted(n) => Settled(Layer) /\ Layer \notin Doubted(w)
       /\ Base \in n.burst /\ Base \notin n.unsure => ~Settled(Base)'
       /\ Base \notin n.watched \cup Doubted(n) => ~Settled(Base)'
       /\ Layer \notin n.watched \cup Doubted(n) => ~Settled(Layer)'
  <2>1. ASSUME NEW x \in Scopes, Settled(x)', x \notin n.unsure
        PROVE  Settled(x) /\ x # s
    <3> HIDE DEF w, n
    <3> QED
      BY <1>7, <2>1
  <2> HIDE DEF w, n
  <2>2. Base \in Scopes /\ Layer \in Scopes
    BY TwoScopes
  <2> QED
    BY <1>2, <1>8, <1>14, <2>1, <2>2
<1>12. Knows(p)'
  <2> HIDE DEF w, n, Told1
  <2> QED
    BY <1>1, <1>2, <1>3, <1>9, <1>10, <1>11, StillKnows DEF w, n
<1> QED
  BY <1>6, <1>12

(* It ends with a scope: what was indexed was on the disk when its events   *)
(* had been counted, and a layer whose base has moved is due again.         *)
LEMMA LeaderFinishes ==
  ASSUME NEW p \in Servers, TypeOK, WorkersOrderly, CountsInOrder, Knows(p), lease = p,
         Finish(p)
  PROVE  Knows(p)' /\ CountsInOrder'
<1> DEFINE w == worker[p]
           n == worker'[p]
<1>1. /\ Orderly(w) /\ w.at = "done" /\ w.scope \in Scopes
      /\ w.seq \in Nat \cup {Absent} /\ w.clear \in BOOLEAN
  <2>1. w.at = "done"
    BY FinishIs, Zenon
  <2> QED
    BY <2>1 DEF TypeOK, WorkersOrderly, Worker
<1> PICK s \in Scopes : s = worker[p].scope
  BY <1>1
<1> PICK due \in SUBSET Scopes : due = Invalidated(worker[p])
  BY DEF Invalidated, Scopes
<1> DEFINE r == rows[s]
           done == IF r.there THEN Finished(r, w.seq, w.clear) ELSE r
<1>2. PICK saved \in BOOLEAN, counted \in BOOLEAN :
        /\ n.unsure = (w.unsure \ {s}) \cup (IF counted THEN {} ELSE due)
        /\ rows' = [x \in Scopes |->
              IF x = s /\ saved THEN done
              ELSE IF x \in due /\ counted THEN Bumped(rows[x]) ELSE rows[x]]
  <2> DEFINE F(z, d) ==
        \E saved, counted \in BOOLEAN :
           /\ n.unsure = (w.unsure \ {z}) \cup (IF counted THEN {} ELSE d)
           /\ rows' = [x \in Scopes |->
                 IF x = z /\ saved
                 THEN IF rows[z].there THEN Finished(rows[z], w.seq, w.clear) ELSE rows[z]
                 ELSE IF x \in d /\ counted THEN Bumped(rows[x]) ELSE rows[x]]
  <2>1. F(w.scope, Invalidated(w))
    BY FinishIs, Zenon
  <2>2. F(s, due)
    <3> HIDE DEF F
    <3> QED
      BY <2>1
  <2> QED
    BY <2>2, Zenon
<1>3. /\ n.at \in {"pick", "forget", "idle"} /\ n.watched = w.watched /\ n.deaf = w.deaf
      /\ n.chan = w.chan /\ n.burst = w.burst \cup due
  <2>1. Rested(w, n, w.todo, w.burst \cup due) /\ n.deaf = w.deaf
    BY FinishIs, Zenon
  <2> QED
    BY <2>1 DEF Rested
<1>4. UNCHANGED <<head, wt, base, layer, slips>>
  <2>1. Writes(p) /\ UNCHANGED <<disk, index>>
    BY Zenon DEF Finish
  <2> QED
    BY <2>1 DEF Writes, disk, index
<1>5. /\ w.seq <= rows[s].observed
      /\ Base \notin w.watched \cup Doubted(w) => ~Settled(Base)
      /\ Base \in w.burst /\ Base \notin w.unsure => ~Settled(Base)
      /\ "torn" \notin slips /\ Base \notin w.deaf =>
            /\ Settled(Base) /\ Base \notin w.unsure => BaseHolds \/ Told(w, Base)
            /\ s = Base => BaseHolds \/ Told(w, Base)
      /\ Layer \notin w.watched \cup Doubted(w) => ~Settled(Layer)
      /\ Settled(Layer) /\ Layer \in w.watched \ Doubted(w) => LayerHolds \/ Told(w, Layer)
      /\ s = Layer /\ Layer \notin w.deaf => LayerHolds \/ Told(w, Layer)
  BY <1>1 DEF Knows, KnowsBase, KnowsLayer, Working
<1>6. slips = {} =>
        /\ s = Layer => layer.base = BaseCommit
        /\ Settled(Layer) /\ Layer \in w.watched \ Doubted(w) =>
             layer.base = BaseCommit \/ (s = Base /\ w.before # base.commit)
  BY <1>1 DEF Knows, KnowsView
<1>7. /\ \A x \in Scopes : rows[x] \in Row
      /\ \A x \in Scopes : InOrder(rows[x])
  BY RowsInOrder
<1>12. /\ s \notin due /\ Base \notin due
       /\ s = Layer => due = {}
       /\ s = Base /\ Layer \notin due =>
            w.registering \/ base.commit = w.before \/ Layer \notin w.targets
  BY TwoScopes DEF Invalidated
<1>13. /\ s \in w.watched \cup w.deaf
       /\ Handled(w) \subseteq w.targets
       /\ w.registering /\ s = Base => Handled(w) = {Base}
       /\ ~(Base \in w.burst /\ s = Base)
  BY <1>1 DEF Orderly, Working, Handled
<1>14. /\ InOrder(done)
       /\ \A x \in Scopes : ~SettledRow(Bumped(rows[x])) /\ InOrder(Bumped(rows[x]))
  <2>1. r \in Row /\ InOrder(r) /\ w.seq <= r.observed
    BY <1>5, <1>7
  <2>2. ASSUME NEW x \in Scopes
        PROVE  ~SettledRow(Bumped(rows[x])) /\ InOrder(Bumped(rows[x]))
    <3> DEFINE q == rows[x]
    <3>1. q \in Row /\ InOrder(q)
      BY <1>7
    <3> HIDE DEF q
    <3>2. ~SettledRow(Bumped(q)) /\ InOrder(Bumped(q))
      BY <3>1, RowIs, Zenon
    <3> QED
      BY <3>2 DEF q
  <2>3. InOrder(Finished(r, w.seq, w.clear))
    <3> HIDE DEF r, w
    <3> QED
      BY <1>1, <2>1, FinishedIs, Zenon
  <2>4. InOrder(done)
    <3> HIDE DEF r, w
    <3> QED
      BY <2>1, <2>3
  <2> QED
    BY <2>2, <2>4
<1>15. /\ \A x \in Scopes : x # s => rows'[x] = IF x \in due /\ counted THEN Bumped(rows[x])
                                               ELSE rows[x]
       /\ rows'[s] \in {done, rows[s]}
  <2> HIDE DEF done
  <2> QED
    BY <1>2, <1>12
<1>8. CountsInOrder'
  <2> HIDE DEF done
  <2>1. \A x \in Scopes : InOrder(rows'[x])
    BY <1>7, <1>14, <1>15
  <2> QED
    BY <2>1 DEF CountsInOrder, InOrder
<1>9. ASSUME NEW x \in Scopes, x # s
      PROVE  /\ Settled(x)' => Settled(x) /\ (x \in due => x \in n.unsure)
             /\ x \notin due => (Settled(x)' <=> Settled(x))
  <2>1. (Settled(x) <=> SettledRow(rows[x])) /\ (Settled(x)' <=> SettledRow(rows'[x]))
    BY DEF Settled, SettledRow
  <2> HIDE DEF Settled, w, n
  <2>2. CASE x \in due /\ counted
    BY <1>9, <1>14, <1>15, <2>1, <2>2
  <2>3. CASE ~(x \in due /\ counted)
    <3>1. rows'[x] = rows[x]
      BY <1>9, <1>15, <2>3
    <3>2. x \in due => x \in n.unsure
      BY <1>2, <2>3
    <3> QED
      BY <2>1, <3>1, <3>2
  <2> QED
    BY <2>2, <2>3
<1>10. /\ BaseHolds' <=> BaseHolds
       /\ LayerHolds' <=> LayerHolds
       /\ BaseCommit' = BaseCommit
  BY <1>4 DEF BaseHolds, LayerHolds, Delta, BaseCommit
<1>11. /\ n.at \notin Working
       /\ \A x : Told(n, x) <=> Told(w, x)
  BY <1>3 DEF Working, Told
<1>16. /\ \A x : x # s /\ x \in Doubted(w) => x \in Doubted(n)
       /\ \A x : x # s /\ x \notin due => (x \in n.unsure <=> x \in w.unsure)
       /\ \A x : x # s /\ x \notin due => (x \in Doubted(n) <=> x \in Doubted(w))
       /\ w.deaf \subseteq Doubted(n) /\ n.unsure \subseteq Doubted(n)
       /\ w.deaf \cup w.unsure = Doubted(w)
  BY <1>2, <1>3 DEF Doubted
<1>17. Base \in Scopes /\ Layer \in Scopes /\ Base # Layer
  BY TwoScopes
<1>18. CASE s = Base
  <2>1. Settled(Layer)' => /\ Settled(Layer)
                           /\ Layer \notin Doubted(n) => Layer \notin due /\ Layer \notin Doubted(w)
    BY <1>9, <1>16, <1>17, <1>18
  <2>2. /\ Base \in w.watched \cup Doubted(n) /\ Base \notin n.burst
        /\ Base \notin Doubted(n) => Base \notin w.deaf
    BY <1>3, <1>12, <1>13, <1>16, <1>18
  <2>3. Layer \notin n.watched \cup Doubted(n) => ~Settled(Layer)'
    BY <1>3, <1>5, <2>1
  <2>4. slips = {} /\ Settled(Layer)' /\ Layer \in w.watched \ Doubted(n) => layer.base = BaseCommit
    <3>1. Layer \in w.watched => Layer \in w.targets /\ ~w.registering
      BY <1>13, <1>17, <1>18 DEF Handled
    <3> QED
      BY <1>6, <1>12, <1>18, <2>1, <3>1
  <2> HIDE DEF w, n
  <2>5. Knows(p)'
    BY <1>3, <1>4, <1>5, <1>10, <1>11, <1>18, <2>1, <2>2, <2>3, <2>4, RestsKnowing DEF w, n
  <2> QED
    BY <1>8, <2>5
<1>19. CASE s = Layer
  <2>1. /\ Settled(Base)' <=> Settled(Base)
        /\ Base \in n.unsure <=> Base \in w.unsure
        /\ Base \in Doubted(n) <=> Base \in Doubted(w)
        /\ n.burst = w.burst
    BY <1>3, <1>9, <1>12, <1>16, <1>17, <1>19
  <2>2. /\ Layer \in n.watched \cup Doubted(n)
        /\ Layer \notin Doubted(n) => Layer \notin w.deaf
        /\ Base \notin Doubted(w) => Base \notin w.deaf /\ Base \notin w.unsure
    BY <1>3, <1>13, <1>16, <1>19
  <2> HIDE DEF w, n
  <2>3. Knows(p)'
    BY <1>3, <1>4, <1>5, <1>6, <1>10, <1>11, <1>19, <2>1, <2>2, RestsKnowing DEF w, n
  <2> QED
    BY <1>8, <2>3
<1> QED
  BY <1>17, <1>18, <1>19, TwoScopes

(* Rows that are all distrusted are not settled, and are in order.          *)
LEMMA MarkAllIs ==
  ASSUME TypeOK, CountsInOrder, rows' = MarkAll
  PROVE  CountsInOrder' /\ ~Settled(Base)' /\ ~Settled(Layer)'
<1>1. \A x \in Scopes : rows'[x] = IF rows[x].there THEN [rows[x] EXCEPT !.catchup = TRUE]
                                   ELSE rows[x]
  BY DEF MarkAll
<1>2. /\ \A x \in Scopes : rows[x] \in Row
      /\ \A x \in Scopes : InOrder(rows[x])
  BY RowsInOrder
<1>3. ASSUME NEW x \in Scopes
      PROVE  InOrder(rows'[x]) /\ ~SettledRow(rows'[x])
  <2> DEFINE r == rows[x]
             d == [r EXCEPT !.catchup = TRUE]
  <2>1. r \in Row /\ InOrder(r)
    BY <1>2
  <2>2. rows'[x] = IF r.there THEN d ELSE r
    BY <1>1
  <2> HIDE DEF r
  <2>3. ~SettledRow(d) /\ InOrder(d)
    BY <2>1, RowIs, Zenon
  <2>4. ~r.there => ~SettledRow(r)
    BY DEF SettledRow
  <2> HIDE DEF d
  <2> QED
    BY <2>1, <2>2, <2>3, <2>4
<1>4. CountsInOrder'
  BY <1>3 DEF CountsInOrder, InOrder
<1>5. ~Settled(Base)' /\ ~Settled(Layer)'
  BY <1>3, TwoScopes DEF Settled, SettledRow
<1> QED
  BY <1>4, <1>5

(* A server that becomes the leader distrusts every row.                    *)
LEMMA LeaderMarks ==
  ASSUME NEW p \in Servers, TypeOK, CountsInOrder, Mark(p)
  PROVE  Knows(p)' /\ CountsInOrder'
<1>1. worker'[p].at = "start" /\ worker'[p].watched = {} /\ worker'[p].burst = {}
  BY MarkIs DEF Blank
<1>5. CountsInOrder' /\ ~Settled(Base)' /\ ~Settled(Layer)'
  BY MarkAllIs DEF Mark
<1>7. worker'[p].at \notin Working
  BY <1>1 DEF Working
<1> QED
  BY <1>1, <1>5, <1>7, RestsKnowing


(* A thread that moves has not died.                                        *)
LEMMA ThreadLives ==
  ASSUME TypeOK, WorkersOrderly, NEW q \in Servers, OwnStep(q) \/ Panic(q)
  PROVE  worker[q].at # "dead"
<1>1. CASE Fail(q) \/ Refused(q) \/ ForgetFails(q) \/ Panic(q)
  <2>1. CASE Fail(q)
    BY <2>1, Zenon DEF Fail
  <2>2. CASE Refused(q) \/ ForgetFails(q)
    BY <2>2, Zenon DEF Refused, ForgetFails
  <2>3. CASE Panic(q)
    BY <2>3, Zenon DEF Panic, Alive
  <2> QED
    BY <1>1, <2>1, <2>2, <2>3
<1>2. CASE Discover(q) \/ Register(q) \/ PickDue(q) \/ Forget(q) \/ StartIndex(q)
           \/ Extract(q) \/ StartLayer(q) \/ IndexLayer(q)
  BY <1>2, Zenon DEF Discover, Register, PickDue, Forget, StartIndex, Extract, StartLayer,
     IndexLayer
<1>3. CASE Finish(q) \/ HearRescan(q) \/ Rediscover(q) \/ TakeDue(q)
  BY <1>3, Zenon DEF Finish, HearRescan, Rediscover, TakeDue
<1>4. ASSUME NEW s \in Scopes, HearScope(q, s)
      PROVE  worker[q].at # "dead"
  BY <1>4, Zenon DEF HearScope
<1> QED
  BY <1>1, <1>2, <1>3, <1>4, Zenon DEF OwnStep, WorkerStep

(* Whoever leads with a thread has just marked the rows, or did so before.  *)
LEMMA LeaderWas ==
  ASSUME TypeOK, WorkersOrderly, LeaseHeld, Next, NEW p \in Servers, lease' = p, Alive(p)'
  PROVE  Mark(p) \/ (lease = p /\ Alive(p))
<1> NoOne \notin Servers
  BY GraphWatchAssumption DEF GraphWatchAssumption
<1>1. ASSUME lease = p, worker'[p].at = worker[p].at
      PROVE  Alive(p)
  BY <1>1 DEF Alive
<1>2. CASE BaseMoves \/ Edit \/ SessionComesOrGoes
  <2>1. PICK e \in Scopes \cup {"control", "rescan"}, H \in SUBSET Servers : Queue(e, H)
    <3>1. CASE BaseMoves
      BY <3>1, TwoScopes DEF BaseMoves, Hearers
    <3>2. CASE Edit
      BY <3>2, TwoScopes DEF Edit, Hearers
    <3>3. CASE SessionComesOrGoes
      BY <3>3, TwoScopes DEF SessionComesOrGoes
    <3> QED
      BY <1>2, <3>1, <3>2, <3>3
  <2>2. worker'[p].at = worker[p].at
    BY <2>1, QueueIs DEF Waits
  <2> QED
    BY <1>1, <1>2, <2>2 DEF BaseMoves, Edit, SessionComesOrGoes
<1>3. CASE CliClaims \/ CliExtracts \/ CliKilled
  BY <1>1, <1>3 DEF CliClaims, CliExtracts, CliKilled
<1>4. ASSUME NEW q \in Servers, CallStep(q)
      PROVE  Mark(p) \/ (lease = p /\ Alive(p))
  <2>1. CASE TakeLease(q)
    <3>1. worker[p].at = "none"
      BY <2>1 DEF TakeLease, LeaseHeld
    <3> QED
      BY <2>1, <3>1 DEF TakeLease, Alive
  <2>2. CASE Mark(q)
    BY <2>2 DEF Mark, LeaseHeld
  <2>3. CASE CallWithoutWorker(q)
    BY <2>3 DEF CallWithoutWorker
  <2>4. CASE StartServer(q) \/ GiveUp(q) \/ Refresh(q)
    BY <1>1, <2>4 DEF StartServer, GiveUp, Refresh
  <2> QED
    BY <1>4, <2>1, <2>2, <2>3, <2>4 DEF CallStep
<1>5. ASSUME NEW q \in Servers, EventsLost(q) \/ Exit(q)
      PROVE  lease = p /\ Alive(p)
  <2>1. worker'[p].at = worker[p].at
    BY <1>5, EventsLostIs, ExitIs DEF Alone, Waits
  <2> QED
    BY <1>1, <1>5, <2>1 DEF EventsLost, Exit
<1>6. ASSUME NEW q \in Servers, Kill(q) \/ Joined(q)
      PROVE  lease = p /\ Alive(p)
  <2>1. Alone(q) /\ worker'[q].at = "none"
    BY <1>6, GoneIs DEF Blank
  <2>2. q # p /\ worker'[p].at = worker[p].at
    BY <2>1 DEF Alone, Alive
  <2> QED
    BY <1>1, <1>6, <2>2 DEF Kill, Joined
<1>7. ASSUME NEW q \in Servers, OwnStep(q) \/ Panic(q)
      PROVE  lease = p /\ Alive(p)
  <2>1. Alone(q) /\ worker[q].at # "none" /\ lease' = lease
    BY <1>7, ThreadMoves
  <2>2. CASE q # p
    BY <1>1, <2>1, <2>2 DEF Alone
  <2>3. CASE q = p
    <3>1. worker[q].at # "dead"
      BY <1>7, ThreadLives
    <3> QED
      BY <2>1, <2>3, <3>1 DEF Alive
  <2> QED
    BY <2>2, <2>3
<1>8. ASSUME NEW q \in Servers, MarkFails(q)
      PROVE  FALSE
  BY <1>8 DEF MarkFails
<1> QED
  BY <1>2, <1>3, <1>4, <1>5, <1>6, <1>7, <1>8, Zenon DEF Next, OwnStep

(* The steps of the leader's own thread.                                    *)
LEMMA LeaderSteps ==
  ASSUME NEW p \in Servers, TypeOK, WorkersOrderly, ClaimsAreKept, CountsInOrder, Knows(p),
         lease = p, OwnStep(p)
  PROVE  Knows(p)' /\ CountsInOrder'
<1>1. rows' = rows => CountsInOrder'
  BY DEF CountsInOrder
<1>2. CASE \/ Discover(p) \/ PickDue(p) \/ StartLayer(p) \/ Rediscover(p) \/ TakeDue(p)
           \/ Refused(p) \/ ForgetFails(p)
  BY <1>1, <1>2, LeaderPlans
<1>3. CASE StartIndex(p) \/ Extract(p)
  BY <1>1, <1>3, LeaderIndexes
<1>4. CASE IndexLayer(p)
  BY <1>1, <1>4, LeaderIndexesLayer
<1>5. CASE Register(p)
  BY <1>5, LeaderRegisters
<1>6. CASE Forget(p)
  BY <1>6, LeaderForgets
<1>7. CASE Finish(p)
  BY <1>7, LeaderFinishes
<1>8. CASE Fail(p)
  BY <1>8, LeaderFails
<1>9. CASE HearRescan(p)
  BY <1>9, LeaderRescans
<1>10. CASE \E s \in Scopes : HearScope(p, s)
  BY <1>10, LeaderHears
<1> QED
  BY <1>2, <1>3, <1>4, <1>5, <1>6, <1>7, <1>8, <1>9, <1>10, Zenon DEF OwnStep, WorkerStep

(* The rows are written by the leader, or the slip says so.                 *)
LEMMA RowsAreTheLeaders ==
  ASSUME TypeOK, LeaseHeld, Next, "late" \notin slips', rows' # rows
  PROVE  \E q \in Servers : lease = q /\ (Mark(q) \/ MarkFails(q) \/ OwnStep(q))
<1>1. ~(BaseMoves \/ Edit \/ SessionComesOrGoes \/ CliClaims \/ CliExtracts \/ CliKilled)
  BY Zenon DEF BaseMoves, Edit, SessionComesOrGoes, CliClaims, CliExtracts, CliKilled
<1>2. ASSUME NEW q \in Servers, Mark(q) \/ MarkFails(q)
      PROVE  lease = q
  <2>1. call[q] = "marking"
    BY <1>2, Zenon DEF Mark, MarkFails
  <2> QED
    BY <2>1 DEF LeaseHeld
<1>3. ASSUME NEW q \in Servers, CallStep(q)
      PROVE  Mark(q)
  BY <1>3, Zenon DEF CallStep, TakeLease, StartServer, GiveUp, CallWithoutWorker, StartRefresh,
     Refresh
<1>4. ASSUME NEW q \in Servers, EventsLost(q) \/ Exit(q) \/ Kill(q) \/ Panic(q)
             \/ Refused(q) \/ ForgetFails(q)
      PROVE  FALSE
  <2>1. CASE EventsLost(q) \/ Exit(q) \/ Kill(q)
    BY <2>1, Zenon DEF EventsLost, Exit, Kill
  <2>2. CASE Panic(q) \/ Refused(q) \/ ForgetFails(q)
    BY <2>2, Zenon DEF Panic, Refused, ForgetFails
  <2> QED
    BY <1>4, <2>1, <2>2
<1>5. ASSUME NEW q \in Servers, Fail(q)
      PROVE  lease = q
  <2>1. slips' = slips \cup (IF worker[q].at = "extract" THEN {"torn"} ELSE {})
                      \cup (IF lease = q THEN {} ELSE {"late"})
    BY <1>5, Zenon DEF Fail
  <2> QED
    BY <2>1
<1>6. ASSUME NEW q \in Servers, WorkerStep(q)
      PROVE  lease = q /\ ~Joined(q)
  <2>1. ~(Discover(q) \/ PickDue(q) \/ StartIndex(q) \/ Extract(q) \/ StartLayer(q)
          \/ IndexLayer(q) \/ Rediscover(q) \/ TakeDue(q) \/ Joined(q))
    BY Zenon DEF Discover, PickDue, StartIndex, Extract, StartLayer, IndexLayer, Rediscover,
       TakeDue, Joined
  <2>2. CASE Register(q) \/ Forget(q) \/ Finish(q) \/ HearRescan(q)
    <3>1. Writes(q)
      BY <2>2, Zenon DEF Register, Forget, Finish, HearRescan
    <3> QED
      BY <2>1, <3>1 DEF Writes
  <2>3. ASSUME NEW s \in Scopes, HearScope(q, s)
        PROVE  lease = q
    <3>1. Writes(q)
      BY <2>3, Zenon DEF HearScope
    <3> QED
      BY <3>1 DEF Writes
  <2> QED
    BY <1>6, <2>1, <2>2, <2>3, Zenon DEF WorkerStep
<1> QED
  BY <1>1, <1>2, <1>3, <1>4, <1>5, <1>6, Zenon DEF Next, OwnStep

(* The leader goes on knowing, whatever happens.                            *)
LEMMA NextLeader ==
  ASSUME TypeOK, LeaseHeld, ClaimsAreKept, WorkersOrderly, LeaderKnows, [Next]_vars
  PROVE  LeaderKnows'
<1> SUFFICES ASSUME "late" \notin slips'
             PROVE  /\ CountsInOrder'
                    /\ \A p \in Servers : lease' = p /\ Alive(p)' => Knows(p)'
  BY DEF LeaderKnows, Knows
<1>1. "late" \notin slips
  BY SlipsGrow
<1>2. CountsInOrder /\ \A p \in Servers : lease = p /\ Alive(p) => Knows(p)
  BY <1>1 DEF LeaderKnows, Knows
<1>3. ASSUME NEW q \in Servers, OwnStep(q)
      PROVE  worker[q].at \notin {"none", "dead"}
  BY <1>3, ThreadMoves, ThreadLives
<1>4. CountsInOrder'
  <2>1. CASE rows' = rows
    BY <1>2, <2>1 DEF CountsInOrder
  <2>2. CASE rows' # rows
    <3>1. Next
      BY <2>2 DEF vars
    <3>2. PICK q \in Servers : lease = q /\ (Mark(q) \/ MarkFails(q) \/ OwnStep(q))
      BY <2>2, <3>1, RowsAreTheLeaders
    <3>3. CASE Mark(q)
      BY <1>2, <3>3, LeaderMarks
    <3>5. CASE MarkFails(q)
      <4>1. rows' = MarkAll
        BY <2>2, <3>5, Zenon DEF MarkFails
      <4> QED
        BY <1>2, <4>1, MarkAllIs
    <3>4. CASE OwnStep(q)
      <4>1. Knows(q)
        BY <1>2, <1>3, <3>2, <3>4 DEF Alive
      <4> QED
        BY <1>2, <3>2, <3>4, <4>1, LeaderSteps
    <3> QED
      BY <3>2, <3>3, <3>4, <3>5
  <2> QED
    BY <2>1, <2>2
<1>5. ASSUME NEW p \in Servers, lease' = p, Alive(p)'
      PROVE  Knows(p)'
  <2>1. CASE UNCHANGED vars
    <3>1. lease = p /\ Alive(p)
      BY <1>5, <2>1 DEF vars, Alive
    <3> QED
      BY <1>2, <1>5, <2>1, <3>1, OthersStand
  <2>2. CASE Mark(p)
    BY <1>2, <2>2, LeaderMarks
  <2>3. CASE Next /\ ~Mark(p)
    <3>1. lease = p /\ Alive(p) /\ Knows(p)
      BY <1>2, <1>5, <2>3, LeaderWas
    <3>2. CASE BaseMoves \/ Edit \/ SessionComesOrGoes
      BY <3>1, <3>2, FilesStand
    <3>3. CASE CliClaims \/ CliExtracts \/ CliKilled
      BY <1>5, <3>1, <3>3, OthersStand
    <3>4. ASSUME NEW q \in Servers, CallStep(q) \/ EventsLost(q) \/ MarkFails(q)
          PROVE  Knows(p)'
      BY <1>5, <3>1, <3>4, OthersStand
    <3>5. ASSUME NEW q \in Servers, q # p,
                 OwnStep(q) \/ Joined(q) \/ Exit(q) \/ Kill(q) \/ Panic(q)
          PROVE  Knows(p)'
      BY <1>5, <3>1, <3>5, OthersStand
    <3>6. CASE OwnStep(p)
      BY <1>2, <3>1, <3>6, LeaderSteps
    <3>7. ~Joined(p) /\ ~Kill(p) /\ ~Panic(p) /\ ~Exit(p)
      <4>1. NoOne # p
        BY GraphWatchAssumption DEF GraphWatchAssumption
      <4>2. ~Exit(p) /\ ~Kill(p)
        BY <1>5, <3>1, <4>1 DEF Exit, Kill
      <4>3. ~Joined(p) /\ ~Panic(p)
        BY <1>5, GoneIs, PanicIs DEF Blank, Alive
      <4> QED
        BY <4>2, <4>3
    <3> QED
      BY <2>3, <3>2, <3>3, <3>4, <3>5, <3>6, <3>7, Zenon DEF Next, OwnStep
  <2> QED
    BY <2>1, <2>2, <2>3
<1> QED
  BY <1>4, <1>5


-----------------------------------------------------------------------------
(* The theorems.                                                            *)

(* The invariant holds at the start,                                        *)
LEMMA InitIInv ==
  ASSUME Init
  PROVE  IInv
<1>1. \A p \in Servers : worker[p] = NoWorker /\ call[p] = "off"
  BY DEF Init
<1>2. /\ 0 \in Commits /\ 0 \in Versions /\ 0 \in 0 .. MaxChanges /\ 0 \in 0 .. MaxMishaps
  BY GraphWatchAssumption DEF GraphWatchAssumption, Commits, Versions
<1>3. TypeOK
  <2>1. /\ head \in Commits /\ wt \in Versions /\ session \in BOOLEAN
        /\ base \in [commit : Commits \cup {Absent}, row : Commits \cup {Absent}]
        /\ layer \in [base : Commits \cup {Absent}, row : Versions \cup {Absent}]
    BY <1>2 DEF Init
  <2>2. rows \in [Scopes -> Row]
    BY DEF Init, Row, NoRow
  <2>3. worker \in [Servers -> Worker]
    BY NoWorkerIs DEF Init
  <2>4. spent \in [changes : 0..MaxChanges, mishaps : 0..MaxMishaps]
    BY <1>2 DEF Init
  <2>5. /\ lease \in Servers \cup {NoOne} /\ lock \in Servers \cup {Cli, NoOne}
        /\ call \in [Servers -> {"off", "idle", "marking", "layering", "closing"}]
        /\ asked \in [Servers -> Commits]
        /\ cli \in {"idle", "indexing"}
        /\ slips \subseteq {"late", "torn", "aside", "outdated"}
    BY <1>2 DEF Init
  <2> QED
    BY <2>1, <2>2, <2>3, <2>4, <2>5 DEF TypeOK
<1>4. \A p \in Servers : worker[p].at = "none" /\ lease # p /\ lock # p
  BY <1>1, NoWorkerIs, GraphWatchAssumption DEF Init, Blank, GraphWatchAssumption
<1>5. LeaseHeld
  BY <1>1, <1>4 DEF LeaseHeld
<1>6. ClaimsAreKept
  <2>1. base.commit = Absent /\ head = 0 /\ lock = NoOne /\ cli = "idle" /\ Cli # NoOne
    BY GraphWatchAssumption DEF Init, GraphWatchAssumption
  <2> QED
    BY <1>4, <2>1 DEF ClaimsAreKept, Absent
<1>7. WorkersOrderly
  BY <1>1, NoWorkerIs, BlankOrderly DEF WorkersOrderly
<1>8. LeaderKnows
  <2>1. CountsInOrder
    BY DEF Init, CountsInOrder, NoRow
  <2> QED
    BY <1>4, <2>1 DEF LeaderKnows
<1> QED
  BY <1>3, <1>5, <1>6, <1>7, <1>8 DEF IInv

(* and after every step.                                                    *)
LEMMA NextIInv ==
  ASSUME IInv, [Next]_vars
  PROVE  IInv'
  BY NextType, NextOrderly, NextLease, NextClaims, NextLeader DEF IInv

(* The inductive invariant holds: one leader and its thread, an index that  *)
(* holds what it claims, threads that watch their targets, and a leader     *)
(* that calls nothing settled but what is on the disk or on its way.        *)
THEOREM Inductive == Spec => []IInv
<1>1. Init => IInv
  BY InitIInv
<1>2. IInv /\ [Next]_vars => IInv'
  BY NextIInv
<1> QED
  BY <1>1, <1>2, PTL DEF Spec

(* What the leader calls settled is on the disk.                            *)
LEMMA SettledMirrors ==
  ASSUME IInv
  PROVE  GraphWatchInv
<1>1. TypeOK
  BY DEF IInv
<1>2. ASSUME Attentive, "late" \notin slips
      PROVE  LET w == worker[lease] IN
             /\ KnowsBase(w) /\ KnowsLayer(w) /\ KnowsView(w)
             /\ ~Told(w, Base) /\ ~Told(w, Layer) /\ w.at # "forget"
  BY <1>2 DEF IInv, LeaderKnows, Attentive, Told
<1>3. LayerMirrors
  <2> SUFFICES ASSUME Attentive, Settled(Layer), "late" \notin slips,
                      Layer \notin Doubted(worker[lease])
               PROVE  layer.base # Absent /\ layer.row = Delta(layer.base)
    BY DEF LayerMirrors
  <2> DEFINE w == worker[lease]
  <2>1. KnowsLayer(w) /\ ~Told(w, Layer) /\ w.at # "forget" /\ Layer \notin Doubted(w)
    BY <1>2
  <2>2. LayerHolds
    <3> HIDE DEF w
    <3> QED
      BY <2>1 DEF KnowsLayer
  <2> QED
    BY <2>2 DEF LayerHolds
<1>4. BaseMirrors
  <2> SUFFICES ASSUME Attentive, Settled(Base), slips \cap {"late", "torn"} = {},
                      Base \notin Doubted(worker[lease])
               PROVE  BaseHolds
    BY DEF BaseMirrors, BaseHolds
  <2>1. /\ KnowsBase(worker[lease]) /\ ~Told(worker[lease], Base) /\ "torn" \notin slips
        /\ Base \notin worker[lease].deaf /\ Base \notin worker[lease].unsure
    BY <1>2 DEF Doubted
  <2> QED
    BY <2>1 DEF KnowsBase
<1>5. ViewMirrors
  <2> SUFFICES ASSUME Attentive, Settled(Base), Settled(Layer), ~ReindexingBase, slips = {},
                      Scopes \cap Doubted(worker[lease]) = {}
               PROVE  View = wt
    BY DEF ViewMirrors
  <2>5. Base \notin Doubted(worker[lease]) /\ Layer \notin Doubted(worker[lease])
    BY TwoScopes
  <2>1. BaseHolds /\ layer.row = Delta(layer.base)
    BY <1>3, <1>4, <2>5 DEF BaseMirrors, LayerMirrors, BaseHolds
  <2>2. layer.base = BaseCommit
    <3> DEFINE w == worker[lease]
    <3>1. KnowsLayer(w) /\ KnowsView(w) /\ w.at # "forget"
      BY <1>2
    <3>2. Layer \in w.watched \ Doubted(w)
      BY <2>5, <3>1 DEF KnowsLayer
    <3>3. ~(w.at \in {"extract", "done"} /\ w.scope = Base)
      BY DEF ReindexingBase, Attentive
    <3> QED
      BY <3>1, <3>2, <3>3 DEF KnowsView
  <2>3. base.commit = head /\ base.row = head /\ head # Absent /\ wt # Absent
    BY <1>1, <2>1, DiskType DEF BaseHolds, TypeOK
  <2>4. layer.row = IF wt = head THEN Absent ELSE wt
    BY <2>1, <2>2, <2>3 DEF BaseCommit, Delta
  <2> QED
    BY <2>3, <2>4 DEF View
<1> QED
  BY <1>1, <1>3, <1>4, <1>5 DEF GraphWatchInv

(* The invariant of the index holds: every row is well formed, and what is  *)
(* called settled while a leader listens is what the files hold, layer by   *)
(* layer and through a query's view.                                        *)
THEOREM InvariantHolds == Spec => []GraphWatchInv
<1>1. IInv => GraphWatchInv
  BY SettledMirrors
<1> QED
  BY <1>1, Inductive, PTL
=============================================================================
