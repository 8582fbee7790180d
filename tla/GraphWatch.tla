----------------------------- MODULE GraphWatch -----------------------------
(***************************************************************************)
(* The code graph of a hall and the watcher that keeps it fresh.  Every    *)
(* `ivar graph mcp` server may become the leader by taking a lease; the    *)
(* leader runs one worker thread, which hears file events, debounces them  *)
(* and reindexes a scope.  A row of watch_scopes per scope tells the other *)
(* servers whether they may answer from the index as it is ("settled").    *)
(*                                                                         *)
(* One repository and one feature: the scope Base is the default-branch    *)
(* worktree, the scope Layer the feature's worktree, whose index is the    *)
(* difference to the commit the base index claims to hold.  One file is    *)
(* followed, its content a number: commit c has content c, edits in the    *)
(* feature's worktree have numbers above the commits.                      *)
(*                                                                         *)
(* The base worktree only moves from commit to commit.  A layer is indexed *)
(* under a lock of its feature and is one step.                            *)
(***************************************************************************)
EXTENDS Integers, FiniteSets

CONSTANTS
    Servers,      \* the `ivar graph mcp` processes
    Cli,          \* `ivar graph index`, `ivar sync`, refresh_index
    NoOne,        \* nobody holds a lock
    MaxCommits,   \* bound: commits the base worktree moves to
    MaxChanges,   \* bound: commits, edits, starts and stops of the session
    MaxMishaps,   \* bound: runs of Cli that index something, failures, exits,
                  \* kills, panics, lost events and refused writes
    MaxEvents     \* bound: changes and mishaps together

ASSUME GraphWatchAssumption ==
    /\ Cli \notin Servers /\ NoOne \notin Servers \cup {Cli}
    /\ {MaxCommits, MaxChanges, MaxMishaps, MaxEvents} \subseteq Nat

Base == "base"
Layer == "layer"
Scopes == {Base, Layer}
Commits == 0..MaxCommits
Versions == 0..(MaxCommits + MaxChanges)
Absent == -1       \* no commit, no row for the file, no count read

VARIABLES
    head,      \* the commit of the base worktree
    wt,        \* the content in the feature's worktree
    session,   \* the feature has a session directory
    base,      \* the base index: the commit it claims, the row of the file
    layer,     \* the layer: the commit it was compared with, its row
    rows,      \* watch_scopes
    lease,     \* the holder of graph-watch.lock
    lock,      \* the holder of graph.lock (lock_index)
    call,      \* where each server's tool call is
    asked,     \* the base commit a call's own refresh has read
    worker,    \* the worker thread of each server
    cli,       \* "indexing" while Cli extracts
    spent,     \* what has been used of the bounds
    slips      \* history: the ways out of the watcher's protocol taken so far

vars == <<head, wt, session, base, layer, rows, lease, lock, call, asked,
          worker, cli, spent, slips>>

disk == <<head, wt, session>>
index == <<base, layer>>
calls == <<call, asked>>

Row == [there : BOOLEAN, observed : Nat, indexed : Nat,
        catchup : BOOLEAN, error : BOOLEAN]
NoRow == [there |-> FALSE, observed |-> 0, indexed |-> 0,
          catchup |-> FALSE, error |-> FALSE]

(* What a worker thread holds: the targets of the last discovery, the       *)
(* scopes it has registered to watch, the events it has not received, the   *)
(* debounced bursts, and the scopes it is about to register or reindex.     *)
(* And what its failed calls have left behind, of which it knows nothing:   *)
(* the places that raise no event although they should (deaf), the scopes   *)
(* whose row does not count a burst or has outlived its target (unsure),    *)
(* and the unsettled ones that nothing is scheduled for (stuck).            *)
Worker == [at : {"none", "start", "pick", "reindex", "extract", "layer",
                 "done", "forget", "idle", "dead"},
           fresh : BOOLEAN, stopping : BOOLEAN, registering : BOOLEAN,
           targets : SUBSET Scopes, watched : SUBSET Scopes,
           chan : SUBSET (Scopes \cup {"control", "rescan"}),
           burst : SUBSET Scopes, todo : SUBSET Scopes, scope : Scopes,
           seq : Nat \cup {Absent}, clear : BOOLEAN,
           before : Commits \cup {Absent},
           deaf : SUBSET (Scopes \cup {"control"}), unsure : SUBSET Scopes,
           stuck : SUBSET Scopes]

NoWorker == [at |-> "none", fresh |-> TRUE, stopping |-> FALSE,
             registering |-> TRUE, targets |-> {}, watched |-> {},
             chan |-> {}, burst |-> {}, todo |-> {}, scope |-> Base,
             seq |-> 0, clear |-> FALSE, before |-> Absent,
             deaf |-> {}, unsure |-> {}, stuck |-> {}]

TypeOK ==
    /\ head \in Commits /\ wt \in Versions /\ session \in BOOLEAN
    /\ base \in [commit : Commits \cup {Absent}, row : Commits \cup {Absent}]
    /\ layer \in [base : Commits \cup {Absent}, row : Versions \cup {Absent}]
    /\ rows \in [Scopes -> Row]
    /\ lease \in Servers \cup {NoOne} /\ lock \in Servers \cup {Cli, NoOne}
    /\ call \in [Servers -> {"off", "idle", "marking", "layering",
                             "closing"}]
    /\ asked \in [Servers -> Commits]
    /\ worker \in [Servers -> Worker]
    /\ cli \in {"idle", "indexing"}
    /\ spent \in [changes : 0..MaxChanges, mishaps : 0..MaxMishaps]
    /\ slips \subseteq {"late", "torn", "aside", "outdated"}

Init ==
    /\ head = 0 /\ wt = 0 /\ session \in BOOLEAN
    /\ base = [commit |-> Absent, row |-> Absent]
    /\ layer = [base |-> Absent, row |-> Absent]
    /\ rows = [s \in Scopes |-> NoRow]
    /\ lease = NoOne /\ lock = NoOne
    /\ call = [p \in Servers |-> "off"] /\ asked = [p \in Servers |-> 0]
    /\ worker = [p \in Servers |-> NoWorker]
    /\ cli = "idle"
    /\ spent = [changes |-> 0, mishaps |-> 0]
    /\ slips = {}

Alive(p) == worker[p].at \notin {"none", "dead"}

(* watch_settled for one scope.                                             *)
Settled(s) ==
    /\ rows[s].there /\ rows[s].indexed >= rows[s].observed
    /\ ~rows[s].catchup /\ ~rows[s].error

(* The row of the file in a layer compared with commit c: a layer holds     *)
(* only what differs.                                                       *)
Delta(c) == IF wt = c THEN Absent ELSE wt

(* What a query over the mounted layer sees of the file.                    *)
View == IF layer.row # Absent THEN layer.row ELSE base.row

(* The commit a layer is compared with; commit 0 is the promotion's.        *)
BaseCommit == IF base.commit # Absent THEN base.commit ELSE 0

Room == spent.changes + spent.mishaps < MaxEvents
Mishap == /\ Room /\ spent.mishaps < MaxMishaps
          /\ spent' = [spent EXCEPT !.mishaps = @ + 1]
WithoutMishap(ok) == IF ok THEN UNCHANGED spent ELSE Mishap
Change == /\ Room /\ spent.changes < MaxChanges
          /\ spent' = [spent EXCEPT !.changes = @ + 1]

(***************************************************************************)
(* The files.  The operating system queues an event for every worker that  *)
(* watches the place.                                                      *)
(***************************************************************************)
Queue(e, hearers) ==
    worker' = [p \in Servers |->
                  IF p \in hearers THEN [worker[p] EXCEPT !.chan = @ \cup {e}]
                  ELSE worker[p]]

Hearers(s) ==
    {p \in Servers : Alive(p) /\ s \in worker[p].watched \ worker[p].deaf}

BaseMoves ==
    /\ head < MaxCommits /\ Change
    /\ head' = head + 1
    /\ Queue(Base, Hearers(Base))
    /\ UNCHANGED <<wt, session, index, rows, lease, lock, calls, cli, slips>>

(* The feature's worktree is edited, or takes over the base's content.      *)
Edit ==
    /\ Change
    /\ wt' \in {head, MaxCommits + spent'.changes}
    /\ Queue(Layer, Hearers(Layer))
    /\ UNCHANGED <<head, session, index, rows, lease, lock, calls, cli, slips>>

SessionComesOrGoes ==
    /\ Change
    /\ session' = ~session
    /\ Queue("control", {p \in Servers : /\ Alive(p) /\ worker[p].at # "start"
                                         /\ "control" \notin worker[p].deaf})
    /\ UNCHANGED <<head, wt, index, rows, lease, lock, calls, cli, slips>>

(* The queue of events overflows: what it held is lost, one event says so.  *)
EventsLost(p) ==
    /\ Alive(p) /\ worker[p].chan # {} /\ Mishap
    /\ worker' = [worker EXCEPT ![p].chan = {"rescan"}]
    /\ UNCHANGED <<disk, index, rows, lease, lock, calls, cli, slips>>

(***************************************************************************)
(* The base index.  index_repo writes the commit it is about to hold       *)
(* first, and the rows of the files after.                                 *)
(***************************************************************************)
UpToDate == base.commit = head
Claim == base' = [base EXCEPT !.commit = head]
ExtractRows == base' = [base EXCEPT !.row = head]

CliClaims ==
    /\ cli = "idle" /\ lock = NoOne /\ ~UpToDate
    /\ Mishap
    /\ lock' = Cli /\ cli' = "indexing"
    /\ Claim
    /\ slips' = slips \cup {"aside"}
    /\ UNCHANGED <<disk, layer, rows, lease, calls, worker>>

CliExtracts ==
    /\ cli = "indexing"
    /\ ExtractRows
    /\ cli' = "idle" /\ lock' = NoOne
    /\ UNCHANGED <<disk, layer, rows, lease, calls, worker, spent, slips>>

CliKilled ==
    /\ cli = "indexing"
    /\ cli' = "idle" /\ lock' = NoOne
    /\ slips' = slips \cup {"torn"}
    /\ UNCHANGED <<disk, index, rows, lease, calls, worker, spent>>

(***************************************************************************)
(* The tool calls of a server.  Watch::probe runs first; where it finds a  *)
(* leader the call waits until the layer is settled, which only reads, so   *)
(* a call is one step at the moment its wait ends.                         *)
(***************************************************************************)
TakeLease(p) ==
    /\ call[p] \in {"off", "idle"} /\ lease = NoOne
    /\ lease' = p
    /\ call' = [call EXCEPT ![p] = "marking"]
    /\ UNCHANGED <<disk, index, rows, lock, asked, worker, cli, spent, slips>>

(* mcp_cmd, where another server leads.                                     *)
StartServer(p) ==
    /\ call[p] = "off" /\ lease # NoOne
    /\ call' = [call EXCEPT ![p] = "idle"]
    /\ UNCHANGED <<disk, index, rows, lease, lock, asked, worker, cli, spent,
                   slips>>

MarkAll == [s \in Scopes |-> IF rows[s].there
                             THEN [rows[s] EXCEPT !.catchup = TRUE]
                             ELSE rows[s]]

(* The new leader distrusts every row, then spawns its worker.              *)
Mark(p) ==
    /\ call[p] = "marking"
    /\ rows' = MarkAll
    /\ worker' = [worker EXCEPT ![p] = [NoWorker EXCEPT !.at = "start"]]
    /\ call' = [call EXCEPT ![p] = "idle"]
    /\ UNCHANGED <<disk, index, lease, lock, asked, cli, spent, slips>>

(* The server indexes the layer itself (ensure_session_freshness): it reads *)
(* the commit of the base, then takes the feature's lock.                   *)
StartRefresh(p) ==
    /\ call' = [call EXCEPT ![p] = "layering"]
    /\ asked' = [asked EXCEPT ![p] = BaseCommit]
    /\ UNCHANGED <<disk, index, rows, lock, cli, spent, slips>>

(* No row for the layer, or the two seconds are over; a settled layer is    *)
(* answered from as it is, which changes nothing.                           *)
GiveUp(p) ==
    /\ call[p] = "idle" /\ lease # NoOne /\ (lease = p => Alive(p))
    /\ ~Settled(Layer)
    /\ StartRefresh(p)
    /\ UNCHANGED <<lease, worker>>

(* The server leads and its worker has died: it releases the lease.         *)
CallWithoutWorker(p) ==
    /\ call[p] = "idle" /\ lease = p /\ ~Alive(p)
    /\ StartRefresh(p)
    /\ lease' = NoOne
    /\ worker' = [worker EXCEPT ![p] = NoWorker]

(* The rows cannot be marked, or no worker spawned: the call goes on        *)
(* without a leader.                                                        *)
MarkFails(p) ==
    /\ call[p] = "marking" /\ Mishap
    /\ call' = [call EXCEPT ![p] = "layering"]
    /\ asked' = [asked EXCEPT ![p] = BaseCommit]
    /\ lease' = NoOne
    /\ rows' \in {rows, MarkAll}
    /\ UNCHANGED <<disk, index, lock, worker, cli, slips>>

Refresh(p) ==
    /\ call[p] = "layering"
    /\ layer' = [base |-> asked[p], row |-> Delta(asked[p])]
    /\ slips' = IF asked[p] = BaseCommit THEN slips ELSE slips \cup {"outdated"}
    /\ call' = [call EXCEPT ![p] = "idle"]
    /\ asked' = [asked EXCEPT ![p] = 0]
    /\ UNCHANGED <<disk, base, rows, lease, lock, worker, cli, spent>>

(***************************************************************************)
(* The worker thread.  A step that writes a row while another process      *)
(* holds the lease is recorded as a slip.                                  *)
(***************************************************************************)
Writes(p) == slips' = IF lease = p THEN slips ELSE slips \cup {"late"}

Targets == IF session THEN Scopes ELSE {Base}

(* The control directories are watched first; the system may refuse.        *)
Discover(p) ==
    /\ worker[p].at = "start"
    /\ \E heard \in BOOLEAN :
          /\ WithoutMishap(heard)
          /\ worker' = [worker EXCEPT ![p].at = "pick", ![p].targets = Targets,
                            ![p].todo = Targets,
                            ![p].deaf = IF heard THEN {} ELSE {"control"}]
    /\ UNCHANGED <<disk, index, rows, lease, lock, calls, cli, slips>>

FirstOf(S) == IF Base \in S THEN Base ELSE Layer

(* The thread takes the next scope of the batch; after the first batch it   *)
(* drops the rows without a target, then it waits for events.               *)
Rest(w) ==
    [w EXCEPT !.at = IF w.todo # {} THEN "pick"
                     ELSE IF w.fresh THEN "forget" ELSE "idle",
              !.scope = Base, !.seq = 0, !.clear = FALSE, !.before = Absent,
              !.registering = @ /\ w.todo # {}]

(* watch_register, the file watches, the observed count: all before the     *)
(* scope is indexed. A watch that is refused, or a count that cannot be     *)
(* read, stops nothing.                                                     *)
Register(p) ==
    LET w == worker[p]
        s == FirstOf(w.todo)
    IN  /\ w.at = "pick" /\ w.registering
        /\ rows' = [rows EXCEPT ![s].there = TRUE, ![s].catchup = TRUE]
        /\ \E heard, read \in BOOLEAN :
              /\ WithoutMishap(heard /\ read)
              /\ worker' = [worker EXCEPT ![p] =
                     [w EXCEPT !.at = "reindex", !.todo = @ \ {s}, !.scope = s,
                         !.watched = @ \cup {s},
                         !.deaf = IF heard THEN @ ELSE @ \cup {s},
                         !.seq = IF read THEN rows[s].observed ELSE Absent,
                         !.clear = TRUE, !.before = base.commit]]
        /\ Writes(p)
        /\ UNCHANGED <<disk, index, lease, lock, calls, cli>>

(* watch_register fails: the target has no watch, and nobody tries again.   *)
Refused(p) ==
    LET w == worker[p]
        s == FirstOf(w.todo)
    IN  /\ w.at = "pick" /\ w.registering /\ Mishap
        /\ worker' = [worker EXCEPT ![p] =
               Rest([w EXCEPT !.todo = @ \ {s}, !.deaf = @ \cup {s}])]
        /\ UNCHANGED <<disk, index, rows, lease, lock, calls, cli, slips>>

(* A due scope: the count and the flag are read before it is indexed; what  *)
(* cannot be read counts as nothing.                                        *)
PickDue(p) ==
    LET w == worker[p]
        s == FirstOf(w.todo)
        left == [w EXCEPT !.todo = @ \ {s}]
    IN  /\ w.at = "pick" /\ ~w.registering
        /\ \E read \in BOOLEAN :
              /\ WithoutMishap(read)
              /\ worker' = [worker EXCEPT ![p] =
                     IF s \in w.targets
                     THEN [left EXCEPT !.at = "reindex", !.scope = s,
                              !.seq = IF read THEN rows[s].observed ELSE Absent,
                              !.clear = read /\ rows[s].catchup,
                              !.before = base.commit]
                     ELSE Rest(left)]
        /\ UNCHANGED <<disk, index, rows, lease, lock, calls, cli, slips>>

(* forget_rows_without_target, under the index lock.                        *)
Kept(s, T) == IF s \in T THEN rows[s] ELSE NoRow

Forget(p) ==
    /\ worker[p].at = "forget" /\ lock = NoOne
    /\ rows' = [s \in Scopes |-> Kept(s, worker[p].targets)]
    /\ worker' = [worker EXCEPT ![p] = Rest([@ EXCEPT !.fresh = FALSE])]
    /\ Writes(p)
    /\ UNCHANGED <<disk, index, lease, lock, calls, cli, spent>>

(* The lock or the deletion fails: a settled row outlives its target.       *)
ForgetFails(p) ==
    LET w == worker[p]
    IN  /\ w.at = "forget" /\ Mishap
        /\ worker' = [worker EXCEPT ![p] =
               Rest([w EXCEPT !.fresh = FALSE,
                              !.unsure = @ \cup (Scopes \ w.targets)])]
        /\ UNCHANGED <<disk, index, rows, lease, lock, calls, cli, slips>>

StartIndex(p) ==
    /\ worker[p].at = "reindex" /\ worker[p].scope = Base /\ lock = NoOne
    /\ IF UpToDate
       THEN /\ worker' = [worker EXCEPT ![p].at = "done"]
            /\ UNCHANGED <<base, lock, slips>>
       ELSE /\ Claim
            /\ lock' = p
            /\ worker' = [worker EXCEPT ![p].at = "extract"]
            /\ slips' = IF lease = p THEN slips ELSE slips \cup {"aside"}
    /\ UNCHANGED <<disk, layer, rows, lease, calls, cli, spent>>

Extract(p) ==
    /\ worker[p].at = "extract"
    /\ ExtractRows
    /\ lock' = NoOne
    /\ worker' = [worker EXCEPT ![p].at = "done"]
    /\ UNCHANGED <<disk, layer, rows, lease, calls, cli, spent, slips>>

StartLayer(p) ==
    /\ worker[p].at = "reindex" /\ worker[p].scope = Layer
    /\ worker' = [worker EXCEPT ![p].at = "layer", ![p].before = BaseCommit]
    /\ UNCHANGED <<disk, index, rows, lease, lock, calls, cli, spent, slips>>

IndexLayer(p) ==
    LET c == worker[p].before
    IN  /\ worker[p].at = "layer"
        /\ layer' = [base |-> c, row |-> Delta(c)]
        /\ slips' = IF c = BaseCommit THEN slips ELSE slips \cup {"outdated"}
        /\ worker' = [worker EXCEPT ![p].at = "done"]
        /\ UNCHANGED <<disk, base, rows, lease, lock, calls, cli, spent>>

Larger(m, n) == IF m >= n THEN m ELSE n

(* watch_finish.                                                            *)
Finished(r, seq, clear) ==
    [r EXCEPT !.indexed = Larger(@, seq), !.error = FALSE,
              !.catchup = @ /\ ~clear]

(* Mutant: a base moves and its layers stay.                                *)
InvalidatedNever(w) == {}

(* The layers of a base that has moved are due again.                       *)
Invalidated(w) ==
    IF /\ w.scope = Base /\ ~w.registering
       /\ base.commit # w.before
    THEN w.targets \cap {Layer} ELSE {}

Bumped(r) == IF r.there THEN [r EXCEPT !.observed = @ + 1] ELSE r

(* Either write may fail, and nothing makes up for it; the layers are due   *)
(* all the same.                                                            *)
Finish(p) ==
    LET w == worker[p]
        s == w.scope
        due == Invalidated(w)
        done == IF rows[s].there THEN Finished(rows[s], w.seq, w.clear)
                                 ELSE rows[s]
    IN  /\ w.at = "done"
        /\ \E saved, counted \in BOOLEAN :
              /\ WithoutMishap(saved /\ counted)
              /\ rows' = [x \in Scopes |->
                            IF x = s /\ saved THEN done
                            ELSE IF x \in due /\ counted THEN Bumped(rows[x])
                            ELSE rows[x]]
              /\ worker' = [worker EXCEPT ![p] =
                     Rest([w EXCEPT
                         !.burst = @ \cup due,
                         !.unsure = (@ \ {s}) \cup (IF counted THEN {} ELSE due),
                         !.stuck = (IF saved /\ w.seq # Absent THEN @ \ {s}
                                    ELSE @ \cup {s}) \ due])]
        /\ Writes(p)
        /\ UNCHANGED <<disk, index, lease, lock, calls, cli>>

(* Mutant: a failure schedules no retry.                                    *)
RetryNever(w) == Rest(w)

(* The reindex fails: watch_fail, which may fail as well, and a retry is    *)
(* scheduled.                                                               *)
Retry(w) == Rest([w EXCEPT !.burst = @ \cup {w.scope}, !.stuck = @ \ {w.scope}])

Fail(p) ==
    LET w == worker[p]
    IN  /\ w.at \in {"reindex", "extract", "layer"} /\ Mishap
        /\ \/ /\ rows' = [rows EXCEPT ![w.scope] =
                     IF @.there THEN [@ EXCEPT !.error = TRUE, !.catchup = TRUE]
                     ELSE @]
              /\ worker' = [worker EXCEPT ![p] = Retry(w)]
           \/ /\ UNCHANGED rows
              /\ worker' = [worker EXCEPT ![p] =
                     Retry([w EXCEPT !.unsure = @ \cup {w.scope}])]
        /\ lock' = IF lock = p THEN NoOne ELSE lock
        /\ slips' = slips \cup (IF w.at = "extract" THEN {"torn"} ELSE {})
                          \cup (IF lease = p THEN {} ELSE {"late"})
        /\ UNCHANGED <<disk, index, lease, calls, cli>>

(* One event out of the channel: handle_fs_event. Only the first of a burst *)
(* is counted, where the write succeeds; a burst left over from a batch     *)
(* that has already indexed the scope, or one that was not counted, leaves  *)
(* a settled row behind the files until the burst is due.                   *)
HearScope(p, s) ==
    LET w == worker[p]
        news == s \notin w.burst
    IN  /\ w.at = "idle" /\ s \in w.chan
        /\ IF s \in w.watched
           THEN \E counted \in IF news THEN BOOLEAN ELSE {FALSE} :
                  /\ WithoutMishap(news => counted)
                  /\ rows' = IF counted THEN [rows EXCEPT ![s] = Bumped(@)]
                                        ELSE rows
                  /\ worker' = [worker EXCEPT ![p] =
                         [w EXCEPT !.chan = @ \ {s}, !.burst = @ \cup {s},
                                   !.stuck = @ \ {s},
                                   !.unsure = IF ~counted /\ Settled(s)
                                              THEN @ \cup {s} ELSE @]]
                  /\ Writes(p)
           ELSE /\ worker' = [worker EXCEPT ![p].chan = @ \ {s}]
                /\ UNCHANGED <<rows, slips, spent>>
        /\ UNCHANGED <<disk, index, lease, lock, calls, cli>>

(* Every target is flagged, but for those whose row cannot be written.      *)
HearRescan(p) ==
    LET w == worker[p]
    IN  /\ w.at = "idle" /\ "rescan" \in w.chan
        /\ \E flagged \in SUBSET w.targets :
              /\ WithoutMishap(flagged = w.targets)
              /\ rows' = [s \in Scopes |->
                     IF s \in flagged /\ rows[s].there
                     THEN [rows[s] EXCEPT !.catchup = TRUE] ELSE rows[s]]
              /\ worker' = [worker EXCEPT ![p] =
                     [w EXCEPT !.chan = @ \ {"rescan"},
                               !.burst = @ \cup w.targets,
                               !.stuck = @ \ w.targets,
                               !.unsure = @ \cup (w.targets \ flagged)]]
        /\ Writes(p)
        /\ UNCHANGED <<disk, index, lease, lock, calls, cli>>

(* A session came or went: what is no target any more is not watched and    *)
(* its row is dropped, then the new targets are registered.                 *)
Rediscover(p) ==
    LET w == worker[p]
    IN  /\ w.at = "idle" /\ "control" \in w.chan
        /\ \E heard \in BOOLEAN :
              /\ WithoutMishap(heard)
              /\ worker' = [worker EXCEPT ![p] =
                     [w EXCEPT !.chan = @ \ {"control"}, !.at = "forget",
                         !.registering = TRUE, !.targets = Targets,
                         !.watched = @ \cap Targets,
                         !.deaf = (@ \cap Targets)
                                    \cup (IF heard THEN {} ELSE {"control"}),
                         !.todo = Targets \ w.targets]]
        /\ UNCHANGED <<disk, index, rows, lease, lock, calls, cli, slips>>

TakeDue(p) ==
    LET w == worker[p]
    IN  /\ w.at = "idle"
        /\ \E D \in (SUBSET w.burst) \ {{}} :
              worker' = [worker EXCEPT ![p] =
                  [w EXCEPT !.burst = @ \ D, !.todo = D,
                            !.registering = FALSE, !.at = "pick"]]
        /\ UNCHANGED <<disk, index, rows, lease, lock, calls, cli, spent,
                       slips>>

(***************************************************************************)
(* A server ends: by itself (the lease is released before the worker is    *)
(* joined), killed, or its worker thread panics.                           *)
(***************************************************************************)
Exit(p) ==
    /\ call[p] = "idle" /\ Mishap
    /\ lease' = IF lease = p THEN NoOne ELSE lease
    /\ worker' = [worker EXCEPT ![p].stopping = Alive(p)]
    /\ call' = [call EXCEPT ![p] = "closing"]
    /\ UNCHANGED <<disk, index, rows, lock, asked, cli, slips>>

Joined(p) ==
    /\ call[p] = "closing"
    /\ worker[p].at \in {"none", "dead", "idle"}
    /\ worker' = [worker EXCEPT ![p] = NoWorker]
    /\ call' = [call EXCEPT ![p] = "off"]
    /\ UNCHANGED <<disk, index, rows, lease, lock, asked, cli, spent, slips>>

Torn(p) == slips' = IF worker[p].at = "extract" THEN slips \cup {"torn"}
                                                ELSE slips

Kill(p) ==
    /\ call[p] # "off" /\ Mishap
    /\ Torn(p)
    /\ lease' = IF lease = p THEN NoOne ELSE lease
    /\ lock' = IF lock = p THEN NoOne ELSE lock
    /\ worker' = [worker EXCEPT ![p] = NoWorker]
    /\ call' = [call EXCEPT ![p] = "off"]
    /\ asked' = [asked EXCEPT ![p] = 0]
    /\ UNCHANGED <<disk, index, rows, cli>>

Panic(p) ==
    /\ Alive(p) /\ Mishap
    /\ Torn(p)
    /\ lock' = IF lock = p THEN NoOne ELSE lock
    /\ worker' = [worker EXCEPT ![p] =
                     [NoWorker EXCEPT !.at = "dead"]]
    /\ UNCHANGED <<disk, index, rows, lease, calls, cli>>

WorkerStep(p) ==
    \/ Discover(p) \/ Register(p) \/ PickDue(p) \/ Forget(p)
    \/ StartIndex(p) \/ Extract(p) \/ StartLayer(p) \/ IndexLayer(p)
    \/ Finish(p) \/ HearRescan(p) \/ Rediscover(p) \/ TakeDue(p) \/ Joined(p)
    \/ \E s \in Scopes : HearScope(p, s)

CallStep(p) ==
    \/ TakeLease(p) \/ StartServer(p) \/ Mark(p)
    \/ GiveUp(p) \/ CallWithoutWorker(p) \/ Refresh(p)

Next ==
    \/ BaseMoves \/ Edit \/ SessionComesOrGoes
    \/ CliClaims \/ CliExtracts \/ CliKilled
    \/ \E p \in Servers :
          \/ WorkerStep(p) \/ CallStep(p)
          \/ EventsLost(p) \/ MarkFails(p) \/ Refused(p) \/ ForgetFails(p)
          \/ Fail(p) \/ Exit(p) \/ Kill(p) \/ Panic(p)

(* The threads run; a call that began goes on; Cli ends. Nobody need call.  *)
Fairness ==
    /\ \A p \in Servers : WF_vars(WorkerStep(p)) /\ WF_vars(Mark(p))
    /\ WF_vars(CliExtracts)

Spec == Init /\ [][Next]_vars /\ Fairness

(***************************************************************************)
(* Properties.                                                             *)
(***************************************************************************)

(* The leader has marked the rows, its thread lives and has handled every   *)
(* event it was sent: what the rows say now is what a server goes by.       *)
Attentive ==
    /\ lease \in Servers /\ call[lease] # "marking"
    /\ Alive(lease)
    /\ worker[lease].chan = {} /\ worker[lease].at # "forget"

(* The scopes a worker cannot answer for: a watch, a registration or a      *)
(* write of a row has failed it.                                            *)
Doubted(w) == w.deaf \cup w.unsure

(* A layer called settled is the difference between the feature's worktree  *)
(* and the commit it names, through failures, lost events, sessions that    *)
(* come and go and any change of leader; unless a worker wrote a row after  *)
(* its process had released the lease, or the scope is doubted.             *)
LayerMirrors ==
    (/\ Attentive /\ Settled(Layer) /\ "late" \notin slips
     /\ Layer \notin Doubted(worker[lease])) =>
        /\ layer.base # Absent
        /\ layer.row = Delta(layer.base)

(* A base index called settled holds the worktree's commit, with the same   *)
(* exceptions, and unless an index run was cut between its claim and its    *)
(* rows.                                                                    *)
BaseMirrors ==
    (/\ Attentive /\ Settled(Base) /\ slips \cap {"late", "torn"} = {}
     /\ Base \notin Doubted(worker[lease])) =>
        base = [commit |-> head, row |-> head]

ReindexingBase ==
    \E p \in Servers : /\ worker[p].at \in {"extract", "done"}
                       /\ worker[p].scope = Base

(* A query over a settled base and a settled layer reads the feature's own  *)
(* file: a base that moves takes its layers along. As long as only the      *)
(* leader's worker moves the base.                                          *)
ViewMirrors ==
    (/\ Attentive /\ Settled(Base) /\ Settled(Layer) /\ ~ReindexingBase
     /\ slips = {} /\ Scopes \cap Doubted(worker[lease]) = {}) => View = wt

(* The invariant of the index: well formed, and whatever is called settled *)
(* is what the files hold, layer by layer and through a query's view.      *)
GraphWatchInv == TypeOK /\ LayerMirrors /\ BaseMirrors /\ ViewMirrors

(* event_loop.rs: "When a base repo's commit changes, invalidate all layer  *)
(* scopes of the same repo." The same, whoever changes the commit, and only *)
(* while the leader has nothing left to do.                                 *)
LayersFollowTheBase ==
    (/\ Attentive /\ Settled(Base) /\ Settled(Layer)
     /\ worker[lease].at = "idle" /\ worker[lease].burst = {}
     /\ cli = "idle" /\ slips \subseteq {"aside"}
     /\ Scopes \cap Doubted(worker[lease]) = {}) => View = wt

(* A leader gets every target it could register settled again and again: no *)
(* failed index run, lost event or missed retry leaves a scope to time out  *)
(* on every call. What it cannot make up for is a count that was not read   *)
(* or a finish that was not written (stuck), until the scope's next event.  *)
LeaderSettles ==
    []<>(\/ "late" \in slips
         \/ \A p \in Servers :
               (lease = p /\ Alive(p)) =>
                   \A s \in worker[p].targets :
                       \/ Settled(s) \/ s \in worker[p].stuck
                       \/ s \in worker[p].deaf \ worker[p].watched)
-----------------------------------------------------------------------------
(* The inductive invariant: what GraphWatchInv rests on.                    *)

(* Only the leader has a worker, but for a server that is closing; whoever  *)
(* marks the rows leads and has no worker yet.                              *)
LeaseHeld ==
    \A p \in Servers :
        /\ call[p] = "marking" => lease = p /\ worker[p].at = "none"
        /\ call[p] \in {"off", "closing"} => lease # p
        /\ worker[p].at # "none" => lease = p \/ call[p] = "closing"

(* Who extracts holds the index lock. Where nobody does, an index that      *)
(* claims the worktree's commit holds its rows, unless a run was cut.       *)
ClaimsAreKept ==
    /\ base.commit <= head
    /\ cli = "indexing" <=> lock = Cli
    /\ \A p \in Servers : worker[p].at = "extract" <=> lock = p
    /\ (lock = NoOne /\ base.commit = head /\ "torn" \notin slips)
          => base.row = head

Working == {"reindex", "extract", "layer", "done"}

(* The targets a worker has dealt with: it watches them, or was refused.    *)
Handled(w) == w.watched \cup (w.deaf \cap Scopes)

(* A worker has dealt with its targets, or is about to, the base first; the *)
(* scope at work is in no list, and a burst on the base is in none but its  *)
(* own.                                                                     *)
Orderly(w) ==
    /\ w.at = "start" => /\ Handled(w) = {} /\ w.burst = {}
                         /\ w.todo = {} /\ w.registering
    /\ w.at \notin {"none", "dead", "start"} =>
          /\ Base \in w.targets /\ Handled(w) \subseteq w.targets
          /\ w.targets \ Handled(w) \subseteq w.todo
          /\ w.targets # Handled(w) => w.registering
          /\ w.registering => /\ w.todo \subseteq w.targets \ Handled(w)
                              /\ Base \in w.todo => Handled(w) = {}
    /\ w.at = "pick" => w.todo # {}
    /\ w.at = "idle" => w.todo = {}
    /\ w.at \in Working =>
          /\ w.scope \in Handled(w) \ w.todo
          /\ w.registering /\ w.scope = Base => Handled(w) = {Base}
    /\ w.at = "extract" => w.scope = Base
    /\ w.at = "layer" => w.scope = Layer /\ w.before \in Commits
    /\ Base \in w.burst => /\ Base \in Handled(w) \ w.todo
                           /\ ~(w.at \in Working /\ w.scope = Base)

WorkersOrderly == \A p \in Servers : Orderly(worker[p])

(* An event for the scope, or one that stands for all, is on its way.       *)
Told(w, s) == w.chan \cap {s, "rescan"} # {}

CountsInOrder == \A s \in Scopes : rows[s].indexed <= rows[s].observed

BaseHolds == base = [commit |-> head, row |-> head]
LayerHolds == layer.base # Absent /\ layer.row = Delta(layer.base)

(* What the leader's worker goes by, but for the scopes it cannot answer    *)
(* for. A scope it does not watch is not settled; one it calls settled, or  *)
(* has indexed, holds what is on disk or an event is on its way.            *)
KnowsBase(w) ==
    /\ Base \notin w.watched \cup Doubted(w) => ~Settled(Base)
    /\ Base \in w.burst /\ Base \notin w.unsure => ~Settled(Base)
    /\ "torn" \notin slips /\ Base \notin w.deaf =>
          /\ Settled(Base) /\ Base \notin w.unsure => BaseHolds \/ Told(w, Base)
          /\ w.at = "done" /\ w.scope = Base => BaseHolds \/ Told(w, Base)
          /\ w.at = "extract" => base.commit = head \/ Told(w, Base)

KnowsLayer(w) ==
    /\ (/\ Layer \notin w.watched \cup Doubted(w)
        /\ w.at = "forget" => Layer \in w.targets)
          => ~Settled(Layer)
    /\ Settled(Layer) /\ Layer \in w.watched \ Doubted(w)
          => LayerHolds \/ Told(w, Layer)
    /\ w.at = "done" /\ w.scope = Layer /\ Layer \notin w.deaf
          => LayerHolds \/ Told(w, Layer)

(* As long as only the leader moves the base, a settled layer was compared  *)
(* with its commit, or the worker is about to invalidate it.                *)
KnowsView(w) ==
    slips = {} =>
        /\ w.at = "reindex" /\ w.scope = Base => w.before = base.commit
        /\ w.at = "done" /\ w.scope = Layer => layer.base = BaseCommit
        /\ Settled(Layer) /\ Layer \in w.watched \ Doubted(w) =>
              \/ layer.base = BaseCommit
              \/ /\ w.at \in {"extract", "done"} /\ w.scope = Base
                 /\ w.before # base.commit

LeaderKnows ==
    "late" \notin slips =>
        /\ CountsInOrder
        /\ \A p \in Servers : lease = p /\ Alive(p) =>
              /\ worker[p].at \in Working =>
                    worker[p].seq <= rows[worker[p].scope].observed
              /\ KnowsBase(worker[p]) /\ KnowsLayer(worker[p])
              /\ KnowsView(worker[p])

IInv == TypeOK /\ LeaseHeld /\ ClaimsAreKept /\ WorkersOrderly /\ LeaderKnows
=============================================================================
