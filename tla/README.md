# Verification of ivar's shared state in TLA+

ivar is a command-line tool without a daemon. Every command is a short process,
and the processes of one hall (a directory that holds repositories, features,
sessions and a memory database) meet only through files, `flock` locks, SQLite
databases, git branches and the pull requests of a host. What is hard about it
is what happens between two system calls of one process while another one runs,
or when the first one dies. The modules here model those processes step by step,
TLC checks them on small instances, and TLAPS proves most of their safety
properties for every instance.

Contents: 1 the system, 2 the modules and the code, 3 the runs and their
bounds, 4 fairness, 5 what is proved, 6 what the code does not provide,
7 what is abstracted or not modelled, 8 the plan.

## 1. The system

### Components, their state and their operations

| component (under `src/src/`) | state it keeps | operations |
|---|---|---|
| memory spool (`store/memory/spool.rs`, `action/memory/{capture,delivery,drain}.rs`) | `<key>.jsonl`, `.draining`, `.dropped`, `.ack` files, `_drain.json`, the `observations` table | append a line, drop it at the cap, drain, drain one file |
| session pages (`action/memory/{consolidate,sweep.rs,reindex.rs,clean.rs,pages.rs}`) | memory pages, `_consolidate.json`, the page index | consolidate, sweep, patch, refresh, clean |
| memory coordination (`action/memory/coordination`, `store/memory/coordination.rs`) | handoffs and messages in SQLite | open, post, accept, pop, cancel, expire |
| memory queries (`action/memory/{query,lint,review,brief,mcp}`) | none | read |
| integration (`action/feature/integrate`) | receipts in the child's `feature.json`, the parent's branches, a staging worktree | integrate via local or via pr, re-verify, final state |
| pull requests (`action/feature/integrate/pr.rs`, `action/feature/pull_requests`) | branches and pull requests on a host | push, find, create, request the merge, observe it |
| close, demote, promote (`action/feature/{close,demote,promote,lifecycle,mutation}.rs`) | promotions in `feature.json`, the outcome on `plan.md`, worktrees | close, demote, promote |
| delivery (`action/feature/deliver`) | the default branches, their remotes, pull requests | preview, land, push, open or update pull requests |
| execution runs (`action/execute`, `store/feature/run.rs`) | `run.json`, `archive/runs/<id>.json`, `run.json.lock` | start, resume, restart, finish, checkpoint, accept-revision, interrupt, status |
| plan gates (`action/plan`) | `planning/approvals.json` | approve, invalidate, status |
| feature tree (`action/feature/{create,reparent,relations,parent_promotion,tree}.rs`) | parents in `feature.json` | create, reparent, freshness of receipts, blocking descendants |
| tear-down (`action/feature/{delete,prune,cleanup}`) | worktrees, branches, feature directories, the cleanup record | delete, prune, preview and apply a cleanup |
| renaming (`action/feature/rename`) | a `.renaming` marker, branches, worktrees, remotes, children, sessions | rename, resume, roll back |
| feature rebase (`action/feature/rebase`) | branches of a feature and its descendants | rebase |
| sessions (`action/session`, `action/discovery`) | View Dirs, session records, `.converting` markers, discovery docs | start, connect, convert, stop, prune, create and amend a doc |
| session guard, sandbox (`action/session/{guard,sandbox.rs}`) | none of their own | judge a tool call, build a sandbox |
| code graph (`action/graph`, `store/graph`) | the graph database, `watch_scopes`, the watcher's lease | index, watch, query |
| hall, sync, repos (`action/{hall,sync,repo}`) | `hall.toml`, clones | init, doctor, sync, pull |
| stores (`store/{versioned,manifest,layout}`) | versioned JSON and TOML files | read, migrate, write |
| infrastructure (`infra/{fs,proc}`, `git`) | none | flock, atomic replace, run git |
| agents, providers, skills, scripts, automation, feedback, upgrade, terminal interface | configuration of other programs | render, install, run |

### How they interact

* **Shared files without a lock.** `feature.json` is rewritten by `integrate`,
  `close`, `demote`, `promote`, `rename`, `rebase` and `reparent`;
  `Feature::update` locks and re-reads it, but what a command decided before
  comes from an older copy, and `integrate/pr.rs` writes the whole older copy.
  `run.json` is read, changed and rewritten by five commands, one of them under a
  lock. Sessions, renames and tear-downs move directories under each other.
* **Locks.** `integrate` holds the parent's `integrate.lock`; a drain, a
  consolidation, a sweep, a patch and a refresh hold `memory.lock`;
  `execute start` holds `run.json.lock`; a graph server that leads holds
  `graph-watch.lock`, an index run `graph.lock`, a layer's a lock per feature.
  All are `flock`, so the kernel drops them with their process. The memory hooks,
  the coordination calls, `land`, `close`, `demote`, `rename`, the tear-downs, the
  session commands and the other `execute` commands take none.
* **Markers.** `rename` and `convert` write where they are into a file that the
  next run resumes from; `integrate` resumes from its receipts, the drain and the
  consolidation from files and marks.
* **Git and the host.** Branches move under every command: by sessions and people
  in worktrees, by `rebase`, by `repo pull`, by a sibling's integration, by another
  land; on the host by people, merge queues and other clones.
* **Calls.** An `integrate` ends in a `close`; `deliver` and `integrate` run the
  repo's checks (arbitrary commands, minutes long) between reading a branch and
  moving it; a hook appends to the spool, every later drain reads it, a
  consolidation renders its rows, a sweep drops both and expires handoffs; a
  `prune` of features is a sequence of `delete`s; a `prune` of sessions one of
  `stop`s.

### What is hard, and what makes each part correct

* *Memory spool.* Hooks append under no lock to files a drain renames, reads and
  deletes; a drain dies between its commit and the delete and replays the file;
  the cap and the drop counters are files too. Correct: no line a hook wrote is
  lost, the totals neither count a row twice nor forget a drop, the cap holds
  unless writers raced.
* *Session pages.* The page is published before the mark that says so, rows
  arrive late, pages and rows age apart. Correct: what is marked is shown, a pass
  leaves nothing behind, an expired page does not come back from old rows.
* *Coordination.* Two agents and a sweep go for one row, each with its own reading
  of the clock. Correct: content is given once, to whom it was meant for; a row
  has one end; it has one.
* *Integration.* A batch over several repos, each a dozen steps long, may stop
  anywhere, and is run again. Correct: a fresh receipt never claims what the
  parent does not carry; passing evidence is final; only the checked candidate
  lands; a close as integrated is backed by evidence. *Via pull requests* the
  merge is the host's, late, by somebody else, or of something else: a receipt
  names a real merge of its source.
* *Land.* All repos or none, without a transaction: checks, validation, several
  fast-forwards, a rollback that may fail too, beside pulls that fast-forward the
  default branch or reset it to its remote. Correct: a land reported as landed
  is everywhere, a refused one nowhere, a remote that moved stops it all, and no
  default branch loses work to anything but a rollback.
* *Execution runs.* Archive, then remove, with a crash in between, and commands
  that read and rewrite one file. Correct: no run is lost, none is both live and
  archived, no archive entry changes, no unapproved plan is pinned.
* *Feature tree and tear-down.* The tree exists only in the parents that records
  name; a tear-down judges a subtree once and removes it piece by piece. Correct:
  no orphan, no record gone before its worktree, nothing destroyed that its owner
  was not shown.
* *Rename.* Nine steps over several repos and a remote, each resumable and
  reversible. Correct: at rest everything has one identity; a published branch
  stays published; reruns come to an end.
* *Sessions.* Moves of directories and docs by several commands that each may die
  half way. Correct: one home per session, an interrupted conversion resumes, no
  doc goes with its View Dir, prune spares the living.
* *Code graph.* A leader that comes and goes, events that get lost, watches and
  rows that cannot be had, a layer that is a difference to a base that moves.
  Correct: what is called settled is what is on disk; a leader does get there; and
  a call that failed hurts its own scope alone, until that scope's next event.

## 2. The modules and the code

| module | what it is |
|---|---|
| `MemorySpool` | the spool files, the hooks and the drains |
| `SessionPages` | what becomes of drained rows: pages, marks, ageing, the index |
| `Coordination` | handoffs and messages between agents, and their sweep |
| `Integration` | `integrate` (local) with everything that runs around it |
| `ReceiptLedger` | the abstract specification of what a reader of `feature.json` sees: receipts as entries that are open, failed, passed or out |
| `PullRequests` | `integrate` via pull requests, the host and its people |
| `Land` | `deliver --land` with everything that moves the branches |
| `RunReceipt` | the `feature execute` commands on `run.json` and the archive |
| `FeatureTree` | create, reparent, promote, delete, prune and cleanup of features |
| `Rename` | `feature rename`, its marker, its rerun and its rollback |
| `Sessions` | start, connect, convert, stop and prune of sessions, and the discovery docs |
| `GraphWatch` | the graph servers, their leader's worker, the index runs |
| `...Proofs` | the theorems about the module of that name, with their lemmas: `Integration`, `PullRequests`, `Land`, `FeatureTree`, `Sessions`, `GraphWatch` |
| `MemoryProofs` | the theorems about the three parts of the memory: `MemorySpool`, `SessionPages` and `Coordination` |
| `RunReceiptRenameProofs` | the theorems about `RunReceipt` and, after them, those about `Rename` |
| `MC...` | the instance of the module of that name for TLC: workloads, symmetry, values of constants that are functions |

A process is a record with a program counter; an action is the code between two
points where another process can observe or change what it uses: a file
operation, a git command, the run of the checks. Actions carry the names of the
code where it has one. Operators marked as mutants in a comment are changed forms
of the definition after them; no specification uses them.

The modules share the hall but not their variables: each takes what the other
parts do to its state as actions of its environment (a delivery is a push in
`PullRequests`, a session is live or not in `Integration`, a drain is one step of
`SessionPages` and a protocol of its own in `MemorySpool`). `ReceiptLedger` is
composed with `Integration` as what it implements. No name is defined in two of the
three memory modules (hence `PagesNext`, `CoordinationSpec`, `clock` beside `now`),
because `MemoryProofs` extends all of them, nor in both `RunReceipt` and `Rename` (hence
`RenameSpec`, `RunStep`, `NoRun`, `Nothing` beside `None`).

**MemorySpool.** `append_line` is `ListFiles` (the directory is listed),
`StatFiles` (the lengths are added up and compared with the cap), `OpenFile` (a
spool file or a drop counter is opened, or created) and `WriteLine`; the hook may
be killed between any two. Delivery events (`action/memory/delivery.rs`) go through the same function and
are hooks of the model. A file is named by the hook that created it, and its
name is a kind: a rename changes the kind while a hook may still hold it open.
A drain is `TakeLock`, `RotateOne` per file, `ListDraining` (all files, or one
for `drain_one`), per file `ReadFile`, `InsertChunk`s, `RemoveFile`, then the
acknowledgement of drops `ListDropped`, `RenameDropped`, `CountAcks`, `Persist`,
`DeleteAck` and `ReleaseLock`; a counter that cannot be removed is passed over
(`KeepAck`) and folded in again by the next drain. `DrainFails` is any other error,
`DrainDies` a kill.

**SessionPages.** State is what the hooks observed, the spool, the rows with their
ids, a page per conversation (the rows it shows, its pin, its expiry, its mtime),
the index row of each page and the marks. `Drain`, `Pass` (`consolidate`, forced
or not), `Sweep`, `Patch` (a person's patch of pin and expiry), `Refresh` and
`Clean` hold `memory.lock` and are one step each; `BrokenPass` is a pass that fails or is
killed after some pages, with or without their marks, and a sweep may stop after
some pages. The operators below them are the code's functions: `Heads` and
`Attributed` assign deliveries to conversations, `Closed` and `Seen` choose what
a pass renders, `Rendered` and `Regenerated` are its pages, `Expired` and
`KeptMarkers` the sweep's choice, `Reindexed` and `Unchanged` the refresh.

**Coordination.** A claim is `Begin` (the clock is read), `Choose` (a row is
read), `Claim` (the guarded UPDATE) and `Report` (the event and the answer);
`Cancel` and `CancelAll` are its owner's, and the sweep is `SweepStarts`,
`SweepExpires`, `SweepReports`, `SweepPrunes`. The clock ticks between any two of
them; callers and the sweeper are killed anywhere.

**Integration.** One process per `integrate`: `Begin`, `TakeLock`, `Preflight`,
and per repo either `ReuseReceipt`, or `TakeFailed` and `Reverify`, or
`TakeUnreceipted`, `CheckChild`, `Stage`, `CheckCandidate`, `ConfirmParent`,
`Apply`, `ReadResult`, `RecordPending`, `CheckParent`; then `FinalState`,
`CheckClose`, `WriteClose`. `Stop` is any error or kill, `RepoBreaks` a repo
that fails while the batch goes on. Around it run `CloseChecks`/`CloseWrites`,
`Demote`, `PromoteChecks`/`PromoteRecords`, sessions, commits, rebases and
resets, and edits of the manifest's checks. A parent branch is the sequence of
its commits and a commit stands for the history that ends in it, so ancestry is
`IsPrefix`. `Carries`, `Merged` and `Applied` say what merge, squash and
rebase do to it. Under rebase the candidate is brought in by `git merge --ff-only`,
which refuses a parent that diverged and succeeds, changing nothing, on one that
already has the candidate (`FastForwards`): what `ReadResult` then reads is the parent
as others left it. `judged` is a history: the promotions whose receipts the last close
as integrated asked for.

**PullRequests.** Per repo `Choose` (a receipt may be reused or re-verified),
`CheckChild`, `Push`, `Find` or `Create` a pull request by its head, `WriteUrl`
(the whole record as it was read), `Gate` (its head against the source),
`RequestMerge`, `Observe` until it is merged, closed or the deadline has passed,
`Advance` the parent's worktree, `RecordPending`, `CheckParent` or `Reverify`.
The answer to `Create` and `RequestMerge` may be lost after the host acted;
`RepoBreaks` and `Killed` happen anywhere. `Others` is everybody else: commits,
pushes and pulls on either side, people and queues that open, merge, close and
reopen, `demote` and `promote`.

**Land.** A lander is `Preview`, `Apply` (the recomputed preview), `Preflight`,
`RunChecks` per repo, `Validate` per repo, `Lift`, then `Recheck`/`FastForward`
per repo, `Rollback` per repo or `Push` per repo. Others commit, amend, push,
pull and edit. Branches are sequences of commits beyond the common base, and
`patch` says which changes each commit makes: somebody may push what a local branch
holds as a squash or cherry-picked. A `repo pull` fast-forwards (`Pull`); a
`repo pull --resolve` of branches that diverged looks whether every local commit is
on the remote by content (`Relanded`, `ResolveLooks`) and then runs `git reset --hard`
(`ResolveResets`), which may fail, and before which anybody may act.

**RunReceipt.** A command is `Begin`, for start and accept-revision `ReadPlan`
(the plan file against the approval), for start `Lock`, one of the decisions
(`StartsFirst`, `StartsNext`, `Interrupts`, `Resumes`, `Finishes`,
`Checkpoints`, `AcceptsRevision`, `Refuses`), and the file operations
`WriteReceipt`, `ReadToArchive`, `WriteArchive`, `RemoveReceipt`,
`CreateReceipt`. The checkpoints of a receipt are a count: what is compared is
whether two copies differ.

**FeatureTree.** The tree is the function `Tree` of the records, `Sound` what every
command that reads it demands. `BeginCreate`, `BeginReparent` and `BeginPromote`
end in `Write`, `Update` and `Materialise`; a tear-down is `BeginDelete`,
`BeginPrune` (which judges one feature after the other: `Judge`, `DeleteJudged`,
`Pruned`) or `BeginCleanup` (of what `Approve` recorded), then `Check` over the
subtree, and per feature, leaves first, `RemoveWorktree`, `RemoveBranch` and
`RemoveFile` of what lies in its directory, the record last. `Fault` is an
operation that fails, `Dies` a kill. A cleanup run from a session of the subtree does
not count that session, its `own`, among the live ones, and takes it with the
feature's directory, as the code does. `Edits`, `Commits`, `Lands`, `OpensSession`,
`ClosesSession` and `WritesOrCloses` are everybody else.

**Rename.** A transition is the plan (the two identities and the remote tips it
found), a direction and one of the nine numbered steps of the code; it lies in
the marker of whichever directory is the feature's. `Resume` or `Preflight` and
`Start` begin a run; `Operate` is one operation of a step (per repo, subfeature
or session), doing only the work that is missing as the code does; `Advance`
writes the next step; `Fault` turns the transition back, `Undone` and
`RolledBack` end the way back, `Unlink` and `Renamed` the way forward. Others
create features and push under the names; a run is killed anywhere.

**Sessions.** A View Dir at a place holds nothing, no record, an unbound or a bound
record, and perhaps a doc. `Start`, `MakeView`, `WriteRecord`; `ConnectFinds`,
`ConnectMaterialises`; `ConvertResumes` or `ConvertResolves`, `EnsureFeature`,
then `LiftDiscovery`, `MoveSession`, `UpdateState`, `Rematerialize` and
`ClearMarker`, each followed by `WriteMarker`; `StopFinds` or `PruneFinds`, then
`RescueLooks`, `RescueMoves`, `RemoveView`. `CreateInside`, `CreateOutside`,
`AmendReads`, `MarkReads` and `Rewrite` are the docs. `Dies` is a kill, or an error.

**GraphWatch.** A server's calls take the lease (`TakeLease`, `Mark`), give up
waiting (`GiveUp`, `Refresh`) or release a dead worker's lease
(`CallWithoutWorker`). The worker is `Discover`, `Register`, then the loop of
`HearScope`, `HearRescan`, `Rediscover`, `TakeDue`, `PickDue`, `StartIndex`,
`Extract` or `StartLayer`, `IndexLayer`, `Finish` or `Fail`, `Forget`. Every call the
worker makes may fail: a registration (`Refused`), the marking of the rows
(`MarkFails`), the removal of old rows (`ForgetFails`), and inside the other steps a
watch, the read of a count, and each write of a row. The code ignores most of them, and
three sets of the worker say what that leaves behind: `deaf`, the places that raise no
event; `unsure`, the scopes whose row does not count a burst or outlived its target;
`stuck`, the unsettled scopes nothing is scheduled for. The code has no such sets and
acts on none of them: the properties name their exceptions by them. `Settled`
is `watch_settled`, `Delta` and `View` what a layer holds and a query sees.
Around it: edits, commits, sessions, other index runs, lost events, exits,
kills and panics. `slips` is a history of steps outside the watcher's protocol,
by which the properties name their exceptions.

**ReceiptLedger.** `Integration` implements it under the mapping `Entry`
(`ImplementsLedger`): entries go from open to failed to passed, a passed entry
never changes, a child is closed as integrated only when all entries passed.

## 3. The runs, and why the bounds are enough

| run | instance | shows |
|---|---|---|
| `memory_spool` | three hooks of one key, two of them with the same event, one with a line that does not parse; two drains, cap 1, one crash or counter that cannot be removed | `NoWrittenLineLost`; the drained total never exceeds the rows (`DrainedTotalHonest`); drops are counted, and over-counted only by such a mishap (`DropsCounted`); the cap holds unless writers raced (`CapHeldUnlessRaced`) |
| `integration` | two integrates of one child, two repos, rebase, two versions of the child's branch, one move of the parent by others, one edit of the checks | a fresh receipt never claims what the parent does not carry (`FreshMeansCarried` in `IntegrationInv`); `ImplementsLedger`: progress of a batch over any interruption, passing evidence final; `OnlyTheCheckedCandidateLands` |
| `integration_close` | two integrates, a close, a promote, two repos, squash, fair | `IntegratedIsReceipted`: a close as integrated had evidence of every promotion it judged, and that evidence stays; `EveryRunEnds` |
| `pull_requests` | two integrates via pull requests, two repos, two pull requests each, two deeds of people and the host, fair | receipts name real merges (`EvidenceIsReal` in `PullRequestsInv`), `FreshMeansCarried`, `PassingReceiptIsFinal`, `EveryRunEnds` |
| `land` | two lands, two repos, one other commit, which may land again what is local, a pull that resolves, one death | `MovedRemoteStopsAll` (in `LandInv`); `AllOrNone`: a land nobody raced is everywhere or nowhere, a partial one says so; `DefaultOnlyMovesForward`: a default branch goes back only by a rollback, to the head that land found, or by a pull that resolves, which loses no change of the branch it looked at |
| `run_receipt` | three runs of three checkpoints, two versions of the plan, two deaths; either every command, one at a time, or two terminals that start, resume and restart | `NoRunLost`, `OneTruth`, `PinnedPlanWasApproved`, `OverIsFinal` (what is archived or over stays as it is) |
| `feature_tree` | three features, two commands at once of which both may be tear-downs, one edit, commit, merge or session, one kill or failure, a cleanup from a session of its own or from elsewhere | the tree stays sound where the code can promise it (`TreeSound` in `FeatureTreeInv`); `WorktreeFirst`; nothing known to be unsaved and no session but the caller's own goes, and a cleanup removes what was approved (`OnlyWhatWasSeenGoes`); `PruneComplete` |
| `rename` | a rename of name, branch or both, rerun; two repos, two subfeatures, one session; another feature that takes the name, one push, two kills, one failure; fair | at rest everything has one identity (`MovesTogether` in `RenameInv`); `NothingUnpublished`; reruns get rid of the marker (`MarkerGoes`) |
| `sessions` | two sessions, two topics, two commands at a time and five in all | one home per session (`OneHome` in `SessionsInv`); `HalfMovedResumes`; `DocsKept`; `PruneSparesTheLiving` |
| `pages` | two conversations with a delivery between them, two observations, four instants, one failure or kill | `MarkedIsShown` and `IndexShowsPages` (in `SessionPagesInv`); `PassLeavesNothing`; `ExpiredStaysGone`; `OnlyOldPagesAge` |
| `coordination` | two sessions, a server outside any session and a terminal; three offers, one row, five instants, two crashes; fair | `TakenOnce`, `ReachesItsAddressee`, `OneEnding` (in `CoordinationInv`); nobody is refused a free row (`LoserLost`); `EveryRowEnds` |
| `graph` | two servers, other index runs, a base and a layer; one move of the base, two changes, two mishaps (a kill, a lost event, a watch, a read or a write that fails), two events; fair | what is called settled is on disk (`LayerMirrors`, `BaseMirrors`, `ViewMirrors` in `GraphWatchInv`), but for a scope a failed call left doubtful; `LeaderSettles`: so does every scope it could register, but for one a failed call left `stuck` |

An `...Inv` is the module's type invariant in conjunction with the parts the table
names; each part has a comment of its own in the module. Between them the runs take
every action of every module.

*Two processes of a kind* are enough where the code has one lock or one file they
compete for: each step reads and writes what at most one other process changes,
and a third adds only repetitions of what the second did. *Two repos* are the
smallest batch with a first that succeeded and a second that fails; *three
features* the smallest tree with a subtree and an outsider. *One or two moves of
a branch* let it change before a check and between the check and the write.
*Crashes*: one for the spool (a drain that dies is followed by a whole second
drain over what it left), two where a recovery can be killed too (`run_receipt`,
`rename`, `coordination`). *Three runs* of a feature: one archived, one being
archived, one starting. *Four callers* of the coordination are one of each kind
that the code treats differently. *Time* runs long enough for a row to be opened,
to expire, to be told and to be removed, and for a page to age past its date and
its rows to come back.

Bounds are constants named `Max...` or counts in the module's CONSTANTS, and only
guards of the environment's actions and of counters mention them. Deadlock is not
checked: commands end, and when all have, nothing more need happen. Symmetry of
processes is used only by runs that check no liveness.

Larger instances, checked by hand with the same properties, found nothing more:
`Integration` over two repos under rebase with two moves of the parent (15.6 million
states), and with a closer and a promoter besides (1.6 million); `Land` with two
commits and no death (20.5 million); `Sessions` with one
topic and three commands at a time (9.7 million);
`Coordination` with two rows (11 million); `PullRequests` with three deeds
(7.9 million, safety only). `IntegratedIsReceipted` speaks of the promotions the close
judged: with two repos a promote that asked before the first receipt may record
another one after the close (`MembershipFrozen` in section 6), and the run contains it.

## 4. Fairness

Liveness is checked where the code waits, retries or promises an end; the other
runs use the plain `Spec` of their module.

* `Integration!FairSpec`, `PullRequests!FairSpec`: weak fairness of each integrate's
  own steps. A running process is scheduled, and waiting for `integrate.lock` ends
  because the kernel releases a `flock` when its holder ends or dies. Checks and
  git commands are taken to end, as the code waits for them without a limit.
  Nothing is asked of the host or of people: the observation of a merge has a
  deadline. A failure is always possible and never fair: liveness holds through any
  number of them because each leaves the batch's loop or moves to the next repo.
* `Rename!RenameFairSpec`: weak fairness of the steps of a running rename and of `Resume`:
  whoever was told that a rename did not finish runs it again, as the message asks.
* `Coordination!FairSpec`: weak fairness of the sweep's steps and of the clock. The
  worker of the leading graph server sweeps again and again while any server runs
  (`graph/watch/worker/event_loop.rs:66`). No caller has to take anything.
* `GraphWatch!Fairness` (part of its `Spec`): weak fairness of the worker's steps, of
  the rest of a call that took the lease (`Mark`), and of the end of an index run from
  the command line. No server has to appear and no event has to arrive.

## 5. What is proved

All eleven components have theorems: the three of the memory in `MemoryProofs`,
`RunReceipt` and `Rename` in `RunReceiptRenameProofs`, the others in the module
`...Proofs` of their name. They hold for any
number of processes, repos, features, rows, files, events and kills, and any value of the
bounds. Every theorem follows one pattern: the last section of the component's
module defines `IInv` (with a prefix, as in `RenameIInv`, where components share a proof
module), the invariant its properties are not strong enough to be;
one lemma per action shows that a step keeps it, with one step per part; the
properties follow from it, or, for those about steps, from it and the step. TLC
found each `IInv` invariant on the instance of its run before it was proved, and
refuted some first versions (see the end of this section).

| theorem | says |
|---|---|
| `MemoryProofs!WrittenLinesSurvive` | `[]NoWrittenLineLost` |
| `MemoryProofs!DrainedTotalNeverOver` | `[]DrainedTotalHonest` |
| `MemoryProofs!DropsAreCounted` | `[]DropsCounted` |
| `MemoryProofs!CapHeld` | `CapHeldUnlessRaced` |
| `MemoryProofs!PagesAreTrue` | `[]SessionPagesInv`: a row counted as consolidated is on its page, or was when the page was swept |
| `MemoryProofs!NothingIsLeft` | `[]PassLeavesNothing` |
| `MemoryProofs!SweptStaysGone` | `ExpiredStaysGone`: no page comes back from the rows it showed |
| `MemoryProofs!OnlyOldGoes` | `OnlyOldPagesAge` |
| `RunReceiptRenameProofs!PinnedToApproved` | `[]PinnedPlanWasApproved`, any workload |
| `RunReceiptRenameProofs!RunsSurvive`, `OneTruthHolds` | `[]NoRunLost`, `[]OneTruth`, if `OneWriter` |
| `RunReceiptRenameProofs!OverAndArchivedStay` | `OverIsFinal`, if `OneWriter` (of `ArchiveIsEvidence` and `OverIsOver`) |
| `IntegrationProofs!InvariantHolds` | `[]IntegrationInv`: a fresh receipt is no lie |
| `IntegrationProofs!PassingIsFinal` | no step rewrites or drops a passing receipt |
| `IntegrationProofs!CheckedCandidateLands` | `OnlyTheCheckedCandidateLands`, under rebase |
| `IntegrationProofs!ClosedIsReceipted` | `[]IntegratedIsReceipted`, whoever closes and promotes |
| `IntegrationProofs!Refinement` | `ImplementsLedger`, if nobody else closes and nobody promotes |
| `PullRequestsProofs!InvariantHolds` | `[]PullRequestsInv`: a receipt names a merge that holds its source |
| `PullRequestsProofs!FreshIsCarried` | `[]FreshMeansCarried` |
| `PullRequestsProofs!PassingIsFinal` | `PassingReceiptIsFinal` |
| `LandProofs!InvariantHolds` | `[]LandInv`: a remote that moved stops it all |
| `LandProofs!LandsAllOrNone` | `[]AllOrNone` |
| `LandProofs!MovesForward` | `DefaultOnlyMovesForward`, with pulls that reset |
| `FeatureTreeProofs!InvariantHolds` | `[]FeatureTreeInv`: no orphan and no cycle, if `Orderly` |
| `FeatureTreeProofs!WorkSurvives` | `KnownWorkSurvives`, any workload, a cleanup from its own session included |
| `FeatureTreeProofs!CleanupIsApproved`, `SeenGoes` | `CleanupAsApproved` and with it `OnlyWhatWasSeenGoes`, if `Orderly` |
| `FeatureTreeProofs!WorktreeGoesFirst` | `WorktreeFirst`, if `Orderly` |
| `FeatureTreeProofs!PruneTakesAll` | `PruneComplete`, if `Orderly` |
| `RunReceiptRenameProofs!RenameMovesTogether` | `[]RenameInv`: at rest one identity everywhere, if `OneRun` |
| `RunReceiptRenameProofs!RenamePublishes` | `NothingUnpublished`, if `OneRun` |
| `SessionsProofs!InvariantHolds` | `[]SessionsInv`: one home per session |
| `SessionsProofs!HalfMovedAreResumed` | `[]HalfMovedResumes` |
| `SessionsProofs!DocsAreKept` | `[]DocsKept` |
| `SessionsProofs!PruneSpares` | `PruneSparesTheLiving` |
| `MemoryProofs!CoordinationHolds` | `[]CoordinationInv`: taken once, by its addressee, one end |
| `MemoryProofs!LosersLost` | `LoserLost` |
| `GraphWatchProofs!InvariantHolds` | `[]GraphWatchInv`: what is called settled is on disk, whichever call fails, but for the scope it failed |

Each is an implication from the module's `Spec` (a run's `FairSpec` implies it).
`Inductive` is `Spec => []IInv` in each module (`PagesInductive`, `DatesInductive`
and `CoordinationInductive` of the memory, `RenameAlwaysIInv` of the rename), and type
correctness is part of `IInv`.

### Assumptions

Each `...Assumption` of a module says only what its parameters are: that sets the
argument counts are finite, that bounds are numbers, and that `None` and other marks
are not members of the sets they are told apart from; TLC evaluates it on every run. Hypotheses that
restrict what runs are in the theorem's own statement:

* `OneWriter` (`RunReceiptRenameProofs`) is about the constant `Workloads`: every process
  runs only the modes of `execute start`, which take `run.json.lock`, or only one
  process runs commands. It cannot be dropped: with `Workloads <- TwoTerminals`,
  TLC finds a finish that overwrites the run a restart began.
* `Orderly` (`FeatureTreeProofs`) is about the constant `Workloads` too: one process
  runs commands, whichever it likes, or all of them only tear down, any number at
  once. It cannot be dropped: two reparents at once make a cycle (section 6). What
  keeps unsaved work needs no such hypothesis (`WorkSurvives`).
* `OneRun` (`Rename`): one run of `feature rename` at a time, run again any number of
  times. It cannot be dropped: the command takes no lock, and with `Runs = {p1, p2}` TLC
  finds a run that fails and turns the transition back while another, which resumed
  the same marker, goes on with it. Other features created under either name, pushes,
  kills and failures are not restricted.
* `HallsSound` and `NoRecordAssumption` (`FeatureTree`) are about constants and checked
  by TLC: the hall a behaviour starts in has a sound tree, which `create` and
  `reparent` alone could have built; a record and a branch are not `None`.
* `Strategy = "rebase"` (`CheckedCandidateLands`): the others merge the child's branch
  a second time, by name (section 6).
* No promoters and no other closers (`Refinement`): a promote that asked before the
  first receipt and records after the close adds a repo without one
  (`MembershipFrozen` in section 6), and two closes overwrite each other's outcome
  (`OutcomeIsFinal`). Every other theorem about `Integration` is for any closers and
  promoters.

### The arguments

**MemorySpool.** To know that removing a file is harmless one has to know that its
lines are stored, that nobody else removes it, and that the file is of the kind the
drain listed. `LockHeld`: at most one drain is at work. `LineFileKind`,
`LinesAreWritten`, `NotYetCreated`: which files lines are in, and that a line in a
file is of a hook that wrote it. `DrainTodo`: the drain's list holds files of its
phase's kind. `ReadIsStored`: each line of the file it inserts is in the batch still
to insert or in the table; `RemovedIsStored`: so are the lines of a removed file.
Both except the lines in `late`, written to a file after it was read, the window the
comment on `rotate_new_spools` accepts. `CountSoFar` and `DrainedTotalHonest`: the
persisted total and what the running drain will add never exceed the rows.

`DropsCounted` is `DropsInv` besides: a drop is in a counter (`DropFileKind`), a
drain starts from the persisted total, which only itself can change
(`TotalCarried`), and each total counts the files it was made from (`DropsFolded`).
A crash between `Persist` and `DeleteAck`, or a `KeepAck`, counts files again: each adds
at most the drops there are, which is where the factor `crashes` comes from.
`CapHeldUnlessRaced` is `CapInv`: for a hook nobody overtook, what it listed holds every
line of its session (`RoomFor` at "stat"), and once it has reckoned there is room for
its own, which no rename and no drain can take away (`RoomLeft`).

**SessionPages.** `MarkedIsShown` is inductive once it says what a swept page showed:
a marker answers for the rows numbered at or below it (`Consolidated`) by the page, or
by what the sweep removed, or by their having no weight. A pass renders every row of a
conversation, so its page answers for any marker, kept or lost (`AccountedRendered`);
the sweep and `clean` only take rows, and everything else leaves bodies alone
(`AccountedKept`); a drain numbers rows above the marker or the conversation is among
the `skipped`. `PassLeavesNothing` follows: what the pass would skip is marked up to
its last row, whose number `Max` finds because the rows are finitely many (`MaxNat`).

The step properties are about age, and rest on `RowsAreDated`. The sweep knows a page's
age only from its marker; numbers are used again after `clean` or a sweep, a killed pass
loses markers, and a delivery may be attributed to another conversation later. What
holds through all of it: a page shows rows that were drained before any row of its
conversation it does not show (`ShownFirst`); no row a marker tells of is younger than
the marker, or the page shows more than the marker tells (`MarkerDates`); of a swept page
whose marker told of all of it, the rows that are left are counted by the marker, or,
when the marker itself has aged, too old to make their conversation a head
(`SweptIsOver`). Every action but the drain and the passes only takes rows (`RowsGo`), a
conversation's all at once, so one lemma serves for all of them.

**RunReceipt.** `PinnedPlanWasApproved` becomes inductive with `ApprovedPlans`: the
plan a command compared, and the plan in every copy of a receipt, were approved at
some time. It needs no lock. The others rest on `OneWriter` and `StartsLocked`, from
which `AtMostOneBusy` follows: at most one command is between its read of `run.json`
and its last file operation. `KnowsFiles` says what that command knows at each
operation, and `RunsNumbered` that the archive holds only runs that are over.

**Integration.** Under the parent's lock (`LockHeld`) a run turns to a repo without
a receipt, or with a failed one (`TurnsToRepo`), and holds in memory what the record
says but for repos demoted since (`RecordIsKnown`): this is why its whole-record
write cannot undo a passing receipt. `EvidenceIsReal` and `SourceLands` follow the
child's tip to the parent: the branch merged by name is never behind the source, a
rebase brings it, and what is read back carries it. A commit stands for the history
that ends in it, so carrying is kept by every extension, and a reset that takes it
away also makes the receipt stale. Where the parent already has the candidate the
merge leaves it alone, and what is read back extends the candidate. `ClosesOnEvidence`
adds that a close is on its way only over promotions with passing receipts, those
`judged`, which stay promoted and receipted because passing evidence is final and a demote
refuses a repo that has it. For the refinement each action maps to one action of
`ReceiptLedger` or to a stutter of its `Entry`s.

**PullRequests.** `MergesAreReal` (a merged pull request's result holds its head) is
the host's part; `SourceMerged` is the code's: the branch pushed is never again behind
the source, and what the gate let through has the source in its head, or had no
head to see. With `PassingAreHeld`, a run at work holds every passing receipt, so
that writing back the record it read drops none.

**Land.** A commit is made once, so two branches share a commit only if they share their
first one (`Shares`); the feature's commits reach a default branch by a land alone
(`NothingLanded`). So a land that is alone finds its tips nowhere at its preflight, and
knows at every later step which repos cannot carry them (`TipsAreOwn`). What it has
merged is there by content (`MergesKept`), although a pull may replace the commits
meanwhile: that pull found on the remote all that the branch it looked at changes
(`Looked`), what is on the remote stays there, and a merge after its look needs a branch
that was empty, on which there was nothing to resolve. `InOrder` and `SeenAsPlanned` say
what a lander has by its step, and give `MovedRemoteStopsAll` for lands that overlap as
well.

**FeatureTree.** `Sound` speaks of the chains of ancestors, and a command changes the
tree at one feature at a time. `WritesLeaf` says that this one is a leaf: `create` adds
one, `reparent` moves one, a tear-down removes one. So a changed parent is on no other
feature's way to the root, and the chain of every other feature is what it was: had one
changed, take its shortest prefix that did (the lemmas on `Ancestors` argue by the least
counterexample, for a recursive function can be unfolded at a number even though
induction over it is not to be had). `TearsLeaves` is what makes a tear-down's next
feature a leaf: what it has still to remove is closed under subfeatures, and its records
are as it read them, because under `Orderly` nobody else writes records while it works
but other tear-downs, which only take leaves too. `RiskSeen` and `ApprovalKnown` are
what its check, or the approval, saw of each feature still to go, but for what somebody
touched since and a cleanup's own session. `PruneComplete` adds what a prune that nobody
disturbs knows (`PruneKnows`): the hall is what its list says, less what it removed; its
list is deepest first, so that what lies below a feature was judged before it; and each
feature it passed and left has one in its subtree that keeps it, and still does. That a
feature lies deeper than its ancestors needs a bound on chains: one longer than the
number of features would meet a feature twice (`ChainsAreShort`), which a sound tree
excludes.

**Rename.** With one run at a time the hall is in one of three states (`RenameIInv`).
It `Rests`: no marker, one identity everywhere, and what a plan under way has found on
the remotes is still there, because pushes only add. It is `Moving`: one marker, in the
feature's directory, says how far. `Placed` reads it: what a step before the marker's
moves carries the new identity (`Carries`), what a later one moves the old, whatever the
direction; of the marker's own step, `DoneByRun` says what the run at work has done.
An operation may be done twice, or be left half way by a kill, since each looks at what is
there first; so a resumed run needs to know nothing of its own step. `StillPublished` is
the remotes' part: the old branch, while there, holds the plan's tips, and
before the old branch goes the new one does. `Anchored` is why a failure finds the
directory it writes its marker into: the old path is missing only between the move of
the directory and its link, two operations that fail only together with the disk
(`MayFail`). Or it is `Stuck`: a feature was created under the
new name before the directory moved, or under the old one while that path was free, so
that there is a directory at either path, and the one at the old path has a marker that is
not undone. No step takes it away, since from then on the marker is written at the new
path (`MarkerPath`): that is why `MovesTogether` is true then as well, the hall never
rests again, and why `MarkerGoes` leaves such halls out.

**Sessions.** A session being started is nowhere else and no command has found it
(`StartIsNew`); one that was not moved has no second View Dir and nobody about to make
one (`UnmovedIsAlone`); together they make `OneHome` inductive against every
re-materialisation. `MarkersMarked`, `BoundIsSettled` and `MarkerStays`: until a moved
session is bound its feature's marker stays, and past the binding there is nothing
left to bind. `PrunesTheDead`: what prune found dead comes to life only if a start was
about to write its record. `DocsKept` rests on `DocsInv` besides: what can take a
doc's place has its name or is itself (`DocsOwned`: commands, markers and
features hold docs where they belong), and a doc is kept by a feature, or in a View
Dir that no command and no marker is about to take as it is (`DocsSafe`): a convert
lifts the doc before it moves, a stop saves it before it removes.

**Coordination.** All rests on one conditional UPDATE. A call that chose a row saw
that it is for it, and neither queue nor address change (`ChosenIsSeen`); what was
given, or is about to be, was claimed by one call (`OneTaker`); a row whose end is
told, or on its way to the spool, is over and has no other (`ToldIsOver`), since a
row is never open again.

**GraphWatch.** Only the leader has a worker, but for a closing server
(`LeaseHeld`); an index that claims a commit holds its rows unless a run was cut
(`ClaimsAreKept`); a worker has dealt with its targets, by a watch or a refusal, or is
about to (`WorkersOrderly`). `LeaderKnows` is the heart: of the scopes the worker can
answer for (not `Doubted`), one it does not watch is not settled; one it calls settled
holds what is on disk, or an event for it is on its way, or a slip says why not; a
settled layer was compared with the base's commit, or the worker is about to invalidate
it. A failed call adds its scope to the doubted ones in the step that drops the write,
and the layer's claim rests on the base's only where the base is not doubted. Rows are
written by the leader's worker alone, unless a slip says otherwise, so the proof looks
at its steps one by one and shows of everybody else's that they leave what it knows
standing.

### What the proofs changed

* `GraphWatch`: an index claims a base by the worker of a closing server as well, and
  a leader's view of the base is then as outdated as after an index run of the
  command line. The history `slips` did not say so; it does now (`aside`), and
  `ViewMirrors` excepts it.
* `SessionPages`: `MarkedIsShown` was satisfied by any removal by a sweep, whatever the
  removed page had shown. It now asks that the page showed the marked rows. That a
  page, a marker or an index row is not `Absent` had to be said (`NoPageAssumption`).
* `SessionPages`: `OnlyOldPagesAge` was false with four observations, more than the run
  has. After `memory clean` a young row gets a number its marker already tells of; a
  pass that is killed shows it with a delivery numbered above the marker, which the
  next drain attributes to another conversation. Then the old marker ages the page, and
  no pass sees the row. It is one more consequence of `NothingSkipped` (section 6), and
  the property now leaves out the conversations that have such a row (`skipped`).
* `Sessions`: with one topic any two docs were namesakes, and `DocsKept` said
  nothing of two docs at once. The run has two topics now. That the doc written
  outside any session is not named like a topic had to be said
  (`SessionsAssumption`).

### Only model-checked

Liveness (`EveryRunEnds`, `MarkerGoes`, `EveryRowEnds`, `LeaderSettles`): the
provers have no support for ENABLED, and so none for fairness. Every invariant and
every other property of the runs is a theorem.

## 6. What the code does not provide

No run expects a violation. While modelling, the following promises of comments and
documents, or expectations a reader may have, turned out not to hold. Each is a
definition in its module; adding it to a configuration of that module shows the
behaviour.

| definition | the code | instance that shows it |
|---|---|---|
| `MemorySpool!DropsNeverHidden` | a hook that writes its drop after the counter was measured loses it (`spool.rs`, `begin_acknowledgement`) | cap reached |
| `Integration!OnlyTheCheckedCandidateLands` | under squash and merge, a commit of the child made while its candidate is checked lands unchecked (`local.rs:231`) | one integrate, squash |
| `Integration!OutcomeIsFinal` | two closes both find the child open; the second overwrites the outcome (`close.rs:146`, `:194`) | two closers |
| `Integration!ClosesOnlyFresh` | a direct close as integrated asks for recorded, not fresh, evidence (`close.rs:173`) | one integrate, one closer |
| `Integration!NoSessionBeforeFirstPass` | the guard of `integrate` asks for any receipt, that of `session start` for a passing one (`preflight.rs:54`, `mutation.rs:78`) | one integrate |
| `Integration!MembershipFrozen` | a promote under way adds a repo after the first receipt (`promote.rs:194`, `:303`) | one integrate, one promoter |
| `Integration!MovedIsReceipted` | a kill between the merge and the receipt leaves a merge no receipt describes (`local.rs:107`, `:124`) | one integrate |
| `PullRequests!DemotedStaysOut` | the write of the URL puts back the whole record as it was read, a repo demoted since included (`pr.rs:49`) | as in the run |
| `PullRequests!OnlyTheSourceLands` | a pull request opened before a colleague's push and merged by a person with it brings a newer head than the child's checks saw; its evidence is recorded all the same | as in the run |
| `Land!LandedEverywhere` | one land's rollback takes back what another reports as landed (`land/execute.rs:227`) | two lands, nothing else |
| `Land!NeverSilentlyPartial` | a kill between two merges leaves a partial land nothing records (`land/execute.rs:85`); `AllOrNone` leaves a killed land out | one lander, one death |
| `Land!RollbackDropsOnlyItsMerge` | the rollback discards a commit made on the default since (`land/execute.rs:235`) | one lander, one commit |
| `Land!LandsWhatWasChecked` | the tip is read before the checks run in the live worktree (`deliver/mod.rs:277`) | one lander, one commit |
| `Land!LandsWhatWasReviewed` | of the feature's branch the fingerprint holds the number of commits (`deliver/repos.rs:88`) | one lander, one commit |
| `Land!UnpushedIsAhead` | the remote is compared with the preview, not with the local default, which then diverges (`land/execute.rs:42`) | one lander, one commit |
| `Land!DefaultOnlyMovesForward` without its condition on the head the pull looked at | `repo pull --resolve` looks, then runs `git reset --hard` without looking again (`repo/pull/mod.rs:328`): a commit made on the default in between is dropped, though `diagnosis.rs:64` promises never to touch a branch it cannot prove to be a duplicate; an edit made in between goes as well | one commit relanded upstream, one more |
| `RunReceipt!NoRunLost` | a finish overwrites the run a restart began (`finish.rs:69`) | `TwoTerminals` |
| `RunReceipt!OneTruth` | two unlocked commands on one run leave an archived run live (`finish.rs:108`) | `TwoTerminals` |
| `RunReceipt!ArchiveImmutable` | the archive's entry is checked and written in two steps (`run.rs:181`, `:202`) | `TwoTerminals` |
| `FeatureTree!TreeSound` | two reparents that judge the tree before either writes make a cycle (`reparent.rs:166`); so do a create under a parent being deleted and an update of a deleted feature make an orphan | two commands that are not tear-downs |
| `FeatureTree!KnownWorkSurvives` without its exception `own` | a cleanup run from a session of the feature does not count it as live (`cleanup.rs:55`, `cleanup/preview.rs:61`) and removes it with the feature's directory, without `--force` | the feature `attended` of the run |
| `Rename!RenameInv` | the command takes no lock: of two runs that resumed one marker, one fails, is rerun and rolls the transition back to its end; the other still moves a branch and is killed, and no marker says so (`steps.rs:87`) | two runs |
| `Rename!CrashesOnlyDelay` | a run killed after it published the new branch and before it deleted the old one: the rerun finds both, fails and turns the rename back, though `rename/mod.rs` calls a crash at any point safe to retry | `Foreign = {}` |
| `Rename!RollbackIsComplete` | a colleague's push makes the rollback leave both branches on the remote while the marker goes; so does a feature created under the new name in which a rerun finds the marker | as in the run |
| `Rename!RemoteWorkSurvives` | undoing the step on the remotes deletes what is there under the new name, a colleague's commit included (`steps.rs:251`) | as in the run |
| `Sessions!EveryConversionResumes` | the marker is one per feature: the conversion of a second session into it overwrites that of the first, which no later convert finds | as in the run |
| `Sessions!NoDocReplaced` | a stop looks for a doc of the topic, then moves its own over the one a `create` wrote in between | as in the run |
| `Sessions!PruneNeverTouchesRecords` | a prune judges the record before it removes, and a start can write one in between (`prune.rs:46`) | as in the run |
| `SessionPages!PinnedKept` | the rows are gone (`memory clean`, or a sweep) and the conversation goes on with rows of no weight: the pass removes its page, pinned or not | as in the run |
| `SessionPages!NothingSkipped` | after `memory clean`, or when row numbers are used again, a new row is numbered below the page's mark | as in the run |
| `SessionPages!IndexFollowsDisk` | a patch restores the page's mtime (`pages.rs:171`); when the new date is as long as the old one, size and mtime are as before and no refresh reads the page again (`reindex.rs:124`), though `memory query` is said to omit a page past its date | one conversation and observation, `Tended <- {1}`, no mishap |
| `Coordination!AlreadyClaimedIsClaimed` | the loser of a claim is told `already_claimed` of a row that was cancelled or expired since it chose it | as in the run |
| `Coordination!NothingTakenLate` | a claim compares the expiry with the clock it read when it began | as in the run |
| `Coordination!ExpiryIsTold` | a sweep killed between its update and its events never records them | as in the run |
| `GraphWatch!LayersFollowTheBase` | a base whose commit was moved by an index run of the command line, or noticed by a leader that then died, leaves its layers to the next change (`worker/event_loop.rs:155`) | as in the run |
| `GraphWatch!BaseMirrors` without its exception `torn` | an index run that fails after it recorded the commit and before the rows leaves a base that looks fresh (`index/mod.rs:87`) | as in the run |
| `GraphWatch!LayerMirrors`, `BaseMirrors` without their exception `Doubted` | a watch the system refuses is ignored, the scope is indexed and its row settled all the same: later edits raise no event (`registry.rs:49`, `:56`); so with a burst whose count could not be written (`event_loop.rs:112`) | as in the run |
| `GraphWatch!LeaderSettles` without its exceptions | a target whose `watch_register` fails is never tried again (`registry.rs:23`); a finish that could not be written leaves the row unsettled and schedules nothing (`registry.rs:72`, `event_loop.rs:150`): every call times out on the scope until its next event | as in the run |

## 7. What is abstracted, and what is not modelled

* *Integration.* The per-repo reads of preflight, and the two reads of a stage,
  are one step. The plan gate, run receipts, descendants, dirty worktrees and git
  errors are the nondeterministic `Stop` and `RepoBreaks`. The parent has
  promoted every repo. The strategy is fixed, as the first receipt freezes it.
  The staging worktree is not state. `ParentResets` does not happen in the instant
  between the merge and the `rev-parse` that reads its result.
* *PullRequests.* Preflight is one step and so are a fetch and its fast-forward.
  The close at the end is `Integration`'s. The base of a reused pull request is
  never checked by the code, but the model has no second open pull request on
  another base; a read of the child that fails before `WriteUrl` (`repos.rs:48`) is
  not modelled either. The child's branch only grows: a commit amended between `Choose`
  and `Push` is left out. Titles, events and the host's own checks are data.
* *Land.* The per-repo reads of the preview and of the preflight are one step. The
  feature's branch is not yet on the remote, so pending commits count from the
  default. Dirty feature worktrees, blockers in the tree, the plan gate and the
  memory review are nondeterministic refusals. Write bits are not state; lifting them may fail.
  A repo has one resolving pull at a time; that its `git cherry` compares patches and its
  squash test a tree is the comparison of `patch`. The remote only moves forward.
* *RunReceipt.* `failed` behaves as `succeeded`; the mode of a run, its session,
  its report and its diff are data that may refuse a command (`Refuses`). The
  receipt is read with the plan in one step where a command reads both. The workloads
  leave out what `NoRunLost` and `OneTruth` do not survive: two commands at once of which
  one takes no lock (`TwoTerminals`, section 6); the code does nothing against it. Two
  copies with the same status and as many checkpoints count as equal, which can
  only hide differences. Import of legacy boards is not modelled.
* *FeatureTree.* One repo, one session per feature, and a feature's branch has its name. The order of
  siblings, the list of blockers, the memory review of features without work and
  what the host says of a branch are left to choice or left out. `delete` removes
  no branch; a forced removal of a worktree and `-D` destroy what appeared after
  the check, which the properties allow. A prune reports a feature as pruned
  although one of its worktrees stayed (`prune.rs:115`).
* *Rename.* Pushes are plain. That the code never looks for the new branch,
  though `rename/mod.rs:144` says it refuses one, is modelled: a local branch under the new
  name leaves a rollback that cannot end, and `MarkerGoes` says so. It and
  `NothingUnpublished` are promised only while nobody creates a feature under the two names
  (`Undisturbed`); `MovesTogether` needs no such condition.
  Two renames at once are not an instance: they break `MovesTogether` (section 6) and
  `NothingUnpublished`.
  The children's `base` and the index are not updated by the code's steps.
* *Sessions.* The text of docs is not state, nor is what a View Dir holds. An
  `amend --append` reads and rewrites the doc (`amend.rs:6`): a write between the two is lost. Features
  are not deleted or renamed meanwhile. Consolidation at a stop is
  `SessionPages`', the guard of unrestricted sessions `Integration`'s. The marker of a session that was stopped half way stays.
* *MemorySpool.* A line is its event and a size; sanitizing decides only whether
  it parses. The first of two appends that create one file creates it, the
  second opens it.
* *SessionPages.* `Patch` gives `memory.lock` back before its refresh (`pages.rs:177`,
  `:179`): what another holder does in between is modelled as a patch whose refresh
  fails, that holder's step and a `Refresh`, at the price of a mishap of the bound.
  Pages edited by hand or unparsable, durable pages, several ivar sessions, a full
  rebuild of the index and the limits of a page's body are left out. A page that a kill
  left without its mark can come back without its date, and rows drained more than
  thirty days late are never consolidated: the properties name these cases.
* *Coordination.* Content is a row; lists and briefs only read and have no action.
  `memory clean` under open handles, the move of queues by a conversion and a busy
  database are left out; the two updates that expire rows are one step. A claimant
  killed before it answers has taken the content with it: at most once, as the code means it.
* *GraphWatch.* One repo, one feature, one file that is old or new; the base's worktree is never
  dirty. Events of one burst are one, indexing a layer is one step, paths of the
  hall itself are left out. `slips` names what the invariant excepts: `late` (a
  worker that writes after its process gave the lease back), `torn`, `aside` (an
  index run of the command line, or a closing server's worker, moved the base), `outdated`
  (a layer compared with a commit the base has left); `Doubted` names the scopes a failed
  call has left to themselves. Discovery is taken to read the hall, and the two reads of
  the base's commit around an index run not to fail; the watch of a directory that
  appears under a watched one (`event_loop.rs:104`) is part of its scope's; a worker that
  cannot open the database is a `Panic` before `Discover`.
  The database page of the docs calls the leader the only process that indexes
  from events; at the exit of a server two may overlap for a moment.
* *Not modelled.* `PROJECT.json` lists every component left out and why. The
  larger part of the source is readers, renderers, parsers, command lines, adapters
  to other programs and pure functions over text: the extraction and resolution of
  the code graph and its queries, the terminal interface, providers, scripts and
  migrations. They have no steps to interleave, and their functions turn text into
  text, which a model could only repeat. `deliver`'s own pull requests, the three gates of a plan in their
  order, the batch of `rebase` over a tree and the append of a doc could still be
  modelled.

## 8. The plan

Every safety property the runs check is proved. What is left is abstract specifications
worth stating: an atomic batch that `Land` implements while nobody else writes, and a log
of runs that `RunReceipt` implements under `OneWriter`; and the components section 7
names as next to model.
