---------------------------- MODULE MemorySpool ----------------------------
(***************************************************************************)
(* The memory capture spool (src/store/memory/spool.rs) and its drain      *)
(* (src/action/memory/drain.rs).                                           *)
(*                                                                         *)
(* A capture hook is one short process: it reads the size of its session's *)
(* spool files, then appends one line to <key>.jsonl, or one byte to       *)
(* <key>.dropped when the cap would be passed.  It takes no lock.  A drain *)
(* holds memory.lock: it renames every .jsonl to .draining, copies those   *)
(* files to the observations table chunk by chunk, removes them, and then  *)
(* acknowledges the drop counters.  Either kind of process may die between *)
(* any two system calls.                                                   *)
(*                                                                         *)
(* A file is identified by the hook whose open() created it, which is what *)
(* an inode is here: renaming changes file[f].name, and a hook that holds  *)
(* the file open keeps writing to it whatever it is called.                *)
(***************************************************************************)
EXTENDS Integers, FiniteSets

CONSTANTS
  Hooks,      \* the hook processes; each captures one event
  Drainers,   \* the processes that may drain
  Keys,       \* spool keys, one per session
  KeyOf,      \* the key of each hook's session
  Events,     \* event ids
  EventOf,    \* the event id of each hook; a merge observed twice repeats one
  Unparsable, \* events whose line the drain skips
  Cap,        \* SPOOL_CAP_BYTES, in lines
  Chunk,      \* INSERT_CHUNK
  MaxCrashes, \* bound: drains that die and counters that cannot be removed
  None        \* no file, no lock holder

ASSUME SpoolAssumption ==
  /\ IsFiniteSet(Hooks)
  /\ IsFiniteSet(Events)
  /\ KeyOf \in [Hooks -> Keys]
  /\ EventOf \in [Hooks -> Events]
  /\ Unparsable \subseteq Events
  /\ Cap \in Nat
  /\ Chunk \in Nat \ {0}
  /\ MaxCrashes \in Nat
  /\ None \notin Hooks \cup Drainers

VARIABLES
  hook,    \* each hook's progress: its next step and the file it opened
  listed,  \* the spool files each hook found in the directory, by name
  file,    \* each file's name ("none" before it exists, "gone" once removed) and lines
  rows,    \* event ids of the observations table
  state,   \* _drain.json
  lock,    \* the holder of memory.lock
  drain,   \* each drainer's progress
  crashes, \* drains that died, and counters that could not be removed
  late,    \* history: hooks that wrote to a file a drain had already read
  raced    \* history: hooks whose size check another process overtook

vars == <<hook, listed, file, rows, state, lock, drain, crashes, late, raced>>

FileNames == {"none", "live", "draining", "dropped", "ack", "gone"}
HookPcs   == {"idle", "stat", "open", "openDropped", "write", "writeDropped",
              "written", "dropped", "dead"}
DrainPcs  == {"idle", "rotate", "read", "insert", "ackRename", "persist", "ackDelete"}

Named(name) == {f \in Hooks : file[f].name = name}

OfKey(k) == {f \in Hooks : KeyOf[f] = k}

SpoolFiles(k) == OfKey(k) \cap (Named("live") \cup Named("draining"))

SpoolNames == {"live", "draining"}

NoListing == [n \in SpoolNames |-> {}]

(* A hook writes to one file once, so the lengths add up to this.          *)
Bytes(files) == Cardinality(UNION {file[f].lines : f \in files})

(* todo: files still to rename, read or delete; cur: the file being copied; *)
(* batch: its lines still to insert; drained, dropped: the totals to write. *)
NoDrain == [pc |-> "idle", todo |-> {}, cur |-> None, batch |-> {},
            drained |-> 0, dropped |-> 0]

HookStates  == [pc : HookPcs, file : Hooks \cup {None}]
FileStates  == [name : FileNames, lines : SUBSET Hooks]
DrainStates == [pc : DrainPcs, todo : SUBSET Hooks, cur : Hooks \cup {None},
                batch : SUBSET Hooks, drained : Nat, dropped : Nat]

TypeOK ==
  /\ hook \in [Hooks -> HookStates]
  /\ listed \in [Hooks -> [SpoolNames -> SUBSET Hooks]]
  /\ file \in [Hooks -> FileStates]
  /\ rows \subseteq Events
  /\ state \in [drained : Nat, dropped : Nat]
  /\ lock \in Drainers \cup {None}
  /\ drain \in [Drainers -> DrainStates]
  /\ crashes \in Nat
  /\ late \subseteq Hooks
  /\ raced \subseteq Hooks

Init ==
  /\ hook = [h \in Hooks |-> [pc |-> "idle", file |-> None]]
  /\ listed = [h \in Hooks |-> NoListing]
  /\ file = [f \in Hooks |-> [name |-> "none", lines |-> {}]]
  /\ rows = {}
  /\ state = [drained |-> 0, dropped |-> 0]
  /\ lock = None
  /\ drain = [d \in Drainers |-> NoDrain]
  /\ crashes = 0
  /\ late = {}
  /\ raced = {}

-----------------------------------------------------------------------------
(* Capture hooks.                                                          *)

(* A hook between its size check and its write. *)
InFlight(h) == hook[h].pc \in {"stat", "open", "write"}

Overtaken(k, h) == {g \in Hooks \ {h} : KeyOf[g] = k /\ InFlight(g)}

(* session_bytes reads the directory ...                                   *)
ListFiles(h) ==
  /\ hook[h].pc = "idle"
  /\ hook' = [hook EXCEPT ![h].pc = "stat"]
  /\ listed' = [listed EXCEPT ![h] = [n \in SpoolNames |-> OfKey(KeyOf[h]) \cap Named(n)]]
  /\ UNCHANGED <<file, rows, state, lock, drain, crashes, late, raced>>

(* ... and then asks each listed name for its length: a name that is gone  *)
(* by then counts for nothing.                                             *)
CapIgnoresNewLine(bytes) == bytes > Cap  \* mutant: the line's own size is left out

WouldPassCap(bytes) == bytes + 1 > Cap

StatFiles(h) ==
  LET found == UNION {listed[h][n] \cap Named(n) : n \in SpoolNames} IN
  /\ hook[h].pc = "stat"
  /\ hook' = [hook EXCEPT ![h].pc = IF WouldPassCap(Bytes(found)) THEN "openDropped" ELSE "open"]
  /\ listed' = [listed EXCEPT ![h] = NoListing]
  /\ UNCHANGED <<file, rows, state, lock, drain, crashes, late, raced>>

(* open(create, append): the file of that name if there is one, else a new *)
(* one.                                                                    *)
OpenOrCreate(h, name, next) ==
  LET same == OfKey(KeyOf[h]) \cap Named(name) IN
  \/ \E f \in same : /\ hook' = [hook EXCEPT ![h] = [pc |-> next, file |-> f]]
                     /\ UNCHANGED file
  \/ /\ same = {}
     /\ hook' = [hook EXCEPT ![h] = [pc |-> next, file |-> h]]
     /\ file' = [file EXCEPT ![h].name = name]

OpenFile(h) ==
  /\ \/ hook[h].pc = "open" /\ OpenOrCreate(h, "live", "write")
     \/ hook[h].pc = "openDropped" /\ OpenOrCreate(h, "dropped", "writeDropped")
  /\ UNCHANGED <<listed, rows, state, lock, drain, crashes, late, raced>>

(* A drain has taken what it will ever take of f.                          *)
TakenByDrain(f) ==
  \/ file[f].name = "gone"
  \/ \E d \in Drainers :
       \/ drain[d].cur = f
       \/ drain[d].pc \in {"persist", "ackDelete"} /\ f \in drain[d].todo

WriteLine(h) ==
  LET f == hook[h].file IN
  /\ hook[h].pc \in {"write", "writeDropped"}
  /\ hook' = [hook EXCEPT ![h].pc = IF @ = "write" THEN "written" ELSE "dropped"]
  /\ file' = [file EXCEPT ![f].lines = @ \cup {h}]
  /\ late' = IF TakenByDrain(f) THEN late \cup {h} ELSE late
  /\ raced' = IF hook[h].pc = "write" THEN raced \cup Overtaken(KeyOf[h], h) ELSE raced
  /\ UNCHANGED <<listed, rows, state, lock, drain, crashes>>

(* The agent kills its hook, or the write fails: capture() swallows it.    *)
HookDies(h) ==
  /\ hook[h].pc \in {"stat", "open", "openDropped", "write", "writeDropped"}
  /\ hook' = [hook EXCEPT ![h].pc = "dead"]
  /\ listed' = [listed EXCEPT ![h] = NoListing]
  /\ UNCHANGED <<file, rows, state, lock, drain, crashes, late, raced>>

-----------------------------------------------------------------------------
(* Draining.                                                               *)

TakeLock(d) ==
  /\ drain[d].pc = "idle"
  /\ lock = None
  /\ lock' = d
  /\ drain' = [drain EXCEPT ![d] =
       [pc |-> "rotate", todo |-> Named("live"), cur |-> None, batch |-> {},
        drained |-> state.drained, dropped |-> state.dropped]]
  /\ UNCHANGED <<hook, listed, file, rows, state, crashes, late, raced>>

RotateOne(d) ==
  /\ drain[d].pc = "rotate"
  /\ \E f \in drain[d].todo :
       /\ file' = [file EXCEPT ![f].name = "draining"]
       /\ drain' = [drain EXCEPT ![d].todo = @ \ {f}]
       /\ raced' = raced \cup Overtaken(KeyOf[f], None)
  /\ UNCHANGED <<hook, listed, rows, state, lock, crashes, late>>

(* drain() takes every file, drain_one() the oldest one.                   *)
ListDraining(d) ==
  /\ drain[d].pc = "rotate"
  /\ drain[d].todo = {}
  /\ \E files \in {Named("draining")} \cup {{f} : f \in Named("draining")} :
       drain' = [drain EXCEPT ![d].pc = "read", ![d].todo = files]
  /\ UNCHANGED <<hook, listed, file, rows, state, lock, crashes, late, raced>>

ReadFile(d) ==
  /\ drain[d].pc = "read"
  /\ \E f \in drain[d].todo :
       drain' = [drain EXCEPT ![d].pc = "insert", ![d].cur = f, ![d].todo = @ \ {f},
                   ![d].batch = {h \in file[f].lines : EventOf[h] \notin Unparsable}]
  /\ UNCHANGED <<hook, listed, file, rows, state, lock, crashes, late, raced>>

CountsReplayed(chunk) == {EventOf[h] : h \in chunk}  \* mutant: ignored rows count too

(* The rows of a chunk that INSERT OR IGNORE really adds. *)
NewRowsOf(chunk) == {EventOf[h] : h \in chunk} \ rows

(* insert_batch: one chunk in one transaction.                             *)
InsertChunk(d) ==
  /\ drain[d].pc = "insert"
  /\ \E chunk \in SUBSET drain[d].batch :
       LET new == NewRowsOf(chunk) IN
       /\ chunk # {}
       /\ Cardinality(chunk) <= Chunk
       /\ chunk = drain[d].batch \/ Cardinality(chunk) = Chunk
       /\ rows' = rows \cup new
       /\ drain' = [drain EXCEPT ![d].batch = @ \ chunk,
                                 ![d].drained = @ + Cardinality(new)]
  /\ UNCHANGED <<hook, listed, file, state, lock, crashes, late, raced>>

(* Reading, inserting, removing or persisting fails: the files stay and at *)
(* most last_error is recorded.                                            *)
DrainFails(d) ==
  /\ drain[d].pc \in {"read", "insert", "persist"}
  /\ drain' = [drain EXCEPT ![d] = NoDrain]
  /\ lock' = None
  /\ UNCHANGED <<hook, listed, file, rows, state, crashes, late, raced>>

RemoveBeforeInsert(d) ==  \* mutant: the file goes before its rows commit
  /\ drain[d].pc = "insert"
  /\ file' = [file EXCEPT ![drain[d].cur].name = "gone"]
  /\ UNCHANGED <<hook, listed, rows, state, lock, drain, crashes, late, raced>>

RemoveFile(d) ==
  /\ drain[d].pc = "insert"
  /\ drain[d].batch = {}
  /\ file' = [file EXCEPT ![drain[d].cur].name = "gone"]
  /\ drain' = [drain EXCEPT ![d].pc = "read", ![d].cur = None]
  /\ UNCHANGED <<hook, listed, rows, state, lock, crashes, late, raced>>

(* begin_acknowledgement: rename the drop counters, then count every .ack. *)
ListDropped(d) ==
  /\ drain[d].pc = "read"
  /\ drain[d].todo = {}
  /\ drain' = [drain EXCEPT ![d].pc = "ackRename", ![d].todo = Named("dropped")]
  /\ UNCHANGED <<hook, listed, file, rows, state, lock, crashes, late, raced>>

RemoveDropped(d) ==  \* mutant: the counter is deleted, not renamed
  /\ drain[d].pc = "ackRename"
  /\ \E f \in drain[d].todo :
       /\ file' = [file EXCEPT ![f].name = "gone"]
       /\ drain' = [drain EXCEPT ![d].todo = @ \ {f}]
  /\ UNCHANGED <<hook, listed, rows, state, lock, crashes, late, raced>>

RenameDropped(d) ==
  /\ drain[d].pc = "ackRename"
  /\ \E f \in drain[d].todo :
       /\ file' = [file EXCEPT ![f].name = "ack"]
       /\ drain' = [drain EXCEPT ![d].todo = @ \ {f}]
  /\ UNCHANGED <<hook, listed, rows, state, lock, crashes, late, raced>>

CountAcks(d) ==
  /\ drain[d].pc = "ackRename"
  /\ drain[d].todo = {}
  /\ drain' = [drain EXCEPT ![d].pc = "persist", ![d].todo = Named("ack"),
                            ![d].dropped = @ + Bytes(Named("ack"))]
  /\ UNCHANGED <<hook, listed, file, rows, state, lock, crashes, late, raced>>

Persist(d) ==
  /\ drain[d].pc = "persist"
  /\ state' = [drained |-> drain[d].drained, dropped |-> drain[d].dropped]
  /\ drain' = [drain EXCEPT ![d].pc = "ackDelete"]
  /\ UNCHANGED <<hook, listed, file, rows, lock, crashes, late, raced>>

DeleteAck(d) ==
  /\ drain[d].pc = "ackDelete"
  /\ \E f \in drain[d].todo :
       /\ file' = [file EXCEPT ![f].name = "gone"]
       /\ drain' = [drain EXCEPT ![d].todo = @ \ {f}]
  /\ UNCHANGED <<hook, listed, rows, state, lock, crashes, late, raced>>

(* The counter cannot be removed: Acknowledgement::finish ignores that, and *)
(* the next drain folds the counter in once more.                          *)
KeepAck(d) ==
  /\ drain[d].pc = "ackDelete"
  /\ crashes < MaxCrashes
  /\ crashes' = crashes + 1
  /\ \E f \in drain[d].todo : drain' = [drain EXCEPT ![d].todo = @ \ {f}]
  /\ UNCHANGED <<hook, listed, file, rows, state, lock, late, raced>>

ReleaseLock(d) ==
  /\ drain[d].pc = "ackDelete"
  /\ drain[d].todo = {}
  /\ drain' = [drain EXCEPT ![d] = NoDrain]
  /\ lock' = None
  /\ UNCHANGED <<hook, listed, file, rows, state, crashes, late, raced>>

(* The process dies; the kernel drops its flock.                           *)
DrainDies(d) ==
  /\ drain[d].pc # "idle"
  /\ crashes < MaxCrashes
  /\ crashes' = crashes + 1
  /\ drain' = [drain EXCEPT ![d] = NoDrain]
  /\ lock' = None
  /\ UNCHANGED <<hook, listed, file, rows, state, late, raced>>

Next ==
  \/ \E h \in Hooks : \/ ListFiles(h) \/ StatFiles(h) \/ OpenFile(h)
                      \/ WriteLine(h) \/ HookDies(h)
  \/ \E d \in Drainers : \/ TakeLock(d) \/ RotateOne(d) \/ ListDraining(d)
                         \/ ReadFile(d) \/ InsertChunk(d) \/ DrainFails(d)
                         \/ RemoveFile(d) \/ ListDropped(d) \/ RenameDropped(d)
                         \/ CountAcks(d) \/ Persist(d) \/ DeleteAck(d)
                         \/ KeepAck(d) \/ ReleaseLock(d) \/ DrainDies(d)

Spec == Init /\ [][Next]_vars

-----------------------------------------------------------------------------
(* Properties.                                                             *)

Linked(name) == UNION {file[f].lines : f \in Named(name)}

(* A line a hook reported as written is in a file a drain will still read, *)
(* or in the observations table, or is one the drain skips: neither a      *)
(* crash, a failed insert nor a concurrent capture loses it.  The one      *)
(* exception is the window rotate_new_spools documents, a hook that had    *)
(* the file open across the rename and wrote after the drain read it.      *)
NoWrittenLineLost ==
  \A h \in Hooks : hook[h].pc = "written" /\ h \notin late =>
    \/ h \in Linked("live") \cup Linked("draining")
    \/ EventOf[h] \in rows \cup Unparsable

(* drained_total never claims more than the table holds: replaying a file  *)
(* after a crash adds nothing (a crash or a database error may make it     *)
(* claim less).                                                            *)
DrainedTotalHonest == state.drained <= Cardinality(rows)

Drops == {h \in Hooks : hook[h].pc = "dropped"}

PendingDrops == Linked("dropped") \cup Linked("ack")

(* Drops are counted, however drains crash or overlap with hooks: each is  *)
(* in dropped_total or in a counter the next drain folds in, and the total *)
(* over-reports only when a counter outlives the drain that persisted it:  *)
(* a crash in between, or a counter that cannot be removed.  Hooks that had *)
(* the counter open across the rename are left out, as above.              *)
DropsCounted ==
  /\ Cardinality(Drops \ late) <= state.dropped + Cardinality(PendingDrops)
  /\ state.dropped <= Cardinality(Drops) * (1 + crashes)

(* A hook whose size check no other write and no rotation overtook never   *)
(* takes its session past the cap.                                         *)
CapHeldUnlessRaced ==
  [][\A h \in Hooks :
       hook[h].pc = "write" /\ hook'[h].pc = "written" /\ h \notin raced
         => Bytes(SpoolFiles(KeyOf[h]))' <= Cap]_vars

-----------------------------------------------------------------------------
(* The inductive invariant behind NoWrittenLineLost and                    *)
(* DrainedTotalHonest.                                                     *)

(* A drain runs exactly while it holds memory.lock. *)
LockHeld == \A d \in Drainers : drain[d].pc # "idle" <=> lock = d

(* A hook that has not opened its file has not created one. *)
NotYetCreated ==
  \A h \in Hooks : hook[h].pc \in {"idle", "stat", "open", "openDropped"}
                      => file[h].name = "none"

(* A line hook writes to a file that a drop counter's rename never touches. *)
LineFileKind ==
  \A h \in Hooks : hook[h].pc \in {"write", "written"} =>
    hook[h].file \in Named("live") \cup Named("draining") \cup Named("gone")

(* A line is in the file its hook opened. *)
LinesAreWritten ==
  \A f, h \in Hooks :
    h \in file[f].lines <=> hook[h].pc \in {"written", "dropped"} /\ hook[h].file = f

(* What a running drain still has to do concerns files of the right kind. *)
DrainTodo ==
  \A d \in Drainers :
    /\ drain[d].pc = "rotate" => drain[d].todo \subseteq Named("live")
    /\ drain[d].pc \in {"read", "insert"} => drain[d].todo \subseteq Named("draining")
    /\ drain[d].pc = "insert" => drain[d].cur \in Named("draining") \ drain[d].todo
    /\ drain[d].pc = "ackRename" => drain[d].todo \subseteq Named("dropped")
    /\ drain[d].pc \in {"persist", "ackDelete"} => drain[d].todo \subseteq Named("ack")

Stored(h) == EventOf[h] \in rows \cup Unparsable

(* A removed spool file's lines are stored, but for the late ones ... *)
RemovedIsStored ==
  \A h \in Hooks : hook[h].pc = "written" /\ h \notin late /\ hook[h].file \in Named("gone")
                      => Stored(h)

(* ... and those of the file being read are stored or still to insert. *)
ReadIsStored ==
  \A d \in Drainers, h \in Hooks :
    /\ drain[d].pc = "insert"
    /\ h \in file[drain[d].cur].lines \ late
    => h \in drain[d].batch \/ Stored(h)

(* A drain counts on top of the total nobody else can have changed.        *)
CountSoFar ==
  \A d \in Drainers :
    drain[d].pc # "idle" => drain[d].drained <= Cardinality(rows)

IInv ==
  /\ TypeOK /\ LockHeld /\ NotYetCreated /\ LineFileKind /\ LinesAreWritten
  /\ DrainTodo /\ RemovedIsStored /\ ReadIsStored /\ CountSoFar /\ DrainedTotalHonest

(* What DropsCounted needs besides.  A drop is written to a counter.       *)
DropFileKind ==
  \A h \in Hooks : hook[h].pc \in {"writeDropped", "dropped"} =>
    hook[h].file \in Named("dropped") \cup Named("ack") \cup Named("gone")

(* A drain starts from the persisted total, which only itself can change.  *)
TotalCarried ==
  \A d \in Drainers : drain[d].pc \in {"rotate", "read", "insert", "ackRename"} =>
    drain[d].dropped = state.dropped

(* The total n counts the drops in these files, but for the late ones, and *)
(* counts a drop more than once only after a crash or a failed removal.    *)
DropsIn(files) == {h \in Drops : hook[h].file \in files}

Folded(n, files) ==
  /\ Cardinality(DropsIn(files) \ late) <= n
  /\ n <= Cardinality(DropsIn(files)) + Cardinality(Drops) * crashes

(* The persisted total counts the deleted counters and those about to be   *)
(* deleted; the total about to be persisted, those it was made from too.   *)
CountedFiles ==
  Named("gone") \cup
    {f \in Hooks : \E d \in Drainers : drain[d].pc = "ackDelete" /\ f \in drain[d].todo}

DropsFolded ==
  /\ Folded(state.dropped, CountedFiles)
  /\ \A d \in Drainers : drain[d].pc = "persist" =>
       Folded(drain[d].dropped, Named("gone") \cup drain[d].todo)

DropsInv == DropFileKind /\ TotalCarried /\ DropsFolded

(* What CapHeldUnlessRaced needs besides.  A hook has opened a file of its *)
(* own session's, and only lines are written to what is not a counter.     *)
OwnFile == \A h \in Hooks : hook[h].file # None => KeyOf[hook[h].file] = KeyOf[h]

(* The lines a hook has to reckon with are in the files it found, and once *)
(* it has reckoned there is room for its own.                              *)
RoomFor(h) ==
  /\ hook[h].pc = "stat" =>
       \A n \in SpoolNames : \A f \in OfKey(KeyOf[h]) \cap Named(n) :
         file[f].lines # {} => f \in listed[h][n]
  /\ hook[h].pc \in {"open", "write"} => Bytes(SpoolFiles(KeyOf[h])) + 1 <= Cap

RoomLeft == \A h \in Hooks \ raced : RoomFor(h)

CapInv == DropFileKind /\ OwnFile /\ RoomLeft

-----------------------------------------------------------------------------
(* What the comment on begin_acknowledgement promises without exception:   *)
(* renaming the counter first "sends any later drop to a fresh counter, so *)
(* none is lost", and a crash "over-reports rather than hides them".       *)
DropsNeverHidden ==
  Cardinality(Drops) <= state.dropped + Cardinality(PendingDrops)
=============================================================================
