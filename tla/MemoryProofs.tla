---------------------------- MODULE MemoryProofs ----------------------------
(***************************************************************************)
(* Proofs about the memory of a hall: MemorySpool, for any number of       *)
(* hooks, drainers and crashes; SessionPages, which takes over where the   *)
(* drain ends, for any conversations, clock and mishaps; and Coordination, *)
(* the queues in the same database, for any callers, offers and rows.  The *)
(* three share no variable: each part is about the specification of its    *)
(* own module.                                                             *)
(*                                                                         *)
(* In the first part one lemma per action shows that a step of it keeps    *)
(* the inductive invariant IInv of MemorySpool, with one step per          *)
(* conjunct: the type first, field by field where the action changes       *)
(* several, then the holder of the lock, the kinds of the files, and what  *)
(* is stored and counted.                                                  *)
(***************************************************************************)
EXTENDS MemorySpool, SessionPages, Coordination, FiniteSetTheorems, TLAPS

(* The bytes of a set of spool files are a number (session_bytes).         *)
LEMMA BytesType ==
  ASSUME TypeOK, NEW files \in SUBSET Hooks
  PROVE  Bytes(files) \in Nat
<1>1. UNION {file[f].lines : f \in files} \subseteq Hooks
  BY DEF TypeOK, FileStates
<1> QED
  BY <1>1, SpoolAssumption, FS_Subset, FS_CardinalityType DEF Bytes

(* insert_batch ignores the rows that are there: the table grows by the    *)
(* new ones.                                                               *)
LEMMA NewRows ==
  ASSUME TypeOK, NEW chunk \in SUBSET Hooks
  PROVE  LET new == {EventOf[h] : h \in chunk} \ rows IN
         /\ Cardinality(rows) \in Nat
         /\ Cardinality(new) \in Nat
         /\ Cardinality(rows \cup new) = Cardinality(rows) + Cardinality(new)
<1> DEFINE new == {EventOf[h] : h \in chunk} \ rows
<1>1. IsFiniteSet(rows) /\ IsFiniteSet(new)
  <2>1. rows \subseteq Events /\ new \subseteq Events
    BY SpoolAssumption DEF TypeOK
  <2> QED
    BY <2>1, SpoolAssumption, FS_Subset
<1>2. rows \cap new = {}
  OBVIOUS
<1>3. Cardinality(rows \cap new) = 0
  BY FS_EmptySet
<1>4. Cardinality(rows) \in Nat /\ Cardinality(new) \in Nat
  BY <1>1, FS_CardinalityType
<1>5. Cardinality(rows \cup new) = Cardinality(rows) + Cardinality(new) - Cardinality(rows \cap new)
  BY <1>1, FS_Union
<1> QED
  BY <1>3, <1>4, <1>5

(* A rename or a removal gives a file another name and keeps its lines.    *)
LEMMA FileRenamed ==
  ASSUME TypeOK, NEW f \in Hooks, NEW name \in FileNames
  PROVE  [file EXCEPT ![f].name = name] \in [Hooks -> FileStates]
<1>1. file \in [Hooks -> FileStates] /\ file[f] \in FileStates
  BY DEF TypeOK
<1>2. [file[f] EXCEPT !.name = name] \in FileStates
  BY <1>1 DEF FileStates
<1> QED
  BY <1>1, <1>2

(* session_bytes lists the directory.                                      *)
LEMMA ListFilesInv ==
  ASSUME IInv, NEW h \in Hooks, ListFiles(h)
  PROVE  IInv'
<1>1. TypeOK'
  <2>1. hook' \in [Hooks -> HookStates]
    BY DEF ListFiles, IInv, TypeOK, HookStates, HookPcs
  <2>2. listed' \in [Hooks -> [SpoolNames -> SUBSET Hooks]]
    BY DEF ListFiles, IInv, TypeOK, OfKey
  <2> QED
    BY <2>1, <2>2 DEF ListFiles, IInv, TypeOK
<1>2. LockHeld'
  BY DEF ListFiles, IInv, LockHeld
<1>3. NotYetCreated'
  BY DEF ListFiles, IInv, NotYetCreated
<1>4. LineFileKind'
  BY DEF ListFiles, IInv, LineFileKind, Named
<1>5. LinesAreWritten'
  BY DEF ListFiles, IInv, LinesAreWritten
<1>6. DrainTodo'
  BY DEF ListFiles, IInv, DrainTodo, Named
<1>7. RemovedIsStored'
  BY DEF ListFiles, IInv, RemovedIsStored, Named, Stored
<1>8. ReadIsStored'
  BY DEF ListFiles, IInv, ReadIsStored, Stored
<1>9. CountSoFar'
  BY DEF ListFiles, IInv, CountSoFar
<1>10. DrainedTotalHonest'
  BY DEF ListFiles, IInv, DrainedTotalHonest
<1> QED
  BY <1>1, <1>2, <1>3, <1>4, <1>5, <1>6, <1>7, <1>8, <1>9, <1>10 DEF IInv

(* append_line compares the lengths with the cap and decides where to      *)
(* write.                                                                  *)
LEMMA StatFilesInv ==
  ASSUME IInv, NEW h \in Hooks, StatFiles(h)
  PROVE  IInv'
<1>1. TypeOK'
  <2>1. hook' \in [Hooks -> HookStates]
    BY DEF StatFiles, IInv, TypeOK, HookStates, HookPcs
  <2>2. listed' \in [Hooks -> [SpoolNames -> SUBSET Hooks]]
    BY DEF StatFiles, IInv, TypeOK, NoListing
  <2> QED
    BY <2>1, <2>2 DEF StatFiles, IInv, TypeOK
<1>2. LockHeld'
  BY DEF StatFiles, IInv, LockHeld
<1>3. NotYetCreated'
  BY DEF StatFiles, IInv, NotYetCreated
<1>4. LineFileKind'
  BY DEF StatFiles, IInv, LineFileKind, Named
<1>5. LinesAreWritten'
  BY DEF StatFiles, IInv, LinesAreWritten
<1>6. DrainTodo'
  BY DEF StatFiles, IInv, DrainTodo, Named
<1>7. RemovedIsStored'
  BY DEF StatFiles, IInv, RemovedIsStored, Named, Stored
<1>8. ReadIsStored'
  BY DEF StatFiles, IInv, ReadIsStored, Stored
<1>9. CountSoFar'
  BY DEF StatFiles, IInv, CountSoFar
<1>10. DrainedTotalHonest'
  BY DEF StatFiles, IInv, DrainedTotalHonest
<1> QED
  BY <1>1, <1>2, <1>3, <1>4, <1>5, <1>6, <1>7, <1>8, <1>9, <1>10 DEF IInv

(* append_line opens a spool file or a drop counter, or creates it.        *)
LEMMA OpenFileInv ==
  ASSUME IInv, NEW h \in Hooks, OpenFile(h)
  PROVE  IInv'
<1>0. PICK name \in {"live", "dropped"}, next \in {"write", "writeDropped"} :
        /\ OpenOrCreate(h, name, next)
        /\ name = "live" <=> next = "write"
        /\ hook[h].pc \in {"open", "openDropped"}
  BY DEF OpenFile
<1>a. PICK f \in Hooks :
        /\ hook' = [hook EXCEPT ![h] = [pc |-> next, file |-> f]]
        /\ file' = [file EXCEPT ![f].name = name]
        /\ file[f].name = name \/ (f = h /\ file[f].name = "none")
  BY <1>0 DEF OpenOrCreate, IInv, TypeOK, FileStates, Named, NotYetCreated
<1>1. TypeOK'
  <2>1. hook' \in [Hooks -> HookStates]
    BY <1>a DEF IInv, TypeOK, HookStates, HookPcs
  <2>2. file' \in [Hooks -> FileStates]
    BY <1>0, <1>a DEF IInv, TypeOK, FileStates, FileNames
  <2> QED
    BY <2>1, <2>2 DEF OpenFile, IInv, TypeOK
<1>2. LockHeld'
  BY DEF OpenFile, IInv, LockHeld
<1>3. NotYetCreated'
  BY <1>a DEF IInv, TypeOK, NotYetCreated
<1>4. LineFileKind'
  BY <1>0, <1>a DEF IInv, TypeOK, LineFileKind, Named
<1>5. LinesAreWritten'
  BY <1>a DEF OpenFile, IInv, LinesAreWritten
<1>6. DrainTodo'
  BY <1>a DEF OpenFile, IInv, DrainTodo, Named
<1>7. RemovedIsStored'
  BY <1>a DEF OpenFile, IInv, RemovedIsStored, Named, Stored
<1>8. ReadIsStored'
  BY <1>a DEF OpenFile, IInv, ReadIsStored, Stored
<1>9. CountSoFar'
  BY DEF OpenFile, IInv, CountSoFar
<1>10. DrainedTotalHonest'
  BY DEF OpenFile, IInv, DrainedTotalHonest
<1> QED
  BY <1>1, <1>2, <1>3, <1>4, <1>5, <1>6, <1>7, <1>8, <1>9, <1>10 DEF IInv

(* append_line writes through the handle it holds, whatever the file is by *)
(* now.                                                                    *)
LEMMA WriteLineInv ==
  ASSUME IInv, NEW h \in Hooks, WriteLine(h)
  PROVE  IInv'
<1>1. TypeOK'
  <2>1. hook' \in [Hooks -> HookStates]
    BY DEF WriteLine, IInv, TypeOK, HookStates, HookPcs
  <2>2. file' \in [Hooks -> FileStates]
    BY DEF WriteLine, IInv, TypeOK, HookStates, FileStates
  <2> QED
    BY <2>1, <2>2 DEF WriteLine, IInv, TypeOK, Overtaken
<1>2. LockHeld'
  BY DEF WriteLine, IInv, LockHeld
<1>3. NotYetCreated'
  BY DEF WriteLine, IInv, NotYetCreated
<1>4. LineFileKind'
  BY DEF WriteLine, IInv, LineFileKind, Named
<1>5. LinesAreWritten'
  BY DEF WriteLine, IInv, TypeOK, LinesAreWritten
<1>6. DrainTodo'
  BY DEF WriteLine, IInv, DrainTodo, Named
<1>7. RemovedIsStored'
  BY DEF WriteLine, IInv, RemovedIsStored, Named, Stored, TakenByDrain
<1>8. ReadIsStored'
  BY DEF WriteLine, IInv, ReadIsStored, Stored, TakenByDrain
<1>9. CountSoFar'
  BY DEF WriteLine, IInv, CountSoFar
<1>10. DrainedTotalHonest'
  BY DEF WriteLine, IInv, DrainedTotalHonest
<1> QED
  BY <1>1, <1>2, <1>3, <1>4, <1>5, <1>6, <1>7, <1>8, <1>9, <1>10 DEF IInv

(* A capture hook is killed before its line is written.                    *)
LEMMA HookDiesInv ==
  ASSUME IInv, NEW h \in Hooks, HookDies(h)
  PROVE  IInv'
<1>1. TypeOK'
  <2>1. hook' \in [Hooks -> HookStates]
    BY DEF HookDies, IInv, TypeOK, HookStates, HookPcs
  <2>2. listed' \in [Hooks -> [SpoolNames -> SUBSET Hooks]]
    BY DEF HookDies, IInv, TypeOK, NoListing
  <2> QED
    BY <2>1, <2>2 DEF HookDies, IInv, TypeOK
<1>2. LockHeld'
  BY DEF HookDies, IInv, LockHeld
<1>3. NotYetCreated'
  BY DEF HookDies, IInv, NotYetCreated
<1>4. LineFileKind'
  BY DEF HookDies, IInv, LineFileKind, Named
<1>5. LinesAreWritten'
  BY DEF HookDies, IInv, LinesAreWritten
<1>6. DrainTodo'
  BY DEF HookDies, IInv, DrainTodo, Named
<1>7. RemovedIsStored'
  BY DEF HookDies, IInv, RemovedIsStored, Named, Stored
<1>8. ReadIsStored'
  BY DEF HookDies, IInv, ReadIsStored, Stored
<1>9. CountSoFar'
  BY DEF HookDies, IInv, CountSoFar
<1>10. DrainedTotalHonest'
  BY DEF HookDies, IInv, DrainedTotalHonest
<1> QED
  BY <1>1, <1>2, <1>3, <1>4, <1>5, <1>6, <1>7, <1>8, <1>9, <1>10 DEF IInv

(* drain takes memory.lock: no other drain is past that point.             *)
LEMMA TakeLockInv ==
  ASSUME IInv, NEW d \in Drainers, TakeLock(d)
  PROVE  IInv'
<1>1. TypeOK'
  BY DEF TakeLock, IInv, TypeOK, Named, DrainPcs, DrainStates
<1>2. LockHeld'
  BY SpoolAssumption DEF TakeLock, IInv, TypeOK, LockHeld
<1>3. NotYetCreated'
  BY DEF TakeLock, IInv, NotYetCreated
<1>4. LineFileKind'
  BY DEF TakeLock, IInv, LineFileKind, Named
<1>5. LinesAreWritten'
  BY DEF TakeLock, IInv, LinesAreWritten
<1>6. DrainTodo'
  BY DEF TakeLock, IInv, DrainTodo, Named
<1>7. RemovedIsStored'
  BY DEF TakeLock, IInv, RemovedIsStored, Named, Stored
<1>8. ReadIsStored'
  BY DEF TakeLock, IInv, ReadIsStored, Stored
<1>9. CountSoFar'
  BY DEF TakeLock, IInv, CountSoFar, DrainedTotalHonest
<1>10. DrainedTotalHonest'
  BY DEF TakeLock, IInv, DrainedTotalHonest
<1> QED
  BY <1>1, <1>2, <1>3, <1>4, <1>5, <1>6, <1>7, <1>8, <1>9, <1>10 DEF IInv

(* rotate_new_spools renames one live file.                                *)
LEMMA RotateOneInv ==
  ASSUME IInv, NEW d \in Drainers, RotateOne(d)
  PROVE  IInv'
<1>1. TypeOK'
  <2>0. drain[d] \in DrainStates
    BY DEF IInv, TypeOK
  <2>1. PICK f \in drain[d].todo :
         /\ drain' = [drain EXCEPT ![d] = [drain[d] EXCEPT !.todo = @ \ {f}]]
         /\ file' = [file EXCEPT ![f].name = "draining"]
    BY DEF RotateOne, IInv, TypeOK, DrainStates, FileStates, DrainTodo, Named
  <2>2. [drain[d] EXCEPT !.todo = @ \ {f}] \in DrainStates
    BY <2>0 DEF DrainStates
  <2>3. drain' \in [Drainers -> DrainStates]
    BY <2>1, <2>2 DEF IInv, TypeOK
  <2>4. f \in Hooks
    BY <2>0, <2>1 DEF DrainStates
  <2>5. file' \in [Hooks -> FileStates]
    BY <2>1, <2>4, FileRenamed DEF IInv, FileNames
  <2> QED
    BY <2>3, <2>5 DEF RotateOne, IInv, TypeOK, Overtaken
<1>2. LockHeld'
  BY DEF RotateOne, IInv, LockHeld
<1>3. NotYetCreated'
  BY DEF RotateOne, IInv, NotYetCreated, DrainTodo, Named
<1>4. LineFileKind'
  BY DEF RotateOne, IInv, LineFileKind, Named
<1>5. LinesAreWritten'
  BY DEF RotateOne, IInv, LinesAreWritten
<1>6. DrainTodo'
  BY DEF RotateOne, IInv, TypeOK, LockHeld, DrainTodo, Named
<1>7. RemovedIsStored'
  BY DEF RotateOne, IInv, RemovedIsStored, Named, Stored
<1>8. ReadIsStored'
  BY DEF RotateOne, IInv, LockHeld, ReadIsStored
<1>9. CountSoFar'
  BY DEF RotateOne, IInv, CountSoFar
<1>10. DrainedTotalHonest'
  BY DEF RotateOne, IInv, DrainedTotalHonest
<1> QED
  BY <1>1, <1>2, <1>3, <1>4, <1>5, <1>6, <1>7, <1>8, <1>9, <1>10 DEF IInv

(* draining_files lists what to drain.                                     *)
LEMMA ListDrainingInv ==
  ASSUME IInv, NEW d \in Drainers, ListDraining(d)
  PROVE  IInv'
<1>1. TypeOK'
  <2>0. drain[d] \in DrainStates
    BY DEF IInv, TypeOK
  <2>1. PICK files \in {Named("draining")} \cup {{f} : f \in Named("draining")} :
         drain' = [drain EXCEPT ![d] = [drain[d] EXCEPT !.pc = "read", !.todo = files]]
    BY DEF ListDraining, IInv, TypeOK, DrainStates, FileStates, DrainTodo,
       Named
  <2>5. files \in SUBSET Hooks
    BY DEF Named
  <2>2. [drain[d] EXCEPT !.pc = "read", !.todo = files] \in DrainStates
    BY <2>5, <2>0, SpoolAssumption DEF DrainStates, DrainPcs, Named
  <2>3. drain' \in [Drainers -> DrainStates]
    BY <2>1, <2>2 DEF IInv, TypeOK
  <2>4. file' \in [Hooks -> FileStates]
    BY DEF ListDraining, IInv, TypeOK
  <2> QED
    BY <2>3 DEF ListDraining, IInv, TypeOK
<1>2. LockHeld'
  BY DEF ListDraining, IInv, TypeOK, LockHeld
<1>3. NotYetCreated'
  BY DEF ListDraining, IInv, NotYetCreated
<1>4. LineFileKind'
  BY DEF ListDraining, IInv, LineFileKind, Named
<1>5. LinesAreWritten'
  BY DEF ListDraining, IInv, LinesAreWritten
<1>6. DrainTodo'
  BY DEF ListDraining, IInv, TypeOK, DrainTodo, Named
<1>7. RemovedIsStored'
  BY DEF ListDraining, IInv, RemovedIsStored, Named, Stored
<1>8. ReadIsStored'
  BY DEF ListDraining, IInv, TypeOK, LockHeld, ReadIsStored
<1>9. CountSoFar'
  BY DEF ListDraining, IInv, TypeOK, CountSoFar
<1>10. DrainedTotalHonest'
  BY DEF ListDraining, IInv, DrainedTotalHonest
<1> QED
  BY <1>1, <1>2, <1>3, <1>4, <1>5, <1>6, <1>7, <1>8, <1>9, <1>10 DEF IInv

(* drain_files reads a file: its lines become the batch.                   *)
LEMMA ReadFileInv ==
  ASSUME IInv, NEW d \in Drainers, ReadFile(d)
  PROVE  IInv'
<1>1. TypeOK'
  <2>0. drain[d] \in DrainStates
    BY DEF IInv, TypeOK
  <2>1. PICK f \in drain[d].todo :
         drain' = [drain EXCEPT ![d] = [drain[d] EXCEPT !.pc = "insert", !.cur = f, !.todo = @ \ {f},
                   !.batch = {h \in file[f].lines : EventOf[h] \notin Unparsable}]]
    BY DEF ReadFile, IInv, TypeOK, DrainStates
  <2>5. f \in Hooks /\ {h \in file[f].lines : EventOf[h] \notin Unparsable} \subseteq Hooks
    BY DEF IInv, TypeOK, FileStates, DrainStates
  <2>2. [drain[d] EXCEPT !.pc = "insert", !.cur = f, !.todo = @ \ {f},
                   !.batch = {h \in file[f].lines : EventOf[h] \notin Unparsable}] \in DrainStates
    BY <2>5, <2>0, SpoolAssumption DEF DrainStates, DrainPcs, Named
  <2>3. drain' \in [Drainers -> DrainStates]
    BY <2>1, <2>2 DEF IInv, TypeOK
  <2>4. file' \in [Hooks -> FileStates]
    BY DEF ReadFile, IInv, TypeOK
  <2> QED
    BY <2>3, <2>4 DEF ReadFile, IInv, TypeOK
<1>2. LockHeld'
  BY DEF ReadFile, IInv, TypeOK, LockHeld
<1>3. NotYetCreated'
  BY DEF ReadFile, IInv, NotYetCreated
<1>4. LineFileKind'
  BY DEF ReadFile, IInv, LineFileKind, Named
<1>5. LinesAreWritten'
  BY DEF ReadFile, IInv, LinesAreWritten
<1>6. DrainTodo'
  BY DEF ReadFile, IInv, TypeOK, DrainTodo, Named
<1>7. RemovedIsStored'
  BY DEF ReadFile, IInv, RemovedIsStored, Named, Stored
<1>8. ReadIsStored'
  BY DEF ReadFile, IInv, TypeOK, ReadIsStored, Stored
<1>9. CountSoFar'
  BY DEF ReadFile, IInv, TypeOK, CountSoFar
<1>10. DrainedTotalHonest'
  BY DEF ReadFile, IInv, DrainedTotalHonest
<1> QED
  BY <1>1, <1>2, <1>3, <1>4, <1>5, <1>6, <1>7, <1>8, <1>9, <1>10 DEF IInv

(* insert_batch commits one chunk, and the total to report grows by the    *)
(* new rows.                                                               *)
LEMMA InsertChunkInv ==
  ASSUME IInv, NEW d \in Drainers, InsertChunk(d)
  PROVE  IInv'
<1>a. PICK chunk \in SUBSET drain[d].batch :
        /\ rows' = rows \cup ({EventOf[h] : h \in chunk} \ rows)
        /\ drain' = [drain EXCEPT ![d] = [drain[d] EXCEPT !.batch = @ \ chunk,
                     !.drained = @ + Cardinality({EventOf[h] : h \in chunk} \ rows)]]
  BY DEF InsertChunk, NewRowsOf, IInv, TypeOK
<1> DEFINE n == Cardinality({EventOf[h] : h \in chunk} \ rows)
<1>b. /\ Cardinality(rows) \in Nat
      /\ n \in Nat
      /\ Cardinality(rows') = Cardinality(rows) + n
  BY <1>a, NewRows DEF IInv, TypeOK, DrainStates
<1>c. drain' = [drain EXCEPT ![d] = [drain[d] EXCEPT !.batch = @ \ chunk, !.drained = @ + n]]
  BY <1>a
<1> HIDE DEF n
<1>1. TypeOK'
  <2>0. drain[d] \in DrainStates
    BY DEF IInv, TypeOK
  <2>1. drain[d].drained + n \in Nat /\ drain[d].batch \ chunk \subseteq Hooks
    BY <1>b, <2>0 DEF DrainStates
  <2>2. [drain[d] EXCEPT !.batch = drain[d].batch \ chunk, !.drained = drain[d].drained + n]
          \in DrainStates
    BY <2>0, <2>1, Zenon DEF DrainStates
  <2>3. drain' \in [Drainers -> DrainStates]
    BY <1>c, <2>2 DEF IInv, TypeOK
  <2>4. rows' \subseteq Events
    BY <1>a, SpoolAssumption DEF IInv, TypeOK, DrainStates
  <2> QED
    BY <2>3, <2>4 DEF InsertChunk, IInv, TypeOK
<1>2. LockHeld'
  BY DEF InsertChunk, IInv, TypeOK, LockHeld
<1>3. NotYetCreated'
  BY DEF InsertChunk, IInv, NotYetCreated
<1>4. LineFileKind'
  BY DEF InsertChunk, IInv, LineFileKind, Named
<1>5. LinesAreWritten'
  BY DEF InsertChunk, IInv, LinesAreWritten
<1>6. DrainTodo'
  BY DEF InsertChunk, IInv, TypeOK, DrainTodo, Named
<1>7. RemovedIsStored'
  BY DEF InsertChunk, IInv, RemovedIsStored, Named, Stored
<1>8. ReadIsStored'
  BY DEF InsertChunk, IInv, TypeOK, ReadIsStored, Stored, NewRowsOf
<1>9. CountSoFar'
  BY <1>b DEF InsertChunk, IInv, TypeOK, DrainStates, CountSoFar
<1>10. DrainedTotalHonest'
  BY <1>b DEF InsertChunk, IInv, TypeOK, DrainedTotalHonest
<1> QED
  BY <1>1, <1>2, <1>3, <1>4, <1>5, <1>6, <1>7, <1>8, <1>9, <1>10 DEF IInv

(* A failed drain leaves its files and persists no count.                  *)
LEMMA DrainFailsInv ==
  ASSUME IInv, NEW d \in Drainers, DrainFails(d)
  PROVE  IInv'
<1>1. TypeOK'
  BY DEF DrainFails, IInv, TypeOK, NoDrain, DrainPcs, DrainStates
<1>2. LockHeld'
  BY SpoolAssumption DEF DrainFails, IInv, TypeOK, LockHeld, NoDrain
<1>3. NotYetCreated'
  BY DEF DrainFails, IInv, NotYetCreated
<1>4. LineFileKind'
  BY DEF DrainFails, IInv, LineFileKind, Named
<1>5. LinesAreWritten'
  BY DEF DrainFails, IInv, LinesAreWritten
<1>6. DrainTodo'
  BY DEF DrainFails, IInv, TypeOK, LockHeld, DrainTodo, NoDrain
<1>7. RemovedIsStored'
  BY DEF DrainFails, IInv, RemovedIsStored, Named, Stored
<1>8. ReadIsStored'
  BY DEF DrainFails, IInv, TypeOK, LockHeld, ReadIsStored, NoDrain
<1>9. CountSoFar'
  BY DEF DrainFails, IInv, CountSoFar, NoDrain
<1>10. DrainedTotalHonest'
  BY DEF DrainFails, IInv, DrainedTotalHonest
<1> QED
  BY <1>1, <1>2, <1>3, <1>4, <1>5, <1>6, <1>7, <1>8, <1>9, <1>10 DEF IInv

(* drain_files removes a file whose whole batch is in the table.           *)
LEMMA RemoveFileInv ==
  ASSUME IInv, NEW d \in Drainers, RemoveFile(d)
  PROVE  IInv'
<1>1. TypeOK'
  <2>0. drain[d] \in DrainStates
    BY DEF IInv, TypeOK
  <2>1. drain' = [drain EXCEPT ![d] = [drain[d] EXCEPT !.pc = "read", !.cur = None]]
    BY DEF RemoveFile, IInv, TypeOK, DrainStates
  <2>2. [drain[d] EXCEPT !.pc = "read", !.cur = None] \in DrainStates
    BY <2>0, SpoolAssumption DEF DrainStates, DrainPcs, Named
  <2>3. drain' \in [Drainers -> DrainStates]
    BY <2>1, <2>2 DEF IInv, TypeOK
  <2>4. file' \in [Hooks -> FileStates]
    <3>1. drain[d].cur \in Hooks
      BY DEF RemoveFile, IInv, DrainTodo, Named
    <3> QED
      BY <3>1, FileRenamed DEF RemoveFile, IInv, FileNames
  <2> QED
    BY <2>3, <2>4 DEF RemoveFile, IInv, TypeOK
<1>2. LockHeld'
  BY DEF RemoveFile, IInv, TypeOK, LockHeld
<1>3. NotYetCreated'
  BY DEF RemoveFile, IInv, NotYetCreated, DrainTodo, Named
<1>4. LineFileKind'
  BY DEF RemoveFile, IInv, LineFileKind, Named
<1>5. LinesAreWritten'
  BY DEF RemoveFile, IInv, LinesAreWritten
<1>6. DrainTodo'
  <2>1. drain[d].todo \subseteq Named("draining") \ {drain[d].cur}
    BY DEF RemoveFile, IInv, DrainTodo
  <2>2. ASSUME NEW f \in Hooks, f # drain[d].cur
        PROVE  file'[f] = file[f]
    BY <2>2 DEF RemoveFile, IInv, TypeOK
  <2>3. drain'[d] = [drain[d] EXCEPT !.pc = "read", !.cur = None]
    BY DEF RemoveFile, IInv, TypeOK, DrainStates
  <2>4. drain'[d].pc = "read" /\ drain'[d].todo = drain[d].todo
    BY <2>3 DEF IInv, TypeOK, DrainStates
  <2>5. ASSUME NEW e \in Drainers, e # d
        PROVE  drain'[e] = drain[e] /\ drain[e].pc \notin
                 {"rotate", "read", "insert", "ackRename", "persist", "ackDelete"}
    BY <2>5 DEF RemoveFile, IInv, TypeOK, LockHeld
  <2>6. drain'[d].todo \subseteq Named("draining")'
    BY <2>1, <2>2, <2>4 DEF Named
  <2> QED
    BY <2>4, <2>5, <2>6 DEF DrainTodo
<1>7. RemovedIsStored'
  BY DEF RemoveFile, IInv, LinesAreWritten, DrainTodo, RemovedIsStored,
     ReadIsStored, CountSoFar, Named, Stored
<1>8. ReadIsStored'
  BY DEF RemoveFile, IInv, TypeOK, LockHeld, NotYetCreated, LineFileKind,
     ReadIsStored
<1>9. CountSoFar'
  BY DEF RemoveFile, IInv, TypeOK, CountSoFar
<1>10. DrainedTotalHonest'
  BY DEF RemoveFile, IInv, DrainedTotalHonest
<1> QED
  BY <1>1, <1>2, <1>3, <1>4, <1>5, <1>6, <1>7, <1>8, <1>9, <1>10 DEF IInv

(* begin_acknowledgement lists the drop counters.                          *)
LEMMA ListDroppedInv ==
  ASSUME IInv, NEW d \in Drainers, ListDropped(d)
  PROVE  IInv'
<1>1. TypeOK'
  <2>0. drain[d] \in DrainStates
    BY DEF IInv, TypeOK
  <2>1. drain' = [drain EXCEPT ![d] = [drain[d] EXCEPT !.pc = "ackRename", !.todo = Named("dropped")]]
    BY DEF ListDropped, IInv, TypeOK, DrainStates
  <2>2. [drain[d] EXCEPT !.pc = "ackRename", !.todo = Named("dropped")] \in DrainStates
    BY <2>0, SpoolAssumption DEF DrainStates, DrainPcs, Named
  <2>3. drain' \in [Drainers -> DrainStates]
    BY <2>1, <2>2 DEF IInv, TypeOK
  <2>4. file' \in [Hooks -> FileStates]
    BY DEF ListDropped, IInv, TypeOK
  <2> QED
    BY <2>3, <2>4 DEF ListDropped, IInv, TypeOK
<1>2. LockHeld'
  BY DEF ListDropped, IInv, TypeOK, LockHeld
<1>3. NotYetCreated'
  BY DEF ListDropped, IInv, NotYetCreated
<1>4. LineFileKind'
  BY DEF ListDropped, IInv, LineFileKind, Named
<1>5. LinesAreWritten'
  BY DEF ListDropped, IInv, LinesAreWritten
<1>6. DrainTodo'
  BY DEF ListDropped, IInv, TypeOK, DrainTodo, Named
<1>7. RemovedIsStored'
  BY DEF ListDropped, IInv, RemovedIsStored, Named, Stored
<1>8. ReadIsStored'
  BY DEF ListDropped, IInv, TypeOK, LockHeld, ReadIsStored
<1>9. CountSoFar'
  BY DEF ListDropped, IInv, TypeOK, CountSoFar
<1>10. DrainedTotalHonest'
  BY DEF ListDropped, IInv, DrainedTotalHonest
<1> QED
  BY <1>1, <1>2, <1>3, <1>4, <1>5, <1>6, <1>7, <1>8, <1>9, <1>10 DEF IInv

(* begin_acknowledgement renames one of them.                              *)
LEMMA RenameDroppedInv ==
  ASSUME IInv, NEW d \in Drainers, RenameDropped(d)
  PROVE  IInv'
<1>1. TypeOK'
  <2>0. drain[d] \in DrainStates
    BY DEF IInv, TypeOK
  <2>1. PICK f \in drain[d].todo :
         /\ drain' = [drain EXCEPT ![d] = [drain[d] EXCEPT !.todo = @ \ {f}]]
         /\ file' = [file EXCEPT ![f].name = "ack"]
    BY DEF RenameDropped, IInv, TypeOK, DrainStates, FileStates, DrainTodo,
       Named
  <2>2. [drain[d] EXCEPT !.todo = @ \ {f}] \in DrainStates
    BY <2>0 DEF DrainStates
  <2>3. drain' \in [Drainers -> DrainStates]
    BY <2>1, <2>2 DEF IInv, TypeOK
  <2>4. f \in Hooks
    BY <2>0, <2>1 DEF DrainStates
  <2>5. file' \in [Hooks -> FileStates]
    BY <2>1, <2>4, FileRenamed DEF IInv, FileNames
  <2> QED
    BY <2>3, <2>5 DEF RenameDropped, IInv, TypeOK
<1>2. LockHeld'
  BY DEF RenameDropped, IInv, LockHeld
<1>3. NotYetCreated'
  BY DEF RenameDropped, IInv, NotYetCreated, DrainTodo, Named
<1>4. LineFileKind'
  BY DEF RenameDropped, IInv, LineFileKind, DrainTodo, Named
<1>5. LinesAreWritten'
  BY DEF RenameDropped, IInv, LinesAreWritten
<1>6. DrainTodo'
  <2>1. PICK f \in drain[d].todo :
         /\ drain' = [drain EXCEPT ![d].todo = @ \ {f}]
         /\ file' = [file EXCEPT ![f].name = "ack"]
    BY DEF RenameDropped
  <2>2. drain[d].todo \subseteq Named("dropped")
    BY DEF RenameDropped, IInv, DrainTodo
  <2>3. \A e \in Drainers \ {d} : drain[e].pc = "idle"
    BY DEF RenameDropped, IInv, LockHeld
  <2> QED
    BY <2>1, <2>2, <2>3 DEF RenameDropped, IInv, TypeOK, DrainTodo, DrainStates, Named, FileStates
<1>7. RemovedIsStored'
  BY DEF RenameDropped, IInv, RemovedIsStored, Named, Stored
<1>8. ReadIsStored'
  BY DEF RenameDropped, IInv, LockHeld, ReadIsStored
<1>9. CountSoFar'
  BY DEF RenameDropped, IInv, CountSoFar
<1>10. DrainedTotalHonest'
  BY DEF RenameDropped, IInv, DrainedTotalHonest
<1> QED
  BY <1>1, <1>2, <1>3, <1>4, <1>5, <1>6, <1>7, <1>8, <1>9, <1>10 DEF IInv

(* begin_acknowledgement adds up what the renamed counters hold.           *)
LEMMA CountAcksInv ==
  ASSUME IInv, NEW d \in Drainers, CountAcks(d)
  PROVE  IInv'
<1>a. Bytes(Named("ack")) \in Nat
  BY BytesType DEF IInv, Named
<1>b. /\ drain'[d].pc = "persist" /\ drain'[d].todo = Named("ack")
      /\ drain'[d].cur = drain[d].cur /\ drain'[d].batch = drain[d].batch
      /\ drain'[d].drained = drain[d].drained
      /\ \A e \in Drainers \ {d} : drain'[e] = drain[e]
  BY DEF CountAcks, IInv, TypeOK
<1>1. TypeOK'
  <2>0. drain[d] \in DrainStates
    BY DEF IInv, TypeOK
  <2> DEFINE n == Bytes(Named("ack"))
  <2>2. n \in Nat
    BY <1>a
  <2>5. drain' = [drain EXCEPT ![d] = [drain[d] EXCEPT !.pc = "persist", !.todo = Named("ack"),
                 !.dropped = @ + n]]
    BY DEF CountAcks, IInv, TypeOK
  <2> HIDE DEF n
  <2>1. drain[d].dropped + n \in Nat /\ Named("ack") \subseteq Hooks
    BY <2>0, <2>2 DEF DrainStates, Named
  <2>6. [drain[d] EXCEPT !.pc = "persist", !.todo = Named("ack"), !.dropped = drain[d].dropped + n]
          \in DrainStates
    BY <2>0, <2>1 DEF DrainStates, DrainPcs
  <2>3. drain' \in [Drainers -> DrainStates]
    BY <2>5, <2>6 DEF IInv, TypeOK
  <2>4. file' \in [Hooks -> FileStates]
    BY DEF CountAcks, IInv, TypeOK
  <2> QED
    BY <2>3, <2>4 DEF CountAcks, IInv, TypeOK
<1>2. LockHeld'
  BY <1>b DEF CountAcks, IInv, LockHeld
<1>3. NotYetCreated'
  BY DEF CountAcks, IInv, NotYetCreated
<1>4. LineFileKind'
  BY DEF CountAcks, IInv, LineFileKind, Named
<1>5. LinesAreWritten'
  BY DEF CountAcks, IInv, LinesAreWritten
<1>6. DrainTodo'
  <2>1. \A e \in Drainers \ {d} : drain[e].pc = "idle"
    BY DEF CountAcks, IInv, LockHeld
  <2> QED
    BY <1>b, <2>1 DEF CountAcks, DrainTodo, Named
<1>7. RemovedIsStored'
  BY DEF CountAcks, IInv, RemovedIsStored, Named, Stored
<1>8. ReadIsStored'
  <2>1. \A e \in Drainers \ {d} : drain'[e] = drain[e]
    BY <1>b
  <2>2. UNCHANGED <<file, rows, late>>
    BY DEF CountAcks
  <2> QED
    BY <1>b, <2>1, <2>2 DEF IInv, ReadIsStored, Stored
<1>9. CountSoFar'
  BY <1>b DEF CountAcks, IInv, CountSoFar
<1>10. DrainedTotalHonest'
  BY DEF CountAcks, IInv, DrainedTotalHonest
<1> QED
  BY <1>1, <1>2, <1>3, <1>4, <1>5, <1>6, <1>7, <1>8, <1>9, <1>10 DEF IInv

(* drain_locked writes both totals to _drain.json.                         *)
LEMMA PersistInv ==
  ASSUME IInv, NEW d \in Drainers, Persist(d)
  PROVE  IInv'
<1>1. TypeOK'
  <2>0. drain[d] \in DrainStates
    BY DEF IInv, TypeOK
  <2>1. drain' = [drain EXCEPT ![d] = [drain[d] EXCEPT !.pc = "ackDelete"]]
    BY DEF Persist
  <2>2. [drain[d] EXCEPT !.pc = "ackDelete"] \in DrainStates
    BY <2>0 DEF DrainStates, DrainPcs
  <2>3. drain' \in [Drainers -> DrainStates]
    BY <2>1, <2>2 DEF IInv, TypeOK
  <2>4. file' \in [Hooks -> FileStates]
    BY DEF Persist, IInv, TypeOK
  <2>5. state' \in [drained : Nat, dropped : Nat]
    BY <2>0 DEF Persist, DrainStates
  <2> QED
    BY <2>3, <2>4, <2>5 DEF Persist, IInv, TypeOK
<1>2. LockHeld'
  BY DEF Persist, IInv, LockHeld
<1>3. NotYetCreated'
  BY DEF Persist, IInv, NotYetCreated
<1>4. LineFileKind'
  BY DEF Persist, IInv, LineFileKind, Named
<1>5. LinesAreWritten'
  BY DEF Persist, IInv, LinesAreWritten
<1>6. DrainTodo'
  BY DEF Persist, IInv, DrainTodo, Named
<1>7. RemovedIsStored'
  BY DEF Persist, IInv, RemovedIsStored, Named, Stored
<1>8. ReadIsStored'
  BY DEF Persist, IInv, LockHeld, ReadIsStored
<1>9. CountSoFar'
  BY DEF Persist, IInv, CountSoFar
<1>10. DrainedTotalHonest'
  BY DEF Persist, IInv, CountSoFar, DrainedTotalHonest
<1> QED
  BY <1>1, <1>2, <1>3, <1>4, <1>5, <1>6, <1>7, <1>8, <1>9, <1>10 DEF IInv

(* Acknowledgement::finish deletes one counted file.                       *)
LEMMA DeleteAckInv ==
  ASSUME IInv, NEW d \in Drainers, DeleteAck(d)
  PROVE  IInv'
<1>1. TypeOK'
  <2>0. drain[d] \in DrainStates
    BY DEF IInv, TypeOK
  <2>1. PICK f \in drain[d].todo :
         /\ drain' = [drain EXCEPT ![d] = [drain[d] EXCEPT !.todo = @ \ {f}]]
         /\ file' = [file EXCEPT ![f].name = "gone"]
    BY DEF DeleteAck, IInv, TypeOK, DrainStates, FileStates, DrainTodo, Named
  <2>2. [drain[d] EXCEPT !.todo = @ \ {f}] \in DrainStates
    BY <2>0 DEF DrainStates
  <2>3. drain' \in [Drainers -> DrainStates]
    BY <2>1, <2>2 DEF IInv, TypeOK
  <2>4. f \in Hooks
    BY <2>0, <2>1 DEF DrainStates
  <2>5. file' \in [Hooks -> FileStates]
    BY <2>1, <2>4, FileRenamed DEF IInv, FileNames
  <2> QED
    BY <2>3, <2>5 DEF DeleteAck, IInv, TypeOK
<1>2. LockHeld'
  BY DEF DeleteAck, IInv, LockHeld
<1>3. NotYetCreated'
  BY DEF DeleteAck, IInv, NotYetCreated, DrainTodo, Named
<1>4. LineFileKind'
  BY DEF DeleteAck, IInv, LineFileKind, Named
<1>5. LinesAreWritten'
  BY DEF DeleteAck, IInv, LinesAreWritten
<1>6. DrainTodo'
  BY DEF DeleteAck, IInv, TypeOK, LockHeld, DrainTodo, Named
<1>7. RemovedIsStored'
  <2>1. PICK f \in drain[d].todo : file' = [file EXCEPT ![f].name = "gone"]
    BY DEF DeleteAck
  <2>2. f \in Named("ack")
    BY DEF DeleteAck, IInv, DrainTodo
  <2>3. \A g \in Hooks \ {f} : g \in Named("gone")' => g \in Named("gone")
    BY <2>1 DEF Named
  <2> QED
    BY <2>2, <2>3 DEF DeleteAck, IInv, LineFileKind, RemovedIsStored, Stored,
       Named
<1>8. ReadIsStored'
  BY DEF DeleteAck, IInv, LockHeld, ReadIsStored
<1>9. CountSoFar'
  BY DEF DeleteAck, IInv, CountSoFar
<1>10. DrainedTotalHonest'
  BY DEF DeleteAck, IInv, DrainedTotalHonest
<1> QED
  BY <1>1, <1>2, <1>3, <1>4, <1>5, <1>6, <1>7, <1>8, <1>9, <1>10 DEF IInv

(* Acknowledgement::finish passes over a counter it cannot remove.         *)
LEMMA KeepAckInv ==
  ASSUME IInv, NEW d \in Drainers, KeepAck(d)
  PROVE  IInv'
<1>1. PICK f \in drain[d].todo : drain' = [drain EXCEPT ![d].todo = @ \ {f}]
  BY DEF KeepAck
<1>2. /\ drain'[d] = [drain[d] EXCEPT !.todo = @ \ {f}]
      /\ drain'[d].pc = "ackDelete" /\ drain'[d].todo \subseteq drain[d].todo
      /\ drain[d].pc = "ackDelete"
      /\ \A e \in Drainers \ {d} : drain'[e] = drain[e]
  BY <1>1 DEF KeepAck, IInv, TypeOK, DrainStates
<1>3. TypeOK'
  <2>1. drain'[d] \in DrainStates
    BY <1>2 DEF IInv, TypeOK, DrainStates
  <2>2. drain' \in [Drainers -> DrainStates]
    BY <1>1, <2>1 DEF IInv, TypeOK
  <2> QED
    BY <2>2 DEF KeepAck, IInv, TypeOK
<1>4. LockHeld'
  BY <1>2 DEF KeepAck, IInv, LockHeld
<1>5. NotYetCreated' /\ LineFileKind' /\ LinesAreWritten' /\ RemovedIsStored'
  BY DEF KeepAck, IInv, NotYetCreated, LineFileKind, LinesAreWritten, RemovedIsStored,
     Stored, Named
<1>6. DrainTodo'
  BY <1>2 DEF KeepAck, IInv, DrainTodo, Named
<1>7. ReadIsStored'
  BY <1>2 DEF KeepAck, IInv, ReadIsStored, Stored
<1>8. CountSoFar' /\ DrainedTotalHonest'
  BY <1>1 DEF KeepAck, IInv, TypeOK, DrainStates, CountSoFar, DrainedTotalHonest
<1> QED
  BY <1>3, <1>4, <1>5, <1>6, <1>7, <1>8 DEF IInv

(* The drain ends and the kernel frees memory.lock.                        *)
LEMMA ReleaseLockInv ==
  ASSUME IInv, NEW d \in Drainers, ReleaseLock(d)
  PROVE  IInv'
<1>1. TypeOK'
  BY DEF ReleaseLock, IInv, TypeOK, NoDrain, DrainPcs, DrainStates
<1>2. LockHeld'
  BY SpoolAssumption DEF ReleaseLock, IInv, TypeOK, LockHeld, NoDrain
<1>3. NotYetCreated'
  BY DEF ReleaseLock, IInv, NotYetCreated
<1>4. LineFileKind'
  BY DEF ReleaseLock, IInv, LineFileKind, Named
<1>5. LinesAreWritten'
  BY DEF ReleaseLock, IInv, LinesAreWritten
<1>6. DrainTodo'
  BY DEF ReleaseLock, IInv, LockHeld, DrainTodo, NoDrain
<1>7. RemovedIsStored'
  BY DEF ReleaseLock, IInv, RemovedIsStored, Named, Stored
<1>8. ReadIsStored'
  BY DEF ReleaseLock, IInv, LockHeld, ReadIsStored, NoDrain
<1>9. CountSoFar'
  BY DEF ReleaseLock, IInv, CountSoFar, NoDrain
<1>10. DrainedTotalHonest'
  BY DEF ReleaseLock, IInv, DrainedTotalHonest
<1> QED
  BY <1>1, <1>2, <1>3, <1>4, <1>5, <1>6, <1>7, <1>8, <1>9, <1>10 DEF IInv

(* A drain is killed at any step: the lock goes, the files stay as they    *)
(* are.                                                                    *)
LEMMA DrainDiesInv ==
  ASSUME IInv, NEW d \in Drainers, DrainDies(d)
  PROVE  IInv'
<1>1. TypeOK'
  BY DEF DrainDies, IInv, TypeOK, NoDrain, DrainPcs, DrainStates
<1>2. LockHeld'
  BY SpoolAssumption DEF DrainDies, IInv, TypeOK, LockHeld, NoDrain
<1>3. NotYetCreated'
  BY DEF DrainDies, IInv, NotYetCreated
<1>4. LineFileKind'
  BY DEF DrainDies, IInv, LineFileKind, Named
<1>5. LinesAreWritten'
  BY DEF DrainDies, IInv, LinesAreWritten
<1>6. DrainTodo'
  BY DEF DrainDies, IInv, TypeOK, LockHeld, DrainTodo, NoDrain
<1>7. RemovedIsStored'
  BY DEF DrainDies, IInv, RemovedIsStored, Named, Stored
<1>8. ReadIsStored'
  BY DEF DrainDies, IInv, TypeOK, LockHeld, ReadIsStored, NoDrain
<1>9. CountSoFar'
  BY DEF DrainDies, IInv, CountSoFar, NoDrain
<1>10. DrainedTotalHonest'
  BY DEF DrainDies, IInv, DrainedTotalHonest
<1> QED
  BY <1>1, <1>2, <1>3, <1>4, <1>5, <1>6, <1>7, <1>8, <1>9, <1>10 DEF IInv

(* The empty spool satisfies the invariant.                                *)
LEMMA InitIInv == Init => IInv
  BY SpoolAssumption, FS_EmptySet DEF Init, IInv, TypeOK, LockHeld,
     NotYetCreated, LineFileKind, LinesAreWritten, DrainTodo, RemovedIsStored,
     ReadIsStored, CountSoFar, DrainedTotalHonest, NoDrain, NoListing,
     HookStates, FileStates, DrainStates, HookPcs, FileNames, DrainPcs

(* Steps of other systems change nothing here.                             *)
LEMMA StutterIInv ==
  ASSUME IInv, UNCHANGED vars
  PROVE  IInv'
  BY DEF vars, IInv, TypeOK, LockHeld, NotYetCreated, LineFileKind,
     LinesAreWritten, DrainTodo, RemovedIsStored, ReadIsStored, CountSoFar,
     DrainedTotalHonest, Named, Stored

(* The inductive invariant holds in every reachable state: the lock keeps  *)
(* one drain at a time, each phase of it works on files of one kind, and   *)
(* no file is removed before its lines are stored.                         *)
THEOREM Inductive == Spec => []IInv
<1>1. Init => IInv
  BY InitIInv
<1>2. IInv /\ [Next]_vars => IInv'
  <2> SUFFICES ASSUME IInv, [Next]_vars
               PROVE  IInv'
    OBVIOUS
  <2>1. CASE UNCHANGED vars
    BY <2>1, StutterIInv
  <2>2. ASSUME NEW h \in Hooks,
               ListFiles(h) \/ StatFiles(h) \/ OpenFile(h) \/ WriteLine(h) \/ HookDies(h)
        PROVE  IInv'
    BY <2>2, ListFilesInv, StatFilesInv, OpenFileInv, WriteLineInv, HookDiesInv
  <2>3. ASSUME NEW d \in Drainers,
               \/ TakeLock(d) \/ RotateOne(d) \/ ListDraining(d) \/ ReadFile(d)
               \/ InsertChunk(d) \/ DrainFails(d) \/ RemoveFile(d) \/ ListDropped(d)
               \/ RenameDropped(d) \/ CountAcks(d) \/ Persist(d) \/ DeleteAck(d)
               \/ KeepAck(d) \/ ReleaseLock(d) \/ DrainDies(d)
        PROVE  IInv'
    BY <2>3, TakeLockInv, RotateOneInv, ListDrainingInv, ReadFileInv,
       InsertChunkInv, DrainFailsInv, RemoveFileInv, ListDroppedInv,
       RenameDroppedInv, CountAcksInv, PersistInv, DeleteAckInv,
       KeepAckInv, ReleaseLockInv, DrainDiesInv
  <2> QED
    BY <2>1, <2>2, <2>3 DEF Next
<1> QED
  BY <1>1, <1>2, PTL DEF Spec

(* Every variable keeps its type, for any number of processes.             *)
THEOREM TypeCorrect == Spec => []TypeOK
<1>1. IInv => TypeOK
  BY DEF IInv
<1> QED
  BY <1>1, Inductive, PTL

(* No crash, failed insert or concurrent capture loses a written line,     *)
(* save in the window rotate_new_spools documents.                         *)
THEOREM WrittenLinesSurvive == Spec => []NoWrittenLineLost
<1>1. IInv => NoWrittenLineLost
  <2> SUFFICES ASSUME IInv, NEW h \in Hooks, hook[h].pc = "written", h \notin late
               PROVE  \/ h \in Linked("live") \cup Linked("draining")
                      \/ EventOf[h] \in rows \cup Unparsable
    BY DEF NoWrittenLineLost
  <2>1. h \in file[hook[h].file].lines
    BY DEF IInv, LineFileKind, LinesAreWritten, Named
  <2>2. hook[h].file \in Named("live") \cup Named("draining") \cup Named("gone")
    BY DEF IInv, LineFileKind
  <2>3. CASE hook[h].file \in Named("gone")
    BY <2>3 DEF IInv, RemovedIsStored, Stored
  <2> QED
    BY <2>1, <2>2, <2>3 DEF Linked
<1> QED
  BY <1>1, Inductive, PTL

(* drained_total never exceeds the rows of the table.                      *)
THEOREM DrainedTotalNeverOver == Spec => []DrainedTotalHonest
<1>1. IInv => DrainedTotalHonest
  BY DEF IInv
<1> QED
  BY <1>1, Inductive, PTL

-----------------------------------------------------------------------------
(* The drop counters.                                                      *)

(* The total n counts the drops S, but for those of L, and over-counts at  *)
(* most the drops D once for each of c crashes or failed removals.         *)
Honest(n, S, L, D, c) ==
  /\ Cardinality(S \ L) <= n
  /\ n <= Cardinality(S) + Cardinality(D) * c

(* A total that counts the drops S, with or without the late ones L, and   *)
(* that over-counts by the D drops of each of c crashes, counts T as well  *)
(* when T is S but for late drops; after another crash it need not reach   *)
(* T at all.                                                               *)
LEMMA StillCounts ==
  ASSUME NEW n \in Nat, NEW c \in Nat, NEW e \in Nat,
         NEW S \in SUBSET Hooks, NEW T \in SUBSET Hooks, NEW L, NEW M,
         NEW D \in SUBSET Hooks, NEW E \in SUBSET Hooks,
         Honest(n, S, L, D, c), S \subseteq D, D \subseteq E, T \ M \subseteq S \ L,
         (S \subseteq T /\ e = c) \/ e = c + 1
  PROVE  Honest(n, T, M, E, e)
<1>a. Cardinality(S \ L) <= n /\ n <= Cardinality(S) + Cardinality(D) * c
  BY DEF Honest
<1> SUFFICES Cardinality(T \ M) <= n /\ n <= Cardinality(T) + Cardinality(E) * e
  BY DEF Honest
<1>1. /\ IsFiniteSet(S) /\ IsFiniteSet(T) /\ IsFiniteSet(D) /\ IsFiniteSet(E)
      /\ IsFiniteSet(S \ L)
  BY SpoolAssumption, FS_Subset
<1>2. /\ Cardinality(T \ M) <= Cardinality(S \ L) /\ Cardinality(S) <= Cardinality(D)
      /\ Cardinality(D) <= Cardinality(E)
  BY <1>1, FS_Subset
<1>3. S \subseteq T => Cardinality(S) <= Cardinality(T)
  BY <1>1, FS_Subset
<1>4. /\ Cardinality(S) \in Nat /\ Cardinality(T) \in Nat /\ Cardinality(D) \in Nat
      /\ Cardinality(E) \in Nat /\ Cardinality(S \ L) \in Nat
  BY <1>1, FS_CardinalityType
<1>5. Cardinality(T \ M) \in Nat
  BY SpoolAssumption, FS_Subset, FS_CardinalityType
<1> DEFINE s == Cardinality(S)  t == Cardinality(T)  d == Cardinality(D)
           f == Cardinality(E)
<1>6. d * c <= f * c /\ d * c \in Nat /\ f * c \in Nat
  <2> SUFFICES ASSUME NEW i \in Nat, NEW j \in Nat, i <= j
               PROVE  i * c <= j * c /\ i * c \in Nat /\ j * c \in Nat
    BY <1>2, <1>4
  <2>1. j = i + (j - i) /\ j - i \in Nat
    OBVIOUS
  <2>2. j * c = i * c + (j - i) * c
    BY <2>1
  <2>3. i * c \in Nat /\ (j - i) * c \in Nat
    BY <2>1
  <2> QED
    BY <2>2, <2>3
<1>7. f * (c + 1) = f * c + f
  BY <1>4
<1>8. CASE S \subseteq T /\ e = c
  <2>1. s <= t /\ s \in Nat /\ t \in Nat
    BY <1>3, <1>4, <1>8
  <2>2. n <= s + d * c
    BY <1>a
  <2> HIDE DEF s, t, d, f
  <2>3. n <= t + f * c
    BY <2>1, <2>2, <1>6
  <2> QED
    BY <1>a, <2>3, <1>2, <1>4, <1>5, <1>8 DEF t, f
<1>9. CASE e = c + 1
  <2>1. s <= f /\ s \in Nat /\ t \in Nat /\ f \in Nat
    BY <1>2, <1>4
  <2>2. n <= s + d * c
    BY <1>a
  <2> HIDE DEF s, t, d, f
  <2>3. n <= t + f * e
    BY <2>1, <2>2, <1>6, <1>7, <1>9
  <2> QED
    BY <1>a, <2>3, <1>2, <1>4, <1>5 DEF t, f
<1> QED
  BY <1>8, <1>9

(* Drops are among the hooks.                                              *)
LEMMA DropsAreHooks == Drops \subseteq Hooks /\ \A files : DropsIn(files) \subseteq Drops
  BY DEF Drops, DropsIn

(* A step after which the same drops are counted, but for late ones, keeps *)
(* a total honest.                                                         *)
LEMMA CountedKept ==
  ASSUME TypeOK, TypeOK', Folded(state.dropped, CountedFiles),
         state'.dropped = state.dropped, Drops \subseteq Drops',
         DropsIn(CountedFiles)' \ late' \subseteq DropsIn(CountedFiles) \ late,
         \/ DropsIn(CountedFiles) \subseteq DropsIn(CountedFiles)' /\ crashes' = crashes
         \/ crashes' = crashes + 1
  PROVE  Folded(state.dropped, CountedFiles)'
<1>1. state.dropped \in Nat /\ crashes \in Nat /\ crashes' \in Nat
  BY DEF TypeOK
<1>2. /\ DropsIn(CountedFiles) \subseteq Drops /\ Drops \subseteq Hooks
      /\ DropsIn(CountedFiles)' \subseteq Drops' /\ Drops' \subseteq Hooks
  BY DEF Drops, DropsIn
<1> DEFINE S == DropsIn(CountedFiles)  T == DropsIn(CountedFiles)'
           D == Drops  E == Drops'
<1>3. Honest(state.dropped, S, late, D, crashes)
  BY DEF Folded, Honest
<1>4. Honest(state.dropped, T, late', E, crashes')
  <2>1. S \subseteq D /\ D \subseteq E /\ T \ late' \subseteq S \ late /\ D \subseteq Hooks /\ E \subseteq Hooks
        /\ T \subseteq E /\ ((S \subseteq T /\ crashes' = crashes) \/ crashes' = crashes + 1)
    BY <1>2
  <2> HIDE DEF S, T, D, E
  <2> QED
    BY <1>1, <1>3, <2>1, StillCounts
<1> QED
  BY <1>4 DEF Folded, Honest

(* The same for the total a drain is about to persist.                     *)
LEMMA PersistingKept ==
  ASSUME TypeOK, TypeOK', NEW d \in Drainers,
         Folded(drain[d].dropped, Named("gone") \cup drain[d].todo),
         drain'[d].dropped = drain[d].dropped, Drops \subseteq Drops', crashes' = crashes,
         DropsIn(Named("gone") \cup drain[d].todo)' \ late'
           \subseteq DropsIn(Named("gone") \cup drain[d].todo) \ late,
         DropsIn(Named("gone") \cup drain[d].todo)
           \subseteq DropsIn(Named("gone") \cup drain[d].todo)'
  PROVE  Folded(drain[d].dropped, Named("gone") \cup drain[d].todo)'
<1>1. drain[d].dropped \in Nat /\ crashes \in Nat
  BY DEF TypeOK, DrainStates
<1> DEFINE S == DropsIn(Named("gone") \cup drain[d].todo)
           T == DropsIn(Named("gone") \cup drain[d].todo)'
           D == Drops  E == Drops'
<1>2. S \subseteq D /\ D \subseteq Hooks /\ T \subseteq E /\ E \subseteq Hooks
  BY DEF Drops, DropsIn
<1>3. Honest(drain[d].dropped, S, late, D, crashes)
  BY DEF Folded, Honest
<1>4. Honest(drain[d].dropped, T, late', E, crashes)
  <2>1. D \subseteq E /\ T \ late' \subseteq S \ late /\ S \subseteq T
    OBVIOUS
  <2> HIDE DEF S, T, D, E
  <2> QED
    BY <1>1, <1>2, <1>3, <2>1, StillCounts
<1> QED
  BY <1>4 DEF Folded, Honest

(* Most steps neither move a drop into the deleted counters nor out of     *)
(* them, and a drop written to a counter already read is late.             *)
LEMMA FoldedKept ==
  ASSUME IInv, IInv', DropsFolded,
         state'.dropped = state.dropped, crashes' = crashes, late \subseteq late',
         Drops \subseteq Drops', \A g \in Drops : hook'[g].file = hook[g].file,
         \A g \in Drops' \ Drops :
           g \in late' \/ (/\ hook'[g].file \notin CountedFiles'
                           /\ \A d \in Drainers : drain'[d].pc = "persist" =>
                                hook'[g].file \notin Named("gone")' \cup drain'[d].todo),
         \A g \in Drops : hook[g].file \in CountedFiles <=> hook[g].file \in CountedFiles',
         \A d \in Drainers : drain'[d].pc = "persist" =>
           /\ drain[d].pc = "persist" /\ drain'[d].dropped = drain[d].dropped
           /\ drain'[d].todo = drain[d].todo
           /\ \A g \in Drops : hook[g].file \in Named("gone") <=> hook[g].file \in Named("gone")'
  PROVE  DropsFolded'
<1>1. DropsIn(CountedFiles) \subseteq DropsIn(CountedFiles)'
  BY DEF DropsIn
<1>2. DropsIn(CountedFiles)' \ late' \subseteq DropsIn(CountedFiles) \ late
  BY DEF DropsIn
<1>3. Folded(state.dropped, CountedFiles)'
  BY <1>1, <1>2, CountedKept DEF IInv, DropsFolded
<1>4. ASSUME NEW d \in Drainers, drain'[d].pc = "persist"
      PROVE  Folded(drain[d].dropped, Named("gone") \cup drain[d].todo)'
  <2>1. DropsIn(Named("gone") \cup drain[d].todo)
          \subseteq DropsIn(Named("gone") \cup drain[d].todo)'
    BY <1>4 DEF DropsIn
  <2>2. DropsIn(Named("gone") \cup drain[d].todo)' \ late'
          \subseteq DropsIn(Named("gone") \cup drain[d].todo) \ late
    BY <1>4 DEF DropsIn
  <2>3. Folded(drain[d].dropped, Named("gone") \cup drain[d].todo)
    BY <1>4 DEF DropsFolded
  <2> QED
    BY <1>4, <2>1, <2>2, <2>3, PersistingKept DEF IInv
<1> QED
  BY <1>3, <1>4 DEF DropsFolded

(* A hook that lists, measures or dies counts nothing.                     *)
LEMMA HookStepDrops ==
  ASSUME IInv, IInv', DropsInv, NEW h \in Hooks, ListFiles(h) \/ StatFiles(h) \/ HookDies(h)
  PROVE  DropsInv'
<1>0. PICK next \in {"stat", "open", "openDropped", "dead"} :
        hook' = [hook EXCEPT ![h].pc = next]
  BY DEF ListFiles, StatFiles, HookDies
<1>a. hook[h].pc # "dropped" /\ UNCHANGED <<file, state, drain, crashes, late>>
  BY DEF ListFiles, StatFiles, HookDies
<1>b. /\ \A g \in Hooks : hook'[g].file = hook[g].file
      /\ \A g \in Hooks \ {h} : hook'[g].pc = hook[g].pc
      /\ hook'[h].pc = next
  BY <1>0 DEF IInv, TypeOK, HookStates
<1>c. Drops' = Drops
  BY <1>a, <1>b DEF Drops
<1>1. /\ Drops' = Drops /\ \A g \in Hooks : hook'[g].file = hook[g].file
      /\ \A g \in Hooks : hook'[g].pc \in {"writeDropped", "dropped"} => hook'[g].pc = hook[g].pc
      /\ UNCHANGED <<file, state, drain, crashes, late>>
  BY <1>a, <1>b, <1>c
<1>2. CountedFiles' = CountedFiles /\ Named("gone")' = Named("gone")
  BY <1>1 DEF CountedFiles, Named
<1>3. DropsFolded'
  BY <1>1, <1>2, FoldedKept DEF DropsInv, Drops
<1>4. DropFileKind'
  BY <1>1 DEF DropsInv, DropFileKind, Named
<1>5. TotalCarried'
  BY <1>1 DEF DropsInv, TotalCarried
<1> QED
  BY <1>3, <1>4, <1>5 DEF DropsInv

(* A hook opens its counter, or creates it.                                *)
LEMMA OpenFileDrops ==
  ASSUME IInv, IInv', DropsInv, NEW h \in Hooks, OpenFile(h)
  PROVE  DropsInv'
<1>0. PICK name \in {"live", "dropped"}, next \in {"write", "writeDropped"} :
        /\ OpenOrCreate(h, name, next)
        /\ name = "live" <=> next = "write"
        /\ hook[h].pc \in {"open", "openDropped"}
  BY DEF OpenFile
<1>a. PICK f \in Hooks :
        /\ hook' = [hook EXCEPT ![h] = [pc |-> next, file |-> f]]
        /\ file' = [file EXCEPT ![f].name = name]
        /\ file[f].name = name \/ (f = h /\ file[f].name = "none")
  BY <1>0 DEF OpenOrCreate, IInv, TypeOK, FileStates, Named, NotYetCreated
<1>b. UNCHANGED <<state, drain, crashes, late>>
  BY DEF OpenFile
<1>1. Drops' = Drops /\ \A g \in Drops : hook'[g].file = hook[g].file
  BY <1>0, <1>a DEF Drops, IInv, TypeOK
<1>2. \A n \in {"dropped", "ack", "gone"} : Named(n) \subseteq Named(n)'
  BY <1>a DEF Named, IInv, TypeOK
<1>3. Named("gone")' = Named("gone")
  BY <1>a DEF Named, IInv, TypeOK
<1>4. CountedFiles' = CountedFiles
  BY <1>b, <1>3 DEF CountedFiles
<1>5. DropsFolded'
  BY <1>1, <1>3, <1>4, <1>b, FoldedKept DEF DropsInv, Drops
<1>6. DropFileKind'
  <2> SUFFICES ASSUME NEW g \in Hooks, hook'[g].pc \in {"writeDropped", "dropped"}
               PROVE  hook'[g].file \in Named("dropped")' \cup Named("ack")' \cup Named("gone")'
    BY DEF DropFileKind
  <2>1. CASE g = h
    BY <1>0, <1>a, <2>1 DEF IInv, TypeOK, Named
  <2>2. CASE g # h
    BY <1>a, <1>2, <2>2 DEF DropsInv, DropFileKind, IInv, TypeOK
  <2> QED
    BY <2>1, <2>2
<1>7. TotalCarried'
  BY <1>b DEF DropsInv, TotalCarried
<1> QED
  BY <1>5, <1>6, <1>7 DEF DropsInv

(* A hook writes its drop: to a counter no drain has read, or late.        *)
LEMMA WriteLineDrops ==
  ASSUME IInv, IInv', DropsInv, NEW h \in Hooks, WriteLine(h)
  PROVE  DropsInv'
<1>1. /\ \A g \in Hooks : hook'[g].file = hook[g].file
      /\ \A g \in Hooks \ {h} : hook'[g].pc = hook[g].pc
      /\ hook[h].pc = "write" => hook'[h].pc = "written"
      /\ hook[h].pc # "write" => hook'[h].pc = "dropped" /\ hook[h].pc = "writeDropped"
      /\ UNCHANGED <<state, drain, crashes>> /\ late \subseteq late'
      /\ TakenByDrain(hook[h].file) => h \in late'
  BY DEF WriteLine, IInv, TypeOK
<1>2. \A n : Named(n)' = Named(n)
  BY DEF WriteLine, Named, IInv, TypeOK
<1>3. CountedFiles' = CountedFiles
  BY <1>1, <1>2 DEF CountedFiles
<1>4. Drops \subseteq Drops' /\ Drops' \ Drops \subseteq {h}
  BY <1>1 DEF Drops, WriteLine
<1>5. hook'[h].file \in CountedFiles => h \in late'
  BY <1>1 DEF CountedFiles, Named, TakenByDrain
<1>6. \A d \in Drainers : drain[d].pc = "persist" /\ hook'[h].file \in Named("gone") \cup drain[d].todo
                            => h \in late'
  BY <1>1 DEF Named, TakenByDrain
<1>7. DropsFolded'
  <2>1. \A g \in Drops' \ Drops :
          g \in late' \/ (/\ hook'[g].file \notin CountedFiles'
                          /\ \A d \in Drainers : drain'[d].pc = "persist" =>
                               hook'[g].file \notin Named("gone")' \cup drain'[d].todo)
    BY <1>1, <1>2, <1>3, <1>4, <1>5, <1>6
  <2>2. Drops \subseteq Hooks
    BY DEF Drops
  <2> QED
    BY <1>1, <1>2, <1>3, <1>4, <2>1, <2>2, FoldedKept DEF DropsInv
<1>8. DropFileKind'
  BY <1>1, <1>2 DEF DropsInv, DropFileKind
<1>9. TotalCarried'
  BY <1>1 DEF DropsInv, TotalCarried
<1> QED
  BY <1>7, <1>8, <1>9 DEF DropsInv

(* A drain is alone: no other is past the lock.                            *)
LEMMA DrainsAlone ==
  ASSUME LockHeld, NEW d \in Drainers, drain[d].pc # "idle"
  PROVE  \A e \in Drainers \ {d} : drain[e].pc = "idle"
  BY DEF LockHeld

(* The steps of a drain before it counts and after it has deleted move no  *)
(* drop: what they delete, if anything, is a file of lines.                *)
LEMMA QuietDrops ==
  ASSUME IInv, IInv', DropsInv, NEW d \in Drainers, UNCHANGED <<hook, state, crashes, late>>,
         \A e \in Drainers \ {d} : drain'[e] = drain[e] /\ drain[e].pc = "idle",
         drain'[d].pc \in {"idle", "rotate", "read", "insert", "ackRename"},
         drain'[d].pc # "idle" => drain'[d].dropped = state.dropped,
         drain[d].pc = "ackDelete" => drain[d].todo = {},
         \A f \in Hooks :
           /\ f \in Named("dropped") \cup Named("ack")
                => f \in Named("dropped")' \cup Named("ack")'
           /\ f \in Named("gone") => f \in Named("gone")'
           /\ f \in Named("gone")' => f \in Named("gone") \cup Named("draining")
  PROVE  DropsInv'
<1>1. Drops' = Drops
  BY DEF Drops
<1>2. \A g \in Drops : hook[g].file \in Named("gone") <=> hook[g].file \in Named("gone")'
  <2> SUFFICES ASSUME NEW g \in Drops, hook[g].file \in Named("gone")'
               PROVE  hook[g].file \in Named("gone")
    BY DEF Named
  <2>1. hook[g].file \in Named("dropped") \cup Named("ack") \cup Named("gone")
    BY DEF DropsInv, DropFileKind, Drops
  <2>2. hook[g].file \notin Named("draining") \/ hook[g].file \notin Named("dropped") \cup Named("ack") \cup Named("gone")
    BY DEF Named
  <2>3. hook[g].file \in Hooks
    BY DEF Named
  <2> QED
    BY <2>1, <2>2, <2>3
<1>3. CountedFiles = Named("gone") /\ CountedFiles' = Named("gone")'
  BY DEF CountedFiles, Named
<1>4. DropsFolded'
  BY <1>1, <1>2, <1>3, FoldedKept DEF DropsInv
<1>5. DropFileKind'
  BY DEF DropsInv, DropFileKind, Named
<1>6. TotalCarried'
  BY DEF DropsInv, TotalCarried
<1> QED
  BY <1>4, <1>5, <1>6 DEF DropsInv

(* drain takes the lock and starts from the persisted total.               *)
LEMMA TakeLockDrops ==
  ASSUME IInv, IInv', DropsInv, NEW d \in Drainers, TakeLock(d)
  PROVE  DropsInv'
<1>1. \A e \in Drainers : drain[e].pc = "idle"
  BY SpoolAssumption DEF TakeLock, IInv, LockHeld
<1>2. /\ drain'[d].pc = "rotate" /\ drain'[d].dropped = state.dropped
      /\ \A e \in Drainers \ {d} : drain'[e] = drain[e]
      /\ UNCHANGED <<hook, file, state, crashes, late>>
  BY DEF TakeLock, IInv, TypeOK
<1> QED
  BY <1>1, <1>2, QuietDrops DEF Named

(* drain_files reads a file and leaves the totals alone.                   *)
LEMMA ReadFileTotals ==
  ASSUME TypeOK, NEW d \in Drainers, ReadFile(d)
  PROVE  drain'[d].pc = "insert" /\ drain'[d].dropped = drain[d].dropped
<1>1. drain[d] \in DrainStates
  BY DEF TypeOK
<1>2. PICK f \in drain[d].todo :
        drain' = [drain EXCEPT ![d] = [drain[d] EXCEPT !.pc = "insert", !.cur = f, !.todo = @ \ {f},
                    !.batch = {h \in file[f].lines : EventOf[h] \notin Unparsable}]]
  BY DEF ReadFile, TypeOK, DrainStates
<1> QED
  BY <1>1, <1>2 DEF TypeOK, DrainStates

(* The steps of a drain up to the renaming of the counters.                *)
LEMMA EarlyStepDrops ==
  ASSUME IInv, IInv', DropsInv, NEW d \in Drainers,
         \/ RotateOne(d) \/ ListDraining(d) \/ ReadFile(d) \/ InsertChunk(d)
         \/ RemoveFile(d) \/ ListDropped(d) \/ RenameDropped(d)
  PROVE  DropsInv'
<1>1. /\ drain[d].pc \in {"rotate", "read", "insert", "ackRename"}
      /\ UNCHANGED <<hook, state, crashes, late>>
  BY DEF RotateOne, ListDraining, ReadFile, InsertChunk, RemoveFile, ListDropped, RenameDropped
<1>2. \A e \in Drainers \ {d} : drain'[e] = drain[e]
  BY DEF RotateOne, ListDraining, ReadFile, InsertChunk, RemoveFile, ListDropped, RenameDropped,
         IInv, TypeOK
<1>3. /\ drain'[d].pc \in {"rotate", "read", "insert", "ackRename"}
      /\ drain'[d].dropped = drain[d].dropped
  <2>1. drain \in [Drainers -> DrainStates] /\ drain[d] \in DrainStates
    BY DEF IInv, TypeOK
  <2>2. CASE RotateOne(d) \/ RenameDropped(d)
    BY <2>1, <2>2 DEF RotateOne, RenameDropped, DrainStates
  <2>3. CASE ListDraining(d)
    <3>1. PICK files : drain' = [drain EXCEPT ![d] = [drain[d] EXCEPT !.pc = "read", !.todo = files]]
      BY <2>1, <2>3 DEF ListDraining, DrainStates
    <3> QED
      BY <2>1, <3>1 DEF DrainStates
  <2>4. CASE ReadFile(d)
    BY <2>4, ReadFileTotals DEF IInv
  <2>5. CASE InsertChunk(d)
    <3>1. PICK chunk \in SUBSET drain[d].batch :
            drain' = [drain EXCEPT ![d] = [drain[d] EXCEPT !.batch = @ \ chunk,
                        !.drained = @ + Cardinality(NewRowsOf(chunk))]]
      BY <2>1, <2>5 DEF InsertChunk
    <3>2. drain[d].pc = "insert"
      BY <2>5 DEF InsertChunk
    <3> QED
      BY <2>1, <3>1, <3>2 DEF DrainStates
  <2>6. CASE RemoveFile(d)
    BY <2>1, <2>6 DEF RemoveFile, DrainStates
  <2>7. CASE ListDropped(d)
    BY <2>1, <2>7 DEF ListDropped, DrainStates
  <2> QED
    BY <2>2, <2>3, <2>4, <2>5, <2>6, <2>7
<1>4. \A e \in Drainers \ {d} : drain[e].pc = "idle"
  BY <1>1, DrainsAlone DEF IInv
<1>5. drain'[d].dropped = state.dropped
  BY <1>1, <1>3 DEF DropsInv, TotalCarried
<1>6. \A g \in Hooks :
        /\ g \in Named("dropped") \cup Named("ack") => g \in Named("dropped")' \cup Named("ack")'
        /\ g \in Named("gone") => g \in Named("gone")'
        /\ g \in Named("gone")' => g \in Named("gone") \cup Named("draining")
  <2>1. file \in [Hooks -> FileStates]
    BY DEF IInv, TypeOK
  <2>2. CASE RotateOne(d)
    <3>1. PICK f \in Named("live") : file' = [file EXCEPT ![f].name = "draining"]
      BY <2>2 DEF RotateOne, IInv, DrainTodo
    <3> QED
      BY <2>1, <3>1 DEF Named, FileStates
  <2>3. CASE RenameDropped(d)
    <3>1. PICK f \in Named("dropped") : file' = [file EXCEPT ![f].name = "ack"]
      BY <2>3 DEF RenameDropped, IInv, DrainTodo
    <3> QED
      BY <2>1, <3>1 DEF Named, FileStates
  <2>4. CASE RemoveFile(d)
    <3>1. PICK f \in Named("draining") : file' = [file EXCEPT ![f].name = "gone"]
      BY <2>4 DEF RemoveFile, IInv, DrainTodo
    <3> QED
      BY <2>1, <3>1 DEF Named, FileStates
  <2>5. CASE ListDraining(d) \/ ReadFile(d) \/ InsertChunk(d) \/ ListDropped(d)
    <3>1. file' = file
      BY <2>5 DEF ListDraining, ReadFile, InsertChunk, ListDropped
    <3> QED
      BY <3>1 DEF Named
  <2> QED
    BY <2>2, <2>3, <2>4, <2>5
<1> QED
  BY <1>1, <1>2, <1>3, <1>4, <1>5, <1>6, QuietDrops

(* The drain gives up, or ends with its counters deleted.                  *)
LEMMA EndDrops ==
  ASSUME IInv, IInv', DropsInv, NEW d \in Drainers, DrainFails(d) \/ ReleaseLock(d)
  PROVE  DropsInv'
<1>1. /\ drain[d].pc # "idle"
      /\ drain[d].pc = "ackDelete" => drain[d].todo = {}
      /\ UNCHANGED <<hook, file, state, crashes, late>>
  BY DEF DrainFails, ReleaseLock
<1>2. drain'[d].pc = "idle" /\ \A e \in Drainers \ {d} : drain'[e] = drain[e]
  BY DEF DrainFails, ReleaseLock, IInv, TypeOK, NoDrain
<1>3. \A e \in Drainers \ {d} : drain[e].pc = "idle"
  BY <1>1, DrainsAlone DEF IInv
<1> QED
  BY <1>1, <1>2, <1>3, QuietDrops DEF Named

(* A drain is killed: the counters it had not deleted are folded in again. *)
LEMMA DrainDiesDrops ==
  ASSUME IInv, IInv', DropsInv, NEW d \in Drainers, DrainDies(d)
  PROVE  DropsInv'
<1>1. /\ drain[d].pc # "idle" /\ UNCHANGED <<hook, file, state, late>>
      /\ crashes' = crashes + 1
  BY DEF DrainDies
<1>2. drain'[d].pc = "idle" /\ \A e \in Drainers \ {d} : drain'[e] = drain[e]
  BY DEF DrainDies, IInv, TypeOK, NoDrain
<1>3. \A e \in Drainers : drain'[e].pc = "idle"
  BY <1>1, <1>2, DrainsAlone DEF IInv
<1>4. CountedFiles' \subseteq CountedFiles
  BY <1>1, <1>3 DEF CountedFiles, Named
<1>5. Drops' = Drops
  BY <1>1 DEF Drops
<1>6. DropsIn(CountedFiles)' \ late' \subseteq DropsIn(CountedFiles) \ late
  BY <1>1, <1>4, <1>5 DEF DropsIn
<1>7. Folded(state.dropped, CountedFiles)'
  BY <1>1, <1>5, <1>6, CountedKept DEF IInv, DropsInv, DropsFolded
<1>8. DropsFolded'
  BY <1>3, <1>7 DEF DropsFolded
<1>9. DropFileKind' /\ TotalCarried'
  BY <1>1, <1>3 DEF DropsInv, DropFileKind, TotalCarried, Named
<1> QED
  BY <1>8, <1>9 DEF DropsInv

(* The bytes of the renamed counters are the drops they hold.              *)
LEMMA AcksHoldDrops ==
  ASSUME IInv, DropFileKind
  PROVE  UNION {file[f].lines : f \in Named("ack")} = DropsIn(Named("ack"))
<1>1. \A f \in Named("ack") : f \in Hooks /\ file[f].lines \subseteq Hooks
  BY DEF IInv, TypeOK, FileStates, Named
<1>2. ASSUME NEW f \in Named("ack"), NEW h \in file[f].lines
      PROVE  h \in DropsIn(Named("ack"))
  <2>1. f \in Hooks /\ h \in Hooks
    BY <1>1, <1>2
  <2>2. hook[h].pc \in {"written", "dropped"} /\ hook[h].file = f
    BY <1>2, <2>1 DEF IInv, LinesAreWritten
  <2>3. hook[h].pc # "written"
    BY <1>2, <2>1, <2>2 DEF IInv, LineFileKind, Named
  <2> QED
    BY <1>2, <2>1, <2>2, <2>3 DEF DropsIn, Drops
<1>3. ASSUME NEW h \in DropsIn(Named("ack"))
      PROVE  h \in UNION {file[f].lines : f \in Named("ack")}
  <2>1. h \in Hooks /\ hook[h].pc = "dropped" /\ hook[h].file \in Named("ack")
    BY <1>3 DEF DropsIn, Drops
  <2>2. h \in file[hook[h].file].lines
    BY <2>1, <1>1 DEF IInv, LinesAreWritten
  <2> QED
    BY <2>1, <2>2
<1> QED
  BY <1>2, <1>3

(* Sets with nothing in common add up.                                     *)
LEMMA DisjointCount ==
  ASSUME NEW A, NEW B, IsFiniteSet(A), IsFiniteSet(B), A \cap B = {}
  PROVE  Cardinality(A \cup B) = Cardinality(A) + Cardinality(B)
<1>1. Cardinality(A \cap B) = 0
  BY FS_EmptySet
<1>2. Cardinality(A) \in Nat /\ Cardinality(B) \in Nat
  BY FS_CardinalityType
<1>3. Cardinality(A \cup B) = Cardinality(A) + Cardinality(B) - Cardinality(A \cap B)
  BY FS_Union
<1> QED
  BY <1>1, <1>2, <1>3

(* Folding further drops A into a total that counts S counts both.         *)
LEMMA FoldIn ==
  ASSUME NEW n \in Nat, NEW c \in Nat, NEW S \in SUBSET Hooks, NEW A \in SUBSET Hooks,
         NEW L, NEW D \in SUBSET Hooks, Honest(n, S, L, D, c), S \cap A = {}
  PROVE  Honest(n + Cardinality(A), S \cup A, L, D, c)
<1>1. /\ IsFiniteSet(S) /\ IsFiniteSet(A) /\ IsFiniteSet(S \ L) /\ IsFiniteSet(A \ L)
      /\ IsFiniteSet(D)
  BY SpoolAssumption, FS_Subset
<1>2. /\ Cardinality(S) \in Nat /\ Cardinality(A) \in Nat /\ Cardinality(S \ L) \in Nat
      /\ Cardinality(A \ L) \in Nat /\ Cardinality(D) \in Nat
  BY <1>1, FS_CardinalityType
<1>3. Cardinality(S \cup A) = Cardinality(S) + Cardinality(A)
  BY <1>1, DisjointCount
<1>4. Cardinality((S \cup A) \ L) = Cardinality(S \ L) + Cardinality(A \ L)
  <2>1. (S \ L) \cap (A \ L) = {} /\ (S \cup A) \ L = (S \ L) \cup (A \ L)
    OBVIOUS
  <2> QED
    BY <1>1, <2>1, DisjointCount
<1>5. Cardinality(A \ L) <= Cardinality(A)
  BY <1>1, FS_Subset
<1> DEFINE over == Cardinality(D) * c
<1>7. over \in Nat
  BY <1>2
<1>8. Cardinality(S \ L) <= n /\ n <= Cardinality(S) + over
  BY DEF Honest
<1> HIDE DEF over
<1>9. /\ Cardinality((S \cup A) \ L) <= n + Cardinality(A)
      /\ n + Cardinality(A) <= Cardinality(S \cup A) + over
  BY <1>2, <1>3, <1>4, <1>5, <1>7, <1>8
<1> QED
  BY <1>9 DEF over, Honest

(* begin_acknowledgement adds the renamed counters to the persisted total. *)
LEMMA CountAcksDrops ==
  ASSUME IInv, IInv', DropsInv, NEW d \in Drainers, CountAcks(d)
  PROVE  DropsInv'
<1>1. /\ drain[d].pc = "ackRename" /\ UNCHANGED <<hook, file, state, crashes, late>>
  BY DEF CountAcks
<1>2. /\ drain'[d].pc = "persist" /\ drain'[d].todo = Named("ack")
      /\ drain'[d].dropped = drain[d].dropped + Bytes(Named("ack"))
      /\ \A e \in Drainers \ {d} : drain'[e] = drain[e]
  BY DEF CountAcks, IInv, TypeOK, DrainStates
<1>3. \A e \in Drainers \ {d} : drain[e].pc = "idle"
  BY <1>1, DrainsAlone DEF IInv
<1>4. CountedFiles = Named("gone") /\ CountedFiles' = Named("gone") /\ Named("gone")' = Named("gone")
  BY <1>1, <1>2, <1>3 DEF CountedFiles, Named
<1>5. Drops' = Drops /\ drain[d].dropped = state.dropped
  BY <1>1 DEF Drops, DropsInv, TotalCarried
<1>6. Bytes(Named("ack")) = Cardinality(DropsIn(Named("ack")))
  BY AcksHoldDrops DEF DropsInv, Bytes
<1>7. Folded(state.dropped, CountedFiles)'
  BY <1>1, <1>4, <1>5 DEF DropsInv, DropsFolded, Folded, DropsIn
<1>8. Folded(drain[d].dropped, Named("gone") \cup drain[d].todo)'
  <2> DEFINE S == DropsIn(Named("gone"))  A == DropsIn(Named("ack"))  D == Drops  n == state.dropped
  <2>1. S \subseteq Hooks /\ A \subseteq Hooks /\ D \subseteq Hooks /\ S \cap A = {}
    BY DEF DropsIn, Drops, Named
  <2>2. Honest(n, S, late, D, crashes) /\ n \in Nat /\ crashes \in Nat
    BY <1>4 DEF DropsInv, DropsFolded, Folded, Honest, IInv, TypeOK
  <2>3. drain'[d].dropped = n + Cardinality(A)
    BY <1>2, <1>5, <1>6
  <2>4. DropsIn(Named("gone") \cup drain[d].todo)' = S \cup A
    BY <1>1, <1>2, <1>4, <1>5 DEF DropsIn
  <2>5. Honest(n + Cardinality(A), S \cup A, late, D, crashes)
    <3> HIDE DEF S, A, D, n
    <3> QED
      BY <2>1, <2>2, FoldIn
  <2>6. Honest(drain'[d].dropped, DropsIn(Named("gone") \cup drain[d].todo)', late', Drops', crashes')
    BY <1>1, <1>5, <2>3, <2>4, <2>5
  <2> QED
    BY <2>6 DEF Honest, Folded
<1>9. DropsFolded'
  BY <1>2, <1>3, <1>7, <1>8 DEF DropsFolded
<1>10. DropFileKind'
  BY <1>1 DEF DropsInv, DropFileKind, Named
<1>11. TotalCarried'
  BY <1>1, <1>2, <1>3 DEF DropsInv, TotalCarried
<1> QED
  BY <1>9, <1>10, <1>11 DEF DropsInv

(* drain_locked writes the total: what it counts is now to delete.         *)
LEMMA PersistDrops ==
  ASSUME IInv, IInv', DropsInv, NEW d \in Drainers, Persist(d)
  PROVE  DropsInv'
<1>1. /\ drain[d].pc = "persist" /\ UNCHANGED <<hook, file, crashes, late>>
      /\ state'.dropped = drain[d].dropped
  BY DEF Persist
<1>2. /\ drain'[d].pc = "ackDelete" /\ drain'[d].todo = drain[d].todo
      /\ \A e \in Drainers \ {d} : drain'[e] = drain[e]
  BY DEF Persist, IInv, TypeOK, DrainStates
<1>3. \A e \in Drainers \ {d} : drain[e].pc = "idle"
  BY <1>1, DrainsAlone DEF IInv
<1>4. drain[d].todo \subseteq Hooks
  BY DEF IInv, TypeOK, DrainStates
<1>5. CountedFiles' = Named("gone") \cup drain[d].todo
  BY <1>1, <1>2, <1>3, <1>4 DEF CountedFiles, Named
<1>6. Folded(drain[d].dropped, Named("gone") \cup drain[d].todo)
  BY <1>1 DEF DropsInv, DropsFolded
<1>7. Folded(state.dropped, CountedFiles)'
  BY <1>1, <1>5, <1>6 DEF Folded, DropsIn, Drops
<1>8. DropsFolded'
  BY <1>2, <1>3, <1>7 DEF DropsFolded
<1>9. DropFileKind'
  BY <1>1 DEF DropsInv, DropFileKind, Named
<1>10. TotalCarried'
  BY <1>2, <1>3 DEF TotalCarried
<1> QED
  BY <1>8, <1>9, <1>10 DEF DropsInv

(* Acknowledgement::finish deletes a counter that was to delete.           *)
LEMMA DeleteAckDrops ==
  ASSUME IInv, IInv', DropsInv, NEW d \in Drainers, DeleteAck(d)
  PROVE  DropsInv'
<1>1. /\ drain[d].pc = "ackDelete" /\ UNCHANGED <<hook, state, crashes, late>>
  BY DEF DeleteAck
<1>2. PICK f \in drain[d].todo : /\ file' = [file EXCEPT ![f].name = "gone"]
                                 /\ drain' = [drain EXCEPT ![d].todo = @ \ {f}]
  BY DEF DeleteAck
<1>3. /\ drain'[d].pc = "ackDelete" /\ drain'[d].todo = drain[d].todo \ {f}
      /\ \A e \in Drainers \ {d} : drain'[e] = drain[e]
  BY <1>1, <1>2 DEF IInv, TypeOK, DrainStates
<1>4. \A e \in Drainers \ {d} : drain[e].pc = "idle"
  BY <1>1, DrainsAlone DEF IInv
<1>5. f \in Hooks /\ drain[d].todo \subseteq Hooks
  BY <1>2 DEF IInv, TypeOK, DrainStates
<1>6. /\ Named("gone")' = Named("gone") \cup {f}
      /\ \A g \in Hooks \ {f} : file'[g] = file[g]
  BY <1>2, <1>5 DEF Named, IInv, TypeOK, FileStates
<1>7. /\ CountedFiles = Named("gone") \cup drain[d].todo
      /\ CountedFiles' = Named("gone")' \cup (drain[d].todo \ {f})
  BY <1>1, <1>3, <1>4, <1>5 DEF CountedFiles, Named
<1>8. CountedFiles' = CountedFiles
  BY <1>2, <1>6, <1>7
<1>9. Drops' = Drops
  BY <1>1 DEF Drops
<1>10. DropsFolded'
  <2>1. \A e \in Drainers : drain'[e].pc # "persist"
    BY <1>3, <1>4
  <2> QED
    BY <1>1, <1>8, <1>9, <2>1, FoldedKept DEF DropsInv
<1>11. DropFileKind'
  BY <1>1, <1>6 DEF DropsInv, DropFileKind, Named
<1>12. TotalCarried'
  BY <1>3, <1>4 DEF TotalCarried
<1> QED
  BY <1>10, <1>11, <1>12 DEF DropsInv

(* A counter that could not be removed is folded in again.                 *)
LEMMA KeepAckDrops ==
  ASSUME IInv, IInv', DropsInv, NEW d \in Drainers, KeepAck(d)
  PROVE  DropsInv'
<1>1. /\ drain[d].pc = "ackDelete" /\ UNCHANGED <<hook, file, state, late>>
      /\ crashes' = crashes + 1
  BY DEF KeepAck
<1>2. PICK f \in drain[d].todo : drain' = [drain EXCEPT ![d].todo = @ \ {f}]
  BY DEF KeepAck
<1>3. /\ drain'[d].pc = "ackDelete" /\ drain'[d].todo \subseteq drain[d].todo
      /\ \A e \in Drainers \ {d} : drain'[e] = drain[e]
  BY <1>1, <1>2 DEF IInv, TypeOK, DrainStates
<1>4. \A e \in Drainers \ {d} : drain'[e].pc = "idle"
  BY <1>1, <1>3, DrainsAlone DEF IInv
<1>5. CountedFiles' \subseteq CountedFiles
  BY <1>1, <1>3, <1>4 DEF CountedFiles, Named
<1>6. Drops' = Drops
  BY <1>1 DEF Drops
<1>7. DropsIn(CountedFiles)' \ late' \subseteq DropsIn(CountedFiles) \ late
  BY <1>1, <1>5, <1>6 DEF DropsIn
<1>8. Folded(state.dropped, CountedFiles)'
  BY <1>1, <1>6, <1>7, CountedKept DEF IInv, DropsInv, DropsFolded
<1>9. DropsFolded'
  BY <1>3, <1>4, <1>8 DEF DropsFolded
<1>10. DropFileKind' /\ TotalCarried'
  BY <1>1, <1>3, <1>4 DEF DropsInv, DropFileKind, TotalCarried, Named
<1> QED
  BY <1>9, <1>10 DEF DropsInv

(* Nothing is dropped at first.                                            *)
LEMMA InitDrops == Init => DropsInv
<1> SUFFICES ASSUME Init
             PROVE  DropsInv
  OBVIOUS
<1>1. Drops = {} /\ state.dropped = 0 /\ crashes = 0
  BY DEF Init, Drops
<1>2. \A d \in Drainers : drain[d].pc = "idle"
  BY DEF Init, NoDrain
<1>3. \A files : DropsIn(files) = {}
  BY <1>1 DEF DropsIn
<1>4. Folded(state.dropped, CountedFiles)
  BY <1>1, <1>3, FS_EmptySet DEF Folded
<1>5. DropsFolded
  BY <1>2, <1>4 DEF DropsFolded
<1> QED
  BY <1>2, <1>5 DEF DropsInv, DropFileKind, TotalCarried, Init

(* What the total and the counters hold is what was dropped.               *)
LEMMA DropsCountedFollows ==
  ASSUME IInv, DropsInv
  PROVE  DropsCounted
<1> DEFINE S == DropsIn(CountedFiles)
<1>1. Honest(state.dropped, S, late, Drops, crashes)
  BY DEF DropsInv, DropsFolded, Folded, Honest
<1>2. Drops \subseteq Hooks /\ S \subseteq Drops /\ PendingDrops \subseteq Hooks
  BY DEF Drops, DropsIn, PendingDrops, Linked, Named, IInv, TypeOK, FileStates
<1>3. Drops \ late \subseteq (S \ late) \cup PendingDrops
  <2> SUFFICES ASSUME NEW h \in Drops \ late, h \notin PendingDrops
               PROVE  h \in S
    OBVIOUS
  <2>1. h \in Hooks /\ hook[h].pc = "dropped"
    BY DEF Drops
  <2>2. hook[h].file \in Named("dropped") \cup Named("ack") \cup Named("gone")
    BY <2>1 DEF DropsInv, DropFileKind
  <2>3. h \in file[hook[h].file].lines
    BY <2>1, <2>2 DEF IInv, LinesAreWritten, Named
  <2>4. hook[h].file \in Named("gone")
    BY <2>2, <2>3 DEF PendingDrops, Linked
  <2> QED
    BY <2>4 DEF DropsIn, CountedFiles
<1>4. /\ IsFiniteSet(Drops) /\ IsFiniteSet(S) /\ IsFiniteSet(S \ late) /\ IsFiniteSet(PendingDrops)
      /\ IsFiniteSet(Drops \ late) /\ IsFiniteSet((S \ late) \cup PendingDrops)
  <2>1. /\ Drops \subseteq Hooks /\ S \subseteq Hooks /\ S \ late \subseteq Hooks
        /\ PendingDrops \subseteq Hooks /\ Drops \ late \subseteq Hooks
        /\ (S \ late) \cup PendingDrops \subseteq Hooks
    BY <1>2
  <2> HIDE DEF S
  <2> QED
    BY <2>1, SpoolAssumption, FS_Subset
<1> HIDE DEF S
<1>5. Cardinality(Drops \ late) <= Cardinality((S \ late) \cup PendingDrops)
  BY <1>3, <1>4, FS_Subset
<1>6. Cardinality((S \ late) \cup PendingDrops)
        <= Cardinality(S \ late) + Cardinality(PendingDrops)
  <2>1. IsFiniteSet((S \ late) \cap PendingDrops)
    BY <1>4, FS_Subset
  <2>2. Cardinality((S \ late) \cap PendingDrops) \in Nat
    BY <2>1, FS_CardinalityType
  <2>3. Cardinality((S \ late) \cup PendingDrops)
          = Cardinality(S \ late) + Cardinality(PendingDrops) - Cardinality((S \ late) \cap PendingDrops)
    BY <1>4, FS_Union
  <2>4. Cardinality(S \ late) \in Nat /\ Cardinality(PendingDrops) \in Nat
    BY <1>4, FS_CardinalityType
  <2> QED
    BY <2>2, <2>3, <2>4
<1>7. Cardinality(S) <= Cardinality(Drops)
  BY <1>2, <1>4, FS_Subset
<1>8. /\ Cardinality(Drops \ late) \in Nat /\ Cardinality((S \ late) \cup PendingDrops) \in Nat
      /\ Cardinality(S \ late) \in Nat /\ Cardinality(PendingDrops) \in Nat
      /\ Cardinality(S) \in Nat /\ Cardinality(Drops) \in Nat
  BY <1>4, FS_CardinalityType
<1>9. state.dropped \in Nat /\ crashes \in Nat
  BY DEF IInv, TypeOK
<1>10. Cardinality(S \ late) <= state.dropped
  BY <1>1 DEF Honest
<1>11. state.dropped <= Cardinality(S) + Cardinality(Drops) * crashes
  BY <1>1 DEF Honest
<1>12. Cardinality(Drops \ late) <= state.dropped + Cardinality(PendingDrops)
  BY <1>5, <1>6, <1>8, <1>9, <1>10
<1>13. state.dropped <= Cardinality(Drops) * (1 + crashes)
  <2>1. Cardinality(Drops) * (1 + crashes) = Cardinality(Drops) + Cardinality(Drops) * crashes
    BY <1>8, <1>9
  <2>2. Cardinality(Drops) * crashes \in Nat
    BY <1>8, <1>9
  <2> QED
    BY <1>7, <1>8, <1>9, <1>11, <2>1, <2>2
<1> QED
  BY <1>12, <1>13 DEF DropsCounted

(* Every drop is in dropped_total or in a counter the next drain folds in, *)
(* and the total over-reports by at most the drops there are for each      *)
(* drain that died.                                                        *)
THEOREM DropsAreCounted == Spec => []DropsCounted
<1>1. IInv /\ IInv' /\ DropsInv /\ [Next]_vars => DropsInv'
  <2> SUFFICES ASSUME IInv, IInv', DropsInv, [Next]_vars
               PROVE  DropsInv'
    OBVIOUS
  <2>1. CASE UNCHANGED vars
    BY <2>1 DEF vars, DropsInv, DropFileKind, TotalCarried, DropsFolded, Folded, CountedFiles,
       DropsIn, Drops, Named
  <2>2. ASSUME NEW h \in Hooks,
               ListFiles(h) \/ StatFiles(h) \/ OpenFile(h) \/ WriteLine(h) \/ HookDies(h)
        PROVE  DropsInv'
    BY <2>2, HookStepDrops, OpenFileDrops, WriteLineDrops
  <2>3. ASSUME NEW d \in Drainers,
               \/ TakeLock(d) \/ RotateOne(d) \/ ListDraining(d) \/ ReadFile(d)
               \/ InsertChunk(d) \/ DrainFails(d) \/ RemoveFile(d) \/ ListDropped(d)
               \/ RenameDropped(d) \/ CountAcks(d) \/ Persist(d) \/ DeleteAck(d)
               \/ KeepAck(d) \/ ReleaseLock(d) \/ DrainDies(d)
        PROVE  DropsInv'
    BY <2>3, TakeLockDrops, EarlyStepDrops, EndDrops, CountAcksDrops, PersistDrops,
       DeleteAckDrops, KeepAckDrops, DrainDiesDrops
  <2> QED
    BY <2>1, <2>2, <2>3 DEF Next
<1>2. IInv /\ DropsInv => DropsCounted
  BY DropsCountedFollows
<1> QED
  BY <1>1, <1>2, InitDrops, Inductive, PTL DEF Spec

-----------------------------------------------------------------------------
(* The cap.                                                                *)

(* The lines of a session's spool files.                                   *)
SpoolLines(k) == UNION {file[f].lines : f \in SpoolFiles(k)}

(* A session's bytes grow only with its lines.                             *)
LEMMA BytesGrow ==
  ASSUME TypeOK, TypeOK', NEW k \in Keys, SpoolLines(k)' \subseteq SpoolLines(k)
  PROVE  /\ Bytes(SpoolFiles(k)) \in Nat /\ Bytes(SpoolFiles(k))' \in Nat
         /\ Bytes(SpoolFiles(k))' <= Bytes(SpoolFiles(k))
<1>1. SpoolLines(k) \subseteq Hooks
  BY DEF SpoolLines, SpoolFiles, OfKey, TypeOK, FileStates
<1>2. /\ IsFiniteSet(SpoolLines(k)) /\ IsFiniteSet(SpoolLines(k)')
      /\ Cardinality(SpoolLines(k)') <= Cardinality(SpoolLines(k))
  BY <1>1, SpoolAssumption, FS_Subset
<1>3. Cardinality(SpoolLines(k)) \in Nat /\ Cardinality(SpoolLines(k)') \in Nat
  BY <1>2, FS_CardinalityType
<1>4. Bytes(SpoolFiles(k)) = Cardinality(SpoolLines(k)) /\ Bytes(SpoolFiles(k))' = Cardinality(SpoolLines(k)')
  BY DEF Bytes, SpoolLines
<1> QED
  BY <1>2, <1>3, <1>4

(* A file nobody has created yet is empty.                                 *)
LEMMA NoneIsEmpty ==
  ASSUME IInv, DropFileKind, NEW f \in Hooks, file[f].name = "none"
  PROVE  file[f].lines = {}
<1> SUFFICES ASSUME NEW h \in file[f].lines
             PROVE  FALSE
  OBVIOUS
<1>1. h \in Hooks
  BY DEF IInv, TypeOK, FileStates
<1>2. hook[h].pc \in {"written", "dropped"} /\ hook[h].file = f
  BY <1>1 DEF IInv, LinesAreWritten
<1> QED
  BY <1>1, <1>2 DEF IInv, LineFileKind, DropFileKind, Named

(* A step that adds no line to a session's files and overtakes no size     *)
(* check of it keeps the room its hooks have found.                        *)
LEMMA RoomKept ==
  ASSUME IInv, IInv', CapInv, NEW h \in Hooks, h \notin raced,
         hook'[h].pc = hook[h].pc, listed'[h] = listed[h],
         SpoolLines(KeyOf[h])' \subseteq SpoolLines(KeyOf[h]),
         hook[h].pc = "stat" =>
           \A n \in SpoolNames : \A f \in OfKey(KeyOf[h]) \cap Named(n)' :
             file'[f].lines # {} => f \in Named(n) /\ file[f].lines # {}
  PROVE  RoomFor(h)'
<1>1. CASE hook[h].pc = "stat"
  BY <1>1 DEF CapInv, RoomLeft, RoomFor, OfKey
<1>2. CASE hook[h].pc \in {"open", "write"}
  <2>1. Bytes(SpoolFiles(KeyOf[h])) + 1 <= Cap
    BY <1>2 DEF CapInv, RoomLeft, RoomFor
  <2>2. /\ Bytes(SpoolFiles(KeyOf[h])) \in Nat /\ Bytes(SpoolFiles(KeyOf[h]))' \in Nat
        /\ Bytes(SpoolFiles(KeyOf[h]))' <= Bytes(SpoolFiles(KeyOf[h]))
    BY SpoolAssumption, BytesGrow DEF IInv
  <2> QED
    BY <1>2, <2>1, <2>2, SpoolAssumption DEF RoomFor
<1>3. CASE hook[h].pc \notin {"stat", "open", "write"}
  BY <1>3 DEF RoomFor
<1> QED
  BY <1>1, <1>2, <1>3

(* session_bytes has listed every file with a line in it.                  *)
LEMMA ListFilesCap ==
  ASSUME IInv, IInv', CapInv, NEW h \in Hooks, ListFiles(h)
  PROVE  CapInv'
<1>1. /\ hook' = [hook EXCEPT ![h].pc = "stat"]
      /\ listed' = [listed EXCEPT ![h] = [n \in SpoolNames |-> OfKey(KeyOf[h]) \cap Named(n)]]
      /\ UNCHANGED <<file, raced>>
  BY DEF ListFiles
<1>2. /\ hook'[h].pc = "stat" /\ \A g \in Hooks : hook'[g].file = hook[g].file
      /\ \A g \in Hooks \ {h} : hook'[g].pc = hook[g].pc /\ listed'[g] = listed[g]
      /\ \A n \in SpoolNames : listed'[h][n] = OfKey(KeyOf[h]) \cap Named(n)
  BY <1>1 DEF IInv, TypeOK, HookStates
<1>3. \A n : Named(n)' = Named(n)
  BY <1>1 DEF Named
<1>4. DropFileKind' /\ OwnFile'
  BY <1>2, <1>3 DEF CapInv, DropFileKind, OwnFile
<1>5. RoomLeft'
  <2> SUFFICES ASSUME NEW g \in Hooks, g \notin raced
               PROVE  RoomFor(g)'
    BY <1>1 DEF RoomLeft
  <2>1. CASE g = h
    BY <2>1, <1>2, <1>3 DEF RoomFor, OfKey
  <2>2. CASE g # h
    <3>1. SpoolLines(KeyOf[g])' = SpoolLines(KeyOf[g])
      BY <1>1, <1>3 DEF SpoolLines, SpoolFiles, OfKey
    <3> QED
      BY <2>2, <3>1, <1>1, <1>2, <1>3, RoomKept
  <2> QED
    BY <2>1, <2>2
<1> QED
  BY <1>4, <1>5 DEF CapInv

(* append_line has measured every line the session has.                    *)
LEMMA StatFilesCap ==
  ASSUME IInv, IInv', CapInv, NEW h \in Hooks, StatFiles(h)
  PROVE  CapInv'
<1> DEFINE found == UNION {listed[h][n] \cap Named(n) : n \in SpoolNames}
<1>1. PICK next \in {"open", "openDropped"} :
        /\ hook' = [hook EXCEPT ![h].pc = next]
        /\ next = "open" => ~ WouldPassCap(Bytes(found))
  BY DEF StatFiles
<1>2. /\ hook[h].pc = "stat" /\ UNCHANGED <<file, raced>>
      /\ \A g \in Hooks \ {h} : listed'[g] = listed[g]
  BY DEF StatFiles, IInv, TypeOK
<1>3. /\ hook'[h].pc = next /\ \A g \in Hooks : hook'[g].file = hook[g].file
      /\ \A g \in Hooks \ {h} : hook'[g].pc = hook[g].pc
  BY <1>1 DEF IInv, TypeOK, HookStates
<1>4. \A n : Named(n)' = Named(n)
  BY <1>2 DEF Named
<1>5. DropFileKind' /\ OwnFile'
  BY <1>1, <1>3, <1>4 DEF CapInv, DropFileKind, OwnFile
<1>6. \A k : SpoolLines(k)' = SpoolLines(k) /\ Bytes(SpoolFiles(k))' = Bytes(SpoolFiles(k))
  BY <1>2, <1>4 DEF SpoolLines, SpoolFiles, OfKey, Bytes
<1>7. ASSUME h \notin raced, next = "open"
      PROVE  Bytes(SpoolFiles(KeyOf[h])) + 1 <= Cap
  <2> DEFINE measured == UNION {file[f].lines : f \in found}
  <2>1. SpoolLines(KeyOf[h]) \subseteq measured
    <3> SUFFICES ASSUME NEW f \in SpoolFiles(KeyOf[h]), NEW g \in file[f].lines
                 PROVE  f \in found
      BY DEF SpoolLines
    <3>1. PICK n \in SpoolNames : f \in OfKey(KeyOf[h]) \cap Named(n)
      BY DEF SpoolFiles, SpoolNames
    <3>2. f \in listed[h][n]
      BY <3>1, <1>2, <1>7 DEF CapInv, RoomLeft, RoomFor
    <3> QED
      BY <3>1, <3>2
  <2>2. measured \subseteq Hooks
    BY DEF Named, IInv, TypeOK, FileStates
  <2>3. Bytes(found) = Cardinality(measured) /\ Bytes(SpoolFiles(KeyOf[h])) = Cardinality(SpoolLines(KeyOf[h]))
    BY DEF Bytes, SpoolLines
  <2>4. Bytes(found) \in Nat /\ Bytes(found) + 1 <= Cap
    <3>1. Bytes(found) \in Nat
      BY <2>2, <2>3, SpoolAssumption, FS_Subset, FS_CardinalityType
    <3>2. ~ (Bytes(found) + 1 > Cap)
      BY <1>1, <1>7 DEF WouldPassCap
    <3> HIDE DEF found
    <3> QED
      BY <3>1, <3>2, SpoolAssumption
  <2> HIDE DEF measured
  <2>5. Cardinality(SpoolLines(KeyOf[h])) <= Cardinality(measured)
    BY <2>1, <2>2, SpoolAssumption, FS_Subset
  <2>6. Cardinality(SpoolLines(KeyOf[h])) \in Nat
    BY <2>1, <2>2, SpoolAssumption, FS_Subset, FS_CardinalityType
  <2> QED
    BY <2>3, <2>4, <2>5, <2>6, SpoolAssumption
<1> HIDE DEF found
<1>8. RoomLeft'
  <2> SUFFICES ASSUME NEW g \in Hooks, g \notin raced
               PROVE  RoomFor(g)'
    BY <1>2 DEF RoomLeft
  <2>1. CASE g = h
    BY <2>1, <1>1, <1>3, <1>6, <1>7 DEF RoomFor
  <2>2. CASE g # h
    BY <2>2, <1>2, <1>3, <1>4, <1>6, RoomKept
  <2> QED
    BY <2>1, <2>2
<1> QED
  BY <1>5, <1>8 DEF CapInv

(* A hook creates a spool file empty.                                      *)
LEMMA OpenFileCap ==
  ASSUME IInv, IInv', CapInv, NEW h \in Hooks, OpenFile(h)
  PROVE  CapInv'
<1>0. PICK name \in {"live", "dropped"}, next \in {"write", "writeDropped"} :
        /\ OpenOrCreate(h, name, next)
        /\ name = "live" <=> next = "write"
        /\ hook[h].pc = IF next = "write" THEN "open" ELSE "openDropped"
  BY DEF OpenFile
<1>a. PICK f \in OfKey(KeyOf[h]) :
        /\ hook' = [hook EXCEPT ![h] = [pc |-> next, file |-> f]]
        /\ file' = [file EXCEPT ![f].name = name]
        /\ file[f].name = name \/ (f = h /\ file[f].name = "none")
  BY <1>0 DEF OpenOrCreate, IInv, TypeOK, FileStates, Named, NotYetCreated, OfKey
<1>b. UNCHANGED <<listed, raced>>
  BY DEF OpenFile
<1>1. f \in Hooks /\ KeyOf[f] = KeyOf[h]
  BY DEF OfKey
<1>2. /\ hook'[h].pc = next /\ hook'[h].file = f
      /\ \A g \in Hooks \ {h} : hook'[g] = hook[g]
  BY <1>a DEF IInv, TypeOK
<1>3. /\ \A g \in Hooks : file'[g].lines = file[g].lines
      /\ file'[f].name = name /\ \A g \in Hooks \ {f} : file'[g].name = file[g].name
  BY <1>a, <1>1 DEF IInv, TypeOK, FileStates
<1>4. \A g \in Hooks : file[g].lines # {} => file'[g].name = file[g].name
  <2>1. file[f].name = "none" => file[f].lines = {}
    BY <1>1, NoneIsEmpty DEF CapInv
  <2> QED
    BY <1>a, <1>3, <2>1
<1>5. OwnFile'
  BY <1>1, <1>2 DEF CapInv, OwnFile
<1>6. DropFileKind'
  <2> SUFFICES ASSUME NEW g \in Hooks, hook'[g].pc \in {"writeDropped", "dropped"}
               PROVE  hook'[g].file \in Named("dropped")' \cup Named("ack")' \cup Named("gone")'
    BY DEF DropFileKind
  <2>1. CASE g = h
    BY <1>0, <1>1, <1>2, <1>3, <2>1 DEF Named
  <2>2. CASE g # h
    BY <1>a, <1>2, <1>3, <2>2 DEF CapInv, DropFileKind, Named
  <2> QED
    BY <2>1, <2>2
<1>7. \A k : SpoolLines(k)' \subseteq SpoolLines(k)
  BY <1>3, <1>4 DEF SpoolLines, SpoolFiles, OfKey, Named
<1>8. \A n : \A g \in Named(n)' : file'[g].lines # {} => g \in Named(n) /\ file[g].lines # {}
  BY <1>3, <1>4 DEF Named
<1>9. RoomLeft'
  <2> SUFFICES ASSUME NEW g \in Hooks, g \notin raced
               PROVE  RoomFor(g)'
    BY <1>b DEF RoomLeft
  <2>1. CASE g = h
    <3>1. CASE next = "write"
      <4>1. Bytes(SpoolFiles(KeyOf[h])) + 1 <= Cap
        BY <1>0, <2>1, <3>1 DEF CapInv, RoomLeft, RoomFor
      <4>2. /\ Bytes(SpoolFiles(KeyOf[h])) \in Nat /\ Bytes(SpoolFiles(KeyOf[h]))' \in Nat
            /\ Bytes(SpoolFiles(KeyOf[h]))' <= Bytes(SpoolFiles(KeyOf[h]))
        BY <1>7, SpoolAssumption, BytesGrow DEF IInv
      <4>3. Bytes(SpoolFiles(KeyOf[h]))' + 1 <= Cap
        BY <4>1, <4>2, SpoolAssumption
      <4> QED
        BY <1>2, <2>1, <3>1, <4>3 DEF RoomFor
    <3>2. CASE next = "writeDropped"
      BY <1>2, <2>1, <3>2 DEF RoomFor
    <3> QED
      BY <3>1, <3>2
  <2>2. CASE g # h
    BY <2>2, <1>b, <1>2, <1>7, <1>8, RoomKept
  <2> QED
    BY <2>1, <2>2
<1> QED
  BY <1>5, <1>6, <1>9 DEF CapInv

(* A hook writes to its own session's file, or to a counter.               *)
LEMMA WriteLineCap ==
  ASSUME IInv, IInv', CapInv, NEW h \in Hooks, WriteLine(h)
  PROVE  CapInv'
<1> DEFINE f == hook[h].file
<1>1. /\ file' = [file EXCEPT ![f].lines = @ \cup {h}]
      /\ raced' = IF hook[h].pc = "write" THEN raced \cup Overtaken(KeyOf[h], h) ELSE raced
      /\ hook[h].pc \in {"write", "writeDropped"} /\ listed' = listed
  BY DEF WriteLine
<1>2. /\ hook[h].pc = "write" => hook'[h].pc = "written"
      /\ hook[h].pc # "write" => hook'[h].pc = "dropped"
      /\ \A g \in Hooks : hook'[g].file = hook[g].file
      /\ \A g \in Hooks \ {h} : hook'[g].pc = hook[g].pc
  BY DEF WriteLine, IInv, TypeOK
<1>3. /\ \A n : Named(n)' = Named(n)
      /\ \A g \in Hooks \ {f} : file'[g].lines = file[g].lines
  BY <1>1 DEF Named, IInv, TypeOK
<1>4. DropFileKind' /\ OwnFile'
  BY <1>1, <1>2, <1>3 DEF CapInv, DropFileKind, OwnFile
<1>5. ASSUME NEW g \in Hooks \ {h}, g \notin raced', InFlight(g)
      PROVE  f \notin SpoolFiles(KeyOf[g])
  <2>1. CASE hook[h].pc = "write"
    <3>1. KeyOf[g] # KeyOf[h]
      BY <1>1, <1>5, <2>1 DEF Overtaken
    <3>2. f \in Hooks /\ f # None
      BY <2>1, SpoolAssumption DEF IInv, LineFileKind, Named
    <3> QED
      BY <3>1, <3>2 DEF CapInv, OwnFile, SpoolFiles, OfKey
  <2>2. CASE hook[h].pc = "writeDropped"
    BY <2>2 DEF CapInv, DropFileKind, SpoolFiles, Named
  <2> QED
    BY <1>1, <2>1, <2>2
<1>6. RoomLeft'
  <2> SUFFICES ASSUME NEW g \in Hooks, g \notin raced'
               PROVE  RoomFor(g)'
    BY DEF RoomLeft
  <2>1. CASE g = h
    BY <2>1, <1>2 DEF RoomFor
  <2>2. CASE g # h /\ ~ InFlight(g)
    BY <2>2, <1>2 DEF RoomFor, InFlight
  <2>3. CASE g # h /\ InFlight(g)
    <3>1. g \notin raced
      BY <1>1
    <3>2. \A e \in SpoolFiles(KeyOf[g]) : file'[e].lines = file[e].lines
      BY <1>3, <1>5, <2>3 DEF SpoolFiles, OfKey
    <3>3. SpoolFiles(KeyOf[g])' = SpoolFiles(KeyOf[g])
      BY <1>3 DEF SpoolFiles, OfKey
    <3>4. SpoolLines(KeyOf[g])' = SpoolLines(KeyOf[g])
      BY <3>2, <3>3 DEF SpoolLines
    <3>5. \A n \in SpoolNames : \A e \in OfKey(KeyOf[g]) \cap Named(n)' : e \in SpoolFiles(KeyOf[g])
      BY <1>3 DEF SpoolFiles, SpoolNames
    <3> HIDE DEF f
    <3> QED
      BY <2>3, <3>1, <3>2, <3>4, <3>5, <1>1, <1>2, <1>3, RoomKept
  <2> QED
    BY <2>1, <2>2, <2>3
<1> QED
  BY <1>4, <1>6 DEF CapInv

(* A dead hook writes nothing.                                             *)
LEMMA HookDiesCap ==
  ASSUME IInv, IInv', CapInv, NEW h \in Hooks, HookDies(h)
  PROVE  CapInv'
<1>1. /\ hook' = [hook EXCEPT ![h].pc = "dead"] /\ UNCHANGED <<file, raced>>
      /\ \A g \in Hooks \ {h} : listed'[g] = listed[g]
  BY DEF HookDies, IInv, TypeOK
<1>2. /\ hook'[h].pc = "dead" /\ \A g \in Hooks : hook'[g].file = hook[g].file
      /\ \A g \in Hooks \ {h} : hook'[g].pc = hook[g].pc
  BY <1>1 DEF IInv, TypeOK, HookStates
<1>3. \A n : Named(n)' = Named(n)
  BY <1>1 DEF Named
<1>4. DropFileKind' /\ OwnFile'
  BY <1>2, <1>3 DEF CapInv, DropFileKind, OwnFile
<1>5. RoomLeft'
  <2> SUFFICES ASSUME NEW g \in Hooks, g \notin raced
               PROVE  RoomFor(g)'
    BY <1>1 DEF RoomLeft
  <2>1. CASE g = h
    BY <2>1, <1>2 DEF RoomFor
  <2>2. CASE g # h
    <3>1. SpoolLines(KeyOf[g])' = SpoolLines(KeyOf[g])
      BY <1>1, <1>3 DEF SpoolLines, SpoolFiles, OfKey
    <3> QED
      BY <2>2, <3>1, <1>1, <1>2, <1>3, RoomKept
  <2> QED
    BY <2>1, <2>2
<1> QED
  BY <1>4, <1>5 DEF CapInv

(* A drain adds no line, and what it renames or removes leaves no hook     *)
(* with less room than it measured, unless it is a rotation, which         *)
(* overtakes every check in flight.                                        *)
LEMMA DrainStepCap ==
  ASSUME IInv, IInv', CapInv, UNCHANGED <<hook, listed>>, raced \subseteq raced',
         \A f \in Hooks :
           /\ file'[f].lines = file[f].lines
           /\ f \in Named("dropped") \cup Named("ack") \cup Named("gone")
                => f \in Named("dropped")' \cup Named("ack")' \cup Named("gone")',
         \A g \in Hooks \ raced' : InFlight(g) =>
           \A n \in SpoolNames : OfKey(KeyOf[g]) \cap Named(n)' \subseteq Named(n)
  PROVE  CapInv'
<1>1. DropFileKind' /\ OwnFile'
  BY DEF CapInv, DropFileKind, OwnFile, Named
<1>2. RoomLeft'
  <2> SUFFICES ASSUME NEW g \in Hooks, g \notin raced'
               PROVE  RoomFor(g)'
    BY DEF RoomLeft
  <2>1. CASE ~ InFlight(g)
    BY <2>1 DEF RoomFor, InFlight
  <2>2. CASE InFlight(g)
    <3>1. \A n \in SpoolNames : OfKey(KeyOf[g]) \cap Named(n)' \subseteq Named(n)
      BY <2>2
    <3>2. SpoolLines(KeyOf[g])' \subseteq SpoolLines(KeyOf[g])
      BY <3>1 DEF SpoolLines, SpoolFiles, SpoolNames, OfKey
    <3>3. \A n \in SpoolNames : \A f \in OfKey(KeyOf[g]) \cap Named(n)' :
            file'[f].lines # {} => f \in Named(n) /\ file[f].lines # {}
      BY <3>1 DEF OfKey
    <3> QED
      BY <3>2, <3>3, RoomKept
  <2> QED
    BY <2>1, <2>2
<1> QED
  BY <1>1, <1>2 DEF CapInv

(* The steps of a drain.                                                   *)
LEMMA DrainCap ==
  ASSUME IInv, IInv', CapInv, NEW d \in Drainers,
         \/ TakeLock(d) \/ RotateOne(d) \/ ListDraining(d) \/ ReadFile(d)
         \/ InsertChunk(d) \/ DrainFails(d) \/ RemoveFile(d) \/ ListDropped(d)
         \/ RenameDropped(d) \/ CountAcks(d) \/ Persist(d) \/ DeleteAck(d)
         \/ KeepAck(d) \/ ReleaseLock(d) \/ DrainDies(d)
  PROVE  CapInv'
<1>1. file \in [Hooks -> FileStates]
  BY DEF IInv, TypeOK
<1>2. CASE RotateOne(d)
  <2>1. PICK f \in Named("live") : /\ file' = [file EXCEPT ![f].name = "draining"]
                                   /\ raced' = raced \cup Overtaken(KeyOf[f], None)
    BY <1>2 DEF RotateOne, IInv, DrainTodo
  <2>2. f \in Hooks /\ file[f].name = "live"
    BY DEF Named
  <2>3. /\ \A g \in Hooks : file'[g].lines = file[g].lines
        /\ \A g \in Hooks \ {f} : file'[g].name = file[g].name
        /\ file'[f].name = "draining"
    BY <1>1, <2>1, <2>2 DEF FileStates
  <2>4. \A g \in Hooks \ raced' : InFlight(g) => KeyOf[g] # KeyOf[f]
    BY <2>1, SpoolAssumption DEF Overtaken
  <2>5. \A g \in Hooks \ raced' : InFlight(g) =>
          \A n \in SpoolNames : OfKey(KeyOf[g]) \cap Named(n)' \subseteq Named(n)
    BY <2>3, <2>4 DEF OfKey, Named
  <2>6. UNCHANGED <<hook, listed>>
    BY <1>2 DEF RotateOne
  <2>7. \A g \in Hooks : g \in Named("dropped") \cup Named("ack") \cup Named("gone")
                => g \in Named("dropped")' \cup Named("ack")' \cup Named("gone")'
    BY <2>2, <2>3 DEF Named
  <2> QED
    BY <2>1, <2>3, <2>5, <2>6, <2>7, DrainStepCap
<1>3. CASE RemoveFile(d) \/ RenameDropped(d) \/ DeleteAck(d)
  <2>1. PICK f \in Hooks, name \in {"gone", "ack"} : file' = [file EXCEPT ![f].name = name]
    <3>1. CASE RemoveFile(d)
      BY <1>3, <3>1 DEF RemoveFile, IInv, DrainTodo, Named
    <3>2. CASE RenameDropped(d)
      BY <1>3, <3>2 DEF RenameDropped, IInv, DrainTodo, Named
    <3>3. CASE DeleteAck(d)
      BY <1>3, <3>3 DEF DeleteAck, IInv, DrainTodo, Named
    <3> QED
      BY <1>3, <3>1, <3>2, <3>3
  <2>2. /\ \A g \in Hooks : file'[g].lines = file[g].lines
        /\ \A g \in Hooks \ {f} : file'[g].name = file[g].name
        /\ file'[f].name \in {"gone", "ack"}
    BY <1>1, <2>1 DEF FileStates
  <2>3. UNCHANGED <<hook, listed, raced>>
    BY <1>3 DEF RemoveFile, RenameDropped, DeleteAck
  <2>4. \A n \in SpoolNames : Named(n)' \subseteq Named(n)
    BY <2>2 DEF Named, SpoolNames
  <2>5. \A g \in Hooks : g \in Named("dropped") \cup Named("ack") \cup Named("gone")
                => g \in Named("dropped")' \cup Named("ack")' \cup Named("gone")'
    BY <2>2 DEF Named
  <2> QED
    BY <2>2, <2>3, <2>4, <2>5, DrainStepCap
<1>4. CASE \/ TakeLock(d) \/ ListDraining(d) \/ ReadFile(d) \/ InsertChunk(d) \/ DrainFails(d)
           \/ ListDropped(d) \/ CountAcks(d) \/ Persist(d) \/ KeepAck(d) \/ ReleaseLock(d)
           \/ DrainDies(d)
  <2>1. UNCHANGED <<hook, listed, file, raced>>
    BY <1>4 DEF TakeLock, ListDraining, ReadFile, InsertChunk, DrainFails, ListDropped,
       CountAcks, Persist, KeepAck, ReleaseLock, DrainDies
  <2> QED
    BY <2>1, DrainStepCap DEF Named
<1> QED
  BY <1>2, <1>3, <1>4

(* A write no other write and no rotation overtook keeps to the cap.       *)
LEMMA WriteKeepsCap ==
  ASSUME IInv, IInv', CapInv, NEW h \in Hooks, WriteLine(h), hook[h].pc = "write", h \notin raced
  PROVE  Bytes(SpoolFiles(KeyOf[h]))' <= Cap
<1>1. Bytes(SpoolFiles(KeyOf[h])) + 1 <= Cap
  BY DEF CapInv, RoomLeft, RoomFor
<1>2. file' = [file EXCEPT ![hook[h].file].lines = @ \cup {h}]
  BY DEF WriteLine
<1>3. \A n : Named(n)' = Named(n)
  BY <1>2 DEF Named, IInv, TypeOK
<1>4. SpoolFiles(KeyOf[h])' = SpoolFiles(KeyOf[h])
  BY <1>3 DEF SpoolFiles, OfKey
<1>5. SpoolLines(KeyOf[h])' \subseteq SpoolLines(KeyOf[h]) \cup {h}
  <2>1. \A f \in Hooks : file'[f].lines \subseteq file[f].lines \cup {h}
    BY <1>2 DEF IInv, TypeOK, FileStates
  <2> QED
    BY <1>4, <2>1 DEF SpoolLines, SpoolFiles, OfKey
<1>6. SpoolLines(KeyOf[h]) \subseteq Hooks
  BY DEF SpoolLines, SpoolFiles, OfKey, IInv, TypeOK, FileStates
<1>7. IsFiniteSet(SpoolLines(KeyOf[h])) /\ IsFiniteSet(SpoolLines(KeyOf[h]) \cup {h})
  BY <1>6, SpoolAssumption, FS_Subset, FS_AddElement
<1>8. Cardinality(SpoolLines(KeyOf[h]) \cup {h}) <= Cardinality(SpoolLines(KeyOf[h])) + 1
  <2>1. Cardinality(SpoolLines(KeyOf[h])) \in Nat
    BY <1>7, FS_CardinalityType
  <2>2. Cardinality(SpoolLines(KeyOf[h]) \cup {h})
          = IF h \in SpoolLines(KeyOf[h]) THEN Cardinality(SpoolLines(KeyOf[h]))
                                          ELSE Cardinality(SpoolLines(KeyOf[h])) + 1
    BY <1>7, FS_AddElement
  <2> QED
    BY <2>1, <2>2
<1>9. /\ IsFiniteSet(SpoolLines(KeyOf[h])')
      /\ Cardinality(SpoolLines(KeyOf[h])') <= Cardinality(SpoolLines(KeyOf[h]) \cup {h})
  BY <1>5, <1>7, FS_Subset
<1>10. /\ Cardinality(SpoolLines(KeyOf[h])') \in Nat /\ Cardinality(SpoolLines(KeyOf[h])) \in Nat
       /\ Cardinality(SpoolLines(KeyOf[h]) \cup {h}) \in Nat
  BY <1>7, <1>9, FS_CardinalityType
<1>11. /\ Bytes(SpoolFiles(KeyOf[h])) = Cardinality(SpoolLines(KeyOf[h]))
       /\ Bytes(SpoolFiles(KeyOf[h]))' = Cardinality(SpoolLines(KeyOf[h])')
  BY DEF Bytes, SpoolLines
<1> QED
  BY <1>1, <1>8, <1>9, <1>10, <1>11, SpoolAssumption

(* No hook has anything to reckon with at first.                           *)
LEMMA InitCap == Init => CapInv
  BY DEF Init, CapInv, DropFileKind, OwnFile, RoomLeft, RoomFor

(* A hook whose size check nothing overtook never takes its session past   *)
(* SPOOL_CAP_BYTES, however many others write and whatever a drain moves.  *)
THEOREM CapHeld == Spec => CapHeldUnlessRaced
<1>1. IInv /\ IInv' /\ CapInv /\ [Next]_vars => CapInv'
  <2> SUFFICES ASSUME IInv, IInv', CapInv, [Next]_vars
               PROVE  CapInv'
    OBVIOUS
  <2>1. CASE UNCHANGED vars
    BY <2>1 DEF vars, CapInv, DropFileKind, OwnFile, RoomLeft, RoomFor, OfKey, SpoolFiles, Bytes,
       Named
  <2>2. ASSUME NEW h \in Hooks,
               ListFiles(h) \/ StatFiles(h) \/ OpenFile(h) \/ WriteLine(h) \/ HookDies(h)
        PROVE  CapInv'
    BY <2>2, ListFilesCap, StatFilesCap, OpenFileCap, WriteLineCap, HookDiesCap
  <2> QED
    BY <2>1, <2>2, DrainCap DEF Next
<1>2. IInv /\ IInv' /\ CapInv /\ [Next]_vars =>
        [\A h \in Hooks : hook[h].pc = "write" /\ hook'[h].pc = "written" /\ h \notin raced
           => Bytes(SpoolFiles(KeyOf[h]))' <= Cap]_vars
  <2> SUFFICES ASSUME IInv, IInv', CapInv, Next, NEW h \in Hooks,
                      hook[h].pc = "write", hook'[h].pc = "written", h \notin raced
               PROVE  Bytes(SpoolFiles(KeyOf[h]))' <= Cap
    OBVIOUS
  <2>1. hook' # hook
    OBVIOUS
  <2>2. PICK g \in Hooks : ListFiles(g) \/ StatFiles(g) \/ OpenFile(g) \/ WriteLine(g) \/ HookDies(g)
    BY <2>1 DEF Next, TakeLock, RotateOne, ListDraining, ReadFile, InsertChunk, DrainFails,
       RemoveFile, ListDropped, RenameDropped, CountAcks, Persist, DeleteAck, KeepAck,
       ReleaseLock, DrainDies
  <2>3. WriteLine(g)
    <3>1. hook \in [Hooks -> HookStates]
      BY DEF IInv, TypeOK
    <3>2. ~ ListFiles(g)
      BY <3>1 DEF ListFiles
    <3>3. ~ StatFiles(g)
      BY <3>1 DEF StatFiles
    <3>4. ~ OpenFile(g)
      BY <3>1 DEF OpenFile, OpenOrCreate
    <3>5. ~ HookDies(g)
      <4> SUFFICES ASSUME HookDies(g)
                   PROVE  FALSE
        OBVIOUS
      <4>1. hook' = [hook EXCEPT ![g].pc = "dead"]
        BY DEF HookDies
      <4>2. CASE g = h
        BY <3>1, <4>1, <4>2
      <4>3. CASE g # h
        BY <3>1, <4>1, <4>3
      <4> QED
        BY <4>2, <4>3
    <3> QED
      BY <2>2, <3>2, <3>3, <3>4, <3>5
  <2>4. g = h
    BY <2>3 DEF WriteLine, IInv, TypeOK
  <2> QED
    BY <2>3, <2>4, WriteKeepsCap
<1> QED
  BY <1>1, <1>2, InitCap, Inductive, PTL DEF Spec, CapHeldUnlessRaced

-----------------------------------------------------------------------------
(* The session pages.                                                      *)
(*                                                                         *)
(* The invariant is PagesIInv: the marker of a conversation is true of its *)
(* page, or of what the sweep removed, or there was nothing worth a page.  *)
(* The first lemmas say that the numbers Max returns are numbers of the    *)
(* set, next what one page may become, then one lemma takes each action.   *)

(* A finite, non-empty set of numbers has a largest one. *)
LEMMA MaxNat ==
  ASSUME NEW S \in SUBSET Nat, IsFiniteSet(S), S # {}
  PROVE  Max(S) \in S /\ \A n \in S : n <= Max(S)
<1> DEFINE above(n) == {m \in S : m > n}
           T == {above(n) : n \in S}
<1>1. IsWellFoundedOn(StrictSubsetOrdering(S), FiniteSubsetsOf(S))
  BY FS_StrictSubsetOrderingWellFounded
<1>2. T \subseteq FiniteSubsetsOf(S)
  <2> SUFFICES ASSUME NEW n \in S
               PROVE  above(n) \in FiniteSubsetsOf(S)
    OBVIOUS
  <2>1. above(n) \subseteq S
    OBVIOUS
  <2>2. IsFiniteSet(above(n))
    BY <2>1, FS_Subset
  <2> QED
    BY <2>1, <2>2 DEF FiniteSubsetsOf
<1>3. T # {}
  OBVIOUS
<1>4. PICK t \in T : \A u \in T : <<u, t>> \notin StrictSubsetOrdering(S)
  <2> HIDE DEF T
  <2> QED
    BY <1>1, <1>2, <1>3, WFMin
<1>5. PICK n \in S : t = above(n)
  BY <1>4
<1>6. n \in Nat /\ \A m \in S : m \in Nat
  OBVIOUS
<1>7. \A m \in S : n >= m
  <2>1. SUFFICES ASSUME NEW m \in S, m > n
                 PROVE  FALSE
    BY <1>6
  <2>2. above(m) \subseteq above(n) /\ m \in above(n) /\ m \notin above(m)
    <3>1. \A k \in S : k > m => k > n
      BY <1>6, <2>1
    <3>2. ~ (m > m)
      BY <1>6
    <3>3. above(m) \subseteq above(n)
      BY <3>1
    <3>4. m \in above(n) /\ m \notin above(m)
      BY <2>1, <3>2
    <3> QED
      BY <3>3, <3>4
  <2>3. <<above(m), above(n)>> \in StrictSubsetOrdering(S)
    BY <2>2 DEF StrictSubsetOrdering
  <2>4. above(m) \in T
    OBVIOUS
  <2> QED
    BY <1>4, <1>5, <2>3, <2>4
<1>8. Max(S) \in S /\ \A m \in S : Max(S) >= m
  BY <1>7 DEF Max
<1> QED
  BY <1>6, <1>8

(* Finitely many rows have finitely many numbers. *)
LEMMA IdsType ==
  ASSUME PagesTypeOK, IsFiniteSet(table), NEW R \in SUBSET table
  PROVE  IdsOf(R) \in SUBSET Nat /\ IsFiniteSet(IdsOf(R))
<1>1. IdsOf(R) \in SUBSET Nat
  BY DEF PagesTypeOK, IdsOf
<1>2. IsFiniteSet(R)
  BY FS_Subset
<1> DEFINE id == [r \in R |-> r.id]
<1>3. id \in Surjection(R, IdsOf(R))
  BY DEF Surjection, IdsOf
<1> QED
  BY <1>1, <1>2, <1>3, FS_Surjection

(* The next free number is a number. *)
LEMMA TopType ==
  ASSUME PagesTypeOK, IsFiniteSet(table)
  PROVE  Top \in Nat
<1>1. CASE table = {}
  BY <1>1 DEF Top
<1>2. CASE table # {}
  <2>1. IdsOf(table) # {}
    BY <1>2 DEF IdsOf
  <2>2. Max(IdsOf(table)) \in Nat
    BY <2>1, IdsType, MaxNat
  <2> QED
    BY <1>2, <2>2 DEF Top
<1> QED
  BY <1>1, <1>2

(* What Mark records of a conversation: numbers and times of its rows, and *)
(* no row of it is numbered above it.                                      *)
LEMMA MarkType ==
  ASSUME PagesTypeOK, IsFiniteSet(table), NEW c \in Heads
  PROVE  /\ Mark(c) \in Markers
         /\ \A r \in Own(c) : r.id <= Newest(c)
<1>1. Own(c) \in SUBSET table /\ Attached(c) \in SUBSET table /\ Own(c) # {}
  BY DEF Own, Attached, Unattached, Heads
<1>2. /\ IdsOf(Own(c)) \in SUBSET Nat /\ IsFiniteSet(IdsOf(Own(c)))
      /\ IdsOf(Attached(c)) \in SUBSET Nat /\ IsFiniteSet(IdsOf(Attached(c)))
  BY <1>1, IdsType
<1>3. IdsOf(Own(c)) # {}
  BY <1>1 DEF IdsOf
<1>4. LastId(c) \in Nat /\ \A r \in Own(c) : r.id <= LastId(c)
  <2>1. Max(IdsOf(Own(c))) \in Nat /\ \A n \in IdsOf(Own(c)) : n <= Max(IdsOf(Own(c)))
    BY <1>2, <1>3, MaxNat
  <2>2. \A r \in Own(c) : r.id \in IdsOf(Own(c))
    BY DEF IdsOf
  <2> QED
    BY <2>1, <2>2 DEF LastId
<1>5. Newest(c) \in Nat /\ LastId(c) <= Newest(c)
  <2> DEFINE S == {LastId(c)} \cup IdsOf(Attached(c))
  <2>1. IsFiniteSet({LastId(c)})
    BY FS_Singleton
  <2>2. IsFiniteSet(S) /\ S # {} /\ S \in SUBSET Nat
    BY <1>2, <1>4, <2>1, FS_Union
  <2>3. LastId(c) \in S
    OBVIOUS
  <2>4. Max(S) \in Nat /\ LastId(c) <= Max(S)
    <3> HIDE DEF S
    <3> QED
      BY <2>2, <2>3, MaxNat
  <2> QED
    BY <2>4 DEF Newest
<1>6. LastAt(c) \in Times
  <2> DEFINE S == {At(r) : r \in Own(c)}
  <2>1. S \subseteq Times
    <3> SUFFICES ASSUME NEW r \in Own(c)
                 PROVE  At(r) \in Times
      OBVIOUS
    <3>1. r.key \in DOMAIN observed
      BY <1>1 DEF PagesTypeOK
    <3>2. observed[r.key] \in Observations
      BY <3>1 DEF PagesTypeOK
    <3> QED
      BY <3>2 DEF At, Observations
  <2>2. S # {}
    BY <1>1
  <2>3. IsFiniteSet(Times) /\ Times \subseteq Nat
    BY SessionPagesAssumption, FS_Interval DEF Times
  <2>4. IsFiniteSet(S)
    BY <2>1, <2>3, FS_Subset
  <2>5. Max(S) \in S
    <3> HIDE DEF S
    <3> QED
      BY <2>1, <2>2, <2>3, <2>4, MaxNat
  <2> QED
    BY <2>1, <2>5 DEF LastAt
<1>7. \A r \in Own(c) : r.id \in Nat
  BY <1>1 DEF PagesTypeOK
<1>8. Mark(c) \in Markers
  BY <1>5, <1>6 DEF Mark, Markers
<1>9. \A r \in Own(c) : r.id <= Newest(c)
  BY <1>4, <1>5, <1>7
<1> QED
  BY <1>8, <1>9

(* A page shows captured events, those of its conversation all of them. *)
LEMMA RenderedType ==
  ASSUME PagesTypeOK, NEW c \in Convs
  PROVE  /\ Rendered(c) \in Pages \cup {Absent}
         /\ Rendered(c) # Absent => KeysOf(Own(c)) \subseteq Rendered(c).body
         /\ Rendered(c) = Absent <=> ~ Important(Shown(c))
<1>1. KeysOf(Shown(c)) \in SUBSET Positions
  <2> SUFFICES ASSUME NEW r \in Shown(c)
               PROVE  r.key \in Positions
    BY DEF KeysOf
  <2>1. r \in table
    BY DEF Shown, Own, Attached, Unattached
  <2>2. r.key \in DOMAIN observed
    BY <2>1 DEF PagesTypeOK
  <2> QED
    BY <2>2, SessionPagesAssumption DEF PagesTypeOK, Positions
<1>2. KeysOf(Own(c)) \subseteq KeysOf(Shown(c))
  BY DEF KeysOf, Shown
<1>3. CASE ~ Important(Shown(c))
  BY <1>3 DEF Rendered
<1>4. CASE Important(Shown(c))
  <2>1. now \in Times /\ page[c] \in Pages \cup {Absent} /\ Absent \notin Pages
    BY NoPageAssumption DEF PagesTypeOK
  <2>2. Rendered(c) \in Pages /\ Rendered(c).body = KeysOf(Shown(c))
    <3>1. CASE page[c] = Absent
      <4> DEFINE p == [body |-> KeysOf(Shown(c)), pinned |-> FALSE, expires |-> Absent,
                       mtime |-> now, touched |-> TRUE]
      <4>1. Rendered(c) = p
        BY <1>4, <3>1 DEF Rendered
      <4>2. p \in Pages
        BY <1>1, <2>1 DEF Pages
      <4> QED
        BY <4>1, <4>2
    <3>2. CASE page[c] # Absent /\ page[c].body = KeysOf(Shown(c))
      BY <1>4, <2>1, <3>2 DEF Rendered
    <3>3. CASE page[c] # Absent /\ page[c].body # KeysOf(Shown(c))
      <4> DEFINE p == [page[c] EXCEPT !.body = KeysOf(Shown(c)), !.mtime = now,
                                      !.touched = TRUE]
      <4>1. Rendered(c) = p
        BY <1>4, <3>3 DEF Rendered
      <4>2. p \in Pages /\ p.body = KeysOf(Shown(c))
        BY <1>1, <2>1, <3>3 DEF Pages
      <4> QED
        BY <4>1, <4>2
    <3> QED
      BY <3>1, <3>2, <3>3
  <2> QED
    BY <1>2, <1>4, <2>1, <2>2
<1> QED
  BY <1>3, <1>4

(* The pages a pass regenerates and the others. *)
LEMMA RegeneratedType ==
  ASSUME PagesTypeOK, NEW done \in SUBSET Convs
  PROVE  Regenerated(done) \in [Convs -> Pages \cup {Absent}]
BY RenderedType DEF Regenerated, PagesTypeOK

(* A refresh changes no page but what is known of its mtime, and gives the *)
(* index rows of pages.                                                    *)
LEMMA IndexType ==
  ASSUME PagesTypeOK, NEW P \in [Convs -> Pages \cup {Absent}], IndexNow(P) \/ IndexLater(P)
  PROVE  /\ page' \in [Convs -> Pages \cup {Absent}]
         /\ index' \in [Convs -> IndexRows \cup {Absent}]
         /\ \A c \in Convs :
              /\ page'[c] = Absent <=> P[c] = Absent
              /\ P[c] # Absent => page'[c].body = P[c].body
<1>1. CASE IndexLater(P)
  BY <1>1 DEF IndexLater, PagesTypeOK
<1>2. CASE IndexNow(P)
  <2>1. \A c \in Convs : P[c] # Absent => [P[c] EXCEPT !.touched = FALSE] \in Pages
    BY DEF Pages
  <2>2. \A c \in Convs :
          /\ page'[c] \in Pages \cup {Absent}
          /\ page'[c] = Absent <=> P[c] = Absent
          /\ P[c] # Absent => page'[c].body = P[c].body
    <3> SUFFICES ASSUME NEW c \in Convs
                 PROVE  /\ page'[c] \in Pages \cup {Absent}
                        /\ page'[c] = Absent <=> P[c] = Absent
                        /\ P[c] # Absent => page'[c].body = P[c].body
      OBVIOUS
    <3>1. page'[c] = IF P[c] = Absent THEN Absent ELSE [P[c] EXCEPT !.touched = FALSE]
      BY <1>2 DEF IndexNow, Settled
    <3>2. CASE P[c] = Absent
      BY <3>1, <3>2
    <3>3. CASE P[c] # Absent
      <4>1. P[c] \in Pages
        BY <3>3
      <4>2. page'[c] \in Pages /\ page'[c].body = P[c].body
        BY <2>1, <3>1, <3>3, <4>1 DEF Pages
      <4> QED
        BY <3>3, <4>2, NoPageAssumption
    <3> QED
      BY <3>2, <3>3
  <2>3. \A c \in Convs : Reindexed(P)[c] \in IndexRows \cup {Absent}
    <3>1. \A c \in Convs : P[c] # Absent => Row(P[c]) \in IndexRows
      BY DEF Pages, Row, IndexRows
    <3> QED
      BY <3>1 DEF Reindexed, PagesTypeOK
  <2> QED
    BY <1>2, <2>2, <2>3 DEF IndexNow, Settled, Reindexed
<1> QED
  BY <1>1, <1>2

(* Markers stay when rows only go and the page stays what it showed. *)
LEMMA AccountedKept ==
  ASSUME NEW c \in Convs, Accounted(c), Absent \notin Markers,
         marker'[c] \in {marker[c], Absent},
         table' \subseteq table, \A r \in table : observed'[r.key] = observed[r.key],
         page'[c] = Absent <=> page[c] = Absent,
         page[c] # Absent => page'[c].body = page[c].body,
         page[c] = Absent => swept'[c] = swept[c]
  PROVE  Accounted(c)'
<1> SUFFICES ASSUME marker'[c] # Absent
             PROVE  Accounted(c)'
  BY DEF Accounted
<1>1. marker'[c] = marker[c]
  OBVIOUS
<1>2. Own(c)' \subseteq Own(c)
  BY DEF Own
<1>3. Consolidated(c)' \subseteq Consolidated(c)
  BY <1>1, <1>2 DEF Consolidated
<1>4. KeysOf(Consolidated(c))' \subseteq KeysOf(Consolidated(c))
  BY <1>3 DEF KeysOf
<1>5. Important(Consolidated(c))' => Important(Consolidated(c))
  <2>1. Consolidated(c)' \subseteq table
    BY <1>3 DEF Consolidated, Own
  <2> QED
    BY <1>3, <2>1 DEF Important, Kind
<1> QED
  BY <1>1, <1>4, <1>5 DEF Accounted

(* The page of a conversation just rendered answers for any marker. *)
LEMMA AccountedRendered ==
  ASSUME PagesTypeOK, NEW c \in Convs,
         table' = table, observed' = observed,
         page'[c] = Absent <=> Rendered(c) = Absent,
         Rendered(c) # Absent => page'[c].body = Rendered(c).body
  PROVE  Accounted(c)'
<1>1. Own(c)' = Own(c)
  BY DEF Own
<1>2. Consolidated(c)' \subseteq Own(c)
  BY <1>1 DEF Consolidated
<1>3. CASE Rendered(c) # Absent
  <2>1. KeysOf(Consolidated(c))' \subseteq Rendered(c).body
    BY <1>2, <1>3, RenderedType DEF KeysOf
  <2> QED
    BY <1>3, <2>1 DEF Accounted
<1>4. CASE Rendered(c) = Absent
  <2>1. ~ Important(Shown(c))
    BY <1>4, RenderedType
  <2>2. ~ Important(Consolidated(c))'
    BY <1>2, <2>1 DEF Important, Kind, Shown
  <2> QED
    BY <1>4, <2>2 DEF Accounted
<1> QED
  BY <1>3, <1>4

(* A hook captures an event: no row changes. *)
LEMMA CaptureInv ==
  ASSUME PagesIInv, NEW o \in Observations, Capture(o)
  PROVE  PagesIInv'
<1> USE DEF Capture
<1>1. DOMAIN observed \subseteq DOMAIN observed' /\ Len(observed) + 1 \in DOMAIN observed'
  BY DEF PagesIInv, PagesTypeOK
<1>2. \A k \in DOMAIN observed : observed'[k] = observed[k]
  BY DEF PagesIInv, PagesTypeOK
<1>3. PagesTypeOK'
  <2>1. observed' \in Seq(Observations) /\ Len(observed') <= MaxObs
    BY SessionPagesAssumption DEF PagesIInv, PagesTypeOK
  <2>2. spool' \subseteq DOMAIN observed'
    BY <1>1 DEF PagesIInv, PagesTypeOK
  <2>3. table' \subseteq [id : Nat, key : DOMAIN observed']
    BY <1>1 DEF PagesIInv, PagesTypeOK
  <2> QED
    BY <2>1, <2>2, <2>3 DEF PagesIInv, PagesTypeOK
<1>4. MarkedIsShown'
  <2>1. \A r \in table : observed'[r.key] = observed[r.key]
    BY <1>2 DEF PagesIInv, PagesTypeOK
  <2> QED
    BY <2>1, AccountedKept, NoPageAssumption DEF PagesIInv, MarkedIsShown
<1> QED
  BY <1>3, <1>4 DEF PagesIInv

(* A drain gives the events of one spool the next numbers; a number at or  *)
(* below the marker of its conversation puts that one among the skipped.   *)
LEMMA DrainPagesInv ==
  ASSUME PagesIInv, NEW d \in Convs \cup {Absent}, Drain(d)
  PROVE  PagesIInv'
<1> DEFINE keys == {k \in spool : observed[k].conv = d}
           number(k) == Top + Cardinality({j \in keys : j <= k})
           new  == {[id |-> number(k), key |-> k] : k \in keys}
<1>1. /\ spool' = spool \ keys
      /\ table' = table \cup new
      /\ exists' = TRUE
      /\ skipped' = skipped \cup
           {c \in Convs \cap {d} : marker[c] # Absent /\ \E r \in new : r.id <= marker[c].id}
      /\ UNCHANGED <<now, observed, page, index, marker, mishaps, swept>>
  BY DEF Drain
<1>2. keys \subseteq DOMAIN observed /\ IsFiniteSet(keys)
  <2>1. DOMAIN observed = 1 .. Len(observed) /\ Len(observed) \in Nat
    BY DEF PagesIInv, PagesTypeOK
  <2>2. IsFiniteSet(DOMAIN observed)
    BY <2>1, FS_Interval
  <2>3. keys \subseteq DOMAIN observed
    BY DEF PagesIInv, PagesTypeOK
  <2> QED
    BY <2>2, <2>3, FS_Subset
<1>3. \A k \in keys : number(k) \in Nat
  <2> SUFFICES ASSUME NEW k \in keys
               PROVE  number(k) \in Nat
    OBVIOUS
  <2>1. {j \in keys : j <= k} \subseteq keys
    OBVIOUS
  <2>2. Cardinality({j \in keys : j <= k}) \in Nat
    <3> HIDE DEF keys
    <3> QED
      BY <1>2, <2>1, FS_Subset, FS_CardinalityType
  <2> QED
    BY <2>2, TopType DEF PagesIInv
<1>4. new \subseteq [id : Nat, key : keys]
  <2> HIDE DEF keys, number
  <2> QED
    BY <1>3
<1>5. IsFiniteSet(new)
  <2> DEFINE rowOf == [k \in keys |-> [id |-> number(k), key |-> k]]
  <2>1. rowOf \in Surjection(keys, new)
    <3> HIDE DEF keys, number
    <3> QED
      BY DEF Surjection
  <2> HIDE DEF keys, new
  <2> QED
    BY <1>2, <2>1, FS_Surjection
<1> HIDE DEF new
<1>6. PagesTypeOK'
  <2>1. table' \subseteq [id : Nat, key : DOMAIN observed']
    BY <1>1, <1>2, <1>4 DEF PagesIInv, PagesTypeOK
  <2>2. skipped' \subseteq Convs
    BY <1>1 DEF PagesIInv, PagesTypeOK
  <2>3. spool' \subseteq DOMAIN observed'
    BY <1>1 DEF PagesIInv, PagesTypeOK
  <2> QED
    BY <1>1, <2>1, <2>2, <2>3 DEF PagesIInv, PagesTypeOK
<1>7. IsFiniteSet(table')
  BY <1>1, <1>5, FS_Union DEF PagesIInv
<1>8. MarkedIsShown'
  <2> SUFFICES ASSUME NEW c \in Convs, c \notin skipped', marker[c] # Absent
               PROVE  Accounted(c)'
    BY <1>1 DEF MarkedIsShown, Accounted
  <2>1. Accounted(c)
    BY <1>1 DEF PagesIInv, MarkedIsShown
  <2>2. \A r \in new : observed[r.key].conv = d
    BY <1>4
  <2>3. \A r \in new : r.id <= marker[c].id => c # d
    BY <1>1
  <2>4. Consolidated(c)' = Consolidated(c)
    BY <1>1, <2>2, <2>3 DEF Consolidated, Own
  <2>5. KeysOf(Consolidated(c))' = KeysOf(Consolidated(c))
    BY <2>4 DEF KeysOf
  <2>6. Important(Consolidated(c))' = Important(Consolidated(c))
    BY <1>1, <2>4 DEF Important, Kind
  <2> QED
    BY <1>1, <2>1, <2>5, <2>6 DEF Accounted
<1> QED
  BY <1>6, <1>7, <1>8 DEF PagesIInv

(* What a pass writes into the markers, whatever it reached. *)
LEMMA MarkedType ==
  ASSUME PagesTypeOK, IsFiniteSet(table), NEW done \in SUBSET Heads
  PROVE  /\ Marked(done) \in [Convs -> Markers \cup {Absent}]
         /\ Pruned(Marked(done)) \in [Convs -> Markers \cup {Absent}]
         /\ \A c \in Convs \ done : Marked(done)[c] = marker[c]
<1>1. \A c \in done : Mark(c) \in Markers
  BY MarkType
<1>2. Marked(done) \in [Convs -> Markers \cup {Absent}]
  BY <1>1 DEF Marked, PagesTypeOK
<1>3. \A c \in Convs \ done : Marked(done)[c] = marker[c]
  BY DEF Marked
<1> HIDE DEF Marked
<1>4. Pruned(Marked(done)) \in [Convs -> Markers \cup {Absent}]
  BY <1>2 DEF Pruned
<1> QED
  BY <1>2, <1>3, <1>4

(* What a pass leaves of a page answers for the marker it leaves, of a     *)
(* conversation it reached or of another.                                  *)
LEMMA PassAccounts ==
  ASSUME PagesIInv, NEW done \in SUBSET Heads,
         UNCHANGED <<observed, table, skipped>>,
         \A c \in Convs \ done : marker'[c] \in {marker[c], Absent},
         \A c \in Convs :
           /\ page'[c] = Absent <=> Regenerated(done)[c] = Absent
           /\ Regenerated(done)[c] # Absent => page'[c].body = Regenerated(done)[c].body,
         swept' = Returned(Regenerated(done))
  PROVE  MarkedIsShown'
<1> SUFFICES ASSUME NEW c \in Convs \ skipped
             PROVE  Accounted(c)'
  BY DEF MarkedIsShown
<1>1. CASE c \in done
  <2>1. Regenerated(done)[c] = Rendered(c)
    BY <1>1 DEF Regenerated
  <2> QED
    BY <2>1, AccountedRendered DEF PagesIInv
<1>2. CASE c \notin done
  <2>1. Regenerated(done)[c] = page[c]
    BY <1>2 DEF Regenerated
  <2>2. page[c] = Absent => swept'[c] = swept[c]
    BY <2>1 DEF Returned
  <2>3. Accounted(c)
    BY DEF PagesIInv, MarkedIsShown
  <2> QED
    BY <1>2, <2>1, <2>2, <2>3, AccountedKept, NoPageAssumption
<1> QED
  BY <1>1, <1>2

(* A page that came back leaves no removal to answer for. *)
LEMMA ReturnedType ==
  ASSUME PagesTypeOK, NEW P
  PROVE  Returned(P) \in [Convs -> [body : SUBSET Positions, told : BOOLEAN] \cup {Absent}]
BY DEF PagesTypeOK, Returned

(* A pass that reached its end. *)
LEMMA PassInv ==
  ASSUME PagesIInv, NEW forced \in BOOLEAN, Pass(forced)
  PROVE  PagesIInv'
<1> DEFINE done == Todo(forced)
           P == Regenerated(done)
<1>1. done \in SUBSET Heads /\ done \in SUBSET Convs
  BY DEF Todo, Heads
<1>2. P \in [Convs -> Pages \cup {Absent}]
  BY <1>1, RegeneratedType DEF PagesIInv
<1>3. /\ marker' = Pruned(Marked(done))
      /\ swept' = Returned(P)
      /\ IndexNow(P) \/ IndexLater(P)
      /\ UNCHANGED <<now, observed, spool, table, exists, skipped>>
  BY DEF Pass
<1>4. mishaps' \in 0 .. MaxMishaps
  BY SessionPagesAssumption DEF Pass, PagesIInv, PagesTypeOK
<1> HIDE DEF done
<1>5. /\ Marked(done) \in [Convs -> Markers \cup {Absent}]
      /\ marker' \in [Convs -> Markers \cup {Absent}]
      /\ \A c \in Convs \ done : Marked(done)[c] = marker[c]
  BY <1>1, <1>3, MarkedType DEF PagesIInv
<1>6. \A c \in Convs \ done : marker'[c] \in {marker[c], Absent}
  BY <1>3, <1>5 DEF Pruned
<1> HIDE DEF P
<1>7. /\ page' \in [Convs -> Pages \cup {Absent}]
      /\ index' \in [Convs -> IndexRows \cup {Absent}]
      /\ \A c \in Convs :
           /\ page'[c] = Absent <=> P[c] = Absent
           /\ P[c] # Absent => page'[c].body = P[c].body
  BY <1>2, <1>3, IndexType DEF PagesIInv
<1>8. swept' \in [Convs -> [body : SUBSET Positions, told : BOOLEAN] \cup {Absent}]
  BY <1>3, ReturnedType DEF PagesIInv
<1>9. PagesTypeOK'
  BY <1>3, <1>4, <1>5, <1>7, <1>8 DEF PagesIInv, PagesTypeOK
<1>10. MarkedIsShown'
  BY <1>1, <1>3, <1>6, <1>7, PassAccounts DEF P
<1> QED
  BY <1>3, <1>9, <1>10 DEF PagesIInv

(* A pass that stopped before some page: the markers of those behind it    *)
(* are kept or lost.                                                       *)
LEMMA BrokenPassInv ==
  ASSUME PagesIInv, NEW forced \in BOOLEAN, BrokenPass(forced)
  PROVE  PagesIInv'
<1>1. PICK last \in 0 .. ConvCount :
        LET done == {c \in Todo(forced) : c <= last} IN
        /\ marker' \in {Marked(done)} \cup {marker}
        /\ page' = Regenerated(done)
        /\ swept' = Returned(Regenerated(done))
  BY DEF BrokenPass
<1> DEFINE done == {c \in Todo(forced) : c <= last}
           P == Regenerated(done)
<1>2. done \in SUBSET Heads /\ done \in SUBSET Convs
  BY DEF Todo, Heads
<1>3. P \in [Convs -> Pages \cup {Absent}]
  BY <1>2, RegeneratedType DEF PagesIInv
<1>4. marker' \in {Marked(done)} \cup {marker} /\ page' = P /\ swept' = Returned(P)
  BY <1>1
<1>5. UNCHANGED <<now, observed, spool, table, index, exists, skipped>>
  BY DEF BrokenPass
<1>6. mishaps' \in 0 .. MaxMishaps
  BY SessionPagesAssumption DEF BrokenPass, PagesIInv, PagesTypeOK
<1> HIDE DEF done
<1>7. /\ marker' \in [Convs -> Markers \cup {Absent}]
      /\ \A c \in Convs \ done : marker'[c] = marker[c]
  <2>1. /\ Marked(done) \in [Convs -> Markers \cup {Absent}]
        /\ \A c \in Convs \ done : Marked(done)[c] = marker[c]
    BY <1>2, MarkedType DEF PagesIInv
  <2> QED
    BY <1>4, <2>1 DEF PagesIInv, PagesTypeOK
<1> HIDE DEF P
<1>8. swept' \in [Convs -> [body : SUBSET Positions, told : BOOLEAN] \cup {Absent}]
  BY <1>4, ReturnedType DEF PagesIInv
<1>9. PagesTypeOK'
  BY <1>3, <1>4, <1>5, <1>6, <1>7, <1>8 DEF PagesIInv, PagesTypeOK
<1>10. MarkedIsShown'
  BY <1>2, <1>4, <1>5, <1>7, PassAccounts DEF P
<1> QED
  BY <1>5, <1>9, <1>10 DEF PagesIInv

(* The sweep: a page that goes leaves what it showed in swept, and rows    *)
(* only go.                                                                *)
LEMMA SweepInv ==
  ASSUME PagesIInv, Sweep
  PROVE  PagesIInv'
<1> DEFINE P(gone) == [c \in Convs |-> IF c \in gone THEN Absent ELSE page[c]]
<1> DEFINE Swept(gone) ==
             /\ table' = table \ Outdated
             /\ marker' = KeptMarkers(gone)
             /\ \/ IndexNow(P(gone)) /\ UNCHANGED mishaps
                \/ IndexLater(P(gone)) /\ UNCHANGED mishaps
                \/ IndexLater(P(gone)) /\ mishaps < MaxMishaps /\ mishaps' = mishaps + 1
             /\ swept' = [c \in Convs |->
                            IF c \in gone THEN [body |-> page[c].body, told |-> Told(c)]
                            ELSE swept[c]]
             /\ UNCHANGED <<now, observed, spool, exists, skipped>>
<1>1. PICK gone \in SUBSET {c \in Convs : Expired(c)} : Swept(gone)
  BY Zenon DEF Sweep
<1>2. marker' = marker /\ table' \subseteq table
  BY <1>1 DEF KeptMarkers
<1>3. \A c \in gone : page[c] \in Pages
  BY DEF Expired, PagesIInv, PagesTypeOK
<1>4. P(gone) \in [Convs -> Pages \cup {Absent}]
  BY DEF PagesIInv, PagesTypeOK
<1> DEFINE Q == P(gone)
<1>5. \A c \in Convs : Q[c] = IF c \in gone THEN Absent ELSE page[c]
  OBVIOUS
<1> HIDE DEF Q, P
<1>6. /\ page' \in [Convs -> Pages \cup {Absent}]
      /\ index' \in [Convs -> IndexRows \cup {Absent}]
      /\ \A c \in Convs :
           /\ page'[c] = Absent <=> Q[c] = Absent
           /\ Q[c] # Absent => page'[c].body = Q[c].body
  BY <1>1, <1>4, IndexType DEF PagesIInv, Q
<1>7. PagesTypeOK'
  <2>1. mishaps' \in 0 .. MaxMishaps
    BY <1>1, SessionPagesAssumption DEF PagesIInv, PagesTypeOK
  <2>2. table' \subseteq [id : Nat, key : DOMAIN observed']
    BY <1>1, <1>2 DEF PagesIInv, PagesTypeOK
  <2>3. swept' \in [Convs -> [body : SUBSET Positions, told : BOOLEAN] \cup {Absent}]
    <3>1. \A c \in gone : [body |-> page[c].body, told |-> Told(c)]
                            \in [body : SUBSET Positions, told : BOOLEAN]
      BY <1>3 DEF Told, Pages
    <3> QED
      BY <1>1, <3>1 DEF PagesIInv, PagesTypeOK
  <2> QED
    BY <1>1, <1>2, <1>6, <2>1, <2>2, <2>3 DEF PagesIInv, PagesTypeOK
<1>8. IsFiniteSet(table')
  BY <1>2, FS_Subset DEF PagesIInv
<1>9. MarkedIsShown'
  <2> SUFFICES ASSUME NEW c \in Convs \ skipped
               PROVE  Accounted(c)'
    BY <1>1 DEF MarkedIsShown
  <2>1. Accounted(c)
    BY DEF PagesIInv, MarkedIsShown
  <2>2. CASE c \notin gone
    <3>1. swept'[c] = swept[c]
      BY <1>1, <2>2
    <3>2. /\ page'[c] = Absent <=> page[c] = Absent
          /\ page[c] # Absent => page'[c].body = page[c].body
      BY <1>5, <1>6, <2>2
    <3> QED
      BY <1>1, <1>2, <2>1, <3>1, <3>2, AccountedKept, NoPageAssumption
  <2>3. CASE c \in gone
    <3>1. page[c] # Absent /\ page'[c] = Absent
      BY <1>3, <1>5, <1>6, <2>3, NoPageAssumption
    <3>2. swept'[c] # Absent /\ swept'[c].body = page[c].body
      <4>1. swept'[c] = [body |-> page[c].body, told |-> Told(c)]
        BY <1>1, <2>3
      <4>2. swept'[c] \in [body : SUBSET Positions, told : BOOLEAN]
        BY <1>3, <2>3, <4>1 DEF Told, Pages
      <4> QED
        BY <4>1, <4>2, NoPageAssumption
    <3>3. KeysOf(Consolidated(c))' \subseteq KeysOf(Consolidated(c))
      BY <1>1, <1>2 DEF KeysOf, Consolidated, Own
    <3> QED
      BY <1>2, <2>1, <3>1, <3>2, <3>3 DEF Accounted
  <2> QED
    BY <2>2, <2>3
<1> QED
  BY <1>7, <1>8, <1>9 DEF PagesIInv

(* A patch sets pinned and expires_at and leaves the body. *)
LEMMA PatchInv ==
  ASSUME PagesIInv, NEW d \in Tended, Patch(d)
  PROVE  PagesIInv'
<1>1. /\ page[d] # Absent
      /\ UNCHANGED <<now, observed, spool, table, marker, swept, skipped>>
  BY DEF Patch
<1> DEFINE P(pinned, expires) == [page EXCEPT ![d] = Patched(d, pinned, expires)]
<1>2. PICK pinned \in BOOLEAN, expires \in Dates :
        \/ /\ IndexNow(P(pinned, expires)) /\ exists' = TRUE /\ UNCHANGED mishaps
        \/ /\ mishaps < MaxMishaps
           /\ mishaps' = mishaps + 1
           /\ page' = [P(pinned, expires) EXCEPT ![d].mtime = now, ![d].touched = TRUE]
           /\ UNCHANGED <<index, exists>>
  BY DEF Patch
<1>3. d \in Convs /\ page[d] \in Pages /\ page \in [Convs -> Pages \cup {Absent}] /\ now \in Times
  BY <1>1, SessionPagesAssumption DEF Convs, PagesIInv, PagesTypeOK
<1>4. expires \in Times \cup {Absent}
  BY SessionPagesAssumption DEF Times
<1>5. /\ Patched(d, pinned, expires) \in Pages
      /\ Patched(d, pinned, expires).body = page[d].body
  BY <1>3, <1>4 DEF Patched, Pages
<1> DEFINE Q == P(pinned, expires)
<1>6. Q \in [Convs -> Pages \cup {Absent}] /\ Q[d] \in Pages /\ Q[d].body = page[d].body
      /\ \A c \in Convs \ {d} : Q[c] = page[c]
  BY <1>3, <1>5
<1>7. /\ page' \in [Convs -> Pages \cup {Absent}]
      /\ index' \in [Convs -> IndexRows \cup {Absent}]
      /\ exists' \in BOOLEAN /\ mishaps' \in 0 .. MaxMishaps
      /\ \A c \in Convs :
           /\ page'[c] = Absent <=> Q[c] = Absent
           /\ Q[c] # Absent => page'[c].body = Q[c].body
  <2> HIDE DEF Q
  <2>1. CASE IndexNow(Q) /\ exists' = TRUE /\ UNCHANGED mishaps
    BY <1>6, <2>1, IndexType DEF PagesIInv, PagesTypeOK
  <2>2. CASE /\ mishaps < MaxMishaps
             /\ mishaps' = mishaps + 1
             /\ page' = [Q EXCEPT ![d].mtime = now, ![d].touched = TRUE]
             /\ UNCHANGED <<index, exists>>
    <3> DEFINE p == [Q[d] EXCEPT !.mtime = now, !.touched = TRUE]
    <3>1. p \in Pages /\ p.body = Q[d].body
      BY <1>3, <1>6 DEF Pages
    <3>2. page' = [Q EXCEPT ![d] = p]
      BY <1>3, <1>6, <2>2
    <3> HIDE DEF p
    <3>3. page' \in [Convs -> Pages \cup {Absent}]
      BY <1>6, <3>1, <3>2
    <3>4. \A c \in Convs :
            /\ page'[c] = Absent <=> Q[c] = Absent
            /\ Q[c] # Absent => page'[c].body = Q[c].body
      BY <1>3, <1>6, <3>1, <3>2, NoPageAssumption
    <3>5. index' \in [Convs -> IndexRows \cup {Absent}] /\ exists' \in BOOLEAN
      BY <2>2 DEF PagesIInv, PagesTypeOK
    <3>6. mishaps' \in 0 .. MaxMishaps
      BY <2>2, SessionPagesAssumption DEF PagesIInv, PagesTypeOK
    <3> QED
      BY <3>3, <3>4, <3>5, <3>6
  <2> QED
    BY <1>2, <2>1, <2>2 DEF Q
<1> HIDE DEF Q
<1>8. PagesTypeOK'
  BY <1>1, <1>7 DEF PagesIInv, PagesTypeOK
<1>9. MarkedIsShown'
  <2> SUFFICES ASSUME NEW c \in Convs \ skipped
               PROVE  Accounted(c)'
    BY <1>1 DEF MarkedIsShown
  <2>1. /\ page'[c] = Absent <=> page[c] = Absent
        /\ page[c] # Absent => page'[c].body = page[c].body
    BY <1>3, <1>6, <1>7, NoPageAssumption
  <2> QED
    BY <1>1, <2>1, AccountedKept, NoPageAssumption DEF PagesIInv, MarkedIsShown
<1> QED
  BY <1>1, <1>8, <1>9 DEF PagesIInv

(* A refresh changes no page's body; clean takes every row; the clock is   *)
(* in no marker.                                                           *)
LEMMA RefreshCleanTickInv ==
  ASSUME PagesIInv, Refresh \/ Clean \/ Tick
  PROVE  PagesIInv'
<1>1. CASE Refresh
  <2>1. /\ page' \in [Convs -> Pages \cup {Absent}]
        /\ index' \in [Convs -> IndexRows \cup {Absent}]
        /\ \A c \in Convs :
             /\ page'[c] = Absent <=> page[c] = Absent
             /\ page[c] # Absent => page'[c].body = page[c].body
    BY <1>1, IndexType DEF Refresh, PagesIInv, PagesTypeOK
  <2>2. PagesTypeOK'
    BY <1>1, <2>1 DEF Refresh, PagesIInv, PagesTypeOK
  <2>3. MarkedIsShown'
    BY <1>1, <2>1, AccountedKept, NoPageAssumption DEF Refresh, PagesIInv, MarkedIsShown
  <2> QED
    BY <1>1, <2>2, <2>3 DEF Refresh, PagesIInv
<1>2. CASE Clean
  <2>1. PagesTypeOK'
    BY <1>2 DEF Clean, PagesIInv, PagesTypeOK
  <2>2. IsFiniteSet(table')
    BY <1>2, FS_EmptySet DEF Clean
  <2>3. MarkedIsShown'
    BY <1>2, AccountedKept, NoPageAssumption DEF Clean, PagesIInv, MarkedIsShown
  <2> QED
    BY <2>1, <2>2, <2>3 DEF PagesIInv
<1>3. CASE Tick
  <2>1. now' \in Times
    BY <1>3, SessionPagesAssumption DEF Tick, Times, PagesIInv, PagesTypeOK
  <2>2. PagesTypeOK'
    BY <1>3, <2>1 DEF Tick, PagesIInv, PagesTypeOK
  <2>3. MarkedIsShown'
    BY <1>3, AccountedKept, NoPageAssumption DEF Tick, PagesIInv, MarkedIsShown
  <2> QED
    BY <1>3, <2>2, <2>3 DEF Tick, PagesIInv
<1> QED
  BY <1>1, <1>2, <1>3

(* The invariant at first: no marker. *)
LEMMA PagesInitInv == PagesInit => PagesIInv
<1> SUFFICES ASSUME PagesInit
             PROVE  PagesIInv
  OBVIOUS
<1>1. PagesTypeOK
  <2>1. observed \in Seq(Observations) /\ Len(observed) <= MaxObs
    BY SessionPagesAssumption DEF PagesInit
  <2>2. now \in Times /\ mishaps \in 0 .. MaxMishaps
    BY SessionPagesAssumption DEF PagesInit, Times
  <2> QED
    BY <2>1, <2>2 DEF PagesInit, PagesTypeOK
<1>2. IsFiniteSet(table)
  BY FS_EmptySet DEF PagesInit
<1>3. MarkedIsShown
  BY DEF PagesInit, MarkedIsShown, Accounted
<1> QED
  BY <1>1, <1>2, <1>3 DEF PagesIInv

(* Every action keeps the invariant. *)
LEMMA PagesNextInv == PagesIInv /\ [PagesNext]_pagesVars => PagesIInv'
<1> SUFFICES ASSUME PagesIInv, [PagesNext]_pagesVars
             PROVE  PagesIInv'
  OBVIOUS
<1>1. CASE \E o \in Observations : o.at = now /\ Capture(o)
  BY <1>1, CaptureInv
<1>2. CASE \E c \in Convs \cup {Absent} : Drain(c)
  BY <1>2, DrainPagesInv
<1>3. CASE \E forced \in BOOLEAN : Pass(forced) \/ BrokenPass(forced)
  BY <1>3, PassInv, BrokenPassInv
<1>4. CASE Sweep
  BY <1>4, SweepInv
<1>5. CASE \E c \in Tended : Patch(c)
  BY <1>5, PatchInv
<1>6. CASE Refresh \/ Clean \/ Tick
  BY <1>6, RefreshCleanTickInv
<1>7. CASE UNCHANGED pagesVars
  <2> USE <1>7 DEF pagesVars
  <2>1. PagesTypeOK'
    BY DEF PagesIInv, PagesTypeOK
  <2>2. MarkedIsShown'
    BY AccountedKept, NoPageAssumption DEF PagesIInv, MarkedIsShown
  <2> QED
    BY <2>1, <2>2 DEF PagesIInv
<1> QED
  BY <1>1, <1>2, <1>3, <1>4, <1>5, <1>6, <1>7 DEF PagesNext

(* SessionPages: every reachable state is typed, holds finitely many rows  *)
(* and has markers that are true of the pages (consolidate, sweep).        *)
THEOREM PagesInductive == PagesSpec => []PagesIInv
BY PagesInitInv, PagesNextInv, PTL DEF PagesSpec

(* A refresh reads again each page whose row may differ from it in more    *)
(* than a date.                                                            *)
LEMMA RefreshFollows ==
  ASSUME PagesTypeOK
  PROVE  IndexShowsPages
<1> SUFFICES ASSUME NEW c \in Convs
             PROVE  LET r == Reindexed(page)[c] IN
                    /\ (page[c] = Absent) = (r = Absent)
                    /\ page[c] # Absent => r.body = page[c].body /\ r.pinned = page[c].pinned
  BY DEF IndexShowsPages
<1>1. CASE page[c] = Absent
  BY <1>1 DEF Reindexed
<1>2. CASE page[c] # Absent /\ Unchanged(page[c], index[c])
  BY <1>2 DEF Reindexed, Unchanged, Size
<1>3. CASE page[c] # Absent /\ ~ Unchanged(page[c], index[c])
  <2>1. Row(page[c]) \in IndexRows
    BY <1>3 DEF PagesTypeOK, Pages, Row, IndexRows
  <2> QED
    BY <1>3, <2>1, NoPageAssumption DEF Reindexed, Row
<1> QED
  BY <1>1, <1>2, <1>3

(* SessionPages: the markers are true of the pages and the index follows   *)
(* the disk, for any conversations, clock and mishaps.                     *)
THEOREM PagesAreTrue == PagesSpec => []SessionPagesInv
<1>1. PagesIInv => SessionPagesInv
  BY RefreshFollows DEF PagesIInv, SessionPagesInv
<1> QED
  BY <1>1, PagesInductive, PTL

(* A conversation the next pass would skip is one its marker has seen, so  *)
(* the invariant answers for all of its rows.                              *)
LEMMA NothingLeft ==
  ASSUME PagesIInv
  PROVE  PassLeavesNothing
<1> SUFFICES ASSUME NEW forced \in BOOLEAN, NEW c \in Heads \ skipped,
                    forced \/ Closed(c), Important(Own(c))
             PROVE  LET after == Regenerated(Todo(forced))[c] IN
                    \/ after # Absent /\ KeysOf(Own(c)) \subseteq after.body
                    \/ swept[c] # Absent /\ KeysOf(Own(c)) \subseteq swept[c].body
  BY DEF PassLeavesNothing
<1>1. c \in Convs
  BY DEF Heads
<1>2. CASE ~ Seen(c)
  <2>1. Regenerated(Todo(forced))[c] = Rendered(c)
    BY <1>1, <1>2 DEF Regenerated, Todo
  <2>2. Important(Shown(c))
    BY DEF Important, Shown
  <2> QED
    BY <1>1, <2>1, <2>2, RenderedType DEF PagesIInv
<1>3. CASE Seen(c)
  <2>1. Regenerated(Todo(forced))[c] = page[c]
    BY <1>1, <1>3 DEF Regenerated, Todo
  <2>2. Consolidated(c) = Own(c)
    <3>1. /\ marker[c] \in Markers /\ Mark(c) \in Markers
          /\ Newest(c) <= marker[c].id /\ \A r \in Own(c) : r.id <= Newest(c)
      BY <1>1, <1>3, MarkType DEF Seen, PagesIInv, PagesTypeOK
    <3>2. Newest(c) \in Nat /\ marker[c].id \in Nat /\ \A r \in Own(c) : r.id \in Nat
      BY <3>1 DEF Mark, Markers, Own, PagesIInv, PagesTypeOK
    <3> QED
      BY <3>1, <3>2 DEF Consolidated
  <2>3. Accounted(c)
    BY <1>1 DEF PagesIInv, MarkedIsShown
  <2> QED
    BY <1>3, <2>1, <2>2, <2>3 DEF Accounted, Seen
<1> QED
  BY <1>2, <1>3

(* SessionPages: whatever a pass or a sweep failed at, the next pass       *)
(* leaves no closed conversation without a page that shows all of it, but  *)
(* one whose page the sweep removed when it did (run_consolidate).         *)
THEOREM NothingIsLeft == PagesSpec => []PassLeavesNothing
BY NothingLeft, PagesInductive, PTL

-----------------------------------------------------------------------------
(* The ages of pages.                                                      *)
(*                                                                         *)
(* The invariant is RowsAreDated.  One lemma takes every action that only  *)
(* takes rows and pages, one the drain, one the passes.                    *)

(* What the rows of the table are made of. *)
LEMMA ObservedRow ==
  ASSUME PagesIInv, NEW r \in table
  PROVE  /\ r.id \in Nat /\ r.key \in DOMAIN observed
         /\ observed[r.key] \in Observations /\ At(r) \in Nat
<1>1. r.id \in Nat /\ r.key \in DOMAIN observed
  BY DEF PagesIInv, PagesTypeOK
<1>2. observed[r.key] \in Observations
  BY <1>1 DEF PagesIInv, PagesTypeOK
<1>3. At(r) \in Times
  BY <1>2 DEF At, Observations
<1>4. Times \subseteq Nat
  BY SessionPagesAssumption DEF Times
<1> QED
  BY <1>1, <1>2, <1>3, <1>4

(* The last instant and the highest number of a conversation with rows. *)
LEMMA LastOfOwn ==
  ASSUME PagesIInv, NEW c \in Convs, Own(c) # {}
  PROVE  /\ LastAt(c) \in Nat
         /\ \A r \in Own(c) : At(r) <= LastAt(c)
         /\ \E r \in Own(c) : At(r) = LastAt(c)
         /\ Newest(c) \in Nat
         /\ \A r \in Shown(c) : r.id <= Newest(c)
         /\ \E r \in Shown(c) : r.id = Newest(c)
<1>1. Own(c) \in SUBSET table /\ Attached(c) \in SUBSET table
  BY DEF Own, Attached, Unattached
<1>2. LastAt(c) \in {At(r) : r \in Own(c)} /\ \A t \in {At(r) : r \in Own(c)} : t <= LastAt(c)
  <2> DEFINE S == {At(r) : r \in Own(c)}
             at == [r \in Own(c) |-> At(r)]
  <2>1. S \in SUBSET Nat
    BY <1>1, ObservedRow
  <2>2. IsFiniteSet(Own(c))
    BY <1>1, FS_Subset DEF PagesIInv
  <2>3. at \in Surjection(Own(c), S)
    BY DEF Surjection
  <2>4. IsFiniteSet(S)
    BY <2>2, <2>3, FS_Surjection
  <2>5. S # {}
    OBVIOUS
  <2>6. LastAt(c) = Max(S)
    BY DEF LastAt
  <2> HIDE DEF S
  <2>7. LastAt(c) \in S /\ \A t \in S : t <= LastAt(c)
    BY <2>1, <2>4, <2>5, <2>6, MaxNat
  <2> QED
    BY <2>7 DEF S
<1>3. LastAt(c) \in Nat
  BY <1>1, <1>2, ObservedRow
<1> DEFINE A == IdsOf(Own(c))
           B == IdsOf(Attached(c))
<1>4. A \in SUBSET Nat /\ IsFiniteSet(A) /\ B \in SUBSET Nat /\ IsFiniteSet(B)
  BY <1>1, IdsType DEF PagesIInv
<1>5. A # {}
  BY DEF IdsOf
<1>6. LastId(c) = Max(A) /\ Newest(c) = Max({LastId(c)} \cup B)
  BY DEF LastId, Newest
<1>7. \A n : n \in A \cup B <=> \E r \in Shown(c) : n = r.id
  BY DEF IdsOf, Shown
<1> HIDE DEF A, B
<1>8. LastId(c) \in A /\ \A n \in A : n <= LastId(c)
  BY <1>4, <1>5, <1>6, MaxNat
<1>9. Newest(c) \in {LastId(c)} \cup B /\ \A n \in {LastId(c)} \cup B : n <= Newest(c)
  <2>1. IsFiniteSet({LastId(c)} \cup B) /\ {LastId(c)} \cup B \in SUBSET Nat
    BY <1>4, <1>8, FS_Singleton, FS_Union
  <2> QED
    BY <1>6, <2>1, MaxNat
<1>10. Newest(c) \in A \cup B /\ \A n \in A \cup B : n <= Newest(c)
  <2>1. LastId(c) \in Nat /\ Newest(c) \in Nat /\ LastId(c) <= Newest(c)
    BY <1>4, <1>8, <1>9
  <2>2. \A n \in A : n \in Nat /\ n <= LastId(c)
    BY <1>4, <1>8
  <2>3. \A n \in A : n <= Newest(c)
    <3> SUFFICES ASSUME NEW n \in A
                 PROVE  n <= Newest(c)
      OBVIOUS
    <3> QED
      BY <2>1, <2>2
  <2> QED
    BY <1>8, <1>9, <2>3
<1>11. Newest(c) \in Nat
  BY <1>4, <1>10
<1> QED
  BY <1>2, <1>3, <1>7, <1>10, <1>11

(* A page shows the rows of its conversation and the deliveries attached. *)
LEMMA RenderedShows ==
  ASSUME PagesIInv, NEW c \in Convs, Rendered(c) # Absent
  PROVE  Rendered(c).body = KeysOf(Shown(c))
<1>1. page[c] # Absent => page[c] \in Pages
  BY DEF PagesIInv, PagesTypeOK
<1> QED
  BY <1>1 DEF Rendered, Pages

(* No row is numbered above Top. *)
LEMMA TopAbove ==
  ASSUME PagesIInv, NEW r \in table
  PROVE  Top \in Nat /\ r.id <= Top
<1>1. IdsOf(table) \in SUBSET Nat /\ IsFiniteSet(IdsOf(table)) /\ r.id \in IdsOf(table)
  BY IdsType DEF PagesIInv, IdsOf
<1>2. Max(IdsOf(table)) \in IdsOf(table) /\ \A n \in IdsOf(table) : n <= Max(IdsOf(table))
  BY <1>1, MaxNat
<1> QED
  BY <1>1, <1>2 DEF Top

LEMMA CutoffType ==
  ASSUME PagesIInv
  PROVE  now \in Nat /\ Cutoff \in Nat /\ Cutoff >= now - Ttl /\ (Cutoff = 0 \/ Cutoff = now - Ttl)
<1>1. now \in Nat /\ Ttl \in Nat
  BY SessionPagesAssumption DEF PagesIInv, PagesTypeOK, Times
<1> QED
  BY <1>1 DEF Cutoff

-----------------------------------------------------------------------------
(* What only takes rows and pages. *)

RowsGo ==
  /\ table' \subseteq table
  /\ \A d \in Convs : Own(d) \subseteq table' \/ Own(d) \cap table' = {}
  /\ Unattached \subseteq table' \/ table' = {}
  /\ \A k \in DOMAIN observed : k \in DOMAIN observed' /\ observed'[k] = observed[k]
  /\ \A k \in DOMAIN observed \ spool : k \notin spool'
  /\ now' >= now
  /\ UNCHANGED <<marker, skipped>>

PageKept(c) ==
  /\ page'[c] = Absent <=> page[c] = Absent
  /\ page[c] # Absent => page'[c].body = page[c].body
  /\ swept'[c] = swept[c]

PageSwept(c) ==
  /\ page[c] # Absent /\ page'[c] = Absent
  /\ swept'[c] = [body |-> page[c].body, told |-> Told(c)]

(* The dates stay true when rows go, a conversation's all at once. *)
LEMMA RowsGoDated ==
  ASSUME PagesIInv, PagesIInv', RowsAreDated, RowsGo,
         \A c \in Convs : PageKept(c) \/ PageSwept(c)
  PROVE  RowsAreDated'
<1>0. /\ table' \subseteq table /\ marker' = marker /\ skipped' = skipped
      /\ \A r \in table : r.key \in DOMAIN observed \ spool
  BY ObservedRow DEF RowsGo, RowsAreDated
<1>1. \A r \in table' : r.key \notin spool'
  BY <1>0 DEF RowsGo
<1>2. \A r \in table : observed'[r.key] = observed[r.key]
  BY <1>0 DEF RowsGo
<1>3. Cutoff <= Cutoff' /\ Cutoff \in Nat /\ Cutoff' \in Nat
  <2>1. now \in Nat /\ now' \in Nat /\ Ttl \in Nat /\ now' >= now
    BY SessionPagesAssumption DEF PagesIInv, PagesTypeOK, Times, RowsGo
  <2>2. /\ Cutoff = IF now < Ttl THEN 0 ELSE now - Ttl
        /\ Cutoff' = IF now' < Ttl THEN 0 ELSE now' - Ttl
    BY DEF Cutoff
  <2>3. \A m, n, t \in Nat : n >= m =>
          /\ (IF m < t THEN 0 ELSE m - t) \in Nat /\ (IF n < t THEN 0 ELSE n - t) \in Nat
          /\ (IF m < t THEN 0 ELSE m - t) <= (IF n < t THEN 0 ELSE n - t)
    OBVIOUS
  <2> QED
    BY <2>1, <2>2, <2>3
<1>4. SUFFICES ASSUME NEW c \in Convs
               PROVE  (ShowsDrained(c) /\ ShownFirst(c) /\ MarkerDates(c) /\ SweptIsOver(c))'
  BY <1>1 DEF RowsAreDated
<1>5. ShowsDrained(c) /\ ShownFirst(c) /\ MarkerDates(c) /\ SweptIsOver(c)
  BY DEF RowsAreDated
<1>6. ShownKeys(c)' = ShownKeys(c)
  <2>1. CASE PageKept(c)
    BY <2>1 DEF PageKept, ShownKeys
  <2>2. CASE PageSwept(c)
    <3>1. page[c] \in Pages
      BY <2>2 DEF PageSwept, PagesIInv, PagesTypeOK
    <3>2. swept'[c] \in [body : SUBSET Positions, told : BOOLEAN]
      BY <2>2, <3>1 DEF PageSwept, Told, Pages
    <3> QED
      BY <2>2, <3>2, NoPageAssumption DEF PageSwept, ShownKeys
  <2> QED
    BY <2>1, <2>2
<1>7. \A r : r \in ShownRows(c)' <=> r \in ShownRows(c) /\ r \in table'
  BY <1>0, <1>6 DEF ShownRows
<1>8. \A r : r \in Own(c)' <=> r \in Own(c) /\ r \in table'
  BY <1>0, <1>2 DEF Own
<1>9. \A r \in table : At(r)' = At(r)
  BY <1>2 DEF At
<1>10. ShowsDrained(c)'
  BY <1>5, <1>6 DEF ShowsDrained, RowsGo
<1>11. ShownFirst(c)'
  BY <1>5, <1>6, <1>7, <1>8 DEF ShownFirst
<1>12. MarkerDates(c)'
  <2>1. SUFFICES ASSUME marker[c] # Absent
                 PROVE  /\ c \notin skipped => \A r \in Consolidated(c)' : At(r)' <= marker[c].at
                        /\ \/ \E r \in ShownRows(c)' : r.id > marker[c].id
                           \/ \A r \in Own(c)' \cap ShownRows(c)' : At(r)' <= marker[c].at
    BY <1>0 DEF MarkerDates
  <2>2. \A r \in Consolidated(c)' : r \in Consolidated(c) /\ r \in table
    BY <1>0, <1>8 DEF Consolidated
  <2>3. c \notin skipped => \A r \in Consolidated(c)' : At(r)' <= marker[c].at
    BY <1>5, <1>9, <2>1, <2>2 DEF MarkerDates
  <2>4. CASE \A r \in Own(c) \cap ShownRows(c) : At(r) <= marker[c].at
    BY <1>0, <1>7, <1>8, <1>9, <2>3, <2>4
  <2>5. CASE \E r \in ShownRows(c) : r.id > marker[c].id
    <3>1. PICK w \in ShownRows(c) : w.id > marker[c].id
      BY <2>5
    <3>2. CASE w \in table'
      BY <1>7, <2>3, <3>1, <3>2
    <3>3. CASE w \notin table'
      <4>1. w \in table /\ observed[w.key].conv \in {c, Absent}
        BY <1>5, <3>1 DEF ShownRows, ShowsDrained
      <4>2. CASE observed[w.key].conv = c
        <5>1. w \in Own(c)
          BY <4>1, <4>2 DEF Own
        <5>2. Own(c) \cap table' = {}
          BY <3>3, <5>1 DEF RowsGo
        <5> QED
          BY <1>8, <2>3, <5>2
      <4>3. CASE observed[w.key].conv = Absent
        <5>1. w \in Unattached
          BY <4>1, <4>3 DEF Unattached
        <5>2. table' = {}
          BY <3>3, <5>1 DEF RowsGo
        <5> QED
          BY <1>8, <2>3, <5>2
      <4> QED
        BY <4>1, <4>2, <4>3
    <3> QED
      BY <3>2, <3>3
  <2> QED
    BY <1>5, <2>1, <2>4, <2>5 DEF MarkerDates
<1>13. SweptIsOver(c)'
  <2>1. CASE PageKept(c)
    <3>1. swept'[c] = swept[c] /\ (page'[c] = Absent <=> page[c] = Absent)
      BY <2>1 DEF PageKept
    <3>2. SUFFICES ASSUME swept[c] # Absent, swept[c].told
                   PROVE  IF marker[c] # Absent
                          THEN \A r \in ShownRows(c)' : r.id <= marker[c].id
                          ELSE \A r \in Own(c)' \cap ShownRows(c)' : At(r)' < Cutoff'
      BY <1>0, <1>5, <3>1 DEF SweptIsOver
    <3>3. CASE marker[c] # Absent
      BY <1>5, <1>7, <3>2, <3>3 DEF SweptIsOver
    <3>4. CASE marker[c] = Absent
      <4>1. \A r \in Own(c)' \cap ShownRows(c)' :
              /\ At(r)' = At(r) /\ At(r) < Cutoff /\ At(r) \in Nat
        BY <1>0, <1>5, <1>7, <1>8, <1>9, <3>2, <3>4, ObservedRow DEF SweptIsOver
      <4> QED
        BY <1>3, <3>4, <4>1
    <3> QED
      BY <3>3, <3>4
  <2>2. CASE PageSwept(c)
    <3>1. page'[c] = Absent /\ swept'[c].told = Told(c)
      BY <2>2 DEF PageSwept
    <3>2. SUFFICES ASSUME Told(c)
                   PROVE  marker[c] # Absent /\ \A r \in ShownRows(c)' : r.id <= marker[c].id
      BY <1>0, <3>1 DEF SweptIsOver
    <3>3. ShownKeys(c) = page[c].body
      BY <2>2 DEF PageSwept, ShownKeys
    <3> QED
      BY <1>7, <3>2, <3>3 DEF Told, ShownRows
  <2> QED
    BY <2>1, <2>2
<1> QED
  BY <1>10, <1>11, <1>12, <1>13

(* Everything but the drain and the passes is of that kind. *)
LEMMA OthersTake ==
  ASSUME PagesIInv,
         \/ \E o \in Observations : o.at = now /\ Capture(o)
         \/ Sweep
         \/ \E d \in Tended : Patch(d)
         \/ Refresh \/ Clean \/ Tick
         \/ UNCHANGED pagesVars
  PROVE  RowsGo /\ \A c \in Convs : PageKept(c) \/ (Sweep /\ PageSwept(c))
<1>0. page \in [Convs -> Pages \cup {Absent}] /\ now \in Nat
  BY SessionPagesAssumption DEF PagesIInv, PagesTypeOK, Times
<1>a. \A d \in Convs : Own(d) \subseteq table
  BY DEF Own
<1>b. Unattached \subseteq table
  BY DEF Unattached
<1>1. ASSUME NEW o \in Observations, Capture(o)
      PROVE  RowsGo /\ \A c \in Convs : PageKept(c)
  <2>1. \A k \in DOMAIN observed : k \in DOMAIN observed' /\ observed'[k] = observed[k]
    BY <1>1 DEF Capture, PagesIInv, PagesTypeOK
  <2>2. Len(observed) + 1 \notin DOMAIN observed
    BY DEF PagesIInv, PagesTypeOK
  <2>3. \A k \in DOMAIN observed \ spool : k \notin spool'
    BY <1>1, <2>2 DEF Capture
  <2> QED
    BY <1>0, <1>1, <1>a, <1>b, <2>1, <2>3 DEF Capture, RowsGo, PageKept
<1>2. ASSUME Sweep
      PROVE  RowsGo /\ \A c \in Convs : PageKept(c) \/ PageSwept(c)
  <2> DEFINE P(gone) == [c \in Convs |-> IF c \in gone THEN Absent ELSE page[c]]
  <2>1. PICK gone \in SUBSET {c \in Convs : Expired(c)} :
          /\ table' = table \ Outdated
          /\ marker' = KeptMarkers(gone)
          /\ IndexNow(P(gone)) \/ IndexLater(P(gone))
          /\ swept' = [c \in Convs |->
                         IF c \in gone THEN [body |-> page[c].body, told |-> Told(c)]
                         ELSE swept[c]]
          /\ UNCHANGED <<now, observed, spool, exists, skipped>>
    BY <1>2 DEF Sweep
  <2>2. P(gone) \in [Convs -> Pages \cup {Absent}]
    BY <1>0
  <2> DEFINE Q == P(gone)
  <2>3. \A c \in Convs : Q[c] = IF c \in gone THEN Absent ELSE page[c]
    OBVIOUS
  <2> HIDE DEF Q
  <2>4. \A c \in Convs :
          /\ page'[c] = Absent <=> Q[c] = Absent
          /\ Q[c] # Absent => page'[c].body = Q[c].body
    BY <2>1, <2>2, IndexType DEF PagesIInv, Q
  <2>5. \A c \in Convs : PageKept(c) \/ PageSwept(c)
    <3> SUFFICES ASSUME NEW c \in Convs
                 PROVE  PageKept(c) \/ PageSwept(c)
      OBVIOUS
    <3>1. CASE c \in gone
      BY <2>1, <2>3, <2>4, <3>1 DEF Expired, PageSwept
    <3>2. CASE c \notin gone
      BY <2>1, <2>3, <2>4, <3>2 DEF PageKept
    <3> QED
      BY <3>1, <3>2
  <2>6. \A d \in Convs : Own(d) \subseteq table' \/ Own(d) \cap table' = {}
    <3> SUFFICES ASSUME NEW d \in Convs
                 PROVE  Own(d) \subseteq table' \/ Own(d) \cap table' = {}
      OBVIOUS
    <3>1. \A e \in Convs, r \in Own(d) : r \in Own(e) => e = d
      BY DEF Own
    <3>2. CASE \E r \in Own(d) : r \in Outdated
      <4>1. Own(d) \subseteq Outdated
        BY <3>1, <3>2 DEF Outdated
      <4> QED
        BY <2>1, <4>1
    <3>3. CASE ~ \E r \in Own(d) : r \in Outdated
      BY <1>a, <2>1, <3>3
    <3> QED
      BY <3>2, <3>3
  <2>7. Unattached \subseteq table'
    <3>1. Absent \notin Convs
      BY SessionPagesAssumption DEF Convs
    <3>2. \A r \in Unattached : r \notin Outdated
      BY <3>1 DEF Unattached, Outdated, Own
    <3> QED
      BY <1>b, <2>1, <3>2
  <2> QED
    BY <1>0, <2>1, <2>5, <2>6, <2>7 DEF RowsGo, KeptMarkers
<1>3. ASSUME NEW d \in Tended, Patch(d)
      PROVE  RowsGo /\ \A c \in Convs : PageKept(c)
  <2> DEFINE P(pinned, expires) == [page EXCEPT ![d] = Patched(d, pinned, expires)]
  <2>1. /\ page[d] # Absent
        /\ UNCHANGED <<now, observed, spool, table, marker, swept, skipped>>
    BY <1>3 DEF Patch
  <2>2. PICK pinned \in BOOLEAN, expires \in Dates :
          \/ IndexNow(P(pinned, expires))
          \/ page' = [P(pinned, expires) EXCEPT ![d].mtime = now, ![d].touched = TRUE]
    BY <1>3 DEF Patch
  <2>3. d \in Convs /\ page[d] \in Pages /\ now \in Times
    BY <2>1, SessionPagesAssumption DEF Convs, PagesIInv, PagesTypeOK
  <2>4. expires \in Times \cup {Absent}
    BY SessionPagesAssumption DEF Times
  <2>5. /\ Patched(d, pinned, expires) \in Pages
        /\ Patched(d, pinned, expires).body = page[d].body
    BY <2>3, <2>4 DEF Patched, Pages
  <2> DEFINE Q == P(pinned, expires)
  <2>6. Q \in [Convs -> Pages \cup {Absent}] /\ Q[d] \in Pages /\ Q[d].body = page[d].body
        /\ \A c \in Convs \ {d} : Q[c] = page[c]
    BY <1>0, <2>3, <2>5
  <2>7. \A c \in Convs :
          /\ page'[c] = Absent <=> Q[c] = Absent
          /\ Q[c] # Absent => page'[c].body = Q[c].body
    <3> HIDE DEF Q
    <3>1. CASE IndexNow(Q)
      BY <2>6, <3>1, IndexType DEF PagesIInv
    <3>2. CASE page' = [Q EXCEPT ![d].mtime = now, ![d].touched = TRUE]
      <4> DEFINE p == [Q[d] EXCEPT !.mtime = now, !.touched = TRUE]
      <4>1. p \in Pages /\ p.body = Q[d].body
        BY <2>3, <2>6 DEF Pages
      <4>2. page' = [Q EXCEPT ![d] = p]
        BY <2>3, <2>6, <3>2
      <4> HIDE DEF p
      <4> QED
        BY <2>3, <2>6, <4>1, <4>2, NoPageAssumption
    <3> QED
      BY <2>2, <3>1, <3>2 DEF Q
  <2> HIDE DEF Q
  <2>8. \A c \in Convs : PageKept(c)
    BY <2>1, <2>3, <2>6, <2>7, NoPageAssumption DEF PageKept
  <2> QED
    BY <1>0, <1>a, <1>b, <2>1, <2>8 DEF RowsGo
<1>4. ASSUME Refresh
      PROVE  RowsGo /\ \A c \in Convs : PageKept(c)
  <2>1. \A c \in Convs :
          /\ page'[c] = Absent <=> page[c] = Absent
          /\ page[c] # Absent => page'[c].body = page[c].body
    BY <1>0, <1>4, IndexType DEF Refresh, PagesIInv
  <2> QED
    BY <1>0, <1>4, <1>a, <1>b, <2>1 DEF Refresh, RowsGo, PageKept
<1>5. ASSUME Clean
      PROVE  RowsGo /\ \A c \in Convs : PageKept(c)
  BY <1>0, <1>5 DEF Clean, RowsGo, PageKept
<1>6. ASSUME Tick \/ UNCHANGED pagesVars
      PROVE  RowsGo /\ \A c \in Convs : PageKept(c)
  BY <1>0, <1>6, <1>a, <1>b DEF Tick, pagesVars, RowsGo, PageKept
<1> QED
  BY <1>1, <1>2, <1>3, <1>4, <1>5, <1>6

-----------------------------------------------------------------------------
(* The drain: its rows are on no page, and numbered above all others. *)
LEMMA DrainDated ==
  ASSUME PagesIInv, RowsAreDated, NEW d \in Convs \cup {Absent}, Drain(d)
  PROVE  RowsAreDated'
<1> DEFINE keys == {k \in spool : observed[k].conv = d}
           number(k) == Top + Cardinality({j \in keys : j <= k})
           new  == {[id |-> number(k), key |-> k] : k \in keys}
<1>1. /\ spool' = spool \ keys
      /\ table' = table \cup new
      /\ skipped' = skipped \cup
           {c \in Convs \cap {d} : marker[c] # Absent /\ \E r \in new : r.id <= marker[c].id}
      /\ UNCHANGED <<now, observed, page, marker, swept>>
  BY DEF Drain
<1>2. keys \subseteq DOMAIN observed /\ IsFiniteSet(keys)
  <2>1. DOMAIN observed = 1 .. Len(observed) /\ Len(observed) \in Nat
    BY DEF PagesIInv, PagesTypeOK
  <2>2. IsFiniteSet(DOMAIN observed)
    BY <2>1, FS_Interval
  <2>3. keys \subseteq DOMAIN observed
    BY DEF PagesIInv, PagesTypeOK
  <2> QED
    BY <2>2, <2>3, FS_Subset
<1>3. Top \in Nat /\ \A k \in keys : number(k) \in Nat /\ number(k) > Top
  <2>0. Top \in Nat
    BY TopType DEF PagesIInv
  <2> SUFFICES ASSUME NEW k \in keys
               PROVE  number(k) \in Nat /\ number(k) > Top
    BY <2>0
  <2> DEFINE upTo == {j \in keys : j <= k}
  <2>1. upTo \subseteq keys /\ k \in upTo
    BY <1>2 DEF PagesIInv, PagesTypeOK
  <2>2. Cardinality(upTo) \in Nat /\ Cardinality(upTo) # 0
    <3> HIDE DEF keys, upTo
    <3> QED
      BY <1>2, <2>1, FS_Subset, FS_CardinalityType, FS_EmptySet
  <2> QED
    BY <2>0, <2>2
<1>4. \A r \in new : r.key \in keys /\ r.id \in Nat /\ r.id > Top
  <2> HIDE DEF keys, number
  <2> QED
    BY <1>3
<1>5. \A k \in keys : k \in spool /\ observed[k].conv = d
  OBVIOUS
<1> HIDE DEF new, number, keys
<1>6. \A r \in table' : r.key \notin spool'
  BY <1>1, <1>4 DEF RowsAreDated
<1>7. SUFFICES ASSUME NEW c \in Convs
               PROVE  (ShowsDrained(c) /\ ShownFirst(c) /\ MarkerDates(c) /\ SweptIsOver(c))'
  BY <1>6 DEF RowsAreDated
<1>8. ShowsDrained(c) /\ ShownFirst(c) /\ MarkerDates(c) /\ SweptIsOver(c)
  BY DEF RowsAreDated
<1>9. ShownKeys(c)' = ShownKeys(c)
  BY <1>1 DEF ShownKeys
<1>10. ShownRows(c)' = ShownRows(c)
  BY <1>1, <1>4, <1>5, <1>8, <1>9 DEF ShownRows, ShowsDrained
<1>11. \A r : At(r)' = At(r)
  BY <1>1 DEF At
<1>12. \A r : r \in Own(c)' <=> r \in Own(c) \/ (r \in new /\ c = d)
  BY <1>1, <1>4, <1>5 DEF Own
<1>13. ShowsDrained(c)'
  BY <1>1, <1>8, <1>9 DEF ShowsDrained
<1>14. ShownFirst(c)'
  <2>1. \A r \in ShownRows(c) : r.id \in Nat /\ r.id <= Top
    BY ObservedRow, TopAbove DEF ShownRows
  <2>2. \A r \in ShownRows(c), own \in new : r.id < own.id
    BY <1>3, <1>4, <2>1
  <2> QED
    BY <1>8, <1>9, <1>10, <1>12, <2>2 DEF ShownFirst
<1>15. \A r \in Own(c)' \cap ShownRows(c)' : r \in Own(c) \cap ShownRows(c)
  BY <1>4, <1>5, <1>8, <1>10, <1>12 DEF ShownRows, ShowsDrained
<1>16. MarkerDates(c)'
  <2>1. SUFFICES ASSUME marker[c] # Absent
                 PROVE  /\ c \notin skipped' => \A r \in Consolidated(c)' : At(r) <= marker[c].at
                        /\ \/ \E r \in ShownRows(c) : r.id > marker[c].id
                           \/ \A r \in Own(c)' \cap ShownRows(c)' : At(r) <= marker[c].at
    BY <1>1, <1>10, <1>11 DEF MarkerDates
  <2>2. ASSUME c \notin skipped'
        PROVE  c \notin skipped /\ \A r \in Consolidated(c)' : r \in Consolidated(c)
    <3>1. c \notin skipped /\ (c = d => \A r \in new : ~ (r.id <= marker[c].id))
      BY <1>1, <2>1, <2>2
    <3> QED
      BY <1>1, <1>12, <3>1 DEF Consolidated
  <2> QED
    BY <1>8, <1>15, <2>1, <2>2 DEF MarkerDates
<1>17. SweptIsOver(c)'
  <2>1. Cutoff' = Cutoff
    BY <1>1 DEF Cutoff
  <2> QED
    BY <1>1, <1>8, <1>10, <1>11, <1>15, <2>1 DEF SweptIsOver
<1> QED
  BY <1>13, <1>14, <1>16, <1>17

-----------------------------------------------------------------------------
(* The passes. *)

Regenerates(done) ==
  /\ done \in SUBSET Heads /\ \A c \in done : ~ Seen(c)
  /\ UNCHANGED <<now, observed, spool, table, skipped>>
  /\ \A c \in Convs :
       /\ page'[c] = Absent <=> Regenerated(done)[c] = Absent
       /\ Regenerated(done)[c] # Absent => page'[c].body = Regenerated(done)[c].body
  /\ swept' = Returned(Regenerated(done))
  /\ \A c \in done : marker'[c] \in {Mark(c), marker[c]}
  /\ \A c \in Convs \ done :
       \/ marker'[c] = marker[c]
       \/ marker[c] # Absent /\ marker'[c] = Absent /\ marker[c].at < Cutoff

(* A pass regenerates some pages, whole or not. *)
LEMMA PassesRegenerate ==
  ASSUME PagesIInv, NEW forced \in BOOLEAN, Pass(forced) \/ BrokenPass(forced)
  PROVE  \E done \in SUBSET Heads : Regenerates(done)
<1>0. Heads \subseteq Convs
  BY DEF Heads
<1>1. CASE Pass(forced)
  <2> DEFINE done == Todo(forced)
             P == Regenerated(done)
  <2>1. done \in SUBSET Heads /\ done \in SUBSET Convs /\ \A c \in done : ~ Seen(c)
    BY <1>0 DEF Todo
  <2>2. P \in [Convs -> Pages \cup {Absent}]
    BY <2>1, RegeneratedType DEF PagesIInv
  <2>3. /\ marker' = Pruned(Marked(done))
        /\ swept' = Returned(P)
        /\ IndexNow(P) \/ IndexLater(P)
        /\ UNCHANGED <<now, observed, spool, table, skipped>>
    BY <1>1 DEF Pass
  <2> HIDE DEF done
  <2>4. /\ \A c \in Convs \ done : Marked(done)[c] = marker[c]
        /\ \A c \in done : Marked(done)[c] = Mark(c) /\ Mark(c).at >= Cutoff
    BY <1>0, <2>1 DEF Marked, Mark, Heads
  <2>5. \A c \in done : marker'[c] = Mark(c)
    <3> SUFFICES ASSUME NEW c \in done
                 PROVE  marker'[c] = Mark(c)
      OBVIOUS
    <3>1. Mark(c) \in Markers /\ Own(c) # {} /\ c \in Convs
      BY <1>0, <2>1, MarkType DEF Heads, PagesIInv
    <3>2. LastAt(c) \in Nat /\ Cutoff \in Nat /\ Mark(c).at = LastAt(c)
      BY <3>1, LastOfOwn, CutoffType DEF Mark
    <3>3. ~ (Mark(c).at < Cutoff)
      BY <2>4, <3>2
    <3> QED
      BY <2>3, <2>4, <3>1, <3>3 DEF Pruned
  <2>6. \A c \in Convs \ done :
          \/ marker'[c] = marker[c]
          \/ marker[c] # Absent /\ marker'[c] = Absent /\ marker[c].at < Cutoff
    BY <2>3, <2>4 DEF Pruned
  <2> HIDE DEF P
  <2>7. \A c \in Convs :
          /\ page'[c] = Absent <=> P[c] = Absent
          /\ P[c] # Absent => page'[c].body = P[c].body
    BY <2>2, <2>3, IndexType DEF PagesIInv
  <2>8. Regenerates(done)
    BY <2>1, <2>3, <2>5, <2>6, <2>7 DEF Regenerates, P
  <2> QED
    BY <2>1, <2>8
<1>2. CASE BrokenPass(forced)
  <2>1. PICK last \in 0 .. ConvCount :
          LET done == {c \in Todo(forced) : c <= last} IN
          /\ marker' \in {Marked(done)} \cup {marker}
          /\ page' = Regenerated(done)
          /\ swept' = Returned(Regenerated(done))
    BY <1>2 DEF BrokenPass
  <2> DEFINE done == {c \in Todo(forced) : c <= last}
  <2>2. done \in SUBSET Heads /\ \A c \in done : ~ Seen(c)
    BY DEF Todo
  <2>3. marker' \in {Marked(done), marker} /\ page' = Regenerated(done)
        /\ swept' = Returned(Regenerated(done))
    BY <2>1
  <2>4. UNCHANGED <<now, observed, spool, table, skipped>>
    BY <1>2 DEF BrokenPass
  <2> HIDE DEF done
  <2>5. /\ \A c \in Convs \ done : Marked(done)[c] = marker[c]
        /\ \A c \in done : Marked(done)[c] = Mark(c)
    BY <1>0, <2>2 DEF Marked
  <2>6. Regenerates(done)
    BY <2>2, <2>3, <2>4, <2>5 DEF Regenerates
  <2> QED
    BY <2>2, <2>6
<1> QED
  BY <1>1, <1>2

(* A conversation the pass did not come to. *)
LEMMA UntouchedDated ==
  ASSUME PagesIInv, RowsAreDated, NEW done, Regenerates(done), NEW c \in Convs \ done
  PROVE  (ShowsDrained(c) /\ ShownFirst(c) /\ MarkerDates(c) /\ SweptIsOver(c))'
<1>1. ShowsDrained(c) /\ ShownFirst(c) /\ MarkerDates(c) /\ SweptIsOver(c)
  BY DEF RowsAreDated
<1>2. UNCHANGED <<now, observed, spool, table, skipped>>
  BY DEF Regenerates
<1>3. Regenerated(done)[c] = page[c]
  BY DEF Regenerated
<1>4. /\ page'[c] = Absent <=> page[c] = Absent
      /\ page[c] # Absent => page'[c].body = page[c].body
  BY <1>3 DEF Regenerates
<1>5. swept'[c] = swept[c]
  BY <1>1, <1>3 DEF Regenerates, Returned, SweptIsOver
<1>6. ShownKeys(c)' = ShownKeys(c)
  BY <1>4, <1>5 DEF ShownKeys
<1>7. ShownRows(c)' = ShownRows(c)
  BY <1>2, <1>6 DEF ShownRows
<1>8. Own(c)' = Own(c) /\ Cutoff' = Cutoff /\ \A r : At(r)' = At(r)
  BY <1>2 DEF Own, Cutoff, At
<1>9. ShowsDrained(c)' /\ ShownFirst(c)'
  BY <1>1, <1>2, <1>6, <1>7, <1>8 DEF ShowsDrained, ShownFirst
<1>10. CASE marker'[c] = marker[c]
  <2>1. Consolidated(c)' = Consolidated(c)
    BY <1>8, <1>10 DEF Consolidated
  <2>2. MarkerDates(c)'
    BY <1>1, <1>2, <1>7, <1>8, <1>10, <2>1 DEF MarkerDates
  <2>3. SweptIsOver(c)'
    BY <1>1, <1>4, <1>5, <1>7, <1>8, <1>10 DEF SweptIsOver
  <2> QED
    BY <1>9, <2>2, <2>3
<1>11. CASE marker[c] # Absent /\ marker'[c] = Absent /\ marker[c].at < Cutoff
  <2>1. MarkerDates(c)'
    BY <1>11 DEF MarkerDates
  <2>2. SUFFICES ASSUME swept[c] # Absent, swept[c].told, NEW r \in Own(c) \cap ShownRows(c)
                 PROVE  At(r) < Cutoff
    BY <1>1, <1>4, <1>5, <1>7, <1>8, <1>9, <1>11, <2>1 DEF SweptIsOver
  <2>3. \A x \in ShownRows(c) : x.id <= marker[c].id
    BY <1>1, <1>11, <2>2 DEF SweptIsOver
  <2>4. marker[c].id \in Nat /\ marker[c].at \in Nat /\ Cutoff \in Nat
    BY <1>11, CutoffType, SessionPagesAssumption DEF PagesIInv, PagesTypeOK, Markers, Times
  <2>5. \A x \in ShownRows(c) : x.id \in Nat
    BY ObservedRow DEF ShownRows
  <2>6. At(r) <= marker[c].at /\ At(r) \in Nat
    BY <1>1, <1>11, <2>3, <2>4, <2>5, ObservedRow DEF MarkerDates, ShownRows
  <2> QED
    BY <1>11, <2>4, <2>6
<1> QED
  BY <1>10, <1>11 DEF Regenerates

(* A conversation whose page was regenerated. *)
LEMMA RegeneratedDated ==
  ASSUME PagesIInv, RowsAreDated, NEW done, Regenerates(done), NEW c \in done
  PROVE  (ShowsDrained(c) /\ ShownFirst(c) /\ MarkerDates(c) /\ SweptIsOver(c))'
<1>0. c \in Convs /\ c \in Heads /\ Own(c) # {} /\ LastAt(c) >= Cutoff /\ ~ Seen(c)
  BY DEF Regenerates, Heads
<1>1. ShowsDrained(c) /\ ShownFirst(c) /\ MarkerDates(c) /\ SweptIsOver(c)
  BY <1>0 DEF RowsAreDated
<1>2. UNCHANGED <<now, observed, spool, table, skipped>> /\ marker'[c] \in {Mark(c), marker[c]}
  BY DEF Regenerates
<1>3. Regenerated(done)[c] = Rendered(c)
  BY <1>0 DEF Regenerated
<1>4. /\ page'[c] = Absent <=> Rendered(c) = Absent
      /\ Rendered(c) # Absent => page'[c].body = KeysOf(Shown(c))
  BY <1>0, <1>3, RenderedShows DEF Regenerates
<1>5. swept'[c] = IF Rendered(c) # Absent THEN Absent ELSE swept[c]
  BY <1>0, <1>3 DEF Regenerates, Returned
<1>6. Own(c)' = Own(c) /\ Cutoff' = Cutoff /\ \A r : At(r)' = At(r)
  BY <1>2 DEF Own, Cutoff, At
<1>7. /\ LastAt(c) \in Nat /\ Newest(c) \in Nat /\ Mark(c) = [id |-> Newest(c), at |-> LastAt(c)]
      /\ \A r \in Own(c) : At(r) <= LastAt(c)
      /\ \A r \in Shown(c) : r.id <= Newest(c)
  BY <1>0, LastOfOwn DEF Mark
<1>8. Mark(c) # Absent
  BY <1>0, MarkType, NoPageAssumption DEF PagesIInv
<1>9. marker[c] # Absent => marker[c].id \in Nat /\ Newest(c) > marker[c].id
  <2>1. marker[c] # Absent => marker[c].id \in Nat
    BY <1>0 DEF PagesIInv, PagesTypeOK, Markers
  <2> QED
    BY <1>0, <1>7, <2>1 DEF Seen
<1>10. Own(c) \subseteq Shown(c) /\ Shown(c) \subseteq table /\ Own(c) \subseteq table
  BY DEF Shown, Attached, Unattached, Own
(* What the marker counts is dated, whatever the page is now. *)
<1>11. marker'[c] # Absent /\ c \notin skipped =>
         \A r \in Consolidated(c)' : At(r)' <= marker'[c].at
  <2>1. CASE marker'[c] = Mark(c)
    BY <1>6, <1>7, <2>1 DEF Consolidated
  <2>2. CASE marker'[c] = marker[c]
    BY <1>1, <1>6, <2>2 DEF Consolidated, MarkerDates
  <2> QED
    BY <1>2, <2>1, <2>2
<1>12. marker'[c] = Mark(c) => \A r \in Own(c)' : At(r)' <= marker'[c].at
  BY <1>6, <1>7
<1>13. CASE Rendered(c) # Absent
  <2>1. ShownKeys(c)' = KeysOf(Shown(c)) /\ swept'[c] = Absent
    BY <1>4, <1>5, <1>13 DEF ShownKeys
  <2>2. ShowsDrained(c)'
    <3>1. \A r \in Shown(c) : observed[r.key].conv \in {c, Absent} /\ r \in table
      BY <1>10 DEF Shown, Own, Attached, Unattached
    <3>2. \A k \in KeysOf(Shown(c)) :
            k \in DOMAIN observed /\ k \notin spool /\ observed[k].conv \in {c, Absent}
      BY <3>1, ObservedRow DEF KeysOf, RowsAreDated
    <3> QED
      BY <1>2, <2>1, <3>2 DEF ShowsDrained
  <2>3. ShownFirst(c)'
    BY <1>6, <1>10, <2>1 DEF ShownFirst, KeysOf
  <2>4. MarkerDates(c)'
    <3>1. CASE marker'[c] = Mark(c)
      BY <1>2, <1>11, <1>12, <3>1 DEF MarkerDates
    <3>2. CASE marker'[c] = marker[c] /\ marker[c] # Absent
      <4>1. PICK w \in Shown(c) : w.id = Newest(c)
        BY <1>0, LastOfOwn
      <4>2. w \in ShownRows(c)'
        BY <1>2, <1>10, <2>1 DEF ShownRows, KeysOf
      <4> QED
        BY <1>2, <1>9, <1>11, <3>2, <4>1, <4>2 DEF MarkerDates
    <3>3. CASE marker'[c] = Absent
      BY <3>3 DEF MarkerDates
    <3> QED
      BY <1>2, <3>1, <3>2, <3>3
  <2>5. SweptIsOver(c)'
    BY <2>1 DEF SweptIsOver
  <2> QED
    BY <2>2, <2>3, <2>4, <2>5
<1>14. CASE Rendered(c) = Absent /\ page[c] # Absent
  <2>1. ShownKeys(c)' = {} /\ swept'[c] = Absent
    BY <1>1, <1>4, <1>5, <1>14 DEF ShownKeys, SweptIsOver
  <2>2. ShownRows(c)' = {}
    BY <2>1 DEF ShownRows
  <2> QED
    BY <1>2, <1>11, <2>1, <2>2 DEF ShowsDrained, ShownFirst, MarkerDates, SweptIsOver
<1>15. CASE Rendered(c) = Absent /\ page[c] = Absent
  <2>1. page'[c] = Absent /\ swept'[c] = swept[c]
    BY <1>4, <1>5, <1>15
  <2>2. ShownKeys(c)' = ShownKeys(c)
    BY <1>15, <2>1 DEF ShownKeys
  <2>3. ShownRows(c)' = ShownRows(c)
    BY <1>2, <2>2 DEF ShownRows
  <2>4. ShowsDrained(c)' /\ ShownFirst(c)'
    BY <1>1, <1>2, <1>6, <2>2, <2>3 DEF ShowsDrained, ShownFirst
  <2>5. CASE marker'[c] = marker[c]
    <3>1. MarkerDates(c)'
      BY <1>1, <1>2, <1>6, <1>11, <2>3, <2>5 DEF MarkerDates
    <3>2. SweptIsOver(c)'
      BY <1>1, <1>6, <2>1, <2>3, <2>5 DEF SweptIsOver
    <3> QED
      BY <2>4, <3>1, <3>2
  <2>6. CASE marker'[c] = Mark(c)
    <3>1. MarkerDates(c)'
      BY <1>2, <1>11, <1>12, <2>6 DEF MarkerDates
    <3>2. SUFFICES ASSUME swept[c] # Absent, swept[c].told, NEW r \in ShownRows(c)
                   PROVE  r.id <= Newest(c)
      BY <1>7, <1>8, <2>1, <2>3, <2>4, <2>6, <3>1 DEF SweptIsOver
    <3>3. r \in table /\ r.id \in Nat
      BY ObservedRow DEF ShownRows
    <3>4. CASE marker[c] # Absent
      <4>1. r.id <= marker[c].id
        BY <1>1, <3>2, <3>4 DEF SweptIsOver
      <4> QED
        BY <1>7, <1>9, <3>3, <3>4, <4>1
    <3>5. CASE marker[c] = Absent
      <4>1. PICK own \in Own(c) : At(own) = LastAt(c)
        BY <1>0, LastOfOwn
      <4>2. ~ (At(own) < Cutoff)
        BY <1>0, <1>7, <4>1, CutoffType
      <4>3. own \notin ShownRows(c)
        BY <1>1, <3>2, <3>5, <4>2 DEF SweptIsOver
      <4>4. own \in table /\ own \in Shown(c) /\ own.key \notin ShownKeys(c)
        BY <1>10, <4>3 DEF ShownRows
      <4>5. r.id < own.id
        BY <1>1, <4>4 DEF ShownFirst
      <4>6. own.id <= Newest(c) /\ own.id \in Nat
        BY <1>7, <4>4, ObservedRow
      <4> QED
        BY <1>7, <3>3, <4>5, <4>6
    <3> QED
      BY <3>4, <3>5
  <2> QED
    BY <1>2, <2>5, <2>6
<1> QED
  BY <1>13, <1>14, <1>15

(* Every action keeps the dates. *)
LEMMA RowsStayDated ==
  ASSUME PagesIInv, PagesIInv', RowsAreDated, [PagesNext]_pagesVars
  PROVE  RowsAreDated'
<1>1. CASE \/ \E o \in Observations : o.at = now /\ Capture(o)
           \/ Sweep
           \/ \E d \in Tended : Patch(d)
           \/ Refresh \/ Clean \/ Tick
           \/ UNCHANGED pagesVars
  BY <1>1, OthersTake, RowsGoDated
<1>2. CASE \E d \in Convs \cup {Absent} : Drain(d)
  BY <1>2, DrainDated
<1>3. CASE \E forced \in BOOLEAN : Pass(forced) \/ BrokenPass(forced)
  <2>1. PICK done \in SUBSET Heads : Regenerates(done)
    BY <1>3, PassesRegenerate
  <2>2. \A r \in table' : r.key \notin spool'
    BY <2>1 DEF Regenerates, RowsAreDated
  <2>3. \A c \in Convs : (ShowsDrained(c) /\ ShownFirst(c) /\ MarkerDates(c) /\ SweptIsOver(c))'
    BY <2>1, UntouchedDated, RegeneratedDated
  <2> QED
    BY <2>2, <2>3 DEF RowsAreDated
<1> QED
  BY <1>1, <1>2, <1>3 DEF PagesNext

(* SessionPages: every reachable state has rows, markers and removed pages *)
(* that agree on what is old.                                              *)
THEOREM DatesInductive == PagesSpec => []RowsAreDated
<1>1. PagesInit => RowsAreDated
  BY DEF PagesInit, RowsAreDated, ShowsDrained, ShownFirst, MarkerDates, SweptIsOver,
         ShownRows, ShownKeys
<1>2. PagesIInv /\ PagesIInv' /\ RowsAreDated /\ [PagesNext]_pagesVars => RowsAreDated'
  BY RowsStayDated
<1> QED
  BY <1>1, <1>2, PagesInductive, PTL DEF PagesSpec

(* SessionPages: a page the sweep removed does not come back from the rows *)
(* it showed, for any number of conversations, times, failures and kills   *)
(* (the marker that stays, sweep.rs).                                      *)
THEOREM SweptStaysGone == PagesSpec => ExpiredStaysGone
<1>1. ASSUME PagesIInv, RowsAreDated, [PagesNext]_pagesVars, NEW c \in Convs,
             page[c] = Absent, page'[c] # Absent, swept[c] # Absent, swept[c].told,
             page'[c].body \subseteq swept[c].body
      PROVE  FALSE
  <2>1. ~ PageKept(c) /\ ~ PageSwept(c) /\ page' # page
    BY <1>1 DEF PageKept, PageSwept
  <2>2. \E forced \in BOOLEAN : Pass(forced) \/ BrokenPass(forced)
    BY <1>1, <2>1, OthersTake DEF PagesNext, Drain
  <2>3. PICK done \in SUBSET Heads : Regenerates(done)
    BY <1>1, <2>2, PassesRegenerate
  <2>4. c \in done
    BY <1>1, <2>3 DEF Regenerates, Regenerated
  <2>5. Rendered(c) # Absent /\ page'[c].body = KeysOf(Shown(c))
    BY <1>1, <2>3, <2>4, RenderedShows DEF Regenerates, Regenerated
  <2>6. Own(c) # {} /\ LastAt(c) >= Cutoff /\ ~ Seen(c)
    BY <2>3, <2>4 DEF Regenerates, Heads
  <2>7. \A r \in Shown(c) : r \in ShownRows(c)
    <3>1. \A r \in Shown(c) : r \in table /\ r.key \in swept[c].body
      BY <1>1, <2>5 DEF KeysOf, Shown, Own, Attached, Unattached
    <3> QED
      BY <1>1, <3>1 DEF ShownRows, ShownKeys
  <2>8. SweptIsOver(c)
    BY <1>1 DEF RowsAreDated
  <2>9. CASE marker[c] # Absent
    <3>1. PICK w \in Shown(c) : w.id = Newest(c)
      BY <1>1, <2>6, LastOfOwn
    <3>2. Newest(c) <= marker[c].id /\ Newest(c) \in Nat /\ marker[c].id \in Nat
      BY <1>1, <2>6, <2>7, <2>8, <2>9, <3>1, LastOfOwn
      DEF SweptIsOver, PagesIInv, PagesTypeOK, Markers
    <3> QED
      BY <2>6, <2>9, <3>2 DEF Seen
  <2>10. CASE marker[c] = Absent
    <3>1. PICK own \in Own(c) : At(own) = LastAt(c)
      BY <1>1, <2>6, LastOfOwn
    <3>2. own \in Shown(c)
      BY DEF Shown
    <3>3. LastAt(c) < Cutoff
      BY <1>1, <2>7, <2>8, <2>10, <3>1, <3>2 DEF SweptIsOver
    <3>4. LastAt(c) \in Nat /\ Cutoff \in Nat
      BY <1>1, <2>6, LastOfOwn, CutoffType
    <3> QED
      BY <2>6, <3>3, <3>4
  <2> QED
    BY <2>9, <2>10
<1>2. PagesIInv /\ RowsAreDated /\ [PagesNext]_pagesVars =>
        [\A c \in Convs :
           page[c] = Absent /\ page'[c] # Absent /\ swept[c] # Absent /\ swept[c].told
             => ~ (page'[c].body \subseteq swept[c].body)]_pagesVars
  BY <1>1
<1> QED
  BY <1>2, PagesInductive, DatesInductive, PTL DEF PagesSpec, ExpiredStaysGone

NewestIsNewest == \A c \in Convs : \A r \in Own(c) : Newest(c) \in Nat /\ r.id <= Newest(c)

(* SessionPages: the sweep takes for its age no page of a conversation     *)
(* that has a young row, unless a marker was lost or a number used again   *)
(* (AgedSince, Expired).                                                   *)
THEOREM OnlyOldGoes == PagesSpec => OnlyOldPagesAge
<1>1. ASSUME PagesIInv, PagesIInv', RowsAreDated, NewestIsNewest', [PagesNext]_pagesVars,
             NEW c \in Convs \ skipped,
             page[c] # Absent, page'[c] = Absent, swept'[c] # Absent,
             page[c].expires = Absent \/ page[c].expires > now,
             NEW young \in Own(c), At(young) > now - Ttl,
             Seen(c)'
      PROVE  FALSE
  <2>0. MarkerDates(c) /\ SweptIsOver(c)
    BY <1>1 DEF RowsAreDated
  <2>1. ASSUME NEW forced \in BOOLEAN, Pass(forced) \/ BrokenPass(forced)
        PROVE  FALSE
    <3>1. PICK done \in SUBSET Heads : Regenerates(done)
      BY <1>1, <2>1, PassesRegenerate
    <3>2. swept'[c] = swept[c]
      BY <1>1, <3>1 DEF Regenerates, Returned
    <3> QED
      BY <1>1, <2>0, <3>2 DEF SweptIsOver
  <2>2. Sweep
    <3>1. ~ PageKept(c) /\ page' # page
      BY <1>1 DEF PageKept
    <3> QED
      BY <1>1, <2>1, <3>1, OthersTake DEF PagesNext, Drain
  <2>3. PICK gone \in SUBSET {d \in Convs : Expired(d)} :
          /\ table' = table \ Outdated
          /\ LET P == [d \in Convs |-> IF d \in gone THEN Absent ELSE page[d]] IN
             IndexNow(P) \/ IndexLater(P)
          /\ UNCHANGED <<now, observed>> /\ marker' = marker
    BY <2>2 DEF Sweep, KeptMarkers
  <2>4. Expired(c)
    <3> DEFINE P == [d \in Convs |-> IF d \in gone THEN Absent ELSE page[d]]
    <3>1. P \in [Convs -> Pages \cup {Absent}] /\ (c \notin gone => P[c] = page[c])
      BY <1>1 DEF PagesIInv, PagesTypeOK
    <3>2. IndexNow(P) \/ IndexLater(P)
      BY <2>3
    <3> HIDE DEF P
    <3>3. page'[c] = Absent <=> P[c] = Absent
      BY <1>1, <3>1, <3>2, IndexType DEF PagesIInv
    <3> QED
      BY <1>1, <2>3, <3>1, <3>3
  <2>5. marker[c] # Absent /\ marker[c].id \in Nat /\ marker[c].at \in Nat /\ now \in Nat /\ Ttl \in Nat
    BY <1>1, <2>3, SessionPagesAssumption DEF Seen, PagesIInv, PagesTypeOK, Markers, Times
  <2>6. now - marker[c].at >= Ttl
    <3>1. page[c].expires \in Times \cup {Absent}
      BY <1>1 DEF PagesIInv, PagesTypeOK, Pages
    <3>2. page[c].expires # Absent => ~ (page[c].expires <= now)
      BY <1>1, <2>5, <3>1, SessionPagesAssumption DEF Times
    <3> QED
      BY <2>4, <2>5, <3>2 DEF Expired, AgedSince
  <2>7. young \in table /\ young.id \in Nat /\ At(young) \in Nat
    BY <1>1, ObservedRow DEF Own
  <2>8. ~ (At(young) <= marker[c].at)
    BY <1>1, <2>5, <2>6, <2>7
  <2>9. young.id > marker[c].id
    BY <1>1, <2>0, <2>5, <2>7, <2>8 DEF MarkerDates, Consolidated
  <2>10. young \notin Outdated
    <3>1. \A d \in Convs : young \in Own(d) => d = c
      BY DEF Own
    <3>2. LastAt(c) \in Nat /\ At(young) <= LastAt(c)
      BY <1>1, LastOfOwn
    <3>3. ~ (LastAt(c) < Cutoff)
      BY <1>1, <2>5, <2>7, <3>2, CutoffType
    <3> QED
      BY <3>1, <3>3 DEF Outdated
  <2>11. young \in Own(c)'
    BY <2>3, <2>7, <2>10 DEF Own
  <2>12. young.id <= Newest(c)' /\ marker[c].id >= Newest(c)'
    BY <1>1, <2>3, <2>11 DEF NewestIsNewest, Seen
  <2>13. Newest(c)' \in Nat
    BY <1>1, <2>11 DEF NewestIsNewest
  <2> QED
    BY <2>5, <2>7, <2>9, <2>12, <2>13
<1>2. PagesIInv => NewestIsNewest
  <2>1. ASSUME PagesIInv, NEW c \in Convs, NEW r \in Own(c)
        PROVE  Newest(c) \in Nat /\ r.id <= Newest(c)
    BY <2>1, LastOfOwn DEF Shown
  <2> QED
    BY <2>1 DEF NewestIsNewest
<1> DEFINE Holds == PagesIInv /\ RowsAreDated /\ NewestIsNewest
<1>3. Holds /\ Holds' /\ [PagesNext]_pagesVars =>
        [\A c \in Convs \ skipped :
           (/\ page[c] # Absent /\ page'[c] = Absent /\ swept'[c] # Absent
            /\ page[c].expires = Absent \/ page[c].expires > now
            /\ \E own \in Own(c) : own.key \in page[c].body /\ At(own) > now - Ttl)
           => ~ Seen(c)']_pagesVars
  BY <1>1
<1>4. PagesSpec => []Holds
  BY <1>2, PagesInductive, DatesInductive, PTL
<1> HIDE DEF Holds
<1> QED
  BY <1>3, <1>4, PTL DEF PagesSpec, OnlyOldPagesAge

-----------------------------------------------------------------------------
(* Handoffs and messages.                                                  *)
(*                                                                         *)
(* Through the invariant CoordinationIInv: a row is given once, to whom it *)
(* was meant for, and tells one end.                                       *)

-----------------------------------------------------------------------------
(* Rows, calls and events.                                                 *)

(* The bounds are numbers.                                                 *)
LEMMA CoordinationBounds == /\ Lifetime \in Nat \ {0} /\ MaxClock \in Nat /\ MaxKills \in Nat
                /\ 0 \in Instants
<1>1. Lifetime \in Nat \ {0} /\ MaxClock \in Nat /\ MaxKills \in Nat
  BY ONLY CoordinationAssumption
<1> QED
  BY <1>1 DEF Instants

(* A row that is stored is a row, and a row is stored.                     *)
LEMMA StoredIsRow ==
  ASSUME CoordinationTypeOK, NEW i \in Ids
  PROVE  IsStored(i) <=> row[i] \in Rows
  BY NoRowAssumption DEF CoordinationTypeOK, IsStored

(* What happens to a row changes neither what it holds nor its owner.      *)
LEMMA ClosedRow ==
  ASSUME CoordinationTypeOK, NEW i \in Ids, IsStored(i),
         NEW st \in States, NEW by \in OwnerKeys \cup {Unset}, NEW at \in 0 .. MaxClock + Lifetime
  PROVE  /\ ClosedAs(i, st, by, at) \in Rows
         /\ ClosedAs(i, st, by, at).state = st
         /\ ClosedAs(i, st, by, at).by = by
         /\ ClosedAs(i, st, by, at).offer = row[i].offer
<1>1. row[i] \in Rows
  BY StoredIsRow
<1> QED
  BY <1>1 DEF ClosedAs, Rows

(* Every instant the clock shows is one a row may be closed at.            *)
LEMMA TimesAreDates ==
  ASSUME NEW t \in Instants
  PROVE  t \in 0 .. MaxClock + Lifetime /\ t + Lifetime \in 0 .. MaxClock + Lifetime
  BY CoordinationBounds DEF Instants

CallStates == [pc : {"idle", "claim", "report"}, at : Instants,
               want : Ids \cup {Unset}, event : EndEvents \cup {Unset}]

(* A call not yet begun is well formed,                                    *)
LEMMA IdleCall == NoCall \in CallStates
  BY CoordinationBounds DEF NoCall, CallStates, Instants

(* ... so is one that has an event to tell,                                *)
LEMMA ReportingCall ==
  ASSUME NEW e \in EndEvents
  PROVE  [NoCall EXCEPT !.pc = "report", !.event = e] \in CallStates
  BY IdleCall DEF CallStates

(* ... and one that has chosen a row to claim.                             *)
LEMMA ClaimingCall ==
  ASSUME NEW at \in Instants, NEW i \in Ids
  PROVE  [NoCall EXCEPT !.pc = "claim", !.at = at, !.want = i] \in CallStates
  BY IdleCall DEF CallStates

(* The event of a claim or a cancellation.                                 *)
LEMMA EventType ==
  ASSUME NEW p \in Callers, NEW i \in Ids, NEW what \in {"claimed", "cancelled"}
  PROVE  /\ Event(i, what, p) \in EndEvents
         /\ Event(i, what, p).id = i /\ Event(i, what, p).what = what
         /\ Owner[p] \in OwnerKeys
  BY DEF Event, EndEvents, OwnerKeys

(* The event of an expiry.                                                 *)
LEMMA ExpiredEventType ==
  ASSUME NEW i \in Ids
  PROVE  /\ ExpiredEvent(i) \in EndEvents
         /\ ExpiredEvent(i).id = i /\ ExpiredEvent(i).what = "expired"
  BY DEF ExpiredEvent, EndEvents

-----------------------------------------------------------------------------
(* The type.                                                               *)

(* Every action leaves every variable in its type.                         *)
LEMMA CoordinationTypeStep ==
  ASSUME CoordinationTypeOK, ReportsAreEvents, ChosenIsSeen, [CoordinationNext]_coordinationVars
  PROVE  CoordinationTypeOK'
<1> DEFINE SweeperStates == [pc : {"idle", "expire", "report", "prune"}, at : Instants,
                             expired : SUBSET Ids]
           RowType == [Ids -> Rows \cup {Unset, Gone}]
<1>type. CoordinationTypeOK <=> /\ clock \in Instants /\ row \in RowType /\ call \in [Callers -> CallStates]
                    /\ sweeper \in SweeperStates /\ events \subseteq EndEvents
                    /\ given \in [Ids -> Nat] /\ kills \in 0 .. MaxKills
  BY DEF CoordinationTypeOK, CallStates
<1>type2. CoordinationTypeOK' <=> /\ clock' \in Instants /\ row' \in RowType /\ call' \in [Callers -> CallStates]
                      /\ sweeper' \in SweeperStates /\ events' \subseteq EndEvents
                      /\ given' \in [Ids -> Nat] /\ kills' \in 0 .. MaxKills
  BY DEF CoordinationTypeOK, CallStates
<1>crash. ASSUME kills < MaxKills, kills' = kills + 1
          PROVE  kills' \in 0 .. MaxKills
  BY <1>crash, <1>type, CoordinationBounds
<1>then. ASSUME NEW p \in Callers, NEW e \in EndEvents, Then(p, e)
         PROVE  call' \in [Callers -> CallStates]
  BY <1>type, <1>then, ReportingCall DEF Then
<1>ends. ASSUME NEW p \in Callers, Ends(p)
         PROVE  call' \in [Callers -> CallStates]
  BY <1>type, <1>ends, IdleCall DEF Ends
<1> HIDE DEF SweeperStates, RowType
<1>1. ASSUME NEW p \in Callers, Begin(p) PROVE CoordinationTypeOK'
  <2>1. PICK i \in Ids, o \in Offers :
          row' = [row EXCEPT ![i] =
            [offer |-> o, owner |-> Owner[p], state |-> "open",
             expires |-> clock + Lifetime, by |-> Unset, closed |-> 0]]
    BY <1>1 DEF Begin
  <2>2. clock + Lifetime \in 0 .. MaxClock + Lifetime /\ 0 \in 0 .. MaxClock + Lifetime
    BY <1>type, TimesAreDates, CoordinationBounds
  <2>3. [offer |-> o, owner |-> Owner[p], state |-> "open",
         expires |-> clock + Lifetime, by |-> Unset, closed |-> 0] \in Rows
    BY <2>2 DEF Rows, States, OwnerKeys
  <2>4. row' \in RowType
    BY <2>1, <2>3, <1>type DEF RowType
  <2> QED
    BY <1>1, <2>4, <1>type, <1>type2 DEF Begin
<1>2. ASSUME NEW p \in Callers, Cancel(p) PROVE CoordinationTypeOK'
  <2>1. PICK i \in Ids :
          /\ IsStored(i)
          /\ row' = [row EXCEPT ![i] = ClosedAs(i, "cancelled", Unset, clock)]
          /\ Then(p, Event(i, "cancelled", p)) \/ UNCHANGED call
    BY <1>2 DEF Cancel
  <2>2. ClosedAs(i, "cancelled", Unset, clock) \in Rows
    BY <2>1, <1>type, TimesAreDates, ClosedRow DEF States
  <2>3. row' \in RowType
    BY <2>1, <2>2, <1>type DEF RowType
  <2>4. call' \in [Callers -> CallStates]
    BY <2>1, <1>type, <1>then, EventType
  <2> QED
    BY <1>2, <2>3, <2>4, <1>type, <1>type2 DEF Cancel
<1>3. ASSUME NEW p \in Callers, CancelAll(p) PROVE CoordinationTypeOK'
  <2>1. \A i \in Ids : IsStored(i) => ClosedAs(i, "cancelled", Unset, clock) \in Rows
    BY <1>type, TimesAreDates, ClosedRow DEF States
  <2>2. row' \in RowType
    BY <1>3, <2>1, <1>type DEF CancelAll, RowType
  <2> QED
    BY <1>3, <2>2, <1>type, <1>type2 DEF CancelAll
<1>4. ASSUME NEW p \in Callers, Choose(p) PROVE CoordinationTypeOK'
  <2>1. PICK i \in Ids :
          call' = [call EXCEPT ![p] = [NoCall EXCEPT !.pc = "claim", !.at = clock, !.want = i]]
    BY <1>4 DEF Choose, VisibleTo
  <2>2. call' \in [Callers -> CallStates]
    BY <2>1, <1>type, ClaimingCall
  <2> QED
    BY <1>4, <2>2, <1>type, <1>type2 DEF Choose
<1>5. ASSUME NEW p \in Callers, Claim(p) PROVE CoordinationTypeOK'
  <2> DEFINE i == call[p].want
             at == call[p].at
  <2>1. i \in Ids /\ at \in Instants
    BY <1>5, <1>type DEF Claim, ChosenIsSeen, CallStates
  <2>2. CASE MayClaim(p, i, at)
    <3>1. /\ row' = [row EXCEPT ![i] = ClosedAs(i, "claimed", Owner[p], at)]
          /\ Then(p, Event(i, "claimed", p))
          /\ IsStored(i)
      BY <1>5, <2>2 DEF Claim, MayClaim, Live
    <3>2. ClosedAs(i, "claimed", Owner[p], at) \in Rows
      BY <3>1, <2>1, TimesAreDates, ClosedRow, EventType DEF States
    <3>3. row' \in RowType
      BY <3>1, <3>2, <1>type DEF RowType
    <3>4. call' \in [Callers -> CallStates]
      BY <3>1, <2>1, <1>then, EventType
    <3> QED
      BY <1>5, <3>3, <3>4, <1>type, <1>type2 DEF Claim
  <2>3. CASE ~ MayClaim(p, i, at)
    BY <1>5, <2>3, <1>ends, <1>type, <1>type2 DEF Claim
  <2> QED
    BY <2>2, <2>3
<1>6. ASSUME NEW p \in Callers, Report(p) PROVE CoordinationTypeOK'
  <2>1. call[p].event \in EndEvents
    BY <1>6 DEF Report, ReportsAreEvents, Reporting
  <2>2. events' \subseteq EndEvents
    BY <1>6, <2>1, <1>type DEF Report
  <2>3. given' \in [Ids -> Nat]
    <3>1. CASE call[p].event.what = "claimed"
      <4>1. call[p].event.id \in Ids
        BY <2>1 DEF EndEvents
      <4>2. given' = [given EXCEPT ![call[p].event.id] = given[call[p].event.id] + 1]
        BY <1>6, <3>1 DEF Report
      <4> QED
        BY <4>1, <4>2, <1>type
    <3>2. CASE call[p].event.what # "claimed"
      BY <1>6, <3>2, <1>type DEF Report
    <3> QED
      BY <3>1, <3>2
  <2> QED
    BY <1>6, <2>2, <2>3, <1>ends, <1>type, <1>type2 DEF Report
<1>7. ASSUME NEW p \in Callers, Dies(p) PROVE CoordinationTypeOK'
  BY <1>7, <1>crash, <1>ends, <1>type, <1>type2 DEF Dies
<1>8. ASSUME SweepStarts PROVE CoordinationTypeOK'
  BY <1>8, <1>type, <1>type2 DEF SweepStarts, SweeperStates
<1>9. ASSUME SweepExpires PROVE CoordinationTypeOK'
  <2>1. \A i \in Overdue : ClosedAs(i, "expired", Unset, row[i].expires) \in Rows
    <3>1. ASSUME NEW i \in Overdue PROVE row[i].expires \in 0 .. MaxClock + Lifetime
      BY <1>type, StoredIsRow DEF Overdue, Rows
    <3> QED
      BY <3>1, ClosedRow DEF Overdue, States
  <2>2. row' \in RowType
    BY <1>9, <2>1, <1>type DEF SweepExpires, RowType
  <2>3. sweeper' \in SweeperStates
    BY <1>9, <1>type DEF SweepExpires, SweeperStates, Overdue
  <2> QED
    BY <1>9, <2>2, <2>3, <1>type, <1>type2 DEF SweepExpires
<1>10. ASSUME SweepReports PROVE CoordinationTypeOK'
  <2>1. events' \subseteq EndEvents
    BY <1>10, <1>type DEF SweepReports, EndEvents, SweeperStates
  <2>2. sweeper' \in SweeperStates
    BY <1>10, <1>type DEF SweepReports, SweeperStates
  <2> QED
    BY <1>10, <2>1, <2>2, <1>type, <1>type2 DEF SweepReports
<1>11. ASSUME SweepPrunes PROVE CoordinationTypeOK'
  <2>1. row' \in RowType
    BY <1>11, <1>type DEF SweepPrunes, RowType
  <2>2. sweeper' \in SweeperStates
    BY <1>11, <1>type, CoordinationBounds DEF SweepPrunes, SweeperStates, Instants
  <2> QED
    BY <1>11, <2>1, <2>2, <1>type, <1>type2 DEF SweepPrunes
<1>12. ASSUME SweepDies PROVE CoordinationTypeOK'
  <2>1. sweeper' \in SweeperStates
    BY <1>12, CoordinationBounds DEF SweepDies, SweeperStates, Instants
  <2> QED
    BY <1>12, <2>1, <1>crash, <1>type, <1>type2 DEF SweepDies
<1>13. ASSUME ClockTicks PROVE CoordinationTypeOK'
  <2>1. clock' \in Instants
    BY <1>13, <1>type, CoordinationBounds DEF ClockTicks, Instants
  <2> QED
    BY <1>13, <2>1, <1>type, <1>type2 DEF ClockTicks
<1>14. ASSUME UNCHANGED coordinationVars PROVE CoordinationTypeOK'
  BY <1>14 DEF coordinationVars, CoordinationTypeOK
<1> QED
  BY <1>1, <1>2, <1>3, <1>4, <1>5, <1>6, <1>7, <1>8, <1>9, <1>10, <1>11, <1>12, <1>13, <1>14
     DEF CoordinationNext, SweepStep

-----------------------------------------------------------------------------
(* What a step does to the rows.                                           *)

(* The row i keeps what it holds; one that is over stays as it ended until *)
(* it is deleted, and one that is deleted stays so.                        *)
Kept(i) ==
  /\ row[i] # Unset => row'[i] # Unset
  /\ row[i] # Unset /\ IsStored(i)' => IsStored(i) /\ row'[i].offer = row[i].offer
  /\ IsStored(i) /\ IsStored(i)' /\ row[i].state # "open" => row'[i] = row[i]

(* A row that nobody touches is kept.                                      *)
LEMMA SameRowKept ==
  ASSUME NEW i \in Ids, row'[i] = row[i]
  PROVE  Kept(i)
  BY DEF Kept, IsStored

(* A row that is closed keeps its offer and is open no longer.             *)
LEMMA ClosedRowKept ==
  ASSUME CoordinationTypeOK, NEW i \in Ids, IsStored(i), row[i].state = "open",
         NEW st \in States, NEW by \in OwnerKeys \cup {Unset}, NEW at \in 0 .. MaxClock + Lifetime,
         row'[i] = ClosedAs(i, st, by, at)
  PROVE  /\ Kept(i) /\ IsStored(i)' /\ row'[i].state = st
         /\ row'[i].by = by /\ row'[i].offer = row[i].offer
<1>1. /\ row'[i] \in Rows /\ row'[i].state = st
      /\ row'[i].by = by /\ row'[i].offer = row[i].offer
  <2>1. /\ ClosedAs(i, st, by, at) \in Rows /\ ClosedAs(i, st, by, at).state = st
        /\ ClosedAs(i, st, by, at).by = by /\ ClosedAs(i, st, by, at).offer = row[i].offer
    BY ClosedRow
  <2> QED
    BY <2>1
<1>2. row'[i] # Unset /\ row'[i] # Gone
  BY <1>1, NoRowAssumption
<1> QED
  BY <1>1, <1>2 DEF Kept, IsStored

(* What a cancellation of one row, a claim and a sweep do to the rows they *)
(* close.                                                                  *)
LEMMA CancelRow ==
  ASSUME CoordinationTypeOK, NEW p \in Callers, Cancel(p)
  PROVE  \E i \in Ids :
           /\ IsStored(i) /\ row[i].state = "open" /\ IsStored(i)' /\ row'[i].state = "cancelled"
           /\ Kept(i) /\ \A j \in Ids \ {i} : row'[j] = row[j]
           /\ Then(p, Event(i, "cancelled", p)) \/ UNCHANGED call
<1>1. PICK i \in Ids :
        /\ IsStored(i) /\ row[i].state = "open"
        /\ row' = [row EXCEPT ![i] = ClosedAs(i, "cancelled", Unset, clock)]
        /\ Then(p, Event(i, "cancelled", p)) \/ UNCHANGED call
  BY DEF Cancel, MayCancel
<1>2. row'[i] = ClosedAs(i, "cancelled", Unset, clock) /\ \A j \in Ids \ {i} : row'[j] = row[j]
  BY <1>1 DEF CoordinationTypeOK
<1>3. clock \in 0 .. MaxClock + Lifetime
  BY TimesAreDates DEF CoordinationTypeOK
<1>4. Kept(i) /\ IsStored(i)' /\ row'[i].state = "cancelled"
  BY <1>1, <1>2, <1>3, ClosedRowKept DEF States
<1> QED
  BY <1>1, <1>2, <1>4

(* Cancelling the offers of a caller keeps every row.                      *)
LEMMA CancelAllRows ==
  ASSUME CoordinationTypeOK, NEW p \in Callers, CancelAll(p), NEW i \in Ids
  PROVE  Kept(i)
<1>1. clock \in 0 .. MaxClock + Lifetime
  BY TimesAreDates DEF CoordinationTypeOK
<1>2. \/ row'[i] = row[i]
      \/ IsStored(i) /\ row[i].state = "open" /\ row'[i] = ClosedAs(i, "cancelled", Unset, clock)
  BY DEF CancelAll
<1> QED
  BY <1>1, <1>2, SameRowKept, ClosedRowKept DEF States

(* A claim: it takes the row, if that is still live and it can see it.     *)
LEMMA ClaimRow ==
  ASSUME CoordinationTypeOK, ChosenIsSeen, NEW p \in Callers, Claim(p)
  PROVE  \E i \in Ids :
         /\ i = call[p].want
         /\ \/ /\ Live(i, call[p].at) /\ Sees(p, row[i].offer)
               /\ IsStored(i)' /\ row'[i].state = "claimed" /\ row'[i].by = Owner[p]
               /\ Kept(i) /\ \A j \in Ids \ {i} : row'[j] = row[j]
               /\ Then(p, Event(i, "claimed", p))
            \/ /\ ~ Live(i, call[p].at)
               /\ row' = row /\ Ends(p)
<1> DEFINE at == call[p].at
<1>0. PICK i \in Ids : i = call[p].want
  BY DEF Claim, ChosenIsSeen
<1>1. i \in Ids /\ at \in Instants /\ (IsStored(i) => Sees(p, row[i].offer))
  BY <1>0 DEF Claim, ChosenIsSeen, CoordinationTypeOK
<1>2. CASE MayClaim(p, i, at)
  <2>1. /\ Live(i, at) /\ IsStored(i) /\ row[i].state = "open"
        /\ row' = [row EXCEPT ![i] = ClosedAs(i, "claimed", Owner[p], at)]
        /\ Then(p, Event(i, "claimed", p))
    BY <1>0, <1>2 DEF Claim, MayClaim, Live
  <2>2. row'[i] = ClosedAs(i, "claimed", Owner[p], at) /\ \A j \in Ids \ {i} : row'[j] = row[j]
    BY <1>1, <2>1 DEF CoordinationTypeOK
  <2>3. at \in 0 .. MaxClock + Lifetime /\ Owner[p] \in OwnerKeys \cup {Unset} /\ "claimed" \in States
    BY <1>1, TimesAreDates DEF OwnerKeys, States
  <2>4. Kept(i) /\ IsStored(i)' /\ row'[i].state = "claimed" /\ row'[i].by = Owner[p]
    BY <1>1, <2>1, <2>2, <2>3, ClosedRowKept
  <2> QED
    BY <1>0, <1>1, <2>1, <2>2, <2>4
<1>3. CASE ~ MayClaim(p, i, at)
  <2>1. row' = row /\ Ends(p)
    BY <1>0, <1>3 DEF Claim
  <2>2. ~ Live(i, at)
    BY <1>1, <1>3 DEF MayClaim, Live, Sees
  <2> QED
    BY <1>0, <1>1, <2>1, <2>2
<1> QED
  BY <1>2, <1>3

(* The sweep expires the rows that are overdue, and no other.              *)
LEMMA ExpireRow ==
  ASSUME CoordinationTypeOK, SweepExpires, NEW i \in Ids
  PROVE  \/ i \notin Overdue /\ row'[i] = row[i]
         \/ /\ i \in Overdue /\ IsStored(i) /\ row[i].state = "open"
            /\ Kept(i) /\ IsStored(i)' /\ row'[i].state = "expired"
<1>1. CASE i \notin Overdue
  BY <1>1 DEF SweepExpires
<1>2. CASE i \in Overdue
  <2>1. /\ IsStored(i) /\ row[i].state = "open"
        /\ row'[i] = ClosedAs(i, "expired", Unset, row[i].expires)
    BY <1>2 DEF SweepExpires, Overdue
  <2>2. row[i].expires \in 0 .. MaxClock + Lifetime
    BY <2>1, StoredIsRow DEF Rows
  <2> QED
    BY <1>2, <2>1, <2>2, ClosedRowKept DEF States
<1> QED
  BY <1>1, <1>2

(* No step reopens a row, or changes the offer it is.                      *)
LEMMA RowStep ==
  ASSUME CoordinationTypeOK, ChosenIsSeen, [CoordinationNext]_coordinationVars, NEW i \in Ids
  PROVE  Kept(i)
<1>1. ASSUME NEW p \in Callers, Begin(p) PROVE Kept(i)
  <2>1. row[i] # Unset => row'[i] = row[i]
    BY <1>1 DEF Begin, CoordinationTypeOK
  <2> QED
    BY <2>1 DEF Kept, IsStored
<1>2. ASSUME NEW p \in Callers, Cancel(p) PROVE Kept(i)
  BY <1>2, CancelRow, SameRowKept
<1>3. ASSUME NEW p \in Callers, CancelAll(p) PROVE Kept(i)
  BY <1>3, CancelAllRows
<1>5. ASSUME NEW p \in Callers, Claim(p) PROVE Kept(i)
  BY <1>5, ClaimRow, SameRowKept
<1>9. ASSUME SweepExpires PROVE Kept(i)
  BY <1>9, ExpireRow, SameRowKept
<1>11. ASSUME SweepPrunes PROVE Kept(i)
  <2>1. \/ row'[i] = row[i]
        \/ row'[i] = Gone
    BY <1>11 DEF SweepPrunes
  <2> QED
    BY <2>1, NoRowAssumption DEF Kept, IsStored
<1>0. ASSUME row' = row PROVE Kept(i)
  BY <1>0, SameRowKept
<1> QED
  BY <1>0, <1>1, <1>2, <1>3, <1>5, <1>9, <1>11
     DEF CoordinationNext, SweepStep, coordinationVars, Choose, Report, Dies, SweepStarts, SweepReports, SweepDies, ClockTicks

-----------------------------------------------------------------------------
(* What a step does to the calls, to the ends told and to the takers.      *)

Chosen(p, i) == [NoCall EXCEPT !.pc = "claim", !.at = clock, !.want = i]

(* A call begins with a row the caller sees, goes on to report, or ends.   *)
LEMMA CallStep ==
  ASSUME CoordinationTypeOK, [CoordinationNext]_coordinationVars, NEW p \in Callers
  PROVE  \/ call'[p] = call[p]
         \/ call'[p] = NoCall
         \/ row' = row /\ clock' = clock /\ \E i \in VisibleTo(p, clock) : call'[p] = Chosen(p, i)
         \/ call'[p].pc = "report"
<1>1. ASSUME NEW q \in Callers, NEW e, Then(q, e)
      PROVE  call'[p] = call[p] \/ call'[p].pc = "report"
  BY <1>1, IdleCall DEF Then, CoordinationTypeOK, CallStates
<1>2. ASSUME NEW q \in Callers, Ends(q)
      PROVE  call'[p] = call[p] \/ call'[p] = NoCall
  BY <1>2 DEF Ends, CoordinationTypeOK
<1>3. ASSUME NEW q \in Callers, Choose(q)
      PROVE  \/ call'[p] = call[p]
             \/ row' = row /\ clock' = clock /\ \E i \in VisibleTo(p, clock) : call'[p] = Chosen(p, i)
  <2>1. PICK i \in VisibleTo(q, clock) :
          call' = [call EXCEPT ![q] = [NoCall EXCEPT !.pc = "claim", !.at = clock, !.want = i]]
    BY <1>3 DEF Choose
  <2>2. call'[p] = call[p] \/ (p = q /\ call'[p] = Chosen(q, i))
    BY <2>1 DEF CoordinationTypeOK, Chosen
  <2> QED
    BY <1>3, <2>2 DEF Choose
<1>4. ASSUME NEW q \in Callers, Cancel(q)
      PROVE  call'[p] = call[p] \/ call'[p].pc = "report"
  BY <1>4, <1>1, CancelRow
<1>5. ASSUME NEW q \in Callers, Claim(q)
      PROVE  call'[p] = call[p] \/ call'[p] = NoCall \/ call'[p].pc = "report"
  BY <1>5, <1>1, <1>2 DEF Claim
<1>6. ASSUME NEW q \in Callers, Report(q) \/ Dies(q)
      PROVE  call'[p] = call[p] \/ call'[p] = NoCall
  BY <1>6, <1>2 DEF Report, Dies
<1>7. ASSUME UNCHANGED call PROVE call'[p] = call[p]
  BY <1>7
<1> QED
  BY <1>3, <1>4, <1>5, <1>6, <1>7
     DEF CoordinationNext, SweepStep, coordinationVars, Begin, CancelAll, SweepStarts, SweepExpires, SweepReports,
         SweepPrunes, SweepDies, ClockTicks

(* No call but one that tells an event adds to what is told.               *)
LEMMA SameTold ==
  ASSUME \A q \in Callers : call'[q] = call[q] \/ ~ Reporting(q)',
         events' = events, sweeper'.expired = sweeper.expired,
         NEW e, IsTold(e)'
  PROVE  IsTold(e)
BY DEF IsTold, Reporting, ExpiredEvent

(* The events a step adds to what is told: the row is open before and ended *)
(* that way after, and each row has one of them.                           *)
NewEnds(new) ==
  /\ \A e \in EndEvents : IsTold(e)' => IsTold(e) \/ e \in new
  /\ \A e \in new :
       /\ IsStored(e.id) /\ row[e.id].state = "open"
       /\ IsStored(e.id)' /\ row'[e.id].state = e.what
       /\ \A f \in new : f.id = e.id => f = e

(* A step that tells nothing new.                                          *)
LEMMA NoNewEnds ==
  ASSUME \A e \in EndEvents : IsTold(e)' => IsTold(e)
  PROVE  NewEnds({})
BY DEF NewEnds

(* A call that closes a row has its event to tell, and no other has.       *)
LEMMA CallerTells ==
  ASSUME CoordinationTypeOK, NEW p \in Callers, NEW e \in EndEvents, Then(p, e),
         events' = events, sweeper' = sweeper,
         IsStored(e.id), row[e.id].state = "open", IsStored(e.id)', row'[e.id].state = e.what
  PROVE  NewEnds({e})
<1>1. ASSUME NEW q \in Callers
      PROVE  call'[q] = call[q] \/ call'[q].event = e
  BY IdleCall DEF Then, CoordinationTypeOK, CallStates
<1>2. ASSUME NEW f \in EndEvents, IsTold(f)', ~ IsTold(f)
      PROVE  f = e
  <2>1. PICK q \in Callers : Reporting(q)' /\ call'[q].event = f
    BY <1>2 DEF IsTold, ExpiredEvent
  <2>2. call'[q] # call[q]
    BY <1>2, <2>1 DEF IsTold, Reporting
  <2> QED
    BY <1>1, <2>1, <2>2
<1> QED
  BY <1>2 DEF NewEnds

(* The sweep tells of the rows it expires.                                 *)
LEMMA SweepTells ==
  ASSUME CoordinationTypeOK, ReportsAreEvents, SweepExpires
  PROVE  \E new \in SUBSET EndEvents : NewEnds(new)
<1> DEFINE new == {ExpiredEvent(i) : i \in sweeper'.expired}
<1>1. \A i \in sweeper'.expired : i \in Overdue /\ i \in Ids
  BY DEF SweepExpires, CoordinationTypeOK, Overdue
<1>2. new \in SUBSET EndEvents
  BY <1>1, ExpiredEventType
<1>3. ASSUME NEW e \in EndEvents, IsTold(e)' PROVE IsTold(e) \/ e \in new
  <2>1. events' = events /\ call' = call
    BY DEF SweepExpires
  <2>2. e \in events' \/ (\E p \in Callers : Reporting(p)' /\ call'[p].event = e) \/ e \in new
    BY <1>3 DEF IsTold, ExpiredEvent
  <2> QED
    BY <2>1, <2>2 DEF IsTold, Reporting
<1>4. ASSUME NEW e \in new
      PROVE  /\ IsStored(e.id) /\ row[e.id].state = "open"
             /\ IsStored(e.id)' /\ row'[e.id].state = e.what
             /\ \A f \in new : f.id = e.id => f = e
  <2>1. PICK i \in sweeper'.expired : e = ExpiredEvent(i)
    OBVIOUS
  <2>2. e.id = i /\ e.what = "expired" /\ i \in Ids /\ i \in Overdue
    BY <1>1, <2>1, ExpiredEventType
  <2>3. IsStored(i) /\ row[i].state = "open" /\ IsStored(i)' /\ row'[i].state = "expired"
    BY <2>2, ExpireRow
  <2>4. \A f \in new : f = ExpiredEvent(f.id)
    BY <1>1, ExpiredEventType
  <2> QED
    BY <2>1, <2>2, <2>3, <2>4
<1> QED
  BY <1>2, <1>3, <1>4 DEF NewEnds

(* A step tells the end of a row only when it ends it.                     *)
LEMMA ToldStep ==
  ASSUME CoordinationTypeOK, ChosenIsSeen, ReportsAreEvents, [CoordinationNext]_coordinationVars
  PROVE  \E new \in SUBSET EndEvents : NewEnds(new)
<1> DEFINE Goal == \E new \in SUBSET EndEvents : NewEnds(new)
<1>0. ASSUME \A q \in Callers : call'[q] = call[q] \/ ~ Reporting(q)',
             events' = events, sweeper'.expired = sweeper.expired
      PROVE  Goal
  BY <1>0, SameTold, NoNewEnds
<1>ends. ASSUME NEW p \in Callers, Ends(p)
         PROVE  \A q \in Callers : call'[q] = call[q] \/ ~ Reporting(q)'
  BY <1>ends DEF Ends, NoCall, Reporting, CoordinationTypeOK
<1>2. ASSUME NEW p \in Callers, Cancel(p) PROVE Goal
  <2>1. PICK i \in Ids :
           /\ IsStored(i) /\ row[i].state = "open" /\ IsStored(i)' /\ row'[i].state = "cancelled"
           /\ Then(p, Event(i, "cancelled", p)) \/ UNCHANGED call
    BY <1>2, CancelRow
  <2>2. events' = events /\ sweeper' = sweeper
    BY <1>2 DEF Cancel
  <2>3. CASE UNCHANGED call
    BY <2>2, <2>3, <1>0
  <2>4. CASE Then(p, Event(i, "cancelled", p))
    <3> DEFINE e == Event(i, "cancelled", p)
    <3>1. e \in EndEvents /\ e.id = i /\ e.what = "cancelled"
      BY EventType
    <3> HIDE DEF e
    <3>2. NewEnds({e})
      BY <2>1, <2>2, <2>4, <3>1, CallerTells DEF e
    <3> QED
      BY <3>1, <3>2
  <2> QED
    BY <2>1, <2>3, <2>4
<1>4. ASSUME NEW p \in Callers, Choose(p) PROVE Goal
  <2>1. \A q \in Callers : call'[q] = call[q] \/ ~ Reporting(q)'
    BY <1>4 DEF Choose, NoCall, Reporting, CoordinationTypeOK
  <2> QED
    BY <1>0, <1>4, <2>1 DEF Choose
<1>5. ASSUME NEW p \in Callers, Claim(p) PROVE Goal
  <2>1. PICK i \in Ids :
          \/ /\ Live(i, call[p].at) /\ IsStored(i)' /\ row'[i].state = "claimed"
             /\ Then(p, Event(i, "claimed", p))
          \/ Ends(p)
    BY <1>5, ClaimRow
  <2>2. events' = events /\ sweeper' = sweeper
    BY <1>5 DEF Claim
  <2>3. CASE Ends(p)
    BY <2>2, <2>3, <1>0, <1>ends
  <2>4. CASE /\ Live(i, call[p].at) /\ IsStored(i)' /\ row'[i].state = "claimed"
             /\ Then(p, Event(i, "claimed", p))
    <3> DEFINE e == Event(i, "claimed", p)
    <3>1. e \in EndEvents /\ e.id = i /\ e.what = "claimed"
      BY EventType
    <3>2. IsStored(i) /\ row[i].state = "open"
      BY <2>4 DEF Live
    <3> HIDE DEF e
    <3>3. NewEnds({e})
      BY <2>2, <2>4, <3>1, <3>2, CallerTells DEF e
    <3> QED
      BY <3>1, <3>3
  <2> QED
    BY <2>1, <2>3, <2>4
<1>6. ASSUME NEW p \in Callers, Report(p) PROVE Goal
  <2>1. ASSUME NEW e \in EndEvents, IsTold(e)' PROVE IsTold(e)
    <3>1. \A q \in Callers : call'[q] = call[q] \/ ~ Reporting(q)'
      BY <1>6, <1>ends DEF Report
    <3>2. events' \subseteq events \cup {call[p].event} /\ sweeper' = sweeper /\ Reporting(p)
      BY <1>6 DEF Report, Reporting
    <3> QED
      BY <2>1, <3>1, <3>2 DEF IsTold, Reporting, ExpiredEvent
  <2> QED
    BY <2>1, NoNewEnds
<1>7. ASSUME NEW p \in Callers, Dies(p) PROVE Goal
  BY <1>7, <1>0, <1>ends DEF Dies
<1>9. ASSUME SweepExpires PROVE Goal
  BY <1>9, SweepTells
<1>10. ASSUME SweepReports PROVE Goal
  <2>1. ASSUME NEW e \in EndEvents, IsTold(e)' PROVE IsTold(e)
    <3>1. /\ \A f \in events' : f \in events \/ \E i \in sweeper.expired : f = ExpiredEvent(i)
          /\ sweeper'.expired = {} /\ call' = call
      BY <1>10 DEF SweepReports, ExpiredEvent, CoordinationTypeOK
    <3> QED
      BY <2>1, <3>1 DEF IsTold, Reporting, ExpiredEvent
  <2> QED
    BY <2>1, NoNewEnds
<1>11. ASSUME SweepStarts \/ SweepPrunes PROVE Goal
  BY <1>11, <1>0 DEF SweepStarts, SweepPrunes, CoordinationTypeOK
<1>12. ASSUME SweepDies PROVE Goal
  <2>1. ASSUME NEW e \in EndEvents, IsTold(e)' PROVE IsTold(e)
    BY <1>12, <2>1 DEF SweepDies, IsTold, Reporting, ExpiredEvent
  <2> QED
    BY <2>1, NoNewEnds
<1>13. ASSUME UNCHANGED <<call, sweeper, events>> PROVE Goal
  BY <1>13, <1>0
<1> QED
  BY <1>2, <1>4, <1>5, <1>6, <1>7, <1>9, <1>10, <1>11, <1>12, <1>13
     DEF CoordinationNext, SweepStep, coordinationVars, Begin, CancelAll, ClockTicks

(* What a call reports is what it told, so the row it took is its own.     *)
LEMMA TakingIsTold ==
  ASSUME ReportsAreEvents, NEW i \in Ids, NEW p \in Taking(i)
  PROVE  /\ p \in Callers /\ Reporting(p)
         /\ call[p].event \in EndEvents /\ IsTold(call[p].event)
         /\ call[p].event.id = i /\ call[p].event.what = "claimed"
BY DEF Taking, Reporting, ReportsAreEvents, IsTold

(* A step leaves a row to those about to be given it, adds the call that   *)
(* has just claimed it, or gives it to one of them.                        *)
Claimed(p, i) ==
  /\ IsStored(i) /\ row[i].state = "open"
  /\ IsStored(i)' /\ row'[i].state = "claimed" /\ row'[i].by = Owner[p]
  /\ Sees(p, row'[i].offer)
  /\ given'[i] = given[i] /\ Taking(i)' \subseteq Taking(i) \cup {p}

TakersOf(i) ==
  \/ given'[i] = given[i] /\ Taking(i)' \subseteq Taking(i)
  \/ \E p \in Callers : Claimed(p, i)
  \/ \E p \in Taking(i) : given'[i] = given[i] + 1 /\ Taking(i)' \subseteq Taking(i) \ {p}

(* A row is taken by one claim, and the taker is who tells of it.          *)
LEMMA TakingStep ==
  ASSUME CoordinationTypeOK, ChosenIsSeen, ReportsAreEvents, [CoordinationNext]_coordinationVars, NEW i \in Ids
  PROVE  TakersOf(i)
<1>then. ASSUME NEW p \in Callers, NEW e \in EndEvents, Then(p, e)
         PROVE  /\ Taking(i)' \subseteq Taking(i) \cup {p}
                /\ e.what # "claimed" \/ e.id # i => Taking(i)' \subseteq Taking(i)
  <2>1. /\ \A q \in Callers \ {p} : call'[q] = call[q]
        /\ call'[p].event = e
    BY <1>then, IdleCall DEF Then, CoordinationTypeOK, CallStates
  <2> QED
    BY <2>1 DEF Taking
<1>ends. ASSUME NEW p \in Callers, Ends(p)
         PROVE  Taking(i)' \subseteq Taking(i) \ {p}
  <2>1. /\ \A q \in Callers \ {p} : call'[q] = call[q]
        /\ call'[p].pc = "idle"
    BY <1>ends DEF Ends, NoCall, CoordinationTypeOK
  <2> QED
    BY <2>1 DEF Taking
<1>same. ASSUME UNCHANGED <<call, given>> PROVE TakersOf(i)
  BY <1>same DEF TakersOf, Taking
<1>2. ASSUME NEW p \in Callers, Cancel(p) PROVE TakersOf(i)
  <2>1. PICK j \in Ids : Then(p, Event(j, "cancelled", p)) \/ UNCHANGED call
    BY <1>2, CancelRow
  <2>2. Event(j, "cancelled", p) \in EndEvents /\ Event(j, "cancelled", p).what = "cancelled"
    BY EventType
  <2>3. given' = given
    BY <1>2 DEF Cancel
  <2>4. CASE UNCHANGED call
    BY <2>3, <2>4, <1>same
  <2>5. CASE Then(p, Event(j, "cancelled", p))
    BY <2>2, <2>3, <2>5, <1>then DEF TakersOf
  <2> QED
    BY <2>1, <2>4, <2>5
<1>4. ASSUME NEW p \in Callers, Choose(p) PROVE TakersOf(i)
  <2>1. PICK j \in Ids :
          call' = [call EXCEPT ![p] = [NoCall EXCEPT !.pc = "claim", !.at = clock, !.want = j]]
    BY <1>4 DEF Choose, VisibleTo
  <2>2. /\ \A q \in Callers \ {p} : call'[q] = call[q]
        /\ call'[p].pc = "claim"
    BY <2>1 DEF NoCall, CoordinationTypeOK
  <2>3. Taking(i)' \subseteq Taking(i)
    BY <2>2 DEF Taking
  <2> QED
    BY <1>4, <2>3 DEF Choose, TakersOf
<1>5. ASSUME NEW p \in Callers, Claim(p) PROVE TakersOf(i)
  <2>0. given' = given
    BY <1>5 DEF Claim
  <2>1. PICK j \in Ids :
          \/ /\ Live(j, call[p].at) /\ Sees(p, row[j].offer)
             /\ IsStored(j)' /\ row'[j].state = "claimed" /\ row'[j].by = Owner[p]
             /\ Kept(j) /\ Then(p, Event(j, "claimed", p))
          \/ Ends(p)
    BY <1>5, ClaimRow
  <2>2. CASE Ends(p)
    BY <2>0, <2>2, <1>ends DEF TakersOf
  <2>3. CASE /\ Live(j, call[p].at) /\ Sees(p, row[j].offer)
             /\ IsStored(j)' /\ row'[j].state = "claimed" /\ row'[j].by = Owner[p]
             /\ Kept(j) /\ Then(p, Event(j, "claimed", p))
    <3>1. Event(j, "claimed", p) \in EndEvents /\ Event(j, "claimed", p).id = j
      BY EventType
    <3>2. CASE i # j
      BY <2>0, <2>3, <3>1, <3>2, <1>then DEF TakersOf
    <3>3. CASE i = j
      <4>1. Taking(i)' \subseteq Taking(i) \cup {p}
        BY <2>3, <3>1, <1>then
      <4>2. IsStored(j) /\ row[j].state = "open" /\ row'[j].offer = row[j].offer
        BY <2>3 DEF Live, Kept, IsStored
      <4>3. Claimed(p, j)
        BY <2>0, <2>3, <3>3, <4>1, <4>2 DEF Claimed
      <4> QED
        BY <3>3, <4>3 DEF TakersOf
    <3> QED
      BY <3>2, <3>3
  <2> QED
    BY <2>1, <2>2, <2>3
<1>6. ASSUME NEW p \in Callers, Report(p) PROVE TakersOf(i)
  <2>1. Taking(i)' \subseteq Taking(i) \ {p}
    BY <1>6, <1>ends DEF Report
  <2>2. Reporting(p) /\ call[p].event.id \in Ids
    BY <1>6 DEF Report, Reporting, ReportsAreEvents, EndEvents
  <2>3. CASE call[p].event.what = "claimed" /\ call[p].event.id = i
    <3>1. p \in Taking(i)
      BY <2>2, <2>3 DEF Taking, Reporting
    <3>2. given'[i] = given[i] + 1
      BY <1>6, <2>3 DEF Report, CoordinationTypeOK
    <3> QED
      BY <2>1, <3>1, <3>2 DEF TakersOf
  <2>4. CASE ~ (call[p].event.what = "claimed" /\ call[p].event.id = i)
    <3>1. given'[i] = given[i]
      BY <1>6, <2>2, <2>4 DEF Report, CoordinationTypeOK
    <3> QED
      BY <2>1, <3>1 DEF TakersOf
  <2> QED
    BY <2>3, <2>4
<1>7. ASSUME NEW p \in Callers, Dies(p) PROVE TakersOf(i)
  BY <1>7, <1>ends DEF Dies, TakersOf
<1> QED
  BY <1>same, <1>2, <1>4, <1>5, <1>6, <1>7
     DEF CoordinationNext, SweepStep, coordinationVars, Begin, CancelAll, SweepStarts, SweepExpires, SweepReports,
         SweepPrunes, SweepDies, ClockTicks

-----------------------------------------------------------------------------
(* The inductive invariant.                                                *)

(* The invariant holds at first.                                           *)
LEMMA CoordinationInitIInv ==
  ASSUME CoordinationInit
  PROVE  CoordinationIInv
<1>1. CoordinationTypeOK
  BY CoordinationBounds DEF CoordinationInit, CoordinationTypeOK, NoCall, Instants
<1>2. ChosenIsSeen /\ ReportsAreEvents
  BY DEF CoordinationInit, ChosenIsSeen, ReportsAreEvents, Reporting, NoCall
<1>3. \A e : ~ IsTold(e)
  BY DEF CoordinationInit, IsTold, Reporting, NoCall
<1>4. \A i \in Ids : Taking(i) = {}
  BY DEF CoordinationInit, Taking, NoCall
<1>5. OneTaker /\ ReachesItsAddressee
  BY <1>4 DEF CoordinationInit, OneTaker, ReachesItsAddressee
<1> QED
  BY <1>1, <1>2, <1>3, <1>5 DEF CoordinationIInv, ToldIsOver

(* What a call has chosen, it has seen.                                    *)
LEMMA ChosenStep ==
  ASSUME CoordinationTypeOK, ChosenIsSeen, [CoordinationNext]_coordinationVars
  PROVE  ChosenIsSeen'
<1> SUFFICES ASSUME NEW p \in Callers, call'[p].pc = "claim"
             PROVE  /\ call'[p].want \in Ids /\ call'[p].at <= clock'
                    /\ row'[call'[p].want] # Unset
                    /\ IsStored(call[p].want)' => Sees(p, row'[call'[p].want].offer)
  BY DEF ChosenIsSeen, Sees, Addressed
<1>1. CASE call'[p] = call[p]
  <2>1. PICK i \in Ids : i = call[p].want
    BY <1>1 DEF ChosenIsSeen
  <2>2. call[p].at <= clock /\ row[i] # Unset /\ (IsStored(i) => Sees(p, row[i].offer))
    BY <1>1, <2>1 DEF ChosenIsSeen
  <2>3. Kept(i)
    BY RowStep
  <2>4. row'[i] # Unset /\ (IsStored(i)' => Sees(p, row'[i].offer))
    BY <2>2, <2>3 DEF Kept
  <2>5. call[p].at \in Instants /\ clock \in Instants
    BY DEF CoordinationTypeOK
  <2>6. clock' = clock \/ clock' = clock + 1
    BY DEF CoordinationNext, SweepStep, coordinationVars, Begin, Cancel, CancelAll, Choose, Claim, Report, Dies,
           SweepStarts, SweepExpires, SweepReports, SweepPrunes, SweepDies, ClockTicks
  <2>7. call[p].at <= clock'
    BY <2>2, <2>5, <2>6 DEF Instants
  <2> QED
    BY <1>1, <2>1, <2>4, <2>7 DEF IsStored
<1>2. ASSUME row' = row, clock' = clock, NEW i \in VisibleTo(p, clock), call'[p] = Chosen(p, i)
      PROVE  /\ call'[p].want \in Ids /\ call'[p].at <= clock'
             /\ row'[call'[p].want] # Unset
             /\ IsStored(call[p].want)' => Sees(p, row'[call'[p].want].offer)
  <2>1. call'[p].want = i /\ call'[p].at = clock
    BY <1>2 DEF Chosen, NoCall
  <2>2. i \in Ids /\ IsStored(i) /\ Sees(p, row[i].offer) /\ clock \in Instants
    BY DEF VisibleTo, Live, CoordinationTypeOK
  <2> QED
    BY <1>2, <2>1, <2>2 DEF IsStored, Instants
<1>3. CASE call'[p] = NoCall
  BY <1>3 DEF NoCall
<1>4. CASE call'[p].pc = "report"
  BY <1>4
<1> QED
  BY <1>1, <1>2, <1>3, <1>4, CallStep

(* What a call will tell is the end of a row.                              *)
LEMMA ReportsStep ==
  ASSUME CoordinationTypeOK, ChosenIsSeen, ReportsAreEvents, [CoordinationNext]_coordinationVars
  PROVE  ReportsAreEvents'
<1>then. ASSUME NEW p \in Callers, NEW e \in EndEvents, Then(p, e), NEW q \in Callers
         PROVE  call'[q] = call[q] \/ call'[q].event = e
  BY <1>then, IdleCall DEF Then, CoordinationTypeOK, CallStates
<1>1. ASSUME NEW q \in Callers, Reporting(q)'
      PROVE  call'[q].event \in EndEvents
  <2>1. CASE call'[q] = call[q]
    BY <1>1, <2>1 DEF Reporting, ReportsAreEvents
  <2>2. ASSUME NEW p \in Callers, Cancel(p) PROVE call'[q].event \in EndEvents
    <3>1. PICK i \in Ids : Then(p, Event(i, "cancelled", p)) \/ UNCHANGED call
      BY <2>2, CancelRow
    <3> QED
      BY <2>1, <3>1, <1>then, EventType
  <2>3. ASSUME NEW p \in Callers, Ends(p) PROVE call'[q].event \in EndEvents
    BY <1>1, <2>1, <2>3 DEF Ends, NoCall, Reporting, CoordinationTypeOK
  <2>4. ASSUME NEW p \in Callers, Claim(p) PROVE call'[q].event \in EndEvents
    <3>1. PICK i \in Ids : Then(p, Event(i, "claimed", p)) \/ Ends(p)
      BY <2>4, ClaimRow
    <3> QED
      BY <2>1, <2>3, <3>1, <1>then, EventType
  <2>5. ASSUME NEW p \in Callers, Choose(p) PROVE call'[q].event \in EndEvents
    BY <1>1, <2>1, <2>5 DEF Choose, NoCall, Reporting, CoordinationTypeOK
  <2>6. ASSUME UNCHANGED call PROVE call'[q].event \in EndEvents
    BY <2>1, <2>6
  <2> QED
    BY <2>2, <2>3, <2>4, <2>5, <2>6
       DEF CoordinationNext, SweepStep, coordinationVars, Begin, CancelAll, Report, Dies, SweepStarts, SweepExpires,
           SweepReports, SweepPrunes, SweepDies, ClockTicks
<1>2. sweeper'.pc # "report" => sweeper'.expired = {}
  <2>1. sweeper.pc # "report" => sweeper.expired = {}
    BY DEF ReportsAreEvents
  <2>2. ASSUME SweepStarts \/ SweepExpires \/ SweepPrunes
        PROVE  sweeper'.pc # "report" => sweeper'.expired = {}
    BY <2>1, <2>2 DEF SweepStarts, SweepExpires, SweepPrunes, CoordinationTypeOK
  <2>3. ASSUME SweepReports \/ SweepDies PROVE sweeper'.expired = {}
    <3>1. CASE SweepReports
      <4>1. sweeper' = [sweeper EXCEPT !.pc = "prune", !.expired = {}]
        BY <3>1 DEF SweepReports
      <4> QED
        BY <4>1 DEF CoordinationTypeOK
    <3>2. CASE SweepDies
      BY <3>2 DEF SweepDies
    <3> QED
      BY <2>3, <3>1, <3>2
  <2>4. ASSUME sweeper' = sweeper PROVE sweeper'.pc # "report" => sweeper'.expired = {}
    BY <2>1, <2>4
  <2> QED
    BY <2>2, <2>3, <2>4
       DEF CoordinationNext, SweepStep, coordinationVars, Begin, Cancel, CancelAll, Choose, Claim, Report, Dies, ClockTicks
<1> QED
  BY <1>1, <1>2 DEF ReportsAreEvents, Reporting

(* The end that is told of a row stays its end: a row that is over is      *)
(* deleted, or stays as it was.                                            *)
LEMMA ToldIsOverStep ==
  ASSUME CoordinationTypeOK, ChosenIsSeen, ReportsAreEvents, ToldIsOver, [CoordinationNext]_coordinationVars
  PROVE  ToldIsOver'
<1>0. PICK new \in SUBSET EndEvents : NewEnds(new)
  BY ToldStep
<1>1. ASSUME NEW e \in EndEvents, IsTold(e)
      PROVE  /\ row'[e.id] # Unset
             /\ IsStored(e.id)' => row'[e.id].state = e.what
             /\ e \notin new /\ \A f \in new : f.id # e.id
  <2>1. e.id \in Ids /\ e.what # "open"
    BY DEF EndEvents
  <2>2. row[e.id] # Unset /\ (IsStored(e.id) => row[e.id].state = e.what)
    BY <1>1 DEF ToldIsOver
  <2>3. Kept(e.id)
    BY <2>1, RowStep
  <2>4. \A f \in new : IsStored(f.id) /\ row[f.id].state = "open"
    BY <1>0 DEF NewEnds
  <2> QED
    BY <2>1, <2>2, <2>3, <2>4 DEF Kept
<1>2. ASSUME NEW e \in EndEvents, IsTold(e)'
      PROVE  /\ row'[e.id] # Unset
             /\ IsStored(e.id)' => row'[e.id].state = e.what
             /\ \A f \in EndEvents : IsTold(f)' /\ f.id = e.id => f = e
  <2>1. CASE IsTold(e)
    <3>1. ASSUME NEW f \in EndEvents, IsTold(f)', f.id = e.id PROVE f = e
      <4>1. f \notin new
        BY <1>1, <2>1, <3>1
      <4>2. IsTold(f)
        BY <1>0, <3>1, <4>1 DEF NewEnds
      <4> QED
        BY <2>1, <3>1, <4>2 DEF ToldIsOver
    <3> QED
      BY <1>1, <2>1, <3>1
  <2>2. CASE ~ IsTold(e)
    <3>1. e \in new
      BY <1>0, <1>2, <2>2 DEF NewEnds
    <3>2. IsStored(e.id)' /\ row'[e.id].state = e.what /\ \A f \in new : f.id = e.id => f = e
      BY <1>0, <3>1 DEF NewEnds
    <3>3. ASSUME NEW f \in EndEvents, IsTold(f)', f.id = e.id PROVE f = e
      <4>1. ~ IsTold(f)
        BY <1>1, <3>1, <3>3
      <4>2. f \in new
        BY <1>0, <3>3, <4>1 DEF NewEnds
      <4> QED
        BY <3>2, <3>3, <4>2
    <3> QED
      BY <3>2, <3>3 DEF IsStored
  <2> QED
    BY <2>1, <2>2
<1> QED
  BY <1>2 DEF ToldIsOver

(* A row has one taker.                                                    *)
LEMMA OneTakerStep ==
  ASSUME CoordinationIInv, [CoordinationNext]_coordinationVars
  PROVE  OneTaker'
<1> USE DEF CoordinationIInv
<1> SUFFICES ASSUME NEW i \in Ids
             PROVE  /\ given'[i] \in {0, 1}
                    /\ given'[i] = 1 => row'[i] # Unset /\ (IsStored(i)' => row'[i].state = "claimed")
                    /\ \A p \in Taking(i)' : given'[i] = 0 /\ Taking(i)' = {p}
  BY DEF OneTaker
<1>0. /\ given[i] \in {0, 1}
      /\ given[i] = 1 => row[i] # Unset /\ (IsStored(i) => row[i].state = "claimed")
      /\ \A p \in Taking(i) : given[i] = 0 /\ Taking(i) = {p}
  BY DEF OneTaker
<1>1. Kept(i)
  BY RowStep
<1>2. row[i] # Unset /\ (IsStored(i) => row[i].state = "claimed")
        => row'[i] # Unset /\ (IsStored(i)' => row'[i].state = "claimed")
  BY <1>1 DEF Kept
<1>3. CASE given'[i] = given[i] /\ Taking(i)' \subseteq Taking(i)
  BY <1>0, <1>2, <1>3
<1>4. ASSUME NEW p \in Callers, Claimed(p, i)
      PROVE  given'[i] = 0 /\ Taking(i)' \subseteq {p}
  <2>1. IsStored(i) /\ row[i].state = "open"
    BY <1>4 DEF Claimed
  <2>2. Taking(i) = {}
    BY <2>1 DEF ReachesItsAddressee
  <2>3. given[i] = 0
    BY <1>0, <2>1
  <2> QED
    BY <1>4, <2>2, <2>3 DEF Claimed
<1>5. ASSUME NEW p \in Taking(i), given'[i] = given[i] + 1, Taking(i)' \subseteq Taking(i) \ {p}
      PROVE  /\ given'[i] = 1 /\ Taking(i)' = {}
             /\ row[i] # Unset /\ (IsStored(i) => row[i].state = "claimed")
  <2>1. given[i] = 0 /\ Taking(i) = {p}
    BY <1>0
  <2>2. row[i] # Unset /\ (IsStored(i) => row[i].state = "claimed")
    BY TakingIsTold DEF ToldIsOver
  <2> QED
    BY <1>5, <2>1, <2>2
<1>6. TakersOf(i)
  BY TakingStep
<1> QED
  BY <1>2, <1>3, <1>4, <1>5, <1>6 DEF TakersOf

(* What a call takes was offered to it.                                    *)
LEMMA AddresseeStep ==
  ASSUME CoordinationIInv, [CoordinationNext]_coordinationVars
  PROVE  ReachesItsAddressee'
<1> USE DEF CoordinationIInv
<1> DEFINE For(p, o) == /\ o.queue = Hall \/ o.queue = Feature[p]
                        /\ o.kind = "provider" => o.to = Provider[p]
                        /\ o.kind = "session" => o.to = Session[p]
<1> SUFFICES ASSUME NEW i \in Ids, NEW p \in Taking(i)', IsStored(i)'
             PROVE  row'[i].state = "claimed" /\ row'[i].by = Owner[p] /\ For(p, row'[i].offer)
  BY DEF ReachesItsAddressee
<1>1. CASE p \in Taking(i)
  <2>1. Kept(i) /\ row[i] # Unset
    BY <1>1, RowStep, TakingIsTold DEF ToldIsOver
  <2>2. IsStored(i)
    BY <2>1 DEF Kept
  <2>3. row[i].state = "claimed" /\ row[i].by = Owner[p] /\ For(p, row[i].offer)
    BY <1>1, <2>2 DEF ReachesItsAddressee
  <2>4. row'[i] = row[i]
    BY <2>1, <2>2, <2>3 DEF Kept
  <2> QED
    BY <2>3, <2>4
<1>2. CASE p \notin Taking(i)
  <2>1. Claimed(p, i)
    BY <1>2, TakingStep DEF TakersOf, Claimed
  <2>2. row'[i].state = "claimed" /\ row'[i].by = Owner[p] /\ Sees(p, row'[i].offer)
    BY <2>1 DEF Claimed
  <2>3. For(p, row'[i].offer)
    BY <2>2 DEF Sees, Addressed
  <2> QED
    BY <2>2, <2>3
<1> QED
  BY <1>1, <1>2

(* Every action, of any number of callers and of the sweep, keeps it.      *)
THEOREM CoordinationInductive == CoordinationSpec => []CoordinationIInv
<1>1. CoordinationIInv /\ [CoordinationNext]_coordinationVars => CoordinationIInv'
  BY CoordinationTypeStep, ChosenStep, ReportsStep, ToldIsOverStep, OneTakerStep, AddresseeStep DEF CoordinationIInv
<1> QED
  BY CoordinationInitIInv, <1>1, PTL DEF CoordinationSpec

-----------------------------------------------------------------------------
(* What follows from it.                                                   *)

(* Rows, calls, the sweep and the spool's events stay well formed.         *)
THEOREM CoordinationTypeCorrect == CoordinationSpec => []CoordinationTypeOK
<1>1. CoordinationIInv => CoordinationTypeOK
  BY DEF CoordinationIInv
<1> QED
  BY CoordinationInductive, <1>1, PTL

(* With one taker, an offer is given once.                                 *)
LEMMA GivenOnce ==
  ASSUME OneTaker
  PROVE  TakenOnce
<1> SUFFICES ASSUME NEW i \in Ids
             PROVE  given[i] + Cardinality(Taking(i)) <= 1
  BY DEF TakenOnce
<1>1. given[i] \in {0, 1} /\ \A p \in Taking(i) : given[i] = 0 /\ Taking(i) = {p}
  BY DEF OneTaker
<1>2. CASE Taking(i) = {}
  <2>1. Cardinality(Taking(i)) = 0
    BY <1>2, FS_EmptySet
  <2> QED
    BY <1>1, <2>1
<1>3. CASE Taking(i) # {}
  <2>1. PICK p \in Taking(i) : given[i] = 0 /\ Taking(i) = {p}
    BY <1>1, <1>3
  <2>2. Cardinality(Taking(i)) = 1
    BY <2>1, FS_Singleton
  <2> QED
    BY <2>1, <2>2
<1> QED
  BY <1>2, <1>3

(* store/memory/coordination.rs, accept_handoff and pop_message: one       *)
(* conditional UPDATE decides a claim, so the content of a row goes to one *)
(* call, of a process it was meant for, and one end is told of it.         *)
THEOREM CoordinationHolds == CoordinationSpec => []CoordinationInv
<1>1. ASSUME CoordinationIInv PROVE CoordinationInv
  <2>1. CoordinationTypeOK /\ ToldIsOver /\ OneTaker /\ ReachesItsAddressee
    BY <1>1 DEF CoordinationIInv
  <2>2. \A e \in events : e \in EndEvents /\ IsTold(e)
    BY <2>1 DEF CoordinationTypeOK, IsTold
  <2>3. OneEnding
    BY <2>1, <2>2 DEF OneEnding, ToldIsOver
  <2> QED
    BY <2>1, <2>3, GivenOnce DEF CoordinationInv
<1>2. CoordinationIInv => CoordinationInv
  BY <1>1
<1> QED
  BY CoordinationInductive, <1>2, PTL

(* A claim the UPDATE refuses was for a row that is no longer open: the    *)
(* call read the clock before, and saw that the row was for it.            *)
THEOREM LosersLost == CoordinationSpec => LoserLost
<1> DEFINE Lost(p) == call[p].pc = "claim" /\ call'[p].pc = "idle" /\ kills' = kills
                        => ~ Live(call[p].want, clock)
<1>1. ASSUME CoordinationIInv, [CoordinationNext]_coordinationVars, NEW p \in Callers,
             call[p].pc = "claim", call'[p].pc = "idle", kills' = kills
      PROVE  ~ Live(call[p].want, clock)
  <2> USE DEF CoordinationIInv
  <2>1. Claim(p)
    <3>1. ASSUME NEW q \in Callers, q # p,
                 Cancel(q) \/ Choose(q) \/ Claim(q) \/ Report(q)
          PROVE  call'[p] = call[p]
      <4>1. \A c : call' = [call EXCEPT ![q] = c] => call'[p] = call[p]
        BY <1>1, <3>1 DEF CoordinationTypeOK
      <4> QED
        BY <3>1, <4>1 DEF Cancel, Choose, Claim, Report, Then, Ends
    <3>2. ~ Cancel(p) /\ ~ Choose(p) /\ ~ Report(p)
      BY <1>1 DEF Cancel, Choose, Report
    <3>3. ASSUME NEW q \in Callers PROVE ~ Dies(q)
      BY <1>1 DEF Dies, CoordinationTypeOK
    <3>4. ~ SweepDies
      BY <1>1 DEF SweepDies, CoordinationTypeOK
    <3>5. call' # call
      BY <1>1
    <3> QED
      BY <1>1, <3>1, <3>2, <3>3, <3>4, <3>5
         DEF CoordinationNext, SweepStep, coordinationVars, Begin, CancelAll, SweepStarts, SweepExpires, SweepReports,
             SweepPrunes, ClockTicks
  <2>2. PICK i \in Ids :
          /\ i = call[p].want
          /\ Then(p, Event(i, "claimed", p)) \/ ~ Live(i, call[p].at)
    BY <1>1, <2>1, ClaimRow
  <2>3. ~ Then(p, Event(i, "claimed", p))
    <3>1. [NoCall EXCEPT !.pc = "report", !.event = Event(i, "claimed", p)].pc = "report"
      BY DEF NoCall
    <3> QED
      BY <1>1, <3>1 DEF Then, CoordinationTypeOK
  <2>4. call[p].at <= clock /\ call[p].at \in Instants /\ clock \in Instants
    BY <1>1 DEF ChosenIsSeen, CoordinationTypeOK
  <2>5. IsStored(i) => row[i].expires \in 0 .. MaxClock + Lifetime
    BY <1>1, StoredIsRow DEF Rows
  <2>6. ~ Live(i, clock)
    BY <2>2, <2>3, <2>4, <2>5, CoordinationBounds DEF Live, Instants
  <2> QED
    BY <2>2, <2>6
<1>2. CoordinationIInv /\ [CoordinationNext]_coordinationVars => \A p \in Callers : Lost(p)
  BY <1>1
<1>3. CoordinationIInv /\ [CoordinationNext]_coordinationVars => [\A p \in Callers : Lost(p)]_coordinationVars
  BY <1>2
<1> QED
  BY CoordinationInductive, <1>3, PTL DEF CoordinationSpec, LoserLost
=============================================================================
