----------------------------- MODULE RunReceipt -----------------------------
(***************************************************************************)
(* The Run Receipts of one feature: execution/run.json, the archive beside *)
(* it (src/store/feature/run.rs) and the `ivar feature execute` commands   *)
(* that move a run through its states (src/action/execute).                *)
(*                                                                         *)
(* Every command reads the current receipt, changes its copy and writes it *)
(* back whole; one that ends the run then archives the receipt and removes *)
(* run.json.  `execute start` does so under run.json.lock, the others      *)
(* under no lock.  A command may die between any two file operations.      *)
(***************************************************************************)
EXTENDS Integers

CONSTANTS
  Procs,      \* the processes that run commands, one at a time each
  Workloads,  \* the commands each of them may run: the choices of Init
  MaxRuns,    \* bound: runs started
  MaxMarks,   \* bound: checkpoints of one run
  MaxPlans,   \* bound: revisions of the plan
  MaxDeaths,  \* bound: commands killed midway
  None

Commands == {"start", "resume", "restart", "succeed", "block", "checkpoint",
             "accept", "interrupt"}

ASSUME RunReceiptAssumption ==
  /\ Workloads \subseteq [Procs -> SUBSET Commands]
  /\ MaxRuns \in Nat \ {0} /\ MaxMarks \in Nat /\ MaxPlans \in Nat
  /\ MaxDeaths \in Nat
  /\ None \notin Procs \cup 0 .. MaxPlans

VARIABLES
  ops,       \* the commands each process may run in this behaviour
  current,   \* run.json
  archive,   \* archive/runs/<id>.json
  plan,      \* the plan file
  approved,  \* the plan the gate's approval names
  approvals, \* every plan ever approved
  lock,      \* the holder of run.json.lock
  proc,
  runs,      \* the runs started so far
  deaths

vars == <<ops, current, archive, plan, approved, approvals, lock, proc, runs, deaths>>

Terminal == {"succeeded", "interrupted"}  \* and "failed", like "succeeded"
Live     == {"active", "blocked", "diverged"}
Plans    == 0 .. MaxPlans
Ids      == 1 .. MaxRuns

Receipts == [id : Ids, status : Live \cup Terminal, plan : Plans, marks : 0 .. MaxMarks]

NoReceipt == [id |-> 0]

Idle == [op |-> None, pc |-> "idle", copy |-> NoReceipt, plan |-> 0]

Init ==
  /\ ops \in Workloads
  /\ current = NoReceipt
  /\ archive = [id \in Ids |-> NoReceipt]
  /\ plan = 0
  /\ approved = 0
  /\ approvals = {0}
  /\ lock = None
  /\ proc = [p \in Procs |-> Idle]
  /\ runs = 0
  /\ deaths = 0

-----------------------------------------------------------------------------
(* The transitions of a receipt.  Each appends a checkpoint, MaxMarks of   *)
(* them at most.                                                           *)

In(receipt, statuses) == receipt.status \in statuses /\ receipt.marks < MaxMarks

Mark(receipt, status) == [receipt EXCEPT !.status = status, !.marks = @ + 1]

Plain == {"start", "resume", "restart"}  \* the modes of execute start

(* The command ends; the kernel drops the lock if it held it. *)
Release(p) == lock' = IF lock = p THEN None ELSE lock

Refused(p) == proc' = [proc EXCEPT ![p] = Idle] /\ Release(p)

Writes(p, receipt) ==
  /\ proc' = [proc EXCEPT ![p].pc = "write", ![p].copy = receipt]
  /\ UNCHANGED lock

Reading(p, which) == proc[p].pc = "read" /\ proc[p].op \in which

Unwritten == UNCHANGED <<ops, current, archive, plan, approved, approvals, runs, deaths>>

-----------------------------------------------------------------------------
(* A command begins.  Start and accept-revision first compare the plan     *)
(* file with the approval.                                                 *)

Begin(p, op) ==
  /\ proc[p].pc = "idle"
  /\ op \in ops[p]
  /\ proc' = [proc EXCEPT ![p].op = op,
                          ![p].pc = IF op \in Plain \cup {"accept"} THEN "plan" ELSE "read"]
  /\ UNCHANGED lock
  /\ Unwritten

AnyPlan == TRUE  \* mutant: the approval is not compared

PlanApproved == plan = approved

ReadPlan(p) ==
  /\ proc[p].pc = "plan"
  /\ IF PlanApproved
       THEN /\ proc' = [proc EXCEPT ![p].pc = IF proc[p].op = "accept" THEN "read" ELSE "lock",
                                    ![p].plan = plan]
            /\ UNCHANGED lock
       ELSE Refused(p)
  /\ Unwritten

NoLock(p) ==  \* mutant: start takes no lock either
  /\ proc[p].pc = "lock"
  /\ proc' = [proc EXCEPT ![p].pc = "read"]
  /\ UNCHANGED lock
  /\ Unwritten

Lock(p) ==
  /\ proc[p].pc = "lock"
  /\ lock = None
  /\ lock' = p
  /\ proc' = [proc EXCEPT ![p].pc = "read"]
  /\ Unwritten

-----------------------------------------------------------------------------
(* A command reads run.json and decides.  Any of them may be refused, for  *)
(* the run's status or for what is not modelled: sessions, wave numbers,   *)
(* the coordinator's report, git.                                          *)

StartsFirst(p) ==
  /\ Reading(p, Plain)
  /\ current = NoReceipt
  /\ proc' = [proc EXCEPT ![p].pc = "create"]
  /\ UNCHANGED lock
  /\ Unwritten

StartsNext(p) ==
  /\ Reading(p, {"start", "restart"})
  /\ current # NoReceipt
  /\ current.status \in Terminal
  /\ proc' = [proc EXCEPT ![p].pc = "archive"]
  /\ UNCHANGED lock
  /\ Unwritten

Interrupts(p) ==
  /\ Reading(p, {"restart", "interrupt"})
  /\ current # NoReceipt
  /\ In(current, Live)
  /\ Writes(p, Mark(current, "interrupted"))
  /\ Unwritten

Resumes(p) ==
  /\ Reading(p, {"resume"})
  /\ current # NoReceipt
  /\ In(current, {"active", "blocked"})
  /\ Writes(p, Mark(current, "active"))
  /\ Unwritten

Finishes(p) ==
  /\ Reading(p, {"succeed", "block"})
  /\ current # NoReceipt
  /\ In(current, {"active"})
  /\ Writes(p, Mark(current, CASE plan # current.plan    -> "diverged"
                               [] proc[p].op = "block"   -> "blocked"
                               [] proc[p].op = "succeed" -> "succeeded"))
  /\ Unwritten

Checkpoints(p) ==
  /\ Reading(p, {"checkpoint"})
  /\ current # NoReceipt
  /\ In(current, {"active"})
  /\ Writes(p, Mark(current, "active"))
  /\ Unwritten

AcceptsRevision(p) ==
  /\ Reading(p, {"accept"})
  /\ current # NoReceipt
  /\ In(current, {"diverged"})
  /\ proc[p].plan # current.plan
  /\ Writes(p, [Mark(current, "blocked") EXCEPT !.plan = proc[p].plan])
  /\ Unwritten

Refuses(p) ==
  /\ proc[p].pc = "read"
  /\ Refused(p)
  /\ Unwritten

-----------------------------------------------------------------------------
(* The file operations that follow.                                        *)

ArchivesFirst(p) ==  \* mutant: the archive entry precedes the receipt it is of
  /\ proc[p].pc = "write"
  /\ IF proc[p].copy.status \in Terminal
       THEN /\ archive' = [archive EXCEPT ![proc[p].copy.id] = proc[p].copy]
            /\ proc' = [proc EXCEPT ![p].pc = "remove"]
            /\ UNCHANGED <<ops, current, lock>>
       ELSE current' = proc[p].copy /\ Refused(p) /\ UNCHANGED archive
  /\ UNCHANGED <<ops, plan, approved, approvals, runs, deaths>>

WriteReceipt(p) ==
  /\ proc[p].pc = "write"
  /\ current' = proc[p].copy
  /\ IF proc[p].copy.status \in Terminal
       THEN proc' = [proc EXCEPT ![p].pc = "archive"] /\ UNCHANGED lock
       ELSE Refused(p)
  /\ UNCHANGED <<ops, archive, plan, approved, approvals, runs, deaths>>

AfterRemove(p) ==
  IF proc[p].op \in Plain
    THEN proc' = [proc EXCEPT ![p].pc = "create"] /\ UNCHANGED lock
    ELSE Refused(p)

(* The archive has no entry of the receipt's id, or this very one. *)
Archivable(receipt) == archive[receipt.id] \in {NoReceipt, receipt}

(* archive_current reads run.json again and archives whatever is there. *)
ReadToArchive(p) ==
  /\ proc[p].pc = "archive"
  /\ IF current = NoReceipt
       THEN AfterRemove(p)
       ELSE IF current.status \in Terminal /\ Archivable(current)
         THEN /\ proc' = [proc EXCEPT ![p].copy = current,
                            ![p].pc = IF archive[current.id] = current
                                        THEN "remove" ELSE "archiveWrite"]
              /\ UNCHANGED lock
         ELSE Refused(p)
  /\ Unwritten

OneEntry(p) ==  \* mutant: every run of the feature has the same archive entry
  /\ proc[p].pc = "archiveWrite"
  /\ archive' = [archive EXCEPT ![1] = proc[p].copy]
  /\ proc' = [proc EXCEPT ![p].pc = "remove"]
  /\ UNCHANGED <<ops, current, plan, approved, approvals, lock, runs, deaths>>

WriteArchive(p) ==
  /\ proc[p].pc = "archiveWrite"
  /\ archive' = [archive EXCEPT ![proc[p].copy.id] = proc[p].copy]
  /\ proc' = [proc EXCEPT ![p].pc = "remove"]
  /\ UNCHANGED <<ops, current, plan, approved, approvals, lock, runs, deaths>>

RemoveReceipt(p) ==
  /\ proc[p].pc = "remove"
  /\ current' = NoReceipt
  /\ AfterRemove(p)
  /\ UNCHANGED <<ops, archive, plan, approved, approvals, runs, deaths>>

CreateReceipt(p) ==
  /\ proc[p].pc = "create"
  /\ runs < MaxRuns
  /\ runs' = runs + 1
  /\ current' = [id |-> runs + 1, status |-> "active", plan |-> proc[p].plan, marks |-> 0]
  /\ Refused(p)
  /\ UNCHANGED <<ops, archive, plan, approved, approvals, deaths>>

Dies(p) ==
  /\ proc[p].pc # "idle"
  /\ deaths < MaxDeaths
  /\ deaths' = deaths + 1
  /\ Refused(p)
  /\ UNCHANGED <<ops, current, archive, plan, approved, approvals, runs>>

EditPlan ==
  /\ plan < MaxPlans
  /\ plan' = plan + 1
  /\ UNCHANGED <<ops, current, archive, approved, approvals, lock, proc, runs, deaths>>

ApprovePlan ==
  /\ approved' = plan
  /\ approvals' = approvals \cup {plan}
  /\ UNCHANGED <<ops, current, archive, plan, lock, proc, runs, deaths>>

InvalidatePlan ==
  /\ approved' = None
  /\ UNCHANGED <<ops, current, archive, plan, approvals, lock, proc, runs, deaths>>

Step(p) ==
  \/ ReadPlan(p) \/ Lock(p) \/ StartsFirst(p) \/ StartsNext(p) \/ Interrupts(p)
  \/ Resumes(p) \/ Finishes(p) \/ Checkpoints(p) \/ AcceptsRevision(p) \/ Refuses(p)
  \/ WriteReceipt(p) \/ ReadToArchive(p) \/ WriteArchive(p) \/ RemoveReceipt(p)
  \/ CreateReceipt(p)

Next ==
  \/ \E p \in Procs : Step(p) \/ Dies(p) \/ \E op \in Commands : Begin(p, op)
  \/ EditPlan
  \/ ApprovePlan
  \/ InvalidatePlan

Spec == Init /\ [][Next]_vars

-----------------------------------------------------------------------------
(* Properties.                                                             *)

TypeOK ==
  /\ ops \in Workloads
  /\ current \in Receipts \cup {NoReceipt}
  /\ archive \in [Ids -> Receipts \cup {NoReceipt}]
  /\ plan \in Plans
  /\ approved \in Plans \cup {None}
  /\ approvals \in SUBSET Plans
  /\ lock \in Procs \cup {None}
  /\ proc \in [Procs ->
       [op : Commands \cup {None},
        pc : {"idle", "plan", "lock", "read", "write", "archive", "archiveWrite",
              "remove", "create"},
        copy : Receipts \cup {NoReceipt},
        plan : Plans]]
  /\ runs \in 0 .. MaxRuns
  /\ deaths \in 0 .. MaxDeaths

(* Nothing is ever deleted (run.rs): every run started is the current one  *)
(* or in the archive, whatever crashed in between.                         *)
NoRunLost == \A id \in 1 .. runs : current.id = id \/ archive[id] # NoReceipt

(* A run that is both current and archived is so with the same content:    *)
(* no archived run comes back to life in run.json, and no start is refused *)
(* for ever with execute.archive_conflict.                                 *)
OneTruth ==
  current # NoReceipt => archive[current.id] \in {NoReceipt, current}

(* An archive entry is evidence: it is never overwritten (archive).        *)
ArchiveImmutable ==
  [][\A id \in Ids : archive[id] # NoReceipt => archive'[id] = archive[id]]_archive

(* A run is pinned, from its start and by every accepted revision, to a    *)
(* plan that somebody approved.                                            *)
PinnedPlanWasApproved ==
  /\ current # NoReceipt => current.plan \in approvals
  /\ \A id \in Ids : archive[id] # NoReceipt => archive[id].plan \in approvals

(* A current run that is over stays over until it has been archived.       *)
TerminalIsFinal ==
  [][current # NoReceipt /\ current.status \in Terminal
       => \/ current'.id # current.id /\ archive[current.id] # NoReceipt
          \/ current' = current]_current

(* What is over is evidence: in run.json until it is archived, and in the  *)
(* archive as it ended.                                                    *)
OverIsFinal == ArchiveImmutable /\ TerminalIsFinal

-----------------------------------------------------------------------------
(* What makes them inductive.                                              *)

(* Every plan a command or a receipt holds was approved.                   *)
ApprovedPlans ==
  /\ 0 \in approvals
  /\ approved \in approvals \cup {None}
  /\ \A p \in Procs :
       /\ proc[p].plan \in approvals
       /\ proc[p].copy # NoReceipt => proc[p].copy.plan \in approvals

(* The workloads in which no command's read and write can be interleaved   *)
(* with another's: all take the lock, or all are of one process.           *)
OneWriter ==
  \A o \in Workloads :
    \/ \A p \in Procs : o[p] \subseteq Plain
    \/ \A p, q \in Procs : o[p] # {} /\ o[q] # {} => p = q

(* Between its read of run.json and its last operation on it.              *)
Busy(p) == proc[p].pc \notin {"idle", "plan", "lock"}

(* A process runs only commands of its workload.                           *)
OpsObeyed == \A p \in Procs : proc[p].pc # "idle" => proc[p].op \in ops[p]

(* The commands of execute start hold run.json.lock from their read on.    *)
StartsLocked == \A p \in Procs : Busy(p) /\ proc[p].op \in Plain => lock = p

(* Ids are given once, in order, and the archive holds what is over.       *)
RunsNumbered ==
  /\ current # NoReceipt => current.id <= runs
  /\ \A id \in Ids :
       archive[id] # NoReceipt =>
         /\ id <= runs
         /\ archive[id].id = id
         /\ archive[id].status \in Terminal

(* What a command knows of the files at each of its operations on them.    *)
Knows(p) ==
  /\ proc[p].pc = "write" =>
       /\ current # NoReceipt /\ current.status \in Live
       /\ proc[p].copy # NoReceipt /\ proc[p].copy.id = current.id
  /\ proc[p].pc = "archiveWrite" =>
       /\ current # NoReceipt /\ current.status \in Terminal
       /\ proc[p].copy = current
       /\ archive[current.id] = NoReceipt
  /\ proc[p].pc = "remove" => current # NoReceipt /\ archive[current.id] = current
  /\ proc[p].pc = "create" => current = NoReceipt

(* Every command does: nothing it read is stale when it uses it.           *)
KnowsFiles == \A p \in Procs : Knows(p)

(* The inductive invariant, under OneWriter.                               *)
IInv ==
  /\ TypeOK
  /\ OpsObeyed
  /\ StartsLocked
  /\ RunsNumbered
  /\ KnowsFiles
  /\ OneTruth
  /\ NoRunLost
=============================================================================
