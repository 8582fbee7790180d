------------------------ MODULE RunReceiptRenameProofs ------------------------
(***************************************************************************)
(* Proofs about RunReceipt and about Rename, for any processes and any     *)
(* bounds: the run receipts first, then the rename.                        *)
(*                                                                         *)
(* RunReceipt.  For any workload: the type, and that only approved plans   *)
(* are pinned.  For the workloads with OneWriter, those where no two       *)
(* commands are in run.json at once, the inductive invariant IInv:         *)
(* AtMostOneBusy is where the assumption and run.json.lock are used, and   *)
(* it lets FilesStep treat the files as the one busy command left them.    *)
(*                                                                         *)
(* Rename.  With OneRun, one run of the command at a time, the inductive   *)
(* invariant RenameIInv: its types and HallSound hold step by step; then a *)
(* step from rest rests or starts to move (RestsStep), one while the       *)
(* marker moves keeps it moving, brings it to rest or gets it stuck        *)
(* (MovingStep), and a hall that is stuck stays stuck (StuckStep).         *)
(***************************************************************************)
EXTENDS RunReceipt, Rename, WellFoundedInduction, TLAPS


(* A checkpoint leaves a receipt a receipt.                                *)
LEMMA MarkType ==
  ASSUME TypeOK, current # NoReceipt, current.marks < MaxMarks,
         NEW status \in Live \cup Terminal
  PROVE  Mark(current, status) \in Receipts
<1>1. current \in Receipts
  BY DEF TypeOK
<1>2. current.marks + 1 \in 0 .. MaxMarks
  BY <1>1, RunReceiptAssumption DEF Receipts
<1>3. [current EXCEPT !.status = status, !.marks = current.marks + 1] \in Receipts
  <2> DEFINE n == current.marks + 1
  <2> HIDE DEF n
  <2>1. n \in 0 .. MaxMarks
    BY <1>2 DEF n
  <2>2. [current EXCEPT !.status = status, !.marks = n] \in Receipts
    BY <1>1, <2>1 DEF Receipts
  <2> QED
    BY <2>2 DEF n
<1> QED
  BY <1>3 DEF Mark

(* Every step leaves every variable in its type.                           *)
LEMMA TypeStep ==
  ASSUME TypeOK, [Next]_vars
  PROVE  TypeOK'
<1> DEFINE Pcs == {"idle", "plan", "lock", "read", "write", "archive", "archiveWrite",
                   "remove", "create"}
           States == [op : Commands \cup {None}, pc : Pcs,
                      copy : Receipts \cup {NoReceipt}, plan : Plans]
<1>idle. Idle \in States
  BY RunReceiptAssumption DEF Idle, Plans
<1>refused. ASSUME NEW p \in Procs, Refused(p)
            PROVE  proc' \in [Procs -> States] /\ lock' \in Procs \cup {None}
  BY <1>refused, <1>idle DEF Refused, Release, TypeOK
<1>1. ASSUME NEW p \in Procs, NEW op \in Commands, Begin(p, op) PROVE TypeOK'
  BY <1>1 DEF Begin, Unwritten, TypeOK
<1>2. ASSUME NEW p \in Procs, ReadPlan(p) PROVE TypeOK'
  <2>1. CASE PlanApproved
    BY <1>2, <2>1 DEF ReadPlan, Unwritten, TypeOK
  <2>2. CASE ~PlanApproved
    BY <1>2, <2>2, <1>refused DEF ReadPlan, Unwritten, TypeOK
  <2> QED BY <2>1, <2>2
<1>3. ASSUME NEW p \in Procs, Lock(p) PROVE TypeOK'
  BY <1>3 DEF Lock, Unwritten, TypeOK
<1>4. ASSUME NEW p \in Procs, StartsFirst(p) \/ StartsNext(p) PROVE TypeOK'
  BY <1>4 DEF StartsFirst, StartsNext, Unwritten, TypeOK
<1>writes. ASSUME NEW p \in Procs, NEW receipt \in Receipts, Writes(p, receipt), Unwritten
           PROVE  TypeOK'
  <2>1. proc[p] \in States
    BY DEF TypeOK
  <2>2. [proc[p] EXCEPT !.pc = "write", !.copy = receipt] \in States
    BY <2>1
  <2>3. proc' = [proc EXCEPT ![p] = [proc[p] EXCEPT !.pc = "write", !.copy = receipt]]
    BY <1>writes DEF Writes, TypeOK
  <2>4. proc' \in [Procs -> States]
    BY <2>2, <2>3 DEF TypeOK
  <2> QED
    BY <1>writes, <2>4 DEF Writes, Unwritten, TypeOK
<1>5. ASSUME NEW p \in Procs, Interrupts(p) PROVE TypeOK'
  BY <1>5, MarkType, <1>writes DEF Interrupts, In, Terminal
<1>6. ASSUME NEW p \in Procs, Resumes(p) PROVE TypeOK'
  BY <1>6, MarkType, <1>writes DEF Resumes, In, Live
<1>7. ASSUME NEW p \in Procs, Finishes(p) PROVE TypeOK'
  <2> DEFINE status == CASE plan # current.plan    -> "diverged"
                         [] proc[p].op = "block"   -> "blocked"
                         [] proc[p].op = "succeed" -> "succeeded"
  <2>1. status \in Live \cup Terminal
    BY <1>7 DEF Finishes, Reading, Live, Terminal
  <2> QED
    BY <1>7, <2>1, MarkType, <1>writes DEF Finishes, In
<1>8. ASSUME NEW p \in Procs, Checkpoints(p) PROVE TypeOK'
  BY <1>8, MarkType, <1>writes DEF Checkpoints, In, Live
<1>9. ASSUME NEW p \in Procs, AcceptsRevision(p) PROVE TypeOK'
  <2>1. Mark(current, "blocked") \in Receipts
    BY <1>9, MarkType DEF AcceptsRevision, In, Live
  <2>2. [Mark(current, "blocked") EXCEPT !.plan = proc[p].plan] \in Receipts
    BY <2>1 DEF TypeOK, Receipts
  <2> QED
    BY <1>9, <2>2, <1>writes DEF AcceptsRevision, In
<1>10. ASSUME NEW p \in Procs, Refuses(p) PROVE TypeOK'
  BY <1>10, <1>refused DEF Refuses, Unwritten, TypeOK
<1>11. ASSUME NEW p \in Procs, WriteReceipt(p) PROVE TypeOK'
  <2>1. current' \in Receipts \cup {NoReceipt}
    BY <1>11 DEF WriteReceipt, TypeOK
  <2>2. proc' \in [Procs -> States] /\ lock' \in Procs \cup {None}
    BY <1>11, <1>refused DEF WriteReceipt, TypeOK
  <2> QED
    BY <1>11, <2>1, <2>2 DEF WriteReceipt, TypeOK
<1>after. ASSUME NEW p \in Procs, AfterRemove(p)
          PROVE  proc' \in [Procs -> States] /\ lock' \in Procs \cup {None}
  BY <1>after, <1>refused DEF AfterRemove, TypeOK
<1>12. ASSUME NEW p \in Procs, ReadToArchive(p) PROVE TypeOK'
  <2>1. proc' \in [Procs -> States] /\ lock' \in Procs \cup {None}
    BY <1>12, <1>after, <1>refused DEF ReadToArchive, TypeOK
  <2> QED
    BY <1>12, <2>1 DEF ReadToArchive, Unwritten, TypeOK
<1>13. ASSUME NEW p \in Procs, WriteArchive(p) PROVE TypeOK'
  BY <1>13 DEF WriteArchive, TypeOK
<1>14. ASSUME NEW p \in Procs, RemoveReceipt(p) PROVE TypeOK'
  BY <1>14, <1>after DEF RemoveReceipt, TypeOK
<1>15. ASSUME NEW p \in Procs, CreateReceipt(p) PROVE TypeOK'
  <2>1. runs' \in 0 .. MaxRuns /\ runs + 1 \in Ids
    BY <1>15, RunReceiptAssumption DEF CreateReceipt, TypeOK, Ids
  <2>2. current' \in Receipts
    BY <1>15, <2>1, RunReceiptAssumption DEF CreateReceipt, TypeOK, Receipts, Live
  <2> QED
    BY <1>15, <2>1, <2>2, <1>refused DEF CreateReceipt, TypeOK
<1>16. ASSUME NEW p \in Procs, Dies(p) PROVE TypeOK'
  <2>1. deaths' \in 0 .. MaxDeaths
    BY <1>16, RunReceiptAssumption DEF Dies, TypeOK
  <2> QED
    BY <1>16, <2>1, <1>refused DEF Dies, TypeOK
<1>17. CASE EditPlan
  BY <1>17, RunReceiptAssumption DEF EditPlan, TypeOK, Plans
<1>18. CASE ApprovePlan
  BY <1>18 DEF ApprovePlan, TypeOK
<1>19. CASE InvalidatePlan
  BY <1>19 DEF InvalidatePlan, TypeOK
<1>20. CASE UNCHANGED vars
  BY <1>20 DEF vars, TypeOK
<1> QED
  BY <1>1, <1>2, <1>3, <1>4, <1>5, <1>6, <1>7, <1>8, <1>9, <1>10, <1>11, <1>12, <1>13,
     <1>14, <1>15, <1>16, <1>17, <1>18, <1>19, <1>20 DEF Next, Step

(* A receipt somebody changed has the plan of the receipt that was read,   *)
(* unless it accepts a revision, whose plan the gate approved.             *)
LEMMA ApprovedStep ==
  ASSUME TypeOK, ApprovedPlans, PinnedPlanWasApproved, [Next]_vars
  PROVE  ApprovedPlans' /\ PinnedPlanWasApproved'
<1> DEFINE Held(p) == /\ proc'[p].plan \in approvals
                      /\ proc'[p].copy # NoReceipt => proc'[p].copy.plan \in approvals
<1>keep. ASSUME UNCHANGED <<approved, approvals>>, \A p \in Procs : Held(p)
         PROVE  ApprovedPlans'
  BY <1>keep DEF ApprovedPlans
<1>idle. ASSUME NEW p \in Procs, Refused(p) PROVE \A q \in Procs : Held(q)
  BY <1>idle DEF Refused, Idle, TypeOK, ApprovedPlans
<1>pc. ASSUME NEW p \in Procs, NEW pc, proc' = [proc EXCEPT ![p].pc = pc]
       PROVE  \A q \in Procs : Held(q)
  BY <1>pc DEF TypeOK, ApprovedPlans
<1>files. ASSUME UNCHANGED <<current, archive, approvals>> PROVE PinnedPlanWasApproved'
  BY <1>files DEF PinnedPlanWasApproved
<1>1. ASSUME NEW p \in Procs, NEW op \in Commands, Begin(p, op)
      PROVE  ApprovedPlans' /\ PinnedPlanWasApproved'
  <2>1. \A q \in Procs : Held(q)
    BY <1>1 DEF Begin, TypeOK, ApprovedPlans
  <2> QED
    BY <1>1, <2>1, <1>keep, <1>files DEF Begin, Unwritten
<1>2. ASSUME NEW p \in Procs, ReadPlan(p) PROVE ApprovedPlans' /\ PinnedPlanWasApproved'
  <2>1. PlanApproved => plan \in approvals
    BY RunReceiptAssumption DEF PlanApproved, ApprovedPlans, TypeOK, Plans
  <2>2. \A q \in Procs : Held(q)
    <3>1. CASE PlanApproved
      BY <1>2, <2>1, <3>1 DEF ReadPlan, TypeOK, ApprovedPlans
    <3>2. CASE ~PlanApproved
      BY <1>2, <3>2, <1>idle DEF ReadPlan
    <3> QED BY <3>1, <3>2
  <2> QED
    BY <1>2, <2>2, <1>keep, <1>files DEF ReadPlan, Unwritten
<1>3. ASSUME NEW p \in Procs, Lock(p) \/ StartsFirst(p) \/ StartsNext(p)
      PROVE  ApprovedPlans' /\ PinnedPlanWasApproved'
  <2>1. \A q \in Procs : Held(q)
    BY <1>3, <1>pc DEF Lock, StartsFirst, StartsNext
  <2> QED
    BY <1>3, <2>1, <1>keep, <1>files DEF Lock, StartsFirst, StartsNext, Unwritten
<1>write. ASSUME NEW p \in Procs, NEW receipt \in Receipts, receipt.plan \in approvals,
                 Writes(p, receipt), Unwritten
          PROVE  ApprovedPlans' /\ PinnedPlanWasApproved'
  <2>1. \A q \in Procs : Held(q)
    BY <1>write DEF Writes, TypeOK, ApprovedPlans
  <2> QED
    BY <1>write, <2>1, <1>keep, <1>files DEF Unwritten
<1>4. ASSUME NEW p \in Procs,
             Interrupts(p) \/ Resumes(p) \/ Finishes(p) \/ Checkpoints(p)
      PROVE  ApprovedPlans' /\ PinnedPlanWasApproved'
  <2>1. PICK status \in Live \cup Terminal :
          /\ current # NoReceipt /\ current.marks < MaxMarks
          /\ Writes(p, Mark(current, status))
    <3>1. CASE Interrupts(p)
      BY <3>1 DEF Interrupts, In, Terminal
    <3>2. CASE Resumes(p)
      BY <3>2 DEF Resumes, In, Live
    <3>3. CASE Finishes(p)
      <4> DEFINE status == CASE plan # current.plan    -> "diverged"
                             [] proc[p].op = "block"   -> "blocked"
                             [] proc[p].op = "succeed" -> "succeeded"
      <4>1. status \in Live \cup Terminal
        BY <3>3 DEF Finishes, Reading, Live, Terminal
      <4>2. current # NoReceipt /\ current.marks < MaxMarks /\ Writes(p, Mark(current, status))
        BY <3>3 DEF Finishes, In
      <4> QED
        BY <4>1, <4>2
    <3>4. CASE Checkpoints(p)
      BY <3>4 DEF Checkpoints, In, Live
    <3> QED
      BY <1>4, <3>1, <3>2, <3>3, <3>4
  <2>2. Mark(current, status) \in Receipts
    BY <2>1, MarkType
  <2>3. Mark(current, status).plan \in approvals
    BY <2>1 DEF Mark, PinnedPlanWasApproved, TypeOK, Receipts
  <2>4. Unwritten
    BY <1>4 DEF Interrupts, Resumes, Finishes, Checkpoints
  <2> QED
    BY <2>1, <2>2, <2>3, <2>4, <1>write
<1>5. ASSUME NEW p \in Procs, AcceptsRevision(p)
      PROVE  ApprovedPlans' /\ PinnedPlanWasApproved'
  <2> DEFINE receipt == [Mark(current, "blocked") EXCEPT !.plan = proc[p].plan]
  <2>1. Mark(current, "blocked") \in Receipts
    BY <1>5, MarkType DEF AcceptsRevision, In, Live
  <2>2. receipt \in Receipts /\ receipt.plan \in approvals
    BY <2>1 DEF TypeOK, Receipts, ApprovedPlans
  <2> HIDE DEF receipt
  <2>3. Writes(p, receipt) /\ Unwritten
    BY <1>5 DEF AcceptsRevision, receipt
  <2> QED
    BY <2>2, <2>3, <1>write
<1>6. ASSUME NEW p \in Procs, Refuses(p) \/ Dies(p)
      PROVE  ApprovedPlans' /\ PinnedPlanWasApproved'
  BY <1>6, <1>idle, <1>keep, <1>files DEF Refuses, Dies, Unwritten
<1>7. ASSUME NEW p \in Procs, WriteReceipt(p) PROVE ApprovedPlans' /\ PinnedPlanWasApproved'
  <2>1. \A q \in Procs : Held(q)
    BY <1>7, <1>pc, <1>idle DEF WriteReceipt
  <2>2. PinnedPlanWasApproved'
    BY <1>7 DEF WriteReceipt, PinnedPlanWasApproved, ApprovedPlans
  <2> QED
    BY <1>7, <2>1, <2>2, <1>keep DEF WriteReceipt
<1>after. ASSUME NEW p \in Procs, AfterRemove(p) PROVE \A q \in Procs : Held(q)
  BY <1>after, <1>pc, <1>idle DEF AfterRemove
<1>8. ASSUME NEW p \in Procs, ReadToArchive(p) PROVE ApprovedPlans' /\ PinnedPlanWasApproved'
  <2>1. \A q \in Procs : Held(q)
    <3>1. CASE current = NoReceipt
      BY <1>8, <3>1, <1>after DEF ReadToArchive
    <3>2. CASE current # NoReceipt /\ current.status \in Terminal /\ Archivable(current)
      BY <1>8, <3>2 DEF ReadToArchive, TypeOK, ApprovedPlans, PinnedPlanWasApproved
    <3>3. CASE current # NoReceipt /\ ~(current.status \in Terminal /\ Archivable(current))
      BY <1>8, <3>3, <1>idle DEF ReadToArchive
    <3> QED BY <3>1, <3>2, <3>3
  <2> QED
    BY <1>8, <2>1, <1>keep, <1>files DEF ReadToArchive, Unwritten
<1>9. ASSUME NEW p \in Procs, WriteArchive(p) PROVE ApprovedPlans' /\ PinnedPlanWasApproved'
  <2>1. \A q \in Procs : Held(q)
    BY <1>9, <1>pc DEF WriteArchive
  <2>2. PinnedPlanWasApproved'
    BY <1>9 DEF WriteArchive, PinnedPlanWasApproved, ApprovedPlans, TypeOK
  <2> QED
    BY <1>9, <2>1, <2>2, <1>keep DEF WriteArchive
<1>10. ASSUME NEW p \in Procs, RemoveReceipt(p) PROVE ApprovedPlans' /\ PinnedPlanWasApproved'
  BY <1>10, <1>after, <1>keep DEF RemoveReceipt, PinnedPlanWasApproved
<1>11. ASSUME NEW p \in Procs, CreateReceipt(p) PROVE ApprovedPlans' /\ PinnedPlanWasApproved'
  <2>1. PinnedPlanWasApproved'
    BY <1>11 DEF CreateReceipt, PinnedPlanWasApproved, ApprovedPlans
  <2> QED
    BY <1>11, <2>1, <1>idle, <1>keep DEF CreateReceipt
<1>12. CASE EditPlan
  BY <1>12 DEF EditPlan, ApprovedPlans, PinnedPlanWasApproved
<1>13. CASE ApprovePlan
  BY <1>13 DEF ApprovePlan, ApprovedPlans, PinnedPlanWasApproved
<1>14. CASE InvalidatePlan
  BY <1>14 DEF InvalidatePlan, ApprovedPlans, PinnedPlanWasApproved
<1>15. CASE UNCHANGED vars
  BY <1>15 DEF vars, ApprovedPlans, PinnedPlanWasApproved
<1> QED
  BY <1>1, <1>2, <1>3, <1>4, <1>5, <1>6, <1>7, <1>8, <1>9, <1>10, <1>11, <1>12, <1>13,
     <1>14, <1>15 DEF Next, Step

(* What the commands read and write of run.json, the archive and the gate  *)
(* is of its type, whatever the workload.                                  *)
THEOREM TypeCorrect == Spec => []TypeOK
<1>1. Init => TypeOK
  BY RunReceiptAssumption DEF Init, TypeOK, Idle, Plans
<1> QED
  BY <1>1, TypeStep, PTL DEF Spec

(* start and accept-revision compare the plan with the approval and pin it *)
(* steps later: whatever is edited, approved or invalidated between any    *)
(* two steps of any commands, no run has a plan that was not approved.     *)
THEOREM PinnedToApproved == Spec => []PinnedPlanWasApproved
<1>1. Init => ApprovedPlans /\ PinnedPlanWasApproved
  BY DEF Init, ApprovedPlans, PinnedPlanWasApproved, Idle
<1>2. TypeOK /\ ApprovedPlans /\ PinnedPlanWasApproved /\ [Next]_vars
        => ApprovedPlans' /\ PinnedPlanWasApproved'
  BY ApprovedStep
<1> QED
  BY <1>1, <1>2, TypeCorrect, PTL DEF Spec

-----------------------------------------------------------------------------
(* With one writer, the files and what the commands know of them.          *)

(* At most one command is between its read and its last file operation.    *)
LEMMA AtMostOneBusy ==
  ASSUME TypeOK, OpsObeyed, StartsLocked, OneWriter,
         NEW p \in Procs, NEW q \in Procs, Busy(p), Busy(q)
  PROVE  p = q
<1>1. ops \in Workloads
  BY DEF TypeOK
<1>2. proc[p].op \in ops[p] /\ proc[q].op \in ops[q]
  BY DEF OpsObeyed, Busy
<1>3. CASE \A r \in Procs : ops[r] \subseteq Plain
  BY <1>2, <1>3 DEF StartsLocked
<1>4. CASE \A r, s \in Procs : ops[r] # {} /\ ops[s] # {} => r = s
  BY <1>2, <1>4
<1> QED
  BY <1>1, <1>3, <1>4 DEF OneWriter

(* A start, a resume or a restart holds run.json.lock for all it does to   *)
(* run.json, and no command runs that its process may not run.             *)
LEMMA LockStep ==
  ASSUME TypeOK, OpsObeyed, StartsLocked, [Next]_vars
  PROVE  OpsObeyed' /\ StartsLocked'
<1>refused. ASSUME NEW p \in Procs, Refused(p), ops' = ops
            PROVE  OpsObeyed' /\ StartsLocked'
  BY <1>refused, RunReceiptAssumption
     DEF Refused, Release, Idle, TypeOK, OpsObeyed, StartsLocked, Busy
<1>moves. ASSUME NEW p \in Procs, Busy(p), proc'[p].op = proc[p].op,
                 \A q \in Procs \ {p} : proc'[q] = proc[q], UNCHANGED <<ops, lock>>
          PROVE  OpsObeyed' /\ StartsLocked'
  BY <1>moves DEF OpsObeyed, StartsLocked, Busy
<1>1. ASSUME NEW p \in Procs, NEW op \in Commands, Begin(p, op)
      PROVE  OpsObeyed' /\ StartsLocked'
  BY <1>1 DEF Begin, Unwritten, TypeOK, OpsObeyed, StartsLocked, Busy, Plain
<1>2. ASSUME NEW p \in Procs, ReadPlan(p) PROVE OpsObeyed' /\ StartsLocked'
  <2>1. CASE PlanApproved
    BY <1>2, <2>1 DEF ReadPlan, Unwritten, TypeOK, OpsObeyed, StartsLocked, Busy, Plain
  <2>2. CASE ~PlanApproved
    BY <1>2, <2>2, <1>refused DEF ReadPlan, Unwritten
  <2> QED BY <2>1, <2>2
<1>3. ASSUME NEW p \in Procs, Lock(p) PROVE OpsObeyed' /\ StartsLocked'
  BY <1>3, RunReceiptAssumption
     DEF Lock, Unwritten, TypeOK, OpsObeyed, StartsLocked, Busy
<1>4. ASSUME NEW p \in Procs,
             \/ StartsFirst(p) \/ StartsNext(p) \/ Interrupts(p) \/ Resumes(p)
             \/ Finishes(p) \/ Checkpoints(p) \/ AcceptsRevision(p) \/ WriteArchive(p)
      PROVE  OpsObeyed' /\ StartsLocked'
  <2>1. Busy(p) /\ UNCHANGED <<ops, lock>>
    BY <1>4 DEF StartsFirst, StartsNext, Interrupts, Resumes, Finishes, Checkpoints,
                AcceptsRevision, WriteArchive, Writes, Reading, Unwritten, Busy
  <2>2. /\ proc'[p].op = proc[p].op
        /\ \A q \in Procs \ {p} : proc'[q] = proc[q]
    BY <1>4 DEF StartsFirst, StartsNext, Interrupts, Resumes, Finishes, Checkpoints,
                AcceptsRevision, WriteArchive, Writes, TypeOK
  <2> QED
    BY <2>1, <2>2, <1>moves
<1>5. ASSUME NEW p \in Procs, Refuses(p) \/ Dies(p) \/ CreateReceipt(p)
      PROVE  OpsObeyed' /\ StartsLocked'
  BY <1>5, <1>refused DEF Refuses, Dies, CreateReceipt, Unwritten
<1>6. ASSUME NEW p \in Procs, WriteReceipt(p) PROVE OpsObeyed' /\ StartsLocked'
  <2>1. CASE Refused(p)
    BY <1>6, <2>1, <1>refused DEF WriteReceipt
  <2>2. CASE ~Refused(p)
    <3>1. Busy(p) /\ UNCHANGED <<ops, lock>>
      BY <1>6, <2>2 DEF WriteReceipt, Busy
    <3>2. /\ proc'[p].op = proc[p].op
          /\ \A q \in Procs \ {p} : proc'[q] = proc[q]
      BY <1>6, <2>2 DEF WriteReceipt, TypeOK
    <3> QED
      BY <3>1, <3>2, <1>moves
  <2> QED BY <2>1, <2>2
<1>7. ASSUME NEW p \in Procs, RemoveReceipt(p) PROVE OpsObeyed' /\ StartsLocked'
  <2>1. CASE Refused(p)
    BY <1>7, <2>1, <1>refused DEF RemoveReceipt
  <2>2. CASE ~Refused(p)
    <3>1. Busy(p) /\ UNCHANGED <<ops, lock>>
      BY <1>7, <2>2 DEF RemoveReceipt, AfterRemove, Busy
    <3>2. /\ proc'[p].op = proc[p].op
          /\ \A q \in Procs \ {p} : proc'[q] = proc[q]
      BY <1>7, <2>2 DEF RemoveReceipt, AfterRemove, TypeOK
    <3> QED
      BY <3>1, <3>2, <1>moves
  <2> QED BY <2>1, <2>2
<1>8. ASSUME NEW p \in Procs, ReadToArchive(p) PROVE OpsObeyed' /\ StartsLocked'
  <2>1. CASE Refused(p)
    BY <1>8, <2>1, <1>refused DEF ReadToArchive, Unwritten
  <2>2. CASE ~Refused(p)
    <3>1. Busy(p) /\ UNCHANGED <<ops, lock>>
      BY <1>8, <2>2 DEF ReadToArchive, AfterRemove, Unwritten, Busy
    <3>2. /\ proc'[p].op = proc[p].op
          /\ \A q \in Procs \ {p} : proc'[q] = proc[q]
      BY <1>8, <2>2 DEF ReadToArchive, AfterRemove, Unwritten, TypeOK
    <3> QED
      BY <3>1, <3>2, <1>moves
  <2> QED BY <2>1, <2>2
<1>9. CASE EditPlan \/ ApprovePlan \/ InvalidatePlan \/ UNCHANGED vars
  BY <1>9 DEF EditPlan, ApprovePlan, InvalidatePlan, vars, OpsObeyed, StartsLocked, Busy
<1> QED
  BY <1>1, <1>2, <1>3, <1>4, <1>5, <1>6, <1>7, <1>8, <1>9 DEF Next, Step

(* A receipt has an id; no receipt does not.                               *)
LEMMA ReceiptIds ==
  /\ NoReceipt \notin Receipts
  /\ \A receipt \in Receipts : receipt.id \in Ids /\ receipt.id # 0
  /\ Ids \subseteq Nat /\ 0 \notin Ids
<1>1. Ids \subseteq Nat /\ 0 \notin Ids
  BY RunReceiptAssumption DEF Ids
<1>2. \A receipt \in Receipts : receipt.id \in Ids
  BY DEF Receipts
<1>3. NoReceipt.id = 0
  BY DEF NoReceipt
<1> QED
  BY <1>1, <1>2, <1>3

(* Each command finds the files as it left them, and leaves them so that   *)
(* no run is lost or in both places with different contents.               *)
LEMMA FilesStep ==
  ASSUME IInv, OneWriter, [Next]_vars
  PROVE  RunsNumbered' /\ KnowsFiles' /\ OneTruth' /\ NoRunLost'
<1> DEFINE Goal == RunsNumbered' /\ KnowsFiles' /\ OneTruth' /\ NoRunLost'
           Others(p) == \A q \in Procs \ {p} : proc'[q] = proc[q]
<1>0. TypeOK /\ OpsObeyed /\ StartsLocked /\ RunsNumbered /\ KnowsFiles /\ OneTruth /\ NoRunLost
  BY DEF IInv
<1>same. ASSUME UNCHANGED <<current, archive, runs>>
         PROVE  RunsNumbered' /\ OneTruth' /\ NoRunLost'
  BY <1>0, <1>same DEF RunsNumbered, OneTruth, NoRunLost
<1>quiet. ASSUME UNCHANGED <<current, archive, runs>>, NEW p \in Procs, Others(p), Knows(p)'
          PROVE  Goal
  BY <1>0, <1>same, <1>quiet DEF KnowsFiles, Knows
<1>busy. ASSUME NEW p \in Procs, Busy(p), Others(p), Knows(p)' PROVE KnowsFiles'
  <2>1. ASSUME NEW q \in Procs \ {p} PROVE proc'[q].pc \in {"idle", "plan", "lock"}
    BY <1>0, <1>busy, AtMostOneBusy DEF Busy
  <2> QED
    BY <1>busy, <2>1 DEF KnowsFiles, Knows
<1>refused. ASSUME NEW p \in Procs, Refused(p) PROVE Others(p) /\ Knows(p)'
  BY <1>0, <1>refused DEF Refused, Idle, Knows, TypeOK
<1>1. ASSUME NEW p \in Procs, NEW op \in Commands, Begin(p, op) PROVE Goal
  <2>1. Others(p) /\ Knows(p)'
    BY <1>0, <1>1 DEF Begin, Knows, TypeOK
  <2> QED
    BY <1>1, <2>1, <1>quiet DEF Begin, Unwritten
<1>2. ASSUME NEW p \in Procs, ReadPlan(p) PROVE Goal
  <2>1. Others(p) /\ Knows(p)'
    <3>1. CASE PlanApproved
      BY <1>0, <1>2, <3>1 DEF ReadPlan, Knows, TypeOK
    <3>2. CASE ~PlanApproved
      BY <1>2, <3>2, <1>refused DEF ReadPlan
    <3> QED BY <3>1, <3>2
  <2> QED
    BY <1>2, <2>1, <1>quiet DEF ReadPlan, Unwritten
<1>3. ASSUME NEW p \in Procs, Lock(p) \/ StartsFirst(p) \/ StartsNext(p) PROVE Goal
  <2>1. Others(p) /\ Knows(p)'
    BY <1>0, <1>3 DEF Lock, StartsFirst, StartsNext, Unwritten, Knows, TypeOK
  <2> QED
    BY <1>3, <2>1, <1>quiet DEF Lock, StartsFirst, StartsNext, Unwritten
<1>write. ASSUME NEW p \in Procs, NEW receipt \in Receipts, Writes(p, receipt), Unwritten,
                 current # NoReceipt, current.status \in Live, receipt.id = current.id
          PROVE  Goal
  <2>1. Others(p) /\ Knows(p)'
    BY <1>0, <1>write, ReceiptIds DEF Writes, Unwritten, Knows, TypeOK
  <2> QED
    BY <1>write, <2>1, <1>quiet DEF Unwritten
<1>4. ASSUME NEW p \in Procs,
             Interrupts(p) \/ Resumes(p) \/ Finishes(p) \/ Checkpoints(p)
      PROVE  Goal
  <2>1. PICK status \in Live \cup Terminal :
          /\ current # NoReceipt /\ current.marks < MaxMarks /\ current.status \in Live
          /\ Writes(p, Mark(current, status))
    <3>1. CASE Interrupts(p)
      BY <3>1 DEF Interrupts, In, Terminal
    <3>2. CASE Resumes(p)
      BY <3>2 DEF Resumes, In, Live
    <3>3. CASE Finishes(p)
      <4> DEFINE status == CASE plan # current.plan    -> "diverged"
                             [] proc[p].op = "block"   -> "blocked"
                             [] proc[p].op = "succeed" -> "succeeded"
      <4>1. status \in Live \cup Terminal
        BY <3>3 DEF Finishes, Reading, Live, Terminal
      <4>2. /\ current # NoReceipt /\ current.marks < MaxMarks /\ current.status \in Live
            /\ Writes(p, Mark(current, status))
        BY <3>3 DEF Finishes, In, Live
      <4> QED
        BY <4>1, <4>2
    <3>4. CASE Checkpoints(p)
      BY <3>4 DEF Checkpoints, In, Live
    <3> QED
      BY <1>4, <3>1, <3>2, <3>3, <3>4
  <2>2. Mark(current, status) \in Receipts
    BY <1>0, <2>1, MarkType
  <2>3. Mark(current, status).id = current.id
    BY <1>0, <2>1 DEF Mark, TypeOK, Receipts
  <2>4. Unwritten
    BY <1>4 DEF Interrupts, Resumes, Finishes, Checkpoints
  <2> QED
    BY <2>1, <2>2, <2>3, <2>4, <1>write
<1>5. ASSUME NEW p \in Procs, AcceptsRevision(p) PROVE Goal
  <2> DEFINE receipt == [Mark(current, "blocked") EXCEPT !.plan = proc[p].plan]
  <2>1. Mark(current, "blocked") \in Receipts
    BY <1>0, <1>5, MarkType DEF AcceptsRevision, In, Live
  <2>2. receipt \in Receipts
    BY <1>0, <2>1 DEF TypeOK, Receipts
  <2>3. receipt.id = current.id
    <3>1. current \in Receipts
      BY <1>0, <1>5 DEF AcceptsRevision, TypeOK
    <3> QED
      BY <3>1 DEF Mark, Receipts
  <2> HIDE DEF receipt
  <2>4. /\ Writes(p, receipt) /\ Unwritten
        /\ current # NoReceipt /\ current.status \in Live
    BY <1>5 DEF AcceptsRevision, receipt, In, Live
  <2> QED
    BY <2>2, <2>3, <2>4, <1>write
<1>6. ASSUME NEW p \in Procs, Refuses(p) \/ Dies(p) PROVE Goal
  BY <1>6, <1>refused, <1>quiet DEF Refuses, Dies, Unwritten
<1>7. ASSUME NEW p \in Procs, WriteReceipt(p) PROVE Goal
  <2>1. /\ current # NoReceipt /\ current.status \in Live
        /\ current' \in Receipts /\ current'.id = current.id
    BY <1>0, <1>7 DEF WriteReceipt, KnowsFiles, Knows, TypeOK
  <2>2. archive[current.id] = NoReceipt
    <3>1. Live \cap Terminal = {}
      BY DEF Live, Terminal
    <3>2. current.id \in Ids
      BY <1>0, <2>1, ReceiptIds DEF TypeOK
    <3> QED
      BY <1>0, <2>1, <3>1, <3>2 DEF OneTruth, RunsNumbered
  <2>3. Others(p) /\ Knows(p)' /\ Busy(p)
    <3>1. CASE proc[p].copy.status \in Terminal
      BY <1>0, <1>7, <3>1 DEF WriteReceipt, Knows, Busy, TypeOK
    <3>2. CASE proc[p].copy.status \notin Terminal
      BY <1>0, <1>7, <3>2, <1>refused DEF WriteReceipt, Busy
    <3> QED BY <3>1, <3>2
  <2>4. RunsNumbered' /\ OneTruth' /\ NoRunLost'
    BY <1>0, <1>7, <2>1, <2>2 DEF WriteReceipt, RunsNumbered, OneTruth, NoRunLost
  <2> QED
    BY <2>3, <2>4, <1>busy
<1>8. ASSUME NEW p \in Procs, ReadToArchive(p) PROVE Goal
  <2>1. Others(p) /\ Knows(p)'
    <3>1. CASE current = NoReceipt
      <4>1. CASE Refused(p)
        BY <4>1, <1>refused
      <4>2. CASE ~Refused(p)
        BY <1>0, <1>8, <3>1, <4>2 DEF ReadToArchive, AfterRemove, Unwritten, Knows, TypeOK
      <4> QED BY <4>1, <4>2
    <3>2. CASE current # NoReceipt /\ current.status \in Terminal /\ Archivable(current)
      BY <1>0, <1>8, <3>2 DEF ReadToArchive, Archivable, Unwritten, Knows, TypeOK
    <3>3. CASE current # NoReceipt /\ ~(current.status \in Terminal /\ Archivable(current))
      BY <1>8, <3>3, <1>refused DEF ReadToArchive
    <3> QED BY <3>1, <3>2, <3>3
  <2> QED
    BY <1>8, <2>1, <1>quiet DEF ReadToArchive, Unwritten
<1>9. ASSUME NEW p \in Procs, WriteArchive(p) PROVE Goal
  <2>1. /\ current # NoReceipt /\ current \in Receipts /\ current.id \in Ids
        /\ current.status \in Terminal /\ archive[current.id] = NoReceipt
        /\ archive' = [archive EXCEPT ![current.id] = current]
    BY <1>0, <1>9, ReceiptIds DEF WriteArchive, KnowsFiles, Knows, TypeOK
  <2>2. Others(p) /\ Knows(p)' /\ Busy(p)
    BY <1>0, <1>9, <2>1 DEF WriteArchive, Knows, Busy, TypeOK
  <2>3. RunsNumbered' /\ OneTruth'
    BY <1>0, <1>9, <2>1 DEF WriteArchive, RunsNumbered, OneTruth, TypeOK
  <2>4. NoRunLost'
    BY <1>0, <1>9, <2>1 DEF WriteArchive, NoRunLost, TypeOK, Ids
  <2> QED
    BY <2>2, <2>3, <2>4, <1>busy
<1>10. ASSUME NEW p \in Procs, RemoveReceipt(p) PROVE Goal
  <2>1. current # NoReceipt /\ archive[current.id] = current
    BY <1>0, <1>10 DEF RemoveReceipt, KnowsFiles, Knows
  <2>2. Others(p) /\ Knows(p)' /\ Busy(p)
    <3>1. CASE Refused(p)
      BY <1>10, <3>1, <1>refused DEF RemoveReceipt, Busy
    <3>2. CASE ~Refused(p)
      BY <1>0, <1>10, <3>2 DEF RemoveReceipt, AfterRemove, Knows, Busy, TypeOK
    <3> QED BY <3>1, <3>2
  <2>3. RunsNumbered' /\ OneTruth' /\ NoRunLost'
    BY <1>0, <1>10, <2>1 DEF RemoveReceipt, RunsNumbered, OneTruth, NoRunLost
  <2> QED
    BY <2>2, <2>3, <1>busy
<1>11. ASSUME NEW p \in Procs, CreateReceipt(p) PROVE Goal
  <2>1. current = NoReceipt
    BY <1>0, <1>11 DEF CreateReceipt, KnowsFiles, Knows
  <2>2. Others(p) /\ Knows(p)' /\ Busy(p)
    BY <1>11, <1>refused DEF CreateReceipt, Busy
  <2>3. runs \in Nat /\ runs + 1 \in Ids /\ current'.id = runs + 1
    BY <1>0, <1>11, RunReceiptAssumption DEF CreateReceipt, TypeOK, Ids
  <2>4. archive[runs + 1] = NoReceipt
    BY <1>0, <2>3 DEF RunsNumbered
  <2>5. RunsNumbered' /\ OneTruth'
    BY <1>0, <1>11, <2>3, <2>4, ReceiptIds DEF CreateReceipt, RunsNumbered, OneTruth
  <2>6. NoRunLost'
    <3>1. NoReceipt.id = 0
      BY DEF NoReceipt
    <3> QED
      BY <1>0, <1>11, <2>1, <2>3, <3>1 DEF CreateReceipt, NoRunLost
  <2> QED
    BY <2>2, <2>5, <2>6, <1>busy
<1>12. CASE EditPlan \/ ApprovePlan \/ InvalidatePlan \/ UNCHANGED vars
  <2>1. UNCHANGED <<current, archive, runs, proc>>
    BY <1>12 DEF EditPlan, ApprovePlan, InvalidatePlan, vars
  <2> QED
    BY <1>0, <2>1, <1>same DEF KnowsFiles, Knows
<1> QED
  BY <1>1, <1>2, <1>3, <1>4, <1>5, <1>6, <1>7, <1>8, <1>9, <1>10, <1>11, <1>12 DEF Next, Step

(* With one writer, each execute command finds run.json and the archive as *)
(* it left them a step before.                                             *)
THEOREM Inductive ==
  ASSUME OneWriter
  PROVE  Spec => []IInv
<1>1. Init => IInv
  <2>1. Init => TypeOK
    BY RunReceiptAssumption DEF Init, TypeOK, Idle, Plans
  <2>2. Init => OpsObeyed /\ StartsLocked
    BY DEF Init, OpsObeyed, StartsLocked, Busy, Idle
  <2>3. Init => RunsNumbered /\ KnowsFiles /\ OneTruth /\ NoRunLost
    BY DEF Init, RunsNumbered, KnowsFiles, Knows, OneTruth, NoRunLost, Idle
  <2> QED
    BY <2>1, <2>2, <2>3 DEF IInv
<1>2. IInv /\ [Next]_vars => IInv'
  BY OneWriter, TypeStep, LockStep, FilesStep DEF IInv
<1> QED
  BY <1>1, <1>2, PTL DEF Spec

(* "Nothing is ever deleted" (run.rs): while there is one writer, every    *)
(* run that was started is in run.json or in the archive, whatever command *)
(* is killed between whichever of its file operations.                     *)
THEOREM RunsSurvive ==
  ASSUME OneWriter
  PROVE  Spec => []NoRunLost
<1>1. IInv => NoRunLost
  BY DEF IInv
<1> QED
  BY OneWriter, <1>1, Inductive, PTL

(* While there is one writer, a run that is in run.json and in the archive *)
(* (its command died before the removal) is the same in both, so no start  *)
(* is refused for ever with execute.archive_conflict.                      *)
THEOREM OneTruthHolds ==
  ASSUME OneWriter
  PROVE  Spec => []OneTruth
<1>1. IInv => OneTruth
  BY DEF IInv
<1> QED
  BY OneWriter, <1>1, Inductive, PTL

(* With one writer, archive() overwrites no entry: between its look at the *)
(* entry and its write nobody else archives.                               *)
THEOREM ArchiveIsEvidence ==
  ASSUME OneWriter
  PROVE  Spec => ArchiveImmutable
<1> DEFINE Kept == \A id \in Ids : archive[id] # NoReceipt => archive'[id] = archive[id]
<1>1. IInv /\ [Next]_vars => [Kept]_archive
  <2> SUFFICES ASSUME IInv, [Next]_vars, archive' # archive PROVE Kept
    OBVIOUS
  <2>1. PICK p \in Procs : WriteArchive(p)
    BY DEF Next, Step, vars, Begin, ReadPlan, Lock, StartsFirst, StartsNext, Interrupts,
           Resumes, Finishes, Checkpoints, AcceptsRevision, Refuses, WriteReceipt,
           ReadToArchive, RemoveReceipt, CreateReceipt, Dies, EditPlan, ApprovePlan,
           InvalidatePlan, Unwritten
  <2>2. proc[p].copy = current /\ archive[current.id] = NoReceipt
    BY <2>1 DEF WriteArchive, IInv, KnowsFiles, Knows
  <2> QED
    BY <2>1, <2>2 DEF WriteArchive, IInv, TypeOK
<1> QED
  BY OneWriter, <1>1, Inductive, PTL DEF Spec, ArchiveImmutable

(* With one writer, no command of a run that is over changes run.json: it  *)
(* is archived and then removed, by its own command or by the next start.  *)
THEOREM OverIsOver ==
  ASSUME OneWriter
  PROVE  Spec => TerminalIsFinal
<1> DEFINE Final == current # NoReceipt /\ current.status \in Terminal
                      => \/ current'.id # current.id /\ archive[current.id] # NoReceipt
                         \/ current' = current
<1>1. IInv /\ [Next]_vars => [Final]_current
  <2> SUFFICES ASSUME IInv, [Next]_vars, current' # current,
                      current # NoReceipt, current.status \in Terminal
               PROVE  current'.id # current.id /\ archive[current.id] # NoReceipt
    OBVIOUS
  <2>1. PICK p \in Procs : WriteReceipt(p) \/ RemoveReceipt(p) \/ CreateReceipt(p)
    BY DEF Next, Step, vars, Begin, ReadPlan, Lock, StartsFirst, StartsNext, Interrupts,
           Resumes, Finishes, Checkpoints, AcceptsRevision, Refuses, WriteArchive,
           ReadToArchive, Dies, EditPlan, ApprovePlan, InvalidatePlan, Unwritten
  <2>2. ~WriteReceipt(p) /\ ~CreateReceipt(p)
    BY DEF WriteReceipt, CreateReceipt, IInv, KnowsFiles, Knows, Live, Terminal
  <2>3. archive[current.id] = current
    BY <2>1, <2>2 DEF RemoveReceipt, IInv, KnowsFiles, Knows
  <2>4. current \in Receipts /\ current' = NoReceipt /\ NoReceipt.id = 0
    BY <2>1, <2>2 DEF RemoveReceipt, NoReceipt, IInv, TypeOK
  <2> QED
    BY <2>3, <2>4, ReceiptIds
<1> QED
  BY OneWriter, <1>1, Inductive, PTL DEF Spec, TerminalIsFinal

(* Both together, as the run checks them: what is over stays as it ended,  *)
(* in run.json and in the archive.                                         *)
THEOREM OverAndArchivedStay ==
  ASSUME OneWriter
  PROVE  Spec => OverIsFinal
BY OneWriter, ArchiveIsEvidence, OverIsOver, PTL DEF OverIsFinal

-----------------------------------------------------------------------------
(* Steps, operations, identities.                                          *)

LEMMA StepNumbers ==
  /\ Initialize = 0 /\ RenameBranches = 1 /\ MoveWorktrees = 2 /\ RemoteOps = 3
  /\ MoveFeatureDir = 4 /\ UpdateChildren = 5 /\ UpdateFeatureLayers = 6
  /\ MoveSessions = 7 /\ Finish = 8
BY DEF Initialize, RenameBranches, MoveWorktrees, RemoteOps, MoveFeatureDir, UpdateChildren,
       UpdateFeatureLayers, MoveSessions, Finish

LEMMA RenameConstants ==
  RepoCount \in Nat /\ KidCount \in Nat /\ SessionCount \in Nat
  /\ MaxPushes \in Nat /\ MaxCrashes \in Nat /\ MaxFaults \in Nat
BY RenameAssumption

(* The operations of each step.                                            *)
LEMMA WorkIs ==
  /\ Work(Initialize) = {} /\ Work(Finish) = {}
  /\ Work(RenameBranches) = Repos /\ Work(MoveWorktrees) = Repos
  /\ Work(RemoteOps) = 1 .. 3 * RepoCount
  /\ Work(MoveFeatureDir) = {1, 2, 3}
  /\ Work(UpdateChildren) = Kids /\ Work(UpdateFeatureLayers) = {1}
  /\ Work(MoveSessions) = Sessions
<1>1. 1 .. 0 = {} /\ 1 .. 3 = {1, 2, 3} /\ 1 .. 1 = {1}
  OBVIOUS
<1>2. /\ Work(0) = 1 .. 0 /\ Work(8) = 1 .. 0 /\ Work(1) = Repos /\ Work(2) = Repos
      /\ Work(3) = 1 .. 3 * RepoCount /\ Work(4) = 1 .. 3 /\ Work(5) = Kids /\ Work(6) = 1 .. 1
      /\ Work(7) = Sessions
  BY StepNumbers DEF Work, Repos, Kids, Sessions
<1> QED BY <1>1, <1>2, StepNumbers

LEMMA WorkIsNat ==
  ASSUME NEW step
  PROVE  Work(step) \in SUBSET Nat
BY RenameConstants DEF Work

LEMMA Directions == \A t \in Transitions :
  /\ t.direction \in {"forward", "back"} /\ t.step \in 0 .. 8
  /\ t.tips \in [Repos -> SUBSET Commits]
BY StepNumbers DEF Transitions

(* What a run may have to do is some of the operations of one step.        *)
LEMMA TodoType ==
  ASSUME NEW step \in 0 .. 8, NEW T \in SUBSET Work(step)
  PROVE  T \in UNION {SUBSET Work(s) : s \in Initialize .. Finish}
BY StepNumbers

(* The least of a set of numbers is one of them.                           *)
LEMMA MinOf ==
  ASSUME NEW T \in SUBSET Nat, T # {}
  PROVE  Min(T) \in T /\ \A i \in T : Min(T) <= i
<1>1. PICK m \in T : \A i \in T : <<i, m>> \notin OpToRel(<, Nat)
  BY NatLessThanWellFounded, WFMin
<1>2. \A i \in T : i < m => <<i, m>> \in OpToRel(<, Nat)
  BY DEF OpToRel
<1>3. \A i \in T : ~ (i < m)
  BY <1>1, <1>2
<1>4. \A i \in T : i \in Nat /\ m \in Nat
  OBVIOUS
<1>5. \A i \in T : m <= i
  BY <1>3, <1>4
<1> QED BY <1>5 DEF Min

LEMMA OpIs ==
  ASSUME NEW p \in Runs, RunSound(p), run[p].todo # {}
  PROVE  /\ Op(p) \in run[p].todo /\ \A i \in run[p].todo : Op(p) <= i
         /\ Op(p) \in Work(run[p].t.step)
<1>1. run[p].todo \in SUBSET Nat
  BY WorkIsNat DEF RunSound
<1> QED BY <1>1, MinOf DEF Op, RunSound

(* The repo an operation on the remote is about.                           *)
LEMMA RepoOfOp ==
  ASSUME NEW i \in 1 .. 3 * RepoCount
  PROVE  /\ ((i - 1) \div 3) + 1 \in Repos
         /\ ((i - 1) % 3) + 1 \in 1 .. 3
         /\ i = 3 * ((i - 1) \div 3) + ((i - 1) % 3) + 1
BY RenameConstants DEF Repos

(* Where a path leads.                                                     *)
LEMMA DirIs ==
  ASSUME at \in [Names -> {"feature", "link", "other", "absent"}], HallSound
  PROVE  /\ at.old = "feature" => Dir("old") = "feature"
         /\ at.old = "link" => Dir("old") = "feature"
         /\ at.old = "other" => Dir("old") = "old"
         /\ at.old = "absent" => ~ IsDir("old")
         /\ at.new = "feature" => Dir("new") = "feature"
         /\ at.new = "other" => Dir("new") = "new"
         /\ at.new = "absent" => ~ IsDir("new")
         /\ at.new # "link"
         /\ \A path \in Names : Dir(path) \in {"feature", "old", "new", Nothing}
         /\ \A path \in Names : IsDir(path) <=> Dir(path) \in {"feature", "old", "new"}
         /\ \A path \in Names : IsDir(path) <=> at[path] # "absent"
<1>1. Nothing \notin {"feature", "old", "new"}
  BY NothingAssumption
<1> QED BY <1>1 DEF HallSound, Dir, Real, IsDir, Names

-----------------------------------------------------------------------------
(* Types.                                                                  *)

Sound == RenameTypeOK /\ HallSound /\ \A p \in Runs : RunSound(p)

LEMMA RunParts ==
  ASSUME RenameTypeOK, NEW p \in Runs
  PROVE  /\ run[p].pc \in {"idle", "planned", "work", "unlinked"} /\ run[p].anchor \in Names
         /\ run[p].t \in Transitions /\ run[p].t.step \in 0 .. 8
         /\ run[p].t.direction \in {"forward", "back"}
         /\ run[p].t.tips \in [Repos -> SUBSET Commits]
<1>1. run[p] \in RunStates
  BY DEF RenameTypeOK
<1>2. run[p].pc \in {"idle", "planned", "work", "unlinked"} /\ run[p].anchor \in Names
      /\ run[p].t \in Transitions
  BY <1>1 DEF RunStates
<1> QED BY <1>2, Directions

(* A run that has done, or skips, some of its operations.                  *)
LEMMA RunSkips ==
  ASSUME RenameTypeOK, NEW p \in Runs, RunSound(p), NEW skipped,
         run' = [run EXCEPT ![p].todo = @ \ skipped]
  PROVE  /\ run' \in [Runs -> RunStates] /\ RunSound(p)'
         /\ run'[p].todo = run[p].todo \ skipped
         /\ run'[p].pc = run[p].pc /\ run'[p].anchor = run[p].anchor /\ run'[p].t = run[p].t
         /\ \A q \in Runs \ {p} : run'[q] = run[q]
<1> DEFINE new == [run[p] EXCEPT !.todo = run[p].todo \ skipped]
<1>0. run \in [Runs -> RunStates] /\ run[p] \in RunStates
  BY DEF RenameTypeOK
<1>1. run' = [run EXCEPT ![p] = new]
  OBVIOUS
<1>2. run'[p] = new /\ \A q \in Runs \ {p} : run'[q] = run[q]
  BY <1>0, <1>1
<1>3. run[p].todo \ skipped \in SUBSET Work(run[p].t.step)
  BY DEF RunSound
<1>4. run[p].todo \ skipped \in UNION {SUBSET Work(s) : s \in Initialize .. Finish}
  BY <1>3, RunParts, TodoType
<1>5. /\ new.todo = run[p].todo \ skipped /\ new.pc = run[p].pc /\ new.anchor = run[p].anchor
      /\ new.t = run[p].t /\ new \in RunStates
  <2> DEFINE left == run[p].todo \ skipped
  <2> HIDE DEF left
  <2>1. [run[p] EXCEPT !.todo = left] \in RunStates
    BY <1>0, <1>4 DEF RunStates, left
  <2>2. /\ [run[p] EXCEPT !.todo = left].todo = left /\ [run[p] EXCEPT !.todo = left].pc = run[p].pc
        /\ [run[p] EXCEPT !.todo = left].anchor = run[p].anchor
        /\ [run[p] EXCEPT !.todo = left].t = run[p].t
    BY <1>0 DEF RunStates
  <2> QED BY <2>1, <2>2 DEF left
<1> HIDE DEF new
<1>6. run' \in [Runs -> RunStates]
  BY <1>0, <1>1, <1>5
<1>7. RunSound(p)'
  BY <1>2, <1>3, <1>5 DEF RunSound, Work, Repos
<1> QED BY <1>2, <1>5, <1>6, <1>7

(* A run that ends.                                                        *)
LEMMA RunEnds ==
  ASSUME RenameTypeOK, NEW p \in Runs, Ends(p)
  PROVE  /\ run' \in [Runs -> RunStates] /\ RunSound(p)'
         /\ run'[p] = NoRun /\ run'[p].pc = "idle"
         /\ \A q \in Runs \ {p} : run'[q] = run[q]
<1>0. run \in [Runs -> RunStates]
  BY DEF RenameTypeOK
<1>1. NoTips \in [Repos -> SUBSET Commits]
  BY DEF NoTips
<1>2. {} \in UNION {SUBSET Work(s) : s \in Initialize .. Finish}
  BY TodoType
<1>3. NoRun \in RunStates
  BY <1>1, <1>2, StepNumbers DEF NoRun, RunStates, Transitions, Names
<1>4. run' \in [Runs -> RunStates] /\ run'[p] = NoRun
      /\ \A q \in Runs \ {p} : run'[q] = run[q]
  BY <1>0, <1>3 DEF Ends
<1>5. NoRun.pc = "idle" /\ NoRun.todo = {} /\ NoRun.t.direction = "forward" /\ NoRun.t.step = Initialize
  BY DEF NoRun
<1>6. RunSound(p)'
  BY <1>4, <1>5 DEF RunSound, Work, Repos
<1> QED BY <1>4, <1>5, <1>6

(* A run at the beginning of a step.                                       *)
LEMMA RunGoes ==
  ASSUME RenameTypeOK, NEW p \in Runs, NEW path \in Names, NEW t \in Transitions,
         GoOn(p, path, t)
  PROVE  /\ run' \in [Runs -> RunStates] /\ RunSound(p)'
         /\ run'[p].pc = "work" /\ run'[p].anchor = path /\ run'[p].t = t
         /\ run'[p].todo = Work(t.step)
         /\ \A q \in Runs \ {p} : run'[q] = run[q]
<1> DEFINE new == [pc |-> "work", anchor |-> path, todo |-> Work(t.step), t |-> t]
<1>0. run \in [Runs -> RunStates]
  BY DEF RenameTypeOK
<1>1. t.step \in 0 .. 8
  BY Directions
<1>2. Work(t.step) \in UNION {SUBSET Work(s) : s \in Initialize .. Finish}
  BY <1>1, TodoType
<1>3. new \in RunStates
  BY <1>2 DEF RunStates
<1>4. run' \in [Runs -> RunStates] /\ run'[p] = new /\ \A q \in Runs \ {p} : run'[q] = run[q]
  <2>1. run' = [run EXCEPT ![p] = new]
    BY DEF GoOn
  <2> HIDE DEF new
  <2> QED BY <1>0, <1>3, <2>1
<1>5. RunSound(p)'
  BY <1>4 DEF RunSound, Work, Repos
<1> QED BY <1>4, <1>5

(* Writing a marker, and removing one.                                     *)
LEMMA WriteType ==
  ASSUME RenameTypeOK, HallSound, NEW path \in Names, NEW t \in Transitions, WriteMarker(path, t)
  PROVE  /\ marker' \in [{"feature", "old", "new"} -> Transitions \cup {Nothing}]
         /\ at' \in [Names -> {"feature", "link", "other", "absent"}]
         /\ IsDir(path) => /\ UNCHANGED at
                          /\ marker'[Dir(path)] = t
                          /\ \A d \in {"feature", "old", "new"} \ {Dir(path)} : marker'[d] = marker[d]
<1>1. IsDir(path) => Dir(path) \in {"feature", "old", "new"}
  BY DirIs DEF RenameTypeOK
<1>2. path \in {"feature", "old", "new"}
  BY DEF Names
<1> QED BY <1>1, <1>2 DEF WriteMarker, RenameTypeOK

LEMMA UnmarkType ==
  ASSUME RenameTypeOK, HallSound, NEW path \in Names, Unmark(path)
  PROVE  /\ marker' \in [{"feature", "old", "new"} -> Transitions \cup {Nothing}]
         /\ IsDir(path) => marker'[Dir(path)] = Nothing
         /\ \A d \in {"feature", "old", "new"} : d # Dir(path) => marker'[d] = marker[d]
<1>1. IsDir(path) => Dir(path) \in {"feature", "old", "new"}
  BY DirIs DEF RenameTypeOK
<1> QED BY <1>1 DEF Unmark, RenameTypeOK

LEMMA SkipsType ==
  ASSUME Sound, NEW p \in Runs, NEW skipped, Skips(p, skipped)
  PROVE  /\ run' \in [Runs -> RunStates] /\ \A q \in Runs : RunSound(q)'
         /\ marker' = marker
<1>1. run' = [run EXCEPT ![p].todo = @ \ skipped] /\ marker' = marker
  BY DEF Skips
<1>2. /\ run' \in [Runs -> RunStates] /\ RunSound(p)'
      /\ \A q \in Runs \ {p} : run'[q] = run[q]
  BY <1>1, RunSkips DEF Sound
<1> QED BY <1>1, <1>2 DEF RunSound, Work, Repos, Sound

LEMMA EndsType ==
  ASSUME Sound, NEW p \in Runs, Ends(p)
  PROVE  run' \in [Runs -> RunStates] /\ \A q \in Runs : RunSound(q)'
<1>1. /\ run' \in [Runs -> RunStates] /\ RunSound(p)'
      /\ \A q \in Runs \ {p} : run'[q] = run[q]
  BY RunEnds DEF Sound
<1> QED BY <1>1 DEF RunSound, Work, Repos, Sound

LEMMA GoesType ==
  ASSUME Sound, NEW p \in Runs, NEW path \in Names, NEW t \in Transitions, GoOn(p, path, t)
  PROVE  run' \in [Runs -> RunStates] /\ \A q \in Runs : RunSound(q)'
<1>1. /\ run' \in [Runs -> RunStates] /\ RunSound(p)'
      /\ \A q \in Runs \ {p} : run'[q] = run[q]
  BY RunGoes DEF Sound
<1> QED BY <1>1 DEF RunSound, Work, Repos, Sound

LEMMA FailsType ==
  ASSUME Sound, NEW p \in Runs, Fails(p)
  PROVE  /\ run' \in [Runs -> RunStates] /\ \A q \in Runs : RunSound(q)'
         /\ marker' \in [{"feature", "old", "new"} -> Transitions \cup {Nothing}]
         /\ at' \in [Names -> {"feature", "link", "other", "absent"}]
         /\ UNCHANGED <<record, local, tree, remote, kids, views, layers>>
<1>1. [run[p].t EXCEPT !.direction = "back"] \in Transitions
  BY RunParts DEF Sound, Transitions
<1>2. run[p].anchor \in Names
  BY RunParts DEF Sound
<1>3. /\ marker' \in [{"feature", "old", "new"} -> Transitions \cup {Nothing}]
      /\ at' \in [Names -> {"feature", "link", "other", "absent"}]
  <2>1. CASE run[p].t.direction = "forward"
    BY <2>1, <1>1, <1>2, WriteType DEF Fails, Sound
  <2>2. CASE run[p].t.direction # "forward"
    BY <2>2 DEF Fails, Sound, RenameTypeOK
  <2> QED BY <2>1, <2>2
<1>4. Ends(p) /\ UNCHANGED <<record, local, tree, remote, kids, views, layers>>
  BY DEF Fails
<1> QED BY <1>3, <1>4, EndsType

(* What every operation of a step leaves in its type.                      *)
DiskType ==
  /\ at \in [Names -> {"feature", "link", "other", "absent"}]
  /\ record \in {Identity("old"), Identity("new")}
  /\ local \in [Repos -> [Names -> {"ours", "theirs", "none"}]]
  /\ tree \in [Repos -> Names]
  /\ remote \in [Repos -> [Names -> SUBSET Commits]]
  /\ kids \in [Kids -> Names]
  /\ views \in [Sessions -> Names]
  /\ layers \in Names

RunType ==
  /\ marker \in [{"feature", "old", "new"} -> Transitions \cup {Nothing}]
  /\ run \in [Runs -> RunStates]

LEMMA TypeIs ==
  RenameTypeOK <=> /\ DiskType /\ RunType
                   /\ want \in [name : BOOLEAN, branch : BOOLEAN]
                   /\ spent \in [pushes : 0 .. MaxPushes, crashes : 0 .. MaxCrashes,
                                faults : 0 .. MaxFaults]
BY DEF RenameTypeOK, DiskType, RunType

(* An operation that fails, or leaves everything as it is.                 *)
LEMMA PlainType ==
  ASSUME Sound, NEW p \in Runs, UNCHANGED want,
         \/ Fails(p)
         \/ UNCHANGED disk /\ \E skipped : Skips(p, skipped)
  PROVE  DiskType' /\ RunType' /\ \A q \in Runs : RunSound(q)'
<1>1. CASE Fails(p)
  BY <1>1, FailsType DEF Sound, RenameTypeOK, DiskType, RunType, Identity, NewName, NewBranch, Repos
<1>2. CASE UNCHANGED disk /\ \E skipped : Skips(p, skipped)
  BY <1>2, SkipsType DEF Sound, RenameTypeOK, DiskType, RunType, disk, Identity, NewName, NewBranch, Repos
<1> QED BY <1>1, <1>2

LEMMA DoneSkips ==
  ASSUME NEW p \in Runs, Done(p)
  PROVE  Skips(p, {Op(p)})
BY DEF Done

LEMMA BranchesType ==
  ASSUME Sound, NEW p \in Runs, Branches(p), UNCHANGED want
  PROVE  DiskType' /\ RunType' /\ \A q \in Runs : RunSound(q)'
<1>0. run[p].todo # {} /\ run[p].t.step \in {RenameBranches, MoveWorktrees}
  BY DEF Branches, At
<1>1. Op(p) \in Repos
  BY <1>0, OpIs, WorkIs DEF Sound
<1>2. PICK from \in Names, to \in Names :
        MoveBranch(p, Op(p), from, to) \/ MoveWorktree(p, Op(p), from, to)
  BY DEF Branches, Names
<1>3. CASE Fails(p) \/ (UNCHANGED disk /\ Done(p))
  BY <1>3, DoneSkips, PlainType
<1>4. ASSUME Done(p), local' = [local EXCEPT ![Op(p)] = [@ EXCEPT ![from] = "none", ![to] = local[Op(p)][from]]],
             UNCHANGED <<at, record, tree, remote, kids, views, layers>>
      PROVE  DiskType' /\ RunType' /\ \A q \in Runs : RunSound(q)'
  <2>1. local' \in [Repos -> [Names -> {"ours", "theirs", "none"}]]
    BY <1>1, <1>4 DEF Sound, RenameTypeOK
  <2> QED BY <2>1, <1>4, DoneSkips, SkipsType
          DEF Sound, RenameTypeOK, DiskType, RunType, Identity, NewName, NewBranch, Repos
<1>5. ASSUME MoveWorktree(p, Op(p), from, to) PROVE DiskType' /\ RunType' /\ \A q \in Runs : RunSound(q)'
  <2>1. tree' \in [Repos -> Names]
    BY <1>1, <1>5 DEF Sound, RenameTypeOK, MoveWorktree
  <2> QED BY <2>1, <1>5, DoneSkips, SkipsType
          DEF Sound, RenameTypeOK, DiskType, RunType, MoveWorktree, Identity, NewName, NewBranch, Repos
<1> QED BY <1>2, <1>3, <1>4, <1>5 DEF MoveBranch

(* The tips of a plan are commits.                                         *)
LEMMA RemoteFacts ==
  ASSUME Sound, NEW p \in Runs, run[p].todo # {}, run[p].t.step = RemoteOps
  PROVE  /\ Op(p) \in 1 .. 3 * RepoCount /\ RepoOf(p) \in Repos /\ PartOf(p) \in 1 .. 3
         /\ Op(p) = 3 * (RepoOf(p) - 1) + PartOf(p) /\ Tip(p) \in SUBSET Commits
         /\ Op(p) \in run[p].todo /\ \A i \in run[p].todo : Op(p) <= i
<1>1. Op(p) \in 1 .. 3 * RepoCount
  BY OpIs, WorkIs DEF Sound
<1>2. RepoOf(p) \in Repos /\ PartOf(p) \in 1 .. 3
  BY <1>1, RepoOfOp DEF RepoOf, PartOf
<1>3. Op(p) = 3 * (RepoOf(p) - 1) + PartOf(p)
  <2> DEFINE i == Op(p)
             d == (i - 1) \div 3
             m == (i - 1) % 3
  <2>1. i = 3 * d + m + 1
    BY <1>1, RepoOfOp
  <2>2. RepoOf(p) = d + 1 /\ PartOf(p) = m + 1
    BY DEF RepoOf, PartOf
  <2>3. d \in Int /\ m \in Int
    BY <1>1
  <2> HIDE DEF d, m
  <2> QED BY <2>1, <2>2, <2>3
<1>4. Tip(p) \in SUBSET Commits
  BY <1>2, RunParts DEF Tip, Sound
<1> QED BY <1>1, <1>2, <1>3, <1>4, OpIs DEF Sound

LEMMA SetRemoteType ==
  ASSUME Sound, NEW r \in Repos, NEW branch \in Names, NEW commits \in SUBSET Commits,
         SetRemote(r, branch, commits), UNCHANGED want
  PROVE  DiskType'
<1>1. remote' \in [Repos -> [Names -> SUBSET Commits]]
  <2>1. [remote[r] EXCEPT ![branch] = commits] \in [Names -> SUBSET Commits]
    BY DEF Sound, RenameTypeOK
  <2> QED BY <2>1 DEF Sound, RenameTypeOK, SetRemote
<1> QED BY <1>1 DEF Sound, RenameTypeOK, SetRemote, DiskType, Identity, NewName, NewBranch, Repos

LEMMA RemoteType ==
  ASSUME Sound, NEW p \in Runs, RemoteForward(p) \/ RemoteBack(p), UNCHANGED want
  PROVE  DiskType' /\ RunType' /\ \A q \in Runs : RunSound(q)'
<1>0. run[p].todo # {} /\ run[p].t.step = RemoteOps
  BY DEF RemoteForward, RemoteBack, At
<1>1. RepoOf(p) \in Repos /\ PartOf(p) \in {1, 2, 3} /\ Tip(p) \in SUBSET Commits
  BY <1>0, RemoteFacts
<1>2. {"old", "new"} \subseteq Names /\ {} \in SUBSET Commits
  BY DEF Names
<1>3. ASSUME NEW branch \in Names, NEW commits \in SUBSET Commits,
             SetRemote(RepoOf(p), branch, commits), Done(p)
      PROVE  DiskType' /\ RunType' /\ \A q \in Runs : RunSound(q)'
  BY <1>1, <1>3, SetRemoteType, DoneSkips, SkipsType DEF RunType, Sound, RenameTypeOK
<1>4. \/ Fails(p)
      \/ UNCHANGED disk /\ \E skipped : Skips(p, skipped)
      \/ \E branch \in Names, commits \in SUBSET Commits :
           SetRemote(RepoOf(p), branch, commits) /\ Done(p)
  <2>1. CASE LookRemote(p)
    BY <2>1, DoneSkips DEF LookRemote
  <2>2. CASE PushNew(p)
    BY <2>2, <1>1, <1>2 DEF PushNew
  <2>3. CASE DeleteOld(p)
    BY <2>3, <1>1, <1>2 DEF DeleteOld
  <2>4. CASE RepublishOld(p)
    BY <2>4, <1>1, <1>2, DoneSkips DEF RepublishOld
  <2>5. CASE DeleteNew(p)
    BY <2>5, <1>1, <1>2 DEF DeleteNew
  <2>6. CASE Done(p) /\ UNCHANGED disk
    BY <2>6, DoneSkips
  <2> QED BY <2>1, <2>2, <2>3, <2>4, <2>5, <2>6, <1>1 DEF RemoteForward, RemoteBack
<1> QED BY <1>3, <1>4, PlainType

LEMMA DirType ==
  ASSUME Sound, NEW p \in Runs, DirForward(p) \/ DirBack(p), UNCHANGED want
  PROVE  DiskType' /\ RunType' /\ \A q \in Runs : RunSound(q)'
<1>0. run[p].todo # {} /\ run[p].t.step = MoveFeatureDir
  BY DEF DirForward, DirBack, At
<1>1. Op(p) \in {1, 2, 3}
  BY <1>0, OpIs, WorkIs DEF Sound
<1>2. ASSUME NEW paths \in [Names -> {"feature", "link", "other", "absent"}], SetAt(p, paths)
      PROVE  DiskType' /\ RunType' /\ \A q \in Runs : RunSound(q)'
  BY <1>2, DoneSkips, SkipsType
     DEF SetAt, Sound, RenameTypeOK, DiskType, RunType, Identity, NewName, NewBranch, Repos
<1>3. ASSUME NEW id \in Names, SetIdentity(p, id)
      PROVE  DiskType' /\ RunType' /\ \A q \in Runs : RunSound(q)'
  <2>1. CASE Fails(p)
    BY <2>1, PlainType
  <2>2. CASE /\ record' = Identity(id) /\ Done(p)
             /\ UNCHANGED <<at, local, tree, remote, kids, views, layers>>
    BY <2>2, <1>3, DoneSkips, SkipsType
       DEF Sound, RenameTypeOK, DiskType, RunType, Identity, NewName, NewBranch, Repos, Names
  <2> QED BY <2>1, <2>2, <1>3 DEF SetIdentity
<1>4. /\ \A path : MovedTo(path) \in [Names -> {"feature", "link", "other", "absent"}]
      /\ \A v \in {"link", "absent"} :
           [at EXCEPT !.old = v] \in [Names -> {"feature", "link", "other", "absent"}]
  BY DEF MovedTo, Sound, RenameTypeOK, Names
<1>5. \/ Fails(p) \/ (Done(p) /\ UNCHANGED disk)
      \/ \E id \in Names : SetIdentity(p, id)
      \/ \E paths \in [Names -> {"feature", "link", "other", "absent"}] : SetAt(p, paths)
  <2>1. CASE DirForward(p)
    <3>1. CASE Op(p) = 1
      BY <2>1, <3>1, <1>4 DEF DirForward
    <3>2. CASE Op(p) = 2
      BY <2>1, <3>2, <1>4 DEF DirForward
    <3>3. CASE Op(p) = 3
      BY <2>1, <3>3 DEF DirForward, Names
    <3> QED BY <3>1, <3>2, <3>3, <1>1
  <2>2. CASE DirBack(p)
    <3>1. CASE Op(p) = 1
      BY <2>2, <3>1, <1>4 DEF DirBack
    <3>2. CASE Op(p) = 2
      BY <2>2, <3>2, <1>4 DEF DirBack
    <3>3. CASE Op(p) = 3
      BY <2>2, <3>3 DEF DirBack, Names
    <3> QED BY <3>1, <3>2, <3>3, <1>1
  <2> QED BY <2>1, <2>2
<1> QED BY <1>2, <1>3, <1>5, DoneSkips, PlainType

LEMMA ReferrersType ==
  ASSUME Sound, NEW p \in Runs, Referrers(p), UNCHANGED want
  PROVE  DiskType' /\ RunType' /\ \A q \in Runs : RunSound(q)'
<1>0. run[p].todo # {}
  BY DEF Referrers, At
<1>1. Done(p) /\ UNCHANGED <<at, record, local, tree, remote>>
  BY DEF Referrers, RepointKid, RenameLayers, RefreshView
<1>2. kids' \in [Kids -> Names] /\ views' \in [Sessions -> Names] /\ layers' \in Names
  BY DEF Referrers, RepointKid, RenameLayers, RefreshView, Sound, RenameTypeOK, Names
<1> QED BY <1>1, <1>2, DoneSkips, SkipsType
        DEF Sound, RenameTypeOK, DiskType, RunType, Identity, NewName, NewBranch, Repos

(* Every step leaves everything in its type, and a run the operations of   *)
(* its step.                                                               *)
LEMMA RenameTypeStep ==
  ASSUME Sound, [RenameNext]_renameVars
  PROVE  RenameTypeOK' /\ \A q \in Runs : RunSound(q)'
<1>same. /\ Identity("old")' = Identity("old") /\ Identity("new")' = Identity("new")
         /\ UNCHANGED want
  BY DEF RenameNext, Resume, Preflight, RunStep, Start, Operate, Advance, RolledBack, Unlink,
         Renamed, Fault, Crash, CreateFeature, ColleaguePushes, SetRemote, renameVars,
         Identity, NewName, NewBranch
<1>types. RenameTypeOK' <=> /\ DiskType' /\ RunType'
                            /\ spent' \in [pushes : 0 .. MaxPushes, crashes : 0 .. MaxCrashes,
                                          faults : 0 .. MaxFaults]
  BY <1>same DEF Sound, RenameTypeOK, DiskType, RunType
<1>spent. spent' \in [pushes : 0 .. MaxPushes, crashes : 0 .. MaxCrashes, faults : 0 .. MaxFaults]
  <2>1. \/ UNCHANGED spent
        \/ spent.faults < MaxFaults /\ spent' = [spent EXCEPT !.faults = @ + 1]
        \/ spent.crashes < MaxCrashes /\ spent' = [spent EXCEPT !.crashes = @ + 1]
        \/ spent.pushes < MaxPushes /\ spent' = [spent EXCEPT !.pushes = @ + 1]
    BY DEF RenameNext, Resume, Preflight, RunStep, Start, Operate, Advance, RolledBack, Unlink,
           Renamed, Fault, Crash, CreateFeature, ColleaguePushes, renameVars
  <2>2. /\ spent \in [pushes : 0 .. MaxPushes, crashes : 0 .. MaxCrashes, faults : 0 .. MaxFaults]
        /\ MaxPushes \in Nat /\ MaxCrashes \in Nat /\ MaxFaults \in Nat
    BY RenameConstants DEF Sound, RenameTypeOK
  <2> QED BY <2>1, <2>2
<1>names. "old" \in Names /\ "new" \in Names /\ MarkerPath \in Names
  BY DEF Names, MarkerPath
<1>still. UNCHANGED disk => DiskType'
  BY <1>same DEF disk, Sound, RenameTypeOK, DiskType, Repos
<1>1. ASSUME NEW p \in Runs, Resume(p) PROVE DiskType' /\ RunType' /\ \A q \in Runs : RunSound(q)'
  <2>1. PICK path \in Names : Marked(path) /\ GoOn(p, path, marker[Dir(path)])
    BY <1>1 DEF Resume
  <2>2. marker[Dir(path)] \in Transitions
    BY <2>1, DirIs DEF Marked, Sound, RenameTypeOK
  <2> QED BY <1>1, <1>still, <2>1, <2>2, GoesType DEF Resume, RunType, Sound, RenameTypeOK
<1>2. ASSUME NEW p \in Runs, Preflight(p) PROVE DiskType' /\ RunType' /\ \A q \in Runs : RunSound(q)'
  <2> DEFINE tips == [r \in Repos |-> remote[r].old]
             new  == [run[p] EXCEPT !.pc = "planned", !.t.tips = tips]
  <2>1. tips \in [Repos -> SUBSET Commits]
    BY DEF Sound, RenameTypeOK, Names
  <2>2. run[p] \in RunStates /\ run \in [Runs -> RunStates]
    BY DEF Sound, RenameTypeOK
  <2>3. run' = [run EXCEPT ![p] = new]
    BY <1>2 DEF Preflight
  <2>4. /\ new \in RunStates /\ new.todo = run[p].todo /\ new.t.step = run[p].t.step
        /\ new.t.direction = run[p].t.direction
    <3> HIDE DEF tips
    <3> QED BY <2>1, <2>2 DEF RunStates, Transitions
  <2> HIDE DEF new
  <2>5. run' \in [Runs -> RunStates] /\ run'[p] = new /\ \A q \in Runs \ {p} : run'[q] = run[q]
    BY <2>2, <2>3, <2>4
  <2>6. \A q \in Runs : RunSound(q)'
    BY <1>2, <2>4, <2>5 DEF Preflight, RunSound, Work, Repos, Sound
  <2> QED BY <1>2, <1>still, <2>5, <2>6 DEF Preflight, RunType, Sound, RenameTypeOK
<1>3. ASSUME NEW p \in Runs, Start(p) PROVE DiskType' /\ RunType' /\ \A q \in Runs : RunSound(q)'
  <2>1. run[p].t \in Transitions
    BY RunParts DEF Sound
  <2> QED BY <1>3, <1>names, <1>same, <2>1, GoesType, WriteType
          DEF Start, Sound, RenameTypeOK, DiskType, RunType
<1>4. ASSUME NEW p \in Runs, Operate(p) PROVE DiskType' /\ RunType' /\ \A q \in Runs : RunSound(q)'
  BY <1>4, BranchesType, RemoteType, DirType, ReferrersType DEF Operate
<1>5. ASSUME NEW p \in Runs, Advance(p) PROVE DiskType' /\ RunType' /\ \A q \in Runs : RunSound(q)'
  <2> DEFINE t == [run[p].t EXCEPT !.step = NextStep(run[p].t)]
  <2>1. NextStep(run[p].t) \in 0 .. 8
    BY <1>5, RunParts, StepNumbers DEF Advance, Undone, NextStep, Sound
  <2>2. t \in Transitions
    BY <2>1, RunParts, StepNumbers DEF Transitions, Sound
  <2>3. WriteMarker(MarkerPath, t) /\ GoOn(p, MarkerPath, t)
        /\ UNCHANGED <<record, local, tree, remote, kids, views, layers>>
    BY <1>5 DEF Advance
  <2> HIDE DEF t
  <2> QED BY <1>names, <1>same, <2>2, <2>3, GoesType, WriteType
          DEF Sound, RenameTypeOK, DiskType, RunType
<1>6. ASSUME NEW p \in Runs, RolledBack(p) PROVE DiskType' /\ RunType' /\ \A q \in Runs : RunSound(q)'
  <2>1. run[p].anchor \in Names
    BY RunParts DEF Sound
  <2> QED BY <1>6, <1>still, <2>1, EndsType, UnmarkType DEF RolledBack, Sound, RunType
<1>7. ASSUME NEW p \in Runs, Unlink(p) PROVE DiskType' /\ RunType' /\ \A q \in Runs : RunSound(q)'
  <2> DEFINE new == [run[p] EXCEPT !.pc = "unlinked"]
  <2>1. at' \in [Names -> {"feature", "link", "other", "absent"}]
    BY <1>7 DEF Unlink, Sound, RenameTypeOK
  <2>2. run[p] \in RunStates /\ run \in [Runs -> RunStates]
    BY DEF Sound, RenameTypeOK
  <2>3. run' = [run EXCEPT ![p] = new]
    BY <1>7 DEF Unlink
  <2>4. new \in RunStates /\ new.todo = run[p].todo /\ new.t = run[p].t /\ new.pc = "unlinked"
    BY <2>2 DEF RunStates
  <2> HIDE DEF new
  <2>5. run' \in [Runs -> RunStates] /\ run'[p] = new /\ \A q \in Runs \ {p} : run'[q] = run[q]
    BY <2>2, <2>3, <2>4
  <2>6. \A q \in Runs : RunSound(q)'
    BY <2>4, <2>5 DEF RunSound, Work, Repos, Sound
  <2> QED BY <1>7, <1>same, <2>1, <2>5, <2>6 DEF Unlink, RunType, DiskType, Sound, RenameTypeOK
<1>8. ASSUME NEW p \in Runs, Renamed(p) PROVE DiskType' /\ RunType' /\ \A q \in Runs : RunSound(q)'
  BY <1>8, <1>still, <1>names, EndsType, UnmarkType DEF Renamed, Sound, RunType
<1>9. ASSUME NEW p \in Runs, Fault(p) PROVE DiskType' /\ RunType' /\ \A q \in Runs : RunSound(q)'
  BY <1>9, DoneSkips, PlainType DEF Fault
<1>10. ASSUME NEW p \in Runs, Crash(p) PROVE DiskType' /\ RunType' /\ \A q \in Runs : RunSound(q)'
  BY <1>10, <1>still, EndsType DEF Crash, RunType, Sound, RenameTypeOK
<1>11. ASSUME NEW path \in Names, CreateFeature(path)
       PROVE  DiskType' /\ RunType' /\ \A q \in Runs : RunSound(q)'
  BY <1>11, <1>same DEF CreateFeature, RunType, DiskType, Sound, RenameTypeOK, RunSound, Work, Repos
<1>12. ASSUME NEW r \in Repos, NEW branch \in Names, ColleaguePushes(r, branch)
       PROVE  DiskType' /\ RunType' /\ \A q \in Runs : RunSound(q)'
  <2>1. spent.pushes + 1 \in Commits
    BY <1>12, RenameConstants DEF ColleaguePushes, Commits, Sound, RenameTypeOK
  <2>2. remote[r][branch] \cup {spent.pushes + 1} \in SUBSET Commits
    BY <2>1 DEF Sound, RenameTypeOK
  <2> QED BY <1>12, <1>same, <2>2, SetRemoteType
          DEF ColleaguePushes, RunType, Sound, RenameTypeOK, RunSound, Work, Repos
<1>13. ASSUME UNCHANGED renameVars PROVE DiskType' /\ RunType' /\ \A q \in Runs : RunSound(q)'
  <2>1. UNCHANGED disk /\ UNCHANGED <<marker, run>>
    BY <1>13 DEF renameVars, disk
  <2> QED BY <2>1, <1>still DEF RunType, Sound, RenameTypeOK, RunSound, Work, Repos
<1> QED BY <1>types, <1>spent, <1>1, <1>2, <1>3, <1>4, <1>5, <1>6, <1>7, <1>8, <1>9, <1>10, <1>11,
           <1>12, <1>13 DEF RenameNext, RunStep

-----------------------------------------------------------------------------
(* The hall stays sound.                                                   *)

DirSound ==
  \/ at.old = "feature" /\ at.new \in {"absent", "other"}
  \/ want.name /\ at.new = "feature" /\ at.old \in {"absent", "link", "other"}

RefsSound ==
  /\ want.name \/ want.branch
  /\ \A r \in Repos :
       \/ local[r].old = "ours" /\ local[r].new \in {"none", "theirs"}
       \/ want.branch /\ local[r].old = "none" /\ local[r].new = "ours"
  /\ ~ want.name => \A k \in Kids : kids[k] = "old"
  /\ ~ want.branch => \A r \in Repos : tree[r] = "old"

LEMMA HallIs == HallSound <=> DirSound /\ RefsSound
BY DEF HallSound, DirSound, RefsSound

(* A marker written where no directory is makes one, of another feature.   *)
LEMMA WriteSound ==
  ASSUME Sound, UNCHANGED want, NEW path \in Names, NEW t, WriteMarker(path, t)
  PROVE  DirSound'
<1>1. CASE IsDir(path)
  BY <1>1 DEF WriteMarker, Sound, HallSound, DirSound
<1>2. CASE ~ IsDir(path)
  <2>1. at[path] = "absent"
    BY <1>2, DirIs DEF Sound, RenameTypeOK
  <2>2. at' = [at EXCEPT ![path] = "other"]
    BY <1>2 DEF WriteMarker
  <2> QED BY <2>1, <2>2 DEF Sound, RenameTypeOK, HallSound, DirSound, Names
<1> QED BY <1>1, <1>2

LEMMA FailsSound ==
  ASSUME Sound, UNCHANGED want, NEW p \in Runs, Fails(p)
  PROVE  DirSound' /\ UNCHANGED <<local, kids, tree>>
<1>1. run[p].anchor \in Names
  BY RunParts DEF Sound
<1> QED BY <1>1, WriteSound DEF Fails, Sound, HallSound, DirSound

LEMMA DirStepSound ==
  ASSUME Sound, UNCHANGED want, NEW p \in Runs, DirForward(p) \/ DirBack(p)
  PROVE  DirSound' /\ UNCHANGED <<local, kids, tree>>
<1>0. Op(p) \in {1, 2, 3}
  BY OpIs, WorkIs DEF Sound, DirForward, DirBack, At
<1>1. \/ Fails(p)
      \/ UNCHANGED <<at, local, kids, tree>>
      \/ /\ UNCHANGED <<local, kids, tree>> /\ want.name
         /\ \/ at' = MovedTo("new") \/ at' = MovedTo("old")
            \/ at.old \in {"absent", "link"} /\ at' = [at EXCEPT !.old = "link"]
            \/ at.old \in {"absent", "link"} /\ at' = [at EXCEPT !.old = "absent"]
  BY <1>0 DEF DirForward, DirBack, SetAt, SetIdentity, disk
<1>2. MovedTo("new") = [old |-> "absent", new |-> "feature"]
      /\ MovedTo("old") = [old |-> "feature", new |-> "absent"]
  BY DEF MovedTo, Names
<1>3. UNCHANGED <<at, local, kids, tree>> => DirSound' /\ UNCHANGED <<local, kids, tree>>
  BY DEF Sound, HallSound, DirSound
<1> QED BY <1>1, <1>2, <1>3, FailsSound DEF Sound, RenameTypeOK, HallSound, DirSound, Names

LEMMA OtherStepSound ==
  ASSUME Sound, UNCHANGED want, NEW p \in Runs,
         Branches(p) \/ RemoteForward(p) \/ RemoteBack(p) \/ Referrers(p)
  PROVE  DirSound' /\ RefsSound'
<1>1. ASSUME UNCHANGED at PROVE DirSound'
  BY <1>1 DEF Sound, HallSound, DirSound
<1>2. ASSUME UNCHANGED <<local, kids, tree>> PROVE RefsSound'
  BY <1>2 DEF Sound, HallSound, RefsSound, Repos, Kids
<1>3. CASE Fails(p)
  BY <1>3, <1>2, FailsSound
<1>4. CASE RemoteForward(p) \/ RemoteBack(p)
  <2>1. Fails(p) \/ UNCHANGED <<at, local, kids, tree>>
    <3>1. run[p].todo # {} /\ run[p].t.step = RemoteOps
      BY <1>4 DEF RemoteForward, RemoteBack, At
    <3>2. PartOf(p) \in {1, 2, 3}
      BY <3>1, RemoteFacts
    <3> QED BY <1>4, <3>2 DEF RemoteForward, RemoteBack, LookRemote, PushNew, DeleteOld,
                              RepublishOld, DeleteNew, SetRemote, disk
  <2> QED BY <2>1, <1>1, <1>2, <1>3
<1>5. CASE Referrers(p)
  <2>0. run[p].todo # {}
    BY <1>5 DEF Referrers, At
  <2>1. UNCHANGED <<at, local, tree>>
    BY <1>5 DEF Referrers, RepointKid, RenameLayers, RefreshView
  <2>2. ~ want.name => UNCHANGED kids
    BY <1>5 DEF Referrers, RepointKid, RenameLayers, RefreshView
  <2> QED BY <2>1, <2>2, <1>1 DEF Sound, HallSound, RefsSound, Repos, Kids
<1>6. CASE Branches(p)
  <2>0. run[p].todo # {} /\ Op(p) \in Repos
    BY <1>6, OpIs, WorkIs DEF Sound, Branches, At
  <2>1. PICK from \in Names, to \in Names : from # to /\
          (MoveBranch(p, Op(p), from, to) \/ MoveWorktree(p, Op(p), from, to))
    BY <1>6 DEF Branches, Names
  <2>2. CASE MoveWorktree(p, Op(p), from, to)
    <3>1. UNCHANGED <<at, local, kids>> /\ (~ want.branch => UNCHANGED tree)
      BY <2>2 DEF MoveWorktree
    <3> QED BY <3>1, <1>1 DEF Sound, HallSound, RefsSound, Repos, Kids
  <2>3. CASE MoveBranch(p, Op(p), from, to)
    <3>1. CASE UNCHANGED disk
      BY <3>1, <1>1, <1>2 DEF disk
    <3>2. CASE /\ want.branch /\ local[Op(p)][from] # "none" /\ local[Op(p)][to] = "none"
               /\ local' = [local EXCEPT ![Op(p)] = [@ EXCEPT ![from] = "none", ![to] = local[Op(p)][from]]]
               /\ UNCHANGED <<at, tree, kids>>
      <4>1. local \in [Repos -> [Names -> {"ours", "theirs", "none"}]]
        BY DEF Sound, RenameTypeOK
      <4>2. /\ local'[Op(p)][from] = "none" /\ local'[Op(p)][to] = local[Op(p)][from]
            /\ \A r \in Repos \ {Op(p)} : local'[r] = local[r]
        BY <2>0, <2>1, <3>2, <4>1
      <4>3. (from = "old" /\ to = "new") \/ (from = "new" /\ to = "old")
        BY <2>1 DEF Names
      <4>4. \/ local[Op(p)].old = "ours" /\ local[Op(p)].new \in {"none", "theirs"}
            \/ local[Op(p)].old = "none" /\ local[Op(p)].new = "ours"
        BY <2>0 DEF Sound, HallSound
      <4>5. \/ local'[Op(p)].old = "ours" /\ local'[Op(p)].new \in {"none", "theirs"}
            \/ local'[Op(p)].old = "none" /\ local'[Op(p)].new = "ours"
        BY <3>2, <4>2, <4>3, <4>4
      <4>6. RefsSound'
        BY <2>0, <3>2, <4>2, <4>5 DEF Sound, HallSound, RefsSound, Repos, Kids
      <4> QED BY <3>2, <4>6, <1>1
    <3> QED BY <2>3, <3>1, <3>2, <1>3 DEF MoveBranch
  <2> QED BY <2>1, <2>2, <2>3
<1> QED BY <1>4, <1>5, <1>6

LEMMA HallStep ==
  ASSUME Sound, [RenameNext]_renameVars
  PROVE  HallSound'
<1>want. UNCHANGED want
  BY DEF RenameNext, Resume, Preflight, RunStep, Start, Operate, Advance, RolledBack, Unlink,
         Renamed, Fault, Crash, CreateFeature, ColleaguePushes, SetRemote, renameVars
<1>refs. ASSUME UNCHANGED <<local, kids, tree>> PROVE RefsSound'
  BY <1>want, <1>refs DEF Sound, HallSound, RefsSound, Repos, Kids
<1>at. ASSUME UNCHANGED at PROVE DirSound'
  BY <1>want, <1>at DEF Sound, HallSound, DirSound
<1>names. "old" \in Names /\ "new" \in Names /\ MarkerPath \in Names
  BY DEF Names, MarkerPath
<1>1. ASSUME NEW p \in Runs, Operate(p) PROVE HallSound'
  <2>1. CASE DirForward(p) \/ DirBack(p)
    BY <2>1, <1>want, <1>refs, DirStepSound, HallIs, PTL
  <2>2. CASE ~ (DirForward(p) \/ DirBack(p))
    BY <1>1, <2>2, <1>want, OtherStepSound, HallIs, PTL DEF Operate
  <2> QED BY <2>1, <2>2
<1>2. CASE UNCHANGED <<at, local, kids, tree>>
  <2>1. DirSound' /\ RefsSound'
    BY <1>2, <1>refs, <1>at
  <2> QED BY <2>1, HallIs, PTL
<1>3. ASSUME NEW p \in Runs, Start(p) \/ Advance(p) PROVE HallSound'
  <2>1. DirSound'
    BY <1>3, <1>want, <1>names, WriteSound DEF Start, Advance
  <2>2. UNCHANGED <<local, kids, tree>>
    BY <1>3 DEF Start, Advance
  <2> QED BY <2>1, <2>2, <1>refs, HallIs, PTL
<1>4. ASSUME NEW p \in Runs, Unlink(p) PROVE HallSound'
  <2>1. DirSound'
    BY <1>4, <1>want DEF Unlink, Sound, RenameTypeOK, HallSound, DirSound, Names
  <2>2. UNCHANGED <<local, kids, tree>>
    BY <1>4 DEF Unlink
  <2> QED BY <2>1, <2>2, <1>refs, HallIs, PTL
<1>5. ASSUME NEW p \in Runs, Fault(p) PROVE HallSound'
  <2>1. Fails(p) \/ UNCHANGED <<at, local, kids, tree>>
    BY <1>5 DEF Fault, disk
  <2>2. CASE Fails(p)
    BY <2>2, <1>want, <1>refs, FailsSound, HallIs, PTL
  <2> QED BY <2>1, <2>2, <1>2
<1>6. ASSUME NEW path \in Names, CreateFeature(path) PROVE HallSound'
  <2>1. DirSound'
    BY <1>6, <1>want DEF CreateFeature, Sound, RenameTypeOK, HallSound, DirSound, Names
  <2>2. UNCHANGED <<local, kids, tree>>
    BY <1>6 DEF CreateFeature
  <2> QED BY <2>1, <2>2, <1>refs, HallIs, PTL
<1>7. \/ UNCHANGED <<at, local, kids, tree>>
      \/ \E p \in Runs : Operate(p) \/ Start(p) \/ Advance(p) \/ Unlink(p) \/ Fault(p)
      \/ \E path \in Names : CreateFeature(path)
  BY DEF RenameNext, Resume, Preflight, RunStep, RolledBack, Renamed, Crash, ColleaguePushes,
         SetRemote, renameVars, disk
<1> QED BY <1>1, <1>2, <1>3, <1>4, <1>5, <1>6, <1>7

-----------------------------------------------------------------------------
(* A directory with a marker of its own, once another feature has a name.  *)

LEMMA StuckIs ==
  ASSUME Sound, Stuck
  PROVE  /\ want.name /\ MarkerPath = "new" /\ IsDir("old") /\ IsDir("new")
         /\ Dir("old") \in {"feature", "old"} /\ Dir("new") \in {"feature", "new"}
         /\ Dir("old") # Dir("new")
         /\ at.old \in {"feature", "other"} /\ at.new \in {"feature", "other"}
         /\ at # MovedTo("old") /\ at # MovedTo("new")
         /\ marker[Dir("old")] \in Transitions /\ ~ Undone(marker[Dir("old")])
<1>1. at \in [Names -> {"feature", "link", "other", "absent"}] /\ HallSound /\ want.name
      /\ at.old \in {"feature", "other"} /\ at.new \in {"feature", "other"}
  BY DEF Sound, RenameTypeOK, Stuck, Names
<1>2. (at.old = "feature" /\ at.new = "other") \/ (at.old = "other" /\ at.new = "feature")
  BY <1>1 DEF HallSound
<1>3. /\ IsDir("old") /\ IsDir("new") /\ Dir("old") # Dir("new")
      /\ Dir("old") \in {"feature", "old"} /\ Dir("new") \in {"feature", "new"}
  BY <1>1, <1>2, DirIs DEF Names
<1>4. at # MovedTo("old") /\ at # MovedTo("new")
  BY <1>1 DEF MovedTo, Names
<1>5. marker[Dir("old")] \in Transitions /\ ~ Undone(marker[Dir("old")])
  BY <1>3 DEF Stuck, Sound, RenameTypeOK
<1> QED BY <1>1, <1>3, <1>4, <1>5 DEF MarkerPath

LEMMA StuckStays ==
  ASSUME Sound, Stuck, UNCHANGED <<want, at>>,
         marker'[Dir("old")] \in Transitions, ~ Undone(marker'[Dir("old")]),
         \A q \in Runs :
           /\ run'[q].pc # "planned"
           /\ run'[q].pc = "work" /\ run'[q].anchor = "old" => run'[q].t = marker'[Dir("old")]
  PROVE  Stuck'
<1>1. Dir("old")' = Dir("old") /\ Nothing \notin Transitions
  BY NothingAssumption DEF Dir, Real
<1>2. Undone(marker[Dir("old")])' <=> Undone(marker'[Dir("old")])
  BY <1>1 DEF Undone
<1> QED BY <1>1, <1>2 DEF Stuck

LEMMA StuckFails ==
  ASSUME Sound, OneRun, Stuck, UNCHANGED want, NEW p \in Runs,
         run[p].pc = "work", run[p].todo # {}, Fails(p)
  PROVE  Stuck'
<1> DEFINE home == Dir("old")
           t == [run[p].t EXCEPT !.direction = "back"]
<1>1. run'[p].pc = "idle" /\ \A q \in Runs : q = p
  BY RunEnds DEF Fails, OneRun, Sound
<1>2. CASE run[p].t.direction # "forward"
  BY <1>1, <1>2, StuckStays, StuckIs DEF Fails
<1>3. CASE run[p].t.direction = "forward"
  <2>1. run[p].t.step # Initialize
    BY WorkIs DEF Sound, RunSound
  <2>2. t \in Transitions /\ t.step = run[p].t.step
    BY RunParts DEF Sound, Transitions
  <2>3. WriteMarker(run[p].anchor, t) /\ run[p].anchor \in Names
    BY <1>3, RunParts DEF Fails, Sound
  <2> HIDE DEF t
  <2>4. run[p].anchor = "old" \/ run[p].anchor = "new"
    BY <2>3 DEF Names
  <2>5. UNCHANGED at /\ marker'[Dir(run[p].anchor)] = t
        /\ \A d \in {"feature", "old", "new"} \ {Dir(run[p].anchor)} : marker'[d] = marker[d]
    BY <2>2, <2>3, <2>4, StuckIs, WriteType DEF Sound
  <2>6. marker'[home] \in Transitions /\ ~ Undone(marker'[home])
    <3>1. CASE run[p].anchor = "old"
      BY <3>1, <2>1, <2>2, <2>5 DEF Undone
    <3>2. CASE run[p].anchor = "new"
      <4>1. marker'[home] = marker[home]
        BY <3>2, <2>5, StuckIs
      <4> QED BY <4>1, StuckIs
    <3> QED BY <3>1, <3>2, <2>4
  <2> QED BY <1>1, <2>5, <2>6, StuckStays
<1> QED BY <1>2, <1>3

LEMMA StuckSkips ==
  ASSUME Sound, OneRun, Stuck, UNCHANGED <<want, at>>, NEW p \in Runs, NEW skipped, Skips(p, skipped)
  PROVE  Stuck'
<1>1. /\ marker' = marker /\ run'[p].pc = run[p].pc /\ run'[p].anchor = run[p].anchor
      /\ run'[p].t = run[p].t
  BY RunSkips DEF Skips, Sound
<1>2. \A q \in Runs : q = p
  BY DEF OneRun
<1>3. run'[p].pc # "planned"
      /\ (run'[p].pc = "work" /\ run'[p].anchor = "old" => run'[p].t = marker'[Dir("old")])
  BY <1>1 DEF Stuck
<1> QED BY <1>1, <1>2, <1>3, StuckIs, StuckStays

LEMMA StuckOperate ==
  ASSUME Sound, OneRun, Stuck, NEW p \in Runs, Operate(p)
  PROVE  Stuck'
<1>0. run[p].pc = "work" /\ run[p].todo # {} /\ UNCHANGED want
  BY DEF Operate, Branches, RemoteForward, RemoteBack, DirForward, DirBack, Referrers, At
<1>1. Fails(p) \/ (UNCHANGED at /\ \E skipped : Skips(p, skipped))
  <2>1. CASE Branches(p)
    BY <2>1, DoneSkips DEF Branches, MoveBranch, MoveWorktree, disk
  <2>2. CASE Referrers(p)
    BY <2>2, DoneSkips DEF Referrers, RepointKid, RenameLayers, RefreshView
  <2>3. CASE RemoteForward(p) \/ RemoteBack(p)
    <3>1. run[p].t.step = RemoteOps
      BY <2>3 DEF RemoteForward, RemoteBack, At
    <3>2. PartOf(p) \in {1, 2, 3}
      BY <1>0, <3>1, RemoteFacts
    <3> QED BY <2>3, <3>2, DoneSkips DEF RemoteForward, RemoteBack, LookRemote, PushNew, DeleteOld,
                                     RepublishOld, DeleteNew, SetRemote, disk
  <2>4. CASE DirForward(p) \/ DirBack(p)
    <3>1. Op(p) \in {1, 2, 3}
      BY <1>0, <2>4, OpIs, WorkIs DEF Sound, DirForward, DirBack, At
    <3>2. at.old # "absent" /\ at.old # "link" /\ at # MovedTo("old") /\ at # MovedTo("new")
      BY StuckIs
    <3> QED BY <2>4, <3>1, <3>2, DoneSkips DEF DirForward, DirBack, SetIdentity, disk
  <2> QED BY <2>1, <2>2, <2>3, <2>4 DEF Operate
<1> QED BY <1>0, <1>1, StuckFails, StuckSkips

LEMMA StuckStep ==
  ASSUME Sound, OneRun, Stuck, [RenameNext]_renameVars
  PROVE  Stuck'
<1> DEFINE home == Dir("old")
<1>0. /\ marker[home] \in Transitions /\ ~ Undone(marker[home]) /\ Nothing \notin Transitions
      /\ \A q \in Runs :
           /\ run[q].pc # "planned"
           /\ run[q].pc = "work" /\ run[q].anchor = "old" => run[q].t = marker[home]
  BY StuckIs, NothingAssumption DEF Stuck
<1>one. \A p, q \in Runs : p = q
  BY DEF OneRun
<1>1. ASSUME NEW p \in Runs, Resume(p) PROVE Stuck'
  <2>1. PICK path \in Names : Marked(path) /\ GoOn(p, path, marker[Dir(path)])
    BY <1>1 DEF Resume
  <2>2. marker[Dir(path)] \in Transitions
    BY <2>1, DirIs DEF Marked, Sound, RenameTypeOK
  <2>3. run'[p].pc = "work" /\ run'[p].anchor = path /\ run'[p].t = marker[Dir(path)]
    BY <2>1, <2>2, RunGoes DEF Sound
  <2>4. UNCHANGED <<want, at, marker>>
    BY <1>1 DEF Resume, disk
  <2> QED BY <1>0, <1>one, <2>3, <2>4, StuckStays
<1>2. ASSUME NEW p \in Runs, Preflight(p) PROVE Stuck'
  BY <1>0, <1>2, StuckIs DEF Preflight, Marked, Names
<1>3. ASSUME NEW p \in Runs, Start(p) PROVE Stuck'
  BY <1>0, <1>3 DEF Start
<1>4. ASSUME NEW p \in Runs, Advance(p) PROVE Stuck'
  <2> DEFINE t == [run[p].t EXCEPT !.step = NextStep(run[p].t)]
  <2>1. NextStep(run[p].t) \in 0 .. 8
    BY <1>4, RunParts, StepNumbers DEF Advance, Undone, NextStep, Sound
  <2>2. t \in Transitions
    BY <2>1, RunParts, StepNumbers DEF Transitions, Sound
  <2>3. WriteMarker("new", t) /\ GoOn(p, "new", t) /\ UNCHANGED want
    BY <1>4, StuckIs DEF Advance
  <2> HIDE DEF t
  <2>4. UNCHANGED at /\ marker'[home] = marker[home]
    BY <2>2, <2>3, StuckIs, WriteType DEF Sound, Names
  <2>5. run'[p].pc = "work" /\ run'[p].anchor = "new"
    BY <2>2, <2>3, RunGoes DEF Sound, Names
  <2> QED BY <1>0, <1>one, <2>3, <2>4, <2>5, StuckStays
<1>5. ASSUME NEW p \in Runs, NEW path \in Names, Unmark(path), Ends(p), UNCHANGED <<want, at>>,
             path = "new"
      PROVE  Stuck'
  <2>1. marker'[home] = marker[home]
    BY <1>5, StuckIs, UnmarkType DEF Sound
  <2>2. run'[p].pc = "idle"
    BY <1>5, RunEnds DEF Sound
  <2> QED BY <1>0, <1>one, <1>5, <2>1, <2>2, StuckStays
<1>6. ASSUME NEW p \in Runs, RolledBack(p) PROVE Stuck'
  <2>1. run[p].anchor \in Names /\ run[p].anchor # "old"
    BY <1>0, <1>6, RunParts DEF RolledBack, Through, Sound
  <2> QED BY <1>5, <1>6, <2>1 DEF RolledBack, disk, Names
<1>7. ASSUME NEW p \in Runs, Renamed(p) PROVE Stuck'
  BY <1>5, <1>7, StuckIs DEF Renamed, disk, Names
<1>8. ASSUME NEW p \in Runs, Unlink(p) PROVE Stuck'
  <2>1. UNCHANGED <<want, at, marker>>
    BY <1>8, StuckIs DEF Unlink
  <2>2. run'[p].pc = "unlinked"
    BY <1>8 DEF Unlink, Sound, RenameTypeOK, RunStates
  <2> QED BY <1>0, <1>one, <2>1, <2>2, StuckStays
<1>9. ASSUME NEW p \in Runs, Fault(p) PROVE Stuck'
  <2>1. run[p].pc = "work" /\ run[p].todo # {} /\ UNCHANGED want
        /\ (Fails(p) \/ (UNCHANGED disk /\ \E skipped : Skips(p, skipped)))
    BY <1>9, DoneSkips DEF Fault
  <2> QED BY <2>1, StuckFails, StuckSkips DEF disk
<1>10. ASSUME NEW p \in Runs, Crash(p) PROVE Stuck'
  <2>1. run'[p].pc = "idle"
    BY <1>10, RunEnds DEF Crash, Sound
  <2> QED BY <1>0, <1>one, <1>10, <2>1, StuckStays DEF Crash, disk
<1>11. ASSUME NEW path \in Names, CreateFeature(path) PROVE Stuck'
  BY <1>11, StuckIs DEF CreateFeature, Names
<1>12. ASSUME UNCHANGED <<want, at, marker, run>> PROVE Stuck'
  BY <1>0, <1>12, StuckStays
<1>13. \/ UNCHANGED <<want, at, marker, run>>
       \/ \E p \in Runs : Resume(p) \/ Preflight(p) \/ Start(p) \/ Operate(p) \/ Advance(p)
                        \/ RolledBack(p) \/ Unlink(p) \/ Renamed(p) \/ Fault(p) \/ Crash(p)
       \/ \E path \in Names : CreateFeature(path)
  BY DEF RenameNext, RunStep, ColleaguePushes, SetRemote, renameVars
<1> QED BY <1>1, <1>2, <1>3, <1>4, <1>6, <1>7, <1>8, <1>9, <1>10, <1>11, <1>12, <1>13, StuckOperate

-----------------------------------------------------------------------------
(* At rest.                                                                *)

(* Everything carries the identity `id`.                                   *)
Whole(id) == \A step \in 0 .. 8 : \A i \in Work(step) : Carries(step, i, id)

LEMMA CarriesIs ==
  ASSUME NEW i, NEW id
  PROVE  /\ Carries(0, i, id) /\ Carries(3, i, id) /\ Carries(6, i, id) /\ Carries(8, i, id)
         /\ Carries(1, i, id) <=> local[i][Identity(id).branch] = "ours"
         /\ Carries(2, i, id) <=> tree[i] = Identity(id).branch
         /\ Carries(4, i, id) <=> DirCarries(i, id)
         /\ Carries(5, i, id) <=> kids[i] = Identity(id).name
         /\ Carries(7, i, id) <=> views[i] = id
BY StepNumbers DEF Carries

LEMMA IdentityIs ==
  /\ Identity("old").name = "old" /\ Identity("old").branch = "old"
  /\ Identity("new").name = NewName /\ Identity("new").branch = NewBranch
  /\ NewName \in Names /\ NewBranch \in Names
  /\ want.name => NewName = "new"
  /\ ~ want.name => NewName = "old"
  /\ want.branch => NewBranch = "new"
  /\ ~ want.branch => NewBranch = "old"
BY DEF Identity, NewName, NewBranch, Names

LEMMA WholeIs ==
  ASSUME Sound, NEW id \in Names
  PROVE  Whole(id) <=> /\ at[Identity(id).name] = "feature" /\ record = Identity(id)
                       /\ \A r \in Repos : /\ local[r][Identity(id).branch] = "ours"
                                          /\ tree[r] = Identity(id).branch
                       /\ \A k \in Kids : kids[k] = Identity(id).name
                       /\ \A s \in Sessions : views[s] = id
<1>1. Whole(id) <=> /\ \A i \in Repos : local[i][Identity(id).branch] = "ours"
                    /\ \A i \in Repos : tree[i] = Identity(id).branch
                    /\ \A i \in {1, 2, 3} : DirCarries(i, id)
                    /\ \A i \in Kids : kids[i] = Identity(id).name
                    /\ \A i \in Sessions : views[i] = id
  <2>1. ASSUME NEW step \in 0 .. 8
        PROVE  \/ step = 0 \/ step = 1 \/ step = 2 \/ step = 3 \/ step = 4
               \/ step = 5 \/ step = 6 \/ step = 7 \/ step = 8
    OBVIOUS
  <2>2. /\ Work(1) = Repos /\ Work(2) = Repos /\ Work(4) = {1, 2, 3} /\ Work(5) = Kids
        /\ Work(7) = Sessions
    BY WorkIs, StepNumbers
  <2> QED BY <2>1, <2>2, CarriesIs DEF Whole
<1>2. (\A i \in {1, 2, 3} : DirCarries(i, id))
        <=> at[Identity(id).name] = "feature" /\ record = Identity(id)
  BY IdentityIs DEF DirCarries, Names
<1> QED BY <1>1, <1>2

LEMMA WhollyIs ==
  ASSUME Sound, NEW id \in Names
  PROVE  Wholly(id) <=> /\ Whole(id)
                        /\ \A path \in Names \ {Identity(id).name} : at[path] \in {"absent", "other"}
BY WholeIs DEF Wholly

(* How a transition `t` in the feature's directory is shown to go on.      *)
LEMMA MovingNext ==
  ASSUME NEW t \in Transitions, marker'["feature"] = t, marker'["old"] = Nothing,
         marker'["new"] = Nothing, Placed(t)', StillPublished(t)',
         t.step = Finish => t.direction = "forward",
         want'.name /\ at'.old = "feature" /\ at'.new = "other" => Undone(t),
         \A q \in Runs :
           \/ run'[q].pc = "idle"
           \/ run'[q].pc = "work" /\ run'[q].t = t /\ DoneByRun(q)' /\ Anchored(q)'
           \/ /\ run'[q].pc = "unlinked" /\ run'[q].t = t /\ t.direction = "forward"
              /\ t.step = Finish /\ at'.old # "link"
  PROVE  Moving'
<1>1. t # Nothing
  BY NothingAssumption
<1>2. Placed(marker["feature"])' /\ StillPublished(marker["feature"])'
  BY DEF Placed, StillPublished
<1> QED BY <1>1, <1>2, StepNumbers DEF Moving, Undone, Finish

LEMMA RestsStep ==
  ASSUME Sound, OneRun, Rests, [RenameNext]_renameVars
  PROVE  Rests' \/ Moving' \/ Stuck'
<1>0. /\ \A d \in {"feature", "old", "new"} : marker[d] = Nothing
      /\ \A q \in Runs : run[q].pc \in {"idle", "planned"}
      /\ DOMAIN marker = {"feature", "old", "new"}
  BY DEF Rests, AtRest, Unmarked, Sound, RenameTypeOK
<1>one. \A p, q \in Runs : p = q
  BY DEF OneRun
<1>keep. ASSUME UNCHANGED <<want, record, local, tree, kids, views, marker>>,
                \A path \in Names : at[path] = at'[path] \/ (at[path] = "absent" /\ at'[path] = "other"),
                \A r \in Repos : remote[r].old \subseteq remote'[r].old,
                \A q \in Runs : run'[q].pc = "idle" \/ run'[q] = run[q]
         PROVE  Rests'
  <2>1. Wholly("old") => Wholly("old")'
    BY <1>keep DEF Wholly, Identity, NewName, NewBranch, Names, Repos, Kids, Sessions
  <2>2. Wholly("new") => Wholly("new")'
    BY <1>keep DEF Wholly, Identity, NewName, NewBranch, Names, Repos, Kids, Sessions
  <2>3. AtRest'
    BY <1>keep, <1>0 DEF AtRest, Unmarked
  <2>4. \A q \in Runs, r \in Repos : run'[q].pc = "planned" => run'[q].t.tips[r] \subseteq remote'[r].old
    BY <1>keep DEF Rests
  <2> QED BY <1>keep, <2>1, <2>2, <2>3, <2>4 DEF Rests, Repos
<1>1. ASSUME NEW p \in Runs, Resume(p) PROVE FALSE
  BY <1>0, <1>1, DirIs DEF Resume, Marked, Sound, RenameTypeOK
<1>2. ASSUME NEW p \in Runs, Preflight(p) PROVE Rests'
  <2> DEFINE tips == [r \in Repos |-> remote[r].old]
             new  == [run[p] EXCEPT !.pc = "planned", !.t.tips = tips]
  <2>1. run[p] \in RunStates /\ run \in [Runs -> RunStates]
    BY DEF Sound, RenameTypeOK
  <2>2. run' = [run EXCEPT ![p] = new]
    BY <1>2 DEF Preflight
  <2>3. new.pc = "planned" /\ \A r \in Repos : new.t.tips[r] = remote[r].old
    <3>1. new.pc = "planned" /\ new.t.tips = tips
      <4> HIDE DEF tips
      <4> QED BY <2>1 DEF RunStates, Transitions
    <3> QED BY <3>1
  <2> HIDE DEF new
  <2>4. run'[p] = new
    BY <2>1, <2>2
  <2>5. ~ Wholly("new")
    <3>1. SUFFICES ASSUME Wholly("new") PROVE FALSE
      OBVIOUS
    <3>2. Identity("new") = Identity("old") /\ Dir("old") = "feature" /\ at[NewName] = "feature"
      BY <1>2, <3>1, IdentityIs DEF Preflight, Wholly
    <3>3. NewName = "old" /\ NewBranch = "old"
      BY <3>2, IdentityIs
    <3> QED BY <3>3 DEF NewName, NewBranch, Sound, HallSound
  <2>6. Wholly("old")'
    <3>1. UNCHANGED <<want, at, record, local, tree, kids, views>> /\ Wholly("old")
      BY <1>2, <2>5 DEF Preflight, disk, Rests
    <3> QED BY <3>1 DEF Wholly, Identity, NewName, NewBranch, Names, Repos, Kids, Sessions
  <2>7. UNCHANGED <<marker, remote>>
    BY <1>2 DEF Preflight, disk
  <2>8. AtRest'
    BY <1>0, <1>one, <2>3, <2>4, <2>7 DEF AtRest, Unmarked
  <2> QED BY <1>one, <2>3, <2>4, <2>6, <2>7, <2>8 DEF Rests, Repos
<1>3. ASSUME NEW p \in Runs, Start(p) PROVE Moving' \/ Stuck'
  <2>t. run[p].t \in Transitions
    BY RunParts DEF Sound
  <2> PICK t \in Transitions : t = run[p].t
    BY <2>t
  <2>1. /\ Wholly("old") /\ run[p].pc = "planned" /\ t.direction = "forward" /\ t.step = 0
        /\ \A r \in Repos : t.tips[r] \subseteq remote[r].old
    BY <1>3, StepNumbers DEF Start, Rests, Sound, RunSound
  <2>2. at.old = "feature" /\ Whole("old") /\ at.new \in {"absent", "other"}
    BY <2>1, WhollyIs, IdentityIs DEF Wholly, Names, Sound, HallSound
  <2>3. Dir("old") = "feature" /\ IsDir("old")
    BY <2>2, DirIs DEF Sound, RenameTypeOK, Names
  <2>4. UNCHANGED <<want, record, local, tree, remote, kids, views>>
        /\ WriteMarker("old", t) /\ GoOn(p, "old", t) /\ "old" \in Names
    BY <1>3 DEF Start, Names
  <2>5. UNCHANGED at /\ marker'["feature"] = t /\ marker'["old"] = Nothing /\ marker'["new"] = Nothing
    BY <1>0, <2>1, <2>3, <2>4, WriteType DEF Sound
  <2>6. /\ run'[p].pc = "work" /\ run'[p].anchor = "old" /\ run'[p].t = t
        /\ run'[p].todo = Work(0)
    BY <2>1, <2>4, RunGoes DEF Sound
  <2>7. CASE want.name /\ at.new = "other"
    <3>1. \A path \in Names : at[path] \in {"feature", "other"}
      BY <2>2, <2>7 DEF Names
    <3>2. Dir("old")' = "feature" /\ t # Nothing
      BY <2>1, <2>3, <2>5, NothingAssumption DEF Dir, Real
    <3>3. ~ Undone(marker[Dir("old")])'
      BY <2>1, <2>5, <3>2 DEF Undone
    <3> QED BY <1>one, <2>4, <2>5, <2>6, <2>7, <3>1, <3>2, <3>3 DEF Stuck
  <2>8. CASE ~ (want.name /\ at.new = "other")
    <3>1. Placed(t)'
      <4>1. \A step \in 0 .. 8 : \A i \in Work(step) : Carries(step, i, "old")
        BY <2>2 DEF Whole
      <4>2. \A step \in 0 .. 8 : \A i \in Work(step) : Carries(step, i, "old")'
        BY <4>1, <2>4, <2>5 DEF Carries, DirCarries, Identity, NewName, NewBranch, Work, Repos
      <4> QED BY <4>2, <2>1, StepNumbers DEF Placed, Work, Repos
    <3>2. StillPublished(t)'
      BY <2>1, <2>4, StepNumbers DEF StillPublished, Repos
    <3>3. DoneByRun(p)'
      BY <2>1, <2>6, WorkIs, StepNumbers DEF DoneByRun
    <3>4. Anchored(p)'
      BY <2>1, <2>2, <2>5, <2>6, StepNumbers DEF Anchored, Undone
    <3> QED BY <1>one, <2>1, <2>4, <2>5, <2>6, <2>8, <3>1, <3>2, <3>3, <3>4, MovingNext
  <2> QED BY <2>7, <2>8
<1>4. ASSUME NEW p \in Runs, Operate(p) \/ Advance(p) \/ RolledBack(p) \/ Unlink(p) \/ Renamed(p) \/ Fault(p)
      PROVE  FALSE
  BY <1>0, <1>4 DEF Operate, Branches, RemoteForward, RemoteBack, DirForward, DirBack, Referrers, At,
     Advance, RolledBack, Unlink, Renamed, Fault, Through
<1>5. ASSUME NEW p \in Runs, Crash(p) PROVE Rests'
  <2>1. run'[p].pc = "idle"
    BY <1>5, RunEnds DEF Crash, Sound
  <2> QED BY <1>5, <1>one, <1>keep, <2>1 DEF Crash, disk
<1>6. ASSUME NEW path \in Names, CreateFeature(path) PROVE Rests'
  BY <1>6, <1>keep DEF CreateFeature, Sound, RenameTypeOK
<1>7. ASSUME NEW r \in Repos, NEW branch \in Names, ColleaguePushes(r, branch) PROVE Rests'
  <2>1. \A q \in Repos : remote[q].old \subseteq remote'[q].old
    BY <1>7 DEF ColleaguePushes, SetRemote, Sound, RenameTypeOK, Names
  <2> QED BY <1>7, <1>keep, <2>1 DEF ColleaguePushes, SetRemote
<1>8. ASSUME UNCHANGED renameVars PROVE Rests'
  BY <1>8, <1>keep DEF renameVars
<1> QED BY <1>1, <1>2, <1>3, <1>4, <1>5, <1>6, <1>7, <1>8 DEF RenameNext, RunStep

-----------------------------------------------------------------------------
(* On the move.                                                            *)

LEMMA MovingIs ==
  ASSUME Sound, Moving
  PROVE  marker["feature"] \in Transitions
BY DEF Moving, Sound, RenameTypeOK

(* The steps before the marker's are done, those after it are not, and the *)
(* directory is where they leave it.                                       *)
LEMMA PlacedIs ==
  ASSUME Sound, NEW t \in Transitions, Placed(t)
  PROVE  /\ t.step < 4 => at.old = "feature" /\ record = Identity("old")
         /\ t.step > 4 => at[NewName] = "feature" /\ record = Identity("new")
         /\ t.step = 0 => Whole("old")
         /\ t.step = 8 => Whole("new")
<1>1. \A step \in 0 .. 8 : \A i \in Work(step) :
        /\ step < t.step => Carries(step, i, "new")
        /\ step > t.step => Carries(step, i, "old")
  BY StepNumbers DEF Placed
<1>2. Work(0) = {} /\ Work(8) = {} /\ {1, 2, 3} = Work(4) /\ t.step \in 0 .. 8
  BY WorkIs, StepNumbers, Directions
<1>3. t.step = 0 => Whole("old")
  <2>1. \A step \in 0 .. 8 : step # 0 => step > 0
    OBVIOUS
  <2> QED BY <1>1, <1>2, <2>1 DEF Whole
<1>4. t.step = 8 => Whole("new")
  <2>1. \A step \in 0 .. 8 : step # 8 => step < 8
    OBVIOUS
  <2> QED BY <1>1, <1>2, <2>1 DEF Whole
<1>5. /\ t.step < 4 => DirCarries(2, "old") /\ DirCarries(3, "old")
      /\ t.step > 4 => DirCarries(2, "new") /\ DirCarries(3, "new")
  BY <1>1, <1>2, CarriesIs
<1> QED BY <1>3, <1>4, <1>5, IdentityIs DEF DirCarries

(* The path a run at work goes by leads to a directory, between the move   *)
(* of the feature's and the link.                                          *)
LEMMA AnchorLeads ==
  ASSUME Sound, NEW p \in Runs, Anchored(p), run[p].t.direction = "forward", run[p].todo # {},
         run[p].t.step = MoveFeatureDir => Op(p) # 2
  PROVE  /\ IsDir(run[p].anchor) /\ run[p].anchor \in Names
         /\ Dir(run[p].anchor) = "feature"
              \/ (run[p].anchor = "old" /\ at.old = "other" /\ Dir(run[p].anchor) = "old")
<1>1. run[p].anchor = "old" \/ run[p].anchor = "new"
  BY RunParts DEF Sound, Names
<1>2. CASE run[p].anchor = "new"
  BY <1>2, DirIs DEF Anchored, Sound, RenameTypeOK, Names
<1>3. CASE run[p].anchor = "old"
  <2>1. at.old # "absent"
    <3>1. SUFFICES ASSUME at.old = "absent" PROVE FALSE
      OBVIOUS
    <3>2. run[p].t.step = MoveFeatureDir /\ 1 \notin run[p].todo /\ 2 \in run[p].todo
      BY <1>3, <3>1 DEF Anchored
    <3>3. Op(p) \in run[p].todo /\ Op(p) <= 2 /\ Op(p) \in {1, 2, 3}
      BY <3>2, OpIs, WorkIs DEF Sound
    <3> QED BY <3>2, <3>3
  <2>2. at.old \in {"feature", "link", "other"}
    BY <2>1 DEF Sound, RenameTypeOK, Names
  <2> QED BY <1>3, <2>1, <2>2, DirIs DEF Sound, RenameTypeOK, Names
<1> QED BY <1>1, <1>2, <1>3

LEMMA KeptPublished ==
  ASSUME UNCHANGED <<want, remote>>, NEW t, StillPublished(t)
  PROVE  StillPublished(t)'
BY DEF StillPublished, Repos

LEMMA KeptPlaced ==
  ASSUME UNCHANGED <<want, at, record, local, tree, kids, views>>, NEW t, Placed(t)
  PROVE  Placed(t)'
BY DEF Placed, Carries, DirCarries, Identity, NewName, NewBranch, Work, Repos

(* A run ends, and the marker stays.                                       *)
LEMMA MovingEnds ==
  ASSUME Sound, OneRun, Moving, NEW p \in Runs, Ends(p), UNCHANGED <<want, disk, marker>>
  PROVE  Moving'
<1> PICK t \in Transitions : t = marker["feature"]
  BY MovingIs
<1>1. UNCHANGED <<want, at, record, local, tree, remote, kids, views, marker>>
  BY DEF disk
<1>2. Placed(t)' /\ StillPublished(t)'
  BY <1>1, KeptPlaced, KeptPublished DEF Moving
<1>3. run'[p].pc = "idle" /\ \A q \in Runs : q = p
  BY RunEnds DEF Sound, OneRun
<1> QED BY <1>1, <1>2, <1>3, MovingNext DEF Moving

(* A step that fails turns back, or, at a path that was taken, leaves a    *)
(* marker in the other feature's directory.                                *)
LEMMA MovingFails ==
  ASSUME Sound, OneRun, Moving, UNCHANGED want, NEW p \in Runs,
         run[p].pc = "work", run[p].todo # {}, Fails(p),
         run[p].t.direction = "forward" /\ run[p].t.step = MoveFeatureDir => Op(p) # 2
  PROVE  Moving' \/ Stuck'
<1> PICK t \in Transitions : t = marker["feature"]
  BY MovingIs
<1>1. run'[p].pc = "idle" /\ \A q \in Runs : q = p
  BY RunEnds DEF Fails, OneRun, Sound
<1>2. run[p].t = t /\ Anchored(p) /\ Placed(t) /\ StillPublished(t)
  BY DEF Moving
<1>3. CASE t.direction # "forward"
  BY <1>2, <1>3, MovingEnds DEF Fails, disk
<1>4. CASE t.direction = "forward"
  <2>0. [t EXCEPT !.direction = "back"] \in Transitions
    BY DEF Transitions
  <2> PICK u \in Transitions : u = [t EXCEPT !.direction = "back"]
    BY <2>0
  <2>1. u.direction = "back" /\ u.step = t.step /\ u.tips = t.tips
    BY DEF Transitions
  <2>2. t.step # Initialize /\ t.step # Finish
    BY <1>2, WorkIs DEF Sound, RunSound
  <2>3. /\ WriteMarker(run[p].anchor, u) /\ UNCHANGED <<record, local, tree, remote, kids, views>>
    BY <1>2, <1>4 DEF Fails
  <2>4. /\ IsDir(run[p].anchor) /\ run[p].anchor \in Names
        /\ Dir(run[p].anchor) = "feature"
             \/ (run[p].anchor = "old" /\ at.old = "other" /\ Dir(run[p].anchor) = "old")
    BY <1>2, <1>4, AnchorLeads
  <2>5. UNCHANGED at /\ marker'[Dir(run[p].anchor)] = u
        /\ \A d \in {"feature", "old", "new"} \ {Dir(run[p].anchor)} : marker'[d] = marker[d]
    BY <2>3, <2>4, WriteType DEF Sound
  <2>6. CASE Dir(run[p].anchor) = "feature"
    <3>1. marker'["feature"] = u /\ marker'["old"] = Nothing /\ marker'["new"] = Nothing
      BY <2>5, <2>6 DEF Moving
    <3>2. Placed(u) /\ StillPublished(u)
      BY <1>2, <2>1 DEF Placed, StillPublished
    <3>3. Placed(u)' /\ StillPublished(u)'
      BY <2>3, <2>5, <3>2, KeptPlaced, KeptPublished
    <3>4. ~ (want.name /\ at.old = "feature" /\ at.new = "other")
      BY <1>4 DEF Moving, Undone
    <3> QED BY <1>1, <2>1, <2>2, <2>5, <3>1, <3>3, <3>4, MovingNext
  <2>7. CASE run[p].anchor = "old" /\ at.old = "other" /\ Dir(run[p].anchor) = "old"
    <3>1. want.name /\ at.new = "feature"
      BY <2>7 DEF Sound, HallSound
    <3>2. Dir("old")' = "old" /\ marker'["old"] = u
      BY <2>5, <2>7 DEF Dir, Real
    <3>3. u # Nothing /\ ~ Undone(u)
      BY <2>1, <2>2, NothingAssumption DEF Undone
    <3>4. marker'[Dir("old")'] = u
      BY <3>2
    <3>5. ~ Undone(marker[Dir("old")])'
      BY <3>3, <3>4 DEF Undone
    <3> QED BY <1>1, <2>5, <2>7, <3>1, <3>3, <3>4, <3>5 DEF Stuck, Names
  <2> QED BY <2>4, <2>6, <2>7
<1> QED BY <1>3, <1>4

(* A run at work does, or skips, some operations: what they move carries   *)
(* the identity the transition goes to, and the rest carries what it did.  *)
LEMMA MovingSkips ==
  ASSUME Sound, OneRun, Moving, UNCHANGED want, NEW p \in Runs, run[p].pc = "work",
         NEW skipped, Skips(p, skipped), NEW t \in Transitions, run[p].t = t,
         \A step \in 0 .. 8 : \A i \in Work(step) : \A id \in Names :
           step # t.step \/ (i \notin skipped /\ id = Toward(t))
             => (Carries(step, i, id) => Carries(step, i, id)'),
         \A i \in skipped \cap run[p].todo : Carries(t.step, i, Toward(t))',
         \A i \in skipped : i \in run[p].todo,
         StillPublished(t)',
         t.step = RemoteOps /\ want.branch => \A r \in Repos :
           /\ t.direction = "forward" /\ 3 * r - 1 \in Work(RemoteOps) \ (run[p].todo \ skipped)
                => t.tips[r] \subseteq remote'[r].new
           /\ t.direction = "back" /\ 3 * r - 2 \in Work(RemoteOps) \ (run[p].todo \ skipped)
                => t.tips[r] \subseteq remote'[r].old,
         want.name /\ at'.old = "feature" /\ at'.new = "other" => Undone(t),
         Anchored(p)'
  PROVE  Moving'
<1>1. run[p].t = marker["feature"] /\ Placed(t) /\ DoneByRun(p)
  BY DEF Moving
<1>2. /\ run'[p].todo = run[p].todo \ skipped /\ run'[p].pc = "work" /\ run'[p].t = t
      /\ marker' = marker /\ \A q \in Runs : q = p
  BY RunSkips DEF Skips, Sound, OneRun
<1>3. Placed(t)'
  <2>1. \A step \in 0 .. 8 : \A i \in Work(step) :
          /\ step < t.step => Carries(step, i, "new")
          /\ step > t.step => Carries(step, i, "old")
    BY <1>1, StepNumbers DEF Placed
  <2>2. \A step \in 0 .. 8 : step < t.step \/ step > t.step => step # t.step
    BY Directions
  <2>3. \A step \in 0 .. 8 : \A i \in Work(step) :
          /\ step < t.step => Carries(step, i, "new")'
          /\ step > t.step => Carries(step, i, "old")'
    BY <2>1, <2>2 DEF Names
  <2> QED BY <2>3, StepNumbers DEF Placed, Work, Repos
<1>4. DoneByRun(p)'
  <2>0. t.step \in 0 .. 8 /\ Toward(t) \in Names
    BY Directions DEF Toward, Names
  <2>1. \A i \in Work(t.step) \ run[p].todo : Carries(t.step, i, Toward(t))
    BY <1>1 DEF DoneByRun
  <2>2. ASSUME NEW i \in Work(t.step) \ (run[p].todo \ skipped)
        PROVE  Carries(t.step, i, Toward(t))'
    <3>1. CASE i \in skipped
      BY <3>1
    <3>2. CASE i \notin skipped
      BY <2>0, <2>1, <3>2
    <3> QED BY <3>1, <3>2
  <2>3. Work(t.step)' = Work(t.step)
    BY DEF Work
  <2> QED BY <1>2, <2>2, <2>3, StepNumbers DEF DoneByRun, Repos
<1> QED BY <1>1, <1>2, <1>3, <1>4, MovingNext DEF Moving

(* The same, for an operation outside the remote that leaves the directory *)
(* where it is.                                                            *)
LEMMA MovingDone ==
  ASSUME Sound, OneRun, Moving, UNCHANGED <<want, at, remote>>, NEW p \in Runs, run[p].pc = "work",
         run[p].todo # {}, Done(p), NEW t \in Transitions, run[p].t = t, t.step # RemoteOps,
         NEW op, op = Op(p),
         t.step = MoveFeatureDir /\ op = 2 => at.old # "absent",
         \A step \in 0 .. 8 : \A i \in Work(step) : \A id \in Names :
           step # t.step \/ (i # op /\ id = Toward(t))
             => (Carries(step, i, id) => Carries(step, i, id)'),
         Carries(t.step, op, Toward(t))'
  PROVE  Moving'
<1>1. Skips(p, {op}) /\ op \in run[p].todo /\ (op = 2 => 1 \notin run[p].todo)
  BY DoneSkips, OpIs DEF Sound
<1>2. StillPublished(t)' /\ Anchored(p) /\ t = marker["feature"]
  BY KeptPublished DEF Moving
<1>3. /\ run'[p].todo = run[p].todo \ {op} /\ run'[p].t = t /\ run'[p].anchor = run[p].anchor
  BY <1>1, RunSkips DEF Skips, Sound
<1>4. Anchored(p)'
  <2>1. op = 2 => 1 \notin run[p].todo
    BY <1>1
  <2>2. 1 \in run[p].todo \ {op} => op # 2
    BY <2>1
  <2> QED BY <1>2, <1>3, <2>2 DEF Anchored, Undone
<1>5. want.name /\ at'.old = "feature" /\ at'.new = "other" => Undone(t)
  BY <1>2 DEF Moving
<1> DEFINE skipped == {op}
<1>6. /\ Skips(p, skipped) /\ \A i \in skipped : i \in run[p].todo
      /\ \A i \in skipped \cap run[p].todo : Carries(t.step, i, Toward(t))'
      /\ \A step \in 0 .. 8 : \A i \in Work(step) : \A id \in Names :
           step # t.step \/ (i \notin skipped /\ id = Toward(t))
             => (Carries(step, i, id) => Carries(step, i, id)')
  BY <1>1
<1> HIDE DEF skipped
<1> QED BY <1>2, <1>4, <1>5, <1>6, MovingSkips

LEMMA MovingBranches ==
  ASSUME Sound, OneRun, Moving, UNCHANGED want, NEW p \in Runs, Branches(p)
  PROVE  Moving' \/ Stuck'
<1> PICK t \in Transitions : t = marker["feature"]
  BY MovingIs
<1>0. /\ run[p].pc = "work" /\ run[p].todo # {} /\ run[p].t = t
      /\ t.step \in {1, 2}
  BY StepNumbers DEF Branches, At, Moving
<1>1. Op(p) \in Repos
  BY <1>0, OpIs, WorkIs, StepNumbers DEF Sound
<1> PICK op \in Repos : op = Op(p)
  BY <1>1
<1>2. ASSUME UNCHANGED <<at, record, remote, kids, views>>, Done(p),
             \A r \in Repos \ {op} : local'[r] = local[r] /\ tree'[r] = tree[r],
             t.step # 1 => UNCHANGED local,
             t.step # 2 => UNCHANGED tree,
             Carries(t.step, op, Toward(t))'
      PROVE  Moving'
  <2>1. ASSUME NEW step \in 0 .. 8, NEW i \in Work(step), NEW id \in Names,
               step # t.step \/ i # op, Carries(step, i, id)
        PROVE  Carries(step, i, id)'
    <3>0. /\ step = 1 => i \in Repos
          /\ step = 2 => i \in Repos
      BY WorkIs, StepNumbers
    <3>1. Identity(id)' = Identity(id) /\ NewName' = NewName
      BY DEF Identity, NewName, NewBranch
    <3> QED BY <1>0, <1>2, <2>1, <3>0, <3>1, StepNumbers DEF Carries, DirCarries
  <2>2. \A step \in 0 .. 8 : \A i \in Work(step) : \A id \in Names :
          step # t.step \/ i # op => (Carries(step, i, id) => Carries(step, i, id)')
    BY <2>1
  <2> QED BY <1>0, <1>2, <2>2, StepNumbers, MovingDone
<1>3. CASE At(p, "forward", RenameBranches) /\ MoveBranch(p, op, "old", "new")
  <2>0. t.step = 1 /\ Toward(t) = "new"
    BY <1>0, <1>3, StepNumbers DEF At, Toward
  <2>1. CASE ~ want.branch \/ local[op].old = "none"
    <3>1. Done(p) /\ UNCHANGED disk
      BY <1>3, <2>1 DEF MoveBranch
    <3>2. local[op][NewBranch] = "ours"
      BY <2>1 DEF Sound, HallSound, NewBranch
    <3>3. Carries(t.step, op, Toward(t))'
      BY <2>0, <3>1, <3>2, StepNumbers DEF Carries, Identity, NewName, NewBranch, disk
    <3> QED BY <1>2, <3>1, <3>3 DEF disk
  <2>2. CASE Fails(p)
    BY <1>0, <2>0, <2>2, StepNumbers, MovingFails
  <2>3. CASE /\ want.branch /\ local[op].old # "none"
             /\ local' = [local EXCEPT ![op] = [@ EXCEPT !["old"] = "none", !["new"] = local[op].old]]
             /\ Done(p) /\ UNCHANGED <<at, record, tree, remote, kids, views>>
    <3>1. local'[op].new = "ours" /\ \A r \in Repos \ {op} : local'[r] = local[r]
      BY <2>3 DEF Sound, RenameTypeOK, HallSound, Names
    <3>2. Carries(t.step, op, Toward(t))'
      BY <2>0, <2>3, <3>1, StepNumbers DEF Carries, Identity, NewName, NewBranch
    <3> QED BY <1>2, <2>0, <2>3, <3>1, <3>2
  <2> QED BY <1>3, <2>1, <2>2, <2>3 DEF MoveBranch
<1>4. CASE At(p, "back", RenameBranches) /\ MoveBranch(p, op, "new", "old")
  <2>0. t.step = 1 /\ Toward(t) = "old"
    BY <1>0, <1>4, StepNumbers DEF At, Toward
  <2>1. CASE ~ want.branch \/ local[op].new = "none"
    <3>1. Done(p) /\ UNCHANGED disk
      BY <1>4, <2>1 DEF MoveBranch
    <3>2. local[op].old = "ours"
      BY <2>1 DEF Sound, HallSound
    <3>3. Carries(t.step, op, Toward(t))'
      BY <2>0, <3>1, <3>2, StepNumbers DEF Carries, Identity, disk
    <3> QED BY <1>2, <3>1, <3>3 DEF disk
  <2>2. CASE Fails(p)
    BY <1>0, <2>0, <2>2, StepNumbers, MovingFails
  <2>3. CASE /\ want.branch /\ local[op].new # "none" /\ local[op].old = "none"
             /\ local' = [local EXCEPT ![op] = [@ EXCEPT !["new"] = "none", !["old"] = local[op].new]]
             /\ Done(p) /\ UNCHANGED <<at, record, tree, remote, kids, views>>
    <3>1. local'[op].old = "ours" /\ \A r \in Repos \ {op} : local'[r] = local[r]
      BY <2>3 DEF Sound, RenameTypeOK, HallSound, Names
    <3>2. Carries(t.step, op, Toward(t))'
      BY <2>0, <2>3, <3>1, StepNumbers DEF Carries, Identity
    <3> QED BY <1>2, <2>0, <2>3, <3>1, <3>2
  <2> QED BY <1>4, <2>1, <2>2, <2>3 DEF MoveBranch
<1>5. ASSUME NEW from \in Names, NEW to \in Names, from # to, Toward(t) = to, t.step = 2,
             MoveWorktree(p, op, from, to)
      PROVE  Moving'
  <2>1. /\ Done(p) /\ UNCHANGED <<at, record, local, remote, kids, views>>
        /\ \A r \in Repos \ {op} : tree'[r] = tree[r]
        /\ want.branch => tree'[op] = to
        /\ ~ want.branch => tree'[op] = "old"
    BY <1>5 DEF MoveWorktree, Sound, RenameTypeOK, HallSound, Names
  <2>2. Carries(t.step, op, Toward(t))'
    BY <1>5, <2>1, StepNumbers DEF Carries, Identity, NewName, NewBranch, Names
  <2> QED BY <1>2, <1>5, <2>1, <2>2
<1>6. CASE At(p, "forward", MoveWorktrees) /\ MoveWorktree(p, op, "old", "new")
  BY <1>0, <1>5, <1>6, StepNumbers DEF At, Toward, Names
<1>7. CASE At(p, "back", MoveWorktrees) /\ MoveWorktree(p, op, "new", "old")
  BY <1>0, <1>5, <1>7, StepNumbers DEF At, Toward, Names
<1> QED BY <1>3, <1>4, <1>6, <1>7 DEF Branches

LEMMA MovingReferrers ==
  ASSUME Sound, OneRun, Moving, UNCHANGED want, NEW p \in Runs, Referrers(p)
  PROVE  Moving'
<1> PICK t \in Transitions : t = marker["feature"]
  BY MovingIs
<1>0. /\ run[p].pc = "work" /\ run[p].todo # {} /\ run[p].t = t
      /\ t.step \in {5, 6, 7}
  BY StepNumbers DEF Referrers, At, Moving
<1> PICK op \in Work(t.step) : op = Op(p)
  BY <1>0, OpIs DEF Sound
<1>1. /\ Done(p) /\ UNCHANGED <<at, record, local, tree, remote>>
      /\ t.step # 5 => UNCHANGED kids
      /\ t.step # 7 => UNCHANGED views
  BY <1>0, StepNumbers DEF Referrers, At, RepointKid, RenameLayers, RefreshView
<1>2. t.step = 5 => /\ op \in Kids
                    /\ \A k \in Kids \ {op} : kids'[k] = kids[k]
                    /\ want.name => kids'[op] = Toward(t)
                    /\ ~ want.name => kids'[op] = "old"
  <2>1. CASE t.step = 5
    <3>1. op \in Kids
      BY <2>1, WorkIs, StepNumbers
    <3>2. PICK from \in Names, to \in Names : from # to /\ to = Toward(t) /\ RepointKid(p, from, to)
      BY <1>0, <2>1, StepNumbers DEF Referrers, At, Toward, Names
    <3>3. (from = "old" /\ to = "new") \/ (from = "new" /\ to = "old")
      BY <3>2 DEF Names
    <3> QED BY <3>1, <3>2, <3>3 DEF RepointKid, Sound, RenameTypeOK, HallSound, Names
  <2> QED BY <2>1
<1>3. t.step = 7 => /\ op \in Sessions
                    /\ \A s \in Sessions \ {op} : views'[s] = views[s]
                    /\ views'[op] = Toward(t)
  <2>1. CASE t.step = 7
    <3>1. op \in Sessions
      BY <2>1, WorkIs, StepNumbers
    <3>2. RefreshView(p, Toward(t))
      BY <1>0, <2>1, StepNumbers DEF Referrers, At, Toward
    <3> QED BY <3>1, <3>2 DEF RefreshView, Sound, RenameTypeOK
  <2> QED BY <2>1
<1>4. Toward(t) = "old" \/ Toward(t) = "new"
  BY DEF Toward
<1>5. Carries(t.step, op, Toward(t))'
  BY <1>0, <1>2, <1>3, <1>4, StepNumbers DEF Carries, Identity, NewName, NewBranch
<1>6. ASSUME NEW step \in 0 .. 8, NEW i \in Work(step), NEW id \in Names,
             step # t.step \/ i # op, Carries(step, i, id)
      PROVE  Carries(step, i, id)'
  <2>0. /\ step = 5 => i \in Kids
        /\ step = 7 => i \in Sessions
    BY WorkIs, StepNumbers
  <2>1. Identity(id)' = Identity(id) /\ NewName' = NewName
    BY DEF Identity, NewName, NewBranch
  <2> QED BY <1>0, <1>1, <1>2, <1>3, <1>6, <2>0, <2>1, StepNumbers DEF Carries, DirCarries
<1>7. \A step \in 0 .. 8 : \A i \in Work(step) : \A id \in Names :
        step # t.step \/ i # op => (Carries(step, i, id) => Carries(step, i, id)')
  BY <1>6
<1> QED BY <1>0, <1>1, <1>5, <1>7, StepNumbers, MovingDone

(* The directory: it moves before the link takes its place, and the link   *)
(* goes before it moves back.                                              *)
LEMMA MovingDir ==
  ASSUME Sound, OneRun, Moving, UNCHANGED want, NEW p \in Runs, DirForward(p) \/ DirBack(p)
  PROVE  Moving' \/ Stuck'
<1> PICK t \in Transitions : t = marker["feature"]
  BY MovingIs
<1>0. /\ run[p].pc = "work" /\ run[p].todo # {} /\ run[p].t = t /\ t.step = 4
      /\ t.direction \in {"forward", "back"} /\ DoneByRun(p) /\ Anchored(p) /\ StillPublished(t)
  BY Directions, StepNumbers DEF DirForward, DirBack, At, Moving
<1>1. /\ Op(p) \in {1, 2, 3} /\ Op(p) \in run[p].todo /\ \A i \in run[p].todo : Op(p) <= i
  BY <1>0, OpIs, WorkIs, StepNumbers DEF Sound
<1> PICK op \in {1, 2, 3} : op = Op(p)
  BY <1>1
<1>2. /\ at \in [Names -> {"feature", "link", "other", "absent"}] /\ HallSound
      /\ MovedTo("old") = [old |-> "feature", new |-> "absent"]
      /\ MovedTo("new") = [old |-> "absent", new |-> "feature"]
  BY DEF Sound, RenameTypeOK, MovedTo, Names
<1>3. ASSUME UNCHANGED <<at, local, tree, remote, kids, views>>, Done(p),
             op # 3 => UNCHANGED record,
             op = 2 => at.old # "absent",
             Carries(4, op, Toward(t))'
      PROVE  Moving'
  <2>1. ASSUME NEW step \in 0 .. 8, NEW i \in Work(step), NEW id \in Names,
               step # t.step \/ (i # op /\ id = Toward(t)), Carries(step, i, id)
        PROVE  Carries(step, i, id)'
    <3>1. Identity(id)' = Identity(id) /\ NewName' = NewName
      BY DEF Identity, NewName, NewBranch
    <3> QED BY <1>0, <1>3, <2>1, <3>1, StepNumbers DEF Carries, DirCarries
  <2>2. \A step \in 0 .. 8 : \A i \in Work(step) : \A id \in Names :
          step # t.step \/ (i # op /\ id = Toward(t))
            => (Carries(step, i, id) => Carries(step, i, id)')
    BY <2>1
  <2> QED BY <1>0, <1>3, <2>2, StepNumbers, MovingDone
<1>4. ASSUME UNCHANGED <<record, local, tree, remote, kids, views>>, Done(p), want.name,
             \A i \in {1, 2, 3} \ {op} : DirCarries(i, Toward(t)) => DirCarries(i, Toward(t))',
             DirCarries(op, Toward(t))',
             ~ (at'.old = "feature" /\ at'.new = "other"), Anchored(p)'
      PROVE  Moving'
  <2>1. ASSUME NEW step \in 0 .. 8, NEW i \in Work(step), NEW id \in Names,
               step # t.step \/ (i # op /\ id = Toward(t)), Carries(step, i, id)
        PROVE  Carries(step, i, id)'
    <3>1. Identity(id)' = Identity(id) /\ NewName' = NewName
      BY DEF Identity, NewName, NewBranch
    <3>2. step = 4 => i \in {1, 2, 3}
      BY WorkIs, StepNumbers
    <3> QED BY <1>0, <1>4, <2>1, <3>1, <3>2, StepNumbers DEF Carries
  <2>2. Skips(p, {op}) /\ op \in run[p].todo
    BY <1>1, <1>4, DoneSkips
  <2>3. StillPublished(t)'
    BY <1>0, <1>4, KeptPublished
  <2>4. Carries(4, op, Toward(t))'
    BY <1>4, StepNumbers DEF Carries
  <2> DEFINE skipped == {op}
  <2>5. /\ Skips(p, skipped) /\ \A i \in skipped : i \in run[p].todo
        /\ \A i \in skipped \cap run[p].todo : Carries(t.step, i, Toward(t))'
        /\ \A step \in 0 .. 8 : \A i \in Work(step) : \A id \in Names :
             step # t.step \/ (i \notin skipped /\ id = Toward(t))
               => (Carries(step, i, id) => Carries(step, i, id)')
    BY <1>0, <2>1, <2>2, <2>4
  <2> HIDE DEF skipped
  <2> QED BY <1>0, <1>4, <2>3, <2>5, StepNumbers, MovingSkips
<1>5. ASSUME Done(p)
      PROVE  /\ run'[p].todo = run[p].todo \ {op} /\ run'[p].t = t /\ run'[p].anchor = run[p].anchor
  BY <1>0, <1>5, DoneSkips, RunSkips DEF Skips, Sound
<1>6. CASE Fails(p) /\ ~ (t.direction = "forward" /\ op = 2)
  BY <1>0, <1>6, MovingFails
<1>7. ASSUME NEW id \in Names, id = Toward(t), op = 3, SetIdentity(p, id)
      PROVE  Moving' \/ Stuck'
  <2>1. CASE Fails(p)
    BY <1>6, <1>7, <2>1
  <2>2. CASE /\ record' = Identity(id) /\ Done(p)
             /\ UNCHANGED <<at, local, tree, remote, kids, views, layers>>
    <3>1. Carries(4, op, Toward(t))'
      BY <1>7, <2>2, StepNumbers DEF Carries, DirCarries, Identity, NewName, NewBranch
    <3> QED BY <1>3, <1>7, <2>2, <3>1
  <2> QED BY <1>7, <2>1, <2>2 DEF SetIdentity
<1>8. CASE DirForward(p)
  <2>0. t.direction = "forward" /\ Toward(t) = "new"
    BY <1>0, <1>8 DEF DirForward, At, Toward
  <2>1. CASE op = 1
    <3>1. CASE ~ want.name \/ ~ IsDir("old")
      <4>1. Done(p) /\ UNCHANGED disk
        BY <1>8, <2>1, <3>1 DEF DirForward
      <4>2. at[NewName] = "feature"
        BY <1>2, <3>1, DirIs DEF HallSound, NewName, Names
      <4>3. Carries(4, op, Toward(t))'
        BY <2>0, <2>1, <4>1, <4>2, StepNumbers DEF Carries, DirCarries, NewName, disk
      <4> QED BY <1>3, <2>1, <4>1, <4>3 DEF disk
    <3>2. CASE want.name /\ at = MovedTo("old") /\ SetAt(p, MovedTo("new"))
      <4>1. at.old = "feature" /\ at.new = "absent" /\ at'.old = "absent" /\ at'.new = "feature"
        BY <1>2, <3>2 DEF SetAt
      <4>2. DirCarries(op, Toward(t))' /\ (DirCarries(3, Toward(t)) => DirCarries(3, Toward(t))')
            /\ DirCarries(2, Toward(t))'
        BY <2>0, <2>1, <3>2, <4>1 DEF DirCarries, Identity, NewName, NewBranch, SetAt
      <4>3. Anchored(p)'
        BY <1>0, <1>1, <1>5, <2>1, <3>2, <4>1, StepNumbers DEF Anchored, SetAt, Undone
      <4> QED BY <1>4, <2>1, <3>2, <4>1, <4>2, <4>3 DEF SetAt
    <3> QED BY <1>6, <1>8, <2>1, <3>1, <3>2 DEF DirForward
  <2>2. CASE op = 2
    <3>1. CASE want.name /\ at.old = "absent" /\ SetAt(p, [at EXCEPT !.old = "link"])
      <4>1. /\ at.new = "feature" /\ at'.old = "link" /\ at'.new = "feature"
            /\ UNCHANGED record
        BY <1>2, <3>1 DEF SetAt, HallSound, Names
      <4>2. DirCarries(op, Toward(t))' /\ DirCarries(1, Toward(t))'
            /\ (DirCarries(3, Toward(t)) => DirCarries(3, Toward(t))')
        BY <2>0, <2>2, <3>1, <4>1 DEF DirCarries, Identity, NewName, NewBranch
      <4>3. Anchored(p)'
        BY <1>0, <1>1, <1>5, <2>2, <3>1, <4>1, StepNumbers DEF Anchored, SetAt, Undone
      <4> QED BY <1>4, <2>2, <3>1, <4>1, <4>2, <4>3 DEF SetAt
    <3>2. CASE ~ (want.name /\ at.old = "absent")
      <4>1. Done(p) /\ UNCHANGED disk
        BY <1>8, <2>2, <3>2 DEF DirForward
      <4>2. 1 \notin run[p].todo /\ 1 \in Work(4)
        BY <1>1, <2>2, WorkIs, StepNumbers
      <4>3. at[NewName] = "feature"
        BY <1>0, <2>0, <4>2, CarriesIs DEF DoneByRun, DirCarries
      <4>4. Carries(4, op, Toward(t))'
        BY <2>0, <2>2, <4>1, <4>3, StepNumbers DEF Carries, DirCarries, Identity, NewName, disk
      <4>5. at.old # "absent"
        BY <1>2, <3>2 DEF HallSound
      <4> QED BY <1>3, <2>2, <4>1, <4>4, <4>5 DEF disk
    <3> QED BY <1>8, <2>2, <3>1, <3>2 DEF DirForward
  <2>3. CASE op = 3
    BY <1>7, <1>8, <2>0, <2>3 DEF DirForward, Names
  <2> QED BY <2>1, <2>2, <2>3
<1>9. CASE DirBack(p)
  <2>0. t.direction = "back" /\ Toward(t) = "old"
    BY <1>0, <1>9 DEF DirBack, At, Toward
  <2>1. CASE op = 1
    <3>1. CASE want.name /\ at.old = "link" /\ SetAt(p, [at EXCEPT !.old = "absent"])
      <4>1. at'.old = "absent" /\ at'.new = at.new
        BY <1>2, <3>1 DEF SetAt, Names
      <4>2. DirCarries(op, Toward(t))' /\ (DirCarries(2, Toward(t)) => DirCarries(2, Toward(t))')
            /\ (DirCarries(3, Toward(t)) => DirCarries(3, Toward(t))')
        BY <2>0, <2>1, <3>1, <4>1 DEF DirCarries, Identity, NewName, NewBranch, SetAt
      <4>3. Anchored(p)'
        BY <1>0, <1>5, <2>0, <2>1, <3>1, StepNumbers DEF Anchored, SetAt, Undone
      <4> QED BY <1>4, <2>1, <3>1, <4>1, <4>2, <4>3 DEF SetAt
    <3>2. CASE ~ (want.name /\ at.old = "link")
      <4>1. Done(p) /\ UNCHANGED disk
        BY <1>9, <2>1, <3>2 DEF DirBack
      <4>2. at.old # "link"
        BY <1>2, <3>2 DEF HallSound
      <4>3. Carries(4, op, Toward(t))'
        BY <2>0, <2>1, <4>1, <4>2, StepNumbers DEF Carries, DirCarries, disk
      <4> QED BY <1>3, <2>1, <4>1, <4>3 DEF disk
    <3> QED BY <1>9, <2>1, <3>1, <3>2 DEF DirBack
  <2>2. CASE op = 2
    <3>1. CASE ~ want.name \/ ~ IsDir("new")
      <4>1. Done(p) /\ UNCHANGED disk
        BY <1>9, <2>2, <3>1 DEF DirBack
      <4>2. at.old = "feature"
        BY <1>2, <3>1, DirIs DEF HallSound, Names
      <4>3. Carries(4, op, Toward(t))'
        BY <2>0, <2>2, <4>1, <4>2, StepNumbers DEF Carries, DirCarries, Identity, disk
      <4> QED BY <1>3, <2>2, <4>1, <4>2, <4>3 DEF disk
    <3>2. CASE want.name /\ at = MovedTo("new") /\ SetAt(p, MovedTo("old"))
      <4>1. at'.old = "feature" /\ at'.new = "absent"
        BY <1>2, <3>2 DEF SetAt
      <4>2. DirCarries(op, Toward(t))' /\ DirCarries(1, Toward(t))'
            /\ (DirCarries(3, Toward(t)) => DirCarries(3, Toward(t))')
        BY <2>0, <2>2, <3>2, <4>1 DEF DirCarries, Identity, NewName, NewBranch, SetAt
      <4>3. Anchored(p)'
        BY <1>0, <1>1, <1>5, <2>0, <2>2, <3>2, StepNumbers DEF Anchored, SetAt, Undone
      <4> QED BY <1>4, <2>2, <3>2, <4>1, <4>2, <4>3 DEF SetAt
    <3> QED BY <1>6, <1>9, <2>0, <2>2, <3>1, <3>2 DEF DirBack
  <2>3. CASE op = 3
    BY <1>7, <1>9, <2>0, <2>3 DEF DirBack, Names
  <2> QED BY <2>1, <2>2, <2>3
<1> QED BY <1>8, <1>9

(* The remote: what one repo's operations do to its two branches.          *)
LEMMA MovingRepo ==
  ASSUME Sound, OneRun, Moving, UNCHANGED <<want, at, record, local, tree, kids, views>>,
         NEW p \in Runs, run[p].pc = "work", NEW t \in Transitions, run[p].t = t, t.step = 3,
         NEW r \in Repos, \A q \in Repos \ {r} : remote'[q] = remote[q],
         NEW skipped \in SUBSET {3 * r - 2, 3 * r - 1, 3 * r}, skipped \subseteq run[p].todo, Skips(p, skipped),
         want.branch =>
           /\ remote'[r].old # {} => t.tips[r] \subseteq remote'[r].old
           /\ t.direction = "forward" => t.tips[r] \subseteq remote'[r].old \cup remote'[r].new
           /\ t.direction = "forward" /\ 3 * r - 1 \notin run[p].todo \ skipped
                => t.tips[r] \subseteq remote'[r].new
           /\ t.direction = "back" /\ 3 * r - 2 \notin run[p].todo \ skipped
                => t.tips[r] \subseteq remote'[r].old
  PROVE  Moving'
<1>0. t = marker["feature"] /\ StillPublished(t) /\ DoneByRun(p) /\ Anchored(p)
  BY DEF Moving
<1>1. StillPublished(t)'
  BY <1>0, StepNumbers DEF StillPublished, Repos
<1>2. ASSUME NEW step \in 0 .. 8, NEW i \in Work(step), NEW id \in Names, Carries(step, i, id)
      PROVE  Carries(step, i, id)'
  BY <1>2 DEF Carries, DirCarries, Identity, NewName, NewBranch
<1>3. \A i : Carries(t.step, i, Toward(t))'
  BY StepNumbers DEF Carries
<1>4. Anchored(p)'
  <2>1. /\ run'[p].t = t /\ run'[p].anchor = run[p].anchor
        /\ run'[p].todo = run[p].todo \ skipped
    BY RunSkips DEF Skips, Sound
  <2> QED BY <1>0, <2>1, StepNumbers DEF Anchored, Undone
<1>5. ASSUME want.branch, NEW q \in Repos
      PROVE  /\ t.direction = "forward" /\ 3 * q - 1 \in Work(RemoteOps) \ (run[p].todo \ skipped)
                  => t.tips[q] \subseteq remote'[q].new
             /\ t.direction = "back" /\ 3 * q - 2 \in Work(RemoteOps) \ (run[p].todo \ skipped)
                  => t.tips[q] \subseteq remote'[q].old
  <2>1. CASE q = r
    BY <1>5, <2>1
  <2>2. CASE q # r
    <3>1. 3 * q - 1 \notin skipped /\ 3 * q - 2 \notin skipped
      <4>1. q \in Nat /\ r \in Nat
        BY RenameConstants DEF Repos
      <4>2. /\ 3 * q - 1 # 3 * r - 2 /\ 3 * q - 1 # 3 * r - 1 /\ 3 * q - 1 # 3 * r
            /\ 3 * q - 2 # 3 * r - 2 /\ 3 * q - 2 # 3 * r - 1 /\ 3 * q - 2 # 3 * r
        BY <2>2, <4>1
      <4> QED BY <4>2
    <3> QED BY <1>0, <1>5, <2>2, <3>1, StepNumbers DEF DoneByRun
  <2> QED BY <2>1, <2>2
<1>6. want.name /\ at'.old = "feature" /\ at'.new = "other" => Undone(t)
  BY <1>0 DEF Moving
<1>7. \A step \in 0 .. 8 : \A i \in Work(step) : \A id \in Names :
        step # t.step \/ (i \notin skipped /\ id = Toward(t))
          => (Carries(step, i, id) => Carries(step, i, id)')
  BY <1>2
<1>8. /\ \A i \in skipped \cap run[p].todo : Carries(t.step, i, Toward(t))'
      /\ \A i \in skipped : i \in run[p].todo
  BY <1>3
<1> QED BY <1>1, <1>4, <1>5, <1>6, <1>7, <1>8, MovingSkips

LEMMA MovingRemote ==
  ASSUME Sound, OneRun, Moving, UNCHANGED want, NEW p \in Runs, RemoteForward(p) \/ RemoteBack(p)
  PROVE  Moving' \/ Stuck'
<1> PICK t \in Transitions : t = marker["feature"]
  BY MovingIs
<1>0. /\ run[p].pc = "work" /\ run[p].todo # {} /\ run[p].t = t /\ t.step = 3
      /\ run[p].t.step = RemoteOps
      /\ t.direction \in {"forward", "back"} /\ DoneByRun(p) /\ StillPublished(t)
  BY Directions, StepNumbers DEF RemoteForward, RemoteBack, At, Moving
<1>1. /\ RepoOf(p) \in Repos /\ PartOf(p) \in {1, 2, 3} /\ Tip(p) \in SUBSET Commits
      /\ Op(p) = 3 * (RepoOf(p) - 1) + PartOf(p)
      /\ Op(p) \in run[p].todo /\ \A i \in run[p].todo : Op(p) <= i
      /\ run[p].todo \subseteq 1 .. 3 * RepoCount
  <2>1. run[p].todo \subseteq 1 .. 3 * RepoCount
    BY <1>0, WorkIs DEF Sound, RunSound
  <2>2. PartOf(p) \in 1 .. 3 => PartOf(p) \in {1, 2, 3}
    OBVIOUS
  <2> QED BY <1>0, <2>1, <2>2, RemoteFacts
<1> PICK r \in Repos : r = RepoOf(p)
  BY <1>1
<1> PICK op \in Nat : op = Op(p)
  BY <1>1, RenameConstants
<1>2. /\ r \in Nat /\ op \in {3 * r - 2, 3 * r - 1, 3 * r}
      /\ (PartOf(p) = 1 <=> op = 3 * r - 2) /\ (PartOf(p) = 2 <=> op = 3 * r - 1)
      /\ (PartOf(p) = 3 <=> op = 3 * r)
  BY <1>1, RenameConstants DEF Repos
<1>3. Tip(p) = t.tips[r]
  BY <1>0 DEF Tip
<1>4. RestOf(p) \in SUBSET {3 * r - 2, 3 * r - 1, 3 * r} /\ RestOf(p) \subseteq run[p].todo
  <2>1. ASSUME NEW i \in RestOf(p) PROVE i \in {3 * r - 2, 3 * r - 1, 3 * r} /\ i \in run[p].todo
    <3>1. i \in run[p].todo /\ i \in Nat /\ op <= i /\ i <= 3 * r
      BY <1>1, RenameConstants DEF RestOf
    <3>2. op >= 3 * r - 2
      BY <1>2
    <3> QED BY <1>2, <3>1, <3>2
  <2> QED BY <2>1
<1>5. /\ 3 * r - 2 \in Work(RemoteOps) /\ 3 * r - 1 \in Work(RemoteOps)
  BY <1>2, WorkIs, RenameConstants DEF Repos
<1>same. UNCHANGED disk => UNCHANGED <<want, at, record, local, tree, remote, kids, views>>
  BY DEF disk
<1>done. Done(p) => /\ Skips(p, {op}) /\ {op} \subseteq run[p].todo
                    /\ {op} \in SUBSET {3 * r - 2, 3 * r - 1, 3 * r}
  BY <1>1, <1>2, DoneSkips
<1>published. want.branch =>
      /\ remote[r].old # {} => t.tips[r] \subseteq remote[r].old
      /\ t.direction = "forward" => t.tips[r] \subseteq remote[r].old \cup remote[r].new
      /\ t.direction = "forward" /\ 3 * r - 1 \notin run[p].todo => t.tips[r] \subseteq remote[r].new
      /\ t.direction = "back" /\ 3 * r - 2 \notin run[p].todo => t.tips[r] \subseteq remote[r].old
  BY <1>0, <1>5 DEF StillPublished, DoneByRun
<1>set. ASSUME NEW branch \in Names, NEW commits, SetRemote(r, branch, commits)
        PROVE  /\ remote'[r][branch] = commits
               /\ \A other \in Names \ {branch} : remote'[r][other] = remote[r][other]
               /\ \A q \in Repos \ {r} : remote'[q] = remote[q]
               /\ UNCHANGED <<want, at, record, local, tree, kids, views>>
  BY <1>set DEF SetRemote, Sound, RenameTypeOK
<1>fails. ASSUME Fails(p) PROVE Moving' \/ Stuck'
  BY <1>0, <1>fails, StepNumbers, MovingFails
<1>6. CASE RemoteForward(p)
  <2>0. t.direction = "forward"
    BY <1>0, <1>6 DEF RemoteForward, At
  <2>1. CASE LookRemote(p) /\ PartOf(p) = 1
    <3>1. CASE /\ UNCHANGED disk /\ Skips(p, RestOf(p))
               /\ want.branch => t.tips[r] \subseteq remote[r].new
      BY <1>0, <1>4, <1>same, <1>published, <2>0, <3>1, MovingRepo
    <3>2. CASE Done(p) /\ UNCHANGED disk
      <4>1. 3 * r - 1 \notin run[p].todo \ {op} => 3 * r - 1 \notin run[p].todo
        BY <1>2, <2>1
      <4> QED BY <1>0, <1>same, <1>done, <1>published, <2>0, <3>2, <4>1, MovingRepo
    <3>3. CASE ~ want.branch \/ (remote[r].old = {} /\ remote[r].new # {})
      <4>1. UNCHANGED disk /\ Skips(p, RestOf(p))
        BY <2>1, <3>3 DEF LookRemote
      <4>2. want.branch => t.tips[r] \subseteq remote[r].new
        BY <1>published, <2>0, <3>3
      <4> QED BY <3>1, <4>1, <4>2
    <3>4. CASE ~ (~ want.branch \/ (remote[r].old = {} /\ remote[r].new # {}))
      <4>1. Fails(p) \/ (Done(p) /\ UNCHANGED disk)
              \/ (Tip(p) = {} /\ UNCHANGED disk /\ Skips(p, RestOf(p)))
        BY <2>1, <3>4 DEF LookRemote
      <4> QED BY <1>3, <1>fails, <3>1, <3>2, <4>1
    <3> QED BY <3>3, <3>4
  <2>2. CASE PushNew(p) /\ PartOf(p) = 2
    <3>1. CASE SetRemote(r, "new", t.tips[r]) /\ Done(p)
      <4>1. /\ remote'[r].new = t.tips[r] /\ remote'[r].old = remote[r].old
            /\ \A q \in Repos \ {r} : remote'[q] = remote[q]
            /\ UNCHANGED <<want, at, record, local, tree, kids, views>>
        BY <1>set, <3>1 DEF Names
      <4> QED BY <1>0, <1>done, <1>published, <2>0, <3>1, <4>1, MovingRepo
    <3> QED BY <1>3, <1>fails, <2>2, <3>1 DEF PushNew
  <2>3. CASE DeleteOld(p) /\ PartOf(p) = 3
    <3>1. CASE SetRemote(r, "old", {}) /\ Done(p)
      <4>1. /\ remote'[r].old = {} /\ remote'[r].new = remote[r].new
            /\ \A q \in Repos \ {r} : remote'[q] = remote[q]
            /\ UNCHANGED <<want, at, record, local, tree, kids, views>>
        BY <1>set, <3>1 DEF Names
      <4>2. 3 * r - 1 \notin run[p].todo
        BY <1>1, <1>2, <2>3, RenameConstants
      <4> QED BY <1>0, <1>done, <1>published, <2>0, <3>1, <4>1, <4>2, MovingRepo
    <3> QED BY <1>fails, <2>3, <3>1 DEF DeleteOld
  <2> QED BY <1>1, <1>6, <2>1, <2>2, <2>3 DEF RemoteForward
<1>7. CASE RemoteBack(p)
  <2>0. t.direction = "back"
    BY <1>0, <1>7 DEF RemoteBack, At
  <2>1. CASE RepublishOld(p) /\ PartOf(p) = 1
    <3>1. CASE UNCHANGED disk /\ Skips(p, RestOf(p)) /\ (~ want.branch \/ Tip(p) = {})
      BY <1>0, <1>3, <1>4, <1>same, <1>published, <2>0, <3>1, MovingRepo
    <3>2. CASE UNCHANGED disk /\ Done(p) /\ remote[r].old # {}
      BY <1>0, <1>same, <1>done, <1>published, <2>0, <3>2, MovingRepo
    <3>3. CASE SetRemote(r, "old", t.tips[r]) /\ Done(p)
      <4>1. /\ remote'[r].old = t.tips[r] /\ remote'[r].new = remote[r].new
            /\ \A q \in Repos \ {r} : remote'[q] = remote[q]
            /\ UNCHANGED <<want, at, record, local, tree, kids, views>>
        BY <1>set, <3>3 DEF Names
      <4> QED BY <1>0, <1>done, <1>published, <2>0, <3>3, <4>1, MovingRepo
    <3> QED BY <1>3, <1>fails, <2>1, <3>1, <3>2, <3>3 DEF RepublishOld
  <2>2. CASE Done(p) /\ UNCHANGED disk /\ PartOf(p) = 2
    <3>1. 3 * r - 2 \notin run[p].todo \ {op} => 3 * r - 2 \notin run[p].todo
      BY <1>2, <2>2
    <3> QED BY <1>0, <1>same, <1>done, <1>published, <2>0, <2>2, <3>1, MovingRepo
  <2>3. CASE DeleteNew(p) /\ PartOf(p) = 3
    <3>1. SetRemote(r, "new", {}) /\ Done(p)
      BY <2>3 DEF DeleteNew
    <3>2. /\ remote'[r].old = remote[r].old
          /\ \A q \in Repos \ {r} : remote'[q] = remote[q]
          /\ UNCHANGED <<want, at, record, local, tree, kids, views>>
      BY <1>set, <3>1 DEF Names
    <3>3. 3 * r - 2 \notin run[p].todo
      BY <1>1, <1>2, <2>3, RenameConstants
    <3> QED BY <1>0, <1>done, <1>published, <2>0, <3>1, <3>2, <3>3, MovingRepo
  <2> QED BY <1>1, <1>7, <2>1, <2>2, <2>3 DEF RemoteBack
<1> QED BY <1>6, <1>7

LEMMA MovingResume ==
  ASSUME Sound, OneRun, Moving, NEW p \in Runs, Resume(p)
  PROVE  Moving'
<1> PICK t \in Transitions : t = marker["feature"]
  BY MovingIs
<1>0. UNCHANGED <<want, at, record, local, tree, remote, kids, views, marker>>
  BY DEF Resume, disk
<1>1. PICK path \in Names : Marked(path) /\ GoOn(p, path, marker[Dir(path)])
  BY DEF Resume
<1>2. Dir(path) = "feature"
  BY <1>1, DirIs DEF Marked, Moving, Sound, RenameTypeOK
<1>3. /\ run'[p].pc = "work" /\ run'[p].anchor = path /\ run'[p].t = t /\ run'[p].todo = Work(t.step)
      /\ \A q \in Runs : q = p
  BY <1>1, <1>2, RunGoes DEF Sound, OneRun
<1>4. Placed(t)' /\ StillPublished(t)' /\ Placed(t)
  BY <1>0, KeptPlaced, KeptPublished DEF Moving
<1>5. DoneByRun(p)'
  <2>1. Work(t.step)' = Work(t.step)
    BY DEF Work
  <2>2. t.step = RemoteOps => Work(t.step) = Work(RemoteOps)
    OBVIOUS
  <2> QED BY <1>3, <2>1 DEF DoneByRun
<1>6. Anchored(p)'
  <2>1. path = "old" \/ path = "new"
    BY DEF Names
  <2>2. path = "old" => at.old # "absent"
    BY <1>2, DirIs, NothingAssumption DEF IsDir, Sound, RenameTypeOK, Names
  <2>3. path = "new" => want.name /\ at.new = "feature"
    BY <1>2, DirIs, NothingAssumption DEF IsDir, Sound, RenameTypeOK, HallSound, Names
  <2>4. t.step = 4 => 2 \in Work(t.step)
    BY WorkIs, StepNumbers
  <2>5. Undone(t) => path = "old"
    <3>1. SUFFICES ASSUME Undone(t), path = "new" PROVE FALSE
      BY <2>1
    <3>2. at.old = "feature" /\ at.new = "feature"
      BY <1>4, <2>3, <3>1, PlacedIs, StepNumbers DEF Undone
    <3> QED BY <3>2 DEF Sound, HallSound
  <2> QED BY <1>0, <1>3, <2>1, <2>2, <2>3, <2>4, <2>5, StepNumbers DEF Anchored, Undone
<1> QED BY <1>0, <1>3, <1>4, <1>5, <1>6, MovingNext DEF Moving

LEMMA MovingAdvance ==
  ASSUME Sound, OneRun, Moving, NEW p \in Runs, Advance(p)
  PROVE  Moving'
<1> PICK t \in Transitions : t = marker["feature"]
  BY MovingIs
<1>0. /\ run[p].pc = "work" /\ run[p].todo = {} /\ run[p].t = t /\ Placed(t) /\ StillPublished(t)
      /\ DoneByRun(p) /\ t.step # 8 /\ ~ Undone(t)
      /\ t.direction \in {"forward", "back"} /\ t.step \in 0 .. 8
      /\ UNCHANGED <<want, record, local, tree, remote, kids, views>>
  BY Directions, StepNumbers DEF Advance, Through, Moving
<1>1. NextStep(t) \in 0 .. 8 /\ (t.direction = "forward" => NextStep(t) = t.step + 1)
      /\ (t.direction = "back" => NextStep(t) = t.step - 1)
  BY <1>0, StepNumbers DEF Undone, NextStep
<1>2. [t EXCEPT !.step = NextStep(t)] \in Transitions
  BY <1>1, StepNumbers DEF Transitions
<1>u. PICK u \in Transitions : u = [t EXCEPT !.step = NextStep(t)]
  BY <1>2
<1>3. u.direction = t.direction /\ u.step = NextStep(t) /\ u.tips = t.tips
  BY <1>u DEF Transitions
<1>4. WriteMarker(MarkerPath, u) /\ GoOn(p, MarkerPath, u)
  BY <1>0, <1>u DEF Advance
<1>5. /\ MarkerPath \in Names /\ IsDir(MarkerPath) /\ Dir(MarkerPath) = "feature"
      /\ MarkerPath = "old" => at.old = "feature"
      /\ MarkerPath = "new" => want.name /\ at.new = "feature"
  <2>1. ~ (want.name /\ at.old = "feature" /\ at.new = "other")
    BY <1>0 DEF Moving
  <2> QED BY <2>1, DirIs DEF MarkerPath, Sound, RenameTypeOK, HallSound, Names
<1>6. /\ UNCHANGED at /\ marker'["feature"] = u /\ marker'["old"] = Nothing /\ marker'["new"] = Nothing
  BY <1>4, <1>5, WriteType DEF Sound, Moving
<1>7. /\ run'[p].pc = "work" /\ run'[p].anchor = MarkerPath /\ run'[p].t = u
      /\ run'[p].todo = Work(u.step) /\ \A q \in Runs : q = p
  <2> PICK path \in Names : path = MarkerPath
    BY <1>5
  <2>1. GoOn(p, path, u)
    BY <1>4
  <2> QED BY <2>1, RunGoes DEF Sound, OneRun
<1>8. Placed(u)'
  <2>1. \A i \in Work(t.step) : Carries(t.step, i, Toward(t))
    BY <1>0 DEF DoneByRun
  <2>2. ASSUME NEW step \in 0 .. 8, NEW i \in Work(step)
        PROVE  /\ step < u.step => Carries(step, i, "new")
               /\ step > u.step => Carries(step, i, "old")
    <3>1. /\ step < t.step => Carries(step, i, "new")
          /\ step > t.step => Carries(step, i, "old")
      BY <1>0, StepNumbers DEF Placed
    <3>2. CASE t.direction = "forward"
      <4>1. u.step = t.step + 1 /\ Toward(t) = "new"
        BY <1>1, <1>3, <3>2 DEF Toward
      <4>2. /\ step < u.step => step < t.step \/ step = t.step
            /\ step > u.step => step > t.step
        BY <1>0, <4>1
      <4> QED BY <2>1, <3>1, <4>1, <4>2
    <3>3. CASE t.direction = "back"
      <4>1. u.step = t.step - 1 /\ Toward(t) = "old"
        BY <1>1, <1>3, <3>3 DEF Toward
      <4>2. /\ step < u.step => step < t.step
            /\ step > u.step => step > t.step \/ step = t.step
        BY <1>0, <4>1
      <4> QED BY <2>1, <3>1, <4>1, <4>2
    <3> QED BY <1>0, <3>2, <3>3
  <2>3. Placed(u)
    BY <2>2, StepNumbers DEF Placed
  <2> QED BY <1>0, <1>6, <2>3, KeptPlaced
<1>9. StillPublished(u)'
  <2>1. SUFFICES ASSUME want.branch, NEW r \in Repos
                 PROVE  /\ remote[r].old # {} => t.tips[r] \subseteq remote[r].old
                        /\ t.direction = "forward" => t.tips[r] \subseteq remote[r].old \cup remote[r].new
                        /\ u.step < 3 => t.tips[r] \subseteq remote[r].old
                        /\ u.step > 3 => t.tips[r] \subseteq remote[r].new
    BY <1>0, <1>3, StepNumbers DEF StillPublished, Repos
  <2>2. /\ remote[r].old # {} => t.tips[r] \subseteq remote[r].old
        /\ t.direction = "forward" => t.tips[r] \subseteq remote[r].old \cup remote[r].new
        /\ t.step < 3 => t.tips[r] \subseteq remote[r].old
        /\ t.step > 3 => t.tips[r] \subseteq remote[r].new
    BY <1>0, <2>1, StepNumbers DEF StillPublished
  <2>3. 3 * r - 2 \in Work(RemoteOps) /\ 3 * r - 1 \in Work(RemoteOps)
    BY WorkIs, RenameConstants DEF Repos
  <2>4. t.step = 3 => /\ t.direction = "forward" => t.tips[r] \subseteq remote[r].new
                      /\ t.direction = "back" => t.tips[r] \subseteq remote[r].old
    BY <1>0, <2>1, <2>3, StepNumbers DEF DoneByRun
  <2>5. CASE t.direction = "forward"
    <3>1. (u.step < 3 => t.step < 3) /\ (u.step > 3 => t.step > 3 \/ t.step = 3)
      BY <1>0, <1>1, <1>3, <2>5
    <3> QED BY <2>2, <2>4, <2>5, <3>1
  <2>6. CASE t.direction = "back"
    <3>1. (u.step < 3 => t.step < 3 \/ t.step = 3) /\ (u.step > 3 => t.step > 3)
      BY <1>0, <1>1, <1>3, <2>6
    <3> QED BY <2>2, <2>4, <2>6, <3>1
  <2> QED BY <1>0, <2>5, <2>6
<1>10. DoneByRun(p)'
  <2>1. Work(u.step)' = Work(u.step)
    BY DEF Work
  <2> QED BY <1>7, <2>1 DEF DoneByRun
<1>11. Anchored(p)'
  <2>1. MarkerPath = "old" \/ MarkerPath = "new"
    BY <1>5 DEF Names
  <2>2. u.step = 4 => 2 \in Work(u.step)
    BY WorkIs, StepNumbers
  <2>3. Undone(u) => MarkerPath = "old"
    <3>1. SUFFICES ASSUME Undone(u), MarkerPath = "new" PROVE FALSE
      BY <2>1
    <3>2. Placed(u)
      BY <1>0, <1>6, <1>8 DEF Placed, Carries, DirCarries, Identity, NewName, NewBranch, Work, Repos
    <3>3. u.step = 0
      BY <3>1, StepNumbers DEF Undone
    <3>4. at.old = "feature"
      BY <3>2, <3>3, PlacedIs
    <3>5. at.new = "feature"
      BY <1>5, <3>1
    <3> QED BY <3>4, <3>5 DEF Sound, HallSound
  <2> QED BY <1>0, <1>5, <1>6, <1>7, <2>1, <2>2, <2>3, StepNumbers DEF Anchored, Undone
<1>12. t.step = 8 \/ u.step # 8 \/ u.direction = "forward"
  BY <1>0, <1>1, <1>3
<1>13. want.name /\ at.old = "feature" /\ at.new = "other" => Undone(u)
  BY <1>0 DEF Moving
<1> QED BY <1>0, <1>6, <1>7, <1>8, <1>9, <1>10, <1>11, <1>12, <1>13, StepNumbers, MovingNext

(* What is put at a path that was empty moves nothing.                     *)
LEMMA MovingCreate ==
  ASSUME Sound, Moving, NEW path \in Names, CreateFeature(path)
  PROVE  Moving' \/ Stuck'
<1> PICK t \in Transitions : t = marker["feature"]
  BY MovingIs
<1>0. /\ at[path] = "absent" /\ at' = [at EXCEPT ![path] = "other"]
      /\ UNCHANGED <<want, record, local, tree, remote, kids, views, marker, run>>
  BY DEF CreateFeature
<1>1. /\ \A id \in Names : at'[id] = "feature" <=> at[id] = "feature"
      /\ \A id \in Names : at'[id] = "link" <=> at[id] = "link"
      /\ at'[path] = "other"
      /\ \A id \in Names \ {path} : at'[id] = at[id]
  BY <1>0 DEF Sound, RenameTypeOK
<1>2. Placed(t) /\ StillPublished(t)' /\ t # Nothing
  BY <1>0, KeptPublished DEF Moving
<1>3. Placed(t)'
  <2>1. \A i, id : Identity(id).name \in Names => (DirCarries(i, id) <=> DirCarries(i, id)')
    BY <1>0, <1>1, IdentityIs DEF DirCarries, Identity, NewName, NewBranch, Names
  <2>2. Identity("old").name \in Names /\ Identity("new").name \in Names
    BY IdentityIs DEF Names
  <2>3. /\ DirCarries(1, "old") <=> DirCarries(1, "old")'
        /\ \A i : DirCarries(i, "old") <=> DirCarries(i, "old")'
        /\ \A i : DirCarries(i, "new") <=> DirCarries(i, "new")'
    BY <2>1, <2>2
  <2> QED BY <1>0, <1>2, <2>3 DEF Placed, Carries, Identity, NewName, NewBranch, Work, Repos
<1>4. CASE path = "old"
  <2>1. at.new = "feature" /\ at'.new = "feature" /\ at'.old = "other"
    BY <1>0, <1>1, <1>4 DEF Sound, HallSound, Names
  <2>2. \A q \in Runs : Anchored(q) => Anchored(q)'
    BY <1>0, <2>1 DEF Anchored, Undone
  <2>3. \A q \in Runs : DoneByRun(q) /\ run[q].t = t => DoneByRun(q)'
    <3>1. \A step, i : Carries(step, i, Toward(t)) => Carries(step, i, Toward(t))'
      <4>1. Toward(t) = "old" \/ Toward(t) = "new"
        BY DEF Toward
      <4>2. \A i : DirCarries(i, Toward(t)) => DirCarries(i, Toward(t))'
        BY <1>0, <1>1, <4>1, IdentityIs DEF DirCarries, Identity, NewName, NewBranch, Names
      <4> QED BY <1>0, <4>2 DEF Carries, Identity, NewName, NewBranch
    <3> QED BY <1>0, <3>1 DEF DoneByRun, Toward, Work, Repos
  <2> QED BY <1>0, <1>2, <1>3, <2>1, <2>2, <2>3, MovingNext DEF Moving
<1>5. CASE path = "new" /\ want.name /\ ~ Undone(t)
  <2>1. at.old = "feature" /\ at'.old = "feature" /\ at'.new = "other"
    BY <1>0, <1>1, <1>5 DEF Sound, HallSound, Names
  <2>2. Dir("old")' = "feature"
    BY <2>1 DEF Dir, Real
  <2>3. ~ Undone(marker[Dir("old")])' /\ marker'[Dir("old")'] = t
    BY <1>0, <1>5, <2>2 DEF Undone
  <2>4. \A id \in Names : at'[id] \in {"feature", "other"}
    BY <2>1 DEF Names
  <2>5. \A q \in Runs : run'[q].pc # "planned" /\ (run'[q].pc = "work" => run'[q].t = t)
    BY <1>0 DEF Moving
  <2> QED BY <1>0, <1>2, <1>5, <2>3, <2>4, <2>5 DEF Stuck
<1>6. CASE path = "new" /\ (~ want.name \/ Undone(t))
  <2>1. at.old = "feature" /\ at'.old = "feature" /\ at.new = "absent"
    BY <1>0, <1>1, <1>6 DEF Sound, HallSound, Names
  <2>2. \A q \in Runs : Anchored(q) => Anchored(q)'
    BY <1>0, <2>1 DEF Anchored, Undone
  <2>3. \A q \in Runs : DoneByRun(q) /\ run[q].t = t => DoneByRun(q)'
    <3>1. \A step, i : Carries(step, i, Toward(t)) => Carries(step, i, Toward(t))'
      <4>1. Toward(t) = "old" \/ Toward(t) = "new"
        BY DEF Toward
      <4>2. \A i : DirCarries(i, Toward(t)) => DirCarries(i, Toward(t))'
        BY <1>0, <1>1, <4>1, IdentityIs DEF DirCarries, Identity, NewName, NewBranch, Names
      <4> QED BY <1>0, <4>2 DEF Carries, Identity, NewName, NewBranch
    <3> QED BY <1>0, <3>1 DEF DoneByRun, Toward, Work, Repos
  <2> QED BY <1>0, <1>2, <1>3, <1>6, <2>1, <2>2, <2>3, MovingNext DEF Moving
<1> QED BY <1>4, <1>5, <1>6 DEF Names

(* Colleagues only add commits, and to a branch that is there or to the    *)
(* new one.                                                                *)
LEMMA MovingPush ==
  ASSUME Sound, Moving, NEW r \in Repos, NEW branch \in Names, ColleaguePushes(r, branch)
  PROVE  Moving'
<1> PICK t \in Transitions : t = marker["feature"]
  BY MovingIs
<1>0. UNCHANGED <<want, at, record, local, tree, kids, views, marker, run>>
  BY DEF ColleaguePushes, SetRemote
<1>1. /\ \A q \in Repos, b \in Names : remote[q][b] \subseteq remote'[q][b]
      /\ \A q \in Repos : remote[q].old = {} => remote'[q].old = {}
  BY DEF ColleaguePushes, SetRemote, Sound, RenameTypeOK, Names
<1>2. \A q \in Repos : /\ remote[q].old \subseteq remote'[q].old
                     /\ remote[q].new \subseteq remote'[q].new
  BY <1>1 DEF Names
<1>3. Placed(t)' /\ StillPublished(t)
  BY <1>0, KeptPlaced DEF Moving
<1>4. StillPublished(t)'
  BY <1>0, <1>1, <1>2, <1>3 DEF StillPublished, Repos
<1>5. \A q \in Runs : Anchored(q) => Anchored(q)'
  BY <1>0 DEF Anchored, Undone
<1>6. \A q \in Runs : DoneByRun(q) => DoneByRun(q)'
  BY <1>0, <1>2 DEF DoneByRun, Carries, DirCarries, Identity, NewName, NewBranch, Toward, Work, Repos
<1> QED BY <1>0, <1>3, <1>4, <1>5, <1>6, MovingNext DEF Moving

(* The last run of a transition leaves the hall with one identity.         *)
LEMMA MovingOver ==
  ASSUME Sound, OneRun, Moving, NEW p \in Runs, RolledBack(p) \/ Renamed(p)
  PROVE  Rests'
<1> PICK t \in Transitions : t = marker["feature"]
  BY MovingIs
<1>0. /\ UNCHANGED <<want, at, record, local, tree, remote, kids, views>> /\ Placed(t) /\ Ends(p)
  BY DEF RolledBack, Renamed, disk, Moving
<1>1. /\ run'[p].pc = "idle" /\ \A q \in Runs : q = p
  BY <1>0, RunEnds DEF Sound, OneRun
<1>2. PICK id \in Names, path \in Names : /\ Wholly(id) /\ Unmark(path)
                                        /\ IsDir(path) /\ Dir(path) = "feature"
  <2>1. CASE RolledBack(p)
    <3>1. Undone(t) /\ run[p].anchor = "old"
      BY <2>1 DEF RolledBack, Through, Moving, Anchored
    <3>2. Whole("old") /\ at.old = "feature"
      BY <1>0, <3>1, PlacedIs, StepNumbers DEF Undone
    <3>3. at.new \in {"absent", "other"}
      BY <3>2 DEF Sound, HallSound
    <3>4. Wholly("old") /\ Unmark("old")
      BY <2>1, <3>1, <3>2, <3>3, WhollyIs, IdentityIs DEF RolledBack, Names
    <3>5. IsDir("old") /\ Dir("old") = "feature"
      BY <3>2, DirIs DEF Sound, RenameTypeOK, Names
    <3> QED BY <3>4, <3>5 DEF Names
  <2>2. CASE Renamed(p)
    <3>1. t.step = 8 /\ at.old # "link" /\ t.direction = "forward"
      BY <2>2, StepNumbers DEF Renamed, Moving
    <3>2. Whole("new") /\ at[NewName] = "feature"
      BY <1>0, <3>1, PlacedIs
    <3>3. \A q \in Names \ {NewName} : at[q] \in {"absent", "other"}
      BY <3>1, <3>2, IdentityIs DEF Sound, HallSound, Names
    <3>4. Wholly("new") /\ Unmark(MarkerPath)
      BY <2>2, <3>2, <3>3, WhollyIs, IdentityIs DEF Renamed, Names
    <3>5. MarkerPath \in Names /\ IsDir(MarkerPath) /\ Dir(MarkerPath) = "feature"
      <4>1. CASE want.name
        BY <3>2, <4>1, DirIs, IdentityIs DEF MarkerPath, Sound, RenameTypeOK, Names
      <4>2. CASE ~ want.name
        BY <3>2, <4>2, DirIs, IdentityIs DEF MarkerPath, Sound, RenameTypeOK, Names
      <4> QED BY <4>1, <4>2
    <3> PICK path \in Names : path = MarkerPath
      BY <3>5
    <3> QED BY <3>4, <3>5 DEF Names
  <2> QED BY <2>1, <2>2
<1>3. Wholly(id)'
  BY <1>0, <1>2 DEF Wholly, Identity, NewName, NewBranch, Repos, Kids, Sessions, Names
<1>4. Unmarked'
  <2>1. /\ marker' \in [{"feature", "old", "new"} -> Transitions \cup {Nothing}]
        /\ marker'["feature"] = Nothing
        /\ marker'["old"] = marker["old"] /\ marker'["new"] = marker["new"]
    BY <1>2, UnmarkType DEF Sound
  <2>2. marker["old"] = Nothing /\ marker["new"] = Nothing
    BY DEF Moving
  <2> QED BY <2>1, <2>2 DEF Unmarked
<1>5. id = "old" \/ id = "new"
  BY DEF Names
<1>6. \A q \in Runs : run'[q].pc = "idle"
  BY <1>1
<1> QED BY <1>3, <1>4, <1>5, <1>6 DEF Rests, AtRest

LEMMA MovingUnlink ==
  ASSUME Sound, OneRun, Moving, NEW p \in Runs, Unlink(p)
  PROVE  Moving'
<1> PICK t \in Transitions : t = marker["feature"]
  BY MovingIs
<1>0. /\ UNCHANGED <<want, record, local, tree, remote, kids, views, marker>>
      /\ run[p].pc = "work" /\ run[p].t = t /\ t.step = 8 /\ t.direction = "forward"
      /\ Placed(t) /\ StillPublished(t) /\ \A q \in Runs : q = p
  BY StepNumbers DEF Unlink, Through, Moving, OneRun
<1>1. /\ run'[p].pc = "unlinked" /\ run'[p].t = t
  <2>1. run[p] \in RunStates /\ run \in [Runs -> RunStates]
    BY DEF Sound, RenameTypeOK
  <2>2. run' = [run EXCEPT ![p] = [run[p] EXCEPT !.pc = "unlinked"]]
    BY DEF Unlink
  <2> QED BY <1>0, <2>1, <2>2 DEF RunStates
<1>2. /\ at'.old # "link" /\ at'.new = at.new
      /\ at'.old = "feature" <=> at.old = "feature"
  BY DEF Unlink, Sound, RenameTypeOK, HallSound, Names
<1>3. Placed(t)'
  <2>1. \A step \in 0 .. 8 : \A i \in Work(step) : step < 8 => Carries(step, i, "new")
    BY <1>0, StepNumbers DEF Placed
  <2>2. \A step \in 0 .. 8 : \A i \in Work(step) : step < 8 => Carries(step, i, "new")'
    <3>1. \A i : DirCarries(i, "new") => DirCarries(i, "new")'
      BY <1>0, <1>2 DEF DirCarries, Identity, NewName, NewBranch
    <3> QED BY <1>0, <2>1, <3>1 DEF Carries, Identity, NewName, NewBranch
  <2>3. \A step \in 0 .. 8 : ~ (step > 8)
    OBVIOUS
  <2> QED BY <1>0, <2>2, <2>3, StepNumbers DEF Placed, Work, Repos
<1>4. StillPublished(t)'
  BY <1>0, KeptPublished
<1>5. want.name /\ at'.old = "feature" /\ at'.new = "other" => Undone(t)
  BY <1>2 DEF Moving
<1>6. marker'["old"] = Nothing /\ marker'["new"] = Nothing /\ marker'["feature"] = t
  BY <1>0 DEF Moving
<1> QED BY <1>0, <1>1, <1>2, <1>3, <1>4, <1>5, <1>6, StepNumbers, MovingNext

LEMMA MovingStep ==
  ASSUME Sound, OneRun, Moving, [RenameNext]_renameVars
  PROVE  Rests' \/ Moving' \/ Stuck'
<1>1. ASSUME NEW p \in Runs, Preflight(p) PROVE FALSE
  <2>1. Dir("old") = "feature" \/ Dir("new") = "feature"
    BY DirIs DEF Sound, RenameTypeOK, HallSound
  <2>2. (IsDir("old") /\ Dir("old") = "feature") \/ (IsDir("new") /\ Dir("new") = "feature")
    BY <2>1, NothingAssumption DEF IsDir
  <2> QED BY <1>1, <2>2 DEF Preflight, Marked, Moving, Names
<1>2. ASSUME NEW p \in Runs, Start(p) PROVE FALSE
  BY <1>2 DEF Start, Moving
<1>3. ASSUME NEW p \in Runs, Operate(p) PROVE Moving' \/ Stuck'
  <2>1. UNCHANGED want
    BY <1>3 DEF Operate
  <2> QED BY <1>3, <2>1, MovingBranches, MovingRemote, MovingDir, MovingReferrers DEF Operate
<1>4. ASSUME NEW p \in Runs, Fault(p) PROVE Moving' \/ Stuck'
  <2> PICK t \in Transitions : t = marker["feature"]
    BY MovingIs
  <2>0. run[p].pc = "work" /\ run[p].todo # {} /\ MayFail(p) /\ UNCHANGED want /\ run[p].t = t
    BY <1>4 DEF Fault, Moving
  <2>1. CASE Fails(p)
    BY <2>0, <2>1, MovingFails DEF MayFail
  <2>2. CASE /\ run[p].t.step = RemoteOps /\ run[p].t.direction = "back" /\ PartOf(p) = 3
             /\ Done(p) /\ UNCHANGED disk
    <3>1. /\ RepoOf(p) \in Repos /\ Op(p) = 3 * (RepoOf(p) - 1) + PartOf(p) /\ Op(p) \in run[p].todo
      BY <2>0, <2>2, RemoteFacts
    <3> PICK r \in Repos : r = RepoOf(p)
      BY <3>1
    <3> PICK op : op = Op(p)
      OBVIOUS
    <3>2. r \in Nat /\ op = 3 * r
      BY <2>2, <3>1, RenameConstants DEF Repos
    <3>3. Skips(p, {op}) /\ {op} \subseteq run[p].todo /\ {op} \in SUBSET {3 * r - 2, 3 * r - 1, 3 * r}
      BY <2>2, <3>1, <3>2, DoneSkips
    <3>4. UNCHANGED <<want, at, record, local, tree, remote, kids, views>>
      BY <2>0, <2>2 DEF disk
    <3>5. 3 * r - 2 \in Work(RemoteOps) /\ 3 * r - 2 # op
      BY <3>2, WorkIs, RenameConstants DEF Repos
    <3>6. want.branch =>
            /\ remote[r].old # {} => t.tips[r] \subseteq remote[r].old
            /\ 3 * r - 2 \notin run[p].todo \ {op} => t.tips[r] \subseteq remote[r].old
      BY <2>0, <2>2, <3>5 DEF Moving, StillPublished, DoneByRun
    <3> QED BY <2>0, <2>2, <3>3, <3>4, <3>6, StepNumbers, MovingRepo
  <2> QED BY <1>4, <2>1, <2>2 DEF Fault
<1>5. ASSUME NEW p \in Runs, Crash(p) PROVE Moving'
  BY <1>5, MovingEnds DEF Crash
<1>6. ASSUME UNCHANGED renameVars PROVE Moving'
  BY <1>6 DEF renameVars, Moving, Placed, StillPublished, DoneByRun, Anchored, Carries, DirCarries, Identity,
     NewName, NewBranch, Toward, Work, Repos, Undone
<1> QED BY <1>1, <1>2, <1>3, <1>4, <1>5, <1>6, MovingResume, MovingAdvance, MovingUnlink, MovingOver,
           MovingCreate, MovingPush DEF RenameNext, RunStep

-----------------------------------------------------------------------------
(* The specification.                                                      *)

LEMMA RenameStarts ==
  ASSUME RenameInit
  PROVE  RenameIInv
<1>1. /\ want \in [name : BOOLEAN, branch : BOOLEAN] /\ (want.name \/ want.branch)
      /\ at = [old |-> "feature", new |-> "absent"]
      /\ record = Identity("old") /\ tree = [r \in Repos |-> "old"]
      /\ kids = [k \in Kids |-> "old"] /\ views = [s \in Sessions |-> "old"] /\ layers = "old"
      /\ marker = [d \in {"feature", "old", "new"} |-> Nothing] /\ run = [p \in Runs |-> NoRun]
      /\ spent = [pushes |-> 0, crashes |-> 0, faults |-> 0]
  BY DEF RenameInit
<1>2. PICK taken : local = [r \in Repos |->
        [old |-> "ours", new |-> IF r = RepoCount /\ taken # {} THEN "theirs" ELSE "none"]]
  BY DEF RenameInit
<1>3. local \in [Repos -> [Names -> {"ours", "theirs", "none"}]]
      /\ \A r \in Repos : local[r].old = "ours" /\ local[r].new \in {"none", "theirs"}
  BY <1>2 DEF Names
<1>4. remote \in [Repos -> [Names -> SUBSET Commits]]
  <2>0. \E published \in SUBSET Repos, foreign \in SUBSET (Foreign \cap {"remote"}) :
          remote = [r \in Repos |->
            [old |-> IF r \in published THEN {0} ELSE {},
             new |-> IF r = RepoCount /\ foreign # {} THEN {MaxPushes + 1} ELSE {}]]
    BY DEF RenameInit
  <2>1. PICK published \in SUBSET Repos, foreign \in SUBSET (Foreign \cap {"remote"}) :
          remote = [r \in Repos |->
            [old |-> IF r \in published THEN {0} ELSE {},
             new |-> IF r = RepoCount /\ foreign # {} THEN {MaxPushes + 1} ELSE {}]]
    BY <2>0
  <2>2. 0 \in Commits /\ MaxPushes + 1 \in Commits
    BY RenameConstants DEF Commits
  <2> QED BY <2>1, <2>2 DEF Names
<1>5. NoRun \in RunStates /\ NoRun.pc = "idle" /\ NoRun.todo = {} /\ NoRun.t.direction = "forward"
      /\ NoRun.t.step = Initialize
  <2>1. NoTips \in [Repos -> SUBSET Commits]
    BY DEF NoTips
  <2>2. NoRun.t \in Transitions
    BY <2>1, StepNumbers DEF NoRun, Transitions
  <2>3. {} \in UNION {SUBSET Work(s) : s \in Initialize .. Finish}
    BY TodoType
  <2> QED BY <2>2, <2>3 DEF NoRun, RunStates, Names
<1>6. RenameTypeOK
  <2>1. at \in [Names -> {"feature", "link", "other", "absent"}]
    BY <1>1 DEF Names
  <2>2. spent \in [pushes : 0 .. MaxPushes, crashes : 0 .. MaxCrashes, faults : 0 .. MaxFaults]
    BY <1>1, RenameConstants
  <2>3. marker \in [{"feature", "old", "new"} -> Transitions \cup {Nothing}]
    BY <1>1
  <2>4. run \in [Runs -> RunStates]
    BY <1>1, <1>5
  <2>5. /\ tree \in [Repos -> Names] /\ kids \in [Kids -> Names] /\ views \in [Sessions -> Names]
        /\ layers \in Names
    BY <1>1 DEF Names
  <2>6. want \in [name : BOOLEAN, branch : BOOLEAN] /\ record \in {Identity("old"), Identity("new")}
    BY <1>1
  <2> QED BY <1>3, <1>4, <2>1, <2>2, <2>3, <2>4, <2>5, <2>6 DEF RenameTypeOK
<1>7. HallSound
  BY <1>1, <1>3 DEF HallSound
<1>8. \A p \in Runs : RunSound(p)
  BY <1>1, <1>5 DEF RunSound
<1>9. Rests
  <2>1. Wholly("old")
    BY <1>1, <1>3, IdentityIs DEF Wholly, Names
  <2>2. AtRest
    BY <1>1, <1>5 DEF AtRest, Unmarked
  <2> QED BY <1>1, <1>5, <2>1, <2>2 DEF Rests
<1> QED BY <1>6, <1>7, <1>8, <1>9 DEF RenameIInv

LEMMA RenameKeeps ==
  ASSUME OneRun, RenameIInv, [RenameNext]_renameVars
  PROVE  RenameIInv'
<1>1. Sound /\ (Rests \/ Moving \/ Stuck)
  BY DEF RenameIInv, Sound
<1>2. RenameTypeOK' /\ (\A p \in Runs : RunSound(p)') /\ HallSound'
  BY <1>1, RenameTypeStep, HallStep
<1>3. Rests' \/ Moving' \/ Stuck'
  BY <1>1, RestsStep, MovingStep, StuckStep
<1> QED BY <1>2, <1>3 DEF RenameIInv

(* mod.rs, resume_rename and apply_transition: with one run of the command *)
(* at a time, the hall rests, or one marker says how far it has moved, or  *)
(* another feature has taken a name under the rename.                      *)
THEOREM RenameAlwaysIInv ==
  ASSUME OneRun
  PROVE  RenameSpec => []RenameIInv
<1> QED BY RenameStarts, RenameKeeps, PTL DEF RenameSpec

(* mod.rs, "moves together, or none of it does": with one run at a time,   *)
(* and whatever crashes, failures, reruns, pushes and other features there *)
(* are, a hall without a marker has one identity everywhere.               *)
THEOREM RenameMovesTogether ==
  ASSUME OneRun
  PROVE  RenameSpec => []RenameInv
<1>1. ASSUME RenameIInv PROVE RenameInv
  <2>1. Sound /\ RenameTypeOK /\ (Rests \/ Moving \/ Stuck)
    BY <1>1 DEF RenameIInv, Sound
  <2>2. ASSUME AtRest PROVE Rests
    <3>1. DOMAIN marker = {"feature", "old", "new"}
      BY <2>1 DEF RenameTypeOK
    <3>2. \A d \in {"feature", "old", "new"} : marker[d] = Nothing
      BY <2>2, <3>1 DEF AtRest, Unmarked
    <3>3. ~ Moving
      BY <3>2 DEF Moving
    <3>4. ~ Stuck
      BY <2>1, <3>2, StuckIs, NothingAssumption
    <3> QED BY <2>1, <3>3, <3>4
  <2> QED BY <2>1, <2>2 DEF RenameInv, MovesTogether, Rests
<1> QED BY <1>1, RenameAlwaysIInv, PTL

(* remote.rs, apply_remote_op and undo_remote_op: with one run at a time,  *)
(* and no other feature under the two names, a rename that ends, done or   *)
(* undone, leaves the commits the plan found published.                    *)
THEOREM RenamePublishes ==
  ASSUME OneRun
  PROVE  RenameSpec => NothingUnpublished
<1> DEFINE Keeps == \A p \in Runs, r \in Repos : want.branch /\ Undisturbed =>
             /\ Renamed(p) => run[p].t.tips[r] \subseteq remote[r].new
             /\ RolledBack(p) => run[p].t.tips[r] \subseteq remote[r].old
<1>1. ASSUME RenameIInv PROVE Keeps
  <2> SUFFICES ASSUME NEW p \in Runs, NEW r \in Repos, want.branch, Undisturbed,
                      Renamed(p) \/ RolledBack(p)
               PROVE  /\ Renamed(p) => run[p].t.tips[r] \subseteq remote[r].new
                      /\ RolledBack(p) => run[p].t.tips[r] \subseteq remote[r].old
    OBVIOUS
  <2>1. /\ Renamed(p) => run[p].pc = "unlinked"
        /\ RolledBack(p) => run[p].pc = "work" /\ Undone(run[p].t)
    BY DEF Renamed, RolledBack, Through
  <2>2. ~ Rests
    BY <2>1 DEF Rests, AtRest
  <2>3. ~ Stuck
    BY <1>1, StuckIs DEF RenameIInv, HallSound, Undisturbed, Stuck, Names
  <2>4. Moving
    BY <1>1, <2>2, <2>3 DEF RenameIInv
  <2> PICK t : t = marker["feature"]
    OBVIOUS
  <2>5. StillPublished(t) /\ (run[p].pc = "unlinked" => run[p].t = t /\ t.step = Finish)
        /\ (run[p].pc = "work" => run[p].t = t)
    BY <2>4 DEF Moving
  <2>6. Renamed(p) => t.tips[r] \subseteq remote[r].new
    BY <2>1, <2>5, StepNumbers DEF StillPublished
  <2>7. RolledBack(p) => t.tips[r] \subseteq remote[r].old
    BY <2>1, <2>5, StepNumbers DEF StillPublished, Undone
  <2> QED BY <2>1, <2>5, <2>6, <2>7
<1>2. RenameIInv => [Keeps]_renameVars
  BY <1>1
<1> HIDE DEF Keeps
<1>3. RenameSpec => [][Keeps]_renameVars
  BY <1>2, RenameAlwaysIInv, PTL
<1> QED BY <1>3 DEF NothingUnpublished, Keeps

=============================================================================
