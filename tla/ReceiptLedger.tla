--------------------------- MODULE ReceiptLedger ---------------------------
(***************************************************************************)
(* What a child's receipts promise to whoever reads feature.json           *)
(* (src/domain/feature/integration.rs, feature.rs): every repo is out of   *)
(* the feature, promoted without a receipt, or promoted with the receipt   *)
(* of one source.  A first receipt is never a passing one, a receipt keeps *)
(* its source while its checks are run again, a passing receipt is final,  *)
(* and the child closes as integrated once and only over passing receipts. *)
(***************************************************************************)
EXTENDS Integers

CONSTANTS Repos, Sources

VARIABLES
  entry,  \* per repo: NotPromoted, Unreceipted, or its receipt
  closed  \* whether the child is closed as integrated

vars == <<entry, closed>>

NotPromoted == [source |-> 0, state |-> "out"]
Unreceipted == [source |-> 0, state |-> "open"]

Receipt(s, passed) == [source |-> s, state |-> IF passed THEN "passed" ELSE "failed"]

Init ==
  /\ entry = [r \in Repos |-> Unreceipted]
  /\ closed = FALSE

Set(r, e) == entry' = [entry EXCEPT ![r] = e] /\ UNCHANGED closed

Record(r) ==
  /\ entry[r] = Unreceipted
  /\ \E s \in Sources : Set(r, Receipt(s, FALSE))

Verify(r) ==
  /\ entry[r].state = "failed"
  /\ \E passed \in BOOLEAN : Set(r, Receipt(entry[r].source, passed))

Leave(r) ==
  /\ entry[r].state \in {"open", "failed"}
  /\ ~closed
  /\ Set(r, NotPromoted)

(* The first receipt freezes membership. *)
Join(r) ==
  /\ entry[r] = NotPromoted
  /\ \A q \in Repos : entry[q] \in {NotPromoted, Unreceipted}
  /\ ~closed
  /\ Set(r, Unreceipted)

Close ==
  /\ ~closed
  /\ \E r \in Repos : entry[r] # NotPromoted
  /\ \A r \in Repos : entry[r].state \in {"out", "passed"}
  /\ closed' = TRUE
  /\ UNCHANGED entry

Next == Close \/ \E r \in Repos : Record(r) \/ Verify(r) \/ Leave(r) \/ Join(r)

Spec == Init /\ [][Next]_vars

=============================================================================
