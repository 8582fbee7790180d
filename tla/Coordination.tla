---------------------------- MODULE Coordination ----------------------------
(***************************************************************************)
(* Handoffs and messages between the agents of one hall: two tables of     *)
(* memory.db, written by the memory server of every session, by the ivar   *)
(* command and by the sweep, without memory.lock                           *)
(* (action/memory/coordination, store/memory/coordination.rs,              *)
(* action/memory/sweep.rs).                                                *)
(*                                                                         *)
(* A claim reads the clock, chooses a row, updates it if it is still free, *)
(* records an event and answers with the content; a caller may stall or be *)
(* killed between any two of these.                                        *)
(***************************************************************************)
EXTENDS Integers, FiniteSets

CONSTANTS
  Callers,     \* processes: memory servers, and the ivar command
  Owner,       \* [Callers -> key]: the session's id, else the server's own key
  Session,     \* [Callers -> key or Unset]
  Provider,    \* [Callers -> provider]
  Feature,     \* [Callers -> feature or Unset]
  Terminals,   \* the callers that are the ivar command
  Offers,      \* what is written: [table, queue, kind, to]
  Ids,         \* uuids
  Hall,        \* the hall queue
  Lifetime,    \* memory.handoff_ttl_days
  Retention,   \* TERMINAL_RETENTION_DAYS
  MaxClock,    \* bound: the clock
  MaxKills,    \* bound: processes killed
  Unset, Gone  \* a row never written, and one deleted

OwnerKeys == {Owner[p] : p \in Callers}
Providers == {Provider[p] : p \in Callers}
Features  == {Feature[p] : p \in Callers} \ {Unset}

ASSUME CoordinationAssumption ==
  /\ IsFiniteSet(Ids)
  /\ Lifetime \in Nat \ {0} /\ Retention \in Nat /\ MaxClock \in Nat /\ MaxKills \in Nat
  /\ Terminals \subseteq Callers
  /\ Hall \notin Features
  /\ Offers \subseteq
       [table : {"handoffs", "messages"}, queue : Features \cup {Hall},
        kind : {"", "provider", "session"}, to : Providers \cup OwnerKeys \cup {Unset}]

VARIABLES
  clock,
  row,       \* [Ids -> row, Unset or Gone]: both tables
  call,      \* [Callers -> the call the process is in]
  sweeper,   \* the sweep of the lease holder's worker
  events,    \* the ends that reached the spool: accepted or popped, cancelled, expired
  given,     \* history: [Ids -> how many calls were answered with the content]
  kills

coordinationVars == <<clock, row, call, sweeper, events, given, kills>>

Instants  == 0 .. MaxClock
States == {"open", "claimed", "cancelled", "expired"}  \* open is pending, claimed accepted or popped
Rows ==
  [offer : Offers, owner : OwnerKeys, state : States,
   expires : 0 .. MaxClock + Lifetime, by : OwnerKeys \cup {Unset},
   closed : 0 .. MaxClock + Lifetime]

(* What stands for a row not yet written, and for one deleted, is no row.  *)
ASSUME NoRowAssumption == Unset \notin Rows /\ Gone \notin Rows /\ Unset # Gone

NoCall == [pc |-> "idle", at |-> 0, want |-> Unset, event |-> Unset]

CoordinationInit ==
  /\ clock = 0
  /\ row = [i \in Ids |-> Unset]
  /\ call = [p \in Callers |-> NoCall]
  /\ sweeper = [pc |-> "idle", at |-> 0, expired |-> {}]
  /\ events = {}
  /\ given = [i \in Ids |-> 0]
  /\ kills = 0

-----------------------------------------------------------------------------
(* Who sees a row, and who may take it.                                    *)

Addressed(p, o) ==
  \/ o.kind = ""
  \/ o.kind = "provider" /\ Provider[p] = o.to
  \/ o.kind = "session" /\ Session[p] # Unset /\ Session[p] = o.to

Sees(p, o) == o.queue \in {Hall, Feature[p]} /\ Addressed(p, o)

IsStored(i) == row[i] \notin {Unset, Gone}

Live(i, at) == IsStored(i) /\ row[i].state = "open" /\ row[i].expires > at

VisibleTo(p, at) == {i \in Ids : Live(i, at) /\ Sees(p, row[i].offer)}

-----------------------------------------------------------------------------
(* Writing a row, and taking it back.                                      *)

Event(i, what, p) == [id |-> i, what |-> what, by |-> Owner[p]]

Then(p, event) == call' = [call EXCEPT ![p] = [NoCall EXCEPT !.pc = "report", !.event = event]]

Ends(p) == call' = [call EXCEPT ![p] = NoCall]

(* memory_handoff_begin, memory_message_send and ivar memory handoff begin.*)
Begin(p) ==
  /\ call[p].pc = "idle"
  /\ \E i \in Ids, o \in Offers :
       /\ row[i] = Unset
       /\ p \in Terminals => o.table = "handoffs"
       /\ row' = [row EXCEPT ![i] =
            [offer |-> o, owner |-> Owner[p], state |-> "open",
             expires |-> clock + Lifetime, by |-> Unset, closed |-> 0]]
  /\ UNCHANGED <<clock, call, sweeper, events, given, kills>>

ClosedAs(i, state, by, at) ==
  [row[i] EXCEPT !.state = state, !.by = by, !.closed = at]

MayCancel(p, i) == row[i].state = "open" /\ (p \in Terminals \/ row[i].owner = Owner[p])

(* By id: a handoff, of any owner from the terminal; or a message sent.    *)
Cancel(p) ==
  /\ call[p].pc = "idle"
  /\ \E i \in Ids :
       /\ IsStored(i)
       /\ p \in Terminals => row[i].offer.table = "handoffs"
       /\ MayCancel(p, i)
       /\ row' = [row EXCEPT ![i] = ClosedAs(i, "cancelled", Unset, clock)]
       /\ IF row[i].offer.table = "handoffs"
            THEN Then(p, Event(i, "cancelled", p))
            ELSE UNCHANGED call
  /\ UNCHANGED <<clock, sweeper, events, given, kills>>

(* memory_message_cancel without an id: every pending message of the sender.*)
CancelAll(p) ==
  LET mine == {i \in Ids : IsStored(i) /\ row[i].offer.table = "messages"
                             /\ row[i].owner = Owner[p] /\ row[i].state = "open"} IN
  /\ call[p].pc = "idle" /\ p \notin Terminals
  /\ mine # {}
  /\ row' = [i \in Ids |-> IF i \in mine THEN ClosedAs(i, "cancelled", Unset, clock) ELSE row[i]]
  /\ UNCHANGED <<clock, call, sweeper, events, given, kills>>

-----------------------------------------------------------------------------
(* A claim: memory_handoff_accept and memory_message_pop.                  *)

(* The row named, or else the newest handoff or the oldest message, is read *)
(* at the time just read; since a call may name any visible row, it may    *)
(* name that one. Without a row the call answers none_pending, or          *)
(* already_claimed for a claimed row it named: nothing changes.            *)
Choose(p) ==
  /\ call[p].pc = "idle" /\ p \notin Terminals
  /\ \E i \in VisibleTo(p, clock) :
       call' = [call EXCEPT ![p] = [NoCall EXCEPT !.pc = "claim", !.at = clock, !.want = i]]
  /\ UNCHANGED <<clock, row, sweeper, events, given, kills>>

ClaimsUnexpired(p, i, at) ==  \* mutant: the UPDATE asks for the date only
  IsStored(i) /\ row[i].expires > at

NeedsAddress(p, i, at) ==  \* mutant: the UPDATE forgets that a row may be for anyone
  Live(i, at) /\ row[i].offer.kind # "" /\ Addressed(p, row[i].offer)

MayClaim(p, i, at) == Live(i, at) /\ Addressed(p, row[i].offer)

(* One UPDATE, conditional on what the caller has just read.               *)
Claim(p) ==
  LET i == call[p].want IN
  /\ call[p].pc = "claim"
  /\ \/ /\ MayClaim(p, i, call[p].at)
        /\ row' = [row EXCEPT ![i] = ClosedAs(i, "claimed", Owner[p], call[p].at)]
        /\ Then(p, Event(i, "claimed", p))
     \/ /\ ~ MayClaim(p, i, call[p].at)
        /\ Ends(p)  \* already_claimed
        /\ UNCHANGED row
  /\ UNCHANGED <<clock, sweeper, events, given, kills>>

(* The event goes to the spool, which may refuse it, and the answer to the *)
(* caller.                                                                 *)
Report(p) ==
  LET e == call[p].event IN
  /\ call[p].pc = "report"
  /\ events' \in {events, events \cup {e}}
  /\ given' = IF e.what = "claimed" THEN [given EXCEPT ![e.id] = @ + 1] ELSE given
  /\ Ends(p)
  /\ UNCHANGED <<clock, row, sweeper, kills>>

Dies(p) ==
  /\ call[p].pc # "idle" /\ kills < MaxKills
  /\ kills' = kills + 1
  /\ Ends(p)
  /\ UNCHANGED <<clock, row, sweeper, events, given>>

-----------------------------------------------------------------------------
(* The sweep: overdue rows expire, an event for each handoff, and terminal *)
(* rows are deleted once they are old.                                     *)

SweepStarts ==
  /\ sweeper.pc = "idle"
  /\ sweeper' = [sweeper EXCEPT !.pc = "expire", !.at = clock]
  /\ UNCHANGED <<clock, row, call, events, given, kills>>

HandoffsOnly ==  \* mutant: messages do not expire
  {i \in Ids : IsStored(i) /\ row[i].offer.table = "handoffs"
                 /\ row[i].state = "open" /\ row[i].expires <= sweeper.at}

Overdue == {i \in Ids : IsStored(i) /\ row[i].state = "open" /\ row[i].expires <= sweeper.at}

SweepExpires ==
  /\ sweeper.pc = "expire"
  /\ row' = [i \in Ids |->
       IF i \in Overdue THEN ClosedAs(i, "expired", Unset, row[i].expires) ELSE row[i]]
  /\ sweeper' = [sweeper EXCEPT !.pc = "report",
                                !.expired = {i \in Overdue : row[i].offer.table = "handoffs"}]
  /\ UNCHANGED <<clock, call, events, given, kills>>

SweepReports ==
  /\ sweeper.pc = "report"
  /\ \E told \in SUBSET sweeper.expired :
       events' = events \cup {[id |-> i, what |-> "expired", by |-> Unset] : i \in told}
  /\ sweeper' = [sweeper EXCEPT !.pc = "prune", !.expired = {}]
  /\ UNCHANGED <<clock, row, call, given, kills>>

Prunable ==
  {i \in Ids : IsStored(i) /\ row[i].state # "open" /\ row[i].closed < sweeper.at - Retention}

SweepPrunes ==
  /\ sweeper.pc = "prune"
  /\ row' = [i \in Ids |-> IF i \in Prunable THEN Gone ELSE row[i]]
  /\ sweeper' = [sweeper EXCEPT !.pc = "idle", !.at = 0]
  /\ UNCHANGED <<clock, call, events, given, kills>>

SweepDies ==
  /\ sweeper.pc # "idle" /\ kills < MaxKills
  /\ kills' = kills + 1
  /\ sweeper' = [pc |-> "idle", at |-> 0, expired |-> {}]
  /\ UNCHANGED <<clock, row, call, events, given>>

SweepStep == SweepStarts \/ SweepExpires \/ SweepReports \/ SweepPrunes

ClockTicks ==
  /\ clock < MaxClock
  /\ clock' = clock + 1
  /\ UNCHANGED <<row, call, sweeper, events, given, kills>>

CoordinationNext ==
  \/ \E p \in Callers : \/ Begin(p) \/ Cancel(p) \/ CancelAll(p)
                        \/ Choose(p) \/ Claim(p) \/ Report(p) \/ Dies(p)
  \/ SweepStep \/ SweepDies \/ ClockTicks

CoordinationSpec == CoordinationInit /\ [][CoordinationNext]_coordinationVars

(* The lease holder's worker sweeps every hour, and the clock does not stop.*)
FairSpec == CoordinationSpec /\ WF_coordinationVars(SweepStep) /\ WF_coordinationVars(ClockTicks)

-----------------------------------------------------------------------------
(* Properties.                                                             *)

EndEvents == [id : Ids, what : {"claimed", "cancelled", "expired"}, by : OwnerKeys \cup {Unset}]

CoordinationTypeOK ==
  /\ clock \in Instants
  /\ row \in [Ids -> Rows \cup {Unset, Gone}]
  /\ call \in [Callers -> [pc : {"idle", "claim", "report"}, at : Instants,
                            want : Ids \cup {Unset}, event : EndEvents \cup {Unset}]]
  /\ sweeper \in [pc : {"idle", "expire", "report", "prune"}, at : Instants, expired : SUBSET Ids]
  /\ events \subseteq EndEvents
  /\ given \in [Ids -> Nat]
  /\ kills \in 0 .. MaxKills

Taking(i) == {p \in Callers : call[p].pc = "report" /\ call[p].event.what = "claimed"
                                /\ call[p].event.id = i}

(* mcp-tools.md: accept and pop "claim a row once": its content goes to one *)
(* call of one process, whoever reads, cancels or sweeps at the same time. *)
TakenOnce == \A i \in Ids : given[i] + Cardinality(Taking(i)) <= 1

(* What is handed over is handed to a process of the row's queue, the one  *)
(* it is addressed to, and the row names it.                               *)
ReachesItsAddressee ==
  \A i \in Ids : \A p \in Taking(i) : IsStored(i) =>
    LET o == row[i].offer IN
    /\ row[i].state = "claimed" /\ row[i].by = Owner[p]
    /\ o.queue = Hall \/ o.queue = Feature[p]
    /\ o.kind = "provider" => o.to = Provider[p]
    /\ o.kind = "session" => o.to = Session[p]

(* The record of a row tells one end, and the one it had.                  *)
OneEnding ==
  \A e \in events :
    /\ \A f \in events : f.id = e.id => f = e
    /\ IsStored(e.id) => row[e.id].state = e.what

(* The invariant of the queues: well formed, and each row is given once,   *)
(* to whom it was meant for, and tells the one end it had.                 *)
CoordinationInv == CoordinationTypeOK /\ TakenOnce /\ ReachesItsAddressee /\ OneEnding

(* A claim is refused only for a row that somebody has taken, taken back   *)
(* or expired meanwhile.                                                   *)
LoserLost ==
  [][\A p \in Callers :
       call[p].pc = "claim" /\ call'[p].pc = "idle" /\ kills' = kills
         => ~ Live(call[p].want, clock)]_coordinationVars

(* A row nobody takes or takes back expires: no handoff stays open for good.*)
EveryRowEnds ==
  \A i \in Ids :
    IsStored(i) /\ row[i].state = "open" /\ row[i].expires <= MaxClock
      ~> ~ IsStored(i) \/ row[i].state # "open"

-----------------------------------------------------------------------------
(* The inductive invariant behind CoordinationInv and LoserLost.           *)

(* A call that has chosen a row knows whom the row is for: neither the      *)
(* queue nor the address of a row ever changes.                            *)
ChosenIsSeen ==
  \A p \in Callers : call[p].pc = "claim" =>
    /\ call[p].want \in Ids /\ call[p].at <= clock
    /\ row[call[p].want] # Unset
    /\ IsStored(call[p].want) => Sees(p, row[call[p].want].offer)

Reporting(p) == call[p].pc = "report"

(* The sweep has expired what it still has to report.                      *)
ReportsAreEvents ==
  /\ \A p \in Callers : Reporting(p) => call[p].event \in EndEvents
  /\ sweeper.pc # "report" => sweeper.expired = {}

ExpiredEvent(i) == [id |-> i, what |-> "expired", by |-> Unset]

(* The ends that are in the spool, and those on the way to it.             *)
IsTold(e) ==
  \/ e \in events
  \/ \E p \in Callers : Reporting(p) /\ call[p].event = e
  \/ \E i \in sweeper.expired : e = ExpiredEvent(i)

(* A row whose end is told is over, and has no other.                      *)
ToldIsOver ==
  \A e \in EndEvents : IsTold(e) =>
    /\ row[e.id] # Unset
    /\ IsStored(e.id) => row[e.id].state = e.what
    /\ \A f \in EndEvents : IsTold(f) /\ f.id = e.id => f = e

(* What was given or is about to be was claimed, and by one call.          *)
OneTaker ==
  \A i \in Ids :
    /\ given[i] \in {0, 1}
    /\ given[i] = 1 => row[i] # Unset /\ (IsStored(i) => row[i].state = "claimed")
    /\ \A p \in Taking(i) : given[i] = 0 /\ Taking(i) = {p}

CoordinationIInv ==
  CoordinationTypeOK /\ ChosenIsSeen /\ ReportsAreEvents /\ ToldIsOver /\ OneTaker /\ ReachesItsAddressee

-----------------------------------------------------------------------------
(* What the documentation says and the code does not do.                   *)

(* mcp-tools.md: "A second claim answers already_claimed".                 *)
AlreadyClaimedIsClaimed ==
  [][\A p \in Callers :
       call[p].pc = "claim" /\ call'[p].pc = "idle" /\ kills' = kills
         => IsStored(call[p].want) /\ row[call[p].want].state = "claimed"]_coordinationVars

(* mcp-tools.md: a row expires memory.handoff_ttl_days after it was written.*)
NothingTakenLate ==
  [][\A i \in Ids :
       IsStored(i) /\ row[i].state = "open" /\ row'[i] # row[i] /\ row'[i].state = "claimed"
         => clock < row[i].expires]_coordinationVars

(* mcp-tools.md: "the sweep records handoff.expired".                      *)
ExpiryIsTold ==
  sweeper.pc \in {"idle", "prune"} =>
    \A i \in Ids :
      IsStored(i) /\ row[i].state = "expired" /\ row[i].offer.table = "handoffs"
        => \E e \in events : e.id = i /\ e.what = "expired"
=============================================================================
