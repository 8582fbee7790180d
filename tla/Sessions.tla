------------------------------ MODULE Sessions ------------------------------
(***************************************************************************)
(* The sessions of a hall: start, connect, convert, stop and prune         *)
(* (src/action/session), and the discovery docs they carry                 *)
(* (src/action/discovery).                                                 *)
(*                                                                         *)
(* A session is a View Dir and the record in it.  A discovery session      *)
(* lives in the hall's own tree, a feature session in its feature's tree,  *)
(* and `convert` moves one from the first to the second, step by step,     *)
(* under a `.converting` marker that names the session and the step.  No   *)
(* command takes a lock: they interleave at every file operation, and each *)
(* may die between any two of them and be run again.                       *)
(***************************************************************************)
EXTENDS FiniteSets, Integers

CONSTANTS
  Sids,     \* session ids
  Topics,   \* names people choose for features and discovery docs
  Procs,    \* the commands running at a time
  Outside,  \* the discovery doc written outside any session
  MaxBegun, \* bound: commands begun
  None      \* no doc, no marker, no name

ASSUME SessionsAssumption ==
  /\ Sids \cap Topics = {}
  /\ MaxBegun \in Nat
  /\ Outside \notin Sids \cup Topics
  /\ None \notin Sids \cup Topics \cup {Outside}
  /\ {"discovery", "absent", "bare", "unbound"} \cap (Sids \cup Topics) = {}

(* A session id is a feature name too: the rescue of a doc falls back to it. *)
Names  == Topics \cup Sids
Places == {"discovery"} \cup Names
Docs   == Sids \cup {Outside}  \* a session writes at most one doc

VARIABLES
  view,      \* each session's View Dir at each place, and the record in it
  inside,    \* the doc in each View Dir
  kept,      \* .ivar/features/<name>/discovery.md
  features,  \* the names that have a feature.json
  marker,    \* .ivar/features/<name>/.converting
  used,      \* the session ids given out
  topic,     \* the name in each doc's front matter, None before it is written
  proc,      \* each command's progress
  begun,     \* the commands begun so far
  late,      \* (history) docs written after a stop or a convert looked for one
  marked     \* (history) the sessions a feature's marker ever named

vars == <<view, inside, kept, features, marker, used, topic, proc, begun,
          late, marked>>
disk == <<view, inside, kept, features, marker>>
past == <<used, topic, begun, late, marked>>

Records == {"unbound"} \cup Names
Steps   == {"lift", "move", "update", "rematerialize"}

Markers == [sid : Sids, step : Steps]

(* A feature without a marker cannot be taken for one with.                *)
ASSUME NoMarkerAssumption == None \notin Markers

Pcs == {"idle", "view", "record", "connect", "target", "mark", "lift", "lifted",
        "move", "moved", "update", "updated", "rematerialize", "clear",
        "rescue", "rescueTo", "remove", "reread", "rewrite"}

Idle == [pc |-> "idle", sid |-> None, place |-> None, name |-> None, doc |-> None,
         prunes |-> FALSE, starting |-> FALSE]

Commands == [pc : Pcs, sid : Sids \cup {None}, place : Places \cup {None},
             name : Names \cup {None}, doc : Docs \cup {None},
             prunes : BOOLEAN, starting : BOOLEAN]

TypeOK ==
  /\ view \in [Sids -> [Places -> {"absent", "bare"} \cup Records]]
  /\ inside \in [Sids -> [Places -> Docs \cup {None}]]
  /\ kept \in [Names -> Docs \cup {None}]
  /\ features \subseteq Names
  /\ marker \in [Names -> Markers \cup {None}]
  /\ used \subseteq Sids
  /\ topic \in [Docs -> Topics \cup {None}]
  /\ proc \in [Procs -> Commands]
  /\ begun \in 0 .. MaxBegun
  /\ late \subseteq Docs
  /\ marked \in [Names -> SUBSET Sids]
  \* a doc is in a View Dir that is there
  /\ \A s \in Sids, at \in Places : inside[s][at] # None => view[s][at] # "absent"

Init ==
  /\ view = [s \in Sids |-> [at \in Places |-> "absent"]]
  /\ inside = [s \in Sids |-> [at \in Places |-> None]]
  /\ kept = [n \in Names |-> None]
  /\ features \in SUBSET Topics
  /\ marker = [n \in Names |-> None]
  /\ used = {}
  /\ topic = [d \in Docs |-> None]
  /\ proc = [p \in Procs |-> Idle]
  /\ begun = 0
  /\ late = {}
  /\ marked = [n \in Names |-> {}]

-----------------------------------------------------------------------------
Becomes(p, new) == proc' = [proc EXCEPT ![p] = new]

Begins(p, new) ==
  /\ begun < MaxBegun
  /\ begun' = begun + 1
  /\ Becomes(p, new)

Goes(p, pc) == proc' = [proc EXCEPT ![p].pc = pc]

Ends(p) == Becomes(p, Idle)

At(p, pc) == proc[p].pc = pc

Recorded(s, at) == view[s][at] \in Records

Sees(s, at) == view[s][at] # "absent"

SetView(s, at, v) == view' = [view EXCEPT ![s][at] = v]

(* materialise: the View Dir is there afterwards, its record untouched.    *)
Materialised(s, at) == IF Sees(s, at) THEN view[s][at] ELSE "bare"

(* Killed, or stopped by an error outside this model: a locked promotion,  *)
(* an unknown provider, a file that cannot be written.                     *)
Dies(p) == ~At(p, "idle") /\ Ends(p) /\ UNCHANGED <<disk, past>>

-----------------------------------------------------------------------------
(* session start and session connect.                                      *)

Start(p, s, at) ==
  /\ At(p, "idle")
  /\ s \notin used
  /\ at \in {"discovery"} \cup features
  /\ used' = used \cup {s}
  /\ Begins(p, [Idle EXCEPT !.pc = "view", !.sid = s, !.place = at])
  /\ UNCHANGED <<disk, topic, late, marked>>

MakeView(p) ==
  /\ At(p, "view")
  /\ SetView(proc[p].sid, proc[p].place, Materialised(proc[p].sid, proc[p].place))
  /\ Goes(p, "record")
  /\ UNCHANGED <<inside, kept, features, marker, past>>

(* The write fails when the View Dir is gone.                              *)
WriteRecord(p) ==
  LET s  == proc[p].sid
      at == proc[p].place
  IN
  /\ At(p, "record")
  /\ Sees(s, at)
  /\ SetView(s, at, IF at = "discovery" THEN "unbound" ELSE at)
  /\ Ends(p)
  /\ UNCHANGED <<inside, kept, features, marker, past>>

ConnectFinds(p, s, at) ==
  /\ At(p, "idle")
  /\ Sees(s, at)
  /\ at \in {"discovery"} \cup features
  /\ Begins(p, [Idle EXCEPT !.pc = "connect", !.sid = s, !.place = at])
  /\ UNCHANGED <<disk, used, topic, late, marked>>

ConnectMaterialises(p) ==
  /\ At(p, "connect")
  /\ SetView(proc[p].sid, proc[p].place, Materialised(proc[p].sid, proc[p].place))
  /\ Ends(p)
  /\ UNCHANGED <<inside, kept, features, marker, past>>

-----------------------------------------------------------------------------
(* session convert: find what to do.                                       *)

Pending(s) == {n \in Names : marker[n] # None /\ marker[n].sid = s}

(* A marker that names the session wins over everything else.              *)
ConvertResumes(p, s, n) ==
  /\ At(p, "idle")
  /\ Pending(s) = {n}
  /\ n \in features
  /\ Begins(p, [Idle EXCEPT !.pc = marker[n].step, !.sid = s, !.name = n])
  /\ UNCHANGED <<disk, used, topic, late, marked>>

(* The name is that of the one doc that lists the session.                 *)
NamesOf(s) ==
  {[doc |-> "kept", name |-> n] : n \in {n \in Names : kept[n] = s}}
  \cup IF inside[s]["discovery"] = s THEN {[doc |-> "inside", name |-> topic[s]]} ELSE {}

ConvertResolves(p, s) ==
  /\ At(p, "idle")
  /\ Pending(s) = {}
  /\ {at \in Places : Sees(s, at)} = {"discovery"}
  /\ view[s]["discovery"] = "unbound"
  /\ Cardinality(NamesOf(s)) = 1
  /\ \E owner \in NamesOf(s) :
       Begins(p, [Idle EXCEPT !.pc = "target", !.sid = s, !.name = owner.name])
  /\ UNCHANGED <<disk, used, topic, late, marked>>

(* The feature is created when there is none of that name.                 *)
EnsureFeature(p) ==
  /\ At(p, "target")
  /\ features' = features \cup {proc[p].name}
  /\ Goes(p, "mark")
  /\ UNCHANGED <<view, inside, kept, marker, past>>

-----------------------------------------------------------------------------
(* session convert: the steps, each followed by a write of the marker.     *)

MarksOnceMoved(p, at, step) ==  \* mutant: no marker before there is something to resume
  LET n == proc[p].name IN
  /\ At(p, at)
  /\ marker' = IF step \in {"lift", "move"} THEN marker
               ELSE [marker EXCEPT ![n] = [sid |-> proc[p].sid, step |-> step]]
  /\ marked' = [marked EXCEPT ![n] = @ \cup {proc[p].sid}]
  /\ Goes(p, step)
  /\ UNCHANGED <<view, inside, kept, features, used, topic, begun, late>>

WriteMarker(p, at, step) ==
  LET n == proc[p].name IN
  /\ At(p, at)
  /\ marker' = [marker EXCEPT ![n] = [sid |-> proc[p].sid, step |-> step]]
  /\ marked' = [marked EXCEPT ![n] = @ \cup {proc[p].sid}]
  /\ Goes(p, step)
  /\ UNCHANGED <<view, inside, kept, features, used, topic, begun, late>>

(* Over whatever doc the feature already has.                              *)
LiftDiscovery(p) ==
  LET s == proc[p].sid IN
  /\ At(p, "lift")
  /\ IF inside[s]["discovery"] # None
       THEN /\ kept' = [kept EXCEPT ![proc[p].name] = inside[s]["discovery"]]
            /\ inside' = [inside EXCEPT ![s]["discovery"] = None]
       ELSE UNCHANGED <<kept, inside>>
  /\ Goes(p, "lifted")
  /\ UNCHANGED <<view, features, marker, past>>

MovesByCopy(p) ==  \* mutant: the View Dir is copied and the source left to be stopped
  LET s == proc[p].sid
      n == proc[p].name
  IN
  /\ At(p, "move")
  /\ Sees(s, "discovery") \/ Sees(s, n)
  /\ SetView(s, n, IF Sees(s, n) THEN view[s][n] ELSE view[s]["discovery"])
  /\ Goes(p, "moved")
  /\ UNCHANGED <<inside, kept, features, marker, past>>

(* The rename of one View Dir onto another fails: neither is ever empty.   *)
MoveSession(p) ==
  LET s == proc[p].sid
      n == proc[p].name
  IN
  /\ At(p, "move")
  /\ \/ /\ Sees(s, "discovery")
        /\ ~Sees(s, n)
        /\ view' = [view EXCEPT ![s]["discovery"] = "absent", ![s][n] = view[s]["discovery"]]
        /\ inside' = [inside EXCEPT ![s]["discovery"] = None, ![s][n] = inside[s]["discovery"]]
     \/ /\ ~Sees(s, "discovery")
        /\ Sees(s, n)
        /\ UNCHANGED <<view, inside>>
  /\ Goes(p, "moved")
  /\ UNCHANGED <<kept, features, marker, past>>

(* bind keeps a binding that is already there.                             *)
UpdateState(p) ==
  LET s == proc[p].sid
      n == proc[p].name
  IN
  /\ At(p, "update")
  /\ Recorded(s, n)
  /\ SetView(s, n, IF view[s][n] = "unbound" THEN n ELSE view[s][n])
  /\ Goes(p, "updated")
  /\ UNCHANGED <<inside, kept, features, marker, past>>

Rematerialize(p) ==
  /\ At(p, "rematerialize")
  /\ Recorded(proc[p].sid, proc[p].name)
  /\ Goes(p, "clear")
  /\ UNCHANGED <<disk, past>>

(* The marker is removed by name, whosever it is by now, and the doc is    *)
(* marked as converted.                                                    *)
ClearMarker(p) ==
  /\ At(p, "clear")
  /\ SetView(proc[p].sid, proc[p].name, Materialised(proc[p].sid, proc[p].name))
  /\ marker' = [marker EXCEPT ![proc[p].name] = None]
  /\ Becomes(p, [Idle EXCEPT !.pc = "reread", !.name = proc[p].name])
  /\ UNCHANGED <<inside, kept, features, past>>

ConvertStep(p) ==
  \/ EnsureFeature(p) \/ WriteMarker(p, "mark", "lift")
  \/ LiftDiscovery(p) \/ WriteMarker(p, "lifted", "move")
  \/ MoveSession(p)   \/ WriteMarker(p, "moved", "update")
  \/ UpdateState(p)   \/ WriteMarker(p, "updated", "rematerialize")
  \/ Rematerialize(p) \/ ClearMarker(p)

-----------------------------------------------------------------------------
(* session stop and session prune: end one session.                        *)

StopFinds(p, s, at) ==
  /\ At(p, "idle")
  /\ Sees(s, at)
  /\ Begins(p, [Idle EXCEPT !.pc = "rescue", !.sid = s, !.place = at])
  /\ UNCHANGED <<disk, used, topic, late, marked>>

AnyIsDead(s, at) == Sees(s, at)  \* mutant: prune does not ask for the record

IsDead(s, at) == view[s][at] = "bare"

(* One dead session under a feature with a marker refuses the whole prune. *)
PruneFinds(p, s, at) ==
  /\ At(p, "idle")
  /\ IsDead(s, at)
  /\ \A t \in Sids, n \in Names : IsDead(t, n) => marker[n] = None
  /\ Begins(p, [Idle EXCEPT !.pc = "rescue", !.sid = s, !.place = at, !.prunes = TRUE,
                             !.starting = \E q \in Procs : At(q, "record") /\ proc[q].sid = s])
  /\ UNCHANGED <<disk, used, topic, late, marked>>

(* Where rescue_session_doc may put the doc: the name in its front matter, *)
(* or the session's id.                                                    *)
Target(s) ==
  LET doc == inside[s]["discovery"] IN
  IF doc # None /\ kept[topic[doc]] = None THEN topic[doc] ELSE s

RescueForgotten(p) ==  \* mutant: the View Dir goes with its doc
  /\ At(p, "rescue")
  /\ Goes(p, "remove")
  /\ UNCHANGED <<disk, past>>

RescueLooks(p) ==
  LET s == proc[p].sid IN
  /\ At(p, "rescue")
  /\ IF proc[p].place = "discovery" /\ inside[s]["discovery"] # None
       THEN /\ kept[Target(s)] = None
            /\ Becomes(p, [proc[p] EXCEPT !.pc = "rescueTo", !.name = Target(s)])
       ELSE Goes(p, "remove")
  /\ UNCHANGED <<disk, past>>

RescueMoves(p) ==
  LET s == proc[p].sid IN
  /\ At(p, "rescueTo")
  /\ inside[s]["discovery"] # None
  /\ kept' = [kept EXCEPT ![proc[p].name] = inside[s]["discovery"]]
  /\ inside' = [inside EXCEPT ![s]["discovery"] = None]
  /\ Goes(p, "remove")
  /\ UNCHANGED <<view, features, marker, past>>

(* remove_dir_all, whose failure or death midway may leave any part.       *)
RemoveView(p) ==
  LET s  == proc[p].sid
      at == proc[p].place
  IN
  /\ At(p, "remove")
  /\ \/ /\ SetView(s, at, "absent")
        /\ inside' = [inside EXCEPT ![s][at] = None]
     \/ /\ Sees(s, at)
        /\ SetView(s, at, "bare")
        /\ inside' \in {inside, [inside EXCEPT ![s][at] = None]}
  /\ Ends(p)
  /\ UNCHANGED <<kept, features, marker, past>>

EndStep(p) == RescueLooks(p) \/ RescueMoves(p) \/ RemoveView(p)

-----------------------------------------------------------------------------
(* The discovery docs.                                                     *)

(* A stop has looked for the doc and removes the View Dir next, or a       *)
(* convert is past the step that lifts it.                                 *)
Passed(s) ==
  \/ \E p \in Procs : /\ proc[p].sid = s
                       /\ proc[p].pc \in {"lifted", "move", "rescueTo", "remove"}
  \/ \E n \in Pending(s) : marker[n].step = "move"

(* discovery create, run by the session's agent in its View Dir.           *)
CreateInside(s, n) ==
  /\ topic[s] = None
  /\ Sees(s, "discovery")
  /\ inside[s]["discovery"] = None
  /\ topic' = [topic EXCEPT ![s] = n]
  /\ inside' = [inside EXCEPT ![s]["discovery"] = s]
  /\ late' = IF Passed(s) THEN late \cup {s} ELSE late
  /\ UNCHANGED <<view, kept, features, marker, used, proc, begun, marked>>

(* discovery create, run anywhere else.                                    *)
CreateOutside(n) ==
  /\ topic[Outside] = None
  /\ kept[n] = None
  /\ topic' = [topic EXCEPT ![Outside] = n]
  /\ kept' = [kept EXCEPT ![n] = Outside]
  /\ UNCHANGED <<view, inside, features, marker, used, proc, begun, late, marked>>

(* discovery amend, and the last act of a convert, write back the whole    *)
(* doc they read.                                                          *)
AmendReads(p, s) ==
  /\ At(p, "idle")
  /\ inside[s]["discovery"] # None
  /\ Begins(p, [Idle EXCEPT !.pc = "rewrite", !.sid = s, !.doc = inside[s]["discovery"]])
  /\ UNCHANGED <<disk, used, topic, late, marked>>

RewritesKept(n) == [Idle EXCEPT !.pc = "rewrite", !.name = n, !.doc = kept[n]]

AmendReadsKept(p, n) ==
  /\ At(p, "idle")
  /\ kept[n] # None
  /\ Begins(p, RewritesKept(n))
  /\ UNCHANGED <<disk, used, topic, late, marked>>

MarkReads(p) ==
  /\ At(p, "reread")
  /\ kept[proc[p].name] # None
  /\ Becomes(p, RewritesKept(proc[p].name))
  /\ UNCHANGED <<disk, past>>

Rewrite(p) ==
  LET s == proc[p].sid IN
  /\ At(p, "rewrite")
  /\ \/ /\ s = None
        /\ kept' = [kept EXCEPT ![proc[p].name] = proc[p].doc]
        /\ UNCHANGED inside
     \/ /\ s # None
        /\ Sees(s, "discovery")
        /\ inside' = [inside EXCEPT ![s]["discovery"] = proc[p].doc]
        /\ UNCHANGED kept
  /\ Ends(p)
  /\ UNCHANGED <<view, features, marker, past>>

Next ==
  \/ \E p \in Procs :
       \/ \E s \in Sids, at \in Places :
            Start(p, s, at) \/ ConnectFinds(p, s, at) \/ StopFinds(p, s, at) \/ PruneFinds(p, s, at)
       \/ \E s \in Sids : \/ ConvertResolves(p, s) \/ AmendReads(p, s)
                           \/ \E n \in Names : ConvertResumes(p, s, n)
       \/ \E n \in Names : AmendReadsKept(p, n)
       \/ MakeView(p) \/ WriteRecord(p) \/ ConnectMaterialises(p)
       \/ ConvertStep(p) \/ EndStep(p) \/ MarkReads(p) \/ Rewrite(p) \/ Dies(p)
  \/ \E n \in Topics : CreateOutside(n) \/ \E s \in Sids : CreateInside(s, n)

Spec == Init /\ [][Next]_vars

-----------------------------------------------------------------------------
(* Properties.                                                             *)

(* A session has one record, wherever commands stopped, and a record bound *)
(* to a feature lies in that feature's tree: nobody finds a session twice, *)
(* and none is bound to a feature it is not in.                            *)
OneHome ==
  \A s \in Sids :
    /\ \A at, to \in Places : Recorded(s, at) /\ Recorded(s, to) => at = to
    /\ \A at \in Places : view[s][at] \in Names => view[s][at] = at

(* The invariant of sessions: well formed, each in one place.              *)
SessionsInv == TypeOK /\ OneHome

OnlyConversion(s, n) == marked[n] = {s} /\ \A m \in Names \ {n} : s \notin marked[m]

(* "the `.converting` marker then lets the next attempt resume": a session *)
(* that was moved and not yet bound is named by its feature's marker, as   *)
(* long as no second session was converted into that feature and nobody    *)
(* converted this one into another.                                        *)
HalfMovedResumes ==
  \A s \in Sids, n \in Names :
    view[s][n] = "unbound" /\ OnlyConversion(s, n) => Pending(s) = {n} /\ n \in features

Lies(d) ==
  \/ \E n \in Names : kept[n] = d
  \/ \E s \in Sids, at \in Places : inside[s][at] = d

Namesake(d) == \E e \in Docs \ {d} : topic[e] = topic[d]

(* "removing the View Dir never takes the doc with it": a discovery doc is *)
(* somewhere for good, unless a doc of the same name took its place or it  *)
(* was written behind the back of a stop or a convert.                     *)
DocsKept ==
  \A d \in Docs : topic[d] # None /\ ~Namesake(d) /\ d \notin late => Lies(d)

(* prune removes a session that has a record only if that was being        *)
(* started when prune looked at it.                                        *)
PruneSparesTheLiving ==
  [][\A p \in Procs, s \in Sids, at \in Places :
       /\ At(p, "remove") /\ proc[p].prunes /\ proc[p].sid = s /\ proc[p].place = at
       /\ Recorded(s, at) /\ view'[s][at] # view[s][at]
       => proc[p].starting]_vars

-----------------------------------------------------------------------------
(* The inductive invariant behind SessionsInv, HalfMovedResumes and        *)
(* PruneSparesTheLiving.                                                   *)

Converting == {"target", "mark", "lift", "lifted", "move", "moved", "update", "updated",
               "rematerialize", "clear"}

(* A command has what its next step needs.                                 *)
ArgsOf(r) ==
  /\ r.pc \in {"view", "record", "connect", "rescue", "rescueTo", "remove"}
       => r.sid \in Sids /\ r.place \in Places
  /\ r.pc \in Converting => r.sid \in Sids /\ r.name \in Names
  /\ r.pc \in {"reread", "rescueTo"} => r.name \in Names
  /\ r.pc = "rewrite" => /\ r.doc \in Docs /\ topic[r.doc] # None
                         /\ r.sid = None => r.name \in Names

ArgsGiven == \A p \in Procs : ArgsOf(proc[p])

(* A doc that lies somewhere has been written, with a name in it.          *)
DocsNamed ==
  /\ \A s \in Sids, at \in Places : inside[s][at] # None => topic[inside[s][at]] # None
  /\ \A n \in Names : kept[n] # None => topic[kept[n]] # None

(* A session id nobody was given is nowhere.                               *)
UnusedIsNowhere ==
  \A s \in Sids \ used :
    /\ \A at \in Places : view[s][at] = "absent"
    /\ \A p \in Procs : proc[p].sid # s
    /\ \A n \in Names : s \notin marked[n]

Starts(p, s) == proc[p].pc \in {"view", "record"} /\ proc[p].sid = s

(* A session being started is at most a bare View Dir in its place: no     *)
(* command has found anything of it elsewhere, and none converts it.       *)
StartIsNew ==
  \A s \in Sids, p \in Procs : Starts(p, s) =>
    /\ s \in used
    /\ \A q \in Procs \ {p} : ~Starts(q, s)
    /\ \A at \in Places : ~Recorded(s, at)
    /\ \A at \in Places \ {proc[p].place} : view[s][at] = "absent"
    /\ proc[p].pc = "view" => /\ view[s][proc[p].place] = "absent"
                             /\ \A q \in Procs \ {p} : proc[q].sid # s
    /\ \A q \in Procs : proc[q].sid = s =>
         /\ proc[q].pc \notin Converting
         /\ proc[q].pc = "connect" => proc[q].place = proc[p].place
    /\ \A n \in Names : s \notin marked[n]

(* A discovery session that was not moved has no other View Dir, and no    *)
(* command is about to make one.                                           *)
UnmovedIsAlone ==
  \A s \in Sids : Recorded(s, "discovery") =>
    /\ \A n \in Names : view[s][n] = "absent"
    /\ \A p \in Procs : proc[p].sid = s /\ proc[p].pc = "connect" => proc[p].place = "discovery"

(* A marker names a session that is converted into that feature, and so    *)
(* does a convert from its first marker on.                                *)
MarkersMarked ==
  /\ \A n \in Names : marker[n] # None => marker[n].sid \in marked[n] /\ n \in features
  /\ \A p \in Procs :
       /\ proc[p].pc \in Converting \ {"target"} => proc[p].name \in features
       /\ proc[p].pc \in Converting \ {"target", "mark"} => proc[p].sid \in marked[proc[p].name]

(* No record is left to bind. *)
Settled(s) == \A at \in Places : view[s][at] # "unbound"

(* Past the binding step there is nothing left to bind ...                 *)
BoundIsSettled ==
  /\ \A p \in Procs : proc[p].pc \in {"updated", "rematerialize", "clear"} => Settled(proc[p].sid)
  /\ \A n \in Names : marker[n] # None /\ marker[n].step = "rematerialize" => Settled(marker[n].sid)

(* ... and until then the marker stays.                                    *)
MarkerStays ==
  \A s \in Sids, n \in Names : OnlyConversion(s, n) /\ ~Settled(s) => marker[n] # None

(* A View Dir prune found dead comes to life only if a start was about to  *)
(* write its record.                                                       *)
PrunesTheDead ==
  \A p \in Procs, s \in Sids :
    /\ proc[p].pc \in {"rescue", "rescueTo", "remove"} /\ proc[p].sid = s
    /\ proc[p].prunes /\ ~proc[p].starting
    => /\ ~Recorded(s, proc[p].place)
       /\ proc[p].place \in Names => ~Recorded(s, "discovery")
       /\ \A q \in Procs : ~Starts(q, s)

IInv ==
  /\ TypeOK /\ ArgsGiven /\ DocsNamed /\ OneHome /\ UnusedIsNowhere /\ StartIsNew
  /\ UnmovedIsAlone /\ MarkersMarked /\ BoundIsSettled /\ MarkerStays /\ PrunesTheDead

(* A name holds the doc of that name, or of that session id.               *)
Owns(n, d) == n = topic[d] \/ n = d

(* A command takes a doc where it belongs.                                 *)
OwnedBy(r) ==
  /\ r.pc \in Converting \cup {"rescueTo"} => Owns(r.name, r.sid)
  /\ r.pc = "rewrite" => IF r.sid = None THEN Owns(r.name, r.doc) ELSE r.doc = r.sid

(* A View Dir holds its own session's doc, and so on for names and markers: *)
(* what takes a doc's place has its name.                                  *)
DocsOwned ==
  /\ \A s \in Sids, at \in Places : inside[s][at] \in {s, None}
  /\ \A n \in Names : kept[n] # None => Owns(n, kept[n])
  /\ \A n \in Names : marker[n] # None => Owns(n, marker[n].sid)
  /\ \A p \in Procs : OwnedBy(proc[p])

IsKept(d) == \E n \in Names : kept[n] = d

(* A convert or a stop is about to take the View Dir as it is.             *)
Threatens(r) ==
  \/ r.pc \in {"lifted", "move"}
  \/ r.pc = "remove" /\ r.place = "discovery"

Threatened(s) ==
  \/ \E p \in Procs : proc[p].sid = s /\ Threatens(proc[p])
  \/ \E n \in Names : marker[n] # None /\ marker[n].sid = s /\ marker[n].step = "move"

(* A doc is kept for good, or in a View Dir nobody takes away as it is.    *)
DocsSafe ==
  \A d \in Docs : topic[d] # None /\ ~Namesake(d) /\ d \notin late =>
    \/ IsKept(d)
    \/ d \in Sids /\ inside[d]["discovery"] = d /\ ~Threatened(d)

(* The inductive invariant behind DocsKept, together with IInv.            *)
DocsInv == DocsOwned /\ DocsSafe

-----------------------------------------------------------------------------
(* What the documentation says and the code does not do.                   *)

(* conversion.rs: the marker "then lets the next attempt resume".          *)
EveryConversionResumes ==
  \A s \in Sids, n \in Names : view[s][n] = "unbound" => Pending(s) = {n}

(* commands/discovery.md: "The doc is kept either way".                    *)
NoDocReplaced == \A d \in Docs : topic[d] # None /\ d \notin late => Lies(d)

(* commands/session.md: prune never touches "a session with a readable     *)
(* record".                                                                *)
PruneNeverTouchesRecords ==
  [][\A p \in Procs, s \in Sids, at \in Places :
       At(p, "remove") /\ proc[p].prunes /\ Recorded(s, at) => view'[s][at] = view[s][at]]_vars
=============================================================================
